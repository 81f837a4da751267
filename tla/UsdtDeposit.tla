---------------------------- MODULE UsdtDeposit ----------------------------
(***************************************************************************)
(* On-chain deposits: UsdtDepositService.observe, called by the chain      *)
(* watcher and by a worker's POST, and ChainSweeperPhase0Service.tick,     *)
(* which moves a credited deposit from the user's address to the treasury. *)
(* Both work on the rows of usdt_deposit_events, statement by statement,   *)
(* without a transaction around them; each call is a process here.         *)
(*                                                                         *)
(* A deposit is a Transfer to a known address of at least the dust         *)
(* minimum: observe returns on the others before it touches a table.  Its  *)
(* credit is a journal of LedgerAtomic under a key of the deposit's own,   *)
(* so posting again changes nothing.  The events emitted have no listener  *)
(* that writes, and are left out.  A definition marked Mutant is the one   *)
(* that follows it with a plausible bug.                                   *)
(***************************************************************************)
EXTENDS Integers, FiniteSets

CONSTANTS
    Deposit,
    Sweepable,      \* deposits of at least the minimum sweep amount
    Observer,       \* observe calls that can be in flight
    Sweeper,        \* sweeper ticks that can be in flight
    UiConf,         \* 1 in the code
    LedgerConf,     \* 19 in the code
    BatchLimit,     \* rows one tick selects (20 in the code)
    MaxObserves, MaxTicks, MaxAdmin, MaxFaults     \* bounds

ASSUME DepositAssumption ==
    /\ Deposit # {}
    /\ Sweepable \subseteq Deposit
    /\ Observer \cap Sweeper = {}
    /\ UiConf \in Nat /\ LedgerConf \in Nat
    /\ 0 < UiConf /\ UiConf < LedgerConf
    /\ BatchLimit \in Nat \ {0}
    /\ {MaxObserves, MaxTicks, MaxAdmin, MaxFaults} \subseteq Nat

VARIABLES
    status,         \* usdt_deposit_events.status, "absent" without a row
    conf,           \* its confirmations column
    linked,         \* deposits whose row has a ledger_journal_id and credited_at
    journal,        \* deposits with a deposit_usdt journal
    ripe,           \* deposits credited longer ago than the grace period
    transfers,      \* successful executor calls for each deposit
    paused,         \* deposit_config sweeperPaused
    trxLow,         \* the treasury's TRX is below the minimum stake
    pc,             \* where each call stands
    input,          \* the observation a call was made with
    sawPaused,      \* sweeperPaused as the tick read it
    batch,          \* rows a tick still has to handle
    moved,          \* the row of that batch it has transferred but not yet marked
    counts          \* calls made so far of each bounded kind

deposits == <<status, conf, linked, journal>>
chain == <<ripe, transfers>>
config == <<paused, trxLow>>
sweeping == <<sawPaused, batch, moved>>
vars == <<deposits, chain, config, pc, input, sweeping, counts>>

-----------------------------------------------------------------------------

Status == {"seen", "ui_confirmed", "ledger_credited", "swept", "ignored"}

\* The confirmations of a reorg report are not read.
Observation ==
    {i \in [deposit : Deposit, conf : 0..LedgerConf, reorg : BOOLEAN] :
        i.reorg => i.conf = 0}

Process == Observer \cup Sweeper
Bounded == {"observes", "ticks", "admin", "faults"}

Larger(m, n) == IF m < n THEN n ELSE m
Smaller(m, n) == IF m < n THEN m ELSE n

Goto(p, label) == pc' = [pc EXCEPT ![p] = label]

\* One more call of a bounded kind.
Spend(kind, limit) ==
    /\ counts[kind] < limit
    /\ counts' = [counts EXCEPT ![kind] = @ + 1]

Init ==
    /\ status = [d \in Deposit |-> "absent"]
    /\ conf = [d \in Deposit |-> 0]
    /\ linked = {}
    /\ journal = {}
    /\ ripe = {}
    /\ transfers = [d \in Deposit |-> 0]
    /\ paused = FALSE
    /\ trxLow \in BOOLEAN
    /\ pc = [p \in Process |-> "idle"]
    /\ input = [o \in Observer |-> CHOOSE i \in Observation : TRUE]
    /\ sawPaused = [s \in Sweeper |-> FALSE]
    /\ batch = [s \in Sweeper |-> {}]
    /\ moved = [s \in Sweeper |-> {}]
    /\ counts = [k \in Bounded |-> 0]

-----------------------------------------------------------------------------
(* observe *)

\* What findByTx decides: a credited deposit is answered at once, a reorg of a row voids it.
AfterFind(i) ==
    LET st == status[i.deposit] IN
    CASE st = "ledger_credited" /\ (i.reorg \/ i.deposit \in linked) -> "idle"
      [] i.reorg /\ st \notin {"absent", "ledger_credited"} -> "void"
      [] OTHER -> "upsert"

Find(o, i) ==
    /\ pc[o] = "idle"
    /\ Spend("observes", MaxObserves)
    /\ input' = [input EXCEPT ![o] = i]
    /\ Goto(o, AfterFind(i))
    /\ UNCHANGED <<deposits, chain, config, sweeping>>

\* Mutant: the ledger is credited at the UI threshold.
AfterUpsertEarly(i, st) ==
    CASE i.reorg -> "void"
      [] ~i.reorg /\ i.conf >= UiConf /\ st # "ledger_credited" -> "post"
      [] OTHER -> "idle"

\* Mutant: a row voided by a reorg is not credited when the transfer is included again.
AfterUpsertForgets(i, st) ==
    CASE i.reorg -> "void"
      [] ~i.reorg /\ i.conf >= LedgerConf /\ st \in {"seen", "ui_confirmed"} -> "post"
      [] ~i.reorg /\ i.conf \in UiConf..(LedgerConf - 1)
                  /\ st \in {"seen", "ui_confirmed"} -> "mark"
      [] OTHER -> "idle"

\* What decideDepositStage and the row that came back lead to.
AfterUpsert(i, st) ==
    CASE i.reorg -> "void"
      [] ~i.reorg /\ i.conf >= LedgerConf /\ st # "ledger_credited" -> "post"
      [] ~i.reorg /\ i.conf \in UiConf..(LedgerConf - 1)
                  /\ st \in {"seen", "ui_confirmed"} -> "mark"
      [] OTHER -> "idle"

\* insertSeen and bumpConfirmations: an upsert that returns the row as it now is.
Upsert(o) ==
    LET i == input[o]
        d == i.deposit
        st == IF status[d] = "absent" THEN "seen" ELSE status[d]
    IN  /\ pc[o] = "upsert"
        /\ status' = [status EXCEPT ![d] = st]
        /\ conf' = [conf EXCEPT ![d] = Larger(@, IF i.reorg THEN 0 ELSE i.conf)]
        /\ Goto(o, AfterUpsert(i, st))
        /\ UNCHANGED <<linked, journal, chain, config, input, sweeping, counts>>

\* Mutant: the CASE that keeps ledger_credited is gone.
MarkUiConfirmedPlain(o) ==
    LET d == input[o].deposit IN
    /\ pc[o] = "mark"
    /\ status' = [status EXCEPT ![d] = "ui_confirmed"]
    /\ conf' = [conf EXCEPT ![d] = Larger(@, input[o].conf)]
    /\ Goto(o, "idle")
    /\ UNCHANGED <<linked, journal, chain, config, input, sweeping, counts>>

\* markUiConfirmed: only ledger_credited is kept.
MarkUiConfirmed(o) ==
    LET d == input[o].deposit IN
    /\ pc[o] = "mark"
    /\ status' = [status EXCEPT ![d] =
                    IF @ = "ledger_credited" THEN @ ELSE "ui_confirmed"]
    /\ conf' = [conf EXCEPT ![d] = Larger(@, input[o].conf)]
    /\ Goto(o, "idle")
    /\ UNCHANGED <<linked, journal, chain, config, input, sweeping, counts>>

\* creditLedger's postJournal: a first post or a reuse.
PostCredit(o) ==
    /\ pc[o] = "post"
    /\ journal' = journal \cup {input[o].deposit}
    /\ Goto(o, "link")
    /\ UNCHANGED <<status, conf, linked, chain, config, input, sweeping, counts>>

\* Mutant: the UPDATE names the states it expects to leave.
LinkCreditFromPending(o) ==
    LET d == input[o].deposit IN
    /\ pc[o] = "link"
    /\ IF status[d] \in {"seen", "ui_confirmed"}
         THEN /\ status' = [status EXCEPT ![d] = "ledger_credited"]
              /\ conf' = [conf EXCEPT ![d] = Larger(@, input[o].conf)]
              /\ linked' = linked \cup {d}
         ELSE UNCHANGED <<status, conf, linked>>
    /\ Goto(o, "idle")
    /\ UNCHANGED <<journal, chain, config, input, sweeping, counts>>

\* creditLedger's UPDATE ... WHERE status <> 'ledger_credited'.
LinkCredit(o) ==
    LET d == input[o].deposit IN
    /\ pc[o] = "link"
    /\ IF status[d] = "ledger_credited"
         THEN UNCHANGED <<status, conf, linked>>
         ELSE /\ status' = [status EXCEPT ![d] = "ledger_credited"]
              /\ conf' = [conf EXCEPT ![d] = Larger(@, input[o].conf)]
              /\ linked' = linked \cup {d}
    /\ Goto(o, "idle")
    /\ UNCHANGED <<journal, chain, config, input, sweeping, counts>>

\* applyReorg's UPDATE ... WHERE status IN ('seen', 'ui_confirmed').
VoidReorg(o) ==
    LET d == input[o].deposit IN
    /\ pc[o] = "void"
    /\ IF status[d] \in {"seen", "ui_confirmed"}
         THEN /\ status' = [status EXCEPT ![d] = "ignored"]
              /\ conf' = [conf EXCEPT ![d] = 0]
         ELSE UNCHANGED <<status, conf>>
    /\ Goto(o, "idle")
    /\ UNCHANGED <<linked, journal, chain, config, input, sweeping, counts>>

-----------------------------------------------------------------------------
(* ChainSweeperPhase0Service.tick *)

\* requirePersisted: the configuration is read once.
ReadConfig(s) ==
    /\ pc[s] = "idle"
    /\ Spend("ticks", MaxTicks)
    /\ sawPaused' = [sawPaused EXCEPT ![s] = paused]
    /\ Goto(s, "guard")
    /\ UNCHANGED <<deposits, chain, config, input, batch, moved>>

\* The TRX balance is fetched and evaluateTrxGuard says no: pause, unless an admin has.
GuardBlocks(s) ==
    /\ pc[s] = "guard"
    /\ sawPaused[s] \/ trxLow
    /\ paused' = (paused \/ ~sawPaused[s])
    /\ Goto(s, "idle")
    /\ UNCHANGED <<deposits, chain, trxLow, input, sweeping, counts>>

GuardAllows(s) ==
    /\ pc[s] = "guard"
    /\ ~sawPaused[s] /\ ~trxLow
    /\ Goto(s, "select")
    /\ UNCHANGED <<deposits, chain, config, input, sweeping, counts>>

\* Mutant: the sweep queue is every row that has been confirmed in the UI.
DueDetected == {d \in Deposit : status[d] \in {"ui_confirmed", "ledger_credited"}}

Due == {d \in ripe : status[d] = "ledger_credited"}

\* The SELECT of rows past the grace period; evaluateSweepEligibility drops the small ones.
SelectBatch(s) ==
    /\ pc[s] = "select"
    /\ \E rows \in SUBSET Due :
          /\ Cardinality(rows) = Smaller(BatchLimit, Cardinality(Due))
          /\ batch' = [batch EXCEPT ![s] = {d \in rows : d \in Sweepable}]
    /\ Goto(s, "sweep")
    /\ UNCHANGED <<deposits, chain, config, input, sawPaused, moved, counts>>

\* The executor moves the USDT.  The guard looked at again is the one of GuardAllows.
Execute(s, d) ==
    /\ pc[s] = "sweep"
    /\ moved[s] = {}
    /\ d \in batch[s]
    /\ transfers' = [transfers EXCEPT ![d] = @ + 1]
    /\ moved' = [moved EXCEPT ![s] = {d}]
    /\ UNCHANGED <<deposits, ripe, config, pc, input, sawPaused, batch, counts>>

\* The executor answers not ok: the row is skipped.
ExecuteFails(s, d) ==
    /\ pc[s] = "sweep"
    /\ moved[s] = {}
    /\ d \in batch[s]
    /\ Spend("faults", MaxFaults)
    /\ batch' = [batch EXCEPT ![s] = @ \ {d}]
    /\ UNCHANGED <<deposits, chain, config, pc, input, sawPaused, moved>>

\* Mutant: the row leaves the batch but is still taken to be in hand.
MarkSweptKept(s) ==
    /\ pc[s] = "sweep"
    /\ moved[s] # {}
    /\ status' = [d \in Deposit |->
                    IF d \in moved[s] /\ status[d] = "ledger_credited"
                      THEN "swept" ELSE status[d]]
    /\ batch' = [batch EXCEPT ![s] = @ \ moved[s]]
    /\ UNCHANGED <<conf, linked, journal, chain, config, pc, input, sawPaused, moved, counts>>

\* markSwept: UPDATE ... WHERE status = 'ledger_credited'.
MarkSwept(s) ==
    /\ pc[s] = "sweep"
    /\ moved[s] # {}
    /\ status' = [d \in Deposit |->
                    IF d \in moved[s] /\ status[d] = "ledger_credited"
                      THEN "swept" ELSE status[d]]
    /\ batch' = [batch EXCEPT ![s] = @ \ moved[s]]
    /\ moved' = [moved EXCEPT ![s] = {}]
    /\ UNCHANGED <<conf, linked, journal, chain, config, pc, input, sawPaused, counts>>

EndTick(s) ==
    /\ pc[s] = "sweep"
    /\ batch[s] = {}
    /\ Goto(s, "idle")
    /\ UNCHANGED <<deposits, chain, config, input, sweeping, counts>>

-----------------------------------------------------------------------------

\* An admin sets sweeperPaused or disables energy delegation, which stop a tick alike.
SetPaused(b) ==
    /\ b # paused
    /\ Spend("admin", MaxAdmin)
    /\ paused' = b
    /\ UNCHANGED <<deposits, chain, trxLow, pc, input, sweeping>>

\* The treasury is topped up, or its TRX is burnt below the minimum.
SetTrxLow(b) ==
    /\ b # trxLow
    /\ Spend("admin", MaxAdmin)
    /\ trxLow' = b
    /\ UNCHANGED <<deposits, chain, paused, pc, input, sweeping>>

GraceElapses(d) ==
    /\ d \in linked \ ripe
    /\ ripe' = ripe \cup {d}
    /\ UNCHANGED <<deposits, transfers, config, pc, input, sweeping, counts>>

\* A call dies where it stands: the process crashed or a statement failed.
Fault(p) ==
    /\ pc[p] # "idle"
    /\ Spend("faults", MaxFaults)
    /\ Goto(p, "idle")
    /\ batch' = [s \in Sweeper |-> IF s = p THEN {} ELSE batch[s]]
    /\ moved' = [s \in Sweeper |-> IF s = p THEN {} ELSE moved[s]]
    /\ UNCHANGED <<deposits, chain, config, input, sawPaused>>

Observe(o) ==
    \/ Upsert(o)
    \/ MarkUiConfirmed(o)
    \/ PostCredit(o)
    \/ LinkCredit(o)
    \/ VoidReorg(o)

Tick(s) ==
    \/ GuardBlocks(s)
    \/ GuardAllows(s)
    \/ SelectBatch(s)
    \/ \E d \in Deposit : Execute(s, d)
    \/ MarkSwept(s)
    \/ EndTick(s)

Next ==
    \/ \E o \in Observer : Observe(o) \/ \E i \in Observation : Find(o, i)
    \/ \E s \in Sweeper :
          ReadConfig(s) \/ Tick(s) \/ \E d \in Deposit : ExecuteFails(s, d)
    \/ \E b \in BOOLEAN : SetPaused(b) \/ SetTrxLow(b)
    \/ \E d \in Deposit : GraceElapses(d)
    \/ \E p \in Process : Fault(p)

Spec == Init /\ [][Next]_vars

\* A call that started runs on; whether a transfer is ever reported again is not assumed.
FairSpec == Spec /\ \A o \in Observer : WF_vars(Observe(o))

-----------------------------------------------------------------------------

(* Every variable has its type; a transferred row belongs to the batch.    *)
TypeOK ==
    /\ status \in [Deposit -> Status \cup {"absent"}]
    /\ conf \in [Deposit -> 0..LedgerConf]
    /\ linked \subseteq Deposit
    /\ journal \subseteq Deposit
    /\ ripe \subseteq linked
    /\ transfers \in [Deposit -> Nat]
    /\ paused \in BOOLEAN
    /\ trxLow \in BOOLEAN
    /\ pc \in [Process -> {"idle", "upsert", "mark", "post", "link", "void",
                            "guard", "select", "sweep"}]
    /\ input \in [Observer -> Observation]
    /\ sawPaused \in [Sweeper -> BOOLEAN]
    /\ batch \in [Sweeper -> SUBSET Sweepable]
    /\ moved \in [Sweeper -> SUBSET Sweepable]
    /\ \A s \in Sweeper : moved[s] \subseteq batch[s]
    /\ counts \in [Bounded -> Nat]

(* "Ledger credit before N confirmations" is forbidden: a row that says it *)
(* is credited or swept has its journal and was seen LedgerConf deep, even *)
(* if a reorg or a shallower report raced with the credit.                 *)
CreditedRowsAreBacked ==
    /\ linked \subseteq journal
    /\ \A d \in Deposit : status[d] \in {"ledger_credited", "swept"} =>
          d \in linked /\ conf[d] >= LedgerConf

(* "Sweep before CONFIRMED" is forbidden: no deposit leaves its address    *)
(* before the ledger has credited it.                                      *)
SweptOnlyWhenCredited ==
    \A d \in Deposit : transfers[d] > 0 => d \in journal

(* A credited row is never taken back by a reorg or by a late detection:   *)
(* the only way on is the sweep.                                           *)
CreditedGoesOnlyToSwept ==
    [][\A d \in Deposit : status[d] = "ledger_credited" =>
          status'[d] \in {"ledger_credited", "swept"}]_status

(* Where nothing fails, a journal without a linked row is one whose call   *)
(* is about to link it, whatever a reorg does to the row in between.       *)
CreditReachesRow ==
    \A d \in journal \ linked :
        \/ \E o \in Observer : pc[o] = "link" /\ input[o].deposit = d
        \/ counts.faults > 0

\* A call on its way to the tables with a report LedgerConf deep.
DeepReport(o, d) ==
    pc[o] = "upsert" /\ input[o] = [deposit |-> d, conf |-> LedgerConf, reorg |-> FALSE]

(* A report LedgerConf deep that got past the lookup ends in a journal,    *)
(* also when a reorg had voided the row before; unless the call dies.      *)
DeepReportIsCredited ==
    \A o \in Observer, d \in Deposit :
        DeepReport(o, d) ~> (d \in journal \/ counts.faults > 0)

(* evaluateSweepEligibility refuses a row that is already swept: the       *)
(* executor moves a deposit at most once.                                  *)
SweptAtMostOnce == \A d \in Deposit : transfers[d] <= 1

=============================================================================
