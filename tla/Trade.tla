------------------------------- MODULE Trade -------------------------------
(***************************************************************************)
(* One user's trades: ParticipateService.participate, which locks the      *)
(* capital and opens a trade, and TradeExecutionService.executeTick, which *)
(* a client polls until the rules pay the trade out or stop it.  Each call *)
(* is a process.  A ledger post is one step: LedgerAtomic is what it does, *)
(* and PostsThroughLedger checks that this module keeps to it.             *)
(*                                                                         *)
(* A trade is named by the idempotency key of its participation.  Prices,  *)
(* policy, circuit and risk status are the environment: a call reads them  *)
(* and may find anything.  All trades are of one day, for the daily cap.   *)
(* A definition marked Mutant is the one that follows it with a plausible  *)
(* bug.                                                                    *)
(***************************************************************************)
EXTENDS Integers, FiniteSets, Functions

CONSTANTS
    Trade,
    Capital,        \* requiredCapitalUsdt of each trade
    Opening,        \* the user's principal at the start
    Pledged,        \* locked for something else: mining positions
    DailyCap,       \* dailyUserMatchCap
    Bonus,          \* extra chances granted to the user
    MaxRematch,     \* policy.maxRematchCount
    Payout,         \* profits a settlement may be computed at
    Caller,         \* calls in flight
    MaxCalls, MaxFaults     \* bounds

ASSUME TradeAssumption ==
    /\ Trade # {} /\ IsFiniteSet(Trade)
    /\ Capital \in [Trade -> Nat \ {0}]
    /\ Payout \subseteq Nat \ {0}
    /\ Payout # {}
    /\ {Opening, Pledged, DailyCap, Bonus, MaxRematch, MaxCalls, MaxFaults} \subseteq Nat

NoPayout == 0

VARIABLES
    status,     \* trade_executions.status, "absent" without a row
    rematch,    \* its asset.rematchCount
    settled,    \* its settled_profit_usdt, set together with ledger_journal_id
    overdue,    \* trades accepted longer ago than the hard deadline
    locks,      \* trades with a participate_lock journal
    unlocks,    \* trades with a participate_unlock journal
    payout,     \* the profit of each trade's settlement journal
    bonusUsed,  \* extra chances consumed
    pc,         \* where each call stands
    call,       \* what it is about, and what it read or computed so far
    calls, faults

trades == <<status, rematch, settled>>
journals == <<locks, unlocks, payout>>
counters == <<calls, faults>>
vars == <<trades, overdue, journals, bonusUsed, pc, call, counters>>

-----------------------------------------------------------------------------

Live == {"running", "requeue"}
Terminal == {"success", "safe_stop", "failed"}

Code == {"MATCH_SUCCESS", "REQUEUE", "MATCH_TIMEOUT", "BELOW_MIN_PROFIT", "SYSTEM_FAILED"}

Paid == {t \in Trade : payout[t] # NoPayout}
Accepted == {t \in Trade : status[t] # "absent"}

\* The user's buckets, as the journals add up.
Total(S) == SumFunctionOnSet(Capital, S)
Principal == Opening - Total(locks) + Total(unlocks) + Total(Paid)
Locked == Pledged + Total(locks) - Total(unlocks) - Total(Paid)

Idle == [trade |-> CHOOSE t \in Trade : TRUE, fresh |-> FALSE, spends |-> FALSE,
         code |-> "REQUEUE", payout |-> NoPayout, rematch |-> 0]

Goto(c, label) == pc' = [pc EXCEPT ![c] = label]

Finish(c) ==
    /\ Goto(c, "idle")
    /\ call' = [call EXCEPT ![c] = Idle]

Init ==
    /\ status = [t \in Trade |-> "absent"]
    /\ rematch = [t \in Trade |-> 0]
    /\ settled = [t \in Trade |-> NoPayout]
    /\ overdue = {}
    /\ locks = {}
    /\ unlocks = {}
    /\ payout = [t \in Trade |-> NoPayout]
    /\ bonusUsed = 0
    /\ pc = [c \in Caller |-> "idle"]
    /\ call = [c \in Caller |-> Idle]
    /\ calls = 0
    /\ faults = 0

Start(c, label, what) ==
    /\ pc[c] = "idle"
    /\ calls < MaxCalls
    /\ calls' = calls + 1
    /\ call' = [call EXCEPT ![c] = what]
    /\ Goto(c, label)
    /\ UNCHANGED <<trades, overdue, journals, bonusUsed, faults>>

-----------------------------------------------------------------------------
(* participate *)

Participate(c, t) == Start(c, "check", [Idle EXCEPT !.trade = t])

(* The opportunity is gone or hidden, its version moved, the user is       *)
(* blocked, the circuit open, the principal short, or the day used up; or  *)
(* the key is already accepted and that participation is the answer.       *)
Refuse(c) ==
    /\ pc[c] = "check"
    /\ Finish(c)
    /\ UNCHANGED <<trades, overdue, journals, bonusUsed, counters>>

(* Principal, key and cap are read one after the other; the post and the   *)
(* INSERT look at the first two again, and nothing does at the third.      *)
Admit(c) ==
    /\ pc[c] = "check"
    /\ Principal >= Capital[call[c].trade]
    /\ status[call[c].trade] = "absent"
    /\ Cardinality(Accepted) < DailyCap \/ bonusUsed < Bonus
    /\ call' = [call EXCEPT ![c].spends = Cardinality(Accepted) >= DailyCap]
    /\ Goto(c, "lock")
    /\ UNCHANGED <<trades, overdue, journals, bonusUsed, counters>>

\* postJournal of participate_lock: reused, posted, or refused for want of principal.
PostLock(c) ==
    LET t == call[c].trade IN
    /\ pc[c] = "lock"
    /\ IF t \in locks \/ Principal >= Capital[t]
         THEN /\ locks' = locks \cup {t}
              /\ call' = [call EXCEPT ![c].fresh = t \notin locks]
              /\ Goto(c, "insert")
         ELSE /\ locks' = locks
              /\ Finish(c)
    /\ UNCHANGED <<trades, overdue, unlocks, payout, bonusUsed, counters>>

\* Whether the transaction has a bonus chance to consume: only the call that posted does.
Consumes(c) == call[c].fresh /\ call[c].spends

\* Mutant: the cap is counted again inside the transaction.
OpenTradeRechecked(c) ==
    LET t == call[c].trade IN
    /\ pc[c] = "insert"
    /\ IF \/ status[t] # "absent"
          \/ Consumes(c) /\ bonusUsed = Bonus
          \/ ~call[c].spends /\ Cardinality(Accepted) >= DailyCap
         THEN UNCHANGED <<status, bonusUsed>>
         ELSE /\ status' = [status EXCEPT ![t] = "running"]
              /\ bonusUsed' = IF Consumes(c) THEN bonusUsed + 1 ELSE bonusUsed
    /\ Finish(c)
    /\ UNCHANGED <<rematch, settled, overdue, journals, counters>>

(* The transaction that inserts trade and request.  It rolls back when the *)
(* key has a row already, which is then the answer, and when the bonus ran *)
(* out since it was counted; the lock journal stays.                       *)
OpenTrade(c) ==
    LET t == call[c].trade IN
    /\ pc[c] = "insert"
    /\ IF status[t] # "absent" \/ (Consumes(c) /\ bonusUsed = Bonus)
         THEN UNCHANGED <<status, bonusUsed>>
         ELSE /\ status' = [status EXCEPT ![t] = "running"]
              /\ bonusUsed' = IF Consumes(c) THEN bonusUsed + 1 ELSE bonusUsed
    /\ Finish(c)
    /\ UNCHANGED <<rematch, settled, overdue, journals, counters>>

-----------------------------------------------------------------------------
(* executeTick *)

(* evaluateExecution; BELOW_MIN_PROFIT stands for every code that stops    *)
(* without failing.  A missing opportunity fails the trade before that.    *)
Verdicts(t) ==
    IF t \in overdue
      THEN {"MATCH_TIMEOUT", "SYSTEM_FAILED"}
      ELSE {"BELOW_MIN_PROFIT", "SYSTEM_FAILED"}
             \cup (IF rematch[t] <= MaxRematch THEN {"MATCH_SUCCESS"} ELSE {})
             \cup (IF rematch[t] < MaxRematch THEN {"REQUEUE"} ELSE {})

\* applyRequeue counts a rematch when the trade was running.
NextRematch(t) == IF status[t] = "requeue" THEN rematch[t] ELSE rematch[t] + 1

AfterVerdict(code) ==
    CASE code = "MATCH_SUCCESS" -> "settle"
      [] code = "REQUEUE" -> "requeue"
      [] code \notin {"MATCH_SUCCESS", "REQUEUE"} -> "unlock"

(* The row and the clock are read and the rules evaluated; a settlement is *)
(* computed from the payout read now.  A tick of a finished trade, and one *)
(* that finds no trade, changes nothing.                                   *)
Evaluate(c, t, code, p) ==
    /\ status[t] \in Live
    /\ code \in Verdicts(t)
    /\ code # "MATCH_SUCCESS" => p = NoPayout
    /\ code = "MATCH_SUCCESS" => p # NoPayout
    /\ Start(c, AfterVerdict(code),
             [Idle EXCEPT !.trade = t, !.code = code, !.payout = p,
                          !.rematch = IF code = "REQUEUE" THEN NextRematch(t) ELSE rematch[t]])

(* postJournal of settlement: posted, reused, a conflict with one computed *)
(* at another payout, or refused for want of locked capital.               *)
PostSettlement(c) ==
    LET t == call[c].trade IN
    /\ pc[c] = "settle"
    /\ IF payout[t] = call[c].payout \/ (t \notin Paid /\ Locked >= Capital[t])
         THEN /\ payout' = [payout EXCEPT ![t] = call[c].payout]
              /\ Goto(c, "succeed")
              /\ call' = call
         ELSE /\ payout' = payout
              /\ Finish(c)
    /\ UNCHANGED <<trades, overdue, locks, unlocks, bonusUsed, counters>>

\* Mutant: the UPDATE expects a running trade.
SucceedRunning(c) ==
    LET t == call[c].trade IN
    /\ pc[c] = "succeed"
    /\ IF status[t] = "running"
         THEN /\ status' = [status EXCEPT ![t] = "success"]
              /\ settled' = [settled EXCEPT ![t] = call[c].payout]
              /\ rematch' = [rematch EXCEPT ![t] = call[c].rematch]
         ELSE UNCHANGED trades
    /\ Finish(c)
    /\ UNCHANGED <<overdue, journals, bonusUsed, counters>>

\* finalizeMatchSuccess's UPDATE ... WHERE status IN ('running', 'requeue').
Succeed(c) ==
    LET t == call[c].trade IN
    /\ pc[c] = "succeed"
    /\ IF status[t] \in Live
         THEN /\ status' = [status EXCEPT ![t] = "success"]
              /\ settled' = [settled EXCEPT ![t] = call[c].payout]
              /\ rematch' = [rematch EXCEPT ![t] = call[c].rematch]
         ELSE UNCHANGED trades
    /\ Finish(c)
    /\ UNCHANGED <<overdue, journals, bonusUsed, counters>>

\* applyRequeue's UPDATE, guarded alike; the count is the one computed from the row read.
Requeue(c) ==
    LET t == call[c].trade IN
    /\ pc[c] = "requeue"
    /\ IF status[t] \in Live
         THEN /\ status' = [status EXCEPT ![t] = "requeue"]
              /\ rematch' = [rematch EXCEPT ![t] = call[c].rematch]
         ELSE UNCHANGED <<status, rematch>>
    /\ Finish(c)
    /\ UNCHANGED <<settled, overdue, journals, bonusUsed, counters>>

\* Mutant: the post is not refused for want of locked capital.
PostUnlockUnchecked(c) ==
    /\ pc[c] = "unlock"
    /\ unlocks' = unlocks \cup {call[c].trade}
    /\ Goto(c, "stop")
    /\ UNCHANGED <<trades, overdue, locks, payout, bonusUsed, call, counters>>

\* Mutant: a refused post does not keep the trade from being stopped.
PostUnlockTolerant(c) ==
    LET t == call[c].trade IN
    /\ pc[c] = "unlock"
    /\ unlocks' = IF Locked >= Capital[t] THEN unlocks \cup {t} ELSE unlocks
    /\ Goto(c, "stop")
    /\ UNCHANGED <<trades, overdue, locks, payout, bonusUsed, call, counters>>

\* postJournal of participate_unlock, under a key of its own: settlement is not looked at.
PostUnlock(c) ==
    LET t == call[c].trade IN
    /\ pc[c] = "unlock"
    /\ IF t \in unlocks \/ Locked >= Capital[t]
         THEN /\ unlocks' = unlocks \cup {t}
              /\ Goto(c, "stop")
              /\ call' = call
         ELSE /\ unlocks' = unlocks
              /\ Finish(c)
    /\ UNCHANGED <<trades, overdue, locks, payout, bonusUsed, counters>>

\* Mutant: the result code is written as the status.
RawStatus(code) == code

StoppedStatus(code) == IF code = "SYSTEM_FAILED" THEN "failed" ELSE "safe_stop"

\* Mutant: the UPDATE is by id alone.
StopById(c) ==
    LET t == call[c].trade IN
    /\ pc[c] = "stop"
    /\ status' = [status EXCEPT ![t] = StoppedStatus(call[c].code)]
    /\ Finish(c)
    /\ UNCHANGED <<rematch, settled, overdue, journals, bonusUsed, counters>>

\* finalizeSafeStop's UPDATE, guarded alike.
Stop(c) ==
    LET t == call[c].trade IN
    /\ pc[c] = "stop"
    /\ status' = [status EXCEPT ![t] =
                    IF @ \in Live THEN StoppedStatus(call[c].code) ELSE @]
    /\ Finish(c)
    /\ UNCHANGED <<rematch, settled, overdue, journals, bonusUsed, counters>>

-----------------------------------------------------------------------------

\* HARD_SEC after the participation was accepted.
DeadlinePasses(t) ==
    /\ status[t] \in Live
    /\ t \notin overdue
    /\ overdue' = overdue \cup {t}
    /\ UNCHANGED <<trades, journals, bonusUsed, pc, call, counters>>

\* A call dies where it stands: the process crashed or a statement failed.
Fault(c) ==
    /\ pc[c] # "idle"
    /\ faults < MaxFaults
    /\ faults' = faults + 1
    /\ Finish(c)
    /\ UNCHANGED <<trades, overdue, journals, bonusUsed, calls>>

Step(c) ==
    \/ Refuse(c) \/ Admit(c) \/ PostLock(c) \/ OpenTrade(c)
    \/ PostSettlement(c) \/ Succeed(c) \/ Requeue(c) \/ PostUnlock(c) \/ Stop(c)

Next ==
    \/ \E c \in Caller, t \in Trade :
          \/ Participate(c, t)
          \/ \E code \in Code, p \in Payout \cup {NoPayout} : Evaluate(c, t, code, p)
    \/ \E c \in Caller : Step(c) \/ Fault(c)
    \/ \E t \in Trade : DeadlinePasses(t)

Spec == Init /\ [][Next]_vars

\* A call that started runs on; that a client polls again is not assumed.
FairSpec == Spec /\ \A c \in Caller : WF_vars(Step(c))

-----------------------------------------------------------------------------

(* Every variable has its type.                                            *)
TypeOK ==
    /\ status \in [Trade -> {"absent"} \cup Live \cup Terminal]
    /\ rematch \in [Trade -> Nat]
    /\ settled \in [Trade -> Payout \cup {NoPayout}]
    /\ overdue \subseteq Trade
    /\ locks \subseteq Trade
    /\ unlocks \subseteq Trade
    /\ payout \in [Trade -> Payout \cup {NoPayout}]
    /\ bonusUsed \in 0..Bonus
    /\ pc \in [Caller -> {"idle", "check", "lock", "insert", "settle", "succeed",
                           "requeue", "unlock", "stop"}]
    /\ call \in [Caller -> [trade : Trade, fresh : BOOLEAN, spends : BOOLEAN, code : Code,
                            payout : Payout \cup {NoPayout}, rematch : Nat]]
    /\ calls \in 0..MaxCalls
    /\ faults \in 0..MaxFaults

(* A row never says more than the books: a trade's capital was locked, a   *)
(* success was paid exactly what the row says, and a stopped trade had its *)
(* capital returned, whichever of several ticks wrote the row.             *)
RowsFollowJournals ==
    \A t \in Trade :
        /\ status[t] # "absent" => t \in locks
        /\ status[t] = "success" <=> settled[t] # NoPayout
        /\ settled[t] \in {NoPayout, payout[t]}
        /\ status[t] \in {"safe_stop", "failed"} => t \in unlocks

(* Of several ticks that decide differently, the first to write the row    *)
(* decides: an outcome is never replaced, nor its recorded payout.         *)
OutcomesAreFinal ==
    [][\A t \in Trade : status[t] \in Terminal =>
          status'[t] = status[t] /\ settled'[t] = settled[t]]_trades

(* Where nothing fails and the bonus lasts, locked capital without a trade *)
(* belongs to a call that is about to open it.                             *)
LockReachesTrade ==
    \A t \in locks \ Accepted :
        \/ \E c \in Caller : pc[c] = "insert" /\ call[c].trade = t
        \/ faults > 0
        \/ bonusUsed = Bonus

(* Where nothing fails, a trade whose settlement is posted reaches an      *)
(* outcome without being polled again.                                     *)
SettlementReachesRow ==
    \A t \in Trade : (t \in Paid) ~> (status[t] \in Terminal \/ faults > 0)

(* "Hard deadline reached: safe_stop, balance unchanged, credit 0": a      *)
(* stopped trade was not paid out.                                         *)
StoppedIsNotCredited ==
    \A t \in Trade : status[t] \in {"safe_stop", "failed"} => payout[t] = NoPayout

-----------------------------------------------------------------------------

(* The posts of this module as a behaviour of LedgerAtomic.  The accounts  *)
(* are 1 principal, 2 locked, 3 profit and 4 the opportunity pool; the     *)
(* platform margin, pool to fee revenue, is left out.                      *)
Line(type, a1, a2, a3, a4) == [type |-> type, line |-> <<a1, a2, a3, a4>>]
LockLine(t) == Line("participate_lock", -Capital[t], Capital[t], 0, 0)
UnlockLine(t) == Line("participate_unlock", Capital[t], -Capital[t], 0, 0)
SettlementLine(t, p) == Line("settlement", Capital[t], -Capital[t], p, -p)

BookKey == {"lock", "unlock", "settlement"} \X Trade
NoEntry == Line("none", 0, 0, 0, 0)

BookPayload ==
    {LockLine(t) : t \in Trade} \cup {UnlockLine(t) : t \in Trade}
      \cup {SettlementLine(t, p) : t \in Trade, p \in Payout}

Book ==
    [k \in BookKey |->
       CASE k[1] = "lock" /\ k[2] \in locks -> LockLine(k[2])
         [] k[1] = "unlock" /\ k[2] \in unlocks -> UnlockLine(k[2])
         [] k[1] = "settlement" /\ k[2] \in Paid -> SettlementLine(k[2], payout[k[2]])
         [] OTHER -> NoEntry]

Profit == SumFunction(payout)

Ledger == INSTANCE LedgerAtomic WITH
    Key <- BookKey, Account <- 1..4, UserBucket <- 1..3, PracticeBucket <- {},
    DebitNormal <- {}, PracticeForbidden <- {},
    JournalType <- {"participate_lock", "participate_unlock", "settlement"},
    Payload <- BookPayload, Opening <- <<Opening, Pledged, 0, 0>>, LegacyKey <- {},
    NoJournal <- NoEntry, LegacyRow <- Line("legacy", 0, 0, 0, 0),
    journal <- Book, balance <- <<Principal, Locked, Profit, -Profit>>,
    outbox <- {k \in BookKey : Book[k] # NoEntry}, delivered <- {}, published <- {}

(* However participations and ticks interleave, their posts are posts the  *)
(* ledger accepts: fresh keys, balanced lines, no user bucket overdrawn,   *)
(* and every balance the sum of its entries.                               *)
PostsThroughLedger == Ledger!Spec

=============================================================================
