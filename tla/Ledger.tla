------------------------------- MODULE Ledger -------------------------------
(***************************************************************************)
(* LedgerPostingService.postJournal and LedgerOutboxService.drain, at the  *)
(* granularity of the SQL statements that other transactions can see:      *)
(* READ COMMITTED reads, row locks taken in account_id order, the unique   *)
(* index on idempotency_key, one COMMIT, and the drain that follows it.    *)
(* A caller is one call in flight: a request handler, a worker tick or an  *)
(* admin action; several run at once in the API process.                   *)
(* A definition marked Mutant is the one that follows it, or the one with  *)
(* the same prefix, with a plausible bug: a check must tell them apart.    *)
(***************************************************************************)
EXTENDS JournalPayload

CONSTANTS
    Caller,
    NoCaller,
    DrainLimit,     \* rows one drain selects (20 in postJournal)
    MaxCalls,       \* bound: calls made in a behaviour
    MaxFaults       \* bound: lost connections, crashed calls and failed updates

ASSUME CallerAssumption ==
    /\ NoCaller \notin Caller
    /\ Key # {} /\ Payload # {}
    /\ DrainLimit \in Nat \ {0}
    /\ MaxCalls \in Nat
    /\ MaxFaults \in Nat

VARIABLES
    journal, balance, outbox, delivered, published,     \* as in LedgerAtomic
    lock,       \* holder of each account's row lock
    claim,      \* the open transaction that inserted each key, not yet committed
    pc,         \* where each call stands
    call,       \* its idempotency key and payload
    seen,       \* the balances it read under lock
    batch,      \* outbox rows its drain still has to handle
    emitted,    \* the row of that batch it has emitted but not yet marked
    outcome,    \* what it answered
    calls, faults

tables == <<journal, balance, outbox>>
delivery == <<delivered, published>>
tx == <<lock, claim, seen>>
drain == <<batch, emitted>>
counters == <<calls, faults>>
vars == <<tables, delivery, tx, drain, pc, call, outcome, counters>>

-----------------------------------------------------------------------------

Request == [key : Key, payload : Payload]

Held(c) == {a \in Account : lock[a] = c}
Wanted(c) == Touched(call[c].payload) \ Held(c)

\* The balance after the call's lines, from what it read under lock.
After(c, a) == seen[c][a] + Effect(call[c].payload, a)

\* Mutant: the balance is tested before the lines are applied.
OverdrawsBeforeDelta(c) ==
    \E a \in Touched(call[c].payload) \cap UserBucket : seen[c][a] < 0

Overdraws(c) ==
    \E a \in Touched(call[c].payload) \cap UserBucket : After(c, a) < 0

Goto(c, label) == pc' = [pc EXCEPT ![c] = label]

Answer(c, o) ==
    /\ Goto(c, "idle")
    /\ outcome' = [outcome EXCEPT ![c] = o]

\* COMMIT, ROLLBACK or a lost connection: row locks and index entries go.
EndTransaction(c) ==
    /\ lock' = [a \in Account |-> IF lock[a] = c THEN NoCaller ELSE lock[a]]
    /\ claim' = [k \in Key |-> IF claim[k] = c THEN NoCaller ELSE claim[k]]

Min2(m, n) == IF m < n THEN m ELSE n

-----------------------------------------------------------------------------

Init ==
    /\ journal = InitialJournal
    /\ balance = Opening
    /\ outbox = {}
    /\ delivered = {}
    /\ published = {}
    /\ lock = [a \in Account |-> NoCaller]
    /\ claim = [k \in Key |-> NoCaller]
    /\ pc = [c \in Caller |-> "idle"]
    /\ call = [c \in Caller |-> CHOOSE r \in Request : TRUE]
    /\ seen = [c \in Caller |-> Opening]
    /\ batch = [c \in Caller |-> {}]
    /\ emitted = [c \in Caller |-> {}]
    /\ outcome = [c \in Caller |-> "none"]
    /\ calls = 0
    /\ faults = 0

Begin(c, k, p) ==
    /\ pc[c] = "idle"
    /\ calls < MaxCalls
    /\ calls' = calls + 1
    /\ call' = [call EXCEPT ![c] = [key |-> k, payload |-> p]]
    /\ outcome' = [outcome EXCEPT ![c] = "none"]
    /\ Goto(c, "lookup")
    /\ UNCHANGED <<tables, delivery, tx, drain, faults>>

\* Mutant: the row that won a race for the key is returned without comparing fingerprints.
AnswerUnchecked(c) ==
    /\ pc[c] \in {"lookup", "readback"}
    /\ journal[call[c].key] # NoJournal
    /\ Answer(c, IF pc[c] = "readback" \/ Matches(journal[call[c].key], call[c].payload)
                   THEN "reused" ELSE "conflict")
    /\ UNCHANGED <<tables, delivery, tx, drain, call, counters>>

(* The transaction's first read: the key is already journalled.  The same  *)
(* comparison is made after a unique violation, on the row that won.       *)
AnswerFromExisting(c) ==
    /\ pc[c] \in {"lookup", "readback"}
    /\ journal[call[c].key] # NoJournal
    /\ Answer(c, IF Matches(journal[call[c].key], call[c].payload)
                   THEN "reused" ELSE "conflict")
    /\ UNCHANGED <<tables, delivery, tx, drain, call, counters>>

Reject(c) ==
    /\ pc[c] = "lookup"
    /\ journal[call[c].key] = NoJournal
    /\ ~Wellformed(call[c].payload)
    /\ Answer(c, "rejected")
    /\ UNCHANGED <<tables, delivery, tx, drain, call, counters>>

StartLocking(c) ==
    /\ pc[c] = "lookup"
    /\ journal[call[c].key] = NoJournal
    /\ Wellformed(call[c].payload)
    /\ Goto(c, "lock")
    /\ UNCHANGED <<tables, delivery, tx, drain, call, outcome, counters>>

\* Mutant: the balance used is one read before the lock was waited for.
LockNextStale(c, a) ==
    /\ pc[c] = "lock"
    /\ a \in Wanted(c)
    /\ \A b \in Wanted(c) : a <= b
    /\ lock[a] = NoCaller
    /\ lock' = [lock EXCEPT ![a] = c]
    /\ UNCHANGED <<tables, delivery, claim, seen, drain, pc, call, outcome, counters>>

\* Mutant: the rows are read without FOR UPDATE.
LockNextShared(c, a) ==
    /\ pc[c] = "lock"
    /\ a \in Wanted(c)
    /\ \A b \in Wanted(c) : a <= b
    /\ lock' = [lock EXCEPT ![a] = c]
    /\ seen' = [seen EXCEPT ![c][a] = balance[a]]
    /\ UNCHANGED <<tables, delivery, claim, drain, pc, call, outcome, counters>>

\* Mutant: no ORDER BY, so rows are locked in any order.
LockNextAnyOrder(c, a) ==
    /\ pc[c] = "lock"
    /\ a \in Wanted(c)
    /\ lock[a] = NoCaller
    /\ lock' = [lock EXCEPT ![a] = c]
    /\ seen' = [seen EXCEPT ![c][a] = balance[a]]
    /\ UNCHANGED <<tables, delivery, claim, drain, pc, call, outcome, counters>>

\* SELECT ... ORDER BY id ASC FOR UPDATE: the row is read again once its lock is granted.
LockNext(c, a) ==
    /\ pc[c] = "lock"
    /\ a \in Wanted(c)
    /\ \A b \in Wanted(c) : a <= b
    /\ lock[a] = NoCaller
    /\ lock' = [lock EXCEPT ![a] = c]
    /\ seen' = [seen EXCEPT ![c][a] = balance[a]]
    /\ UNCHANGED <<tables, delivery, claim, drain, pc, call, outcome, counters>>

\* A user bucket would go below zero: throw, so ROLLBACK.
Insufficient(c) ==
    /\ pc[c] = "lock"
    /\ Wanted(c) = {}
    /\ Overdraws(c)
    /\ EndTransaction(c)
    /\ Answer(c, "insufficient")
    /\ UNCHANGED <<tables, delivery, seen, drain, call, counters>>

\* Mutant: no unique index on idempotency_key.
InsertWithoutIndex(c) ==
    /\ pc[c] = "lock"
    /\ Wanted(c) = {}
    /\ ~Overdraws(c)
    /\ Goto(c, "commit")
    /\ UNCHANGED <<tables, delivery, tx, drain, call, outcome, counters>>

\* INSERT INTO ledger_journals; it waits while another open transaction holds the key.
InsertJournal(c) ==
    /\ pc[c] = "lock"
    /\ Wanted(c) = {}
    /\ ~Overdraws(c)
    /\ journal[call[c].key] = NoJournal
    /\ claim[call[c].key] = NoCaller
    /\ claim' = [claim EXCEPT ![call[c].key] = c]
    /\ Goto(c, "commit")
    /\ UNCHANGED <<tables, delivery, lock, seen, drain, call, outcome, counters>>

\* The same INSERT when the key is committed: 23505, ROLLBACK, read the row that won.
InsertDuplicate(c) ==
    /\ pc[c] = "lock"
    /\ Wanted(c) = {}
    /\ ~Overdraws(c)
    /\ journal[call[c].key] # NoJournal
    /\ EndTransaction(c)
    /\ Goto(c, "readback")
    /\ UNCHANGED <<tables, delivery, seen, drain, call, outcome, counters>>

\* Entries, balances and the outbox row become visible with the journal.
Commit(c) ==
    /\ pc[c] = "commit"
    /\ journal' = [journal EXCEPT ![call[c].key] = call[c].payload]
    /\ balance' = [a \in Account |->
                     IF a \in Touched(call[c].payload) THEN After(c, a) ELSE balance[a]]
    /\ outbox' = outbox \cup {call[c].key}
    /\ EndTransaction(c)
    /\ Goto(c, "select")
    /\ UNCHANGED <<delivery, seen, drain, call, outcome, counters>>

\* Mutant: rows are claimed by setting published_at before they are emitted.
DrainSelectClaims(c) ==
    /\ pc[c] = "select"
    /\ \E rows \in SUBSET (outbox \ published) :
          /\ Cardinality(rows) = Min2(DrainLimit, Cardinality(outbox \ published))
          /\ batch' = [batch EXCEPT ![c] = rows]
          /\ published' = published \cup rows
    /\ Goto(c, "drain")
    /\ UNCHANGED <<tables, delivered, tx, emitted, call, outcome, counters>>

\* Mutant: LIMIT is one less than the rows it is meant to take.
DrainSelectOneShort(c) ==
    /\ pc[c] = "select"
    /\ \E rows \in SUBSET (outbox \ published) :
          /\ Cardinality(rows) = Min2(DrainLimit - 1, Cardinality(outbox \ published))
          /\ batch' = [batch EXCEPT ![c] = rows]
    /\ Goto(c, "drain")
    /\ UNCHANGED <<tables, delivery, tx, emitted, call, outcome, counters>>

\* drain's SELECT.  Its ORDER BY created_at is left open: any rows up to the limit.
DrainSelect(c) ==
    /\ pc[c] = "select"
    /\ \E rows \in SUBSET (outbox \ published) :
          /\ Cardinality(rows) = Min2(DrainLimit, Cardinality(outbox \ published))
          /\ batch' = [batch EXCEPT ![c] = rows]
    /\ Goto(c, "drain")
    /\ UNCHANGED <<tables, delivery, tx, emitted, call, outcome, counters>>

\* bus.emit, synchronous; its return value is ignored.
Emit(c, k) ==
    /\ pc[c] = "drain"
    /\ emitted[c] = {}
    /\ k \in batch[c]
    /\ delivered' = delivered \cup {k}
    /\ emitted' = [emitted EXCEPT ![c] = {k}]
    /\ UNCHANGED <<tables, published, tx, batch, pc, call, outcome, counters>>

\* Mutant: the row being handled is not forgotten when it leaves the batch.
NextRowKept(c) ==
    /\ batch' = [batch EXCEPT ![c] = @ \ emitted[c]]
    /\ UNCHANGED emitted

NextRow(c) ==
    /\ batch' = [batch EXCEPT ![c] = @ \ emitted[c]]
    /\ emitted' = [emitted EXCEPT ![c] = {}]

MarkPublished(c) ==
    /\ pc[c] = "drain"
    /\ emitted[c] # {}
    /\ published' = published \cup emitted[c]
    /\ NextRow(c)
    /\ UNCHANGED <<tables, delivered, tx, pc, call, outcome, counters>>

\* The UPDATE of published_at failed: attempts and last_error are recorded, the loop goes on.
MarkFailed(c) ==
    /\ pc[c] = "drain"
    /\ emitted[c] # {}
    /\ faults < MaxFaults
    /\ faults' = faults + 1
    /\ NextRow(c)
    /\ UNCHANGED <<tables, delivery, tx, pc, call, outcome, calls>>

EndDrain(c) ==
    /\ pc[c] = "drain"
    /\ batch[c] = {}
    /\ Answer(c, "posted")
    /\ UNCHANGED <<tables, delivery, tx, drain, call, counters>>

(* The call dies where it stands: the process crashed, the connection was  *)
(* lost, or no pool connection came free.  Its transaction rolls back; the *)
(* caller gets an error, after COMMIT as well as before it.                *)
Fault(c) ==
    /\ pc[c] # "idle"
    /\ faults < MaxFaults
    /\ faults' = faults + 1
    /\ EndTransaction(c)
    /\ batch' = [batch EXCEPT ![c] = {}]
    /\ emitted' = [emitted EXCEPT ![c] = {}]
    /\ Answer(c, "error")
    /\ UNCHANGED <<tables, delivery, seen, call, calls>>

Post(c) ==
    \/ AnswerFromExisting(c)
    \/ Reject(c)
    \/ StartLocking(c)
    \/ \E a \in Account : LockNext(c, a)
    \/ Insufficient(c)
    \/ InsertJournal(c)
    \/ InsertDuplicate(c)
    \/ Commit(c)

Drain(c) ==
    \/ DrainSelect(c)
    \/ \E k \in Key : Emit(c, k)
    \/ MarkPublished(c)
    \/ EndDrain(c)

\* The bound on calls is used up and every call is answered; any other stop is a deadlock.
Done ==
    /\ calls = MaxCalls
    /\ \A c \in Caller : pc[c] = "idle"
    /\ UNCHANGED vars

Next ==
    \/ \E c \in Caller :
          \/ \E k \in Key, p \in Payload : Begin(c, k, p)
          \/ Post(c)
          \/ Drain(c)
          \/ MarkFailed(c)
          \/ Fault(c)
    \/ Done

Spec == Init /\ [][Next]_vars

(* A call that started runs on by itself; nothing makes a new one start,   *)
(* and nothing else in the repository runs the drain.                      *)
Fairness == \A c \in Caller : WF_vars(Post(c) \/ Drain(c))

FairSpec == Spec /\ Fairness

-----------------------------------------------------------------------------

(* Every variable has its type; the row being handled belongs to the batch. *)
TypeOK ==
    /\ journal \in [Key -> Payload \cup {NoJournal, LegacyRow}]
    /\ balance \in [Account -> Int]
    /\ outbox \subseteq Key
    /\ delivered \subseteq Key
    /\ published \subseteq Key
    /\ lock \in [Account -> Caller \cup {NoCaller}]
    /\ claim \in [Key -> Caller \cup {NoCaller}]
    /\ pc \in [Caller -> {"idle", "lookup", "lock", "commit", "readback", "select", "drain"}]
    /\ call \in [Caller -> Request]
    /\ seen \in [Caller -> [Account -> Int]]
    /\ batch \in [Caller -> SUBSET Key]
    /\ emitted \in [Caller -> SUBSET Key]
    /\ \A c \in Caller : emitted[c] \subseteq batch[c]
    /\ outcome \in [Caller -> {"none", "posted", "reused", "conflict", "rejected",
                                "insufficient", "error"}]
    /\ calls \in 0..MaxCalls
    /\ faults \in 0..MaxFaults

(* No interleaving of posts takes a user bucket below zero: the check each *)
(* post makes on the balances it read still holds when it commits.         *)
BucketsNeverNegative == \A a \in UserBucket : balance[a] >= 0

\* The keys posted so far; those of LegacyRow journals are part of Opening.
Posted == {k \in Key : journal[k] \in Payload}

(* PROJECTION_DRIFT of the reconciliation never happens: a balance is the  *)
(* opening one plus the entries of every journal, so no update is lost and *)
(* none is applied twice.                                                  *)
BalancesMatchJournals ==
    \A a \in Account :
        balance[a] = Opening[a] + SumFunction([k \in Posted |-> Effect(journal[k], a)])

\* What the credit-normal accounts of a book hold beyond the debit-normal ones.
CreditSide(book) ==
    SumFunction([a \in Account |-> IF a \in DebitNormal THEN -book[a] ELSE book[a]])

(* The trial balance: however posts interleave, what users and income      *)
(* accounts hold and what the pools and the treasury hold move together,   *)
(* so concurrent posts neither make money nor lose it.                     *)
TrialBalance == CreditSide(balance) = CreditSide(Opening)

(* What a caller is told is true of the books: "posted" and "reused" mean  *)
(* its own payload is journalled under its key (or a row too old to tell), *)
(* "conflict" that another one is.                                         *)
AnswersMatchJournals ==
    \A c \in Caller :
        LET there == journal[call[c].key] IN
        /\ outcome[c] = "posted" => there = call[c].payload
        /\ outcome[c] = "reused" => Matches(there, call[c].payload)
        /\ outcome[c] = "conflict" => there # NoJournal /\ ~Matches(there, call[c].payload)

(* Clauses 1 and 3 of the outbox migration: a journal and its outbox row   *)
(* exist together, and a row is published only after a delivery attempt.   *)
OutboxFollowsJournals ==
    /\ outbox = {k \in Key : journal[k] \in Payload}
    /\ delivered \subseteq outbox
    /\ published \subseteq delivered

(* A journal, once there, is never replaced by another call's, however two *)
(* posts of one key interleave.                                            *)
JournalsAreFinal ==
    [][\A k \in Key : journal[k] # NoJournal => journal'[k] = journal[k]]_journal

(* The statements of concurrent posts add up to one atomic post each.      *)
Atomic == INSTANCE LedgerAtomic
ImplementsLedgerAtomic == Atomic!Spec

\* The next statement of the call has what it needs: the row, the key, the row that won.
GoesOn(c) ==
    \/ pc[c] \in {"lookup", "commit", "select", "drain"}
    \/ /\ pc[c] = "lock"
       /\ \E a \in Wanted(c) : lock[a] = NoCaller /\ \A b \in Wanted(c) : a <= b
    \/ /\ pc[c] = "lock"
       /\ Wanted(c) = {}
       /\ Overdraws(c) \/ journal[call[c].key] # NoJournal \/ claim[call[c].key] = NoCaller
    \/ pc[c] = "readback" /\ journal[call[c].key] # NoJournal

(* No deadlock: posts over overlapping accounts wait for each other's rows *)
(* and keys, but of the calls in flight one always goes on.                *)
SomeCallGoesOn == (\E c \in Caller : pc[c] # "idle") => \E c \in Caller : GoesOn(c)

(* Every call is answered: lock order rules out deadlock between posts, and *)
(* one that waits for another's key or row is released by it.               *)
EveryCallAnswers == \A c \in Caller : (pc[c] # "idle") ~> (pc[c] = "idle")

(* The drain each post ends with takes DrainLimit rows and nothing retries *)
(* it: where nothing fails and no more rows than that ever wait at once,   *)
(* each committed journal's row is published.  When more do, the drains of *)
(* concurrent posts may all take the same rows and leave the others.       *)
CommittedIsPublished ==
    [](Cardinality(outbox \ published) <= DrainLimit)
        => \A k \in Key : (k \in outbox) ~> (k \in published)

(* INV-IDEMPOTENCY-01: same key and same payload give the same result.  A  *)
(* call whose own payload is already journalled under its key is not told  *)
(* that the balance is insufficient.                                       *)
ReplayIsNotInsufficient ==
    [][\A c \in Caller :
         outcome[c] # "insufficient" /\ outcome'[c] = "insufficient"
            => journal[call[c].key] # call[c].payload]_outcome

=============================================================================
