---------------------------- MODULE Ledger_proofs ----------------------------
(***************************************************************************)
(* Proofs about Ledger, for every set of callers, keys, accounts and       *)
(* payloads and every value of the bounds.                                 *)
(***************************************************************************)
EXTENDS Ledger, SumLemmas

(***************************************************************************)
(* The inductive invariant.  A post decides with balances it read earlier, *)
(* so the argument is about what its row locks and its claim on the key    *)
(* freeze between that read and its COMMIT.                                *)
(***************************************************************************)

\* What a call read of an account it has locked is still the account's balance.
LockedIsFresh ==
    \A c \in Caller, a \in Account : lock[a] = c => seen[c][a] = balance[a]

\* A call about to commit holds every row it will write and the only claim on its key.
CommitIsReady ==
    \A c \in Caller : pc[c] = "commit" =>
        /\ Wanted(c) = {}
        /\ ~Overdraws(c)
        /\ Wellformed(call[c].payload)
        /\ journal[call[c].key] = NoJournal
        /\ claim[call[c].key] = c

LockingIsWellformed ==
    \A c \in Caller : pc[c] = "lock" => Wellformed(call[c].payload)

\* Only a drain has rows to handle.
NoDrainNoRows ==
    \A c \in Caller : pc[c] # "drain" => batch[c] = {} /\ emitted[c] = {}

\* A drain handles rows that exist, and has delivered the one it will mark.
DrainHandlesOutbox ==
    \A c \in Caller :
        /\ batch[c] \subseteq outbox
        /\ emitted[c] \subseteq delivered
        /\ \A k, l \in emitted[c] : k = l

\* A call that drains has committed its own payload.
DrainFollowsCommit ==
    \A c \in Caller :
        pc[c] \in {"select", "drain"} => journal[call[c].key] = call[c].payload

\* One key at a time is posted, so the sums over posted keys are finite.
FinitelyPosted == IsFiniteSet(Posted)

IInv ==
    /\ TypeOK
    /\ LockedIsFresh
    /\ CommitIsReady
    /\ LockingIsWellformed
    /\ NoDrainNoRows
    /\ DrainHandlesOutbox
    /\ DrainFollowsCommit
    /\ BucketsNeverNegative
    /\ AnswersMatchJournals
    /\ OutboxFollowsJournals
    /\ FinitelyPosted
    /\ BalancesMatchJournals
    /\ TrialBalance

-----------------------------------------------------------------------------

LEMMA RequestType == (CHOOSE r \in Request : TRUE) \in Request
  <1>1. PICK k \in Key, p \in Payload : TRUE
    BY CallerAssumption
  <1>2. [key |-> k, payload |-> p] \in Request
    BY <1>1 DEF Request
  <1> QED
    BY <1>2

\* A payload changes an account by an integer.
LEMMA EffectType ==
  ASSUME NEW p \in Payload, NEW a \in Account
  PROVE  Effect(p, a) \in Int
  BY PayloadAssumption DEF Effect

LEMMA InitIInv == Init => IInv
  <1> SUFFICES ASSUME Init PROVE IInv
    OBVIOUS
  <1> USE AccountAssumption, PayloadAssumption, OpeningAssumption, CallerAssumption
  <1>1. TypeOK
    BY RequestType DEF Init, TypeOK, InitialJournal
  <1>2. LockedIsFresh /\ CommitIsReady /\ LockingIsWellformed
    BY DEF Init, LockedIsFresh, CommitIsReady, LockingIsWellformed
  <1>3. NoDrainNoRows /\ DrainHandlesOutbox /\ DrainFollowsCommit
    BY DEF Init, NoDrainNoRows, DrainHandlesOutbox, DrainFollowsCommit
  <1>4. BucketsNeverNegative /\ AnswersMatchJournals
    BY DEF Init, BucketsNeverNegative, AnswersMatchJournals
  <1>5. OutboxFollowsJournals
    BY DEF Init, OutboxFollowsJournals, InitialJournal
  <1>6. Posted = {}
    BY DEF Init, Posted, InitialJournal
  <1>7. FinitelyPosted
    BY <1>6, FS_EmptySet DEF FinitelyPosted
  <1>8. BalancesMatchJournals
    <2> SUFFICES ASSUME NEW a \in Account
                 PROVE  balance[a] = Opening[a] + SumFunction([k \in Posted |-> Effect(journal[k], a)])
      BY DEF BalancesMatchJournals
    <2>1. SumFunction([k \in Posted |-> Effect(journal[k], a)]) = 0
      BY <1>6, SumEmpty DEF SumFunction
    <2>2. balance[a] = Opening[a] /\ Opening[a] \in Int
      BY DEF Init
    <2> QED
      BY <2>1, <2>2
  <1>9. TrialBalance
    BY DEF Init, TrialBalance
  <1> QED
    BY <1>1, <1>2, <1>3, <1>4, <1>5, <1>7, <1>8, <1>9 DEF IInv

-----------------------------------------------------------------------------

\* A step is one of the actions, of one caller.
LEMMA StepCases ==
  ASSUME [Next]_vars
  PROVE  \/ \E c \in Caller :
              \/ \E k \in Key, p \in Payload : Begin(c, k, p)
              \/ AnswerFromExisting(c)
              \/ Reject(c)
              \/ StartLocking(c)
              \/ \E a \in Account : LockNext(c, a)
              \/ Insufficient(c)
              \/ InsertJournal(c)
              \/ InsertDuplicate(c)
              \/ Commit(c)
              \/ DrainSelect(c)
              \/ \E k \in Key : Emit(c, k)
              \/ MarkPublished(c)
              \/ MarkFailed(c)
              \/ EndDrain(c)
              \/ Fault(c)
         \/ UNCHANGED vars
  BY DEF Next, Post, Drain, Done

LEMMA TypeStep == TypeOK /\ NoDrainNoRows /\ [Next]_vars => TypeOK'
  <1> SUFFICES ASSUME TypeOK, NoDrainNoRows, [Next]_vars PROVE TypeOK'
    OBVIOUS
  <1> USE AccountAssumption, PayloadAssumption, CallerAssumption
  <1> USE DEF TypeOK, tables, delivery, tx, drain, counters, Goto, Answer, EndTransaction, NextRow
  <1>1. ASSUME NEW c \in Caller, NEW k \in Key, NEW p \in Payload, Begin(c, k, p)
        PROVE TypeOK'
    BY <1>1 DEF Begin, Request
  <1>2. ASSUME NEW c \in Caller, AnswerFromExisting(c) PROVE TypeOK'
    BY <1>2 DEF AnswerFromExisting
  <1>3. ASSUME NEW c \in Caller, Reject(c) PROVE TypeOK'
    BY <1>3 DEF Reject
  <1>4. ASSUME NEW c \in Caller, StartLocking(c) PROVE TypeOK'
    BY <1>4 DEF StartLocking
  <1>5. ASSUME NEW c \in Caller, NEW a \in Account, LockNext(c, a) PROVE TypeOK'
    BY <1>5 DEF LockNext
  <1>6. ASSUME NEW c \in Caller, Insufficient(c) PROVE TypeOK'
    BY <1>6 DEF Insufficient
  <1>7. ASSUME NEW c \in Caller, InsertJournal(c) PROVE TypeOK'
    BY <1>7 DEF InsertJournal, Request
  <1>8. ASSUME NEW c \in Caller, InsertDuplicate(c) PROVE TypeOK'
    BY <1>8 DEF InsertDuplicate
  <1>9. ASSUME NEW c \in Caller, Commit(c) PROVE TypeOK'
    <2>1. /\ call[c].payload \in Payload
          /\ call[c].key \in Key
      BY DEF Request
    <2>2. \A a \in Account : After(c, a) \in Int
      BY <2>1, EffectType DEF After
    <2>3. balance' \in [Account -> Int]
      BY <1>9, <2>2 DEF Commit
    <2> QED
      BY <1>9, <2>1, <2>3 DEF Commit
  <1>10. ASSUME NEW c \in Caller, DrainSelect(c) PROVE TypeOK'
    <2>1. PICK rows \in SUBSET (outbox \ published) : batch' = [batch EXCEPT ![c] = rows]
      BY <1>10 DEF DrainSelect
    <2>2. emitted[c] = {}
      BY <1>10 DEF DrainSelect, NoDrainNoRows
    <2> QED
      BY <1>10, <2>1, <2>2 DEF DrainSelect
  <1>11. ASSUME NEW c \in Caller, NEW k \in Key, Emit(c, k) PROVE TypeOK'
    BY <1>11 DEF Emit
  <1>12. ASSUME NEW c \in Caller, MarkPublished(c) PROVE TypeOK'
    BY <1>12 DEF MarkPublished
  <1>13. ASSUME NEW c \in Caller, MarkFailed(c) PROVE TypeOK'
    BY <1>13 DEF MarkFailed
  <1>14. ASSUME NEW c \in Caller, EndDrain(c) PROVE TypeOK'
    BY <1>14 DEF EndDrain
  <1>15. ASSUME NEW c \in Caller, Fault(c) PROVE TypeOK'
    BY <1>15 DEF Fault
  <1>16. CASE UNCHANGED vars
    BY <1>16 DEF vars
  <1> QED
    BY <1>1, <1>2, <1>3, <1>4, <1>5, <1>6, <1>7, <1>8, <1>9, <1>10, <1>11,
       <1>12, <1>13, <1>14, <1>15, <1>16, StepCases

(* The actions that leave the tables, the locks and what was read alone    *)
(* cannot disturb what a transaction relies on; the others are taken one   *)
(* by one.                                                                 *)
LEMMA FreshStep == IInv /\ [Next]_vars => LockedIsFresh'
  <1> SUFFICES ASSUME IInv, [Next]_vars,
                      NEW d \in Caller, NEW b \in Account, lock'[b] = d
               PROVE  seen'[d][b] = balance'[b]
    BY DEF LockedIsFresh
  <1> USE CallerAssumption
  <1> USE DEF IInv, TypeOK, LockedIsFresh, EndTransaction
  <1>1. ASSUME UNCHANGED <<tables, tx>> PROVE seen'[d][b] = balance'[b]
    BY <1>1 DEF tables, tx
  <1>2. ASSUME NEW c \in Caller, EndTransaction(c), UNCHANGED <<tables, seen>>
        PROVE  seen'[d][b] = balance'[b]
    BY <1>2 DEF tables
  <1>3. ASSUME NEW c \in Caller, NEW a \in Account, LockNext(c, a)
        PROVE  seen'[d][b] = balance'[b]
    BY <1>3 DEF LockNext, tables
  <1>4. ASSUME NEW c \in Caller, InsertJournal(c)
        PROVE  seen'[d][b] = balance'[b]
    BY <1>4 DEF InsertJournal, tables
  <1>5. ASSUME NEW c \in Caller, Commit(c)
        PROVE  seen'[d][b] = balance'[b]
    <2>1. lock[b] = d /\ d # c
      BY <1>5 DEF Commit
    <2>2. b \notin Touched(call[c].payload)
      BY <1>5, <2>1 DEF Commit, CommitIsReady, Wanted, Held
    <2> QED
      BY <1>5, <2>1, <2>2 DEF Commit
  <1> QED
    BY <1>1, <1>2, <1>3, <1>4, <1>5, StepCases
    DEF Begin, AnswerFromExisting, Reject, StartLocking, Insufficient, InsertDuplicate,
        DrainSelect, Emit, MarkPublished, MarkFailed, EndDrain, Fault, vars, tx

\* While a call is about to commit, no other call's step changes what it relies on.
LEMMA CommitReadyStep == IInv /\ [Next]_vars => CommitIsReady'
  <1> SUFFICES ASSUME IInv, [Next]_vars, NEW d \in Caller, pc'[d] = "commit"
               PROVE  /\ Wanted(d)' = {}
                      /\ ~Overdraws(d)'
                      /\ Wellformed(call'[d].payload)
                      /\ journal'[call'[d].key] = NoJournal
                      /\ claim'[call'[d].key] = d
    BY DEF CommitIsReady
  <1> DEFINE Ready == /\ Wanted(d)' = {}
                      /\ ~Overdraws(d)'
                      /\ Wellformed(call'[d].payload)
                      /\ journal'[call'[d].key] = NoJournal
                      /\ claim'[call'[d].key] = d
  <1> USE CallerAssumption
  <1>1. ASSUME pc[d] = "commit", call'[d] = call[d], seen'[d] = seen[d],
               \A a \in Account : lock[a] = d => lock'[a] = d,
               journal'[call[d].key] = journal[call[d].key],
               claim'[call[d].key] = claim[call[d].key]
        PROVE  Ready
    BY <1>1 DEF IInv, CommitIsReady, Wanted, Held, Overdraws, After
  <1> HIDE DEF Ready
  <1>2. ASSUME NEW c \in Caller, c # d, EndTransaction(c), call'[d] = call[d],
               seen' = seen, pc'[d] = pc[d], UNCHANGED journal
        PROVE  Ready
    BY <1>1, <1>2 DEF EndTransaction, IInv, TypeOK, CommitIsReady, Request
  <1>3. ASSUME NEW c \in Caller, c # d, UNCHANGED <<tables, tx>>, call'[d] = call[d],
               pc'[d] = pc[d]
        PROVE  Ready
    BY <1>1, <1>3 DEF tables, tx
  <1>4. ASSUME NEW c \in Caller, NEW a \in Account, LockNext(c, a) PROVE Ready
    <2>1. c # d
      BY <1>4 DEF LockNext, IInv, TypeOK
    <2> QED
      BY <1>1, <1>4, <2>1 DEF LockNext, tables, IInv, TypeOK
  <1>5. ASSUME NEW c \in Caller, InsertJournal(c) PROVE Ready
    <2>1. CASE c = d
      BY <1>5, <2>1 DEF Ready, InsertJournal, tables, IInv, TypeOK, LockingIsWellformed,
                        Wanted, Held, Overdraws, After, Request
    <2>2. CASE c # d
      BY <1>1, <1>5, <2>2 DEF InsertJournal, tables, Goto, IInv, TypeOK, CommitIsReady, Request
    <2> QED
      BY <2>1, <2>2
  <1>6. ASSUME NEW c \in Caller, Commit(c) PROVE Ready
    <2>1. c # d
      BY <1>6 DEF Commit, Goto, IInv, TypeOK
    <2>2. pc[d] = "commit"
      BY <1>6, <2>1 DEF Commit, Goto, IInv, TypeOK
    <2>3. call[d].key # call[c].key
      BY <1>6, <2>1, <2>2 DEF Commit, IInv, CommitIsReady
    <2> QED
      BY <1>1, <1>6, <2>1, <2>2, <2>3
      DEF Commit, EndTransaction, IInv, TypeOK, CommitIsReady, Request
  <1>7. ASSUME NEW c \in Caller,
               \/ \E k \in Key, p \in Payload : Begin(c, k, p)
               \/ AnswerFromExisting(c)
               \/ Reject(c)
               \/ StartLocking(c)
               \/ DrainSelect(c)
               \/ \E k \in Key : Emit(c, k)
               \/ MarkPublished(c)
               \/ MarkFailed(c)
               \/ EndDrain(c)
        PROVE  Ready
    <2>1. c # d
      BY <1>7 DEF Begin, AnswerFromExisting, Reject, StartLocking, DrainSelect, Emit,
                  MarkPublished, MarkFailed, EndDrain, Goto, Answer, IInv, TypeOK
    <2>2. UNCHANGED <<tables, tx>> /\ call'[d] = call[d] /\ pc'[d] = pc[d]
      BY <1>7, <2>1 DEF Begin, AnswerFromExisting, Reject, StartLocking, DrainSelect, Emit,
                  MarkPublished, MarkFailed, EndDrain, Goto, Answer, IInv, TypeOK
    <2> QED
      BY <1>3, <2>1, <2>2
  <1>8. ASSUME NEW c \in Caller, Insufficient(c) \/ InsertDuplicate(c) \/ Fault(c)
        PROVE  Ready
    <2>1. c # d /\ call'[d] = call[d] /\ pc'[d] = pc[d]
      BY <1>8 DEF Insufficient, InsertDuplicate, Fault, Goto, Answer, IInv, TypeOK
    <2>2. EndTransaction(c) /\ seen' = seen /\ UNCHANGED journal
      BY <1>8 DEF Insufficient, InsertDuplicate, Fault, tables
    <2> QED
      BY <1>2, <2>1, <2>2
  <1>9. ASSUME UNCHANGED vars PROVE Ready
    <2>1. UNCHANGED <<tables, tx, pc, call>>
      BY <1>9 DEF vars
    <2> QED
      BY <1>1, <2>1 DEF tables, tx
  <1>10. Ready
    BY <1>4, <1>5, <1>6, <1>7, <1>8, <1>9, StepCases
  <1> QED
    BY <1>10 DEF Ready

LEMMA LockingStep == IInv /\ [Next]_vars => LockingIsWellformed'
  <1> SUFFICES ASSUME IInv, [Next]_vars, NEW d \in Caller, pc'[d] = "lock"
               PROVE  Wellformed(call'[d].payload)
    BY DEF LockingIsWellformed
  <1> USE DEF IInv, TypeOK, LockingIsWellformed
  <1>1. ASSUME pc[d] = "lock", call'[d] = call[d] PROVE Wellformed(call'[d].payload)
    BY <1>1
  <1>2. ASSUME NEW c \in Caller, StartLocking(c) PROVE Wellformed(call'[d].payload)
    BY <1>1, <1>2 DEF StartLocking, Goto
  <1>3. ASSUME UNCHANGED vars PROVE Wellformed(call'[d].payload)
    BY <1>3 DEF vars
  <1> QED
    BY <1>1, <1>2, <1>3, StepCases
    DEF Goto, Answer, Begin, AnswerFromExisting, Reject, LockNext, Insufficient,
        InsertJournal, InsertDuplicate, Commit, DrainSelect, Emit, MarkPublished,
        MarkFailed, EndDrain, Fault

LEMMA NoRowsStep == IInv /\ [Next]_vars => NoDrainNoRows'
  <1> SUFFICES ASSUME IInv, [Next]_vars, NEW d \in Caller, pc'[d] # "drain"
               PROVE  batch'[d] = {} /\ emitted'[d] = {}
    BY DEF NoDrainNoRows
  <1> USE DEF IInv, TypeOK, NoDrainNoRows
  <1>1. ASSUME UNCHANGED drain, pc[d] # "drain" PROVE batch'[d] = {} /\ emitted'[d] = {}
    BY <1>1 DEF drain
  <1>2. ASSUME NEW c \in Caller, EndDrain(c) PROVE batch'[d] = {} /\ emitted'[d] = {}
    BY <1>2 DEF EndDrain, drain, Goto, Answer
  <1>3. ASSUME NEW c \in Caller, DrainSelect(c) PROVE batch'[d] = {} /\ emitted'[d] = {}
    <2>1. c # d /\ pc[d] # "drain" /\ batch'[d] = batch[d] /\ emitted' = emitted
      BY <1>3 DEF DrainSelect, Goto
    <2> QED
      BY <2>1
  <1>4. ASSUME NEW c \in Caller, Fault(c) PROVE batch'[d] = {} /\ emitted'[d] = {}
    BY <1>4 DEF Fault, Goto, Answer
  <1>5. ASSUME NEW c \in Caller,
               (\E k \in Key : Emit(c, k)) \/ MarkPublished(c) \/ MarkFailed(c)
        PROVE batch'[d] = {} /\ emitted'[d] = {}
    BY <1>5 DEF Emit, MarkPublished, MarkFailed, NextRow
  <1>6. ASSUME UNCHANGED vars PROVE batch'[d] = {} /\ emitted'[d] = {}
    BY <1>6 DEF vars, drain
  <1> QED
    BY <1>1, <1>2, <1>3, <1>4, <1>5, <1>6, StepCases
    DEF Goto, Answer, Begin, AnswerFromExisting, Reject, StartLocking, LockNext,
        Insufficient, InsertJournal, InsertDuplicate, Commit

LEMMA DrainRowsStep == IInv /\ [Next]_vars => DrainHandlesOutbox'
  <1> SUFFICES ASSUME IInv, [Next]_vars, NEW d \in Caller
               PROVE  /\ batch'[d] \subseteq outbox'
                      /\ emitted'[d] \subseteq delivered'
                      /\ \A k, l \in emitted'[d] : k = l
    BY DEF DrainHandlesOutbox
  <1> DEFINE Handles == /\ batch'[d] \subseteq outbox'
                        /\ emitted'[d] \subseteq delivered'
                        /\ \A k, l \in emitted'[d] : k = l
  <1> USE DEF IInv, TypeOK, DrainHandlesOutbox
  <1>1. ASSUME UNCHANGED drain, outbox \subseteq outbox', UNCHANGED delivered PROVE Handles
    BY <1>1 DEF drain
  <1>2. ASSUME NEW c \in Caller, DrainSelect(c) PROVE Handles
    <2>1. PICK rows \in SUBSET (outbox \ published) : batch' = [batch EXCEPT ![c] = rows]
      BY <1>2 DEF DrainSelect
    <2> QED
      BY <1>2, <2>1 DEF DrainSelect, tables, delivery
  <1>3. ASSUME NEW c \in Caller, NEW k \in Key, Emit(c, k) PROVE Handles
    BY <1>3 DEF Emit, tables
  <1>4. ASSUME NEW c \in Caller, MarkPublished(c) \/ MarkFailed(c) PROVE Handles
    BY <1>4 DEF MarkPublished, MarkFailed, NextRow, tables, delivery
  <1>5. ASSUME NEW c \in Caller, Fault(c) PROVE Handles
    BY <1>5 DEF Fault, tables, delivery
  <1>6. ASSUME UNCHANGED vars PROVE Handles
    BY <1>1, <1>6 DEF vars, tables, delivery
  <1> HIDE DEF Handles
  <1>7. Handles
    BY <1>1, <1>2, <1>3, <1>4, <1>5, <1>6, StepCases
    DEF Begin, AnswerFromExisting, Reject, StartLocking, LockNext, Insufficient,
        InsertJournal, InsertDuplicate, Commit, EndDrain, tables, delivery
  <1> QED
    BY <1>7 DEF Handles

\* Only a fresh key is ever written: the claim that guards it excludes every other commit.
LEMMA JournalStep ==
  ASSUME IInv, [Next]_vars, NEW k \in Key, journal[k] # NoJournal
  PROVE  journal'[k] = journal[k]
  <1>1. ASSUME NEW c \in Caller, Commit(c) PROVE journal'[k] = journal[k]
    BY <1>1 DEF Commit, IInv, TypeOK, CommitIsReady
  <1> QED
    BY <1>1, StepCases
    DEF Begin, AnswerFromExisting, Reject, StartLocking, LockNext, Insufficient,
        InsertJournal, InsertDuplicate, DrainSelect, Emit, MarkPublished, MarkFailed,
        EndDrain, Fault, tables, vars

LEMMA DrainFollowsStep == IInv /\ [Next]_vars => DrainFollowsCommit'
  <1> SUFFICES ASSUME IInv, [Next]_vars, NEW d \in Caller, pc'[d] \in {"select", "drain"}
               PROVE  journal'[call'[d].key] = call'[d].payload
    BY DEF DrainFollowsCommit
  <1> USE PayloadAssumption DEF IInv, TypeOK, DrainFollowsCommit
  <1>1. ASSUME pc[d] \in {"select", "drain"}, call'[d] = call[d]
        PROVE  journal'[call'[d].key] = call'[d].payload
    <2>1. call[d].key \in Key /\ call[d].payload \in Payload
      BY DEF Request
    <2>2. journal[call[d].key] = call[d].payload
      BY <1>1
    <2>3. journal[call[d].key] # NoJournal
      BY <2>1, <2>2
    <2> QED
      BY <1>1, <2>1, <2>2, <2>3, JournalStep
  <1>2. ASSUME NEW c \in Caller, Commit(c)
        PROVE  journal'[call'[d].key] = call'[d].payload
    <2>1. CASE c = d
      BY <1>2, <2>1 DEF Commit, Request
    <2>2. CASE c # d
      BY <1>1, <1>2, <2>2 DEF Commit, Goto
    <2> QED
      BY <2>1, <2>2
  <1>3. ASSUME NEW c \in Caller, DrainSelect(c)
        PROVE  journal'[call'[d].key] = call'[d].payload
    BY <1>1, <1>3 DEF DrainSelect, Goto
  <1>4. ASSUME UNCHANGED vars PROVE journal'[call'[d].key] = call'[d].payload
    BY <1>1, <1>4 DEF vars
  <1> QED
    BY <1>1, <1>2, <1>3, <1>4, StepCases
    DEF Goto, Answer, Begin, AnswerFromExisting, Reject, StartLocking, LockNext,
        Insufficient, InsertJournal, InsertDuplicate, Emit, MarkPublished, MarkFailed,
        EndDrain, Fault

\* The check was made on balances that are still current when they are replaced.
LEMMA BucketsStep == IInv /\ [Next]_vars => BucketsNeverNegative'
  <1> SUFFICES ASSUME IInv, [Next]_vars, NEW b \in UserBucket
               PROVE  balance'[b] >= 0
    BY DEF BucketsNeverNegative
  <1> USE AccountAssumption
  <1>1. ASSUME NEW c \in Caller, Commit(c) PROVE balance'[b] >= 0
    <2>1. b \in Account
      OBVIOUS
    <2>2. CASE b \in Touched(call[c].payload)
      <3>1. After(c, b) \in Int
        <4>1. call[c].payload \in Payload
          BY DEF IInv, TypeOK, Request
        <4> QED
          BY <2>1, <4>1, EffectType DEF After, IInv, TypeOK
      <3>2. ~(After(c, b) < 0)
        BY <1>1, <2>2 DEF Commit, IInv, CommitIsReady, Overdraws
      <3> QED
        BY <1>1, <2>1, <2>2, <3>1, <3>2 DEF Commit
    <2>3. CASE b \notin Touched(call[c].payload)
      BY <1>1, <2>1, <2>3 DEF Commit, IInv, BucketsNeverNegative
    <2> QED
      BY <2>2, <2>3
  <1>2. ASSUME UNCHANGED balance PROVE balance'[b] >= 0
    BY <1>2 DEF IInv, BucketsNeverNegative
  <1> QED
    BY <1>1, <1>2, StepCases
    DEF Begin, AnswerFromExisting, Reject, StartLocking, LockNext, Insufficient,
        InsertJournal, InsertDuplicate, DrainSelect, Emit, MarkPublished, MarkFailed,
        EndDrain, Fault, tables, vars

LEMMA OutboxStep == IInv /\ [Next]_vars => OutboxFollowsJournals'
  <1> SUFFICES ASSUME IInv, [Next]_vars PROVE OutboxFollowsJournals'
    OBVIOUS
  <1> USE PayloadAssumption
  <1> USE DEF IInv, TypeOK, OutboxFollowsJournals
  <1>1. ASSUME UNCHANGED <<tables, delivery>> PROVE OutboxFollowsJournals'
    BY <1>1 DEF tables, delivery
  <1>2. ASSUME NEW c \in Caller, Commit(c) PROVE OutboxFollowsJournals'
    BY <1>2 DEF Commit, delivery, Request
  <1>3. ASSUME NEW c \in Caller, NEW k \in Key, Emit(c, k) PROVE OutboxFollowsJournals'
    BY <1>3 DEF Emit, tables, DrainHandlesOutbox
  <1>4. ASSUME NEW c \in Caller, MarkPublished(c) PROVE OutboxFollowsJournals'
    BY <1>4 DEF MarkPublished, tables, DrainHandlesOutbox
  <1>5. ASSUME UNCHANGED vars PROVE OutboxFollowsJournals'
    BY <1>1, <1>5 DEF vars
  <1> QED
    BY <1>1, <1>2, <1>3, <1>4, <1>5, StepCases
    DEF Begin, AnswerFromExisting, Reject, StartLocking, LockNext, Insufficient,
        InsertJournal, InsertDuplicate, DrainSelect, MarkFailed, EndDrain, Fault

LEMMA AnswersStep == IInv /\ [Next]_vars => AnswersMatchJournals'
  <1> SUFFICES ASSUME IInv, [Next]_vars, NEW d \in Caller
               PROVE  LET there == journal'[call'[d].key] IN
                      /\ outcome'[d] = "posted" => there = call'[d].payload
                      /\ outcome'[d] = "reused" => Matches(there, call'[d].payload)
                      /\ outcome'[d] = "conflict" =>
                           there # NoJournal /\ ~Matches(there, call'[d].payload)
    BY DEF AnswersMatchJournals
  <1> DEFINE there == journal'[call'[d].key]
             Honest == /\ outcome'[d] = "posted" => there = call'[d].payload
                       /\ outcome'[d] = "reused" => Matches(there, call'[d].payload)
                       /\ outcome'[d] = "conflict" =>
                            there # NoJournal /\ ~Matches(there, call'[d].payload)
  <1> USE PayloadAssumption
  <1>0. call[d].key \in Key /\ call[d].payload \in Payload
    BY DEF IInv, TypeOK, Request
  \* The answer and the question stand, and a journal there stays as it is.
  <1>1. ASSUME outcome'[d] = outcome[d], call'[d] = call[d] PROVE Honest
    BY <1>0, <1>1, JournalStep DEF IInv, AnswersMatchJournals, Matches
  <1>2. ASSUME outcome'[d] \notin {"posted", "reused", "conflict"} PROVE Honest
    BY <1>2
  <1>3. ASSUME NEW c \in Caller, AnswerFromExisting(c) PROVE Honest
    <2>1. CASE c = d
      BY <1>0, <1>3, <2>1 DEF AnswerFromExisting, Answer, Goto, tables, IInv, TypeOK
    <2>2. CASE c # d
      BY <1>1, <1>3, <2>2 DEF AnswerFromExisting, Answer, IInv, TypeOK
    <2> QED
      BY <2>1, <2>2
  <1>4. ASSUME NEW c \in Caller, EndDrain(c) PROVE Honest
    <2>1. CASE c = d
      BY <1>0, <1>4, <2>1 DEF EndDrain, Answer, tables, IInv, TypeOK, DrainFollowsCommit
    <2>2. CASE c # d
      BY <1>1, <1>4, <2>2 DEF EndDrain, Answer, IInv, TypeOK
    <2> QED
      BY <2>1, <2>2
  <1>5. ASSUME NEW c \in Caller,
               \/ \E k \in Key, p \in Payload : Begin(c, k, p)
               \/ Reject(c)
               \/ Insufficient(c)
               \/ Fault(c)
        PROVE Honest
    <2>1. CASE c = d
      BY <1>2, <1>5, <2>1 DEF Begin, Reject, Insufficient, Fault, Answer, IInv, TypeOK
    <2>2. CASE c # d
      BY <1>1, <1>5, <2>2 DEF Begin, Reject, Insufficient, Fault, Answer, IInv, TypeOK
    <2> QED
      BY <2>1, <2>2
  <1>6. ASSUME UNCHANGED vars PROVE Honest
    BY <1>1, <1>6 DEF vars
  <1> HIDE DEF Honest
  <1>7. Honest
    BY <1>1, <1>3, <1>4, <1>5, <1>6, StepCases
    DEF StartLocking, LockNext, InsertJournal, InsertDuplicate, Commit, DrainSelect, Emit,
        MarkPublished, MarkFailed
  <1> QED
    BY <1>7 DEF Honest

-----------------------------------------------------------------------------

(* What COMMIT does to the books: the rows it writes are the ones it read, *)
(* so each balance moves by exactly its line.                              *)
LEMMA CommitEffect ==
  ASSUME IInv, NEW c \in Caller, Commit(c)
  PROVE  /\ call[c].key \in Key /\ call[c].payload \in Payload
         /\ journal[call[c].key] = NoJournal
         /\ journal' = [journal EXCEPT ![call[c].key] = call[c].payload]
         /\ Wellformed(call[c].payload)
         /\ \A a \in Account :
              /\ a \in Touched(call[c].payload) =>
                   After(c, a) = balance[a] + Effect(call[c].payload, a)
              /\ balance'[a] = balance[a] + Effect(call[c].payload, a)
  <1> DEFINE p == call[c].payload
  <1>1. call[c].key \in Key /\ p \in Payload
    BY DEF IInv, TypeOK, Request
  <1>2. /\ journal[call[c].key] = NoJournal
        /\ journal' = [journal EXCEPT ![call[c].key] = p]
        /\ Wellformed(p)
    BY DEF Commit, IInv, CommitIsReady
  <1>3. ASSUME NEW a \in Account
        PROVE  /\ a \in Touched(p) => After(c, a) = balance[a] + Effect(p, a)
               /\ balance'[a] = balance[a] + Effect(p, a)
    <2>1. a \in Touched(p) => After(c, a) = balance[a] + Effect(p, a)
      BY DEF Commit, IInv, CommitIsReady, Wanted, Held, LockedIsFresh, After
    <2>2. CASE a \in Touched(p)
      BY <2>1, <2>2 DEF Commit
    <2>3. CASE a \notin Touched(p)
      <3>1. balance'[a] = balance[a] /\ p.line[a] = 0
        BY <2>3 DEF Commit, Touched
      <3>2. balance[a] \in Int
        BY DEF IInv, TypeOK
      <3> HIDE DEF p
      <3>3. Effect(p, a) = 0
        <4>1. \A x \in Int : -x = 0 - x
          OBVIOUS
        <4>2. p.line[a] \in Int
          BY <3>1
        <4>3. Effect(p, a) = 0 - p.line[a] \/ Effect(p, a) = p.line[a]
          BY <4>1, <4>2 DEF Effect
        <4> QED
          BY <3>1, <4>3
      <3>4. balance'[a] = balance[a] + Effect(p, a)
        BY <3>1, <3>2, <3>3
      <3> QED
        BY <2>1, <3>4
    <2> QED
      BY <2>1, <2>2, <2>3
  <1> QED
    BY <1>1, <1>2, <1>3

\* The steps other than COMMIT leave journals and balances alone.
LEMMA BooksMoveAtCommit ==
  ASSUME [Next]_vars
  PROVE  (\E c \in Caller : Commit(c)) \/ UNCHANGED <<journal, balance>>
  BY StepCases
  DEF Begin, AnswerFromExisting, Reject, StartLocking, LockNext, Insufficient,
      InsertJournal, InsertDuplicate, DrainSelect, Emit, MarkPublished, MarkFailed,
      EndDrain, Fault, tables, vars

\* COMMIT posts one key more, and no step another.
LEMMA PostedStep ==
  ASSUME IInv, NEW c \in Caller, Commit(c)
  PROVE  call[c].key \notin Posted /\ Posted' = Posted \cup {call[c].key}
  BY CommitEffect, PayloadAssumption DEF Posted, IInv, TypeOK

LEMMA FiniteStep == IInv /\ [Next]_vars => FinitelyPosted'
  <1> SUFFICES ASSUME IInv, [Next]_vars PROVE FinitelyPosted'
    OBVIOUS
  <1>1. ASSUME NEW c \in Caller, Commit(c) PROVE FinitelyPosted'
    BY <1>1, PostedStep, FS_AddElement DEF FinitelyPosted, IInv
  <1>2. ASSUME UNCHANGED <<journal, balance>> PROVE FinitelyPosted'
    BY <1>2 DEF FinitelyPosted, Posted, IInv
  <1> QED
    BY <1>1, <1>2, BooksMoveAtCommit

\* The key COMMIT adds contributes its payload's effect; the others' are as they were.
LEMMA BalancesStep == IInv /\ [Next]_vars => BalancesMatchJournals'
  <1> SUFFICES ASSUME IInv, [Next]_vars, NEW a \in Account
               PROVE  balance'[a] = Opening[a]
                        + SumFunction([k \in Posted' |-> Effect(journal'[k], a)])
    BY DEF BalancesMatchJournals, Effect
  <1> DEFINE f == [k \in Posted |-> Effect(journal[k], a)]
             g == [k \in Posted' |-> Effect(journal'[k], a)]
  <1>0. balance[a] = Opening[a] + SumFunctionOnSet(f, Posted)
    BY DEF IInv, BalancesMatchJournals, SumFunction
  <1>1. ASSUME NEW c \in Caller, Commit(c)
        PROVE  balance'[a] = Opening[a] + SumFunctionOnSet(g, Posted')
    <2> DEFINE n == call[c].key
    <2>1. n \notin Posted /\ Posted' = Posted \cup {n} /\ IsFiniteSet(Posted)
      BY <1>1, PostedStep DEF IInv, FinitelyPosted
    <2>2. ASSUME NEW k \in Posted PROVE f[k] = g[k] /\ f[k] \in Int
      <3>1. k \in Key /\ k # n /\ k \in Posted' /\ journal[k] \in Payload
        BY <2>1 DEF Posted
      <3>2. journal'[k] = journal[k]
        BY <1>1, <3>1, CommitEffect DEF IInv, TypeOK
      <3>3. f[k] = Effect(journal[k], a) /\ g[k] = Effect(journal'[k], a)
        BY <3>1
      <3> HIDE DEF f, g
      <3> QED
        BY <3>1, <3>2, <3>3, EffectType
    <2>3. g[n] = Effect(call[c].payload, a) /\ g[n] \in Int
      BY <1>1, <2>1, CommitEffect, EffectType DEF IInv, TypeOK
    <2>4. balance'[a] = balance[a] + g[n]
      BY <1>1, <2>3, CommitEffect
    <2>5. Opening[a] \in Int
      BY OpeningAssumption
    <2> HIDE DEF f, g, n
    <2>6. SumFunctionOnSet(g, Posted') = g[n] + SumFunctionOnSet(g, Posted)
      BY <2>1, <2>2, <2>3, SumAdd
    <2>7. SumFunctionOnSet(g, Posted) = SumFunctionOnSet(f, Posted)
      BY <2>1, <2>2, SumAgree
    <2>8. SumFunctionOnSet(f, Posted) \in Int
      BY <2>1, <2>2, SumType
    <2> QED
      BY <1>0, <2>3, <2>4, <2>5, <2>6, <2>7, <2>8
  <1>2. ASSUME UNCHANGED <<journal, balance>>
        PROVE  balance'[a] = Opening[a] + SumFunctionOnSet(g, Posted')
    <2>1. Posted' = Posted /\ g = f
      BY <1>2 DEF Posted
    <2> HIDE DEF f, g
    <2> QED
      BY <1>0, <1>2, <2>1
  <1>3. balance'[a] = Opening[a] + SumFunctionOnSet(g, Posted')
    BY <1>1, <1>2, BooksMoveAtCommit
  <1> QED
    BY <1>3 DEF SumFunction

\* A balanced payload moves both sides of the book by the same amount.
LEMMA TrialStep == IInv /\ [Next]_vars => TrialBalance'
  <1> SUFFICES ASSUME IInv, [Next]_vars PROVE TrialBalance'
    OBVIOUS
  <1>1. ASSUME NEW c \in Caller, Commit(c) PROVE CreditSide(balance') = CreditSide(balance)
    <2> DEFINE f == [a \in Account |-> IF a \in DebitNormal THEN -balance[a] ELSE balance[a]]
               g == call[c].payload.line
               h == [a \in Account |-> IF a \in DebitNormal THEN -balance'[a] ELSE balance'[a]]
    <2>1. call[c].payload \in Payload /\ g \in [Account -> Int]
      BY <1>1, CommitEffect, PayloadAssumption
    <2>2. ASSUME NEW a \in Account
          PROVE  f[a] \in Int /\ g[a] \in Int /\ h[a] = f[a] + g[a]
      <3>1. balance'[a] = balance[a] + Effect(call[c].payload, a)
        BY <1>1, CommitEffect
      <3>2. balance[a] \in Int /\ g[a] \in Int
        BY <2>1 DEF IInv, TypeOK
      <3> QED
        BY <3>1, <3>2 DEF Effect
    <2>3. SumFunctionOnSet(g, Account) = 0
      BY <1>1, <2>1, CommitEffect DEF Wellformed, Balanced, SumFunction
    <2>4. CreditSide(balance) = SumFunctionOnSet(f, Account)
      BY DEF CreditSide, SumFunction
    <2>5. CreditSide(balance') = SumFunctionOnSet(h, Account)
      BY DEF CreditSide, SumFunction
    <2>6. IsFiniteSet(Account)
      BY AccountAssumption
    <2> HIDE DEF f, g, h
    <2>7. SumFunctionOnSet(h, Account)
            = SumFunctionOnSet(f, Account) + SumFunctionOnSet(g, Account)
      BY <2>2, <2>6, SumPlus
    <2>8. SumFunctionOnSet(f, Account) \in Int
      BY <2>2, <2>6, SumType
    <2> QED
      BY <2>3, <2>4, <2>5, <2>7, <2>8
  <1>2. CreditSide(balance') = CreditSide(balance)
    BY <1>1, BooksMoveAtCommit
  <1> QED
    BY <1>2 DEF IInv, TrialBalance, CreditSide

-----------------------------------------------------------------------------

\* The conjunction above is an invariant of the ledger.
THEOREM Invariance == Spec => []IInv
  <1>1. Init => IInv
    BY InitIInv
  <1>2. IInv /\ [Next]_vars => IInv'
    BY TypeStep, FreshStep, CommitReadyStep, LockingStep, NoRowsStep, DrainRowsStep,
       DrainFollowsStep, BucketsStep, AnswersStep, OutboxStep,
       FiniteStep, BalancesStep, TrialStep DEF IInv
  <1> QED
    BY <1>1, <1>2, PTL DEF Spec

(* Type correctness of the tables and of every call in flight.             *)
THEOREM TypeCorrect == Spec => []TypeOK
  <1>1. IInv => TypeOK
    BY DEF IInv
  <1> QED
    BY <1>1, Invariance, PTL

(* However many posts interleave, no user bucket is ever below zero.       *)
THEOREM NoOverdraft == Spec => []BucketsNeverNegative
  <1>1. IInv => BucketsNeverNegative
    BY DEF IInv
  <1> QED
    BY <1>1, Invariance, PTL

(* postJournal never tells a caller something the journals do not say.     *)
THEOREM HonestAnswers == Spec => []AnswersMatchJournals
  <1>1. IInv => AnswersMatchJournals
    BY DEF IInv
  <1> QED
    BY <1>1, Invariance, PTL

(* Clauses 1 and 3 of the outbox: a row per journal, delivery before       *)
(* published_at.                                                           *)
THEOREM OutboxClauses == Spec => []OutboxFollowsJournals
  <1>1. IInv => OutboxFollowsJournals
    BY DEF IInv
  <1> QED
    BY <1>1, Invariance, PTL

(* No post is lost and none is applied twice: every balance is what it     *)
(* opened with plus its lines of the journals posted, at any time.         *)
THEOREM BooksMatch == Spec => []BalancesMatchJournals
  <1>1. IInv => BalancesMatchJournals
    BY DEF IInv
  <1> QED
    BY <1>1, Invariance, PTL

(* Concurrent posts neither make money nor lose it.                        *)
THEOREM TrialBalances == Spec => []TrialBalance
  <1>1. IInv => TrialBalance
    BY DEF IInv
  <1> QED
    BY <1>1, Invariance, PTL

(* A posted journal is never overwritten, whoever races for its key.       *)
THEOREM FinalJournals == Spec => JournalsAreFinal
  <1>1. IInv /\ [Next]_vars =>
          [\A k \in Key : journal[k] # NoJournal => journal'[k] = journal[k]]_journal
    BY JournalStep
  <1> QED
    BY <1>1, Invariance, PTL DEF Spec, JournalsAreFinal

-----------------------------------------------------------------------------

\* COMMIT is the one step that posts: by then the rows read are current and locked.
LEMMA CommitPosts ==
  ASSUME IInv, NEW c \in Caller, Commit(c)
  PROVE  Atomic!Post(call[c].key, call[c].payload)
  <1> DEFINE p == call[c].payload
  <1>1. call[c].key \in Key /\ p \in Payload
    BY CommitEffect
  <1>2. ASSUME NEW a \in Touched(p)
        PROVE  a \in Account /\ After(c, a) = balance[a] + Effect(p, a)
    BY <1>2, CommitEffect DEF Touched
  <1>3. journal[call[c].key] = NoJournal /\ Wellformed(p)
    BY CommitEffect
  <1>4. \A a \in Touched(p) \cap UserBucket : balance[a] + Effect(p, a) >= 0
    <2> TAKE a \in Touched(p) \cap UserBucket
    <2>1. a \in Account /\ After(c, a) = balance[a] + Effect(p, a)
      BY <1>2
    <2>2. ~(After(c, a) < 0)
      BY DEF Commit, IInv, CommitIsReady, Overdraws
    <2>3. balance[a] + Effect(p, a) \in Int
      BY <1>1, <2>1, EffectType DEF IInv, TypeOK
    <2> QED
      BY <2>1, <2>2, <2>3
  <1>5. balance' = [a \in Account |->
                      IF a \in Touched(p) THEN balance[a] + Effect(p, a) ELSE balance[a]]
    BY <1>2 DEF Commit
  <1>6. Atomic!Wellformed(p)
    <2>1. Atomic!SumFunction(p.line) = SumFunction(p.line)
      BY DEF Atomic!SumFunction, SumFunction, Atomic!SumFunctionOnSet, SumFunctionOnSet,
             Atomic!FoldFunctionOnSet, FoldFunctionOnSet, Atomic!MapThenFoldSet, MapThenFoldSet
    <2> QED
      BY <1>3, <2>1
      DEF Atomic!Wellformed, Atomic!Touched, Atomic!Balanced, Atomic!PracticeIsolated,
          Wellformed, Touched, Balanced, PracticeIsolated
  <1> QED
    BY <1>3, <1>4, <1>5, <1>6
    DEF Commit, delivery, Atomic!Post, Atomic!Touched, Atomic!Effect, Touched, Effect

(* The statements of concurrent posts implement one atomic post each:      *)
(* postJournal is exactly-once per key, and announces what it posted.      *)
THEOREM Refinement == Spec => ImplementsLedgerAtomic
  <1>1. Init => Atomic!Init
    BY DEF Init, Atomic!Init, Atomic!InitialJournal, InitialJournal
  <1>2. IInv /\ [Next]_vars => [Atomic!Next]_(Atomic!vars)
    <2> SUFFICES ASSUME IInv, [Next]_vars PROVE [Atomic!Next]_(Atomic!vars)
      OBVIOUS
    <2>1. ASSUME UNCHANGED <<tables, delivery>> PROVE UNCHANGED Atomic!vars
      BY <2>1 DEF tables, delivery, Atomic!vars
    <2>2. ASSUME NEW c \in Caller, Commit(c) PROVE Atomic!Next
      BY <2>2, CommitPosts DEF Atomic!Next, IInv, TypeOK, Request
    <2>3. ASSUME NEW c \in Caller, NEW k \in Key, Emit(c, k) PROVE Atomic!Next
      BY <2>3 DEF Emit, tables, Atomic!Next, Atomic!Deliver, IInv, DrainHandlesOutbox
    <2>4. ASSUME NEW c \in Caller, MarkPublished(c) PROVE Atomic!Next
      <3>1. PICK k \in emitted[c] : emitted[c] = {k}
        BY <2>4 DEF MarkPublished, IInv, DrainHandlesOutbox
      <3>2. k \in Key /\ k \in delivered
        BY <3>1 DEF IInv, TypeOK, DrainHandlesOutbox
      <3> QED
        BY <2>4, <3>1, <3>2 DEF MarkPublished, tables, Atomic!Next, Atomic!Publish
    <2>5. ASSUME UNCHANGED vars PROVE UNCHANGED Atomic!vars
      BY <2>1, <2>5 DEF vars
    <2> QED
      BY <2>1, <2>2, <2>3, <2>4, <2>5, StepCases
      DEF Begin, AnswerFromExisting, Reject, StartLocking, LockNext, Insufficient,
          InsertJournal, InsertDuplicate, DrainSelect, MarkFailed, EndDrain, Fault
  <1> QED
    BY <1>1, <1>2, Invariance, PTL DEF Spec, ImplementsLedgerAtomic, Atomic!Spec

-----------------------------------------------------------------------------
(* No deadlock.  A row is held by a call that has asked for it in order, a *)
(* key by a call that waits for nothing; so of the calls that wait, the    *)
(* one that waits for the last row waits for a call that goes on.          *)

\* A key is held open from its INSERT to COMMIT.
ClaimsCommit ==
    \A k \in Key, c \in Caller : claim[k] = c => pc[c] = "commit" /\ call[c].key = k

\* A call holds rows in its transaction only, all before the rows it still wants.
LocksAscend ==
    \A a \in Account, c \in Caller : lock[a] = c =>
        /\ pc[c] \in {"lock", "commit"}
        /\ a \in Touched(call[c].payload)
        /\ \A b \in Wanted(c) : a < b

\* A unique violation means that the other INSERT was committed.
ReadbackFinds == \A c \in Caller : pc[c] = "readback" => journal[call[c].key] # NoJournal

WaitsAreOrdered == ClaimsCommit /\ LocksAscend /\ ReadbackFinds

LEMMA ClaimsStep == IInv /\ ClaimsCommit /\ [Next]_vars => ClaimsCommit'
  <1> SUFFICES ASSUME IInv, ClaimsCommit, [Next]_vars,
                      NEW k \in Key, NEW d \in Caller, claim'[k] = d
               PROVE  pc'[d] = "commit" /\ call'[d].key = k
    BY DEF ClaimsCommit
  <1> USE CallerAssumption DEF IInv, TypeOK, ClaimsCommit
  <1>1. ASSUME claim[k] = d, pc'[d] = pc[d], call'[d] = call[d]
        PROVE  pc'[d] = "commit" /\ call'[d].key = k
    BY <1>1
  <1>2. ASSUME NEW c \in Caller, InsertJournal(c)
        PROVE  pc'[d] = "commit" /\ call'[d].key = k
    BY <1>2 DEF InsertJournal, Goto, Request
  <1>3. ASSUME NEW c \in Caller, EndTransaction(c), UNCHANGED call,
               \E label : pc' = [pc EXCEPT ![c] = label]
        PROVE  pc'[d] = "commit" /\ call'[d].key = k
    <2>1. claim[k] = d /\ d # c
      BY <1>3 DEF EndTransaction
    <2> QED
      BY <1>1, <1>3, <2>1
  <1>4. ASSUME NEW c \in Caller, Insufficient(c) \/ InsertDuplicate(c) \/ Commit(c) \/ Fault(c)
        PROVE  pc'[d] = "commit" /\ call'[d].key = k
    <2>1. EndTransaction(c) /\ UNCHANGED call /\ \E label : pc' = [pc EXCEPT ![c] = label]
      BY <1>4 DEF Insufficient, InsertDuplicate, Commit, Fault, Goto, Answer
    <2> QED
      BY <1>3, <2>1
  <1>5. ASSUME NEW c \in Caller,
               \/ \E x \in Key, p \in Payload : Begin(c, x, p)
               \/ AnswerFromExisting(c)
               \/ Reject(c)
               \/ StartLocking(c)
               \/ \E a \in Account : LockNext(c, a)
               \/ DrainSelect(c)
               \/ \E x \in Key : Emit(c, x)
               \/ MarkPublished(c)
               \/ MarkFailed(c)
               \/ EndDrain(c)
        PROVE  pc'[d] = "commit" /\ call'[d].key = k
    <2>1. UNCHANGED claim
      BY <1>5 DEF Begin, AnswerFromExisting, Reject, StartLocking, LockNext, DrainSelect,
                  Emit, MarkPublished, MarkFailed, EndDrain, tx
    <2>2. pc[d] = "commit"
      BY <2>1
    <2>3. pc'[d] = pc[d] /\ call'[d] = call[d]
      BY <1>5, <2>2 DEF Begin, AnswerFromExisting, Reject, StartLocking, LockNext, DrainSelect,
                  Emit, MarkPublished, MarkFailed, EndDrain, Goto, Answer
    <2> QED
      BY <1>1, <2>1, <2>3
  <1>6. ASSUME UNCHANGED vars PROVE pc'[d] = "commit" /\ call'[d].key = k
    BY <1>1, <1>6 DEF vars, tx
  <1> QED
    BY <1>2, <1>4, <1>5, <1>6, StepCases

\* Rows are asked for in order, and what a call holds or wants changes at those steps only.
LEMMA LocksStep == IInv /\ LocksAscend /\ [Next]_vars => LocksAscend'
  <1> SUFFICES ASSUME IInv, LocksAscend, [Next]_vars,
                      NEW a \in Account, NEW d \in Caller, lock'[a] = d
               PROVE  /\ pc'[d] \in {"lock", "commit"}
                      /\ a \in Touched(call'[d].payload)
                      /\ \A b \in Wanted(d)' : a < b
    BY DEF LocksAscend, Touched
  <1> DEFINE Ascends == /\ pc'[d] \in {"lock", "commit"}
                        /\ a \in Touched(call'[d].payload)
                        /\ \A b \in Wanted(d)' : a < b
  <1> USE AccountAssumption, CallerAssumption
  <1>1. ASSUME lock[a] = d, call'[d] = call[d], pc'[d] \in {"lock", "commit"},
               \A b \in Account : lock[b] = d => lock'[b] = d
        PROVE  Ascends
    <2>1. Wanted(d)' \subseteq Wanted(d)
      BY <1>1 DEF Wanted, Held, Touched
    <2>2. a \in Touched(call[d].payload) /\ \A b \in Wanted(d) : a < b
      BY <1>1 DEF LocksAscend
    <2> QED
      BY <1>1, <2>1, <2>2 DEF Touched
  <1> HIDE DEF Ascends
  <1>2. ASSUME NEW c \in Caller, NEW x \in Account, LockNext(c, x) PROVE Ascends
    <2>0. /\ lock \in [Account -> Caller \cup {NoCaller}]
          /\ lock' = [lock EXCEPT ![x] = c] /\ lock[x] = NoCaller
          /\ UNCHANGED <<pc, call>>
      BY <1>2 DEF LockNext, IInv, TypeOK
    <2>1. CASE a # x
      <3>1. lock[a] = d /\ \A b \in Account : lock[b] = d => lock'[b] = d
        BY <2>0, <2>1
      <3>2. pc'[d] \in {"lock", "commit"}
        BY <2>0, <3>1 DEF LocksAscend
      <3> QED
        BY <1>1, <2>0, <3>1, <3>2
    <2>2. CASE a = x
      <3>1. c = d /\ pc[d] = "lock" /\ a \in Wanted(d) /\ \A b \in Wanted(d) : a <= b
        BY <1>2, <2>0, <2>2 DEF LockNext
      <3>2. ASSUME NEW b \in Wanted(d)' PROVE a < b
        <4>1. b \in Account /\ lock'[b] # d /\ b \in Touched(call[d].payload)
          BY <2>0, <3>2 DEF Wanted, Held, Touched
        <4>2. b \in Wanted(d) /\ b # a
          BY <2>0, <2>2, <3>1, <4>1 DEF Wanted, Held
        <4> QED
          BY <3>1, <4>1, <4>2
      <3> QED
        BY <2>0, <3>1, <3>2 DEF Ascends, Wanted, Touched
    <2> QED
      BY <2>1, <2>2
  <1>3. ASSUME NEW c \in Caller, InsertJournal(c) PROVE Ascends
    <2>1. lock[a] = d /\ UNCHANGED <<lock, call>>
      BY <1>3 DEF InsertJournal
    <2>2. pc'[d] \in {"lock", "commit"}
      BY <1>3, <2>1 DEF InsertJournal, Goto, LocksAscend, IInv, TypeOK
    <2> QED
      BY <1>1, <2>1, <2>2
  <1>4. ASSUME NEW c \in Caller, Insufficient(c) \/ InsertDuplicate(c) \/ Commit(c) \/ Fault(c)
        PROVE  Ascends
    <2>1. /\ EndTransaction(c) /\ UNCHANGED call
          /\ \A e \in Caller : e # c => pc'[e] = pc[e]
      BY <1>4 DEF Insufficient, InsertDuplicate, Commit, Fault, Goto, Answer, IInv, TypeOK
    <2>2. lock[a] = d /\ d # c /\ \A b \in Account : lock[b] = d => lock'[b] = d
      BY <2>1 DEF EndTransaction
    <2>3. pc'[d] \in {"lock", "commit"}
      BY <2>1, <2>2 DEF LocksAscend
    <2> QED
      BY <1>1, <2>1, <2>2, <2>3
  <1>5. ASSUME NEW c \in Caller,
               \/ \E k \in Key, p \in Payload : Begin(c, k, p)
               \/ AnswerFromExisting(c)
               \/ Reject(c)
               \/ StartLocking(c)
               \/ DrainSelect(c)
               \/ \E k \in Key : Emit(c, k)
               \/ MarkPublished(c)
               \/ MarkFailed(c)
               \/ EndDrain(c)
        PROVE  Ascends
    <2>1. UNCHANGED lock
      BY <1>5 DEF Begin, AnswerFromExisting, Reject, StartLocking, DrainSelect,
                  Emit, MarkPublished, MarkFailed, EndDrain, tx
    <2>2. lock[a] = d /\ pc[d] \in {"lock", "commit"}
      BY <2>1 DEF LocksAscend
    <2>3. pc'[d] = pc[d] /\ call'[d] = call[d]
      BY <1>5, <2>2 DEF Begin, AnswerFromExisting, Reject, StartLocking, DrainSelect,
                  Emit, MarkPublished, MarkFailed, EndDrain, Goto, Answer, IInv, TypeOK
    <2> QED
      BY <1>1, <2>1, <2>2, <2>3
  <1>6. ASSUME UNCHANGED vars PROVE Ascends
    <2>1. UNCHANGED <<lock, pc, call>>
      BY <1>6 DEF vars, tx
    <2>2. lock[a] = d /\ pc'[d] \in {"lock", "commit"}
      BY <2>1 DEF LocksAscend
    <2> QED
      BY <1>1, <2>1, <2>2
  <1>7. Ascends
    BY <1>2, <1>3, <1>4, <1>5, <1>6, StepCases
  <1> QED
    BY <1>7 DEF Ascends

LEMMA ReadbackStep == IInv /\ ReadbackFinds /\ [Next]_vars => ReadbackFinds'
  <1> SUFFICES ASSUME IInv, ReadbackFinds, [Next]_vars, NEW d \in Caller, pc'[d] = "readback"
               PROVE  journal'[call'[d].key] # NoJournal
    BY DEF ReadbackFinds
  <1>0. call[d].key \in Key
    BY DEF IInv, TypeOK, Request
  <1>1. ASSUME pc[d] = "readback", call'[d] = call[d]
        PROVE  journal'[call'[d].key] # NoJournal
    BY <1>0, <1>1, JournalStep DEF ReadbackFinds
  <1>2. ASSUME NEW c \in Caller, InsertDuplicate(c)
        PROVE  journal'[call'[d].key] # NoJournal
    <2>1. CASE c = d
      BY <1>2, <2>1 DEF InsertDuplicate, tables
    <2>2. CASE c # d
      BY <1>1, <1>2, <2>2 DEF InsertDuplicate, Goto, IInv, TypeOK
    <2> QED
      BY <2>1, <2>2
  <1>3. ASSUME NEW c \in Caller,
               \/ \E k \in Key, p \in Payload : Begin(c, k, p)
               \/ AnswerFromExisting(c)
               \/ Reject(c)
               \/ StartLocking(c)
               \/ \E a \in Account : LockNext(c, a)
               \/ Insufficient(c)
               \/ InsertJournal(c)
               \/ Commit(c)
               \/ DrainSelect(c)
               \/ \E k \in Key : Emit(c, k)
               \/ MarkPublished(c)
               \/ MarkFailed(c)
               \/ EndDrain(c)
               \/ Fault(c)
        PROVE  pc[d] = "readback" /\ call'[d] = call[d]
    BY <1>3 DEF Begin, AnswerFromExisting, Reject, StartLocking, LockNext, Insufficient,
                InsertJournal, Commit, DrainSelect, Emit, MarkPublished, MarkFailed,
                EndDrain, Fault, Goto, Answer, IInv, TypeOK
  <1>4. ASSUME UNCHANGED vars PROVE pc[d] = "readback" /\ call'[d] = call[d]
    BY <1>4 DEF vars
  <1> QED
    BY <1>1, <1>2, <1>3, <1>4, StepCases

(* A call that does not go on waits for the first row it wants, which some *)
(* other call holds.                                                       *)
LEMMA WaitsForRow ==
  ASSUME IInv, WaitsAreOrdered, NEW c \in Caller, pc[c] # "idle",
         \A d \in Caller : ~GoesOn(d)
  PROVE  /\ pc[c] = "lock"
         /\ \E a \in Wanted(c), d \in Caller :
               lock[a] = d /\ d # c /\ \A b \in Wanted(c) : a <= b
  <1>0. pc[c] \in {"lookup", "lock", "commit", "readback", "select", "drain"}
    BY DEF IInv, TypeOK
  <1>1. pc[c] = "lock"
    BY <1>0 DEF GoesOn, WaitsAreOrdered, ReadbackFinds
  <1>2. Wanted(c) # {}
    <2> SUFFICES ASSUME Wanted(c) = {} PROVE FALSE
      OBVIOUS
    <2>1. claim[call[c].key] # NoCaller
      BY <1>1 DEF GoesOn
    <2>2. call[c].key \in Key /\ claim[call[c].key] \in Caller
      BY <2>1 DEF IInv, TypeOK, Request
    <2>3. pc[claim[call[c].key]] = "commit"
      BY <2>2 DEF WaitsAreOrdered, ClaimsCommit
    <2> QED
      BY <2>2, <2>3 DEF GoesOn
  <1>3. Wanted(c) \subseteq Nat /\ IsFiniteSet(Wanted(c))
    <2>1. Wanted(c) \subseteq Account
      BY DEF Wanted, Touched
    <2> QED
      BY <2>1, AccountAssumption, FS_Subset
  <1>4. PICK a \in Wanted(c) : \A b \in Wanted(c) : a <= b
    BY <1>2, <1>3, Extremes
  <1>5. a \in Account /\ lock[a] # c
    BY <1>4 DEF Wanted, Held, Touched
  <1>6. lock[a] # NoCaller
    BY <1>1, <1>4 DEF GoesOn
  <1>7. lock[a] \in Caller
    BY <1>5, <1>6 DEF IInv, TypeOK
  <1> QED
    BY <1>1, <1>4, <1>5, <1>7

(* The last of the rows waited for is held by a call that waits for none,  *)
(* since it would have to wait for a later one.                            *)
LEMMA OrderedWaitsEnd == IInv /\ WaitsAreOrdered => SomeCallGoesOn
  <1> SUFFICES ASSUME IInv, WaitsAreOrdered,
                      NEW c \in Caller, pc[c] # "idle",
                      \A d \in Caller : ~GoesOn(d)
               PROVE  FALSE
    BY DEF SomeCallGoesOn
  <1> DEFINE Awaited == {a \in Account : \E e, d \in Caller :
                            /\ pc[e] = "lock" /\ a \in Wanted(e)
                            /\ lock[a] = d /\ d # e}
  <1>1. Awaited \subseteq Nat /\ IsFiniteSet(Awaited)
    <2>1. Awaited \subseteq Account
      OBVIOUS
    <2> QED
      BY <2>1, AccountAssumption, FS_Subset
  <1>2. Awaited # {}
    BY WaitsForRow DEF Wanted, Touched
  <1>3. PICK a \in Awaited : \A b \in Awaited : b <= a
    <2> HIDE DEF Awaited
    <2> QED
      BY <1>1, <1>2, Extremes
  <1>4. PICK d \in Caller : lock[a] = d
    BY <1>3
  <1>5. pc[d] # "idle" /\ \A b \in Wanted(d) : a < b
    BY <1>3, <1>4 DEF WaitsAreOrdered, LocksAscend
  <1>6. PICK b \in Wanted(d), e \in Caller : pc[d] = "lock" /\ lock[b] = e /\ e # d
    BY <1>5, WaitsForRow
  <1>7. b \in Awaited
    BY <1>6 DEF Wanted, Touched
  <1>8. a \in Nat /\ b \in Nat
    BY <1>1, <1>3, <1>7
  <1> QED
    BY <1>3, <1>5, <1>6, <1>7, <1>8

(* Concurrent posts never wait for each other in a circle: the order in    *)
(* which postJournal locks its rows rules it out, and its wait for a key   *)
(* is for a call that only has to commit.                                  *)
THEOREM NoDeadlock == Spec => []SomeCallGoesOn
  <1>1. Init => WaitsAreOrdered
    BY CallerAssumption
    DEF Init, WaitsAreOrdered, ClaimsCommit, LocksAscend, ReadbackFinds
  <1>2. IInv /\ WaitsAreOrdered /\ [Next]_vars => WaitsAreOrdered'
    BY ClaimsStep, LocksStep, ReadbackStep DEF WaitsAreOrdered
  <1> QED
    BY <1>1, <1>2, OrderedWaitsEnd, Invariance, PTL DEF Spec

=============================================================================
