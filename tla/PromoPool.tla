----------------------------- MODULE PromoPool -----------------------------
(***************************************************************************)
(* The promo pool and the two programs it pays for: mission accruals       *)
(* (MissionAccrualService) and referral payouts (ReferralLadderService,    *)
(* ReferralPoolService, ReferralClawbackService).  Each call is a process; *)
(* none of them runs in a transaction, so every statement is a step.  A    *)
(* ledger post is one step, LedgerAtomic is what it does: the journal of a *)
(* reward has the key of its row.                                          *)
(*                                                                         *)
(* Rewards are on, and carry money.  Whether a user is blocked, a program  *)
(* halted or a clawback's user able to pay is the environment: a call may  *)
(* find anything.  A definition marked Mutant is the one that follows it   *)
(* with a plausible bug.                                                   *)
(***************************************************************************)
EXTENDS Integers, FiniteSets

CONSTANTS
    Accrual,        \* mission accruals, by idempotency key
    Delayed,        \* those of a mission with holdHours
    Edge,           \* referral edges
    Amount,         \* amount_usdt of every reward
    MaxAmount,      \* the largest of them
    Opening,        \* the pool at the start
    TopUpAmount,
    ClawKey,        \* idempotency keys admins send with a clawback
    Caller,         \* calls in flight
    MaxCalls, MaxFaults     \* bounds

Level == {"L2", "L3"}
Payout == Edge \X Level
Reward == Accrual \cup Payout

ASSUME PromoAssumption ==
    /\ IsFiniteSet(Edge) /\ Edge # {}
    /\ Delayed \subseteq Accrual
    /\ Accrual \cap Payout = {}
    /\ MaxAmount \in Nat
    /\ Amount \in [Reward -> 1..MaxAmount]
    /\ ClawKey # {}
    /\ IsFiniteSet(Caller) /\ Caller # {}
    /\ {Opening, TopUpAmount, MaxCalls, MaxFaults} \subseteq Nat

VARIABLES
    accrual,    \* mission_accruals.status, "absent" without a row
    queue,      \* referral_payout_queue.status, "absent" without a row
    enqueued,   \* its enqueued_at, as a count of the rows before it
    edge,       \* referral_edges.status
    levels,     \* its levels_achieved
    due,        \* rewards without a hold, or past it
    pool,       \* balance_usdt of PROMO_POOL
    posted,     \* rewards with a journal
    reversed,   \* clawback journals: edge and key
    pc,         \* where each call stands
    call,       \* what it is about, and what it read so far
    calls, faults

rows == <<accrual, queue, enqueued>>
edges == <<edge, levels>>
money == <<pool, posted, reversed>>
counters == <<calls, faults>>
vars == <<rows, edges, due, money, pc, call, counters>>

-----------------------------------------------------------------------------

\* The statuses each service selects and looks at again before it pays.
WaitingAccrual == {"pending", "pending_hold", "queued_pool"}
WaitingPayout == {"held", "pending", "queued_pool"}

L2(e) == <<e, "L2">>
EdgeOf(p) == p[1]

Idle == [reward |-> L2(CHOOSE e \in Edge : TRUE), levels |-> {}, seen |-> "bound",
         key |-> CHOOSE k \in ClawKey : TRUE, batch |-> {}, todo |-> {}]

Goto(c, label) == pc' = [pc EXCEPT ![c] = label]

Finish(c) ==
    /\ Goto(c, "idle")
    /\ call' = [call EXCEPT ![c] = Idle]

Init ==
    /\ accrual = [a \in Accrual |-> "absent"]
    /\ queue = [p \in Payout |-> "absent"]
    /\ enqueued = [p \in Payout |-> 0]
    /\ edge = [e \in Edge |-> "bound"]
    /\ levels = [e \in Edge |-> {}]
    /\ due = (Accrual \ Delayed) \cup (Edge \X {"L3"})
    /\ pool = Opening
    /\ posted = {}
    /\ reversed = {}
    /\ pc = [c \in Caller |-> "idle"]
    /\ call = [c \in Caller |-> Idle]
    /\ calls = 0
    /\ faults = 0

Start(c, label, what) ==
    /\ pc[c] = "idle"
    /\ calls < MaxCalls
    /\ calls' = calls + 1
    /\ call' = [call EXCEPT ![c] = what]
    /\ Goto(c, label)
    /\ UNCHANGED <<edges, due, faults>>

\* A post: the first under the row's key moves the money, any other is answered by it.
Pay(r) ==
    /\ posted' = posted \cup {r}
    /\ pool' = IF r \in posted THEN pool ELSE pool - Amount[r]
    /\ UNCHANGED reversed

-----------------------------------------------------------------------------
(* Mission accruals *)

\* insertAccrual: one row per key; without a hold the same call goes on to release it.
InsertAccrual(c, a) ==
    /\ accrual[a] = "absent"
    /\ accrual' = [accrual EXCEPT ![a] = IF a \in Delayed THEN "pending_hold" ELSE "pending"]
    /\ Start(c, IF a \in Delayed THEN "idle" ELSE "read",
                IF a \in Delayed THEN Idle ELSE [Idle EXCEPT !.reward = a])
    /\ UNCHANGED <<queue, enqueued, money>>

\* insertSkipped: the evaluator found the user blocked; the row keeps its key taken.
InsertSkipped(c, a) ==
    /\ accrual[a] = "absent"
    /\ accrual' = [accrual EXCEPT ![a] = "skipped"]
    /\ Start(c, "idle", Idle)
    /\ UNCHANGED <<queue, enqueued, money>>

\* releaseDue selected the row; tryRelease reads it again.
ReleaseDue(c, a) ==
    /\ accrual[a] \in WaitingAccrual
    /\ a \in due
    /\ Start(c, "read", [Idle EXCEPT !.reward = a])
    /\ UNCHANGED <<rows, money>>

ReadAccrual(c) ==
    LET a == call[c].reward IN
    /\ pc[c] = "read"
    /\ IF accrual[a] \in WaitingAccrual /\ a \in due
         THEN Goto(c, "gate") /\ UNCHANGED call
         ELSE Finish(c)
    /\ UNCHANGED <<rows, edges, due, money, counters>>

\* The program is halted, found before the row is read.
Halted(c) ==
    /\ pc[c] = "read"
    /\ Finish(c)
    /\ UNCHANGED <<rows, edges, due, money, counters>>

\* The user is frozen, banned or deleted: UPDATE by id, whatever the row has become.
SkipBlocked(c) ==
    /\ pc[c] = "gate"
    /\ accrual' = [accrual EXCEPT ![call[c].reward] = "skipped"]
    /\ Finish(c)
    /\ UNCHANGED <<queue, enqueued, edges, due, money, counters>>

\* The pool is read; short of the amount, the row waits unless it is released by now.
CheckPool(c) ==
    LET a == call[c].reward IN
    /\ pc[c] = "gate"
    /\ IF pool < Amount[a]
         THEN /\ accrual' = [accrual EXCEPT ![a] = IF @ = "released" THEN @ ELSE "queued_pool"]
              /\ Finish(c)
         ELSE /\ Goto(c, "mark")
              /\ UNCHANGED <<accrual, call>>
    /\ UNCHANGED <<queue, enqueued, edges, due, money, counters>>

\* UPDATE to 'posting', by id.
MarkPosting(c) ==
    /\ pc[c] = "mark"
    /\ accrual' = [accrual EXCEPT ![call[c].reward] = "posting"]
    /\ Goto(c, "post")
    /\ UNCHANGED <<queue, enqueued, edges, due, money, call, counters>>

PostAccrual(c) ==
    /\ pc[c] = "post"
    /\ Pay(call[c].reward)
    /\ Goto(c, "release")
    /\ UNCHANGED <<rows, edges, due, call, counters>>

Release(c) ==
    /\ pc[c] = "release"
    /\ accrual' = [accrual EXCEPT ![call[c].reward] = "released"]
    /\ Finish(c)
    /\ UNCHANGED <<queue, enqueued, edges, due, money, counters>>

\* Mutant: a failed post is taken for one that succeeded.
PostFailsQuietly(c) ==
    /\ pc[c] \in {"post", "release"}
    /\ faults < MaxFaults
    /\ faults' = faults + 1
    /\ accrual' = [accrual EXCEPT ![call[c].reward] = "released"]
    /\ Finish(c)
    /\ UNCHANGED <<queue, enqueued, edges, due, money, calls>>

\* The post or the UPDATE throws, and the handler puts the row back in the queue.
PostFails(c) ==
    /\ pc[c] \in {"post", "release"}
    /\ faults < MaxFaults
    /\ faults' = faults + 1
    /\ accrual' = [accrual EXCEPT ![call[c].reward] = IF @ = "posting" THEN "queued_pool" ELSE @]
    /\ Finish(c)
    /\ UNCHANGED <<queue, enqueued, edges, due, money, calls>>

-----------------------------------------------------------------------------
(* The referral ladder *)

\* onQualifyingDeposit: the edge is read, with its levels.
QualifyingDeposit(c, e) ==
    /\ "L2" \notin levels[e]
    /\ edge[e] # "clawed_back"
    /\ Start(c, "climb", [Idle EXCEPT !.reward = L2(e), !.levels = levels[e], !.seen = edge[e]])
    /\ UNCHANGED <<rows, money>>

\* onMatchSuccess, likewise.
MatchSuccess(c, e) ==
    /\ "L2" \in levels[e]
    /\ "L3" \notin levels[e]
    /\ edge[e] # "clawed_back"
    /\ Start(c, "climb",
             [Idle EXCEPT !.reward = <<e, "L3">>, !.levels = levels[e], !.seen = edge[e]])
    /\ UNCHANGED <<rows, money>>

\* Mutant: the level is written for the status.
ClimbedLevel(p, seen) == p[2]

ClimbedStatus(p, seen) ==
    IF p[2] = "L2" THEN "l2_pending_hold"
    ELSE IF seen = "queued_pool" THEN "queued_pool" ELSE "l2_released"

\* The edge is written with the levels read, before there is a payout for the new one.
Climb(c) ==
    LET p == call[c].reward IN
    /\ pc[c] = "climb"
    /\ edge' = [edge EXCEPT ![EdgeOf(p)] = ClimbedStatus(p, call[c].seen)]
    /\ levels' = [levels EXCEPT ![EdgeOf(p)] = call[c].levels \cup {p[2]}]
    /\ Goto(c, "enqueue")
    /\ UNCHANGED <<rows, due, money, call, counters>>

FirstStatus(p) ==
    IF pool < Amount[p] THEN "queued_pool" ELSE IF p[2] = "L2" THEN "held" ELSE "pending"

Rank == Cardinality({p \in Payout : queue[p] # "absent"}) + 1

\* What follows the row: the edge waits with it, or an L3 payout is drained at once.
AfterEnqueue(c, p, status) ==
    IF status = "queued_pool" THEN Goto(c, "park") /\ UNCHANGED call
    ELSE IF status = "pending" THEN Goto(c, "select") /\ UNCHANGED call
    ELSE Finish(c)

\* Mutant: a payout the pool cannot cover is not enqueued.
EnqueueFunded(c) ==
    LET p == call[c].reward IN
    /\ pc[c] = "enqueue"
    /\ IF queue[p] = "absent" /\ pool >= Amount[p]
         THEN /\ queue' = [queue EXCEPT ![p] = FirstStatus(p)]
              /\ enqueued' = [enqueued EXCEPT ![p] = Rank]
              /\ AfterEnqueue(c, p, FirstStatus(p))
         ELSE /\ UNCHANGED <<queue, enqueued>>
              /\ Finish(c)
    /\ UNCHANGED <<accrual, edges, due, money, counters>>

\* enqueue: the row of this key, or a new one.
Enqueue(c) ==
    LET p == call[c].reward IN
    /\ pc[c] = "enqueue"
    /\ IF queue[p] = "absent"
         THEN /\ queue' = [queue EXCEPT ![p] = FirstStatus(p)]
              /\ enqueued' = [enqueued EXCEPT ![p] = Rank]
              /\ AfterEnqueue(c, p, FirstStatus(p))
         ELSE /\ UNCHANGED <<queue, enqueued>>
              /\ AfterEnqueue(c, p, IF FirstStatus(p) = "pending" THEN "pending" ELSE "held")
    /\ UNCHANGED <<accrual, edges, due, money, counters>>

\* updateStatus(edge, queued_pool): the end of an enqueue, or of a drain that ran short.
Park(c) ==
    /\ pc[c] = "park"
    /\ edge' = [edge EXCEPT ![EdgeOf(call[c].reward)] = "queued_pool"]
    /\ Finish(c)
    /\ UNCHANGED <<rows, levels, due, money, counters>>

-----------------------------------------------------------------------------
(* The referral queue *)

\* topUp: each request has its own key.
TopUp(c) ==
    /\ Start(c, "select", Idle)
    /\ pool' = pool + TopUpAmount
    /\ UNCHANGED <<rows, posted, reversed>>

ReleaseDueHolds(c) ==
    /\ Start(c, "select", Idle)
    /\ UNCHANGED <<rows, money>>

\* adminRelease of an edge in a releasable state ends the hold of its rows.
AdminRelease(c, e) ==
    /\ edge[e] \in {"l2_pending_hold", "queued_pool"}
    /\ Start(c, "waive", [Idle EXCEPT !.reward = L2(e)])
    /\ UNCHANGED <<rows, money>>

Waive(c) ==
    LET mine == {p \in Payout : EdgeOf(p) = EdgeOf(call[c].reward) /\ queue[p] \in WaitingPayout} IN
    /\ pc[c] = "waive"
    /\ due' = due \cup mine
    /\ queue' = [p \in Payout |-> IF p \in mine /\ queue[p] = "held" THEN "pending" ELSE queue[p]]
    /\ Goto(c, "reopen")
    /\ UNCHANGED <<accrual, enqueued, edges, money, call, counters>>

Reopen(c) ==
    /\ pc[c] = "reopen"
    /\ edge' = [edge EXCEPT ![EdgeOf(call[c].reward)] = "l2_pending_hold"]
    /\ Goto(c, "select")
    /\ UNCHANGED <<rows, levels, due, money, call, counters>>

Eligible == {p \in Payout : queue[p] \in WaitingPayout /\ p \in due}

\* Mutant: the newest first.
Latest(p, S) == p \in S /\ \A q \in S : enqueued[p] >= enqueued[q]

\* ORDER BY enqueued_at.
Earliest(p, S) == p \in S /\ \A q \in S : enqueued[p] <= enqueued[q]

NextRow(c, batch, todo) ==
    \/ todo = {} /\ Finish(c)
    \/ \E p \in todo :
          /\ Earliest(p, todo)
          /\ Goto(c, "drain")
          /\ call' = [call EXCEPT ![c] = [Idle EXCEPT !.reward = p, !.batch = batch, !.todo = todo]]

\* drainFifo's SELECT; its row locks end with the statement.
Select(c) ==
    /\ pc[c] = "select"
    /\ NextRow(c, Eligible, Eligible)
    /\ UNCHANGED <<rows, edges, due, money, counters>>

\* Mutant: the balance is read once, for the first row of the batch.
FundsReadOnce(c) ==
    LET p == call[c].reward IN
    /\ pc[c] = "drain"
    /\ IF pool < Amount[p] /\ call[c].todo = call[c].batch
         THEN /\ queue' = [queue EXCEPT ![p] = IF @ = "released" THEN @ ELSE "queued_pool"]
              /\ Goto(c, "park")
         ELSE /\ queue' = queue
              /\ Goto(c, "pay")
    /\ UNCHANGED <<accrual, enqueued, edges, due, money, call, counters>>

\* The pool is read for each row; short of the amount, the row waits and the drain ends.
Funds(c) ==
    LET p == call[c].reward IN
    /\ pc[c] = "drain"
    /\ IF pool < Amount[p]
         THEN /\ queue' = [queue EXCEPT ![p] = IF @ = "released" THEN @ ELSE "queued_pool"]
              /\ Goto(c, "park")
         ELSE /\ queue' = queue
              /\ Goto(c, "pay")
    /\ UNCHANGED <<accrual, enqueued, edges, due, money, call, counters>>

PostPayout(c) ==
    /\ pc[c] = "pay"
    /\ Pay(call[c].reward)
    /\ Goto(c, "stamp")
    /\ UNCHANGED <<rows, edges, due, call, counters>>

\* UPDATE to 'released' with the journal, by id.
Stamp(c) ==
    /\ pc[c] = "stamp"
    /\ queue' = [queue EXCEPT ![call[c].reward] = "released"]
    /\ Goto(c, "promote")
    /\ UNCHANGED <<accrual, enqueued, edges, due, money, call, counters>>

Promote(c) ==
    LET p == call[c].reward IN
    /\ pc[c] = "promote"
    /\ edge' = [edge EXCEPT ![EdgeOf(p)] = IF p[2] = "L3" THEN "l3_done" ELSE "l2_released"]
    /\ NextRow(c, call[c].batch, call[c].todo \ {p})
    /\ UNCHANGED <<rows, levels, due, money, counters>>

-----------------------------------------------------------------------------
(* Clawback *)

\* The edge is read; a finished clawback is the answer.
Clawback(c, e, k) ==
    /\ edge[e] # "clawed_back"
    /\ Start(c, "lookup", [Idle EXCEPT !.reward = L2(e), !.seen = edge[e], !.key = k])
    /\ UNCHANGED <<rows, money>>

\* The L2 row is read: paid, waiting, or missing on an edge that is owed nothing.
Lookup(c) ==
    LET p == call[c].reward IN
    /\ pc[c] = "lookup"
    /\ \/ queue[p] = "released" /\ Goto(c, "reverse") /\ UNCHANGED call
       \/ queue[p] \notin {"absent", "released"} /\ Goto(c, "strike") /\ UNCHANGED call
       \/ /\ queue[p] = "absent"
          /\ IF call[c].seen \in {"l2_pending_hold", "l2_released", "queued_pool"}
               THEN Goto(c, "close") /\ UNCHANGED call
               ELSE Finish(c)
    /\ UNCHANGED <<rows, edges, due, money, counters>>

\* The reversing journal, under the key of the request; the key of another edge's is refused.
Reverse(c) ==
    LET r == <<EdgeOf(call[c].reward), call[c].key>> IN
    /\ pc[c] = "reverse"
    /\ \A s \in reversed : s[2] = r[2] => s = r
    /\ reversed' = reversed \cup {r}
    /\ pool' = IF r \in reversed THEN pool ELSE pool + Amount[call[c].reward]
    /\ Goto(c, "strike")
    /\ UNCHANGED <<rows, edges, due, posted, call, counters>>

\* The user spent the reward: the post is refused.
Unreversed(c) ==
    /\ pc[c] = "reverse"
    /\ Finish(c)
    /\ UNCHANGED <<rows, edges, due, money, counters>>

\* UPDATE to 'clawed_back', by id.
Strike(c) ==
    /\ pc[c] = "strike"
    /\ queue' = [queue EXCEPT ![call[c].reward] = "clawed_back"]
    /\ Goto(c, "close")
    /\ UNCHANGED <<accrual, enqueued, edges, due, money, call, counters>>

CloseEdge(c) ==
    /\ pc[c] = "close"
    /\ edge' = [edge EXCEPT ![EdgeOf(call[c].reward)] = "clawed_back"]
    /\ Finish(c)
    /\ UNCHANGED <<rows, levels, due, money, counters>>

-----------------------------------------------------------------------------

\* hold_until passes.
HoldElapses(r) ==
    /\ r \notin due
    /\ IF r \in Accrual THEN accrual[r] # "absent" ELSE queue[r] # "absent"
    /\ due' = due \cup {r}
    /\ UNCHANGED <<rows, edges, money, pc, call, counters>>

\* A call dies where it stands: the process crashed or a statement failed.
Fault(c) ==
    /\ pc[c] # "idle"
    /\ faults < MaxFaults
    /\ faults' = faults + 1
    /\ Finish(c)
    /\ UNCHANGED <<rows, edges, due, money, calls>>

MissionStep(c) ==
    \/ ReadAccrual(c) \/ Halted(c) \/ SkipBlocked(c) \/ CheckPool(c)
    \/ MarkPosting(c) \/ PostAccrual(c) \/ Release(c)

ReferralStep(c) ==
    \/ Climb(c) \/ Enqueue(c) \/ Park(c) \/ Waive(c) \/ Reopen(c)
    \/ Select(c) \/ Funds(c) \/ PostPayout(c) \/ Stamp(c) \/ Promote(c)

ClawbackStep(c) == Lookup(c) \/ Reverse(c) \/ Unreversed(c) \/ Strike(c) \/ CloseEdge(c)

Begin(c) ==
    \/ \E a \in Accrual : InsertAccrual(c, a) \/ InsertSkipped(c, a) \/ ReleaseDue(c, a)
    \/ \E e \in Edge : QualifyingDeposit(c, e) \/ MatchSuccess(c, e) \/ AdminRelease(c, e)
    \/ \E e \in Edge, k \in ClawKey : Clawback(c, e, k)
    \/ TopUp(c) \/ ReleaseDueHolds(c)

Next ==
    \/ \E c \in Caller :
          Begin(c) \/ MissionStep(c) \/ ReferralStep(c) \/ ClawbackStep(c)
            \/ PostFails(c) \/ Fault(c)
    \/ \E r \in Reward : HoldElapses(r)

Spec == Init /\ [][Next]_vars

-----------------------------------------------------------------------------

Accruals == {"absent", "posting", "released", "skipped"} \cup WaitingAccrual
Payouts == {"absent", "released", "clawed_back"} \cup WaitingPayout
Edges == {"bound", "l2_pending_hold", "queued_pool", "l2_released", "l3_done", "clawed_back"}
AccrualLabels == {"read", "gate", "mark", "post", "release"}
PayoutLabels ==
    {"idle", "climb", "enqueue", "park", "waive", "reopen", "select", "drain", "pay", "stamp",
     "promote", "lookup", "reverse", "strike", "close"}

(* Every variable has its type, and a call at a mission's step is about an *)
(* accrual, at a referral's about a payout.                                *)
TypeOK ==
    /\ accrual \in [Accrual -> Accruals]
    /\ queue \in [Payout -> Payouts]
    /\ enqueued \in [Payout -> Nat]
    /\ edge \in [Edge -> Edges]
    /\ levels \in [Edge -> SUBSET Level]
    /\ due \subseteq Reward
    /\ pool \in Int
    /\ posted \subseteq Reward
    /\ reversed \subseteq Edge \X ClawKey
    /\ pc \in [Caller -> AccrualLabels \cup PayoutLabels]
    /\ call \in [Caller -> [reward : Reward, levels : SUBSET Level, seen : Edges, key : ClawKey,
                            batch : SUBSET Payout, todo : SUBSET Payout]]
    /\ \A c \in Caller :
          call[c].reward \in (IF pc[c] \in AccrualLabels THEN Accrual ELSE Payout)
    /\ calls \in 0..MaxCalls
    /\ faults \in 0..MaxFaults

(* "Never mark released without journal": a released accrual or payout was *)
(* paid, and nothing is taken back from a user who was not paid first,     *)
(* whichever of several releases, drains and clawbacks wrote the row.      *)
RowsFollowJournals ==
    /\ \A a \in Accrual : accrual[a] = "released" => a \in posted
    /\ \A p \in Payout : queue[p] = "released" => p \in posted
    /\ \A r \in reversed : L2(r[1]) \in posted

(* The pool is compared with each amount before it is paid, and not locked *)
(* until then: concurrent calls overdraw it by no more than one reward for *)
(* every call but one.                                                     *)
PoolOverdraftBounded == pool >= (1 - Cardinality(Caller)) * MaxAmount

(* First in, first out: when a drain has paid a row, every older row it    *)
(* selected was paid too, however many drains work on the same rows.       *)
DrainIsFifo ==
    \A c \in Caller :
        pc[c] \in {"stamp", "promote"} =>
            \A q \in call[c].batch :
                enqueued[q] < enqueued[call[c].reward] => q \in posted

(* Where nothing fails, work half done has a call at it: an accrual left   *)
(* in 'posting', which no later release selects, and a level recorded as   *)
(* achieved, which no later trigger enqueues again.                        *)
HalfDoneHasItsCall ==
    \/ faults > 0
    \/ /\ \A a \in Accrual :
             accrual[a] = "posting" =>
                \E c \in Caller : pc[c] \in {"post", "release"} /\ call[c].reward = a
       /\ \A p \in Payout :
             p[2] \in levels[EdgeOf(p)] =>
                \/ queue[p] # "absent"
                \/ \E c \in Caller : pc[c] = "enqueue" /\ call[c].reward = p

=============================================================================
