------------------------------- MODULE Mining -------------------------------
(***************************************************************************)
(* Mining positions and their settlements: MiningOperationCoordinator-     *)
(* Service, MiningService and the pool of connections they run on.  A call *)
(* takes a connection, waits on it for the advisory write lock, and does   *)
(* all its work on other connections of the same pool, up to two at once.  *)
(* A statement, a transaction without a call inside and a ledger post are  *)
(* one step each; LedgerAtomic is what a post does.                        *)
(*                                                                         *)
(* Time is counted in ticks.  The profit of a window is nothing or         *)
(* something; whether a balance, a limit, a mine's status or the rates let *)
(* a call go on is the environment, Fails.  A post that made a journal     *)
(* drains the outbox on a connection of its own before it answers: a step  *)
(* of its own where that failing differs from the next step failing, in a  *)
(* change.  A definition marked Mutant is the one that follows it with a   *)
(* plausible bug.                                                          *)
(***************************************************************************)
EXTENDS Integers, FiniteSets, Functions

CONSTANTS
    Position,       \* positions, by start_idempotency_key
    Plot,           \* pairs of a user and a mine
    PlotOf,         \* the plot of each position
    Requested,      \* requested_principal_usdt
    Change,         \* the amount of an increase or a decrease
    Key,            \* idempotency keys users send with a change
    PoolMax,        \* connections of the pool
    Midnight,       \* ticks at which a UTC day begins
    Caller,         \* calls in flight
    MaxTime, MaxPrincipal, MaxCalls, MaxFaults      \* bounds

Time == 0..MaxTime
Window == {w \in Time \X Time : w[1] < w[2]}
Changes == {"increase", "decrease", "end"}
Request == Position \X ({"start"} \cup Changes) \X Key

ASSUME MiningAssumption ==
    /\ Position # {} /\ Key # {} /\ Caller # {}
    /\ PlotOf \in [Position -> Plot]
    /\ {MaxPrincipal, MaxCalls, MaxFaults} \subseteq Nat
    /\ {Change, PoolMax, MaxTime} \subseteq Nat \ {0}
    /\ Requested \in [Position -> 1..MaxPrincipal]
    /\ Midnight \subseteq Time

VARIABLES
    position,   \* mine_positions.status, "absent" without a row
    principal,  \* principal_usdt
    started,    \* started_at
    ended,      \* ended_at
    event,      \* amount_usdt of mine_position_events by request, 0 without a row
    settlement, \* mine_settlements.status by period, "absent" without a row
    profit,     \* what its accruals add up to, "none" without accruals
    journal,    \* the amount posted under the key of a request, 0 without a journal
    locked,     \* what the journals of a position left in the locked bucket
    paid,       \* settlements with a journal
    pc,         \* where each call stands
    call,       \* what it is about, and what it read so far
    now, calls, faults

positions == <<position, principal, started, ended, event>>
settlements == <<settlement, profit, paid>>
ledger == <<journal, locked>>
counters == <<now, calls, faults>>
vars == <<positions, settlements, ledger, pc, call, counters>>

-----------------------------------------------------------------------------
(* Calls and the pool *)

Idle == [kind |-> "end", position |-> CHOOSE p \in Position : TRUE,
         key |-> CHOOSE k \in Key : TRUE, window |-> <<0, 1>>, fresh |-> FALSE,
         from |-> 0, through |-> 0, todo |-> {}, amount |-> 0]

Init ==
    /\ position = [p \in Position |-> "absent"]
    /\ principal = [p \in Position |-> 0]
    /\ started = [p \in Position |-> 0]
    /\ ended = [p \in Position |-> 0]
    /\ event = [r \in Request |-> 0]
    /\ settlement = [p \in Position |-> [w \in Window |-> "absent"]]
    /\ profit = [p \in Position |-> [w \in Window |-> "none"]]
    /\ journal = [r \in Request |-> 0]
    /\ locked = [p \in Position |-> 0]
    /\ paid = {}
    /\ pc = [c \in Caller |-> "idle"]
    /\ call = [c \in Caller |-> Idle]
    /\ now = 0
    /\ calls = 0
    /\ faults = 0

Goto(c, label) == pc' = [pc EXCEPT ![c] = label]
Proceed(c, label) == Goto(c, label) /\ UNCHANGED call
Remember(c, label, what) == Goto(c, label) /\ call' = [call EXCEPT ![c] = what]
Finish(c) == Remember(c, "idle", Idle)

RequestOf(c) == <<call[c].position, call[c].kind, call[c].key>>

\* Connections nobody holds: a call has one from its start, its inner transaction another.
Busy == {c \in Caller : pc[c] # "idle"}
InTransaction == {c \in Caller : pc[c] \in {"post", "drain", "apply"}}
Free == PoolMax - Cardinality(Busy) - Cardinality(InTransaction)

\* A statement outside the call's transactions, which takes a connection of its own.
At(c, label) == pc[c] = label /\ Free > 0

Begin(c, what) ==
    /\ At(c, "idle")
    /\ calls < MaxCalls
    /\ calls' = calls + 1
    /\ Remember(c, "lock", what)
    /\ UNCHANGED <<positions, settlements, ledger, now, faults>>

CallStart(c, p) == Begin(c, [Idle EXCEPT !.kind = "start", !.position = p])

CallChange(c, p, kind, k) ==
    /\ position[p] # "absent"
    /\ Begin(c, [Idle EXCEPT !.kind = kind, !.position = p, !.key = k])

\* settleDueDaily takes the time before it waits for the lock.
CallDaily(c, t) ==
    /\ t <= now /\ \A u \in Midnight : u <= now => u <= t
    /\ Begin(c, [Idle EXCEPT !.kind = "daily", !.through = t])

CallRetry(c, p, w) ==
    /\ settlement[p][w] # "absent"
    /\ Begin(c, [Idle EXCEPT !.kind = "retry", !.position = p, !.window = w])

\* Mutant: the daily job does not wait for the write lock.
LockTakenByUser == \E c \in Caller : pc[c] \notin {"idle", "lock"} /\ call[c].kind # "daily"

\* pg_advisory_xact_lock: held from here until the call's connection is given back.
LockTaken == \E c \in Caller : pc[c] \notin {"idle", "lock"}

FirstOf(kind) ==
    CASE kind = "start" -> "insert"
      [] kind \in Changes -> "settle"
      [] kind = "daily" -> "select"
      [] kind = "retry" -> "attempt"

Lock(c) ==
    /\ pc[c] = "lock"
    /\ ~LockTaken
    /\ Proceed(c, FirstOf(call[c].kind))
    /\ UNCHANGED <<positions, settlements, ledger, counters>>

-----------------------------------------------------------------------------
(* Starting a position *)

RowOpen(p) == position[p] \in {"START_PENDING", "ACTIVE"}

\* The start key is unique, and so is the open position of a plot.
InsertPosition(c) ==
    LET p == call[c].position IN
    /\ At(c, "insert")
    /\ \/ /\ position[p] = "absent"
          /\ \A q \in Position : RowOpen(q) => PlotOf[q] # PlotOf[p]
          /\ position' = [position EXCEPT ![p] = "START_PENDING"]
          /\ Proceed(c, "lock_funds")
       \/ /\ position[p] = "START_PENDING"
          /\ Proceed(c, "lock_funds")
          /\ UNCHANGED position
       \/ /\ position[p] \in {"ACTIVE", "ENDED"}
          /\ Finish(c)
          /\ UNCHANGED position
    /\ UNCHANGED <<principal, started, ended, event, settlements, ledger, counters>>

Signed(kind, amount) == IF kind \in {"start", "increase"} THEN amount ELSE -amount

\* Mutant: a key that has a journal is answered by it, whatever that one moved.
PostUnderAnyLines(r, amount) ==
    /\ journal' = [journal EXCEPT ![r] = IF @ = 0 THEN amount ELSE @]
    /\ locked' = [locked EXCEPT ![r[1]] = IF journal[r] = 0 THEN @ + Signed(r[2], amount) ELSE @]

\* A post: the first under the key moves the money, one with the same lines is answered by it.
Post(r, amount) ==
    /\ journal[r] \in {0, amount}
    /\ journal' = [journal EXCEPT ![r] = amount]
    /\ locked' = [locked EXCEPT ![r[1]] = IF journal[r] = 0 THEN @ + Signed(r[2], amount) ELSE @]

LockFunds(c) ==
    /\ At(c, "lock_funds")
    /\ Post(RequestOf(c), Requested[call[c].position])
    /\ Proceed(c, "activate")
    /\ UNCHANGED <<positions, settlements, counters>>

Activate(c) ==
    LET p == call[c].position IN
    /\ At(c, "activate")
    /\ IF position[p] = "START_PENDING"
         THEN /\ position' = [position EXCEPT ![p] = "ACTIVE"]
              /\ principal' = [principal EXCEPT ![p] = Requested[p]]
              /\ started' = [started EXCEPT ![p] = now]
              /\ event' = [event EXCEPT ![RequestOf(c)] = Requested[p]]
              /\ UNCHANGED ended
         ELSE UNCHANGED positions
    /\ Finish(c)
    /\ UNCHANGED <<settlements, ledger, counters>>

-----------------------------------------------------------------------------
(* Settling a position *)

Existing(p) == {w \in Window : settlement[p][w] # "absent"}

IsLatest(p, w) == w \in Existing(p) /\ \A v \in Existing(p) : v[2] <= w[2]

\* Mutant: a failed settlement is left to the admin.
UnfinishedUnlessFailed(p, w) ==
    settlement[p][w] = "CALC_PENDING" \/ (settlement[p][w] = "CALCULATED" /\ profit[p][w] = "some")

\* What settlePositionThrough has to process before it opens a period of its own.
Unfinished(p, w) ==
    /\ settlement[p][w] # "LEDGER_POSTED"
    /\ settlement[p][w] # "CALCULATED" \/ profit[p][w] = "some"

Select(c) ==
    /\ At(c, "select")
    /\ Remember(c, "next", [call[c] EXCEPT !.todo =
                                {p \in Position : position[p] = "ACTIVE" /\ started[p] < call[c].through}])
    /\ UNCHANGED <<positions, settlements, ledger, counters>>

NextPosition(c) ==
    /\ pc[c] = "next"
    /\ \/ call[c].todo = {} /\ Finish(c)
       \/ \E p \in call[c].todo :
             Remember(c, "settle", [call[c] EXCEPT !.position = p, !.todo = @ \ {p}])
    /\ UNCHANGED <<positions, settlements, ledger, counters>>

\* What a settled position is settled for.
Settled(c) ==
    CASE call[c].kind \in Changes -> Proceed(c, "change")
      [] call[c].kind = "daily" -> Proceed(c, "next")
      [] OTHER -> Finish(c)

\* The end of processSettlement, of the period found unfinished or of the one opened.
Processed(c) ==
    IF call[c].kind # "retry" /\ ~call[c].fresh THEN Proceed(c, "check") ELSE Settled(c)

\* Where the next period starts.
SettledTo(p, t) ==
    IF Existing(p) = {} THEN t = started[p] ELSE \E w \in Window : IsLatest(p, w) /\ w[2] = t

ToOpen(c, through) ==
    \E t \in Time :
        /\ SettledTo(call[c].position, t)
        /\ Remember(c, "open", [call[c] EXCEPT !.from = t, !.through = through])

ReadLatest(c) ==
    LET p == call[c].position
        through == IF call[c].kind = "daily" THEN call[c].through ELSE now
    IN
    /\ At(c, "settle")
    /\ \/ position[p] \notin {"ACTIVE", "ENDED"} /\ Settled(c)
       \/ /\ position[p] \in {"ACTIVE", "ENDED"}
          /\ \E w \in Window :
                /\ IsLatest(p, w) /\ Unfinished(p, w)
                /\ Remember(c, "attempt", [call[c] EXCEPT !.window = w, !.fresh = FALSE,
                                                          !.through = through])
       \/ /\ position[p] \in {"ACTIVE", "ENDED"}
          /\ \A w \in Window : IsLatest(p, w) => ~Unfinished(p, w)
          /\ ToOpen(c, through)
    /\ UNCHANGED <<positions, settlements, ledger, counters>>

\* The daily job goes on with its next position, any other call gives its error.
Abort(c) == IF call[c].kind = "daily" THEN Proceed(c, "next") ELSE Finish(c)

\* A retry that had nothing to do leaves the latest settlement its old status.
Check(c) ==
    LET p == call[c].position IN
    /\ At(c, "check")
    /\ IF \E w \in Window : IsLatest(p, w) /\ settlement[p][w] \in {"CALC_PENDING", "FAILED"}
         THEN Abort(c)
         ELSE ToOpen(c, call[c].through)
    /\ UNCHANGED <<positions, settlements, ledger, counters>>

OpenPeriod(c) ==
    LET p == call[c].position  w == <<call[c].from, call[c].through>> IN
    /\ At(c, "open")
    /\ \/ /\ w \in Window
          /\ settlement' = [settlement EXCEPT ![p][w] = IF @ = "absent" THEN "CALC_PENDING" ELSE @]
          /\ Remember(c, "attempt", [call[c] EXCEPT !.window = w, !.fresh = TRUE])
       \/ w \notin Window /\ Settled(c) /\ UNCHANGED settlement
    /\ UNCHANGED <<positions, profit, paid, ledger, counters>>

Attempt(c) ==
    /\ At(c, "attempt")
    /\ IF settlement[call[c].position][call[c].window] = "LEDGER_POSTED"
         THEN Processed(c)
         ELSE Proceed(c, "calculate")
    /\ UNCHANGED <<positions, settlements, ledger, counters>>

\* A period after the end has no segment with a principal, and no settlement: the
\* calculation throws.
Accruable(p, w) == position[p] = "ENDED" => w[1] <= ended[p]

\* The accruals and their sum are written together, once.
Calculate(c) ==
    LET p == call[c].position  w == call[c].window IN
    /\ At(c, "calculate")
    /\ \/ profit[p][w] # "none" /\ UNCHANGED <<settlement, profit>>
       \/ /\ profit[p][w] = "none"
          /\ Accruable(p, w)
          /\ settlement' = [settlement EXCEPT ![p][w] = "CALCULATED"]
          /\ \E x \in {"zero", "some"} : profit' = [profit EXCEPT ![p][w] = x]
    /\ Proceed(c, "credit")
    /\ UNCHANGED <<positions, paid, ledger, counters>>

Credit(c) ==
    LET p == call[c].position  w == call[c].window IN
    /\ At(c, "credit")
    /\ \/ profit[p][w] = "some" /\ paid' = paid \cup {<<p, w>>} /\ Proceed(c, "stamp")
       \/ profit[p][w] # "some" /\ Processed(c) /\ UNCHANGED paid
    /\ UNCHANGED <<positions, settlement, profit, ledger, counters>>

Stamp(c) ==
    /\ At(c, "stamp")
    /\ settlement' = [settlement EXCEPT ![call[c].position][call[c].window] = "LEDGER_POSTED"]
    /\ Processed(c)
    /\ UNCHANGED <<positions, profit, paid, ledger, counters>>

\* The catch of processSettlement: the status is written or, without a connection, left.
MarkFailed(c) ==
    LET p == call[c].position  w == call[c].window IN
    /\ pc[c] = "failed"
    /\ \/ Free > 0 /\ settlement' = [settlement EXCEPT ![p][w] =
                                        IF @ = "LEDGER_POSTED" THEN @ ELSE "FAILED"]
       \/ UNCHANGED settlement
    /\ Abort(c)
    /\ UNCHANGED <<positions, profit, paid, ledger, counters>>

-----------------------------------------------------------------------------
(* Changing a position *)

\* The amount a change moves, and the principal it leaves.
AmountOf(c) == IF call[c].kind = "end" THEN principal[call[c].position] ELSE Change

After(p, kind, amount) == IF kind = "increase" THEN principal[p] + amount ELSE principal[p] - amount

\* Mutant: a decrease larger than the principal is let through.
ChangeableUnchecked(p, kind, amount) ==
    position[p] = "ACTIVE" /\ After(p, kind, amount) <= MaxPrincipal

\* A decrease leaves something of the position.
Changeable(p, kind, amount) ==
    /\ position[p] = "ACTIVE"
    /\ kind = "decrease" => principal[p] > amount
    /\ After(p, kind, amount) <= MaxPrincipal

\* The inner transaction begins: the row is locked, the request looked up and examined.
OpenChange(c) ==
    LET p == call[c].position IN
    /\ At(c, "change")
    /\ IF event[RequestOf(c)] = 0 /\ Changeable(p, call[c].kind, AmountOf(c))
         THEN Remember(c, "post", [call[c] EXCEPT !.amount = AmountOf(c)])
         ELSE Finish(c)
    /\ UNCHANGED <<positions, settlements, ledger, counters>>

\* The post ends with its COMMIT, which gives its connection back.
PostChange(c) ==
    /\ At(c, "post")
    /\ Post(RequestOf(c), call[c].amount)
    /\ Proceed(c, IF journal[RequestOf(c)] = 0 THEN "drain" ELSE "apply")
    /\ UNCHANGED <<positions, settlements, counters>>

\* A journal of this call is published before the call goes on, on a connection taken anew.
DrainChange(c) ==
    /\ At(c, "drain")
    /\ Proceed(c, "apply")
    /\ UNCHANGED <<positions, settlements, ledger, counters>>

\* The event and the row are written on the connection that holds the row's lock.
ApplyChange(c) ==
    LET p == call[c].position IN
    /\ pc[c] = "apply"
    /\ event' = [event EXCEPT ![RequestOf(c)] = call[c].amount]
    /\ principal' = [principal EXCEPT ![p] = After(p, call[c].kind, call[c].amount)]
    /\ position' = [position EXCEPT ![p] = IF call[c].kind = "end" THEN "ENDED" ELSE @]
    /\ ended' = [ended EXCEPT ![p] = IF call[c].kind = "end" THEN now ELSE @]
    /\ Finish(c)
    /\ UNCHANGED <<started, settlements, ledger, counters>>

-----------------------------------------------------------------------------
(* What goes wrong *)

\* Where a call needs a connection from the pool, and may be refused what it asks for.
TakesConnection == {"insert", "lock_funds", "activate", "select", "settle", "check", "open",
                    "attempt", "calculate", "credit", "stamp", "change", "post", "drain"}

\* Where a failed statement takes a call; a transaction that was open rolls
\* back, and the journal a change posted before it stands.
FailsTo(c) ==
    CASE pc[c] \in {"calculate", "credit", "stamp"} -> Proceed(c, "failed")
      [] pc[c] = "select" -> Finish(c)
      [] OTHER -> Abort(c)

\* Mutant: a call waits for a connection as long as it takes.
FailsServed(c) ==
    /\ pc[c] \in TakesConnection
    /\ Free > 0
    /\ FailsTo(c)
    /\ UNCHANGED <<positions, settlements, ledger, counters>>

\* No connection came free within connectionTimeoutMillis, the statement failed or the
\* request was refused.
Fails(c) ==
    /\ pc[c] \in TakesConnection
    /\ FailsTo(c)
    /\ UNCHANGED <<positions, settlements, ledger, counters>>

\* The process dies, or a commit's answer is lost: what was committed stays.
Fault(c) ==
    /\ pc[c] # "idle"
    /\ faults < MaxFaults
    /\ faults' = faults + 1
    /\ Finish(c)
    /\ UNCHANGED <<positions, settlements, ledger, now, calls>>

Tick ==
    /\ now < MaxTime
    /\ now' = now + 1
    /\ UNCHANGED <<positions, settlements, ledger, pc, call, calls, faults>>

-----------------------------------------------------------------------------

NewCall(c) ==
    \/ \E p \in Position : CallStart(c, p)
    \/ \E p \in Position, kind \in Changes, k \in Key : CallChange(c, p, kind, k)
    \/ \E t \in Midnight : CallDaily(c, t)
    \/ \E p \in Position, w \in Window : CallRetry(c, p, w)

StartStep(c) == InsertPosition(c) \/ LockFunds(c) \/ Activate(c)

SettleStep(c) ==
    \/ Select(c) \/ NextPosition(c) \/ ReadLatest(c) \/ Check(c) \/ OpenPeriod(c)
    \/ Attempt(c) \/ Calculate(c) \/ Credit(c) \/ Stamp(c) \/ MarkFailed(c)

ChangeStep(c) == OpenChange(c) \/ PostChange(c) \/ DrainChange(c) \/ ApplyChange(c)

Step(c) == Lock(c) \/ StartStep(c) \/ SettleStep(c) \/ ChangeStep(c) \/ Fails(c)

Next ==
    \/ \E c \in Caller : NewCall(c) \/ Step(c) \/ Fault(c)
    \/ Tick

Spec == Init /\ [][Next]_vars

FairSpec == Spec /\ \A c \in Caller : WF_vars(Step(c))

-----------------------------------------------------------------------------
(* Properties *)

Labels == TakesConnection \cup {"idle", "lock", "next", "failed", "apply"}

Call == [kind : {"start", "daily", "retry"} \cup Changes, position : Position, key : Key,
         window : Window, fresh : BOOLEAN, from : Time, through : Time, todo : SUBSET Position,
         amount : 0..MaxPrincipal]

\* Every variable keeps its type; a position owes no more than its limit, and nothing below
\* zero, and nothing at all only when it is not active (mine_positions_active_principal_chk).
TypeOK ==
    /\ position \in [Position -> {"absent", "START_PENDING", "ACTIVE", "ENDED"}]
    /\ principal \in [Position -> 0..MaxPrincipal]
    /\ \A p \in Position : position[p] = "ACTIVE" => principal[p] > 0
    /\ started \in [Position -> Time] /\ ended \in [Position -> Time]
    /\ event \in [Request -> Nat]
    /\ settlement \in [Position -> [Window ->
                          {"absent", "CALC_PENDING", "CALCULATED", "LEDGER_POSTED", "FAILED"}]]
    /\ profit \in [Position -> [Window -> {"none", "zero", "some"}]]
    /\ journal \in [Request -> Nat]
    /\ locked \in [Position -> Int]
    /\ paid \in SUBSET (Position \X Window)
    /\ pc \in [Caller -> Labels]
    /\ call \in [Caller -> Call]
    /\ now \in Time /\ calls \in 0..MaxCalls /\ faults \in 0..MaxFaults

\* settlePositionThrough against itself, called by users and by the daily job: the periods
\* of a position do not overlap and leave no gap from its start, so that no moment of it is
\* paid for twice or skipped.
PeriodsTile ==
    \A p \in Position : \A v, w \in Existing(p) :
        /\ v = w \/ v[2] <= w[1] \/ w[2] <= v[1]
        /\ w[1] = started[p] \/ \E u \in Existing(p) : u[2] = w[1]

Unpaid(p, w) ==
    profit[p][w] = "none" \/ (profit[p][w] = "some" /\ settlement[p][w] # "LEDGER_POSTED")

\* processSettlement and what waits for it: a settlement not paid yet is the last one of its
\* position, where the next call to settle it comes across it, and while there is one no
\* change of the position is under way: none is ever settled or changed past.
PaidBeforeGoingOn ==
    \A p \in Position : \A w \in Existing(p) : Unpaid(p, w) =>
        /\ IsLatest(p, w)
        /\ \A c \in Caller : pc[c] \in {"post", "drain", "apply"} => call[c].position # p

\* Requests whose journal stands and whose row was never written: the call that posted it is
\* about to write it, or ended in between, when its drain found no connection or it died.
Unapplied(p) == {r \in Request : r[1] = p /\ journal[r] # 0 /\ event[r] = 0}

Moved == [r \in Request |-> Signed(r[2], journal[r])]

\* The posts of a position against its row: what its journals left in the locked bucket is
\* its principal and what the unapplied ones moved.  However often the pool runs out, a call
\* dies or a request is sent again, no journal changes the principal twice, and none by
\* another amount than it moved.
LockedAddsUp ==
    \A p \in Position : locked[p] = principal[p] + SumFunctionOnSet(Moved, Unapplied(p))

\* withWriteLock waits on a connection of the pool its work needs: a call always comes to
\* its end, even when those that wait hold every connection the one that works could use.
CallsEnd == \A c \in Caller : pc[c] # "idle" ~> pc[c] = "idle"

=============================================================================
