--------------------------- MODULE Mining_proofs ---------------------------
(***************************************************************************)
(* The safety properties of Mining, for any positions, amounts, periods    *)
(* and number of calls.  The write lock lets one call work at a time       *)
(* (Exclusive); the inductive invariant adds what that call knows at each  *)
(* of its steps (CallsKnow), what the rows say of each other (RowsSound)   *)
(* and that the unapplied journals of a position are finitely many, so     *)
(* that their sum is one (BooksKept).                                      *)
(***************************************************************************)
EXTENDS Mining, SumLemmas

StartOf(p) == <<p, "start", Idle.key>>

Running == {"ACTIVE", "ENDED"}
Processing == {"attempt", "calculate", "credit", "stamp", "failed"}
Works(label) == label \notin {"idle", "lock"}

Exclusive == \A c, d \in Caller : Works(pc[c]) /\ Works(pc[d]) => c = d

\* Each label belongs to calls of some kinds; the key of a start is its position's.
KindFits(label, m) ==
    /\ m.kind = "start" => m.key = Idle.key
    /\ label \in {"insert", "lock_funds", "activate"} => m.kind = "start"
    /\ label \in {"select", "next"} => m.kind = "daily"
    /\ label \in {"settle", "check", "open"} => m.kind \in Changes \cup {"daily"}
    /\ label \in Processing => m.kind \in Changes \cup {"daily", "retry"}
    /\ label \in {"change", "post", "drain", "apply"} => m.kind \in Changes

CallsFit ==
    \A c \in Caller, label \in Labels, m \in Call :
        label = pc[c] /\ m = call[c] => KindFits(label, m)

AllPaid(p) == \A w \in Existing(p) : ~Unpaid(p, w)

PeriodKnown(label, m) ==
    /\ label \in Processing \/ (label = "lock" /\ m.kind = "retry") => m.window \in Existing(m.position)
    /\ label \in Processing /\ m.kind # "retry" =>
          IsLatest(m.position, m.window) /\ position[m.position] \in Running
    /\ label = "credit" => profit[m.position][m.window] # "none"
    /\ label = "stamp" => profit[m.position][m.window] = "some"
    /\ label \in {"open", "check"} => position[m.position] \in Running
    /\ label = "open" => SettledTo(m.position, m.from)
    /\ label \in {"open", "check", "change", "post", "drain", "apply"} => AllPaid(m.position)

RequestKnown(label, m) ==
    /\ label \in {"lock_funds", "activate"} => position[m.position] = "START_PENDING"
    /\ label = "activate" => journal[StartOf(m.position)] = Requested[m.position]
    /\ label \in {"post", "drain", "apply"} =>
          /\ event[<<m.position, m.kind, m.key>>] = 0
          /\ Changeable(m.position, m.kind, m.amount)
          /\ m.amount > 0
          /\ m.kind = "end" => m.amount = principal[m.position]
    /\ label \in {"drain", "apply"} => journal[<<m.position, m.kind, m.key>>] = m.amount

CallsKnow ==
    \A c \in Caller, label \in Labels, m \in Call :
        label = pc[c] /\ m = call[c] => PeriodKnown(label, m) /\ RequestKnown(label, m)

RowsSound ==
    \A p \in Position :
        /\ position[p] \notin Running => Existing(p) = {} /\ principal[p] = 0
        /\ position[p] = "absent" => journal[StartOf(p)] = 0
        /\ position[p] \notin Running => event[StartOf(p)] = 0
        /\ \A w \in Window :
              /\ settlement[p][w] = "LEDGER_POSTED" => profit[p][w] = "some"
              /\ settlement[p][w] = "CALCULATED" => profit[p][w] # "none"
        /\ \A w \in Existing(p) : Unpaid(p, w) => IsLatest(p, w)

Books(p) ==
    /\ IsFiniteSet(Unapplied(p))
    /\ locked[p] = principal[p] + SumFunctionOnSet(Moved, Unapplied(p))

BooksKept == \A p \in Position : Books(p)

IInv ==
    /\ TypeOK
    /\ Exclusive
    /\ CallsFit
    /\ CallsKnow
    /\ PeriodsTile
    /\ RowsSound
    /\ BooksKept

\* TypeOK without the calls.
RowsType ==
    /\ position \in [Position -> {"absent", "START_PENDING", "ACTIVE", "ENDED"}]
    /\ principal \in [Position -> 0..MaxPrincipal]
    /\ \A p \in Position : position[p] = "ACTIVE" => principal[p] > 0
    /\ started \in [Position -> Time] /\ ended \in [Position -> Time]
    /\ event \in [Request -> Nat]
    /\ settlement \in [Position -> [Window ->
                          {"absent", "CALC_PENDING", "CALCULATED", "LEDGER_POSTED", "FAILED"}]]
    /\ profit \in [Position -> [Window -> {"none", "zero", "some"}]]
    /\ journal \in [Request -> Nat]
    /\ locked \in [Position -> Int]
    /\ paid \in SUBSET (Position \X Window)
    /\ now \in Time /\ calls \in 0..MaxCalls /\ faults \in 0..MaxFaults

\* A step of one call.
Moves(c, label, m) ==
    /\ pc' \in [Caller -> Labels] /\ call' \in [Caller -> Call]
    /\ pc'[c] = label /\ call'[c] = m
    /\ \A d \in Caller \ {c} : pc'[d] = pc[d] /\ call'[d] = call[d]

SettlementsStay == \A p \in Position : Existing(p) \subseteq Existing(p)'

USE MiningAssumption

-----------------------------------------------------------------------------
(* Calls *)

LEMMA IdleType ==
  /\ Idle \in Call
  /\ Idle.kind = "end" /\ Idle.position \in Position /\ Idle.key \in Key
  <1>1. (CHOOSE p \in Position : TRUE) \in Position /\ (CHOOSE k \in Key : TRUE) \in Key
    OBVIOUS
  <1>2. <<0, 1>> \in Window /\ 0 \in Time /\ 0 \in 0..MaxPrincipal
    BY DEF Window, Time
  <1> QED
    BY <1>1, <1>2 DEF Idle, Call, Changes

LEMMA RequestTypes ==
  ASSUME NEW p \in Position
  PROVE  /\ StartOf(p) \in Request
         /\ \A kind \in Changes, k \in Key : <<p, kind, k>> \in Request
  BY IdleType DEF StartOf, Request

LEMMA MoveSteps ==
  ASSUME TypeOK, NEW c \in Caller, NEW label \in Labels, NEW m \in Call
  PROVE  /\ Remember(c, label, m) => Moves(c, label, m)
         /\ Proceed(c, label) => Moves(c, label, call[c])
  <1>1. Remember(c, label, m) => Moves(c, label, m)
    BY DEF TypeOK, Remember, Goto, Moves
  <1>2. Proceed(c, label) => Moves(c, label, call[c])
    BY DEF TypeOK, Proceed, Goto, Moves
  <1> QED
    BY <1>1, <1>2

LEMMA LabelTypes ==
  /\ TakesConnection \subseteq Labels
  /\ {"idle", "lock", "next", "failed", "apply"} \subseteq Labels
  /\ Processing \subseteq Labels
  BY DEF Labels, TakesConnection, Processing

LEMMA TypeParts == TypeOK <=> RowsType /\ pc \in [Caller -> Labels] /\ call \in [Caller -> Call]
  BY DEF TypeOK, RowsType

\* What a call needs from the rows, taken from the quantified invariants.
LEMMA CallKnows ==
  ASSUME IInv, NEW c \in Caller
  PROVE  /\ pc[c] \in Labels /\ call[c] \in Call
         /\ KindFits(pc[c], call[c])
         /\ PeriodKnown(pc[c], call[c])
         /\ RequestKnown(pc[c], call[c])
  BY DEF IInv, TypeOK, CallsFit, CallsKnow

\* A call that does not work depends on no row but the settlement it is to retry.
LEMMA OthersKnow ==
  ASSUME NEW label \in Labels, NEW m \in Call, ~Works(label),
         PeriodKnown(label, m), SettlementsStay
  PROVE  PeriodKnown(label, m)' /\ RequestKnown(label, m)'
  <1>1. label \in {"idle", "lock"}
    BY DEF Works
  <1>2. m.position \in Position /\ m.window \in Window
    BY DEF Call
  <1>3. label = "lock" /\ m.kind = "retry" => m.window \in Existing(m.position)'
    BY <1>2 DEF PeriodKnown, SettlementsStay
  <1>4. PeriodKnown(label, m)'
    BY <1>1, <1>3 DEF PeriodKnown, Processing
  <1>5. RequestKnown(label, m)'
    BY <1>1 DEF RequestKnown
  <1> QED
    BY <1>4, <1>5

\* One call moves, and the others do not work or see rows that stay.
LEMMA CallsStep ==
  ASSUME IInv, NEW c \in Caller, NEW label \in Labels, NEW m \in Call,
         Moves(c, label, m), KindFits(label, m),
         PeriodKnown(label, m)', RequestKnown(label, m)',
         Works(label) => Works(pc[c]) \/ ~LockTaken,
         SettlementsStay,
         Works(pc[c]) \/ (\A l \in Labels, n \in Call :
                             PeriodKnown(l, n) /\ RequestKnown(l, n)
                                 => PeriodKnown(l, n)' /\ RequestKnown(l, n)')
  PROVE  Exclusive' /\ CallsFit' /\ CallsKnow'
  <1>1. Exclusive'
    <2> SUFFICES ASSUME NEW a \in Caller, NEW b \in Caller, Works(pc'[a]), Works(pc'[b])
                 PROVE  a = b
      BY DEF Exclusive
    <2>1. Works(label) => \A d \in Caller \ {c} : ~Works(pc[d])
      BY DEF IInv, Exclusive, LockTaken, Works
    <2> QED
      BY <2>1 DEF Moves, IInv, Exclusive
  <1>2. CallsFit'
    <2> SUFFICES ASSUME NEW d \in Caller PROVE KindFits(pc'[d], call'[d])
      BY DEF CallsFit
    <2>1. d # c => KindFits(pc[d], call[d])
      BY CallKnows
    <2> QED
      BY <2>1 DEF Moves
  <1>3. CallsKnow'
    <2> SUFFICES ASSUME NEW d \in Caller, NEW l \in Labels, NEW n \in Call, l = pc'[d], n = call'[d]
                 PROVE  PeriodKnown(l, n)' /\ RequestKnown(l, n)'
      BY DEF CallsKnow
    <2>1. CASE d = c
      BY <2>1 DEF Moves
    <2>2. CASE d # c
      <3>1. PeriodKnown(l, n) /\ RequestKnown(l, n)
        BY <2>2, CallKnows DEF Moves
      <3>2. Works(pc[c]) => ~Works(l)
        BY <2>2 DEF Moves, IInv, Exclusive
      <3> QED
        BY <3>1, <3>2, OthersKnow
    <2> QED
      BY <2>1, <2>2
  <1> QED
    BY <1>1, <1>2, <1>3

\* A step that writes no row: what calls knew they still know.
LEMMA RowsStay ==
  ASSUME UNCHANGED <<positions, settlements, ledger>>,
         NEW label \in Labels, NEW m \in Call, PeriodKnown(label, m), RequestKnown(label, m)
  PROVE  PeriodKnown(label, m)' /\ RequestKnown(label, m)'
  <1>1. PeriodKnown(label, m)'
    BY DEF PeriodKnown, AllPaid, Unpaid, IsLatest, Existing, SettledTo, positions, settlements, ledger
  <1>2. RequestKnown(label, m)'
    BY DEF RequestKnown, Changeable, After, StartOf, positions, settlements, ledger
  <1> QED
    BY <1>1, <1>2

-----------------------------------------------------------------------------
(* The books of a position *)

LEMMA BooksStay ==
  ASSUME BooksKept, UNCHANGED <<journal, event, principal, locked>>
  PROVE  BooksKept'
  <1>1. Moved' = Moved /\ \A p : Unapplied(p)' = Unapplied(p)
    BY DEF Moved, Unapplied
  <1> QED
    BY <1>1 DEF BooksKept, Books

\* A request of one position does not touch the books of another.
LEMMA OtherBooks ==
  ASSUME NEW p \in Position, Books(p), NEW r \in Request, r[1] # p,
         \A s \in Request \ {r} : journal'[s] = journal[s] /\ event'[s] = event[s],
         locked'[p] = locked[p], principal'[p] = principal[p]
  PROVE  Books(p)'
  <1>1. Unapplied(p)' = Unapplied(p)
    BY DEF Unapplied
  <1>2. \A s \in Unapplied(p) : Moved'[s] = Moved[s]
    BY DEF Moved, Unapplied
  <1>3. SumFunctionOnSet(Moved', Unapplied(p)) = SumFunctionOnSet(Moved, Unapplied(p))
    BY <1>2, SumAgree DEF Books
  <1> QED
    BY <1>1, <1>3 DEF Books

LEMMA MovedType ==
  ASSUME journal \in [Request -> Nat]
  PROVE  \A s \in Request : Moved[s] \in Int
  BY DEF Moved, Signed

\* A post: its request is unapplied from now on, and moved what the books now hold more.
LEMMA PostedBooks ==
  ASSUME NEW p \in Position, Books(p), NEW r \in Request, r[1] = p, NEW a \in Nat, a # 0,
         journal \in [Request -> Nat], principal[p] \in Int, locked[p] \in Int,
         journal[r] = 0, event[r] = 0, event' = event, principal' = principal,
         \A s \in Request : journal'[s] = IF s = r THEN a ELSE journal[s],
         locked'[p] = locked[p] + Signed(r[2], a)
  PROVE  Books(p)'
  <1> DEFINE S == Unapplied(p)
  <1>1. r \notin S /\ IsFiniteSet(S) /\ S \subseteq Request
    BY DEF Unapplied, Books
  <1>2. Unapplied(p)' = S \cup {r}
    BY DEF Unapplied
  <1>3. \A s \in S : Moved'[s] = Moved[s] /\ Moved[s] \in Int
    BY <1>1, MovedType DEF Moved
  <1>4. Moved'[r] = Signed(r[2], a) /\ Signed(r[2], a) \in Int
    BY DEF Moved, Signed
  <1>5. \A s \in S \cup {r} : Moved'[s] \in Int
    BY <1>3, <1>4
  <1> HIDE DEF S
  <1>6. SumFunctionOnSet(Moved', S \cup {r}) = Moved'[r] + SumFunctionOnSet(Moved', S)
    BY <1>1, <1>5, SumAdd
  <1>7. SumFunctionOnSet(Moved', S) = SumFunctionOnSet(Moved, S)
    BY <1>1, <1>3, SumAgree
  <1>8. SumFunctionOnSet(Moved, S) \in Int
    BY <1>1, <1>3, SumType
  <1>9. IsFiniteSet(S \cup {r})
    BY <1>1, FS_AddElement
  <1>10. locked[p] = principal[p] + SumFunctionOnSet(Moved, S)
    BY DEF Books, S
  <1>11. locked'[p] = principal'[p] + SumFunctionOnSet(Moved', S \cup {r})
    BY <1>4, <1>6, <1>7, <1>8, <1>10
  <1> QED
    BY <1>2, <1>9, <1>11 DEF Books

\* A request's row: the principal takes over what its journal moved.
LEMMA AppliedBooks ==
  ASSUME NEW p \in Position, Books(p), NEW r \in Request, r[1] = p, NEW a \in Nat, a # 0,
         journal \in [Request -> Nat], principal[p] \in Int, locked[p] \in Int,
         journal[r] = a, event[r] = 0, journal' = journal, locked' = locked,
         \A s \in Request : event'[s] = IF s = r THEN a ELSE event[s],
         principal'[p] = principal[p] + Signed(r[2], a)
  PROVE  Books(p)'
  <1> DEFINE S == Unapplied(p)
  <1>1. r \in S /\ IsFiniteSet(S) /\ S \subseteq Request
    BY DEF Unapplied, Books
  <1>2. Unapplied(p)' = S \ {r} /\ Moved' = Moved
    BY DEF Unapplied, Moved
  <1>3. \A s \in S : Moved[s] \in Int
    BY <1>1, MovedType
  <1>4. Moved[r] = Signed(r[2], a) /\ Signed(r[2], a) \in Int
    BY DEF Moved, Signed
  <1> HIDE DEF S
  <1>5. SumFunctionOnSet(Moved, S) = Moved[r] + SumFunctionOnSet(Moved, S \ {r})
    BY <1>1, <1>3, SumPeel
  <1>6. IsFiniteSet(S \ {r})
    BY <1>1, FS_RemoveElement
  <1>7. SumFunctionOnSet(Moved, S \ {r}) \in Int
    BY <1>3, <1>6, SumType
  <1>8. locked[p] = principal[p] + SumFunctionOnSet(Moved, S)
    BY DEF Books, S
  <1>9. locked'[p] = principal'[p] + SumFunctionOnSet(Moved, S \ {r})
    BY <1>4, <1>5, <1>7, <1>8
  <1> QED
    BY <1>2, <1>6, <1>9 DEF Books

-----------------------------------------------------------------------------
(* Steps that write no row *)

\* The invariant after a step that writes no row.
LEMMA QuietStep ==
  ASSUME IInv, NEW c \in Caller, NEW label \in Labels, NEW m \in Call,
         Moves(c, label, m), KindFits(label, m), PeriodKnown(label, m), RequestKnown(label, m),
         UNCHANGED <<positions, settlements, ledger>>,
         now' \in Time, calls' \in 0..MaxCalls, faults' \in 0..MaxFaults,
         Works(label) => Works(pc[c]) \/ ~LockTaken
  PROVE  IInv'
  <1>1. \A l \in Labels, n \in Call : PeriodKnown(l, n) /\ RequestKnown(l, n)
                                         => PeriodKnown(l, n)' /\ RequestKnown(l, n)'
    BY RowsStay
  <1>2. SettlementsStay
    BY DEF SettlementsStay, Existing, settlements
  <1>3. Exclusive' /\ CallsFit' /\ CallsKnow'
    BY <1>1, <1>2, CallsStep
  <1>4. TypeOK'
    BY DEF IInv, TypeOK, Moves, positions, settlements, ledger
  <1>5. PeriodsTile'
    BY DEF IInv, PeriodsTile, Existing, positions, settlements
  <1>6. RowsSound'
    BY DEF IInv, RowsSound, Existing, Unpaid, IsLatest, StartOf, positions, settlements, ledger
  <1>7. BooksKept'
    BY BooksStay DEF IInv, positions, ledger
  <1> QED
    BY <1>3, <1>4, <1>5, <1>6, <1>7 DEF IInv

LEMMA StutterStep == ASSUME IInv, UNCHANGED vars PROVE IInv'
  <1>1. SettlementsStay /\ UNCHANGED <<positions, settlements, ledger>>
    BY DEF SettlementsStay, Existing, vars, settlements, counters
  <1>2. \A l \in Labels, n \in Call : PeriodKnown(l, n) /\ RequestKnown(l, n)
                                         => PeriodKnown(l, n)' /\ RequestKnown(l, n)'
    BY <1>1, RowsStay
  <1>3. pc' = pc /\ call' = call /\ now' = now /\ calls' = calls /\ faults' = faults
    BY DEF vars, counters
  <1>4. CallsKnow'
    BY <1>2, <1>3 DEF IInv, CallsKnow
  <1>5. Exclusive' /\ CallsFit'
    BY <1>3 DEF IInv, Exclusive, CallsFit
  <1>6. TypeOK'
    BY <1>1, <1>3 DEF IInv, TypeOK, positions, settlements, ledger
  <1>7. PeriodsTile'
    BY <1>1 DEF IInv, PeriodsTile, Existing, positions, settlements
  <1>8. RowsSound'
    BY <1>1 DEF IInv, RowsSound, Existing, Unpaid, IsLatest, StartOf, positions, settlements, ledger
  <1>9. BooksKept'
    BY <1>1, BooksStay DEF IInv, positions, ledger
  <1> QED
    BY <1>4, <1>5, <1>6, <1>7, <1>8, <1>9 DEF IInv

LEMMA BeginStep ==
  ASSUME IInv, NEW c \in Caller, NEW m \in Call, Begin(c, m),
         m.kind = "start" => m.key = Idle.key,
         m.kind = "retry" => m.window \in Existing(m.position)
  PROVE  IInv'
  <1>1. /\ Moves(c, "lock", m) /\ pc[c] = "idle"
        /\ UNCHANGED <<positions, settlements, ledger>>
        /\ now' = now /\ calls' = calls + 1 /\ calls < MaxCalls /\ faults' = faults
        /\ "lock" \in Labels
    BY MoveSteps, LabelTypes DEF IInv, Begin, At
  <1>2. KindFits("lock", m) /\ PeriodKnown("lock", m) /\ RequestKnown("lock", m)
    BY DEF KindFits, PeriodKnown, RequestKnown, Processing
  <1>3. calls' \in 0..MaxCalls /\ faults' \in 0..MaxFaults /\ now' \in Time
    BY <1>1 DEF IInv, TypeOK
  <1> QED
    BY <1>1, <1>2, <1>3, QuietStep DEF Works

LEMMA NewCallStep ==
  ASSUME IInv, NEW c \in Caller, NewCall(c) PROVE IInv'
  <1>1. CASE \E p \in Position : CallStart(c, p)
    <2>1. PICK p \in Position : CallStart(c, p)
      BY <1>1
    <2> DEFINE m == [Idle EXCEPT !.kind = "start", !.position = p]
    <2>2. m \in Call /\ m.kind = "start" /\ m.key = Idle.key
      BY IdleType DEF Call
    <2>3. Begin(c, m)
      BY <2>1 DEF CallStart
    <2> HIDE DEF m
    <2> QED
      BY <2>2, <2>3, BeginStep
  <1>2. CASE \E p \in Position, kind \in Changes, k \in Key : CallChange(c, p, kind, k)
    <2>1. PICK p \in Position, kind \in Changes, k \in Key : CallChange(c, p, kind, k)
      BY <1>2
    <2> DEFINE m == [Idle EXCEPT !.kind = kind, !.position = p, !.key = k]
    <2>2. m \in Call /\ m.kind \in Changes
      BY IdleType DEF Call
    <2>3. Begin(c, m)
      BY <2>1 DEF CallChange
    <2>4. m.kind # "start" /\ m.kind # "retry"
      BY <2>2 DEF Changes
    <2> HIDE DEF m
    <2> QED
      BY <2>2, <2>3, <2>4, BeginStep
  <1>3. CASE \E t \in Midnight : CallDaily(c, t)
    <2>1. PICK t \in Midnight : CallDaily(c, t)
      BY <1>3
    <2> DEFINE m == [Idle EXCEPT !.kind = "daily", !.through = t]
    <2>2. m \in Call /\ m.kind = "daily"
      BY IdleType DEF Call
    <2>3. Begin(c, m)
      BY <2>1 DEF CallDaily
    <2> HIDE DEF m
    <2> QED
      BY <2>2, <2>3, BeginStep
  <1>4. CASE \E p \in Position, w \in Window : CallRetry(c, p, w)
    <2>1. PICK p \in Position, w \in Window : CallRetry(c, p, w)
      BY <1>4
    <2> DEFINE m == [Idle EXCEPT !.kind = "retry", !.position = p, !.window = w]
    <2>2. m \in Call /\ m.kind = "retry" /\ m.position = p /\ m.window = w
      BY IdleType DEF Call
    <2>3. Begin(c, m) /\ w \in Existing(p)
      BY <2>1 DEF CallRetry, Existing
    <2> HIDE DEF m
    <2> QED
      BY <2>2, <2>3, BeginStep
  <1> QED
    BY <1>1, <1>2, <1>3, <1>4 DEF NewCall

LEMMA FirstLabel ==
  ASSUME NEW m \in Call
  PROVE  /\ FirstOf(m.kind) \in {"insert", "settle", "select", "attempt"}
         /\ FirstOf(m.kind) = "insert" => m.kind = "start"
         /\ FirstOf(m.kind) = "settle" => m.kind \in Changes
         /\ FirstOf(m.kind) = "select" => m.kind = "daily"
         /\ FirstOf(m.kind) = "attempt" => m.kind = "retry"
  BY DEF FirstOf, Call, Changes

LEMMA LockStep ==
  ASSUME IInv, NEW c \in Caller, Lock(c) PROVE IInv'
  <1> DEFINE label == FirstOf(call[c].kind)
  <1>1. call[c] \in Call /\ label \in {"insert", "settle", "select", "attempt"} /\ label \in Labels
    BY CallKnows, FirstLabel DEF Labels, TakesConnection
  <1>2. KindFits(label, call[c])
    BY <1>1, CallKnows, FirstLabel DEF KindFits, Processing, Changes
  <1>3. PeriodKnown("lock", call[c]) /\ pc[c] = "lock"
    BY CallKnows DEF Lock
  <1>4. label = "attempt" => call[c].kind = "retry"
    BY <1>1, FirstLabel
  <1>5. /\ ~LockTaken
        /\ UNCHANGED <<positions, settlements, ledger>>
        /\ now' = now /\ calls' = calls /\ faults' = faults
        /\ Proceed(c, label)
    BY DEF Lock, counters
  <1> HIDE DEF label
  <1>6. Moves(c, label, call[c])
    BY <1>1, <1>5, MoveSteps DEF IInv
  <1>7. PeriodKnown(label, call[c]) /\ RequestKnown(label, call[c])
    BY <1>1, <1>3, <1>4 DEF PeriodKnown, RequestKnown, Processing
  <1>8. calls' \in 0..MaxCalls /\ faults' \in 0..MaxFaults /\ now' \in Time
    BY <1>5 DEF IInv, TypeOK
  <1> QED
    BY <1>1, <1>2, <1>3, <1>5, <1>6, <1>7, <1>8, QuietStep

\* A step of the call at work that writes no row.
LEMMA ReadingStep ==
  ASSUME IInv, NEW c \in Caller, NEW label \in Labels, NEW m \in Call,
         Moves(c, label, m), KindFits(label, m), PeriodKnown(label, m), RequestKnown(label, m),
         UNCHANGED <<positions, settlements, ledger, counters>>,
         Works(pc[c])
  PROVE  IInv'
  <1>1. /\ now' \in Time /\ calls' \in 0..MaxCalls /\ faults' \in 0..MaxFaults /\ faults' = faults
        /\ UNCHANGED <<positions, settlements, ledger>>
    BY DEF IInv, TypeOK, counters
  <1> QED
    BY <1>1, QuietStep

\* Where a call has nothing more to know.
LEMMA KnowsNothing ==
  ASSUME NEW label \in {"idle", "next", "select", "settle", "insert"}, NEW m \in Call
  PROVE  PeriodKnown(label, m) /\ RequestKnown(label, m)
  BY DEF PeriodKnown, RequestKnown, Processing

LEMMA FinishKnows ==
  /\ KindFits("idle", Idle) /\ PeriodKnown("idle", Idle) /\ RequestKnown("idle", Idle)
  /\ Idle \in Call /\ "idle" \in Labels
  BY IdleType, KnowsNothing, LabelTypes DEF KindFits, Processing

LEMMA SelectStep ==
  ASSUME IInv, NEW c \in Caller, Select(c) PROVE IInv'
  <1> DEFINE todo == {p \in Position : position[p] = "ACTIVE" /\ started[p] < call[c].through}
             m == [call[c] EXCEPT !.todo = todo]
  <1>1. pc[c] = "select" /\ call[c] \in Call /\ KindFits("select", call[c]) /\ todo \in SUBSET Position
    BY CallKnows DEF Select, At
  <1>2. m \in Call /\ m.kind = call[c].kind /\ m.key = call[c].key
    BY <1>1 DEF Call
  <1>3. Remember(c, "next", m) /\ UNCHANGED <<positions, settlements, ledger, counters>>
    BY DEF Select
  <1> HIDE DEF m
  <1>4. "next" \in Labels
    BY LabelTypes
  <1>5. KindFits("next", m)
    BY <1>1, <1>2 DEF KindFits, Processing
  <1>6. Moves(c, "next", m)
    BY <1>2, <1>3, <1>4, MoveSteps DEF IInv
  <1> QED
    BY <1>1, <1>2, <1>3, <1>4, <1>5, <1>6, KnowsNothing, ReadingStep DEF Works

LEMMA NextPositionStep ==
  ASSUME IInv, NEW c \in Caller, NextPosition(c) PROVE IInv'
  <1>1. /\ pc[c] = "next" /\ call[c] \in Call /\ KindFits("next", call[c])
        /\ UNCHANGED <<positions, settlements, ledger, counters>>
    BY CallKnows DEF NextPosition
  <1>2. CASE Finish(c)
    <2>1. Moves(c, "idle", Idle)
      BY <1>2, FinishKnows, MoveSteps DEF IInv, Finish
    <2> QED
      BY <1>1, <2>1, FinishKnows, ReadingStep DEF Works
  <1>3. CASE \E p \in call[c].todo :
                Remember(c, "settle", [call[c] EXCEPT !.position = p, !.todo = @ \ {p}])
    <2>1. PICK p \in call[c].todo :
                Remember(c, "settle", [call[c] EXCEPT !.position = p, !.todo = @ \ {p}])
      BY <1>3
    <2> DEFINE m == [call[c] EXCEPT !.position = p, !.todo = @ \ {p}]
    <2>2. m \in Call /\ m.kind = call[c].kind /\ m.key = call[c].key
      BY <1>1 DEF Call
    <2>3. Remember(c, "settle", m)
      BY <2>1
    <2> HIDE DEF m
    <2>4. "settle" \in Labels
      BY DEF Labels, TakesConnection
    <2>5. KindFits("settle", m)
      BY <1>1, <2>2 DEF KindFits, Processing
    <2>6. Moves(c, "settle", m)
      BY <2>2, <2>3, <2>4, MoveSteps DEF IInv
    <2> QED
      BY <1>1, <2>2, <2>4, <2>5, <2>6, KnowsNothing, ReadingStep DEF Works
  <1> QED
    BY <1>2, <1>3 DEF NextPosition

\* What the three ends of a settlement lead to.
LEMMA SettledCases ==
  ASSUME NEW c \in Caller, Settled(c)
  PROVE  \/ call[c].kind \in Changes /\ Proceed(c, "change")
         \/ call[c].kind = "daily" /\ Proceed(c, "next")
         \/ Finish(c)
  BY DEF Settled

LEMMA AbortCases ==
  ASSUME NEW c \in Caller, Abort(c)
  PROVE  (call[c].kind = "daily" /\ Proceed(c, "next")) \/ Finish(c)
  BY DEF Abort

LEMMA FinishStep ==
  ASSUME IInv, NEW c \in Caller, Finish(c), Works(pc[c]),
         UNCHANGED <<positions, settlements, ledger, counters>>
  PROVE  IInv'
  <1>1. Moves(c, "idle", Idle)
    BY FinishKnows, MoveSteps DEF IInv, Finish
  <1> QED
    BY <1>1, FinishKnows, ReadingStep

\* A call goes on to a label it already knows all about.
LEMMA ProceedStep ==
  ASSUME IInv, NEW c \in Caller, NEW label \in Labels, Proceed(c, label),
         KindFits(label, call[c]), PeriodKnown(label, call[c]), RequestKnown(label, call[c]),
         Works(pc[c]),
         UNCHANGED <<positions, settlements, ledger, counters>>
  PROVE  IInv'
  <1>1. call[c] \in Call
    BY CallKnows
  <1>2. Moves(c, label, call[c])
    BY <1>1, MoveSteps DEF IInv
  <1> QED
    BY <1>1, <1>2, ReadingStep

LEMMA NextStep ==
  ASSUME IInv, NEW c \in Caller, Proceed(c, "next"), call[c].kind = "daily",
         Works(pc[c]), UNCHANGED <<positions, settlements, ledger, counters>>
  PROVE  IInv'
  <1>1. call[c] \in Call /\ "next" \in Labels
    BY CallKnows, LabelTypes
  <1>2. KindFits("next", call[c])
    BY DEF KindFits, Processing
  <1> QED
    BY <1>1, <1>2, KnowsNothing, ProceedStep

LEMMA AbortStep ==
  ASSUME IInv, NEW c \in Caller, Abort(c),
         Works(pc[c]), UNCHANGED <<positions, settlements, ledger, counters>>
  PROVE  IInv'
  BY AbortCases, FinishStep, NextStep

\* Settled: the position has nothing unpaid.
LEMMA SettledStep ==
  ASSUME IInv, NEW c \in Caller, Settled(c), AllPaid(call[c].position),
         Works(pc[c]), UNCHANGED <<positions, settlements, ledger, counters>>
  PROVE  IInv'
  <1>1. CASE call[c].kind \in Changes /\ Proceed(c, "change")
    <2>1. call[c] \in Call /\ "change" \in Labels
      BY CallKnows DEF Labels, TakesConnection
    <2>2. KindFits("change", call[c]) /\ PeriodKnown("change", call[c]) /\ RequestKnown("change", call[c])
      BY <1>1 DEF KindFits, PeriodKnown, RequestKnown, Processing, Changes
    <2> QED
      BY <1>1, <2>1, <2>2, ProceedStep
  <1>2. CASE call[c].kind = "daily" /\ Proceed(c, "next")
    BY <1>2, NextStep
  <1>3. CASE Finish(c)
    BY <1>3, FinishStep
  <1> QED
    BY <1>1, <1>2, <1>3, SettledCases

\* The last period paid, all are: no two periods end together.
LEMMA LatestPaid ==
  ASSUME IInv, NEW p \in Position, NEW w \in Window, IsLatest(p, w), ~Unpaid(p, w)
  PROVE  AllPaid(p)
  <1> SUFFICES ASSUME NEW v \in Existing(p), Unpaid(p, v) PROVE FALSE
    BY DEF AllPaid
  <1>1. IsLatest(p, v)
    BY DEF IInv, RowsSound
  <1>2. w \in Existing(p) /\ v \in Window /\ v[2] <= w[2] /\ w[2] <= v[2]
    BY <1>1 DEF IsLatest, Existing
  <1>3. v = w \/ v[2] <= w[1] \/ w[2] <= v[1]
    BY <1>2 DEF IInv, PeriodsTile
  <1> QED
    BY <1>2, <1>3 DEF Window, Time

LEMMA ReadLatestStep ==
  ASSUME IInv, NEW c \in Caller, ReadLatest(c) PROVE IInv'
  <1> DEFINE p == call[c].position
             through == IF call[c].kind = "daily" THEN call[c].through ELSE now
  <1>1. /\ pc[c] = "settle" /\ call[c] \in Call /\ KindFits("settle", call[c])
        /\ p \in Position /\ through \in Time
        /\ UNCHANGED <<positions, settlements, ledger, counters>>
        /\ Works(pc[c])
    BY CallKnows DEF ReadLatest, At, Call, IInv, TypeOK, Works
  <1>2. CASE position[p] \notin Running /\ Settled(c)
    <2>1. AllPaid(call[c].position)
      BY <1>1, <1>2 DEF IInv, RowsSound, AllPaid
    <2> QED
      BY <1>1, <1>2, <2>1, SettledStep
  <1>3. CASE /\ position[p] \in Running
             /\ \E w \in Window :
                  /\ IsLatest(p, w) /\ Unfinished(p, w)
                  /\ Remember(c, "attempt", [call[c] EXCEPT !.window = w, !.fresh = FALSE,
                                                            !.through = through])
    <2>1. PICK w \in Window :
                  /\ IsLatest(p, w)
                  /\ Remember(c, "attempt", [call[c] EXCEPT !.window = w, !.fresh = FALSE,
                                                            !.through = through])
      BY <1>3
    <2> DEFINE m == [call[c] EXCEPT !.window = w, !.fresh = FALSE, !.through = through]
    <2>2. m \in Call /\ m.kind = call[c].kind /\ m.key = call[c].key /\ m.position = p /\ m.window = w
      BY <1>1 DEF Call
    <2>3. Remember(c, "attempt", m)
      BY <2>1
    <2> HIDE DEF m, through
    <2>4. "attempt" \in Labels
      BY DEF Labels, TakesConnection
    <2>5. KindFits("attempt", m)
      BY <1>1, <2>2 DEF KindFits, Processing
    <2>6. PeriodKnown("attempt", m) /\ RequestKnown("attempt", m)
      BY <1>3, <2>1, <2>2 DEF PeriodKnown, RequestKnown, Processing, IsLatest
    <2>7. Moves(c, "attempt", m)
      BY <2>2, <2>3, <2>4, MoveSteps DEF IInv
    <2> QED
      BY <1>1, <2>2, <2>4, <2>5, <2>6, <2>7, ReadingStep
  <1>4. CASE /\ position[p] \in Running
             /\ \A w \in Window : IsLatest(p, w) => ~Unfinished(p, w)
             /\ ToOpen(c, through)
    <2>1. PICK t \in Time :
              /\ SettledTo(p, t)
              /\ Remember(c, "open", [call[c] EXCEPT !.from = t, !.through = through])
      BY <1>4 DEF ToOpen
    <2> DEFINE m == [call[c] EXCEPT !.from = t, !.through = through]
    <2>2. m \in Call /\ m.kind = call[c].kind /\ m.key = call[c].key /\ m.position = p /\ m.from = t
      BY <1>1 DEF Call
    <2>3. Remember(c, "open", m)
      BY <2>1
    <2> HIDE DEF m, through
    <2>4. "open" \in Labels
      BY DEF Labels, TakesConnection
    <2>5. KindFits("open", m)
      BY <1>1, <2>2 DEF KindFits, Processing
    <2>6. AllPaid(p)
      <3> SUFFICES ASSUME NEW w \in Existing(p), Unpaid(p, w) PROVE FALSE
        BY DEF AllPaid
      <3>1. IsLatest(p, w) /\ w \in Window
        BY <1>1 DEF IInv, RowsSound, Existing
      <3>2. ~Unfinished(p, w)
        BY <1>4, <3>1
      <3> QED
        BY <1>1, <3>1, <3>2 DEF Unfinished, Unpaid, IInv, RowsSound
    <2>7. PeriodKnown("open", m) /\ RequestKnown("open", m)
      BY <1>4, <2>1, <2>2, <2>6 DEF PeriodKnown, RequestKnown, Processing
    <2>8. Moves(c, "open", m)
      BY <2>2, <2>3, <2>4, MoveSteps DEF IInv
    <2> QED
      BY <1>1, <2>2, <2>4, <2>5, <2>7, <2>8, ReadingStep
  <1> QED
    BY <1>2, <1>3, <1>4 DEF ReadLatest, Running

LEMMA CheckStep ==
  ASSUME IInv, NEW c \in Caller, Check(c) PROVE IInv'
  <1> DEFINE p == call[c].position
  <1>1. /\ pc[c] = "check" /\ call[c] \in Call /\ KindFits("check", call[c])
        /\ PeriodKnown("check", call[c]) /\ p \in Position
        /\ UNCHANGED <<positions, settlements, ledger, counters>>
        /\ Works(pc[c])
    BY CallKnows DEF Check, At, Call, Works
  <1>2. CASE Abort(c)
    BY <1>1, <1>2, AbortStep
  <1>3. CASE ToOpen(c, call[c].through)
    <2>1. PICK t \in Time :
              /\ SettledTo(p, t)
              /\ Remember(c, "open", [call[c] EXCEPT !.from = t, !.through = call[c].through])
      BY <1>3 DEF ToOpen
    <2> DEFINE m == [call[c] EXCEPT !.from = t, !.through = call[c].through]
    <2>2. m \in Call /\ m.kind = call[c].kind /\ m.key = call[c].key /\ m.position = p /\ m.from = t
      BY <1>1 DEF Call
    <2>3. Remember(c, "open", m)
      BY <2>1
    <2> HIDE DEF m
    <2>4. "open" \in Labels
      BY DEF Labels, TakesConnection
    <2>5. KindFits("open", m)
      BY <1>1, <2>2 DEF KindFits, Processing
    <2>6. PeriodKnown("open", m) /\ RequestKnown("open", m)
      BY <1>1, <2>1, <2>2 DEF PeriodKnown, RequestKnown, Processing
    <2>7. Moves(c, "open", m)
      BY <2>2, <2>3, <2>4, MoveSteps DEF IInv
    <2> QED
      BY <1>1, <2>2, <2>4, <2>5, <2>6, <2>7, ReadingStep
  <1> QED
    BY <1>2, <1>3 DEF Check

-----------------------------------------------------------------------------
(* Settlements *)

\* Where a processed settlement takes its call, once the position has nothing unpaid.
LEMMA ProcessedLeads ==
  ASSUME IInv, NEW c \in Caller, pc[c] \in Processing, Processed(c)
  PROVE  \E label \in {"check", "change", "next", "idle"}, m \in Call :
             /\ Moves(c, label, m) /\ KindFits(label, m)
             /\ label \in {"check", "change"} => m = call[c] /\ m.kind # "retry"
  <1>1. /\ call[c] \in Call /\ KindFits(pc[c], call[c])
        /\ {"check", "change", "next", "idle"} \subseteq Labels
    BY CallKnows, LabelTypes DEF Labels, TakesConnection
  <1>2. CASE call[c].kind # "retry" /\ ~call[c].fresh
    <2>1. Proceed(c, "check")
      BY <1>2 DEF Processed
    <2>2. Moves(c, "check", call[c])
      BY <1>1, <2>1, MoveSteps DEF IInv
    <2>3. KindFits("check", call[c])
      BY <1>1, <1>2 DEF KindFits, Processing
    <2> QED
      BY <1>1, <1>2, <2>2, <2>3
  <1>3. CASE ~(call[c].kind # "retry" /\ ~call[c].fresh)
    <2>1. Settled(c)
      BY <1>3 DEF Processed
    <2>2. CASE call[c].kind \in Changes /\ Proceed(c, "change")
      <3>1. Moves(c, "change", call[c])
        BY <1>1, <2>2, MoveSteps DEF IInv
      <3>2. KindFits("change", call[c]) /\ call[c].kind # "retry"
        BY <1>1, <2>2 DEF KindFits, Processing, Changes
      <3> QED
        BY <1>1, <3>1, <3>2
    <2>3. CASE call[c].kind = "daily" /\ Proceed(c, "next")
      <3>1. Moves(c, "next", call[c])
        BY <1>1, <2>3, MoveSteps DEF IInv
      <3>2. KindFits("next", call[c])
        BY <1>1, <2>3 DEF KindFits, Processing
      <3> QED
        BY <1>1, <3>1, <3>2
    <2>4. CASE Finish(c)
      <3>1. Moves(c, "idle", Idle)
        BY <2>4, FinishKnows, MoveSteps DEF IInv, Finish
      <3> QED
        BY <3>1, FinishKnows
    <2> QED
      BY <2>1, <2>2, <2>3, <2>4, SettledCases
  <1> QED
    BY <1>2, <1>3

\* A step of the call at work on a settlement.
LEMMA SettlingStep ==
  ASSUME IInv, NEW c \in Caller, NEW label \in Labels, NEW m \in Call,
         Moves(c, label, m), KindFits(label, m), PeriodKnown(label, m)', RequestKnown(label, m)',
         UNCHANGED <<positions, ledger, counters>>, RowsType',
         Works(pc[c]),
         SettlementsStay, PeriodsTile', RowsSound'
  PROVE  IInv'
  <1>1. Exclusive' /\ CallsFit' /\ CallsKnow'
    BY CallsStep
  <1>2. TypeOK'
    BY TypeParts DEF TypeOK, RowsType, Moves
  <1>3. BooksKept'
    BY BooksStay DEF IInv, positions, ledger
  <1> QED
    BY <1>1, <1>2, <1>3 DEF IInv

\* A settlement that is there gets on, or fails, without a paid one becoming unpaid.
SettlementsGetOn ==
    /\ \A p \in Position : Existing(p)' = Existing(p)
    /\ \A p \in Position : \A w \in Existing(p) : Unpaid(p, w)' => Unpaid(p, w)
    /\ \A p \in Position : \A w \in Window :
          /\ settlement'[p][w] = "LEDGER_POSTED" => profit'[p][w] = "some"
          /\ settlement'[p][w] = "CALCULATED" => profit'[p][w] # "none"

LEMMA GetOnSound ==
  ASSUME IInv, SettlementsGetOn, UNCHANGED <<positions, ledger>>
  PROVE  SettlementsStay /\ PeriodsTile' /\ RowsSound'
  <1>1. SettlementsStay
    BY DEF SettlementsStay, SettlementsGetOn
  <1>2. PeriodsTile'
    BY DEF IInv, PeriodsTile, SettlementsGetOn, positions
  <1>3. \A p \in Position : \A w \in Window : IsLatest(p, w)' <=> IsLatest(p, w)
    BY DEF SettlementsGetOn, IsLatest
  <1>4. RowsSound'
    <2> SUFFICES ASSUME NEW p \in Position
                 PROVE  /\ position[p] \notin Running => Existing(p)' = {} /\ principal[p] = 0
                        /\ position[p] = "absent" => journal[StartOf(p)] = 0
                        /\ position[p] \notin Running => event[StartOf(p)] = 0
                        /\ \A w \in Existing(p)' : Unpaid(p, w)' => IsLatest(p, w)'
      BY DEF RowsSound, SettlementsGetOn, StartOf, positions, ledger
    <2>1. \A w \in Existing(p) : w \in Window
      BY DEF Existing
    <2> QED
      BY <1>3, <2>1 DEF IInv, RowsSound, SettlementsGetOn
  <1> QED
    BY <1>1, <1>2, <1>4

\* The end of a settlement that leaves its period paid.
LEMMA PaidStep ==
  ASSUME IInv, NEW c \in Caller, pc[c] \in Processing, Processed(c),
         UNCHANGED <<positions, ledger, counters>>, RowsType', SettlementsGetOn,
         NEW p, NEW w, p = call[c].position, w = call[c].window, ~Unpaid(p, w)'
  PROVE  IInv'
  <1>1. PICK label \in {"check", "change", "next", "idle"}, m \in Call :
             /\ Moves(c, label, m) /\ KindFits(label, m)
             /\ label \in {"check", "change"} => m = call[c] /\ m.kind # "retry"
    BY ProcessedLeads
  <1>2. /\ p \in Position /\ w \in Window /\ PeriodKnown(pc[c], call[c])
        /\ Works(pc[c]) /\ label \in Labels
    BY CallKnows, LabelTypes DEF Call, Works, Processing, Labels, TakesConnection
  <1>3. label \in {"check", "change"} => position[p] \in Running /\ AllPaid(p)'
    <2> SUFFICES ASSUME label \in {"check", "change"} PROVE position[p] \in Running /\ AllPaid(p)'
      OBVIOUS
    <2>1. IsLatest(p, w) /\ position[p] \in Running
      BY <1>1, <1>2 DEF PeriodKnown
    <2>2. ASSUME NEW v \in Existing(p), Unpaid(p, v)' PROVE FALSE
      <3>1. IsLatest(p, v) /\ v \in Window
        BY <1>2, <2>2 DEF IInv, RowsSound, SettlementsGetOn, Existing
      <3>2. w \in Existing(p) /\ v[2] <= w[2] /\ w[2] <= v[2]
        BY <2>1, <3>1 DEF IsLatest
      <3>3. v = w \/ v[2] <= w[1] \/ w[2] <= v[1]
        BY <1>2, <3>2 DEF IInv, PeriodsTile
      <3>4. v = w
        BY <1>2, <3>1, <3>2, <3>3 DEF Window, Time
      <3> QED
        BY <2>2, <3>4
    <2> QED
      BY <1>2, <2>1, <2>2 DEF AllPaid, SettlementsGetOn
  <1>4. PeriodKnown(label, m)' /\ RequestKnown(label, m)'
    BY <1>1, <1>3 DEF PeriodKnown, RequestKnown, Processing, positions
  <1> QED
    BY <1>1, <1>2, <1>4, GetOnSound, SettlingStep

\* A step from one label of a settlement to another.
LEMMA WithinStep ==
  ASSUME IInv, NEW c \in Caller, pc[c] \in Processing, NEW label \in Processing, Proceed(c, label),
         UNCHANGED <<positions, ledger, counters>>, RowsType', SettlementsGetOn,
         label = "credit" => profit'[call[c].position][call[c].window] # "none",
         label = "stamp" => profit'[call[c].position][call[c].window] = "some"
  PROVE  IInv'
  <1> SUFFICES ASSUME NEW m, m = call[c], NEW p, p = m.position, NEW w, w = m.window PROVE IInv'
    OBVIOUS
  <1>1. /\ m \in Call /\ label \in Labels /\ p \in Position /\ w \in Window
        /\ PeriodKnown(pc[c], m) /\ KindFits(pc[c], m)
        /\ Works(pc[c])
    BY CallKnows, LabelTypes DEF Call, Works, Processing
  <1>2. Moves(c, label, m)
    BY <1>1, MoveSteps DEF IInv
  <1>3. KindFits(label, m)
    BY <1>1 DEF KindFits, Processing
  <1>4. IsLatest(p, w)' <=> IsLatest(p, w)
    BY <1>1 DEF SettlementsGetOn, IsLatest
  <1>5. PeriodKnown(label, m)'
    <2>1. w \in Existing(p)'
      BY <1>1 DEF PeriodKnown, SettlementsGetOn
    <2>2. m.kind # "retry" => IsLatest(p, w)' /\ position'[p] \in Running
      BY <1>1, <1>4 DEF PeriodKnown, positions
    <2> QED
      BY <2>1, <2>2 DEF PeriodKnown, Processing
  <1>6. RequestKnown(label, m)'
    BY DEF RequestKnown, Processing
  <1> QED
    BY <1>1, <1>2, <1>3, <1>5, <1>6, GetOnSound, SettlingStep

LEMMA NothingWritten ==
  ASSUME IInv, UNCHANGED <<positions, settlements, ledger, counters>>
  PROVE  RowsType' /\ SettlementsGetOn /\ UNCHANGED <<positions, ledger, counters>>
  <1>1. RowsType'
    BY TypeParts DEF IInv, RowsType, positions, settlements, ledger, counters
  <1>2. SettlementsGetOn
    BY DEF IInv, RowsSound, SettlementsGetOn, Existing, Unpaid, settlements
  <1> QED
    BY <1>1, <1>2

LEMMA AttemptStep ==
  ASSUME IInv, NEW c \in Caller, Attempt(c) PROVE IInv'
  <1> SUFFICES ASSUME NEW p, p = call[c].position, NEW w, w = call[c].window PROVE IInv'
    OBVIOUS
  <1>1. /\ pc[c] = "attempt" /\ pc[c] \in Processing /\ p \in Position /\ w \in Window
        /\ UNCHANGED <<positions, settlements, ledger, counters>>
    BY CallKnows DEF Attempt, At, Call, Processing
  <1>2. CASE settlement[p][w] = "LEDGER_POSTED" /\ Processed(c)
    <2>1. ~Unpaid(p, w)'
      BY <1>1, <1>2 DEF IInv, RowsSound, Unpaid, settlements
    <2> QED
      BY <1>1, <1>2, <2>1, NothingWritten, PaidStep
  <1>3. CASE Proceed(c, "calculate")
    BY <1>1, <1>3, NothingWritten, WithinStep DEF Processing
  <1> QED
    BY <1>2, <1>3 DEF Attempt

\* One settlement that is there gets a status and a sum.
Writes(p, w, s, x) ==
    /\ settlement' = [settlement EXCEPT ![p][w] = s]
    /\ profit' = [profit EXCEPT ![p][w] = x]
    /\ s \in {"CALC_PENDING", "CALCULATED", "LEDGER_POSTED", "FAILED"}
    /\ x \in {"none", "zero", "some"}
    /\ s = "LEDGER_POSTED" => x = "some"
    /\ s = "CALCULATED" => x # "none"
    /\ profit[p][w] = "none" \/ x = profit[p][w]
    /\ settlement[p][w] = "LEDGER_POSTED" => s = "LEDGER_POSTED" /\ x = "some"

LEMMA WriteSettlement ==
  ASSUME IInv, NEW p \in Position, NEW w \in Existing(p),
         NEW s, NEW x, Writes(p, w, s, x),
         paid' \in SUBSET (Position \X Window), UNCHANGED <<positions, ledger, counters>>
  PROVE  RowsType' /\ SettlementsGetOn
  <1>1. w \in Window /\ settlement[p][w] # "absent"
    BY DEF Existing
  <1>2. RowsType'
    BY <1>1, TypeParts DEF Writes, IInv, RowsType, positions, ledger, counters
  <1>3. \A q \in Position, v \in Window :
           /\ settlement'[q][v] = IF q = p /\ v = w THEN s ELSE settlement[q][v]
           /\ profit'[q][v] = IF q = p /\ v = w THEN x ELSE profit[q][v]
    BY <1>1 DEF Writes, IInv, TypeOK
  <1>4. \A q \in Position : Existing(q)' = Existing(q)
    BY <1>1, <1>3 DEF Writes, Existing
  <1>5. \A q \in Position : \A v \in Existing(q) : Unpaid(q, v)' => Unpaid(q, v)
    <2> SUFFICES ASSUME NEW q \in Position, NEW v \in Existing(q), Unpaid(q, v)' PROVE Unpaid(q, v)
      OBVIOUS
    <2>1. v \in Window
      BY DEF Existing
    <2> QED
      BY <1>3, <2>1 DEF Writes, Unpaid
  <1>6. \A q \in Position : \A v \in Window :
          /\ settlement'[q][v] = "LEDGER_POSTED" => profit'[q][v] = "some"
          /\ settlement'[q][v] = "CALCULATED" => profit'[q][v] # "none"
    BY <1>3 DEF Writes, IInv, RowsSound
  <1> QED
    BY <1>2, <1>4, <1>5, <1>6 DEF SettlementsGetOn

\* The settlement a call is at.
LEMMA AtSettlement ==
  ASSUME IInv, NEW c \in Caller, pc[c] \in Processing, NEW p, p = call[c].position, NEW w, w = call[c].window
  PROVE  /\ p \in Position /\ w \in Window /\ w \in Existing(p)
         /\ settlement[p][w] \in {"CALC_PENDING", "CALCULATED", "LEDGER_POSTED", "FAILED"}
         /\ profit[p][w] \in {"none", "zero", "some"}
         /\ settlement[p][w] = "LEDGER_POSTED" => profit[p][w] = "some"
         /\ settlement[p][w] = "CALCULATED" => profit[p][w] # "none"
         /\ pc[c] = "credit" => profit[p][w] # "none"
         /\ pc[c] = "stamp" => profit[p][w] = "some"
         /\ paid \in SUBSET (Position \X Window)
         /\ settlement = [settlement EXCEPT ![p][w] = settlement[p][w]]
         /\ profit = [profit EXCEPT ![p][w] = profit[p][w]]
  <1>1. p \in Position /\ w \in Window /\ PeriodKnown(pc[c], call[c])
    BY CallKnows DEF Call
  <1>2. w \in Existing(p) /\ (pc[c] = "credit" => profit[p][w] # "none") /\ (pc[c] = "stamp" => profit[p][w] = "some")
    BY <1>1 DEF PeriodKnown
  <1>3. settlement[p][w] \in {"CALC_PENDING", "CALCULATED", "LEDGER_POSTED", "FAILED"}
    BY <1>1, <1>2 DEF IInv, TypeOK, Existing
  <1>4. /\ settlement[p][w] = "LEDGER_POSTED" => profit[p][w] = "some"
        /\ settlement[p][w] = "CALCULATED" => profit[p][w] # "none"
    BY <1>1 DEF IInv, RowsSound
  <1>5. /\ profit[p][w] \in {"none", "zero", "some"} /\ paid \in SUBSET (Position \X Window)
        /\ settlement = [settlement EXCEPT ![p][w] = settlement[p][w]]
        /\ profit = [profit EXCEPT ![p][w] = profit[p][w]]
    BY <1>1 DEF IInv, TypeOK
  <1> QED
    BY <1>1, <1>2, <1>3, <1>4, <1>5

LEMMA CalculateStep ==
  ASSUME IInv, NEW c \in Caller, Calculate(c) PROVE IInv'
  <1> SUFFICES ASSUME NEW p, p = call[c].position, NEW w, w = call[c].window PROVE IInv'
    OBVIOUS
  <1>1. /\ pc[c] = "calculate" /\ pc[c] \in Processing /\ "credit" \in Processing
        /\ Proceed(c, "credit") /\ UNCHANGED <<positions, paid, ledger, counters>>
    BY DEF Calculate, At, Processing
  <1>2. CASE profit[p][w] # "none" /\ UNCHANGED <<settlement, profit>>
    <2>1. RowsType' /\ SettlementsGetOn
      BY <1>1, <1>2, NothingWritten DEF settlements
    <2>2. profit'[call[c].position][call[c].window] # "none"
      BY <1>2
    <2> QED
      BY <1>1, <2>1, <2>2, WithinStep
  <1>3. CASE /\ profit[p][w] = "none"
             /\ settlement' = [settlement EXCEPT ![p][w] = "CALCULATED"]
             /\ \E x \in {"zero", "some"} : profit' = [profit EXCEPT ![p][w] = x]
    <2>1. PICK x \in {"zero", "some"} : profit' = [profit EXCEPT ![p][w] = x]
      BY <1>3
    <2>2. RowsType' /\ SettlementsGetOn
      <3>1. p \in Position /\ w \in Existing(p) /\ paid' \in SUBSET (Position \X Window)
        BY <1>1, AtSettlement
      <3>2. Writes(p, w, "CALCULATED", x)
        BY <1>1, <1>3, <2>1, AtSettlement DEF Writes
      <3> QED
        BY <1>1, <3>1, <3>2, WriteSettlement
    <2>3. profit'[call[c].position][call[c].window] # "none"
      BY <1>1, <2>1, AtSettlement DEF IInv, TypeOK
    <2> QED
      BY <1>1, <2>2, <2>3, WithinStep
  <1> QED
    BY <1>2, <1>3 DEF Calculate

LEMMA CreditStep ==
  ASSUME IInv, NEW c \in Caller, Credit(c) PROVE IInv'
  <1> SUFFICES ASSUME NEW p, p = call[c].position, NEW w, w = call[c].window PROVE IInv'
    OBVIOUS
  <1>1. /\ pc[c] = "credit" /\ pc[c] \in Processing /\ "stamp" \in Processing
        /\ UNCHANGED <<positions, settlement, profit, ledger, counters>>
    BY DEF Credit, At, Processing
  <1>2. CASE profit[p][w] = "some" /\ paid' = paid \cup {<<p, w>>} /\ Proceed(c, "stamp")
    <2>1. /\ paid' \in SUBSET (Position \X Window)
          /\ settlement' = [settlement EXCEPT ![p][w] = settlement[p][w]]
          /\ profit' = [profit EXCEPT ![p][w] = profit[p][w]]
      BY <1>1, <1>2, AtSettlement
    <2>2. RowsType' /\ SettlementsGetOn
      <3> SUFFICES ASSUME NEW s, s = settlement[p][w] PROVE RowsType' /\ SettlementsGetOn
        OBVIOUS
      <3>1. p \in Position /\ w \in Existing(p)
        BY <1>1, AtSettlement
      <3>2. Writes(p, w, s, "some")
        BY <1>1, <1>2, <2>1, AtSettlement DEF Writes
      <3> QED
        BY <1>1, <2>1, <3>1, <3>2, WriteSettlement
    <2>3. profit'[call[c].position][call[c].window] = "some"
      BY <1>1, <1>2
    <2> QED
      BY <1>1, <1>2, <2>2, <2>3, WithinStep
  <1>3. CASE profit[p][w] # "some" /\ Processed(c) /\ UNCHANGED paid
    <2>1. UNCHANGED <<positions, settlements, ledger, counters>>
      BY <1>1, <1>3 DEF settlements
    <2>2. ~Unpaid(p, w)'
      BY <1>1, <1>3, AtSettlement DEF Unpaid
    <2> QED
      BY <1>1, <1>3, <2>1, <2>2, NothingWritten, PaidStep
  <1> QED
    BY <1>2, <1>3 DEF Credit

LEMMA StampStep ==
  ASSUME IInv, NEW c \in Caller, Stamp(c) PROVE IInv'
  <1> SUFFICES ASSUME NEW p, p = call[c].position, NEW w, w = call[c].window PROVE IInv'
    OBVIOUS
  <1>1. /\ pc[c] = "stamp" /\ pc[c] \in Processing
        /\ settlement' = [settlement EXCEPT ![p][w] = "LEDGER_POSTED"]
        /\ Processed(c) /\ UNCHANGED <<positions, profit, paid, ledger, counters>>
    BY DEF Stamp, At, Processing
  <1>2. profit[p][w] = "some" /\ profit' = [profit EXCEPT ![p][w] = profit[p][w]]
    BY <1>1, AtSettlement
  <1>3. RowsType' /\ SettlementsGetOn
    <2>1. p \in Position /\ w \in Existing(p) /\ paid' \in SUBSET (Position \X Window)
      BY <1>1, AtSettlement
    <2>2. Writes(p, w, "LEDGER_POSTED", "some")
      BY <1>1, <1>2, AtSettlement DEF Writes
    <2> QED
      BY <1>1, <1>2, <2>1, <2>2, WriteSettlement
  <1>4. settlement'[p][w] = "LEDGER_POSTED" /\ profit'[p][w] = "some"
    BY <1>1, <1>2, AtSettlement DEF IInv, TypeOK
  <1>5. ~Unpaid(p, w)'
    BY <1>4 DEF Unpaid
  <1> QED
    BY <1>1, <1>3, <1>5, PaidStep

\* The end of a settlement that failed.
LEMMA FailedStep ==
  ASSUME IInv, NEW c \in Caller, pc[c] = "failed", Abort(c),
         UNCHANGED <<positions, ledger, counters>>, RowsType', SettlementsGetOn
  PROVE  IInv'
  <1>1. /\ call[c] \in Call /\ "next" \in Labels /\ "idle" \in Labels
        /\ Works(pc[c])
    BY CallKnows, LabelTypes DEF Works
  <1>2. CASE call[c].kind = "daily" /\ Proceed(c, "next")
    <2> SUFFICES ASSUME NEW m, m = call[c] PROVE IInv'
      OBVIOUS
    <2>1. Moves(c, "next", m)
      BY <1>1, <1>2, MoveSteps DEF IInv
    <2>2. KindFits("next", m)
      BY <1>2 DEF KindFits, Processing
    <2>3. PeriodKnown("next", m)' /\ RequestKnown("next", m)'
      BY DEF PeriodKnown, RequestKnown, Processing
    <2> QED
      BY <1>1, <2>1, <2>2, <2>3, GetOnSound, SettlingStep
  <1>3. CASE Finish(c)
    <2>1. Moves(c, "idle", Idle)
      BY <1>1, <1>3, FinishKnows, MoveSteps DEF IInv, Finish
    <2>2. PeriodKnown("idle", Idle)' /\ RequestKnown("idle", Idle)'
      BY DEF PeriodKnown, RequestKnown, Processing
    <2> QED
      BY <1>1, <2>1, <2>2, FinishKnows, GetOnSound, SettlingStep
  <1> QED
    BY <1>2, <1>3, AbortCases

LEMMA MarkFailedStep ==
  ASSUME IInv, NEW c \in Caller, MarkFailed(c) PROVE IInv'
  <1> SUFFICES ASSUME NEW p, p = call[c].position, NEW w, w = call[c].window PROVE IInv'
    OBVIOUS
  <1>1. /\ pc[c] = "failed" /\ pc[c] \in Processing
        /\ Abort(c) /\ UNCHANGED <<positions, profit, paid, ledger, counters>>
    BY DEF MarkFailed, Processing
  <1>2. CASE settlement' = [settlement EXCEPT ![p][w] = IF @ = "LEDGER_POSTED" THEN @ ELSE "FAILED"]
    <2> SUFFICES ASSUME NEW s, s = IF settlement[p][w] = "LEDGER_POSTED" THEN settlement[p][w] ELSE "FAILED",
                        NEW x, x = profit[p][w]
                 PROVE  IInv'
      OBVIOUS
    <2>1. settlement' = [settlement EXCEPT ![p][w] = s]
      BY <1>1, <1>2, AtSettlement DEF IInv, TypeOK
    <2>2. Writes(p, w, s, x)
      BY <1>1, <2>1, AtSettlement DEF Writes
    <2>3. p \in Position /\ w \in Existing(p) /\ paid' \in SUBSET (Position \X Window)
      BY <1>1, AtSettlement
    <2>4. RowsType' /\ SettlementsGetOn
      BY <1>1, <2>1, <2>2, <2>3, WriteSettlement
    <2> QED
      BY <1>1, <2>4, FailedStep
  <1>3. CASE UNCHANGED settlement
    <2>1. RowsType' /\ SettlementsGetOn
      BY <1>1, <1>3, NothingWritten DEF settlements
    <2> QED
      BY <1>1, <2>1, FailedStep
  <1> QED
    BY <1>2, <1>3 DEF MarkFailed

LEMMA OpenPeriodStep ==
  ASSUME IInv, NEW c \in Caller, OpenPeriod(c) PROVE IInv'
  <1> SUFFICES ASSUME NEW p, p = call[c].position, NEW t, t = call[c].from,
                      NEW w, w = <<call[c].from, call[c].through>>
               PROVE  IInv'
    OBVIOUS
  <1>1. /\ pc[c] = "open" /\ call[c] \in Call /\ KindFits("open", call[c])
        /\ PeriodKnown("open", call[c])
        /\ p \in Position /\ t \in Time
        /\ UNCHANGED <<positions, profit, paid, ledger, counters>>
        /\ Works(pc[c])
    BY CallKnows DEF OpenPeriod, At, Call, Works
  <1>2. position[p] \in Running /\ SettledTo(p, t) /\ AllPaid(p)
    BY <1>1 DEF PeriodKnown
  <1>3. CASE w \notin Window /\ Settled(c) /\ UNCHANGED settlement
    BY <1>1, <1>2, <1>3, SettledStep DEF settlements
  <1>4. CASE /\ w \in Window
             /\ settlement' = [settlement EXCEPT ![p][w] = IF @ = "absent" THEN "CALC_PENDING" ELSE @]
             /\ Remember(c, "attempt", [call[c] EXCEPT !.window = w, !.fresh = TRUE])
    <2> SUFFICES ASSUME NEW m, m = [call[c] EXCEPT !.window = w, !.fresh = TRUE] PROVE IInv'
      OBVIOUS
    <2>1. /\ m \in Call /\ m.kind = call[c].kind /\ m.key = call[c].key
          /\ m.position = p /\ m.window = w
      BY <1>1, <1>4 DEF Call
    <2>2. "attempt" \in Labels /\ w[1] = t /\ t < w[2] /\ w[2] \in Time
      BY <1>1, <1>4 DEF Labels, TakesConnection, Window
    <2>3. Moves(c, "attempt", m)
      BY <1>4, <2>1, <2>2, MoveSteps DEF IInv
    <2>4. KindFits("attempt", m)
      BY <1>1, <2>1 DEF KindFits, Processing
    <2>5. \A v \in Existing(p) : v[2] <= t /\ v[2] \in Time /\ v[1] \in Time
      BY <1>2 DEF SettledTo, IsLatest, Existing, Window
    <2>6. w \notin Existing(p)
      BY <1>1, <2>2, <2>5 DEF Time
    <2>7. \A q \in Position, v \in Window :
             settlement'[q][v] = IF q = p /\ v = w THEN "CALC_PENDING" ELSE settlement[q][v]
      BY <1>1, <1>4, <2>6 DEF Existing, IInv, TypeOK
    <2>8. \A q \in Position : Existing(q)' = IF q = p THEN Existing(q) \cup {w} ELSE Existing(q)
      <3> SUFFICES ASSUME NEW q \in Position
                   PROVE  Existing(q)' = IF q = p THEN Existing(q) \cup {w} ELSE Existing(q)
        OBVIOUS
      <3>1. Existing(q)' = {v \in Window : settlement'[q][v] # "absent"}
        BY DEF Existing
      <3>2. \A v \in Window : settlement'[q][v] # "absent"
                                  <=> settlement[q][v] # "absent" \/ (q = p /\ v = w)
        BY <2>7
      <3> QED
        BY <1>4, <3>1, <3>2 DEF Existing
    <2>9. IsLatest(p, w)'
      BY <1>1, <2>2, <2>5, <2>8 DEF IsLatest, Time
    <2>10. PeriodsTile'
      <3> SUFFICES ASSUME NEW q \in Position, NEW u \in Existing(q)', NEW v \in Existing(q)'
                   PROVE  /\ u = v \/ u[2] <= v[1] \/ v[2] <= u[1]
                          /\ v[1] = started[q] \/ \E x \in Existing(q)' : x[2] = v[1]
        BY <1>1 DEF PeriodsTile, positions
      <3>1. CASE q # p
        <4>1. Existing(q)' = Existing(q)
          BY <2>8, <3>1
        <4>2. \A x, y \in Existing(q) : x = y \/ x[2] <= y[1] \/ y[2] <= x[1]
          BY DEF IInv, PeriodsTile
        <4>3. \A y \in Existing(q) : y[1] = started[q] \/ \E x \in Existing(q) : x[2] = y[1]
          BY DEF IInv, PeriodsTile
        <4>4. u \in Existing(q) /\ v \in Existing(q)
          BY <4>1
        <4>5. u = v \/ u[2] <= v[1] \/ v[2] <= u[1]
          BY <4>2, <4>4
        <4>6. v[1] = started[q] \/ \E x \in Existing(q) : x[2] = v[1]
          BY <4>3, <4>4
        <4> QED
          BY <4>1, <4>5, <4>6
      <3>2. CASE q = p
        <4>1. u = v \/ u[2] <= v[1] \/ v[2] <= u[1]
          BY <2>2, <2>5, <2>8, <3>2 DEF IInv, PeriodsTile
        <4>2. CASE v = w
          BY <1>2, <2>2, <2>8, <3>2, <4>2 DEF SettledTo, IsLatest
        <4>3. CASE v # w
          <5>1. v \in Existing(q)
            BY <2>8, <3>2, <4>3
          <5>2. v[1] = started[q] \/ \E x \in Existing(q) : x[2] = v[1]
            BY <5>1 DEF IInv, PeriodsTile
          <5>3. v[1] = started[q] \/ \E x \in Existing(q)' : x[2] = v[1]
            BY <2>8, <3>2, <5>2
          <5> QED
            BY <4>1, <5>3
        <4> QED
          BY <4>1, <4>2, <4>3
      <3> QED
        BY <3>1, <3>2
    <2>11. RowsSound'
      <3> SUFFICES ASSUME NEW q \in Position
                   PROVE  /\ position[q] \notin Running => Existing(q)' = {} /\ principal[q] = 0
                          /\ position[q] = "absent" => journal[StartOf(q)] = 0
                          /\ position[q] \notin Running => event[StartOf(q)] = 0
                          /\ \A v \in Window :
                                /\ settlement'[q][v] = "LEDGER_POSTED" => profit[q][v] = "some"
                                /\ settlement'[q][v] = "CALCULATED" => profit[q][v] # "none"
                          /\ \A v \in Existing(q)' : Unpaid(q, v)' => IsLatest(q, v)'
        BY <1>1 DEF RowsSound, StartOf, positions, ledger
      <3>1. position[q] \notin Running => Existing(q)' = {} /\ principal[q] = 0
        BY <1>2, <2>8 DEF IInv, RowsSound
      <3>2. \A v \in Window :
                /\ settlement'[q][v] = "LEDGER_POSTED" => profit[q][v] = "some"
                /\ settlement'[q][v] = "CALCULATED" => profit[q][v] # "none"
        BY <2>7 DEF IInv, RowsSound
      <3>3. ASSUME NEW v \in Existing(q)', Unpaid(q, v)' PROVE IsLatest(q, v)'
        <4>1. CASE q = p /\ v = w
          BY <2>9, <4>1
        <4>2. CASE ~(q = p /\ v = w)
          <5>1. v \in Existing(q) /\ v \in Window
            BY <2>8, <3>3, <4>2 DEF Existing
          <5>2. Unpaid(q, v)
            BY <1>1, <2>7, <3>3, <4>2, <5>1 DEF Unpaid
          <5>3. q # p
            BY <1>2, <5>1, <5>2 DEF AllPaid
          <5>4. IsLatest(q, v)
            BY <5>1, <5>2 DEF IInv, RowsSound
          <5> QED
            BY <2>8, <5>3, <5>4 DEF IsLatest
        <4> QED
          BY <4>1, <4>2
      <3> QED
        BY <3>1, <3>2, <3>3 DEF IInv, RowsSound
    <2>12. PeriodKnown("attempt", m)' /\ RequestKnown("attempt", m)'
      BY <1>1, <1>2, <2>1, <2>8, <2>9 DEF PeriodKnown, RequestKnown, Processing, positions
    <2>13. RowsType'
      <3>1. settlement' \in [Position -> [Window ->
                          {"absent", "CALC_PENDING", "CALCULATED", "LEDGER_POSTED", "FAILED"}]]
        BY <1>1, <1>4 DEF IInv, TypeOK
      <3> QED
        BY <1>1, <3>1, TypeParts DEF IInv, RowsType, positions, ledger, counters
    <2>14. SettlementsStay
      BY <2>8 DEF SettlementsStay
    <2> QED
      BY <1>1, <2>1, <2>2, <2>3, <2>4, <2>10, <2>11, <2>12, <2>13, <2>14, SettlingStep
  <1> QED
    BY <1>3, <1>4 DEF OpenPeriod

-----------------------------------------------------------------------------
(* Positions *)

\* A step of the call at work on a position.
LEMMA PositionStep ==
  ASSUME IInv, NEW c \in Caller, NEW label \in Labels, NEW m \in Call,
         Moves(c, label, m), KindFits(label, m), PeriodKnown(label, m)', RequestKnown(label, m)',
         UNCHANGED settlements, RowsType', Works(pc[c]),
         PeriodsTile', RowsSound', BooksKept'
  PROVE  IInv'
  <1>1. SettlementsStay
    BY DEF SettlementsStay, Existing, settlements
  <1>2. Exclusive' /\ CallsFit' /\ CallsKnow'
    BY <1>1, CallsStep
  <1>3. TypeOK'
    BY TypeParts DEF TypeOK, RowsType, Moves
  <1> QED
    BY <1>2, <1>3 DEF IInv

\* What a post writes.
LEMMA PostEffects ==
  ASSUME IInv, NEW r \in Request, NEW amount \in Nat, Post(r, amount)
  PROVE  /\ journal[r] \in {0, amount}
         /\ journal' \in [Request -> Nat] /\ locked' \in [Position -> Int]
         /\ \A s \in Request : journal'[s] = IF s = r THEN amount ELSE journal[s]
         /\ \A q \in Position :
               locked'[q] = IF q = r[1] /\ journal[r] = 0 THEN locked[q] + Signed(r[2], amount)
                                                         ELSE locked[q]
  <1>1. r[1] \in Position /\ Signed(r[2], amount) \in Int
    BY DEF Request, Signed
  <1>2. journal \in [Request -> Nat] /\ locked \in [Position -> Int]
    BY DEF IInv, TypeOK
  <1> QED
    BY <1>1, <1>2 DEF Post

LEMMA InsertPositionStep ==
  ASSUME IInv, NEW c \in Caller, InsertPosition(c) PROVE IInv'
  <1> SUFFICES ASSUME NEW m, m = call[c], NEW p, p = m.position PROVE IInv'
    OBVIOUS
  <1>1. /\ pc[c] = "insert" /\ m \in Call /\ KindFits("insert", m) /\ p \in Position
        /\ "lock_funds" \in Labels
        /\ Works(pc[c])
        /\ UNCHANGED <<principal, started, ended, event, settlements, ledger, counters>>
    BY CallKnows DEF InsertPosition, At, Call, Works, Labels, TakesConnection
  <1>2. KindFits("lock_funds", m)
    BY <1>1 DEF KindFits, Processing
  <1>3. CASE /\ position[p] = "absent"
             /\ position' = [position EXCEPT ![p] = "START_PENDING"]
             /\ Proceed(c, "lock_funds")
    <2>1. Moves(c, "lock_funds", m)
      BY <1>1, <1>3, MoveSteps DEF IInv
    <2>2. \A q \in Position : position'[q] = IF q = p THEN "START_PENDING" ELSE position[q]
      BY <1>3 DEF IInv, TypeOK
    <2>3. PeriodKnown("lock_funds", m)' /\ RequestKnown("lock_funds", m)'
      BY <1>1, <2>2 DEF PeriodKnown, RequestKnown, Processing
    <2>4. RowsType'
      <3>1. position' \in [Position -> {"absent", "START_PENDING", "ACTIVE", "ENDED"}]
        BY <1>1, <1>3 DEF IInv, TypeOK
      <3>2. \A q \in Position : position'[q] = "ACTIVE" => principal[q] > 0
        BY <2>2 DEF IInv, TypeOK
      <3> QED
        BY <1>1, <3>1, <3>2, TypeParts DEF IInv, RowsType, settlements, ledger, counters
    <2>5. PeriodsTile'
      BY <1>1 DEF IInv, PeriodsTile, Existing, settlements
    <2>6. RowsSound'
      <3> SUFFICES ASSUME NEW q \in Position
                   PROVE  /\ position'[q] \notin Running =>
                                Existing(q) = {} /\ principal[q] = 0 /\ event[StartOf(q)] = 0
                          /\ position'[q] = "absent" => journal[StartOf(q)] = 0
        BY <1>1 DEF IInv, RowsSound, Existing, Unpaid, IsLatest, StartOf, settlements, ledger
      <3>1. position'[q] = position[q] \/ (position[q] = "absent" /\ position'[q] = "START_PENDING")
        BY <1>3, <2>2
      <3> QED
        BY <3>1 DEF IInv, RowsSound, Running
    <2>7. BooksKept'
      BY <1>1, BooksStay DEF IInv, ledger
    <2> QED
      BY <1>1, <1>2, <2>1, <2>3, <2>4, <2>5, <2>6, <2>7, PositionStep
  <1>4. CASE position[p] = "START_PENDING" /\ Proceed(c, "lock_funds") /\ UNCHANGED position
    <2>1. UNCHANGED <<positions, settlements, ledger, counters>>
      BY <1>1, <1>4 DEF positions
    <2>2. PeriodKnown("lock_funds", call[c]) /\ RequestKnown("lock_funds", call[c])
      BY <1>4 DEF PeriodKnown, RequestKnown, Processing
    <2> QED
      BY <1>1, <1>2, <1>4, <2>1, <2>2, ProceedStep
  <1>5. CASE Finish(c) /\ UNCHANGED position
    <2>1. UNCHANGED <<positions, settlements, ledger, counters>>
      BY <1>1, <1>5 DEF positions
    <2> QED
      BY <1>1, <1>5, <2>1, FinishStep
  <1> QED
    BY <1>3, <1>4, <1>5 DEF InsertPosition

LEMMA LockFundsStep ==
  ASSUME IInv, NEW c \in Caller, LockFunds(c) PROVE IInv'
  <1> SUFFICES ASSUME NEW m, m = call[c], NEW p, p = m.position PROVE IInv'
    OBVIOUS
  <1>1. /\ pc[c] = "lock_funds" /\ m \in Call /\ KindFits("lock_funds", m) /\ p \in Position
        /\ RequestKnown("lock_funds", m)
        /\ "activate" \in Labels
        /\ Works(pc[c])
        /\ Post(RequestOf(c), Requested[p]) /\ Proceed(c, "activate")
        /\ UNCHANGED <<positions, settlements, counters>>
    BY CallKnows DEF LockFunds, At, Call, Works, Labels, TakesConnection
  <1>2. position[p] = "START_PENDING" /\ RequestOf(c) = StartOf(p) /\ StartOf(p) \in Request
        /\ StartOf(p)[1] = p /\ StartOf(p)[2] = "start"
    BY <1>1, RequestTypes DEF RequestKnown, KindFits, RequestOf, StartOf
  <1>3. KindFits("activate", m) /\ Moves(c, "activate", m)
    BY <1>1, MoveSteps DEF IInv, KindFits, Processing
  <1>4. /\ Requested[p] \in Nat /\ Signed("start", Requested[p]) = Requested[p]
        /\ Post(StartOf(p), Requested[p])
    BY <1>1, <1>2 DEF Signed
  <1>5. /\ journal[StartOf(p)] \in {0, Requested[p]}
        /\ journal' \in [Request -> Nat] /\ locked' \in [Position -> Int]
        /\ \A r \in Request : journal'[r] = IF r = StartOf(p) THEN Requested[p] ELSE journal[r]
        /\ \A q \in Position :
              locked'[q] = IF q = p /\ journal[StartOf(p)] = 0 THEN locked[q] + Requested[p]
                                                               ELSE locked[q]
    BY <1>2, <1>4, PostEffects
  <1>6. \A q \in Position : q # p => StartOf(q) # StartOf(p) /\ StartOf(q) \in Request
    BY RequestTypes DEF StartOf
  <1>8. RowsType'
    BY <1>1, <1>5, TypeParts DEF IInv, RowsType, positions, settlements, counters
  <1>9. PeriodsTile'
    BY <1>1 DEF IInv, PeriodsTile, Existing, positions, settlements
  <1>10. RowsSound'
    <2> SUFFICES ASSUME NEW q \in Position, position[q] = "absent" PROVE journal'[StartOf(q)] = 0
      BY <1>1 DEF IInv, RowsSound, Existing, Unpaid, IsLatest, StartOf, positions, settlements
    <2> QED
      BY <1>2, <1>5, <1>6 DEF IInv, RowsSound
  <1>11. BooksKept'
    <2> SUFFICES ASSUME NEW q \in Position PROVE Books(q)'
      BY DEF BooksKept
    <2>1. Books(q) /\ UNCHANGED <<event, principal>>
      BY <1>1 DEF IInv, BooksKept, positions
    <2>2. CASE q # p
      BY <1>2, <1>5, <2>1, <2>2, OtherBooks
    <2>3. CASE q = p /\ journal[StartOf(p)] = 0
      <3>1. /\ Requested[p] # 0 /\ principal[p] \in Int /\ locked[p] \in Int
            /\ journal \in [Request -> Nat]
        BY <1>1 DEF IInv, TypeOK
      <3>2. event[StartOf(p)] = 0
        BY <1>1, <1>2 DEF IInv, RowsSound, Running
      <3>3. locked'[p] = locked[p] + Signed(StartOf(p)[2], Requested[p])
        BY <1>1, <1>2, <1>4, <1>5, <2>3
      <3>4. Books(p)'
        BY <1>1, <1>2, <1>4, <1>5, <2>1, <2>3, <3>1, <3>2, <3>3, PostedBooks
      <3> QED
        BY <2>3, <3>4
    <2>4. CASE q = p /\ journal[StartOf(p)] # 0
      <3>1. \A s \in Request : journal'[s] = journal[s]
        BY <1>5, <2>4
      <3>2. journal' = journal /\ locked' = locked
        BY <1>5, <2>4, <3>1 DEF IInv, TypeOK
      <3>3. BooksKept'
        BY <2>1, <3>2, BooksStay DEF IInv
      <3> QED
        BY <3>3 DEF BooksKept
    <2> QED
      BY <2>2, <2>3, <2>4
  <1>13. PeriodKnown("activate", m)' /\ RequestKnown("activate", m)'
    BY <1>1, <1>2, <1>5 DEF PeriodKnown, RequestKnown, Processing, positions, StartOf
  <1> QED
    BY <1>1, <1>3, <1>8, <1>9, <1>10, <1>11, <1>13, PositionStep

LEMMA ActivateStep ==
  ASSUME IInv, NEW c \in Caller, Activate(c) PROVE IInv'
  <1> SUFFICES ASSUME NEW m, m = call[c], NEW p, p = m.position, NEW r, r = StartOf(p) PROVE IInv'
    OBVIOUS
  <1>1. /\ pc[c] = "activate" /\ m \in Call /\ KindFits("activate", m) /\ p \in Position
        /\ RequestKnown("activate", m)
        /\ Works(pc[c])
        /\ Finish(c)
        /\ UNCHANGED <<settlements, ledger, counters>>
    BY CallKnows DEF Activate, At, Call, Works
  <1>2. /\ position[p] = "START_PENDING" /\ RequestOf(c) = r /\ r \in Request
        /\ journal[r] = Requested[p] /\ Requested[p] \in 1..MaxPrincipal
    BY <1>1, RequestTypes DEF RequestKnown, KindFits, RequestOf, StartOf
  <1>3. /\ position' = [position EXCEPT ![p] = "ACTIVE"]
        /\ principal' = [principal EXCEPT ![p] = Requested[p]]
        /\ started' = [started EXCEPT ![p] = now]
        /\ event' = [event EXCEPT ![r] = Requested[p]]
        /\ ended' = ended
    BY <1>1, <1>2 DEF Activate
  <1>4. Moves(c, "idle", Idle)
    BY <1>1, FinishKnows, MoveSteps DEF IInv, Finish
  <1>5. \A q \in Position :
           /\ position'[q] = IF q = p THEN "ACTIVE" ELSE position[q]
           /\ principal'[q] = IF q = p THEN Requested[p] ELSE principal[q]
           /\ started'[q] = IF q = p THEN now ELSE started[q]
    BY <1>3 DEF IInv, TypeOK
  <1>6. \A s \in Request : event'[s] = IF s = r THEN Requested[p] ELSE event[s]
    BY <1>3 DEF IInv, TypeOK
  <1>8. RowsType'
    <2>1. Requested[p] \in 0..MaxPrincipal /\ Requested[p] \in Nat /\ now \in Time
      BY <1>2 DEF IInv, TypeOK
    <2>2. position' \in [Position -> {"absent", "START_PENDING", "ACTIVE", "ENDED"}]
      BY <1>3 DEF IInv, TypeOK
    <2>3. principal' \in [Position -> 0..MaxPrincipal]
      BY <1>3, <2>1 DEF IInv, TypeOK
    <2>4. started' \in [Position -> Time] /\ ended' \in [Position -> Time]
      BY <1>3, <2>1 DEF IInv, TypeOK
    <2>5. event' \in [Request -> Nat]
      BY <1>3, <2>1 DEF IInv, TypeOK
    <2>6. \A q \in Position : position'[q] = "ACTIVE" => principal'[q] > 0
      BY <1>2, <1>5 DEF IInv, TypeOK
    <2> QED
      BY <1>1, <2>2, <2>3, <2>4, <2>5, <2>6, TypeParts DEF IInv, RowsType, settlements, ledger, counters
  <1>9. Existing(p) = {}
    BY <1>1, <1>2 DEF IInv, RowsSound, Running
  <1>10. PeriodsTile'
    <2> SUFFICES ASSUME NEW q \in Position, NEW v \in Existing(q), NEW w \in Existing(q)
                 PROVE  /\ v = w \/ v[2] <= w[1] \/ w[2] <= v[1]
                        /\ w[1] = started'[q] \/ \E u \in Existing(q) : u[2] = w[1]
      BY <1>1 DEF PeriodsTile, Existing, settlements
    <2>1. q # p /\ started'[q] = started[q]
      BY <1>5, <1>9
    <2> QED
      BY <2>1 DEF IInv, PeriodsTile
  <1>11. RowsSound'
    <2> SUFFICES ASSUME NEW q \in Position
                 PROVE  /\ position'[q] \notin Running =>
                              Existing(q) = {} /\ principal'[q] = 0 /\ event'[StartOf(q)] = 0
                        /\ position'[q] = "absent" => journal[StartOf(q)] = 0
      BY <1>1 DEF IInv, RowsSound, Existing, Unpaid, IsLatest, StartOf, settlements, ledger
    <2>1. q # p => StartOf(q) # r /\ StartOf(q) \in Request
      BY RequestTypes DEF StartOf
    <2> QED
      BY <1>5, <1>6, <2>1 DEF IInv, RowsSound, Running
  <1>12. r[1] = p /\ r[2] = "start" /\ event[r] = 0 /\ principal[p] = 0
    BY <1>1, <1>2 DEF StartOf, IInv, RowsSound, Running
  <1>13. BooksKept'
    <2> SUFFICES ASSUME NEW q \in Position PROVE Books(q)'
      BY DEF BooksKept
    <2>1. Books(q) /\ journal' = journal /\ locked' = locked
      BY <1>1 DEF IInv, BooksKept, ledger
    <2>2. CASE q # p
      BY <1>2, <1>5, <1>6, <1>12, <2>1, <2>2, OtherBooks
    <2>3. CASE q = p
      <3>1. /\ Requested[p] \in Nat /\ Requested[p] # 0 /\ principal[p] \in Int /\ locked[p] \in Int
            /\ journal \in [Request -> Nat]
            /\ principal'[p] = principal[p] + Signed(r[2], Requested[p])
        BY <1>1, <1>2, <1>5, <1>12 DEF IInv, TypeOK, Signed
      <3> QED
        BY <1>2, <1>6, <1>12, <2>1, <2>3, <3>1, AppliedBooks
    <2> QED
      BY <2>2, <2>3
  <1>14. PeriodKnown("idle", Idle)' /\ RequestKnown("idle", Idle)'
    BY DEF PeriodKnown, RequestKnown, Processing
  <1> QED
    BY <1>1, <1>4, <1>8, <1>10, <1>11, <1>13, <1>14, FinishKnows, PositionStep

LEMMA OpenChangeStep ==
  ASSUME IInv, NEW c \in Caller, OpenChange(c) PROVE IInv'
  <1>1. /\ pc[c] = "change" /\ call[c] \in Call /\ KindFits("change", call[c])
        /\ PeriodKnown("change", call[c])
        /\ Works(pc[c])
        /\ UNCHANGED <<positions, settlements, ledger, counters>>
    BY CallKnows DEF OpenChange, At, Works
  <1>2. CASE Finish(c)
    BY <1>1, <1>2, FinishStep
  <1>3. CASE /\ event[RequestOf(c)] = 0 /\ Changeable(call[c].position, call[c].kind, AmountOf(c))
             /\ Remember(c, "post", [call[c] EXCEPT !.amount = AmountOf(c)])
    <2> SUFFICES ASSUME NEW a, a = AmountOf(c), NEW p, p = call[c].position,
                        NEW m, m = [call[c] EXCEPT !.amount = a]
                 PROVE  IInv'
      OBVIOUS
    <2>1. /\ call[c].kind \in Changes /\ p \in Position
          /\ position[p] = "ACTIVE" /\ principal[p] \in 1..MaxPrincipal
      BY <1>1, <1>3 DEF KindFits, Changeable, Call, IInv, TypeOK
    <2>2. a \in 1..MaxPrincipal
      BY <1>3, <2>1 DEF AmountOf, Changeable, After, Changes
    <2>3. /\ m \in Call /\ m.kind = call[c].kind /\ m.key = call[c].key
          /\ m.position = p /\ m.amount = a
      BY <1>1, <2>2 DEF Call
    <2>4. "post" \in Labels
      BY DEF Labels, TakesConnection
    <2>5. KindFits("post", m)
      BY <1>1, <2>3 DEF KindFits, Processing
    <2>6. PeriodKnown("post", m)
      BY <1>1, <2>3 DEF PeriodKnown, Processing
    <2>7. RequestKnown("post", m)
      <3>1. event[<<m.position, m.kind, m.key>>] = 0 /\ Changeable(m.position, m.kind, m.amount)
        BY <1>3, <2>3 DEF RequestOf
      <3>2. m.kind = "end" => m.amount = principal[m.position]
        BY <2>3 DEF AmountOf
      <3>3. m.amount > 0
        BY <2>2, <2>3
      <3> QED
        BY <3>1, <3>2, <3>3 DEF RequestKnown
    <2>8. Moves(c, "post", m)
      BY <1>3, <2>3, <2>4, MoveSteps DEF IInv
    <2> QED
      BY <1>1, <2>3, <2>4, <2>5, <2>6, <2>7, <2>8, ReadingStep
  <1> QED
    BY <1>2, <1>3 DEF OpenChange

LEMMA PostChangeStep ==
  ASSUME IInv, NEW c \in Caller, PostChange(c) PROVE IInv'
  <1> SUFFICES ASSUME NEW m, m = call[c], NEW p, p = m.position, NEW r, r = RequestOf(c),
                      NEW label, label = IF journal[r] = 0 THEN "drain" ELSE "apply"
               PROVE  IInv'
    OBVIOUS
  <1>1. /\ pc[c] = "post" /\ m \in Call /\ KindFits("post", m) /\ p \in Position
        /\ PeriodKnown("post", m) /\ RequestKnown("post", m)
        /\ label \in {"drain", "apply"} /\ label \in Labels
        /\ Works(pc[c])
        /\ Post(r, m.amount) /\ Proceed(c, label)
        /\ UNCHANGED <<positions, settlements, counters>>
    BY CallKnows DEF PostChange, At, Call, Works, Labels, TakesConnection
  <1>2. /\ r = <<p, m.kind, m.key>> /\ r \in Request /\ r[1] = p /\ r[2] = m.kind /\ m.kind \in Changes
        /\ event[r] = 0 /\ Changeable(p, m.kind, m.amount) /\ m.amount \in 1..MaxPrincipal
        /\ m.kind = "end" => m.amount = principal[p]
    BY <1>1, RequestTypes DEF RequestKnown, KindFits, RequestOf, Call
  <1>3. KindFits(label, m) /\ Moves(c, label, m)
    BY <1>1, MoveSteps DEF IInv, KindFits, Processing
  <1>4. /\ journal[r] \in {0, m.amount}
        /\ journal' \in [Request -> Nat] /\ locked' \in [Position -> Int]
        /\ \A s \in Request : journal'[s] = IF s = r THEN m.amount ELSE journal[s]
        /\ \A q \in Position :
              locked'[q] = IF q = p /\ journal[r] = 0 THEN locked[q] + Signed(m.kind, m.amount)
                                                     ELSE locked[q]
    <2>1. m.amount \in Nat
      BY <1>2
    <2> QED
      BY <1>1, <1>2, <2>1, PostEffects
  <1>5. RowsType'
    BY <1>1, <1>4, TypeParts DEF IInv, RowsType, positions, settlements, counters
  <1>6. PeriodsTile'
    BY <1>1 DEF IInv, PeriodsTile, Existing, positions, settlements
  <1>7. \A q \in Position : StartOf(q) \in Request /\ journal'[StartOf(q)] = journal[StartOf(q)]
    <2> SUFFICES ASSUME NEW q \in Position
                 PROVE  StartOf(q) \in Request /\ journal'[StartOf(q)] = journal[StartOf(q)]
      OBVIOUS
    <2>1. StartOf(q) \in Request /\ StartOf(q)[2] = "start"
      BY RequestTypes DEF StartOf
    <2>2. StartOf(q) # r
      BY <1>2, <2>1 DEF Changes
    <2> QED
      BY <1>4, <2>1, <2>2
  <1>8. RowsSound'
    BY <1>1, <1>7 DEF IInv, RowsSound, Existing, Unpaid, IsLatest, StartOf, positions, settlements
  <1>9. BooksKept'
    <2> SUFFICES ASSUME NEW q \in Position PROVE Books(q)'
      BY DEF BooksKept
    <2>1. Books(q) /\ UNCHANGED <<event, principal>>
      BY <1>1 DEF IInv, BooksKept, positions
    <2>2. CASE q # p
      BY <1>2, <1>4, <2>1, <2>2, OtherBooks
    <2>3. CASE q = p /\ journal[r] = 0
      <3>1. /\ m.amount \in Nat /\ m.amount # 0 /\ principal[p] \in Int /\ locked[p] \in Int
            /\ journal \in [Request -> Nat]
        BY <1>1, <1>2 DEF IInv, TypeOK
      <3>2. locked'[p] = locked[p] + Signed(r[2], m.amount)
        BY <1>1, <1>2, <1>4, <2>3
      <3>3. Books(p)'
        BY <1>1, <1>2, <1>4, <2>1, <2>3, <3>1, <3>2, PostedBooks
      <3> QED
        BY <2>3, <3>3
    <2>4. CASE q = p /\ journal[r] # 0
      <3>1. \A s \in Request : journal'[s] = journal[s]
        BY <1>4, <2>4
      <3>2. journal' = journal /\ locked' = locked
        BY <1>4, <2>4, <3>1 DEF IInv, TypeOK
      <3>3. BooksKept'
        BY <2>1, <3>2, BooksStay DEF IInv
      <3> QED
        BY <3>3 DEF BooksKept
    <2> QED
      BY <2>2, <2>3, <2>4
  <1>10. PeriodKnown(label, m)'
    BY <1>1 DEF PeriodKnown, Processing, AllPaid, Unpaid, Existing, settlements
  <1>11. RequestKnown(label, m)'
    BY <1>1, <1>2, <1>4 DEF RequestKnown, Changeable, After, positions, counters
  <1> QED
    BY <1>1, <1>3, <1>5, <1>6, <1>8, <1>9, <1>10, <1>11, PositionStep

LEMMA DrainChangeStep ==
  ASSUME IInv, NEW c \in Caller, DrainChange(c) PROVE IInv'
  <1>1. /\ pc[c] = "drain" /\ call[c] \in Call /\ KindFits("drain", call[c])
        /\ PeriodKnown("drain", call[c]) /\ RequestKnown("drain", call[c])
        /\ Works(pc[c]) /\ "apply" \in Labels
        /\ Proceed(c, "apply") /\ UNCHANGED <<positions, settlements, ledger, counters>>
    BY CallKnows, LabelTypes DEF DrainChange, At, Works
  <1>2. KindFits("apply", call[c]) /\ PeriodKnown("apply", call[c]) /\ RequestKnown("apply", call[c])
    BY <1>1 DEF KindFits, PeriodKnown, RequestKnown, Processing
  <1> QED
    BY <1>1, <1>2, ProceedStep

\* What applying a change leaves of its position.
LEMMA AppliedRow ==
  ASSUME IInv, NEW c \in Caller, pc[c] = "apply",
         NEW m, m = call[c], NEW p, p = m.position
  PROVE  /\ m \in Call /\ p \in Position /\ m.kind \in Changes /\ m.amount \in 1..MaxPrincipal
         /\ position[p] = "ACTIVE"
         /\ After(p, m.kind, m.amount) \in 0..MaxPrincipal
         /\ m.kind # "end" => After(p, m.kind, m.amount) > 0
         /\ m.kind = "end" => After(p, m.kind, m.amount) = 0
  <1>1. /\ m \in Call /\ KindFits("apply", m) /\ RequestKnown("apply", m)
    BY CallKnows
  <1>2. /\ p \in Position /\ m.kind \in Changes /\ m.amount \in 1..MaxPrincipal
        /\ Changeable(p, m.kind, m.amount)
        /\ m.kind = "end" => m.amount = principal[p]
    BY <1>1 DEF KindFits, RequestKnown, Call
  <1>3. principal[p] \in 0..MaxPrincipal
    BY <1>2 DEF IInv, TypeOK
  <1> QED
    BY <1>1, <1>2, <1>3 DEF Changeable, After, Changes

LEMMA ApplyChangeStep ==
  ASSUME IInv, NEW c \in Caller, ApplyChange(c) PROVE IInv'
  <1> SUFFICES ASSUME NEW m, m = call[c], NEW p, p = m.position, NEW r, r = RequestOf(c),
                      NEW a, a = After(p, m.kind, m.amount)
               PROVE  IInv'
    OBVIOUS
  <1>1. /\ pc[c] = "apply" /\ Works(pc[c]) /\ Finish(c)
        /\ RequestKnown("apply", m) /\ PeriodKnown("apply", m)
        /\ UNCHANGED <<started, settlements, ledger, counters>>
    BY CallKnows DEF ApplyChange, Works
  <1>2. /\ m \in Call /\ p \in Position /\ m.kind \in Changes /\ m.amount \in 1..MaxPrincipal
        /\ position[p] = "ACTIVE" /\ a \in 0..MaxPrincipal
        /\ m.kind # "end" => a > 0
        /\ m.kind = "end" => a = 0
    BY <1>1, AppliedRow
  <1>3. /\ r = <<p, m.kind, m.key>> /\ r \in Request
        /\ event[r] = 0 /\ journal[r] = m.amount
    BY <1>1, <1>2, RequestTypes DEF RequestKnown, RequestOf, Call
  <1>4. /\ event' = [event EXCEPT ![r] = m.amount]
        /\ principal' = [principal EXCEPT ![p] = a]
        /\ \A q \in Position :
              /\ position'[q] = IF q = p /\ m.kind = "end" THEN "ENDED" ELSE position[q]
              /\ ended'[q] = IF q = p /\ m.kind = "end" THEN now ELSE ended[q]
    BY DEF ApplyChange, IInv, TypeOK
  <1>5. Moves(c, "idle", Idle)
    BY <1>1, FinishKnows, MoveSteps DEF IInv, Finish
  <1>6. \A q \in Position : principal'[q] = IF q = p THEN a ELSE principal[q]
    BY <1>4 DEF IInv, TypeOK
  <1>7. \A s \in Request : event'[s] = IF s = r THEN m.amount ELSE event[s]
    BY <1>4 DEF IInv, TypeOK
  <1>9. RowsType'
    <2>1. m.amount \in Nat /\ now \in Time
      BY <1>2 DEF IInv, TypeOK
    <2>2. position' \in [Position -> {"absent", "START_PENDING", "ACTIVE", "ENDED"}]
      <3>1. CASE m.kind = "end"
        BY <3>1 DEF ApplyChange, IInv, TypeOK
      <3>2. CASE m.kind # "end"
        BY <3>2 DEF ApplyChange, IInv, TypeOK
      <3> QED
        BY <3>1, <3>2
    <2>3. principal' \in [Position -> 0..MaxPrincipal]
      BY <1>2, <1>4 DEF IInv, TypeOK
    <2>4. ended' \in [Position -> Time]
      <3>1. CASE m.kind = "end"
        BY <2>1, <3>1 DEF ApplyChange, IInv, TypeOK
      <3>2. CASE m.kind # "end"
        BY <3>2 DEF ApplyChange, IInv, TypeOK
      <3> QED
        BY <3>1, <3>2
    <2>5. event' \in [Request -> Nat]
      BY <1>4, <2>1 DEF IInv, TypeOK
    <2>6. \A q \in Position : position'[q] = "ACTIVE" => principal'[q] > 0
      BY <1>2, <1>4, <1>6 DEF IInv, TypeOK
    <2> QED
      BY <1>1, <2>2, <2>3, <2>4, <2>5, <2>6, TypeParts DEF IInv, RowsType, settlements, ledger, counters
  <1>10. PeriodsTile'
    BY <1>1 DEF IInv, PeriodsTile, Existing, settlements
  <1>11. RowsSound'
    <2> SUFFICES ASSUME NEW q \in Position
                 PROVE  /\ position'[q] \notin Running =>
                              Existing(q) = {} /\ principal'[q] = 0 /\ event'[StartOf(q)] = 0
                        /\ position'[q] = "absent" => journal[StartOf(q)] = 0
      BY <1>1 DEF IInv, RowsSound, Existing, Unpaid, IsLatest, StartOf, settlements, ledger
    <2>1. StartOf(q) # r /\ StartOf(q) \in Request
      BY <1>2, <1>3, RequestTypes DEF StartOf, Changes
    <2> QED
      BY <1>2, <1>4, <1>6, <1>7, <2>1 DEF IInv, RowsSound, Running
  <1>12. BooksKept'
    <2> SUFFICES ASSUME NEW q \in Position PROVE Books(q)'
      BY DEF BooksKept
    <2>1. Books(q) /\ journal' = journal /\ locked' = locked
      BY <1>1 DEF IInv, BooksKept, ledger
    <2>2. r[1] = p /\ r[2] = m.kind
      BY <1>3
    <2>3. CASE q # p
      BY <1>3, <1>6, <1>7, <2>1, <2>2, <2>3, OtherBooks
    <2>4. CASE q = p
      <3>1. /\ m.amount \in Nat /\ m.amount # 0 /\ principal[p] \in Int /\ locked[p] \in Int
            /\ journal \in [Request -> Nat]
        BY <1>2 DEF IInv, TypeOK
      <3>2. principal'[p] = principal[p] + Signed(m.kind, m.amount)
        BY <1>2, <1>6, <3>1 DEF After, Signed, Changes
      <3> QED
        BY <1>2, <1>3, <1>7, <2>1, <2>2, <2>4, <3>1, <3>2, AppliedBooks
    <2> QED
      BY <2>3, <2>4
  <1>14. PeriodKnown("idle", Idle)' /\ RequestKnown("idle", Idle)'
    BY DEF PeriodKnown, RequestKnown, Processing
  <1> QED
    BY <1>1, <1>5, <1>9, <1>10, <1>11, <1>12, <1>14, FinishKnows, PositionStep

-----------------------------------------------------------------------------
(* What goes wrong, and time *)

LEMMA FailsStep ==
  ASSUME IInv, NEW c \in Caller, Fails(c) PROVE IInv'
  <1>1. /\ pc[c] \in TakesConnection /\ FailsTo(c)
        /\ UNCHANGED <<positions, settlements, ledger, counters>>
        /\ Works(pc[c])
        /\ KindFits(pc[c], call[c]) /\ PeriodKnown(pc[c], call[c])
    BY CallKnows DEF Fails, TakesConnection, Works
  <1>2. CASE pc[c] \in {"calculate", "credit", "stamp"}
    <2>1. Proceed(c, "failed")
      BY <1>1, <1>2 DEF FailsTo
    <2>2. "failed" \in Labels /\ KindFits("failed", call[c]) /\ PeriodKnown("failed", call[c])
      BY <1>1, <1>2 DEF Labels, KindFits, PeriodKnown, Processing
    <2>3. RequestKnown("failed", call[c])
      BY DEF RequestKnown
    <2> QED
      BY <1>1, <2>1, <2>2, <2>3, ProceedStep
  <1>3. CASE pc[c] = "select"
    <2>1. Finish(c)
      BY <1>1, <1>3 DEF FailsTo
    <2> QED
      BY <1>1, <2>1, FinishStep
  <1>4. CASE pc[c] \notin {"calculate", "credit", "stamp", "select"}
    <2>1. Abort(c)
      BY <1>1, <1>4 DEF FailsTo
    <2> QED
      BY <1>1, <2>1, AbortStep
  <1> QED
    BY <1>2, <1>3, <1>4

LEMMA FaultStep ==
  ASSUME IInv, NEW c \in Caller, Fault(c) PROVE IInv'
  <1>1. /\ Finish(c) /\ UNCHANGED <<positions, settlements, ledger>>
        /\ now' = now /\ calls' = calls /\ faults' = faults + 1 /\ faults < MaxFaults
        /\ pc[c] # "idle"
    BY DEF Fault
  <1>2. Moves(c, "idle", Idle)
    BY <1>1, FinishKnows, MoveSteps DEF IInv, Finish
  <1>3. now' \in Time /\ calls' \in 0..MaxCalls /\ faults' \in 0..MaxFaults
    BY <1>1 DEF IInv, TypeOK
  <1>4. ~Works("idle")
    BY DEF Works
  <1> QED
    BY <1>1, <1>2, <1>3, <1>4, FinishKnows, QuietStep

LEMMA TickStep == ASSUME IInv, Tick PROVE IInv'
  <1>1. SettlementsStay /\ UNCHANGED <<positions, settlements, ledger>>
    BY DEF SettlementsStay, Existing, Tick, settlements
  <1>2. \A l \in Labels, n \in Call : PeriodKnown(l, n) /\ RequestKnown(l, n)
                                         => PeriodKnown(l, n)' /\ RequestKnown(l, n)'
    BY <1>1, RowsStay
  <1>3. pc' = pc /\ call' = call /\ now' \in Time /\ calls' = calls /\ faults' = faults
    BY DEF IInv, TypeOK, Tick, Time
  <1>4. CallsKnow'
    BY <1>2, <1>3 DEF IInv, CallsKnow
  <1>5. Exclusive' /\ CallsFit'
    BY <1>3 DEF IInv, Exclusive, CallsFit
  <1>6. TypeOK'
    BY <1>1, <1>3 DEF IInv, TypeOK, positions, settlements, ledger
  <1>7. PeriodsTile'
    BY <1>1 DEF IInv, PeriodsTile, Existing, positions, settlements
  <1>8. RowsSound'
    BY <1>1 DEF IInv, RowsSound, Existing, Unpaid, IsLatest, StartOf, positions, settlements, ledger
  <1>9. BooksKept'
    BY <1>1, BooksStay DEF IInv, positions, ledger
  <1> QED
    BY <1>4, <1>5, <1>6, <1>7, <1>8, <1>9 DEF IInv

-----------------------------------------------------------------------------
(* The theorems *)

LEMMA InitIInv == ASSUME Init PROVE IInv
  <1>1. \A p \in Position : Existing(p) = {}
    BY DEF Init, Existing
  <1>2. 0 \in Time /\ "idle" \in Labels /\ 0 \in 0..MaxPrincipal
    BY DEF Time, Labels
  <1>3. TypeOK
    BY <1>2, IdleType DEF Init, TypeOK
  <1>4. Exclusive /\ PeriodsTile
    BY <1>1 DEF Init, Exclusive, Works, PeriodsTile
  <1>5. CallsFit /\ CallsKnow
    BY FinishKnows DEF Init, CallsFit, CallsKnow, PeriodKnown, RequestKnown, Processing
  <1>6. RowsSound
    BY <1>1, RequestTypes DEF Init, RowsSound, Running
  <1>7. BooksKept
    <2> SUFFICES ASSUME NEW p \in Position PROVE Books(p)
      BY DEF BooksKept
    <2>1. Unapplied(p) = {} /\ locked[p] = 0 /\ principal[p] = 0
      BY DEF Init, Unapplied
    <2>2. SumFunctionOnSet(Moved, {}) = 0 /\ IsFiniteSet({})
      BY SumEmpty, FS_EmptySet
    <2> QED
      BY <2>1, <2>2 DEF Books
  <1> QED
    BY <1>3, <1>4, <1>5, <1>6, <1>7 DEF IInv

LEMMA CallStep == ASSUME IInv, NEW c \in Caller, Step(c) PROVE IInv'
  <1>1. CASE Lock(c)
    BY <1>1, LockStep
  <1>2. CASE StartStep(c)
    BY <1>2, InsertPositionStep, LockFundsStep, ActivateStep DEF StartStep
  <1>3. CASE SettleStep(c)
    BY <1>3, SelectStep, NextPositionStep, ReadLatestStep, CheckStep, OpenPeriodStep, AttemptStep,
       CalculateStep, CreditStep, StampStep, MarkFailedStep DEF SettleStep
  <1>4. CASE ChangeStep(c)
    BY <1>4, OpenChangeStep, PostChangeStep, DrainChangeStep, ApplyChangeStep DEF ChangeStep
  <1>5. CASE Fails(c)
    BY <1>5, FailsStep
  <1> QED
    BY <1>1, <1>2, <1>3, <1>4, <1>5 DEF Step

\* The inductive invariant holds in every reachable state, whatever the amounts, the
\* periods, the size of the pool and the number of calls.
THEOREM Invariance == Spec => []IInv
  <1>1. Init => IInv
    BY InitIInv
  <1>2. IInv /\ [Next]_vars => IInv'
    <2> SUFFICES ASSUME IInv, [Next]_vars PROVE IInv'
      OBVIOUS
    <2>1. CASE \E c \in Caller : NewCall(c) \/ Step(c) \/ Fault(c)
      BY <2>1, NewCallStep, CallStep, FaultStep
    <2>2. CASE Tick
      BY <2>2, TickStep
    <2>3. CASE UNCHANGED vars
      BY <2>3, StutterStep
    <2> QED
      BY <2>1, <2>2, <2>3 DEF Next
  <1> QED
    BY <1>1, <1>2, PTL DEF Spec

\* The rows of MiningService keep their types, and an active position has a principal.
THEOREM TypeCorrect == Spec => []TypeOK
  <1>1. IInv => TypeOK
    BY DEF IInv
  <1> QED
    BY <1>1, Invariance, PTL

\* The periods settlePositionThrough opens for a position neither overlap nor leave a gap.
THEOREM PeriodsTiled == Spec => []PeriodsTile
  <1>1. IInv => PeriodsTile
    BY DEF IInv
  <1> QED
    BY <1>1, Invariance, PTL

\* A settlement that is not paid is the last one of its position, and no increase, decrease
\* or end is under way over it.
THEOREM PaidBeforeNext == Spec => []PaidBeforeGoingOn
  <1>1. IInv => PaidBeforeGoingOn
    <2> SUFFICES ASSUME IInv, NEW p \in Position, NEW w \in Existing(p), Unpaid(p, w)
                 PROVE  /\ IsLatest(p, w)
                        /\ \A c \in Caller : pc[c] \in {"post", "drain", "apply"} => call[c].position # p
      BY DEF PaidBeforeGoingOn
    <2>1. IsLatest(p, w)
      BY DEF IInv, RowsSound
    <2>2. \A c \in Caller : pc[c] \in {"post", "drain", "apply"} => AllPaid(call[c].position)
      BY CallKnows DEF PeriodKnown
    <2> QED
      BY <2>1, <2>2 DEF AllPaid
  <1> QED
    BY <1>1, Invariance, PTL

\* What the journals of a position left in the locked bucket is its principal and what the
\* journals of its calls that ended between the post and the row moved: none is applied twice,
\* and none by another amount, whatever fails and is sent again.
THEOREM LockedIsAccountedFor == Spec => []LockedAddsUp
  <1>1. IInv => LockedAddsUp
    BY DEF IInv, BooksKept, Books, LockedAddsUp
  <1> QED
    BY <1>1, Invariance, PTL
=============================================================================
