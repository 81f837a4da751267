-------------------------- MODULE PromoPool_proofs --------------------------
(***************************************************************************)
(* The safety properties of PromoPool, for any rewards, amounts and number *)
(* of concurrent calls.  The inductive invariant adds what a call knows at *)
(* each of its steps (Knows), and counts the calls that passed the balance *)
(* check and have not paid yet (Reserving): the last of them to check left *)
(* room for its own amount and one MaxAmount for each of the others.       *)
(***************************************************************************)
EXTENDS PromoPool, FiniteSetTheorems, TLAPS

Label == AccrualLabels \cup PayoutLabels
Memory == [reward : Reward, levels : SUBSET Level, seen : Edges, key : ClawKey,
           batch : SUBSET Payout, todo : SUBSET Payout]
About(label) == IF label \in AccrualLabels THEN Accrual ELSE Payout

\* A level that is achieved has its row, or a call about to insert it.
Backed(p) ==
    \/ faults > 0
    \/ queue[p] # "absent"
    \/ \E c \in Caller : pc[c] = "enqueue" /\ call[c].reward = p

Knows(label, m) ==
    /\ label \in {"release", "stamp", "promote", "reverse"} => m.reward \in posted
    /\ label \in {"lookup", "reverse"} => m.reward = L2(EdgeOf(m.reward))
    /\ label \in {"drain", "pay", "stamp", "promote"} =>
          /\ Earliest(m.reward, m.todo)
          /\ m.todo \subseteq m.batch
          /\ \A q \in m.batch : queue[q] # "absent"
          /\ \A q \in m.batch \ m.todo : q \in posted
    /\ label = "climb" => \A x \in m.levels : Backed(<<EdgeOf(m.reward), x>>)

CallsKnow ==
    \A c \in Caller, label \in Label, m \in Memory :
        label = pc[c] /\ m = call[c] => Knows(label, m)

LevelsAreBacked == \A p \in Payout : p[2] \in levels[EdgeOf(p)] => Backed(p)

PostingHasItsCall ==
    \A a \in Accrual :
        accrual[a] = "posting" =>
            \/ faults > 0
            \/ \E c \in Caller : pc[c] \in {"post", "release"} /\ call[c].reward = a

Reserving == {c \in Caller : pc[c] \in {"mark", "post", "pay"}}
Slack(k) == (k - Cardinality(Caller)) * MaxAmount

FundsReserved ==
    /\ pool >= Slack(1)
    /\ Reserving # {} =>
          \E d \in Reserving : pool >= Amount[call[d].reward] + Slack(Cardinality(Reserving))

IInv ==
    /\ TypeOK
    /\ CallsKnow
    /\ RowsFollowJournals
    /\ LevelsAreBacked
    /\ PostingHasItsCall
    /\ FundsReserved

\* What no step undoes: journals, and the rows of the queue.
Grows ==
    /\ posted \subseteq posted'
    /\ faults' >= faults
    /\ \A p \in Payout : queue[p] # "absent" => queue'[p] # "absent" /\ enqueued'[p] = enqueued[p]

\* What is left of the type, where only a call's label and memory are in question.
RowsType ==
    /\ accrual \in [Accrual -> Accruals]
    /\ queue \in [Payout -> Payouts]
    /\ enqueued \in [Payout -> Nat]
    /\ edge \in [Edge -> Edges]
    /\ levels \in [Edge -> SUBSET Level]
    /\ due \subseteq Reward
    /\ pool \in Int
    /\ posted \subseteq Reward
    /\ reversed \subseteq Edge \X ClawKey
    /\ calls \in 0..MaxCalls
    /\ faults \in 0..MaxFaults

\* The call that marks an accrual, or leaves it at 'posting', is the one at it.
PostingKept(c, label, m) ==
    \A a \in Accrual : accrual'[a] = "posting" =>
        \/ label \in {"post", "release"} /\ m.reward = a
        \/ faults' > 0
        \/ /\ accrual[a] = "posting"
           /\ pc[c] \in {"post", "release"} => call[c].reward # a

LevelsKept ==
    \A p \in Payout : p[2] \in levels'[EdgeOf(p)] =>
        p[2] \in levels[EdgeOf(p)] \/ Backed(p) \/ Backed(p)'

USE PromoAssumption

-----------------------------------------------------------------------------
(* What follows from the constants alone *)

LEMMA Labels ==
  /\ AccrualLabels \subseteq Label
  /\ PayoutLabels \subseteq Label
  /\ AccrualLabels \cap PayoutLabels = {}
  BY DEF Label, AccrualLabels, PayoutLabels

LEMMA L2Type == ASSUME NEW e \in Edge PROVE L2(e) \in Payout /\ L2(e) \in Reward /\ EdgeOf(L2(e)) = e
  BY DEF L2, EdgeOf, Payout, Reward, Level

LEMMA PayoutType ==
  ASSUME NEW p \in Payout
  PROVE  p \in Reward /\ EdgeOf(p) \in Edge /\ p[2] \in Level /\ p = <<EdgeOf(p), p[2]>>
  BY DEF Payout, Reward, EdgeOf

LEMMA IdleType == Idle \in Memory /\ Idle.reward \in Payout
  <1>1. (CHOOSE e \in Edge : TRUE) \in Edge /\ (CHOOSE k \in ClawKey : TRUE) \in ClawKey
    OBVIOUS
  <1> QED
    BY <1>1, L2Type DEF Idle, Memory, Edges

LEMMA CallerCount == Cardinality(Caller) \in Nat /\ Cardinality(Caller) >= 1
  <1>1. Cardinality(Caller) \in Nat
    BY FS_CardinalityType
  <1>2. Cardinality(Caller) # 0
    BY FS_EmptySet
  <1> QED
    BY <1>1, <1>2

\* One reward more or less is one unit of slack.
LEMMA SlackSteps ==
  ASSUME NEW k \in Nat
  PROVE  /\ Slack(k) \in Int
         /\ Slack(k + 1) = Slack(k) + MaxAmount
         /\ k <= Cardinality(Caller) => Slack(k) <= 0
  <1> DEFINE n == k - Cardinality(Caller)
  <1>1. n \in Int /\ MaxAmount \in Nat
    BY CallerCount
  <1>2. Slack(k) = n * MaxAmount /\ Slack(k + 1) = (n + 1) * MaxAmount
    BY CallerCount DEF Slack
  <1>3. k <= Cardinality(Caller) => n <= 0
    BY CallerCount
  <1> HIDE DEF n
  <1>4. (n + 1) * MaxAmount = n * MaxAmount + MaxAmount
    BY <1>1
  <1>5. n <= 0 => n * MaxAmount <= 0
    BY <1>1
  <1> QED
    BY <1>1, <1>2, <1>3, <1>4, <1>5

LEMMA SlackGrows ==
  ASSUME NEW j \in Nat, NEW k \in Nat, j <= k
  PROVE  Slack(j) <= Slack(k)
  <1> DEFINE a == j - Cardinality(Caller)
             b == k - Cardinality(Caller)
  <1>1. a \in Int /\ b \in Int /\ a <= b /\ MaxAmount \in Nat
    BY CallerCount
  <1>2. Slack(j) = a * MaxAmount /\ Slack(k) = b * MaxAmount
    BY DEF Slack
  <1> HIDE DEF a, b
  <1>3. a * MaxAmount <= b * MaxAmount
    BY <1>1
  <1> QED
    BY <1>2, <1>3

LEMMA RankType == Rank \in Nat
  <1>1. IsFiniteSet(Level)
    <2>1. IsFiniteSet({"L2"}) /\ Level = {"L2"} \cup {"L3"}
      BY FS_Singleton DEF Level
    <2> QED
      BY <2>1, FS_AddElement
  <1>2. IsFiniteSet(Payout)
    BY <1>1, FS_Product DEF Payout
  <1>3. IsFiniteSet({p \in Payout : queue[p] # "absent"})
    BY <1>2, FS_Subset
  <1> QED
    BY <1>3, FS_CardinalityType DEF Rank

-----------------------------------------------------------------------------
(* The pool *)

LEMMA ReservingCount ==
  /\ IsFiniteSet(Reserving)
  /\ Cardinality(Reserving) \in Nat
  /\ Cardinality(Reserving) <= Cardinality(Caller)
  /\ Reserving # {} => Cardinality(Reserving) >= 1
  <1>1. IsFiniteSet(Reserving) /\ Cardinality(Reserving) <= Cardinality(Caller)
    BY FS_Subset DEF Reserving
  <1>2. Cardinality(Reserving) \in Nat /\ (Reserving # {} => Cardinality(Reserving) # 0)
    BY <1>1, FS_CardinalityType, FS_EmptySet
  <1> QED
    BY <1>1, <1>2

(* A call that ends its reservation paid at most its amount; if others are *)
(* left, any of them is the last to have checked.                          *)
LEMMA Unreserve ==
  ASSUME IInv, NEW c \in Reserving,
         pool' \in Int, pool' >= pool - Amount[call[c].reward],
         \A d \in Caller \ {c} : pc'[d] = pc[d] /\ call'[d] = call[d],
         pc'[c] \notin {"mark", "post", "pay"}
  PROVE  FundsReserved'
  <1> DEFINE k == Cardinality(Reserving)
             R == Reserving \ {c}
  <1>1. Reserving' = R
    BY DEF Reserving
  <1>2. k \in Nat /\ k >= 1 /\ Cardinality(R) = k - 1 /\ Cardinality(R) \in Nat
    BY ReservingCount, FS_RemoveElement, FS_CardinalityType
  <1>3. \A d \in Reserving : Amount[call[d].reward] \in 1..MaxAmount
    BY DEF Reserving, IInv, TypeOK
  <1>4. PICK d \in Reserving : pool >= Amount[call[d].reward] + Slack(k)
    BY DEF IInv, FundsReserved
  <1>5. Slack(k) = Slack(k - 1) + MaxAmount /\ Slack(k - 1) \in Int /\ Slack(k) \in Int
    <2>1. k - 1 \in Nat /\ (k - 1) + 1 = k
      BY <1>2
    <2> QED
      BY <1>2, <2>1, SlackSteps
  <1>6. pool \in Int
    BY DEF IInv, TypeOK
  <1> HIDE DEF k
  <1>7. Slack(1) <= Slack(k) /\ (k > 1 => Slack(1) <= Slack(k - 1))
    BY <1>2, SlackGrows
  <1>8. pool' >= Slack(1)
    <2>1. CASE d = c
      BY <1>4, <1>5, <1>6, <1>7, <1>3, <2>1, SlackSteps
    <2>2. CASE d # c
      <3>1. Amount[call[d].reward] >= 1 /\ Amount[call[c].reward] <= MaxAmount
        BY <1>3
      <3>2. k > 1
        <4>1. IsFiniteSet(R) /\ R # {}
          BY <2>2, ReservingCount, FS_RemoveElement
        <4>2. Cardinality(R) # 0
          BY <4>1, FS_EmptySet
        <4> QED
          BY <1>2, <4>2
      <3> QED
        BY <1>3, <1>4, <1>5, <1>6, <1>7, <3>1, <3>2, SlackSteps
    <2> QED
      BY <2>1, <2>2
  <1>9. ASSUME R # {}
        PROVE  \E e \in R : pool' >= Amount[call'[e].reward] + Slack(k - 1)
    <2>1. PICK e \in R : d # c => e = d
      BY <1>9
    <2>2. call'[e] = call[e] /\ Amount[call[e].reward] \in 1..MaxAmount
      BY <1>3 DEF Reserving
    <2>3. pool' >= Amount[call[e].reward] + Slack(k - 1)
      <3>1. CASE d = c
        BY <1>3, <1>4, <1>5, <1>6, <2>2, <3>1
      <3>2. CASE d # c
        BY <1>3, <1>4, <1>5, <1>6, <2>1, <2>2, <3>2
      <3> QED
        BY <3>1, <3>2
    <2> QED
      BY <2>2, <2>3
  <1> QED
    <2>1. Slack(1)' = Slack(1) /\ Slack(Cardinality(Reserving))' = Slack(Cardinality(Reserving)')
      BY DEF Slack
    <2> QED
      BY <1>1, <1>2, <1>8, <1>9, <2>1 DEF FundsReserved

(* A call that changes no reservation, or gives one up without paying.     *)
LEMMA KeepReserved ==
  ASSUME IInv, NEW c \in Caller,
         pool' \in Int, pool' >= pool,
         \A d \in Caller \ {c} : pc'[d] = pc[d] /\ call'[d] = call[d],
         \/ pc'[c] \notin {"mark", "post", "pay"}
         \/ c \in Reserving /\ call'[c] = call[c] /\ pc'[c] \in {"mark", "post", "pay"}
  PROVE  FundsReserved'
  <1>1. pool \in Int /\ Slack(1) \in Int /\ Slack(Cardinality(Reserving)) \in Int
    BY ReservingCount, SlackSteps DEF IInv, TypeOK
  <1>2. \A d \in Reserving : Amount[call[d].reward] \in 1..MaxAmount
    BY DEF Reserving, IInv, TypeOK
  <1>3. Slack(1)' = Slack(1) /\ Slack(Cardinality(Reserving))' = Slack(Cardinality(Reserving)')
    BY DEF Slack
  <1>4. CASE pc'[c] \in {"mark", "post", "pay"}
    <2>1. Reserving' = Reserving /\ \A d \in Reserving : call'[d] = call[d]
      BY <1>4 DEF Reserving
    <2> QED
      BY <1>1, <1>2, <1>3, <2>1 DEF IInv, FundsReserved
  <1>5. CASE pc'[c] \notin {"mark", "post", "pay"} /\ c \notin Reserving
    <2>1. Reserving' = Reserving /\ \A d \in Reserving : call'[d] = call[d]
      BY <1>5 DEF Reserving
    <2> QED
      BY <1>1, <1>2, <1>3, <2>1 DEF IInv, FundsReserved
  <1>6. CASE pc'[c] \notin {"mark", "post", "pay"} /\ c \in Reserving
    <2>1. pool' >= pool - Amount[call[c].reward]
      BY <1>1, <1>2, <1>6
    <2> QED
      BY <1>6, <2>1, Unreserve
  <1> QED
    BY <1>4, <1>5, <1>6

(* A call that found its amount in the pool: it is the last to have done.  *)
LEMMA Reserve ==
  ASSUME IInv, NEW c \in Caller,
         pool' = pool, pool >= Amount[call[c].reward],
         call'[c] = call[c], call[c].reward \in Reward,
         \A d \in Caller \ {c} : pc'[d] = pc[d] /\ call'[d] = call[d],
         pc'[c] \in {"mark", "post", "pay"}
  PROVE  FundsReserved'
  <1> DEFINE k == Cardinality(Reserving')
  <1>1. c \in Reserving' /\ Reserving' \subseteq Caller
    BY DEF Reserving
  <1>2. k \in Nat /\ k <= Cardinality(Caller)
    BY <1>1, FS_Subset, FS_CardinalityType
  <1> HIDE DEF k
  <1>3. Slack(k) \in Int /\ Slack(k) <= 0
    BY <1>2, SlackSteps
  <1>4. pool \in Int /\ Amount[call[c].reward] \in 1..MaxAmount
    BY DEF IInv, TypeOK
  <1>5. pool' >= Amount[call'[c].reward] + Slack(k)
    BY <1>3, <1>4
  <1>6. Slack(1)' = Slack(1) /\ Slack(Cardinality(Reserving))' = Slack(k)
    BY DEF Slack, k
  <1> QED
    BY <1>1, <1>5, <1>6 DEF IInv, FundsReserved

-----------------------------------------------------------------------------
(* What other calls know *)

\* A fact of a call at one of its steps outlives the steps of others.
LEMMA BackedStays ==
  ASSUME IInv, Grows, NEW c \in Caller, NEW p \in Payout, Backed(p),
         faults' \in Nat,
         \A d \in Caller \ {c} : pc'[d] = pc[d] /\ call'[d] = call[d],
         \/ pc[c] # "enqueue"
         \/ faults' > 0
         \/ queue'[call[c].reward] # "absent"
  PROVE  Backed(p)'
  <1>1. faults \in Nat /\ faults' \in Nat /\ faults' >= faults
    BY DEF IInv, TypeOK, Grows
  <1>2. CASE faults > 0
    BY <1>1, <1>2 DEF Backed
  <1>3. CASE queue[p] # "absent"
    BY <1>3 DEF Backed, Grows
  <1>4. CASE \E d \in Caller : pc[d] = "enqueue" /\ call[d].reward = p
    <2>1. PICK d \in Caller : pc[d] = "enqueue" /\ call[d].reward = p
      BY <1>4
    <2>2. CASE d = c
      BY <2>1, <2>2 DEF Backed
    <2>3. CASE d # c
      BY <2>1, <2>3 DEF Backed
    <2> QED
      BY <2>2, <2>3
  <1> QED
    BY <1>2, <1>3, <1>4 DEF Backed

LEMMA KnowsStays ==
  ASSUME IInv, Grows, NEW label \in Label, NEW m \in Memory, Knows(label, m),
         m.reward \in About(label),
         \A p \in Payout : Backed(p) => Backed(p)'
  PROVE  Knows(label, m)'
  <1>1. label \in {"release", "stamp", "promote", "reverse"} => m.reward \in posted'
    BY DEF Knows, Grows
  <1>2. label \in {"lookup", "reverse"} => m.reward = L2(EdgeOf(m.reward))
    BY DEF Knows
  <1>3. ASSUME label \in {"drain", "pay", "stamp", "promote"}
        PROVE  /\ Earliest(m.reward, m.todo)'
               /\ m.todo \subseteq m.batch
               /\ \A q \in m.batch : queue'[q] # "absent"
               /\ \A q \in m.batch \ m.todo : q \in posted'
    <2>1. m.batch \subseteq Payout
      BY DEF Memory
    <2>2. /\ Earliest(m.reward, m.todo)
          /\ m.todo \subseteq m.batch
          /\ \A q \in m.batch : queue[q] # "absent"
          /\ \A q \in m.batch \ m.todo : q \in posted
      BY <1>3 DEF Knows
    <2>3. \A q \in m.batch : queue'[q] # "absent" /\ enqueued'[q] = enqueued[q]
      BY <2>1, <2>2 DEF Grows
    <2>4. \A q \in m.batch \ m.todo : q \in posted'
      BY <2>2 DEF Grows
    <2>5. Earliest(m.reward, m.todo)'
      BY <2>2, <2>3 DEF Earliest
    <2> QED
      BY <2>2, <2>3, <2>4, <2>5
  <1>4. ASSUME label = "climb"
        PROVE  \A x \in m.levels : Backed(<<EdgeOf(m.reward), x>>)'
    <2>1. m.reward \in Payout
      BY <1>4 DEF About, AccrualLabels
    <2>2. \A x \in m.levels : <<EdgeOf(m.reward), x>> \in Payout
      BY <2>1, PayoutType DEF Memory, Payout
    <2> QED
      BY <1>4, <2>2 DEF Knows
  <1> QED
    BY <1>1, <1>2, <1>3, <1>4 DEF Knows, L2, EdgeOf

(* What is left to show of a step of one call: its own next step is backed *)
(* and what it writes is.                                                  *)
LEMMA Assemble ==
  ASSUME IInv, NEW c \in Caller, NEW label \in Label, NEW m \in Memory,
         pc' = [pc EXCEPT ![c] = label],
         call' = [call EXCEPT ![c] = m],
         m.reward \in About(label),
         RowsType',
         Grows,
         Knows(label, m) \/ Knows(label, m)',
         RowsFollowJournals',
         PostingKept(c, label, m),
         pc[c] = "enqueue" => faults' > 0 \/ queue'[call[c].reward] # "absent",
         LevelsKept,
         FundsReserved'
  PROVE  IInv'
  <1>1. \A d \in Caller \ {c} : pc'[d] = pc[d] /\ call'[d] = call[d]
    BY DEF IInv, TypeOK
  <1>2. pc'[c] = label /\ call'[c] = m
    BY DEF IInv, TypeOK
  <1>3. TypeOK'
    <2>1. pc' \in [Caller -> AccrualLabels \cup PayoutLabels] /\ call' \in [Caller -> Memory]
      BY DEF IInv, TypeOK, Label, Memory
    <2>2. \A d \in Caller : call'[d].reward \in About(pc'[d])
      BY <1>1, <1>2 DEF IInv, TypeOK, About
    <2> QED
      BY <2>1, <2>2 DEF TypeOK, RowsType, Memory, About
  <1>4. \A p \in Payout : Backed(p) => Backed(p)'
    BY <1>1, BackedStays DEF RowsType
  <1>5. CallsKnow'
    <2> SUFFICES ASSUME NEW d \in Caller, NEW l \in Label, NEW w \in Memory,
                        l = pc'[d], w = call'[d]
                 PROVE  Knows(l, w)'
      BY DEF CallsKnow
    <2>1. CASE d = c
      BY <1>2, <1>4, <2>1, KnowsStays
    <2>2. CASE d # c
      <3>1. l = pc[d] /\ w = call[d]
        BY <1>1, <2>2
      <3>2. w.reward \in About(l) /\ Knows(l, w)
        BY <3>1 DEF IInv, TypeOK, CallsKnow, About
      <3> QED
        BY <1>4, <3>2, KnowsStays
    <2> QED
      BY <2>1, <2>2
  <1>6. LevelsAreBacked'
    BY <1>4 DEF IInv, LevelsAreBacked, LevelsKept
  <1>7. PostingHasItsCall'
    <2> SUFFICES ASSUME NEW a \in Accrual, accrual'[a] = "posting", ~(faults' > 0)
                 PROVE  \E d \in Caller : pc'[d] \in {"post", "release"} /\ call'[d].reward = a
      BY DEF PostingHasItsCall
    <2> USE DEF PostingKept
    <2>1. CASE label \in {"post", "release"} /\ m.reward = a
      BY <1>2, <2>1
    <2>2. CASE accrual[a] = "posting" /\ (pc[c] \in {"post", "release"} => call[c].reward # a)
      <3>1. ~(faults > 0)
        BY DEF Grows, IInv, TypeOK, RowsType
      <3>2. PICK d \in Caller : pc[d] \in {"post", "release"} /\ call[d].reward = a
        BY <2>2, <3>1 DEF IInv, PostingHasItsCall
      <3>3. d # c
        BY <2>2, <3>2
      <3> QED
        BY <1>1, <3>2, <3>3
    <2> QED
      BY <2>1, <2>2
  <1> QED
    BY <1>3, <1>5, <1>6, <1>7 DEF IInv

-----------------------------------------------------------------------------
(* Steps by what they write *)

\* A step that writes neither row, level nor journal.
LEMMA QuietStep ==
  ASSUME IInv, NEW c \in Caller, NEW label \in Label, NEW m \in Memory,
         pc' = [pc EXCEPT ![c] = label],
         call' = [call EXCEPT ![c] = m],
         m.reward \in About(label),
         UNCHANGED <<accrual, queue, enqueued, levels, posted, reversed>>,
         edge' \in [Edge -> Edges],
         due' \subseteq Reward,
         pool' \in Int,
         calls' \in 0..MaxCalls, faults' \in 0..MaxFaults, faults' >= faults,
         Knows(label, m),
         pc[c] \in {"post", "release", "enqueue"} => faults' > 0,
         FundsReserved'
  PROVE  IInv'
  <1>1. RowsType'
    BY DEF IInv, TypeOK, RowsType
  <1>2. Grows
    BY DEF Grows
  <1>3. RowsFollowJournals' /\ LevelsKept
    BY DEF IInv, RowsFollowJournals, LevelsKept
  <1>4. PostingKept(c, label, m)
    BY DEF PostingKept
  <1> QED
    BY <1>1, <1>2, <1>3, <1>4, Assemble

\* A call that ends, with nothing written but an edge's status.
LEMMA EndStep ==
  ASSUME IInv, NEW c \in Caller, Finish(c),
         UNCHANGED <<accrual, queue, enqueued, levels, due, pool, posted, reversed>>,
         edge' \in [Edge -> Edges],
         calls' \in 0..MaxCalls, faults' \in 0..MaxFaults, faults' >= faults,
         pc[c] \in {"post", "release", "enqueue"} => faults' > 0
  PROVE  IInv'
  <1>1. /\ pc' = [pc EXCEPT ![c] = "idle"]
        /\ call' = [call EXCEPT ![c] = Idle]
        /\ "idle" \in Label /\ Idle.reward \in About("idle")
    BY IdleType DEF Finish, Goto, Label, PayoutLabels, AccrualLabels, About
  <1>2. Knows("idle", Idle)
    BY DEF Knows
  <1>3. pool' \in Int /\ pool' >= pool /\ due' \subseteq Reward
    BY DEF IInv, TypeOK
  <1>4. FundsReserved'
    BY <1>1, <1>3, KeepReserved DEF IInv, TypeOK
  <1> QED
    BY <1>1, <1>2, <1>3, <1>4, IdleType, QuietStep

\* A call that starts, with nothing written but the pool.
LEMMA BeginStep ==
  ASSUME IInv, NEW c \in Caller, NEW label \in Label, NEW m \in Memory,
         Start(c, label, m),
         UNCHANGED <<accrual, queue, enqueued, posted, reversed>>,
         pool' \in Int, pool' >= pool,
         m.reward \in About(label),
         label \notin {"mark", "post", "pay"},
         Knows(label, m)
  PROVE  IInv'
  <1>1. /\ pc' = [pc EXCEPT ![c] = label]
        /\ call' = [call EXCEPT ![c] = m]
        /\ pc[c] = "idle"
        /\ UNCHANGED <<edge, levels, due, faults>>
        /\ calls' = calls + 1 /\ calls < MaxCalls
    BY DEF Start, Goto, edges
  <1>2. /\ calls' \in 0..MaxCalls /\ faults' \in 0..MaxFaults /\ faults' >= faults
        /\ edge' \in [Edge -> Edges] /\ due' \subseteq Reward
    BY <1>1 DEF IInv, TypeOK
  <1>3. FundsReserved'
    BY <1>1, KeepReserved DEF IInv, TypeOK
  <1> QED
    BY <1>1, <1>2, <1>3, QuietStep

\* A call that goes on with what it knows, and writes at most an edge's status.
LEMMA GoOnStep ==
  ASSUME IInv, NEW c \in Caller, NEW label \in Label,
         Goto(c, label),
         UNCHANGED <<accrual, queue, enqueued, levels, due, pool, posted, reversed, call,
                     calls, faults>>,
         edge' \in [Edge -> Edges],
         call[c].reward \in About(label),
         pc[c] \notin {"post", "release", "enqueue"},
         \/ label \notin {"mark", "post", "pay"}
         \/ pool >= Amount[call[c].reward],
         Knows(label, call[c])
  PROVE  IInv'
  <1> DEFINE m == call[c]
  <1>1. m \in Memory /\ call' = [call EXCEPT ![c] = m] /\ call'[c] = call[c]
    BY DEF IInv, TypeOK, Memory
  <1>2. pc' = [pc EXCEPT ![c] = label] /\ pc'[c] = label
    BY DEF Goto, IInv, TypeOK
  <1>3. /\ pool' \in Int /\ pool' >= pool /\ due' \subseteq Reward
        /\ calls' \in 0..MaxCalls /\ faults' \in 0..MaxFaults /\ faults' >= faults
    BY DEF IInv, TypeOK
  <1>4. FundsReserved'
    <2>1. \A d \in Caller \ {c} : pc'[d] = pc[d] /\ call'[d] = call[d]
      BY <1>2
    <2>2. m.reward \in Reward
      BY <1>1 DEF Memory
    <2>3. CASE label \in {"mark", "post", "pay"}
      BY <1>1, <1>2, <2>1, <2>2, <2>3, Reserve
    <2>4. CASE label \notin {"mark", "post", "pay"}
      BY <1>1, <1>2, <1>3, <2>1, <2>4, KeepReserved
    <2> QED
      BY <2>3, <2>4
  <1> HIDE DEF m
  <1> QED
    BY <1>1, <1>2, <1>3, <1>4, QuietStep DEF m

\* A statement that writes the status of one accrual.
LEMMA AccrualStep ==
  ASSUME IInv, NEW c \in Caller, NEW label \in Label, NEW m \in Memory,
         pc' = [pc EXCEPT ![c] = label],
         call' = [call EXCEPT ![c] = m],
         m.reward \in About(label),
         Knows(label, m),
         NEW a \in Accrual, NEW new \in Accruals,
         accrual' = [accrual EXCEPT ![a] = new],
         UNCHANGED <<queue, enqueued, edge, levels, due, pool, posted, reversed>>,
         calls' \in 0..MaxCalls, faults' \in 0..MaxFaults, faults' >= faults,
         new = "released" => a \in posted,
         new = "posting" => label = "post" /\ m.reward = a,
         pc[c] \in {"post", "release"} => call[c].reward = a,
         pc[c] # "enqueue",
         FundsReserved'
  PROVE  IInv'
  <1>1. RowsType'
    BY DEF IInv, TypeOK, RowsType
  <1>2. Grows
    BY DEF Grows
  <1>3. RowsFollowJournals' /\ LevelsKept
    BY DEF IInv, TypeOK, RowsFollowJournals, LevelsKept
  <1>4. PostingKept(c, label, m)
    BY DEF PostingKept, IInv, TypeOK
  <1>5. pc[c] = "enqueue" => faults' > 0 \/ queue'[call[c].reward] # "absent"
    OBVIOUS
  <1> QED
    BY <1>1, <1>2, <1>3, <1>4, <1>5, Assemble

\* A statement that writes the status of one accrual and ends the call.
LEMMA LastAccrualStep ==
  ASSUME IInv, NEW c \in Caller, Finish(c),
         NEW a \in Accrual, NEW new \in Accruals \ {"posting"},
         accrual' = [accrual EXCEPT ![a] = new],
         UNCHANGED <<queue, enqueued, edge, levels, due, pool, posted, reversed>>,
         calls' \in 0..MaxCalls, faults' \in 0..MaxFaults, faults' >= faults,
         new = "released" => a \in posted,
         call[c].reward = a \/ pc[c] = "idle",
         pc[c] # "enqueue"
  PROVE  IInv'
  <1>1. /\ pc' = [pc EXCEPT ![c] = "idle"]
        /\ call' = [call EXCEPT ![c] = Idle]
        /\ "idle" \in Label /\ Idle.reward \in About("idle")
    BY IdleType DEF Finish, Goto, Label, PayoutLabels, AccrualLabels, About
  <1>2. Knows("idle", Idle)
    BY DEF Knows
  <1>3. FundsReserved'
    BY <1>1, KeepReserved DEF IInv, TypeOK
  <1>4. new \in Accruals /\ new # "posting"
    OBVIOUS
  <1>5. pc[c] \in {"post", "release"} => call[c].reward = a
    OBVIOUS
  <1>6. Idle \in Memory
    BY IdleType
  <1> QED
    BY <1>1, <1>2, <1>3, <1>4, <1>5, <1>6, AccrualStep

-----------------------------------------------------------------------------
(* Mission accruals *)

\* What every step of a call leaves in type.
LEMMA CountersType ==
  ASSUME IInv, UNCHANGED counters
  PROVE  calls' \in 0..MaxCalls /\ faults' \in 0..MaxFaults /\ faults' >= faults
  BY DEF counters, IInv, TypeOK

LEMMA AccrualCall ==
  ASSUME IInv, NEW c \in Caller, pc[c] \in AccrualLabels
  PROVE  call[c].reward \in Accrual /\ call[c].reward \in Reward
  BY DEF IInv, TypeOK, Reward

LEMMA PayoutCall ==
  ASSUME IInv, NEW c \in Caller, pc[c] \in PayoutLabels
  PROVE  call[c].reward \in Payout /\ call[c].reward \in Reward
  BY Labels DEF IInv, TypeOK, Reward

LEMMA InsertAccrualStep ==
  ASSUME IInv, NEW c \in Caller, NEW a \in Accrual, InsertAccrual(c, a) \/ InsertSkipped(c, a)
  PROVE  IInv'
  <1>1. /\ UNCHANGED <<queue, enqueued, edge, levels, due, pool, posted, reversed, faults>>
        /\ calls' = calls + 1 /\ calls < MaxCalls
        /\ pc[c] = "idle"
    BY DEF InsertAccrual, InsertSkipped, Start, money, edges
  <1>2. calls' \in 0..MaxCalls /\ faults' \in 0..MaxFaults /\ faults' >= faults
    BY <1>1 DEF IInv, TypeOK
  <1>3. CASE InsertAccrual(c, a) /\ a \notin Delayed
    <2> DEFINE m == [Idle EXCEPT !.reward = a]
               label == "read"
               new == "pending"
    <2>1. /\ accrual' = [accrual EXCEPT ![a] = new]
          /\ pc' = [pc EXCEPT ![c] = label]
          /\ call' = [call EXCEPT ![c] = m]
      BY <1>3 DEF InsertAccrual, Start, Goto
    <2>2. m \in Memory /\ m.reward = a
      BY IdleType DEF Memory, Reward
    <2>3. /\ Knows(label, m) /\ new \in Accruals /\ new \notin {"released", "posting"}
          /\ label \in Label /\ m.reward \in About(label)
      BY <2>2 DEF Knows, Accruals, WaitingAccrual, Label, AccrualLabels, About
    <2>4. FundsReserved'
      BY <1>1, <2>1, KeepReserved DEF IInv, TypeOK
    <2> HIDE DEF m, label, new
    <2> QED
      BY <1>1, <1>2, <2>1, <2>2, <2>3, <2>4, AccrualStep
  <1>4. CASE InsertSkipped(c, a) \/ (InsertAccrual(c, a) /\ a \in Delayed)
    <2> DEFINE new == IF InsertSkipped(c, a) THEN "skipped" ELSE "pending_hold"
    <2>1. Finish(c) /\ \E s \in {"skipped", "pending_hold"} : accrual' = [accrual EXCEPT ![a] = s]
      BY <1>4 DEF InsertAccrual, InsertSkipped, Start, Finish
    <2>2. PICK s \in {"skipped", "pending_hold"} : accrual' = [accrual EXCEPT ![a] = s]
      BY <2>1
    <2>3. s \in Accruals \ {"posting"} /\ (s = "released" => a \in posted) /\ pc[c] # "enqueue"
      BY <1>1 DEF Accruals, WaitingAccrual
    <2> QED
      BY <1>1, <1>2, <2>1, <2>2, <2>3, LastAccrualStep
  <1> QED
    BY <1>3, <1>4

LEMMA ReleaseDueStep ==
  ASSUME IInv, NEW c \in Caller, NEW a \in Accrual, ReleaseDue(c, a)
  PROVE  IInv'
  <1> DEFINE m == [Idle EXCEPT !.reward = a]
  <1>1. m \in Memory /\ m.reward = a
    BY IdleType DEF Memory, Reward
  <1>2. Start(c, "read", m) /\ UNCHANGED <<accrual, queue, enqueued, pool, posted, reversed>>
    BY DEF ReleaseDue, rows, money
  <1> HIDE DEF m
  <1>3. Knows("read", m) /\ "read" \in Label /\ m.reward \in About("read")
    BY <1>1 DEF Knows, Label, AccrualLabels, About
  <1>4. pool' \in Int /\ pool' >= pool
    BY <1>2 DEF IInv, TypeOK
  <1> QED
    BY <1>1, <1>2, <1>3, <1>4, BeginStep

LEMMA ReadAccrualStep ==
  ASSUME IInv, NEW c \in Caller, ReadAccrual(c) \/ Halted(c)
  PROVE  IInv'
  <1>1. /\ pc[c] = "read"
        /\ UNCHANGED <<accrual, queue, enqueued, edge, levels, due, pool, posted, reversed>>
        /\ UNCHANGED <<calls, faults>>
        /\ (Goto(c, "gate") /\ UNCHANGED call) \/ Finish(c)
    BY DEF ReadAccrual, Halted, rows, edges, money, counters
  <1>2. edge' \in [Edge -> Edges] /\ calls' \in 0..MaxCalls /\ faults' \in 0..MaxFaults
        /\ faults' >= faults
    BY <1>1 DEF IInv, TypeOK
  <1>3. call[c].reward \in About("gate") /\ "gate" \in Label /\ Knows("gate", call[c])
    BY <1>1, AccrualCall DEF About, AccrualLabels, Label, Knows
  <1> QED
    BY <1>1, <1>2, <1>3, EndStep, GoOnStep

LEMMA SkipBlockedStep ==
  ASSUME IInv, NEW c \in Caller, SkipBlocked(c)
  PROVE  IInv'
  <1>1. /\ pc[c] = "gate" /\ Finish(c)
        /\ accrual' = [accrual EXCEPT ![call[c].reward] = "skipped"]
        /\ UNCHANGED <<queue, enqueued, edge, levels, due, pool, posted, reversed>>
        /\ UNCHANGED counters
    BY DEF SkipBlocked, edges, money
  <1>2. call[c].reward \in Accrual
    BY <1>1, AccrualCall DEF AccrualLabels
  <1>3. "skipped" \in Accruals \ {"posting"}
    BY DEF Accruals
  <1> QED
    BY <1>1, <1>2, <1>3, CountersType, LastAccrualStep

LEMMA CheckPoolStep ==
  ASSUME IInv, NEW c \in Caller, CheckPool(c)
  PROVE  IInv'
  <1> DEFINE a == call[c].reward
  <1>1. /\ pc[c] = "gate"
        /\ UNCHANGED <<queue, enqueued, edge, levels, due, pool, posted, reversed>>
        /\ UNCHANGED counters
    BY DEF CheckPool, edges, money
  <1>2. a \in Accrual /\ a \in Reward
    BY <1>1, AccrualCall DEF AccrualLabels
  <1>3. CASE pool < Amount[a]
    <2> DEFINE new == IF accrual[a] = "released" THEN "released" ELSE "queued_pool"
    <2>1. accrual' = [accrual EXCEPT ![a] = new] /\ Finish(c)
      BY <1>2, <1>3 DEF CheckPool, IInv, TypeOK
    <2>2. new \in Accruals \ {"posting"} /\ (new = "released" => a \in posted)
      BY <1>2 DEF Accruals, WaitingAccrual, IInv, RowsFollowJournals
    <2> HIDE DEF new
    <2> QED
      BY <1>1, <1>2, <2>1, <2>2, CountersType, LastAccrualStep
  <1>4. CASE ~(pool < Amount[a])
    <2>1. Goto(c, "mark") /\ UNCHANGED <<accrual, call>>
      BY <1>4 DEF CheckPool
    <2>2. pool >= Amount[a]
      BY <1>2, <1>4 DEF IInv, TypeOK
    <2>3. "mark" \in Label /\ a \in About("mark") /\ Knows("mark", call[c])
      BY <1>2 DEF Label, AccrualLabels, About, Knows
    <2>4. UNCHANGED <<calls, faults>> /\ edge' \in [Edge -> Edges]
      BY <1>1 DEF counters, IInv, TypeOK
    <2> QED
      BY <1>1, <2>1, <2>2, <2>3, <2>4, GoOnStep
  <1> QED
    BY <1>3, <1>4

LEMMA MarkPostingStep ==
  ASSUME IInv, NEW c \in Caller, MarkPosting(c)
  PROVE  IInv'
  <1> DEFINE m == call[c]
             a == m.reward
  <1>1. /\ pc[c] = "mark"
        /\ pc' = [pc EXCEPT ![c] = "post"]
        /\ accrual' = [accrual EXCEPT ![a] = "posting"]
        /\ UNCHANGED <<queue, enqueued, edge, levels, due, pool, posted, reversed, call>>
        /\ UNCHANGED counters
    BY DEF MarkPosting, Goto, edges, money
  <1>2. m \in Memory /\ a \in Accrual /\ call' = [call EXCEPT ![c] = m]
    BY <1>1, AccrualCall DEF AccrualLabels, IInv, TypeOK, Memory
  <1>3. "post" \in Label /\ a \in About("post") /\ Knows("post", m) /\ "posting" \in Accruals
    BY <1>2 DEF Label, AccrualLabels, About, Knows, Accruals
  <1>4. FundsReserved'
    <2>1. c \in Reserving /\ pc'[c] = "post" /\ pool' \in Int /\ pool' >= pool
      BY <1>1 DEF Reserving, IInv, TypeOK
    <2> QED
      BY <1>1, <2>1, KeepReserved DEF IInv, TypeOK
  <1> HIDE DEF m
  <1> QED
    BY <1>1, <1>2, <1>3, <1>4, CountersType, AccrualStep

LEMMA ReleaseStep ==
  ASSUME IInv, NEW c \in Caller, Release(c)
  PROVE  IInv'
  <1>1. /\ pc[c] = "release" /\ Finish(c)
        /\ accrual' = [accrual EXCEPT ![call[c].reward] = "released"]
        /\ UNCHANGED <<queue, enqueued, edge, levels, due, pool, posted, reversed>>
        /\ UNCHANGED counters
    BY DEF Release, edges, money
  <1>2. call[c].reward \in Accrual /\ call[c].reward \in posted
    BY <1>1, AccrualCall DEF AccrualLabels, IInv, CallsKnow, Knows, TypeOK, Label, Memory
  <1>3. "released" \in Accruals \ {"posting"}
    BY DEF Accruals
  <1> QED
    BY <1>1, <1>2, <1>3, CountersType, LastAccrualStep

LEMMA PostFailsStep ==
  ASSUME IInv, NEW c \in Caller, PostFails(c)
  PROVE  IInv'
  <1> DEFINE a == call[c].reward
             new == IF accrual[a] = "posting" THEN "queued_pool" ELSE accrual[a]
  <1>1. /\ pc[c] \in {"post", "release"} /\ Finish(c)
        /\ faults < MaxFaults /\ faults' = faults + 1
        /\ UNCHANGED <<queue, enqueued, edge, levels, due, pool, posted, reversed, calls>>
    BY DEF PostFails, edges, money
  <1>2. a \in Accrual
    BY <1>1, AccrualCall DEF AccrualLabels
  <1>3. accrual' = [accrual EXCEPT ![a] = new]
    BY <1>2 DEF PostFails, IInv, TypeOK
  <1>4. new \in Accruals \ {"posting"} /\ (new = "released" => a \in posted)
    BY <1>2 DEF Accruals, WaitingAccrual, IInv, TypeOK, RowsFollowJournals
  <1>5. calls' \in 0..MaxCalls /\ faults' \in 0..MaxFaults /\ faults' >= faults
    BY <1>1 DEF IInv, TypeOK
  <1> HIDE DEF new
  <1> QED
    BY <1>1, <1>2, <1>3, <1>4, <1>5, LastAccrualStep

(* The payout shares what the accrual does: the reward is paid, and what   *)
(* was reserved for it is spent.                                           *)
LEMMA PayStep ==
  ASSUME IInv, NEW c \in Reserving, NEW label \in {"release", "stamp"},
         Pay(call[c].reward),
         Goto(c, label),
         call[c].reward \in About(label),
         UNCHANGED <<accrual, queue, enqueued, edge, levels, due, call, calls, faults>>,
         pc[c] \in {"post", "release"} => label = "release",
         Knows(label, call[c])'
  PROVE  IInv'
  <1> DEFINE m == call[c]
  <1>1. c \in Caller /\ pc[c] # "enqueue"
    BY DEF Reserving
  <1>2. /\ m \in Memory /\ call' = [call EXCEPT ![c] = m] /\ label \in Label
        /\ pc' = [pc EXCEPT ![c] = label] /\ pc'[c] = label
        /\ m.reward \in Reward /\ m.reward \in posted'
        /\ Knows(label, m)'
    BY <1>1 DEF IInv, TypeOK, Memory, Label, AccrualLabels, PayoutLabels, Goto, Pay, Knows
  <1>3. pool \in Int /\ Amount[m.reward] \in 1..MaxAmount
    BY <1>2 DEF IInv, TypeOK
  <1>4. pool' \in Int /\ pool' >= pool - Amount[m.reward]
    BY <1>3 DEF Pay
  <1>5. RowsType'
    BY <1>2, <1>4 DEF IInv, TypeOK, RowsType, Pay
  <1>6. Grows
    BY DEF Grows, Pay, IInv, TypeOK
  <1>7. RowsFollowJournals' /\ LevelsKept
    BY DEF IInv, RowsFollowJournals, LevelsKept, Pay
  <1>8. PostingKept(c, label, m)
    BY <1>1 DEF PostingKept
  <1>9. FundsReserved'
    BY <1>1, <1>2, <1>4, Unreserve DEF IInv, TypeOK
  <1> HIDE DEF m
  <1> QED
    BY <1>1, <1>2, <1>5, <1>6, <1>7, <1>8, <1>9, Assemble DEF m

LEMMA PostAccrualStep ==
  ASSUME IInv, NEW c \in Caller, PostAccrual(c)
  PROVE  IInv'
  <1>1. /\ pc[c] = "post" /\ Pay(call[c].reward) /\ Goto(c, "release")
        /\ UNCHANGED <<accrual, queue, enqueued, edge, levels, due, call, calls, faults>>
    BY DEF PostAccrual, rows, edges, counters
  <1>2. c \in Reserving /\ call[c].reward \in About("release")
    BY <1>1, AccrualCall DEF Reserving, About, AccrualLabels
  <1>3. Knows("release", call[c])'
    BY <1>1 DEF Knows, Pay
  <1> QED
    BY <1>1, <1>2, <1>3, PayStep

-----------------------------------------------------------------------------
(* The referral ladder *)

\* A statement that writes rows of the queue, pays nothing, and records no level.
LEMMA QueueStep ==
  ASSUME IInv, NEW c \in Caller, NEW label \in Label, NEW m \in Memory,
         pc' = [pc EXCEPT ![c] = label],
         call' = [call EXCEPT ![c] = m],
         m.reward \in About(label),
         Knows(label, m) \/ Knows(label, m)',
         UNCHANGED <<accrual, edge, levels, pool, posted, reversed, calls, faults>>,
         due' \subseteq Reward,
         queue' \in [Payout -> Payouts],
         enqueued' \in [Payout -> Nat],
         \A p \in Payout :
            /\ queue[p] # "absent" => queue'[p] # "absent" /\ enqueued'[p] = enqueued[p]
            /\ queue'[p] = "released" => p \in posted,
         pc[c] \notin {"post", "release"},
         pc[c] = "enqueue" => queue'[call[c].reward] # "absent",
         FundsReserved'
  PROVE  IInv'
  <1>1. RowsType'
    BY DEF IInv, TypeOK, RowsType
  <1>2. Grows
    BY DEF Grows, IInv, TypeOK
  <1>3. RowsFollowJournals' /\ LevelsKept
    BY DEF IInv, RowsFollowJournals, LevelsKept
  <1>4. PostingKept(c, label, m)
    BY DEF PostingKept
  <1> QED
    BY <1>1, <1>2, <1>3, <1>4, Assemble

\* The calls that start from what they read.
LEMMA ClimbStarts ==
  ASSUME IInv, NEW c \in Caller, NEW e \in Edge, QualifyingDeposit(c, e) \/ MatchSuccess(c, e)
  PROVE  IInv'
  <1>1. PICK x \in Level :
          /\ Start(c, "climb",
                   [Idle EXCEPT !.reward = <<e, x>>, !.levels = levels[e], !.seen = edge[e]])
          /\ UNCHANGED <<accrual, queue, enqueued, pool, posted, reversed>>
    <2>1. QualifyingDeposit(c, e) =>
            Start(c, "climb", [Idle EXCEPT !.reward = <<e, "L2">>, !.levels = levels[e], !.seen = edge[e]])
      BY DEF QualifyingDeposit, L2
    <2>2. MatchSuccess(c, e) =>
            Start(c, "climb", [Idle EXCEPT !.reward = <<e, "L3">>, !.levels = levels[e], !.seen = edge[e]])
      BY DEF MatchSuccess
    <2>3. UNCHANGED <<accrual, queue, enqueued, pool, posted, reversed>>
      BY DEF QualifyingDeposit, MatchSuccess, rows, money
    <2>4. "L2" \in Level /\ "L3" \in Level
      BY DEF Level
    <2> QED
      BY <2>1, <2>2, <2>3, <2>4
  <1> DEFINE m == [Idle EXCEPT !.reward = <<e, x>>, !.levels = levels[e], !.seen = edge[e]]
  <1>2. /\ m \in Memory /\ m.reward = <<e, x>> /\ m.levels = levels[e]
        /\ <<e, x>> \in Payout /\ pool' \in Int /\ pool' >= pool
    <2>1. levels[e] \in SUBSET Level /\ edge[e] \in Edges /\ pool \in Int
      BY DEF IInv, TypeOK
    <2>2. <<e, x>> \in Payout /\ <<e, x>> \in Reward
      BY DEF Payout, Reward
    <2>3. /\ m.reward = <<e, x>> /\ m.levels = levels[e]
          /\ m \in Memory
      BY <2>1, <2>2, IdleType DEF Memory
    <2> QED
      BY <1>1, <2>1, <2>2, <2>3
  <1>5. Start(c, "climb", m) /\ UNCHANGED <<accrual, queue, enqueued, posted, reversed>>
    BY <1>1
  <1> HIDE DEF m
  <1>3. "climb" \in Label /\ m.reward \in About("climb")
    BY <1>2 DEF Label, PayoutLabels, AccrualLabels, About
  <1>4. Knows("climb", m)
    <2>1. \A y \in levels[e] : <<e, y>> \in Payout
      BY DEF IInv, TypeOK, Payout
    <2>2. \A y \in m.levels : Backed(<<EdgeOf(m.reward), y>>)
      BY <1>2, <2>1 DEF IInv, LevelsAreBacked, EdgeOf
    <2> QED
      BY <2>2 DEF Knows
  <1> QED
    BY <1>5, <1>2, <1>3, <1>4, BeginStep

LEMMA ClimbStep ==
  ASSUME IInv, NEW c \in Caller, Climb(c)
  PROVE  IInv'
  <1> DEFINE m == call[c]
             p == m.reward
  <1>1. /\ pc[c] = "climb"
        /\ edge' = [edge EXCEPT ![EdgeOf(p)] = ClimbedStatus(p, m.seen)]
        /\ levels' = [levels EXCEPT ![EdgeOf(p)] = m.levels \cup {p[2]}]
        /\ pc' = [pc EXCEPT ![c] = "enqueue"]
        /\ UNCHANGED <<accrual, queue, enqueued, due, pool, posted, reversed, call, calls, faults>>
    BY DEF Climb, Goto, rows, money, counters
  <1>2. /\ m \in Memory /\ p \in Payout /\ p \in Reward /\ call' = [call EXCEPT ![c] = m]
        /\ pc'[c] = "enqueue" /\ call'[c] = m
    BY <1>1, PayoutCall DEF PayoutLabels, IInv, TypeOK, Memory
  <1>3. "enqueue" \in Label /\ p \in About("enqueue") /\ Knows("enqueue", m)
    BY <1>2 DEF Label, PayoutLabels, AccrualLabels, About, Knows
  <1>4. ClimbedStatus(p, m.seen) \in Edges
    BY DEF ClimbedStatus, Edges
  <1>5. RowsType'
    <2>1. m.levels \cup {p[2]} \in SUBSET Level /\ EdgeOf(p) \in Edge
      BY <1>2, PayoutType DEF Memory
    <2> QED
      BY <1>1, <1>4, <2>1 DEF IInv, TypeOK, RowsType
  <1>6. Grows /\ RowsFollowJournals'
    BY <1>1 DEF Grows, IInv, TypeOK, RowsFollowJournals
  <1>7. PostingKept(c, "enqueue", m)
    BY <1>1 DEF PostingKept
  <1>8. LevelsKept
    <2> SUFFICES ASSUME NEW q \in Payout, q[2] \in levels'[EdgeOf(q)], q[2] \notin levels[EdgeOf(q)]
                 PROVE  Backed(q) \/ Backed(q)'
      BY DEF LevelsKept
    <2>1. EdgeOf(q) = EdgeOf(p) /\ q[2] \in m.levels \cup {p[2]}
      BY <1>1, <1>2, PayoutType DEF IInv, TypeOK
    <2>2. q = <<EdgeOf(p), q[2]>> /\ p = <<EdgeOf(p), p[2]>>
      BY <1>2, <2>1, PayoutType
    <2>3. CASE q[2] \in m.levels
      <3>1. Knows("climb", m)
        BY <1>1, <1>2 DEF IInv, CallsKnow, Label, PayoutLabels
      <3> QED
        BY <2>2, <2>3, <3>1 DEF Knows
    <2>4. CASE q[2] = p[2]
      BY <1>2, <2>2, <2>4 DEF Backed
    <2> QED
      BY <2>1, <2>3, <2>4
  <1>9. FundsReserved'
    BY <1>1, KeepReserved DEF IInv, TypeOK
  <1> HIDE DEF m
  <1> QED
    BY <1>1, <1>2, <1>3, <1>5, <1>6, <1>7, <1>8, <1>9, Assemble DEF m

LEMMA EnqueueStep ==
  ASSUME IInv, NEW c \in Caller, Enqueue(c)
  PROVE  IInv'
  <1> DEFINE p == call[c].reward
             first == FirstStatus(p)
             status == IF queue[p] = "absent" THEN first
                       ELSE IF first = "pending" THEN "pending" ELSE "held"
  <1>1. /\ pc[c] = "enqueue"
        /\ UNCHANGED <<accrual, edge, levels, due, pool, posted, reversed, calls, faults>>
        /\ AfterEnqueue(c, p, status)
    BY DEF Enqueue, edges, money, counters
  <1>2. p \in Payout /\ p \in Reward /\ call[c] \in Memory
    BY <1>1, PayoutCall DEF PayoutLabels, IInv, TypeOK, Memory
  <1>3. first \in {"queued_pool", "held", "pending"}
    BY DEF FirstStatus
  <1>4. /\ queue' \in [Payout -> Payouts]
        /\ enqueued' \in [Payout -> Nat]
        /\ \A q \in Payout :
              /\ queue[q] # "absent" => queue'[q] # "absent" /\ enqueued'[q] = enqueued[q]
              /\ queue'[q] = "released" => q \in posted
        /\ queue'[p] # "absent"
    <2>1. CASE queue[p] = "absent"
      <3>1. queue' = [queue EXCEPT ![p] = first] /\ enqueued' = [enqueued EXCEPT ![p] = Rank]
        BY <2>1 DEF Enqueue
      <3>2. first \in Payouts /\ first # "absent" /\ first # "released"
        BY <1>3 DEF Payouts, WaitingPayout
      <3> HIDE DEF first
      <3> QED
        BY <1>2, <2>1, <3>1, <3>2, RankType DEF IInv, TypeOK, RowsFollowJournals
    <2>2. CASE queue[p] # "absent"
      BY <2>2 DEF Enqueue, IInv, TypeOK, RowsFollowJournals
    <2> QED
      BY <2>1, <2>2
  <1>5. \E label \in {"park", "select", "idle"}, m \in Memory :
            /\ pc' = [pc EXCEPT ![c] = label]
            /\ call' = [call EXCEPT ![c] = m]
            /\ m.reward \in Payout
    <2>1. /\ \E label \in {"park", "select", "idle"} : pc' = [pc EXCEPT ![c] = label]
          /\ call' = call \/ call' = [call EXCEPT ![c] = Idle]
      BY <1>1 DEF AfterEnqueue, Finish, Goto
    <2>2. call' = call => call' = [call EXCEPT ![c] = call[c]]
      BY DEF IInv, TypeOK
    <2> QED
      BY <1>2, <2>1, <2>2, IdleType
  <1>6. PICK label \in {"park", "select", "idle"}, m \in Memory :
            /\ pc' = [pc EXCEPT ![c] = label]
            /\ call' = [call EXCEPT ![c] = m]
            /\ m.reward \in Payout
    BY <1>5
  <1>7. label \in Label /\ m.reward \in About(label) /\ Knows(label, m)
    BY <1>6 DEF Label, PayoutLabels, AccrualLabels, About, Knows
  <1>8. FundsReserved' /\ due' \subseteq Reward
    BY <1>1, <1>6, KeepReserved DEF IInv, TypeOK
  <1>9. pc[c] \notin {"post", "release"}
    BY <1>1
  <1> QED
    BY <1>1, <1>4, <1>6, <1>7, <1>8, <1>9, QueueStep

LEMMA ParkStep ==
  ASSUME IInv, NEW c \in Caller, Park(c) \/ CloseEdge(c)
  PROVE  IInv'
  <1>1. /\ pc[c] \in {"park", "close"} /\ Finish(c)
        /\ \E s \in {"queued_pool", "clawed_back"} :
              edge' = [edge EXCEPT ![EdgeOf(call[c].reward)] = s]
        /\ UNCHANGED <<accrual, queue, enqueued, levels, due, pool, posted, reversed>>
        /\ UNCHANGED counters
    BY DEF Park, CloseEdge, rows, money
  <1>2. edge' \in [Edge -> Edges]
    BY <1>1 DEF IInv, TypeOK, Edges
  <1> QED
    BY <1>1, <1>2, CountersType, EndStep

-----------------------------------------------------------------------------
(* The referral queue *)

\* The calls that start knowing nothing but the edge they are about.
LEMMA QuietStarts ==
  ASSUME IInv, NEW c \in Caller,
         \/ TopUp(c) \/ ReleaseDueHolds(c)
         \/ \E e \in Edge : AdminRelease(c, e)
         \/ \E e \in Edge, k \in ClawKey : Clawback(c, e, k)
  PROVE  IInv'
  <1> DEFINE Starts(label, m) ==
                /\ Start(c, label, m)
                /\ m.reward \in Payout
                /\ label = "lookup" => m.reward = L2(EdgeOf(m.reward))
  <1>1. \E label \in {"select", "waive", "lookup"}, m \in Memory : Starts(label, m)
    <2>1. ASSUME TopUp(c) \/ ReleaseDueHolds(c)
          PROVE  Start(c, "select", Idle) /\ Idle \in Memory /\ Idle.reward \in Payout
      BY <2>1, IdleType DEF TopUp, ReleaseDueHolds
    <2>2. ASSUME NEW e \in Edge, AdminRelease(c, e)
          PROVE  \E m \in Memory : Start(c, "waive", m) /\ m.reward \in Payout
      <3> DEFINE m == [Idle EXCEPT !.reward = L2(e)]
      <3>1. Start(c, "waive", m)
        BY <2>2 DEF AdminRelease
      <3>2. m \in Memory /\ m.reward \in Payout
        BY L2Type, IdleType DEF Memory
      <3> HIDE DEF m
      <3> QED
        BY <3>1, <3>2
    <2>3. ASSUME NEW e \in Edge, NEW k \in ClawKey, Clawback(c, e, k)
          PROVE  \E m \in Memory : Starts("lookup", m)
      <3> DEFINE m == [Idle EXCEPT !.reward = L2(e), !.seen = edge[e], !.key = k]
      <3>1. Start(c, "lookup", m)
        BY <2>3 DEF Clawback
      <3>2. m \in Memory /\ m.reward = L2(e)
        BY L2Type, IdleType DEF Memory, IInv, TypeOK
      <3> HIDE DEF m
      <3> QED
        BY <3>1, <3>2, L2Type
    <2> QED
      BY <2>1, <2>2, <2>3
  <1>2. PICK label \in {"select", "waive", "lookup"}, m \in Memory :
            /\ Start(c, label, m)
            /\ m.reward \in Payout
            /\ label = "lookup" => m.reward = L2(EdgeOf(m.reward))
    BY <1>1
  <1>3. label \in Label /\ m.reward \in About(label) /\ Knows(label, m)
        /\ label \notin {"mark", "post", "pay"}
    BY <1>2 DEF Label, PayoutLabels, AccrualLabels, About, Knows
  <1>4. /\ UNCHANGED <<accrual, queue, enqueued, posted, reversed>>
        /\ pool' \in Int /\ pool' >= pool
    <2>1. pool \in Int /\ TopUpAmount \in Nat
      BY DEF IInv, TypeOK
    <2>2. /\ UNCHANGED <<accrual, queue, enqueued, posted, reversed>>
          /\ pool' = pool + TopUpAmount \/ pool' = pool
      BY DEF TopUp, ReleaseDueHolds, AdminRelease, Clawback, rows, money
    <2> QED
      BY <2>1, <2>2
  <1> QED
    BY <1>2, <1>3, <1>4, BeginStep

LEMMA WaiveStep ==
  ASSUME IInv, NEW c \in Caller, Waive(c)
  PROVE  IInv'
  <1> DEFINE m == call[c]
             mine == {p \in Payout : EdgeOf(p) = EdgeOf(m.reward) /\ queue[p] \in WaitingPayout}
  <1>1. /\ pc[c] = "waive" /\ pc' = [pc EXCEPT ![c] = "reopen"]
        /\ due' = due \cup mine
        /\ queue' = [p \in Payout |-> IF p \in mine /\ queue[p] = "held" THEN "pending" ELSE queue[p]]
        /\ UNCHANGED <<accrual, enqueued, edge, levels, pool, posted, reversed, call, calls, faults>>
    BY DEF Waive, Goto, edges, money, counters
  <1>2. /\ m \in Memory /\ m.reward \in Payout /\ call' = [call EXCEPT ![c] = m]
        /\ mine \subseteq Reward
    BY <1>1, PayoutCall DEF PayoutLabels, IInv, TypeOK, Memory, Reward
  <1>3. /\ queue' \in [Payout -> Payouts] /\ due' \subseteq Reward /\ enqueued' \in [Payout -> Nat]
        /\ \A p \in Payout :
              /\ queue[p] # "absent" => queue'[p] # "absent" /\ enqueued'[p] = enqueued[p]
              /\ queue'[p] = "released" => p \in posted
    BY <1>1, <1>2 DEF IInv, TypeOK, RowsFollowJournals, Payouts, WaitingPayout
  <1>4. "reopen" \in Label /\ m.reward \in About("reopen") /\ Knows("reopen", m)
    BY <1>2 DEF Label, PayoutLabels, AccrualLabels, About, Knows
  <1>5. FundsReserved'
    BY <1>1, KeepReserved DEF IInv, TypeOK
  <1> HIDE DEF m
  <1> QED
    BY <1>1, <1>2, <1>3, <1>4, <1>5, QueueStep DEF m

LEMMA ReopenStep ==
  ASSUME IInv, NEW c \in Caller, Reopen(c)
  PROVE  IInv'
  <1>1. /\ pc[c] = "reopen" /\ Goto(c, "select")
        /\ edge' = [edge EXCEPT ![EdgeOf(call[c].reward)] = "l2_pending_hold"]
        /\ UNCHANGED <<accrual, queue, enqueued, levels, due, pool, posted, reversed, call,
                       calls, faults>>
    BY DEF Reopen, rows, money, counters
  <1>2. edge' \in [Edge -> Edges]
    BY <1>1 DEF IInv, TypeOK, Edges
  <1>3. call[c].reward \in About("select") /\ "select" \in Label /\ Knows("select", call[c])
    BY <1>1, PayoutCall DEF About, AccrualLabels, PayoutLabels, Label, Knows
  <1> QED
    BY <1>1, <1>2, <1>3, GoOnStep

\* The next row of a batch: it is the oldest that is left.
LEMMA NextRowStep ==
  ASSUME IInv, NEW c \in Caller, NEW batch \in SUBSET Payout, NEW todo \in SUBSET batch,
         NextRow(c, batch, todo),
         pc[c] \in {"select", "promote"},
         \A q \in batch : queue[q] # "absent",
         \A q \in batch \ todo : q \in posted,
         UNCHANGED <<accrual, queue, enqueued, levels, due, pool, posted, reversed, calls, faults>>,
         edge' \in [Edge -> Edges]
  PROVE  IInv'
  <1>1. /\ due' \subseteq Reward /\ pool' \in Int /\ pool' >= pool
        /\ calls' \in 0..MaxCalls /\ faults' \in 0..MaxFaults /\ faults' >= faults
    BY DEF IInv, TypeOK
  <1>2. CASE Finish(c)
    BY <1>1, <1>2, EndStep
  <1>3. ASSUME NEW p \in todo, Earliest(p, todo), Goto(c, "drain"),
               call' = [call EXCEPT ![c] = [Idle EXCEPT !.reward = p, !.batch = batch, !.todo = todo]]
        PROVE  IInv'
    <2> DEFINE m == [Idle EXCEPT !.reward = p, !.batch = batch, !.todo = todo]
    <2>1. /\ m \in Memory /\ m.reward = p /\ m.batch = batch /\ m.todo = todo
          /\ p \in Payout
      BY IdleType DEF Memory, Reward
    <2>2. pc' = [pc EXCEPT ![c] = "drain"] /\ call' = [call EXCEPT ![c] = m]
      BY <1>3 DEF Goto
    <2> HIDE DEF m
    <2>3. "drain" \in Label /\ m.reward \in About("drain") /\ Knows("drain", m)
      BY <1>3, <2>1 DEF Label, PayoutLabels, AccrualLabels, About, Knows
    <2>4. FundsReserved'
      BY <1>1, <2>2, KeepReserved DEF IInv, TypeOK
    <2> QED
      BY <1>1, <2>1, <2>2, <2>3, <2>4, QuietStep
  <1> QED
    BY <1>2, <1>3 DEF NextRow

LEMMA SelectStep ==
  ASSUME IInv, NEW c \in Caller, Select(c)
  PROVE  IInv'
  <1>1. /\ pc[c] \in {"select", "promote"} /\ NextRow(c, Eligible, Eligible)
        /\ UNCHANGED <<accrual, queue, enqueued, levels, due, pool, posted, reversed, calls, faults>>
        /\ UNCHANGED edge
    BY DEF Select, rows, edges, money, counters
  <1>2. edge' \in [Edge -> Edges]
    BY <1>1 DEF IInv, TypeOK
  <1>3. Eligible \in SUBSET Payout /\ \A q \in Eligible : queue[q] # "absent"
    BY DEF Eligible, WaitingPayout
  <1> HIDE DEF Eligible
  <1> QED
    BY <1>1, <1>2, <1>3, NextRowStep

\* What a call between two rows knows of its batch.
LEMMA DrainKnows ==
  ASSUME IInv, NEW c \in Caller, pc[c] \in {"drain", "pay", "stamp", "promote"}
  PROVE  /\ call[c] \in Memory /\ call[c].reward \in Payout /\ call[c].reward \in Reward
         /\ Knows(pc[c], call[c]) /\ pc[c] \in Label
         /\ call[c].batch \subseteq Payout /\ call[c].todo \subseteq call[c].batch
         /\ call[c].reward \in call[c].todo
         /\ queue[call[c].reward] # "absent"
         /\ \A q \in call[c].batch : queue[q] # "absent"
         /\ \A q \in call[c].batch \ call[c].todo : q \in posted
  <1>1. /\ call[c] \in Memory /\ pc[c] \in Label
        /\ call[c].reward \in Payout /\ call[c].reward \in Reward
    BY PayoutCall DEF PayoutLabels, IInv, TypeOK, Memory, Label
  <1>2. Knows(pc[c], call[c])
    BY <1>1 DEF IInv, CallsKnow
  <1> QED
    BY <1>1, <1>2 DEF Knows, Memory, Earliest

LEMMA FundsStep ==
  ASSUME IInv, NEW c \in Caller, Funds(c)
  PROVE  IInv'
  <1> DEFINE m == call[c]
             p == m.reward
  <1>1. /\ pc[c] = "drain"
        /\ UNCHANGED <<accrual, enqueued, edge, levels, due, pool, posted, reversed, call,
                       calls, faults>>
    BY DEF Funds, edges, money, counters
  <1>2. /\ m \in Memory /\ p \in Payout /\ p \in Reward /\ call' = [call EXCEPT ![c] = m]
        /\ Knows("drain", m) /\ queue[p] # "absent"
    BY <1>1, DrainKnows DEF IInv, TypeOK
  <1>3. CASE pool < Amount[p]
    <2> DEFINE new == IF queue[p] = "released" THEN "released" ELSE "queued_pool"
    <2>1. queue' = [queue EXCEPT ![p] = new] /\ pc' = [pc EXCEPT ![c] = "park"]
      BY <1>2, <1>3 DEF Funds, Goto, IInv, TypeOK
    <2>2. new \in Payouts /\ new # "absent" /\ (new = "released" => p \in posted)
      BY <1>2 DEF Payouts, WaitingPayout, IInv, RowsFollowJournals
    <2> HIDE DEF new
    <2>3. /\ queue' \in [Payout -> Payouts] /\ enqueued' \in [Payout -> Nat] /\ due' \subseteq Reward
          /\ \A q \in Payout :
                /\ queue[q] # "absent" => queue'[q] # "absent" /\ enqueued'[q] = enqueued[q]
                /\ queue'[q] = "released" => q \in posted
      BY <1>1, <1>2, <2>1, <2>2 DEF IInv, TypeOK, RowsFollowJournals
    <2>4. "park" \in Label /\ p \in About("park") /\ Knows("park", m)
      BY <1>2 DEF Label, PayoutLabels, AccrualLabels, About, Knows
    <2>5. FundsReserved'
      BY <1>1, <2>1, KeepReserved DEF IInv, TypeOK
    <2> HIDE DEF m
    <2> QED
      BY <1>1, <1>2, <2>1, <2>3, <2>4, <2>5, QueueStep DEF m
  <1>4. CASE ~(pool < Amount[p])
    <2>1. Goto(c, "pay") /\ UNCHANGED queue
      BY <1>4 DEF Funds
    <2>2. pool >= Amount[p]
      BY <1>2, <1>4 DEF IInv, TypeOK
    <2>3. "pay" \in Label /\ p \in About("pay") /\ Knows("pay", m)
      BY <1>2 DEF Label, PayoutLabels, AccrualLabels, About, Knows
    <2>4. edge' \in [Edge -> Edges]
      BY <1>1 DEF IInv, TypeOK
    <2> QED
      BY <1>1, <2>1, <2>2, <2>3, <2>4, GoOnStep
  <1> QED
    BY <1>3, <1>4

LEMMA PostPayoutStep ==
  ASSUME IInv, NEW c \in Caller, PostPayout(c)
  PROVE  IInv'
  <1>1. /\ pc[c] = "pay" /\ Pay(call[c].reward) /\ Goto(c, "stamp")
        /\ UNCHANGED <<accrual, queue, enqueued, edge, levels, due, call, calls, faults>>
    BY DEF PostPayout, rows, edges, counters
  <1>2. c \in Reserving /\ call[c].reward \in About("stamp")
    BY <1>1, DrainKnows DEF Reserving, About, AccrualLabels
  <1>3. Knows("stamp", call[c])'
    BY <1>1, DrainKnows DEF Knows, Pay, Earliest
  <1> QED
    BY <1>1, <1>2, <1>3, PayStep

\* The two statements that overwrite the row a call is about, by its id.
LEMMA StampStep ==
  ASSUME IInv, NEW c \in Caller, Stamp(c) \/ Strike(c)
  PROVE  IInv'
  <1> DEFINE m == call[c]
             p == m.reward
  <1>1. /\ pc[c] \in {"stamp", "strike"}
        /\ UNCHANGED <<accrual, enqueued, edge, levels, due, pool, posted, reversed, call,
                       calls, faults>>
    BY DEF Stamp, Strike, edges, money, counters
  <1>2. /\ m \in Memory /\ p \in Payout /\ call' = [call EXCEPT ![c] = m]
        /\ pc[c] = "stamp" => p \in posted /\ Knows("stamp", m)
    BY <1>1, PayoutCall, DrainKnows DEF PayoutLabels, Knows, IInv, TypeOK, Memory
  <1>3. PICK new \in {"released", "clawed_back"}, label \in {"promote", "close"} :
          /\ queue' = [queue EXCEPT ![p] = new] /\ pc' = [pc EXCEPT ![c] = label]
          /\ pc[c] = "stamp" <=> new = "released"
          /\ pc[c] = "stamp" <=> label = "promote"
    BY <1>1 DEF Stamp, Strike, Goto
  <1>4. /\ queue' \in [Payout -> Payouts] /\ enqueued' \in [Payout -> Nat] /\ due' \subseteq Reward
        /\ \A q \in Payout :
              /\ queue[q] # "absent" => queue'[q] # "absent" /\ enqueued'[q] = enqueued[q]
              /\ queue'[q] = "released" => q \in posted
    BY <1>1, <1>2, <1>3 DEF IInv, TypeOK, RowsFollowJournals, Payouts
  <1>5. label \in Label /\ p \in About(label) /\ Knows(label, m)
    BY <1>2, <1>3 DEF Label, PayoutLabels, AccrualLabels, About, Knows
  <1>6. FundsReserved'
    BY <1>1, <1>3, KeepReserved DEF IInv, TypeOK
  <1>7. pc[c] \notin {"post", "release", "enqueue"}
    BY <1>1
  <1> HIDE DEF m
  <1> QED
    BY <1>1, <1>2, <1>3, <1>4, <1>5, <1>6, <1>7, QueueStep DEF m

LEMMA PromoteStep ==
  ASSUME IInv, NEW c \in Caller, Promote(c)
  PROVE  IInv'
  <1> DEFINE m == call[c]
             left == m.todo \ {m.reward}
  <1>1. /\ pc[c] = "promote"
        /\ edge' = [edge EXCEPT ![EdgeOf(m.reward)] =
                      IF m.reward[2] = "L3" THEN "l3_done" ELSE "l2_released"]
        /\ NextRow(c, m.batch, left)
        /\ UNCHANGED <<accrual, queue, enqueued, levels, due, pool, posted, reversed, calls, faults>>
    BY DEF Promote, rows, money, counters
  <1>2. /\ m.batch \in SUBSET Payout /\ left \in SUBSET m.batch
        /\ \A q \in m.batch : queue[q] # "absent"
        /\ \A q \in m.batch \ left : q \in posted
    BY <1>1, DrainKnows DEF Knows
  <1>3. edge' \in [Edge -> Edges]
    BY <1>1 DEF IInv, TypeOK, Edges
  <1> HIDE DEF m, left
  <1> QED
    BY <1>1, <1>2, <1>3, NextRowStep

-----------------------------------------------------------------------------
(* Clawback *)

LEMMA LookupStep ==
  ASSUME IInv, NEW c \in Caller, Lookup(c) \/ Unreversed(c)
  PROVE  IInv'
  <1> DEFINE p == call[c].reward
  <1>1. /\ pc[c] \in {"lookup", "reverse"}
        /\ UNCHANGED <<accrual, queue, enqueued, edge, levels, due, pool, posted, reversed>>
        /\ UNCHANGED <<calls, faults>>
    BY DEF Lookup, Unreversed, rows, edges, money, counters
  <1>2. /\ p \in Payout /\ call[c] \in Memory
        /\ pc[c] = "lookup" => p = L2(EdgeOf(p))
    BY <1>1, PayoutCall DEF PayoutLabels, IInv, TypeOK, CallsKnow, Knows, Label, Memory
  <1>3. /\ edge' \in [Edge -> Edges]
        /\ calls' \in 0..MaxCalls /\ faults' \in 0..MaxFaults /\ faults' >= faults
    BY <1>1 DEF IInv, TypeOK
  <1>4. CASE Finish(c)
    BY <1>1, <1>3, <1>4, EndStep
  <1>5. ASSUME NEW label \in {"reverse", "strike", "close"}, Goto(c, label), UNCHANGED call,
               pc[c] = "lookup", label = "reverse" => queue[p] = "released"
        PROVE  IInv'
    <2>1. label = "reverse" => p \in posted
      BY <1>2, <1>5 DEF IInv, RowsFollowJournals
    <2>2. label \in Label /\ p \in About(label) /\ Knows(label, call[c])
      BY <1>2, <1>5, <2>1 DEF Label, PayoutLabels, AccrualLabels, About, Knows
    <2>3. label \notin {"mark", "post", "pay"}
      BY <1>5
    <2> QED
      BY <1>1, <1>3, <1>5, <2>2, <2>3, GoOnStep
  <1> QED
    BY <1>4, <1>5 DEF Lookup, Unreversed

LEMMA ReverseStep ==
  ASSUME IInv, NEW c \in Caller, Reverse(c)
  PROVE  IInv'
  <1> DEFINE m == call[c]
             p == m.reward
             r == <<EdgeOf(p), m.key>>
  <1>1. /\ pc[c] = "reverse" /\ pc' = [pc EXCEPT ![c] = "strike"]
        /\ reversed' = reversed \cup {r}
        /\ pool' = IF r \in reversed THEN pool ELSE pool + Amount[p]
        /\ UNCHANGED <<accrual, queue, enqueued, edge, levels, due, posted, call, calls, faults>>
    BY DEF Reverse, Goto, rows, edges, counters
  <1>2. /\ m \in Memory /\ p \in Payout /\ p \in Reward /\ call' = [call EXCEPT ![c] = m]
        /\ EdgeOf(p) \in Edge /\ r \in Edge \X ClawKey
    BY <1>1, PayoutCall, PayoutType DEF PayoutLabels, IInv, TypeOK, Memory
  <1>3. p \in posted /\ L2(r[1]) = p
    BY <1>1, <1>2 DEF IInv, CallsKnow, Knows, Label, PayoutLabels
  <1>4. pool \in Int /\ Amount[p] \in 1..MaxAmount
    BY <1>2 DEF IInv, TypeOK
  <1>5. pool' \in Int /\ pool' >= pool
    BY <1>1, <1>4
  <1>6. RowsType'
    BY <1>1, <1>2, <1>5 DEF IInv, TypeOK, RowsType
  <1>7. Grows /\ LevelsKept
    BY <1>1 DEF Grows, LevelsKept, IInv, TypeOK
  <1>8. RowsFollowJournals'
    BY <1>1, <1>3 DEF IInv, RowsFollowJournals
  <1>9. PostingKept(c, "strike", m)
    BY <1>1 DEF PostingKept
  <1>10. FundsReserved'
    BY <1>1, <1>5, KeepReserved DEF IInv, TypeOK
  <1>11. "strike" \in Label /\ p \in About("strike") /\ Knows("strike", m)
    BY <1>2 DEF Label, PayoutLabels, AccrualLabels, About, Knows
  <1> HIDE DEF m
  <1> QED
    BY <1>1, <1>2, <1>6, <1>7, <1>8, <1>9, <1>10, <1>11, Assemble DEF m

-----------------------------------------------------------------------------
(* All steps *)

LEMMA FaultStep ==
  ASSUME IInv, NEW c \in Caller, Fault(c)
  PROVE  IInv'
  <1>1. /\ Finish(c) /\ faults' = faults + 1 /\ faults < MaxFaults
        /\ UNCHANGED <<accrual, queue, enqueued, edge, levels, due, pool, posted, reversed, calls>>
    BY DEF Fault, rows, edges, money
  <1>2. /\ edge' \in [Edge -> Edges] /\ calls' \in 0..MaxCalls
        /\ faults' \in 0..MaxFaults /\ faults' >= faults /\ faults' > 0
    BY <1>1 DEF IInv, TypeOK
  <1> QED
    BY <1>1, <1>2, EndStep

\* A hold that passes, and a step that changes nothing.
LEMMA NoCallStep ==
  ASSUME IInv, UNCHANGED <<rows, edges, money, pc, call, counters>>, due' \subseteq Reward
  PROVE  IInv'
  <1>1. UNCHANGED <<accrual, queue, enqueued, edge, levels, pool, posted, reversed, pc, call,
                    calls, faults>>
    BY DEF rows, edges, money, counters
  <1>2. TypeOK'
    BY <1>1 DEF IInv, TypeOK
  <1>3. \A p \in Payout : Backed(p)' <=> Backed(p)
    BY <1>1 DEF Backed
  <1>4. LevelsAreBacked' /\ PostingHasItsCall'
    BY <1>1, <1>3 DEF IInv, LevelsAreBacked, PostingHasItsCall
  <1>5. CallsKnow'
    <2>1. Grows
      BY <1>1 DEF Grows, IInv, TypeOK
    <2> SUFFICES ASSUME NEW c \in Caller, NEW label \in Label, NEW m \in Memory,
                        label = pc[c], m = call[c]
                 PROVE  Knows(label, m)'
      BY <1>1 DEF CallsKnow
    <2>2. Knows(label, m) /\ m.reward \in About(label)
      BY DEF IInv, TypeOK, CallsKnow, About
    <2> QED
      BY <1>3, <2>1, <2>2, KnowsStays
  <1>6. RowsFollowJournals' /\ FundsReserved'
    BY <1>1 DEF IInv, RowsFollowJournals, FundsReserved, Reserving, Slack
  <1> QED
    BY <1>2, <1>4, <1>5, <1>6 DEF IInv

LEMMA StepIInv == IInv /\ [Next]_vars => IInv'
  <1> SUFFICES ASSUME IInv, [Next]_vars
               PROVE  IInv'
    OBVIOUS
  <1>1. ASSUME NEW c \in Caller, Begin(c)
        PROVE  IInv'
    BY <1>1, InsertAccrualStep, ReleaseDueStep, ClimbStarts, QuietStarts DEF Begin
  <1>2. ASSUME NEW c \in Caller, MissionStep(c)
        PROVE  IInv'
    BY <1>2, ReadAccrualStep, SkipBlockedStep, CheckPoolStep, MarkPostingStep, PostAccrualStep,
       ReleaseStep DEF MissionStep
  <1>3. ASSUME NEW c \in Caller, ReferralStep(c)
        PROVE  IInv'
    BY <1>3, ClimbStep, EnqueueStep, ParkStep, WaiveStep, ReopenStep, SelectStep, FundsStep,
       PostPayoutStep, StampStep, PromoteStep DEF ReferralStep
  <1>4. ASSUME NEW c \in Caller, ClawbackStep(c)
        PROVE  IInv'
    BY <1>4, LookupStep, ReverseStep, StampStep, ParkStep DEF ClawbackStep
  <1>5. ASSUME NEW r \in Reward, HoldElapses(r)
        PROVE  IInv'
    BY <1>5, NoCallStep DEF HoldElapses, IInv, TypeOK
  <1>6. CASE UNCHANGED vars
    <2>1. UNCHANGED <<rows, edges, money, pc, call, counters>> /\ due' \subseteq Reward
      BY <1>6 DEF vars, IInv, TypeOK
    <2> QED
      BY <2>1, NoCallStep
  <1> QED
    BY <1>1, <1>2, <1>3, <1>4, <1>5, <1>6, PostFailsStep, FaultStep DEF Next

LEMMA InitIInv == Init => IInv
  <1> SUFFICES ASSUME Init
               PROVE  IInv
    OBVIOUS
  <1>1. TypeOK
    <2>1. /\ Opening \in Int /\ 0 \in 0..MaxCalls /\ 0 \in 0..MaxFaults
          /\ "idle" \in PayoutLabels /\ "idle" \notin AccrualLabels
          /\ "absent" \in Accruals /\ "absent" \in Payouts /\ "bound" \in Edges
      BY DEF PayoutLabels, AccrualLabels, Accruals, Payouts, Edges
    <2>2. (Accrual \ Delayed) \cup (Edge \X {"L3"}) \subseteq Reward
      BY DEF Reward, Payout, Level
    <2>3. call \in [Caller -> Memory] /\ \A c \in Caller : call[c].reward \in Payout
      BY IdleType DEF Init
    <2> QED
      BY <2>1, <2>2, <2>3 DEF Init, TypeOK, Memory
  <1>2. CallsKnow
    BY DEF Init, CallsKnow, Knows
  <1>3. RowsFollowJournals /\ LevelsAreBacked /\ PostingHasItsCall
    BY PayoutType DEF Init, RowsFollowJournals, LevelsAreBacked, PostingHasItsCall
  <1>4. FundsReserved
    <2>1. Slack(1) \in Int /\ Slack(1) <= 0
      BY CallerCount, SlackSteps
    <2>2. Reserving = {} /\ pool \in Nat
      BY DEF Init, Reserving
    <2> QED
      BY <2>1, <2>2 DEF FundsReserved
  <1> QED
    BY <1>1, <1>2, <1>3, <1>4 DEF IInv

-----------------------------------------------------------------------------

(* The invariant holds in every reachable state, for any rewards, any      *)
(* number of edges and callers, and however many of the calls fail.        *)
THEOREM Invariance == Spec => []IInv
  BY InitIInv, StepIInv, PTL DEF Spec

(* Every variable has its type.                                            *)
THEOREM TypeCorrect == Spec => []TypeOK
  <1>1. IInv => TypeOK
    BY DEF IInv
  <1> QED
    BY <1>1, Invariance, PTL

(* A released accrual or payout has its journal, and a reversal the journal *)
(* it reverses, whichever calls wrote the row by its id.                   *)
THEOREM PaidBeforeReleased == Spec => []RowsFollowJournals
  <1>1. IInv => RowsFollowJournals
    BY DEF IInv
  <1> QED
    BY <1>1, Invariance, PTL

(* The balance check without a lock costs at most one reward for each      *)
(* concurrent call but one.                                                *)
THEOREM OverdraftBounded == Spec => []PoolOverdraftBounded
  <1>1. IInv => PoolOverdraftBounded
    BY DEF IInv, FundsReserved, Slack, PoolOverdraftBounded
  <1> QED
    BY <1>1, Invariance, PTL

(* Drains over the same rows pay them in the order they were enqueued.     *)
THEOREM DrainsInOrder == Spec => []DrainIsFifo
  <1>1. IInv => DrainIsFifo
    <2> SUFFICES ASSUME IInv, NEW c \in Caller, pc[c] \in {"stamp", "promote"},
                        NEW q \in call[c].batch, enqueued[q] < enqueued[call[c].reward]
                 PROVE  q \in posted
      BY DEF DrainIsFifo
    <2>1. /\ Earliest(call[c].reward, call[c].todo)
          /\ call[c].reward \in Payout /\ call[c].batch \subseteq Payout
          /\ q \notin call[c].todo => q \in posted
      BY DrainKnows DEF Knows
    <2>2. q \notin call[c].todo
      BY <2>1 DEF Earliest, IInv, TypeOK
    <2> QED
      BY <2>1, <2>2
  <1> QED
    BY <1>1, Invariance, PTL

(* Where nothing fails, no accrual stays in 'posting' and no level without *)
(* its payout, but while a call is about to go on.                         *)
THEOREM HalfDoneIsFinished == Spec => []HalfDoneHasItsCall
  <1>1. IInv => HalfDoneHasItsCall
    BY DEF IInv, TypeOK, LevelsAreBacked, PostingHasItsCall, Backed, HalfDoneHasItsCall
  <1> QED
    BY <1>1, Invariance, PTL

=============================================================================
