--------------------------- MODULE Withdraw_proofs ---------------------------
(***************************************************************************)
(* The safety properties of Withdraw, for any number of challenges, codes, *)
(* keys and concurrent calls.  The inductive invariant adds what a call    *)
(* knows at each of its steps (Knows) and that no two calls hold one spent *)
(* token (TokensHeldOnce); the one of the daily cap, what each admitted    *)
(* call may still add (Fits).                                              *)
(***************************************************************************)
EXTENDS Withdraw, SumLemmas

Verifying == {"read", "prove", "use_code", "verify"}
Enrolling == {"read_pin", "spend_to_enrol", "set_pin"}
Creating == {"check", "lookup", "spend_to_create", "insert"}
Reviewing == {"review", "audit", "decide"}
Wiping == {"find", "delete", "mark", "log"}

\* A recovery code was used for the challenge.
Coded(h) == \E x \in Code : usedBy[x] = h

\* The token is spent, and nothing stands on it yet.
Unused(h) == challenge[h] = "spent" /\ h \notin enrolled /\ \A k \in Key : authority[k] # h

\* The review's key has an audit event.
Logged(m) == \E e \in audit : e.request = m.request

Knows(label, m) ==
    /\ label \in Verifying => challenge[m.challenge] # "absent"
    /\ label \in Enrolling \cup Creating => Issued(m.challenge)
    /\ label \in {"prove", "verify"} /\ method[m.challenge] = "recovery" => Coded(m.challenge)
    /\ label \in {"spend_to_enrol", "set_pin"} => method[m.challenge] # "pin"
    /\ label \in {"set_pin", "insert"} => Unused(m.challenge)
    /\ label = "decide" => Logged(m)

CallsKnow == \A c \in Caller : Knows(pc[c], call[c])

Holding(c) == pc[c] \in {"set_pin", "insert"}

TokensHeldOnce ==
    \A c, d \in Caller :
        Holding(c) /\ Holding(d) /\ call[c].challenge = call[d].challenge => c = d

IInv ==
    /\ TypeOK
    /\ DOMAIN call = Caller
    /\ CallsKnow
    /\ TokensHeldOnce
    /\ AuthorisedOnce
    /\ DecisionsStand

\* What no step undoes.
Grows ==
    /\ \A h \in Challenge :
          /\ challenge[h] # "absent" => challenge'[h] # "absent" /\ method'[h] = method[h]
          /\ Issued(h) => Issued(h)'
          /\ Coded(h) => Coded(h)'
    /\ audit \subseteq audit'

\* A spent token is used by the call that holds it.
UsesOnly(c) ==
    \A h \in Challenge : Unused(h) => Unused(h)' \/ (Holding(c) /\ call[c].challenge = h)

Moves(c, label, m) ==
    /\ pc' = [pc EXCEPT ![c] = label]
    /\ DOMAIN call' = Caller
    /\ call'[c] = m
    /\ \A d \in Caller \ {c} : call'[d] = call[d]

-----------------------------------------------------------------------------
(* What follows from the definitions alone *)

LEMMA AsksOf ==
  /\ \A l \in Verifying : Asks(l) = Verification
  /\ \A l \in Enrolling : Asks(l) = Enrolment
  /\ \A l \in Creating : Asks(l) = Creation
  /\ \A l \in Reviewing : Asks(l) = Review
  /\ \A l \in Wiping : Asks(l) = Wipe
  /\ Asks("idle") = {None}
  <1>1. ASSUME NEW l \in Verifying PROVE Asks(l) = Verification
    BY DEF Asks, Verifying
  <1>2. ASSUME NEW l \in Enrolling PROVE Asks(l) = Enrolment
    BY DEF Asks, Enrolling
  <1>3. ASSUME NEW l \in Creating PROVE Asks(l) = Creation
    BY DEF Asks, Creating
  <1>4. ASSUME NEW l \in Reviewing PROVE Asks(l) = Review
    BY DEF Asks, Reviewing
  <1>5. ASSUME NEW l \in Wiping PROVE Asks(l) = Wipe
    BY DEF Asks, Wiping
  <1>6. Asks("idle") = {None}
    BY DEF Asks
  <1> QED
    BY <1>1, <1>2, <1>3, <1>4, <1>5, <1>6

LEMMA LabelsOf == Labels = {"idle"} \cup Verifying \cup Enrolling \cup Creating \cup Reviewing \cup Wiping
  BY DEF Labels, Verifying, Enrolling, Creating, Reviewing, Wiping

LEMMA ProofLabels ==
  ASSUME NEW m \in Method
  PROVE  /\ ProofOf(m) \in Verifying
         /\ ProofOf(m) \in {"prove", "verify"} => m # "recovery"
  <1>1. CASE m = "email_otp"
    BY <1>1 DEF ProofOf, Verifying
  <1>2. CASE m = "pin"
    BY <1>2 DEF ProofOf, Verifying
  <1>3. CASE m = "recovery"
    BY <1>3 DEF ProofOf, Verifying
  <1> QED
    BY <1>1, <1>2, <1>3 DEF Method

\* What a call asks for, by where it stands.
LEMMA CallType ==
  ASSUME TypeOK, NEW c \in Caller
  PROVE  /\ pc[c] \in Verifying => call[c] \in Verification /\ call[c].challenge \in Challenge /\ call[c].code \in Code
         /\ pc[c] \in Enrolling => call[c] \in Enrolment /\ call[c].challenge \in Challenge
         /\ pc[c] \in Creating => call[c] \in Creation /\ call[c].challenge \in Challenge
                                  /\ call[c].key \in Key /\ call[c].payload \in Payload
         /\ pc[c] \in Reviewing => call[c] \in Review /\ call[c].key \in Key /\ call[c].decision \in Decision
         /\ pc[c] \in Wiping => call[c] \in Wipe /\ call[c].request \in Request
  <1>1. call[c] \in Asks(pc[c])
    BY DEF TypeOK
  <1>2. CASE pc[c] \in Verifying
    <2>1. call[c] \in Verification
      BY <1>1, <1>2, AsksOf
    <2> QED
      BY <1>2, <2>1 DEF Verification, Verifying, Enrolling, Creating, Reviewing, Wiping
  <1>3. CASE pc[c] \in Enrolling
    <2>1. call[c] \in Enrolment
      BY <1>1, <1>3, AsksOf
    <2> QED
      BY <1>3, <2>1 DEF Enrolment, Verifying, Enrolling, Creating, Reviewing, Wiping
  <1>4. CASE pc[c] \in Creating
    <2>1. call[c] \in Creation
      BY <1>1, <1>4, AsksOf
    <2> QED
      BY <1>4, <2>1 DEF Creation, Verifying, Enrolling, Creating, Reviewing, Wiping
  <1>5. CASE pc[c] \in Reviewing
    <2>1. call[c] \in Review
      BY <1>1, <1>5, AsksOf
    <2> QED
      BY <1>5, <2>1 DEF Review, Verifying, Enrolling, Creating, Reviewing, Wiping
  <1>6. CASE pc[c] \in Wiping
    <2>1. call[c] \in Wipe
      BY <1>1, <1>6, AsksOf
    <2> QED
      BY <1>6, <2>1 DEF Wipe, Verifying, Enrolling, Creating, Reviewing, Wiping
  <1> QED
    BY <1>2, <1>3, <1>4, <1>5, <1>6

-----------------------------------------------------------------------------
(* What every step of a call has in common *)

\* The rows' types, where a call's label and what it asks for are not in question.
RowsType ==
    /\ challenge \in [Challenge -> {"absent", "open", "verified", "spent"}]
    /\ method \in [Challenge -> Method]
    /\ usedBy \in [Code -> Challenge \cup {None}]
    /\ pin \in {"none", "set", "wiped"} /\ enrolled \subseteq Challenge /\ wipes \subseteq Request
    /\ intent \in [Key -> {"absent", "auth_ok", "queued", "rejected"}]
    /\ payload \in [Key -> Payload \cup {None}] /\ authority \in [Key -> Challenge \cup {None}]
    /\ \A k \in Key : intent[k] # "absent" <=> payload[k] # None
    /\ \A k \in Key : intent[k] # "absent" <=> authority[k] # None
    /\ created \in [Key -> Time]
    /\ audit \subseteq Review /\ told \subseteq Review
    /\ now \in Time /\ calls \in 0..MaxCalls /\ together \in Nat

LEMMA RowsTyped == TypeOK => RowsType
  BY DEF TypeOK, RowsType

LEMMA CallsTyped ==
  ASSUME IInv, RowsType', NEW c \in Caller, NEW label \in Labels, NEW m \in Asks(label), Moves(c, label, m)
  PROVE  TypeOK' /\ DOMAIN call' = Caller
  <1>1. pc \in [Caller -> Labels] /\ DOMAIN call = Caller /\ \A d \in Caller : call[d] \in Asks(pc[d])
    BY DEF IInv, TypeOK
  <1>2. pc' \in [Caller -> Labels] /\ DOMAIN call' = Caller
    BY <1>1 DEF Moves
  <1>3. ASSUME NEW d \in Caller PROVE call'[d] \in Asks(pc'[d])
    <2>1. CASE d = c
      <3>1. pc'[d] = label /\ call'[d] = m
        BY <1>1, <2>1 DEF Moves
      <3> QED
        BY <3>1
    <2>2. CASE d # c
      <3>1. pc'[d] = pc[d] /\ call'[d] = call[d]
        BY <1>1, <2>2 DEF Moves
      <3> QED
        BY <1>1, <3>1
    <2> QED
      BY <2>1, <2>2
  <1>4. (\A d \in Caller : call[d] \in Asks(pc[d]))'
    <2>1. ASSUME NEW d \in Caller PROVE (call[d] \in Asks(pc[d]))'
      BY <1>3 DEF Asks
    <2> QED
      BY <2>1
  <1> QED
    BY <1>2, <1>4 DEF TypeOK, RowsType

LEMMA CallsKnowMore ==
  ASSUME IInv, Grows, NEW c \in Caller, UsesOnly(c), NEW label \in Labels, NEW m,
         Moves(c, label, m), Knows(label, m)'
  PROVE  CallsKnow'
  <1>1. pc \in [Caller -> Labels] /\ DOMAIN call = Caller /\ CallsKnow
    BY DEF IInv, TypeOK
  <1> SUFFICES ASSUME NEW d \in Caller PROVE Knows(pc[d], call[d])'
    BY DEF CallsKnow
  <1>2. CASE d = c
    <2>1. pc'[d] = label /\ call'[d] = m
      BY <1>1, <1>2 DEF Moves
    <2> QED
      BY <2>1 DEF Knows
  <1>3. CASE d # c
    <2>1. pc'[d] = pc[d] /\ call'[d] = call[d]
      BY <1>1, <1>3 DEF Moves
    <2>2. Knows(pc[d], call[d])
      BY <1>1 DEF CallsKnow
    <2>3. pc[d] \in Verifying \cup Enrolling \cup Creating => call[d].challenge \in Challenge
      BY CallType DEF IInv
    <2>4. Holding(d) => Unused(call[d].challenge)'
      <3>1. Holding(d) => Unused(call[d].challenge) /\ call[d].challenge \in Challenge
        BY <2>2, <2>3 DEF Holding, Knows, Enrolling, Creating
      <3>2. Holding(d) /\ Holding(c) => call[d].challenge # call[c].challenge
        BY <1>3 DEF IInv, TokensHeldOnce
      <3>3. \A h \in Challenge : Holding(d) /\ h = call[d].challenge => Unused(h)'
        BY <3>1, <3>2 DEF UsesOnly
      <3> QED
        BY <3>1, <3>3, <2>1 DEF Unused
    <2> QED
      BY <2>1, <2>2, <2>3, <2>4 DEF Knows, Grows, Holding, Verifying, Enrolling, Creating, Issued, Coded, Unused, Logged
  <1> QED
    BY <1>2, <1>3

LEMMA NoNewHolder ==
  ASSUME IInv, NEW c \in Caller, NEW label \in Labels, NEW m, Moves(c, label, m),
         label \notin {"set_pin", "insert"}
  PROVE  TokensHeldOnce'
  <1>1. pc \in [Caller -> Labels] /\ DOMAIN call = Caller /\ TokensHeldOnce
    BY DEF IInv, TypeOK
  <1>2. \A d \in Caller : Holding(d)' => d # c /\ Holding(d) /\ call'[d] = call[d]
    BY <1>1 DEF Holding, Moves
  <1> QED
    BY <1>1, <1>2 DEF TokensHeldOnce

LEMMA GotoMoves ==
  ASSUME IInv, NEW c \in Caller, NEW label, Goto(c, label)
  PROVE  Moves(c, label, call[c])
  BY DEF IInv, Goto, Moves

LEMMA FinishMoves ==
  ASSUME IInv, NEW c \in Caller, Finish(c)
  PROVE  Moves(c, "idle", None) /\ "idle" \in Labels /\ None \in Asks("idle") /\ Knows("idle", None)'
  <1>1. Moves(c, "idle", None)
    BY DEF IInv, Finish, Moves
  <1>2. "idle" \in Labels /\ None \in Asks("idle")
    BY AsksOf, LabelsOf
  <1>3. Knows("idle", None)'
    BY DEF Knows, Verifying, Enrolling, Creating
  <1> QED
    BY <1>1, <1>2, <1>3

\* What a call that goes on to another label of its kind asks for.
LEMMA GotoAsks ==
  ASSUME IInv, NEW c \in Caller, NEW label,
         \/ {pc[c], label} \subseteq Verifying \/ {pc[c], label} \subseteq Enrolling
         \/ {pc[c], label} \subseteq Creating \/ {pc[c], label} \subseteq Reviewing
         \/ {pc[c], label} \subseteq Wiping
  PROVE  label \in Labels /\ call[c] \in Asks(label)
  <1>1. TypeOK
    BY DEF IInv
  <1>2. CASE {pc[c], label} \subseteq Verifying
    BY <1>1, <1>2, CallType, AsksOf, LabelsOf
  <1>3. CASE {pc[c], label} \subseteq Enrolling
    BY <1>1, <1>3, CallType, AsksOf, LabelsOf
  <1>4. CASE {pc[c], label} \subseteq Creating
    BY <1>1, <1>4, CallType, AsksOf, LabelsOf
  <1>5. CASE {pc[c], label} \subseteq Reviewing
    BY <1>1, <1>5, CallType, AsksOf, LabelsOf
  <1>6. CASE {pc[c], label} \subseteq Wiping
    BY <1>1, <1>6, CallType, AsksOf, LabelsOf
  <1> QED
    BY <1>2, <1>3, <1>4, <1>5, <1>6

LEMMA StepupFrame ==
  ASSUME IInv, UNCHANGED <<stepup, enrolled, authority>>, audit \subseteq audit'
  PROVE  AuthorisedOnce' /\ Grows /\ \A c \in Caller : UsesOnly(c)
  <1>1. AuthorisedOnce'
    BY DEF IInv, AuthorisedOnce, AuthorisedBy, Issued, stepup
  <1>2. Grows
    BY DEF Grows, Issued, Coded, stepup
  <1>3. ASSUME NEW c \in Caller PROVE UsesOnly(c)
    BY DEF UsesOnly, Unused, stepup
  <1> QED
    BY <1>1, <1>2, <1>3

LEMMA ReviewFrame == ASSUME IInv, UNCHANGED <<intent, review>> PROVE DecisionsStand'
  BY DEF IInv, DecisionsStand, review

\* A step that only takes its call on.
LEMMA QuietMove ==
  ASSUME IInv, UNCHANGED <<stepup, enrolled, authority, intent, review>>, RowsType',
         NEW c \in Caller, NEW label \in Labels, NEW m \in Asks(label), Moves(c, label, m),
         Knows(label, m)', label \notin {"set_pin", "insert"}
  PROVE  IInv'
  <1>1. audit \subseteq audit' /\ UNCHANGED <<stepup, enrolled, authority>> /\ UNCHANGED <<intent, review>>
    BY DEF review
  <1>2. AuthorisedOnce' /\ Grows /\ UsesOnly(c)
    BY <1>1, StepupFrame
  <1>3. DecisionsStand'
    BY <1>1, ReviewFrame
  <1>4. TypeOK' /\ DOMAIN call' = Caller
    BY CallsTyped
  <1>5. CallsKnow'
    BY <1>2, CallsKnowMore
  <1>6. TokensHeldOnce'
    BY NoNewHolder
  <1> QED
    BY <1>2, <1>3, <1>4, <1>5, <1>6 DEF IInv

-----------------------------------------------------------------------------
(* Each step keeps the invariant *)

LEMMA FinishQuietly ==
  ASSUME IInv, UNCHANGED <<stepup, enrolled, authority, intent, review>>, RowsType',
         NEW c \in Caller, Finish(c)
  PROVE  IInv'
  BY FinishMoves, QuietMove

LEMMA BeginStep ==
  ASSUME IInv, NEW c \in Caller, NewCall(c)
  PROVE  IInv'
  <1>1. ASSUME NEW label \in Labels, NEW m \in Asks(label), Begin(c, label, m), Knows(label, m),
               label \notin {"set_pin", "insert"}
        PROVE  IInv'
    <2>1. Moves(c, label, m)
      BY <1>1 DEF Begin, Moves, IInv
    <2>2. calls' \in 0..MaxCalls
      BY <1>1, RowsTyped, WithdrawAssumption DEF IInv, RowsType, Begin
    <2>3. UNCHANGED <<stepup, enrolled, authority, intent, review, intents, pins, now, together>>
      BY <1>1 DEF Begin, pins, intents
    <2>4. RowsType'
      BY <2>2, <2>3, RowsTyped DEF IInv, RowsType, stepup, pins, intents, review
    <2>5. Knows(label, m)'
      BY <1>1, <2>3 DEF Knows, stepup, review, Coded, Issued, Unused, Logged
    <2> QED
      BY <1>1, <2>1, <2>3, <2>4, <2>5, QuietMove
  <1>2. ASSUME NEW v \in Verification, challenge[v.challenge] # "absent", Begin(c, "read", v) PROVE IInv'
    <2>1. "read" \in Labels /\ v \in Asks("read") /\ Knows("read", v)
      BY <1>2, AsksOf, LabelsOf DEF Knows, Verifying, Enrolling, Creating
    <2> QED
      BY <1>1, <1>2, <2>1
  <1>3. ASSUME NEW e \in Enrolment, Issued(e.challenge), Begin(c, "read_pin", e) PROVE IInv'
    <2>1. "read_pin" \in Labels /\ e \in Asks("read_pin") /\ Knows("read_pin", e)
      BY <1>3, AsksOf, LabelsOf DEF Knows, Verifying, Enrolling, Creating
    <2> QED
      BY <1>1, <1>3, <2>1
  <1>4. ASSUME NEW n \in Creation, Issued(n.challenge), Begin(c, "check", n) PROVE IInv'
    <2>1. "check" \in Labels /\ n \in Asks("check") /\ Knows("check", n)
      BY <1>4, AsksOf, LabelsOf DEF Knows, Verifying, Enrolling, Creating
    <2> QED
      BY <1>1, <1>4, <2>1
  <1>5. ASSUME NEW r \in Review, Begin(c, "review", r) PROVE IInv'
    <2>1. "review" \in Labels /\ r \in Asks("review") /\ Knows("review", r)
      BY AsksOf, LabelsOf DEF Knows, Verifying, Enrolling, Creating, Reviewing
    <2> QED
      BY <1>1, <1>5, <2>1
  <1>6. ASSUME NEW w \in Wipe, Begin(c, "find", w) PROVE IInv'
    <2>1. "find" \in Labels /\ w \in Asks("find") /\ Knows("find", w)
      BY AsksOf, LabelsOf DEF Knows, Verifying, Enrolling, Creating, Wiping
    <2> QED
      BY <1>1, <1>6, <2>1
  <1> QED
    BY <1>2, <1>3, <1>4, <1>5, <1>6 DEF NewCall

\* The steps that read, and those that only change the PIN's row.
LEMMA QuietGoto ==
  ASSUME IInv, UNCHANGED <<stepup, enrolled, authority, intent, review>>, RowsType',
         NEW c \in Caller, NEW label, Goto(c, label), label \notin {"set_pin", "insert", "decide"},
         \/ {pc[c], label} \subseteq Verifying \/ {pc[c], label} \subseteq Enrolling
         \/ {pc[c], label} \subseteq Creating \/ {pc[c], label} \subseteq Reviewing
         \/ {pc[c], label} \subseteq Wiping,
         label \in {"prove", "verify"} => method[call[c].challenge] # "recovery" \/ Coded(call[c].challenge),
         label = "spend_to_enrol" => method[call[c].challenge] # "pin"
  PROVE  IInv'
  <1>1. Knows(pc[c], call[c])
    BY DEF IInv, CallsKnow
  <1>2. Knows(label, call[c])
    BY <1>1 DEF Knows, Verifying, Enrolling, Creating, Reviewing, Wiping
  <1>3. \A m : Knows(label, m) => Knows(label, m)'
    BY DEF Knows, stepup, review, Coded, Issued, Unused, Logged
  <1>4. label \in Labels /\ call[c] \in Asks(label) /\ Moves(c, label, call[c])
    BY GotoAsks, GotoMoves
  <1> QED
    BY <1>2, <1>3, <1>4, QuietMove

LEMMA TogetherGrows ==
  ASSUME IInv, NEW c \in Caller, CheckCap(c)
  PROVE  /\ together' \in Nat /\ together <= together' /\ Cardinality(Adding') <= together'
         /\ Cardinality(Adding') <= together => together' = together
  <1>1. together \in Nat
    BY DEF IInv, TypeOK
  <1>2. Adding' \subseteq Caller
    BY DEF Adding
  <1>3. Cardinality(Adding') \in Nat
    BY <1>2, WithdrawAssumption, FS_Subset, FS_CardinalityType
  <1>4. together' = IF Cardinality(Adding') > together THEN Cardinality(Adding') ELSE together
    BY DEF CheckCap
  <1> HIDE DEF Adding
  <1> QED
    BY <1>1, <1>3, <1>4

LEMMA ReadingSteps ==
  ASSUME IInv, NEW c \in Caller,
         ReadChallenge(c) \/ ProvePin(c) \/ ReadPin(c) \/ CheckCap(c) \/ Lookup(c) \/ FindAudit(c)
  PROVE  IInv'
  <1>1. RowsType' /\ UNCHANGED <<stepup, enrolled, authority, intent, review>>
    <2>1. CASE CheckCap(c)
      <3>1. together' \in Nat
        BY <2>1, TogetherGrows
      <3> QED
        BY <2>1, <3>1, RowsTyped DEF IInv, RowsType, CheckCap, stepup, pins, intents, review
    <2>2. CASE ReadChallenge(c) \/ ProvePin(c) \/ ReadPin(c) \/ Lookup(c) \/ FindAudit(c)
      BY <2>2, RowsTyped DEF IInv, RowsType, ReadChallenge, ProvePin, ReadPin, Lookup, FindAudit,
         stepup, pins, intents, review, counters
    <2> QED
      BY <2>1, <2>2
  <1>2. CASE Finish(c)
    BY <1>1, <1>2, FinishQuietly
  <1>3. CASE ReadChallenge(c) /\ Goto(c, ProofOf(method[call[c].challenge]))
    <2>1. pc[c] \in Verifying
      BY <1>3 DEF ReadChallenge, Verifying
    <2>2. method[call[c].challenge] \in Method
      BY <2>1, CallType DEF IInv, TypeOK
    <2>3. PICK label : label = ProofOf(method[call[c].challenge])
      OBVIOUS
    <2>4. label \in Verifying /\ (label \in {"prove", "verify"} => method[call[c].challenge] # "recovery") /\ Goto(c, label)
      BY <1>3, <2>2, <2>3, ProofLabels
    <2>5. label \notin {"set_pin", "insert", "decide", "spend_to_enrol"}
      BY <2>4 DEF Verifying
    <2> QED
      BY <1>1, <2>1, <2>4, <2>5, QuietGoto
  <1>4. CASE ProvePin(c) /\ Goto(c, "verify")
    <2>1. {pc[c], "verify"} \subseteq Verifying
      BY <1>4 DEF ProvePin, Verifying
    <2>2. method[call[c].challenge] # "recovery" \/ Coded(call[c].challenge)
      BY <1>4 DEF ProvePin, IInv, CallsKnow, Knows
    <2> QED
      BY <1>1, <1>4, <2>1, <2>2, QuietGoto
  <1>5. CASE ReadPin(c) /\ Goto(c, "spend_to_enrol") /\ method[call[c].challenge] # "pin"
    <2>1. {pc[c], "spend_to_enrol"} \subseteq Enrolling
      BY <1>5 DEF ReadPin, Enrolling
    <2> QED
      BY <1>1, <1>5, <2>1, QuietGoto
  <1>6. CASE CheckCap(c) /\ Goto(c, "lookup")
    <2>1. {pc[c], "lookup"} \subseteq Creating
      BY <1>6 DEF CheckCap, Creating
    <2> QED
      BY <1>1, <1>6, <2>1, QuietGoto
  <1>7. CASE Lookup(c) /\ Goto(c, "spend_to_create")
    <2>1. {pc[c], "spend_to_create"} \subseteq Creating
      BY <1>7 DEF Lookup, Creating
    <2> QED
      BY <1>1, <1>7, <2>1, QuietGoto
  <1>8. CASE FindAudit(c) /\ Goto(c, "delete")
    <2>1. {pc[c], "delete"} \subseteq Wiping
      BY <1>8 DEF FindAudit, Wiping
    <2> QED
      BY <1>1, <1>8, <2>1, QuietGoto
  <1> QED
    BY <1>2, <1>3, <1>4, <1>5, <1>6, <1>7, <1>8 DEF ReadChallenge, ProvePin, ReadPin, CheckCap, Lookup, FindAudit

\* A step that also writes rows.
LEMMA StepKeeps ==
  ASSUME IInv, RowsType', Grows, AuthorisedOnce', DecisionsStand', TokensHeldOnce',
         NEW c \in Caller, UsesOnly(c), NEW label \in Labels, NEW m \in Asks(label),
         Moves(c, label, m), Knows(label, m)'
  PROVE  IInv'
  BY CallsTyped, CallsKnowMore DEF IInv

LEMMA FinishKeeps ==
  ASSUME IInv, RowsType', Grows, AuthorisedOnce', DecisionsStand', NEW c \in Caller, UsesOnly(c), Finish(c)
  PROVE  IInv'
  <1>1. "idle" \notin {"set_pin", "insert"}
    OBVIOUS
  <1>2. TokensHeldOnce'
    BY <1>1, FinishMoves, NoNewHolder
  <1> QED
    BY <1>2, FinishMoves, StepKeeps

LEMMA UseCodeStep ==
  ASSUME IInv, NEW c \in Caller, UseCode(c)
  PROVE  IInv'
  <1> SUFFICES ASSUME NEW m, m = call[c], NEW h, h = m.challenge, NEW x, x = m.code PROVE IInv'
    OBVIOUS
  <1>1. pc[c] = "use_code" /\ pc[c] \in Verifying
    BY DEF UseCode, Verifying
  <1>2. h \in Challenge /\ x \in Code
    BY <1>1, CallType DEF IInv
  <1>3. RowsType
    BY RowsTyped DEF IInv
  <1>4. usedBy' \in [Code -> Challenge \cup {None}]
    BY <1>2, <1>3 DEF UseCode, RowsType
  <1>5. UNCHANGED <<challenge, method, pin, enrolled, wipes, intent, payload, authority, created,
                    audit, told, now, calls, together>>
    BY DEF UseCode, pins, intents, review, counters
  <1>6. RowsType'
    BY <1>3, <1>4, <1>5 DEF RowsType
  <1>7. CASE ~Usable(x)
    <2>1. Finish(c) /\ UNCHANGED usedBy
      BY <1>7 DEF UseCode
    <2> QED
      BY <1>5, <1>6, <2>1, FinishQuietly DEF stepup, review
  <1>8. CASE Usable(x)
    <2>1. usedBy' = [usedBy EXCEPT ![x] = h] /\ Goto(c, "verify")
      BY <1>8 DEF UseCode
    <2>2. usedBy[x] = None /\ None \notin Challenge
      BY <1>8, WithdrawAssumption DEF Usable
    <2>3. Coded(h)' /\ \A g \in Challenge : Coded(g) => Coded(g)'
      BY <1>2, <1>3, <2>1, <2>2 DEF Coded, RowsType
    <2>4. Grows /\ UsesOnly(c)
      BY <1>5, <2>3 DEF Grows, UsesOnly, Issued, Unused
    <2>5. AuthorisedOnce'
      BY <1>5, <2>3 DEF IInv, AuthorisedOnce, AuthorisedBy, Issued, Coded
    <2>6. DecisionsStand'
      BY <1>5, ReviewFrame DEF review
    <2>7. "verify" \in Labels /\ m \in Asks("verify") /\ Moves(c, "verify", m)
      BY <1>1, <2>1, GotoMoves, GotoAsks DEF Verifying
    <2>8. Knows("verify", m)'
      <3>1. challenge[h] # "absent"
        BY <1>1 DEF IInv, CallsKnow, Knows
      <3> QED
        BY <1>5, <2>3, <3>1 DEF Knows, Enrolling, Creating
    <2>9. TokensHeldOnce'
      BY <2>7, NoNewHolder
    <2> QED
      BY <1>6, <2>4, <2>5, <2>6, <2>7, <2>8, <2>9, StepKeeps
  <1> QED
    BY <1>7, <1>8

LEMMA VerifyChallengeStep ==
  ASSUME IInv, NEW c \in Caller, Verify(c)
  PROVE  IInv'
  <1> SUFFICES ASSUME NEW h, h = call[c].challenge PROVE IInv'
    OBVIOUS
  <1>1. pc[c] = "verify" /\ pc[c] \in Verifying
    BY DEF Verify, Verifying
  <1>2. h \in Challenge
    BY <1>1, CallType DEF IInv
  <1>3. RowsType
    BY RowsTyped DEF IInv
  <1>4. UNCHANGED <<method, usedBy, pin, enrolled, wipes, intent, payload, authority, created,
                    audit, told, now, calls, together>> /\ Finish(c)
    BY DEF Verify, pins, intents, review, counters
  <1>5. challenge' = [challenge EXCEPT ![h] = IF challenge[h] = "open" THEN "verified" ELSE challenge[h]]
    BY DEF Verify
  <1>6. /\ challenge' \in [Challenge -> {"absent", "open", "verified", "spent"}]
        /\ \A g \in Challenge : g # h \/ challenge[h] # "open" => challenge'[g] = challenge[g]
        /\ challenge[h] = "open" => challenge'[h] = "verified"
    BY <1>2, <1>3, <1>5 DEF RowsType
  <1>7. RowsType'
    BY <1>3, <1>4, <1>6 DEF RowsType
  <1>8. method[h] = "recovery" => Coded(h)
    BY <1>1 DEF IInv, CallsKnow, Knows
  <1>9. Grows /\ UsesOnly(c)
    BY <1>4, <1>6 DEF Grows, UsesOnly, Issued, Unused, Coded
  <1>10. AuthorisedOnce'
    BY <1>4, <1>6, <1>8 DEF IInv, AuthorisedOnce, AuthorisedBy, Issued, Coded
  <1>11. DecisionsStand'
    BY <1>4, ReviewFrame DEF review
  <1> QED
    BY <1>4, <1>7, <1>9, <1>10, <1>11, FinishKeeps

LEMMA SpendStep ==
  ASSUME IInv, NEW c \in Caller, Spend(c)
  PROVE  IInv'
  <1> SUFFICES ASSUME NEW m, m = call[c], NEW h, h = m.challenge,
                      NEW label, label = IF pc[c] = "spend_to_enrol" THEN "set_pin" ELSE "insert"
               PROVE  IInv'
    OBVIOUS
  <1>1. \/ {pc[c], label} \subseteq Enrolling /\ pc[c] = "spend_to_enrol" /\ label = "set_pin"
        \/ {pc[c], label} \subseteq Creating /\ pc[c] = "spend_to_create" /\ label = "insert"
    BY DEF Spend, Enrolling, Creating
  <1>2. h \in Challenge
    BY <1>1, CallType DEF IInv
  <1>3. RowsType
    BY RowsTyped DEF IInv
  <1>4. UNCHANGED <<method, usedBy, pin, enrolled, wipes, intent, payload, authority, created,
                    audit, told, now, calls, together>>
    BY DEF Spend, pins, intents, review, counters
  <1>5. CASE ~Spendable(h)
    <2>1. Finish(c) /\ UNCHANGED challenge
      BY <1>5 DEF Spend
    <2>2. RowsType'
      BY <1>3, <1>4, <2>1 DEF RowsType
    <2> QED
      BY <1>4, <2>1, <2>2, FinishQuietly DEF stepup, review
  <1>6. CASE Spendable(h)
    <2>1. challenge' = [challenge EXCEPT ![h] = "spent"] /\ Goto(c, label) /\ challenge[h] = "verified"
      BY <1>6 DEF Spend, Spendable
    <2>2. /\ challenge' \in [Challenge -> {"absent", "open", "verified", "spent"}]
          /\ \A g \in Challenge : g # h => challenge'[g] = challenge[g]
          /\ challenge'[h] = "spent"
      BY <1>2, <1>3, <2>1 DEF RowsType
    <2>3. RowsType'
      BY <1>3, <1>4, <2>2 DEF RowsType
    <2>4. Grows /\ UsesOnly(c)
      BY <1>4, <2>1, <2>2 DEF Grows, UsesOnly, Issued, Unused, Coded
    <2>5. AuthorisedOnce'
      BY <1>4, <2>1, <2>2 DEF IInv, AuthorisedOnce, AuthorisedBy, Issued, Coded
    <2>6. DecisionsStand'
      BY <1>4, ReviewFrame DEF review
    <2>7. label \in Labels /\ m \in Asks(label) /\ Moves(c, label, m)
      BY <1>1, <2>1, GotoMoves, GotoAsks
    <2>8. Knows(label, m)'
      <3>1. h \notin enrolled /\ \A k \in Key : authority[k] # h
        <4>1. challenge[h] # "spent"
          BY <2>1
        <4>2. h \notin enrolled
          BY <1>2, <4>1 DEF IInv, AuthorisedOnce
        <4>3. AuthorisedBy(h) = {}
          BY <1>2, <4>1 DEF IInv, AuthorisedOnce
        <4> QED
          BY <4>2, <4>3 DEF AuthorisedBy
      <3>2. label = "set_pin" => method[h] # "pin"
        BY <1>1 DEF IInv, CallsKnow, Knows
      <3> QED
        BY <1>1, <1>4, <2>2, <3>1, <3>2 DEF Knows, Verifying, Enrolling, Creating, Issued, Unused
    <2>9. TokensHeldOnce'
      <3>1. \A d \in Caller : d # c /\ Holding(d) => call[d].challenge # h
        BY <2>1 DEF IInv, CallsKnow, Knows, Holding, Unused
      <3>2. \A d \in Caller : d # c => call'[d] = call[d] /\ pc'[d] = pc[d]
        BY <2>7 DEF Moves, IInv, TypeOK
      <3>3. call'[c].challenge = h
        BY <2>7 DEF Moves
      <3>4. \A d, e \in Caller : d # c /\ e # c /\ Holding(d)' /\ Holding(e)'
                                  /\ call'[d].challenge = call'[e].challenge => d = e
        BY <3>2 DEF IInv, TokensHeldOnce, Holding
      <3>5. \A d \in Caller : d # c /\ Holding(d)' => call'[d].challenge # h
        BY <3>1, <3>2 DEF Holding
      <3> QED
        BY <3>3, <3>4, <3>5 DEF TokensHeldOnce
    <2> QED
      BY <2>3, <2>4, <2>5, <2>6, <2>7, <2>8, <2>9, StepKeeps
  <1> QED
    BY <1>5, <1>6

LEMMA SetPinStep ==
  ASSUME IInv, NEW c \in Caller, SetPin(c)
  PROVE  IInv'
  <1> SUFFICES ASSUME NEW h, h = call[c].challenge PROVE IInv'
    OBVIOUS
  <1>1. pc[c] = "set_pin" /\ pc[c] \in Enrolling /\ Holding(c)
    BY DEF SetPin, Enrolling, Holding
  <1>2. h \in Challenge
    BY <1>1, CallType DEF IInv
  <1>3. RowsType
    BY RowsTyped DEF IInv
  <1>4. UNCHANGED <<challenge, method, usedBy, wipes, intent, payload, authority, created,
                    audit, told, now, calls, together>> /\ Finish(c)
    BY DEF SetPin, stepup, intents, review, counters
  <1>5. pin' = "set" /\ enrolled' = enrolled \cup {h}
    BY DEF SetPin
  <1>6. RowsType'
    BY <1>2, <1>3, <1>4, <1>5 DEF RowsType
  <1>7. Grows /\ UsesOnly(c)
    BY <1>1, <1>4, <1>5 DEF Grows, UsesOnly, Issued, Unused, Coded
  <1>8. Unused(h) /\ method[h] # "pin"
    BY <1>1 DEF IInv, CallsKnow, Knows
  <1>9. AuthorisedOnce'
    BY <1>4, <1>5, <1>8 DEF IInv, AuthorisedOnce, AuthorisedBy, Issued, Coded, Unused
  <1>10. DecisionsStand'
    BY <1>4, ReviewFrame DEF review
  <1> QED
    BY <1>4, <1>6, <1>7, <1>9, <1>10, FinishKeeps

LEMMA WipeSteps ==
  ASSUME IInv, NEW c \in Caller, DeletePin(c) \/ MarkPin(c) \/ InsertAudit(c)
  PROVE  IInv'
  <1>1. UNCHANGED <<stepup, enrolled, authority, intent, review>>
    BY DEF DeletePin, MarkPin, InsertAudit, intents
  <1>2. RowsType
    BY RowsTyped DEF IInv
  <1>3. CASE DeletePin(c)
    <2>1. RowsType'
      BY <1>2, <1>3 DEF RowsType, DeletePin, stepup, intents, review, counters
    <2>2. {pc[c], "mark"} \subseteq Wiping /\ Goto(c, "mark")
      BY <1>3 DEF DeletePin, Wiping
    <2> QED
      BY <1>1, <2>1, <2>2, QuietGoto
  <1>4. CASE MarkPin(c)
    <2>1. RowsType'
      BY <1>2, <1>4 DEF RowsType, MarkPin, stepup, intents, review, counters
    <2>2. {pc[c], "log"} \subseteq Wiping /\ Goto(c, "log")
      BY <1>4 DEF MarkPin, Wiping
    <2> QED
      BY <1>1, <2>1, <2>2, QuietGoto
  <1>5. CASE InsertAudit(c)
    <2>1. pc[c] \in Wiping /\ Finish(c)
      BY <1>5 DEF InsertAudit, Wiping
    <2>2. call[c].request \in Request
      BY <2>1, CallType DEF IInv
    <2>3. RowsType'
      BY <1>2, <1>5, <2>2 DEF RowsType, InsertAudit, stepup, intents, review, counters
    <2> QED
      BY <1>1, <2>1, <2>3, FinishQuietly
  <1> QED
    BY <1>3, <1>4, <1>5

\* A verdict is neither of the statuses a row may still leave.
LEMMA Verdicts ==
  /\ \A d \in Decision : Outcome(d) \in {"queued", "rejected"}
  /\ \A d, e \in Decision : Outcome(d) = Outcome(e) => d = e
  BY DEF Decision, Outcome

LEMMA InsertStep ==
  ASSUME IInv, NEW c \in Caller, Insert(c)
  PROVE  IInv'
  <1> SUFFICES ASSUME NEW m, m = call[c], NEW h, h = m.challenge, NEW k, k = m.key PROVE IInv'
    OBVIOUS
  <1>1. pc[c] = "insert" /\ pc[c] \in Creating /\ Holding(c)
    BY DEF Insert, Creating, Holding
  <1>2. h \in Challenge /\ k \in Key /\ m.payload \in Payload
    BY <1>1, CallType DEF IInv
  <1>3. RowsType
    BY RowsTyped DEF IInv
  <1>4. UNCHANGED <<challenge, method, usedBy, pin, enrolled, wipes, audit, told, now, calls, together>> /\ Finish(c)
    BY DEF Insert, stepup, pins, review, counters
  <1>5. CASE intent[k] # "absent"
    <2>1. UNCHANGED <<intent, payload, authority, created>>
      BY <1>5 DEF Insert, intents
    <2>2. RowsType'
      BY <1>3, <1>4, <2>1 DEF RowsType
    <2> QED
      BY <1>4, <2>1, <2>2, FinishQuietly DEF stepup, review
  <1>6. CASE intent[k] = "absent"
    <2>1. /\ intent' = [intent EXCEPT ![k] = "auth_ok"]
          /\ payload' = [payload EXCEPT ![k] = m.payload]
          /\ authority' = [authority EXCEPT ![k] = h]
          /\ created' = [created EXCEPT ![k] = now]
      BY <1>6 DEF Insert, Authority
    <2>2. /\ intent' \in [Key -> {"absent", "auth_ok", "queued", "rejected"}]
          /\ payload' \in [Key -> Payload \cup {None}]
          /\ authority' \in [Key -> Challenge \cup {None}]
          /\ created' \in [Key -> Time]
      BY <1>2, <1>3, <2>1 DEF RowsType
    <2>3. /\ intent'[k] = "auth_ok" /\ payload'[k] # None /\ authority'[k] = h /\ h # None
          /\ \A l \in Key \ {k} : intent'[l] = intent[l] /\ payload'[l] = payload[l]
                                 /\ authority'[l] = authority[l]
      BY <1>2, <1>3, <2>1, WithdrawAssumption DEF RowsType
    <2>4. RowsType'
      BY <1>3, <1>4, <2>2, <2>3 DEF RowsType
    <2>5. Grows
      BY <1>4 DEF Grows, Issued, Coded
    <2>6. UsesOnly(c)
      BY <1>1, <1>4, <2>3 DEF UsesOnly, Unused
    <2>7. Unused(h)
      BY <1>1 DEF IInv, CallsKnow, Knows
    <2>8. AuthorisedOnce'
      <3>1. \A g \in Challenge : g # h => AuthorisedBy(g)' = AuthorisedBy(g)
        <4>1. authority[k] = None /\ None \notin Challenge
          BY <1>2, <1>3, <1>6, WithdrawAssumption DEF RowsType
        <4>2. \A g \in Challenge, l \in Key : g # h => (authority'[l] = g <=> authority[l] = g)
          BY <1>2, <2>3, <4>1
        <4> QED
          BY <4>2 DEF AuthorisedBy
      <3>2. AuthorisedBy(h)' = {k}
        BY <1>2, <2>3, <2>7 DEF AuthorisedBy, Unused
      <3> QED
        BY <1>4, <2>7, <3>1, <3>2 DEF IInv, AuthorisedOnce, Unused, Issued
    <2>9. DecisionsStand'
      <3>1. \A r \in told : r.key \in Key /\ intent[r.key] \in {"queued", "rejected"}
        BY <1>3, Verdicts DEF IInv, DecisionsStand, RowsType, Review
      <3>2. \A r \in told : intent'[r.key] = intent[r.key]
        BY <1>6, <2>3, <3>1
      <3> QED
        BY <1>2, <1>4, <2>3, <3>2 DEF IInv, DecisionsStand
    <2> QED
      BY <1>4, <2>4, <2>5, <2>6, <2>8, <2>9, FinishKeeps
  <1> QED
    BY <1>5, <1>6

LEMMA ReadIntentStep ==
  ASSUME IInv, NEW c \in Caller, ReadIntent(c)
  PROVE  IInv'
  <1> SUFFICES ASSUME NEW r, r = call[c], NEW k, k = r.key PROVE IInv'
    OBVIOUS
  <1>1. pc[c] = "review" /\ pc[c] \in Reviewing
    BY DEF ReadIntent, Reviewing
  <1>2. k \in Key /\ r.decision \in Decision /\ r \in Review
    BY <1>1, CallType DEF IInv
  <1>3. RowsType
    BY RowsTyped DEF IInv
  <1>4. UNCHANGED <<challenge, method, usedBy, pin, enrolled, wipes, intent, payload, authority, created,
                    audit, now, calls, together>>
    BY DEF ReadIntent, stepup, pins, intents, counters
  <1>5. CASE intent[k] = Outcome(r.decision) /\ Tell(r) /\ Finish(c)
    <2>1. told' = told \cup {r}
      BY <1>5 DEF Tell
    <2>2. RowsType'
      BY <1>2, <1>3, <1>4, <2>1 DEF RowsType
    <2>3. DecisionsStand'
      BY <1>4, <1>5, <2>1 DEF IInv, DecisionsStand
    <2>4. AuthorisedOnce' /\ Grows /\ UsesOnly(c)
      BY <1>4, StepupFrame DEF stepup
    <2> QED
      BY <1>5, <2>2, <2>3, <2>4, FinishKeeps
  <1>6. CASE Goto(c, "audit") /\ UNCHANGED told
    <2>1. RowsType'
      BY <1>3, <1>4, <1>6 DEF RowsType
    <2>2. {pc[c], "audit"} \subseteq Reviewing
      BY <1>1 DEF Reviewing
    <2> QED
      BY <1>4, <1>6, <2>1, <2>2, QuietGoto DEF stepup, review
  <1>7. CASE Finish(c) /\ UNCHANGED told
    <2>1. RowsType'
      BY <1>3, <1>4, <1>7 DEF RowsType
    <2> QED
      BY <1>4, <1>7, <2>1, FinishQuietly DEF stepup, review
  <1> QED
    BY <1>5, <1>6, <1>7 DEF ReadIntent

LEMMA WriteAuditStep ==
  ASSUME IInv, NEW c \in Caller, WriteAudit(c)
  PROVE  IInv'
  <1> SUFFICES ASSUME NEW r, r = call[c] PROVE IInv'
    OBVIOUS
  <1>1. pc[c] = "audit" /\ {pc[c], "decide"} \subseteq Reviewing
    BY DEF WriteAudit, Reviewing
  <1>2. r \in Review
    BY <1>1, CallType DEF IInv
  <1>3. UNCHANGED <<challenge, method, usedBy, pin, enrolled, wipes, intent, payload, authority, created,
                    told, now, calls, together>>
    BY DEF WriteAudit, stepup, pins, intents, counters
  <1>4. /\ audit \subseteq audit' /\ audit' \subseteq audit \cup {r} /\ Goto(c, "decide")
        /\ \E e \in audit' : e.request = r.request
    BY DEF WriteAudit, AuditWith
  <1>5. RowsType'
    BY <1>2, <1>3, <1>4, RowsTyped DEF IInv, RowsType
  <1>6. AuthorisedOnce' /\ Grows /\ UsesOnly(c)
    BY <1>3, <1>4, StepupFrame DEF stepup
  <1>7. DecisionsStand'
    BY <1>3, <1>4 DEF IInv, DecisionsStand
  <1>8. "decide" \in Labels /\ r \in Asks("decide") /\ Moves(c, "decide", r)
    BY <1>1, <1>4, GotoMoves, GotoAsks
  <1>9. Knows("decide", r)'
    BY <1>4 DEF Knows, Logged, Verifying, Enrolling, Creating
  <1>10. TokensHeldOnce'
    BY <1>8, NoNewHolder
  <1> QED
    BY <1>5, <1>6, <1>7, <1>8, <1>9, <1>10, StepKeeps

LEMMA DecideStep ==
  ASSUME IInv, NEW c \in Caller, Decide(c)
  PROVE  IInv'
  <1> SUFFICES ASSUME NEW r, r = call[c], NEW k, k = r.key PROVE IInv'
    OBVIOUS
  <1>1. pc[c] = "decide" /\ pc[c] \in Reviewing
    BY DEF Decide, Reviewing
  <1>2. k \in Key /\ r.decision \in Decision /\ r \in Review
    BY <1>1, CallType DEF IInv
  <1>3. RowsType
    BY RowsTyped DEF IInv
  <1>4. UNCHANGED <<challenge, method, usedBy, pin, enrolled, wipes, payload, authority, created,
                    audit, now, calls, together>> /\ Finish(c)
    BY DEF Decide, stepup, pins, intents, counters
  <1>5. \E e \in audit : e.request = r.request
    BY <1>1 DEF IInv, CallsKnow, Knows, Logged
  <1>6. AuthorisedOnce' /\ Grows /\ UsesOnly(c)
    BY <1>4, StepupFrame DEF stepup
  <1>7. told' = told \cup {r} \/ told' = told
    BY DEF Decide, Tell
  <1>8. \A q \in told : q.key \in Key /\ intent[q.key] \in {"queued", "rejected"}
    BY <1>3, Verdicts DEF IInv, DecisionsStand, RowsType, Review
  <1>9. CASE ~Pending(k)
    <2>1. intent' = intent /\ (told' = told \/ intent[k] = Outcome(r.decision))
      BY <1>9 DEF Decide
    <2>2. RowsType'
      BY <1>2, <1>3, <1>4, <1>7, <2>1 DEF RowsType
    <2>3. DecisionsStand'
      BY <1>4, <1>7, <2>1 DEF IInv, DecisionsStand
    <2> QED
      BY <1>4, <1>6, <2>2, <2>3, FinishKeeps
  <1>10. CASE Pending(k)
    <2>1. /\ intent' = [intent EXCEPT ![k] = Outcome(r.decision)]
          /\ intent[k] = "auth_ok"
          /\ told' = told \cup {r}
      BY <1>10 DEF Decide, Pending, Tell
    <2>2. /\ intent' \in [Key -> {"absent", "auth_ok", "queued", "rejected"}]
          /\ intent'[k] = Outcome(r.decision)
          /\ \A l \in Key \ {k} : intent'[l] = intent[l]
      BY <1>2, <1>3, <2>1, Verdicts DEF RowsType
    <2>3. intent'[k] # "absent"
      BY <1>2, <2>2, Verdicts
    <2>4. RowsType'
      BY <1>2, <1>3, <1>4, <2>1, <2>2, <2>3 DEF RowsType
    <2>5. ASSUME NEW q \in told' PROVE intent'[q.key] = Outcome(q.decision)
      <3>1. CASE q = r
        BY <2>2, <3>1
      <3>2. CASE q \in told
        <4>1. q.key \in Key \ {k} /\ intent[q.key] = Outcome(q.decision)
          BY <1>8, <2>1, <3>2 DEF IInv, DecisionsStand
        <4> QED
          BY <2>2, <4>1
      <3> QED
        BY <2>1, <3>1, <3>2
    <2>6. ASSUME NEW l \in Key, intent'[l] \in {"queued", "rejected"}
          PROVE  \E q \in told' : q.key = l /\ \E e \in audit' : e.request = q.request
      <3>1. CASE l = k
        BY <1>4, <1>5, <2>1, <3>1
      <3>2. CASE l # k
        BY <1>4, <2>1, <2>2, <2>6, <3>2 DEF IInv, DecisionsStand
      <3> QED
        BY <3>1, <3>2
    <2>7. DecisionsStand'
      BY <2>5, <2>6 DEF DecisionsStand, Outcome
    <2> QED
      BY <1>4, <1>6, <2>4, <2>7, FinishKeeps
  <1> QED
    BY <1>9, <1>10

LEMMA FailsStep ==
  ASSUME IInv, NEW c \in Caller, Fails(c)
  PROVE  IInv'
  <1>1. RowsType' /\ UNCHANGED <<stepup, enrolled, authority, intent, review>> /\ Finish(c)
    BY RowsTyped DEF IInv, RowsType, Fails, stepup, pins, intents, review, counters
  <1> QED
    BY <1>1, FinishQuietly

\* A challenge is inserted, the clock ticks, or nothing happens: no call is at it.
LEMMA EnvironmentSteps ==
  ASSUME IInv, (\E h \in Challenge, m \in Method : CreateChallenge(h, m)) \/ Tick \/ UNCHANGED vars
  PROVE  IInv'
  <1>1. RowsType /\ pc \in [Caller -> Labels]
    BY RowsTyped DEF IInv, TypeOK
  <1>2. UNCHANGED <<pc, call, usedBy, enrolled, authority, intent, review, payload, created, pin, wipes, calls, together>>
    BY DEF CreateChallenge, Tick, vars, stepup, pins, intents, review, counters
  <1>3. UNCHANGED <<audit, told>>
    BY <1>2 DEF review
  <1>4. \/ \E h \in Challenge, m \in Method :
              /\ challenge[h] = "absent" /\ now' = now
              /\ challenge' = [challenge EXCEPT ![h] = "open"] /\ method' = [method EXCEPT ![h] = m]
        \/ /\ UNCHANGED <<challenge, method>>
           /\ now' = now \/ (now < MaxTime /\ now' = now + 1)
    BY DEF CreateChallenge, Tick, vars, stepup, counters
  <1>5. /\ challenge' \in [Challenge -> {"absent", "open", "verified", "spent"}]
        /\ method' \in [Challenge -> Method]
        /\ \A h \in Challenge :
              \/ challenge'[h] = challenge[h] /\ method'[h] = method[h]
              \/ challenge[h] = "absent" /\ challenge'[h] = "open"
    BY <1>1, <1>4 DEF RowsType
  <1>6. now' \in Time
    BY <1>1, <1>4, WithdrawAssumption DEF RowsType, Time
  <1>7. RowsType'
    BY <1>1, <1>2, <1>3, <1>5, <1>6 DEF RowsType
  <1>8. Grows
    BY <1>2, <1>3, <1>5 DEF Grows, Issued, Coded
  <1>9. \A h \in Challenge : Unused(h) => Unused(h)'
    BY <1>2, <1>5 DEF Unused
  <1>10. CallsKnow'
    <2> SUFFICES ASSUME NEW d \in Caller PROVE Knows(pc[d], call[d])'
      BY DEF CallsKnow
    <2>1. pc'[d] = pc[d] /\ call'[d] = call[d]
      BY <1>2
    <2>2. Knows(pc[d], call[d])
      BY DEF IInv, CallsKnow
    <2>3. pc[d] \in Verifying \cup Enrolling \cup Creating => call[d].challenge \in Challenge
      BY CallType DEF IInv
    <2>4. pc[d] \in {"set_pin", "insert"} => Unused(call[d].challenge)'
      BY <1>9, <2>1, <2>2, <2>3 DEF Knows, Enrolling, Creating, Unused
    <2> QED
      BY <1>8, <2>1, <2>2, <2>3, <2>4 DEF Knows, Grows, Verifying, Enrolling, Creating, Issued, Coded, Unused, Logged
  <1>11. TokensHeldOnce'
    BY <1>2 DEF IInv, TokensHeldOnce, Holding
  <1>12. AuthorisedOnce'
    BY <1>2, <1>5 DEF IInv, AuthorisedOnce, AuthorisedBy, Issued
  <1>13. DecisionsStand'
    BY <1>2, ReviewFrame
  <1>14. TypeOK' /\ DOMAIN call' = Caller
    <2>1. TypeOK /\ DOMAIN call = Caller
      BY DEF IInv
    <2>2. \A d \in Caller : (call[d] \in Asks(pc[d]))'
      BY <1>2, <2>1 DEF TypeOK, Asks
    <2> QED
      BY <1>1, <1>2, <1>7, <2>1, <2>2 DEF TypeOK, RowsType
  <1> QED
    BY <1>10, <1>11, <1>12, <1>13, <1>14 DEF IInv

-----------------------------------------------------------------------------
(* The invariant *)

THEOREM InitIInv == Init => IInv
  <1> SUFFICES ASSUME Init PROVE IInv
    OBVIOUS
  <1>1. \A c \in Caller : pc[c] = "idle" /\ call[c] = None
    BY DEF Init
  <1>2. "idle" \in Labels /\ None \in Asks("idle")
    BY AsksOf, LabelsOf
  <1>3. \A c \in Caller : call[c] \in Asks(pc[c])
    BY <1>1, <1>2
  <1>4. TypeOK
    <2>1. 0 \in Time /\ 0 \in 0..MaxCalls
      BY WithdrawAssumption DEF Time
    <2> QED
      BY <1>2, <1>3, <2>1 DEF Init, TypeOK, Method
  <1>5. CallsKnow /\ TokensHeldOnce
    BY <1>1 DEF CallsKnow, Knows, TokensHeldOnce, Holding, Verifying, Enrolling, Creating
  <1>6. AuthorisedOnce
    BY WithdrawAssumption DEF Init, AuthorisedOnce, AuthorisedBy, Issued
  <1>7. DecisionsStand
    BY Verdicts DEF Init, DecisionsStand
  <1> QED
    BY <1>4, <1>5, <1>6, <1>7 DEF Init, IInv

THEOREM NextIInv == IInv /\ [Next]_vars => IInv'
  <1> SUFFICES ASSUME IInv, [Next]_vars PROVE IInv'
    OBVIOUS
  <1>1. ASSUME NEW c \in Caller, NewCall(c) PROVE IInv'
    BY <1>1, BeginStep
  <1>2. ASSUME NEW c \in Caller, VerifyStep(c) PROVE IInv'
    BY <1>2, ReadingSteps, UseCodeStep, VerifyChallengeStep, SpendStep DEF VerifyStep
  <1>3. ASSUME NEW c \in Caller, PinStep(c) PROVE IInv'
    BY <1>3, ReadingSteps, SetPinStep, WipeSteps DEF PinStep
  <1>4. ASSUME NEW c \in Caller, IntentStep(c) PROVE IInv'
    BY <1>4, ReadingSteps, InsertStep DEF IntentStep
  <1>5. ASSUME NEW c \in Caller, ReviewStep(c) PROVE IInv'
    BY <1>5, ReadIntentStep, WriteAuditStep, DecideStep DEF ReviewStep
  <1>6. ASSUME NEW c \in Caller, Fails(c) PROVE IInv'
    BY <1>6, FailsStep
  <1> QED
    BY <1>1, <1>2, <1>3, <1>4, <1>5, <1>6, EnvironmentSteps DEF Next

-----------------------------------------------------------------------------
(* The daily cap *)

(* The principal a call may still add: its amount, from the step that admitted it to the one    *)
(* that inserts it or gives up.                                                                 *)
Charge == [c \in Caller |-> IF pc[c] \in Admitted THEN Principal[call[c].payload] ELSE 0]

(* The last call admitted today saw every row of today: its amount fits under the cap with      *)
(* what is there, and each call admitted before it and still in flight adds a cap at most.      *)
(* There were never more of them than most.                                                     *)
Owing(charge) == {c \in Caller : charge[c] > 0}

Room(n, most) == Cap * (most - n)

Fits(charge, total, most) ==
    /\ Cardinality(Owing(charge)) <= most
    /\ IF Owing(charge) = {} THEN total <= Room(0, most)
       ELSE \E c \in Owing(charge) : total + charge[c] <= Room(Cardinality(Owing(charge)) - 1, most)

Today == SeoulDate[now]

CapIInv ==
    /\ \A k \in Key : created[k] <= now
    /\ Charge \in [Caller -> 0..Cap]
    /\ Fits(Charge, Total(Dated(Today)), together)
    /\ CapBounded

LEMMA RoomFacts ==
  ASSUME NEW most \in Nat
  PROVE  \A n \in 0..most :
            /\ Room(n, most) \in Nat /\ Room(n, most) <= Room(0, most)
            /\ n > 0 => Room(n - 1, most) = Room(n, most) + Cap
  <1>1. Cap \in Nat
    BY WithdrawAssumption
  <1>2. \A x, y \in Nat : Cap * x \in Nat /\ Cap * (x + y) = Cap * x + Cap * y /\ Cap * (x + 1) = Cap * x + Cap
    BY <1>1
  <1> SUFFICES ASSUME NEW n \in 0..most
               PROVE  /\ Room(n, most) \in Nat /\ Room(n, most) <= Room(0, most)
                      /\ n > 0 => Room(n - 1, most) = Room(n, most) + Cap
    OBVIOUS
  <1> DEFINE x == most - n
  <1>3. x \in Nat /\ n \in Nat
    OBVIOUS
  <1>4. most - 0 = x + n /\ most - (n - 1) = x + 1
    OBVIOUS
  <1>5. Room(n, most) = Cap * x /\ Room(0, most) = Cap * (x + n) /\ Room(n - 1, most) = Cap * (x + 1)
    BY <1>4 DEF Room
  <1>6. Cap * n \in Nat /\ Cap * x \in Nat /\ Cap * (x + n) = Cap * x + Cap * n /\ Cap * (x + 1) = Cap * x + Cap
    BY <1>2, <1>3
  <1> HIDE DEF x
  <1> QED
    BY <1>1, <1>5, <1>6

\* A cap for each of more calls is more.
LEMMA CapsGrow ==
  ASSUME NEW m \in Nat, NEW n \in Nat, m <= n
  PROVE  Cap * m \in Nat /\ Cap * n \in Nat /\ Cap * m <= Cap * n
  <1>1. Cap \in Nat
    BY WithdrawAssumption
  <1>2. PICK d \in Nat : n = m + d
    <2>1. n - m \in Nat /\ n = m + (n - m)
      OBVIOUS
    <2> QED
      BY <2>1
  <1>3. Cap * (m + d) = Cap * m + Cap * d /\ Cap * m \in Nat /\ Cap * d \in Nat
    BY <1>1
  <1> QED
    BY <1>2, <1>3

\* The calls a charge is about are callers, of whom there are finitely many.
LEMMA OwingFacts ==
  ASSUME NEW charge
  PROVE  /\ Owing(charge) \subseteq Caller /\ IsFiniteSet(Owing(charge))
         /\ Cardinality(Owing(charge)) \in Nat
         /\ Owing(charge) # {} => Cardinality(Owing(charge)) > 0
  <1>1. Owing(charge) \subseteq Caller /\ IsFiniteSet(Caller)
    BY WithdrawAssumption DEF Owing
  <1>2. IsFiniteSet(Owing(charge))
    BY <1>1, FS_Subset
  <1>3. Cardinality(Owing(charge)) \in Nat
    BY <1>2, FS_CardinalityType
  <1>4. Owing(charge) # {} => Cardinality(Owing(charge)) # 0
    BY <1>2, FS_EmptySet
  <1> QED
    BY <1>1, <1>2, <1>3, <1>4

\* The calls past the cap are those that owe a charge.
LEMMA AddingOwing == Adding = Owing(Charge) /\ Adding' = Owing(Charge')
  BY DEF Adding, Owing, Charge

\* What fits is within the cap for each of the most calls there were.
LEMMA FitsBounds ==
  ASSUME NEW charge \in [Caller -> 0..Cap], NEW total \in Nat, NEW most \in Nat, Fits(charge, total, most)
  PROVE  total <= Cap * most
  <1>1. Room(0, most) = Cap * most /\ Cap \in Nat
    BY RoomFacts, WithdrawAssumption DEF Room
  <1>2. CASE Owing(charge) = {}
    BY <1>1, <1>2 DEF Fits
  <1>3. CASE Owing(charge) # {}
    <2> DEFINE f == Cardinality(Owing(charge))
    <2>1. f \in 1..most /\ f - 1 \in 0..most
      BY <1>3, OwingFacts DEF Fits
    <2>2. Room(f - 1, most) \in Nat /\ Room(f - 1, most) <= Room(0, most)
      <3> HIDE DEF f
      <3> QED
        BY <2>1, RoomFacts
    <2>3. PICK c \in Owing(charge) : total + charge[c] <= Room(f - 1, most)
      BY <1>3 DEF Fits
    <2>4. charge[c] \in Nat
      BY <1>1, <2>3, OwingFacts
    <2>5. Room(0, most) \in Nat
      BY <2>1, RoomFacts
    <2> HIDE DEF f
    <2> QED
      BY <1>1, <2>2, <2>3, <2>4, <2>5
  <1> QED
    BY <1>2, <1>3

\* A new day starts with nothing, whoever is still in flight.
LEMMA FitsNothing ==
  ASSUME NEW charge \in [Caller -> 0..Cap], NEW most \in Nat, Cardinality(Owing(charge)) <= most
  PROVE  Fits(charge, 0, most)
  <1>1. Cap \in Nat /\ Room(0, most) \in Nat
    BY RoomFacts, WithdrawAssumption
  <1>2. CASE Owing(charge) # {}
    <2> DEFINE f == Cardinality(Owing(charge))
    <2>1. f \in 1..most
      BY <1>2, OwingFacts
    <2>2. Room(f, most) \in Nat /\ Room(f - 1, most) = Room(f, most) + Cap
      <3> HIDE DEF f
      <3> QED
        BY <2>1, RoomFacts
    <2>3. PICK c \in Owing(charge) : TRUE
      BY <1>2
    <2>4. charge[c] \in 0..Cap
      BY <2>3, OwingFacts
    <2>5. 0 + charge[c] <= Room(f - 1, most)
      <3> HIDE DEF f
      <3> QED
        BY <1>1, <2>2, <2>4
    <2> QED
      BY <1>2, <2>3, <2>5 DEF Fits
  <1> QED
    BY <1>1, <1>2 DEF Fits

\* The call admitted last fits with what it saw; the others have the rest of the room.
LEMMA FitsAdmit ==
  ASSUME NEW charge \in [Caller -> 0..Cap], NEW total \in Nat, NEW most \in Nat,
         Cardinality(Owing(charge)) <= most,
         NEW c \in Caller, charge[c] > 0, total + charge[c] <= Cap
  PROVE  Fits(charge, total, most)
  <1> DEFINE f == Cardinality(Owing(charge))
  <1>1. c \in Owing(charge)
    BY DEF Owing
  <1>2. f \in 1..most
    BY <1>1, OwingFacts
  <1>3. Room(f, most) \in Nat /\ Room(f - 1, most) = Room(f, most) + Cap /\ Cap \in Nat /\ charge[c] \in Nat
    <2>1. Cap \in Nat /\ charge[c] \in Nat
      BY WithdrawAssumption
    <2>2. f \in 0..most /\ f > 0
      BY <1>2
    <2>3. Room(f, most) \in Nat /\ (f > 0 => Room(f - 1, most) = Room(f, most) + Cap)
      <3> HIDE DEF f
      <3> QED
        BY <2>2, RoomFacts
    <2> HIDE DEF f
    <2> QED
      BY <2>1, <2>2, <2>3
  <1>4. total + charge[c] <= Room(f - 1, most)
    <2> HIDE DEF f
    <2> QED
      BY <1>3
  <1> QED
    BY <1>1, <1>4 DEF Fits

\* A call that leaves has added its amount at most, and leaves its cap to the others.
LEMMA FitsLeave ==
  ASSUME NEW charge \in [Caller -> 0..Cap], NEW total \in Nat, NEW most \in Nat, Fits(charge, total, most),
         NEW c \in Caller, NEW more \in Nat, more <= total + charge[c]
  PROVE  Fits([charge EXCEPT ![c] = 0], more, most)
  <1> DEFINE left == [charge EXCEPT ![c] = 0]
  <1> DEFINE F == Owing(charge)
             G == Owing(left)
             f == Cardinality(F)
  <1>0. Cap \in Nat /\ (\A d \in Caller : charge[d] \in Nat /\ charge[d] <= Cap)
    BY WithdrawAssumption
  <1>1. G = F \ {c} /\ F \subseteq Caller /\ IsFiniteSet(F)
    BY OwingFacts DEF Owing
  <1>2. /\ \A d \in G : left[d] = charge[d]
        /\ f \in 0..most /\ Cardinality(G) <= most
    <2>1. \A d \in G : left[d] = charge[d]
      BY <1>1
    <2>2. f \in Nat /\ f <= most /\ Cardinality(G) \in Nat
      BY OwingFacts DEF Fits
    <2>3. Cardinality(G) <= f
      <3> HIDE DEF F, G
      <3> QED
        BY <1>1, FS_Subset
    <2>4. f \in 0..most /\ Cardinality(G) <= most
      <3> HIDE DEF f, G
      <3> QED
        BY <2>2, <2>3
    <2> QED
      BY <2>1, <2>4
  <1>3. CASE c \notin F
    <2>1. G = F /\ charge[c] = 0
      BY <1>0, <1>1, <1>3 DEF Owing
    <2>2. more <= total
      BY <2>1
    <2>3. CASE F = {}
      <3>1. total <= Room(0, most) /\ Room(0, most) \in Nat
        BY <2>3, RoomFacts DEF Fits
      <3> QED
        BY <1>2, <2>1, <2>2, <2>3, <3>1 DEF Fits
    <2>4. CASE F # {}
      <3>1. PICK d \in F : total + charge[d] <= Room(f - 1, most)
        BY <2>4 DEF Fits
      <3>2. Room(f - 1, most) \in Nat /\ charge[d] \in Nat
        <4>1. f - 1 \in 0..most
          BY <1>2, <2>4, OwingFacts
        <4>2. charge[d] \in Nat
          BY <1>0, <1>1, <3>1
        <4> HIDE DEF f
        <4> QED
          BY <4>1, <4>2, RoomFacts
      <3>3. more + left[d] <= Room(f - 1, most)
        <4> HIDE DEF f, left
        <4> QED
          BY <1>2, <2>1, <2>2, <3>1, <3>2
      <3> QED
        BY <1>2, <2>1, <2>4, <3>1, <3>3 DEF Fits
    <2> QED
      BY <2>3, <2>4
  <1>4. CASE c \in F
    <2>1. Cardinality(G) = f - 1 /\ f \in 1..most
      <3>1. f \in 1..most
        BY <1>2, <1>4, OwingFacts
      <3>2. Cardinality(F \ {c}) = Cardinality(F) - 1
        <4> HIDE DEF F
        <4> QED
          BY <1>1, <1>4, FS_RemoveElement
      <3> QED
        BY <1>1, <3>1, <3>2
    <2>2. PICK e \in F : total + charge[e] <= Room(f - 1, most)
      BY <1>4 DEF Fits
    <2>3. Room(f - 1, most) \in Nat /\ charge[e] \in Nat /\ charge[c] \in Nat /\ e \in Caller
      <3>1. charge[e] \in Nat /\ charge[c] \in Nat /\ e \in Caller
        BY <1>0, <1>1, <2>2
      <3>2. f - 1 \in 0..most
        BY <2>1
      <3> HIDE DEF f
      <3> QED
        BY <3>1, <3>2, RoomFacts
    <2>4. CASE G = {}
      <3>1. e = c
        BY <1>1, <2>2, <2>4
      <3>2. Room(f - 1, most) <= Room(0, most) /\ Room(0, most) \in Nat
        <4>1. f - 1 \in 0..most /\ 0 \in 0..most
          BY <2>1
        <4> HIDE DEF f
        <4> QED
          BY <4>1, RoomFacts
      <3>3. more <= Room(0, most)
        <4> HIDE DEF f
        <4> QED
          BY <2>2, <2>3, <3>1, <3>2
      <3> QED
        BY <1>2, <2>4, <3>3 DEF Fits
    <2>5. CASE G # {}
      <3>1. Cardinality(G) \in 1..most
        <4> HIDE DEF left
        <4> QED
          BY <1>2, <2>5, OwingFacts
      <3>2. Room(f - 2, most) = Room(f - 1, most) + Cap /\ Room(f - 2, most) \in Nat
        <4>1. f - 1 \in 1..most /\ (f - 1) - 1 = f - 2
          BY <2>1, <3>1
        <4> HIDE DEF f
        <4> QED
          BY <1>0, <2>3, <4>1, RoomFacts
      <3>3. \E d \in G : more + charge[d] <= Room(f - 2, most)
        <4>1. CASE e = c
          <5>1. PICK d \in G : TRUE
            BY <2>5
          <5>2. charge[d] \in Nat /\ charge[d] <= Cap
            BY <1>0, <1>1, <5>1
          <5>3. more + charge[d] <= Room(f - 2, most)
            <6> HIDE DEF f
            <6> QED
              BY <1>0, <2>2, <2>3, <3>2, <4>1, <5>2
          <5> QED
            BY <5>1, <5>3
        <4>2. CASE e # c
          <5>1. e \in G /\ charge[c] <= Cap
            BY <1>0, <1>1, <2>2, <4>2
          <5>2. more + charge[e] <= Room(f - 2, most)
            <6> HIDE DEF f, G
            <6> QED
              BY <1>0, <2>2, <2>3, <3>2, <5>1
          <5> QED
            BY <5>1, <5>2
        <4> QED
          BY <4>1, <4>2
      <3>4. PICK d \in G : more + left[d] <= Room(f - 2, most)
        BY <1>2, <3>3
      <3>5. Cardinality(G) - 1 = f - 2
        BY <2>1
      <3>6. more + left[d] <= Room(Cardinality(G) - 1, most)
        BY <3>4, <3>5
      <3> QED
        BY <1>2, <2>5, <3>6 DEF Fits
    <2> QED
      BY <2>4, <2>5
  <1> QED
    BY <1>3, <1>4

LEMMA FitsFewer ==
  ASSUME NEW charge \in [Caller -> 0..Cap], NEW total \in Nat, NEW most \in Nat, Fits(charge, total, most),
         NEW fewer \in Nat, fewer <= total
  PROVE  Fits(charge, fewer, most)
  <1>1. CASE Owing(charge) = {}
    <2>1. total <= Room(0, most) /\ Room(0, most) \in Nat
      BY <1>1, RoomFacts DEF Fits
    <2> QED
      BY <1>1, <2>1 DEF Fits
  <1>2. CASE Owing(charge) # {}
    <2> DEFINE f == Cardinality(Owing(charge))
    <2>1. PICK c \in Owing(charge) : total + charge[c] <= Room(f - 1, most)
      BY <1>2 DEF Fits
    <2>2. Room(f - 1, most) \in Nat /\ charge[c] \in Nat
      <3>1. f - 1 \in 0..most
        BY <1>2, OwingFacts DEF Fits
      <3>2. charge[c] \in Nat
        BY <2>1, OwingFacts, WithdrawAssumption
      <3> HIDE DEF f
      <3> QED
        BY <3>1, <3>2, RoomFacts
    <2>3. fewer + charge[c] <= Room(f - 1, most)
      <3> HIDE DEF f
      <3> QED
        BY <2>1, <2>2
    <2> QED
      BY <1>2, <2>1, <2>3 DEF Fits
  <1> QED
    BY <1>1, <1>2

-----------------------------------------------------------------------------
(* What a set of rows adds up to; pay stands for payload, before or after a step. *)

Worth(pay) == [k \in Key |-> IF pay[k] = None THEN 0 ELSE Principal[pay[k]]]

Principals(pay, keys) == SumFunction([k \in keys |-> Principal[pay[k]]])

LEMMA PrincipalsSum ==
  ASSUME NEW pay \in [Key -> Payload \cup {None}], NEW keys \in SUBSET Key, \A k \in keys : pay[k] \in Payload
  PROVE  /\ IsFiniteSet(keys) /\ \A k \in Key : Worth(pay)[k] \in Nat
         /\ Principals(pay, keys) = SumFunctionOnSet(Worth(pay), keys)
         /\ Principals(pay, keys) \in Nat
  <1> DEFINE w == [k \in keys |-> Principal[pay[k]]]
  <1>1. IsFiniteSet(keys)
    BY WithdrawAssumption, FS_Subset
  <1>2. \A k \in Key : Worth(pay)[k] \in Nat
    BY WithdrawAssumption DEF Worth
  <1>3. \A k \in keys : w[k] = Worth(pay)[k] /\ w[k] \in Nat
    BY WithdrawAssumption DEF Worth
  <1>4. Principals(pay, keys) = SumFunctionOnSet(w, keys)
    BY DEF Principals, SumFunction
  <1> HIDE DEF w
  <1>5. SumFunctionOnSet(w, keys) = SumFunctionOnSet(Worth(pay), keys)
    BY <1>1, <1>3, SumAgree
  <1>6. SumFunctionOnSet(w, keys) \in Nat
    BY <1>1, <1>3, SumNat
  <1> QED
    BY <1>1, <1>2, <1>4, <1>5, <1>6

LEMMA PrincipalsFewer ==
  ASSUME NEW pay \in [Key -> Payload \cup {None}], NEW keys \in SUBSET Key, \A k \in keys : pay[k] \in Payload,
         NEW some \in SUBSET keys
  PROVE  Principals(pay, some) <= Principals(pay, keys)
  <1>1. IsFiniteSet(keys) /\ \A k \in keys : Worth(pay)[k] \in Nat
    BY PrincipalsSum
  <1>2. SumFunctionOnSet(Worth(pay), some) <= SumFunctionOnSet(Worth(pay), keys)
    BY <1>1, SumMonotone
  <1>3. some \in SUBSET Key /\ \A k \in some : pay[k] \in Payload
    OBVIOUS
  <1> QED
    BY <1>2, <1>3, PrincipalsSum

\* A row that gets its payload adds its principal, and changes no sum it is not in.
Adds(pay, after, keys, k, p) ==
    /\ pay \in [Key -> Payload \cup {None}] /\ keys \in SUBSET Key /\ \A l \in keys : pay[l] \in Payload
    /\ k \in Key /\ k \notin keys /\ p \in Payload
    /\ after \in [Key -> Payload \cup {None}] /\ after[k] = p /\ \A l \in keys : after[l] = pay[l]

LEMMA PrincipalsMore ==
  ASSUME NEW pay, NEW after, NEW keys, NEW k, NEW p, Adds(pay, after, keys, k, p)
  PROVE  /\ Principals(after, keys) = Principals(pay, keys)
         /\ Principals(after, keys \cup {k}) = Principals(pay, keys) + Principal[p]
  <1> USE DEF Adds
  <1>1. keys \cup {k} \in SUBSET Key
    OBVIOUS
  <1>2. (\A l \in keys \cup {k} : after[l] \in Payload) /\ (\A l \in keys : after[l] \in Payload)
    OBVIOUS
  <1>3. /\ IsFiniteSet(keys) /\ Principals(after, keys) \in Nat
        /\ (\A l \in keys \cup {k} : Worth(after)[l] \in Int)
        /\ Principals(after, keys) = SumFunctionOnSet(Worth(after), keys)
        /\ Principals(after, keys \cup {k}) = SumFunctionOnSet(Worth(after), keys \cup {k})
    <2>1. /\ IsFiniteSet(keys) /\ Principals(after, keys) \in Nat
          /\ \A l \in Key : Worth(after)[l] \in Nat
          /\ Principals(after, keys) = SumFunctionOnSet(Worth(after), keys)
      BY <1>1, <1>2, PrincipalsSum
    <2>2. Principals(after, keys \cup {k}) = SumFunctionOnSet(Worth(after), keys \cup {k})
      BY <1>1, <1>2, PrincipalsSum
    <2> QED
      BY <2>1, <2>2
  <1>4. Worth(after)[k] = Principal[p] /\ Principal[p] \in Nat
    BY WithdrawAssumption DEF Worth
  <1>5. SumFunctionOnSet(Worth(after), keys \cup {k}) = Worth(after)[k] + SumFunctionOnSet(Worth(after), keys)
    BY <1>3, SumAdd
  <1>6. Principals(after, keys) = Principals(pay, keys)
    <2>1. [l \in keys |-> Principal[after[l]]] = [l \in keys |-> Principal[pay[l]]]
      OBVIOUS
    <2> QED
      BY <2>1 DEF Principals
  <1> QED
    BY <1>3, <1>4, <1>5, <1>6

-----------------------------------------------------------------------------
(* How a step changes the day's total and the charges *)

\* The rows of a day are live rows, which have a payload; so they are after a step.
LEMMA DayFacts ==
  ASSUME RowsType, NEW d
  PROVE  /\ Dated(d) \in SUBSET Key /\ \A k \in Dated(d) : payload[k] \in Payload
         /\ Total(Dated(d)) = Principals(payload, Dated(d)) /\ Total(Dated(d)) \in Nat
  <1>1. Dated(d) \in SUBSET Key /\ \A k \in Dated(d) : payload[k] \in Payload
    BY DEF RowsType, Dated, Live
  <1>2. Total(Dated(d)) = Principals(payload, Dated(d))
    BY DEF Total, Principals
  <1>3. payload \in [Key -> Payload \cup {None}]
    BY DEF RowsType
  <1> QED
    BY <1>1, <1>2, <1>3, PrincipalsSum

LEMMA DayFactsNext ==
  ASSUME RowsType', NEW d
  PROVE  /\ Dated(d)' \in SUBSET Key /\ \A k \in Dated(d)' : payload'[k] \in Payload
         /\ Total(Dated(d))' = Principals(payload', Dated(d)') /\ Total(Dated(d))' \in Nat
  <1>1. Dated(d)' \in SUBSET Key /\ \A k \in Dated(d)' : payload'[k] \in Payload
    BY DEF RowsType, Dated, Live
  <1>2. Total(Dated(d))' = Principals(payload', Dated(d)')
    BY DEF Total, Principals
  <1>3. payload' \in [Key -> Payload \cup {None}]
    BY DEF RowsType
  <1> QED
    BY <1>1, <1>2, <1>3, PrincipalsSum

LEMMA DayShrinks ==
  ASSUME RowsType, RowsType', UNCHANGED <<payload, created>>, Live' \subseteq Live, NEW d
  PROVE  Total(Dated(d))' <= Total(Dated(d))
  <1>1. Dated(d)' \subseteq Dated(d)
    BY DEF Dated
  <1>2. payload \in [Key -> Payload \cup {None}] /\ payload' = payload
    BY DEF RowsType
  <1>3. Principals(payload, Dated(d)') <= Principals(payload, Dated(d))
    BY <1>1, <1>2, DayFacts, PrincipalsFewer
  <1> QED
    BY <1>2, <1>3, DayFacts, DayFactsNext

LEMMA ChargeMoves ==
  ASSUME IInv, NEW c \in Caller, NEW label, NEW m, Moves(c, label, m)
  PROVE  Charge' = [Charge EXCEPT ![c] = IF label \in Admitted THEN Principal[m.payload] ELSE 0]
  <1>1. pc \in [Caller -> Labels]
    BY DEF IInv, TypeOK
  <1>2. pc'[c] = label /\ call'[c] = m /\ \A d \in Caller \ {c} : pc'[d] = pc[d] /\ call'[d] = call[d]
    BY <1>1 DEF Moves
  <1> QED
    BY <1>2 DEF Charge

\* A step of a call that is not admitted by it keeps its charge or drops it.
LEMMA ChargeKept ==
  ASSUME IInv, NEW c \in Caller,
         \/ \E label \in Labels : Goto(c, label) /\ (label \in Admitted => pc[c] \in Admitted)
         \/ Finish(c)
         \/ \E label \in Labels \ Admitted : \E m : Begin(c, label, m)
  PROVE  Charge' = Charge \/ Charge' = [Charge EXCEPT ![c] = 0]
  <1>1. ASSUME NEW label \in Labels, Goto(c, label), label \in Admitted => pc[c] \in Admitted
        PROVE  Charge' = Charge \/ Charge' = [Charge EXCEPT ![c] = 0]
    <2>1. Charge' = [Charge EXCEPT ![c] = IF label \in Admitted THEN Principal[call[c].payload] ELSE 0]
      BY <1>1, GotoMoves, ChargeMoves
    <2>2. CASE label \in Admitted
      <3>1. Charge[c] = Principal[call[c].payload] /\ Charge = [d \in Caller |-> Charge[d]]
        BY <1>1, <2>2 DEF Charge
      <3> QED
        BY <2>1, <2>2, <3>1
    <2>3. CASE label \notin Admitted
      BY <2>1, <2>3
    <2> QED
      BY <2>2, <2>3
  <1>2. ASSUME Finish(c) PROVE Charge' = [Charge EXCEPT ![c] = 0]
    <2>1. Moves(c, "idle", None) /\ "idle" \notin Admitted
      BY <1>2, FinishMoves DEF Admitted
    <2> QED
      BY <2>1, ChargeMoves
  <1>3. ASSUME NEW label \in Labels \ Admitted, NEW m, Begin(c, label, m)
        PROVE  Charge' = [Charge EXCEPT ![c] = 0]
    <2>1. Moves(c, label, m)
      BY <1>3 DEF Begin, Moves, IInv
    <2> QED
      BY <1>3, <2>1, ChargeMoves
  <1> QED
    BY <1>1, <1>2, <1>3

\* The invariant for the other days follows from today's and from what it was.
LEMMA DaysKept ==
  ASSUME CapIInv, RowsType, RowsType', Charge' \in [Caller -> 0..Cap],
         Fits(Charge, Total(Dated(Today)), together)',
         together' \in Nat, together <= together', \A k \in Key : created'[k] <= now',
         \A t \in Time : SeoulDate[t] # Today' => Total(Dated(SeoulDate[t]))' <= Total(Dated(SeoulDate[t]))
  PROVE  CapIInv'
  <1>1. Cap * together \in Nat /\ Cap * together' \in Nat /\ Cap * together <= Cap * together'
    <2>1. together \in Nat
      BY DEF RowsType
    <2> QED
      BY <2>1, CapsGrow
  <1>2. CapBounded'
    <2> SUFFICES ASSUME NEW t \in Time
                 PROVE  Total(Dated(SeoulDate[t]))' <= Cap * together'
      BY DEF CapBounded
    <2> DEFINE before == Total(Dated(SeoulDate[t]))
               after == Total(Dated(SeoulDate[t]))'
    <2> SUFFICES after <= Cap * together'
      OBVIOUS
    <2>1. before \in Nat /\ after \in Nat
      BY DayFacts, DayFactsNext
    <2>2. CASE SeoulDate[t] = Today'
      <3>1. Fits(Charge', after, together')
        BY <2>2 DEF Fits, Owing, Room, Charge, Today
      <3> HIDE DEF after
      <3> QED
        BY <2>1, <3>1, FitsBounds
    <2>3. CASE SeoulDate[t] # Today'
      <3>1. after <= before /\ before <= Cap * together
        BY <2>3 DEF CapIInv, CapBounded
      <3> HIDE DEF before, after
      <3> QED
        BY <1>1, <2>1, <3>1
    <2> QED
      BY <2>2, <2>3
  <1> QED
    BY <1>2 DEF CapIInv

\* Rows can only leave the day, and the call keeps its charge or drops it.
LEMMA CapQuiet ==
  ASSUME IInv, IInv', CapIInv, UNCHANGED <<payload, created, now, together>>, Live' \subseteq Live,
         NEW c \in Caller, Charge' = Charge \/ Charge' = [Charge EXCEPT ![c] = 0]
  PROVE  CapIInv'
  <1>1. RowsType /\ RowsType'
    BY DEF IInv, TypeOK, RowsType
  <1> DEFINE before == Total(Dated(Today))
             after == Total(Dated(Today))'
  <1>2. Today' = Today
    BY DEF Today
  <1>3. before \in Nat /\ after \in Nat
    BY <1>1, DayFacts, DayFactsNext DEF Today
  <1>4. after <= before
    <2>1. after = Total(Dated(Today))'
      OBVIOUS
    <2> QED
      BY <1>1, <1>2, DayShrinks DEF Today
  <1>5. Charge \in [Caller -> 0..Cap] /\ Fits(Charge, before, together) /\ together \in Nat
    BY <1>1 DEF CapIInv, RowsType
  <1>6. Cap \in Nat /\ Charge' \in [Caller -> 0..Cap]
    BY <1>5, WithdrawAssumption
  <1>7. Fits(Charge', after, together')
    <2> HIDE DEF before, after
    <2>1. CASE Charge' = Charge
      BY <1>3, <1>4, <1>5, <2>1, FitsFewer
    <2>2. CASE Charge' = [Charge EXCEPT ![c] = 0]
      <3>1. Charge[c] \in Nat
        BY <1>5, <1>6
      <3>2. after <= before + Charge[c]
        BY <1>3, <1>4, <3>1
      <3> QED
        BY <1>3, <1>5, <2>2, <3>2, FitsLeave
    <2> QED
      BY <2>1, <2>2
  <1>8. Fits(Charge, Total(Dated(Today)), together)'
    BY <1>7 DEF Fits, Owing
  <1>9. \A t \in Time : Total(Dated(SeoulDate[t]))' <= Total(Dated(SeoulDate[t]))
    BY <1>1, DayShrinks
  <1>10. \A k \in Key : created'[k] <= now'
    BY DEF CapIInv
  <1>11. together' \in Nat /\ together <= together'
    BY <1>5
  <1> QED
    BY <1>1, <1>6, <1>8, <1>9, <1>10, <1>11, DaysKept

LEMMA CapGoto ==
  ASSUME IInv, IInv', CapIInv, UNCHANGED <<payload, created, now, together>>, Live' \subseteq Live,
         NEW c \in Caller,
         \/ \E label \in Labels : Goto(c, label) /\ (label \in Admitted => pc[c] \in Admitted)
         \/ Finish(c)
         \/ \E label \in Labels \ Admitted : \E m : Begin(c, label, m)
  PROVE  CapIInv'
  <1>1. Charge' = Charge \/ Charge' = [Charge EXCEPT ![c] = 0]
    BY ChargeKept
  <1> HIDE DEF Charge, CapIInv, Goto, Finish, Begin
  <1> QED
    BY <1>1, CapQuiet

\* The steps that neither admit nor insert.
LEMMA CapOthers ==
  ASSUME IInv, IInv', CapIInv, NEW c \in Caller,
         NewCall(c) \/ VerifyStep(c) \/ PinStep(c) \/ Lookup(c) \/ ReviewStep(c) \/ Fails(c)
  PROVE  CapIInv'
  <1>1. RowsType
    BY RowsTyped DEF IInv
  <1>2. UNCHANGED <<payload, created, now, together>>
    BY DEF NewCall, Begin, VerifyStep, ReadChallenge, ProvePin, UseCode, Verify, Spend, PinStep,
           ReadPin, SetPin, FindAudit, DeletePin, MarkPin, InsertAudit, Lookup, ReviewStep,
           ReadIntent, WriteAudit, Decide, Fails, intents, counters
  <1>3. Live' \subseteq Live
    <2>1. CASE UNCHANGED intent
      BY <2>1 DEF Live
    <2>2. CASE Decide(c)
      <3>1. call[c].key \in Key /\ call[c].decision \in Decision
        BY <2>2, CallType DEF Decide, Reviewing, IInv
      <3>2. \A k \in Key : intent'[k] = intent[k] \/ (k = call[c].key /\ intent[k] = "auth_ok")
        BY <1>1, <2>2, <3>1 DEF Decide, Pending, RowsType
      <3> QED
        BY <3>2 DEF Live
    <2> QED
      BY <2>1, <2>2
      DEF NewCall, Begin, VerifyStep, ReadChallenge, ProvePin, UseCode, Verify, Spend, PinStep,
          ReadPin, SetPin, FindAudit, DeletePin, MarkPin, InsertAudit, Lookup, ReviewStep,
          ReadIntent, WriteAudit, Fails
  <1>4. ASSUME NEW label \in Labels, Goto(c, label), label \in Admitted => pc[c] \in Admitted
        PROVE  CapIInv'
    BY <1>2, <1>3, <1>4, CapGoto
  <1>5. ASSUME Finish(c) PROVE CapIInv'
    BY <1>2, <1>3, <1>5, CapGoto
  <1>6. CASE NewCall(c)
    <2>1. PICK label \in {"read", "read_pin", "check", "review", "find"} : \E m : Begin(c, label, m)
      BY <1>6 DEF NewCall
    <2>2. label \in Labels \ Admitted
      BY DEF Labels, Admitted
    <2> QED
      BY <1>2, <1>3, <2>1, <2>2, CapGoto
  <1>7. CASE VerifyStep(c)
    <2>1. CASE ReadChallenge(c)
      <3>1. pc[c] = "read"
        BY <2>1 DEF ReadChallenge
      <3>2. method[call[c].challenge] \in Method
        BY <1>1, <3>1, CallType DEF Verifying, RowsType, IInv
      <3>3. ProofOf(method[call[c].challenge]) \in Labels \ Admitted
        BY <3>2, ProofLabels, LabelsOf DEF Verifying, Admitted
      <3>4. Goto(c, ProofOf(method[call[c].challenge])) \/ Finish(c)
        BY <2>1 DEF ReadChallenge
      <3> HIDE DEF Goto, Finish, ProofOf
      <3> QED
        BY <1>4, <1>5, <3>3, <3>4
    <2>2. CASE ProvePin(c) \/ UseCode(c)
      <3>1. Goto(c, "verify") \/ Finish(c)
        BY <2>2 DEF ProvePin, UseCode
      <3>2. "verify" \in Labels /\ "verify" \notin Admitted
        BY DEF Labels, Admitted
      <3> QED
        BY <1>4, <1>5, <3>1, <3>2
    <2>3. CASE Verify(c)
      BY <1>5, <2>3 DEF Verify
    <2>4. CASE Spend(c)
      <3>1. \/ pc[c] = "spend_to_enrol" /\ Goto(c, "set_pin")
            \/ pc[c] = "spend_to_create" /\ Goto(c, "insert")
            \/ Finish(c)
        BY <2>4 DEF Spend
      <3>2. /\ {"insert", "set_pin"} \subseteq Labels /\ "set_pin" \notin Admitted
            /\ "spend_to_create" \in Admitted
        BY DEF Labels, Admitted
      <3> QED
        BY <1>4, <1>5, <3>1, <3>2
    <2> QED
      BY <1>7, <2>1, <2>2, <2>3, <2>4 DEF VerifyStep
  <1>8. CASE PinStep(c)
    <2>1. \/ \E label \in {"spend_to_enrol", "delete", "mark", "log"} : Goto(c, label)
          \/ Finish(c)
      BY <1>8 DEF PinStep, ReadPin, SetPin, FindAudit, DeletePin, MarkPin, InsertAudit
    <2>2. \A label \in {"spend_to_enrol", "delete", "mark", "log"} : label \in Labels \ Admitted
      BY DEF Labels, Admitted
    <2> QED
      BY <1>4, <1>5, <2>1, <2>2
  <1>9. CASE Lookup(c)
    <2>1. pc[c] = "lookup" /\ (Goto(c, "spend_to_create") \/ Finish(c))
      BY <1>9 DEF Lookup
    <2>2. "spend_to_create" \in Labels /\ "lookup" \in Admitted
      BY DEF Labels, Admitted
    <2> QED
      BY <1>4, <1>5, <2>1, <2>2
  <1>10. CASE ReviewStep(c)
    <2>1. Goto(c, "audit") \/ Goto(c, "decide") \/ Finish(c)
      BY <1>10 DEF ReviewStep, ReadIntent, WriteAudit, Decide
    <2>2. {"audit", "decide"} \subseteq Labels \ Admitted
      BY DEF Labels, Admitted
    <2> QED
      BY <1>4, <1>5, <2>1, <2>2
  <1>11. CASE Fails(c)
    BY <1>5, <1>11 DEF Fails
  <1> QED
    BY <1>6, <1>7, <1>8, <1>9, <1>10, <1>11

\* checkCap: a call is admitted when what it saw of today leaves room for its amount.
LEMMA CapCheck ==
  ASSUME IInv, IInv', CapIInv, NEW c \in Caller, CheckCap(c)
  PROVE  CapIInv'
  <1> DEFINE p == call[c].payload
  <1>1. RowsType /\ RowsType'
    BY DEF IInv, TypeOK, RowsType
  <1>2. UNCHANGED <<payload, created, now, intent>> /\ pc[c] = "check" /\ p \in Payload
    BY CallType DEF CheckCap, intents, Creating, IInv
  <1>3. Live' \subseteq Live
    BY <1>2 DEF Live
  <1>0. /\ together' \in Nat /\ together <= together' /\ Cardinality(Owing(Charge')) <= together'
        /\ Charge' = Charge => together' = together
    <2>1. Cardinality(Owing(Charge)) <= together
      BY DEF CapIInv, Fits
    <2> HIDE DEF Charge
    <2> QED
      BY <2>1, TogetherGrows, AddingOwing
  <1>4. CASE Finish(c)
    <2>1. Charge' = [Charge EXCEPT ![c] = 0]
      <3>1. Moves(c, "idle", None) /\ "idle" \notin Admitted
        BY <1>4, FinishMoves DEF Admitted
      <3> QED
        BY <3>1, ChargeMoves
    <2>2. Charge[c] = 0 /\ Charge = [d \in Caller |-> Charge[d]]
      BY <1>2 DEF Charge, Admitted
    <2>3. Charge' = Charge
      BY <2>1, <2>2
    <2>4. UNCHANGED <<payload, created, now, together>>
      BY <1>0, <1>2, <2>3
    <2> QED
      BY <1>3, <2>3, <2>4, CapQuiet
  <1>5. CASE Admissible(Principal[p]) /\ Goto(c, "lookup")
    <2>1. Charge' = [Charge EXCEPT ![c] = Principal[p]]
      <3>1. Moves(c, "lookup", call[c]) /\ "lookup" \in Admitted
        BY <1>5, GotoMoves DEF Admitted
      <3> QED
        BY <3>1, ChargeMoves
    <2>2. /\ Charge \in [Caller -> 0..Cap] /\ Charge[c] = 0 /\ Principal[p] \in Nat /\ Cap \in Nat
          /\ Charge = [d \in Caller |-> Charge[d]]
      BY <1>2, WithdrawAssumption DEF CapIInv, Charge, Admitted
    <2>3. CASE Principal[p] = 0
      <3>1. Charge' = Charge
        BY <2>1, <2>2, <2>3
      <3>2. UNCHANGED <<payload, created, now, together>>
        BY <1>0, <1>2, <3>1
      <3> QED
        BY <1>3, <3>1, <3>2, CapQuiet
    <2>4. CASE Principal[p] # 0
      <3> DEFINE before == Total(Dated(Today))
                 seen == {k \in Live : UtcDate[created[k]] = SeoulDate[now]}
                 after == Total(Dated(Today))'
      <3>1. Total(seen) + Principal[p] <= Cap
        BY <1>5, <2>4 DEF Admissible, WithdrawnToday
      <3>2. before <= Total(seen) /\ Total(seen) \in Nat
        <4>1. Dated(Today) \in SUBSET seen /\ seen \in SUBSET Key
          BY DEF Dated, Today, Live
        <4>2. payload \in [Key -> Payload \cup {None}] /\ \A k \in seen : payload[k] \in Payload
          BY <1>1 DEF RowsType, Live
        <4>3. Total(seen) = Principals(payload, seen) /\ before = Principals(payload, Dated(Today))
          BY DEF Total, Principals
        <4> HIDE DEF seen, before
        <4> QED
          BY <4>1, <4>2, <4>3, PrincipalsSum, PrincipalsFewer
      <3>3. after <= before /\ before \in Nat /\ after \in Nat
        BY <1>1, <1>2, <1>3, DayShrinks, DayFacts, DayFactsNext DEF Today
      <3>4. Charge' \in [Caller -> 0..Cap] /\ Charge'[c] = Principal[p]
        <4>1. Principal[p] <= Cap
          <5> HIDE DEF seen, before
          <5> QED
            BY <2>2, <3>1, <3>2
        <4>2. Principal[p] \in 0..Cap
          BY <2>2, <4>1
        <4> HIDE DEF p
        <4> QED
          BY <2>1, <2>2, <4>2
      <3>5. Fits(Charge', after, together')
        <4> HIDE DEF seen, before, after
        <4>1. Charge'[c] > 0 /\ after + Charge'[c] <= Cap
          BY <2>2, <2>4, <3>1, <3>2, <3>3, <3>4
        <4> QED
          BY <1>0, <3>3, <3>4, <4>1, FitsAdmit
      <3>6. Fits(Charge, Total(Dated(Today)), together)'
        BY <3>5 DEF Fits, Owing, Room
      <3>7. \A t \in Time : Total(Dated(SeoulDate[t]))' <= Total(Dated(SeoulDate[t]))
        BY <1>1, <1>2, <1>3, DayShrinks
      <3>8. \A k \in Key : created'[k] <= now'
        BY <1>2 DEF CapIInv
      <3> QED
        BY <1>0, <1>1, <3>4, <3>6, <3>7, <3>8, DaysKept
    <2> QED
      BY <2>3, <2>4
  <1> QED
    BY <1>4, <1>5 DEF CheckCap

\* create's INSERT: the row adds the call's charge to its day, and the call has it no more.
LEMMA CapInsert ==
  ASSUME IInv, IInv', CapIInv, NEW c \in Caller, Insert(c)
  PROVE  CapIInv'
  <1> SUFFICES ASSUME NEW k, k = call[c].key, NEW p, p = call[c].payload PROVE CapIInv'
    OBVIOUS
  <1>1. RowsType /\ RowsType'
    BY DEF IInv, TypeOK, RowsType
  <1>2. pc[c] = "insert" /\ Finish(c) /\ now' = now /\ together' = together /\ k \in Key /\ p \in Payload
    BY CallType DEF Insert, counters, Creating, IInv
  <1>3. CASE intent[k] # "absent"
    <2>1. UNCHANGED <<payload, created, now, together>> /\ Live' \subseteq Live
      BY <1>2, <1>3 DEF Insert, intents, Live
    <2> QED
      BY <1>2, <2>1, CapGoto
  <1>4. CASE intent[k] = "absent"
    <2>1. /\ intent' = [intent EXCEPT ![k] = "auth_ok"]
          /\ payload' = [payload EXCEPT ![k] = p]
          /\ created' = [created EXCEPT ![k] = now]
      BY <1>4 DEF Insert
    <2>2. /\ intent'[k] = "auth_ok" /\ created'[k] = now
          /\ \A l \in Key \ {k} : intent'[l] = intent[l] /\ created'[l] = created[l]
      BY <1>1, <1>2, <2>1 DEF RowsType
    <2>3. Today' = Today
      BY <1>2 DEF Today
    <2>4. Charge' = [Charge EXCEPT ![c] = 0] /\ Charge[c] = Principal[p]
      <3>1. Moves(c, "idle", None) /\ "idle" \notin Admitted
        BY <1>2, FinishMoves DEF Admitted
      <3> QED
        BY <1>2, <3>1, ChargeMoves DEF Charge, Admitted
    <2>5. payload \in [Key -> Payload \cup {None}]
      BY <1>1 DEF RowsType
    <2>6. ASSUME NEW d
          PROVE  /\ k \notin Dated(d)
                 /\ Dated(d)' = Dated(d) \/ (d = Today /\ Dated(d)' = Dated(d) \cup {k})
      BY <1>2, <1>4, <2>2 DEF Dated, Live, Today
    <2>7. ASSUME NEW d
          PROVE  /\ Total(Dated(d))' = Total(Dated(d))
                    \/ (d = Today /\ Total(Dated(d))' = Total(Dated(d)) + Principal[p])
      <3>1. /\ Dated(d) \in SUBSET Key /\ \A l \in Dated(d) : payload[l] \in Payload
            /\ Total(Dated(d)) = Principals(payload, Dated(d))
            /\ Total(Dated(d))' = Principals(payload', Dated(d)')
        BY <1>1, DayFacts, DayFactsNext
      <3>2. /\ Principals(payload', Dated(d)) = Principals(payload, Dated(d))
            /\ Principals(payload', Dated(d) \cup {k}) = Principals(payload, Dated(d)) + Principal[p]
        <4> DEFINE keys == Dated(d)
        <4>1. keys \in SUBSET Key /\ (\A l \in keys : payload[l] \in Payload) /\ k \notin keys
          BY <2>6, <3>1
        <4> HIDE DEF keys
        <4>2. payload' \in [Key -> Payload \cup {None}] /\ payload'[k] = p /\ \A l \in keys : payload'[l] = payload[l]
          BY <1>2, <2>1, <2>5, <4>1
        <4>3. Adds(payload, payload', keys, k, p)
          BY <1>2, <2>5, <4>1, <4>2 DEF Adds
        <4>4. /\ Principals(payload', keys) = Principals(payload, keys)
              /\ Principals(payload', keys \cup {k}) = Principals(payload, keys) + Principal[p]
          BY <4>3, PrincipalsMore
        <4> QED
          BY <4>4 DEF keys
      <3> QED
        BY <2>6, <3>1, <3>2
    <2> DEFINE before == Total(Dated(Today))
               after == Total(Dated(Today))'
    <2>8. before \in Nat /\ after \in Nat
      BY <1>1, DayFacts, DayFactsNext DEF Today
    <2>9. after = before \/ after = before + Principal[p]
      BY <2>3, <2>7 DEF Today
    <2>10. /\ Charge \in [Caller -> 0..Cap] /\ Fits(Charge, before, together) /\ Principal[p] \in Nat
           /\ Cap \in Nat /\ together \in Nat
      BY <1>1, <1>2, WithdrawAssumption DEF CapIInv, RowsType
    <2>11. Fits(Charge', after, together') /\ Charge' \in [Caller -> 0..Cap]
      <3> HIDE DEF before, after
      <3>1. after <= before + Charge[c]
        BY <2>4, <2>8, <2>9, <2>10
      <3>2. Fits(Charge', after, together')
        BY <1>2, <2>4, <2>8, <2>10, <3>1, FitsLeave
      <3>3. 0 \in 0..Cap
        BY <2>10
      <3> QED
        BY <2>4, <2>10, <3>2, <3>3
    <2>12. Fits(Charge, Total(Dated(Today)), together)'
      BY <2>11 DEF Fits, Owing, Room
    <2>13. \A t \in Time : SeoulDate[t] # Today' => Total(Dated(SeoulDate[t]))' <= Total(Dated(SeoulDate[t]))
      <3> SUFFICES ASSUME NEW t \in Time, SeoulDate[t] # Today'
                   PROVE  Total(Dated(SeoulDate[t]))' <= Total(Dated(SeoulDate[t]))
        OBVIOUS
      <3>1. Total(Dated(SeoulDate[t]))' = Total(Dated(SeoulDate[t]))
        BY <2>3, <2>7
      <3>2. Total(Dated(SeoulDate[t])) \in Nat
        BY <1>1, DayFacts
      <3> QED
        BY <3>1, <3>2
    <2>14. \A l \in Key : created'[l] <= now'
      BY <1>1, <1>2, <2>2 DEF CapIInv, RowsType, Time
    <2> QED
      BY <1>1, <1>2, <2>10, <2>11, <2>12, <2>13, <2>14, DaysKept
  <1> QED
    BY <1>3, <1>4

\* When a new day begins in Seoul, no row is of it; the day that ends is as it was.
LEMMA CapEnvironment ==
  ASSUME IInv, IInv', CapIInv,
         (\E h \in Challenge, m \in Method : CreateChallenge(h, m)) \/ Tick \/ UNCHANGED vars
  PROVE  CapIInv'
  <1>1. RowsType /\ RowsType'
    BY DEF IInv, TypeOK, RowsType
  <1>2. UNCHANGED <<pc, call, intent, payload, created, together>>
    BY DEF CreateChallenge, Tick, vars, intents, counters
  <1>3. now' = now \/ (now \in Nat /\ now' = now + 1)
    BY <1>1, WithdrawAssumption DEF CreateChallenge, Tick, vars, counters, RowsType, Time
  <1>4. Charge' = Charge /\ Live' = Live
    BY <1>2 DEF Charge, Live
  <1>5. now \in Time /\ now' \in Time /\ now <= now'
    BY <1>1, <1>3, WithdrawAssumption DEF RowsType, Time
  <1>6. \A k \in Key : created[k] \in Time /\ created'[k] = created[k] /\ created[k] <= now
    BY <1>1, <1>2 DEF RowsType, CapIInv
  <1>7. Fits(Charge, Total(Dated(Today)), together)'
    <2>1. Total(Dated(Today))' \in Nat /\ Total(Dated(Today)) \in Nat
      BY <1>1, DayFacts, DayFactsNext DEF Today
    <2>2. /\ Charge \in [Caller -> 0..Cap] /\ Fits(Charge, Total(Dated(Today)), together)
          /\ together \in Nat
      BY <1>1 DEF CapIInv, RowsType
    <2>3. CASE Today' = Today
      <3>1. Total(Dated(Today))' = Total(Dated(Today))
        BY <1>2, <1>4, <2>3 DEF Total, Dated
      <3> QED
        BY <1>2, <1>4, <2>2, <3>1 DEF Fits, Owing, Room
    <2>4. CASE Today' # Today
      <3>1. Dated(Today)' = {}
        <4> SUFFICES ASSUME NEW k \in Key, SeoulDate[created[k]] = Today' PROVE FALSE
          BY <1>6 DEF Dated, Live
        <4>1. SeoulDate[created[k]] <= SeoulDate[now] /\ SeoulDate[now] <= SeoulDate[now']
          BY <1>5, <1>6, WithdrawAssumption
        <4>2. SeoulDate[now] \in Nat /\ SeoulDate[now'] \in Nat
          BY <1>5, WithdrawAssumption
        <4> QED
          BY <2>4, <4>1, <4>2 DEF Today
      <3>2. Total(Dated(Today))' = 0
        BY <3>1, SumEmpty DEF Total, SumFunction
      <3>3. Cardinality(Owing(Charge)) <= together
        BY <2>2 DEF Fits
      <3>4. Fits(Charge', Total(Dated(Today))', together')
        <4>1. Fits(Charge, 0, together)
          BY <2>2, <3>3, FitsNothing
        <4> QED
          BY <1>2, <1>4, <3>2, <4>1
      <3> QED
        BY <3>4 DEF Fits, Owing, Room
    <2> QED
      BY <2>3, <2>4
  <1>8. \A t \in Time : Total(Dated(SeoulDate[t]))' <= Total(Dated(SeoulDate[t]))
    BY <1>1, <1>2, <1>4, DayShrinks
  <1>9. \A k \in Key : created'[k] <= now'
    BY <1>5, <1>6, WithdrawAssumption DEF Time
  <1>10. Charge' \in [Caller -> 0..Cap]
    BY <1>4 DEF CapIInv
  <1>11. together \in Nat
    BY <1>1 DEF RowsType
  <1> QED
    BY <1>1, <1>2, <1>7, <1>8, <1>9, <1>10, <1>11, DaysKept

LEMMA CapInit == Init => CapIInv
  <1> SUFFICES ASSUME Init PROVE CapIInv
    OBVIOUS
  <1>1. \A d : Dated(d) = {}
    BY DEF Init, Dated, Live
  <1>2. \A d : Total(Dated(d)) = 0
    BY <1>1, SumEmpty DEF Total, SumFunction
  <1>3. Charge \in [Caller -> 0..Cap]
    BY WithdrawAssumption DEF Init, Charge, Admitted
  <1>4. Fits(Charge, Total(Dated(Today)), together)
    <2>1. Owing(Charge) = {} /\ together = 0
      BY DEF Init, Charge, Owing, Admitted
    <2>2. Cardinality(Owing(Charge)) <= together
      BY <2>1, FS_EmptySet
    <2> QED
      BY <1>2, <1>3, <2>1, <2>2, FitsNothing
  <1>5. CapBounded
    <2>1. together = 0 /\ Cap * 0 = 0
      BY WithdrawAssumption DEF Init
    <2> QED
      BY <1>2, <2>1 DEF CapBounded
  <1> QED
    BY <1>3, <1>4, <1>5 DEF Init, CapIInv

LEMMA CapNext == IInv /\ CapIInv /\ [Next]_vars => CapIInv'
  <1> SUFFICES ASSUME IInv, CapIInv, [Next]_vars PROVE CapIInv'
    OBVIOUS
  <1>1. IInv'
    BY NextIInv
  <1> QED
    BY <1>1, CapOthers, CapCheck, CapInsert, CapEnvironment DEF Next, IntentStep

-----------------------------------------------------------------------------
(* The theorems *)

THEOREM Invariance == Spec => []IInv
  BY InitIInv, NextIInv, PTL DEF Spec

\* Every variable keeps its type, for any challenges, codes, keys, payloads and callers.
THEOREM TypeCorrect == Spec => []TypeOK
  <1>1. IInv => TypeOK
    BY DEF IInv
  <1> QED
    BY <1>1, Invariance, PTL

\* verifyChallenge, setPin and create: one proof authorises at most one thing, whichever calls
\* present its token, and a code stands behind each recovery.
THEOREM OneProofOneUse == Spec => []AuthorisedOnce
  <1>1. IInv => AuthorisedOnce
    BY DEF IInv
  <1> QED
    BY <1>1, Invariance, PTL

\* decide: what an administrator was told is in force stays so, and every row was decided by
\* a request whose key has an audit event, be it of an earlier request.
THEOREM ToldDecisionsStand == Spec => []DecisionsStand
  <1>1. IInv => DecisionsStand
    BY DEF IInv
  <1> QED
    BY <1>1, Invariance, PTL

\* What admitted calls may still add, and the cap with it, hold in every reachable state.
THEOREM CapInvariance == Spec => []CapIInv
  BY InitIInv, CapInit, CapNext, Invariance, PTL DEF Spec

\* The daily cap, where it holds: what a restricted user withdraws of principal on a date, in
\* the hours in which it is the date of UTC and of Seoul, is within the cap once for each call
\* of the most that were at once between the check and the insert, on any calendar.
THEOREM DailyCap == Spec => []CapBounded
  <1>1. CapIInv => CapBounded
    BY DEF CapIInv
  <1> QED
    BY <1>1, CapInvariance, PTL

=============================================================================
