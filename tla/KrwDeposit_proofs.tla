------------------------- MODULE KrwDeposit_proofs -------------------------
(***************************************************************************)
(* The safety properties of KrwDeposit, for any number of requests, rates  *)
(* and calls.  The inductive invariant is their conjunction with what a    *)
(* call relies on: between its post and its UPDATE the credit is booked,   *)
(* and a row it found decided is decided so still.  Decided rows and       *)
(* posted credits stay; everything an administrator was told about either  *)
(* therefore stays true.                                                   *)
(***************************************************************************)
EXTENDS KrwDeposit, TLAPS

\* An approval reaches its UPDATE only with a journal.
ApprovalFollowsPost ==
    \A c \in Caller : pc[c] = "approve" => journal[call[c].request] # NoRate

\* Each statement belongs to its handler, and a decision speaks of a row that exists.
CallsInOrder ==
    \A c \in Caller :
        /\ pc[c] = "insert" => call[c].kind = "create"
        /\ pc[c] = "reject" => call[c].kind = "reject"
        /\ pc[c] \in {"expire", "post", "approve"} => call[c].kind = "approve"
        /\ pc[c] \in {"read", "expire", "post", "approve", "reject"} =>
              status[call[c].request] # "absent"

\* What a call found decided stays so, and no approval of it is under way.
FoundStands ==
    \A c \in Caller : call[c].found \in Decided =>
        /\ status[call[c].request] = call[c].found
        /\ pc[c] \notin {"post", "approve"}

IInv ==
    /\ TypeOK
    /\ ApprovalFollowsPost
    /\ CallsInOrder
    /\ FoundStands
    /\ ActivePayablesDistinct
    /\ AnswersAreTrue
    /\ ApprovedIsCredited

\* What no step undoes: a decision, a row, and a credit.
DecisionsStand ==
    \A r \in Request :
        /\ status[r] \in Decided => status'[r] = status[r]
        /\ status[r] # "absent" => status'[r] # "absent"
CreditsStand == \A r \in Request : journal[r] # NoRate => journal'[r] # NoRate

USE RequestAssumption DEF Kind, Active, Decided, Status

-----------------------------------------------------------------------------

\* The state before the first call satisfies the invariant.
LEMMA InitIInv ==
  ASSUME Init
  PROVE  IInv
  <1>1. (CHOOSE r \in Request : TRUE) \in Request
    OBVIOUS
  <1>2. TypeOK
    BY <1>1 DEF Init, TypeOK
  <1>3. /\ ApprovalFollowsPost /\ CallsInOrder /\ FoundStands
        /\ ActivePayablesDistinct /\ AnswersAreTrue /\ ApprovedIsCredited
    BY <1>1 DEF Init, ApprovalFollowsPost, CallsInOrder, FoundStands, ActivePayablesDistinct,
       AnswersAreTrue, Truthful, ApprovedIsCredited
  <1> QED
    BY <1>2, <1>3 DEF IInv

LEMMA AfterExpiryLeads ==
  ASSUME NEW kind \in Kind
  PROVE  /\ AfterExpiry(kind) \in {"insert", "idle", "read"}
         /\ AfterExpiry(kind) = "insert" => kind = "create"
         /\ AfterExpiry(kind) = "read" => kind # "create"
  BY DEF AfterExpiry

(* A step that takes one call to a label and an answer keeps the calls in  *)
(* order when the label suits the call and the answer is true.             *)
LEMMA CallsKeep ==
  ASSUME IInv, TypeOK', DecisionsStand, CreditsStand, NEW c \in Caller, NEW label,
         call' = call,
         pc' = [pc EXCEPT ![c] = label],
         \A d \in Caller \ {c} : answer'[d] = answer[d],
         \/ label = "idle"
         \/ /\ label \in {"expire", "post", "approve", "reject"}
            /\ call[c].kind = IF label = "reject" THEN "reject" ELSE "approve"
            /\ status[call[c].request] # "absent"
            /\ label \in {"post", "approve"} => call[c].found \notin Decided
            /\ label = "approve" => journal'[call[c].request] # NoRate,
         Truthful(c, answer[c])'
  PROVE  ApprovalFollowsPost' /\ CallsInOrder' /\ FoundStands' /\ AnswersAreTrue'
  <1> USE DEF IInv, TypeOK
  <1>1. ApprovalFollowsPost'
    BY DEF ApprovalFollowsPost, CreditsStand
  <1>2. CallsInOrder'
    BY DEF CallsInOrder, DecisionsStand
  <1>3. FoundStands'
    BY DEF FoundStands, DecisionsStand
  <1>4. ASSUME NEW d \in Caller, d # c
        PROVE  Truthful(d, answer[d])'
    <2>1. Truthful(d, answer[d]) /\ answer'[d] = answer[d]
      BY <1>4 DEF AnswersAreTrue
    <2> QED
      BY <2>1 DEF Truthful, DecisionsStand, CreditsStand
  <1> QED
    BY <1>1, <1>2, <1>3, <1>4 DEF AnswersAreTrue

\* A handler begins by expiring what is overdue.
LEMMA BeginStep ==
  ASSUME IInv, NEW c \in Caller, NEW kind \in Kind, NEW r \in Request, Begin(c, kind, r)
  PROVE  IInv' /\ DecisionsStand /\ CreditsStand
  <1> USE DEF IInv, TypeOK, Begin, Goto, Stale
  <1>1. status' = [q \in Request |-> IF q \in Stale THEN "expired" ELSE status[q]]
    OBVIOUS
  <1>2. DecisionsStand /\ CreditsStand
    BY <1>1 DEF DecisionsStand, CreditsStand, money
  <1>3. pc' \in [Caller -> {"idle", "insert", "read", "expire", "post", "approve", "reject"}]
    BY AfterExpiryLeads
  <1>4. TypeOK'
    <2>1. status' \in [Request -> Status]
      BY <1>1
    <2>2. call' \in [Caller -> [kind : Kind, request : Request, found : Status]]
      BY <2>1
    <2>3. \A q \in Request : status'[q] = "absent" <=> payable'[q] = NoPayable
      BY <1>1
    <2>4. answer' \in [Caller -> {"none", "created", "approved", "rejected", "conflict", "error"}]
      OBVIOUS
    <2>5. calls' \in 0..MaxCalls /\ faults' \in 0..MaxFaults
      OBVIOUS
    <2> QED
      BY <1>3, <2>1, <2>2, <2>3, <2>4, <2>5 DEF money
  <1>5. ApprovalFollowsPost' /\ CallsInOrder' /\ FoundStands'
    <2>1. ApprovalFollowsPost'
      BY AfterExpiryLeads DEF ApprovalFollowsPost, money
    <2>2. \A d \in Caller \ {c} : call'[d] = call[d] /\ pc'[d] = pc[d]
      OBVIOUS
    <2>3. /\ call'[c] = [kind |-> kind, request |-> r, found |-> status'[r]]
          /\ pc'[c] = AfterExpiry(kind)
          /\ kind # "create" => status[r] # "absent"
      OBVIOUS
    <2>4. CallsInOrder'
      BY <1>2, <2>2, <2>3, AfterExpiryLeads DEF CallsInOrder, DecisionsStand
    <2>5. FoundStands'
      BY <1>2, <2>2, <2>3, AfterExpiryLeads DEF FoundStands, DecisionsStand
    <2> QED
      BY <2>1, <2>4, <2>5
  <1>6. ActivePayablesDistinct'
    BY <1>1 DEF ActivePayablesDistinct
  <1>7. AnswersAreTrue'
    <2>1. Truthful(c, answer[c])'
      BY DEF Truthful
    <2>2. ASSUME NEW d \in Caller, d # c
          PROVE  Truthful(d, answer[d])'
      <3>1. Truthful(d, answer[d]) /\ answer'[d] = answer[d] /\ call'[d] = call[d]
        BY <2>2 DEF AnswersAreTrue
      <3> QED
        BY <1>2, <3>1 DEF Truthful, DecisionsStand, CreditsStand
    <2> QED
      BY <2>1, <2>2 DEF AnswersAreTrue
  <1>8. ApprovedIsCredited'
    BY <1>1 DEF ApprovedIsCredited, money
  <1> QED
    BY <1>2, <1>4, <1>5, <1>6, <1>7, <1>8

-----------------------------------------------------------------------------
(* createRequest *)

LEMMA InsertRequestStep ==
  ASSUME IInv, NEW c \in Caller, InsertRequest(c)
  PROVE  IInv' /\ DecisionsStand /\ CreditsStand
  <1> DEFINE r == call[c].request
  <1> USE DEF IInv, TypeOK, Goto, Answer
  <1>1. r \in Request /\ status[r] = "absent" /\ status' = [status EXCEPT ![r] = "pending"]
    BY DEF InsertRequest
  <1>2. PICK p \in Offer[r] \ {payable[q] : q \in Active} : payable' = [payable EXCEPT ![r] = p]
    BY DEF InsertRequest
  <1>3. p \in Payable /\ \A q \in Active : payable[q] # p
    BY <1>1, <1>2
  <1>4. /\ pc' = [pc EXCEPT ![c] = "idle"]
        /\ answer' = [answer EXCEPT ![c] = "created"]
        /\ UNCHANGED <<linked, overdue, journal, captured, call, calls, faults>>
    BY DEF InsertRequest, money, counters
  <1> HIDE DEF r
  <1>5. DecisionsStand /\ CreditsStand
    BY <1>1, <1>4 DEF DecisionsStand, CreditsStand
  <1>6. TypeOK'
    BY <1>1, <1>2, <1>3, <1>4
  <1>7. Truthful(c, answer[c])'
    BY <1>4 DEF Truthful
  <1>8. ActivePayablesDistinct'
    BY <1>1, <1>2, <1>3 DEF ActivePayablesDistinct
  <1>9. ApprovedIsCredited'
    BY <1>1, <1>4 DEF ApprovedIsCredited
  <1> QED
    BY <1>4, <1>5, <1>6, <1>7, <1>8, <1>9, CallsKeep

(* A step that writes no row and no journal only has to keep what it tells *)
(* and where it goes in order.                                             *)
LEMMA QuietStep ==
  ASSUME IInv, NEW c \in Caller, NEW label,
         UNCHANGED <<status, payable, linked, journal, captured, call>>,
         overdue' \subseteq Request,
         calls' \in 0..MaxCalls, faults' \in 0..MaxFaults,
         answer' \in [Caller -> {"none", "created", "approved", "rejected", "conflict", "error"}],
         pc' = [pc EXCEPT ![c] = label],
         \A d \in Caller \ {c} : answer'[d] = answer[d],
         \/ label = "idle"
         \/ /\ label \in {"expire", "post", "reject"}
            /\ call[c].kind = IF label = "reject" THEN "reject" ELSE "approve"
            /\ status[call[c].request] = "pending",
         Truthful(c, answer[c])'
  PROVE  IInv' /\ DecisionsStand /\ CreditsStand
  <1>1. DecisionsStand /\ CreditsStand
    BY DEF DecisionsStand, CreditsStand, IInv, TypeOK
  <1>2. TypeOK'
    BY DEF IInv, TypeOK
  <1>3. ActivePayablesDistinct' /\ ApprovedIsCredited'
    BY DEF IInv, ActivePayablesDistinct, ApprovedIsCredited
  <1>4. status[call[c].request] = "pending" => call[c].found \notin Decided
    BY DEF IInv, TypeOK, FoundStands
  <1>5. \/ label = "idle"
        \/ /\ label \in {"expire", "post", "approve", "reject"}
           /\ call[c].kind = IF label = "reject" THEN "reject" ELSE "approve"
           /\ status[call[c].request] # "absent"
           /\ label \in {"post", "approve"} => call[c].found \notin Decided
           /\ label = "approve" => journal'[call[c].request] # NoRate
    BY <1>4
  <1>6. ApprovalFollowsPost' /\ CallsInOrder' /\ FoundStands' /\ AnswersAreTrue'
    BY <1>1, <1>2, <1>5, CallsKeep
  <1> QED
    BY <1>1, <1>2, <1>3, <1>6 DEF IInv

\* Likewise for a call that goes on without an answer.
LEMMA GoOnStep ==
  ASSUME IInv, NEW c \in Caller, NEW label \in {"expire", "post", "reject"},
         UNCHANGED <<status, payable, linked, journal, captured, call, overdue, calls, faults>>,
         call[c].kind = IF label = "reject" THEN "reject" ELSE "approve",
         status[call[c].request] = "pending",
         pc' = [pc EXCEPT ![c] = label],
         answer' = answer
  PROVE  IInv' /\ DecisionsStand /\ CreditsStand
  <1>1. Truthful(c, answer[c])'
    BY DEF IInv, AnswersAreTrue, Truthful
  <1>2. /\ overdue' \subseteq Request /\ calls' \in 0..MaxCalls /\ faults' \in 0..MaxFaults
        /\ answer' \in [Caller -> {"none", "created", "approved", "rejected", "conflict", "error"}]
    BY DEF IInv, TypeOK
  <1> QED
    BY <1>1, <1>2, QuietStep

(* And for a call that only answers.                                       *)
LEMMA AnswerStep ==
  ASSUME IInv, NEW c \in Caller,
         NEW what \in {"created", "approved", "rejected", "conflict", "error"},
         UNCHANGED <<status, payable, linked, journal, captured, call, overdue>>,
         calls' \in 0..MaxCalls, faults' \in 0..MaxFaults,
         Answer(c, what),
         Truthful(c, what)
  PROVE  IInv' /\ DecisionsStand /\ CreditsStand
  <1>1. /\ pc' = [pc EXCEPT ![c] = "idle"]
        /\ answer' = [answer EXCEPT ![c] = what]
    BY DEF Answer, Goto
  <1>2. /\ answer'[c] = what
        /\ \A d \in Caller \ {c} : answer'[d] = answer[d]
        /\ answer' \in [Caller -> {"none", "created", "approved", "rejected", "conflict", "error"}]
        /\ overdue' \subseteq Request
    BY <1>1 DEF IInv, TypeOK
  <1>3. Truthful(c, answer[c])'
    BY <1>2 DEF Truthful
  <1> QED
    BY <1>1, <1>2, <1>3, QuietStep

LEMMA InsertNothingStep ==
  ASSUME IInv, NEW c \in Caller, InsertNothing(c)
  PROVE  IInv' /\ DecisionsStand /\ CreditsStand
  <1>1. PICK what \in {"created", "conflict"} : Answer(c, what)
    BY DEF InsertNothing
  <1>2. Truthful(c, what)
    BY DEF InsertNothing, Truthful, IInv, CallsInOrder
  <1>3. /\ UNCHANGED <<status, payable, linked, journal, captured, call, overdue>>
        /\ calls' \in 0..MaxCalls /\ faults' \in 0..MaxFaults
    BY DEF InsertNothing, rows, money, counters, IInv, TypeOK
  <1> QED
    BY <1>1, <1>2, <1>3, AnswerStep

LEMMA FaultStep ==
  ASSUME IInv, NEW c \in Caller, Fault(c)
  PROVE  IInv' /\ DecisionsStand /\ CreditsStand
  <1>1. calls' \in 0..MaxCalls /\ faults' \in 0..MaxFaults
    BY DEF Fault, IInv, TypeOK
  <1>2. UNCHANGED <<status, payable, linked, journal, captured, call, overdue>>
    BY DEF Fault, rows, money
  <1>3. Answer(c, "error") /\ Truthful(c, "error")
    BY DEF Fault, Truthful
  <1> QED
    BY <1>1, <1>2, <1>3, AnswerStep

-----------------------------------------------------------------------------
(* approve *)

LEMMA ReadForApprovalStep ==
  ASSUME IInv, NEW c \in Caller, ReadForApproval(c)
  PROVE  IInv' /\ DecisionsStand /\ CreditsStand
  <1> DEFINE r == call[c].request
  <1> USE DEF IInv, TypeOK
  <1>1. /\ UNCHANGED <<status, payable, linked, journal, captured, call, overdue, calls, faults>>
        /\ overdue' \subseteq Request
        /\ calls' \in 0..MaxCalls
        /\ faults' \in 0..MaxFaults
        /\ call[c].kind = "approve"
        /\ r \in Request
        /\ status[r] # "absent"
    BY DEF ReadForApproval, rows, money, counters, CallsInOrder
  <1>2. CASE status[r] = "approved" /\ r \in linked
    <2>1. Answer(c, "approved") /\ journal[r] # NoRate
      BY <1>1, <1>2 DEF ReadForApproval, ApprovedIsCredited
    <2>2. Truthful(c, "approved")
      BY <1>2, <2>1 DEF Truthful
    <2> QED
      BY <1>1, <2>1, <2>2, AnswerStep
  <1>3. CASE status[r] = "pending" /\ r \in overdue
    <2>1. Goto(c, "expire") /\ answer' = answer
      BY <1>3 DEF ReadForApproval
    <2> QED
      BY <1>1, <1>3, <2>1, GoOnStep DEF Goto
  <1>4. CASE status[r] = "pending" /\ r \notin overdue
    <2>1. Goto(c, "post") /\ answer' = answer
      BY <1>4 DEF ReadForApproval
    <2> QED
      BY <1>1, <1>4, <2>1, GoOnStep DEF Goto
  <1>5. CASE ~(status[r] = "approved" /\ r \in linked) /\ status[r] # "pending"
    <2>1. Answer(c, "conflict")
      BY <1>5 DEF ReadForApproval
    <2>2. status[r] \in Decided
      BY <1>1, <1>5 DEF ApprovedIsCredited
    <2>3. Truthful(c, "conflict")
      BY <1>1, <2>2 DEF Truthful
    <2> QED
      BY <1>1, <2>1, <2>3, AnswerStep
  <1> QED
    BY <1>2, <1>3, <1>4, <1>5

LEMMA MarkExpiredStep ==
  ASSUME IInv, NEW c \in Caller, MarkExpired(c)
  PROVE  IInv' /\ DecisionsStand /\ CreditsStand
  <1> DEFINE r == call[c].request
  <1> USE DEF IInv, TypeOK
  <1>1. /\ r \in Request
        /\ status' = [status EXCEPT ![r] = IF status[r] = "pending" THEN "expired" ELSE status[r]]
        /\ pc' = [pc EXCEPT ![c] = "idle"]
        /\ answer' = [answer EXCEPT ![c] = "conflict"]
        /\ UNCHANGED <<payable, linked, overdue, journal, captured, call, calls, faults>>
        /\ call[c].kind = "approve"
        /\ status[r] # "absent"
    BY DEF MarkExpired, Answer, Goto, money, counters, CallsInOrder
  <1>2. DecisionsStand /\ CreditsStand
    BY <1>1 DEF DecisionsStand, CreditsStand
  <1>3. TypeOK'
    BY <1>1
  <1>4. ApprovedIsCredited'
    BY <1>1 DEF ApprovedIsCredited
  <1>5. ActivePayablesDistinct'
    BY <1>1 DEF ActivePayablesDistinct
  <1>6. Truthful(c, answer[c])'
    <2>1. status'[r] \in Decided /\ answer'[c] = "conflict" /\ call'[c] = call[c]
      BY <1>1
    <2> QED
      BY <1>1, <2>1 DEF Truthful
  <1>7. \A d \in Caller \ {c} : answer'[d] = answer[d]
    BY <1>1
  <1>8. ApprovalFollowsPost' /\ CallsInOrder' /\ FoundStands' /\ AnswersAreTrue'
    BY <1>1, <1>2, <1>3, <1>6, <1>7, CallsKeep
  <1> QED
    BY <1>2, <1>3, <1>4, <1>5, <1>8

LEMMA PostCreditStep ==
  ASSUME IInv, NEW c \in Caller, PostCredit(c)
  PROVE  IInv' /\ DecisionsStand /\ CreditsStand
  <1> DEFINE r == call[c].request
  <1> USE DEF IInv, TypeOK, Goto
  <1>1. /\ r \in Request
        /\ UNCHANGED <<status, payable, linked, overdue, captured, call, calls, faults>>
        /\ call[c].kind = "approve"
        /\ status[r] # "absent"
        /\ call[c].found \notin Decided
    BY DEF PostCredit, rows, counters, CallsInOrder, FoundStands
  <1>2. PICK rate \in captured :
          IF journal[r] \in {NoRate, rate}
            THEN /\ journal' = [journal EXCEPT ![r] = rate]
                 /\ Goto(c, "approve")
                 /\ answer' = answer
            ELSE Answer(c, "conflict") /\ journal' = journal
    BY DEF PostCredit
  <1>3. CASE journal[r] \in {NoRate, rate}
    <2>1. /\ journal' = [journal EXCEPT ![r] = rate]
          /\ pc' = [pc EXCEPT ![c] = "approve"]
          /\ answer' = answer
      BY <1>2, <1>3
    <2>2. rate \in Rate /\ rate # NoRate
      OBVIOUS
    <2>3. journal'[r] # NoRate
      BY <1>1, <2>1, <2>2
    <2>4. DecisionsStand /\ CreditsStand
      BY <1>1, <2>1, <2>2 DEF DecisionsStand, CreditsStand
    <2>5. TypeOK'
      BY <1>1, <2>1, <2>2
    <2>6. Truthful(c, answer[c])'
      <3>1. Truthful(c, answer[c])
        BY DEF AnswersAreTrue
      <3> QED
        BY <1>1, <2>1, <2>4, <3>1 DEF Truthful, CreditsStand
    <2>7. ApprovalFollowsPost' /\ CallsInOrder' /\ FoundStands' /\ AnswersAreTrue'
      BY <1>1, <2>1, <2>3, <2>4, <2>5, <2>6, CallsKeep
    <2>8. ActivePayablesDistinct' /\ ApprovedIsCredited'
      BY <1>1, <2>4 DEF ActivePayablesDistinct, ApprovedIsCredited, CreditsStand
    <2> QED
      BY <2>4, <2>5, <2>6, <2>7, <2>8
  <1>4. CASE journal[r] \notin {NoRate, rate}
    <2>1. Answer(c, "conflict") /\ journal' = journal
      BY <1>2, <1>4
    <2>2. Truthful(c, "conflict")
      BY <1>1, <1>4 DEF Truthful
    <2> QED
      BY <1>1, <2>1, <2>2, AnswerStep
  <1> QED
    BY <1>3, <1>4

LEMMA ApproveStep ==
  ASSUME IInv, NEW c \in Caller, Approve(c)
  PROVE  IInv' /\ DecisionsStand /\ CreditsStand
  <1> DEFINE r == call[c].request
  <1> USE DEF IInv, TypeOK
  <1>1. /\ r \in Request
        /\ journal[r] # NoRate
        /\ pc' = [pc EXCEPT ![c] = "idle"]
        /\ answer' = [answer EXCEPT ![c] = "approved"]
        /\ UNCHANGED <<payable, overdue, journal, captured, call, calls, faults>>
        /\ status[r] # "absent"
        /\ call[c].found \notin Decided
    BY DEF Approve, Answer, Goto, money, counters, ApprovalFollowsPost, CallsInOrder, FoundStands
  <1>2. CASE status[r] = "pending"
    <2>1. status' = [status EXCEPT ![r] = "approved"] /\ linked' = linked \cup {r}
      BY <1>2 DEF Approve
    <2>2. DecisionsStand /\ CreditsStand
      BY <1>1, <1>2, <2>1 DEF DecisionsStand, CreditsStand
    <2>3. TypeOK'
      BY <1>1, <1>2, <2>1
    <2>4. Truthful(c, answer[c])'
      BY <1>1, <2>1 DEF Truthful
    <2>5. ActivePayablesDistinct'
      BY <1>1, <1>2, <2>1 DEF ActivePayablesDistinct
    <2>6. ApprovalFollowsPost' /\ CallsInOrder' /\ FoundStands' /\ AnswersAreTrue'
      BY <1>1, <2>2, <2>3, <2>4, CallsKeep
    <2>7. ApprovedIsCredited'
      BY <1>1, <2>1 DEF ApprovedIsCredited
    <2> QED
      BY <2>2, <2>3, <2>4, <2>5, <2>6, <2>7
  <1>3. CASE status[r] # "pending"
    <2>1. status' = status /\ linked' = linked
      BY <1>3 DEF Approve
    <2>2. Truthful(c, "approved")
      BY <1>1, <1>3 DEF Truthful
    <2> QED
      BY <1>1, <2>1, <2>2, AnswerStep DEF Answer, Goto
  <1> QED
    BY <1>2, <1>3

-----------------------------------------------------------------------------
(* reject *)

LEMMA ReadForRejectionStep ==
  ASSUME IInv, NEW c \in Caller, ReadForRejection(c)
  PROVE  IInv' /\ DecisionsStand /\ CreditsStand
  <1> DEFINE r == call[c].request
  <1> USE DEF IInv, TypeOK
  <1>1. /\ UNCHANGED <<status, payable, linked, journal, captured, call, overdue, calls, faults>>
        /\ overdue' \subseteq Request
        /\ calls' \in 0..MaxCalls
        /\ faults' \in 0..MaxFaults
        /\ call[c].kind = "reject"
        /\ r \in Request
        /\ status[r] # "absent"
    BY DEF ReadForRejection, rows, money, counters, CallsInOrder
  <1>2. CASE status[r] = "pending"
    <2>1. Goto(c, "reject") /\ answer' = answer
      BY <1>2 DEF ReadForRejection
    <2> QED
      BY <1>1, <1>2, <2>1, GoOnStep DEF Goto
  <1>3. CASE status[r] = "rejected"
    <2>1. Answer(c, "rejected")
      BY <1>3 DEF ReadForRejection
    <2>2. Truthful(c, "rejected")
      BY <1>3 DEF Truthful
    <2> QED
      BY <1>1, <2>1, <2>2, AnswerStep
  <1>4. CASE status[r] \notin {"pending", "rejected"}
    <2>1. Answer(c, "conflict")
      BY <1>4 DEF ReadForRejection
    <2>2. Truthful(c, "conflict")
      BY <1>1, <1>4 DEF Truthful
    <2> QED
      BY <1>1, <2>1, <2>2, AnswerStep
  <1> QED
    BY <1>2, <1>3, <1>4

LEMMA RejectStep ==
  ASSUME IInv, NEW c \in Caller, Reject(c)
  PROVE  IInv' /\ DecisionsStand /\ CreditsStand
  <1> DEFINE r == call[c].request
  <1> USE DEF IInv, TypeOK
  <1>1. /\ r \in Request
        /\ UNCHANGED <<payable, linked, overdue, journal, captured, call, calls, faults>>
        /\ call[c].kind = "reject"
        /\ status[r] # "absent"
    BY DEF Reject, money, counters, CallsInOrder
  <1>2. CASE status[r] = "pending"
    <2>1. /\ status' = [status EXCEPT ![r] = "rejected"]
          /\ pc' = [pc EXCEPT ![c] = "idle"]
          /\ answer' = [answer EXCEPT ![c] = "rejected"]
      BY <1>2 DEF Reject, Answer, Goto
    <2>2. DecisionsStand /\ CreditsStand
      BY <1>1, <1>2, <2>1 DEF DecisionsStand, CreditsStand
    <2>3. TypeOK'
      BY <1>1, <1>2, <2>1
    <2>4. Truthful(c, answer[c])'
      BY <1>1, <2>1 DEF Truthful
    <2>5. ActivePayablesDistinct'
      BY <1>1, <1>2, <2>1 DEF ActivePayablesDistinct
    <2>6. ApprovalFollowsPost' /\ CallsInOrder' /\ FoundStands' /\ AnswersAreTrue'
      BY <1>1, <2>1, <2>2, <2>3, <2>4, CallsKeep
    <2>7. ApprovedIsCredited'
      BY <1>1, <1>2, <2>1 DEF ApprovedIsCredited
    <2> QED
      BY <2>2, <2>3, <2>4, <2>5, <2>6, <2>7
  <1>3. CASE status[r] # "pending"
    <2>1. status' = status /\ Answer(c, "conflict")
      BY <1>3 DEF Reject
    <2>2. Truthful(c, "conflict")
      BY <1>1, <1>3 DEF Truthful
    <2> QED
      BY <1>1, <2>1, <2>2, AnswerStep DEF Answer, Goto
  <1> QED
    BY <1>2, <1>3

-----------------------------------------------------------------------------

\* Time and the exchange rate move without a caller.
LEMMA EnvironmentStep ==
  ASSUME IInv,
         \/ \E r \in Request : DeadlinePasses(r)
         \/ \E x \in Rate : CaptureRate(x)
         \/ UNCHANGED vars
  PROVE  IInv' /\ DecisionsStand /\ CreditsStand
  <1> USE DEF IInv, TypeOK
  <1>1. /\ UNCHANGED <<status, payable, linked, journal, pc, call, answer, calls, faults>>
        /\ overdue' \subseteq Request
        /\ captured' \subseteq Rate
    BY DEF DeadlinePasses, CaptureRate, rows, money, counters, vars
  <1>2. DecisionsStand /\ CreditsStand
    BY <1>1 DEF DecisionsStand, CreditsStand
  <1>3. TypeOK'
    BY <1>1
  <1>4. /\ ApprovalFollowsPost' /\ CallsInOrder' /\ FoundStands'
        /\ ActivePayablesDistinct' /\ AnswersAreTrue' /\ ApprovedIsCredited'
    BY <1>1 DEF ApprovalFollowsPost, CallsInOrder, FoundStands, ActivePayablesDistinct,
       AnswersAreTrue, Truthful, ApprovedIsCredited
  <1> QED
    BY <1>2, <1>3, <1>4

LEMMA StepIInv ==
  ASSUME IInv, [Next]_vars
  PROVE  IInv' /\ DecisionsStand /\ CreditsStand
  <1>1. CASE \E c \in Caller : Step(c)
    BY <1>1, InsertRequestStep, InsertNothingStep, ReadForApprovalStep, MarkExpiredStep,
       PostCreditStep, ApproveStep, ReadForRejectionStep, RejectStep DEF Step
  <1>2. CASE \E c \in Caller : Fault(c)
    BY <1>2, FaultStep
  <1>3. CASE \E c \in Caller, kind \in Kind, r \in Request : Begin(c, kind, r)
    BY <1>3, BeginStep
  <1>4. CASE \/ \E r \in Request : DeadlinePasses(r)
             \/ \E x \in Rate : CaptureRate(x)
             \/ UNCHANGED vars
    BY <1>4, EnvironmentStep
  <1> QED
    BY <1>1, <1>2, <1>3, <1>4 DEF Next

(* The strengthening holds in every reachable state.                       *)
THEOREM Invariance == Spec => []IInv
  <1>1. Init => IInv
    BY InitIInv
  <1>2. IInv /\ [Next]_vars => IInv'
    BY StepIInv
  <1> QED
    BY <1>1, <1>2, PTL DEF Spec

(* Every variable of KrwDeposit keeps its type, and a request has an       *)
(* amount from the moment createRequest inserts it.                        *)
THEOREM TypeCorrect == Spec => []TypeOK
  <1>1. IInv => TypeOK
    BY DEF IInv
  <1> QED
    BY <1>1, Invariance, PTL

(* No two active requests are to be paid with one amount, whatever amounts *)
(* createRequest draws.                                                    *)
THEOREM DistinctPayables == Spec => []ActivePayablesDistinct
  <1>1. IInv => ActivePayablesDistinct
    BY DEF IInv
  <1> QED
    BY <1>1, Invariance, PTL

(* What approve and reject answer is so: an approval is credited and its   *)
(* row decided, otherwise only by a decision that came during the call; a  *)
(* rejection is in the row; a conflict is with a decision or a credit.     *)
THEOREM TrueAnswers == Spec => []AnswersAreTrue
  <1>1. IInv => AnswersAreTrue
    BY DEF IInv
  <1> QED
    BY <1>1, Invariance, PTL

(* approve links every approved row to a journal that exists.              *)
THEOREM CreditedApprovals == Spec => []ApprovedIsCredited
  <1>1. IInv => ApprovedIsCredited
    BY DEF IInv
  <1> QED
    BY <1>1, Invariance, PTL

(* Approval, rejection and expiry never replace one another.               *)
THEOREM FinalDecisions == Spec => DecisionIsFinal
  <1>1. IInv /\ [Next]_vars => [\A r \in Request :
           status[r] \in Decided => status'[r] = status[r]]_status
    BY StepIInv DEF DecisionsStand
  <1> QED
    BY <1>1, Invariance, PTL DEF Spec, DecisionIsFinal

============================================================================
