----------------------------- MODULE KrwDeposit -----------------------------
(***************************************************************************)
(* KRW deposits without a payment provider (KrwDepositService): a user     *)
(* asks for a deposit and gets a payable amount no other active request    *)
(* has; an admin who finds it on the bank statement approves the request,  *)
(* or rejects it; a request nobody decided expires.  Each call is a        *)
(* process: the handlers are sequences of single statements, with no       *)
(* transaction around them.  The credit is a journal of LedgerAtomic under *)
(* the request's own key, so its payload can only differ by the rate.      *)
(*                                                                         *)
(* The statuses matched and manual_review are never written by the code    *)
(* and are left out.  Creating a request whose key exists changes nothing. *)
(* A definition marked Mutant is the one that follows it with a plausible  *)
(* bug.                                                                    *)
(***************************************************************************)
EXTENDS Integers, FiniteSets

CONSTANTS
    Request,        \* deposit requests, by idempotency key
    Payable,        \* payable amounts
    Offer,          \* the amounts a request may get: the requested one and its suffixes
    Rate,           \* exchange rates of fx_snapshots
    FirstRate,
    NoRate, NoPayable,
    Caller,         \* calls in flight
    MaxCalls, MaxFaults     \* bounds

ASSUME RequestAssumption ==
    /\ Request # {}
    /\ Offer \in [Request -> SUBSET Payable]
    /\ FirstRate \in Rate
    /\ NoRate \notin Rate
    /\ NoPayable \notin Payable
    /\ MaxCalls \in Nat
    /\ MaxFaults \in Nat

VARIABLES
    status,     \* krw_deposit_requests.status, "absent" without a row
    payable,    \* its payable_amount_krw
    overdue,    \* requests whose expires_at has passed
    linked,     \* requests whose row has a ledger_journal_id
    journal,    \* the rate each request's deposit_krw journal was posted at
    captured,   \* rates with a snapshot
    pc,         \* where each call stands
    call,       \* what it was asked; history: what the row said when it was
    answer,     \* what it answered
    calls, faults

rows == <<status, payable, linked>>
money == <<journal, captured>>
counters == <<calls, faults>>
vars == <<rows, overdue, money, pc, call, answer, counters>>

-----------------------------------------------------------------------------

Kind == {"create", "list", "approve", "reject"}
Decided == {"approved", "rejected", "expired"}
Status == {"absent", "pending"} \cup Decided

Active == {r \in Request : status[r] = "pending"}
Stale == Active \cap overdue

Goto(c, label) == pc' = [pc EXCEPT ![c] = label]

Answer(c, what) ==
    /\ Goto(c, "idle")
    /\ answer' = [answer EXCEPT ![c] = what]

Init ==
    /\ status = [r \in Request |-> "absent"]
    /\ payable = [r \in Request |-> NoPayable]
    /\ overdue = {}
    /\ linked = {}
    /\ journal = [r \in Request |-> NoRate]
    /\ captured = {FirstRate}
    /\ pc = [c \in Caller |-> "idle"]
    /\ call = [c \in Caller |-> [kind |-> "list",
                            request |-> CHOOSE r \in Request : TRUE, found |-> "absent"]]
    /\ answer = [c \in Caller |-> "none"]
    /\ calls = 0
    /\ faults = 0

AfterExpiry(kind) ==
    CASE kind = "create" -> "insert"
      [] kind = "list" -> "idle"
      [] kind \in {"approve", "reject"} -> "read"

\* Every handler starts with expireStale, which expires what is overdue of anybody's.
Begin(c, kind, r) ==
    /\ pc[c] = "idle"
    /\ kind = "create" <=> status[r] = "absent"
    /\ calls < MaxCalls
    /\ calls' = calls + 1
    /\ status' = [q \in Request |-> IF q \in Stale THEN "expired" ELSE status[q]]
    /\ call' = [call EXCEPT ![c] = [kind |-> kind, request |-> r, found |-> status'[r]]]
    /\ answer' = [answer EXCEPT ![c] = "none"]
    /\ Goto(c, AfterExpiry(kind))
    /\ UNCHANGED <<payable, linked, overdue, money, faults>>

-----------------------------------------------------------------------------
(* createRequest *)

\* Mutant: the row is inserted first and its amount set later.
InsertUnpriced(c) ==
    /\ pc[c] = "insert"
    /\ status[call[c].request] = "absent"
    /\ status' = [status EXCEPT ![call[c].request] = "pending"]
    /\ Answer(c, "created")
    /\ UNCHANGED <<payable, linked, overdue, money, call, counters>>

\* The INSERT that meets neither unique index, after as many suffixes as it took.
InsertRequest(c) ==
    LET r == call[c].request IN
    /\ pc[c] = "insert"
    /\ status[r] = "absent"
    /\ \E p \in Offer[r] \ {payable[q] : q \in Active} :
          payable' = [payable EXCEPT ![r] = p]
    /\ status' = [status EXCEPT ![r] = "pending"]
    /\ Answer(c, "created")
    /\ UNCHANGED <<linked, overdue, money, call, counters>>

\* Every suffix tried was taken, or the same request was created in between.
InsertNothing(c) ==
    LET r == call[c].request IN
    /\ pc[c] = "insert"
    /\ \/ status[r] # "absent" /\ Answer(c, "created")
       \/ /\ status[r] = "absent"
          /\ Offer[r] \cap {payable[q] : q \in Active} # {}
          /\ Answer(c, "conflict")
    /\ UNCHANGED <<rows, overdue, money, call, counters>>

-----------------------------------------------------------------------------
(* approve *)

\* Mutant: only an approval already made is looked for, and the deadline.
ReadForApprovalAnyStatus(c) ==
    LET r == call[c].request IN
    /\ pc[c] = "read"
    /\ call[c].kind = "approve"
    /\ CASE status[r] = "approved" /\ r \in linked -> Answer(c, "approved")
         [] status[r] # "approved" /\ r \in overdue -> Goto(c, "expire") /\ UNCHANGED answer
         [] OTHER -> Goto(c, "post") /\ UNCHANGED answer
    /\ UNCHANGED <<rows, overdue, money, call, counters>>

ReadForApproval(c) ==
    LET r == call[c].request IN
    /\ pc[c] = "read"
    /\ call[c].kind = "approve"
    /\ CASE status[r] = "approved" /\ r \in linked -> Answer(c, "approved")
         [] status[r] = "pending" /\ r \in overdue -> Goto(c, "expire") /\ UNCHANGED answer
         [] status[r] = "pending" /\ r \notin overdue -> Goto(c, "post") /\ UNCHANGED answer
         [] OTHER -> Answer(c, "conflict")
    /\ UNCHANGED <<rows, overdue, money, call, counters>>

\* markExpired, then the answer that the request expired.
MarkExpired(c) ==
    LET r == call[c].request IN
    /\ pc[c] = "expire"
    /\ status' = [status EXCEPT ![r] = IF @ = "pending" THEN "expired" ELSE @]
    /\ Answer(c, "conflict")
    /\ UNCHANGED <<payable, linked, overdue, money, call, counters>>

\* resolveFx and postJournal: at the latest rate, or at one the admin named.
PostCredit(c) ==
    LET r == call[c].request IN
    /\ pc[c] = "post"
    /\ \E rate \in captured :
          IF journal[r] \in {NoRate, rate}
            THEN /\ journal' = [journal EXCEPT ![r] = rate]
                 /\ Goto(c, "approve")
                 /\ answer' = answer
            ELSE /\ Answer(c, "conflict")
                 /\ journal' = journal
    /\ UNCHANGED <<rows, overdue, captured, call, counters>>

\* Mutant: the UPDATE is by id alone.
ApproveById(c) ==
    LET r == call[c].request IN
    /\ pc[c] = "approve"
    /\ status' = [status EXCEPT ![r] = "approved"]
    /\ linked' = linked \cup {r}
    /\ Answer(c, "approved")
    /\ UNCHANGED <<payable, overdue, money, call, counters>>

\* UPDATE ... WHERE status IN ('pending', 'matched'); the answer is the same without a row.
Approve(c) ==
    LET r == call[c].request IN
    /\ pc[c] = "approve"
    /\ IF status[r] = "pending"
         THEN /\ status' = [status EXCEPT ![r] = "approved"]
              /\ linked' = linked \cup {r}
         ELSE UNCHANGED <<status, linked>>
    /\ Answer(c, "approved")
    /\ UNCHANGED <<payable, overdue, money, call, counters>>

-----------------------------------------------------------------------------
(* reject *)

ReadForRejection(c) ==
    LET r == call[c].request IN
    /\ pc[c] = "read"
    /\ call[c].kind = "reject"
    /\ CASE status[r] = "pending" -> Goto(c, "reject") /\ UNCHANGED answer
         [] status[r] = "rejected" -> Answer(c, "rejected")
         [] OTHER -> Answer(c, "conflict")
    /\ UNCHANGED <<rows, overdue, money, call, counters>>

\* Mutant: the UPDATE is by id alone.
RejectById(c) ==
    LET r == call[c].request IN
    /\ pc[c] = "reject"
    /\ status' = [status EXCEPT ![r] = "rejected"]
    /\ Answer(c, "rejected")
    /\ UNCHANGED <<payable, linked, overdue, money, call, counters>>

\* UPDATE ... WHERE status IN ('pending', 'matched'), or "reject race".
Reject(c) ==
    LET r == call[c].request IN
    /\ pc[c] = "reject"
    /\ IF status[r] = "pending"
         THEN status' = [status EXCEPT ![r] = "rejected"] /\ Answer(c, "rejected")
         ELSE status' = status /\ Answer(c, "conflict")
    /\ UNCHANGED <<payable, linked, overdue, money, call, counters>>

-----------------------------------------------------------------------------

DeadlinePasses(r) ==
    /\ status[r] = "pending"
    /\ r \notin overdue
    /\ overdue' = overdue \cup {r}
    /\ UNCHANGED <<rows, money, pc, call, answer, counters>>

CaptureRate(x) ==
    /\ x \notin captured
    /\ captured' = captured \cup {x}
    /\ UNCHANGED <<rows, overdue, journal, pc, call, answer, counters>>

\* A call dies where it stands: the process crashed or a statement failed.
Fault(c) ==
    /\ pc[c] # "idle"
    /\ faults < MaxFaults
    /\ faults' = faults + 1
    /\ Answer(c, "error")
    /\ UNCHANGED <<rows, overdue, money, call, calls>>

Step(c) ==
    \/ InsertRequest(c) \/ InsertNothing(c)
    \/ ReadForApproval(c) \/ MarkExpired(c) \/ PostCredit(c) \/ Approve(c)
    \/ ReadForRejection(c) \/ Reject(c)

Next ==
    \/ \E c \in Caller :
          Step(c) \/ Fault(c) \/ \E kind \in Kind, r \in Request : Begin(c, kind, r)
    \/ \E r \in Request : DeadlinePasses(r)
    \/ \E x \in Rate : CaptureRate(x)

Spec == Init /\ [][Next]_vars

-----------------------------------------------------------------------------

(* Every variable has its type, and a request has an amount from the start. *)
TypeOK ==
    /\ status \in [Request -> Status]
    /\ payable \in [Request -> Payable \cup {NoPayable}]
    /\ \A r \in Request : status[r] = "absent" <=> payable[r] = NoPayable
    /\ overdue \subseteq Request
    /\ linked \subseteq Request
    /\ journal \in [Request -> Rate \cup {NoRate}]
    /\ captured \subseteq Rate
    /\ pc \in [Caller -> {"idle", "insert", "read", "expire", "post", "approve", "reject"}]
    /\ call \in [Caller -> [kind : Kind, request : Request, found : Status]]
    /\ answer \in [Caller -> {"none", "created", "approved", "rejected", "conflict", "error"}]
    /\ calls \in 0..MaxCalls
    /\ faults \in 0..MaxFaults

(* The operator finds a request by its amount on the bank statement: no    *)
(* two active requests are to be paid with the same amount, though amounts *)
(* are drawn at random and freed by every decision and expiry.             *)
ActivePayablesDistinct ==
    \A q, r \in Active : payable[q] = payable[r] => q = r

(* What an answer proves.  "approved" proves the credit, and that the row  *)
(* is decided, but not that it is approved: a rejection or an expiry that  *)
(* wins the row while the approval is under way leaves it so and approve   *)
(* answers "approved" all the same.  One that came before the call leaves  *)
(* no such answer.  "rejected" proves the row.  A conflict proves that the *)
(* request is decided or, told to an approval, credited already: it does   *)
(* not prove that nothing was credited.                                    *)
Truthful(c, what) ==
    LET r == call[c].request IN
    /\ what = "approved" =>
          /\ journal[r] # NoRate
          /\ status[r] \in Decided
          /\ call[c].found \in Decided => status[r] = "approved"
    /\ what = "rejected" => status[r] = "rejected"
    /\ what = "conflict" =>
          CASE call[c].kind = "approve" -> status[r] \in Decided \/ journal[r] # NoRate
            [] call[c].kind = "reject" -> status[r] \in Decided
            [] OTHER -> TRUE

AnswersAreTrue == \A c \in Caller : Truthful(c, answer[c])

(* An approved row is linked to a journal of its own, also when the call   *)
(* that posted it died and another finished the approval.                  *)
ApprovedIsCredited ==
    \A r \in Request : (status[r] = "approved" \/ r \in linked) =>
        status[r] = "approved" /\ r \in linked /\ journal[r] # NoRate

(* Two admins and the expiry race for a request, and the first decides: a  *)
(* decided request is never decided otherwise.                             *)
DecisionIsFinal ==
    [][\A r \in Request : status[r] \in Decided => status'[r] = status[r]]_status

(* "Reject: no ledger posting", "rejected: balance unchanged": a rejected  *)
(* request has not been credited.                                          *)
RejectedIsUncredited ==
    \A r \in Request : status[r] = "rejected" => journal[r] = NoRate

=============================================================================
