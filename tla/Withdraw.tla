------------------------------- MODULE Withdraw -------------------------------
(***************************************************************************)
(* Withdrawals of one user: the step-up challenges that authorise them     *)
(* (WithdrawStepUpService), the intents (WithdrawIntentService, with the   *)
(* daily cap of RiskService), their review (WithdrawReviewService) and the *)
(* administrators' reset of the PIN (WithdrawCredentialsAdminService).     *)
(* None of them opens a transaction: each statement is a step of its own.  *)
(*                                                                         *)
(* Whether a proof is right, a challenge or a token is still fresh, and    *)
(* the other guards let a call go on is the environment, Fails; so are the *)
(* counter of wrong PINs and the balances.  A definition marked Mutant is  *)
(* the one that follows it with a plausible bug.                           *)
(***************************************************************************)
EXTENDS Integers, FiniteSets, Functions

CONSTANTS
    Challenge,      \* rows of withdraw_stepup_challenges
    Code,           \* the user's recovery codes
    Key,            \* idempotency keys of withdrawals
    Payload,        \* mode, asset, amounts and destination of a withdrawal
    Principal,      \* debit_principal_usdt of a payload
    Cap,            \* RESTRICTED_PRINCIPAL_DAILY_CAP_USDT
    Request,        \* idempotency keys of administrators' requests, which they choose
    UtcDate, SeoulDate,     \* the date of each tick
    Caller,         \* calls in flight
    None,           \* not one of them
    MaxTime, MaxCalls       \* bounds

Time == 0..MaxTime
Decision == {"approve", "reject"}
Method == {"email_otp", "pin", "recovery"}

ASSUME WithdrawAssumption ==
    /\ {MaxTime, MaxCalls, Cap} \subseteq Nat
    /\ Principal \in [Payload -> Nat]
    /\ UtcDate \in [Time -> Nat] /\ SeoulDate \in [Time -> Nat]
    /\ \A t, u \in Time : t <= u => SeoulDate[t] <= SeoulDate[u]
    /\ None \notin Challenge \cup Payload
    /\ IsFiniteSet(Key) /\ IsFiniteSet(Caller) /\ Caller # {}

VARIABLES
    challenge,  \* "absent", "open", then "verified" (consumed_at), "spent" (token_consumed_at)
    method,     \* its method
    usedBy,     \* the challenge a recovery code was used for, None when used_at is null
    pin,        \* the row of withdraw_pin_verifiers: "none", "set", or "wiped" (must_reset)
    enrolled,   \* challenges whose token set a PIN
    intent,     \* withdraw_intents.status by key, "absent" without a row
    payload,    \* what it asks for
    authority,  \* the challenge whose token it was created with
    created,    \* created_at
    audit,      \* admin_audit_events of reviews
    wipes,      \* withdraw_credentials_audit, by idempotency_key
    told,       \* reviews whose decision an administrator was told is in force
    pc, call,   \* where each call stands, and what it asks for
    now, calls,
    together    \* history: the most calls that were at once past the cap and not yet inserted

stepup == <<challenge, method, usedBy>>
pins == <<pin, enrolled, wipes>>
intents == <<payload, authority, created>>
review == <<audit, told>>
counters == <<now, calls, together>>
vars == <<stepup, pins, intent, intents, review, pc, call, counters>>

Init ==
    /\ challenge = [h \in Challenge |-> "absent"]
    /\ method = [h \in Challenge |-> "pin"]
    /\ usedBy = [x \in Code |-> None]
    /\ pin = "none"
    /\ enrolled = {}
    /\ intent = [k \in Key |-> "absent"]
    /\ payload = [k \in Key |-> None]
    /\ authority = [k \in Key |-> None]
    /\ created = [k \in Key |-> 0]
    /\ audit = {}
    /\ wipes = {}
    /\ told = {}
    /\ pc = [c \in Caller |-> "idle"]
    /\ call = [c \in Caller |-> None]
    /\ now = 0
    /\ calls = 0
    /\ together = 0

-----------------------------------------------------------------------------
(* Calls *)

Verification == [challenge : Challenge, code : Code]
Enrolment == [challenge : Challenge]
Creation == [challenge : Challenge, key : Key, payload : Payload]
Review == [key : Key, decision : Decision, request : Request]
Wipe == [request : Request]

Goto(c, label) == pc' = [pc EXCEPT ![c] = label] /\ UNCHANGED call

Finish(c) ==
    /\ pc' = [pc EXCEPT ![c] = "idle"]
    /\ call' = [call EXCEPT ![c] = None]

Begin(c, label, what) ==
    /\ pc[c] = "idle"
    /\ calls < MaxCalls
    /\ calls' = calls + 1
    /\ pc' = [pc EXCEPT ![c] = label]
    /\ call' = [call EXCEPT ![c] = what]
    /\ UNCHANGED <<stepup, pins, intent, intents, review, now, together>>

\* A token exists once its challenge was verified.
Issued(h) == challenge[h] \in {"verified", "spent"}

NewCall(c) ==
    \/ \E v \in Verification : challenge[v.challenge] # "absent" /\ Begin(c, "read", v)
    \/ \E e \in Enrolment : Issued(e.challenge) /\ Begin(c, "read_pin", e)
    \/ \E n \in Creation : Issued(n.challenge) /\ Begin(c, "check", n)
    \/ \E r \in Review : intent[r.key] # "absent" /\ Begin(c, "review", r)
    \/ \E w \in Wipe : Begin(c, "find", w)

-----------------------------------------------------------------------------
(* Challenges and their tokens *)

CreateChallenge(h, m) ==
    /\ challenge[h] = "absent"
    /\ m = "pin" => pin = "set"
    /\ challenge' = [challenge EXCEPT ![h] = "open"]
    /\ method' = [method EXCEPT ![h] = m]
    /\ UNCHANGED <<usedBy, pins, intent, intents, review, pc, call, counters>>

\* Where the proof of each method is tested; a one-time password is tested with the row.
ProofOf(m) ==
    CASE m = "email_otp" -> "verify"
      [] m = "pin" -> "prove"
      [] m = "recovery" -> "use_code"

ReadChallenge(c) ==
    LET h == call[c].challenge IN
    /\ pc[c] = "read"
    /\ IF challenge[h] = "open" THEN Goto(c, ProofOf(method[h])) ELSE Finish(c)
    /\ UNCHANGED <<stepup, pins, intent, intents, review, counters>>

ProvePin(c) ==
    /\ pc[c] = "prove"
    /\ IF pin = "set" THEN Goto(c, "verify") ELSE Finish(c)
    /\ UNCHANGED <<stepup, pins, intent, intents, review, counters>>

Usable(x) == usedBy[x] = None

UseCode(c) ==
    LET x == call[c].code IN
    /\ pc[c] = "use_code"
    /\ IF Usable(x)
         THEN usedBy' = [usedBy EXCEPT ![x] = call[c].challenge] /\ Goto(c, "verify")
         ELSE Finish(c) /\ UNCHANGED usedBy
    /\ UNCHANGED <<challenge, method, pins, intent, intents, review, counters>>

\* UPDATE ... WHERE consumed_at IS NULL
Verify(c) ==
    LET h == call[c].challenge IN
    /\ pc[c] = "verify"
    /\ challenge' = [challenge EXCEPT ![h] = IF @ = "open" THEN "verified" ELSE @]
    /\ Finish(c)
    /\ UNCHANGED <<method, usedBy, pins, intent, intents, review, counters>>

\* Mutant: the token is only asserted, not consumed.
SpendableAsserted(h) == Issued(h)

\* UPDATE ... WHERE consumed_at IS NOT NULL AND token_consumed_at IS NULL
Spendable(h) == challenge[h] = "verified"

Spend(c) ==
    LET h == call[c].challenge IN
    /\ pc[c] \in {"spend_to_enrol", "spend_to_create"}
    /\ IF Spendable(h)
         THEN /\ challenge' = [challenge EXCEPT ![h] = "spent"]
              /\ Goto(c, IF pc[c] = "spend_to_enrol" THEN "set_pin" ELSE "insert")
         ELSE Finish(c) /\ UNCHANGED challenge
    /\ UNCHANGED <<method, usedBy, pins, intent, intents, review, counters>>

-----------------------------------------------------------------------------
(* The PIN *)

ReadPin(c) ==
    /\ pc[c] = "read_pin"
    /\ IF method[call[c].challenge] # "pin" /\ pin # "set" THEN Goto(c, "spend_to_enrol") ELSE Finish(c)
    /\ UNCHANGED <<stepup, pins, intent, intents, review, counters>>

SetPin(c) ==
    /\ pc[c] = "set_pin"
    /\ pin' = "set"
    /\ enrolled' = enrolled \cup {call[c].challenge}
    /\ Finish(c)
    /\ UNCHANGED <<stepup, wipes, intent, intents, review, counters>>

FindAudit(c) ==
    /\ pc[c] = "find"
    /\ IF call[c].request \in wipes THEN Finish(c) ELSE Goto(c, "delete")
    /\ UNCHANGED <<stepup, pins, intent, intents, review, counters>>

DeletePin(c) ==
    /\ pc[c] = "delete"
    /\ pin' = "none"
    /\ Goto(c, "mark")
    /\ UNCHANGED <<stepup, enrolled, wipes, intent, intents, review, counters>>

MarkPin(c) ==
    /\ pc[c] = "mark"
    /\ pin' = "wiped"
    /\ Goto(c, "log")
    /\ UNCHANGED <<stepup, enrolled, wipes, intent, intents, review, counters>>

InsertAudit(c) ==
    /\ pc[c] = "log"
    /\ wipes' = wipes \cup {call[c].request}
    /\ Finish(c)
    /\ UNCHANGED <<stepup, pin, enrolled, intent, intents, review, counters>>

-----------------------------------------------------------------------------
(* Intents *)

Total(keys) == SumFunction([k \in keys |-> Principal[payload[k]]])

Live == {k \in Key : intent[k] \notin {"absent", "rejected"}}

\* sumPrincipalWithdrawnToday: the date of created_at is UTC's, the day is Seoul's.
WithdrawnToday == Total({k \in Live : UtcDate[created[k]] = SeoulDate[now]})

\* Mutant: the amount alone is compared with the cap.
AdmissibleAlone(amount) == amount <= Cap

\* The user is restricted; a withdrawal of profit is not capped.
Admissible(amount) == amount = 0 \/ WithdrawnToday + amount <= Cap

Admitted == {"lookup", "spend_to_create", "insert"}

\* The calls that may still add principal to what was withdrawn.
Adding == {c \in Caller : pc[c] \in Admitted /\ Principal[call[c].payload] > 0}

CheckCap(c) ==
    /\ pc[c] = "check"
    /\ IF Admissible(Principal[call[c].payload]) THEN Goto(c, "lookup") ELSE Finish(c)
    /\ together' = IF Cardinality(Adding') > together THEN Cardinality(Adding') ELSE together
    /\ UNCHANGED <<stepup, pins, intent, intents, review, now, calls>>

\* A key with a row is answered by it, or with a conflict.
Lookup(c) ==
    /\ pc[c] = "lookup"
    /\ IF intent[call[c].key] = "absent" THEN Goto(c, "spend_to_create") ELSE Finish(c)
    /\ UNCHANGED <<stepup, pins, intent, intents, review, counters>>

\* Mutant: the row does not say by which step-up it was authorised.
AuthorityUnrecorded(c) == None

\* Of what a row says of its step-up (step_up_method, step_up_verified_at), whose it was.
Authority(c) == call[c].challenge

\* The loser of the unique key is answered like a call that finds the row.
Insert(c) ==
    LET k == call[c].key IN
    /\ pc[c] = "insert"
    /\ IF intent[k] = "absent"
         THEN /\ intent' = [intent EXCEPT ![k] = "auth_ok"]
              /\ payload' = [payload EXCEPT ![k] = call[c].payload]
              /\ authority' = [authority EXCEPT ![k] = Authority(c)]
              /\ created' = [created EXCEPT ![k] = now]
         ELSE UNCHANGED <<intent, intents>>
    /\ Finish(c)
    /\ UNCHANGED <<stepup, pins, review, counters>>

-----------------------------------------------------------------------------
(* Review *)

Outcome(decision) == IF decision = "approve" THEN "queued" ELSE "rejected"

Tell(r) == told' = told \cup {r}

\* nextWithdrawReviewStatus: the decision stands already, is to be made, or was made otherwise.
ReadIntent(c) ==
    LET r == call[c] IN
    /\ pc[c] = "review"
    /\ \/ intent[r.key] = Outcome(r.decision) /\ Tell(r) /\ Finish(c)
       \/ intent[r.key] = "auth_ok" /\ Goto(c, "audit") /\ UNCHANGED told
       \/ intent[r.key] \notin {"auth_ok", Outcome(r.decision)} /\ Finish(c) /\ UNCHANGED told
    /\ UNCHANGED <<stepup, pins, intent, intents, audit, counters>>

\* INSERT ... ON CONFLICT (idempotency_key) DO NOTHING: a key that has an event gets no other.
AuditWith(r) == IF \E e \in audit : e.request = r.request THEN audit ELSE audit \cup {r}

\* The event says 'applied' before the decision is, and persisted whether or not it was inserted.
WriteAudit(c) ==
    /\ pc[c] = "audit"
    /\ audit' = AuditWith(call[c])
    /\ Goto(c, "decide")
    /\ UNCHANGED <<stepup, pins, intent, intents, told, counters>>

\* Mutant: the update does not look at the status again.
PendingRead(k) == k \in Key

\* UPDATE ... WHERE status = 'auth_ok'
Pending(k) == intent[k] = "auth_ok"

\* An update that finds no row reads it again.
Decide(c) ==
    LET r == call[c] IN
    /\ pc[c] = "decide"
    /\ IF Pending(r.key)
         THEN intent' = [intent EXCEPT ![r.key] = Outcome(r.decision)] /\ Tell(r)
         ELSE /\ IF intent[r.key] = Outcome(r.decision) THEN Tell(r) ELSE UNCHANGED told
              /\ UNCHANGED intent
    /\ Finish(c)
    /\ UNCHANGED <<stepup, pins, intents, audit, counters>>

-----------------------------------------------------------------------------

\* A guard refuses, a statement fails or the process dies: what was written stays.
Fails(c) ==
    /\ pc[c] # "idle"
    /\ Finish(c)
    /\ UNCHANGED <<stepup, pins, intent, intents, review, counters>>

Tick ==
    /\ now < MaxTime
    /\ now' = now + 1
    /\ UNCHANGED <<stepup, pins, intent, intents, review, pc, call, calls, together>>

VerifyStep(c) == ReadChallenge(c) \/ ProvePin(c) \/ UseCode(c) \/ Verify(c) \/ Spend(c)
PinStep(c) == ReadPin(c) \/ SetPin(c) \/ FindAudit(c) \/ DeletePin(c) \/ MarkPin(c) \/ InsertAudit(c)
IntentStep(c) == CheckCap(c) \/ Lookup(c) \/ Insert(c)
ReviewStep(c) == ReadIntent(c) \/ WriteAudit(c) \/ Decide(c)

Next ==
    \/ \E c \in Caller :
          NewCall(c) \/ VerifyStep(c) \/ PinStep(c) \/ IntentStep(c) \/ ReviewStep(c) \/ Fails(c)
    \/ \E h \in Challenge, m \in Method : CreateChallenge(h, m)
    \/ Tick

Spec == Init /\ [][Next]_vars

-----------------------------------------------------------------------------
(* Properties *)

Asks(label) ==
    CASE label \in {"read", "prove", "use_code", "verify"} -> Verification
      [] label \in {"read_pin", "spend_to_enrol", "set_pin"} -> Enrolment
      [] label \in {"check", "lookup", "spend_to_create", "insert"} -> Creation
      [] label \in {"review", "audit", "decide"} -> Review
      [] label \in {"find", "delete", "mark", "log"} -> Wipe
      [] OTHER -> {None}

Labels == {"idle", "read", "prove", "use_code", "verify", "read_pin", "spend_to_enrol", "set_pin",
           "check", "lookup", "spend_to_create", "insert", "review", "audit", "decide",
           "find", "delete", "mark", "log"}

\* Every variable keeps its type, and a call asks for what its kind does; a row has a payload
\* and a token exactly when it exists.
TypeOK ==
    /\ challenge \in [Challenge -> {"absent", "open", "verified", "spent"}]
    /\ method \in [Challenge -> Method]
    /\ usedBy \in [Code -> Challenge \cup {None}]
    /\ pin \in {"none", "set", "wiped"} /\ enrolled \subseteq Challenge /\ wipes \subseteq Request
    /\ intent \in [Key -> {"absent", "auth_ok", "queued", "rejected"}]
    /\ payload \in [Key -> Payload \cup {None}] /\ authority \in [Key -> Challenge \cup {None}]
    /\ \A k \in Key : intent[k] # "absent" <=> payload[k] # None
    /\ \A k \in Key : intent[k] # "absent" <=> authority[k] # None
    /\ created \in [Key -> Time]
    /\ audit \subseteq Review /\ told \subseteq Review
    /\ pc \in [Caller -> Labels] /\ \A c \in Caller : call[c] \in Asks(pc[c])
    /\ now \in Time /\ calls \in 0..MaxCalls /\ together \in Nat

AuthorisedBy(h) == {k \in Key : authority[k] = h}

\* verifyChallenge, setPin and create against each other and against retries: one proof
\* authorises at most one thing, a withdrawal or a PIN, and only once its token is spent; a
\* challenge verified with a recovery code has a code of its own.
AuthorisedOnce ==
    \A h \in Challenge :
        /\ \A k, l \in AuthorisedBy(h) : k = l
        /\ AuthorisedBy(h) # {} => challenge[h] = "spent" /\ h \notin enrolled
        /\ h \in enrolled => challenge[h] = "spent" /\ method[h] # "pin"
        /\ Issued(h) /\ method[h] = "recovery" => \E x \in Code : usedBy[x] = h

\* decide against other decisions: what an administrator was told is in force is what the
\* row says for good.  A row is decided by a request whose key has an audit event: of this
\* decision if the key was new, of an earlier request if an administrator used it before,
\* as ON CONFLICT DO NOTHING then keeps the earlier event and reports it persisted.
DecisionsStand ==
    /\ \A r \in told : intent[r.key] = Outcome(r.decision)
    /\ \A k \in Key : intent[k] \in {"queued", "rejected"} =>
          \E r \in told : r.key = k /\ \E e \in audit : e.request = r.request

Dated(date) == {k \in Live : UtcDate[created[k]] = date /\ SeoulDate[created[k]] = date}

\* The cap is tested by one statement and counted by another.  Of what a restricted user
\* withdraws on a date, in the hours in which Seoul and UTC have that date both, it holds as
\* long as no two calls are between the two at once, and is exceeded by at most itself for
\* each call more that ever was.  Of the other hours (00:00 to 09:00 in Seoul) it says nothing:
\* sumPrincipalWithdrawnToday counts a row created then on no day, so the code has no bound.
CapBounded ==
    \A t \in Time : Total(Dated(SeoulDate[t])) <= Cap * together

=============================================================================
