--------------------------- MODULE JournalPayload ---------------------------
(***************************************************************************)
(* What one call of LedgerPostingService.postJournal asks for: a journal   *)
(* type and signed lines over the accounts.  A line is an integer, credit  *)
(* positive and debit negative; 0 is "no line on this account".  No caller *)
(* in the repository puts two lines on one user bucket, so one number per  *)
(* account loses nothing the balance check can see.  Two payloads are      *)
(* equal exactly when their request fingerprints are: memo, FX snapshot    *)
(* and author are not part of either.                                      *)
(***************************************************************************)
EXTENDS Integers, Functions, FiniteSets

CONSTANTS
    Key,                \* idempotency keys
    Account,            \* account ids; FOR UPDATE locks them in this order
    UserBucket,         \* accounts of kind user_bucket
    PracticeBucket,     \* user buckets whose bucket is practice
    DebitNormal,        \* accounts of an ops_pool, treasury, fx_clearing or suspense kind
    JournalType,
    PracticeForbidden,  \* journal types that may not touch a practice bucket
    Payload,            \* the payloads callers send
    Opening,            \* balances before the first journal of the model
    LegacyKey           \* keys journalled before fingerprints were stored

CONSTANTS NoJournal, LegacyRow

ASSUME AccountAssumption ==
    /\ Account \subseteq Nat
    /\ IsFiniteSet(Account)
    /\ PracticeBucket \subseteq UserBucket
    /\ UserBucket \subseteq Account
    /\ DebitNormal \subseteq Account \ UserBucket

ASSUME PayloadAssumption ==
    /\ PracticeForbidden \subseteq JournalType
    /\ Payload \subseteq [type : JournalType, line : [Account -> Int]]
    /\ NoJournal \notin Payload
    /\ LegacyRow \notin Payload
    /\ NoJournal # LegacyRow

ASSUME OpeningAssumption ==
    /\ LegacyKey \subseteq Key
    /\ Opening \in [Account -> Int]
    /\ \A a \in UserBucket : Opening[a] >= 0

-----------------------------------------------------------------------------

\* The accounts a payload has a line on.
Touched(p) == {a \in Account : p.line[a] # 0}

\* applyDelta: what a line does to balance_usdt, by the normal side of the account.
Effect(p, a) == IF a \in DebitNormal THEN -p.line[a] ELSE p.line[a]

\* assertBalanced: debits equal credits.
Balanced(p) == SumFunction(p.line) = 0

\* assertPracticeIsolation.
PracticeIsolated(p) ==
    p.type \in PracticeForbidden => Touched(p) \cap PracticeBucket = {}

\* Mutant: the sum of the lines is not tested.
WellformedLopsided(p) == PracticeIsolated(p)

\* The checks postJournal makes before it takes any lock.
Wellformed(p) == Balanced(p) /\ PracticeIsolated(p)

\* assertFingerprintMatch: a row without a stored fingerprint matches anything.
Matches(row, p) == row \in {p, LegacyRow}

InitialJournal == [k \in Key |-> IF k \in LegacyKey THEN LegacyRow ELSE NoJournal]

=============================================================================
