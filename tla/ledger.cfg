CONSTANTS
    c1 = c1  c2 = c2  c3 = c3
    k1 = k1  k2 = k2  k3 = k3  old = old
    Caller = {c1, c2, c3}
    Key = {k1, k2}
    Account <- MCAccount
    UserBucket = {1, 2, 4}
    PracticeBucket = {4}
    DebitNormal = {3}
    JournalType <- MCJournalType
    PracticeForbidden <- MCPracticeForbidden
    Payload <- MCPayload
    Opening <- MCOpening
    LegacyKey = {}
    NoJournal = NoJournal
    LegacyRow = LegacyRow
    NoCaller = NoCaller
    DrainLimit = 2
    MaxCalls = 3
    MaxFaults = 1
SYMMETRY CallerSymmetry
SPECIFICATION Spec
INVARIANTS
    TypeOK
    BucketsNeverNegative
    BalancesMatchJournals
    TrialBalance
    AnswersMatchJournals
    OutboxFollowsJournals
PROPERTIES
    JournalsAreFinal
    ImplementsLedgerAtomic
