CONSTANTS
    c1 = c1  c2 = c2  c3 = c3
    k1 = k1  k2 = k2  k3 = k3  old = old
    Caller = {c1, c2, c3}
    Key = {k1, k2, k3, old}
    Account <- MCAccount
    UserBucket = {1, 2, 4}
    PracticeBucket = {4}
    DebitNormal = {3}
    JournalType <- MCJournalType
    PracticeForbidden <- MCPracticeForbidden
    Payload <- PlainPayload
    Opening <- MCOpening
    LegacyKey = {old}
    NoJournal = NoJournal
    LegacyRow = LegacyRow
    NoCaller = NoCaller
    DrainLimit = 2
    MaxCalls = 3
    MaxFaults = 0
SPECIFICATION FairSpec
ACTION_CONSTRAINT InTurn
PROPERTIES
    EveryCallAnswers
    CommittedIsPublished
