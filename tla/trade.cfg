CONSTANTS
    t1 = t1  t2 = t2  c1 = c1  c2 = c2
    Trade = {t1, t2}
    Capital <- MCCapital
    Opening = 2
    Pledged = 1
    DailyCap = 1
    Bonus = 1
    MaxRematch = 1
    Payout = {1, 2}
    Caller = {c1, c2}
    MaxCalls = 4
    MaxFaults = 1
CHECK_DEADLOCK FALSE
SPECIFICATION FairSpec
INVARIANTS
    TypeOK
    RowsFollowJournals
    LockReachesTrade
PROPERTIES
    OutcomesAreFinal
    SettlementReachesRow
    PostsThroughLedger
