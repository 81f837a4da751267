CONSTANTS
    d1 = d1  o1 = o1  o2 = o2  s1 = s1  s2 = s2
    Deposit = {d1}
    Sweepable = {d1}
    Observer = {o1, o2}
    Sweeper = {s1, s2}
    UiConf = 1
    LedgerConf = 2
    BatchLimit = 1
    MaxObserves = 3
    MaxTicks = 2
    MaxAdmin = 1
    MaxFaults = 1
CHECK_DEADLOCK FALSE
SPECIFICATION FairSpec
INVARIANTS
    TypeOK
    CreditedRowsAreBacked
    SweptOnlyWhenCredited
    CreditReachesRow
PROPERTIES
    CreditedGoesOnlyToSwept
    DeepReportIsCredited
