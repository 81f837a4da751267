CONSTANTS
    d1 = d1  o1 = o1  o2 = o2  s1 = s1  s2 = s2
    Deposit = {d1}
    Sweepable = {d1}
    Observer = {o1}
    Sweeper = {s1}
    UiConf = 1
    LedgerConf = 2
    BatchLimit = 1
    MaxObserves = 2
    MaxTicks = 2
    MaxAdmin = 0
    MaxFaults = 0
CHECK_DEADLOCK FALSE
SPECIFICATION Spec
INVARIANTS
    SweptAtMostOnce
