CONSTANTS
    p1 = p1  plot = plot  k1 = k1  c1 = c1  c2 = c2
    Position = {p1}
    Plot = {plot}
    PlotOf <- MCPlotOf
    Requested <- MCRequested
    Change = 2
    Key = {k1}
    PoolMax = 3
    Midnight = {0, 1}
    Caller = {c1, c2}
    MaxTime = 2
    MaxPrincipal = 3
    MaxCalls = 4
    MaxFaults = 1
CHECK_DEADLOCK FALSE
SPECIFICATION FairSpec
PROPERTY CallsEnd
INVARIANTS
    TypeOK
    PeriodsTile
    PaidBeforeGoingOn
    LockedAddsUp
