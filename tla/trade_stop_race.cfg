CONSTANTS
    t1 = t1  t2 = t2  c1 = c1  c2 = c2
    Trade = {t1}
    Capital <- MCCapital
    Opening = 2
    Pledged = 1
    DailyCap = 1
    Bonus = 0
    MaxRematch = 1
    Payout = {1}
    Caller = {c1, c2}
    MaxCalls = 3
    MaxFaults = 0
SYMMETRY CallerSymmetry
CHECK_DEADLOCK FALSE
SPECIFICATION Spec
INVARIANTS
    StoppedIsNotCredited
