CONSTANTS
    a1 = a1  a2 = a2  e1 = e1  k1 = k1  c1 = c1  c2 = c2
    Accrual = {a1, a2}
    Delayed = {a1}
    Edge = {e1}
    Amount <- MCAmount
    MaxAmount = 2
    Opening = 2
    TopUpAmount = 1
    ClawKey = {k1}
    Caller = {c1, c2}
    MaxCalls = 5
    MaxFaults = 1
SYMMETRY CallerSymmetry
CHECK_DEADLOCK FALSE
SPECIFICATION Spec
INVARIANTS
    TypeOK
    RowsFollowJournals
    PoolOverdraftBounded
    DrainIsFifo
    HalfDoneHasItsCall
