CONSTANTS
    r1 = r1  r2 = r2  c1 = c1  c2 = c2  x1 = x1  x2 = x2
    Request = {r1}
    Payable = {101, 102}
    Offer <- MCOffer
    Rate = {x1, x2}
    FirstRate = x1
    NoRate = NoRate
    NoPayable = NoPayable
    Caller = {c1, c2}
    MaxCalls = 3
    MaxFaults = 0
SYMMETRY CallerSymmetry
CHECK_DEADLOCK FALSE
SPECIFICATION Spec
INVARIANTS
    RejectedIsUncredited
