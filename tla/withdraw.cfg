CONSTANTS
    profit = profit  small = small  large = large
    Challenge = {h1, h2}
    Code = {x1}
    Key = {k1, k2}
    Payload = {profit, small, large}
    Principal <- MCPrincipal
    Cap = 1
    Request = {q1, q2}
    UtcDate <- MCUtcDate
    SeoulDate <- MCSeoulDate
    Caller = {c1, c2}
    None = None
    MaxTime = 1
    MaxCalls = 5
SYMMETRY MCSymmetry
SPECIFICATION Spec
CHECK_DEADLOCK FALSE
INVARIANTS
    TypeOK
    AuthorisedOnce
    DecisionsStand
    CapBounded
