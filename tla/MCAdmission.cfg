SPECIFICATION Spec
CONSTANTS
    Workers = {w1}
    Keys = {k1, k2, unauthenticated}
    Unauthenticated = unauthenticated
    MaxWrites = 2
    Window = 2
    MaxTime = 3
    MaxServed = 3
    Requests = {r1, r2}
    NoRow = NoRow
    NoGrant = NoGrant
    NoRequest = NoRequest
CHECK_DEADLOCK FALSE
INVARIANTS
    SlidingLimit
    WindowIsExact
    BucketsAreOfWriters
PROPERTIES
    PolicySpec
    RevocationTakesEffect
