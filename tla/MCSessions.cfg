SPECIFICATION Spec
CONSTANTS
    Agents = {a1, a2}
    Times = {1, 2}
    Filters <- SomeFilters
    Matching <- SomeMatching
    Degraded = TRUE
    PageSize = 1
    MaxLimit = 2
    MaxRows = 3
    MaxLoads = 3
    NoItems = NoItems
    NoWalk = NoWalk
CHECK_DEADLOCK FALSE
INVARIANTS
    WalkMissesNothing
    QuietPageMatchesControls
