SPECIFICATION Spec
CONSTANTS
    MaxSpans = 3
    Times = {1, 3}
    Unreadable = Unreadable
    T0 = 2
    Indexes = {1}
    NoIndex = NoIndex
    NoParent = NoParent
    Elsewhere = Elsewhere
CHECK_DEADLOCK FALSE
INVARIANTS
    ParentLinksAreKept
    EdgesAreJustified
    RoundTrip
