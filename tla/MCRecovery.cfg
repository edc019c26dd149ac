SPECIFICATION Spec
CONSTANTS
    r1 = r1
    r2 = r2
    r3 = r3
    p1 = p1
    p2 = p2
    m1 = m1
    k1 = k1
    Reports = {r1, r2, r3}
    Workers = {w1}
    Playbooks = {p1, p2}
    Modes = {m1}
    Keys = {m1}
    PlaybookOf <- SomePlaybookOf
    RewardOf <- SomeRewardOf
    ModeOf <- SomeModeOf
    KeyOf <- ModeNameKeys
    Library <- SomeLibrary
    Scale = 120
    MaxSends = 2
    MaxFaults = 1
    None = None
CHECK_DEADLOCK FALSE
INVARIANTS
    TypeOK
    QIsMean
    EffectsArePrefixes
    AckedReportIsStored
    GreedyFollowsItsKey
