SPECIFICATION Spec
CONSTANTS
    r1 = r1
    r2 = r2
    r3 = r3
    p1 = p1
    p2 = p2
    m1 = m1
    k1 = k1
    Reports = {r1, r2, r3}
    Workers = {w1}
    Playbooks = {p1, p2}
    Modes = {m1}
    Keys = {k1}
    PlaybookOf <- SomePlaybookOf
    RewardOf <- SomeRewardOf
    ModeOf <- SomeModeOf
    KeyOf <- TraceIdKeys
    Library <- SomeLibrary
    Scale = 24
    MaxSends = 1
    MaxFaults = 0
    None = None
CHECK_DEADLOCK FALSE
INVARIANT
    GreedyFollowsEvidence
