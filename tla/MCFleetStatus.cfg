SPECIFICATION Spec
CONSTANTS
    g1 = g1
    g2 = g2
    t1 = t1
    t2 = t2
    a1 = a1
    Traces = {t1, t2}
    Graphs = {g1, g2}
    TraceOf <- SomeTraceOf
    AgentOf <- SomeAgentOf
    NoAttribution = NoAttribution
    NoSession = NoSession
    Agents = {a1}
    Failed = {g2}
    Playbooks = {p1, p2}
    Outcomes = {0, 100}
    Window = 2
    ScorerWindow = 2
    Weights <- SomeWeights
    Degraded = 70
    Critical = 40
    MaxLag = 1
    MaxRows = 3
    MaxFeedback = 2
    NoTrace = NoTrace
    Idle = Idle
CHECK_DEADLOCK FALSE
INVARIANTS
    NewestScoreMovesTheRightWay
    TrendFollowsHistory
    ScoredSessionsAreCounted
    TrendSplitsAtFirstUse
PROPERTIES
    HistoryIsLatest
