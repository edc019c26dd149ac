SPECIFICATION EngineFairSpec
CONSTANTS
    MaxNodes = 3
    MaxIndex = 1
    Subtasks = {s1, default}
    Default = default
    NoSubtask = NoSubtask
    Confidences <- SomeConfidences
    Sends = {3}
    NoNode = NoNode
    NoScore = NoScore
CHECK_DEADLOCK FALSE
INVARIANTS
    EngineTypeOK
    CauseIsUpstream
    SymptomIsLastResort
    CallBudget
PROPERTY
    AttributionEnds
