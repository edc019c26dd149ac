SPECIFICATION Spec
CONSTANTS
    MaxNodes = 4
    MaxIndex = 4
    Subtasks = {"a", "b", "c", default}
    Default = default
    NoSubtask = NoSubtask
    Confidences <- SomeConfidences
    Sends = {1}
    NoNode = NoNode
    NoScore = NoScore
    Runs = 2
    Datasets <- SomeDatasets
    NoNumber = NoNumber
    NotANumber = NotANumber
CHECK_DEADLOCK FALSE
INVARIANTS
    TrueCauseIsFound
    OnlyDecoysDefeatTheBaseline
    ReportIsWhole
PROPERTY
    EvaluationEnds
