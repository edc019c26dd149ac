SPECIFICATION Spec
CONSTANTS
    Scores <- SomeScores
    NaN = NaN
    MaxData = 4
INVARIANT
    SeparableDataIsSeparated
PROPERTIES
    RecalibrationLosesNothing
    BrokenCalibrationChangesNothing
