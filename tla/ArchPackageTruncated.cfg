SPECIFICATION Spec
CONSTANTS
    Inputs <- MCInputs
    Settings <- MCSettings
    Refusals = {"close"}
    Versions = {"v1", "w1", "v2"}
    Length <- MCLength
    Gone = "gone"
    Sources = {"f", "g"}
    MaxTouches = 0
INVARIANTS
    SuccessMeansWritten
CHECK_DEADLOCK FALSE
