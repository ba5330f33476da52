SPECIFICATION Spec
CONSTANTS
    Inputs <- MCInputs
    Settings <- MCSettings
    Versions = {"v0", "v1", "v3", "v4"}
    Length <- MCLength
    Gone = "gone"
    Sources = {"f", "g"}
    MaxTouches = 2
    Block = 3
    BufSize = 9
INVARIANTS
    TypeOK
    ReadsAsOneTar
    DigestsChain
PROPERTIES
    KeepsPromise
CHECK_DEADLOCK FALSE
