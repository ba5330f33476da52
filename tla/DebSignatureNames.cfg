SPECIFICATION Spec
CONSTANTS
    Inputs <- MCInputs
    Settings <- MCSettings
    KiB = 2
    Versions = {"v1", "w1", "v2"}
    Length <- MCLength
    Gone = "gone"
    Sources = {"f", "g"}
    MaxTouches = 0
INVARIANTS
    SignatureNamesMembers
CHECK_DEADLOCK FALSE
