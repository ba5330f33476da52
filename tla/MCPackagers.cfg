SPECIFICATION Spec
CONSTANTS
    Formats <- MCFormats
    Inputs <- MCInputs
    Settings <- MCSettings
    Refusals = {"write", "close"}
    KiB = 2
    Versions = {"v1", "w1", "v2"}
    Length <- MCLength
    Gone = "gone"
    Sources = {"f", "g"}
    MaxTouches = 2
INVARIANTS
    TypeOK
    DescribesItself
    SignatureCoversArchive
    RebuildReproduces
    TempIsRemoved
    ChangelogNotForgotten
    DefaultsAreStable
PROPERTIES
    KeepsPromise
CHECK_DEADLOCK FALSE
