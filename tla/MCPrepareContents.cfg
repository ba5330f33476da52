SPECIFICATION Spec
CONSTANTS
    UP <- MCUp
    Chars <- MCChars
    FsOwned <- MCFsOwned
    Globs <- MCGlobs
    Matches <- MCMatches
    TreeOf <- MCTreeOf
    Contents <- MCContents
    Inputs <- MCInputs
    Packager = "deb"
    MaxContents = 3
    MaxMatches = 3
    MaxPath = 6
INVARIANTS
    TypeOK
    KeyFormMatchesType
    ParentsPresent
    TableIsMeaning
    FailsWhereRefused
    ParentsFirst
    PathsAgree
    GlobsKeepTheirTree
PROPERTIES
    ClaimsSurvive
CHECK_DEADLOCK FALSE
