SPECIFICATION Spec
CONSTANTS
    UP <- MCUp
    Chars <- MCChars
    FsOwned <- MCFsOwned
    Globs <- MCGlobs
    Matches <- MCMatches
    TreeOf <- MCTreeOf
    Contents <- MCContents
    Inputs <- MCInputs
    Packager = "deb"
    MaxContents = 2
    MaxMatches = 0
    MaxPath = 0
INVARIANTS
    CollisionsFound
CHECK_DEADLOCK FALSE
