SPECIFICATION RSpec
CONSTANTS
    UP <- MCUp
    Chars <- MCChars
    FsOwned <- MCFsOwned
    Matches <- MCMatches
    TreeOf <- MCTreeOf
    Contents <- MCContents
    Inputs <- MCInputs
    Packager = "deb"
    Changelog <- MCChangelog
INVARIANTS
    SecondFailsOnChangelog
    SecondPackagesTheFirst
CHECK_DEADLOCK FALSE
