SPECIFICATION Spec
CONSTANTS
    Actors = {"deb", "rpm", "validate"}
    Formats = {"deb", "rpm"}
    Registered = {"deb", "rpm"}
    Configs <- MCConfigs
    Value <- MCValue
    Packager <- MCPackager
    TypeFor <- MCTypeFor
    Validate = "validate"
    NoInfo = NoInfo
    Index <- MCIndex
    Kind <- MCKind
    Given <- MCGiven
    Host <- MCHost
    Umask <- MCUmask
    MTime = 0
    DirMode = {"r", "x"}
INVARIANTS
    TypeOK
    OwnInfosIndependent
    SharedInfosSomeones
    ListsAsMeant
    FormatPackagesItsContents
CHECK_DEADLOCK FALSE
