SPECIFICATION Spec
CONSTANTS
    Actors = {"srpm", "rpm", "validate"}
    Formats = {"srpm", "rpm"}
    Registered = {"srpm", "rpm"}
    Configs <- MCConfigs
    Value <- MCValue
    Packager <- MCPackager
    TypeFor <- MCTypeFor
    Validate = "validate"
    NoInfo = NoInfo
    Index <- MCIndex
    Kind <- MCKind
    Given <- MCGiven
    Host <- MCHost
    Umask <- MCUmask
    MTime = 0
    DirMode = {"r", "x"}
INVARIANTS
    SourceBundlesBinary
CHECK_DEADLOCK FALSE
