SPECIFICATION FairSpec
CONSTANTS
    Requests <- MCRequests
    Registered <- Formats
    Streaming = {"archlinux"}
    Paths <- MCPaths
    MaxRuns = 2
INVARIANTS
    TypeOK
    ReportedIsThere
    FailureLeavesNoPart
    EarlierPackagesSafe
    NamesTellVersions
PROPERTIES
    Returns
CHECK_DEADLOCK FALSE
