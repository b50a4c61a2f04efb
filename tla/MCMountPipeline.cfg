CONSTANTS
    None = None
    ReleaseMayFail <- MCReleaseMayFail
    MountMayFail <- MCMountMayFail
    Nodes <- MCNodes
    Kind <- MCKind
    Inner <- MCInner
    PvVg <- MCPvVg
    LVs <- MCLVs
    VGs <- MCVGs
    Partitions <- MCPartitions
    FdeOptions <- MCFdeOptions
SPECIFICATION Spec
INVARIANTS
    TypeOK
    AllReleased
    CleanupAttempted
    WalkComplete
PROPERTIES
    Termination
CHECK_DEADLOCK FALSE
