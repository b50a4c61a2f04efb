CONSTANTS
    None = None
    ReleaseMayFail = {}
    MountMayFail = {}
    Nodes <- MCNodes
    Kind <- MCKind
    Inner <- MCInner
    PvVg <- MCPvVg
    LVs <- MCLVs
    VGs <- MCVGs
    Partitions <- MCPartitionsVcFirst
    FdeOptions <- MCFdeOptions
SPECIFICATION Spec
INVARIANT WalkComplete
CHECK_DEADLOCK FALSE
