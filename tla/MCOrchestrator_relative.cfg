CONSTANTS
    Disks = {1, 2}
    FdeChoices = {"luks_otf_mount"}
    Failures = {}
    ReleaseMayFail = FALSE
    OutDirs <- MCRelativeOutDirs
    ImageDirs <- MCRelativeImageDirs
    Cwd <- MCCwd
SPECIFICATION Spec
INVARIANT KeptWhileVmRuns
CHECK_DEADLOCK FALSE
