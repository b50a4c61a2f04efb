CONSTANTS
    Disks = {1, 2}
    FdeChoices = {"luks_otf_mount"}
    Failures = {}
    ReleaseMayFail = FALSE
    OutDirs <- MCAbsoluteOutDirs
    ImageDirs <- MCImageDirs
    Cwd <- MCCwd
SPECIFICATION Spec
INVARIANT ImageUnmountedBeforeRW
CHECK_DEADLOCK FALSE
