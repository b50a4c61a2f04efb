CONSTANTS
    Disks = {1, 2}
    FdeChoices = {"none", "auto", "luks_otf_mount", "bitlocker_otf_mount", "veracrypt_otf_mount"}
    Failures = {"vmware_mount", "disk_info"}
    ReleaseMayFail = FALSE
    OutDirs <- MCAbsoluteOutDirs
    ImageDirs <- MCImageDirs
    Cwd <- MCCwd
SPECIFICATION Spec
INVARIANT LeakOnlyAfterFailedRelease
CHECK_DEADLOCK FALSE
