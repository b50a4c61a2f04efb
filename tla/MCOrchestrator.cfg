CONSTANTS
    Disks = {1, 2}
    FdeChoices = {"none", "auto", "luks_otf_mount", "bitlocker_otf_mount", "veracrypt_otf_mount"}
    Failures = {"validate", "bind", "image_info", "builder", "pipeline_ro",
                "before_create_disk", "write_vm", "snapshot_initial",
                "hooks", "rw_pipeline", "snapshot_finished", "start", "running"}
    ReleaseMayFail = TRUE
    OutDirs <- MCAbsoluteOutDirs
    ImageDirs <- MCImageDirs
    Cwd <- MCCwd
SPECIFICATION Spec
INVARIANTS
    LeakOnlyAfterFailedRelease
    KeptWhileVmRuns
    SnapshotBeforeWrite
PROPERTIES
    Termination
CHECK_DEADLOCK FALSE
