CONSTANTS
    Plugins = {"veracrypt"}
    Keys <- MCKeys
    NoKey = "k0"
    Failures = {"vc_close"}
    RetryNum = 2
    None = None
SPECIFICATION Spec
INVARIANTS
    NoSilentLeak
CHECK_DEADLOCK FALSE
