CONSTANTS
    Plugins = {"luks", "bitlocker", "veracrypt"}
    Keys <- MCKeys
    NoKey = "k0"
    Failures <- MCFailures
    RetryNum = 2
    None = None
SPECIFICATION Spec
INVARIANTS
    TypeOK
    NoSilentLeak
    UnlockCorrect
    HeaderWriteCorrect
PROPERTIES
    Termination
CHECK_DEADLOCK FALSE
