SPECIFICATION Spec
CONSTANTS
    k1 = k1
    k2 = k2
    Text = Text
    Keys <- MCKeys
    hash <- MCHash
    INITIAL_STORE_SIZE = 1
    MaxInt = 1
    Ttls = {1}
    Garbage = {0}
    MsPerSec = 1000
    StartTime = 2000
    EndTime = 2001
    MaxStream = 1
INVARIANT WrittenIsReadable
CHECK_DEADLOCK FALSE
