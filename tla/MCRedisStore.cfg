SPECIFICATION Spec
CONSTANTS
    k1 = k1
    k2 = k2
    Text = Text
    Keys <- MCKeys
    hash <- MCHash
    INITIAL_STORE_SIZE = 1
    MaxInt = 1
    Ttls = {1}
    Garbage = {0, 1}
    MsPerSec = 1000
    StartTime = 2000
    EndTime = 2001
    MaxStream = 1
INVARIANTS KeyFindable UsedIsCount StoreGetImpliesType
PROPERTIES ImplementsKeyMap StoreGetOnlyByWriteOrExpiry
CHECK_DEADLOCK FALSE
