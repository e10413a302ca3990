SPECIFICATION Spec
CONSTANTS
    Writers = {w1, w2}
    Readers = {}
    MaxNodes = 2
    MaxId = 1
INVARIANT AckedReadable
CHECK_DEADLOCK FALSE
