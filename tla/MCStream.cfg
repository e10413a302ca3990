SPECIFICATION FairSpec
CONSTANTS
    IdMax = 4
    Base = 2
    IdChars = 5
    MaxEntries = 3
INVARIANTS TypeOK IdsIncrease AutoIdAccepted RangeAgreesWithRead FollowerSeesPrefix
PROPERTIES FollowerCatchesUp
\* The server may crash.
CHECK_DEADLOCK FALSE
