SPECIFICATION FairSpec
CONSTANTS
    Writers = {w1}
    Readers = {r1, r2}
    MaxNodes = 3
    MaxId = 1
INVARIANTS TypeOK FollowerSkipsNothing NoSleeperForgotten
PROPERTIES ImplementsLog TimedReadReturns SleeperAnswered
\* All readers may sleep with nobody left to write.
CHECK_DEADLOCK FALSE
