SPECIFICATION FairSpec
CONSTANTS
    Contents <- MCContents
    Targets <- MCTargets
    IntBytes = 2
    LongBytes = 2
    SecToMs = 10
    Now = 300
INVARIANTS AnswersPlain GetImpliesKeys
PROPERTIES CommandsReturn
\* Both commands are answered.
CHECK_DEADLOCK FALSE
