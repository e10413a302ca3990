SPECIFICATION FairSpec
CONSTANTS
    Clients = {c1, c2}
    Keys = {k1}
    FileKeys = {}
    SetValues = {Text}
    Text = Text
    None = None
    MaxInt = 1
    MaxQueued <- MCMaxQueued
    c1 = c1
    c2 = c2
INVARIANTS TypeOK ExecExactlyOnce
PROPERTIES IncrAddsOne EveryCommandAnswered
\* The server may crash, and clients may stop.
CHECK_DEADLOCK FALSE
