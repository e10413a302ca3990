SPECIFICATION FairSpec
CONSTANTS
    Clients = {c1, c2}
    NumReplicas = 2
    Wanted = {0, 1, 2}
    CountMod = 8
    MaxWaits = 2
INVARIANTS TypeOK CountsOwnReplicas
PROPERTIES WaitReturns AcksHandled
\* All WAITs are answered in the end.
CHECK_DEADLOCK FALSE
