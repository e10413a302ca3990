SPECIFICATION FairSpec
CONSTANTS
    Clients = {c1}
    NumReplicas = 2
    Wanted = {2}
    CountMod = 8
    MaxWaits = 1
PROPERTY SignalMeansEnough
CHECK_DEADLOCK FALSE
