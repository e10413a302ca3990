SPECIFICATION FairSpec
CONSTANTS
    c1 = c1
    c2 = c2
    c3 = c3
    c4 = c4
    c5 = c5
    NoConn = NoConn
    NumThreads = 2
    Conns <- MCConns
INVARIANTS TypeOK NoLostWakeup SleepsOnlyWhenFull OneOwner
PROPERTIES ImplementsTaskPool ServingNeverStops AcceptResumes ShutdownCompletes
\* The process may end: exit(0), or the handler stuck on its own mutex.
CHECK_DEADLOCK FALSE
