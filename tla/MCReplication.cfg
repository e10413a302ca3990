SPECIFICATION FairSpec
CONSTANTS
    r1 = r1
    r2 = r2
    w1 = w1
    w2 = w2
    Closed = Closed
    Replicas = {r1, r2}
    Writers = {w1, w2}
    NumFds = 3
    Casts <- MCCasts
INVARIANTS TypeOK StreamFaithful
PROPERTIES HandshakeEnds PropagationEnds
\* Clients and replicas may stop, and the master may be killed.
CHECK_DEADLOCK FALSE
