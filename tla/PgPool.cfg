\* Three threads and at most two connections at a time, so that threads wait at
\* the hard limit; a new connection is another one than that just destroyed.
\* No symmetry, which is unsound for liveness.
CONSTANTS
    Threads = {t1, t2, t3}
    Conns = {c1, c2, c3}
    NoThread = NoThread
    NoConn = NoConn
    HardLimit = 2
    IdleTimeout = 1
SPECIFICATION FairSpec
INVARIANTS
    TypeOK
    LeaseConservation
    PoolBound
    EpochNeverCompared
    LongestIdleFirst
PROPERTIES
    LeaseSpec
    FreeConnectionIsTaken
