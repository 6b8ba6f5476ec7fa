\* Two threads, two connections, two texts and a cache for one of them: every
\* second text evicts.  No symmetry, which is unsound for liveness.
CONSTANTS
    Threads = {t1, t2}
    Conns = {c1, c2}
    None = None
    HardLimit = 2
    Sqls = {s1, s2}
    Capacity = 1
    MaxStmts = 3
SPECIFICATION FairSpec
INVARIANTS
    TypeOK
    ServerMatchesCache
    ExecutesPreparedText
PROPERTIES
    CallEnds
