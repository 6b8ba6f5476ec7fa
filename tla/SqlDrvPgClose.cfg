\* Pruning a connection closes its statements after PQfinish.
CONSTANTS
    Threads = {t1, t2}
    Conns = {c1, c2}
    None = None
    HardLimit = 2
    Sqls = {s1, s2}
    Capacity = 1
    MaxStmts = 2
SPECIFICATION Spec
PROPERTY ClosesInOpenSession
