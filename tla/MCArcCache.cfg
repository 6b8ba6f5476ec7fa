\* Hard limit 3, three statements, two values for each: both orders fill, a
\* third use promotes, a fourth one hits the promoted entry, so that the counts
\* in the LFU set differ, and every second access adjusts the soft limit, below
\* which a statement has to go for a new one.
CONSTANTS
    Keys = {1, 2, 3}
    Values = {v1, v2}
    Null = Null
    HardLimit = 3
    LimitParts = 10
    Window = 1
    MaxUses = 4
SPECIFICATION HSpec
INVARIANTS
    TypeOK
    Consistent
    LruInOrderOfUse
PROPERTIES
    TrimEnds
    CacheSpec
