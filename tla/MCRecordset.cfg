\* Two rows, a page of two or of one, a filter, both orders; the list shows the
\* id, so that next() moves the current row.
CONSTANTS
    Values = {1, 2}
    Filters = {1}
    None = None
    Freed = Freed
    MaxId = 2
    Limit = 2
    Offsets = {0, 1}
    IdIsVisible = TRUE
SPECIFICATION MCSpec
INVARIANTS
    TypeOK
    CachesFollowParams
PROPERTIES
    NextSeesEachRowOnce
    ClickFindsTheShownRow
