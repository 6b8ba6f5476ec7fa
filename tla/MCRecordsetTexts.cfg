\* The bounds of MCRecordset.cfg.
CONSTANTS
    Values = {1, 2}
    Filters = {1}
    None = None
    Freed = Freed
    MaxId = 2
    Limit = 2
    Offsets = {0, 1}
    IdIsVisible = TRUE
SPECIFICATION MCSpec
INVARIANTS KeptTextsStayValid
