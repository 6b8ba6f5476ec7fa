\* The key of the record is the current row of a list.
CONSTANTS
    ref = ref
    name = name
    v = v
    blank = blank
    Columns = {ref}
    Ref = ref
    RefName = name
    Values = {v, blank}
    Null = Null
    NoRow = NoRow
    Blank = blank
    Default <- NoDefaults
    MaxId = 2
    KeyIsColumn = FALSE
SPECIFICATION HistorySpec
PROPERTY NewIsInserted
