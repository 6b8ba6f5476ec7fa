\* One column, which is a reference, its joined field, and two rows: one that
\* exists and one that the record may insert.
CONSTANTS
    ref = ref
    name = name
    v = v
    blank = blank
    Columns = {ref}
    Ref = ref
    RefName = name
    Values = {v, blank}
    Null = Null
    NoRow = NoRow
    Blank = blank
    Default <- RefDefault
    MaxId = 2
    KeyIsColumn = FALSE
SPECIFICATION HistorySpec
INVARIANTS
    TypeOK
    EditsOwnTheirBytes
    SaveKnowsTheRow
PROPERTIES
    StoredBeforeForgotten
    EditsReachTheirRow
    RefreshJoinsWhatIsShown
