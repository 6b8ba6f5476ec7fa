\* A book that exists and one that may be inserted, and so for authors.  A book
\* has a reference and a title, so that two users may edit different columns.
CONSTANTS
    about = about
    of = of
    Columns = {ref, title}
    Ref = ref
    RefName = shown
    Values = {1, 2, blank}
    Edited = {title}
    Titles = {Null, blank}
    Null = Null
    NoRow = NoRow
    Blank = blank
    Default <- NoDefault
    MaxId = 2
    Authors = 2
    KeyIsColumn = FALSE
SPECIFICATION MCSpec
INVARIANT ShownReferenceIsSaved
PROPERTY UneditedColumnsSurvive
