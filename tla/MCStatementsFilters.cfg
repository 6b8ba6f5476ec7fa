\* A list with two filters.
CONSTANTS
    t1 = t1
    t2 = t2
    person = person
    Threads = {t1, t2}
    Names <- MCNames
    RefTable <- MCRefTable
    SegmentLists <- MCSegmentLists
    Ids <- MCIds
    Plain = Plain
    FirstAlias = 8
    MaxAlias = 11
    Absent = Absent
    Null = Null
SPECIFICATION Spec
SYMMETRY Permuted
INVARIANT EachFilterHasItsValues
CHECK_DEADLOCK FALSE
