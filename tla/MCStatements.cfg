\* Two records over a model of three tables; the aliases pass from one digit to
\* two, which changes their order.
CONSTANTS
    t1 = t1
    t2 = t2
    person = person
    Threads = {t1, t2}
    Names <- MCNames
    RefTable <- MCRefTable
    SegmentLists <- MCSegmentLists
    Ids <- MCIds
    Plain = Plain
    FirstAlias = 8
    MaxAlias = 11
    Absent = Absent
    Null = Null
SPECIFICATION Spec
SYMMETRY Permuted
INVARIANTS
    TypeOK
    NullIsBeingFilled
    JoinsDeclareAliases
    ParametersAreOwn
CHECK_DEADLOCK FALSE
