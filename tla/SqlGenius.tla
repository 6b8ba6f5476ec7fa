----------------------------- MODULE SqlGenius -----------------------------
(***************************************************************************)
(* The SELECT statements of src/libkycore/SqlGenius.h as data: the tables  *)
(* they join, the columns they name, and the parameters bound to them.     *)
(*                                                                         *)
(* A record says which alias each table has, which fields are modified and *)
(* their values, and a list its filters, sorts and page:                   *)
(*   [alias, modified, val, filters, sorts, page]                          *)
(* A table is its path from the master table and a field its full name, as *)
(* in QueryModel.  A filter is a field and the segments of its value, each *)
(* with its operator and what follows it, split at colons.                 *)
(***************************************************************************)
EXTENDS Integers, Sequences, FiniteSets, SequencesExt

-----------------------------------------------------------------------------
(* FilterParser: the names of a filter's parameters are numbered from f_0, *)
(* one for each segment and two for a range; empty segments are skipped.   *)
Values(segment) ==
    IF segment.op # "" THEN <<segment.parts>>
    ELSE IF segment.parts = <<>> THEN <<>>
    ELSE IF Len(segment.parts) = 1 THEN << Append(segment.parts, "%") >>
    ELSE << <<segment.parts[1]>>, Tail(segment.parts) >>

FilterValues(filter) ==
    FlattenSeq([i \in DOMAIN filter.segments |-> Values(filter.segments[i])])

\* Mutant: both ends of a range have one name.
ParamNameOfSegment(filter, i) == <<"f", i \div 2>>

ParamName(filter, i) == <<"f", i - 1>>

FilterNames(filter) == [i \in DOMAIN FilterValues(filter) |-> ParamName(filter, i)]

(* What each parameter name of a sequence is bound to: std::map::insert()  *)
(* keeps the value of a name that is there.                                *)
Bind(names, values) ==
    [x \in {names[i] : i \in DOMAIN names} |->
        values[CHOOSE i \in DOMAIN names :
                  names[i] = x /\ \A j \in 1..(i - 1) : names[j] # x]]

-----------------------------------------------------------------------------
(* build_clauses_from_fields(), add_tables_from_filters() and              *)
(* add_tables_from_sorts(): a field's table and all those it hangs on.     *)
UsedTables(fields) ==
    UNION {{SubSeq(f, 1, k) : k \in 1..(Len(f) - 1)} : f \in fields}

(* The order of used_tables, by alias: t10 comes before t9. *)
Digits(n) ==
    LET digits[k \in 0..n] ==
            IF k < 10 THEN <<k>> ELSE Append(digits[k \div 10], k % 10)
    IN  digits[n]

Precedes(a, b) ==
    \E k \in DOMAIN b :
        /\ \A j \in 1..(k - 1) : j <= Len(a) /\ a[j] = b[j]
        /\ k > Len(a) \/ a[k] < b[k]

FirstByAlias(rec, tables) ==
    CHOOSE p \in tables :
        \A q \in tables : ~Precedes(Digits(rec.alias[q]), Digits(rec.alias[p]))

\* Mutant: a table is joined without regard to the one it hangs on.
BuildJoinsAlone(p, tables, done) == Append(done, p)

(* build_joins(): the tables that p hangs on and p, but for those joined.  *)
BuildJoins(p, tables, done) ==
    LET joined[k \in 0..Len(p)] ==
            IF k = 0 THEN done
            ELSE LET before == joined[k - 1]
                     table == SubSeq(p, 1, k)
                 IN  IF table \in tables \ ToSet(before)
                     THEN Append(before, table) ELSE before
    IN  joined[Len(p)]

(* sql_clause_from(): the first table that is left and those it hangs on,  *)
(* until none is left.                                                     *)
Joins(rec, tables) ==
    LET joined[n \in 0..Cardinality(tables)] ==
            IF n = 0 THEN <<>>
            ELSE LET done == joined[n - 1]
                     left == tables \ ToSet(done)
                 IN  IF left = {} THEN done
                     ELSE BuildJoins(FirstByAlias(rec, left), tables, done)
    IN  joined[Cardinality(tables)]

(* A join on a reference that the user modified is on the user's value. *)
SmartJoins(rec, joins) ==
    LET smart[k \in 0..Len(joins)] ==
            IF k = 0 THEN <<>>
            ELSE IF joins[k] \in rec.modified THEN Append(smart[k - 1], joins[k])
            ELSE smart[k - 1]
    IN  smart[Len(joins)]
JoinNames(rec, joins) ==
    [i \in DOMAIN SmartJoins(rec, joins) |-> <<"smart_join", rec.alias[SmartJoins(rec, joins)[i]]>>]
JoinValues(rec, joins) ==
    [i \in DOMAIN SmartJoins(rec, joins) |-> rec.val[SmartJoins(rec, joins)[i]]]

-----------------------------------------------------------------------------
FilterFields(rec) == [i \in DOMAIN rec.filters |-> rec.filters[i].field]

(* A statement: its joined tables, the columns named in it, the names of   *)
(* its parameters in the order of the text, and the value of each.         *)
Statement(rec, tables, columns, names, values) ==
    LET joins == Joins(rec, tables)
        allNames == JoinNames(rec, joins) \o names
    IN  [joins |-> joins, columns |-> columns, names |-> allNames,
         params |-> Bind(allNames, JoinValues(rec, joins) \o values)]

WhereNames(rec) == FlattenSeq([i \in DOMAIN rec.filters |-> FilterNames(rec.filters[i])])
WhereValues(rec) == FlattenSeq([i \in DOMAIN rec.filters |-> FilterValues(rec.filters[i])])

gen_select_one(rec, fields, id) ==
    Statement(rec, UsedTables(fields), fields, << <<"id">> >>, <<id>>)

gen_select_count(rec) ==
    LET where == ToSet(FilterFields(rec)) IN
    Statement(rec, UsedTables(where), where, WhereNames(rec), WhereValues(rec))

\* Mutant: the tables of the sorts are not added.
gen_select_ids_unsorted(rec) ==
    LET where == ToSet(FilterFields(rec)) IN
    Statement(rec, UsedTables(where), where \cup ToSet(rec.sorts),
              Append(WhereNames(rec), <<"pg">>), Append(WhereValues(rec), rec.page))

gen_select_ids(rec) ==
    LET columns == ToSet(FilterFields(rec) \o rec.sorts) IN
    Statement(rec, UsedTables(columns), columns,
              Append(WhereNames(rec), <<"pg">>), Append(WhereValues(rec), rec.page))

gen_select_by_ids(rec, fields, ids) ==
    Statement(rec, UsedTables(fields), fields \cup ToSet(rec.sorts),
              [i \in DOMAIN ids |-> <<"id", i - 1>>], ids)

(* The parameters that are sent with the text. *)
getOrderedParams(stmt) == [i \in DOMAIN stmt.names |-> stmt.params[stmt.names[i]]]
=============================================================================
