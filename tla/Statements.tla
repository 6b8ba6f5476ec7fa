----------------------------- MODULE Statements -----------------------------
(***************************************************************************)
(* The statements that SqlGenius generates from the fields and aliases     *)
(* that QueryModel has made, in each state in which no thread is at work.  *)
(***************************************************************************)
EXTENDS QueryModel, SqlGenius

CONSTANTS SegmentLists,  \* what a filter's value may consist of
          Ids            \* the ids of a page of rows

ASSUME StatementsAssumption ==
    /\ \A s \in SegmentLists : s \in Seq([op: STRING, parts: Seq(STRING)])
    /\ Ids \in Seq(STRING)

FilterSets(fields) ==
    {<<>>}
    \cup {<<[field |-> f, segments |-> s]>> : f \in fields, s \in SegmentLists}
    \cup {<<[field |-> p[1], segments |-> s], [field |-> p[2], segments |-> r]>> :
              p \in {q \in fields \X fields : q[1] # q[2]},
              s \in SegmentLists, r \in SegmentLists}

(* The fields that are made, for which a record has RFields: a record with  *)
(* fewer of them only generates some of its statements.                    *)
Made == {n \in Names : qfields[n] = "made"}
Complete == /\ ~crashed /\ \A t \in Threads : call[t] = Idle
            /\ \E t \in Threads : DOMAIN rfields[t] = Made

Lists(filters) ==
    [alias: {qtables}, val: {[f \in Made |-> <<"own", f>>]},
     modified: SUBSET (Made \cap Tables),
     filters: filters,
     sorts: {<<>>} \cup {<<f>> : f \in Made},
     page: {"page"}]

-----------------------------------------------------------------------------
Declared(stmt, columns) ==
    \A f \in columns : Front(f) = <<>> \/ Contains(stmt.joins, Front(f))

WellJoined(stmt) ==
    /\ Cardinality({qtables[p] : p \in ToSet(stmt.joins)}) = Len(stmt.joins)
    /\ \A i \in DOMAIN stmt.joins :
         \/ Len(stmt.joins[i]) = 1
         \/ \E j \in 1..(i - 1) : stmt.joins[j] = Front(stmt.joins[i])

(* SqlGenius.h:404: in whatever order threads made the tables and whatever *)
(* aliases these have, a statement joins each table once, under an alias   *)
(* of its own and after the table it hangs on, and declares the alias of   *)
(* every column it names; of the SELECT by ids only if the tables of the   *)
(* sorts are loaded too.                                                   *)
JoinsDeclareAliases ==
    Complete =>
        /\ \A rec \in Lists(FilterSets(Made)) :
             \A stmt \in {gen_select_count(rec), gen_select_ids(rec)} :
                 WellJoined(stmt) /\ Declared(stmt, stmt.columns)
        /\ \A rec \in Lists({<<>>}), fields \in SUBSET Made :
             LET one == gen_select_one(rec, fields, "id")
                 page == gen_select_by_ids(rec, fields, Ids)
             IN  /\ WellJoined(one) /\ Declared(one, one.columns)
                 /\ WellJoined(page) /\ Declared(page, fields)
                 /\ UsedTables(ToSet(rec.sorts)) \subseteq UsedTables(fields)
                      => Declared(page, page.columns)

OwnValues(rec, stmt, own) ==
    getOrderedParams(stmt) = JoinValues(rec, stmt.joins) \o own

(* SqlGenius.h:310: each place of the text gets the value that was meant   *)
(* for it: of the reference it is joined on, of the filter it stands in if *)
(* the list has no other, of the page, of the row.                         *)
ParametersAreOwn ==
    Complete =>
        /\ \A rec \in Lists({f \in FilterSets(Made) : Len(f) <= 1}) :
             /\ OwnValues(rec, gen_select_count(rec), WhereValues(rec))
             /\ OwnValues(rec, gen_select_ids(rec), Append(WhereValues(rec), rec.page))
        /\ \A rec \in Lists({<<>>}) :
             /\ OwnValues(rec, gen_select_one(rec, Made, "id"), <<"id">>)
             /\ OwnValues(rec, gen_select_by_ids(rec, Made, Ids), Ids)

(* SqlGenius.h:45: the parameters of a block belong to this block alone:   *)
(* each filter is compared with its own values, also beside others.        *)
EachFilterHasItsValues ==
    Complete =>
        \A rec \in Lists(FilterSets(Made)) :
            OwnValues(rec, gen_select_count(rec), WhereValues(rec))
=============================================================================
