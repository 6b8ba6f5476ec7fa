------------------------------ MODULE Recordset ------------------------------
(***************************************************************************)
(* A list on a form: Recordset of src/libkycore/rec.cpp, with the three    *)
(* SELECTs that SqlGenius generates for it.                                *)
(*                                                                         *)
(* Load counts the rows, reads the ids of the page unless it has them, and *)
(* reads the rows of these ids.  The texts of the first two statements are *)
(* kept between loads; the values of their parameters are those that the   *)
(* SqlGenius of this load has seen while it generated a text.              *)
(*                                                                         *)
(* Nothing reads total_count, so that the count is only a statement that  *)
(* may throw.                                                              *)
(*                                                                         *)
(* The list is used by one thread.  Other users change the table between   *)
(* any two statements, and every statement may throw.                      *)
(***************************************************************************)
EXTENDS Integers, FiniteSets, SequencesExt

CONSTANTS Values,       \* what the column of a row may hold, numbers
          Filters,      \* the values that are filtered for
          None, Freed,  \* nothing; a view into freed memory
          MaxId,        \* bound on the ids
          Limit,        \* Pager::limit
          Offsets,      \* the pages that are asked for
          IdIsVisible   \* whether the list also shows the id

ASSUME RecordsetAssumption ==
    /\ Filters \subseteq Values /\ Values \subseteq Nat /\ None \notin Nat /\ Offsets \subseteq Nat
    /\ MaxId \in Nat \ {0} /\ Limit \in Nat \ {0}
    /\ IdIsVisible \in BOOLEAN

Ids == 1..MaxId
Opt(S) == S \cup {None}
Directions == {"none", "asc", "desc"}

VARIABLES db,                   \* the table: the value of each id, or None
          filter, sort, offset, \* filters, sorts, pager
          countSqlCache, idsSqlCache,
          pageCursorIds,
          res,                  \* the result, or None
          cursor,               \* cursor_idx_for_next
          view,                 \* the row that the fields show
          key, keyAt,           \* rkey.srcRField: its val, and whose memory it is
          namedParams,          \* local to a load
          pc                    \* the step of a load that comes next

params == <<filter, sort, offset>>
sqls == <<countSqlCache, idsSqlCache>>
loaded == <<res, cursor, view>>
rkey == <<key, keyAt>>
vars == <<db, params, sqls, pageCursorIds, loaded, rkey,
          namedParams, pc>>

Existing == {i \in Ids : db[i] # None}

Init ==
    /\ db \in [Ids -> Opt(Values)]
    /\ filter = None /\ sort = "none" /\ offset = 0
    /\ countSqlCache = None /\ idsSqlCache = None
    /\ pageCursorIds = None
    /\ res = None /\ cursor = -1 /\ view = None
    /\ key = None /\ keyAt = "field"
    /\ namedParams = {}
    /\ pc = "idle"

-----------------------------------------------------------------------------
(* A text is what it names: a filter or none, an order, and the page.      *)
CountText == [where |-> filter # None]
IdsText == [where |-> filter # None, order |-> sort]
FilterParams == IF filter # None THEN {"filter"} ELSE {}
PageParams == {"pg_limit", "pg_offset"}

(* getOrderedParams() throws unless each parameter of the text was seen.   *)
CountBound(text) == text.where => "filter" \in namedParams'
IdsBound(text) ==
    (text.where => "filter" \in namedParams') /\ PageParams \subseteq namedParams'

Matching(text) == {i \in Existing : text.where => db[i] = filter}

(* ORDER BY lets the row of i come before that of j. *)
MayPrecede(i, j, order) ==
    /\ order = "asc" => db[i] <= db[j]
    /\ order = "desc" => db[i] >= db[j]

(* The orders in which the server may return the rows of S. *)
Ordered(S, order) ==
    {s \in SetToSeqs(S) :
        \A m, n \in DOMAIN s : m < n => MayPrecede(s[m], s[n], order)}

Page(s) == SubSeq(s, offset + 1, IF offset + Limit < Len(s) THEN offset + Limit ELSE Len(s))

(* The result is destroyed: what viewed it views freed memory.             *)
FreeViews ==
    /\ view' = IF view = None THEN None ELSE Freed
    /\ keyAt' = IF keyAt = "result" THEN "freed" ELSE keyAt

-----------------------------------------------------------------------------
(* doLoad(), step by step. *)
Load ==
    /\ pc = "idle"
    /\ pc' = "count" /\ namedParams' = {}
    /\ UNCHANGED <<db, params, sqls, pageCursorIds, loaded, rkey>>

CountPrepared ==
    IF countSqlCache = None
    THEN countSqlCache' = CountText /\ namedParams' = FilterParams
    ELSE UNCHANGED <<countSqlCache, namedParams>>

Count ==
    /\ pc = "count"
    /\ CountPrepared
    /\ CountBound(countSqlCache')
    /\ pc' = "ids"
    /\ UNCHANGED <<db, params, idsSqlCache, pageCursorIds, loaded, rkey>>

CountThrows ==
    /\ pc = "count"
    /\ CountPrepared
    /\ pc' = "idle"
    /\ UNCHANGED <<db, params, idsSqlCache, pageCursorIds, loaded, rkey>>

IdsKept ==
    /\ pc = "ids" /\ pageCursorIds # None
    /\ pc' = "data"
    /\ UNCHANGED <<db, params, sqls, pageCursorIds, loaded, rkey, namedParams>>

IdsPrepared ==
    IF idsSqlCache = None
    THEN idsSqlCache' = IdsText /\ namedParams' = FilterParams \cup PageParams
    ELSE UNCHANGED <<idsSqlCache, namedParams>>

SelectIds ==
    /\ pc = "ids" /\ pageCursorIds = None
    /\ IdsPrepared
    /\ IdsBound(idsSqlCache')
    /\ \E s \in Ordered(Matching(idsSqlCache'), idsSqlCache'.order) :
         pageCursorIds' = Page(s)
    /\ pc' = "data"
    /\ UNCHANGED <<db, params, countSqlCache, loaded, rkey>>

(* The vector exists before the statement is sent. *)
IdsThrow ==
    /\ pc = "ids" /\ pageCursorIds = None
    /\ IdsPrepared
    /\ pageCursorIds' = << >>
    /\ pc' = "idle"
    /\ UNCHANGED <<db, params, countSqlCache, loaded, rkey>>

(* The rows of the page that still exist, in the order of the sorts. *)
Rows(s) == [n \in DOMAIN s |-> [id |-> s[n], value |-> db[s[n]]]]

\* Mutant: the cursor stays where it was in the old result.
SelectDataKeepsCursor ==
    /\ pc = "data"
    /\ FreeViews
    /\ IF pageCursorIds = << >> THEN res' = None
       ELSE \E s \in Ordered(Existing \cap ToSet(pageCursorIds), sort) : res' = Rows(s)
    /\ pc' = "idle"
    /\ UNCHANGED <<db, params, sqls, pageCursorIds, cursor, key, namedParams>>

SelectData ==
    /\ pc = "data"
    /\ FreeViews
    /\ IF pageCursorIds = << >> THEN res' = None
       ELSE \E s \in Ordered(Existing \cap ToSet(pageCursorIds), sort) : res' = Rows(s)
    /\ cursor' = -1
    /\ pc' = "idle"
    /\ UNCHANGED <<db, params, sqls, pageCursorIds, key, namedParams>>

(* The old result is gone when the new one does not come. *)
DataThrow ==
    /\ pc = "data" /\ pageCursorIds # << >>
    /\ FreeViews
    /\ res' = None
    /\ pc' = "idle"
    /\ UNCHANGED <<db, params, sqls, pageCursorIds, cursor, key, namedParams>>

-----------------------------------------------------------------------------
\* Mutant: the ids of the old page are kept.
ForgetTexts ==
    countSqlCache' = None /\ idsSqlCache' = None /\ UNCHANGED pageCursorIds

Forget == countSqlCache' = None /\ idsSqlCache' = None /\ pageCursorIds' = None

SetFilter(v) ==
    /\ pc = "idle"
    /\ filter' = v /\ offset' = 0
    /\ Forget
    /\ UNCHANGED <<db, sort, loaded, rkey, namedParams, pc>>

SetSort(dir) ==
    /\ pc = "idle"
    /\ sort' = dir /\ offset' = 0
    /\ Forget
    /\ UNCHANGED <<db, filter, loaded, rkey, namedParams, pc>>

(* A further sort decides nothing where there already is one. *)
AddSort(dir) ==
    /\ pc = "idle"
    /\ sort' = (IF sort = "none" THEN dir ELSE sort) /\ offset' = 0
    /\ Forget
    /\ UNCHANGED <<db, filter, loaded, rkey, namedParams, pc>>

\* Mutant: only the position changes.
SetPageOnly(n) ==
    /\ pc = "idle"
    /\ offset' = n
    /\ UNCHANGED <<db, filter, sort, sqls, pageCursorIds, loaded, rkey,
                   namedParams, pc>>

SetPage(n) ==
    /\ pc = "idle"
    /\ offset' = n
    /\ pageCursorIds' = None
    /\ UNCHANGED <<db, filter, sort, sqls, loaded, rkey, namedParams, pc>>

SetCurrentRow(row_page_idx) ==
    /\ pc = "idle"
    /\ key' = IF pageCursorIds # None /\ row_page_idx < Len(pageCursorIds)
              THEN pageCursorIds[row_page_idx + 1] ELSE None
    /\ keyAt' = "field"
    /\ UNCHANGED <<db, params, sqls, pageCursorIds, loaded, namedParams, pc>>

(* next(): past the last row the result is freed.  A visible id is the     *)
(* field that the key reads.                                               *)
NextRow ==
    /\ pc = "idle" /\ res # None
    /\ cursor' = cursor + 1
    /\ cursor' < Len(res)
    /\ view' = res[cursor' + 1]
    /\ IF IdIsVisible THEN key' = view'.id /\ keyAt' = "result" ELSE UNCHANGED rkey
    /\ UNCHANGED <<db, params, sqls, pageCursorIds, res, namedParams, pc>>

\* Mutant: ends one row early.
NextEndsEarly ==
    /\ pc = "idle" /\ res # None /\ cursor + 2 >= Len(res)
    /\ FreeViews
    /\ res' = None /\ cursor' = -1
    /\ UNCHANGED <<db, params, sqls, pageCursorIds, key, namedParams, pc>>

NextEnds ==
    /\ pc = "idle" /\ res # None /\ cursor + 1 >= Len(res)
    /\ FreeViews
    /\ res' = None /\ cursor' = -1
    /\ UNCHANGED <<db, params, sqls, pageCursorIds, key, namedParams, pc>>

(* Delete(): nothing selects rows, so it is the current row that goes; a   *)
(* load follows.                                                           *)
KeyReads == IF key = None THEN {} ELSE IF keyAt = "freed" THEN Ids \cup {0} ELSE {key}

Delete ==
    /\ pc = "idle"
    /\ \E d \in KeyReads : db' = [i \in Ids |-> IF i = d THEN None ELSE db[i]]
    /\ pc' = "count" /\ namedParams' = {}
    /\ UNCHANGED <<params, sqls, pageCursorIds, loaded, rkey>>

(* Another user inserts, changes or deletes a row. *)
OtherChange(i, v) ==
    /\ db' = [db EXCEPT ![i] = v]
    /\ UNCHANGED <<params, sqls, pageCursorIds, loaded, rkey, namedParams, pc>>

Throw == CountThrows \/ IdsThrow \/ DataThrow

Next ==
    \/ Load \/ Count \/ IdsKept \/ SelectIds \/ SelectData \/ Throw
    \/ NextRow \/ NextEnds \/ Delete
    \/ \E v \in Filters : SetFilter(v)
    \/ \E dir \in {"asc", "desc"} : SetSort(dir) \/ AddSort(dir)
    \/ \E n \in Offsets : SetPage(n)
    \/ \E n \in 0..Limit : SetCurrentRow(n)
    \/ \E i \in Ids, v \in Opt(Values) : OtherChange(i, v)

Spec == Init /\ [][Next]_vars

-----------------------------------------------------------------------------
Row == [id : Ids, value : Values]

(* Types; the page is within the limit and names no id twice, and the      *)
(* cursor is within the result.                                            *)
TypeOK ==
    /\ db \in [Ids -> Opt(Values)]
    /\ filter \in Opt(Filters) /\ sort \in Directions /\ offset \in Offsets \cup {0}
    /\ countSqlCache \in Opt([where : BOOLEAN])
    /\ idsSqlCache \in Opt([where : BOOLEAN, order : Directions])
    /\ pageCursorIds # None =>
         /\ pageCursorIds \in Seq(Ids) /\ Len(pageCursorIds) <= Limit
         /\ Cardinality(ToSet(pageCursorIds)) = Len(pageCursorIds)
    /\ res # None => res \in Seq(Row) /\ cursor < Len(res)
    /\ cursor \in -1..(Limit - 1)
    /\ view \in Row \cup {None, Freed}
    /\ key \in Opt(Ids) /\ keyAt \in {"field", "result", "freed"}
    /\ namedParams \subseteq {"filter"} \cup PageParams
    /\ pc \in {"idle", "count", "ids", "data"}
=============================================================================
