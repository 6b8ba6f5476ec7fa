---------------------------- MODULE MCRecordset ----------------------------
(***************************************************************************)
(* Instances of Recordset for TLC, with history variables: what the load   *)
(* that made the page did for the present filters, sorts and pager; the    *)
(* rows that next() has visited in the present result; and whether the     *)
(* table has not changed since the ids of the page were read.              *)
(***************************************************************************)
EXTENDS Recordset

VARIABLES idsWere,      \* "read", "unread" if their SELECT threw, or neither
                        \* for the present parameters: "stale"
          visited, undisturbed

history == <<idsWere, visited, undisturbed>>

MCInit == Init /\ idsWere = "stale" /\ visited = << >> /\ undisturbed = FALSE

(* How the history records a call. *)
Aged == idsWere' = IF params' = params THEN idsWere ELSE "stale"
Restarted == visited' = << >> /\ UNCHANGED idsWere
Other == UNCHANGED visited /\ Aged

MCNext ==
    \/ Delete /\ Other /\ undisturbed' = FALSE
    \/ SelectIds /\ idsWere' = "read" /\ undisturbed' = TRUE /\ UNCHANGED visited
    \/ IdsThrow /\ idsWere' = "unread" /\ undisturbed' = FALSE /\ UNCHANGED visited
    \/ /\ \/ (Load \/ Count \/ IdsKept \/ CountThrows) /\ Other
          \/ (SelectData \/ DataThrow \/ NextEnds) /\ Restarted
          \/ NextRow /\ visited' = Append(visited, view') /\ Aged
          \/ /\ \/ \E v \in Filters : SetFilter(v)
                \/ \E dir \in {"asc", "desc"} : SetSort(dir) \/ AddSort(dir)
                \/ \E n \in Offsets : SetPage(n)
                \/ \E n \in 0..Limit : SetCurrentRow(n)
             /\ Other
       /\ UNCHANGED undisturbed
    \/ /\ \E i \in Ids, v \in Opt(Values) : OtherChange(i, v) /\ db' # db
       /\ undisturbed' = FALSE /\ UNCHANGED <<idsWere, visited>>

MCSpec == MCInit /\ [][MCNext]_<<vars, history>>

-----------------------------------------------------------------------------
(* rec.cpp:362 and 391: whatever calls, exceptions and loads come between, *)
(* the texts that the list keeps are those of its present filters, sorts   *)
(* and pager, and the page that it keeps was read for them.  The exception *)
(* is the page that a load left when its SELECT of the ids threw           *)
(* (rec.cpp:269): nothing was read then, later loads keep it all the same, *)
(* and it names no row, of these or of earlier parameters.                 *)
CachesFollowParams ==
    /\ countSqlCache # None => countSqlCache = CountText
    /\ idsSqlCache # None => idsSqlCache = IdsText
    /\ pageCursorIds # None =>
         \/ idsWere = "read"
         \/ idsWere = "unread" /\ pageCursorIds = << >>

(* RecordsetCursor.md: also after a load that threw halfway through, and   *)
(* whatever was called in between, next() visits each row of the result    *)
(* once and in order, and returns false only after the last: that is what  *)
(* `while (next())` relies on.                                             *)
NextSeesEachRowOnce ==
    [][/\ NextRow => Append(visited, view') = SubSeq(res, 1, cursor' + 1)
       /\ NextEnds => visited = res]_vars

(* rec.cpp:413 and 285: the row that is chosen has the id of the row shown *)
(* there, if nobody changed the table since the ids of the page were read  *)
(* and the sort tells its rows apart: the ids and the rows are read by two *)
(* statements, each of which sorts.  The page is never that of an earlier  *)
(* filter or sort while the rows are not.                                  *)
ClickFindsTheShownRow ==
    [][\A n \in 0..Limit :
         /\ SetCurrentRow(n) /\ key' # None
         /\ res # None /\ n < Len(res)
         /\ undisturbed /\ sort # "none"
         /\ \A m \in ToSet(pageCursorIds) : db[m] = db[key'] => m = key'
         => key' = res[n + 1].id]_vars

(* rec.cpp:391 says of SetPage that the kept texts stay valid: a load that *)
(* uses one has the values of its parameters.                              *)
KeptTextsStayValid ==
    /\ pc = "count" /\ countSqlCache # None =>
         (countSqlCache.where => "filter" \in namedParams)
    /\ pc = "ids" /\ pageCursorIds = None /\ idsSqlCache # None =>
         PageParams \subseteq namedParams
=============================================================================
