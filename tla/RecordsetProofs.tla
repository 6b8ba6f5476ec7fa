--------------------------- MODULE RecordsetProofs ---------------------------
(***************************************************************************)
(* For any table, page size and set of filters, whatever other users and   *)
(* exceptions do between the statements of a load: the list keeps its      *)
(* types, its kept texts and page are those of its present filter, order   *)
(* and page, next() visits each row of a result once and in order, and the *)
(* row that is chosen is the row that is shown.                            *)
(***************************************************************************)
EXTENDS MCRecordset, SeqLemmas

(* The table is finite. *)
LEMMA IdsFinite == IsFiniteSet(Ids) /\ \A S \in SUBSET Ids : IsFiniteSet(S)
<1>1. 1 \in Int /\ MaxId \in Int
  BY RecordsetAssumption
<1>2. IsFiniteSet(Ids)
  BY <1>1, FS_Interval DEF Ids
<1> QED
  BY <1>2, FS_Subset

(* The rows of S, as the server may order them. *)
LEMMA OrderedElements ==
    ASSUME NEW S \in SUBSET Ids, NEW order, NEW s \in Ordered(S, order)
    PROVE  /\ s \in Seq(S) /\ Len(s) = Cardinality(S) /\ DOMAIN s = 1..Len(s)
           /\ IsInjective(s) /\ ToSet(s) = S
           /\ \A m, n \in 1..Len(s) : m < n => MayPrecede(s[m], s[n], order)
<1>1. IsFiniteSet(S)
  BY IdsFinite
<1>2. s \in SetToSeqs(S)
  BY DEF Ordered
<1>3. s \in Seq(S) /\ Len(s) = Cardinality(S) /\ IsInjective(s) /\ ToSet(s) = S
  BY <1>1, <1>2, SetToSeqsElements
<1>4. DOMAIN s = 1..Len(s)
  BY <1>3, LenProperties
<1> QED
  BY <1>3, <1>4 DEF Ordered

(* A page is a part of the ordered ids that the pager's limit bounds. *)
PageLike(s) ==
    /\ s \in Seq(Ids) /\ Len(s) <= Limit
    /\ IsInjective(s)

LEMMA PageElements ==
    ASSUME NEW s \in Seq(Ids), IsInjective(s), offset \in Nat
    PROVE  /\ PageLike(Page(s))
           /\ \A m \in 1..Len(Page(s)) :
                offset + m \in 1..Len(s) /\ Page(s)[m] = s[offset + m]
<1> DEFINE last == IF offset + Limit < Len(s) THEN offset + Limit ELSE Len(s)
           p == SubSeq(s, offset + 1, last)
<1>1. Len(s) \in Nat /\ DOMAIN s = 1..Len(s) /\ \A i \in 1..Len(s) : s[i] \in Ids
  BY LenProperties
<1>2. Limit \in Nat
  BY RecordsetAssumption
<1>3. last \in Int /\ last <= Len(s) /\ last <= offset + Limit
  BY <1>1, <1>2
<1> HIDE DEF last
<1>4. \A i \in offset + 1 .. last : s[i] \in Ids
  BY <1>1, <1>3
<1>5. /\ p \in Seq(Ids)
      /\ Len(p) = IF offset + 1 <= last THEN last - offset ELSE 0
      /\ \A i \in 1 .. last - offset : p[i] = s[offset + i]
  BY <1>3, <1>4, SubSeqProperties
<1>6. Page(s) = p
  BY DEF Page, last
<1> HIDE DEF p
<1>7. Len(p) <= Limit
  BY <1>2, <1>3, <1>5
<1>8. \A m \in 1..Len(p) : offset + m \in 1..Len(s) /\ p[m] = s[offset + m]
  BY <1>1, <1>3, <1>5
<1>9. IsInjective(p)
  <2>1. DOMAIN p = 1..Len(p)
    BY <1>5, LenProperties
  <2>2. ASSUME NEW a \in 1..Len(p), NEW b \in 1..Len(p), p[a] = p[b] PROVE a = b
    <3>1. offset + a = offset + b
      BY <1>1, <1>8, <2>2 DEF IsInjective
    <3>2. a \in Int /\ b \in Int
      OBVIOUS
    <3> QED
      BY <3>1, <3>2
  <2> QED
    BY <2>1, <2>2 DEF IsInjective
<1> QED
  BY <1>5, <1>6, <1>7, <1>8, <1>9 DEF PageLike

-----------------------------------------------------------------------------
(* TypeOK is kept only because a load that reaches the rows has a page,    *)
(* and because a result is never longer than the page it was read from,    *)
(* which the list may have forgotten since.                                *)
RowsWithinPage ==
    /\ pc = "data" => PageLike(pageCursorIds)
    /\ res # None => Len(res) <= Limit

TypeInv == TypeOK /\ RowsWithinPage

LEMMA PageLikeType ==
    ASSUME NEW s, s # None => PageLike(s)
    PROVE  s # None => /\ s \in Seq(Ids) /\ Len(s) <= Limit
                       /\ Cardinality(ToSet(s)) = Len(s)
  BY DistinctCardinality DEF PageLike

(* TypeOK counts the ids of a page; this names them apart. *)
LEMMA PageTypeLike ==
    ASSUME TypeOK, pageCursorIds # None PROVE PageLike(pageCursorIds)
<1> DEFINE s == pageCursorIds
<1>1. s \in Seq(Ids) /\ Len(s) <= Limit /\ Cardinality(ToSet(s)) = Len(s)
  BY DEF TypeOK
<1>2. Len(s) \in Nat /\ DOMAIN s = 1..Len(s) /\ s \in [1..Len(s) -> Ids]
  BY <1>1, LenProperties
<1> HIDE DEF s
<1>3. s \in Surjection(1..Len(s), ToSet(s))
  BY <1>2 DEF Surjection, ToSet
<1>4. IsFiniteSet(1..Len(s)) /\ Cardinality(1..Len(s)) = Len(s)
  BY <1>2, FS_Interval
<1>5. s \in Injection(1..Len(s), ToSet(s))
  BY <1>1, <1>3, <1>4, FS_Surjection
<1>6. IsInjective(s)
  BY <1>2, <1>5 DEF Injection, IsInjective
<1> QED
  BY <1>1, <1>6 DEF PageLike, s

(* The rows that are read: no more than the page has ids. *)
LEMMA RowsType ==
    ASSUME TypeOK, PageLike(pageCursorIds),
           NEW s \in Ordered(Existing \cap ToSet(pageCursorIds), sort)
    PROVE  Rows(s) \in Seq(Row) /\ Len(Rows(s)) = Len(s) /\ Len(s) <= Limit /\ Len(s) \in Nat
<1> DEFINE P == ToSet(pageCursorIds)  S == Existing \cap P
<1>1. S \in SUBSET Ids
  BY DEF Existing
<1>2. s \in Seq(S) /\ Len(s) = Cardinality(S) /\ DOMAIN s = 1..Len(s)
  BY <1>1, OrderedElements
<1>3. Cardinality(P) <= Limit /\ IsFiniteSet(P)
  <2>1. Cardinality(P) = Len(pageCursorIds)
    BY DistinctCardinality DEF PageLike
  <2>2. IsFiniteSet(P)
    <3>1. P \subseteq Ids
      BY DEF PageLike, ToSet
    <3> QED
      BY <3>1, IdsFinite
  <2> QED
    BY <2>1, <2>2 DEF PageLike
<1>4. Cardinality(S) <= Limit /\ Len(s) \in Nat
  <2>1. Cardinality(S) <= Cardinality(P) /\ Cardinality(S) \in Nat /\ Cardinality(P) \in Nat
    BY <1>3, FS_Subset, FS_CardinalityType
  <2> QED
    BY <1>2, <1>3, <2>1, RecordsetAssumption
<1>5. \A n \in 1..Len(s) : [id |-> s[n], value |-> db[s[n]]] \in Row
  <2> TAKE n \in 1..Len(s)
  <2>1. s[n] \in Existing
    BY <1>2
  <2> QED
    BY <2>1 DEF Existing, Row, TypeOK, Opt
<1>6. Rows(s) = [n \in 1..Len(s) |-> [id |-> s[n], value |-> db[s[n]]]]
  BY <1>2 DEF Rows
<1>7. Rows(s) \in [1..Len(s) -> Row]
  BY <1>5, <1>6
<1>8. Rows(s) \in Seq(Row) /\ Len(Rows(s)) = Len(s)
  BY <1>4, <1>7
<1> QED
  BY <1>2, <1>4, <1>8

(* TypeOK without what a step of a load may give the page and the result.  *)
RestOK ==
    /\ db \in [Ids -> Opt(Values)]
    /\ filter \in Opt(Filters) /\ sort \in Directions /\ offset \in Offsets \cup {0}
    /\ countSqlCache \in Opt([where : BOOLEAN])
    /\ idsSqlCache \in Opt([where : BOOLEAN, order : Directions])
    /\ cursor \in -1..(Limit - 1)
    /\ view \in Row \cup {None, Freed}
    /\ key \in Opt(Ids) /\ keyAt \in {"field", "result", "freed"}
    /\ namedParams \subseteq {"filter"} \cup PageParams
    /\ pc \in {"idle", "count", "ids", "data"}

PageOK ==
    pageCursorIds # None =>
        /\ pageCursorIds \in Seq(Ids) /\ Len(pageCursorIds) <= Limit
        /\ Cardinality(ToSet(pageCursorIds)) = Len(pageCursorIds)

ResultOK == res # None => res \in Seq(Row) /\ cursor < Len(res)

LEMMA TypeParts == TypeOK <=> RestOK /\ PageOK /\ ResultOK
  BY DEF TypeOK, RestOK, PageOK, ResultOK

LEMMA InitType == Init => TypeInv
<1> SUFFICES ASSUME Init PROVE TypeInv
  OBVIOUS
<1>1. RestOK
  BY RecordsetAssumption DEF Init, RestOK, Opt, Directions
<1>2. PageOK /\ ResultOK /\ RowsWithinPage
  BY DEF Init, PageOK, ResultOK, RowsWithinPage
<1> QED
  BY <1>1, <1>2, TypeParts DEF TypeInv

(* The texts and parameters of a load. *)
LEMMA TextTypes ==
    ASSUME TypeOK
    PROVE  /\ CountText \in [where : BOOLEAN]
           /\ IdsText \in [where : BOOLEAN, order : Directions]
           /\ FilterParams \subseteq {"filter"}
  BY DEF CountText, IdsText, FilterParams, TypeOK

LEMMA PreparedTypes ==
    ASSUME TypeOK
    PROVE  /\ CountPrepared => /\ countSqlCache' \in Opt([where : BOOLEAN])
                               /\ namedParams' \subseteq {"filter"} \cup PageParams
           /\ IdsPrepared => /\ idsSqlCache' \in Opt([where : BOOLEAN, order : Directions])
                             /\ namedParams' \subseteq {"filter"} \cup PageParams
  BY TextTypes DEF CountPrepared, IdsPrepared, TypeOK, Opt

LEMMA FreedTypes ==
    ASSUME TypeOK, FreeViews
    PROVE  view' \in Row \cup {None, Freed} /\ keyAt' \in {"field", "result", "freed"}
  BY DEF FreeViews, TypeOK

(* A step that leaves the page and the result as they are. *)
LEMMA KeepRows ==
    ASSUME TypeInv, UNCHANGED <<pageCursorIds, res, cursor>>, RestOK',
           pc' = "data" => pc = "data" \/ pageCursorIds # None
    PROVE  TypeInv'
<1>1. PageOK' /\ ResultOK'
  BY DEF TypeInv, TypeOK, PageOK, ResultOK
<1>2. PageLike(pageCursorIds) => PageLike(pageCursorIds)'
  BY DEF PageLike
<1>3. pc' = "data" => PageLike(pageCursorIds)
  BY PageTypeLike DEF TypeInv, RowsWithinPage
<1>4. RowsWithinPage'
  BY <1>2, <1>3 DEF TypeInv, RowsWithinPage
<1> QED
  BY <1>1, <1>4 DEF TypeInv, TypeOK, RestOK, PageOK, ResultOK

(* A call that forgets the page. *)
LEMMA ForgetRows ==
    ASSUME TypeInv, UNCHANGED <<res, cursor>>, RestOK', pageCursorIds' = None, pc' = "idle"
    PROVE  TypeInv'
<1>1. PageOK' /\ ResultOK' /\ RowsWithinPage'
  BY DEF TypeInv, TypeOK, RowsWithinPage, PageOK, ResultOK
<1> QED
  BY <1>1 DEF TypeInv, TypeOK, RestOK, PageOK, ResultOK

LEMMA SelectIdsType == ASSUME TypeInv, SelectIds PROVE TypeInv'
<1> DEFINE text == idsSqlCache'
<1>1. PICK s \in Ordered(Matching(text), text.order) : pageCursorIds' = Page(s)
  BY DEF SelectIds
<1>2. Matching(text) \in SUBSET Ids
  BY DEF Matching, Existing
<1>3. s \in Seq(Ids) /\ IsInjective(s)
  <2> HIDE DEF text
  <2>1. s \in Seq(Matching(text)) /\ IsInjective(s)
    BY <1>2, OrderedElements
  <2> QED
    BY <1>2, <2>1
<1>4. PageLike(Page(s))
  BY <1>3, PageElements, RecordsetAssumption DEF TypeInv, TypeOK
<1>5. PageLike(pageCursorIds)'
  BY <1>1, <1>4 DEF PageLike
<1>6. PageOK'
  BY <1>1, <1>4, PageLikeType DEF PageOK
<1>7. RestOK'
  BY PreparedTypes DEF SelectIds, TypeInv, TypeOK, RestOK, params, loaded, rkey
<1>8. ResultOK' /\ RowsWithinPage'
  BY <1>5 DEF SelectIds, TypeInv, TypeOK, ResultOK, RowsWithinPage, loaded
<1> QED
  BY <1>6, <1>7, <1>8, TypeParts DEF TypeInv, TypeOK, RestOK, PageOK, ResultOK

LEMMA IdsThrowType == ASSUME TypeInv, IdsThrow PROVE TypeInv'
<1>1. PageLike(<< >>)
  BY RecordsetAssumption DEF PageLike, IsInjective
<1>2. PageOK'
  BY <1>1, PageLikeType DEF PageOK, IdsThrow
<1>3. RestOK'
  BY PreparedTypes DEF IdsThrow, TypeInv, TypeOK, RestOK, params, loaded, rkey
<1>4. ResultOK' /\ RowsWithinPage'
  BY DEF IdsThrow, TypeInv, TypeOK, ResultOK, RowsWithinPage, loaded
<1> QED
  BY <1>2, <1>3, <1>4 DEF TypeInv, TypeOK, RestOK, PageOK, ResultOK

LEMMA SelectDataType == ASSUME TypeInv, SelectData PROVE TypeInv'
<1>1. PageOK'
  BY DEF SelectData, TypeInv, TypeOK, PageOK
<1>2. RestOK'
  BY FreedTypes, RecordsetAssumption
     DEF SelectData, TypeInv, TypeOK, RestOK, params, sqls
<1>3. ResultOK' /\ RowsWithinPage'
  <2>1. CASE res' = None
    BY <2>1 DEF SelectData, ResultOK, RowsWithinPage
  <2>2. CASE res' # None
    <3>1. PICK s \in Ordered(Existing \cap ToSet(pageCursorIds), sort) : res' = Rows(s)
      BY <2>2 DEF SelectData
    <3>2. TypeOK /\ PageLike(pageCursorIds)
      BY DEF TypeInv, RowsWithinPage, SelectData
    <3>3. res' \in Seq(Row) /\ Len(res') \in Nat /\ Len(res') <= Limit
      BY <3>1, <3>2, RowsType
    <3>4. cursor' = -1 /\ pc' = "idle"
      BY DEF SelectData
    <3>5. cursor' < Len(res')
      BY <3>3, <3>4
    <3> QED
      BY <3>3, <3>4, <3>5 DEF ResultOK, RowsWithinPage
  <2> QED
    BY <2>1, <2>2
<1> QED
  BY <1>1, <1>2, <1>3 DEF TypeInv, TypeOK, RestOK, PageOK, ResultOK

(* The result is gone: by an exception, or after the last row. *)
LEMMA ResultGoneType == ASSUME TypeInv, DataThrow \/ NextEnds PROVE TypeInv'
<1>1. RestOK'
  <2>1. view' \in Row \cup {None, Freed} /\ keyAt' \in {"field", "result", "freed"}
    BY FreedTypes DEF DataThrow, NextEnds, TypeInv
  <2>2. cursor' \in -1..(Limit - 1)
    BY RecordsetAssumption DEF DataThrow, NextEnds, TypeInv, TypeOK
  <2>3. CASE DataThrow
    BY <2>1, <2>2, <2>3 DEF DataThrow, TypeInv, TypeOK, RestOK, params, sqls
  <2>4. CASE NextEnds
    BY <2>1, <2>2, <2>4 DEF NextEnds, TypeInv, TypeOK, RestOK, params, sqls
  <2> QED
    BY <2>3, <2>4
<1>2. PageOK' /\ ResultOK' /\ RowsWithinPage'
  BY DEF DataThrow, NextEnds, TypeInv, TypeOK, PageOK, ResultOK, RowsWithinPage
<1> QED
  BY <1>1, <1>2 DEF TypeInv, TypeOK, RestOK, PageOK, ResultOK

LEMMA NextRowType == ASSUME TypeInv, NextRow PROVE TypeInv'
<1>1. /\ res \in Seq(Row) /\ Len(res) \in Nat /\ Len(res) <= Limit
      /\ cursor' = cursor + 1 /\ cursor' < Len(res) /\ cursor \in -1..(Limit - 1)
      /\ Limit \in Nat
  BY RecordsetAssumption DEF NextRow, TypeInv, TypeOK, RowsWithinPage
<1>2. cursor' \in -1..(Limit - 1) /\ cursor' + 1 \in 1..Len(res)
  BY <1>1
<1>3. res[cursor' + 1] \in Row
  BY <1>1, <1>2
<1>4. view' \in Row /\ key' \in Opt(Ids) /\ keyAt' \in {"field", "result", "freed"}
  BY <1>3 DEF NextRow, TypeInv, TypeOK, Row, Opt, rkey
<1>5. RestOK'
  BY <1>2, <1>4 DEF NextRow, TypeInv, TypeOK, RestOK, params, sqls
<1>6. PageOK' /\ ResultOK' /\ RowsWithinPage'
  BY <1>1 DEF NextRow, TypeInv, TypeOK, PageOK, ResultOK, RowsWithinPage
<1> QED
  BY <1>5, <1>6 DEF TypeInv, TypeOK, RestOK, PageOK, ResultOK

LEMMA SetCurrentRowType ==
    ASSUME TypeInv, NEW n \in 0..Limit, SetCurrentRow(n) PROVE TypeInv'
<1>1. key' \in Opt(Ids)
  <2>1. CASE pageCursorIds # None /\ n < Len(pageCursorIds)
    <3>1. pageCursorIds \in Seq(Ids) /\ n + 1 \in 1..Len(pageCursorIds)
      BY <2>1, RecordsetAssumption DEF TypeInv, TypeOK
    <3>2. pageCursorIds[n + 1] \in Ids
      BY <3>1
    <3> QED
      BY <2>1, <3>2 DEF SetCurrentRow, Opt
  <2>2. CASE ~(pageCursorIds # None /\ n < Len(pageCursorIds))
    BY <2>2 DEF SetCurrentRow, Opt
  <2> QED
    BY <2>1, <2>2
<1>2. RestOK'
  BY <1>1 DEF SetCurrentRow, TypeInv, TypeOK, RestOK, params, sqls, loaded
<1> QED
  BY <1>2, KeepRows DEF SetCurrentRow, loaded

LEMMA TypeStep == TypeInv /\ [Next]_vars => TypeInv'
<1> SUFFICES ASSUME TypeInv, [Next]_vars PROVE TypeInv'
  OBVIOUS
<1>1. CASE Load
  <2>1. RestOK'
    BY <1>1 DEF Load, TypeInv, TypeOK, RestOK, params, sqls, loaded, rkey
  <2> QED
    BY <1>1, <2>1, KeepRows DEF Load, loaded
<1>2. CASE Count \/ CountThrows
  <2>1. RestOK'
    BY <1>2, PreparedTypes
       DEF Count, CountThrows, TypeInv, TypeOK, RestOK, params, loaded, rkey
  <2> QED
    BY <1>2, <2>1, KeepRows DEF Count, CountThrows, loaded
<1>3. CASE IdsKept
  <2>1. RestOK'
    BY <1>3 DEF IdsKept, TypeInv, TypeOK, RestOK, params, sqls, loaded, rkey
  <2> QED
    BY <1>3, <2>1, KeepRows DEF IdsKept, loaded
<1>4. CASE Delete
  <2>1. db' \in [Ids -> Opt(Values)]
    BY <1>4 DEF Delete, TypeInv, TypeOK, Opt
  <2>2. RestOK'
    BY <1>4, <2>1 DEF Delete, TypeInv, TypeOK, RestOK, params, sqls, loaded, rkey
  <2> QED
    BY <1>4, <2>2, KeepRows DEF Delete, loaded
<1>5. ASSUME NEW v \in Filters, SetFilter(v) PROVE TypeInv'
  <2>1. RestOK'
    BY <1>5 DEF SetFilter, Forget, TypeInv, TypeOK, RestOK, Opt, loaded, rkey
  <2> QED
    BY <1>5, <2>1, ForgetRows DEF SetFilter, Forget, loaded
<1>6. ASSUME NEW dir \in {"asc", "desc"}, SetSort(dir) \/ AddSort(dir) PROVE TypeInv'
  <2>1. RestOK'
    BY <1>6 DEF SetSort, AddSort, Forget, TypeInv, TypeOK, RestOK, Opt, Directions,
                loaded, rkey
  <2> QED
    BY <1>6, <2>1, ForgetRows DEF SetSort, AddSort, Forget, loaded
<1>7. ASSUME NEW n \in Offsets, SetPage(n) PROVE TypeInv'
  <2>1. RestOK'
    BY <1>7 DEF SetPage, TypeInv, TypeOK, RestOK, sqls, loaded, rkey
  <2> QED
    BY <1>7, <2>1, ForgetRows DEF SetPage, loaded
<1>8. ASSUME NEW i \in Ids, NEW v \in Opt(Values), OtherChange(i, v) PROVE TypeInv'
  <2>1. RestOK'
    BY <1>8 DEF OtherChange, TypeInv, TypeOK, RestOK, params, sqls, loaded, rkey
  <2> QED
    BY <1>8, <2>1, KeepRows DEF OtherChange, loaded
<1>9. CASE UNCHANGED vars
  <2>1. RestOK'
    BY <1>9 DEF vars, TypeInv, TypeOK, RestOK, params, sqls, loaded, rkey
  <2> QED
    BY <1>9, <2>1, KeepRows DEF vars, loaded
<1> QED
  BY <1>1, <1>2, <1>3, <1>4, <1>5, <1>6, <1>7, <1>8, <1>9,
     SelectIdsType, IdsThrowType, SelectDataType, ResultGoneType, NextRowType, SetCurrentRowType
     DEF Next, Throw

(* Types; the cursor is within the result, which is within the page size,  *)
(* also when a load ends halfway or the page was forgotten; the page names *)
(* no id twice.                                                            *)
THEOREM RecordsetTypeCorrect == Spec => []TypeOK
<1>1. TypeInv => TypeOK
  BY DEF TypeInv
<1> QED
  BY <1>1, InitType, TypeStep, PTL DEF Spec

-----------------------------------------------------------------------------
(* The history only watches the list. *)
LEMMA HistoryStep == [MCNext]_<<vars, history>> => [Next]_vars
<1>1. MCNext => Next
  BY DEF MCNext, Next, Throw
<1> QED
  BY <1>1

LEMMA HistoryTypeInv == MCSpec => []TypeInv
<1>1. MCInit => TypeInv
  BY InitType DEF MCInit
<1>2. TypeInv /\ [MCNext]_<<vars, history>> => TypeInv'
  BY HistoryStep, TypeStep
<1> QED
  BY <1>1, <1>2, PTL DEF MCSpec

(* CachesFollowParams is inductive: what changes a parameter forgets the   *)
(* page, and what changes a text's parameter forgets the texts.            *)
LEMMA CachesFrame ==
    ASSUME CachesFollowParams, UNCHANGED <<params, sqls, pageCursorIds, idsWere>>
    PROVE  CachesFollowParams'
<1>1. CountText' = CountText /\ IdsText' = IdsText
  BY DEF CountText, IdsText, params
<1> QED
  BY <1>1 DEF CachesFollowParams, sqls

LEMMA CachesStep ==
    CachesFollowParams /\ [MCNext]_<<vars, history>> => CachesFollowParams'
<1> SUFFICES ASSUME CachesFollowParams, [MCNext]_<<vars, history>>
             PROVE  CachesFollowParams'
  OBVIOUS
<1>1. CASE /\ Delete \/ Load \/ IdsKept \/ NextRow \/ \E n \in 0..Limit : SetCurrentRow(n)
           /\ Aged
  <2>1. UNCHANGED <<params, sqls, pageCursorIds>>
    BY <1>1 DEF Delete, Load, IdsKept, NextRow, SetCurrentRow
  <2>2. UNCHANGED idsWere
    BY <1>1, <2>1 DEF Aged
  <2> QED
    BY <2>1, <2>2, CachesFrame
<1>2. CASE /\ \/ SelectData \/ DataThrow \/ NextEnds
              \/ \E i \in Ids, v \in Opt(Values) : OtherChange(i, v)
           /\ UNCHANGED idsWere
  <2>1. UNCHANGED <<params, sqls, pageCursorIds>>
    BY <1>2 DEF SelectData, DataThrow, NextEnds, OtherChange
  <2> QED
    BY <1>2, <2>1, CachesFrame
<1>3. CASE (Count \/ CountThrows) /\ Aged
  <2>1. CountPrepared /\ UNCHANGED <<params, idsSqlCache, pageCursorIds>>
    BY <1>3 DEF Count, CountThrows
  <2>2. CountText' = CountText /\ IdsText' = IdsText /\ UNCHANGED idsWere
    BY <1>3, <2>1 DEF CountText, IdsText, params, Aged
  <2> QED
    BY <2>1, <2>2 DEF CountPrepared, CachesFollowParams
<1>4. CASE \/ SelectIds /\ idsWere' = "read"
           \/ IdsThrow /\ idsWere' = "unread"
  <2>1. IdsPrepared /\ UNCHANGED <<params, countSqlCache>>
    BY <1>4 DEF SelectIds, IdsThrow
  <2>2. CountText' = CountText /\ IdsText' = IdsText
    BY <2>1 DEF CountText, IdsText, params
  <2>3. idsWere' = "read" \/ (idsWere' = "unread" /\ pageCursorIds' = << >>)
    BY <1>4 DEF IdsThrow
  <2> QED
    BY <2>1, <2>2, <2>3 DEF IdsPrepared, CachesFollowParams
<1>5. CASE Forget
  BY <1>5 DEF Forget, CachesFollowParams
<1>6. ASSUME NEW n, SetPage(n) PROVE CachesFollowParams'
  <2>1. /\ UNCHANGED <<filter, sort, countSqlCache, idsSqlCache>> /\ pageCursorIds' = None
    BY <1>6 DEF SetPage, sqls
  <2> QED
    BY <2>1 DEF CachesFollowParams, CountText, IdsText
<1>7. CASE UNCHANGED <<vars, history>>
  BY <1>7, CachesFrame DEF vars, history
<1>8. CASE \/ \E v \in Filters : SetFilter(v)
           \/ \E dir \in {"asc", "desc"} : SetSort(dir) \/ AddSort(dir)
  BY <1>5, <1>8 DEF SetFilter, SetSort, AddSort
<1>9. CASE MCNext
  BY <1>1, <1>2, <1>3, <1>4, <1>6, <1>8, <1>9 DEF MCNext, Other, Restarted
<1> QED
  BY <1>7, <1>9

(* The kept texts are those of the present filter and order, and the kept  *)
(* page was read for the present filter, order and page, through any       *)
(* calls, exceptions and loads; or it is the empty one that was left by a  *)
(* SELECT of the ids that threw.                                           *)
THEOREM RecordsetCachesFollowParams == MCSpec => []CachesFollowParams
<1>1. MCInit => CachesFollowParams
  BY DEF MCInit, Init, CachesFollowParams
<1> QED
  BY <1>1, CachesStep, PTL DEF MCSpec

-----------------------------------------------------------------------------
(* What next() has visited is the result up to its cursor. *)
VisitedToCursor == res # None => visited = SubSeq(res, 1, cursor + 1)

LEMMA NextRowVisits ==
    ASSUME TypeInv, VisitedToCursor, NextRow
    PROVE  Append(visited, view') = SubSeq(res, 1, cursor' + 1)
<1>1. /\ res \in Seq(Row) /\ Len(res) \in Nat /\ visited = SubSeq(res, 1, cursor + 1)
      /\ cursor' = cursor + 1 /\ cursor' < Len(res) /\ view' = res[cursor' + 1]
      /\ cursor \in Int /\ cursor >= -1
  BY RecordsetAssumption DEF NextRow, TypeInv, TypeOK, VisitedToCursor
<1>2. PICK n \in Nat : n = cursor + 1
  BY <1>1
<1>3. n + 1 \in 1..Len(res) /\ visited = SubSeq(res, 1, n) /\ view' = res[n + 1]
      /\ cursor' + 1 = n + 1
  BY <1>1, <1>2
<1>4. \A i \in 1..n + 1 : res[i] \in Row
  BY <1>1, <1>3
<1>5. /\ visited \in Seq(Row) /\ Len(visited) = n
      /\ \A i \in 1..n : visited[i] = res[i]
  BY <1>1, <1>3, <1>4, SubSeqProperties
<1>6. /\ SubSeq(res, 1, n + 1) \in Seq(Row) /\ Len(SubSeq(res, 1, n + 1)) = n + 1
      /\ \A i \in 1..n + 1 : SubSeq(res, 1, n + 1)[i] = res[i]
  BY <1>1, <1>3, <1>4
<1>7. res[n + 1] \in Row
  BY <1>4, <1>2
<1>8. /\ Append(visited, res[n + 1]) \in Seq(Row)
      /\ Len(Append(visited, res[n + 1])) = n + 1
      /\ \A i \in 1..n + 1 : Append(visited, res[n + 1])[i] = res[i]
  BY <1>2, <1>5, <1>7
<1>9. Append(visited, res[n + 1]) = SubSeq(res, 1, n + 1)
  BY <1>6, <1>8, SeqEqual
<1> QED
  BY <1>3, <1>9

LEMMA VisitedStep ==
    TypeInv /\ VisitedToCursor /\ [MCNext]_<<vars, history>> => VisitedToCursor'
<1> SUFFICES ASSUME TypeInv, VisitedToCursor, [MCNext]_<<vars, history>>
             PROVE  VisitedToCursor'
  OBVIOUS
<1>1. CASE UNCHANGED <<res, cursor, visited>>
  BY <1>1 DEF VisitedToCursor
<1>2. CASE SelectData /\ visited' = << >>
  <2>1. cursor' + 1 = 0 /\ 0 < 1
    BY <1>2 DEF SelectData
  <2>2. SubSeq(res', 1, 0) = << >>
    BY SubSeqEmpty
  <2> QED
    BY <1>2, <2>1, <2>2 DEF VisitedToCursor
<1>3. CASE DataThrow \/ NextEnds
  BY <1>3 DEF DataThrow, NextEnds, VisitedToCursor
<1>4. CASE NextRow /\ visited' = Append(visited, view')
  <2>1. res' = res
    BY <1>4 DEF NextRow
  <2> QED
    BY <1>4, <2>1, NextRowVisits DEF VisitedToCursor
<1>5. CASE /\ \/ Delete \/ SelectIds \/ IdsThrow \/ Load \/ Count \/ IdsKept \/ CountThrows
              \/ \E v \in Filters : SetFilter(v)
              \/ \E dir \in {"asc", "desc"} : SetSort(dir) \/ AddSort(dir)
              \/ \E n \in Offsets : SetPage(n)
              \/ \E n \in 0..Limit : SetCurrentRow(n)
              \/ \E i \in Ids, v \in Opt(Values) : OtherChange(i, v)
           /\ UNCHANGED visited
  <2>1. UNCHANGED <<res, cursor>>
    BY <1>5 DEF Delete, SelectIds, IdsThrow, Load, Count, IdsKept, CountThrows, SetFilter,
                SetSort, AddSort, SetPage, SetCurrentRow, OtherChange, loaded
  <2> QED
    BY <1>1, <1>5, <2>1
<1>6. CASE UNCHANGED <<vars, history>>
  BY <1>1, <1>6 DEF vars, history, loaded
<1> QED
  BY <1>2, <1>3, <1>4, <1>5, <1>6 DEF MCNext, Other, Restarted

(* next() visits each row of the result once and in order and ends only    *)
(* after the last, also when loads threw or changed the page in between.   *)
THEOREM RecordsetNextSeesEachRowOnce == MCSpec => NextSeesEachRowOnce
<1> DEFINE Sees == /\ NextRow => Append(visited, view') = SubSeq(res, 1, cursor' + 1)
                   /\ NextEnds => visited = res
<1>1. MCInit => VisitedToCursor
  BY DEF MCInit, Init, VisitedToCursor
<1>2. ASSUME TypeInv, VisitedToCursor, NextEnds PROVE visited = res
  <2>1. /\ res \in Seq(Row) /\ visited = SubSeq(res, 1, cursor + 1) /\ Len(res) \in Nat
        /\ cursor < Len(res) /\ cursor + 1 >= Len(res) /\ cursor \in Int
    BY <1>2, RecordsetAssumption DEF NextEnds, TypeInv, TypeOK, VisitedToCursor
  <2>2. cursor + 1 = Len(res)
    BY <2>1
  <2> QED
    BY <2>1, <2>2, SubSeqFull
<1>3. TypeInv /\ VisitedToCursor => [Sees]_vars
  BY <1>2, NextRowVisits
<1> QED
  BY <1>1, <1>3, VisitedStep, HistoryTypeInv, PTL DEF MCSpec, NextSeesEachRowOnce

-----------------------------------------------------------------------------
(* The ids and the rows of a page are read by two statements.  In any two  *)
(* sequences of the same rows that one order allows, a row whose value no  *)
(* other row has is at the same place: the rows before it are those that   *)
(* the order puts before it, and their number is its place.                *)
Sorted(s, order) ==
    \A m, n \in 1..Len(s) : m < n => MayPrecede(s[m], s[n], order)

LEMMA RowsBefore ==
    ASSUME NEW s \in Seq(Ids), IsInjective(s), NEW order \in {"asc", "desc"}, Sorted(s, order),
           \A x \in ToSet(s) : db[x] \in Nat,
           NEW i \in 1..Len(s), \A x \in ToSet(s) : db[x] = db[s[i]] => x = s[i]
    PROVE  {s[j] : j \in 1..(i - 1)}
             = {x \in ToSet(s) : x # s[i] /\ MayPrecede(x, s[i], order)}
<1>1. Len(s) \in Nat /\ DOMAIN s = 1..Len(s)
  BY LenProperties
<1>2. ASSUME NEW j \in 1..(i - 1)
      PROVE  s[j] \in ToSet(s) /\ s[j] # s[i] /\ MayPrecede(s[j], s[i], order)
  <2>1. j \in 1..Len(s) /\ j < i
    BY <1>1
  <2> QED
    BY <1>1, <2>1 DEF Sorted, IsInjective, ToSet
<1>3. ASSUME NEW x \in ToSet(s), x # s[i], MayPrecede(x, s[i], order)
      PROVE  \E j \in 1..(i - 1) : x = s[j]
  <2>1. PICK j \in 1..Len(s) : x = s[j]
    BY <1>1 DEF ToSet
  <2>2. ~(i < j)
    <3>1. ASSUME i < j PROVE FALSE
      <4>1. MayPrecede(s[i], x, order)
        BY <2>1, <3>1 DEF Sorted
      <4>2. db[x] \in Nat /\ db[s[i]] \in Nat
        BY <1>1 DEF ToSet
      <4>3. db[x] = db[s[i]]
        BY <1>3, <4>1, <4>2 DEF MayPrecede
      <4> QED
        BY <1>3, <4>3
    <3> QED
      BY <3>1
  <2>3. j \in 1..(i - 1)
    BY <1>1, <1>3, <2>1, <2>2
  <2> QED
    BY <2>1, <2>3
<1> QED
  BY <1>2, <1>3

LEMMA SamePlace ==
    ASSUME NEW a \in Seq(Ids), IsInjective(a), NEW b \in Seq(Ids), IsInjective(b),
           ToSet(a) = ToSet(b), \A x \in ToSet(a) : db[x] \in Nat,
           NEW order \in {"asc", "desc"}, Sorted(a, order), Sorted(b, order),
           NEW i \in 1..Len(a), \A x \in ToSet(a) : db[x] = db[a[i]] => x = a[i]
    PROVE  i \in 1..Len(b) /\ b[i] = a[i]
<1>1. Len(a) \in Nat /\ DOMAIN a = 1..Len(a) /\ Len(b) \in Nat /\ DOMAIN b = 1..Len(b)
  BY LenProperties
<1>2. PICK m \in 1..Len(b) : b[m] = a[i]
  BY <1>1 DEF ToSet
<1> DEFINE B == {x \in ToSet(a) : x # a[i] /\ MayPrecede(x, a[i], order)}
<1>3. {a[j] : j \in 1..(i - 1)} = B
  BY RowsBefore
<1>4. {b[j] : j \in 1..(m - 1)} = B
  <2>1. {b[j] : j \in 1..(m - 1)} = {x \in ToSet(b) : x # b[m] /\ MayPrecede(x, b[m], order)}
    BY <1>2, RowsBefore
  <2> QED
    BY <1>2, <2>1
<1> HIDE DEF B
<1>5. Cardinality(B) = i - 1 /\ Cardinality(B) = m - 1
  BY <1>3, <1>4, PrefixCardinality
<1>6. i = m
  BY <1>1, <1>5
<1> QED
  BY <1>2, <1>6

-----------------------------------------------------------------------------
(* Unless the table changed since the ids of the page were read, the page  *)
(* names existing rows in the present order, and the result, unless a load *)
(* is about to replace it, holds the rows of this page.                    *)
PageIsSorted ==
    undisturbed /\ pageCursorIds # None =>
        /\ \A m \in 1..Len(pageCursorIds) : pageCursorIds[m] \in Existing
        /\ Sorted(pageCursorIds, sort)

RowsOfPage == \E s \in Ordered(Existing \cap ToSet(pageCursorIds), sort) : res = Rows(s)

ResultIsOfPage ==
    undisturbed /\ pageCursorIds \notin {None, << >>} /\ res # None /\ pc # "data"
        => RowsOfPage

ClickInv == PageIsSorted /\ ResultIsOfPage

LEMMA SelectIdsSorts ==
    ASSUME TypeInv, CachesFollowParams, SelectIds
    PROVE  /\ \A m \in 1..Len(pageCursorIds') : pageCursorIds'[m] \in Existing
           /\ Sorted(pageCursorIds', sort)
<1> DEFINE text == idsSqlCache'
<1>1. PICK s \in Ordered(Matching(text), text.order) : pageCursorIds' = Page(s)
  BY DEF SelectIds
<1>2. text.order = sort
  BY DEF SelectIds, IdsPrepared, CachesFollowParams, IdsText
<1> HIDE DEF text
<1>3. Matching(text) \in SUBSET Ids /\ Matching(text) \subseteq Existing
  BY DEF Matching, Existing
<1>4. /\ s \in Seq(Matching(text)) /\ DOMAIN s = 1..Len(s) /\ IsInjective(s)
      /\ \A m, n \in 1..Len(s) : m < n => MayPrecede(s[m], s[n], sort)
  BY <1>1, <1>2, <1>3, OrderedElements
<1>5. s \in Seq(Ids) /\ \A m \in 1..Len(s) : s[m] \in Existing
  BY <1>3, <1>4
<1>6. offset \in Nat
  BY RecordsetAssumption DEF TypeInv, TypeOK
<1>7. \A m \in 1..Len(Page(s)) : offset + m \in 1..Len(s) /\ Page(s)[m] = s[offset + m]
  BY <1>4, <1>5, <1>6, PageElements
<1>8. \A m \in 1..Len(Page(s)) : Page(s)[m] \in Existing
  BY <1>5, <1>7
<1>9. ASSUME NEW m \in 1..Len(Page(s)), NEW n \in 1..Len(Page(s)), m < n
      PROVE  MayPrecede(Page(s)[m], Page(s)[n], sort)
  <2>1. offset + m < offset + n
    BY <1>6, <1>9
  <2> QED
    BY <1>4, <1>7, <2>1
<1> QED
  BY <1>1, <1>8, <1>9 DEF Sorted

(* A step that leaves alone what ClickInv is about, or makes it void. *)
LEMMA ClickFrame ==
    ASSUME ClickInv, UNCHANGED <<db, sort, pageCursorIds, res>>, undisturbed' => undisturbed,
           pc # "data" \/ pc' = "data"
    PROVE  ClickInv'
<1>1. Existing' = Existing
  BY DEF Existing
<1>2. Sorted(pageCursorIds, sort) => Sorted(pageCursorIds, sort)'
  BY DEF Sorted, MayPrecede
<1>3. RowsOfPage => RowsOfPage'
  BY <1>1 DEF RowsOfPage, Ordered, MayPrecede, Rows
<1> QED
  BY <1>1, <1>2, <1>3 DEF ClickInv, PageIsSorted, ResultIsOfPage

LEMMA ClickVoid == ASSUME pageCursorIds' = None \/ ~undisturbed' PROVE ClickInv'
  BY DEF ClickInv, PageIsSorted, ResultIsOfPage

LEMMA ClickStep ==
    /\ TypeInv /\ CachesFollowParams /\ ClickInv /\ [MCNext]_<<vars, history>>
    => ClickInv'
<1> SUFFICES ASSUME TypeInv, CachesFollowParams, ClickInv, [MCNext]_<<vars, history>>
             PROVE  ClickInv'
  OBVIOUS
<1>1. CASE /\ \/ Load \/ Count \/ CountThrows \/ IdsKept \/ NextRow
              \/ \E n \in 0..Limit : SetCurrentRow(n)
           /\ UNCHANGED undisturbed
  <2>1. UNCHANGED <<db, sort, pageCursorIds, res>> /\ (pc # "data" \/ pc' = "data")
    BY <1>1 DEF Load, Count, CountThrows, IdsKept, NextRow, SetCurrentRow, params, loaded
  <2> QED
    BY <1>1, <2>1, ClickFrame
<1>2. CASE \/ \E v \in Filters : SetFilter(v)
           \/ \E dir \in {"asc", "desc"} : SetSort(dir) \/ AddSort(dir)
           \/ \E n \in Offsets : SetPage(n)
  BY <1>2, ClickVoid DEF SetFilter, SetSort, AddSort, SetPage, Forget
<1>3. CASE SelectIds
  <2>1. UNCHANGED <<db, sort>> /\ pc' = "data"
    BY <1>3 DEF SelectIds, params
  <2>2. Existing' = Existing
    BY <2>1 DEF Existing
  <2>3. Sorted(pageCursorIds', sort) => Sorted(pageCursorIds, sort)'
    BY <2>1 DEF Sorted, MayPrecede
  <2> QED
    BY <1>3, <2>1, <2>2, <2>3, SelectIdsSorts DEF ClickInv, PageIsSorted, ResultIsOfPage
<1>4. CASE IdsThrow
  <2>1. pageCursorIds' = << >>
    BY <1>4 DEF IdsThrow
  <2>2. Len(<< >>) = 0 /\ 1..0 = {}
    OBVIOUS
  <2> QED
    BY <2>1, <2>2 DEF ClickInv, PageIsSorted, ResultIsOfPage, Sorted
<1>5. CASE SelectData /\ UNCHANGED undisturbed
  <2>1. UNCHANGED <<db, sort, pageCursorIds>>
    BY <1>5 DEF SelectData, params
  <2>2. Existing' = Existing
    BY <2>1 DEF Existing
  <2>3. PageIsSorted'
    BY <1>5, <2>1, <2>2 DEF ClickInv, PageIsSorted, Sorted, MayPrecede
  <2>4. ASSUME pageCursorIds # << >>, res' # None PROVE RowsOfPage'
    <3>1. \E s \in Ordered(Existing \cap ToSet(pageCursorIds), sort) : res' = Rows(s)
      BY <1>5, <2>4 DEF SelectData
    <3> QED
      BY <2>1, <2>2, <3>1 DEF RowsOfPage, Ordered, MayPrecede, Rows
  <2> QED
    BY <2>1, <2>3, <2>4 DEF ClickInv, ResultIsOfPage
<1>6. CASE (DataThrow \/ NextEnds) /\ UNCHANGED undisturbed
  <2>1. UNCHANGED <<db, sort, pageCursorIds>> /\ res' = None
    BY <1>6 DEF DataThrow, NextEnds, params
  <2>2. PageIsSorted'
    BY <1>6, <2>1 DEF ClickInv, PageIsSorted, Sorted, MayPrecede, Existing
  <2> QED
    BY <2>1, <2>2 DEF ClickInv, ResultIsOfPage
<1>7. CASE undisturbed' = FALSE
  BY <1>7, ClickVoid
<1>8. CASE UNCHANGED <<vars, history>>
  BY <1>8, ClickFrame DEF vars, history, params, loaded
<1>9. CASE MCNext
  BY <1>1, <1>2, <1>3, <1>4, <1>5, <1>6, <1>7, <1>9 DEF MCNext
<1> QED
  BY <1>8, <1>9

LEMMA ClickFinds ==
    ASSUME TypeInv, ClickInv, NEW n \in 0..Limit, SetCurrentRow(n), key' # None,
           res # None, undisturbed, sort # "none",
           \A m \in ToSet(pageCursorIds) : db[m] = db[key'] => m = key'
    PROVE  key' = res[n + 1].id
<1> DEFINE page == pageCursorIds
<1>1. pageCursorIds # None /\ n < Len(page) /\ key' = page[n + 1] /\ pc = "idle"
  BY DEF SetCurrentRow
<1>2. PageLike(page) /\ Len(page) \in Nat /\ DOMAIN page = 1..Len(page)
  <2>1. PageLike(page)
    BY <1>1, PageTypeLike DEF TypeInv
  <2> QED
    BY <2>1, LenProperties DEF PageLike
<1>3. n + 1 \in 1..Len(page)
  BY <1>1, <1>2
<1>4. page # << >>
  <2>1. Len(<< >>) = 0
    OBVIOUS
  <2> QED
    BY <1>1, <1>2, <2>1
<1>5. /\ \A m \in 1..Len(page) : page[m] \in Existing
      /\ Sorted(page, sort)
      /\ RowsOfPage
  BY <1>1, <1>4 DEF ClickInv, PageIsSorted, ResultIsOfPage
<1>6. ToSet(page) \subseteq Existing
  BY <1>2, <1>5 DEF ToSet
<1>7. PICK s \in Ordered(ToSet(page), sort) : res = Rows(s)
  <2>1. Existing \cap ToSet(page) = ToSet(page)
    BY <1>6
  <2> QED
    BY <1>5, <2>1 DEF RowsOfPage
<1>8. ToSet(page) \in SUBSET Ids
  BY <1>6 DEF Existing
<1>9. /\ s \in Seq(Ids) /\ DOMAIN s = 1..Len(s) /\ IsInjective(s) /\ ToSet(s) = ToSet(page)
      /\ Sorted(s, sort)
  <2>1. /\ s \in Seq(ToSet(page)) /\ DOMAIN s = 1..Len(s) /\ IsInjective(s)
        /\ ToSet(s) = ToSet(page)
        /\ \A i, j \in 1..Len(s) : i < j => MayPrecede(s[i], s[j], sort)
    BY <1>7, <1>8, OrderedElements
  <2> HIDE DEF page
  <2>2. s \in Seq(Ids)
    BY <1>8, <2>1
  <2> QED
    BY <2>1, <2>2 DEF Sorted
<1>10. \A x \in ToSet(page) : db[x] \in Nat
  BY <1>6, RecordsetAssumption DEF Existing, TypeInv, TypeOK, Opt
<1>11. page \in Seq(Ids) /\ IsInjective(page) /\ sort \in {"asc", "desc"}
  BY <1>2 DEF PageLike, TypeInv, TypeOK, Directions
<1>12. \A x \in ToSet(page) : db[x] = db[page[n + 1]] => x = page[n + 1]
  BY <1>1
<1> HIDE DEF page
<1>13. n + 1 \in 1..Len(s) /\ s[n + 1] = page[n + 1]
  BY <1>3, <1>5, <1>9, <1>10, <1>11, <1>12, SamePlace
<1>14. res[n + 1].id = s[n + 1]
  BY <1>7, <1>9, <1>13 DEF Rows
<1> QED
  BY <1>1, <1>13, <1>14 DEF page

(* SetCurrentRow chooses the row that is shown at this number, whatever    *)
(* was called since, when the table has not changed since the ids of the   *)
(* page were read and no other row of the page has its value in the sort.  *)
THEOREM RecordsetClickFindsTheShownRow == MCSpec => ClickFindsTheShownRow
<1> DEFINE Finds ==
      \A n \in 0..Limit :
         /\ SetCurrentRow(n) /\ key' # None
         /\ res # None /\ n < Len(res)
         /\ undisturbed /\ sort # "none"
         /\ \A m \in ToSet(pageCursorIds) : db[m] = db[key'] => m = key'
         => key' = res[n + 1].id
<1>1. MCInit => ClickInv
  BY DEF MCInit, Init, ClickInv, PageIsSorted, ResultIsOfPage
<1>2. TypeInv /\ ClickInv => Finds
  BY ClickFinds
<1>3. TypeInv /\ ClickInv => [Finds]_vars
  BY <1>2, Zenon
<1> QED
  BY <1>1, <1>3, ClickStep, HistoryTypeInv, RecordsetCachesFollowParams, PTL
     DEF MCSpec, ClickFindsTheShownRow
=============================================================================
