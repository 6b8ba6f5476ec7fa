---------------------------- MODULE RecordProofs ----------------------------
(***************************************************************************)
(* Record keeps its types, the user's edits never view freed memory, and   *)
(* no call changes a column that was not edited; Save knows whether its    *)
(* record has a row, writes the edits to the row they were made for and    *)
(* forgets none that is not stored; Refresh joins the reference that is    *)
(* shown: for any table, any number of ids and any interleaving with other *)
(* users.  Last, of two records that share a field: the reference that the *)
(* one shows is stored, or its Save will store it, and neither saves bytes *)
(* of a result that is gone.                                               *)
(***************************************************************************)
EXTENDS RecordHistory, MCLinkedRecords, TLAPS

(* What a statement stores, and what a SELECT returns, has the type of a   *)
(* column.                                                                 *)
LEMMA SentType == ASSUME NEW v \in Opt(Values) PROVE Sent(v) \in Opt(Values)
  BY RecordAssumption DEF Sent, Opt

LEMMA SelectedType ==
  ASSUME TypeOK, NEW i, Exists(i), NEW f \in Fields
  PROVE  Selected(i, f) \in Opt(Values)
<1>1. i \in Ids /\ db[i] \in Rows
  BY DEF Exists, Row, TypeOK
<1>2. CASE f # RefName
  BY <1>1, <1>2 DEF Selected, Fields, Rows
<1>3. CASE f = RefName
  <2>1. Ref \in Columns /\ Ref \in Fields
    BY RecordAssumption DEF Fields
  <2>2. Sent(val[Ref]) \in Opt(Values)
    BY <2>1, SentType DEF TypeOK
  <2>3. db[i][Ref] \in Opt(Values)
    BY <1>1, <2>1 DEF Rows
  <2> QED
    BY <1>3, <2>2, <2>3 DEF Selected, Joined, NameOf, Opt
<1> QED
  BY <1>2, <1>3

(* A load changes fields only, keeps their types and never makes a record  *)
(* new.                                                                    *)
LEMMA DoLoadType ==
  ASSUME TypeOK, NEW fs \in SUBSET Fields, DoLoad(fs)
  PROVE  /\ val' \in [Fields -> Opt(Values)]
         /\ modified' \subseteq Fields /\ freed' \subseteq Fields
         /\ is_new' \in BOOLEAN /\ (is_new' => is_new)
<1>1. CASE UNCHANGED <<fields, is_new>>
  BY <1>1 DEF TypeOK, fields
<1>2. ASSUME NEW i, Exists(i),
             val' = [f \in Fields |-> IF f \in fs THEN Selected(i, f) ELSE val[f]],
             modified' = modified \ fs,
             freed' = {f \in freed \cup fs : val'[f] # Null},
             is_new' = FALSE
      PROVE  /\ val' \in [Fields -> Opt(Values)]
             /\ modified' \subseteq Fields /\ freed' \subseteq Fields
             /\ is_new' \in BOOLEAN /\ (is_new' => is_new)
  <2>1. \A f \in Fields : Selected(i, f) \in Opt(Values)
    BY <1>2, SelectedType
  <2>2. val' \in [Fields -> Opt(Values)]
    BY <1>2, <2>1 DEF TypeOK
  <2> QED
    BY <1>2, <2>2 DEF TypeOK
<1> QED
  BY <1>1, <1>2 DEF DoLoad

-----------------------------------------------------------------------------
(* The table's part of TypeOK is disturbed by writes only.                 *)
TableOK ==
    /\ nextId \in 2..(MaxId + 1)
    /\ db \in [Ids -> Rows \cup {NoRow}]
    /\ \A i \in Ids : i >= nextId => db[i] = NoRow

LEMMA SavedRowType ==
  ASSUME TypeOK, NEW i \in Ids, db[i] # NoRow
  PROVE  [c \in Columns |-> IF c \in SavedColumns THEN Sent(val[c]) ELSE db[i][c]]
            \in Rows
<1>1. db[i] \in Rows
  BY DEF TypeOK
<1>2. \A c \in Columns : Sent(val[c]) \in Opt(Values)
  BY SentType DEF TypeOK, Fields
<1> QED
  BY <1>1, <1>2 DEF Rows

LEMMA InsertedType == ASSUME TypeOK, Inserted PROVE TableOK' /\ nextId' > nextId
<1> DEFINE row == [c \in Columns |-> IF c \in SavedColumns THEN Sent(val[c]) ELSE Null]
<1>1. row \in Rows
  <2>1. \A c \in Columns : Sent(val[c]) \in Opt(Values)
    BY SentType DEF TypeOK, Fields
  <2> QED
    BY <2>1 DEF Rows, Opt
<1>2. nextId \in Ids /\ db' = [db EXCEPT ![nextId] = row] /\ nextId' = nextId + 1
  BY DEF Inserted
<1>3. nextId' \in 2..(MaxId + 1) /\ nextId' > nextId
  BY <1>2, RecordAssumption DEF TypeOK, Ids
<1>4. db' \in [Ids -> Rows \cup {NoRow}]
  BY <1>1, <1>2 DEF TypeOK
<1>5. ASSUME NEW i \in Ids, i >= nextId' PROVE db'[i] = NoRow
  <2>1. i # nextId /\ i >= nextId
    BY <1>2, <1>5, RecordAssumption DEF TypeOK, Ids
  <2> QED
    BY <1>2, <2>1 DEF TypeOK
<1> QED
  BY <1>3, <1>4, <1>5 DEF TableOK

LEMMA UpdatedType == ASSUME TypeOK, Updated PROVE TableOK' /\ nextId' = nextId
<1>1. nextId' = nextId
  BY DEF Updated
<1>2. PICK i \in KeyReads :
        db' = IF ~Exists(i) THEN db
              ELSE [db EXCEPT ![i] = [c \in Columns |->
                       IF c \in SavedColumns THEN Sent(val[c]) ELSE @[c]]]
  BY DEF Updated
<1>3. CASE ~Exists(i)
  BY <1>1, <1>2, <1>3 DEF TypeOK, TableOK
<1>4. CASE Exists(i)
  <2>1. i \in Ids /\ db[i] # NoRow
    BY <1>4 DEF Exists, Row
  <2> DEFINE row == [c \in Columns |-> IF c \in SavedColumns THEN Sent(val[c]) ELSE db[i][c]]
  <2>2. row \in Rows
    BY <2>1, SavedRowType
  <2>3. db' = [db EXCEPT ![i] = row]
    BY <1>2, <1>4
  <2>4. ~(i >= nextId)
    BY <2>1 DEF TypeOK
  <2> HIDE DEF row
  <2>5. \A j \in Ids : j >= nextId => db'[j] = NoRow
    BY <2>3, <2>4 DEF TypeOK
  <2> QED
    BY <1>1, <2>2, <2>3, <2>5 DEF TypeOK, TableOK
<1> QED
  BY <1>3, <1>4

LEMMA DeletedType ==
  ASSUME TypeOK, NEW i, Exists(i), db' = [db EXCEPT ![i] = NoRow], nextId' = nextId
  PROVE  TableOK'
<1>1. i \in Ids
  BY DEF Exists, Row
<1> QED
  BY <1>1 DEF TypeOK, TableOK

-----------------------------------------------------------------------------
(* The rest of TypeOK, and how each kind of step keeps it.                 *)
FormOK ==
    /\ val \in [Fields -> Opt(Values)]
    /\ modified \subseteq Fields /\ freed \subseteq Fields
    /\ is_new \in BOOLEAN
    /\ visible_fields \subseteq Fields
    /\ key \in Opt(1..(nextId - 1)) /\ keyFreed \in BOOLEAN
    /\ pc \in {"idle", "reload"} /\ (pc = "reload" => ~is_new)

LEMMA TypeParts == TypeOK <=> TableOK /\ FormOK
  BY DEF TypeOK, TableOK, FormOK

LEMMA TableFrame == ASSUME TypeOK, UNCHANGED table PROVE TableOK'
  BY DEF TypeOK, TableOK, table

LEMMA InitType == Init => TypeOK
<1> SUFFICES ASSUME Init PROVE TypeOK
  OBVIOUS
<1>1. PICK row \in Rows : db = [i \in Ids |-> IF i = 1 THEN row ELSE NoRow]
  BY DEF Init
<1>2. TableOK
  BY <1>1, RecordAssumption DEF Init, TableOK, Ids
<1>3. val \in [Fields -> Opt(Values)]
  BY DEF Init, Opt
<1>4. key \in Opt(1..(nextId - 1))
  BY DEF Init, Opt
<1>5. FormOK
  BY <1>3, <1>4 DEF Init, FormOK
<1> QED
  BY <1>2, <1>5, TypeParts

LEMMA BlankedType ==
  ASSUME TypeOK, Blanked
  PROVE  /\ val' \in [Fields -> Opt(Values)]
         /\ modified' \subseteq Fields /\ freed' \subseteq Fields
         /\ is_new' \in BOOLEAN
  BY RecordAssumption DEF Blanked

(* A call of the form leaves the table alone. *)
LEMMA FormStep ==
  ASSUME TypeOK,
         \/ \E f \in Fields, v \in Opt(Values) : Modify(f, v)
         \/ New \/ Load \/ Refresh \/ Undo \/ Reload \/ ReloadThrows
         \/ \E fs \in SUBSET Fields : SetVisibleFields(fs)
         \/ \E k \in Opt(Ids) : MoveKey(k)
  PROVE  TypeOK'
<1>0. UNCHANGED table => TableOK'
  BY TableFrame
<1>1. ASSUME NEW f \in Fields, NEW v \in Opt(Values), Modify(f, v) PROVE TypeOK'
  <2>1. FormOK'
    BY <1>1 DEF Modify, TypeOK, FormOK, table, rkey
  <2> QED
    BY <1>0, <1>1, <2>1, TypeParts DEF Modify, TypeOK, TableOK, FormOK
<1>2. CASE New
  <2>1. FormOK'
    BY <1>2, BlankedType DEF New, TypeOK, FormOK, table, rkey
  <2> QED
    BY <1>0, <1>2, <2>1 DEF New, TypeOK, TableOK, FormOK
<1>3. ASSUME NEW fs \in SUBSET Fields, DoLoad(fs),
             UNCHANGED <<table, visible_fields, rkey>>,
             pc' = "idle" \/ (pc' = pc /\ pc = "idle")
      PROVE  TypeOK'
  <2>1. FormOK'
    BY <1>3, DoLoadType DEF TypeOK, FormOK, table, rkey
  <2> QED
    BY <1>0, <1>3, <2>1 DEF TypeOK, TableOK, FormOK
<1>4. CASE Load
  BY <1>3, <1>4 DEF Load, TypeOK
<1>5. CASE Refresh
  BY <1>3, <1>5 DEF Refresh
<1>6. CASE Undo
  <2>1. CASE is_new
    <3>1. FormOK'
      BY <1>6, <2>1, BlankedType DEF Undo, TypeOK, FormOK, table, rkey
    <3> QED
      BY <1>0, <1>6, <3>1 DEF Undo, TypeOK, TableOK, FormOK
  <2>2. CASE ~is_new
    BY <1>3, <1>6, <2>2 DEF Undo, TypeOK
  <2> QED
    BY <2>1, <2>2
<1>7. CASE Reload
  BY <1>3, <1>7 DEF Reload, TypeOK
<1>8. CASE ReloadThrows
  BY <1>0, <1>8 DEF ReloadThrows, TypeOK, TableOK, table, fields, rkey
<1>9. ASSUME NEW fs \in SUBSET Fields, SetVisibleFields(fs) PROVE TypeOK'
  BY <1>0, <1>9 DEF SetVisibleFields, TypeOK, TableOK, table, fields, rkey
<1>10. ASSUME NEW k \in Opt(Ids), MoveKey(k) PROVE TypeOK'
  BY <1>0, <1>10, RecordAssumption DEF MoveKey, TypeOK, TableOK, table, fields
<1> QED
  BY <1>1, <1>2, <1>4, <1>5, <1>6, <1>7, <1>8, <1>9, <1>10

LEMMA RangeGrows ==
  ASSUME NEW m \in Nat, NEW n \in Nat, n > m
  PROVE  Opt(1..(m - 1)) \subseteq Opt(1..(n - 1))
  BY DEF Opt

(* A step that writes the table. *)
LEMMA WriteStep ==
  ASSUME TypeOK,
         Insert \/ InsertReplyLost \/ Update \/ UpdateReplyLost \/ Delete \/ Other
  PROVE  TypeOK'
<1>1. CASE Insert
  <2>1. TableOK' /\ nextId' > nextId
    BY <1>1, InsertedType DEF Insert
  <2>2. key' \in Opt(1..(nextId' - 1))
    BY <1>1, RecordAssumption DEF Insert, Inserted, TypeOK, Ids, Opt
  <2>3. FormOK'
    BY <1>1, <2>2 DEF Insert, TypeOK, FormOK, fields
  <2> QED
    BY <2>1, <2>3 DEF TypeOK, TableOK, FormOK
<1>2. CASE InsertReplyLost
  <2>1. TableOK' /\ nextId' > nextId
    BY <1>2, InsertedType DEF InsertReplyLost
  <2>2. key' \in Opt(1..(nextId' - 1))
    <3>1. key' = key
      BY <1>2 DEF InsertReplyLost, rkey
    <3>2. nextId \in Nat /\ nextId' \in Nat /\ nextId' > nextId
      BY <2>1, RecordAssumption DEF TypeOK, TableOK
    <3>3. Opt(1..(nextId - 1)) \subseteq Opt(1..(nextId' - 1))
      BY <3>2, RangeGrows
    <3> QED
      BY <3>1, <3>3 DEF TypeOK
  <2>3. FormOK'
    BY <1>2, <2>2 DEF InsertReplyLost, TypeOK, FormOK, fields, rkey
  <2> QED
    BY <2>1, <2>3 DEF TypeOK, TableOK, FormOK
<1>3. CASE Update
  <2>1. TableOK' /\ nextId' = nextId
    BY <1>3, UpdatedType DEF Update
  <2> QED
    BY <1>3, <2>1 DEF Update, TypeOK, TableOK, fields, rkey
<1>4. CASE UpdateReplyLost
  <2>1. TableOK' /\ nextId' = nextId
    BY <1>4, UpdatedType DEF UpdateReplyLost
  <2> QED
    BY <1>4, <2>1 DEF UpdateReplyLost, TypeOK, TableOK, fields, rkey
<1>5. CASE Delete
  <2>1. TableOK'
    BY <1>5, DeletedType DEF Delete
  <2> QED
    BY <1>5, <2>1 DEF Delete, TypeOK, TableOK, fields, rkey
<1>6. ASSUME NEW i \in Ids, OtherDelete(i) PROVE TypeOK'
  <2>1. TableOK'
    BY <1>6, DeletedType DEF OtherDelete
  <2> QED
    BY <1>6, <2>1 DEF OtherDelete, TypeOK, TableOK, fields, rkey
<1>7. ASSUME NEW i \in Ids, NEW c \in Columns, NEW v \in Opt(Values), OtherUpdate(i, c, v)
      PROVE  TypeOK'
  <2>1. db[i] \in Rows
    BY <1>7 DEF OtherUpdate, Exists, Row, TypeOK
  <2>2. [db[i] EXCEPT ![c] = v] \in Rows
    BY <2>1 DEF Rows
  <2>3. db' = [db EXCEPT ![i] = [db[i] EXCEPT ![c] = v]]
    BY <1>7 DEF OtherUpdate
  <2>4. ~(i >= nextId)
    BY <1>7 DEF OtherUpdate, Exists, Row, TypeOK
  <2>5. TableOK'
    BY <1>7, <2>2, <2>3, <2>4 DEF OtherUpdate, TypeOK, TableOK
  <2> QED
    BY <1>7, <2>5 DEF OtherUpdate, TypeOK, TableOK, fields, rkey
<1> QED
  BY <1>1, <1>2, <1>3, <1>4, <1>5, <1>6, <1>7 DEF Other

LEMMA TypeStep == TypeOK /\ [Next]_vars => TypeOK'
<1> SUFFICES ASSUME TypeOK, [Next]_vars PROVE TypeOK'
  OBVIOUS
<1>1. CASE UNCHANGED vars
  BY <1>1 DEF vars, table, fields, rkey, TypeOK
<1>2. CASE Next
  BY <1>2, FormStep, WriteStep DEF Next, Save
<1> QED
  BY <1>1, <1>2

(* The fields, the table and the key keep their types for any table and    *)
(* any other users; rows exist only for ids that were handed out, and a    *)
(* record that Save is about to read back is not new.                      *)
THEOREM RecordTypeCorrect == Spec => []TypeOK
  BY InitType, TypeStep, PTL DEF Spec

-----------------------------------------------------------------------------
(* An edit is made in the field's own copy, and what a load makes a view   *)
(* it also marks as not edited.                                            *)
LEMMA EditsStep == EditsOwnTheirBytes /\ [Next]_vars => EditsOwnTheirBytes'
<1> SUFFICES ASSUME EditsOwnTheirBytes, [Next]_vars PROVE EditsOwnTheirBytes'
  OBVIOUS
<1> USE DEF EditsOwnTheirBytes
<1>1. ASSUME NEW fs, DoLoad(fs) PROVE EditsOwnTheirBytes'
  BY <1>1 DEF DoLoad, fields
<1>2. ASSUME Blanked PROVE EditsOwnTheirBytes'
  BY <1>2 DEF Blanked
<1>3. ASSUME NEW f, NEW v, Modify(f, v) PROVE EditsOwnTheirBytes'
  BY <1>3 DEF Modify
<1>4. CASE New \/ Load \/ Refresh \/ Undo \/ Reload
  BY <1>1, <1>2, <1>4 DEF New, Load, Refresh, Undo, Reload
<1>5. CASE UNCHANGED fields
  BY <1>5 DEF fields
<1>6. CASE Insert \/ InsertReplyLost \/ Update \/ UpdateReplyLost \/ ReloadThrows
           \/ Delete \/ Other
  BY <1>5, <1>6 DEF Insert, InsertReplyLost, Update, UpdateReplyLost, ReloadThrows,
                    Delete, Other, OtherDelete, OtherUpdate
<1>7. ASSUME NEW fs, SetVisibleFields(fs) PROVE EditsOwnTheirBytes'
  BY <1>5, <1>7 DEF SetVisibleFields
<1>8. ASSUME NEW k, MoveKey(k) PROVE EditsOwnTheirBytes'
  BY <1>5, <1>8 DEF MoveKey
<1>9. CASE UNCHANGED vars
  BY <1>5, <1>9 DEF vars
<1> QED
  BY <1>3, <1>4, <1>6, <1>7, <1>8, <1>9 DEF Next, Save

(* What the user entered is never a view into a result, so that no Save    *)
(* sends bytes from freed memory, whatever was loaded in between.          *)
THEOREM RecordEditsOwnTheirBytes == Spec => []EditsOwnTheirBytes
<1>1. Init => EditsOwnTheirBytes
  BY DEF Init, EditsOwnTheirBytes
<1> QED
  BY <1>1, EditsStep, PTL DEF Spec

-----------------------------------------------------------------------------
(* The step property of UneditedColumnsSurvive. *)
Survive ==
    \A i \in Ids, c \in Columns :
        Exists(i) /\ Row(i)' # NoRow /\ db'[i][c] # db[i][c]
            => Other \/ c \in modified

LEMMA SurviveFrame == ASSUME UNCHANGED db PROVE Survive
  BY DEF Survive

(* An INSERT writes a row that did not exist. *)
LEMMA InsertSurvive == ASSUME TypeOK, Inserted PROVE Survive
<1>1. \A i \in Ids : Exists(i) => i # nextId
  BY RecordAssumption DEF TypeOK, Exists, Row, Ids
<1> QED
  BY <1>1 DEF Inserted, Survive, TypeOK

(* An UPDATE writes marked columns, whichever row it reaches. *)
LEMMA UpdateSurvive == ASSUME TypeOK, Updated PROVE Survive
<1>1. PICK k \in KeyReads :
        db' = IF ~Exists(k) THEN db
              ELSE [db EXCEPT ![k] = [c \in Columns |->
                       IF c \in SavedColumns THEN Sent(val[c]) ELSE @[c]]]
  BY DEF Updated
<1>2. CASE ~Exists(k)
  BY <1>1, <1>2, SurviveFrame
<1>3. CASE Exists(k)
  <2> SUFFICES ASSUME NEW i \in Ids, NEW c \in Columns, db'[i][c] # db[i][c]
               PROVE  c \in modified
    BY DEF Survive
  <2>1. i = k
    BY <1>1, <1>3 DEF TypeOK
  <2>2. db'[k][c] = IF c \in SavedColumns THEN Sent(val[c]) ELSE db[k][c]
    BY <1>1, <1>3, <2>1 DEF TypeOK
  <2> QED
    BY <2>1, <2>2 DEF SavedColumns
<1> QED
  BY <1>2, <1>3

LEMMA SurviveStep == ASSUME TypeOK, Next PROVE Survive
<1>1. ASSUME NEW f, NEW v, Modify(f, v) PROVE Survive
  BY <1>1, SurviveFrame DEF Modify, table
<1>2. CASE New \/ Load \/ Refresh \/ Undo \/ Reload \/ ReloadThrows
  BY <1>2, SurviveFrame DEF New, Load, Refresh, Undo, Reload, ReloadThrows, table
<1>3. ASSUME NEW fs, SetVisibleFields(fs) PROVE Survive
  BY <1>3, SurviveFrame DEF SetVisibleFields, table
<1>4. ASSUME NEW k, MoveKey(k) PROVE Survive
  BY <1>4, SurviveFrame DEF MoveKey, table
<1>5. CASE Insert \/ InsertReplyLost
  BY <1>5, InsertSurvive DEF Insert, InsertReplyLost
<1>6. CASE Update \/ UpdateReplyLost
  BY <1>6, UpdateSurvive DEF Update, UpdateReplyLost
<1>7. CASE Delete
  <2>1. PICK k \in KeyReads : Exists(k) /\ db' = [db EXCEPT ![k] = NoRow]
    BY <1>7 DEF Delete
  <2> QED
    BY <2>1 DEF Survive, TypeOK, Row
<1>8. CASE Other
  BY <1>8 DEF Survive
<1> QED
  BY <1>1, <1>2, <1>3, <1>4, <1>5, <1>6, <1>7, <1>8 DEF Next, Save

(* Whichever row the key reaches, even one read from freed memory, no call *)
(* of this record changes a column that its user did not edit.             *)
THEOREM RecordColumnsSurvive == Spec => UneditedColumnsSurvive
<1>1. TypeOK /\ [Next]_vars => [Survive]_vars
  BY SurviveStep
<1> QED
  BY <1>1, RecordTypeCorrect, PTL DEF Spec, UneditedColumnsSurvive, Survive


-----------------------------------------------------------------------------
(* The history only watches: every step of RecordHistory is one of Record, *)
(* and what holds of Record's steps holds of its steps.                    *)
LEMMA HistoryStep == [HistoryNext]_<<vars, history>> => [Next]_vars
<1>1. HistoryNext => Next
  BY DEF HistoryNext, Next, Save, Other
<1> QED
  BY <1>1

LEMMA HistoryIsRecord == HistorySpec => Spec
<1>1. HistoryInit => Init
  BY DEF HistoryInit
<1> QED
  BY <1>1, HistoryStep, PTL DEF HistorySpec, Spec

LEMMA HistoryTypeCorrect == HistorySpec => []TypeOK
  BY HistoryIsRecord, RecordTypeCorrect, PTL

-----------------------------------------------------------------------------
(* The history recognises the loads that found a row, also where the key   *)
(* is read from freed memory.                                              *)
LEMMA LoadOutcome ==
    ASSUME NEW fs, DoLoad(fs)
    PROVE  IF ReadARow(fs) THEN ~is_new' /\ modified' \subseteq modified \ fs
                           ELSE UNCHANGED <<is_new, modified>>
<1>1. CASE /\ fs = {} \/ (\E i \in KeyReads : ~Exists(i))
           /\ UNCHANGED <<modified, is_new>>
  <2>1. CASE keyFreed \/ fs = {}
    BY <1>1, <2>1 DEF ReadARow
  <2>2. CASE ~keyFreed /\ fs # {}
    BY <1>1, <2>2 DEF ReadARow, KeyReads
  <2> QED
    BY <2>1, <2>2
<1>2. CASE /\ fs # {} /\ \E i \in KeyReads : Exists(i)
           /\ modified' = modified \ fs /\ is_new' = FALSE
  BY <1>2 DEF ReadARow
<1> QED
  BY <1>1, <1>2 DEF DoLoad, fields

(* SaveKnowsTheRow is inductive: is_new and origin change together.        *)
LEMMA KnowsStep ==
  SaveKnowsTheRow /\ [HistoryNext]_<<vars, history>> => SaveKnowsTheRow'
<1> SUFFICES ASSUME SaveKnowsTheRow, [HistoryNext]_<<vars, history>>
             PROVE  SaveKnowsTheRow'
  OBVIOUS
<1> USE DEF SaveKnowsTheRow
<1>1. CASE UNCHANGED <<is_new, origin>>
  BY <1>1
<1>2. ASSUME DoLoad(visible_fields), LoadSeen PROVE SaveKnowsTheRow'
  BY <1>2, LoadOutcome DEF LoadSeen
<1>3. CASE New /\ origin' = "begun"
  BY <1>3 DEF New, Blanked
<1>4. CASE Undo /\ IF is_new THEN origin' = "begun" ELSE LoadSeen
  BY <1>2, <1>4 DEF Undo, Blanked
<1>5. CASE Refresh /\ RefreshSeen
  <2>1. DoLoad(Fields \ modified)
    BY <1>5 DEF Refresh
  <2>2. IF ReadARow(Fields \ modified) THEN ~is_new' ELSE UNCHANGED is_new
    BY <2>1, LoadOutcome
  <2> QED
    BY <1>5, <2>2 DEF RefreshSeen
<1>6. CASE Insert /\ origin' = "row"
  BY <1>6 DEF Insert
<1>7. ASSUME NEW f, NEW x, Modify(f, x), UNCHANGED origin PROVE SaveKnowsTheRow'
  BY <1>1, <1>7 DEF Modify
<1>8. ASSUME NEW fs, SetVisibleFields(fs), UNCHANGED origin PROVE SaveKnowsTheRow'
  BY <1>1, <1>8 DEF SetVisibleFields
<1>9. ASSUME NEW k, MoveKey(k), UNCHANGED origin PROVE SaveKnowsTheRow'
  BY <1>1, <1>9 DEF MoveKey
<1>10. CASE /\ Delete \/ InsertReplyLost \/ Update \/ UpdateReplyLost \/ ReloadThrows
            /\ UNCHANGED origin
  BY <1>1, <1>10 DEF Delete, InsertReplyLost, Update, UpdateReplyLost, ReloadThrows
<1>11. CASE Other /\ UNCHANGED origin
  BY <1>1, <1>11 DEF Other, OtherUpdate, OtherDelete
<1>12. CASE UNCHANGED <<vars, history>>
  BY <1>1, <1>12 DEF vars, history
<1>13. CASE (Load \/ Reload) /\ LoadSeen
  BY <1>2, <1>13 DEF Load, Reload
<1> QED
  BY <1>3, <1>4, <1>5, <1>6, <1>7, <1>8, <1>9, <1>10, <1>11, <1>12, <1>13
     DEF HistoryNext, history, Other

(* Save inserts no record that was read or inserted, and updates one that  *)
(* New() began only if a Refresh found the row that its key still named,   *)
(* whatever failed and whichever rows the key named before.                *)
THEOREM RecordSaveKnowsTheRow == HistorySpec => []SaveKnowsTheRow
<1>1. HistoryInit => SaveKnowsTheRow
  BY DEF HistoryInit, SaveKnowsTheRow
<1> QED
  BY <1>1, KnowsStep, PTL DEF HistorySpec

-----------------------------------------------------------------------------
(* Each edit that is still marked was made for the row that is current, or *)
(* no load has shown its column since the key was moved: the key moves     *)
(* without the edits, and what ends that is a load, which discards them.   *)
EditedForTheRow ==
    \A c \in modified \cap Columns : editedFor[c] = key \/ c \in unseen

LEMMA EditedForStep ==
  EditedForTheRow /\ [HistoryNext]_<<vars, history>> => EditedForTheRow'
<1> SUFFICES ASSUME EditedForTheRow, [HistoryNext]_<<vars, history>>
             PROVE  EditedForTheRow'
  OBVIOUS
<1> USE DEF EditedForTheRow
<1>1. CASE UNCHANGED <<modified, editedFor, key, unseen>>
  BY <1>1
<1>2. ASSUME DoLoad(visible_fields), LoadSeen, UNCHANGED <<editedFor, key>>
      PROVE  EditedForTheRow'
  <2>1. CASE ReadARow(visible_fields)
    BY <1>2, <2>1, LoadOutcome DEF LoadSeen
  <2>2. CASE ~ReadARow(visible_fields)
    BY <1>2, <2>2, LoadOutcome DEF LoadSeen
  <2> QED
    BY <2>1, <2>2
<1>3. ASSUME NEW f, NEW x, Modify(f, x),
             editedFor' = [c \in Columns |-> IF c = f THEN key ELSE editedFor[c]],
             UNCHANGED unseen
      PROVE  EditedForTheRow'
  BY <1>3 DEF Modify, rkey
<1>4. CASE New
  BY <1>4 DEF New, Blanked
<1>5. CASE Undo /\ (IF is_new THEN UNCHANGED unseen ELSE LoadSeen) /\ UNCHANGED editedFor
  BY <1>2, <1>5 DEF Undo, Blanked, rkey
<1>6. CASE (Load \/ Reload) /\ LoadSeen /\ UNCHANGED editedFor
  BY <1>2, <1>6 DEF Load, Reload, rkey
<1>7. CASE Refresh /\ UNCHANGED <<editedFor, unseen>>
  BY <1>7 DEF Refresh, DoLoad, rkey, fields
<1>8. CASE Insert /\ editedFor' = [c \in Columns |-> nextId]
  BY <1>8 DEF Insert
<1>9. ASSUME NEW fs, SetVisibleFields(fs), UNCHANGED history PROVE EditedForTheRow'
  BY <1>1, <1>9 DEF SetVisibleFields, fields, rkey, history
<1>10. ASSUME NEW k, MoveKey(k), unseen' = Columns PROVE EditedForTheRow'
  BY <1>10 DEF MoveKey
<1>11. CASE /\ Delete \/ InsertReplyLost \/ Update \/ UpdateReplyLost \/ ReloadThrows
            /\ UNCHANGED <<editedFor, unseen>>
  BY <1>1, <1>11 DEF Delete, InsertReplyLost, Update, UpdateReplyLost, ReloadThrows,
                     fields, rkey
<1>12. CASE Other /\ UNCHANGED <<editedFor, unseen>>
  BY <1>1, <1>12 DEF Other, OtherUpdate, OtherDelete, fields, rkey
<1>13. CASE UNCHANGED <<vars, history>>
  BY <1>1, <1>13 DEF vars, history, fields, rkey
<1> QED
  BY <1>2, <1>3, <1>4, <1>5, <1>6, <1>7, <1>8, <1>9, <1>10, <1>11, <1>12, <1>13
     DEF HistoryNext, history, Other

(* Save writes an edit to the row that was current when it was made, or    *)
(* that was inserted with it, unless no load has shown the column since    *)
(* the key was moved.  (A key that is freed may name any row; what is said *)
(* here of the row it named is then no promise about the row written.)     *)
THEOREM RecordEditsReachTheirRow == HistorySpec => EditsReachTheirRow
<1> DEFINE Reach == Updates /\ Exists(key)
                      => \A c \in SavedColumns : editedFor[c] = key \/ c \in unseen
<1>1. HistoryInit => EditedForTheRow
  BY DEF HistoryInit, Init, EditedForTheRow
<1>2. EditedForTheRow /\ [HistoryNext]_<<vars, history>> => [Reach]_vars
  BY DEF EditedForTheRow, SavedColumns
<1> QED
  BY <1>1, <1>2, EditedForStep, PTL DEF HistorySpec, EditsReachTheirRow

-----------------------------------------------------------------------------
(* A key that belongs to a list is no view into a result.                  *)
KeyLives == ~keyFreed

LEMMA KeyLivesStep ==
  ~KeyIsColumn /\ KeyLives /\ [Next]_vars => KeyLives'
<1> SUFFICES ASSUME ~KeyIsColumn, KeyLives, [Next]_vars PROVE KeyLives'
  OBVIOUS
<1> USE DEF KeyLives
<1>1. CASE UNCHANGED rkey
  BY <1>1 DEF rkey
<1>2. ASSUME NEW f, NEW x, Modify(f, x) PROVE KeyLives'
  BY <1>1, <1>2 DEF Modify
<1>3. CASE New \/ Load \/ Refresh \/ Undo \/ Reload \/ ReloadThrows
           \/ InsertReplyLost \/ Update \/ UpdateReplyLost \/ Delete
  BY <1>1, <1>3 DEF New, Load, Refresh, Undo, Reload, ReloadThrows, InsertReplyLost,
                    Update, UpdateReplyLost, Delete
<1>4. CASE Insert
  BY <1>4 DEF Insert
<1>5. ASSUME NEW fs, SetVisibleFields(fs) PROVE KeyLives'
  BY <1>1, <1>5 DEF SetVisibleFields
<1>6. ASSUME NEW k, MoveKey(k) PROVE KeyLives'
  BY <1>6 DEF MoveKey
<1>7. CASE Other
  BY <1>1, <1>7 DEF Other, OtherUpdate, OtherDelete
<1>8. CASE UNCHANGED vars
  BY <1>1, <1>8 DEF vars
<1> QED
  BY <1>2, <1>3, <1>4, <1>5, <1>6, <1>7, <1>8 DEF Next, Save

(* Between the two statements of Save the row, if it is still there, holds *)
(* each edit, or another user changed that column after the write.         *)
Written ==
    pc = "reload" /\ Exists(key) =>
        \A c \in modified \cap Columns : db[key][c] = Sent(val[c]) \/ c \in overwritten

LEMMA InsertWrites == ASSUME TypeOK, Insert PROVE Written'
<1>1. nextId \in Ids /\ key' = nextId /\ UNCHANGED <<val, modified>>
  BY DEF Insert, Inserted, fields
<1>2. \A c \in SavedColumns : db'[nextId][c] = Sent(val[c])
  BY DEF Insert, Inserted, TypeOK, SavedColumns
<1> QED
  BY <1>1, <1>2 DEF Written, SavedColumns, Sent

LEMMA UpdateWrites == ASSUME TypeOK, KeyLives, Update PROVE Written'
<1>1. /\ UNCHANGED <<val, modified, key>>
      /\ db' = IF ~Exists(key) THEN db
               ELSE [db EXCEPT ![key] = [c \in Columns |->
                        IF c \in SavedColumns THEN Sent(val[c]) ELSE @[c]]]
  BY DEF Update, Updated, KeyReads, KeyLives, fields, rkey
<1>2. CASE Exists(key)
  <2>1. key \in Ids
    BY <1>2 DEF Exists, Row
  <2>2. \A c \in SavedColumns : db'[key][c] = Sent(val[c])
    BY <1>1, <1>2, <2>1 DEF TypeOK, SavedColumns
  <2> QED
    BY <1>1, <2>2 DEF Written, SavedColumns, Sent
<1>3. CASE ~Exists(key)
  BY <1>1, <1>3 DEF Written, Exists, Row
<1> QED
  BY <1>2, <1>3

LEMMA WrittenStep ==
  /\ TypeOK /\ KeyLives /\ Written /\ [HistoryNext]_<<vars, history>> => Written'
<1> SUFFICES ASSUME TypeOK, KeyLives, Written, [HistoryNext]_<<vars, history>>
             PROVE  Written'
  OBVIOUS
<1>1. CASE pc' = "idle"
  BY <1>1 DEF Written
<1>2. CASE UNCHANGED <<db, val, modified, key, pc, overwritten>>
  BY <1>2 DEF Written, Exists, Row, Sent
<1>3. ASSUME NEW f, NEW x, Modify(f, x) PROVE Written'
  BY <1>1, <1>3 DEF Modify
<1>4. CASE New \/ Load \/ Refresh \/ Undo \/ Delete \/ InsertReplyLost \/ UpdateReplyLost
  BY <1>1, <1>4 DEF New, Load, Refresh, Undo, Delete, InsertReplyLost, UpdateReplyLost
<1>5. ASSUME NEW fs, SetVisibleFields(fs) PROVE Written'
  BY <1>1, <1>5 DEF SetVisibleFields
<1>6. ASSUME NEW k, MoveKey(k) PROVE Written'
  BY <1>1, <1>6 DEF MoveKey
<1>7. CASE Reload \/ ReloadThrows
  BY <1>1, <1>7 DEF Reload, ReloadThrows
<1>8. ASSUME NEW i \in Ids, OtherDelete(i), UNCHANGED history PROVE Written'
  <2>1. db' = [db EXCEPT ![i] = NoRow] /\ UNCHANGED <<val, modified, key, pc, overwritten>>
    BY <1>8 DEF OtherDelete, fields, rkey, history
  <2>2. CASE i = key
    BY <2>1, <2>2 DEF Written, Exists, Row, TypeOK
  <2>3. CASE i # key
    <3>1. Row(key)' = Row(key)
      BY <2>1, <2>3 DEF Row, TypeOK
    <3> QED
      BY <2>1, <2>3, <3>1 DEF Written, Exists, Row, Sent
  <2> QED
    BY <2>2, <2>3
<1>9. ASSUME NEW i \in Ids, NEW c \in Columns, NEW x \in Opt(Values),
             OtherUpdate(i, c, x),
             overwritten' =
               IF pc = "reload" /\ i = key THEN overwritten \cup {c} ELSE overwritten
      PROVE  Written'
  <2>1. /\ db' = [db EXCEPT ![i][c] = x] /\ UNCHANGED <<val, modified, key, pc>>
        /\ db[i] \in Rows /\ Exists(i)
    BY <1>9 DEF OtherUpdate, fields, rkey, Exists, Row, TypeOK
  <2>2. db' = [db EXCEPT ![i] = [db[i] EXCEPT ![c] = x]]
    BY <2>1
  <2>3. CASE i = key
    <3>1. \A d \in Columns \ {c} : db'[key][d] = db[key][d]
      BY <1>9, <2>1, <2>2, <2>3 DEF TypeOK, Rows
    <3> QED
      BY <1>9, <2>1, <2>3, <3>1 DEF Written, Sent
  <2>4. CASE i # key
    <3>1. Row(key)' = Row(key)
      BY <2>2, <2>1, <2>4 DEF Row, TypeOK
    <3> QED
      BY <1>9, <2>1, <2>4, <3>1 DEF Written, Exists, Row, Sent
  <2> QED
    BY <2>3, <2>4
<1>10. CASE UNCHANGED <<vars, history>>
  BY <1>2, <1>10 DEF vars, history, table, fields, rkey
<1> QED
  BY <1>3, <1>4, <1>5, <1>6, <1>7, <1>8, <1>9, <1>10, InsertWrites, UpdateWrites
     DEF HistoryNext

(* The step property of StoredBeforeForgotten. *)
Kept ==
    \A c \in (modified \ modified') \cap Columns :
        IF pc = "reload"
            THEN db[key][c] = Sent(val[c]) \/ c \in overwritten
            ELSE Load \/ Undo \/ New

LEMMA KeptStep ==
  ASSUME TypeOK, KeyLives, Written, Next PROVE Kept
<1>1. CASE modified \subseteq modified'
  BY <1>1 DEF Kept
<1>2. ASSUME NEW f, NEW x, Modify(f, x) PROVE Kept
  BY <1>1, <1>2 DEF Modify
<1>3. CASE New \/ Load \/ Undo
  BY <1>3 DEF Kept, New, Load, Undo
<1>4. CASE Refresh
  BY <1>1, <1>4 DEF Refresh, DoLoad, fields
<1>5. CASE Reload
  <2>1. CASE UNCHANGED fields
    BY <1>1, <2>1 DEF fields
  <2>2. CASE ~UNCHANGED fields
    <3>1. Exists(key)
      BY <1>5, <2>2 DEF Reload, DoLoad, KeyReads, KeyLives
    <3> QED
      BY <1>5, <3>1 DEF Reload, Written, Kept
  <2> QED
    BY <2>1, <2>2
<1>6. CASE ReloadThrows \/ Insert \/ InsertReplyLost \/ Update \/ UpdateReplyLost
           \/ Delete \/ Other
  BY <1>1, <1>6 DEF ReloadThrows, Insert, InsertReplyLost, Update, UpdateReplyLost,
                    Delete, Other, OtherUpdate, OtherDelete, fields
<1>7. ASSUME NEW fs, SetVisibleFields(fs) PROVE Kept
  BY <1>1, <1>7 DEF SetVisibleFields, fields
<1>8. ASSUME NEW k, MoveKey(k) PROVE Kept
  BY <1>1, <1>8 DEF MoveKey, fields
<1> QED
  BY <1>2, <1>3, <1>4, <1>5, <1>6, <1>7, <1>8 DEF Next, Save

(* When the key belongs to a list, Save forgets an edit only once the row  *)
(* holds it or another user changed the column after it, whatever fails or *)
(* happens between the write and the read; only Load, Undo and New discard *)
(* edits.  (A freed key may read another row than the one written.)        *)
THEOREM RecordStoredBeforeForgotten ==
  ASSUME ~KeyIsColumn PROVE HistorySpec => StoredBeforeForgotten
<1>1. HistoryInit => KeyLives /\ Written
  BY DEF HistoryInit, Init, KeyLives, Written
<1>2. KeyLives /\ [HistoryNext]_<<vars, history>> => KeyLives'
  BY KeyLivesStep, HistoryStep
<1>3. TypeOK /\ KeyLives /\ Written /\ [Next]_vars => [Kept]_vars
  BY KeptStep
<1> QED
  BY <1>1, <1>2, <1>3, WrittenStep, HistoryStep, HistoryTypeCorrect, PTL
     DEF HistorySpec, StoredBeforeForgotten, Kept

-----------------------------------------------------------------------------
(* NULL is sent as a blank, which names nothing, as NULL does. *)
LEMMA NameOfSent == ASSUME NEW x PROVE NameOf(Sent(x)) = NameOf(x)
  BY RecordAssumption DEF NameOf, Sent

LEMMA RefreshJoins ==
  ASSUME KeyLives, Refresh, RefName \notin modified, key # Null, Exists(key)
  PROVE  val'[RefName] = NameOf(val'[Ref])
<1> DEFINE fs == Fields \ modified
<1>1. RefName \in fs /\ Ref \in Fields /\ Ref # RefName
  BY RecordAssumption DEF Fields
<1>2. val' = [f \in Fields |-> IF f \in fs THEN Selected(key, f) ELSE val[f]]
  BY <1>1 DEF Refresh, DoLoad, KeyReads, KeyLives
<1>3. val'[RefName] = Joined(key)
  BY <1>1, <1>2 DEF Selected
<1>4. CASE Ref \in modified
  BY <1>1, <1>2, <1>3, <1>4, NameOfSent DEF Joined
<1>5. CASE Ref \notin modified
  BY <1>1, <1>2, <1>3, <1>5 DEF Joined, Selected
<1> QED
  BY <1>4, <1>5

(* When the key belongs to a list, Refresh shows the joined field of the   *)
(* reference that the form then shows, the stored one or the user's.       *)
THEOREM RecordRefreshJoins ==
  ASSUME ~KeyIsColumn PROVE Spec => RefreshJoinsWhatIsShown
<1> DEFINE Joins == Refresh /\ RefName \notin modified /\ key # Null /\ Exists(key)
                      => val'[RefName] = NameOf(val'[Ref])
<1>1. Init => KeyLives
  BY DEF Init, KeyLives
<1>2. KeyLives /\ [Next]_vars => [Joins]_vars
  BY RefreshJoins
<1> QED
  BY <1>1, <1>2, KeyLivesStep, PTL DEF Spec, RefreshJoinsWhatIsShown


-----------------------------------------------------------------------------
(* Two records that share a field.  The book's form is a Record, so that   *)
(* its calls preserve what every step of Record does; a call of the        *)
(* author's form changes at most the reference and what it views.  While   *)
(* the reference is "stored", the book's record is the one of a row.       *)
StoredOrChosen ==
    /\ reference = "stored" => Ref \notin modified /\ ~is_new /\ val[Ref] = db[key][Ref]
    /\ reference = "chosen" => Ref \in modified

LinkedInv ==
    /\ TypeOK /\ KeyLives /\ EditsOwnTheirBytes
    /\ visible_fields = Fields /\ choice \in Opt(AuthorIds)
    /\ StoredOrChosen

LEMMA LinkedInitInv == MCInit => LinkedInv
<1> SUFFICES ASSUME MCInit PROVE LinkedInv
  OBVIOUS
<1> USE RecordAssumption DEF MCInit, LinkedInit
<1>1. PICK row \in Rows : db = [i \in Ids |-> IF i = 1 THEN row ELSE NoRow]
  OBVIOUS
<1>2. TableOK
  BY <1>1 DEF TableOK, Ids
<1>3. val \in [Fields -> Opt(Values)] /\ key \in Opt(1..(nextId - 1))
  BY DEF Opt
<1>4. TypeOK
  BY <1>2, <1>3, TypeParts DEF FormOK
<1> QED
  BY <1>4 DEF LinkedInv, KeyLives, EditsOwnTheirBytes, StoredOrChosen, Opt

(* The calls of the book's form are steps of Record. *)
LEMMA EditIsStep == EditBook \/ OthersEdit => Next
<1>1. Edited \subseteq Fields /\ Titles \subseteq Opt(Values)
  BY LinkedAssumption
<1>2. CASE EditBook
  BY <1>1, <1>2 DEF EditBook, BookStep, Next
<1>3. ASSUME OthersEdit PROVE Other
  BY <1>1, <1>3 DEF OthersEdit, Other
<1> QED
  BY <1>2, <1>3 DEF Next

LEMMA BookIsStep ==
  ASSUME LinkedInv,
         \/ LoadBook \/ RefreshBook \/ NewBook \/ UndoBook \/ SaveBook
         \/ EditBook \/ MoveBook \/ ApplySelection \/ OthersEdit
  PROVE  Next
<1>1. ASSUME ApplySelection PROVE Next
  <2>1. Ref \in Fields
    BY RecordAssumption DEF Fields
  <2>2. (IF choice = Null THEN Blank ELSE choice) \in Opt(Values)
    BY RecordAssumption, LinkedAssumption DEF LinkedInv, Opt
  <2> QED
    BY <1>1, <2>1, <2>2 DEF ApplySelection, BookStep, Next
<1> QED
  BY <1>1, EditIsStep DEF LoadBook, RefreshBook, NewBook, UndoBook, SaveBook, MoveBook,
                          BookStep, Next

LEMMA BookKeeps ==
  ASSUME ~KeyIsColumn, LinkedInv,
         \/ LoadBook \/ RefreshBook \/ NewBook \/ UndoBook \/ SaveBook
         \/ EditBook \/ MoveBook \/ ApplySelection \/ OthersEdit
  PROVE  /\ TypeOK' /\ KeyLives' /\ EditsOwnTheirBytes'
         /\ visible_fields' = Fields /\ choice' \in Opt(AuthorIds)
<1>2. Next
  BY BookIsStep
<1>3. TypeOK' /\ KeyLives' /\ EditsOwnTheirBytes'
  BY <1>2, TypeStep, KeyLivesStep, EditsStep DEF LinkedInv
<1>4. UNCHANGED <<visible_fields, choice>>
  BY DEF LoadBook, RefreshBook, NewBook, UndoBook, SaveBook, EditBook, MoveBook,
         ApplySelection, OthersEdit, OtherUpdate, BookStep, Load, Refresh, New, Undo, Save, Insert,
         InsertReplyLost, Update, UpdateReplyLost, Reload, ReloadThrows, Modify, MoveKey
<1> QED
  BY <1>3, <1>4 DEF LinkedInv

(* A read of the reference makes it the stored one; any other leaves it.   *)
LEMMA ReadShows ==
  ASSUME LinkedInv, NEW fs \in SUBSET Fields, DoLoad(fs), UNCHANGED <<table, rkey>>,
         ReadBook({Ref} \cap fs)
  PROVE  StoredOrChosen'
<1>1. KeyReads = IF key = Null THEN {} ELSE {key}
  BY DEF KeyReads, LinkedInv, KeyLives
<1>2. CASE UNCHANGED <<fields, is_new>> /\ UNCHANGED reference
  BY <1>2 DEF LinkedInv, StoredOrChosen, table, rkey, fields, Exists, Row
<1>3. CASE fs = {} \/ \E i \in KeyReads : ~Exists(i)
  <2>1. ~Reads({Ref} \cap fs)
    BY <1>1, <1>3 DEF Reads
  <2>2. UNCHANGED <<fields, is_new>>
    BY <1>1, <1>3 DEF DoLoad
  <2> QED
    BY <1>2, <2>1, <2>2 DEF ReadBook
<1>4. CASE fs # {} /\ ~\E i \in KeyReads : ~Exists(i)
  <2>1. /\ key # Null /\ Exists(key)
        /\ val' = [f \in Fields |-> IF f \in fs THEN Selected(key, f) ELSE val[f]]
        /\ modified' = modified \ fs /\ ~is_new'
    BY <1>1, <1>4 DEF DoLoad, Exists, Row
  <2>2. key' = key /\ db' = db
    BY DEF table, rkey
  <2>3. Ref \in Fields /\ Ref # RefName
    BY RecordAssumption DEF Fields
  <2>4. CASE Ref \in fs
    <3>1. val'[Ref] = db[key][Ref] /\ Ref \notin modified'
      BY <2>1, <2>3, <2>4 DEF Selected
    <3>2. reference' = "stored"
      BY <1>1, <2>1, <2>4 DEF ReadBook, Reads
    <3> QED
      BY <2>1, <2>2, <3>1, <3>2 DEF StoredOrChosen
  <2>5. CASE Ref \notin fs
    <3>1. val'[Ref] = val[Ref] /\ (Ref \in modified' <=> Ref \in modified)
      BY <2>1, <2>3, <2>5
    <3>2. UNCHANGED reference
      BY <2>5 DEF ReadBook, Reads
    <3> QED
      BY <2>1, <2>2, <3>1, <3>2 DEF LinkedInv, StoredOrChosen
  <2> QED
    BY <2>4, <2>5
<1> QED
  BY <1>3, <1>4 DEF DoLoad

(* Save writes what is marked, and the reference of a row that is not      *)
(* marked stays as it is shown; reading back stores what was chosen.       *)
LEMMA SaveShows ==
  ASSUME LinkedInv, Save,
         reference' = IF modified \ modified' # {} THEN "stored" ELSE reference
  PROVE  StoredOrChosen'
<1>1. CASE Reload
  <2>1. Ref \in Fields
    BY RecordAssumption DEF Fields
  <2>2. DoLoad(Fields) /\ UNCHANGED <<table, rkey>>
    BY <1>1 DEF Reload, LinkedInv
  <2>3. KeyReads = IF key = Null THEN {} ELSE {key}
    BY DEF KeyReads, LinkedInv, KeyLives
  <2>4. CASE UNCHANGED <<fields, is_new>>
    <3>1. UNCHANGED reference
      BY <2>4 DEF fields
    <3> QED
      BY <2>2, <2>4, <3>1 DEF LinkedInv, StoredOrChosen, table, rkey, fields, Exists, Row
  <2>5. CASE ~UNCHANGED <<fields, is_new>>
    <3>1. /\ key # Null /\ Exists(key)
          /\ val' = [f \in Fields |-> Selected(key, f)]
          /\ modified' = modified \ Fields /\ ~is_new'
      BY <2>2, <2>3, <2>5 DEF DoLoad, Exists, Row
    <3>2. key' = key /\ db' = db
      BY <2>2 DEF table, rkey
    <3>3. val'[Ref] = db[key][Ref] /\ Ref \notin modified'
      BY <2>1, <3>1, RecordAssumption DEF Selected
    <3>4. reference' # "chosen"
      BY <3>3 DEF LinkedInv, StoredOrChosen
    <3> QED
      BY <3>1, <3>2, <3>3, <3>4 DEF StoredOrChosen
  <2> QED
    BY <2>4, <2>5
<1>2. CASE ~Reload
  <2>1. UNCHANGED fields
    BY <1>2 DEF Save, Insert, InsertReplyLost, Update, UpdateReplyLost, ReloadThrows
  <2>2. UNCHANGED <<val, modified, reference>>
    BY <2>1 DEF fields
  <2>3. ASSUME reference = "stored"
        PROVE  UNCHANGED <<key, is_new>> /\ db'[key][Ref] = db[key][Ref]
    <3>1. Ref \notin modified /\ ~is_new
      BY <2>3 DEF LinkedInv, StoredOrChosen
    <3>2. UNCHANGED <<key, is_new>>
      BY <1>2, <3>1 DEF Save, Insert, InsertReplyLost, Update, UpdateReplyLost, ReloadThrows, rkey
    <3>3. ASSUME Updated PROVE db'[key][Ref] = db[key][Ref]
      <4>1. PICK i \in KeyReads :
              db' = IF ~Exists(i) THEN db
                    ELSE [db EXCEPT ![i] = [c \in Columns |->
                             IF c \in SavedColumns THEN Sent(val[c]) ELSE @[c]]]
        BY <3>3 DEF Updated
      <4>2. i = key
        BY <4>1 DEF KeyReads, LinkedInv, KeyLives
      <4>3. CASE Exists(key)
        <5>1. key \in Ids
          BY <4>3 DEF Exists, Row
        <5>2. db'[key] = [c \in Columns |->
                             IF c \in SavedColumns THEN Sent(val[c]) ELSE db[key][c]]
          BY <4>1, <4>2, <4>3, <5>1 DEF LinkedInv, TypeOK
        <5> QED
          BY <3>1, <5>2, RecordAssumption DEF SavedColumns
      <4> QED
        BY <4>1, <4>2, <4>3
    <3> QED
      BY <1>2, <3>1, <3>2, <3>3
         DEF Save, Insert, InsertReplyLost, Update, UpdateReplyLost, ReloadThrows, table
  <2> QED
    BY <2>2, <2>3 DEF LinkedInv, StoredOrChosen
<1> QED
  BY <1>1, <1>2

(* A call of the author's form that does not save leaves the reference as  *)
(* it is; one that does marks nothing.                                     *)
LEMMA AuthorKeeps ==
  ASSUME LinkedInv, LoadAuthor \/ NewAuthor \/ EditAuthor \/ UndoAuthor \/ SaveAuthor
  PROVE  /\ TypeOK' /\ KeyLives' /\ EditsOwnTheirBytes'
         /\ visible_fields' = Fields /\ choice' \in Opt(AuthorIds)
         /\ UNCHANGED <<db, key, modified, is_new>>
         /\ LoadAuthor \/ NewAuthor \/ EditAuthor \/ UndoAuthor => val'[Ref] = val[Ref]
<1>1. /\ val' \in {val} \cup {[val EXCEPT ![Ref] = i] : i \in AuthorIds}
      /\ freed' \in {freed, freed \ {Ref}}
      /\ UNCHANGED <<table, modified, is_new, visible_fields, rkey, pc, choice>>
  BY DEF LoadAuthor, NewAuthor, EditAuthor, UndoAuthor, SaveAuthor, AuthorStep
<1>2. val' \in [Fields -> Opt(Values)] /\ freed' \subseteq freed
  BY <1>1, LinkedAssumption DEF LinkedInv, TypeOK, Opt
<1>3. TypeOK' /\ EditsOwnTheirBytes'
  <2>1. UNCHANGED <<db, nextId, key, keyFreed>>
    BY <1>1 DEF table, rkey
  <2>2. TypeOK'
    BY <1>1, <1>2, <2>1 DEF LinkedInv, TypeOK
  <2> QED
    BY <1>1, <1>2, <2>2 DEF LinkedInv, EditsOwnTheirBytes
<1>4. ASSUME LoadAuthor \/ NewAuthor \/ EditAuthor \/ UndoAuthor PROVE val'[Ref] = val[Ref]
  BY <1>4 DEF LoadAuthor, NewAuthor, EditAuthor, UndoAuthor, AuthorStep,
              Author!Load, Author!New, Author!Modify, Author!Undo, Author!rkey
<1> QED
  BY <1>1, <1>3, <1>4 DEF LinkedInv, KeyLives, table, rkey

LEMMA LinkedStep ==
  ~KeyIsColumn /\ LinkedInv /\ [MCNext]_<<linked, reference>> => LinkedInv'
<1> SUFFICES ASSUME ~KeyIsColumn, LinkedInv, [MCNext]_<<linked, reference>>
             PROVE  LinkedInv'
  OBVIOUS
<1>1. CASE UNCHANGED <<linked, reference>>
  BY <1>1 DEF linked, vars, table, fields, rkey, LinkedInv, TypeOK, Exists, Row, KeyLives,
              EditsOwnTheirBytes, StoredOrChosen
<1>2. CASE LoadBook /\ ReadBook({Ref})
  <2>1. DoLoad(Fields) /\ UNCHANGED <<table, rkey>>
    BY <1>2 DEF LoadBook, BookStep, Load, LinkedInv
  <2>2. {Ref} \cap Fields = {Ref}
    BY RecordAssumption DEF Fields
  <2>3. StoredOrChosen'
    BY <1>2, <2>1, <2>2, ReadShows
  <2> QED
    BY <1>2, <2>3, BookKeeps DEF LinkedInv
<1>3. CASE UndoBook /\ ~is_new /\ ReadBook({Ref})
  <2>1. DoLoad(Fields) /\ UNCHANGED <<table, rkey>>
    BY <1>3 DEF UndoBook, BookStep, Undo, LinkedInv
  <2>2. {Ref} \cap Fields = {Ref}
    BY RecordAssumption DEF Fields
  <2>3. StoredOrChosen'
    BY <1>3, <2>1, <2>2, ReadShows
  <2> QED
    BY <1>3, <2>3, BookKeeps DEF LinkedInv
<1>4. CASE RefreshBook /\ ReadBook({Ref} \ modified)
  <2>1. DoLoad(Fields \ modified) /\ UNCHANGED <<table, rkey>>
    BY <1>4 DEF RefreshBook, BookStep, Refresh
  <2>2. {Ref} \cap (Fields \ modified) = {Ref} \ modified
    BY RecordAssumption DEF Fields
  <2>3. StoredOrChosen'
    BY <1>4, <2>1, <2>2, ReadShows
  <2> QED
    BY <1>4, <2>3, BookKeeps DEF LinkedInv
<1>5. CASE (NewBook \/ UndoBook) /\ reference' = "none"
  BY <1>5, BookKeeps DEF LinkedInv, StoredOrChosen
<1>6. CASE SaveBook /\ reference' = IF modified \ modified' # {} THEN "stored" ELSE reference
  <2>1. StoredOrChosen'
    BY <1>6, SaveShows DEF SaveBook, BookStep
  <2> QED
    BY <1>6, <2>1, BookKeeps DEF LinkedInv
<1>7. CASE MoveBook /\ reference' = IF reference = "stored" THEN "none" ELSE reference
  <2>1. UNCHANGED modified
    BY <1>7 DEF MoveBook, BookStep, MoveKey, fields
  <2> QED
    BY <1>7, <2>1, BookKeeps DEF LinkedInv, StoredOrChosen
<1>8. CASE ApplySelection /\ reference' = "chosen"
  <2>1. Ref \in modified'
    BY <1>8 DEF ApplySelection, BookStep, Modify
  <2> QED
    BY <1>8, <2>1, BookKeeps DEF LinkedInv, StoredOrChosen
<1>9. CASE EditBook /\ UNCHANGED reference
  <2>1. PICK f \in Fields \ {Ref}, x \in Opt(Values) : Modify(f, x)
    BY <1>9, LinkedAssumption DEF EditBook, BookStep
  <2>2. val'[Ref] = val[Ref] /\ (Ref \in modified' <=> Ref \in modified)
        /\ UNCHANGED <<db, key, is_new>>
    BY <2>1 DEF Modify, table, rkey, LinkedInv, TypeOK
  <2> QED
    BY <1>9, <2>2, BookKeeps DEF LinkedInv, StoredOrChosen
<1>10. CASE ChooseRow /\ UNCHANGED reference
  BY <1>10 DEF ChooseRow, vars, table, fields, rkey, LinkedInv, TypeOK, Exists, Row, KeyLives,
               EditsOwnTheirBytes, StoredOrChosen, Opt
<1>11. CASE SaveAuthor /\ reference' = IF val' # val /\ Ref \notin modified
                                            THEN "inserted" ELSE reference
  BY <1>11, AuthorKeeps DEF LinkedInv, StoredOrChosen
<1>12. CASE OthersEdit /\ UNCHANGED reference
  <2>1. PICK i \in Ids, c \in Columns \ {Ref}, x \in Titles : OtherUpdate(i, c, x)
    BY <1>12 DEF OthersEdit
  <2>2. /\ UNCHANGED <<val, modified, key, is_new>>
        /\ db' = [db EXCEPT ![i][c] = x]
    BY <2>1 DEF OtherUpdate, fields, rkey
  <2>3. ASSUME reference = "stored" PROVE db'[key][Ref] = db[key][Ref]
    BY <2>2 DEF LinkedInv, TypeOK
  <2> QED
    BY <1>12, <2>2, <2>3, BookKeeps DEF LinkedInv, StoredOrChosen
<1>13. CASE (LoadAuthor \/ NewAuthor \/ EditAuthor \/ UndoAuthor)
            /\ UNCHANGED reference
  BY <1>13, AuthorKeeps DEF LinkedInv, StoredOrChosen
<1> QED
  BY <1>1, <1>2, <1>3, <1>4, <1>5, <1>6, <1>7, <1>8, <1>9, <1>10, <1>11, <1>12, <1>13
     DEF MCNext

(* rec.cpp:34 and 432: for any tables, any number of authors and any order *)
(* of calls on the three objects, the author that the book's form shows is *)
(* the stored one or the one that its Save will store, unless the author's *)
(* own form has inserted it.                                               *)
THEOREM RecordShownReferenceIsSaved ==
  ASSUME ~KeyIsColumn PROVE MCSpec => []ShownReferenceIsSaved
<1>1. LinkedInv => ShownReferenceIsSaved
  BY DEF LinkedInv, StoredOrChosen, ShownReferenceIsSaved
<1>2. LinkedInv /\ [MCNext]_<<linked, reference>> => LinkedInv'
  BY LinkedStep
<1> QED
  BY <1>1, <1>2, LinkedInitInv, PTL DEF MCSpec

(* Ky-DataFlowRR.md:11: whichever of its columns the form of a book edits, *)
(* and other users change, and whatever the forms do to the reference that *)
(* they share, a call of either form changes no column of an existing book *)
(* that the user did not edit.                                             *)
THEOREM LinkedColumnsSurvive ==
  ASSUME ~KeyIsColumn PROVE MCSpec => UneditedColumnsSurvive
<1>1. LinkedInv /\ [MCNext]_<<linked, reference>> => [Survive]_vars
  <2> SUFFICES ASSUME LinkedInv, [MCNext]_<<linked, reference>>
               PROVE  UNCHANGED vars \/ Survive
    OBVIOUS
  <2>1. CASE \/ LoadBook \/ RefreshBook \/ NewBook \/ UndoBook \/ SaveBook
             \/ EditBook \/ MoveBook \/ ApplySelection \/ OthersEdit
    BY <2>1, BookIsStep, SurviveStep DEF LinkedInv
  <2>2. CASE LoadAuthor \/ NewAuthor \/ EditAuthor \/ UndoAuthor \/ SaveAuthor
    BY <2>2, AuthorKeeps, SurviveFrame
  <2>3. CASE ChooseRow \/ UNCHANGED <<linked, reference>>
    BY <2>3 DEF ChooseRow, linked
  <2> QED
    BY <2>1, <2>2, <2>3 DEF MCNext
<1>2. LinkedInv /\ [MCNext]_<<linked, reference>> => LinkedInv'
  BY LinkedStep
<1> QED
  BY <1>1, <1>2, LinkedInitInv, PTL DEF MCSpec, UneditedColumnsSurvive, Survive

-----------------------------------------------------------------------------
(* What each of the two forms edits is its own, although each writes a     *)
(* field of the other, and the author's key may view a result that is gone.*)
BytesOwned == EditsOwnTheirBytes /\ Author!EditsOwnTheirBytes

LEMMA BookStepOwned ==
  ASSUME BytesOwned,
         \/ LoadBook \/ RefreshBook \/ NewBook \/ UndoBook \/ SaveBook
         \/ EditBook \/ MoveBook \/ ApplySelection \/ ChooseRow \/ OthersEdit
  PROVE  BytesOwned'
<1>1. UNCHANGED author
  BY DEF LoadBook, RefreshBook, NewBook, UndoBook, SaveBook, EditBook, MoveBook,
         ApplySelection, ChooseRow, OthersEdit, BookStep
<1>2. Author!EditsOwnTheirBytes'
  BY <1>1 DEF BytesOwned, author, Author!EditsOwnTheirBytes
<1>3. EditsOwnTheirBytes'
  <2>1. CASE ApplySelection
    BY <2>1 DEF ApplySelection, BookStep, Modify, BytesOwned, EditsOwnTheirBytes
  <2>2. CASE ChooseRow
    BY <2>2 DEF ChooseRow, vars, fields, BytesOwned, EditsOwnTheirBytes
  <2>3. CASE \/ LoadBook \/ RefreshBook \/ NewBook \/ UndoBook \/ SaveBook
             \/ EditBook \/ MoveBook \/ OthersEdit
    <3>1. Next
      BY <2>3, EditIsStep DEF LoadBook, RefreshBook, NewBook, UndoBook, SaveBook, MoveBook,
                              BookStep, Next
    <3> QED
      BY <3>1, EditsStep DEF BytesOwned
  <2> QED
    BY <2>1, <2>2, <2>3
<1> QED
  BY <1>2, <1>3 DEF BytesOwned

LEMMA AuthorStepOwned ==
  ASSUME BytesOwned, LoadAuthor \/ NewAuthor \/ EditAuthor \/ UndoAuthor \/ SaveAuthor
  PROVE  BytesOwned'
<1>1. freed' \subseteq freed /\ modified' = modified
  BY DEF LoadAuthor, NewAuthor, EditAuthor, UndoAuthor, SaveAuthor, AuthorStep
<1>2. \/ Author!Load \/ Author!New \/ Author!Modify(about, Blank)
      \/ Author!Undo \/ Author!Save
  BY DEF LoadAuthor, NewAuthor, EditAuthor, UndoAuthor, SaveAuthor, AuthorStep
<1>3. Author!EditsOwnTheirBytes'
  <2> USE DEF BytesOwned, Author!EditsOwnTheirBytes
  <2>1. ASSUME NEW fs, Author!DoLoad(fs) PROVE amodified' \cap afreed' = {}
    BY <2>1 DEF Author!DoLoad, Author!fields
  <2>2. ASSUME Author!Blanked PROVE amodified' \cap afreed' = {}
    BY <2>2 DEF Author!Blanked
  <2>3. CASE Author!Modify(about, Blank)
    BY <2>3 DEF Author!Modify
  <2>4. CASE Author!Load \/ Author!New \/ Author!Undo \/ Author!Reload
    BY <2>1, <2>2, <2>4 DEF Author!Load, Author!New, Author!Undo, Author!Reload
  <2>5. CASE \/ Author!Insert \/ Author!InsertReplyLost
             \/ Author!Update \/ Author!UpdateReplyLost \/ Author!ReloadThrows
    BY <2>5 DEF Author!Insert, Author!InsertReplyLost, Author!Update,
                Author!UpdateReplyLost, Author!ReloadThrows, Author!fields
  <2> QED
    BY <1>2, <2>3, <2>4, <2>5 DEF Author!Save
<1> QED
  BY <1>1, <1>3 DEF BytesOwned, EditsOwnTheirBytes

(* rec.cpp:34: no Save of either form sends bytes from freed memory: what  *)
(* one form writes into a field of the other is a copy, and no call on the *)
(* one makes what the other's user entered a view into a result.           *)
THEOREM LinkedFormsOwnTheirBytes ==
  LinkedSpec => [](EditsOwnTheirBytes /\ Author!EditsOwnTheirBytes)
<1>1. LinkedInit => BytesOwned
  BY DEF LinkedInit, BytesOwned, EditsOwnTheirBytes, Author!EditsOwnTheirBytes
<1>2. BytesOwned /\ [LinkedNext]_linked => BytesOwned'
  <2>1. CASE UNCHANGED linked
    BY <2>1 DEF linked, vars, author, fields, BytesOwned, EditsOwnTheirBytes,
                Author!EditsOwnTheirBytes
  <2> QED
    BY <2>1, BookStepOwned, AuthorStepOwned DEF LinkedNext
<1>3. BytesOwned => EditsOwnTheirBytes /\ Author!EditsOwnTheirBytes
  BY DEF BytesOwned
<1> QED
  BY <1>1, <1>2, <1>3, PTL DEF LinkedSpec
=============================================================================
