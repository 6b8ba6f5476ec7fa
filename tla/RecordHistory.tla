---------------------------- MODULE RecordHistory ----------------------------
(***************************************************************************)
(* Record with history variables: what the record on the form is, the      *)
(* columns that other users changed in its row since Save wrote it, the    *)
(* row that was current when a column was edited, and the columns that no  *)
(* load has shown since the key was moved.                                 *)
(***************************************************************************)
EXTENDS Record

VARIABLES origin,       \* "unknown", "begun" by New, "turned" from that by
                        \* Refresh, or the "row" that was read or inserted
          overwritten, editedFor, unseen

history == <<origin, overwritten, editedFor, unseen>>

HistoryInit ==
    /\ Init /\ origin = "unknown" /\ overwritten = {}
    /\ editedFor = [c \in Columns |-> Null] /\ unseen = {}

(* Whether a SELECT of fs finds a row.  A key in freed memory may read as  *)
(* any id: what the SELECT found then shows in what it left.  The history  *)
(* only records, and disables no step, whatever the step did.              *)
ReadARow(fs) ==
    /\ fs # {} /\ \E i \in KeyReads : Exists(i)
    /\ keyFreed => fs \cap modified' = {} /\ ~is_new'

LoadSeen ==
    IF ReadARow(visible_fields)
        THEN origin' = "row" /\ unseen' = unseen \ visible_fields
        ELSE UNCHANGED <<origin, unseen>>

RefreshSeen ==
    origin' = IF ~ReadARow(Fields \ modified) THEN origin
              ELSE IF origin \in {"begun", "turned"} THEN "turned"
              ELSE "row"

HistoryNext ==
    \/ /\ \E f \in Fields, x \in Opt(Values) :
            /\ Modify(f, x)
            /\ editedFor' = [c \in Columns |-> IF c = f THEN key ELSE editedFor[c]]
       /\ UNCHANGED <<origin, overwritten, unseen>>
    \/ New /\ origin' = "begun" /\ UNCHANGED <<overwritten, editedFor, unseen>>
    \/ /\ Undo /\ IF is_new THEN origin' = "begun" /\ UNCHANGED unseen ELSE LoadSeen
       /\ UNCHANGED <<overwritten, editedFor>>
    \/ Load /\ LoadSeen /\ UNCHANGED <<overwritten, editedFor>>
    \/ Refresh /\ RefreshSeen /\ UNCHANGED <<overwritten, editedFor, unseen>>
    \/ Delete /\ UNCHANGED history
    \/ /\ Insert /\ origin' = "row" /\ overwritten' = {}
       /\ editedFor' = [c \in Columns |-> nextId] /\ UNCHANGED unseen
    \/ InsertReplyLost /\ UNCHANGED history
    \/ Update /\ overwritten' = {} /\ UNCHANGED <<origin, editedFor, unseen>>
    \/ UpdateReplyLost /\ UNCHANGED history
    \/ Reload /\ LoadSeen /\ overwritten' = {} /\ UNCHANGED editedFor
    \/ ReloadThrows /\ overwritten' = {} /\ UNCHANGED <<origin, editedFor, unseen>>
    \/ \E fs \in SUBSET Fields : SetVisibleFields(fs) /\ UNCHANGED history
    \/ /\ \E k \in Opt(Ids) : MoveKey(k) /\ unseen' = Columns
       /\ UNCHANGED <<origin, overwritten, editedFor>>
    \/ \E i \in Ids : OtherDelete(i) /\ UNCHANGED history
    \/ \E i \in Ids, c \in Columns, x \in Opt(Values) :
         /\ OtherUpdate(i, c, x)
         /\ overwritten' =
              IF pc = "reload" /\ i = key THEN overwritten \cup {c} ELSE overwritten
         /\ UNCHANGED <<origin, editedFor, unseen>>

HistorySpec == HistoryInit /\ [][HistoryNext]_<<vars, history>>

Updates == Update \/ UpdateReplyLost

-----------------------------------------------------------------------------
(* An edit of a column is forgotten by Save only once the row holds it, or *)
(* another user changed the column after it: whatever fails, or happens    *)
(* between the write and the read, the user can save again.  Load, Undo    *)
(* and New are the calls that discard edits; Refresh is none of them.      *)
StoredBeforeForgotten ==
    [][\A c \in (modified \ modified') \cap Columns :
          IF pc = "reload"
              THEN db[key][c] = Sent(val[c]) \/ c \in overwritten
              ELSE Load \/ Undo \/ New]_vars

(* rec.cpp:174 and 134: whatever saves, lost replies, failed reads and      *)
(* moves came before, Save inserts no record that was read from the table  *)
(* or whose INSERT returned, and it updates a record that New() has begun  *)
(* only if a Refresh in between found the row that the key still names     *)
(* ("turned": that it then does is what NewIsInserted is about).  Of a     *)
(* record that is neither, is_new is what its memory held (rec.h:60).      *)
SaveKnowsTheRow ==
    IF is_new THEN origin \in {"unknown", "begun"} ELSE origin # "begun"

(* rec.cpp:206 and 176: an edit is written to the row that was the current *)
(* one when it was made, or that was inserted with it, although the list   *)
(* moves the key: unless no load has shown its column since the move.      *)
EditsReachTheirRow ==
    [][Updates /\ Exists(key)
          => \A c \in SavedColumns : editedFor[c] = key \/ c \in unseen]_vars

(* SqlGeniusSmartJOIN.md: after Refresh the joined field belongs to the    *)
(* reference that the form shows, the stored one or the user's.            *)
RefreshJoinsWhatIsShown ==
    [][Refresh /\ RefName \notin modified /\ key # Null /\ Exists(key)
          => val'[RefName] = NameOf(val'[Ref])]_vars

(* Ky-DataFlowRR.md:24: Save() of a new object generates an INSERT.  A     *)
(* record that New() began, and that was not loaded since, changes no row  *)
(* that exists, whatever Refresh does in between.                          *)
NewIsInserted == [][Updates => origin \notin {"begun", "turned"}]_vars
=============================================================================
