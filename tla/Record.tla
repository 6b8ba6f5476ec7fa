------------------------------- MODULE Record -------------------------------
(***************************************************************************)
(* One record on a form: Record and RField of src/libkycore/rec.cpp, with  *)
(* the INSERT, UPDATE, DELETE and SELECT that SqlGenius generates for it.  *)
(*                                                                         *)
(* The record is used by one thread.  Other users change the same rows.    *)
(* Its key, rkey.srcRField, is a field of another object: the id of the    *)
(* current row of a list, which the list moves (SetCurrentRow), or a       *)
(* reference column of another record, which that record reloads.          *)
(*                                                                         *)
(* Save is two statements, the write and the SELECT that reads the row     *)
(* back, and other users may act between them.  SqlDB executes a statement *)
(* by its meaning or throws; an exception of a SELECT changes nothing and  *)
(* is a stuttering step.                                                   *)
(***************************************************************************)
EXTENDS Integers, FiniteSets

CONSTANTS Columns,      \* the columns of the record's table, without id
          Ref,          \* one of them, a reference to another table
          RefName,      \* a joined field: a column of the referenced row
          Values, Null, NoRow,
          Blank,        \* the empty string, what NULL is sent as
          Default,      \* the default of each field, or Null
          MaxId,        \* bound on the ids the server hands out
          KeyIsColumn   \* whether the key is a column of another record

Fields == Columns \cup {RefName}
Ids == 1..MaxId
Opt(S) == S \cup {Null}

ASSUME RecordAssumption ==
    /\ Ref \in Columns /\ RefName \notin Columns
    /\ Blank \in Values /\ Null \notin Values
    /\ Default \in [Fields -> Opt(Values)]
    /\ MaxId \in Nat \ {0} /\ Null \notin Nat
    /\ NoRow \notin [Columns -> Opt(Values)]
    /\ KeyIsColumn \in BOOLEAN

VARIABLES db, nextId,   \* the table: a row of each id, and the sequence of ids
          val,          \* RField::val, Null when is_null
          modified,     \* the fields with is_modified
          freed,        \* the fields whose val views a destroyed result
          is_new,
          visible_fields,
          key, keyFreed, \* rkey.srcRField: its val, and whether it is freed
          pc            \* "reload" between the two statements of Save

table == <<db, nextId>>
fields == <<val, modified, freed>>
rkey == <<key, keyFreed>>
vars == <<table, fields, is_new, visible_fields, rkey, pc>>

Row(i) == IF i \in Ids THEN db[i] ELSE NoRow
Exists(i) == Row(i) # NoRow
Rows == [Columns -> Opt(Values)]

Init ==
    /\ nextId = 2
    /\ \E row \in Rows : db = [i \in Ids |-> IF i = 1 THEN row ELSE NoRow]
    /\ val = [f \in Fields |-> Null]
    /\ modified = {} /\ freed = {}
    /\ is_new \in BOOLEAN               \* the constructor leaves it unset
    /\ visible_fields = {}
    /\ key \in {1, Null} /\ keyFreed = FALSE
    /\ pc = "idle"

-----------------------------------------------------------------------------
(* What reading the key yields: nothing if it is null, when getIdFieldValue *)
(* throws, and any id at all, or none, from memory that was freed.          *)
KeyReads ==
    IF key = Null THEN {} ELSE IF keyFreed THEN Ids \cup {0} ELSE {key}

(* NULL is bound as an empty string. *)
Sent(v) == IF v = Null THEN Blank ELSE v

(* The referenced row of v is called v; nothing references a blank. *)
NameOf(v) == IF v = Blank THEN Null ELSE v

(* A reference that the user changed is joined on the user's value. *)
\* Mutant: the join always follows the stored reference.
StandardJoin(i) == NameOf(db[i][Ref])
Joined(i) ==
    NameOf(IF Ref \in modified THEN Sent(val[Ref]) ELSE db[i][Ref])

Selected(i, f) == IF f = RefName THEN Joined(i) ELSE db[i][f]

(* doLoad(): without a row, or without fields, nothing changes.  The views *)
(* point into a result that is destroyed on return.                        *)
DoLoad(fs) ==
    \/ /\ fs = {} \/ (\E i \in KeyReads : ~Exists(i))
       /\ UNCHANGED <<fields, is_new>>
    \/ /\ fs # {}
       /\ \E i \in KeyReads :
            /\ Exists(i)
            /\ val' = [f \in Fields |-> IF f \in fs THEN Selected(i, f) ELSE val[f]]
       /\ modified' = modified \ fs
       /\ freed' = {f \in freed \cup fs : val'[f] # Null}
       /\ is_new' = FALSE

-----------------------------------------------------------------------------
(* The calls of the form.                                                  *)

\* Mutant: val views the client's buffer instead of the field's own copy.
ModifyByView(f, v) ==
    /\ pc = "idle"
    /\ val' = [val EXCEPT ![f] = v]
    /\ modified' = modified \cup {f} /\ freed' = freed \cup {f}
    /\ UNCHANGED <<table, is_new, visible_fields, rkey, pc>>

Modify(f, v) ==
    /\ pc = "idle"
    /\ val' = [val EXCEPT ![f] = v]
    /\ modified' = modified \cup {f} /\ freed' = freed \ {f}
    /\ UNCHANGED <<table, is_new, visible_fields, rkey, pc>>

(* Defaults are not modifications of the user. *)
Blanked == val' = Default /\ modified' = {} /\ freed' = {} /\ is_new' = TRUE

New ==
    /\ pc = "idle"
    /\ Blanked
    /\ UNCHANGED <<table, visible_fields, rkey, pc>>

SetVisibleFields(fs) ==
    /\ pc = "idle"
    /\ visible_fields' = fs
    /\ UNCHANGED <<table, fields, is_new, rkey, pc>>

Load ==
    /\ pc = "idle"
    /\ DoLoad(visible_fields)
    /\ UNCHANGED <<table, visible_fields, rkey, pc>>

\* Mutant: the edited fields are read too.
RefreshReadsAll ==
    /\ pc = "idle"
    /\ DoLoad(Fields)
    /\ UNCHANGED <<table, visible_fields, rkey, pc>>

Refresh ==
    /\ pc = "idle"
    /\ DoLoad(Fields \ modified)
    /\ UNCHANGED <<table, visible_fields, rkey, pc>>

Undo ==
    /\ pc = "idle"
    /\ IF is_new THEN Blanked ELSE DoLoad(visible_fields)
    /\ UNCHANGED <<table, visible_fields, rkey, pc>>

-----------------------------------------------------------------------------
(* Save: the write.  SavedColumns are those of gen_insert and gen_update;  *)
(* without one of them Save returns at once.  An exception of the write    *)
(* may come before the server executed it, when nothing happened, or       *)
(* after it, when only the reply is lost.                                  *)

\* Mutant: every column of the table is written.
AllColumns == {c \in Columns : modified # {}}
SavedColumns == {c \in Columns : c \in modified}

(* INSERT ... RETURNING id; the server gives the other columns NULL. *)
Inserted ==
    /\ SavedColumns # {}
    /\ nextId \in Ids
    /\ db' = [db EXCEPT ![nextId] = [c \in Columns |->
                 IF c \in SavedColumns THEN Sent(val[c]) ELSE Null]]
    /\ nextId' = nextId + 1

\* Mutant: only the reload that follows clears is_new.
InsertLeavesNew ==
    /\ pc = "idle" /\ is_new
    /\ Inserted
    /\ key' = nextId /\ keyFreed' = FALSE
    /\ pc' = "reload"
    /\ UNCHANGED <<fields, is_new, visible_fields>>

\* Mutant: the key stays that of the earlier row.
InsertKeepsKey ==
    /\ pc = "idle" /\ is_new
    /\ Inserted
    /\ is_new' = FALSE
    /\ pc' = "reload"
    /\ UNCHANGED <<fields, visible_fields, rkey>>

Insert ==
    /\ pc = "idle" /\ is_new
    /\ Inserted
    /\ key' = nextId /\ keyFreed' = FALSE
    /\ is_new' = FALSE
    /\ pc' = "reload"
    /\ UNCHANGED <<fields, visible_fields>>

InsertReplyLost ==
    /\ pc = "idle" /\ is_new
    /\ Inserted
    /\ UNCHANGED <<fields, is_new, visible_fields, rkey, pc>>

(* UPDATE ... WHERE id; how many rows it changed is not looked at. *)
Updated ==
    /\ SavedColumns # {}
    /\ \E i \in KeyReads :
         db' = IF ~Exists(i) THEN db
               ELSE [db EXCEPT ![i] = [c \in Columns |->
                        IF c \in SavedColumns THEN Sent(val[c]) ELSE @[c]]]
    /\ UNCHANGED nextId

Update ==
    /\ pc = "idle" /\ ~is_new
    /\ Updated
    /\ pc' = "reload"
    /\ UNCHANGED <<fields, is_new, visible_fields, rkey>>

UpdateReplyLost ==
    /\ pc = "idle" /\ ~is_new
    /\ Updated
    /\ UNCHANGED <<fields, is_new, visible_fields, rkey, pc>>

(* Save: the read after the write, and its exception. *)
Reload ==
    /\ pc = "reload"
    /\ DoLoad(visible_fields)
    /\ pc' = "idle"
    /\ UNCHANGED <<table, visible_fields, rkey>>

ReloadThrows ==
    /\ pc = "reload"
    /\ pc' = "idle"
    /\ UNCHANGED <<table, fields, is_new, visible_fields, rkey>>

(* Delete leaves the object as it is. *)
Delete ==
    /\ pc = "idle" /\ ~is_new
    /\ \E i \in KeyReads : Exists(i) /\ db' = [db EXCEPT ![i] = NoRow]
    /\ UNCHANGED <<nextId, fields, is_new, visible_fields, rkey, pc>>

-----------------------------------------------------------------------------
(* The owner of the key: setId() by the SetCurrentRow() of a list, which   *)
(* the key then owns (~KeyIsColumn), or set() by a record that loads the   *)
(* column, a view into its result (KeyIsColumn).  Either shows any id      *)
(* handed out so far.  A list that shows its id also moves the key by      *)
(* next() (rec.cpp:466), to a view of the list's result: such a list is    *)
(* not the owner of a key here.                                            *)
MoveKey(k) ==
    /\ pc = "idle"
    /\ k \in Opt(1..(nextId - 1))
    /\ key' = k
    /\ keyFreed' = (KeyIsColumn /\ k # Null)
    /\ UNCHANGED <<table, fields, is_new, visible_fields, pc>>

(* Another user changes or deletes a row, between any two statements. *)
OtherUpdate(i, c, v) ==
    /\ Exists(i)
    /\ db' = [db EXCEPT ![i][c] = v]
    /\ UNCHANGED <<nextId, fields, is_new, visible_fields, rkey, pc>>

OtherDelete(i) ==
    /\ Exists(i)
    /\ db' = [db EXCEPT ![i] = NoRow]
    /\ UNCHANGED <<nextId, fields, is_new, visible_fields, rkey, pc>>

Save ==
    \/ Insert \/ InsertReplyLost \/ Update \/ UpdateReplyLost
    \/ Reload \/ ReloadThrows

Other ==
    \E i \in Ids :
        \/ OtherDelete(i)
        \/ \E c \in Columns, v \in Opt(Values) : OtherUpdate(i, c, v)

Next ==
    \/ \E f \in Fields, v \in Opt(Values) : Modify(f, v)
    \/ New \/ Load \/ Refresh \/ Undo \/ Save \/ Delete
    \/ \E fs \in SUBSET Fields : SetVisibleFields(fs)
    \/ \E k \in Opt(Ids) : MoveKey(k)
    \/ Other

Spec == Init /\ [][Next]_vars

-----------------------------------------------------------------------------
(* Types; rows exist only for ids that were handed out, and Save reads     *)
(* back what is in the table: a record that is new no more.                *)
TypeOK ==
    /\ nextId \in 2..(MaxId + 1)
    /\ db \in [Ids -> Rows \cup {NoRow}]
    /\ \A i \in Ids : i >= nextId => db[i] = NoRow
    /\ val \in [Fields -> Opt(Values)]
    /\ modified \subseteq Fields /\ freed \subseteq Fields
    /\ is_new \in BOOLEAN
    /\ visible_fields \subseteq Fields
    /\ key \in Opt(1..(nextId - 1)) /\ keyFreed \in BOOLEAN
    /\ pc \in {"idle", "reload"} /\ (pc = "reload" => ~is_new)

(* ArchInter_controversial.md:44: what the user entered is copied into the *)
(* field.  The values that Save sends are never read from freed memory,    *)
(* and the user's edits never disappear with a result.                     *)
EditsOwnTheirBytes == modified \cap freed = {}

(* Ky-DataFlowRR.md:11: a column of an existing row that somebody changes  *)
(* keeps its value against every call of this record that did not edit it, *)
(* also the Save of an edit of another column that was made, or loaded,    *)
(* before the change.                                                      *)
UneditedColumnsSurvive ==
    [][\A i \in Ids, c \in Columns :
          Exists(i) /\ Row(i)' # NoRow /\ db'[i][c] # db[i][c]
              => Other \/ c \in modified]_vars
=============================================================================
