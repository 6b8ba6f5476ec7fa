--------------------------- MODULE LinkedRecords ---------------------------
(***************************************************************************)
(* The form of a book, the list from which its author is chosen, and the   *)
(* form of that author: two Records of src/libkycore/rec.cpp and what      *)
(* Recordset does to their keys.                                           *)
(*                                                                         *)
(* The book's form is the record of module Record, with a key that belongs *)
(* to the list of books (~KeyIsColumn).  The author's form is an instance  *)
(* of it whose key is the reference of the book's form (RField::rkey), so  *)
(* that either moves the other's row.  One thread uses both: a call on one *)
(* runs to its end before a call on the other.  Both show all their        *)
(* fields.  Other users change the other columns of the books between any  *)
(* two statements.                                                         *)
(***************************************************************************)
EXTENDS Record

CONSTANTS about, of, \* a reference of the author, and what is shown of it
          Authors,   \* bound on the ids of the authors
          Edited,    \* the fields of a book that its form edits, beside the reference
          Titles     \* what the other columns hold; a text of these is entered

AuthorIds == 1..Authors

ASSUME LinkedAssumption ==
    /\ Authors \in Nat /\ AuthorIds \subseteq Values
    /\ Edited \subseteq Fields \ {Ref} /\ Titles \subseteq Opt(Values)

VARIABLES adb, anext, aval, amodified, afreed, anew, afields, apc, \* the author
          choice      \* rkey.srcRField of the list of authors: its current row

author == <<adb, anext, aval, amodified, afreed, anew, afields, apc>>
linked == <<vars, author, choice>>

Author == INSTANCE Record WITH
    Columns <- {about}, Ref <- about, RefName <- of,
    Values <- {Blank}, Default <- [f \in {about, of} |-> Null],
    MaxId <- Authors, KeyIsColumn <- TRUE,
    db <- adb, nextId <- anext, val <- aval, modified <- amodified,
    freed <- afreed, is_new <- anew, visible_fields <- afields,
    key <- val[Ref], keyFreed <- Ref \in freed, pc <- apc

(* Each form begins as its constructor leaves it, over one row. *)
LinkedInit ==
    /\ nextId = 2 /\ key \in {1, Null} /\ keyFreed = FALSE
    /\ \E row \in Rows : /\ row[Ref] \in {Null, 1}
                         /\ \A c \in Columns \ {Ref} : row[c] \in Titles
                         /\ db = [i \in Ids |-> IF i = 1 THEN row ELSE NoRow]
    /\ val = [f \in Fields |-> Null] /\ modified = {} /\ freed = {}
    /\ is_new \in BOOLEAN /\ visible_fields = Fields /\ pc = "idle"
    /\ anext = 2
    /\ adb = [i \in AuthorIds |-> IF i = 1 THEN [c \in {about} |-> Null] ELSE NoRow]
    /\ aval = [f \in {about, of} |-> Null] /\ amodified = {} /\ afreed = {}
    /\ anew \in BOOLEAN /\ afields = {about, of} /\ apc = "idle"
    /\ choice = Null

-----------------------------------------------------------------------------
BookStep(A) == apc = "idle" /\ A /\ UNCHANGED <<author, choice>>

LoadBook == BookStep(Load)
RefreshBook == BookStep(Refresh)
NewBook == BookStep(New)
UndoBook == BookStep(Undo)
SaveBook == BookStep(Save)

(* The user enters a text in another field than the reference. *)
EditBook == BookStep(\E f \in Edited, v \in Titles \ {Null} : Modify(f, v))

(* The list of books moves to another row, or to none. *)
MoveBook == BookStep(\E k \in Opt(Ids) : MoveKey(k))

(* SetCurrentRow() of the list of authors, to one of them or to none.      *)
ChooseRow ==
    /\ apc = "idle" /\ pc = "idle"
    /\ choice' \in Opt({i \in AuthorIds : i < anext})
    /\ UNCHANGED <<vars, author>>

\* Mutant: the selection is set as the key of the author's form is.
ApplySelectionSetsId ==
    /\ apc = "idle" /\ pc = "idle"
    /\ val' = [val EXCEPT ![Ref] = choice]
    /\ freed' = freed \ {Ref}
    /\ UNCHANGED <<table, modified, is_new, visible_fields, rkey, pc, author, choice>>

(* ApplySelection(): without a current row the reference becomes blank.    *)
ApplySelection ==
    BookStep(Modify(Ref, IF choice = Null THEN Blank ELSE choice))

-----------------------------------------------------------------------------
(* A call of the author's form; a Save that inserts sets its key. *)
AuthorStep(A) ==
    /\ pc = "idle"
    /\ val' \in {val} \cup {[val EXCEPT ![Ref] = i] : i \in AuthorIds}
    /\ freed' \in {freed, freed \ {Ref}}
    /\ A
    /\ UNCHANGED <<table, modified, is_new, visible_fields, rkey, pc, choice>>

KeyStays == UNCHANGED <<val, freed>>

LoadAuthor == KeyStays /\ AuthorStep(Author!Load)
NewAuthor == KeyStays /\ AuthorStep(Author!New)
EditAuthor == KeyStays /\ AuthorStep(Author!Modify(about, Blank))
UndoAuthor == KeyStays /\ AuthorStep(Author!Undo)
SaveAuthor == AuthorStep(Author!Save)

(* Another user changes a column of a book. *)
OthersEdit ==
    /\ \E i \in Ids, c \in Columns \ {Ref}, v \in Titles : OtherUpdate(i, c, v)
    /\ UNCHANGED <<author, choice>>

LinkedNext ==
    \/ LoadBook \/ RefreshBook \/ NewBook \/ UndoBook \/ SaveBook \/ EditBook \/ MoveBook
    \/ ChooseRow \/ ApplySelection
    \/ LoadAuthor \/ NewAuthor \/ EditAuthor \/ UndoAuthor \/ SaveAuthor
    \/ OthersEdit

LinkedSpec == LinkedInit /\ [][LinkedNext]_linked
=============================================================================
