-------------------------- MODULE MCLinkedRecords --------------------------
(***************************************************************************)
(* LinkedRecords for TLC, with a history of where the reference that the   *)
(* book's form shows comes from: the book's row, the list of authors, or   *)
(* an author that the author's form inserted.                              *)
(***************************************************************************)
EXTENDS LinkedRecords

NoDefault == [f \in Fields |-> Null]

VARIABLE reference  \* "none", "stored", "chosen" or "inserted"

MCInit == LinkedInit /\ reference = "none"

(* A load of the book, unless it keeps what the user chose. *)
Reads(fs) == Ref \in fs /\ \E i \in KeyReads : Exists(i)
ReadBook(fs) == reference' = IF Reads(fs) THEN "stored" ELSE reference

MCNext ==
    \/ (LoadBook \/ (UndoBook /\ ~is_new)) /\ ReadBook({Ref})
    \/ RefreshBook /\ ReadBook({Ref} \ modified)
    \/ (NewBook \/ (UndoBook /\ is_new)) /\ reference' = "none"
    \/ SaveBook /\ reference' = IF modified \ modified' # {} THEN "stored" ELSE reference
    \/ MoveBook /\ reference' = IF reference = "stored" THEN "none" ELSE reference
    \/ ApplySelection /\ reference' = "chosen"
    \/ SaveAuthor /\ reference' = IF val' # val /\ Ref \notin modified
                                     THEN "inserted" ELSE reference
    \/ /\ \/ EditBook \/ ChooseRow \/ OthersEdit
          \/ LoadAuthor \/ NewAuthor \/ EditAuthor \/ UndoAuthor
       /\ UNCHANGED reference

MCSpec == MCInit /\ [][MCNext]_<<linked, reference>>

-----------------------------------------------------------------------------
(* rec.cpp:34 and 432: whatever the forms of a book and of its author do   *)
(* to each other through the reference that is a column of the one and the *)
(* key of the other, the author that the book's form shows is the stored   *)
(* one, or the book's Save will store it.  An author that its own form has *)
(* inserted is the exception: setId() shows it and marks nothing.          *)
ShownReferenceIsSaved ==
    /\ reference = "stored" => Ref \notin modified /\ val[Ref] = db[key][Ref]
    /\ reference = "chosen" => Ref \in modified
=============================================================================
