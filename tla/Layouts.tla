------------------------------ MODULE Layouts ------------------------------
(***************************************************************************)
(* The layouts of src/libkycore: what Rack::finalize makes of them when    *)
(* the program starts, and which one Rack::findBestLayout chooses.         *)
(*                                                                         *)
(* A parsed layout has the number of its attribute pri, the sets media and *)
(* usage, its model or AnyModel, and a tree of nodes in preorder: the tag  *)
(* and the parent of each, the root's parent being 0.  Reading numbers and *)
(* lists of flags from text is left out.                                   *)
(*                                                                         *)
(* finalize_apps() transforms the layouts of each App, findBestLayout()    *)
(* searches those of the Rack, and nothing in the repository puts the      *)
(* first among the second.  Here they are the same layouts.                *)
(***************************************************************************)
EXTENDS Integers, Sequences, SequencesExt

CONSTANTS Parsed,   \* the layouts of the Apps, as the parser leaves them
          AnyModel

(* A document is a tree of elements: a node comes after its parent.  The   *)
(* number of pri is the one that stoi() returns.                           *)
ASSUME LayoutAssumption ==
    /\ Parsed \in Seq(ToSet(Parsed))
    /\ \A k \in DOMAIN Parsed :
         /\ DOMAIN Parsed[k] = {"model", "pri", "media", "usage", "tag", "parent"}
         /\ Parsed[k].pri \in Int
         /\ Parsed[k].tag \in Seq(ToSet(Parsed[k].tag))
         /\ \A n \in DOMAIN Parsed[k].tag : Parsed[k].parent[n] \in 0..(n - 1)

(* layout.pri is an int8_t. *)
Int8(n) == ((n + 128) % 256) - 128

Nodes(l) == DOMAIN l.tag

Ancestors(l) ==
    LET anc[n \in Nodes(l)] ==
          IF l.parent[n] = 0 THEN {} ELSE anc[l.parent[n]] \cup {l.parent[n]}
    IN anc

(* transform_node() turns the children of these into columns and fields.  *)
Consuming == {"list", "fieldbox"}

(* The tag that decides whether the children stay nodes of the tree as     *)
(* well is read through a reference into the old node, after its string    *)
(* was moved to the new one, which leaves it empty: they always do.        *)
MovedFrom == ""

\* Mutant: the tag is read before it is moved.
KeptAsCommented(l) ==
    {n \in Nodes(l) : \A a \in Ancestors(l)[n] : l.tag[a] \notin Consuming}
Kept(l) == {n \in Nodes(l) : Ancestors(l)[n] = {} \/ MovedFrom \notin Consuming}

(* finalize_apps() of the layouts that findBestLayout() then finds. *)
Finalized == [k \in DOMAIN Parsed |-> [Parsed[k] EXCEPT !.pri = Int8(@)]]

-----------------------------------------------------------------------------
(* A criterion that the layout or the caller leaves out restricts nothing. *)
Fits(l, model, medium, usage) ==
    /\ l.model \in {AnyModel, model}
    /\ l.media = {} \/ medium \in l.media
    /\ l.usage = {} \/ usage \in l.usage

\* Mutant: the last of those that fit is taken, whatever its priority.
FindAnyLayout(model, medium, usage) ==
    FoldLeft(LAMBDA best, k :
                 IF Fits(Finalized[k], model, medium, usage) THEN k ELSE best,
             0, [k \in DOMAIN Parsed |-> k])

(* findBestLayout(): one pass that starts from the least int8_t, so that   *)
(* the first of the highest is taken.  0 when there is none.               *)
FindBestLayout(model, medium, usage) ==
    LET best[k \in 0..Len(Parsed)] ==
          IF k = 0 THEN [index |-> 0, pri |-> -128]
          ELSE IF Fits(Finalized[k], model, medium, usage)
                    /\ Finalized[k].pri > best[k - 1].pri
            THEN [index |-> k, pri |-> Finalized[k].pri]
            ELSE best[k - 1]
    IN  best[Len(Parsed)].index

-----------------------------------------------------------------------------
(* create_records_recursive() makes a record for each form and each list.  *)
Recorded(l) == {n \in Kept(l) : l.tag[n] \in {"form", "list"}}

(* The contextRecord of a node: the record of its nearest ancestor that    *)
(* has one, whatever its siblings made.  0 when there is none.             *)
Context(l, n) ==
    LET above == Recorded(l) \cap Ancestors(l)[n]
    IN  IF above = {} THEN 0 ELSE CHOOSE a \in above : \A b \in above : b <= a
=============================================================================
