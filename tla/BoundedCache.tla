---------------------------- MODULE BoundedCache ----------------------------
(***************************************************************************)
(* What the users of a statement cache rely on, whatever its replacement   *)
(* policy: a lookup returns the value last stored under the key it asked   *)
(* for, or nothing if the cache lost it; storing a value loses at most one *)
(* other entry; entries disappear only then and during a lookup, none      *)
(* appears by itself, and Capacity is never exceeded.                      *)
(***************************************************************************)
EXTENDS Naturals, FiniteSets

CONSTANTS Keys, Values, Null, Capacity

VARIABLES content,  \* the value of each key, or Null
          asked,    \* the key of the lookup in progress, or Null
          answer    \* what the last operation returned

vars == <<content, asked, answer>>

Present(c) == {k \in Keys : c[k] # Null}

(* c loses the entries of some keys and keeps the others. *)
Shrinks(c, d) == \A k \in Keys : d[k] \in {c[k], Null}

Init == content = [k \in Keys |-> Null] /\ asked = Null /\ answer = Null

Store(k, v) ==
    /\ asked = Null
    /\ content'[k] = v /\ answer' = v
    /\ Shrinks([content EXCEPT ![k] = v], content')
    /\ Cardinality(Present(content) \ Present(content')) <= 1
    /\ Cardinality(Present(content')) <= Capacity
    /\ UNCHANGED asked

(* A lookup asks for a key, may trim the cache, and answers with what the  *)
(* cache then holds under this key.                                        *)
Ask(k) ==
    /\ asked = Null
    /\ asked' = k
    /\ UNCHANGED <<content, answer>>

Trim ==
    /\ asked # Null
    /\ Shrinks(content, content')
    /\ UNCHANGED <<asked, answer>>

Reply ==
    /\ asked # Null
    /\ answer' = content[asked]
    /\ asked' = Null
    /\ UNCHANGED content

Next == Trim \/ Reply \/ \E k \in Keys : Ask(k) \/ \E v \in Values : Store(k, v)

Spec == Init /\ [][Next]_vars

=============================================================================
