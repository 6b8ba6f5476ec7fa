----------------------------- MODULE ConnLease -----------------------------
(***************************************************************************)
(* What a connection pool promises its users, whatever its policy: a user  *)
(* leases a live connection that nobody else leases, connections in use    *)
(* are never closed, at least one connection lives and at most Limit do.   *)
(* PgPool implements this specification.                                   *)
(***************************************************************************)
EXTENDS Naturals, FiniteSets

CONSTANTS Users, Conns, None, Limit

VARIABLES live,     \* the open connections
          lease     \* the connection each user has, or None

vars == <<live, lease>>

Leased == {lease[u] : u \in Users} \ {None}

Init ==
    /\ \E c \in Conns : live = {c}
    /\ lease = [u \in Users |-> None]

(* A user gets an open connection that is free. *)
Checkout(u) ==
    /\ lease[u] = None
    /\ \E c \in live \ Leased : lease' = [lease EXCEPT ![u] = c]
    /\ UNCHANGED live

(* A user gets a connection opened for it. *)
Open(u) ==
    /\ lease[u] = None
    /\ Cardinality(live) < Limit
    /\ \E c \in Conns \ live :
         /\ live' = live \cup {c}
         /\ lease' = [lease EXCEPT ![u] = c]

Return(u) ==
    /\ lease[u] # None
    /\ lease' = [lease EXCEPT ![u] = None]
    /\ UNCHANGED live

(* A free connection is closed, never the last one. *)
Close ==
    /\ Cardinality(live) > 1
    /\ \E c \in live \ Leased : live' = live \ {c}
    /\ UNCHANGED lease

Next == Close \/ \E u \in Users : Checkout(u) \/ Open(u) \/ Return(u)

Spec == Init /\ [][Next]_vars

=============================================================================
