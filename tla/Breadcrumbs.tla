---------------------------- MODULE Breadcrumbs ----------------------------
(***************************************************************************)
(* What doc/Viewdoc.md 2.1 promises of navigation: each session has tabs,  *)
(* each tab a trail of views, and only the last view of the current tab is *)
(* active.  A view is opened at the end of a trail and leaves it from the  *)
(* end; when the last view of a tab leaves, some other tab becomes         *)
(* current, if there is one.                                               *)
(***************************************************************************)
EXTENDS Sequences, SequencesExt, Functions

CONSTANTS Sessions, Tabs, Views, NoTab

VARIABLES trail,   \* for each session the trails of its tabs
          current  \* its current tab, or NoTab

vars == <<trail, current>>

Free(v) == \A s \in Sessions : \A t \in DOMAIN trail[s] : v \notin Range(trail[s][t])

Init ==
    /\ trail = [s \in Sessions |-> <<>>]
    /\ current = [s \in Sessions |-> NoTab]

OpenTab(s) ==
    \E t \in Tabs, v \in Views :
        /\ current' = [current EXCEPT ![s] = t]
        /\ \A r \in Sessions : t \notin DOMAIN trail[r]
        /\ Free(v)
        /\ trail' = [trail EXCEPT ![s] =
                        [u \in DOMAIN @ \cup {t} |-> IF u = t THEN <<v>> ELSE @[u]]]

Push(s) ==
    /\ UNCHANGED current
    /\ current[s] # NoTab
    /\ \E v \in Views :
         Free(v) /\ trail' = [trail EXCEPT ![s][current[s]] = Append(@, v)]

Pop(s) ==
    /\ UNCHANGED current
    /\ current[s] # NoTab /\ Len(trail[s][current[s]]) > 1
    /\ trail' = [trail EXCEPT ![s][current[s]] = Front(@)]

CloseTab(s) ==
    LET others == DOMAIN trail[s] \ {current[s]} IN
    /\ \E t \in IF others = {} THEN {NoTab} ELSE others :
         current' = [current EXCEPT ![s] = t]
    /\ current[s] # NoTab /\ Len(trail[s][current[s]]) = 1
    /\ trail' = [trail EXCEPT ![s] = Restrict(@, others)]

SwitchTab(s) ==
    /\ \E t \in DOMAIN trail[s] : current' = [current EXCEPT ![s] = t]
    /\ UNCHANGED trail

Next ==
    \E s \in Sessions :
        OpenTab(s) \/ Push(s) \/ Pop(s) \/ CloseTab(s) \/ SwitchTab(s)

Spec == Init /\ [][Next]_vars
=============================================================================
