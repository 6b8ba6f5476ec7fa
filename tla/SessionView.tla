---------------------------- MODULE SessionView ----------------------------
(***************************************************************************)
(* Sessions, the views of their tabs, and the records that a view makes    *)
(* from its layout: src/libkycore/session_view.cpp, with the ids of        *)
(* RUIDGen.h.                                                              *)
(*                                                                         *)
(* The calls of one session come one after another.  The sessions share    *)
(* the generator, so that the construction of a view, which draws an id    *)
(* for each record, is interleaved with the other sessions.                *)
(*                                                                         *)
(* createStack and switchStack are declared only: they are modelled as     *)
(* their declarations and doc/Viewdoc.md use them.  The first view of a    *)
(* new tab is constructed under a new id, which is the active stack from   *)
(* the call of setActive() on: setActive() uses active_stack as it stands, *)
(* so that a createStack that sets it before the construction would have   *)
(* to reset it when the construction throws.  A view is closed only while  *)
(* it is the active one.  A list is opened over a view for one of its      *)
(* reference fields, a form for a row or a reference field.                *)
(***************************************************************************)
EXTENDS Layouts, FiniteSets, Functions

CONSTANTS Sessions,
          Media,      \* the medium of each session
          Models, Usages,
          Menu,       \* the usage that puts a layout into the menu
          MaxViews,   \* bound on the views that live at once
          MaxIds      \* bound on the ids ever drawn

Views == 1..MaxViews
Ids == 1..MaxIds
None == 0             \* the null pointer, and no id

ASSUME SessionAssumption ==
    /\ MaxViews \in Nat /\ MaxIds \in Nat
    /\ DOMAIN Media = Sessions

VARIABLES
    issued,           \* ids are named 1, 2, ... in the order they are drawn
    view,             \* each View: its session, prev, layout, records, and
                      \* the key it was opened with
    building,         \* the view a session constructs, the stack it is for,
                      \* and the nodes whose record is still to be made
    active_stack, active_view, stacks, \* of each session
    closing           \* the sessions that are being or were destroyed

nav == <<active_stack, active_view, stacks>>
vars == <<issued, view, building, nav, closing>>

(* A key: the id of the record that holds it, as its own or in a field. *)
NoKey == [holder |-> None, in_field |-> FALSE]
NoBuild == [view |-> None, stack |-> None, todo |-> {}]

(* A view that was deleted, or not yet constructed. *)
Gone == [session |-> None, prev |-> None, layout |-> None, rkey |-> NoKey,
         records |-> <<>>]

Init ==
    /\ issued = 0
    /\ view = [v \in Views |-> Gone]
    /\ building = [s \in Sessions |-> NoBuild]
    /\ active_stack = [s \in Sessions |-> None]
    /\ active_view = [s \in Sessions |-> None]
    /\ stacks = [s \in Sessions |-> <<>>]
    /\ closing = {}

Idle(s) == building[s] = NoBuild /\ s \notin closing

-----------------------------------------------------------------------------
(* RUIDGen: nothing calls revoke(), so an issued value never comes again. *)
\* Mutant: the set of issued values is not consulted.
DrawUnchecked == 1..(issued + 1) \cap Ids
Draws == {issued + 1} \cap Ids

(* buildMenu(): the layouts of which createStack() can open one. *)
InMenu(s) ==
    {k \in DOMAIN Finalized :
        LET l == Finalized[k] IN
        Menu \in l.usage /\ (l.media = {} \/ Media[s] \in l.media)}

(* The key that a record of node n refers to; a list has a key of its own  *)
(* besides, the others share the one they refer to.                        *)
Holder(k, recs, outer, n) ==
    LET above == Context(Finalized[k], n) IN
    IF above = None THEN outer.holder
    ELSE IF Finalized[k].tag[above] = "list" THEN recs[above].id
    ELSE recs[above].uses

(* The records that stand in no other: the key with which the view is      *)
(* opened is theirs, as the assertions of the Builder say.                 *)
Openable(k, key) ==
    \A n \in Recorded(Finalized[k]) :
        Context(Finalized[k], n) = None =>
            IF Finalized[k].tag[n] = "form" THEN key # NoKey
            ELSE key = NoKey \/ key.in_field

-----------------------------------------------------------------------------
(* setActive(): without a view the active stack is dropped for the first   *)
(* of the others.  Ids are random, so that any of them may be the first.   *)
WithEnd(ends, stack, v) ==
    [t \in DOMAIN ends \cup {stack} |-> IF t = stack THEN v ELSE ends[t]]

\* Mutant: the stack is kept, although its last view is gone.
SetActiveKeeps(s, v, stack) ==
    /\ stacks' = [stacks EXCEPT ![s] = WithEnd(@, stack, v)]
    /\ active_stack' = [active_stack EXCEPT ![s] = stack]
    /\ active_view' = [active_view EXCEPT ![s] = v]

\* Mutant: no other stack takes the place of the one that is dropped.
SetActiveForgets(s, v, stack) ==
    LET others == Restrict(stacks[s], DOMAIN stacks[s] \ {stack}) IN
    /\ stacks' = [stacks EXCEPT ![s] = IF v = None THEN others ELSE WithEnd(@, stack, v)]
    /\ active_stack' = [active_stack EXCEPT ![s] = IF v = None THEN None ELSE stack]
    /\ active_view' = [active_view EXCEPT ![s] = v]

SetActive(s, v, stack) ==
    LET others == Restrict(stacks[s], DOMAIN stacks[s] \ {stack}) IN
    IF v # None
    THEN /\ stacks' = [stacks EXCEPT ![s] = WithEnd(@, stack, v)]
         /\ active_stack' = [active_stack EXCEPT ![s] = stack]
         /\ active_view' = [active_view EXCEPT ![s] = v]
    ELSE /\ stacks' = [stacks EXCEPT ![s] = others]
         /\ \E first \in IF DOMAIN others = {} THEN {None} ELSE DOMAIN others :
              /\ active_stack' = [active_stack EXCEPT ![s] = first]
              /\ active_view' = [active_view EXCEPT ![s] =
                                    IF first = None THEN None ELSE others[first]]

-----------------------------------------------------------------------------
(* View::View() up to the first record.  A view has the least free name.   *)
StartView(s, stack, before, k, key) ==
    LET free == {v \in Views : view[v] = Gone}
        v == CHOOSE x \in free : \A y \in free : x <= y
    IN  /\ Idle(s) /\ free # {} /\ Openable(k, key)
        /\ view' = [view EXCEPT ![v] =
               [session |-> s, prev |-> before, layout |-> k, rkey |-> key,
                records |-> <<>>]]
        /\ building' = [building EXCEPT ![s] =
               [view |-> v, stack |-> stack, todo |-> Recorded(Finalized[k])]]
        /\ UNCHANGED <<nav, closing>>

OpenStack(s) ==
    \E id \in Draws, k \in InMenu(s) :
        StartView(s, id, None, k, NoKey) /\ issued' = issued + 1

(* The keys of a view: those of its records and of their reference fields. *)
(* The key that a form passes on is the one it shares with the record it   *)
(* refers to; it is named by the form here, as if the form held a key of   *)
(* its own, which would be destroyed earlier than the shared one is.       *)
Keys(v) ==
    {[holder |-> view[v].records[n].id, in_field |-> f] :
        n \in DOMAIN view[v].records, f \in BOOLEAN}

\* Mutant: the predecessor is not remembered.
OpenNestedDetached(s, model, usage) ==
    LET top == active_view[s]
        k == FindBestLayout(model, Media[s], usage)
    IN  /\ top # None /\ k # None
        /\ \E key \in Keys(top) : StartView(s, active_stack[s], None, k, key)
        /\ UNCHANGED issued

OpenNested(s, model, usage) ==
    LET top == active_view[s]
        k == FindBestLayout(model, Media[s], usage)
    IN  /\ top # None /\ k # None
        /\ \E key \in Keys(top) : StartView(s, active_stack[s], top, k, key)
        /\ UNCHANGED issued

(* The Builder makes one record, in the order of the tree. *)
BuildNode(s) ==
    LET b == building[s]
        this == view[b.view]
        recs == this.records
        n == CHOOSE x \in b.todo : \A y \in b.todo : x <= y
    IN  /\ b.todo # {}
        /\ \E id \in Draws :
             view' = [view EXCEPT ![b.view].records =
                 [m \in DOMAIN recs \cup {n} |->
                    IF m = n
                      THEN [id |-> id, uses |-> Holder(this.layout, recs, this.rkey, n)]
                      ELSE recs[m]]]
        /\ issued' = issued + 1
        /\ building' = [building EXCEPT ![s].todo = @ \ {n}]
        /\ UNCHANGED <<nav, closing>>

\* Mutant: the session has the view already.
FailBuildKeeps(s) ==
    /\ building[s] # NoBuild
    /\ SetActive(s, building[s].view, building[s].stack)
    /\ building' = [building EXCEPT ![s] = NoBuild]
    /\ view' = [view EXCEPT ![building[s].view] = Gone]
    /\ UNCHANGED <<issued, closing>>

(* It throws: a list names no table, a node has no DTO, or no unused id    *)
(* was found in a hundred attempts.  The session does not change.          *)
FailBuild(s) ==
    /\ building[s] # NoBuild
    /\ view' = [view EXCEPT ![building[s].view] = Gone]
    /\ building' = [building EXCEPT ![s] = NoBuild]
    /\ UNCHANGED <<issued, nav, closing>>

FinishBuild(s) ==
    LET b == building[s] IN
    /\ b # NoBuild /\ b.todo = {}
    /\ SetActive(s, b.view, b.stack)
    /\ building' = [building EXCEPT ![s] = NoBuild]
    /\ UNCHANGED <<issued, view, closing>>

(* ~View(). *)
Delete(s, v) ==
    /\ SetActive(s, view[v].prev, active_stack[s])
    /\ view' = [view EXCEPT ![v] = Gone]
    /\ UNCHANGED <<issued, building, closing>>

\* Mutant: any view of the session can be closed.
Closable(s, v) == view[v] # Gone /\ view[v].session = s
MayClose(s, v) == v = active_view[s] /\ v # None

Close(s, v) == Idle(s) /\ MayClose(s, v) /\ Delete(s, v)

SwitchStack(s, stack) ==
    /\ Idle(s) /\ stack \in DOMAIN stacks[s]
    /\ active_stack' = [active_stack EXCEPT ![s] = stack]
    /\ active_view' = [active_view EXCEPT ![s] = stacks[s][stack]]
    /\ UNCHANGED <<issued, view, building, stacks, closing>>

(* ~Session(). *)
EndSession(s) ==
    /\ Idle(s)
    /\ closing' = closing \cup {s}
    /\ UNCHANGED <<issued, view, building, nav>>

DeleteActive(s) ==
    /\ s \in closing /\ active_view[s] # None
    /\ Delete(s, active_view[s])

Step(s) ==
    \/ OpenStack(s)
    \/ \E m \in Models, u \in Usages : OpenNested(s, m, u)
    \/ BuildNode(s) \/ FailBuild(s) \/ FinishBuild(s)
    \/ \E v \in Views : Close(s, v)
    \/ \E t \in Ids : SwitchStack(s, t)
    \/ EndSession(s) \/ DeleteActive(s)

Next == \E s \in Sessions : Step(s)

(* The loop of ~Session runs on. *)
Spec == Init /\ [][Next]_vars /\ \A s \in Sessions : WF_vars(DeleteActive(s))

-----------------------------------------------------------------------------
Live == {v \in Views : view[v] # Gone}
Built == Live \ {building[s].view : s \in Sessions}

TypeOK ==
    /\ issued \in 0..MaxIds
    /\ \A v \in Live :
         /\ view[v].session \in Sessions /\ view[v].prev \in Views \cup {None}
         /\ view[v].layout \in DOMAIN Parsed
         /\ DOMAIN view[v].records \subseteq Recorded(Finalized[view[v].layout])
    /\ \A s \in Sessions :
         /\ building[s].view \in Views \cup {None}
         /\ DOMAIN stacks[s] \subseteq Ids /\ Range(stacks[s]) \subseteq Views
         /\ active_stack[s] \in Ids \cup {None}
         /\ active_view[s] \in Views \cup {None}
    /\ closing \subseteq Sessions

(* The views that prev leads to from v, the first of the chain first. *)
Before == [v \in Views |-> IF view[v].prev \in Live THEN view[v].prev ELSE None]
TrailTo(before) ==
    LET to[v \in Views] == IF before[v] = None THEN <<v>> ELSE Append(to[before[v]], v)
    IN  to
Chain(v) == TrailTo(Before)[v]

(* doc/Viewdoc.md 2.1, one of its promises per step: through openings,     *)
(* failures and closings the pointers prev, stacks and active_view stay    *)
(* the trails of Breadcrumbs.                                              *)
Trails == INSTANCE Breadcrumbs WITH
    trail <- [s \in Sessions |-> [t \in DOMAIN stacks[s] |-> Chain(stacks[s][t])]],
    current <- active_stack, Tabs <- Ids, NoTab <- None
NavigationSpec == Trails!Spec

(* What holds a view: the tabs whose chain it ends, and the views whose    *)
(* prev it is.                                                             *)
EndsOf(v) == {p \in Sessions \X Ids : p[2] \in DOMAIN stacks[p[1]] /\ stacks[p[1]][p[2]] = v}
Above(v) == {w \in Built : view[w].prev = v}

(* session_view.h: the session owns its views through the ends of their    *)
(* chains alone.  The chains consist of views that are complete and not    *)
(* deleted, of their session; one tab or one view holds each of them, and  *)
(* no chain runs in a circle: so each view is on one chain, only once.     *)
EveryViewOnOneChain ==
    /\ \A s \in Sessions :
         /\ active_view[s] = IF active_stack[s] = None THEN None
                             ELSE stacks[s][active_stack[s]]
         /\ \A t \in DOMAIN stacks[s] :
              stacks[s][t] \in Built /\ view[stacks[s][t]].session = s
    /\ \A v \in Built :
         /\ view[v].prev # None => /\ view[v].prev \in Built
                                  /\ view[view[v].prev].session = view[v].session
         /\ \/ \E p \in Sessions \X Ids : EndsOf(v) = {p} /\ Above(v) = {}
            \/ \E w \in Built : EndsOf(v) = {} /\ Above(v) = {w}
    /\ \A S \in (SUBSET Built) \ {{}} : \E v \in S : view[v].prev \notin S

RecordIds(v) == {view[v].records[n].id : n \in DOMAIN view[v].records}

(* rec.h:56: a record refers to a key that lives in another record, of its *)
(* own view or of a view before it.  No key is destroyed before the last   *)
(* record that refers to it.                                               *)
KeysOutliveTheirUsers ==
    \A v \in Live : \A n \in DOMAIN view[v].records :
        view[v].records[n].uses \in {None} \cup UNION {RecordIds(w) : w \in Live}

(* RUIDGen.h:110: an id names one tab or one record of all the sessions,   *)
(* also while two of them construct views at the same time.                *)
IdsNameOneThing ==
    /\ \A v, w \in Live : \A m \in DOMAIN view[v].records, n \in DOMAIN view[w].records :
         view[v].records[m].id = view[w].records[n].id => v = w /\ m = n
    /\ \A s, r \in Sessions : \A t \in DOMAIN stacks[s] :
         /\ t \in DOMAIN stacks[r] => s = r
         /\ \A v \in Live : t \notin RecordIds(v)

(* session_view.cpp:112: the destructor of a session comes to its end, and *)
(* no view of the session is left behind in any of its tabs.               *)
SessionEndsEmpty ==
    \A s \in Sessions :
        s \in closing ~> \A v \in Live : view[v].session # s

(* linked_records_manual.md 4.1 and 4.2: the parts of a layout are linked  *)
(* by nesting.  In a complete view each form and each list of the layout   *)
(* has its record, and a form in a list follows the current row of that    *)
(* list, a list in a form the record of that form, as the tree was written *)
(* and not as it was finalized.                                            *)
RecordsFollowTheLayout ==
    \A v \in Built :
        LET l == Parsed[view[v].layout]
            recs == view[v].records
            parts == {n \in Nodes(l) : l.tag[n] \in {"form", "list"}}
        IN  /\ DOMAIN recs = parts
            /\ \A n \in parts, p \in parts :
                 /\ p \in Ancestors(l)[n]
                 /\ \A q \in parts : q \in Ancestors(l)[n] => q <= p
                 => recs[n].uses = IF l.tag[p] = "list" THEN recs[p].id ELSE recs[p].uses

(* rack.cpp:93: the view that is opened is made from the layout of highest *)
(* priority, as long as the priorities are those an int8_t holds.          *)
BestLayoutIsOpened ==
    [][\A s \in Sessions, m \in Models, u \in Usages : OpenNested(s, m, u) =>
         \E v \in Views :
            /\ view[v] = Gone /\ view'[v] # Gone
            /\ LET l == Parsed[view'[v].layout] IN
               l.pri \in -128..127 => \A k \in DOMAIN Parsed :
                    LET other == Parsed[k] IN
                    Fits(other, m, Media[s], u) /\ other.pri \in -127..127
                        => other.pri <= l.pri]_vars

=============================================================================
