------------------------- MODULE SessionViewProofs -------------------------
(***************************************************************************)
(* For any sessions, layouts and bounds: ids name one thing, keys outlive  *)
(* their users, records follow the tree of their layout, each view hangs   *)
(* on one trail, the layout of highest priority is opened, and a session   *)
(* that has ended leaves no view behind.                                   *)
(***************************************************************************)
EXTENDS SessionView, SeqLemmas

-----------------------------------------------------------------------------
(* The inductive invariant, in parts.  First the types: a view is a record *)
(* of five fields, a record a pair of the id that it drew and the one that *)
(* it refers to.                                                           *)
Rec == [id : Ids, uses : Ids \cup {None}]
Key == [holder : Ids \cup {None}, in_field : BOOLEAN]
Slot == [view : Views \cup {None}, stack : Ids \cup {None}, todo : SUBSET Nat]

IsView(x) ==
    /\ DOMAIN x = {"session", "prev", "layout", "rkey", "records"}
    /\ x.session \in Sessions /\ x.prev \in Views \cup {None}
    /\ x.layout \in DOMAIN Parsed /\ x.rkey \in Key
    /\ DOMAIN x.records \subseteq Recorded(Finalized[x.layout])
    /\ x.records \in [DOMAIN x.records -> Rec]

Typed ==
    /\ issued \in 0..MaxIds /\ closing \subseteq Sessions
    /\ DOMAIN view = Views
    /\ \A v \in Live : IsView(view[v])
    /\ building \in [Sessions -> Slot]
    /\ DOMAIN stacks = Sessions
    /\ \A s \in Sessions : /\ DOMAIN stacks[s] \subseteq Ids
                           /\ stacks[s] \in [DOMAIN stacks[s] -> Views]
    /\ active_stack \in [Sessions -> Ids \cup {None}]
    /\ active_view \in [Sessions -> Views \cup {None}]

(* A session that ends constructs nothing; a view under construction has   *)
(* the records of the first nodes of its layout.  It is for a new tab, or  *)
(* goes over the view that is active.                                      *)
Constructing ==
    \A s \in Sessions : building[s] # NoBuild =>
        LET b == building[s]  new == view[b.view] IN
        /\ s \notin closing /\ b.view \in Live /\ new.session = s
        /\ b.stack \in 1..issued
        /\ b.todo \subseteq Recorded(Finalized[new.layout])
        /\ DOMAIN new.records = Recorded(Finalized[new.layout]) \ b.todo
        /\ \A n \in DOMAIN new.records, m \in b.todo : n < m
        /\ IF new.prev = None THEN b.stack \notin DOMAIN stacks[s]
           ELSE /\ b.stack = active_stack[s] /\ b.stack \in DOMAIN stacks[s]
                /\ new.prev = stacks[s][b.stack]

Complete == \A v \in Built : DOMAIN view[v].records = Recorded(Finalized[view[v].layout])

(* The active view is the end of the active stack. *)
ActiveEnd ==
    \A s \in Sessions :
        IF active_stack[s] = None THEN active_view[s] = None /\ DOMAIN stacks[s] = {}
        ELSE /\ active_stack[s] \in DOMAIN stacks[s]
             /\ active_view[s] = stacks[s][active_stack[s]]

(* The ends of the tabs are different views of the session, and nothing    *)
(* is opened over them.  A view that others are opened over has one that   *)
(* is built, of the same session.                                          *)
Ends ==
    \A s \in Sessions : \A t \in DOMAIN stacks[s] :
        /\ stacks[s][t] \in Built /\ view[stacks[s][t]].session = s
        /\ \A u \in DOMAIN stacks[s] : stacks[s][u] = stacks[s][t] => u = t
        /\ \A v \in Built : view[v].prev # stacks[s][t]

Predecessors ==
    \A v \in Built : view[v].prev # None =>
        LET p == view[v].prev IN
        /\ p \in Built /\ view[p].session = view[v].session
        /\ \A w \in Built : view[w].prev = p => w = v

IsEnd(v) == \E t \in DOMAIN stacks[view[v].session] : stacks[view[v].session][t] = v

Owned == \A v \in Built : IsEnd(v) \/ \E w \in Built : view[w].prev = v

IdsOf(x) == {x.records[n].id : n \in DOMAIN x.records}

(* Ids: those of records, tabs, and of the tab a session is about to open. *)
Tabs(s) == DOMAIN stacks[s] \cup ({building[s].stack} \ {None})

IdsDrawn ==
    /\ \A v \in Live : IdsOf(view[v]) \subseteq 1..issued
    /\ \A s \in Sessions : Tabs(s) \subseteq 1..issued

TabsApart ==
    \A s \in Sessions : \A t \in Tabs(s) :
        /\ \A r \in Sessions : t \in Tabs(r) => s = r
        /\ \A v \in Live : t \notin IdsOf(view[v])

RecordsApart ==
    \A v, w \in Live : \A m \in DOMAIN view[v].records, n \in DOMAIN view[w].records :
        view[v].records[m].id = view[w].records[n].id => v = w /\ m = n

(* A view is opened with a key of the view before it, and its records came *)
(* later than that.                                                        *)
OpenedWithKey ==
    \A v \in Live :
        /\ IF view[v].prev = None THEN view[v].rkey.holder = None
           ELSE view[v].rkey.holder \in IdsOf(view[view[v].prev])
        /\ \A n \in DOMAIN view[v].records : view[v].records[n].id > view[v].rkey.holder

Linked ==
    \A v \in Live : \A n \in DOMAIN view[v].records :
        LET this == view[v] IN
        /\ this.records[n].uses = Holder(this.layout, this.records, this.rkey, n)
        /\ this.records[n].uses \in {None, this.rkey.holder} \cup IdsOf(this)

SessionInv ==
    /\ Typed /\ Constructing /\ Complete /\ ActiveEnd
    /\ Ends /\ Predecessors /\ Owned
    /\ IdsDrawn /\ TabsApart /\ RecordsApart
    /\ OpenedWithKey /\ Linked

-----------------------------------------------------------------------------
(* The tree of a layout. *)
IsTree(l) ==
    /\ l.tag \in Seq(ToSet(l.tag))
    /\ \A n \in Nodes(l) : l.parent[n] \in 0..(n - 1)

LEMMA LayoutsAreTrees ==
    ASSUME NEW k \in DOMAIN Parsed
    PROVE  /\ Finalized[k].tag = Parsed[k].tag /\ Finalized[k].parent = Parsed[k].parent
           /\ Finalized[k].model = Parsed[k].model /\ Finalized[k].media = Parsed[k].media
           /\ Finalized[k].usage = Parsed[k].usage
           /\ Finalized[k].pri = Int8(Parsed[k].pri)
           /\ IsTree(Finalized[k]) /\ IsTree(Parsed[k])
<1>1. Finalized[k] = [Parsed[k] EXCEPT !.pri = Int8(@)]
  BY DEF Finalized
<1>2. DOMAIN Parsed[k] = {"model", "pri", "media", "usage", "tag", "parent"}
  BY LayoutAssumption
<1> QED
  BY <1>1, <1>2, LayoutAssumption DEF IsTree, Nodes

(* The recursion over the parents has a solution, tree by tree. *)
LEMMA AncestorsExist ==
    ASSUME NEW N \in Nat, NEW p, \A n \in 1..N : p[n] \in 0..(n - 1)
    PROVE  \E f : f = [n \in 1..N |-> IF p[n] = 0 THEN {} ELSE f[p[n]] \cup {p[n]}]
<1> DEFINE Solves(f, k) == f = [n \in 1..k |-> IF p[n] = 0 THEN {} ELSE f[p[n]] \cup {p[n]}]
           Fails == {k \in 0..N : ~\E f : Solves(f, k)}
<1> SUFFICES \E f : Solves(f, N)
  OBVIOUS
<1> SUFFICES ASSUME Fails # {} PROVE FALSE
  <2> HIDE DEF Solves
  <2> QED
    OBVIOUS
<1>1. PICK k \in Fails : \A j \in Fails : k <= j
  <2>1. Fails \subseteq Nat
    OBVIOUS
  <2> HIDE DEF Fails
  <2> QED
    BY <2>1, MinimumExists
<1>2. k # 0
  <2> DEFINE g == [n \in 1..0 |-> {}]
  <2>0. \A n \in 1..0 : FALSE
    OBVIOUS
  <2>1. g = [n \in 1..0 |-> IF p[n] = 0 THEN {} ELSE g[p[n]] \cup {p[n]}]
    BY <2>0
  <2>2. Solves(g, 0)
    BY <2>1
  <2> HIDE DEF Solves
  <2> QED
    BY <1>1, <2>2
<1>3. k - 1 \in 0..N /\ ~(k <= k - 1) /\ k \in 1..N
  BY <1>1, <1>2
<1>4. PICK g : Solves(g, k - 1)
  <2> HIDE DEF Solves
  <2> QED
    BY <1>1, <1>3
<1> DEFINE h == [n \in 1..k |-> IF p[n] = 0 THEN {} ELSE g[p[n]] \cup {p[n]}]
<1>5. ASSUME NEW n \in 1..k, p[n] # 0 PROVE h[p[n]] = g[p[n]]
  <2>1. p[n] \in 1..(k - 1) /\ p[n] \in 1..k
    BY <1>3, <1>5
  <2>2. g[p[n]] = IF p[p[n]] = 0 THEN {} ELSE g[p[p[n]]] \cup {p[p[n]]}
    BY <1>4, <2>1
  <2> QED
    BY <2>1, <2>2
<1>6. Solves(h, k)
  BY <1>5
<1> QED
  BY <1>1, <1>6

LEMMA AncestorsEquation ==
    ASSUME NEW l, IsTree(l)
    PROVE  /\ Nodes(l) = 1..Len(l.tag) /\ Len(l.tag) \in Nat
           /\ Ancestors(l) = [n \in Nodes(l) |-> IF l.parent[n] = 0 THEN {}
                               ELSE Ancestors(l)[l.parent[n]] \cup {l.parent[n]}]
<1>1. Nodes(l) = 1..Len(l.tag) /\ Len(l.tag) \in Nat
  BY LenProperties DEF IsTree, Nodes
<1>2. \E f : f = [n \in Nodes(l) |-> IF l.parent[n] = 0 THEN {}
                                      ELSE f[l.parent[n]] \cup {l.parent[n]}]
  <2> DEFINE N == Len(l.tag)
             p == l.parent
  <2>1. N \in Nat /\ \A n \in 1..N : p[n] \in 0..(n - 1)
    BY <1>1 DEF IsTree
  <2> HIDE DEF N, p
  <2>2. \E f : f = [n \in 1..N |-> IF p[n] = 0 THEN {} ELSE f[p[n]] \cup {p[n]}]
    BY <2>1, AncestorsExist
  <2> QED
    BY <1>1, <2>2 DEF N, p
<1> QED
  BY <1>1, <1>2 DEF Ancestors

(* Ancestors come before their descendants. *)
LEMMA AncestorsBefore ==
    ASSUME NEW l, IsTree(l), NEW n \in Nodes(l)
    PROVE  Ancestors(l)[n] \subseteq {m \in Nodes(l) : m < n}
<1> DEFINE Below(i) == Ancestors(l)[i] \subseteq {m \in Nodes(l) : m < i}
           Bad == {i \in Nodes(l) : ~Below(i)}
<1>0. /\ Nodes(l) = 1..Len(l.tag) /\ Len(l.tag) \in Nat
      /\ Ancestors(l) = [i \in Nodes(l) |-> IF l.parent[i] = 0 THEN {}
                           ELSE Ancestors(l)[l.parent[i]] \cup {l.parent[i]}]
      /\ \A i \in Nodes(l) : l.parent[i] \in 0..(i - 1)
  BY AncestorsEquation DEF IsTree
<1> SUFFICES ASSUME Bad # {} PROVE FALSE
  OBVIOUS
<1>1. PICK i \in Bad : \A j \in Bad : i <= j
  <2>1. Bad \subseteq Nat
    BY <1>0
  <2> HIDE DEF Bad
  <2> QED
    BY <2>1, MinimumExists
<1>2. i \in Nodes(l) /\ i \in Nat
  BY <1>0, <1>1
<1>3. CASE l.parent[i] = 0
  <2>1. Ancestors(l)[i] = {}
    BY <1>0, <1>2, <1>3
  <2> QED
    BY <1>1, <2>1
<1>4. CASE l.parent[i] # 0
  <2> DEFINE j == l.parent[i]
  <2>1. j \in Nodes(l) /\ j < i /\ j \in Nat
    BY <1>0, <1>2, <1>4
  <2>2. Below(j)
    BY <1>1, <1>2, <2>1
  <2>3. Ancestors(l)[i] = Ancestors(l)[j] \cup {j}
    BY <1>0, <1>2, <1>4
  <2>4. \A m \in Nodes(l) : m < j => m < i
    BY <1>0, <1>2, <2>1
  <2>5. Below(i)
    BY <2>1, <2>2, <2>3, <2>4
  <2> QED
    BY <1>1, <2>5
<1> QED
  BY <1>3, <1>4

LEMMA AncestorsDetermined ==
    ASSUME NEW k \in DOMAIN Parsed
    PROVE  Ancestors(Finalized[k]) = Ancestors(Parsed[k])
BY LayoutsAreTrees DEF Ancestors, Nodes

(* The children of a list or a field box stay nodes: every form and every  *)
(* list of the tree as it was written gets a record.                       *)
LEMMA RecordedNodes ==
    ASSUME NEW k \in DOMAIN Parsed
    PROVE  Recorded(Finalized[k]) = {n \in Nodes(Parsed[k]) : Parsed[k].tag[n] \in {"form", "list"}}
<1>1. Kept(Finalized[k]) = Nodes(Finalized[k])
  BY DEF Kept, MovedFrom, Consuming
<1> QED
  BY <1>1, LayoutsAreTrees DEF Recorded, Nodes

(* The record on which a node depends is made before its own. *)
LEMMA ContextBefore ==
    ASSUME NEW k \in DOMAIN Parsed, NEW n \in Recorded(Finalized[k])
    PROVE  LET l == Finalized[k]  above == Recorded(l) \cap Ancestors(l)[n] IN
           IF above = {} THEN Context(l, n) = 0
           ELSE /\ Context(l, n) \in above /\ \A a \in above : a <= Context(l, n)
                /\ Context(l, n) < n /\ Context(l, n) # 0
<1> DEFINE l == Finalized[k]
           above == Recorded(l) \cap Ancestors(l)[n]
<1>1. /\ IsTree(l) /\ n \in Nodes(l) /\ Nodes(l) = 1..Len(l.tag) /\ Len(l.tag) \in Nat
  BY LayoutsAreTrees, RecordedNodes, AncestorsEquation DEF Nodes
<1>2. above \subseteq {m \in Nodes(l) : m < n}
  BY <1>1, AncestorsBefore
<1>3. CASE above # {}
  <2>1. above \subseteq 0..n /\ n \in Nat
    BY <1>1, <1>2
  <2> HIDE DEF above
  <2>2. \E a \in above : \A b \in above : b <= a
    BY <1>3, <2>1, MaximumExists
  <2>3. (CHOOSE a \in above : \A b \in above : b <= a) \in above
        /\ \A b \in above : b <= (CHOOSE a \in above : \A c \in above : c <= a)
    BY <2>2
  <2>4. Context(l, n) = CHOOSE a \in above : \A b \in above : b <= a
    BY <1>3 DEF Context, above
  <2> QED
    BY <1>1, <1>2, <1>3, <2>3, <2>4 DEF above
<1>4. CASE above = {}
  BY <1>4 DEF Context
<1> QED
  BY <1>3, <1>4

(* findBestLayout(): a layout that fits, and none that fits is better.     *)
LEMMA BestLayout ==
    ASSUME NEW model, NEW medium, NEW usage
    PROVE  LET r == FindBestLayout(model, medium, usage) IN
           r # 0 => /\ r \in DOMAIN Parsed /\ Fits(Finalized[r], model, medium, usage)
                    /\ \A k \in DOMAIN Parsed : Fits(Finalized[k], model, medium, usage)
                         => Finalized[k].pri <= Finalized[r].pri
<1> DEFINE N == Len(Parsed)
           F == {k \in 1..N : Fits(Finalized[k], model, medium, usage)}
           pri == [k \in 1..N |-> Finalized[k].pri]
           start == [index |-> 0, pri |-> -128]
           Better(f, k) == /\ Fits(Finalized[k], model, medium, usage)
                           /\ Finalized[k].pri > f[k - 1].pri
           Solves(f, n) == f = [k \in 0..n |->
                IF k = 0 THEN [index |-> 0, pri |-> -128]
                ELSE IF Better(f, k) THEN [index |-> k, pri |-> Finalized[k].pri]
                ELSE f[k - 1]]
           Fails == {n \in 0..N : ~\E f : Solves(f, n)}
<1>0. /\ N \in Nat /\ DOMAIN Parsed = 1..N
      /\ \A k \in 1..N : pri[k] \in Int
  <2>1. N \in Nat /\ DOMAIN Parsed = 1..N
    BY LayoutAssumption, LenProperties
  <2>2. ASSUME NEW k \in 1..N PROVE Finalized[k].pri \in Int
    <3>1. Finalized[k].pri = Int8(Parsed[k].pri) /\ Parsed[k].pri \in Int
      BY <2>1, <2>2, LayoutsAreTrees, LayoutAssumption
    <3> QED
      BY <3>1 DEF Int8
  <2> QED
    BY <2>1, <2>2
<1>1. \E f : Solves(f, N)
  <2>0. N \in 0..N
    BY <1>0
  <2> HIDE DEF N, F, pri
  <2> SUFFICES ASSUME Fails # {} PROVE FALSE
    <3> HIDE DEF Solves
    <3> QED
      BY <2>0
  <2>1. PICK n \in Fails : \A j \in Fails : n <= j
    <3>1. Fails \subseteq Nat
      BY <1>0
    <3> HIDE DEF Fails
    <3> QED
      BY <3>1, MinimumExists
  <2>2. n # 0
    <3> DEFINE f == [k \in 0..0 |-> start]
    <3>1. \A k \in 0..0 : k = 0
      OBVIOUS
    <3>2. Solves(f, 0)
      BY <3>1
    <3> HIDE DEF Solves
    <3> QED
      BY <2>1, <3>2
  <2>3. n - 1 \in 0..N /\ ~(n <= n - 1) /\ n \in 1..N
    BY <1>0, <2>1, <2>2
  <2>4. PICK g : Solves(g, n - 1)
    <3> HIDE DEF Solves
    <3> QED
      BY <2>1, <2>3
  <2> DEFINE h == [k \in 0..n |->
                IF k = 0 THEN [index |-> 0, pri |-> -128]
                ELSE IF Better(g, k) THEN [index |-> k, pri |-> Finalized[k].pri]
                ELSE g[k - 1]]
  <2>5. ASSUME NEW k \in 0..n, k # 0 PROVE h[k - 1] = g[k - 1]
    <3>1. k - 1 \in 0..(n - 1) /\ k - 1 \in 0..n
      BY <2>3, <2>5
    <3>2. g[k - 1] = IF k - 1 = 0 THEN [index |-> 0, pri |-> -128]
                     ELSE IF Better(g, k - 1)
                          THEN [index |-> k - 1, pri |-> Finalized[k - 1].pri]
                     ELSE g[(k - 1) - 1]
      BY <2>4, <3>1
    <3> QED
      BY <3>1, <3>2
  <2>6. Solves(h, n)
    BY <2>5
  <2> HIDE DEF Solves
  <2> QED
    BY <2>1, <2>6
<1> DEFINE f == CHOOSE f : Solves(f, N)
<1>2. Solves(f, N) /\ FindBestLayout(model, medium, usage) = f[N].index
  <2>1. Solves(f, N)
    <3> HIDE DEF Solves
    <3> QED
      BY <1>1
  <2>2. FindBestLayout(model, medium, usage) = f[N].index
    BY DEF FindBestLayout
  <2> QED
    BY <2>1, <2>2
<1> HIDE DEF f, N, F, pri
<1> DEFINE Good(n) ==
        /\ f[n].index \in 0..n /\ f[n].pri \in Int
        /\ f[n].index # 0 => f[n].index \in F /\ f[n].pri = pri[f[n].index]
        /\ \A k \in F : k <= n => pri[k] <= f[n].pri
           Bad == {n \in 0..N : ~Good(n)}
<1>3. /\ f[0] = start
      /\ \A k \in 1..N : f[k] = IF k \in F /\ pri[k] > f[k - 1].pri
                                THEN [index |-> k, pri |-> pri[k]] ELSE f[k - 1]
  <2>1. 0 \in 0..N /\ \A k \in 1..N : k \in 0..N /\ k # 0
    BY <1>0
  <2>2. \A k \in 1..N : pri[k] = Finalized[k].pri
                         /\ (k \in F <=> Fits(Finalized[k], model, medium, usage))
    BY DEF pri, F
  <2>3. f[0] = [index |-> 0, pri |-> -128]
    BY <1>2, <2>1
  <2>4. ASSUME NEW k \in 1..N
        PROVE  f[k] = IF Better(f, k) THEN [index |-> k, pri |-> Finalized[k].pri]
                      ELSE f[k - 1]
    <3>1. k \in 0..N /\ k # 0
      BY <2>1
    <3> QED
      BY <1>2, <3>1
  <2> QED
    BY <2>2, <2>3, <2>4
<1>4. F \subseteq 1..N
  BY DEF F
<1>5. Bad = {}
  <2> SUFFICES ASSUME Bad # {} PROVE FALSE
    OBVIOUS
  <2>1. PICK n \in Bad : \A j \in Bad : n <= j
    <3>1. Bad \subseteq Nat
      BY <1>0
    <3> HIDE DEF Bad
    <3> QED
      BY <3>1, MinimumExists
  <2>2. CASE n = 0
    <3>1. Good(0)
      BY <1>3, <1>4
    <3> QED
      BY <2>1, <2>2, <3>1
  <2>3. CASE n # 0
    <3>1. n \in 1..N /\ n - 1 \in 0..N /\ ~(n <= n - 1)
      BY <1>0, <2>1, <2>3
    <3>2. Good(n - 1)
      <4> HIDE DEF Good
      <4> QED
        BY <2>1, <3>1
    <3>3. pri[n] \in Int /\ \A k \in F : pri[k] \in Int /\ (k <= n => k <= n - 1 \/ k = n)
      BY <1>0, <1>4, <3>1
    <3>4. CASE n \in F /\ pri[n] > f[n - 1].pri
      <4>0. f[n] = [index |-> n, pri |-> pri[n]]
        BY <1>3, <3>1, <3>4
      <4>1. f[n].index = n /\ f[n].pri = pri[n]
        BY <4>0
      <4>2. \A k \in F : k <= n => pri[k] <= pri[n]
        BY <3>2, <3>3, <3>4
      <4>3. Good(n)
        BY <1>0, <3>1, <3>3, <3>4, <4>1, <4>2
      <4> QED
        BY <2>1, <4>3
    <3>5. CASE ~(n \in F /\ pri[n] > f[n - 1].pri)
      <4>1. f[n] = f[n - 1]
        BY <1>3, <3>1, <3>5
      <4>2. \A k \in F : k <= n => pri[k] <= f[n].pri
        BY <3>2, <3>3, <3>5, <4>1
      <4>3. f[n].index \in 0..n
        BY <3>1, <3>2, <4>1
      <4>4. Good(n)
        BY <3>2, <4>1, <4>2, <4>3
      <4> QED
        BY <2>1, <4>4
    <3> QED
      BY <3>4, <3>5
  <2> QED
    BY <2>2, <2>3
<1>6. Good(N)
  <2> HIDE DEF Good
  <2> QED
    BY <1>0, <1>5
<1>7. \A k \in F : k <= N /\ Fits(Finalized[k], model, medium, usage) /\ pri[k] = Finalized[k].pri
  BY <1>0, <1>4 DEF F, pri
<1>8. \A k \in DOMAIN Parsed : Fits(Finalized[k], model, medium, usage) => k \in F
  BY <1>0 DEF F
<1> HIDE DEF Bad
<1>9. ASSUME f[N].index # 0
      PROVE  /\ f[N].index \in F
             /\ \A k \in F : pri[k] <= pri[f[N].index]
  BY <1>6, <1>7, <1>9
<1>10. F \subseteq DOMAIN Parsed
  BY <1>0, <1>4
<1> QED
  BY <1>2, <1>7, <1>8, <1>9, <1>10

-----------------------------------------------------------------------------
(* What holds between the sets of views and the types. *)
LEMMA SetFacts ==
    ASSUME Typed
    PROVE  /\ Live \subseteq Views /\ Built \subseteq Live /\ Views \subseteq Nat /\ None \notin Views
           /\ \A x : x \in Built <=> x \in Live /\ \A r \in Sessions : building[r].view # x
           /\ \A x \in Views : x \in Live <=> view[x] # Gone
           /\ Ids \subseteq Nat /\ None \notin Ids /\ issued \in Nat
           /\ \A n \in 1..issued : n \in Ids
BY SessionAssumption DEF Live, Built, Views, None, Ids, Typed

LEMMA InitInv == Init => SessionInv
<1> SUFFICES ASSUME Init PROVE SessionInv
  OBVIOUS
<1>1. Live = {} /\ Built = {}
  BY DEF Init, Live, Built
<1>2. \A s \in Sessions : /\ building[s] = NoBuild /\ DOMAIN stacks[s] = {}
                         /\ active_stack[s] = None /\ active_view[s] = None
  BY DEF Init
<1>3. NoBuild \in Slot /\ NoBuild.stack = None
  BY DEF NoBuild, Slot
<1>4. Typed
  <2>1. \A s \in Sessions : stacks[s] \in [DOMAIN stacks[s] -> Views]
    BY DEF Init
  <2>2. 0 \in 0..MaxIds
    BY SessionAssumption
  <2> QED
    BY <1>1, <1>2, <1>3, <2>1, <2>2 DEF Init, Typed
<1>5. \A s \in Sessions : Tabs(s) = {}
  BY <1>2, <1>3 DEF Tabs
<1> QED
  BY <1>1, <1>2, <1>4, <1>5
     DEF SessionInv, Constructing, Complete, ActiveEnd, Ends, Predecessors, Owned,
         IdsDrawn, TabsApart, RecordsApart, OpenedWithKey, Linked

-----------------------------------------------------------------------------
(* View::View() up to the first record: in a new tab, or over a view. *)
InNewTab(stack, before, key) ==
    /\ before = None /\ key.holder = None
    /\ stack = issued + 1 /\ stack \in Ids /\ issued' = stack

OverActive(s, stack, before, key) ==
    /\ before = active_view[s] /\ before # None /\ stack = active_stack[s]
    /\ key.holder \in IdsOf(view[before]) /\ issued' = issued

FreeView == CHOOSE x \in {v \in Views : view[v] = Gone} :
                \A y \in {v \in Views : view[v] = Gone} : x <= y

LEMMA FreeViewFree ==
    ASSUME Typed, NEW s, NEW stack, NEW before, NEW k, NEW key,
           StartView(s, stack, before, k, key)
    PROVE  FreeView \in Views /\ view[FreeView] = Gone
<1> DEFINE free == {v \in Views : view[v] = Gone}
<1>1. free # {} /\ free \subseteq Nat
  BY SetFacts DEF StartView
<1> HIDE DEF free
<1>2. \E x \in free : \A y \in free : x <= y
  BY <1>1, MinimumExists
<1>3. FreeView \in free
  BY <1>2 DEF FreeView, free
<1> QED
  BY <1>3 DEF free

(* The new view f is the only change beside the session's slot for it. *)
Started(f, s, stack, before, k, key) ==
    /\ f \in Views /\ view[f] = Gone /\ f \notin Live
    /\ building[s] = NoBuild /\ s \notin closing
    /\ DOMAIN view' = Views
    /\ view'[f] = [session |-> s, prev |-> before, layout |-> k, rkey |-> key,
                          records |-> <<>>]
    /\ \A w \in Views \ {f} : view'[w] = view[w]
    /\ building' = [building EXCEPT ![s] =
           [view |-> f, stack |-> stack, todo |-> Recorded(Finalized[k])]]
    /\ UNCHANGED <<active_stack, active_view, stacks, closing>>
    /\ Live' = Live \cup {f} /\ Built' = Built
    /\ before \in Views \cup {None} /\ stack \in 1..issued' /\ stack \in Ids
    /\ issued' \in issued..MaxIds

LEMMA StartEffect ==
    ASSUME SessionInv, NEW s \in Sessions, NEW stack, NEW before, NEW k \in DOMAIN Parsed,
           NEW key \in Key, StartView(s, stack, before, k, key),
           NEW f, f = FreeView,
           InNewTab(stack, before, key) \/ OverActive(s, stack, before, key)
    PROVE  Started(f, s, stack, before, k, key)
<1>1. Typed /\ ActiveEnd /\ IdsDrawn
  BY DEF SessionInv
<1>2. f \in Views /\ view[f] = Gone
  BY <1>1, FreeViewFree
<1>3. /\ building[s] = NoBuild /\ s \notin closing
      /\ view' = [view EXCEPT ![f] =
             [session |-> s, prev |-> before, layout |-> k, rkey |-> key, records |-> <<>>]]
      /\ building' = [building EXCEPT ![s] =
             [view |-> f, stack |-> stack, todo |-> Recorded(Finalized[k])]]
      /\ UNCHANGED <<active_stack, active_view, stacks, closing>>
  BY DEF StartView, Idle, FreeView, nav
<1>4. /\ DOMAIN view' = Views
      /\ view'[f] = [session |-> s, prev |-> before, layout |-> k, rkey |-> key,
                            records |-> <<>>]
      /\ \A w \in Views \ {f} : view'[w] = view[w]
  BY <1>1, <1>2, <1>3 DEF Typed
<1>5. view'[f] # Gone
  <2>1. view'[f].layout = k /\ Gone.layout = 0
    BY <1>4 DEF Gone, None
  <2>2. k # 0
    BY LayoutAssumption, LenProperties
  <2> QED
    BY <2>1, <2>2
<1>6. Live' = Live \cup {f} /\ f \notin Live
  BY <1>2, <1>4, <1>5 DEF Live
<1>7. Built' = Built
  <2>1. \A x : x \in Built' <=> x \in Live' /\ \A r \in Sessions : building'[r].view # x
    BY DEF Built
  <2>2. building'[s].view = f /\ \A r \in Sessions \ {s} : building'[r] = building[r]
    BY <1>1, <1>3 DEF Typed
  <2>3. building[s].view = None /\ \A x \in Live : x # None
    BY <1>1, <1>3, SetFacts DEF NoBuild
  <2>4. \A x : x \in Built <=> x \in Live /\ \A r \in Sessions : building[r].view # x
    BY <1>1, SetFacts
  <2>5. ASSUME NEW x PROVE x \in Built' <=> x \in Built
    <3>1. CASE x \in Live
      <4>1. x \in Live' /\ x # f /\ x # None
        BY <1>6, <2>3, <3>1
      <4>2. (\A r \in Sessions : building'[r].view # x) <=> (\A r \in Sessions : building[r].view # x)
        BY <2>2, <2>3, <4>1
      <4> QED
        BY <2>1, <2>4, <3>1, <4>1, <4>2
    <3>2. CASE x \notin Live
      BY <1>6, <2>1, <2>2, <2>4, <3>2
    <3> QED
      BY <3>1, <3>2
  <2> QED
    BY <2>5
<1>8. before \in Views \cup {None} /\ stack \in 1..issued' /\ stack \in Ids /\ issued' \in issued..MaxIds
  <2>0. issued \in Nat /\ MaxIds \in Nat /\ issued \in 0..MaxIds
    BY <1>1, SessionAssumption DEF Typed
  <2>1. CASE InNewTab(stack, before, key)
    BY <2>0, <2>1 DEF InNewTab, Ids
  <2>2. CASE OverActive(s, stack, before, key)
    <3>1. stack \in DOMAIN stacks[s] /\ before \in Views \cup {None} /\ issued' = issued
      BY <1>1, <2>2 DEF OverActive, ActiveEnd, Typed
    <3>2. stack \in Ids /\ stack # None
      BY <1>1, <3>1, SetFacts DEF Typed
    <3>3. stack \in 1..issued
      BY <1>1, <3>1, <3>2 DEF IdsDrawn, Tabs
    <3> QED
      BY <2>0, <3>1, <3>2, <3>3
  <2> QED
    BY <2>1, <2>2
<1> QED
  BY <1>2, <1>3, <1>4, <1>6, <1>7, <1>8 DEF Started

LEMMA StartKeeps ==
    ASSUME SessionInv, NEW s \in Sessions, NEW stack, NEW before, NEW k \in DOMAIN Parsed,
           NEW key \in Key, StartView(s, stack, before, k, key),
           InNewTab(stack, before, key) \/ OverActive(s, stack, before, key)
    PROVE  SessionInv'
<1>f. PICK f \in Views : f = FreeView
  BY FreeViewFree DEF SessionInv
<1>0. /\ Typed /\ Constructing /\ Complete /\ ActiveEnd /\ Ends /\ Predecessors /\ Owned
      /\ IdsDrawn /\ TabsApart /\ RecordsApart /\ OpenedWithKey /\ Linked
  BY DEF SessionInv
<1>1. /\ f \in Views /\ view[f] = Gone /\ f \notin Live
      /\ building[s] = NoBuild /\ s \notin closing
      /\ DOMAIN view' = Views
      /\ view'[f] = [session |-> s, prev |-> before, layout |-> k, rkey |-> key, records |-> <<>>]
      /\ \A w \in Views \ {f} : view'[w] = view[w]
      /\ building' = [building EXCEPT ![s] =
              [view |-> f, stack |-> stack, todo |-> Recorded(Finalized[k])]]
      /\ UNCHANGED <<active_stack, active_view, stacks, closing>>
      /\ Live' = Live \cup {f} /\ Built' = Built
      /\ before \in Views \cup {None} /\ stack \in 1..issued' /\ stack \in Ids
      /\ issued' \in issued..MaxIds
  <2>1. Started(f, s, stack, before, k, key)
    BY <1>f, StartEffect
  <2> QED
    BY <2>1 DEF Started
<1>2. /\ Live \subseteq Views /\ Built \subseteq Live /\ f \notin Built /\ f # None
      /\ issued \in Nat /\ issued' \in Nat /\ 1..issued \subseteq 1..issued'
      /\ Ids \subseteq Nat
  BY <1>0, <1>1, SetFacts, SessionAssumption
<1>3. \A w \in Live : w # f /\ view'[w] = view[w] /\ IdsOf(view'[w]) = IdsOf(view[w])
  <2>1. \A w \in Live : w # f /\ view'[w] = view[w]
    BY <1>1, <1>2
  <2> QED
    BY <2>1 DEF IdsOf
<1>4. DOMAIN view'[f].records = {} /\ IdsOf(view'[f]) = {}
  BY <1>1 DEF IdsOf
<1>5. /\ building'[s] = [view |-> f, stack |-> stack, todo |-> Recorded(Finalized[k])]
      /\ \A r \in Sessions \ {s} : building'[r] = building[r]
  BY <1>0, <1>1 DEF Typed
<1>6. Recorded(Finalized[k]) \in SUBSET Nat
  <2>1. IsTree(Parsed[k])
    BY LayoutsAreTrees
  <2>2. Nodes(Parsed[k]) \subseteq Nat
    BY <2>1, AncestorsEquation
  <2> QED
    BY <2>2, RecordedNodes
<1>7. Tabs(s)' = DOMAIN stacks[s] \cup {stack} /\ \A r \in Sessions \ {s} : Tabs(r)' = Tabs(r)
  <2>1. stack # None
    BY <1>0, <1>1, SetFacts
  <2> QED
    BY <1>1, <1>5, <2>1 DEF Tabs
<1>8. Tabs(s) = DOMAIN stacks[s]
  BY <1>1 DEF Tabs, NoBuild
<1>9. Typed'
  <2>1. \A w \in Live' : IsView(view'[w])
    <3>1. IsView(view'[f])
      BY <1>1 DEF IsView
    <3> QED
      BY <1>0, <1>1, <1>3, <3>1 DEF Typed
  <2>2. building' \in [Sessions -> Slot]
    <3>1. [view |-> f, stack |-> stack, todo |-> Recorded(Finalized[k])] \in Slot
      BY <1>1, <1>6 DEF Slot
    <3> QED
      BY <1>0, <1>1, <3>1 DEF Typed
  <2>3. issued' \in 0..MaxIds
    BY <1>1, <1>2, SessionAssumption
  <2> QED
    BY <1>0, <1>1, <2>1, <2>2, <2>3 DEF Typed
<1>10. Constructing'
  <2> SUFFICES ASSUME NEW r \in Sessions, building'[r] # NoBuild
               PROVE  LET b == building'[r]  new == view'[b.view] IN
                      /\ r \notin closing /\ b.view \in Live' /\ new.session = r
                      /\ b.stack \in 1..issued'
                      /\ b.todo \subseteq Recorded(Finalized[new.layout])
                      /\ DOMAIN new.records = Recorded(Finalized[new.layout]) \ b.todo
                      /\ \A n \in DOMAIN new.records, m \in b.todo : n < m
                      /\ IF new.prev = None THEN b.stack \notin DOMAIN stacks[r]
                         ELSE /\ b.stack = active_stack[r] /\ b.stack \in DOMAIN stacks[r]
                              /\ new.prev = stacks[r][b.stack]
    BY <1>1 DEF Constructing
  <2>1. CASE r = s
    <3>1. CASE InNewTab(stack, before, key)
      <4>1. stack \notin DOMAIN stacks[s]
        BY <1>0, <1>2, <1>8, <3>1 DEF InNewTab, IdsDrawn
      <4> QED
        BY <1>1, <1>4, <1>5, <2>1, <3>1, <4>1 DEF InNewTab
    <3>2. CASE OverActive(s, stack, before, key)
      <4>1. before = stacks[s][stack] /\ stack \in DOMAIN stacks[s]
        BY <1>0, <3>2 DEF OverActive, ActiveEnd
      <4> QED
        BY <1>1, <1>4, <1>5, <2>1, <3>2, <4>1 DEF OverActive
    <3> QED
      BY <3>1, <3>2
  <2>2. CASE r # s
    <3>1. building'[r] = building[r] /\ building[r] # NoBuild
      BY <1>5, <2>2
    <3>2. building[r].view \in Live
      BY <1>0, <3>1 DEF Constructing
    <3>3. view'[building'[r].view] = view[building[r].view] /\ building[r].view \in Live'
      BY <1>1, <1>3, <3>1, <3>2
    <3>4. building[r].stack \in 1..issued'
      BY <1>0, <1>2, <3>1 DEF Constructing
    <3> QED
      BY <1>0, <3>1, <3>3, <3>4 DEF Constructing
  <2> QED
    BY <2>1, <2>2
<1>11. Complete'
  BY <1>0, <1>1, <1>2, <1>3 DEF Complete
<1>12. ActiveEnd'
  BY <1>0, <1>1 DEF ActiveEnd
<1>13. Ends'
  <2>1. \A v \in Built : view'[v] = view[v]
    BY <1>2, <1>3
  <2> QED
    BY <1>0, <1>1, <2>1 DEF Ends
<1>14. Predecessors'
  <2>1. \A v \in Built : view'[v] = view[v]
    BY <1>2, <1>3
  <2> QED
    BY <1>0, <1>1, <2>1 DEF Predecessors
<1>15. Owned'
  <2>1. \A v \in Built : view'[v] = view[v]
    BY <1>2, <1>3
  <2> QED
    BY <1>0, <1>1, <2>1 DEF Owned, IsEnd
<1>16. IdsDrawn'
  <2>1. \A w \in Live' : IdsOf(view'[w]) \subseteq 1..issued'
    BY <1>0, <1>1, <1>2, <1>3, <1>4 DEF IdsDrawn
  <2>2. ASSUME NEW r \in Sessions PROVE Tabs(r)' \subseteq 1..issued'
    BY <1>0, <1>1, <1>2, <1>7, <1>8 DEF IdsDrawn
  <2> QED
    BY <2>1, <2>2 DEF IdsDrawn
<1>17. TabsApart'
  <2>1. CASE InNewTab(stack, before, key)
    <3>1. \A r \in Sessions : stack \notin Tabs(r)
      BY <1>0, <1>2, <2>1 DEF InNewTab, IdsDrawn
    <3>2. \A w \in Live : stack \notin IdsOf(view[w])
      BY <1>0, <1>2, <2>1 DEF InNewTab, IdsDrawn
    <3>3. \A r \in Sessions : Tabs(r)' = IF r = s THEN Tabs(s) \cup {stack} ELSE Tabs(r)
      BY <1>7, <1>8
    <3>4. \A w \in Live' : IdsOf(view'[w]) = IF w = f THEN {} ELSE IdsOf(view[w])
      BY <1>1, <1>3, <1>4
    <3> QED
      BY <1>0, <1>1, <3>1, <3>2, <3>3, <3>4 DEF TabsApart
  <2>2. CASE OverActive(s, stack, before, key)
    <3>1. stack \in DOMAIN stacks[s]
      BY <1>0, <2>2 DEF OverActive, ActiveEnd
    <3>2. \A r \in Sessions : Tabs(r)' = Tabs(r)
      BY <1>7, <1>8, <3>1
    <3>3. \A w \in Live' : IdsOf(view'[w]) = IF w = f THEN {} ELSE IdsOf(view[w])
      BY <1>1, <1>3, <1>4
    <3> QED
      BY <1>0, <1>1, <3>2, <3>3 DEF TabsApart
  <2> QED
    BY <2>1, <2>2
<1>18. RecordsApart'
  <2> SUFFICES ASSUME NEW v \in Live', NEW w \in Live',
                      NEW m \in DOMAIN view'[v].records, NEW n \in DOMAIN view'[w].records,
                      view'[v].records[m].id = view'[w].records[n].id
               PROVE  v = w /\ m = n
    BY DEF RecordsApart
  <2>1. v \in Live /\ w \in Live
    BY <1>1, <1>4
  <2> QED
    BY <1>0, <1>3, <2>1 DEF RecordsApart
<1>19. OpenedWithKey'
  <2> SUFFICES ASSUME NEW v \in Live'
               PROVE  /\ IF view'[v].prev = None THEN view'[v].rkey.holder = None
                         ELSE view'[v].rkey.holder \in IdsOf(view'[view'[v].prev])
                      /\ \A n \in DOMAIN view'[v].records :
                           view'[v].records[n].id > view'[v].rkey.holder
    BY DEF OpenedWithKey
  <2>1. CASE v = f
    <3>1. CASE InNewTab(stack, before, key)
      BY <1>1, <1>4, <2>1, <3>1 DEF InNewTab
    <3>2. CASE OverActive(s, stack, before, key)
      <4>1. before \in Built
        BY <1>0, <3>2 DEF OverActive, ActiveEnd, Ends
      <4>2. IdsOf(view'[before]) = IdsOf(view[before])
        BY <1>2, <1>3, <4>1
      <4>3. view'[f].prev = before /\ view'[f].rkey.holder = key.holder
        BY <1>1
      <4>4. IdsOf(view'[view'[f].prev]) = IdsOf(view[before])
        BY <4>2, <4>3 DEF IdsOf
      <4> QED
        BY <1>4, <2>1, <3>2, <4>3, <4>4 DEF OverActive
    <3> QED
      BY <3>1, <3>2
  <2>2. CASE v # f
    <3>1. v \in Live /\ view'[v] = view[v]
      BY <1>1, <1>3, <2>2
    <3>2. view[v].prev # None => view[v].prev \in Live
      <4>1. CASE v \in Built
        BY <1>0, <1>2, <4>1 DEF Predecessors
      <4>2. CASE v \notin Built
        <5>1. PICK r \in Sessions : building[r].view = v
          BY <1>0, <3>1, <4>2, SetFacts
        <5>2. building[r] # NoBuild
          BY <1>0, <3>1, <5>1, SetFacts DEF NoBuild
        <5> QED
          BY <1>0, <1>2, <5>1, <5>2 DEF Constructing, Ends
      <4> QED
        BY <4>1, <4>2
    <3>3. view[v].prev # None => IdsOf(view'[view'[v].prev]) = IdsOf(view[view[v].prev])
      BY <1>3, <3>1, <3>2 DEF IdsOf
    <3> QED
      BY <1>0, <3>1, <3>3 DEF OpenedWithKey
  <2> QED
    BY <2>1, <2>2
<1>20. Linked'
  <2> SUFFICES ASSUME NEW v \in Live', NEW n \in DOMAIN view'[v].records
               PROVE  LET this == view'[v] IN
                      /\ this.records[n].uses = Holder(this.layout, this.records, this.rkey, n)
                      /\ this.records[n].uses \in {None, this.rkey.holder} \cup IdsOf(view'[v])
    BY DEF Linked
  <2>1. v \in Live
    BY <1>1, <1>4
  <2> QED
    BY <1>0, <1>3, <2>1 DEF Linked
<1> QED
  BY <1>9, <1>10, <1>11, <1>12, <1>13, <1>14, <1>15, <1>16, <1>17, <1>18, <1>19, <1>20
     DEF SessionInv

-----------------------------------------------------------------------------
(* A view under construction is built over one that is built. *)
LEMMA PrevBuilt ==
    ASSUME SessionInv, NEW v \in Live, view[v].prev # None
    PROVE  view[v].prev \in Built
<1>0. Typed /\ Constructing /\ Ends /\ Predecessors
  BY DEF SessionInv
<1>1. CASE v \in Built
  BY <1>0, <1>1 DEF Predecessors
<1>2. CASE v \notin Built
  <2>1. PICK r \in Sessions : building[r].view = v
    BY <1>0, <1>2, SetFacts
  <2>2. building[r] # NoBuild
    BY <1>0, <2>1, SetFacts DEF NoBuild
  <2> QED
    BY <1>0, <2>1, <2>2 DEF Constructing, Ends
<1> QED
  BY <1>1, <1>2

(* The Builder makes a record: id is the one it draws, n its node. *)
Made(v, n, id) == [id |-> id, uses |-> Holder(view[v].layout, view[v].records, view[v].rkey, n)]

NodeBuilt(s, v, n, id) ==
    /\ v = building[s].view /\ building[s] # NoBuild /\ v \in Live /\ v \notin Built
    /\ n \in building[s].todo /\ \A y \in building[s].todo : n <= y
    /\ id = issued + 1 /\ id \in Ids /\ issued' = id
    /\ DOMAIN view' = Views /\ \A w \in Views \ {v} : view'[w] = view[w]
    /\ DOMAIN view'[v] = {"session", "prev", "layout", "rkey", "records"}
    /\ view'[v].session = view[v].session /\ view'[v].prev = view[v].prev
    /\ view'[v].layout = view[v].layout /\ view'[v].rkey = view[v].rkey
    /\ view'[v].records = [m \in DOMAIN view[v].records \cup {n} |->
                             IF m = n THEN Made(v, n, id) ELSE view[v].records[m]]
    /\ building' = [building EXCEPT ![s].todo = @ \ {n}]
    /\ UNCHANGED <<active_stack, active_view, stacks, closing>>
    /\ Live' = Live /\ Built' = Built

LEMMA BuildEffect ==
    ASSUME SessionInv, NEW s \in Sessions, BuildNode(s)
    PROVE  \E v \in Views, n \in Nat, id \in Nat : NodeBuilt(s, v, n, id)
<1>0. Typed /\ Constructing
  BY DEF SessionInv
<1>1. PICK v \in Views \cup {None} : v = building[s].view
  BY <1>0 DEF Typed, Slot
<1>2. PICK todo \in SUBSET Nat : todo = building[s].todo
  BY <1>0 DEF Typed, Slot
<1>3. todo # {} /\ building[s] # NoBuild
  BY <1>2 DEF BuildNode, NoBuild
<1>4. PICK n \in todo : /\ n = (CHOOSE x \in todo : \A y \in todo : x <= y)
                        /\ \A y \in todo : n <= y
  <2>1. \E x \in todo : \A y \in todo : x <= y
    BY <1>3, MinimumExists
  <2> QED
    BY <2>1
<1>5. v \in Live /\ v \in Views /\ v \notin Built
  BY <1>0, <1>1, <1>3, SetFacts DEF Constructing
<1>6. PICK id \in Nat : id = issued + 1 /\ id \in Ids
  BY <1>0, SetFacts DEF BuildNode, Draws
<1>7. /\ view' = [view EXCEPT ![v].records =
            [m \in DOMAIN view[v].records \cup {n} |->
               IF m = n THEN Made(v, n, id) ELSE view[v].records[m]]]
      /\ issued' = id
      /\ building' = [building EXCEPT ![s].todo = @ \ {n}]
      /\ UNCHANGED <<active_stack, active_view, stacks, closing>>
  BY <1>1, <1>2, <1>4, <1>6 DEF BuildNode, Draws, Made, nav
<1>8. IsView(view[v]) /\ DOMAIN view = Views
  BY <1>0, <1>5 DEF Typed
<1>9. /\ DOMAIN view' = Views /\ \A w \in Views \ {v} : view'[w] = view[w]
      /\ DOMAIN view'[v] = {"session", "prev", "layout", "rkey", "records"}
      /\ view'[v].session = view[v].session /\ view'[v].prev = view[v].prev
      /\ view'[v].layout = view[v].layout /\ view'[v].rkey = view[v].rkey
      /\ view'[v].records = [m \in DOMAIN view[v].records \cup {n} |->
                               IF m = n THEN Made(v, n, id) ELSE view[v].records[m]]
  BY <1>5, <1>7, <1>8 DEF IsView
<1>10. view'[v] # Gone
  <2>1. view'[v].layout # Gone.layout
    BY <1>8, <1>9, LayoutAssumption, LenProperties DEF IsView, Gone, None
  <2> QED
    BY <2>1
<1>11. Live' = Live
  BY <1>5, <1>9, <1>10 DEF Live
<1>12. Built' = Built
  <2>1. \A r \in Sessions : building'[r].view = building[r].view
    BY <1>0, <1>7 DEF Typed, Slot
  <2> QED
    BY <1>11, <2>1 DEF Built
<1>13. NodeBuilt(s, v, n, id)
  BY <1>1, <1>2, <1>3, <1>4, <1>5, <1>6, <1>7, <1>9, <1>11, <1>12 DEF NodeBuilt
<1>14. v \in Views /\ n \in Nat /\ id \in Nat
  BY <1>4, <1>5
<1> QED
  BY <1>13, <1>14

(* Nodes are numbers. *)
LEMMA RecordedNumbers ==
    ASSUME NEW k \in DOMAIN Parsed
    PROVE  Recorded(Finalized[k]) \subseteq Nat
<1>1. IsTree(Parsed[k])
  BY LayoutsAreTrees
<1>2. Nodes(Parsed[k]) \subseteq Nat
  BY <1>1, AncestorsEquation
<1> QED
  BY <1>2, RecordedNodes

(* The record that a node depends on is there when its own is made. *)
LEMMA ContextMade ==
    ASSUME NEW k \in DOMAIN Parsed, NEW D, NEW todo \in SUBSET Nat, NEW n \in Recorded(Finalized[k]),
           D = Recorded(Finalized[k]) \ todo,
           \A m \in todo : n <= m,
           Context(Finalized[k], n) # 0
    PROVE  Context(Finalized[k], n) \in D /\ Context(Finalized[k], n) # n
<1>1. /\ Context(Finalized[k], n) \in Recorded(Finalized[k])
      /\ Context(Finalized[k], n) < n
  BY ContextBefore
<1>2. Recorded(Finalized[k]) \subseteq Nat
  BY RecordedNumbers
<1> QED
  BY <1>1, <1>2

LEMMA BuildKeeps ==
    ASSUME SessionInv, NEW s \in Sessions, BuildNode(s)
    PROVE  SessionInv'
<1>0. /\ Typed /\ Constructing /\ Complete /\ ActiveEnd /\ Ends /\ Predecessors /\ Owned
      /\ IdsDrawn /\ TabsApart /\ RecordsApart /\ OpenedWithKey /\ Linked
  BY DEF SessionInv
<1>a. PICK v \in Views, n \in Nat, id \in Nat : NodeBuilt(s, v, n, id)
  BY BuildEffect
<1>1. /\ v = building[s].view /\ building[s] # NoBuild /\ v \in Live /\ v \notin Built
      /\ n \in building[s].todo /\ \A y \in building[s].todo : n <= y
      /\ id = issued + 1 /\ id \in Ids /\ issued' = id
      /\ DOMAIN view' = Views /\ \A w \in Views \ {v} : view'[w] = view[w]
      /\ DOMAIN view'[v] = {"session", "prev", "layout", "rkey", "records"}
      /\ view'[v].session = view[v].session /\ view'[v].prev = view[v].prev
      /\ view'[v].layout = view[v].layout /\ view'[v].rkey = view[v].rkey
      /\ view'[v].records = [m \in DOMAIN view[v].records \cup {n} |->
                               IF m = n THEN Made(v, n, id) ELSE view[v].records[m]]
      /\ building' = [building EXCEPT ![s].todo = @ \ {n}]
      /\ UNCHANGED <<active_stack, active_view, stacks, closing>>
      /\ Live' = Live /\ Built' = Built
  BY <1>a DEF NodeBuilt
<1>u. UNCHANGED <<active_stack, active_view, stacks, closing>>
  BY <1>1
<1> DEFINE D == DOMAIN view[v].records
           k == view[v].layout
           old == view[v].records
           new == view'[v].records
           todo == building[s].todo
<1>2. /\ Live \subseteq Views /\ Built \subseteq Live /\ Ids \subseteq Nat /\ issued \in Nat
      /\ 1..issued \subseteq 1..issued' /\ issued' \in 0..MaxIds
  BY <1>0, <1>1, SetFacts, SessionAssumption DEF Ids
<1>3. \A w \in Built : view'[w] = view[w] /\ w # v
  BY <1>1, <1>2
<1>4. /\ view[v].session = s /\ s \notin closing /\ todo \in SUBSET Nat
      /\ todo \subseteq Recorded(Finalized[k]) /\ D = Recorded(Finalized[k]) \ todo
      /\ \A i \in D, m \in todo : i < m
      /\ k \in DOMAIN Parsed /\ view[v].rkey \in Key /\ D \subseteq Recorded(Finalized[k])
      /\ old \in [D -> Rec] /\ view[v].session \in Sessions /\ view[v].prev \in Views \cup {None}
  BY <1>0, <1>1 DEF Constructing, Typed, IsView, Slot
<1>5. /\ n \in Recorded(Finalized[k]) /\ n \notin D
      /\ DOMAIN new = D \cup {n} /\ new[n] = Made(v, n, id)
      /\ \A m \in D : new[m] = old[m]
  BY <1>1, <1>4
<1>6. /\ building'[s] = [building[s] EXCEPT !.todo = todo \ {n}]
      /\ building'[s].view = v /\ building'[s].stack = building[s].stack
      /\ building'[s].todo = todo \ {n}
      /\ \A r \in Sessions \ {s} : building'[r] = building[r]
  BY <1>0, <1>1 DEF Typed, Slot
\* The record that n depends on is there.
<1>7. Context(Finalized[k], n) # 0 => Context(Finalized[k], n) \in D
  BY <1>1, <1>4, <1>5, ContextMade
<1>8. /\ Made(v, n, id).id = id
      /\ Made(v, n, id).uses = Holder(k, old, view[v].rkey, n)
      /\ Made(v, n, id).uses \in {None, view[v].rkey.holder} \cup IdsOf(view[v])
  <2>1. CASE Context(Finalized[k], n) = 0
    BY <2>1 DEF Made, Holder, None
  <2>2. CASE Context(Finalized[k], n) # 0
    <3>1. Context(Finalized[k], n) \in D
      BY <1>7, <2>2
    <3>2. old[Context(Finalized[k], n)].uses \in {None, view[v].rkey.holder} \cup IdsOf(view[v])
      BY <1>0, <1>1, <3>1 DEF Linked
    <3>3. old[Context(Finalized[k], n)].id \in IdsOf(view[v])
      BY <3>1 DEF IdsOf
    <3> QED
      BY <2>2, <3>2, <3>3 DEF Made, Holder, None
  <2> QED
    BY <2>1, <2>2
<1>9. IdsOf(view[v]) \subseteq Ids /\ view[v].rkey.holder \in Ids \cup {None}
  BY <1>4 DEF IdsOf, Rec, Key
<1>10. Made(v, n, id) \in Rec
  BY <1>1, <1>8, <1>9 DEF Made, Rec
<1>11. IdsOf(view'[v]) = IdsOf(view[v]) \cup {id}
  BY <1>5, <1>8 DEF IdsOf
<1> HIDE DEF D, k, old, new, todo
<1>12. Typed'
  <2>1. IsView(view'[v])
    <3>1. new \in [D \cup {n} -> Rec]
      BY <1>1, <1>4, <1>10 DEF new, old, D
    <3> QED
      BY <1>1, <1>4, <1>5, <3>1 DEF IsView, k, D, old, new
  <2>2. \A w \in Live' : IsView(view'[w])
    BY <1>0, <1>1, <1>2, <2>1 DEF Typed
  <2>3. building' \in [Sessions -> Slot]
    <3>1. building'[s] \in Slot
      BY <1>0, <1>4, <1>6 DEF Typed, Slot
    <3>2. building' = [r \in Sessions |-> building'[r]]
      BY <1>0, <1>1 DEF Typed
    <3>3. \A r \in Sessions : building'[r] \in Slot
      BY <1>0, <1>6, <3>1 DEF Typed
    <3> QED
      BY <3>2, <3>3
  <2> QED
    BY <1>0, <1>1, <1>2, <2>2, <2>3 DEF Typed
<1>13. Constructing'
  <2> SUFFICES ASSUME NEW r \in Sessions, building'[r] # NoBuild
               PROVE  LET b == building'[r]  x == view'[b.view] IN
                      /\ r \notin closing /\ b.view \in Live' /\ x.session = r
                      /\ b.stack \in 1..issued'
                      /\ b.todo \subseteq Recorded(Finalized[x.layout])
                      /\ DOMAIN x.records = Recorded(Finalized[x.layout]) \ b.todo
                      /\ \A i \in DOMAIN x.records, m \in b.todo : i < m
                      /\ IF x.prev = None THEN b.stack \notin DOMAIN stacks[r]
                         ELSE /\ b.stack = active_stack[r] /\ b.stack \in DOMAIN stacks[r]
                              /\ x.prev = stacks[r][b.stack]
    BY <1>u DEF Constructing
  <2>1. CASE r = s
    <3>1. building[s].stack \in 1..issued'
      BY <1>0, <1>1, <1>2 DEF Constructing
    <3>2. IF view[v].prev = None THEN building[s].stack \notin DOMAIN stacks[s]
          ELSE /\ building[s].stack = active_stack[s] /\ building[s].stack \in DOMAIN stacks[s]
               /\ view[v].prev = stacks[s][building[s].stack]
      BY <1>0, <1>1 DEF Constructing
    <3>3. DOMAIN new = Recorded(Finalized[k]) \ (todo \ {n})
      BY <1>4, <1>5, <1>1 DEF todo
    <3>4. \A i \in DOMAIN new, m \in todo \ {n} : i < m
      <4> TAKE i \in DOMAIN new, m \in todo \ {n}
      <4>1. m \in Nat /\ n <= m /\ n # m
        BY <1>1, <1>4 DEF todo
      <4> QED
        BY <1>4, <1>5, <4>1
    <3>5. /\ view'[v].session = s /\ view'[v].prev = view[v].prev /\ view'[v].layout = k
          /\ view'[v].records = new /\ s \notin closing /\ v \in Live'
          /\ todo \ {n} \subseteq Recorded(Finalized[k])
      <4>1. /\ view'[v].session = view[v].session /\ view'[v].prev = view[v].prev
            /\ view'[v].layout = view[v].layout /\ v \in Live'
        BY <1>1
      <4>2. view[v].session = s /\ s \notin closing /\ todo \subseteq Recorded(Finalized[k])
        BY <1>4
      <4> QED
        BY <4>1, <4>2 DEF new, k
    <3>6. building'[r].view = v /\ building'[r].stack = building[s].stack
          /\ building'[r].todo = todo \ {n}
      BY <1>6, <2>1
    <3> QED
      BY <2>1, <3>1, <3>2, <3>3, <3>4, <3>5, <3>6
  <2>2. CASE r # s
    <3>1. building'[r] = building[r] /\ building[r] # NoBuild
      BY <1>6, <2>2
    <3>2. building[r].view \in Live /\ view[building[r].view].session = r
      BY <1>0, <3>1 DEF Constructing
    <3>3. view'[building'[r].view] = view[building[r].view] /\ building[r].view \in Live'
      BY <1>1, <1>2, <1>4, <2>2, <3>1, <3>2
    <3>4. building[r].stack \in 1..issued'
      BY <1>0, <1>2, <3>1 DEF Constructing
    <3> QED
      BY <1>0, <3>1, <3>3, <3>4 DEF Constructing
  <2> QED
    BY <2>1, <2>2
<1>14. Complete' /\ ActiveEnd' /\ Ends' /\ Predecessors' /\ Owned'
  <2>1. Complete'
    BY <1>0, <1>1, <1>3 DEF Complete
  <2>2. ActiveEnd'
    BY <1>0, <1>1 DEF ActiveEnd
  <2>3. Ends'
    BY <1>0, <1>1, <1>3 DEF Ends
  <2>4. Predecessors'
    BY <1>0, <1>1, <1>3 DEF Predecessors
  <2>5. Owned'
    BY <1>0, <1>1, <1>3 DEF Owned, IsEnd
  <2> QED
    BY <2>1, <2>2, <2>3, <2>4, <2>5
<1>15. \A r \in Sessions : Tabs(r)' = Tabs(r)
  BY <1>1, <1>6 DEF Tabs
<1>16. \A w \in Live : IdsOf(view'[w]) = IF w = v THEN IdsOf(view[w]) \cup {id} ELSE IdsOf(view[w])
  BY <1>1, <1>2, <1>11
<1>17. /\ \A w \in Live : IdsOf(view[w]) \subseteq 1..issued
       /\ \A r \in Sessions : Tabs(r) \subseteq 1..issued
       /\ id \notin 1..issued /\ id \in 1..issued'
  BY <1>0, <1>1, <1>2 DEF IdsDrawn
<1>18. IdsDrawn' /\ TabsApart'
  <2>0. Live' = Live /\ \A i \in 1..issued : i \in 1..issued'
    BY <1>1, <1>2
  <2>1. IdsDrawn'
    <3>1. ASSUME NEW w \in Live' PROVE IdsOf(view'[w]) \subseteq 1..issued'
      BY <1>16, <1>17, <2>0
    <3>2. ASSUME NEW r \in Sessions PROVE Tabs(r)' \subseteq 1..issued'
      BY <1>15, <1>17, <2>0
    <3> QED
      BY <3>1, <3>2 DEF IdsDrawn
  <2>2. TabsApart'
    <3>1. \A r \in Sessions, w \in Live : Tabs(r) \cap IdsOf(view[w]) = {}
          /\ id \notin Tabs(r)
      BY <1>0, <1>17 DEF TabsApart
    <3>2. \A r \in Sessions, w \in Live' : Tabs(r)' \cap IdsOf(view'[w]) = {}
      BY <1>15, <1>16, <2>0, <3>1
    <3>3. \A r, q \in Sessions : r # q => Tabs(r)' \cap Tabs(q)' = {}
      BY <1>0, <1>15 DEF TabsApart
    <3> QED
      BY <3>2, <3>3 DEF TabsApart
  <2> QED
    BY <2>1, <2>2
<1>19. RecordsApart'
  <2> SUFFICES ASSUME NEW x \in Live, NEW w \in Live,
                      NEW m \in DOMAIN view'[x].records, NEW i \in DOMAIN view'[w].records,
                      view'[x].records[m].id = view'[w].records[i].id
               PROVE  x = w /\ m = i
    BY <1>1 DEF RecordsApart
  <2> DEFINE isNew(y, j) == y = v /\ j = n
  <2>1. \A y \in Live : \A j \in DOMAIN view'[y].records :
          IF isNew(y, j) THEN view'[y].records[j].id = id
          ELSE /\ j \in DOMAIN view[y].records /\ view'[y].records[j].id = view[y].records[j].id
               /\ view'[y].records[j].id # id
    <3> TAKE y \in Live
    <3> TAKE j \in DOMAIN view'[y].records
    <3>1. CASE isNew(y, j)
      BY <1>5, <1>8, <3>1 DEF new
    <3>2. CASE ~isNew(y, j)
      <4>1. j \in DOMAIN view[y].records /\ view'[y].records[j] = view[y].records[j]
        <5>1. CASE y = v
          <6>1. view'[y].records = new /\ view[y].records = old /\ DOMAIN view[y].records = D
            BY <5>1 DEF new, old, D
          <6>2. j \in DOMAIN new
            BY <6>1
          <6> QED
            BY <1>5, <3>2, <5>1, <6>1, <6>2
        <5>2. CASE y # v
          BY <1>1, <1>2, <5>2
        <5> QED
          BY <5>1, <5>2
      <4>2. view[y].records[j].id \in IdsOf(view[y])
        BY <4>1 DEF IdsOf
      <4> QED
        BY <1>17, <3>2, <4>1, <4>2
    <3> QED
      BY <3>1, <3>2
  <2> HIDE DEF isNew
  <2>2. CASE isNew(x, m)
    BY <2>1, <2>2 DEF isNew
  <2>3. CASE ~isNew(x, m)
    BY <1>0, <2>1, <2>3 DEF RecordsApart
  <2> QED
    BY <2>2, <2>3
<1>20. \A w \in Live : view[w].prev # None => view[w].prev \in Built
  BY PrevBuilt
<1>21. OpenedWithKey'
  <2> SUFFICES ASSUME NEW w \in Live
               PROVE  /\ IF view'[w].prev = None THEN view'[w].rkey.holder = None
                         ELSE view'[w].rkey.holder \in IdsOf(view'[view'[w].prev])
                      /\ \A m \in DOMAIN view'[w].records :
                           view'[w].records[m].id > view'[w].rkey.holder
    BY <1>1 DEF OpenedWithKey
  <2>1. view'[w].prev = view[w].prev /\ view'[w].rkey = view[w].rkey
    BY <1>1, <1>2
  <2>2. view[w].prev # None => view'[view[w].prev] = view[view[w].prev]
    BY <1>3, <1>20
  <2>3. ASSUME NEW m \in DOMAIN view'[w].records
        PROVE  view'[w].records[m].id > view'[w].rkey.holder
    <3>1. CASE w = v /\ m = n
      <4>1. view[v].rkey.holder \in {None} \cup 1..issued
        <5>1. CASE view[v].prev = None
          BY <1>0, <1>1, <5>1 DEF OpenedWithKey
        <5>2. CASE view[v].prev # None
          <6>1. view[v].prev \in Live
            BY <1>1, <1>2, <1>20, <5>2
          <6> QED
            BY <1>0, <1>1, <1>17, <5>2, <6>1 DEF OpenedWithKey
        <5> QED
          BY <5>1, <5>2
      <4>2. view'[w].records[m].id = issued + 1
        BY <1>1, <1>5, <1>8, <3>1 DEF new
      <4> QED
        BY <1>2, <2>1, <3>1, <4>1, <4>2 DEF None
    <3>2. CASE ~(w = v /\ m = n)
      <4>1. m \in DOMAIN view[w].records /\ view'[w].records[m] = view[w].records[m]
        <5>1. CASE w = v
          <6>1. view'[w].records = new /\ view[w].records = old /\ DOMAIN view[w].records = D
            BY <5>1 DEF new, old, D
          <6>2. m \in DOMAIN new
            BY <6>1
          <6> QED
            BY <1>5, <3>2, <5>1, <6>1, <6>2
        <5>2. CASE w # v
          BY <1>1, <1>2, <5>2
        <5> QED
          BY <5>1, <5>2
      <4> QED
        BY <1>0, <2>1, <4>1 DEF OpenedWithKey
    <3> QED
      BY <3>1, <3>2
  <2> QED
    BY <1>0, <2>1, <2>2, <2>3 DEF OpenedWithKey
<1>22. Linked'
  <2> SUFFICES ASSUME NEW w \in Live, NEW m \in DOMAIN view'[w].records
               PROVE  LET this == view'[w] IN
                      /\ this.records[m].uses = Holder(this.layout, this.records, this.rkey, m)
                      /\ this.records[m].uses \in {None, this.rkey.holder} \cup IdsOf(this)
    BY <1>1 DEF Linked
  <2>1. CASE w # v
    BY <1>0, <1>1, <1>2, <2>1 DEF Linked
  <2>2. CASE w = v
    <3>1. m \in Recorded(Finalized[k]) /\ \A i \in todo : m <= i
      <4>1. m \in D \cup {n}
        BY <1>5, <2>2 DEF new
      <4>2. todo \subseteq Nat /\ \A y \in todo : n <= y
        BY <1>1, <1>4 DEF todo
      <4>3. CASE m \in D
        <5>1. m \in Nat /\ \A i \in todo : m < i
          BY <1>4, <4>2, <4>3, RecordedNumbers
        <5> QED
          BY <1>4, <4>2, <4>3, <5>1
      <4>4. CASE m = n
        BY <1>5, <4>2, <4>4
      <4> QED
        BY <4>1, <4>3, <4>4
    <3>2. Context(Finalized[k], m) # 0 => new[Context(Finalized[k], m)] = old[Context(Finalized[k], m)]
      BY <1>4, <1>5, <3>1, ContextMade
    <3>3. Holder(k, new, view[v].rkey, m) = Holder(k, old, view[v].rkey, m)
      BY <3>2 DEF Holder, None
    <3>4. new[m].uses = Holder(k, old, view[v].rkey, m)
          /\ new[m].uses \in {None, view[v].rkey.holder} \cup IdsOf(view[v])
      <4>1. CASE m = n
        BY <1>5, <1>8, <4>1
      <4>2. CASE m # n
        <5>1. m \in D
          BY <1>5, <2>2, <4>2 DEF new
        <5>2. new[m] = old[m]
          BY <1>5, <5>1
        <5>3. /\ old[m].uses = Holder(k, old, view[v].rkey, m)
              /\ old[m].uses \in {None, view[v].rkey.holder} \cup IdsOf(view[v])
          BY <1>0, <1>1, <5>1 DEF Linked, old, k, D
        <5> QED
          BY <5>2, <5>3
      <4> QED
        BY <4>1, <4>2
    <3> QED
      BY <1>1, <1>11, <2>2, <3>3, <3>4 DEF new, k
  <2> QED
    BY <2>1, <2>2
<1> QED
  BY <1>12, <1>13, <1>14, <1>18, <1>19, <1>21, <1>22 DEF SessionInv

-----------------------------------------------------------------------------
(* When views go and no view that stays was opened over one that goes, the *)
(* keys and the ids stay in order. *)
LEMMA FewerKeep ==
    ASSUME SessionInv, issued' = issued, Live' \subseteq Live,
           \A w \in Live' : view'[w] = view[w],
           \A w \in Live' : view[w].prev # None => view[w].prev \in Live',
           \A r \in Sessions : Tabs(r)' \subseteq Tabs(r)
    PROVE  IdsDrawn' /\ TabsApart' /\ RecordsApart' /\ OpenedWithKey' /\ Linked'
<1>0. IdsDrawn /\ TabsApart /\ RecordsApart /\ OpenedWithKey /\ Linked
  BY DEF SessionInv
<1>1. \A w \in Live' : w \in Live /\ view'[w] = view[w] /\ IdsOf(view'[w]) = IdsOf(view[w])
  BY DEF IdsOf
<1>2. IdsDrawn'
  <2>1. ASSUME NEW w \in Live' PROVE IdsOf(view'[w]) \subseteq 1..issued'
    BY <1>0, <1>1 DEF IdsDrawn
  <2>2. ASSUME NEW r \in Sessions PROVE Tabs(r)' \subseteq 1..issued'
    BY <1>0 DEF IdsDrawn
  <2> QED
    BY <2>1, <2>2 DEF IdsDrawn
<1>3. TabsApart'
  <2> SUFFICES ASSUME NEW r \in Sessions, NEW t \in Tabs(r)'
               PROVE  /\ \A q \in Sessions : t \in Tabs(q)' => r = q
                      /\ \A w \in Live' : t \notin IdsOf(view'[w])
    BY DEF TabsApart
  <2>1. t \in Tabs(r)
    OBVIOUS
  <2> QED
    BY <1>0, <1>1, <2>1 DEF TabsApart
<1>4. RecordsApart'
  <2> SUFFICES ASSUME NEW v \in Live', NEW w \in Live',
                      NEW m \in DOMAIN view'[v].records, NEW n \in DOMAIN view'[w].records,
                      view'[v].records[m].id = view'[w].records[n].id
               PROVE  v = w /\ m = n
    BY DEF RecordsApart
  <2> QED
    BY <1>0, <1>1 DEF RecordsApart
<1>5. OpenedWithKey'
  <2> SUFFICES ASSUME NEW v \in Live'
               PROVE  /\ IF view'[v].prev = None THEN view'[v].rkey.holder = None
                         ELSE view'[v].rkey.holder \in IdsOf(view'[view'[v].prev])
                      /\ \A n \in DOMAIN view'[v].records :
                           view'[v].records[n].id > view'[v].rkey.holder
    BY DEF OpenedWithKey
  <2>1. v \in Live /\ view'[v] = view[v]
    OBVIOUS
  <2>2. view[v].prev # None => IdsOf(view'[view'[v].prev]) = IdsOf(view[view[v].prev])
    BY <1>1, <2>1 DEF IdsOf
  <2> QED
    BY <1>0, <2>1, <2>2 DEF OpenedWithKey
<1>6. Linked'
  <2> SUFFICES ASSUME NEW v \in Live', NEW n \in DOMAIN view'[v].records
               PROVE  LET this == view'[v] IN
                      /\ this.records[n].uses = Holder(this.layout, this.records, this.rkey, n)
                      /\ this.records[n].uses \in {None, this.rkey.holder} \cup IdsOf(this)
    BY DEF Linked
  <2> QED
    BY <1>0, <1>1 DEF Linked
<1> QED
  BY <1>2, <1>3, <1>4, <1>5, <1>6

-----------------------------------------------------------------------------
LEMMA FailKeeps ==
    ASSUME SessionInv, NEW s \in Sessions, FailBuild(s)
    PROVE  SessionInv'
<1>0. /\ Typed /\ Constructing /\ Complete /\ ActiveEnd /\ Ends /\ Predecessors /\ Owned
  BY DEF SessionInv
<1>1. PICK v \in Views \cup {None} : v = building[s].view
  BY <1>0 DEF Typed, Slot
<1>2. /\ building[s] # NoBuild /\ view' = [view EXCEPT ![v] = Gone]
      /\ building' = [building EXCEPT ![s] = NoBuild]
      /\ UNCHANGED <<issued, active_stack, active_view, stacks, closing>>
  BY <1>1 DEF FailBuild, nav
<1>3. v \in Live /\ v \in Views /\ v \notin Built /\ view[v].session = s
  BY <1>0, <1>1, <1>2, SetFacts DEF Constructing
<1>4. /\ DOMAIN view' = Views /\ view'[v] = Gone
      /\ \A w \in Views \ {v} : view'[w] = view[w]
      /\ building'[s] = NoBuild /\ \A r \in Sessions \ {s} : building'[r] = building[r]
  BY <1>0, <1>2, <1>3 DEF Typed
<1>5. Live' = Live \ {v}
  BY <1>3, <1>4 DEF Live
<1>6. \A r \in Sessions \ {s} : building[r].view # v
  <2> SUFFICES ASSUME NEW r \in Sessions \ {s}, building[r].view = v PROVE FALSE
    OBVIOUS
  <2>1. building[r] # NoBuild
    BY <1>0, <1>3, SetFacts DEF NoBuild
  <2> QED
    BY <1>0, <1>3, <2>1 DEF Constructing
<1>7. Built' = Built
  <2>1. \A x : x \in Built' <=> x \in Live' /\ \A r \in Sessions : building'[r].view # x
    BY DEF Built
  <2>2. \A x : x \in Built <=> x \in Live /\ \A r \in Sessions : building[r].view # x
    BY <1>0, SetFacts
  <2>3. NoBuild.view = None /\ \A x \in Live : x # None
    BY <1>0, SetFacts DEF NoBuild
  <2>4. ASSUME NEW x PROVE x \in Built' <=> x \in Built
    <3>1. CASE x \in Live'
      <4>1. x \in Live /\ x # v /\ x # None
        BY <1>5, <2>3, <3>1
      <4>2. (\A r \in Sessions : building'[r].view # x) <=> (\A r \in Sessions : building[r].view # x)
        BY <1>1, <1>4, <2>3, <4>1
      <4> QED
        BY <2>1, <2>2, <3>1, <4>1, <4>2
    <3>2. CASE x \notin Live'
      BY <1>3, <1>5, <2>1, <2>2, <3>2
    <3> QED
      BY <3>1, <3>2
  <2> QED
    BY <2>4
<1>8. /\ Live \subseteq Views /\ Built \subseteq Live /\ \A w \in Built : view'[w] = view[w] /\ w # v
      /\ \A w \in Live' : w \in Live /\ w # v /\ view'[w] = view[w]
      /\ Live' \subseteq Live
  BY <1>0, <1>3, <1>4, <1>5, SetFacts
<1>9. Typed'
  <2>1. NoBuild \in Slot
    BY DEF NoBuild, Slot
  <2>2. building' \in [Sessions -> Slot]
    BY <1>0, <1>2, <2>1 DEF Typed
  <2>3. \A w \in Live' : IsView(view'[w])
    BY <1>0, <1>8 DEF Typed
  <2> QED
    BY <1>0, <1>2, <1>4, <2>2, <2>3 DEF Typed
<1>10. Constructing'
  <2> SUFFICES ASSUME NEW r \in Sessions, building'[r] # NoBuild
               PROVE  LET b == building'[r]  x == view'[b.view] IN
                      /\ r \notin closing /\ b.view \in Live' /\ x.session = r
                      /\ b.stack \in 1..issued'
                      /\ b.todo \subseteq Recorded(Finalized[x.layout])
                      /\ DOMAIN x.records = Recorded(Finalized[x.layout]) \ b.todo
                      /\ \A i \in DOMAIN x.records, m \in b.todo : i < m
                      /\ IF x.prev = None THEN b.stack \notin DOMAIN stacks[r]
                         ELSE /\ b.stack = active_stack[r] /\ b.stack \in DOMAIN stacks[r]
                              /\ x.prev = stacks[r][b.stack]
    BY <1>2 DEF Constructing
  <2>1. r # s /\ building'[r] = building[r] /\ building[r] # NoBuild /\ building[r].view # v
    BY <1>4, <1>6
  <2>2. building[r].view \in Live /\ building[r].view \in Live'
    BY <1>0, <1>5, <2>1 DEF Constructing
  <2>3. view'[building'[r].view] = view[building[r].view]
    BY <1>8, <2>1, <2>2
  <2> QED
    BY <1>0, <1>2, <2>1, <2>2, <2>3 DEF Constructing
<1>11. Complete' /\ ActiveEnd' /\ Ends' /\ Predecessors' /\ Owned'
  <2>1. Complete'
    BY <1>0, <1>7, <1>8 DEF Complete
  <2>2. ActiveEnd'
    BY <1>0, <1>2 DEF ActiveEnd
  <2>3. Ends'
    BY <1>0, <1>2, <1>7, <1>8 DEF Ends
  <2>4. Predecessors'
    BY <1>0, <1>7, <1>8 DEF Predecessors
  <2>5. Owned'
    BY <1>0, <1>2, <1>7, <1>8 DEF Owned, IsEnd
  <2> QED
    BY <2>1, <2>2, <2>3, <2>4, <2>5
<1>12. IdsDrawn' /\ TabsApart' /\ RecordsApart' /\ OpenedWithKey' /\ Linked'
  <2>1. \A w \in Live' : view[w].prev # None => view[w].prev \in Live'
    BY <1>5, <1>8, PrevBuilt
  <2>2. \A r \in Sessions : Tabs(r)' \subseteq Tabs(r)
    BY <1>2, <1>4 DEF Tabs, NoBuild
  <2> QED
    BY <1>2, <1>8, <2>1, <2>2, FewerKeep
<1> QED
  BY <1>9, <1>10, <1>11, <1>12 DEF SessionInv

-----------------------------------------------------------------------------
(* The view is complete: it is the end of its tab, and the active view. *)
LEMMA FinishKeeps ==
    ASSUME SessionInv, NEW s \in Sessions, FinishBuild(s)
    PROVE  SessionInv'
<1>0. /\ Typed /\ Constructing /\ Complete /\ ActiveEnd /\ Ends /\ Predecessors /\ Owned
  BY DEF SessionInv
<1>1. PICK v \in Views \cup {None} : v = building[s].view
  BY <1>0 DEF Typed, Slot
<1>2. PICK stack \in Ids \cup {None} : stack = building[s].stack
  BY <1>0 DEF Typed, Slot
<1>3. building[s] # NoBuild /\ building[s].todo = {} /\ SetActive(s, v, stack)
      /\ building' = [building EXCEPT ![s] = NoBuild]
      /\ UNCHANGED <<issued, view, closing>>
  BY <1>1, <1>2 DEF FinishBuild
<1>4. /\ v \in Live /\ v \in Views /\ v \notin Built /\ v # None /\ view[v].session = s
      /\ stack \in 1..issued /\ s \notin closing
      /\ DOMAIN view[v].records = Recorded(Finalized[view[v].layout])
      /\ IF view[v].prev = None THEN stack \notin DOMAIN stacks[s]
         ELSE /\ stack = active_stack[s] /\ stack \in DOMAIN stacks[s]
              /\ view[v].prev = stacks[s][stack]
  <2>1. /\ v \in Live /\ view[v].session = s /\ stack \in 1..issued /\ s \notin closing
        /\ IF view[v].prev = None THEN stack \notin DOMAIN stacks[s]
           ELSE /\ stack = active_stack[s] /\ stack \in DOMAIN stacks[s]
                /\ view[v].prev = stacks[s][stack]
    BY <1>0, <1>1, <1>2, <1>3 DEF Constructing
  <2>2. DOMAIN view[v].records = Recorded(Finalized[view[v].layout]) \ building[s].todo
    BY <1>0, <1>1, <1>3 DEF Constructing
  <2>3. v \in Views /\ v \notin Built /\ v # None
    BY <1>0, <1>1, <2>1, SetFacts
  <2> QED
    BY <1>3, <2>1, <2>2, <2>3
<1>5. stack \in Ids /\ stack # None
  BY <1>0, <1>4, SetFacts
<1>6. /\ stacks' = [stacks EXCEPT ![s] = WithEnd(stacks[s], stack, v)]
      /\ active_stack' = [active_stack EXCEPT ![s] = stack]
      /\ active_view' = [active_view EXCEPT ![s] = v]
  BY <1>3, <1>4 DEF SetActive
<1>7. /\ building'[s] = NoBuild /\ \A r \in Sessions \ {s} : building'[r] = building[r]
      /\ stacks'[s] = WithEnd(stacks[s], stack, v)
      /\ active_stack'[s] = stack /\ active_view'[s] = v
      /\ \A r \in Sessions \ {s} : /\ stacks'[r] = stacks[r] /\ active_stack'[r] = active_stack[r]
                                  /\ active_view'[r] = active_view[r]
  BY <1>0, <1>3, <1>6 DEF Typed
<1>8. /\ DOMAIN stacks'[s] = DOMAIN stacks[s] \cup {stack} /\ stacks'[s][stack] = v
      /\ \A t \in DOMAIN stacks[s] \ {stack} : stacks'[s][t] = stacks[s][t]
      /\ stacks'[s] = [t \in DOMAIN stacks'[s] |-> stacks'[s][t]]
  <2>1. PICK new : new = WithEnd(stacks[s], stack, v)
    OBVIOUS
  <2>2. /\ DOMAIN new = DOMAIN stacks[s] \cup {stack} /\ new[stack] = v
        /\ \A t \in DOMAIN stacks[s] \ {stack} : new[t] = stacks[s][t]
        /\ new = [t \in DOMAIN new |-> new[t]]
    BY <2>1 DEF WithEnd
  <2>3. stacks'[s] = new
    BY <1>7, <2>1
  <2> QED
    BY <2>2, <2>3
<1>9. Live' = Live /\ view' = view
  BY <1>3 DEF Live
<1>10. Built' = Built \cup {v}
  <2>1. \A x : x \in Built' <=> x \in Live /\ \A r \in Sessions : building'[r].view # x
    BY <1>9 DEF Built
  <2>2. \A x : x \in Built <=> x \in Live /\ \A r \in Sessions : building[r].view # x
    BY <1>0, SetFacts
  <2>3. NoBuild.view = None /\ \A x \in Live : x # None
    BY <1>0, SetFacts DEF NoBuild
  <2>4. \A r \in Sessions \ {s} : building[r].view # v
    <3> SUFFICES ASSUME NEW r \in Sessions \ {s}, building[r].view = v PROVE FALSE
      OBVIOUS
    <3>1. building[r] # NoBuild
      BY <1>4, <2>3
    <3> QED
      BY <1>0, <1>4, <3>1 DEF Constructing
  <2>5. ASSUME NEW x PROVE x \in Built' <=> x \in Built \cup {v}
    <3>1. CASE x \in Live /\ x # v
      <4>1. (\A r \in Sessions : building'[r].view # x) <=> (\A r \in Sessions : building[r].view # x)
        BY <1>1, <1>7, <2>3, <3>1
      <4> QED
        BY <2>1, <2>2, <3>1, <4>1
    <3>2. CASE x = v
      <4>1. \A r \in Sessions : building'[r].view # v
        BY <1>4, <1>7, <2>3, <2>4
      <4> QED
        BY <1>4, <2>1, <3>2, <4>1
    <3>3. CASE x \notin Live
      BY <1>4, <2>1, <2>2, <3>3
    <3> QED
      BY <3>1, <3>2, <3>3
  <2> QED
    BY <2>5
<1>11. Live \subseteq Views /\ Built \subseteq Live
  BY <1>0, SetFacts
<1>12. Typed'
  <2>1. building' \in [Sessions -> Slot]
    <3>1. NoBuild \in Slot
      BY DEF NoBuild, Slot
    <3> QED
      BY <1>0, <1>3, <3>1 DEF Typed
  <2>2. DOMAIN stacks' = Sessions
    BY <1>0, <1>6 DEF Typed
  <2>3. ASSUME NEW r \in Sessions
        PROVE  DOMAIN stacks'[r] \subseteq Ids /\ stacks'[r] \in [DOMAIN stacks'[r] -> Views]
    <3>1. CASE r = s
      <4>1. DOMAIN stacks'[s] \subseteq Ids
        BY <1>0, <1>5, <1>8 DEF Typed
      <4>2. \A t \in DOMAIN stacks'[s] : stacks'[s][t] \in Views
        BY <1>0, <1>4, <1>8 DEF Typed
      <4>3. stacks'[s] = [t \in DOMAIN stacks'[s] |-> stacks'[s][t]]
        BY <1>8
      <4> QED
        BY <3>1, <4>1, <4>2, <4>3
    <3>2. CASE r # s
      BY <1>0, <1>7, <3>2 DEF Typed
    <3> QED
      BY <3>1, <3>2
  <2>4. active_stack' \in [Sessions -> Ids \cup {None}]
    BY <1>0, <1>5, <1>6 DEF Typed
  <2>5. active_view' \in [Sessions -> Views \cup {None}]
    BY <1>0, <1>4, <1>6 DEF Typed
  <2> QED
    BY <1>0, <1>3, <1>9, <2>1, <2>2, <2>3, <2>4, <2>5 DEF Typed
<1>13. Constructing'
  <2> SUFFICES ASSUME NEW r \in Sessions, building'[r] # NoBuild
               PROVE  LET b == building'[r]  x == view[b.view] IN
                      /\ r \notin closing /\ b.view \in Live /\ x.session = r
                      /\ b.stack \in 1..issued
                      /\ b.todo \subseteq Recorded(Finalized[x.layout])
                      /\ DOMAIN x.records = Recorded(Finalized[x.layout]) \ b.todo
                      /\ \A i \in DOMAIN x.records, m \in b.todo : i < m
                      /\ IF x.prev = None THEN b.stack \notin DOMAIN stacks'[r]
                         ELSE /\ b.stack = active_stack'[r] /\ b.stack \in DOMAIN stacks'[r]
                              /\ x.prev = stacks'[r][b.stack]
    BY <1>3, <1>9 DEF Constructing
  <2>1. r # s /\ building'[r] = building[r] /\ building[r] # NoBuild
    BY <1>7
  <2>2. stacks'[r] = stacks[r] /\ active_stack'[r] = active_stack[r]
    BY <1>7, <2>1
  <2> QED
    BY <1>0, <2>1, <2>2 DEF Constructing
<1>14. Complete'
  BY <1>0, <1>4, <1>9, <1>10 DEF Complete
<1>15. ActiveEnd'
  <2> SUFFICES ASSUME NEW r \in Sessions
               PROVE  IF active_stack'[r] = None
                      THEN active_view'[r] = None /\ DOMAIN stacks'[r] = {}
                      ELSE /\ active_stack'[r] \in DOMAIN stacks'[r]
                           /\ active_view'[r] = stacks'[r][active_stack'[r]]
    BY DEF ActiveEnd
  <2>1. CASE r = s
    BY <1>5, <1>7, <1>8, <2>1
  <2>2. CASE r # s
    BY <1>0, <1>7, <2>2 DEF ActiveEnd
  <2> QED
    BY <2>1, <2>2
\* Nothing is over the new view, which is over the former end or nothing.
<1>16. \A w \in Built' : view[w].prev # v
  <2>1. \A w \in Built : view[w].prev # v
    BY <1>0, <1>4 DEF Predecessors
  <2>2. view[v].prev # v
    BY <1>0, <1>4 DEF Ends
  <2> QED
    BY <1>10, <2>1, <2>2
<1>17. Ends'
  <2> SUFFICES ASSUME NEW r \in Sessions, NEW t \in DOMAIN stacks'[r]
               PROVE  /\ stacks'[r][t] \in Built' /\ view[stacks'[r][t]].session = r
                      /\ \A u \in DOMAIN stacks'[r] : stacks'[r][u] = stacks'[r][t] => u = t
                      /\ \A w \in Built' : view[w].prev # stacks'[r][t]
    BY <1>9 DEF Ends
  <2>1. CASE r = s /\ t = stack
    <3>1. stacks'[r][t] = v
      BY <1>8, <2>1
    <3>2. \A u \in DOMAIN stacks'[s] : u # stack => stacks'[s][u] \in Built
      BY <1>0, <1>8 DEF Ends
    <3> QED
      BY <1>4, <1>10, <1>16, <2>1, <3>1, <3>2
  <2>2. CASE r = s /\ t # stack
    <3>1. t \in DOMAIN stacks[s] /\ stacks'[s][t] = stacks[s][t]
      BY <1>8, <2>2
    <3>2. stacks[s][t] \in Built /\ view[stacks[s][t]].session = s
          /\ \A u \in DOMAIN stacks[s] : stacks[s][u] = stacks[s][t] => u = t
          /\ \A w \in Built : view[w].prev # stacks[s][t]
      BY <1>0, <3>1 DEF Ends
    <3>3. view[v].prev # stacks[s][t]
      <4>1. CASE view[v].prev = None
        BY <1>0, <3>2, <4>1, SetFacts
      <4>2. CASE view[v].prev # None
        BY <1>4, <2>2, <3>2, <4>2
      <4> QED
        BY <4>1, <4>2
    <3>4. \A u \in DOMAIN stacks'[s] : stacks'[s][u] = stacks[s][t] => u = t
      <4> SUFFICES ASSUME NEW u \in DOMAIN stacks'[s], stacks'[s][u] = stacks[s][t] PROVE u = t
        OBVIOUS
      <4>1. u # stack
        BY <1>4, <1>8, <3>2
      <4> QED
        BY <1>8, <3>2, <4>1
    <3> QED
      BY <1>10, <2>2, <3>1, <3>2, <3>3, <3>4
  <2>3. CASE r # s
    <3>1. stacks'[r] = stacks[r] /\ t \in DOMAIN stacks[r]
      BY <1>7, <2>3
    <3>2. stacks[r][t] \in Built /\ view[stacks[r][t]].session = r
          /\ \A u \in DOMAIN stacks[r] : stacks[r][u] = stacks[r][t] => u = t
          /\ \A w \in Built : view[w].prev # stacks[r][t]
      BY <1>0, <3>1 DEF Ends
    <3>3. view[v].prev # stacks[r][t]
      <4>1. CASE view[v].prev = None
        BY <1>0, <3>2, <4>1, SetFacts
      <4>2. CASE view[v].prev # None
        <5>1. view[view[v].prev].session = s
          BY <1>0, <1>4, <4>2 DEF Ends
        <5> QED
          BY <2>3, <3>2, <5>1
      <4> QED
        BY <4>1, <4>2
    <3> QED
      BY <1>10, <3>1, <3>2, <3>3
  <2> QED
    BY <2>1, <2>2, <2>3
<1>18. Predecessors'
  <2> SUFFICES ASSUME NEW w \in Built', view[w].prev # None
               PROVE  LET p == view[w].prev IN
                      /\ p \in Built' /\ view[p].session = view[w].session
                      /\ \A x \in Built' : view[x].prev = p => x = w
    BY <1>9 DEF Predecessors
  <2>1. CASE w = v
    <3>1. view[v].prev = stacks[s][stack] /\ stack \in DOMAIN stacks[s]
      BY <1>4, <2>1
    <3>2. /\ view[v].prev \in Built /\ view[view[v].prev].session = s
          /\ \A x \in Built : view[x].prev # view[v].prev
      BY <1>0, <3>1 DEF Ends
    <3> QED
      BY <1>4, <1>10, <2>1, <3>2
  <2>2. CASE w # v
    <3>1. w \in Built
      BY <1>10, <2>2
    <3>2. /\ view[w].prev \in Built /\ view[view[w].prev].session = view[w].session
          /\ \A x \in Built : view[x].prev = view[w].prev => x = w
      BY <1>0, <3>1 DEF Predecessors
    <3>3. view[v].prev # view[w].prev
      <4>1. CASE view[v].prev = None
        BY <4>1
      <4>2. CASE view[v].prev # None
        BY <1>0, <1>4, <3>1, <4>2 DEF Ends
      <4> QED
        BY <4>1, <4>2
    <3> QED
      BY <1>10, <3>2, <3>3
  <2> QED
    BY <2>1, <2>2
<1>19. Owned'
  <2> SUFFICES ASSUME NEW w \in Built'
               PROVE  \/ \E t \in DOMAIN stacks'[view[w].session] : stacks'[view[w].session][t] = w
                      \/ \E x \in Built' : view[x].prev = w
    BY <1>9 DEF Owned, IsEnd
  <2>1. CASE w = v
    BY <1>4, <1>8, <2>1
  <2>2. CASE w # v
    <3>1. w \in Built
      BY <1>10, <2>2
    <3>2. CASE \E x \in Built : view[x].prev = w
      BY <1>10, <3>2
    <3>3. CASE \E t \in DOMAIN stacks[view[w].session] : stacks[view[w].session][t] = w
      <4>1. PICK t \in DOMAIN stacks[view[w].session] : stacks[view[w].session][t] = w
        BY <3>3
      <4>2. view[w].session \in Sessions
        BY <1>0, <1>11, <3>1 DEF Typed, IsView
      <4>3. CASE view[w].session = s /\ t = stack
        BY <1>0, <1>4, <1>10, <4>1, <4>3, SetFacts
      <4>4. CASE view[w].session = s /\ t # stack
        BY <1>8, <4>1, <4>4
      <4>5. CASE view[w].session # s
        BY <1>7, <4>1, <4>2, <4>5
      <4> QED
        BY <4>3, <4>4, <4>5
    <3> QED
      BY <1>0, <3>1, <3>2, <3>3 DEF Owned, IsEnd
  <2> QED
    BY <2>1, <2>2
<1>20. IdsDrawn' /\ TabsApart' /\ RecordsApart' /\ OpenedWithKey' /\ Linked'
  <2>1. \A w \in Live' : view[w].prev # None => view[w].prev \in Live'
    BY <1>9, <1>11, PrevBuilt
  <2>2. ASSUME NEW r \in Sessions PROVE Tabs(r)' \subseteq Tabs(r)
    <3>1. CASE r = s
      BY <1>2, <1>5, <1>7, <1>8, <3>1 DEF Tabs, NoBuild
    <3>2. CASE r # s
      BY <1>7, <3>2 DEF Tabs
    <3> QED
      BY <3>1, <3>2
  <2> QED
    BY <1>3, <1>9, <2>1, <2>2, FewerKeep
<1> QED
  BY <1>12, <1>13, <1>14, <1>15, <1>17, <1>18, <1>19, <1>20 DEF SessionInv

-----------------------------------------------------------------------------
(* ~View() of the active view: the one before it is the end of the tab, or *)
(* the tab is dropped. *)
LEMMA DeleteKeeps ==
    ASSUME SessionInv, NEW s \in Sessions, building[s] = NoBuild,
           NEW v, v = active_view[s], v # None, Delete(s, v)
    PROVE  SessionInv'
<1>0. /\ Typed /\ Constructing /\ Complete /\ ActiveEnd /\ Ends /\ Predecessors /\ Owned
  BY DEF SessionInv
<1>1. PICK a : a = active_stack[s]
  OBVIOUS
<1>2. a # None /\ a \in DOMAIN stacks[s] /\ v = stacks[s][a]
  BY <1>0, <1>1 DEF ActiveEnd
<1>3. /\ v \in Built /\ view[v].session = s
      /\ \A u \in DOMAIN stacks[s] : stacks[s][u] = v => u = a
      /\ \A w \in Built : view[w].prev # v
  BY <1>0, <1>2 DEF Ends
<1>4. Live \subseteq Views /\ Built \subseteq Live /\ a \in Ids /\ v \in Views
  BY <1>0, <1>2, <1>3, SetFacts DEF Typed
<1>5. PICK p \in Views \cup {None} : p = view[v].prev
  BY <1>0, <1>3, <1>4 DEF Typed, IsView
<1>6. /\ view' = [view EXCEPT ![v] = Gone] /\ SetActive(s, p, a)
      /\ UNCHANGED <<issued, building, closing>>
  BY <1>1, <1>5 DEF Delete
<1>7. /\ DOMAIN view' = Views /\ view'[v] = Gone /\ \A w \in Views \ {v} : view'[w] = view[w]
  BY <1>0, <1>4, <1>6 DEF Typed
<1>8. Live' = Live \ {v}
  BY <1>4, <1>7 DEF Live
<1>9. Built' = Built \ {v}
  BY <1>6, <1>8 DEF Built
<1>10. /\ Live' \subseteq Live /\ \A w \in Live' : w \in Live /\ w # v /\ view'[w] = view[w]
       /\ \A w \in Built' : w \in Built /\ w \in Live' /\ w # v /\ view'[w] = view[w]
  BY <1>4, <1>7, <1>8, <1>9
\* Nothing is opened over v, nor being opened.
<1>11. \A w \in Live : view[w].prev # v
  <2> SUFFICES ASSUME NEW w \in Live, view[w].prev = v PROVE FALSE
    OBVIOUS
  <2>1. w \notin Built
    BY <1>3
  <2>2. PICK r \in Sessions : building[r].view = w
    BY <1>0, <2>1, SetFacts
  <2>3. building[r] # NoBuild
    BY <1>0, <2>2, SetFacts DEF NoBuild
  <2>4. building[r].stack \in DOMAIN stacks[r] /\ v = stacks[r][building[r].stack]
    BY <1>0, <2>2, <2>3 DEF Constructing
  <2>5. r = s
    BY <1>0, <1>3, <2>4 DEF Ends
  <2> QED
    BY <2>3, <2>5
<1>12. p # None =>
         /\ p \in Built' /\ view[p].session = s /\ p # v
         /\ \A u \in DOMAIN stacks[s] : stacks[s][u] # p
         /\ \A w \in Built' : view[w].prev # p
  <2> SUFFICES ASSUME p # None
               PROVE  /\ p \in Built' /\ view[p].session = s /\ p # v
                      /\ \A u \in DOMAIN stacks[s] : stacks[s][u] # p
                      /\ \A w \in Built' : view[w].prev # p
    OBVIOUS
  <2>1. /\ p \in Built /\ view[p].session = s /\ \A w \in Built : view[w].prev = p => w = v
    BY <1>0, <1>3, <1>5 DEF Predecessors
  <2>2. p # v
    BY <1>3, <1>5
  <2>3. \A u \in DOMAIN stacks[s] : stacks[s][u] # p
    BY <1>0, <1>3, <1>5 DEF Ends
  <2> QED
    BY <1>9, <2>1, <2>2, <2>3
<1>13. /\ \A r \in Sessions \ {s} : /\ stacks'[r] = stacks[r] /\ active_stack'[r] = active_stack[r]
                                    /\ active_view'[r] = active_view[r]
       /\ DOMAIN stacks' = Sessions
       /\ DOMAIN stacks'[s] = IF p # None THEN DOMAIN stacks[s] ELSE DOMAIN stacks[s] \ {a}
       /\ stacks'[s] = [t \in DOMAIN stacks'[s] |-> stacks'[s][t]]
       /\ \A t \in DOMAIN stacks'[s] : stacks'[s][t] = IF t = a THEN p ELSE stacks[s][t]
       /\ active_stack' \in [Sessions -> Ids \cup {None}]
       /\ active_view' \in [Sessions -> Views \cup {None}]
       /\ IF active_stack'[s] = None THEN active_view'[s] = None /\ DOMAIN stacks'[s] = {}
          ELSE /\ active_stack'[s] \in DOMAIN stacks'[s]
               /\ active_view'[s] = stacks'[s][active_stack'[s]]
  <2>0. /\ DOMAIN stacks = Sessions /\ DOMAIN stacks[s] \subseteq Ids
        /\ active_stack \in [Sessions -> Ids \cup {None}]
        /\ active_view \in [Sessions -> Views \cup {None}]
        /\ \A t \in DOMAIN stacks[s] : stacks[s][t] \in Views
    BY <1>0 DEF Typed
  <2>1. CASE p # None
    <3>1. PICK new : new = WithEnd(stacks[s], a, p)
      OBVIOUS
    <3>2. /\ stacks' = [stacks EXCEPT ![s] = new]
          /\ active_stack' = [active_stack EXCEPT ![s] = a]
          /\ active_view' = [active_view EXCEPT ![s] = p]
      BY <1>6, <2>1, <3>1 DEF SetActive
    <3>3. /\ DOMAIN new = DOMAIN stacks[s] /\ new = [t \in DOMAIN new |-> new[t]]
          /\ \A t \in DOMAIN new : new[t] = IF t = a THEN p ELSE stacks[s][t]
      BY <1>2, <3>1 DEF WithEnd
    <3>4. stacks'[s] = new /\ active_stack'[s] = a /\ active_view'[s] = p
      BY <2>0, <3>2
    <3>5. \A r \in Sessions \ {s} : /\ stacks'[r] = stacks[r] /\ active_stack'[r] = active_stack[r]
                                    /\ active_view'[r] = active_view[r]
      BY <2>0, <3>2
    <3>6. DOMAIN stacks' = Sessions /\ active_stack' \in [Sessions -> Ids \cup {None}]
          /\ active_view' \in [Sessions -> Views \cup {None}]
      BY <1>4, <2>0, <3>2
    <3> QED
      BY <1>2, <2>1, <3>3, <3>4, <3>5, <3>6
  <2>2. CASE p = None
    <3>1. PICK others : others = Restrict(stacks[s], DOMAIN stacks[s] \ {a})
      OBVIOUS
    <3>2. PICK first \in IF DOMAIN others = {} THEN {None} ELSE DOMAIN others :
              /\ stacks' = [stacks EXCEPT ![s] = others]
              /\ active_stack' = [active_stack EXCEPT ![s] = first]
              /\ active_view' = [active_view EXCEPT ![s] =
                                    IF first = None THEN None ELSE others[first]]
      BY <1>6, <2>2, <3>1 DEF SetActive
    <3>3. /\ DOMAIN others = DOMAIN stacks[s] \ {a} /\ others = [t \in DOMAIN others |-> others[t]]
          /\ \A t \in DOMAIN others : t # a /\ others[t] = stacks[s][t]
      BY <3>1 DEF Restrict
    <3>4. /\ first \in Ids \cup {None} /\ (first = None <=> DOMAIN others = {})
          /\ first # None => first \in DOMAIN others /\ others[first] \in Views
      BY <1>0, <2>0, <3>2, <3>3, SetFacts
    <3>5. stacks'[s] = others /\ active_stack'[s] = first
          /\ active_view'[s] = IF first = None THEN None ELSE others[first]
      BY <2>0, <3>2
    <3>6. \A r \in Sessions \ {s} : /\ stacks'[r] = stacks[r] /\ active_stack'[r] = active_stack[r]
                                    /\ active_view'[r] = active_view[r]
      BY <2>0, <3>2
    <3>7. DOMAIN stacks' = Sessions /\ active_stack' \in [Sessions -> Ids \cup {None}]
          /\ active_view' \in [Sessions -> Views \cup {None}]
      BY <2>0, <3>2, <3>4
    <3> QED
      BY <2>2, <3>3, <3>4, <3>5, <3>6, <3>7
  <2> QED
    BY <2>1, <2>2
<1>14. Typed'
  <2>1. ASSUME NEW r \in Sessions
        PROVE  DOMAIN stacks'[r] \subseteq Ids /\ stacks'[r] \in [DOMAIN stacks'[r] -> Views]
    <3>1. CASE r = s
      <4>1. DOMAIN stacks'[s] \subseteq DOMAIN stacks[s] /\ DOMAIN stacks[s] \subseteq Ids
        BY <1>0, <1>13 DEF Typed
      <4>2. \A t \in DOMAIN stacks'[s] : stacks'[s][t] \in Views
        <5> TAKE t \in DOMAIN stacks'[s]
        <5>1. CASE t = a
          <6>1. p # None
            BY <1>13, <5>1
          <6> QED
            BY <1>5, <1>13, <5>1, <6>1
        <5>2. CASE t # a
          BY <1>0, <1>13, <4>1, <5>2 DEF Typed
        <5> QED
          BY <5>1, <5>2
      <4>3. stacks'[s] = [t \in DOMAIN stacks'[s] |-> stacks'[s][t]]
        BY <1>13
      <4> QED
        BY <3>1, <4>1, <4>2, <4>3
    <3>2. CASE r # s
      BY <1>0, <1>13, <3>2 DEF Typed
    <3> QED
      BY <3>1, <3>2
  <2>2. \A w \in Live' : IsView(view'[w])
    BY <1>0, <1>10 DEF Typed
  <2> QED
    BY <1>0, <1>6, <1>7, <1>13, <2>1, <2>2 DEF Typed
<1>15. Constructing'
  <2> SUFFICES ASSUME NEW r \in Sessions, building[r] # NoBuild
               PROVE  LET b == building[r]  x == view'[b.view] IN
                      /\ r \notin closing /\ b.view \in Live' /\ x.session = r
                      /\ b.stack \in 1..issued
                      /\ b.todo \subseteq Recorded(Finalized[x.layout])
                      /\ DOMAIN x.records = Recorded(Finalized[x.layout]) \ b.todo
                      /\ \A i \in DOMAIN x.records, m \in b.todo : i < m
                      /\ IF x.prev = None THEN b.stack \notin DOMAIN stacks'[r]
                         ELSE /\ b.stack = active_stack'[r] /\ b.stack \in DOMAIN stacks'[r]
                              /\ x.prev = stacks'[r][b.stack]
    BY <1>6 DEF Constructing
  <2>1. r # s /\ stacks'[r] = stacks[r] /\ active_stack'[r] = active_stack[r]
    BY <1>13
  <2>2. building[r].view \in Live /\ view[building[r].view].session = r
    BY <1>0 DEF Constructing
  <2>3. building[r].view \in Live' /\ view'[building[r].view] = view[building[r].view]
    BY <1>3, <1>8, <1>10, <2>1, <2>2
  <2> QED
    BY <1>0, <2>1, <2>3 DEF Constructing
<1>16. Complete'
  BY <1>0, <1>10 DEF Complete
<1>17. ActiveEnd'
  <2> SUFFICES ASSUME NEW r \in Sessions
               PROVE  IF active_stack'[r] = None
                      THEN active_view'[r] = None /\ DOMAIN stacks'[r] = {}
                      ELSE /\ active_stack'[r] \in DOMAIN stacks'[r]
                           /\ active_view'[r] = stacks'[r][active_stack'[r]]
    BY DEF ActiveEnd
  <2>1. CASE r = s
    BY <1>13, <2>1
  <2>2. CASE r # s
    BY <1>0, <1>13, <2>2 DEF ActiveEnd
  <2> QED
    BY <2>1, <2>2
<1>18. Ends'
  <2> SUFFICES ASSUME NEW r \in Sessions, NEW t \in DOMAIN stacks'[r]
               PROVE  /\ stacks'[r][t] \in Built' /\ view[stacks'[r][t]].session = r
                      /\ \A u \in DOMAIN stacks'[r] : stacks'[r][u] = stacks'[r][t] => u = t
                      /\ \A w \in Built' : view[w].prev # stacks'[r][t]
    BY <1>10 DEF Ends
  <2>1. CASE r = s /\ t = a
    <3>1. p # None /\ stacks'[s][a] = p
      BY <1>13, <2>1
    <3>2. \A u \in DOMAIN stacks'[s] : u # a => stacks'[s][u] # p
      BY <1>12, <1>13, <3>1
    <3> QED
      BY <1>12, <2>1, <3>1, <3>2
  <2>2. CASE r = s /\ t # a
    <3>1. t \in DOMAIN stacks[s] /\ stacks'[s][t] = stacks[s][t]
      BY <1>13, <2>2
    <3>2. /\ stacks[s][t] \in Built /\ view[stacks[s][t]].session = s
          /\ \A u \in DOMAIN stacks[s] : stacks[s][u] = stacks[s][t] => u = t
          /\ \A w \in Built : view[w].prev # stacks[s][t]
      BY <1>0, <3>1 DEF Ends
    <3>3. stacks[s][t] # v
      BY <1>3, <2>2, <3>1
    <3>4. \A u \in DOMAIN stacks'[s] : stacks'[s][u] = stacks[s][t] => u = t
      <4> SUFFICES ASSUME NEW u \in DOMAIN stacks'[s], stacks'[s][u] = stacks[s][t] PROVE u = t
        OBVIOUS
      <4>1. CASE u = a
        <5>1. p # None /\ stacks'[s][u] = p
          BY <1>13, <4>1
        <5> QED
          BY <1>12, <3>1, <5>1
      <4>2. CASE u # a
        BY <1>13, <3>2, <4>2
      <4> QED
        BY <4>1, <4>2
    <3> QED
      BY <1>9, <2>2, <3>1, <3>2, <3>3, <3>4
  <2>3. CASE r # s
    <3>1. stacks'[r] = stacks[r] /\ t \in DOMAIN stacks[r]
      BY <1>13, <2>3
    <3>2. /\ stacks[r][t] \in Built /\ view[stacks[r][t]].session = r
          /\ \A u \in DOMAIN stacks[r] : stacks[r][u] = stacks[r][t] => u = t
          /\ \A w \in Built : view[w].prev # stacks[r][t]
      BY <1>0, <3>1 DEF Ends
    <3> QED
      BY <1>3, <1>9, <2>3, <3>1, <3>2
  <2> QED
    BY <2>1, <2>2, <2>3
<1>19. Predecessors'
  <2> SUFFICES ASSUME NEW w \in Built', view[w].prev # None
               PROVE  LET q == view[w].prev IN
                      /\ q \in Built' /\ view'[q].session = view'[w].session
                      /\ \A x \in Built' : view'[x].prev = q => x = w
    BY <1>10 DEF Predecessors
  <2>1. w \in Built /\ view'[w] = view[w]
    BY <1>10
  <2>2. /\ view[w].prev \in Built /\ view[view[w].prev].session = view[w].session
        /\ \A x \in Built : view[x].prev = view[w].prev => x = w
    BY <1>0, <2>1 DEF Predecessors
  <2>3. view[w].prev \in Built'
    BY <1>3, <1>9, <2>1, <2>2
  <2> QED
    BY <1>10, <2>1, <2>2, <2>3
<1>20. Owned'
  <2> SUFFICES ASSUME NEW w \in Built'
               PROVE  \/ \E t \in DOMAIN stacks'[view[w].session] : stacks'[view[w].session][t] = w
                      \/ \E x \in Built' : view[x].prev = w
    BY <1>10 DEF Owned, IsEnd
  <2>1. w \in Built /\ w # v /\ view[w].session \in Sessions
    BY <1>0, <1>4, <1>10 DEF Typed, IsView
  <2>2. CASE \E x \in Built : view[x].prev = w
    <3>1. PICK x \in Built : view[x].prev = w
      BY <2>2
    <3>2. CASE x = v
      <4>1. w = p /\ p # None
        BY <1>0, <1>4, <1>5, <2>1, <3>1, <3>2, SetFacts
      <4>2. a \in DOMAIN stacks'[s] /\ stacks'[s][a] = w
        BY <1>2, <1>13, <4>1
      <4> QED
        BY <1>12, <4>1, <4>2
    <3>3. CASE x # v
      BY <1>9, <3>1, <3>3
    <3> QED
      BY <3>2, <3>3
  <2>3. CASE \E t \in DOMAIN stacks[view[w].session] : stacks[view[w].session][t] = w
    <3>1. PICK t \in DOMAIN stacks[view[w].session] : stacks[view[w].session][t] = w
      BY <2>3
    <3>2. CASE view[w].session = s
      <4>1. t # a
        BY <1>2, <2>1, <3>1, <3>2
      <4> QED
        BY <1>13, <3>1, <3>2, <4>1
    <3>3. CASE view[w].session # s
      BY <1>13, <2>1, <3>1, <3>3
    <3> QED
      BY <3>2, <3>3
  <2> QED
    BY <1>0, <2>1, <2>2, <2>3 DEF Owned, IsEnd
<1>21. IdsDrawn' /\ TabsApart' /\ RecordsApart' /\ OpenedWithKey' /\ Linked'
  <2>1. ASSUME NEW w \in Live', view[w].prev # None PROVE view[w].prev \in Live'
    BY <1>4, <1>8, <1>11, <2>1, PrevBuilt
  <2>2. ASSUME NEW r \in Sessions PROVE Tabs(r)' \subseteq Tabs(r)
    <3>1. building'[r] = building[r] /\ DOMAIN stacks'[r] \subseteq DOMAIN stacks[r]
      BY <1>6, <1>13
    <3> QED
      BY <3>1 DEF Tabs
  <2> QED
    BY <1>6, <1>10, <2>1, <2>2, FewerKeep
<1> QED
  BY <1>14, <1>15, <1>16, <1>17, <1>18, <1>19, <1>20, <1>21 DEF SessionInv

-----------------------------------------------------------------------------
(* SessionInv through a step that changes neither views nor tabs. *)
LEMMA SwitchKeeps ==
    ASSUME SessionInv, NEW s \in Sessions, NEW t \in Ids, SwitchStack(s, t)
    PROVE  SessionInv'
<1>0. /\ Typed /\ Constructing /\ Complete /\ ActiveEnd /\ Ends /\ Predecessors /\ Owned
      /\ IdsDrawn /\ TabsApart /\ RecordsApart /\ OpenedWithKey /\ Linked
  BY DEF SessionInv
<1>1. /\ building[s] = NoBuild /\ t \in DOMAIN stacks[s]
      /\ active_stack' = [active_stack EXCEPT ![s] = t]
      /\ active_view' = [active_view EXCEPT ![s] = stacks[s][t]]
      /\ UNCHANGED <<issued, view, building, stacks, closing>>
  BY DEF SwitchStack, Idle
<1>2. /\ active_stack'[s] = t /\ active_view'[s] = stacks[s][t]
      /\ \A r \in Sessions \ {s} : /\ active_stack'[r] = active_stack[r]
                                  /\ active_view'[r] = active_view[r]
  BY <1>0, <1>1 DEF Typed
<1>3. Live' = Live /\ Built' = Built
  <2>1. Live' = Live
    BY <1>1 DEF Live
  <2> QED
    BY <1>1, <2>1 DEF Built
<1>4. Typed'
  <2>1. active_stack' \in [Sessions -> Ids \cup {None}]
    BY <1>0, <1>1 DEF Typed
  <2>2. stacks[s][t] \in Views
    BY <1>0, <1>1 DEF Typed
  <2>3. active_view' \in [Sessions -> Views \cup {None}]
    BY <1>0, <1>1, <2>2 DEF Typed
  <2> QED
    BY <1>0, <1>1, <1>3, <2>1, <2>3 DEF Typed
<1>5. ActiveEnd'
  <2> SUFFICES ASSUME NEW r \in Sessions
               PROVE  IF active_stack'[r] = None
                      THEN active_view'[r] = None /\ DOMAIN stacks[r] = {}
                      ELSE /\ active_stack'[r] \in DOMAIN stacks[r]
                           /\ active_view'[r] = stacks[r][active_stack'[r]]
    BY <1>1 DEF ActiveEnd
  <2>1. CASE r = s
    BY <1>0, <1>1, <1>2, <2>1, SetFacts
  <2>2. CASE r # s
    BY <1>0, <1>2, <2>2 DEF ActiveEnd
  <2> QED
    BY <2>1, <2>2
<1>6. Constructing'
  <2> SUFFICES ASSUME NEW r \in Sessions, building[r] # NoBuild
               PROVE  LET b == building[r]  x == view[b.view] IN
                      /\ r \notin closing /\ b.view \in Live /\ x.session = r
                      /\ b.stack \in 1..issued
                      /\ b.todo \subseteq Recorded(Finalized[x.layout])
                      /\ DOMAIN x.records = Recorded(Finalized[x.layout]) \ b.todo
                      /\ \A i \in DOMAIN x.records, m \in b.todo : i < m
                      /\ IF x.prev = None THEN b.stack \notin DOMAIN stacks[r]
                         ELSE /\ b.stack = active_stack'[r] /\ b.stack \in DOMAIN stacks[r]
                              /\ x.prev = stacks[r][b.stack]
    BY <1>1, <1>3 DEF Constructing
  <2>1. active_stack'[r] = active_stack[r]
    BY <1>1, <1>2
  <2> QED
    BY <1>0, <2>1 DEF Constructing
<1>7. Complete' /\ Ends' /\ Predecessors' /\ Owned'
  <2>1. Complete'
    BY <1>0, <1>1, <1>3 DEF Complete
  <2>2. Ends'
    BY <1>0, <1>1, <1>3 DEF Ends
  <2>3. Predecessors'
    BY <1>0, <1>1, <1>3 DEF Predecessors
  <2>4. Owned'
    BY <1>0, <1>1, <1>3 DEF Owned, IsEnd
  <2> QED
    BY <2>1, <2>2, <2>3, <2>4
<1>8. IdsDrawn' /\ TabsApart' /\ RecordsApart' /\ OpenedWithKey' /\ Linked'
  <2>1. \A w \in Live' : view[w].prev # None => view[w].prev \in Live'
    BY <1>0, <1>3, PrevBuilt, SetFacts
  <2>2. \A r \in Sessions : Tabs(r)' \subseteq Tabs(r)
    BY <1>1 DEF Tabs
  <2> QED
    BY <1>1, <1>3, <2>1, <2>2, FewerKeep
<1> QED
  BY <1>4, <1>5, <1>6, <1>7, <1>8 DEF SessionInv

LEMMA EndKeeps ==
    ASSUME SessionInv, NEW s \in Sessions, EndSession(s)
    PROVE  SessionInv'
<1>0. /\ Typed /\ Constructing /\ Complete /\ ActiveEnd /\ Ends /\ Predecessors /\ Owned
      /\ IdsDrawn /\ TabsApart /\ RecordsApart /\ OpenedWithKey /\ Linked
  BY DEF SessionInv
<1>1. /\ building[s] = NoBuild /\ closing' = closing \cup {s}
      /\ UNCHANGED <<issued, view, building, active_stack, active_view, stacks>>
  BY DEF EndSession, Idle, nav
<1>2. Live' = Live /\ Built' = Built
  <2>1. Live' = Live
    BY <1>1 DEF Live
  <2> QED
    BY <1>1, <2>1 DEF Built
<1>3. Typed'
  BY <1>0, <1>1, <1>2 DEF Typed
<1>4. Constructing'
  BY <1>0, <1>1, <1>2 DEF Constructing
<1>5. Complete' /\ ActiveEnd' /\ Ends' /\ Predecessors' /\ Owned'
  <2>1. Complete' /\ ActiveEnd'
    BY <1>0, <1>1, <1>2 DEF Complete, ActiveEnd
  <2>2. Ends'
    BY <1>0, <1>1, <1>2 DEF Ends
  <2>3. Predecessors'
    BY <1>0, <1>1, <1>2 DEF Predecessors
  <2>4. Owned'
    BY <1>0, <1>1, <1>2 DEF Owned, IsEnd
  <2> QED
    BY <2>1, <2>2, <2>3, <2>4
<1>6. IdsDrawn' /\ TabsApart' /\ RecordsApart' /\ OpenedWithKey' /\ Linked'
  <2>1. \A w \in Live' : view[w].prev # None => view[w].prev \in Live'
    BY <1>0, <1>2, PrevBuilt, SetFacts
  <2>2. \A r \in Sessions : Tabs(r)' \subseteq Tabs(r)
    BY <1>1 DEF Tabs
  <2> QED
    BY <1>1, <1>2, <2>1, <2>2, FewerKeep
<1> QED
  BY <1>3, <1>4, <1>5, <1>6 DEF SessionInv

LEMMA StutterKeeps ==
    ASSUME SessionInv, UNCHANGED vars
    PROVE  SessionInv'
<1>1. UNCHANGED <<issued, view, building, active_stack, active_view, stacks, closing>>
  BY DEF vars, nav
<1>2. Live' = Live
  BY <1>1 DEF Live
<1>3. Built' = Built
  BY <1>1, <1>2 DEF Built
<1>4. IdsDrawn' /\ TabsApart' /\ RecordsApart' /\ OpenedWithKey' /\ Linked'
  <2>1. \A w \in Live' : view[w].prev # None => view[w].prev \in Live'
    BY <1>2, PrevBuilt, SetFacts DEF SessionInv
  <2>2. \A r \in Sessions : Tabs(r)' \subseteq Tabs(r)
    BY <1>1 DEF Tabs
  <2> QED
    BY <1>1, <1>2, <2>1, <2>2, FewerKeep
<1>5. Typed' /\ Constructing'
  BY <1>1, <1>2 DEF SessionInv, Typed, Constructing
<1>6. Complete' /\ ActiveEnd' /\ Ends'
  BY <1>1, <1>3 DEF SessionInv, Complete, ActiveEnd, Ends
<1>7. Predecessors' /\ Owned'
  BY <1>1, <1>3 DEF SessionInv, Predecessors, Owned, IsEnd
<1> QED
  BY <1>4, <1>5, <1>6, <1>7 DEF SessionInv

-----------------------------------------------------------------------------
(* What a view is opened with. *)
LEMMA OpenStackKeeps ==
    ASSUME SessionInv, NEW s \in Sessions, OpenStack(s)
    PROVE  SessionInv'
<1>1. PICK id \in Draws, k \in InMenu(s) : StartView(s, id, None, k, NoKey) /\ issued' = issued + 1
  BY DEF OpenStack
<1>2. k \in DOMAIN Parsed
  BY DEF InMenu, Finalized
<1>3. NoKey \in Key /\ InNewTab(id, None, NoKey)
  BY <1>1 DEF NoKey, Key, InNewTab, Draws
<1> QED
  BY <1>1, <1>2, <1>3, StartKeeps

(* What OpenNested() starts: the view over the active one, with a key of   *)
(* that and the layout that was found. *)
Opens(s, m, u, k, key) ==
    /\ k = FindBestLayout(m, Media[s], u) /\ k \in DOMAIN Parsed /\ key \in Key
    /\ StartView(s, active_stack[s], active_view[s], k, key)
    /\ OverActive(s, active_stack[s], active_view[s], key)

LEMMA OpenNestedStarts ==
    ASSUME SessionInv, NEW s \in Sessions, NEW m \in Models, NEW u \in Usages,
           OpenNested(s, m, u)
    PROVE  \E k, key : Opens(s, m, u, k, key)
<1>1. PICK k : k = FindBestLayout(m, Media[s], u)
  OBVIOUS
<1>2. PICK top : top = active_view[s]
  OBVIOUS
<1>3. /\ top # None /\ k # None /\ issued' = issued
      /\ \E key \in Keys(top) : StartView(s, active_stack[s], top, k, key)
  BY <1>1, <1>2 DEF OpenNested
<1>4. PICK key \in Keys(top) : StartView(s, active_stack[s], top, k, key)
  BY <1>3
<1>5. k \in DOMAIN Parsed
  BY <1>1, <1>3, BestLayout DEF None
<1>6. top \in Live /\ IsView(view[top])
  BY <1>2, <1>3, SetFacts DEF SessionInv, Typed, ActiveEnd, Ends
<1>7. PICK n \in DOMAIN view[top].records, f \in BOOLEAN :
          key = [holder |-> view[top].records[n].id, in_field |-> f]
  BY <1>4 DEF Keys
<1>8. key \in Key /\ key.holder \in IdsOf(view[top])
  <2>1. view[top].records[n].id \in Ids
    BY <1>6, <1>7 DEF IsView, Rec
  <2> QED
    BY <1>7, <2>1 DEF Key, IdsOf
<1>9. OverActive(s, active_stack[s], top, key)
  BY <1>2, <1>3, <1>8 DEF OverActive
<1>10. Opens(s, m, u, k, key)
  BY <1>1, <1>2, <1>4, <1>5, <1>8, <1>9 DEF Opens
<1> QED
  BY <1>10

LEMMA OpenNestedKeeps ==
    ASSUME SessionInv, NEW s \in Sessions, NEW m \in Models, NEW u \in Usages,
           OpenNested(s, m, u)
    PROVE  SessionInv'
<1>1. PICK k, key : Opens(s, m, u, k, key)
  BY OpenNestedStarts
<1> QED
  BY <1>1, StartKeeps DEF Opens

LEMMA NextKeeps == SessionInv /\ [Next]_vars => SessionInv'
<1> SUFFICES ASSUME SessionInv, [Next]_vars PROVE SessionInv'
  OBVIOUS
<1>1. CASE UNCHANGED vars
  BY <1>1, StutterKeeps
<1>2. ASSUME NEW s \in Sessions, Step(s) PROVE SessionInv'
  <2>1. CASE OpenStack(s)
    BY <2>1, OpenStackKeeps
  <2>2. CASE \E m \in Models, u \in Usages : OpenNested(s, m, u)
    BY <2>2, OpenNestedKeeps
  <2>3. CASE BuildNode(s)
    BY <2>3, BuildKeeps
  <2>4. CASE FailBuild(s)
    BY <2>4, FailKeeps
  <2>5. CASE FinishBuild(s)
    BY <2>5, FinishKeeps
  <2>6. CASE \E v \in Views : Close(s, v)
    <3>1. PICK v \in Views : Close(s, v)
      BY <2>6
    <3>2. building[s] = NoBuild /\ v = active_view[s] /\ v # None /\ Delete(s, v)
      BY <3>1 DEF Close, Idle, MayClose
    <3> QED
      BY <3>2, DeleteKeeps
  <2>7. CASE \E t \in Ids : SwitchStack(s, t)
    BY <2>7, SwitchKeeps
  <2>8. CASE EndSession(s)
    BY <2>8, EndKeeps
  <2>9. CASE DeleteActive(s)
    <3>1. s \in closing /\ active_view[s] # None /\ Delete(s, active_view[s])
      BY <2>9 DEF DeleteActive
    <3>2. building[s] = NoBuild
      BY <3>1 DEF SessionInv, Constructing
    <3> QED
      BY <3>1, <3>2, DeleteKeeps
  <2> QED
    BY <1>2, <2>1, <2>2, <2>3, <2>4, <2>5, <2>6, <2>7, <2>8, <2>9 DEF Step
<1> QED
  BY <1>1, <1>2 DEF Next

(* SessionInv is an invariant: what views, tabs and ids are to each other, *)
(* after any openings, failures and closings of any sessions. *)
THEOREM SessionInvariant == Spec => []SessionInv
<1>1. Init => SessionInv
  BY InitInv
<1>2. SessionInv /\ [Next]_vars => SessionInv'
  BY NextKeeps
<1> QED
  BY <1>1, <1>2, PTL DEF Spec

(* The pointers of a session and of its views point to views, the tabs are *)
(* named by ids. *)
THEOREM SessionTypeCorrect == Spec => []TypeOK
<1>1. SessionInv => TypeOK
  <2> SUFFICES ASSUME SessionInv PROVE TypeOK
    OBVIOUS
  <2>0. Typed
    BY DEF SessionInv
  <2>1. \A v \in Live :
          /\ view[v].session \in Sessions /\ view[v].prev \in Views \cup {None}
          /\ view[v].layout \in DOMAIN Parsed
          /\ DOMAIN view[v].records \subseteq Recorded(Finalized[view[v].layout])
    BY <2>0 DEF Typed, IsView
  <2>2. \A s \in Sessions : building[s].view \in Views \cup {None}
    BY <2>0 DEF Typed, Slot
  <2>3. \A s \in Sessions : DOMAIN stacks[s] \subseteq Ids /\ Range(stacks[s]) \subseteq Views
    BY <2>0 DEF Typed, Range
  <2> QED
    BY <2>0, <2>1, <2>2, <2>3 DEF Typed, TypeOK
<1> QED
  BY <1>1, SessionInvariant, PTL

(* KeysOutliveTheirUsers (rec.h:56): a record refers to a key of its own   *)
(* view or of the one before it, and both are still there: a view is only  *)
(* deleted when nothing is opened over it, nor being opened. *)
THEOREM KeysOutlive == Spec => []KeysOutliveTheirUsers
<1>1. SessionInv => KeysOutliveTheirUsers
  <2> SUFFICES ASSUME SessionInv, NEW v \in Live, NEW n \in DOMAIN view[v].records
               PROVE  view[v].records[n].uses \in {None} \cup UNION {RecordIds(w) : w \in Live}
    BY DEF KeysOutliveTheirUsers
  <2>1. view[v].records[n].uses \in {None, view[v].rkey.holder} \cup IdsOf(view[v])
    BY DEF SessionInv, Linked
  <2>2. \A w \in Live : IdsOf(view[w]) = RecordIds(w)
    BY DEF IdsOf, RecordIds
  <2>3. view[v].rkey.holder = None \/ \E w \in Live : view[v].rkey.holder \in RecordIds(w)
    <3>1. CASE view[v].prev = None
      BY <3>1 DEF SessionInv, OpenedWithKey
    <3>2. CASE view[v].prev # None
      <4>1. view[v].prev \in Live
        BY <3>2, PrevBuilt, SetFacts DEF SessionInv
      <4>2. view[v].rkey.holder \in IdsOf(view[view[v].prev])
        BY <3>2 DEF SessionInv, OpenedWithKey
      <4> QED
        BY <2>2, <4>1, <4>2
    <3> QED
      BY <3>1, <3>2
  <2> QED
    BY <2>1, <2>2, <2>3
<1> QED
  BY <1>1, SessionInvariant, PTL

(* IdsNameOneThing (RUIDGen.h:110): two sessions that construct views at   *)
(* the same time, or open tabs, never get one id. *)
THEOREM IdsUnique == Spec => []IdsNameOneThing
<1>1. SessionInv => IdsNameOneThing
  <2> SUFFICES ASSUME SessionInv PROVE IdsNameOneThing
    OBVIOUS
  <2>1. RecordsApart /\ TabsApart
    BY DEF SessionInv
  <2>2. \A w \in Live : IdsOf(view[w]) = RecordIds(w)
    BY DEF IdsOf, RecordIds
  <2>3. ASSUME NEW s \in Sessions, NEW r \in Sessions, NEW t \in DOMAIN stacks[s]
        PROVE  /\ t \in DOMAIN stacks[r] => s = r
               /\ \A v \in Live : t \notin RecordIds(v)
    <3>1. t \in Tabs(s) /\ (t \in DOMAIN stacks[r] => t \in Tabs(r))
      BY DEF Tabs
    <3> QED
      BY <2>1, <2>2, <3>1 DEF TabsApart
  <2> QED
    BY <2>1, <2>3 DEF RecordsApart, IdsNameOneThing
<1> QED
  BY <1>1, SessionInvariant, PTL

(* RecordsFollowTheLayout (linked_records_manual.md 4.1 and 4.2): in every *)
(* complete view, whatever the layouts, each form and each list has its    *)
(* record, which follows the nearest one that is written around it. *)
THEOREM RecordsFollow == Spec => []RecordsFollowTheLayout
<1>1. SessionInv => RecordsFollowTheLayout
  <2> SUFFICES ASSUME SessionInv, NEW v \in Built
               PROVE  LET l == Parsed[view[v].layout]
                          recs == view[v].records
                          parts == {n \in Nodes(l) : l.tag[n] \in {"form", "list"}}
                      IN  /\ DOMAIN recs = parts
                          /\ \A n \in parts, p \in parts :
                               /\ p \in Ancestors(l)[n]
                               /\ \A q \in parts : q \in Ancestors(l)[n] => q <= p
                               => recs[n].uses = IF l.tag[p] = "list" THEN recs[p].id
                                                 ELSE recs[p].uses
    BY DEF RecordsFollowTheLayout
  <2>1. PICK k : k = view[v].layout
    OBVIOUS
  <2>2. PICK parts : parts = {n \in Nodes(Parsed[k]) : Parsed[k].tag[n] \in {"form", "list"}}
    OBVIOUS
  <2>3. v \in Live /\ k \in DOMAIN Parsed
    BY <2>1, SetFacts DEF SessionInv, Typed, IsView
  <2>4. parts = Recorded(Finalized[k]) /\ parts \subseteq Nat
    BY <2>2, <2>3, RecordedNodes, RecordedNumbers
  <2>5. DOMAIN view[v].records = parts
    BY <2>1, <2>4 DEF SessionInv, Complete
  <2>6. ASSUME NEW n \in parts, NEW p \in parts, p \in Ancestors(Parsed[k])[n],
               \A q \in parts : q \in Ancestors(Parsed[k])[n] => q <= p
        PROVE  view[v].records[n].uses =
                   IF Parsed[k].tag[p] = "list" THEN view[v].records[p].id
                   ELSE view[v].records[p].uses
    <3>1. PICK above : above = Recorded(Finalized[k]) \cap Ancestors(Finalized[k])[n]
      OBVIOUS
    <3>2. above = {q \in parts : q \in Ancestors(Parsed[k])[n]}
      BY <2>3, <2>4, <3>1, AncestorsDetermined
    <3>3. p \in above /\ \A q \in above : q <= p
      BY <2>6, <3>2
    <3>4. PICK c : c = Context(Finalized[k], n)
      OBVIOUS
    <3>5. c \in above /\ c # 0 /\ \A q \in above : q <= c
      BY <2>3, <2>4, <3>1, <3>3, <3>4, ContextBefore
    <3>6. c = p
      BY <2>4, <3>2, <3>3, <3>5
    <3>7. view[v].records[n].uses = Holder(k, view[v].records, view[v].rkey, n)
      BY <2>1, <2>3, <2>5 DEF SessionInv, Linked
    <3>8. Finalized[k].tag = Parsed[k].tag
      BY <2>3, LayoutsAreTrees
    <3> QED
      BY <3>4, <3>5, <3>6, <3>7, <3>8 DEF Holder, None
  <2> QED
    BY <2>1, <2>2, <2>5, <2>6
<1> QED
  BY <1>1, SessionInvariant, PTL

(* BestLayoutIsOpened (rack.cpp:93): the view that is opened is made from  *)
(* the layout of highest priority, for any layouts. *)
THEOREM BestLayoutOpened == Spec => BestLayoutIsOpened
<1>1. ASSUME SessionInv, NEW s \in Sessions, NEW m \in Models, NEW u \in Usages,
             OpenNested(s, m, u)
      PROVE  \E v \in Views :
                /\ view[v] = Gone /\ view'[v] # Gone
                /\ LET l == Parsed[view'[v].layout] IN
                   l.pri \in -128..127 => \A k \in DOMAIN Parsed :
                        LET other == Parsed[k] IN
                        Fits(other, m, Media[s], u) /\ other.pri \in -127..127
                            => other.pri <= l.pri
  <2>1. PICK k, key : Opens(s, m, u, k, key)
    BY <1>1, OpenNestedStarts
  <2>2. /\ k = FindBestLayout(m, Media[s], u) /\ k \in DOMAIN Parsed
        /\ StartView(s, active_stack[s], active_view[s], k, key) /\ key \in Key
        /\ OverActive(s, active_stack[s], active_view[s], key)
    BY <2>1 DEF Opens
  <2>3. PICK f \in Views : f = FreeView
    BY <1>1, <2>2, FreeViewFree DEF SessionInv
  <2>4. Started(f, s, active_stack[s], active_view[s], k, key)
    BY <1>1, <2>2, <2>3, StartEffect
  <2>5. view[f] = Gone /\ view'[f].layout = k
    BY <2>4 DEF Started
  <2>6. k # 0
    BY <2>2, LayoutAssumption, LenProperties
  <2>7. view'[f] # Gone
    BY <2>5, <2>6 DEF Gone, None
  <2>8. \A i \in DOMAIN Parsed : /\ Finalized[i].pri = Int8(Parsed[i].pri) /\ Parsed[i].pri \in Int
                                 /\ (Fits(Finalized[i], m, Media[s], u) <=> Fits(Parsed[i], m, Media[s], u))
    BY LayoutsAreTrees, LayoutAssumption DEF Fits
  <2>9. \A n \in Int : n \in -128..127 => Int8(n) = n
    BY DEF Int8
  <2>10. ASSUME Parsed[k].pri \in -128..127, NEW i \in DOMAIN Parsed,
                Fits(Parsed[i], m, Media[s], u), Parsed[i].pri \in -127..127
         PROVE  Parsed[i].pri <= Parsed[k].pri
    <3>1. Finalized[i].pri <= Finalized[k].pri
      BY <2>2, <2>6, <2>8, <2>10, BestLayout
    <3> QED
      BY <2>2, <2>8, <2>9, <2>10, <3>1
  <2> QED
    BY <2>5, <2>7, <2>10
<1>2. SessionInv => \A s \in Sessions, m \in Models, u \in Usages : OpenNested(s, m, u) =>
         \E v \in Views :
            /\ view[v] = Gone /\ view'[v] # Gone
            /\ LET l == Parsed[view'[v].layout] IN
               l.pri \in -128..127 => \A k \in DOMAIN Parsed :
                    LET other == Parsed[k] IN
                    Fits(other, m, Media[s], u) /\ other.pri \in -127..127
                        => other.pri <= l.pri
  BY <1>1, Zenon
<1>3. SessionInv /\ [Next]_vars =>
        [\A s \in Sessions, m \in Models, u \in Usages : OpenNested(s, m, u) =>
         \E v \in Views :
            /\ view[v] = Gone /\ view'[v] # Gone
            /\ LET l == Parsed[view'[v].layout] IN
               l.pri \in -128..127 => \A k \in DOMAIN Parsed :
                    LET other == Parsed[k] IN
                    Fits(other, m, Media[s], u) /\ other.pri \in -127..127
                        => other.pri <= l.pri]_vars
  BY <1>2, Zenon
<1> QED
  BY <1>3, SessionInvariant, PTL DEF Spec, BestLayoutIsOpened

(* session_view.cpp:112: when ~Session() has no active view left, no view  *)
(* of the session is left either, in no tab and no trail: the loop, which  *)
(* looks at the active view alone, deletes them all. *)
THEOREM EndedSessionIsEmpty ==
    Spec => [](\A s \in closing : active_view[s] = None =>
                   \A v \in Live : view[v].session # s)
<1>1. SessionInv => \A s \in closing : active_view[s] = None =>
                        \A v \in Live : view[v].session # s
  <2> SUFFICES ASSUME SessionInv, NEW s \in closing, active_view[s] = None,
                      NEW v \in Live, view[v].session = s
               PROVE  FALSE
    OBVIOUS
  <2>0. /\ Typed /\ Constructing /\ ActiveEnd /\ Ends /\ Predecessors /\ Owned /\ OpenedWithKey
        /\ s \in Sessions
    BY DEF SessionInv, Typed
  <2>1. Live \subseteq Views /\ Built \subseteq Live /\ None \notin Views
    BY <2>0, SetFacts
  <2>2. DOMAIN stacks[s] = {}
    BY <2>0, <2>1 DEF ActiveEnd, Ends
  <2>3. ASSUME NEW w \in Live, view[w].session = s PROVE w \in Built
    <3> SUFFICES ASSUME w \notin Built PROVE FALSE
      OBVIOUS
    <3>1. PICK r \in Sessions : building[r].view = w
      BY <2>0, SetFacts
    <3>2. building[r] # NoBuild
      BY <2>0, <2>1, <3>1 DEF NoBuild
    <3> QED
      BY <2>0, <2>3, <3>1, <3>2 DEF Constructing
  <2> DEFINE mine == {w \in Built : view[w].session = s}
             keys == {view[w].rkey.holder : w \in mine}
  <2>4. keys # {} /\ keys \subseteq 0..MaxIds /\ MaxIds \in Nat
    <3>1. v \in mine
      BY <2>3
    <3>2. \A w \in mine : view[w].rkey.holder \in 0..MaxIds
      BY <2>0, <2>1, SessionAssumption DEF Typed, IsView, Key, Ids, None
    <3> QED
      BY <3>1, <3>2, SessionAssumption
  <2>5. PICK h \in keys : \A i \in keys : i <= h
    <3> HIDE DEF keys
    <3> QED
      BY <2>4, MaximumExists
  <2>6. PICK w \in mine : view[w].rkey.holder = h
    BY <2>5
  <2>7. PICK x \in Built : view[x].prev = w
    BY <2>0, <2>2, <2>6 DEF Owned, IsEnd
  <2>8. x \in mine /\ w # None
    BY <2>0, <2>1, <2>6, <2>7 DEF Predecessors
  <2>9. view[x].rkey.holder \in IdsOf(view[w])
    BY <2>0, <2>1, <2>7, <2>8 DEF OpenedWithKey
  <2>10. view[x].rkey.holder > h
    BY <2>0, <2>1, <2>6, <2>9 DEF OpenedWithKey, IdsOf
  <2>11. view[x].rkey.holder \in keys
    BY <2>8
  <2>12. view[x].rkey.holder \in Nat /\ h \in Nat
    BY <2>4, <2>5, <2>11
  <2> HIDE DEF keys
  <2> QED
    BY <2>5, <2>10, <2>11, <2>12
<1> QED
  BY <1>1, SessionInvariant, PTL


(* session_view.cpp:113: each turn of the loop of ~Session() deletes one   *)
(* view, of this session and complete, and makes no other; so that the     *)
(* turns are as many as the session had views.                             *)
THEOREM EachTurnDeletesAView ==
    Spec => [][\A s \in Sessions : DeleteActive(s) =>
                  \E v \in Built : view[v].session = s /\ Live' = Live \ {v}]_vars
<1>1. SessionInv => \A s \in Sessions : DeleteActive(s) =>
                       \E v \in Built : view[v].session = s /\ Live' = Live \ {v}
  <2> SUFFICES ASSUME SessionInv, NEW s \in Sessions, DeleteActive(s)
               PROVE  \E v \in Built : view[v].session = s /\ Live' = Live \ {v}
    OBVIOUS
  <2> DEFINE v == active_view[s]
  <2>0. Typed /\ ActiveEnd /\ Ends /\ Live \subseteq Views /\ Built \subseteq Live
    BY SetFacts DEF SessionInv
  <2>1. v \in Built /\ view[v].session = s
    BY <2>0 DEF DeleteActive, ActiveEnd, Ends
  <2>2. view' = [view EXCEPT ![v] = Gone] /\ DOMAIN view = Views
    BY <2>0 DEF DeleteActive, Delete, Typed
  <2> HIDE DEF v
  <2>3. Live' = Live \ {v}
    BY <2>2 DEF Live
  <2> QED
    BY <2>1, <2>3
<1> QED
  BY <1>1, SessionInvariant, PTL

(* Following prev from view to view leads down: no set of views is closed  *)
(* under it, for each was opened with a key of the one before. *)
LEMMA ChainsEnd ==
    ASSUME SessionInv, NEW S \in (SUBSET Built) \ {{}}
    PROVE  \E v \in S : view[v].prev \notin S
<1>0. Typed /\ OpenedWithKey /\ Live \subseteq Views /\ Built \subseteq Live /\ None \notin Views
  BY SetFacts DEF SessionInv
<1> DEFINE keys == {view[v].rkey.holder : v \in S}
<1>1. keys # {} /\ keys \subseteq Nat
  <2>1. \A v \in S : view[v].rkey.holder \in 0..MaxIds
    BY <1>0, SessionAssumption DEF Typed, IsView, Key, Ids, None
  <2> QED
    BY <2>1, SessionAssumption
<1>2. PICK h \in keys : \A i \in keys : h <= i
  <2> HIDE DEF keys
  <2> QED
    BY <1>1, MinimumExists
<1>3. PICK v \in S : view[v].rkey.holder = h
  BY <1>2
<1>4. ASSUME view[v].prev \in S PROVE FALSE
  <2> DEFINE p == view[v].prev
  <2>1. v \in Live /\ p \in Live /\ p # None
    BY <1>0, <1>3, <1>4
  <2>2. h \in IdsOf(view[p])
    BY <1>0, <1>3, <2>1 DEF OpenedWithKey
  <2>3. h > view[p].rkey.holder
    BY <1>0, <2>1, <2>2 DEF OpenedWithKey, IdsOf
  <2>4. view[p].rkey.holder \in keys
    BY <1>4
  <2>5. h \in Nat /\ view[p].rkey.holder \in Nat
    BY <1>1, <1>2, <2>4
  <2> HIDE DEF keys
  <2> QED
    BY <1>2, <2>3, <2>4, <2>5
<1> QED
  BY <1>3, <1>4

(* session_view.h, view_chain.h: each view is on one chain of its session  *)
(* and only once, through openings that fail, closings and switches of any *)
(* number of sessions. *)
THEOREM ViewsOnOneChain == Spec => []EveryViewOnOneChain
<1>1. SessionInv => EveryViewOnOneChain
  <2> SUFFICES ASSUME SessionInv PROVE EveryViewOnOneChain
    OBVIOUS
  <2>0. /\ Typed /\ ActiveEnd /\ Ends /\ Predecessors /\ Owned
        /\ Live \subseteq Views /\ Built \subseteq Live /\ None \notin Views
    BY SetFacts DEF SessionInv
  <2>1. ASSUME NEW s \in Sessions
        PROVE  /\ active_view[s] = IF active_stack[s] = None THEN None
                                   ELSE stacks[s][active_stack[s]]
               /\ \A t \in DOMAIN stacks[s] :
                    stacks[s][t] \in Built /\ view[stacks[s][t]].session = s
    BY <2>0 DEF ActiveEnd, Ends
  <2>2. ASSUME NEW v \in Built
        PROVE  view[v].prev # None => /\ view[v].prev \in Built
                                      /\ view[view[v].prev].session = view[v].session
    BY <2>0 DEF Predecessors
  <2>3. ASSUME NEW v \in Built
        PROVE  \/ \E p \in Sessions \X Ids : EndsOf(v) = {p} /\ Above(v) = {}
               \/ \E w \in Built : EndsOf(v) = {} /\ Above(v) = {w}
    <3> DEFINE s == view[v].session
    <3>1. s \in Sessions /\ DOMAIN stacks[s] \subseteq Ids
      BY <2>0 DEF Typed, IsView
    <3>2. CASE IsEnd(v)
      <4>1. PICK t \in DOMAIN stacks[s] : stacks[s][t] = v
        BY <3>2 DEF IsEnd
      <4>2. Above(v) = {}
        BY <2>0, <3>1, <4>1 DEF Ends, Above
      <4>3. <<s, t>> \in EndsOf(v)
        BY <3>1, <4>1 DEF EndsOf
      <4>4. ASSUME NEW p \in EndsOf(v) PROVE p = <<s, t>>
        <5>1. PICK r \in Sessions, u \in Ids : p = <<r, u>> /\ u \in DOMAIN stacks[r] /\ stacks[r][u] = v
          BY DEF EndsOf
        <5>2. r = s
          BY <2>0, <5>1 DEF Ends
        <5> QED
          BY <2>0, <3>1, <4>1, <5>1, <5>2 DEF Ends
      <4>5. <<s, t>> \in Sessions \X Ids
        BY <3>1, <4>1
      <4>6. EndsOf(v) = {<<s, t>>}
        BY <4>3, <4>4
      <4> QED
        BY <4>2, <4>5, <4>6
    <3>3. CASE ~IsEnd(v)
      <4>1. PICK w \in Built : view[w].prev = v
        BY <2>0, <3>3 DEF Owned
      <4>2. v # None
        BY <2>0
      <4>3. Above(v) = {w}
        BY <2>0, <4>1, <4>2 DEF Predecessors, Above
      <4>4. ASSUME NEW p \in EndsOf(v) PROVE FALSE
        <5>1. PICK r \in Sessions, u \in Ids : u \in DOMAIN stacks[r] /\ stacks[r][u] = v
          BY DEF EndsOf
        <5> QED
          BY <2>0, <3>3, <5>1 DEF Ends, IsEnd
      <4> QED
        BY <4>1, <4>3, <4>4
    <3> QED
      BY <3>2, <3>3
  <2>4. \A S \in (SUBSET Built) \ {{}} : \E v \in S : view[v].prev \notin S
    BY ChainsEnd
  <2> QED
    BY <2>1, <2>2, <2>3, <2>4 DEF EveryViewOnOneChain
<1> QED
  BY <1>1, SessionInvariant, PTL

-----------------------------------------------------------------------------
(* The trails: what prev leads to from a view, as a recursion over views   *)
(* that are ranked so that each is above the one before it.                *)
IsForest(p) ==
    /\ p \in [Views -> Views \cup {None}]
    /\ \E rank \in [Views -> 0..MaxIds] :
         \A v \in Views : p[v] # None => rank[p[v]] < rank[v]

LEMMA TrailExists ==
    ASSUME NEW p, IsForest(p)
    PROVE  \E f : f = [v \in Views |-> IF p[v] = None THEN <<v>> ELSE Append(f[p[v]], v)]
<1>0. p \in [Views -> Views \cup {None}] /\ MaxIds \in Nat
  BY SessionAssumption DEF IsForest
<1>1. PICK rank \in [Views -> 0..MaxIds] : \A v \in Views : p[v] # None => rank[p[v]] < rank[v]
  BY DEF IsForest
<1> DEFINE Below(k) == {v \in Views : rank[v] < k}
           Solves(f, k) == f = [v \in Below(k) |-> IF p[v] = None THEN <<v>> ELSE Append(f[p[v]], v)]
           Fails == {k \in Nat : ~\E f : Solves(f, k)}
<1>2. Fails = {}
  <2> SUFFICES ASSUME Fails # {} PROVE FALSE
    OBVIOUS
  <2>1. PICK k \in Fails : \A j \in Fails : k <= j
    <3>1. Fails \subseteq Nat
      OBVIOUS
    <3> HIDE DEF Fails
    <3> QED
      BY <3>1, MinimumExists
  <2>2. k # 0
    <3> DEFINE g == [v \in Below(0) |-> <<v>>]
    <3>1. Below(0) = {}
      OBVIOUS
    <3>2. g = [v \in Below(0) |-> IF p[v] = None THEN <<v>> ELSE Append(g[p[v]], v)]
      BY <3>1
    <3>3. Solves(g, 0)
      BY <3>2
    <3> HIDE DEF Solves
    <3> QED
      BY <2>1, <3>3
  <2>3. k - 1 \in Nat /\ ~(k <= k - 1) /\ k \in Nat
    BY <2>1, <2>2
  <2>4. PICK g : Solves(g, k - 1)
    <3> HIDE DEF Solves
    <3> QED
      BY <2>1, <2>3
  <2> DEFINE h == [v \in Below(k) |-> IF p[v] = None THEN <<v>> ELSE Append(g[p[v]], v)]
  <2>5. ASSUME NEW v \in Below(k), p[v] # None PROVE h[p[v]] = g[p[v]]
    <3>1. p[v] \in Views /\ rank[p[v]] < k - 1 /\ rank[p[v]] < k
      BY <1>0, <1>1, <2>3, <2>5
    <3>2. g[p[v]] = IF p[p[v]] = None THEN <<p[v]>> ELSE Append(g[p[p[v]]], p[v])
      BY <2>4, <3>1
    <3> QED
      BY <3>1, <3>2
  <2>6. Solves(h, k)
    BY <2>5
  <2> QED
    BY <2>1, <2>6
<1>3. PICK f : Solves(f, MaxIds + 1)
  <2>1. MaxIds + 1 \in Nat
    BY <1>0
  <2> HIDE DEF Solves
  <2> QED
    BY <1>2, <2>1
<1>4. Below(MaxIds + 1) = Views
  BY <1>0, <1>1
<1> QED
  BY <1>3, <1>4

LEMMA TrailEquation ==
    ASSUME NEW p, IsForest(p)
    PROVE  TrailTo(p) = [v \in Views |-> IF p[v] = None THEN <<v>>
                                         ELSE Append(TrailTo(p)[p[v]], v)]
<1>1. \E f : f = [v \in Views |-> IF p[v] = None THEN <<v>> ELSE Append(f[p[v]], v)]
  BY TrailExists
<1> DEFINE Solves(f) == f = [v \in Views |-> IF p[v] = None THEN <<v>> ELSE Append(f[p[v]], v)]
<1>2. TrailTo(p) = CHOOSE f : Solves(f)
  BY DEF TrailTo
<1>3. \E f : Solves(f)
  BY <1>1
<1>4. Solves(TrailTo(p))
  <2> HIDE DEF Solves
  <2> QED
    BY <1>2, <1>3
<1> QED
  BY <1>4

(* Trails stay within a set of views that is closed under the recursion. *)
LEMMA TrailWithin ==
    ASSUME NEW p, IsForest(p), NEW S \in SUBSET Views, \A v \in S : p[v] # None => p[v] \in S,
           NEW v \in S
    PROVE  TrailTo(p)[v] \in Seq(S) \ {<<>>}
<1>1. PICK rank \in [Views -> 0..MaxIds] : \A w \in Views : p[w] # None => rank[p[w]] < rank[w]
  BY DEF IsForest
<1> DEFINE Bad == {w \in S : TrailTo(p)[w] \notin Seq(S) \ {<<>>}}
           ranks == {rank[w] : w \in Bad}
<1> SUFFICES ASSUME Bad # {} PROVE FALSE
  OBVIOUS
<1>2. PICK w \in Bad : \A x \in Bad : rank[w] <= rank[x]
  <2>1. ranks \subseteq Nat /\ ranks # {}
    BY <1>1, SessionAssumption
  <2>2. PICK r \in ranks : \A i \in ranks : r <= i
    <3> HIDE DEF ranks
    <3> QED
      BY <2>1, MinimumExists
  <2> QED
    BY <2>2
<1>3. w \in S /\ w \in Views
      /\ TrailTo(p)[w] = IF p[w] = None THEN <<w>> ELSE Append(TrailTo(p)[p[w]], w)
  BY <1>2, TrailEquation
<1>4. CASE p[w] = None
  <2>1. <<w>> \in Seq(S) \ {<<>>}
    BY <1>3
  <2> QED
    BY <1>2, <1>3, <1>4, <2>1
<1>5. CASE p[w] # None
  <2>1. p[w] \in S /\ p[w] \in Views /\ rank[p[w]] < rank[w]
    BY <1>1, <1>3, <1>5
  <2>2. rank[p[w]] \in Nat /\ rank[w] \in Nat
    BY <1>1, <1>3, <2>1, SessionAssumption
  <2>3. p[w] \notin Bad
    BY <1>2, <2>1, <2>2
  <2>4. TrailTo(p)[p[w]] \in Seq(S)
    BY <2>1, <2>3
  <2>5. Append(TrailTo(p)[p[w]], w) \in Seq(S) \ {<<>>}
    <3> HIDE DEF Bad, ranks
    <3>1. PICK c : c = TrailTo(p)[p[w]] /\ c \in Seq(S)
      BY <2>4
    <3>2. Append(c, w) \in Seq(S) /\ Append(c, w) # <<>>
      BY <1>3, <3>1
    <3> QED
      BY <3>1, <3>2
  <2> QED
    BY <1>2, <1>3, <1>5, <2>5
<1> QED
  BY <1>4, <1>5

(* Where two recursions agree on such a set, so do their trails. *)
LEMMA TrailFrame ==
    ASSUME NEW p, IsForest(p), NEW q, IsForest(q),
           NEW S \in SUBSET Views, \A v \in S : q[v] = p[v] /\ (p[v] # None => p[v] \in S),
           NEW v \in S
    PROVE  TrailTo(q)[v] = TrailTo(p)[v]
<1>1. PICK rank \in [Views -> 0..MaxIds] : \A w \in Views : p[w] # None => rank[p[w]] < rank[w]
  BY DEF IsForest
<1> DEFINE Bad == {w \in S : TrailTo(q)[w] # TrailTo(p)[w]}
           ranks == {rank[w] : w \in Bad}
<1> SUFFICES ASSUME Bad # {} PROVE FALSE
  OBVIOUS
<1>2. PICK w \in Bad : \A x \in Bad : rank[w] <= rank[x]
  <2>1. ranks \subseteq Nat /\ ranks # {}
    BY <1>1, SessionAssumption
  <2>2. PICK r \in ranks : \A i \in ranks : r <= i
    <3> HIDE DEF ranks
    <3> QED
      BY <2>1, MinimumExists
  <2> QED
    BY <2>2
<1>3. /\ w \in S /\ w \in Views /\ q[w] = p[w]
      /\ TrailTo(p)[w] = IF p[w] = None THEN <<w>> ELSE Append(TrailTo(p)[p[w]], w)
      /\ TrailTo(q)[w] = IF q[w] = None THEN <<w>> ELSE Append(TrailTo(q)[q[w]], w)
  BY <1>2, TrailEquation
<1>4. p[w] # None
  BY <1>2, <1>3
<1>5. p[w] \in S /\ rank[p[w]] < rank[w] /\ rank[p[w]] \in Nat /\ rank[w] \in Nat
  BY <1>1, <1>3, <1>4, SessionAssumption
<1>6. p[w] \notin Bad
  BY <1>2, <1>5
<1> QED
  BY <1>2, <1>3, <1>4, <1>5, <1>6

(* The views are such a forest, by the key each was opened with. *)
LEMMA BeforeForest == SessionInv => IsForest(Before)
<1> SUFFICES ASSUME SessionInv PROVE IsForest(Before)
  OBVIOUS
<1>0. Typed /\ OpenedWithKey /\ Live \subseteq Views /\ None \notin Views
  BY SetFacts DEF SessionInv
<1> DEFINE rank == [v \in Views |-> IF v \in Live THEN view[v].rkey.holder ELSE 0]
<1>1. rank \in [Views -> 0..MaxIds]
  BY <1>0, SessionAssumption DEF Typed, IsView, Key, Ids, None
<1>2. Before \in [Views -> Views \cup {None}]
  BY <1>0 DEF Before
<1>3. ASSUME NEW v \in Views, Before[v] # None PROVE rank[Before[v]] < rank[v]
  <2>1. Before[v] = view[v].prev /\ view[v].prev \in Live /\ view[v].prev # None
    BY <1>0, <1>3 DEF Before
  <2>2. v \in Live
    BY <1>0, <2>1, SetFacts DEF Gone
  <2>3. view[v].rkey.holder \in IdsOf(view[view[v].prev])
    BY <1>0, <2>1, <2>2 DEF OpenedWithKey
  <2>4. view[v].rkey.holder > view[view[v].prev].rkey.holder
    BY <1>0, <2>1, <2>3 DEF OpenedWithKey, IdsOf
  <2> QED
    BY <1>0, <2>1, <2>2, <2>4
<1> QED
  BY <1>1, <1>2, <1>3 DEF IsForest

LEMMA ChainEquation ==
    ASSUME SessionInv, NEW v \in Live
    PROVE  /\ Chain(v) = IF view[v].prev = None THEN <<v>> ELSE Append(Chain(view[v].prev), v)
           /\ view[v].prev # None => Chain(view[v].prev) \in Seq(Built) \ {<<>>}
           /\ v \in Built => Chain(v) \in Seq(Built) \ {<<>>}
<1>0. /\ Live \subseteq Views /\ Built \subseteq Live /\ None \notin Views
      /\ \A w \in Live : view[w].prev # None => view[w].prev \in Built
  BY SetFacts, PrevBuilt DEF SessionInv
<1>1. PICK b : b = Before
  OBVIOUS
<1>2. IsForest(b) /\ \A w : Chain(w) = TrailTo(b)[w]
  BY <1>1, BeforeForest DEF Chain
<1>3. \A w \in Live : b[w] = view[w].prev
  BY <1>0, <1>1 DEF Before
<1>4. Built \subseteq Views /\ \A w \in Built : b[w] # None => b[w] \in Built
  BY <1>0, <1>3
<1>5. ASSUME NEW w \in Built PROVE Chain(w) \in Seq(Built) \ {<<>>}
  <2>1. PICK S : S = Built
    OBVIOUS
  <2>2. TrailTo(b)[w] \in Seq(S) \ {<<>>}
    BY <1>2, <1>4, <2>1, TrailWithin
  <2> QED
    BY <1>2, <2>1, <2>2
<1>6. TrailTo(b)[v] = IF b[v] = None THEN <<v>> ELSE Append(TrailTo(b)[b[v]], v)
  BY <1>0, <1>2, TrailEquation
<1> QED
  BY <1>0, <1>2, <1>3, <1>5, <1>6

(* A step that leaves a set of views and those before them as they are     *)
(* leaves their chains as they are.                                        *)
LEMMA ChainSame ==
    ASSUME SessionInv, IsForest(Before)', NEW S \in SUBSET Built,
           \A w \in S : view'[w] = view[w] /\ (view[w].prev # None => view[w].prev \in S),
           NEW v \in S
    PROVE  Chain(v)' = Chain(v)
<1>0. /\ Live \subseteq Views /\ Built \subseteq Live /\ None \notin Views
      /\ \A w \in Views : w \in Live <=> view[w] # Gone
  BY SetFacts DEF SessionInv
<1>1. PICK b : b = Before
  OBVIOUS
<1>2. PICK c : c = Before'
  OBVIOUS
<1>3. IsForest(b) /\ IsForest(c)
  BY <1>1, <1>2, BeforeForest DEF IsForest
<1>4. Chain(v) = TrailTo(b)[v] /\ Chain(v)' = TrailTo(c)[v]
  BY <1>1, <1>2 DEF Chain
<1>5. \A w \in S : w \in Live /\ w \in Live' /\ w \in Views
  BY <1>0 DEF Live
<1>6. ASSUME NEW w \in S PROVE c[w] = b[w] /\ (b[w] # None => b[w] \in S)
  <2>1. b[w] = IF view[w].prev \in Live THEN view[w].prev ELSE None
    BY <1>1, <1>5 DEF Before
  <2>2. c[w] = IF view[w].prev \in Live' THEN view[w].prev ELSE None
    BY <1>2, <1>5 DEF Before
  <2>3. None \notin Live /\ None \notin Live'
    BY <1>0 DEF Live
  <2> QED
    BY <1>5, <2>1, <2>2, <2>3
<1> QED
  BY <1>0, <1>3, <1>4, <1>6, TrailFrame

-----------------------------------------------------------------------------
(* The trails as Breadcrumbs sees them, before and after a step. *)
TrailsOf == [s \in Sessions |-> [t \in DOMAIN stacks[s] |-> Chain(stacks[s][t])]]

LEMMA TrailsForm ==
    ASSUME NEW F, F = TrailTo(Before), NEW G, G = TrailTo(Before)'
    PROVE  /\ TrailsOf = [s \in Sessions |-> [t \in DOMAIN stacks[s] |-> F[stacks[s][t]]]]
           /\ TrailsOf' = [s \in Sessions |-> [t \in DOMAIN stacks'[s] |-> G[stacks'[s][t]]]]
           /\ \A w : Chain(w) = F[w] /\ Chain(w)' = G[w]
BY DEF TrailsOf, Chain

LEMMA EndsBuilt ==
    ASSUME SessionInv, NEW s \in Sessions, NEW t \in DOMAIN stacks[s]
    PROVE  stacks[s][t] \in Built
BY DEF SessionInv, Ends

(* A step that leaves the tabs and the complete views as they are leaves   *)
(* the trails as they are. *)
LEMMA TrailsStay ==
    ASSUME SessionInv, IsForest(Before)', UNCHANGED stacks, \A w \in Built : view'[w] = view[w]
    PROVE  TrailsOf' = TrailsOf
<1>1. PICK F : F = TrailTo(Before)
  OBVIOUS
<1>2. PICK G : G = TrailTo(Before)'
  OBVIOUS
<1>3. \A w \in Built : G[w] = F[w]
  <2>1. PICK S : S = Built
    OBVIOUS
  <2>2. \A w \in S : view'[w] = view[w] /\ (view[w].prev # None => view[w].prev \in S)
    BY <2>1 DEF SessionInv, Predecessors
  <2>3. ASSUME NEW w \in S PROVE Chain(w)' = Chain(w)
    BY <2>1, <2>2, ChainSame
  <2> QED
    BY <1>1, <1>2, <2>1, <2>3, TrailsForm
<1>4. \A s \in Sessions : \A t \in DOMAIN stacks[s] : G[stacks[s][t]] = F[stacks[s][t]]
  BY <1>3, EndsBuilt
<1> QED
  BY <1>1, <1>2, <1>4, TrailsForm

(* A view that is not complete is on no trail. *)
LEMMA FreeOfTrails ==
    ASSUME SessionInv, NEW v, v \notin Built
    PROVE  Trails!Free(v)
<1>1. ASSUME NEW s \in Sessions, NEW t \in DOMAIN stacks[s]
      PROVE  /\ DOMAIN TrailsOf[s] = DOMAIN stacks[s]
             /\ v \notin Trails!Range(TrailsOf[s][t])
  <2>1. DOMAIN TrailsOf[s] = DOMAIN stacks[s] /\ TrailsOf[s][t] = Chain(stacks[s][t])
    BY DEF TrailsOf
  <2>2. Chain(stacks[s][t]) \in Seq(Built)
    BY EndsBuilt, ChainEquation, SetFacts DEF SessionInv
  <2> QED
    BY <2>1, <2>2, LenProperties DEF Trails!Range
<1>2. \A s \in Sessions : DOMAIN TrailsOf[s] = DOMAIN stacks[s]
  BY DEF TrailsOf
<1> QED
  BY <1>1, <1>2 DEF Trails!Free, TrailsOf

LEMMA FinishNavigates ==
    ASSUME SessionInv, NEW s \in Sessions, FinishBuild(s)
    PROVE  Trails!OpenTab(s) \/ Trails!Push(s)
<1>0. /\ Typed /\ Constructing /\ ActiveEnd /\ Ends /\ TabsApart
  BY DEF SessionInv
<1>1. PICK v \in Views \cup {None} : v = building[s].view
  BY <1>0 DEF Typed, Slot
<1>2. PICK stack \in Ids \cup {None} : stack = building[s].stack
  BY <1>0 DEF Typed, Slot
<1>3. building[s] # NoBuild /\ SetActive(s, v, stack) /\ UNCHANGED view
  BY <1>1, <1>2 DEF FinishBuild
<1>4. /\ v \in Live /\ stack \in 1..issued
      /\ IF view[v].prev = None THEN stack \notin DOMAIN stacks[s]
         ELSE /\ stack = active_stack[s] /\ stack \in DOMAIN stacks[s]
              /\ view[v].prev = stacks[s][stack]
  BY <1>0, <1>1, <1>2, <1>3 DEF Constructing
<1>5. v \in Views /\ v \notin Built /\ v # None /\ stack \in Ids /\ stack # None
  BY <1>0, <1>1, <1>4, SetFacts
<1>6. /\ stacks' = [stacks EXCEPT ![s] = WithEnd(stacks[s], stack, v)]
      /\ active_stack' = [active_stack EXCEPT ![s] = stack]
  BY <1>3, <1>5 DEF SetActive
<1>7. PICK F : F = TrailTo(Before)
  OBVIOUS
<1>8. F = TrailTo(Before)'
  <2>1. Before' = Before
    BY <1>3 DEF Before, Live
  <2> QED
    BY <1>7, <2>1
<1>9. PICK T : T = [r \in Sessions |-> [t \in DOMAIN stacks[r] |-> F[stacks[r][t]]]]
  OBVIOUS
<1>10. TrailsOf = T /\ \A w : Chain(w) = F[w]
  BY <1>7, <1>8, <1>9, TrailsForm
<1>11. TrailsOf' = [T EXCEPT ![s] = [u \in DOMAIN T[s] \cup {stack} |->
                                        IF u = stack THEN F[v] ELSE T[s][u]]]
  <2>1. TrailsOf' = [r \in Sessions |-> [t \in DOMAIN stacks'[r] |-> F[stacks'[r][t]]]]
    BY <1>7, <1>8, TrailsForm
  <2>2. PICK new : new = WithEnd(stacks[s], stack, v)
    OBVIOUS
  <2>3. /\ stacks'[s] = new /\ \A r \in Sessions \ {s} : stacks'[r] = stacks[r]
        /\ DOMAIN new = DOMAIN stacks[s] \cup {stack}
        /\ \A t \in DOMAIN new : new[t] = IF t = stack THEN v ELSE stacks[s][t]
    BY <1>0, <1>6, <2>2 DEF Typed, WithEnd
  <2>4. TrailsOf' = [r \in Sessions |-> IF r = s
                         THEN [t \in DOMAIN new |-> F[new[t]]]
                         ELSE [t \in DOMAIN stacks[r] |-> F[stacks[r][t]]]]
    BY <2>1, <2>3
  <2>5. [t \in DOMAIN new |-> F[new[t]]]
          = [u \in DOMAIN T[s] \cup {stack} |-> IF u = stack THEN F[v] ELSE T[s][u]]
    BY <1>9, <2>3
  <2> QED
    BY <1>9, <2>4, <2>5
<1>12. Trails!Free(v)
  BY <1>5, FreeOfTrails
<1>13. CASE view[v].prev = None
  <2>1. F[v] = <<v>>
    BY <1>4, <1>10, <1>13, ChainEquation
  <2>2. \A r \in Sessions : stack \notin DOMAIN T[r]
    <3> SUFFICES ASSUME NEW r \in Sessions, stack \in DOMAIN T[r] PROVE FALSE
      OBVIOUS
    <3>1. stack \in DOMAIN stacks[r]
      BY <1>9
    <3>2. stack \in Tabs(s) /\ stack \in Tabs(r)
      BY <1>2, <1>5, <3>1 DEF Tabs
    <3>3. s = r
      BY <1>0, <3>2 DEF TabsApart
    <3> QED
      BY <1>4, <1>13, <3>1, <3>3
  <2>3. TrailsOf' = [TrailsOf EXCEPT ![s] = [u \in DOMAIN @ \cup {stack} |->
                                               IF u = stack THEN <<v>> ELSE @[u]]]
    BY <1>10, <1>11, <2>1
  <2> QED
    BY <1>5, <1>6, <1>10, <1>12, <2>2, <2>3 DEF Trails!OpenTab, TrailsOf
<1>14. CASE view[v].prev # None
  <2>1. F[v] = Append(T[s][stack], v)
    BY <1>4, <1>9, <1>10, <1>14, ChainEquation
  <2>2. active_stack' = active_stack
    BY <1>0, <1>4, <1>6, <1>14 DEF Typed
  <2>3. DOMAIN T[s] = DOMAIN stacks[s] /\ s \in DOMAIN T
        /\ T[s] = [u \in DOMAIN stacks[s] |-> F[stacks[s][u]]]
    BY <1>9
  <2>4. [u \in DOMAIN T[s] \cup {stack} |-> IF u = stack THEN F[v] ELSE T[s][u]]
          = [T[s] EXCEPT ![stack] = Append(@, v)]
    BY <1>4, <1>14, <2>1, <2>3
  <2>5. TrailsOf' = [TrailsOf EXCEPT ![s][active_stack[s]] = Append(@, v)]
    BY <1>4, <1>10, <1>11, <1>14, <2>4
  <2> QED
    BY <1>4, <1>5, <1>12, <1>14, <2>2, <2>5 DEF Trails!Push, TrailsOf
<1> QED
  BY <1>13, <1>14

LEMMA FrontOfAppend ==
    ASSUME NEW S, NEW c \in Seq(S), NEW e \in S
    PROVE  Trails!Front(Append(c, e)) = c
<1>1. /\ Len(c) \in Nat /\ Len(Append(c, e)) = Len(c) + 1 /\ Append(c, e) \in Seq(S)
      /\ \A i \in 1..Len(c) : Append(c, e)[i] = c[i]
  BY LenProperties, AppendProperties
<1>2. Trails!Front(Append(c, e)) = SubSeq(Append(c, e), 1, Len(c))
  BY <1>1 DEF Trails!Front
<1>3. PICK f : f = SubSeq(Append(c, e), 1, Len(c))
  OBVIOUS
<1>4. f \in Seq(S) /\ Len(f) = Len(c) /\ \A i \in 1..Len(c) : f[i] = c[i]
  BY <1>1, <1>3, SubSeqProperties
<1>5. f = c
  BY <1>1, <1>4, SeqEqual
<1> QED
  BY <1>2, <1>3, <1>5

LEMMA DeleteNavigates ==
    ASSUME SessionInv, IsForest(Before)', NEW s \in Sessions,
           NEW v, v = active_view[s], v # None, Delete(s, v)
    PROVE  Trails!Pop(s) \/ Trails!CloseTab(s)
<1>0. /\ Typed /\ ActiveEnd /\ Ends /\ Predecessors
  BY DEF SessionInv
<1>1. PICK a : a = active_stack[s]
  OBVIOUS
<1>2. a # None /\ a \in DOMAIN stacks[s] /\ v = stacks[s][a]
  BY <1>0, <1>1 DEF ActiveEnd
<1>3. /\ v \in Built /\ \A r \in Sessions : \A u \in DOMAIN stacks[r] :
                            stacks[r][u] = v => r = s /\ u = a
      /\ \A w \in Built : view[w].prev # v
  BY <1>0, <1>2 DEF Ends
<1>4. v \in Live /\ v \in Views /\ Built \subseteq Live /\ Live \subseteq Views /\ None \notin Views
  BY <1>0, <1>3, SetFacts
<1>5. PICK p \in Views \cup {None} : p = view[v].prev
  BY <1>0, <1>4 DEF Typed, IsView
<1>6. view' = [view EXCEPT ![v] = Gone] /\ SetActive(s, p, a)
  BY <1>1, <1>5 DEF Delete
<1>7. PICK F : F = TrailTo(Before)
  OBVIOUS
<1>8. PICK G : G = TrailTo(Before)'
  OBVIOUS
<1>9. PICK T : T = [r \in Sessions |-> [t \in DOMAIN stacks[r] |-> F[stacks[r][t]]]]
  OBVIOUS
<1>10. /\ TrailsOf = T
       /\ TrailsOf' = [r \in Sessions |-> [t \in DOMAIN stacks'[r] |-> G[stacks'[r][t]]]]
       /\ \A w : Chain(w) = F[w] /\ Chain(w)' = G[w]
  BY <1>7, <1>8, <1>9, TrailsForm
\* No chain but that of v leads over v.
<1>11. \A w \in Built \ {v} : G[w] = F[w]
  <2>1. PICK S : S = Built \ {v}
    OBVIOUS
  <2>2. \A w \in S : view'[w] = view[w] /\ (view[w].prev # None => view[w].prev \in S)
    BY <1>0, <1>3, <1>4, <1>6, <2>1 DEF Predecessors, Typed
  <2>3. S \in SUBSET Built
    BY <2>1
  <2>4. ASSUME NEW w \in S PROVE Chain(w)' = Chain(w)
    BY <2>2, <2>3, ChainSame
  <2> QED
    BY <1>10, <2>1, <2>4
<1>12. \A r \in Sessions : \A t \in DOMAIN stacks[r] :
           r # s \/ t # a => G[stacks[r][t]] = F[stacks[r][t]]
  <2>1. \A r \in Sessions : \A t \in DOMAIN stacks[r] :
           r # s \/ t # a => stacks[r][t] \in Built \ {v}
    BY <1>3, EndsBuilt
  <2> QED
    BY <1>11, <2>1
<1>13. /\ s \in DOMAIN T /\ DOMAIN T[s] = DOMAIN stacks[s] /\ T[s][a] = F[v]
       /\ T[s] = [t \in DOMAIN stacks[s] |-> F[stacks[s][t]]]
  BY <1>2, <1>9
<1>14. CASE p # None
  <2>1. p \in Built \ {v} /\ F[p] \in Seq(Built) \ {<<>>} /\ F[v] = Append(F[p], v)
    BY <1>0, <1>3, <1>4, <1>5, <1>10, <1>14, ChainEquation DEF Predecessors
  <2>2. PICK new : new = WithEnd(stacks[s], a, p)
    OBVIOUS
  <2>3. /\ stacks' = [stacks EXCEPT ![s] = new]
        /\ active_stack' = [active_stack EXCEPT ![s] = a]
    BY <1>6, <1>14, <2>2 DEF SetActive
  <2>4. /\ stacks'[s] = new /\ \A r \in Sessions \ {s} : stacks'[r] = stacks[r]
        /\ DOMAIN new = DOMAIN stacks[s]
        /\ \A t \in DOMAIN new : new[t] = IF t = a THEN p ELSE stacks[s][t]
    BY <1>0, <1>2, <2>2, <2>3 DEF Typed, WithEnd
  <2>5. active_stack' = active_stack
    BY <1>0, <1>1, <2>3 DEF Typed
  <2>6. [t \in DOMAIN new |-> G[new[t]]]
          = [t \in DOMAIN stacks[s] |-> IF t = a THEN F[p] ELSE F[stacks[s][t]]]
    BY <1>11, <1>12, <2>1, <2>4
  <2>7. TrailsOf' = [r \in Sessions |-> IF r = s
                        THEN [t \in DOMAIN stacks[s] |-> IF t = a THEN F[p] ELSE F[stacks[s][t]]]
                        ELSE [t \in DOMAIN stacks[r] |-> F[stacks[r][t]]]]
    <3>1. ASSUME NEW r \in Sessions
          PROVE  [t \in DOMAIN stacks'[r] |-> G[stacks'[r][t]]]
                   = IF r = s
                     THEN [t \in DOMAIN stacks[s] |-> IF t = a THEN F[p] ELSE F[stacks[s][t]]]
                     ELSE [t \in DOMAIN stacks[r] |-> F[stacks[r][t]]]
      BY <1>12, <2>4, <2>6
    <3> QED
      BY <1>10, <3>1
  <2>8. Trails!Front(T[s][a]) = F[p] /\ Len(T[s][a]) > 1
    <3>1. PICK B : B = Built
      OBVIOUS
    <3>2. PICK c : c = F[p]
      OBVIOUS
    <3>3. c \in Seq(B) /\ c # <<>> /\ v \in B
      BY <1>3, <2>1, <3>1, <3>2
    <3>4. Trails!Front(Append(c, v)) = c /\ Len(Append(c, v)) = Len(c) + 1
      BY <3>3, FrontOfAppend, AppendProperties
    <3>5. Len(c) \in Nat /\ Len(c) # 0
      BY <3>3, EmptySeq, LenProperties
    <3> QED
      BY <1>13, <2>1, <3>2, <3>4, <3>5
  <2>9. TrailsOf' = [TrailsOf EXCEPT ![s][active_stack[s]] = Trails!Front(@)]
    <3>1. [T[s] EXCEPT ![a] = Trails!Front(@)]
            = [t \in DOMAIN stacks[s] |-> IF t = a THEN F[p] ELSE F[stacks[s][t]]]
      BY <1>2, <1>13, <2>8
    <3>2. TrailsOf' = [T EXCEPT ![s] = [T[s] EXCEPT ![a] = Trails!Front(@)]]
      BY <1>9, <2>7, <3>1
    <3> QED
      BY <1>1, <1>10, <3>2
  <2>10. Len(TrailsOf[s][active_stack[s]]) > 1
    BY <1>1, <1>10, <2>8
  <2> QED
    BY <1>1, <1>2, <2>5, <2>9, <2>10 DEF Trails!Pop, TrailsOf
<1>15. CASE p = None
  <2>1. F[v] = <<v>>
    BY <1>4, <1>5, <1>10, <1>15, ChainEquation
  <2>2. PICK others : others = Restrict(stacks[s], DOMAIN stacks[s] \ {a})
    OBVIOUS
  <2>3. PICK first \in IF DOMAIN others = {} THEN {None} ELSE DOMAIN others :
            /\ stacks' = [stacks EXCEPT ![s] = others]
            /\ active_stack' = [active_stack EXCEPT ![s] = first]
    BY <1>6, <1>15, <2>2 DEF SetActive
  <2>4. /\ stacks'[s] = others /\ \A r \in Sessions \ {s} : stacks'[r] = stacks[r]
        /\ DOMAIN others = DOMAIN stacks[s] \ {a}
        /\ \A t \in DOMAIN others : others[t] = stacks[s][t]
    BY <1>0, <2>2, <2>3 DEF Typed, Restrict
  <2>5. TrailsOf' = [r \in Sessions |-> IF r = s
                        THEN [t \in DOMAIN stacks[s] \ {a} |-> F[stacks[s][t]]]
                        ELSE [t \in DOMAIN stacks[r] |-> F[stacks[r][t]]]]
    <3>1. ASSUME NEW r \in Sessions
          PROVE  [t \in DOMAIN stacks'[r] |-> G[stacks'[r][t]]]
                   = IF r = s
                     THEN [t \in DOMAIN stacks[s] \ {a} |-> F[stacks[s][t]]]
                     ELSE [t \in DOMAIN stacks[r] |-> F[stacks[r][t]]]
      BY <1>12, <2>4
    <3> QED
      BY <1>10, <3>1
  <2>6. Trails!Restrict(T[s], DOMAIN T[s] \ {a})
          = [t \in DOMAIN stacks[s] \ {a} |-> F[stacks[s][t]]]
    BY <1>13 DEF Trails!Restrict
  <2>7. TrailsOf' = [T EXCEPT ![s] = Trails!Restrict(@, DOMAIN T[s] \ {a})]
    BY <1>9, <2>5, <2>6
  <2>8. first \in IF DOMAIN T[s] \ {a} = {} THEN {None} ELSE DOMAIN T[s] \ {a}
    BY <1>13, <2>3, <2>4
  <2>9. Len(T[s][a]) = 1
    BY <1>13, <2>1
  <2> QED
    BY <1>1, <1>2, <1>10, <2>3, <2>7, <2>8, <2>9 DEF Trails!CloseTab, TrailsOf
<1> QED
  BY <1>14, <1>15

(* Every step of the sessions is one of Breadcrumbs or changes no trail. *)
LEMMA NavigationStep ==
    SessionInv /\ IsForest(Before)' /\ [Next]_vars => [Trails!Next]_(Trails!vars)
<1> SUFFICES ASSUME SessionInv, IsForest(Before)', [Next]_vars
             PROVE  [Trails!Next]_(Trails!vars)
  OBVIOUS
<1>0. Typed /\ Built \subseteq Live /\ Live \subseteq Views
  BY SetFacts DEF SessionInv
<1>1. ASSUME UNCHANGED <<stacks, active_stack>>, \A w \in Built : view'[w] = view[w]
      PROVE  UNCHANGED Trails!vars
  <2>1. TrailsOf' = TrailsOf
    BY <1>1, TrailsStay
  <2> QED
    BY <1>1, <2>1 DEF Trails!vars, TrailsOf
<1>2. CASE UNCHANGED vars
  BY <1>1, <1>2 DEF vars, nav
<1>3. ASSUME NEW s \in Sessions, Step(s) PROVE Trails!Next \/ UNCHANGED Trails!vars
  <2>1. ASSUME NEW stack, NEW before, NEW k, NEW key, StartView(s, stack, before, k, key)
        PROVE  UNCHANGED Trails!vars
    <3>1. PICK f : f = FreeView
      OBVIOUS
    <3>2. f \in Views /\ view[f] = Gone
      BY <1>0, <2>1, <3>1, FreeViewFree
    <3>3. f \notin Built
      BY <1>0, <3>2, SetFacts
    <3>4. view' = [view EXCEPT ![f] =
               [session |-> s, prev |-> before, layout |-> k, rkey |-> key, records |-> <<>>]]
      BY <2>1, <3>1 DEF StartView, FreeView
    <3>5. \A w \in Built : view'[w] = view[w]
      BY <1>0, <3>3, <3>4 DEF Typed
    <3>6. UNCHANGED <<stacks, active_stack>>
      BY <2>1 DEF StartView, nav
    <3> QED
      BY <1>1, <3>5, <3>6
  <2>2. CASE OpenStack(s)
    BY <2>1, <2>2 DEF OpenStack
  <2>3. CASE \E m \in Models, u \in Usages : OpenNested(s, m, u)
    BY <2>1, <2>3 DEF OpenNested
  <2>4. CASE BuildNode(s)
    <3>1. PICK v \in Views, n \in Nat, id \in Nat : NodeBuilt(s, v, n, id)
      BY <2>4, BuildEffect
    <3>2. (\A w \in Built : view'[w] = view[w]) /\ UNCHANGED <<stacks, active_stack>>
      BY <1>0, <3>1 DEF NodeBuilt
    <3> QED
      BY <1>1, <3>2
  <2>5. CASE FailBuild(s)
    <3>1. PICK v \in Views \cup {None} : v = building[s].view
      BY <1>0 DEF Typed, Slot
    <3>2. v \notin Built /\ view' = [view EXCEPT ![v] = Gone] /\ UNCHANGED <<stacks, active_stack>>
      BY <1>0, <2>5, <3>1, SetFacts DEF FailBuild, nav
    <3>3. \A w \in Built : view'[w] = view[w]
      BY <1>0, <3>2 DEF Typed
    <3> QED
      BY <1>1, <3>2, <3>3
  <2>6. CASE FinishBuild(s)
    BY <2>6, FinishNavigates DEF Trails!Next
  <2>7. CASE \E v \in Views : Close(s, v)
    BY <2>7, DeleteNavigates DEF Close, MayClose, Trails!Next
  <2>8. CASE \E t \in Ids : SwitchStack(s, t)
    <3>1. PICK t \in Ids : SwitchStack(s, t)
      BY <2>8
    <3>2. /\ t \in DOMAIN stacks[s] /\ UNCHANGED <<view, stacks>>
          /\ active_stack' = [active_stack EXCEPT ![s] = t]
      BY <3>1 DEF SwitchStack
    <3>3. TrailsOf' = TrailsOf /\ DOMAIN TrailsOf[s] = DOMAIN stacks[s]
      <4>1. TrailsOf' = TrailsOf
        BY <3>2, TrailsStay
      <4> QED
        BY <4>1 DEF TrailsOf
    <3> QED
      BY <3>2, <3>3 DEF Trails!Next, Trails!SwitchTab, TrailsOf
  <2>9. CASE EndSession(s)
    BY <1>1, <2>9 DEF EndSession, nav
  <2>10. CASE DeleteActive(s)
    BY <2>10, DeleteNavigates DEF DeleteActive, Trails!Next
  <2> QED
    BY <1>3, <2>2, <2>3, <2>4, <2>5, <2>6, <2>7, <2>8, <2>9, <2>10 DEF Step
<1> QED
  BY <1>2, <1>3 DEF Next

(* doc/Viewdoc.md 2.1: the sessions refine Breadcrumbs.  The pointers prev,*)
(* stacks and active_view are the trails of the tabs, and each step is one *)
(* opening, one closing, one switch or none of these, however views are    *)
(* constructed, fail or are deleted with their session. *)
THEOREM SessionsFollowBreadcrumbs == Spec => NavigationSpec
<1>1. Init => Trails!Init
  <2> SUFFICES ASSUME Init PROVE Trails!Init
    OBVIOUS
  <2>1. \A s \in Sessions : [t \in DOMAIN stacks[s] |-> Chain(stacks[s][t])] = <<>>
    BY DEF Init
  <2> QED
    BY <2>1 DEF Init, Trails!Init
<1>2. SessionInv => IsForest(Before)
  BY BeforeForest
<1>3. SessionInv /\ IsForest(Before)' /\ [Next]_vars => [Trails!Next]_(Trails!vars)
  BY NavigationStep
<1> QED
  BY <1>1, <1>2, <1>3, SessionInvariant, PTL DEF Spec, NavigationSpec, Trails!Spec
=============================================================================
