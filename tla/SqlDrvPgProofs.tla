--------------------------- MODULE SqlDrvPgProofs ---------------------------
(***************************************************************************)
(* For every number of threads and connections, any texts and any capacity *)
(* of the statement caches: what the server has prepared is what the cache *)
(* of the connection holds, and a query executes the text that it was      *)
(* called with.                                                            *)
(***************************************************************************)
EXTENDS SqlDrvPg, FiniteSetTheorems, TLAPS

-----------------------------------------------------------------------------
(* The inductive invariant.  What the cache and the server know of a       *)
(* statement stays the same between the steps of a call because nobody     *)
(* else uses the connection (OneUser) and because a connection is opened   *)
(* with nothing cached and nothing prepared (BornEmpty).                   *)
OneUser ==
    /\ \A t \in Threads : lease[t] # None => lease[t] \in live
    /\ \A t, u \in Threads : lease[t] # None /\ lease[t] = lease[u] => t = u

BornEmpty ==
    /\ finished \cap live = {}
    /\ \A c \in Conns \ live : server[c] = {}
    /\ \A c \in Conns \ (live \cup finished) : cached[c] = Empty

(* What a call knows at each of its steps. *)
CallKnows ==
    \A t \in Threads :
        /\ at[t] # "idle" => sql[t] \in Sqls
        /\ at[t] \in {"idle", "query", "execute", "lookup", "prepare"} => stmt[t] = None
        /\ at[t] \in {"prepare", "put"} => cached[lease[t]][sql[t]] = None
        /\ at[t] = "put" => stmt[t] # None
        /\ at[t] = "exec" /\ stmt[t] # None => cached[lease[t]][sql[t]] = stmt[t]

(* Each name was drawn from the counter, and no two statements of a        *)
(* connection have the same.                                               *)
NamesDrawn ==
    /\ \A c \in Conns, s \in Sqls : cached[c][s] # None => cached[c][s] <= counter
    /\ \A t \in Threads : stmt[t] # None => stmt[t] <= counter
    /\ \A c \in Conns, r, s \in Sqls :
         cached[c][r] # None /\ cached[c][r] = cached[c][s] => r = s
    /\ \A t \in Threads, s \in Sqls :
         at[t] = "put" => cached[lease[t]][s] # stmt[t]

(* The names that the calls in progress may yet draw. *)
Drawing == {t \in Threads : at[t] \in {"query", "lookup", "prepare"}}
EnoughNames == counter + Cardinality(Drawing) <= MaxStmts

PresentFinite == \A c \in Conns : IsFiniteSet(Present(c))

(* What is on its way into the cache of c. *)
OnItsWay(c) ==
    {<<stmt[t], sql[t]>> : t \in {u \in Threads : lease[u] = c /\ at[u] = "put"}}
Matching == \A c \in live \ lost : server[c] = Handles(c) \cup OnItsWay(c)

DriverInv ==
    /\ TypeOK /\ OneUser /\ BornEmpty /\ CallKnows /\ NamesDrawn
    /\ EnoughNames /\ PresentFinite /\ Matching

LEMMA InitInv == Init => DriverInv
<1> SUFFICES ASSUME Init PROVE DriverInv
  OBVIOUS
<1> USE DriverAssumption
<1>0. /\ live \subseteq Conns /\ lease = [t \in Threads |-> None]
      /\ lost = {} /\ finished = {}
      /\ cached = [c \in Conns |-> Empty] /\ server = [c \in Conns |-> {}]
      /\ counter = 0 /\ at = [t \in Threads |-> "idle"]
      /\ sql = [t \in Threads |-> None] /\ stmt = [t \in Threads |-> None]
  BY DEF Init, Pool!Init
<1>1. \A c \in Conns : Present(c) = {} /\ Handles(c) = {}
  BY <1>0 DEF Present, Handles, Empty
<1>2. TypeOK
  <2>1. \A c \in Conns : Cardinality(Present(c)) <= Capacity
    BY <1>1, FS_EmptySet
  <2>2. cached \in [Conns -> [Sqls -> Stmts \cup {None}]]
    BY <1>0 DEF Empty
  <2>3. server \in [Conns -> SUBSET (Stmts \X Sqls)]
    BY <1>0
  <2> QED
    BY <1>0, <2>1, <2>2, <2>3 DEF TypeOK, Labels
<1>3. OneUser /\ BornEmpty /\ CallKnows /\ NamesDrawn
  BY <1>0 DEF OneUser, BornEmpty, CallKnows, NamesDrawn, Empty
<1>4. EnoughNames
  <2>1. Drawing = {}
    BY <1>0 DEF Drawing
  <2> QED
    BY <1>0, <2>1, FS_EmptySet DEF EnoughNames
<1>5. PresentFinite
  BY <1>1, FS_EmptySet DEF PresentFinite
<1>6. Matching
  <2>1. \A c \in Conns : OnItsWay(c) = {}
    BY <1>0 DEF OnItsWay
  <2> QED
    BY <1>0, <1>1, <2>1 DEF Matching
<1> QED
  BY <1>2, <1>3, <1>4, <1>5, <1>6 DEF DriverInv

-----------------------------------------------------------------------------
(* A thread in query() or execute() has a connection of its own. *)
LEMMA HasConnection ==
    ASSUME DriverInv, NEW t \in Threads,
           at[t] \in {"lookup", "prepare", "put", "exec", "leave"}
    PROVE  /\ lease[t] \in Conns /\ lease[t] \in live /\ sql[t] \in Sqls
           /\ \A u \in Threads : lease[u] = lease[t] => u = t
<1>1. lease[t] # None
  BY DEF DriverInv, TypeOK
<1>2. lease[t] \in Conns /\ lease[t] \in live
  BY <1>1 DEF DriverInv, OneUser, TypeOK
<1> QED
  BY <1>1, <1>2 DEF DriverInv, OneUser, CallKnows

(* What evicting some entries of a connection's cache does. *)
LEMMA Evicted ==
    ASSUME TypeOK, NEW c \in Conns, NEW gone \in SUBSET Present(c),
           cached' = [cached EXCEPT ![c] = Without(c, gone)]
    PROVE  /\ cached' \in [Conns -> [Sqls -> Stmts \cup {None}]]
           /\ \A d \in Conns \ {c} : cached'[d] = cached[d] /\ Present(d)' = Present(d)
           /\ \A s \in Sqls : cached'[c][s] = IF s \in gone THEN None ELSE cached[c][s]
           /\ Present(c)' = Present(c) \ gone
<1>1. /\ Without(c, gone) \in [Sqls -> Stmts \cup {None}]
      /\ \A s \in Sqls : Without(c, gone)[s] = IF s \in gone THEN None ELSE cached[c][s]
  BY DEF TypeOK, Without
<1>2. /\ cached' \in [Conns -> [Sqls -> Stmts \cup {None}]]
      /\ cached'[c] = Without(c, gone)
      /\ \A d \in Conns \ {c} : cached'[d] = cached[d]
  BY <1>1 DEF TypeOK
<1> QED
  BY <1>1, <1>2 DEF Present

(* What storing a statement does, when other entries make room for it.     *)
LEMMA Stored ==
    ASSUME TypeOK, NEW c \in Conns, NEW s \in Sqls, NEW gone \in SUBSET (Present(c) \ {s}),
           NEW name \in Stmts,
           cached' = [cached EXCEPT ![c] = [Without(c, gone) EXCEPT ![s] = name]]
    PROVE  /\ cached' \in [Conns -> [Sqls -> Stmts \cup {None}]]
           /\ \A d \in Conns \ {c} : cached'[d] = cached[d] /\ Present(d)' = Present(d)
           /\ \A r \in Sqls : cached'[c][r] =
                IF r = s THEN name ELSE IF r \in gone THEN None ELSE cached[c][r]
           /\ Present(c)' = (Present(c) \cup {s}) \ gone
<1>0. name # None
  BY DriverAssumption DEF Stmts
<1>1. /\ Without(c, gone) \in [Sqls -> Stmts \cup {None}]
      /\ \A r \in Sqls : Without(c, gone)[r] = IF r \in gone THEN None ELSE cached[c][r]
  BY DEF TypeOK, Without
<1>2. /\ cached' \in [Conns -> [Sqls -> Stmts \cup {None}]]
      /\ \A r \in Sqls : cached'[c][r] = IF r = s THEN name ELSE Without(c, gone)[r]
      /\ \A d \in Conns \ {c} : cached'[d] = cached[d]
  BY <1>1 DEF TypeOK
<1> QED
  BY <1>0, <1>1, <1>2 DEF Present

(* What closing statements on the server does. *)
LEMMA Closed ==
    ASSUME TypeOK, NEW c \in Conns, NEW gone \in SUBSET Sqls, Closing(c, gone)
    PROVE  /\ server' \in [Conns -> SUBSET (Stmts \X Sqls)]
           /\ \A d \in Conns \ {c} : server'[d] = server[d]
           /\ server'[c] = server[c] \ {<<cached[c][s], s>> : s \in gone}
BY DEF TypeOK, Closing

-----------------------------------------------------------------------------
(* A name is left for every call that may yet draw one. *)
LEMMA DrawingFinite ==
    /\ IsFiniteSet(Drawing) /\ Cardinality(Drawing) \in Nat
    /\ IsFiniteSet(Drawing') /\ Cardinality(Drawing') \in Nat
<1>1. Drawing \in SUBSET Threads /\ Drawing' \in SUBSET Threads
  BY DEF Drawing
<1> QED
  BY <1>1, FS_Subset, FS_CardinalityType, DriverAssumption

LEMMA NameLeft ==
    ASSUME DriverInv, NEW t \in Threads, at[t] = "prepare"
    PROVE  counter \in Nat /\ counter + 1 \in Stmts /\ counter + 1 \in 0..MaxStmts
<1>1. t \in Drawing
  BY DEF Drawing
<1>2. Cardinality(Drawing) # 0
  BY <1>1, DrawingFinite, FS_EmptySet
<1>3. counter \in 0..MaxStmts /\ counter + Cardinality(Drawing) <= MaxStmts
  BY DEF DriverInv, TypeOK, EnoughNames
<1> QED
  BY <1>2, <1>3, DrawingFinite, DriverAssumption DEF Stmts

LEMMA EnoughStep == DriverInv /\ [Next]_vars => EnoughNames'
<1> SUFFICES ASSUME DriverInv, [Next]_vars PROVE EnoughNames'
  OBVIOUS
<1> USE DriverAssumption DEF Goto
<1>0. counter \in Nat /\ counter + Cardinality(Drawing) <= MaxStmts
  BY DEF DriverInv, TypeOK, EnoughNames
<1>1. ASSUME counter' = counter, Drawing' \subseteq Drawing PROVE EnoughNames'
  <2>1. Cardinality(Drawing') <= Cardinality(Drawing)
    BY <1>1, DrawingFinite, FS_Subset
  <2> QED
    BY <1>0, <1>1, <2>1, DrawingFinite DEF EnoughNames
<1>2. CASE UNCHANGED vars \/ Finish \/ DropCache \/ \E c \in Conns : SessionLost(c)
  BY <1>1, <1>2 DEF vars, Finish, DropCache, SessionLost, Drawing
<1>3. ASSUME NEW t \in Threads, NEW s \in Sqls, Call(t, s) PROVE EnoughNames'
  <2>1. at[t] = "idle" /\ counter' = counter
    BY <1>3 DEF Call
  <2>2. CASE at' = [at EXCEPT ![t] = "execute"]
    <3>1. Drawing' \subseteq Drawing
      BY <2>1, <2>2 DEF Drawing, DriverInv, TypeOK
    <3> QED
      BY <1>1, <2>1, <3>1
  <2>3. CASE /\ counter + Cardinality({u \in Threads : at[u] # "idle"}) < MaxStmts
             /\ at' = [at EXCEPT ![t] = "query"]
    <3> DEFINE busy == {u \in Threads : at[u] # "idle"}
    <3>1. IsFiniteSet(busy) /\ Cardinality(busy) \in Nat
      <4>1. busy \in SUBSET Threads
        OBVIOUS
      <4> QED
        BY <4>1, FS_Subset, FS_CardinalityType
    <3>2. Drawing' \in SUBSET (busy \cup {t})
      BY <2>3 DEF Drawing, DriverInv, TypeOK
    <3>3. /\ IsFiniteSet(busy \cup {t})
          /\ Cardinality(busy \cup {t}) = Cardinality(busy) + 1
      BY <2>1, <3>1, FS_AddElement
    <3>4. Cardinality(Drawing') <= Cardinality(busy) + 1
      BY <3>2, <3>3, FS_Subset
    <3>5. counter + Cardinality(busy) < MaxStmts
      BY <2>3
    <3> HIDE DEF busy
    <3> QED
      BY <1>0, <2>1, <3>1, <3>4, <3>5, DrawingFinite DEF EnoughNames
  <2> QED
    BY <1>3, <2>2, <2>3 DEF Call
<1>4. ASSUME NEW t \in Threads,
             Acquire(t) \/ AcquireThrows(t) \/ Lookup(t) \/ Put(t) \/ Exec(t) \/ Leave(t)
      PROVE  EnoughNames'
  <2>1. /\ counter' = counter
        /\ at[t] \in {"query", "execute", "lookup", "put", "exec", "leave"}
    BY <1>4 DEF Acquire, AcquireThrows, Lookup, Put, Exec, Leave
  <2>2. \/ at' = [at EXCEPT ![t] = IF at[t] = "query" THEN "lookup" ELSE "exec"]
        \/ at' = [at EXCEPT ![t] = "idle"]
        \/ at' = [at EXCEPT ![t] = IF cached'[lease[t]][sql[t]] = None THEN "prepare" ELSE "exec"]
           /\ at[t] = "lookup"
        \/ at' = [at EXCEPT ![t] = "exec"]
        \/ at' = [at EXCEPT ![t] = "leave"]
    BY <1>4 DEF Acquire, AcquireThrows, Lookup, Put, Exec, Leave
  <2>3. Drawing' \subseteq Drawing
    BY <2>1, <2>2 DEF Drawing, DriverInv, TypeOK
  <2> QED
    BY <1>1, <2>1, <2>3
<1>5. ASSUME NEW t \in Threads, Prepare(t) \/ PrepareThrows(t) PROVE EnoughNames'
  <2>1. at[t] = "prepare" /\ counter' = counter + 1
    BY <1>5 DEF Prepare, PrepareThrows
  <2>2. at' = [at EXCEPT ![t] = "put"] \/ at' = [at EXCEPT ![t] = "leave"]
    BY <1>5 DEF Prepare, PrepareThrows
  <2>3. Drawing' = Drawing \ {t} /\ t \in Drawing
    BY <2>1, <2>2 DEF Drawing, DriverInv, TypeOK
  <2>4. Cardinality(Drawing') = Cardinality(Drawing) - 1
    BY <2>3, DrawingFinite, FS_RemoveElement
  <2> QED
    BY <1>0, <2>1, <2>4, DrawingFinite DEF EnoughNames
<1> QED
  BY <1>2, <1>3, <1>4, <1>5 DEF Next, Running

-----------------------------------------------------------------------------
(* Types, and the capacity of the caches. *)
LEMMA TypeStep == DriverInv /\ [Next]_vars => TypeOK' /\ PresentFinite'
<1> SUFFICES ASSUME DriverInv, [Next]_vars PROVE TypeOK' /\ PresentFinite'
  OBVIOUS
<1> USE DriverAssumption DEF Goto
<1> DEFINE Fits == /\ \A c \in Conns : Cardinality(Present(c)) <= Capacity
                   /\ \A c \in Conns : IsFiniteSet(Present(c))
           LeaseKnown == \A t \in Threads :
                lease[t] # None <=> at[t] \notin {"idle", "query", "execute"}
           Plain == /\ live \subseteq Conns /\ lost \subseteq Conns /\ finished \subseteq Conns
                    /\ lease \in [Threads -> Conns \cup {None}]
                    /\ counter \in 0..MaxStmts
                    /\ at \in [Threads -> Labels]
                    /\ sql \in [Threads -> Sqls \cup {None}]
                    /\ stmt \in [Threads -> Stmts \cup {None}]
           Caches == /\ cached \in [Conns -> [Sqls -> Stmts \cup {None}]]
                     /\ server \in [Conns -> SUBSET (Stmts \X Sqls)]
<1>0. Fits /\ LeaseKnown /\ Plain /\ Caches
  BY DEF DriverInv, TypeOK, PresentFinite
<1>a. ASSUME Fits', LeaseKnown', Plain', Caches' PROVE TypeOK' /\ PresentFinite'
  BY <1>a DEF TypeOK, PresentFinite
<1>b. ASSUME cached' = cached PROVE Fits'
  BY <1>0, <1>b DEF Present
<1>c. ASSUME NEW c \in Conns, NEW gone \in SUBSET Present(c),
             cached' = [cached EXCEPT ![c] = Without(c, gone)]
      PROVE  Fits'
  <2>1. /\ \A d \in Conns \ {c} : Present(d)' = Present(d)
        /\ Present(c)' = Present(c) \ gone
    BY <1>c, Evicted DEF DriverInv
  <2>2. /\ IsFiniteSet(Present(c)') /\ Cardinality(Present(c)') <= Cardinality(Present(c))
        /\ Cardinality(Present(c)) \in Nat /\ Cardinality(Present(c)') \in Nat
    <3>1. Present(c)' \in SUBSET Present(c) /\ IsFiniteSet(Present(c))
      BY <1>0, <2>1
    <3> QED
      BY <3>1, FS_Subset, FS_CardinalityType
  <2>3. \A d \in Conns : IsFiniteSet(Present(d)') /\ Cardinality(Present(d)') <= Capacity
    <3> TAKE d \in Conns
    <3>1. CASE d = c
      BY <1>0, <2>2, <3>1, DriverAssumption
    <3>2. CASE d # c
      BY <1>0, <2>1, <3>2
    <3> QED
      BY <3>1, <3>2
  <2> QED
    BY <2>3
<1>1. CASE UNCHANGED vars
  <2>1. LeaseKnown' /\ Plain' /\ Caches'
    BY <1>0, <1>1 DEF vars
  <2> QED
    BY <1>a, <1>b, <1>1, <2>1 DEF vars
<1>2. ASSUME NEW t \in Threads, NEW s \in Sqls, Call(t, s) PROVE TypeOK' /\ PresentFinite'
  <2>1. at' = [at EXCEPT ![t] = "execute"] \/ at' = [at EXCEPT ![t] = "query"]
    BY <1>2 DEF Call
  <2>2. Plain' /\ Caches'
    BY <1>0, <1>2, <2>1 DEF Call, pool, Labels
  <2>3. LeaseKnown'
    BY <1>0, <1>2, <2>1 DEF Call, pool
  <2> QED
    BY <1>2, <1>a, <1>b, <2>2, <2>3 DEF Call
<1>3. ASSUME NEW t \in Threads, Acquire(t) PROVE TypeOK' /\ PresentFinite'
  <2>1. PICK c \in Conns : lease' = [lease EXCEPT ![t] = c] /\ live' \in {live, live \cup {c}}
    BY <1>0, <1>3 DEF Acquire, Pool!Checkout, Pool!Open
  <2>2. /\ at' = [at EXCEPT ![t] = IF at[t] = "query" THEN "lookup" ELSE "exec"]
        /\ UNCHANGED <<finished, cached, server, counter, sql, stmt>> /\ lost' \subseteq lost
    BY <1>3 DEF Acquire
  <2>3. Plain' /\ Caches'
    BY <1>0, <2>1, <2>2 DEF Labels
  <2>4. LeaseKnown'
    BY <1>0, <2>1, <2>2
  <2> QED
    BY <1>a, <1>b, <2>2, <2>3, <2>4
<1>4. ASSUME NEW t \in Threads, AcquireThrows(t) \/ Leave(t) PROVE TypeOK' /\ PresentFinite'
  <2>1. /\ UNCHANGED <<live, lost, finished, cached, server, counter>>
        /\ lease' = [lease EXCEPT ![t] = None] \/ (lease' = lease /\ lease[t] = None)
        /\ at' = [at EXCEPT ![t] = "idle"]
        /\ sql' = [sql EXCEPT ![t] = None]
        /\ stmt' = [stmt EXCEPT ![t] = None] \/ stmt' = stmt
    BY <1>0, <1>4 DEF AcquireThrows, Leave, Pool!Return, pool
  <2>2. Plain' /\ Caches'
    BY <1>0, <2>1 DEF Labels
  <2>3. LeaseKnown'
    BY <1>0, <2>1
  <2> QED
    BY <1>a, <1>b, <2>1, <2>2, <2>3
<1>5. ASSUME NEW t \in Threads, Lookup(t) PROVE TypeOK' /\ PresentFinite'
  <2>c. lease[t] \in Conns /\ sql[t] \in Sqls /\ at[t] = "lookup"
    BY <1>5, HasConnection DEF Lookup
  <2>0. PICK c \in Conns : c = lease[t]
    BY <2>c
  <2>1. PICK gone \in SUBSET Present(c) :
          cached' = [cached EXCEPT ![c] = Without(c, gone)] /\ Closing(c, gone)
    BY <1>5, <2>0 DEF Lookup
  <2>2. cached' \in [Conns -> [Sqls -> Stmts \cup {None}]]
    BY <2>0, <2>1, Evicted DEF DriverInv
  <2>3. server' \in [Conns -> SUBSET (Stmts \X Sqls)]
    BY <2>0, <2>1, Closed DEF DriverInv, Present
  <2>4. /\ UNCHANGED <<live, lease, lost, finished, counter, sql>>
        /\ stmt' = [stmt EXCEPT ![t] = cached'[c][sql[t]]]
        /\ at' = [at EXCEPT ![t] = "prepare"] \/ at' = [at EXCEPT ![t] = "exec"]
    BY <1>5, <2>0 DEF Lookup, pool
  <2>5. cached'[c][sql[t]] \in Stmts \cup {None}
    BY <2>c, <2>2
  <2>6. Plain'
    BY <1>0, <2>4, <2>5 DEF Labels
  <2>7. LeaseKnown'
    BY <1>0, <2>c, <2>4
  <2> QED
    BY <1>a, <1>c, <2>0, <2>1, <2>2, <2>3, <2>6, <2>7
<1>6. ASSUME NEW t \in Threads, Prepare(t) PROVE TypeOK' /\ PresentFinite'
  <2> DEFINE c == lease[t]
  <2>0. c \in Conns /\ sql[t] \in Sqls /\ at[t] = "prepare"
    BY <1>6, HasConnection DEF Prepare
  <2>1. counter' \in Stmts /\ counter' \in 0..MaxStmts
    BY <1>6, <2>0, NameLeft DEF Prepare
  <2>2. Caches'
    BY <1>0, <1>6, <2>0, <2>1 DEF Prepare
  <2>3. /\ UNCHANGED <<live, lease, lost, finished, sql, cached>>
        /\ stmt' = [stmt EXCEPT ![t] = counter']
        /\ at' = [at EXCEPT ![t] = "put"]
    BY <1>6 DEF Prepare, pool
  <2>4. Plain'
    BY <1>0, <2>1, <2>3 DEF Labels
  <2>5. LeaseKnown'
    BY <1>0, <2>0, <2>3
  <2> QED
    BY <1>a, <1>b, <2>2, <2>3, <2>4, <2>5
<1>7. ASSUME NEW t \in Threads, PrepareThrows(t) \/ Exec(t) PROVE TypeOK' /\ PresentFinite'
  <2>1. /\ UNCHANGED <<live, lease, lost, finished, cached, server, sql, stmt>>
        /\ at' = [at EXCEPT ![t] = "leave"] /\ at[t] \in {"prepare", "exec"}
    BY <1>7 DEF PrepareThrows, Exec, pool
  <2>2. counter' \in 0..MaxStmts
    BY <1>0, <1>7, NameLeft DEF PrepareThrows, Exec
  <2>3. Plain' /\ Caches'
    BY <1>0, <2>1, <2>2 DEF Labels
  <2>4. LeaseKnown'
    BY <1>0, <2>1
  <2> QED
    BY <1>a, <1>b, <2>1, <2>3, <2>4
<1>8. ASSUME NEW t \in Threads, Put(t) PROVE TypeOK' /\ PresentFinite'
  <2>c. lease[t] \in Conns /\ sql[t] \in Sqls /\ at[t] = "put" /\ stmt[t] \in Stmts
    BY <1>8, HasConnection DEF Put, DriverInv, CallKnows, TypeOK
  <2>0. PICK c \in Conns, s \in Sqls, name \in Stmts :
          c = lease[t] /\ s = sql[t] /\ name = stmt[t]
    BY <2>c
  <2>1. PICK gone \in SUBSET (Present(c) \ {s}) :
          /\ Cardinality((Present(c) \cup {s}) \ gone) <= Capacity
          /\ cached' = [cached EXCEPT ![c] = [Without(c, gone) EXCEPT ![s] = name]]
          /\ Closing(c, gone)
    BY <1>8, <2>0 DEF Put
  <2>2. /\ cached' \in [Conns -> [Sqls -> Stmts \cup {None}]]
        /\ \A d \in Conns \ {c} : Present(d)' = Present(d)
        /\ Present(c)' = (Present(c) \cup {s}) \ gone
    BY <2>1, Stored DEF DriverInv
  <2>3. server' \in [Conns -> SUBSET (Stmts \X Sqls)]
    BY <2>0, <2>1, Closed DEF DriverInv, Present
  <2>4. Fits'
    <3>1. IsFiniteSet(Present(c) \cup {s})
      BY <1>0, FS_AddElement
    <3>2. (Present(c) \cup {s}) \ gone \in SUBSET (Present(c) \cup {s})
      OBVIOUS
    <3>3. IsFiniteSet(Present(c)') /\ Cardinality(Present(c)') <= Capacity
      BY <2>1, <2>2, <3>1, <3>2, FS_Subset
    <3> SUFFICES ASSUME NEW d \in Conns
                 PROVE  IsFiniteSet(Present(d)') /\ Cardinality(Present(d)') <= Capacity
      OBVIOUS
    <3>4. CASE d = c
      BY <3>3, <3>4
    <3>5. CASE d # c
      BY <1>0, <2>2, <3>5
    <3> QED
      BY <3>4, <3>5
  <2>5. /\ UNCHANGED <<live, lease, lost, finished, counter, sql, stmt>>
        /\ at' = [at EXCEPT ![t] = "exec"]
    BY <1>8 DEF Put, pool
  <2>6. Plain' /\ LeaseKnown'
    BY <1>0, <2>c, <2>5 DEF Labels
  <2> QED
    BY <1>a, <2>2, <2>3, <2>4, <2>6
<1>9. CASE Finish
  <2>1. /\ UNCHANGED <<lease, lost, cached, counter, at, sql, stmt>>
        /\ live' \subseteq live /\ finished' = live \ live'
        /\ server' = [c \in Conns |-> IF c \in finished' THEN {} ELSE server[c]]
    BY <1>9 DEF Finish, Pool!Close
  <2>2. Plain' /\ Caches' /\ LeaseKnown'
    BY <1>0, <2>1
  <2> QED
    BY <1>a, <1>b, <2>1, <2>2
<1>10. CASE DropCache
  <2>1. /\ UNCHANGED <<live, lease, lost, server, counter, at, sql, stmt>> /\ finished' = {}
        /\ cached' = [c \in Conns |-> IF c \in finished THEN Empty ELSE cached[c]]
    BY <1>10 DEF DropCache, pool
  <2>2. Plain' /\ Caches' /\ LeaseKnown'
    BY <1>0, <2>1 DEF Empty
  <2>3. \A c \in Conns : Present(c)' \in {{}, Present(c)}
    BY <2>1 DEF Present, Empty
  <2>4. Fits'
    <3> SUFFICES ASSUME NEW c \in Conns
                 PROVE  IsFiniteSet(Present(c)') /\ Cardinality(Present(c)') <= Capacity
      OBVIOUS
    <3>1. CASE Present(c)' = {}
      BY <3>1, FS_EmptySet
    <3>2. CASE Present(c)' = Present(c)
      BY <1>0, <3>2
    <3> QED
      BY <2>3, <3>1, <3>2
  <2> QED
    BY <1>a, <2>2, <2>4
<1>11. ASSUME NEW c \in Conns, SessionLost(c) PROVE TypeOK' /\ PresentFinite'
  <2>1. /\ UNCHANGED <<live, lease, finished, cached, counter, at, sql, stmt>>
        /\ lost' = lost \cup {c} /\ server' = [server EXCEPT ![c] = {}]
    BY <1>11 DEF SessionLost, pool
  <2>2. Plain' /\ Caches' /\ LeaseKnown'
    BY <1>0, <2>1
  <2> QED
    BY <1>a, <1>b, <2>1, <2>2
<1> QED
  BY <1>1, <1>2, <1>3, <1>4, <1>5, <1>6, <1>7, <1>8, <1>9, <1>10, <1>11
     DEF Next, Running

-----------------------------------------------------------------------------
(* The connections that a step of a call may change: its own. *)
LEMMA OwnConnectionOnly ==
    ASSUME DriverInv, NEW t \in Threads,
           Lookup(t) \/ Prepare(t) \/ PrepareThrows(t) \/ Put(t) \/ Exec(t)
    PROVE  /\ lease[t] \in live /\ lease[t] \in Conns
           /\ UNCHANGED <<live, lease, lost, finished, sql>>
           /\ \A c \in Conns \ {lease[t]} : cached'[c] = cached[c] /\ server'[c] = server[c]
           /\ \A u \in Threads \ {t} : at'[u] = at[u] /\ stmt'[u] = stmt[u]
<1>0. /\ at[t] \in {"lookup", "prepare", "put", "exec"}
      /\ UNCHANGED <<live, lease, lost, finished, sql>>
  BY DEF Lookup, Prepare, PrepareThrows, Put, Exec, pool
<1>1. PICK c \in Conns : c = lease[t] /\ c \in live
  BY <1>0, HasConnection
<1>2. \A u \in Threads \ {t} : at'[u] = at[u] /\ stmt'[u] = stmt[u]
  BY DEF Lookup, Prepare, PrepareThrows, Put, Exec, Goto, DriverInv, TypeOK
<1>3. \A d \in Conns \ {c} : cached'[d] = cached[d]
  BY <1>1 DEF Lookup, Prepare, PrepareThrows, Put, Exec, DriverInv, TypeOK
<1>4. \A d \in Conns \ {c} : server'[d] = server[d]
  BY <1>1 DEF Lookup, Prepare, PrepareThrows, Put, Exec, Closing, DriverInv, TypeOK
<1> QED
  BY <1>0, <1>1, <1>2, <1>3, <1>4

LEMMA ShareStep == DriverInv /\ [Next]_vars => OneUser' /\ BornEmpty'
<1> SUFFICES ASSUME DriverInv, [Next]_vars PROVE OneUser' /\ BornEmpty'
  OBVIOUS
<1> USE DriverAssumption
<1>0. OneUser /\ BornEmpty /\ TypeOK
  BY DEF DriverInv
<1>1. CASE UNCHANGED vars
  BY <1>0, <1>1 DEF vars, OneUser, BornEmpty, Empty
<1>2. ASSUME NEW t \in Threads, NEW s \in Sqls, Call(t, s) PROVE OneUser' /\ BornEmpty'
  BY <1>0, <1>2 DEF Call, pool, OneUser, BornEmpty, Empty
<1>3. ASSUME NEW t \in Threads, Acquire(t) PROVE OneUser' /\ BornEmpty'
  <2>0. UNCHANGED <<finished, cached, server>> /\ finished = {}
    BY <1>3 DEF Acquire
  <2>1. CASE Pool!Checkout(t)
    <3>1. PICK c \in live \ Pool!Leased : lease' = [lease EXCEPT ![t] = c]
      BY <2>1 DEF Pool!Checkout
    <3>2. live' = live /\ \A u \in Threads : lease[u] # c
      BY <1>0, <2>1, <3>1 DEF Pool!Checkout, Pool!Leased, TypeOK
    <3>3. OneUser'
      BY <1>0, <3>1, <3>2 DEF OneUser, TypeOK
    <3>4. BornEmpty'
      BY <1>0, <2>0, <3>2 DEF BornEmpty, Empty
    <3> QED
      BY <3>3, <3>4
  <2>2. CASE Pool!Open(t)
    <3>1. PICK c \in Conns \ live : live' = live \cup {c} /\ lease' = [lease EXCEPT ![t] = c]
      BY <2>2 DEF Pool!Open
    <3>2. OneUser'
      BY <1>0, <3>1 DEF OneUser, TypeOK
    <3>3. BornEmpty'
      BY <1>0, <2>0, <3>1 DEF BornEmpty, Empty
    <3> QED
      BY <3>2, <3>3
  <2> QED
    BY <1>3, <2>1, <2>2 DEF Acquire
<1>4. ASSUME NEW t \in Threads, AcquireThrows(t) PROVE OneUser' /\ BornEmpty'
  BY <1>0, <1>4 DEF AcquireThrows, pool, OneUser, BornEmpty, Empty
<1>5. ASSUME NEW t \in Threads,
             Lookup(t) \/ Prepare(t) \/ PrepareThrows(t) \/ Put(t) \/ Exec(t)
      PROVE  OneUser' /\ BornEmpty'
  <2>1. /\ lease[t] \in live /\ UNCHANGED <<live, lease, finished>>
        /\ \A c \in Conns \ {lease[t]} : cached'[c] = cached[c] /\ server'[c] = server[c]
    BY <1>5, OwnConnectionOnly
  <2> QED
    BY <1>0, <2>1 DEF OneUser, BornEmpty, Empty
<1>6. ASSUME NEW t \in Threads, Leave(t) PROVE OneUser' /\ BornEmpty'
  <2>1. /\ lease' = [lease EXCEPT ![t] = None]
        /\ UNCHANGED <<live, finished, cached, server>>
    BY <1>6 DEF Leave, Pool!Return
  <2> QED
    BY <1>0, <2>1 DEF OneUser, BornEmpty, Empty, TypeOK
<1>7. CASE Finish
  <2>1. PICK c \in live \ Pool!Leased : live' = live \ {c}
    BY <1>7 DEF Finish, Pool!Close
  <2>2. /\ finished = {} /\ finished' = {c} /\ UNCHANGED <<lease, cached>>
        /\ server' = [d \in Conns |-> IF d \in finished' THEN {} ELSE server[d]]
    BY <1>7, <2>1 DEF Finish, Pool!Close
  <2>3. \A t \in Threads : lease[t] # c
    BY <1>0, <2>1 DEF Pool!Leased, TypeOK
  <2>4. OneUser'
    BY <1>0, <2>1, <2>2, <2>3 DEF OneUser
  <2>5. BornEmpty'
    BY <1>0, <2>1, <2>2 DEF BornEmpty, Empty
  <2> QED
    BY <2>4, <2>5
<1>8. CASE DropCache
  <2>1. /\ UNCHANGED <<live, lease, server>> /\ finished' = {}
        /\ cached' = [c \in Conns |-> IF c \in finished THEN Empty ELSE cached[c]]
    BY <1>8 DEF DropCache, pool
  <2> QED
    BY <1>0, <2>1 DEF OneUser, BornEmpty, Empty
<1>9. ASSUME NEW c \in Conns, SessionLost(c) PROVE OneUser' /\ BornEmpty'
  <2>1. UNCHANGED <<live, lease, finished, cached>> /\ server' = [server EXCEPT ![c] = {}]
    BY <1>9 DEF SessionLost, pool
  <2> QED
    BY <1>0, <2>1 DEF OneUser, BornEmpty, Empty, TypeOK
<1> QED
  BY <1>1, <1>2, <1>3, <1>4, <1>5, <1>6, <1>7, <1>8, <1>9 DEF Next, Running

-----------------------------------------------------------------------------
(* What the steps between two calls leave as it was. *)
LEMMA KnowledgeStep == DriverInv /\ [Next]_vars => CallKnows' /\ NamesDrawn'
<1> SUFFICES ASSUME DriverInv, [Next]_vars PROVE CallKnows' /\ NamesDrawn'
  OBVIOUS
<1> USE DriverAssumption DEF Goto
<1>0. CallKnows /\ NamesDrawn /\ TypeOK /\ OneUser /\ BornEmpty
  BY DEF DriverInv
<1>1. CASE UNCHANGED vars \/ Finish \/ \E c \in Conns : SessionLost(c)
  <2>1. UNCHANGED <<lease, cached, counter, at, sql, stmt>>
    BY <1>1 DEF vars, Finish, SessionLost, pool, Pool!Close
  <2> QED
    BY <1>0, <2>1 DEF CallKnows, NamesDrawn
<1>2. CASE DropCache
  <2>1. /\ UNCHANGED <<lease, counter, at, sql, stmt>>
        /\ cached' = [c \in Conns |-> IF c \in finished THEN Empty ELSE cached[c]]
    BY <1>2 DEF DropCache, pool
  <2>2. \A t \in Threads : lease[t] # None => cached'[lease[t]] = cached[lease[t]]
    BY <1>0, <2>1 DEF OneUser, BornEmpty, TypeOK
  <2>3. CallKnows'
    <3>1. \A t \in Threads : at[t] \in {"prepare", "put", "exec"} =>
            cached'[lease[t]] = cached[lease[t]]
      BY <1>0, <2>2 DEF TypeOK
    <3> QED
      BY <1>0, <2>1, <3>1 DEF CallKnows
  <2>4. \A c \in Conns, s \in Sqls : cached'[c][s] # None => cached'[c][s] = cached[c][s]
    BY <2>1 DEF Empty
  <2>5. \A t \in Threads : at[t] = "put" => lease[t] # None
    BY <1>0 DEF TypeOK
  <2>6. /\ \A c \in Conns, s \in Sqls : cached'[c][s] # None => cached'[c][s] <= counter
        /\ \A c \in Conns, r, s \in Sqls :
             cached'[c][r] # None /\ cached'[c][r] = cached'[c][s] => r = s
    BY <1>0, <2>4 DEF NamesDrawn
  <2>7. \A t \in Threads, s \in Sqls : at[t] = "put" => cached'[lease[t]][s] # stmt[t]
    BY <1>0, <2>2, <2>5 DEF NamesDrawn
  <2>8. NamesDrawn'
    BY <1>0, <2>1, <2>6, <2>7 DEF NamesDrawn
  <2> QED
    BY <2>3, <2>8
<1>3. ASSUME NEW t \in Threads,
             (\E s \in Sqls : Call(t, s)) \/ Acquire(t) \/ AcquireThrows(t) \/ Leave(t)
      PROVE  CallKnows' /\ NamesDrawn'
  <2>1. UNCHANGED <<cached, counter>>
    BY <1>3 DEF Call, Acquire, AcquireThrows, Leave
  <2>2. \A u \in Threads \ {t} : /\ lease'[u] = lease[u] /\ at'[u] = at[u]
                                 /\ sql'[u] = sql[u] /\ stmt'[u] = stmt[u]
    BY <1>0, <1>3 DEF Call, Acquire, AcquireThrows, Leave, TypeOK, pool,
       Pool!Checkout, Pool!Open, Pool!Return
  <2>3. stmt'[t] = None
    BY <1>0, <1>3 DEF Call, Acquire, AcquireThrows, Leave, CallKnows, TypeOK
  <2>4. /\ at'[t] # "idle" => sql'[t] \in Sqls
        /\ at'[t] \in {"idle", "query", "execute", "lookup", "exec"}
    BY <1>0, <1>3 DEF Call, Acquire, AcquireThrows, Leave, CallKnows, TypeOK
  <2>5. CallKnows'
    BY <1>0, <2>1, <2>2, <2>3, <2>4 DEF CallKnows
  <2>6. \A u \in Threads, s \in Sqls : at'[u] = "put" => cached'[lease'[u]][s] # stmt'[u]
    BY <1>0, <2>1, <2>2, <2>4 DEF NamesDrawn
  <2>7. NamesDrawn'
    BY <1>0, <2>1, <2>2, <2>3, <2>6 DEF NamesDrawn
  <2> QED
    BY <2>5, <2>7
<1>4. ASSUME NEW t \in Threads,
             Lookup(t) \/ Prepare(t) \/ PrepareThrows(t) \/ Put(t) \/ Exec(t)
      PROVE  CallKnows' /\ NamesDrawn'
  <2>0. /\ lease[t] \in live /\ lease[t] \in Conns /\ UNCHANGED <<lease, sql>>
        /\ \A d \in Conns \ {lease[t]} : cached'[d] = cached[d]
        /\ \A u \in Threads \ {t} : at'[u] = at[u] /\ stmt'[u] = stmt[u]
    BY <1>4, OwnConnectionOnly
  <2>c. PICK c \in Conns : c = lease[t]
    BY <2>0
  <2>s. sql[t] \in Sqls /\ \A u \in Threads \ {t} : lease[u] # c
    BY <1>0, <1>4, <2>0, <2>c DEF OneUser, CallKnows, Lookup, Prepare, PrepareThrows, Put, Exec
  <2>1. counter \in Nat /\ counter' \in Nat /\ counter <= counter'
    BY <1>0, <1>4 DEF Lookup, Prepare, PrepareThrows, Put, Exec, TypeOK
  <2> DEFINE Mine ==
               /\ at'[t] \in {"prepare", "put", "exec", "leave"}
               /\ at'[t] = "prepare" => stmt'[t] = None
               /\ at'[t] \in {"prepare", "put"} => cached'[c][sql[t]] = None
               /\ at'[t] = "put" => stmt'[t] # None /\ \A s \in Sqls : cached'[c][s] # stmt'[t]
               /\ at'[t] = "exec" /\ stmt'[t] # None => cached'[c][sql[t]] = stmt'[t]
               /\ stmt'[t] # None => stmt'[t] <= counter'
             Distinct ==
               /\ \A s \in Sqls : cached'[c][s] # None => cached'[c][s] <= counter'
               /\ \A r, s \in Sqls : cached'[c][r] # None /\ cached'[c][r] = cached'[c][s] => r = s
  <2>2. ASSUME Mine, Distinct PROVE CallKnows' /\ NamesDrawn'
    <3>1. \A u \in Threads \ {t} : at[u] \in {"prepare", "put", "exec"} =>
            lease[u] \in Conns \ {c} /\ cached'[lease[u]] = cached[lease[u]]
      BY <1>0, <2>0, <2>c, <2>s DEF TypeOK
    <3>2. CallKnows'
      BY <1>0, <2>0, <2>2, <2>c, <2>s, <3>1 DEF CallKnows
    <3>3. \A d \in Conns, s \in Sqls : cached'[d][s] # None => cached'[d][s] <= counter'
      <4> SUFFICES ASSUME NEW d \in Conns, NEW s \in Sqls, cached'[d][s] # None
                   PROVE  cached'[d][s] <= counter'
        OBVIOUS
      <4>1. CASE d = c
        BY <2>2, <4>1
      <4>2. CASE d # c
        <5>1. cached'[d][s] = cached[d][s]
          BY <2>0, <2>c, <4>2
        <5>2. cached[d][s] \in Nat /\ cached[d][s] <= counter
          BY <1>0, <5>1 DEF NamesDrawn, TypeOK, Stmts
        <5> QED
          BY <2>1, <5>1, <5>2
      <4> QED
        BY <4>1, <4>2
    <3>4. \A u \in Threads : stmt'[u] # None => stmt'[u] <= counter'
      <4> SUFFICES ASSUME NEW u \in Threads, u # t, stmt'[u] # None
                   PROVE  stmt'[u] <= counter'
        BY <2>2
      <4>1. stmt'[u] = stmt[u]
        BY <2>0
      <4>2. stmt[u] \in Nat /\ stmt[u] <= counter
        BY <1>0, <4>1 DEF NamesDrawn, TypeOK, Stmts
      <4> QED
        BY <2>1, <4>1, <4>2
    <3>5. \A d \in Conns, r, s \in Sqls :
            cached'[d][r] # None /\ cached'[d][r] = cached'[d][s] => r = s
      BY <1>0, <2>0, <2>2, <2>c DEF NamesDrawn
    <3>6. \A u \in Threads, s \in Sqls : at'[u] = "put" => cached'[lease'[u]][s] # stmt'[u]
      BY <1>0, <2>0, <2>2, <2>c, <3>1 DEF NamesDrawn
    <3> QED
      BY <3>2, <3>3, <3>4, <3>5, <3>6 DEF NamesDrawn
  <2>3. CASE Lookup(t)
    <3>1. PICK gone \in SUBSET Present(c) : cached' = [cached EXCEPT ![c] = Without(c, gone)]
      BY <2>3, <2>c DEF Lookup
    <3>2. \A s \in Sqls : cached'[c][s] = IF s \in gone THEN None ELSE cached[c][s]
      BY <1>0, <3>1, Evicted
    <3>3. /\ stmt'[t] = cached'[c][sql[t]] /\ counter' = counter
          /\ at'[t] = IF cached'[c][sql[t]] = None THEN "prepare" ELSE "exec"
      BY <1>0, <2>3, <2>c DEF Lookup, TypeOK
    <3>4. Distinct
      BY <1>0, <3>2, <3>3 DEF NamesDrawn
    <3>5. Mine
      BY <2>s, <3>3, <3>4
    <3> QED
      BY <2>2, <3>4, <3>5
  <2>4. CASE Prepare(t)
    <3>1. /\ at[t] = "prepare" /\ counter' = counter + 1 /\ stmt'[t] = counter + 1
          /\ at'[t] = "put" /\ cached' = cached
      BY <1>0, <2>4 DEF Prepare, TypeOK
    <3>2. \A s \in Sqls : cached[c][s] # None => cached[c][s] \in Nat /\ cached[c][s] <= counter
      BY <1>0 DEF NamesDrawn, TypeOK, Stmts
    <3>3. Distinct
      <4>1. \A s \in Sqls : cached[c][s] # None => cached[c][s] <= counter + 1
        BY <2>1, <3>2
      <4> QED
        BY <1>0, <3>1, <4>1 DEF NamesDrawn
    <3>4. Mine
      <4>1. \A s \in Sqls : cached[c][s] # counter + 1
        <5> SUFFICES ASSUME NEW s \in Sqls, cached[c][s] = counter + 1 PROVE FALSE
          OBVIOUS
        <5>1. cached[c][s] # None
          BY <2>1
        <5> QED
          BY <2>1, <3>2, <5>1
      <4>2. counter + 1 # None /\ counter + 1 <= counter'
        BY <2>1, <3>1
      <4>3. cached[c][sql[t]] = None
        BY <1>0, <2>c, <3>1 DEF CallKnows
      <4> QED
        BY <3>1, <4>1, <4>2, <4>3
    <3> QED
      BY <2>2, <3>3, <3>4
  <2>5. CASE PrepareThrows(t) \/ Exec(t)
    <3>1. UNCHANGED <<cached, stmt>> /\ at'[t] = "leave"
      BY <1>0, <2>5 DEF PrepareThrows, Exec, TypeOK
    <3>2. Distinct
      <4>1. \A s \in Sqls : cached[c][s] # None =>
              cached[c][s] \in Nat /\ cached[c][s] <= counter
        BY <1>0 DEF NamesDrawn, TypeOK, Stmts
      <4> QED
        BY <1>0, <2>1, <3>1, <4>1 DEF NamesDrawn
    <3>3. stmt[t] # None => stmt[t] \in Nat /\ stmt[t] <= counter
      BY <1>0 DEF NamesDrawn, TypeOK, Stmts
    <3>4. Mine
      BY <2>1, <3>1, <3>3
    <3> QED
      BY <2>2, <3>2, <3>4
  <2>6. CASE Put(t)
    <3>1. at[t] = "put" /\ at'[t] = "exec" /\ UNCHANGED <<counter, stmt>>
      BY <1>0, <2>6 DEF Put, TypeOK
    <3>2. PICK s \in Sqls, name \in Stmts : s = sql[t] /\ name = stmt[t]
      BY <1>0, <2>s, <3>1 DEF CallKnows, TypeOK
    <3>3. PICK gone \in SUBSET (Present(c) \ {s}) :
            cached' = [cached EXCEPT ![c] = [Without(c, gone) EXCEPT ![s] = name]]
      BY <2>6, <2>c, <3>2 DEF Put
    <3>4. \A r \in Sqls : cached'[c][r] =
            IF r = s THEN name ELSE IF r \in gone THEN None ELSE cached[c][r]
      <4>1. \A r \in Sqls : Without(c, gone)[r] = IF r \in gone THEN None ELSE cached[c][r]
        BY DEF Without
      <4>2. \A r \in Sqls : cached'[c][r] = IF r = s THEN name ELSE Without(c, gone)[r]
        BY <1>0, <3>3 DEF TypeOK, Without
      <4> QED
        BY <4>1, <4>2
    <3>5. name <= counter /\ \A r \in Sqls : cached[c][r] # name
      BY <1>0, <2>c, <3>1, <3>2 DEF NamesDrawn, CallKnows
    <3>6. Distinct
      BY <1>0, <3>1, <3>4, <3>5 DEF NamesDrawn
    <3>7. Mine
      BY <3>1, <3>2, <3>4, <3>5
    <3> QED
      BY <2>2, <3>6, <3>7
  <2> QED
    BY <1>4, <2>3, <2>4, <2>5, <2>6
<1> QED
  BY <1>1, <1>2, <1>3, <1>4 DEF Next, Running

-----------------------------------------------------------------------------
(* What the server has prepared, after each step: a statement is closed as *)
(* it leaves the cache, and enters the cache as it was prepared.           *)
LEMMA OneOnItsWay ==
    ASSUME OneUser, NEW t \in Threads, lease[t] # None
    PROVE  OnItsWay(lease[t]) = IF at[t] = "put" THEN {<<stmt[t], sql[t]>>} ELSE {}
<1>1. \A u \in Threads : lease[u] = lease[t] => u = t
  BY DEF OneUser
<1> QED
  BY <1>1 DEF OnItsWay

LEMMA MatchStep == DriverInv /\ [Next]_vars => Matching'
<1> SUFFICES ASSUME DriverInv, [Next]_vars PROVE Matching'
  OBVIOUS
<1> USE DriverAssumption
<1>0. Matching /\ CallKnows /\ NamesDrawn /\ TypeOK /\ OneUser /\ BornEmpty
  BY DEF DriverInv
<1>00. live' \subseteq Conns
  BY TypeStep DEF TypeOK
<1> DEFINE MatchAt(c) == server[c] = Handles(c) \cup OnItsWay(c)
<1>1. CASE UNCHANGED vars
  BY <1>0, <1>1 DEF vars, Matching, Handles, Present, OnItsWay
<1>2. ASSUME NEW t \in Threads,
             (\E s \in Sqls : Call(t, s)) \/ Acquire(t) \/ AcquireThrows(t) \/ Leave(t)
      PROVE  Matching'
  <2>1. UNCHANGED <<cached, server>>
    BY <1>2 DEF Call, Acquire, AcquireThrows, Leave
  <2>2. \A u \in Threads \ {t} : /\ lease'[u] = lease[u] /\ at'[u] = at[u]
                                 /\ sql'[u] = sql[u] /\ stmt'[u] = stmt[u]
    BY <1>0, <1>2 DEF Call, Acquire, AcquireThrows, Leave, TypeOK, pool,
       Pool!Checkout, Pool!Open, Pool!Return, Goto
  <2>3. at[t] # "put" /\ at'[t] # "put"
    BY <1>0, <1>2 DEF Call, Acquire, AcquireThrows, Leave, TypeOK, Goto
  <2>4. \A c \in Conns : Handles(c)' = Handles(c) /\ OnItsWay(c)' = OnItsWay(c)
    BY <2>1, <2>2, <2>3 DEF Handles, Present, OnItsWay
  <2>5. \A c \in Conns : c \in live' \ lost' =>
          c \in live \ lost \/ (c \notin live /\ finished = {})
    BY <1>2 DEF Call, Acquire, AcquireThrows, Leave, pool,
       Pool!Checkout, Pool!Open, Pool!Return
  <2>6. ASSUME NEW c \in Conns, c \notin live, finished = {} PROVE MatchAt(c)
    <3>1. cached[c] = Empty /\ server[c] = {}
      BY <1>0, <2>6 DEF BornEmpty
    <3>2. Handles(c) = {}
      BY <3>1 DEF Handles, Present, Empty
    <3>3. OnItsWay(c) = {}
      BY <1>0, <2>6 DEF OnItsWay, OneUser, TypeOK
    <3> QED
      BY <3>1, <3>2, <3>3
  <2> QED
    <3> SUFFICES ASSUME NEW c \in Conns, c \in live' \ lost' PROVE MatchAt(c)'
      BY <1>00 DEF Matching
    <3>1. MatchAt(c)
      BY <1>0, <2>5, <2>6 DEF Matching
    <3> QED
      BY <2>1, <2>4, <3>1
<1>3. ASSUME NEW t \in Threads,
             Lookup(t) \/ Prepare(t) \/ PrepareThrows(t) \/ Put(t) \/ Exec(t)
      PROVE  Matching'
  <2>0. /\ lease[t] \in live /\ lease[t] \in Conns
        /\ UNCHANGED <<live, lease, lost, sql>>
        /\ \A d \in Conns \ {lease[t]} : cached'[d] = cached[d] /\ server'[d] = server[d]
        /\ \A u \in Threads \ {t} : at'[u] = at[u] /\ stmt'[u] = stmt[u]
    BY <1>3, OwnConnectionOnly
  <2>c. PICK c \in Conns : c = lease[t] /\ c # None
    BY <2>0
  <2>1. \A d \in Conns \ {c} :
          server'[d] = server[d] /\ Handles(d)' = Handles(d) /\ OnItsWay(d)' = OnItsWay(d)
    BY <2>0, <2>c DEF Handles, Present, OnItsWay
  <2>2. \A u \in Threads : lease[u] = c => u = t
    BY <1>0, <2>c DEF OneUser
  <2>3. OnItsWay(c) = IF at[t] = "put" THEN {<<stmt[t], sql[t]>>} ELSE {}
    BY <2>2, <2>c DEF OnItsWay
  <2>4. OnItsWay(c)' = IF at'[t] = "put" THEN {<<stmt'[t], sql[t]>>} ELSE {}
    BY <2>0, <2>2, <2>c DEF OnItsWay
  <2>5. sql[t] \in Sqls
    BY <1>0, <1>3 DEF CallKnows, Lookup, Prepare, PrepareThrows, Put, Exec
  <2>6. ASSUME c \notin lost => MatchAt(c)' PROVE Matching'
    <3> SUFFICES ASSUME NEW d \in Conns, d \in live' \ lost' PROVE MatchAt(d)'
      BY <1>00 DEF Matching
    <3>1. MatchAt(d)
      BY <1>0, <2>0 DEF Matching
    <3>2. CASE d = c
      BY <2>0, <2>6, <3>2
    <3>3. CASE d # c
      BY <2>1, <3>1, <3>3
    <3> QED
      BY <3>2, <3>3
  <2>7. c \notin lost => server[c] = Handles(c) \cup OnItsWay(c)
    BY <1>0, <2>0, <2>c DEF Matching
  <2>8. CASE Lookup(t)
    <3>1. PICK gone \in SUBSET Present(c) :
            cached' = [cached EXCEPT ![c] = Without(c, gone)] /\ Closing(c, gone)
      BY <2>8, <2>c DEF Lookup
    <3>2. /\ \A s \in Sqls : cached'[c][s] = IF s \in gone THEN None ELSE cached[c][s]
          /\ Present(c)' = Present(c) \ gone
      BY <1>0, <3>1, Evicted
    <3>3. server'[c] = server[c] \ {<<cached[c][s], s>> : s \in gone}
      BY <1>0, <3>1, Closed DEF Present
    <3>4. Handles(c)' = Handles(c) \ {<<cached[c][s], s>> : s \in gone}
      <4>1. Handles(c)' = {<<cached'[c][s], s>> : s \in Present(c)'}
        BY DEF Handles
      <4>2. Handles(c)' = {<<cached[c][s], s>> : s \in Present(c) \ gone}
        BY <3>2, <4>1 DEF Present
      <4> QED
        BY <4>2 DEF Handles
    <3>5. at[t] = "lookup" /\ at'[t] # "put"
      BY <1>0, <2>8 DEF Lookup, Goto, TypeOK
    <3> QED
      BY <2>3, <2>4, <2>6, <2>7, <3>3, <3>4, <3>5
  <2>9. CASE Prepare(t)
    <3>1. /\ at[t] = "prepare" /\ at'[t] = "put" /\ stmt'[t] = counter' /\ cached' = cached
          /\ server'[c] = server[c] \cup {<<counter', sql[t]>>}
      BY <1>0, <2>9, <2>c DEF Prepare, Goto, TypeOK
    <3>2. Handles(c)' = Handles(c)
      BY <3>1 DEF Handles, Present
    <3> QED
      BY <2>3, <2>4, <2>6, <2>7, <3>1, <3>2
  <2>10. CASE PrepareThrows(t) \/ Exec(t)
    <3>1. /\ at[t] # "put" /\ at'[t] # "put" /\ UNCHANGED <<cached, server>>
      BY <1>0, <2>10 DEF PrepareThrows, Exec, Goto, TypeOK
    <3>2. Handles(c)' = Handles(c)
      BY <3>1 DEF Handles, Present
    <3> QED
      BY <2>3, <2>4, <2>6, <2>7, <3>1, <3>2
  <2>11. CASE Put(t)
    <3>1. at[t] = "put" /\ at'[t] = "exec" /\ stmt' = stmt
      BY <1>0, <2>11 DEF Put, Goto, TypeOK
    <3>2. PICK s \in Sqls, name \in Stmts : s = sql[t] /\ name = stmt[t]
      BY <1>0, <2>5, <3>1 DEF CallKnows, TypeOK
    <3>3. PICK gone \in SUBSET (Present(c) \ {s}) :
            /\ cached' = [cached EXCEPT ![c] = [Without(c, gone) EXCEPT ![s] = name]]
            /\ Closing(c, gone)
      BY <2>11, <2>c, <3>2 DEF Put
    <3>4. server'[c] = server[c] \ {<<cached[c][r], r>> : r \in gone}
      BY <1>0, <3>3, Closed DEF Present
    <3>5. Handles(c)' = (Handles(c) \ {<<cached[c][r], r>> : r \in gone}) \cup {<<name, s>>}
      <4>1. \A r \in Sqls : cached'[c][r] =
              IF r = s THEN name ELSE IF r \in gone THEN None ELSE cached[c][r]
        <5>1. \A r \in Sqls : Without(c, gone)[r] = IF r \in gone THEN None ELSE cached[c][r]
          BY DEF Without
        <5>2. \A r \in Sqls : cached'[c][r] = IF r = s THEN name ELSE Without(c, gone)[r]
          BY <1>0, <3>3 DEF TypeOK, Without
        <5> QED
          BY <5>1, <5>2
      <4>2. name # None /\ s \notin Present(c)
        BY <1>0, <2>c, <3>1, <3>2 DEF CallKnows, Present
      <4>3. Present(c)' = (Present(c) \ gone) \cup {s}
        BY <4>1, <4>2 DEF Present
      <4>4. Handles(c)' = {<<cached'[c][r], r>> : r \in (Present(c) \ gone) \cup {s}}
        BY <4>3 DEF Handles
      <4>5. \A r \in Present(c) \ gone : cached'[c][r] = cached[c][r]
        BY <4>1, <4>2 DEF Present
      <4>6. cached'[c][s] = name
        BY <4>1
      <4> QED
        BY <4>4, <4>5, <4>6 DEF Handles
    <3>6. <<name, s>> \notin {<<cached[c][r], r>> : r \in gone}
      BY <3>3
    <3> QED
      BY <2>3, <2>4, <2>6, <2>7, <3>1, <3>2, <3>4, <3>5, <3>6
  <2> QED
    BY <1>3, <2>8, <2>9, <2>10, <2>11
<1>4. CASE Finish \/ DropCache \/ \E c \in Conns : SessionLost(c)
  <2>1. UNCHANGED <<lease, at, sql, stmt>> /\ live' \subseteq live /\ lost \subseteq lost'
    BY <1>4 DEF Finish, DropCache, SessionLost, pool, Pool!Close
  <2>2. \A c \in Conns : c \in live' \ lost' => cached'[c] = cached[c] /\ server'[c] = server[c]
    BY <1>0, <1>4 DEF Finish, DropCache, SessionLost, BornEmpty, TypeOK, pool, Pool!Close
  <2> SUFFICES ASSUME NEW c \in Conns, c \in live' \ lost' PROVE MatchAt(c)'
    BY <1>00 DEF Matching
  <2>3. MatchAt(c)
    BY <1>0, <2>1 DEF Matching
  <2>4. Handles(c)' = Handles(c) /\ OnItsWay(c)' = OnItsWay(c)
    BY <2>1, <2>2 DEF Handles, Present, OnItsWay
  <2> QED
    BY <2>2, <2>3, <2>4
<1> QED
  BY <1>1, <1>2, <1>3, <1>4 DEF Next, Running

-----------------------------------------------------------------------------
(* The inductive invariant holds of every behaviour of the driver. *)
THEOREM DriverInvariant == Spec => []DriverInv
<1>1. Init => DriverInv
  BY InitInv
<1>2. DriverInv /\ [Next]_vars => DriverInv'
  BY TypeStep, EnoughStep, ShareStep, KnowledgeStep, MatchStep DEF DriverInv
<1> QED
  BY <1>1, <1>2, PTL DEF Spec

(* sqldrvpg.cpp, query() and execute(): every variable keeps its type, no  *)
(* cache holds more than its capacity, and a call has a connection exactly *)
(* while its PgPoolRaii lives.                                             *)
THEOREM DriverTypeCorrect == Spec => []TypeOK
<1>1. DriverInv => TypeOK
  BY DEF DriverInv
<1> QED
  BY <1>1, DriverInvariant, PTL

(* PgPrepStmt and PgConn::cache: the server's session has prepared exactly *)
(* what the cache of the connection holds or is about to, under names that *)
(* are all different.                                                      *)
THEOREM ServerHoldsWhatIsCached == Spec => []ServerMatchesCache
<1>1. ASSUME DriverInv PROVE ServerMatchesCache
  <2> SUFFICES ASSUME NEW c \in live \ lost
               PROVE  /\ server[c] = Handles(c) \cup OnItsWay(c)
                      /\ \A p, q \in server[c] : p[1] = q[1] => p = q
    BY DEF ServerMatchesCache, OnItsWay
  <2>1. c \in Conns /\ server[c] = Handles(c) \cup OnItsWay(c)
    BY <1>1 DEF DriverInv, Matching, TypeOK
  <2>2. \A p \in Handles(c) : \E s \in Sqls : p = <<cached[c][s], s>> /\ cached[c][s] # None
    BY DEF Handles, Present
  <2>3. \A p \in OnItsWay(c) : \E t \in Threads :
          p = <<stmt[t], sql[t]>> /\ lease[t] = c /\ at[t] = "put"
    BY DEF OnItsWay
  <2>4. \A p, q \in Handles(c) : p[1] = q[1] => p = q
    BY <1>1, <2>1, <2>2 DEF DriverInv, NamesDrawn
  <2>5. \A p \in Handles(c), q \in OnItsWay(c) : p[1] # q[1]
    BY <1>1, <2>2, <2>3 DEF DriverInv, NamesDrawn
  <2>6. \A p, q \in OnItsWay(c) : p = q
    <3>1. c # None
      BY <2>1, DriverAssumption
    <3> QED
      BY <1>1, <2>3, <3>1 DEF DriverInv, OneUser
  <2> QED
    BY <2>1, <2>4, <2>5, <2>6
<1> QED
  BY <1>1, DriverInvariant, PTL

(* PgDrv::query(): what is executed was prepared in this session for the   *)
(* text of this call, whatever the other threads and the cache did between *)
(* the look-up and the execution.                                          *)
THEOREM QueryExecutesItsText == Spec => []ExecutesPreparedText
<1>1. ASSUME DriverInv PROVE ExecutesPreparedText
  <2> SUFFICES ASSUME NEW t \in Threads,
                      at[t] = "exec", stmt[t] # None, lease[t] \notin lost
               PROVE  <<stmt[t], sql[t]>> \in server[lease[t]]
    BY DEF ExecutesPreparedText
  <2>1. lease[t] \in live \ lost /\ lease[t] \in Conns /\ sql[t] \in Sqls
    BY <1>1, HasConnection
  <2>2. cached[lease[t]][sql[t]] = stmt[t]
    BY <1>1 DEF DriverInv, CallKnows
  <2>3. <<stmt[t], sql[t]>> \in Handles(lease[t])
    BY <2>1, <2>2 DEF Handles, Present
  <2> QED
    BY <1>1, <2>1, <2>3 DEF DriverInv, Matching
<1> QED
  BY <1>1, DriverInvariant, PTL

=============================================================================
