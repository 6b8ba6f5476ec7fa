-------------------------- MODULE QueryModelProofs --------------------------
(***************************************************************************)
(* For every number of threads and any set of full names: a null pointer   *)
(* stands in the maps of a query model only while exactly one thread is    *)
(* about to replace it, and is used only if another thread is; the tables  *)
(* have aliases of their own, in the order of their paths.  So a statement *)
(* declares the aliases it names, and its parameters get their own values. *)
(***************************************************************************)
EXTENDS Statements, SeqLemmas, SequenceTheorems, FiniteSetTheorems, TLAPS

-----------------------------------------------------------------------------
(* The inductive invariant.  Who inserted a null pointer is the one that   *)
(* replaces it: no other thread gets past it, so that each null pointer    *)
(* belongs to one thread, and each thread on its way to one of its own.    *)
Labels == {"idle", "walk", "make", "use", "new"}
Resolving(t) == call[t].pc \in {"walk", "make"}
Making(t) == call[t].pc = "make"

Typed ==
    /\ call \in [Threads -> [name: Names \cup {<<>>}, at: Tables \cup {<<>>}, pc: Labels]]
    /\ DOMAIN rfields = Threads
    /\ \A t \in Threads : call[t].pc # "idle" => call[t].name \in Names

OnItsWay ==
    \A t \in Threads :
        /\ Resolving(t) => /\ Len(call[t].at) < Len(call[t].name)
                           /\ qfields[call[t].name] = Null
        /\ Making(t) => /\ Len(call[t].at) + 1 < Len(call[t].name)
                        /\ qtables[Child(t)] = Null

OneEach ==
    \A t, u \in Threads :
        /\ Resolving(t) /\ Resolving(u) /\ call[t].name = call[u].name => t = u
        /\ Making(t) /\ Making(u) /\ Child(t) = Child(u) => t = u

NoneForgotten ==
    /\ \A n \in Names : qfields[n] = Null =>
         \E t \in Threads : Resolving(t) /\ call[t].name = n
    /\ \A p \in Tables : qtables[p] = Null =>
         \E t \in Threads : Making(t) /\ Child(t) = p

(* The threads that make a model of r; they found none when they started.  *)
Newcomers(r) ==
    {t \in Threads : call[t].pc = "new" /\ RefTable[call[t].name] = r}

ModelsCounted ==
    /\ \A t \in Threads : call[t].pc = "new" => RefTable[call[t].name] \in Targets
    /\ \A r \in Targets :
         /\ qmodels[r] = Absent => made[r] = 0
         /\ made[r] + Cardinality(Newcomers(r)) <= Cardinality(Threads)

QueryInv ==
    TypeOK /\ Typed /\ OnItsWay /\ OneEach /\ NoneForgotten /\ ModelsCounted

-----------------------------------------------------------------------------
(* The names and the paths of the tables on the way to them. *)
LEMMA NameLength ==
    ASSUME NEW n \in Names
    PROVE  /\ n \in Seq(ToSet(n)) /\ Len(n) \in Nat /\ Len(n) > 0
           /\ SubSeq(n, 1, Len(n)) = n
<1>1. n \in Seq(ToSet(n)) /\ n # <<>>
  BY QueryModelAssumption
<1>2. Len(n) \in Nat /\ Len(n) > 0
  BY <1>1, LenProperties, EmptySeq
<1> QED
  BY <1>1, <1>2

LEMMA TablePath ==
    ASSUME NEW n \in Names, NEW k \in Nat, k > 0, k < Len(n)
    PROVE  SubSeq(n, 1, k) \in Tables /\ Len(SubSeq(n, 1, k)) = k
<1>1. n \in Seq(ToSet(n)) /\ Len(n) \in Nat
  BY NameLength
<1>2. k \in 1..(Len(n) - 1)
  BY <1>1
<1>3. SubSeq(n, 1, k) \in Tables
  BY <1>2 DEF Tables
<1>4. Len(SubSeq(n, 1, k)) = k
  BY <1>1, <1>2
<1> QED
  BY <1>3, <1>4

LEMMA PathLength ==
    ASSUME NEW p \in Tables \cup {<<>>}
    PROVE  Len(p) \in Nat
<1>1. CASE p \in Tables
  <2>1. PICK n \in Names : \E k \in 1..(Len(n) - 1) : p = SubSeq(n, 1, k)
    BY <1>1 DEF Tables
  <2>2. PICK k \in 1..(Len(n) - 1) : p = SubSeq(n, 1, k)
    BY <2>1
  <2>3. Len(n) \in Nat
    BY NameLength
  <2> QED
    BY <2>2, <2>3, TablePath
<1>2. CASE p = <<>>
  BY <1>2
<1> QED
  BY <1>1, <1>2

(* The next table of a thread that has not arrived at its field. *)
LEMMA ChildOnTheWay ==
    ASSUME Typed, NEW t \in Threads, call[t].pc # "idle",
           Len(call[t].at) < Len(call[t].name), Child(t) # call[t].name
    PROVE  /\ Len(call[t].at) + 1 < Len(call[t].name)
           /\ Child(t) \in Tables /\ Len(Child(t)) = Len(call[t].at) + 1
<1>1. call[t].name \in Names /\ call[t].at \in Tables \cup {<<>>}
  BY DEF Typed
<1>2. Len(call[t].name) \in Nat /\ Len(call[t].at) \in Nat
  BY <1>1, NameLength, PathLength
<1>3. Len(call[t].at) + 1 # Len(call[t].name)
  BY <1>1, NameLength DEF Child
<1>4. Len(call[t].at) + 1 < Len(call[t].name)
  BY <1>2, <1>3
<1> QED
  BY <1>1, <1>2, <1>4, TablePath DEF Child

LEMMA InitInv == Init => QueryInv
<1> SUFFICES ASSUME Init PROVE QueryInv
  OBVIOUS
<1> USE QueryModelAssumption DEF Init, Idle
<1>1. Cardinality(Threads) \in Nat
  BY FS_CardinalityType
<1>2. TypeOK
  <2>1. /\ qfields \in [Names -> {Absent, Null, "made"}]
        /\ qtables \in [Tables -> {Absent, Null} \cup (FirstAlias..MaxAlias)]
        /\ crashed \in BOOLEAN
    OBVIOUS
  <2>4. num \in FirstAlias..MaxAlias
    OBVIOUS
  <2>2. /\ qmodels \in [Targets -> {Absent} \cup (1..Cardinality(Threads))]
        /\ made \in [Targets -> 0..Cardinality(Threads)]
    BY <1>1
  <2>3. \A t \in Threads : DOMAIN rfields[t] \subseteq Names /\ call[t].pc = "idle"
    <3>1. DOMAIN <<>> = {}
      OBVIOUS
    <3> QED
      BY <3>1
  <2> QED
    BY <2>1, <2>2, <2>3 DEF TypeOK
<1>3. Typed
  BY DEF Typed, Labels
<1>4. OnItsWay /\ OneEach /\ NoneForgotten
  BY DEF OnItsWay, OneEach, NoneForgotten, Resolving, Making
<1>5. ModelsCounted
  <2>1. \A r \in Targets : Newcomers(r) = {}
    BY DEF Newcomers
  <2>2. \A r \in Targets : Cardinality(Newcomers(r)) = 0
    BY <2>1, FS_EmptySet
  <2> QED
    BY <1>1, <2>2 DEF ModelsCounted
<1> QED
  BY <1>2, <1>3, <1>4, <1>5 DEF QueryInv

-----------------------------------------------------------------------------
(* The threads that make a model are some of them all. *)
LEMMA NewcomersFinite ==
    ASSUME NEW r
    PROVE  /\ IsFiniteSet(Newcomers(r)) /\ Cardinality(Newcomers(r)) \in Nat
           /\ Cardinality(Newcomers(r)) <= Cardinality(Threads)
           /\ Cardinality(Threads) \in Nat
<1>1. Newcomers(r) \subseteq Threads
  BY DEF Newcomers
<1> QED
  BY <1>1, FS_Subset, FS_CardinalityType, QueryModelAssumption

(* A model that is made is one of at most as many as there are threads. *)
LEMMA RoomForModel ==
    ASSUME TypeOK, ModelsCounted, NEW t \in Threads, call[t].pc = "new",
           NEW r, r = RefTable[call[t].name]
    PROVE  r \in Targets /\ made[r] \in Nat /\ made[r] + 1 \in 1..Cardinality(Threads)
<1>1. r \in Targets /\ t \in Newcomers(r)
  BY DEF ModelsCounted, Newcomers
<1>2. Cardinality(Newcomers(r)) # 0
  BY <1>1, NewcomersFinite, FS_EmptySet
<1>3. Cardinality(Newcomers(r)) >= 1 /\ Cardinality(Newcomers(r)) \in Nat
  BY <1>2, NewcomersFinite
<1>4. made[r] \in Nat /\ Cardinality(Threads) \in Nat
  BY <1>1, NewcomersFinite DEF TypeOK
<1>5. made[r] + Cardinality(Newcomers(r)) <= Cardinality(Threads)
  BY <1>1 DEF ModelsCounted
<1> QED
  BY <1>1, <1>3, <1>4, <1>5

(* AddRField keeps the types of the two variables that it changes. *)
LEMMA AddRFieldTypes ==
    ASSUME Typed, \A u \in Threads : DOMAIN rfields[u] \subseteq Names,
           NEW t \in Threads, call[t].pc # "idle", NEW model, AddRField(t, model)
    PROVE  /\ DOMAIN rfields' = Threads
           /\ \A u \in Threads : DOMAIN rfields'[u] \subseteq Names
           /\ call' = [call EXCEPT ![t] = Idle]
<1>1. call[t].name \in Names
  BY DEF Typed
<1>2. /\ \A u \in Threads \ {t} : rfields'[u] = rfields[u]
      /\ DOMAIN rfields'[t] = DOMAIN rfields[t] \cup {call[t].name}
      /\ DOMAIN rfields' = Threads
  BY DEF AddRField, Typed
<1> QED
  BY <1>1, <1>2 DEF AddRField

LEMMA TypeStep == QueryInv /\ [Next]_vars => TypeOK' /\ Typed'
<1> SUFFICES ASSUME QueryInv, [Next]_vars PROVE TypeOK' /\ Typed'
  OBVIOUS
<1> USE QueryModelAssumption
<1> USE DEF QueryInv, Labels, At, Goto, Crash
<1>1. CASE UNCHANGED vars
  BY <1>1 DEF vars, TypeOK, Typed
<1>2. CASE OtherAlias
  BY <1>2 DEF OtherAlias, TypeOK, Typed
<1>3. ASSUME NEW t \in Threads, NEW n \in Names, GetRField(t, n)
      PROVE  TypeOK' /\ Typed'
  <2>0. \/ call' = call
        \/ call' = [call EXCEPT ![t] = [name |-> n, at |-> <<>>, pc |-> "walk"]]
        \/ call' = [call EXCEPT ![t] = [name |-> n, at |-> <<>>, pc |-> "use"]]
    BY <1>3 DEF GetRField
  <2>1. call' \in [Threads -> [name: Names \cup {<<>>}, at: Tables \cup {<<>>}, pc: Labels]]
    BY <2>0 DEF Typed
  <2>2. \A u \in Threads : call'[u].pc # "idle" => call'[u].name \in Names
    BY <2>0 DEF Typed
  <2>3. qfields' \in [Names -> {Absent, Null, "made"}] /\ crashed' \in BOOLEAN
    BY <1>3 DEF GetRField, TypeOK
  <2> QED
    BY <1>3, <2>1, <2>2, <2>3 DEF GetRField, TypeOK, Typed
<1>4. ASSUME NEW t \in Threads, Walk(t) PROVE TypeOK' /\ Typed'
  <2>1. Child(t) \in Tables
    BY <1>4, ChildOnTheWay DEF Walk, OnItsWay, Resolving
  <2>0. \/ call' = call
        \/ call' = [call EXCEPT ![t].pc = "make"]
        \/ call' = [call EXCEPT ![t].at = Child(t)]
    BY <1>4 DEF Walk
  <2>2. call' \in [Threads -> [name: Names \cup {<<>>}, at: Tables \cup {<<>>}, pc: Labels]]
    BY <2>0, <2>1 DEF Typed
  <2>4. call[t].name \in Names
    BY <1>4 DEF Walk, Typed
  <2>5. \A u \in Threads : call'[u].pc # "idle" => call'[u].name \in Names
    BY <2>0, <2>4 DEF Typed
  <2>3. /\ qtables' \in [Tables -> {Absent, Null} \cup (FirstAlias..MaxAlias)]
        /\ crashed' \in BOOLEAN
    BY <1>4 DEF Walk, TypeOK
  <2> QED
    BY <1>4, <2>2, <2>3, <2>5 DEF Walk, TypeOK, Typed
<1>5. ASSUME NEW t \in Threads, MakeTable(t) PROVE TypeOK' /\ Typed'
  <2>1. Child(t) \in Tables
    <3>1. call[t].name \in Names /\ call[t].at \in Tables \cup {<<>>}
      BY <1>5 DEF MakeTable, Typed
    <3>2. Len(call[t].at) \in Nat /\ Len(call[t].at) + 1 < Len(call[t].name)
      BY <1>5, <3>1, PathLength DEF MakeTable, OnItsWay, Making
    <3> QED
      BY <3>1, <3>2, TablePath DEF Child
  <2>2. /\ call' \in [Threads -> [name: Names \cup {<<>>}, at: Tables \cup {<<>>}, pc: Labels]]
        /\ \A u \in Threads : call'[u].pc # "idle" => call'[u].name \in Names
    BY <1>5, <2>1 DEF MakeTable, Typed
  <2>3. num \in FirstAlias..MaxAlias /\ num' \in FirstAlias..MaxAlias
    BY <1>5 DEF MakeTable, TypeOK
  <2>4. qtables' \in [Tables -> {Absent, Null} \cup (FirstAlias..MaxAlias)]
    BY <1>5, <2>3 DEF MakeTable, TypeOK
  <2> QED
    BY <1>5, <2>2, <2>3, <2>4 DEF MakeTable, TypeOK, Typed
<1>6. ASSUME NEW t \in Threads, MakeField(t) PROVE TypeOK' /\ Typed'
  <2>1. /\ call' \in [Threads -> [name: Names \cup {<<>>}, at: Tables \cup {<<>>}, pc: Labels]]
        /\ \A u \in Threads : call'[u].pc # "idle" => call'[u].name \in Names
    BY <1>6 DEF MakeField, Typed
  <2> QED
    BY <1>6, <2>1 DEF MakeField, TypeOK, Typed
<1>7. ASSUME NEW t \in Threads, UseField(t) PROVE TypeOK' /\ Typed'
  <2>1. CASE \E model : AddRField(t, model)
    <3>1. /\ DOMAIN rfields' = Threads
          /\ \A u \in Threads : DOMAIN rfields'[u] \subseteq Names
          /\ call' = [call EXCEPT ![t] = Idle]
      BY <1>7, <2>1, AddRFieldTypes DEF UseField, TypeOK
    <3>2. /\ call' \in [Threads -> [name: Names \cup {<<>>}, at: Tables \cup {<<>>}, pc: Labels]]
          /\ \A u \in Threads : call'[u].pc # "idle" => call'[u].name \in Names
      BY <3>1 DEF Typed, Idle
    <3> QED
      BY <1>7, <3>1, <3>2 DEF UseField, TypeOK, Typed
  <2>2. CASE Goto(t, "new") /\ UNCHANGED rfields
    <3>1. /\ call' \in [Threads -> [name: Names \cup {<<>>}, at: Tables \cup {<<>>}, pc: Labels]]
          /\ \A u \in Threads : call'[u].pc # "idle" => call'[u].name \in Names
      BY <1>7, <2>2 DEF UseField, Typed
    <3> QED
      BY <1>7, <2>2, <3>1 DEF UseField, TypeOK, Typed
  <2> QED
    BY <1>7, <2>1, <2>2 DEF UseField
<1>8. ASSUME NEW t \in Threads, MakeModel(t) PROVE TypeOK' /\ Typed'
  <2> DEFINE r == RefTable[call[t].name]
  <2>1. r \in Targets /\ made[r] \in Nat /\ made[r] + 1 \in 1..Cardinality(Threads)
    BY <1>8, RoomForModel DEF MakeModel
  <2>2. made' = [made EXCEPT ![r] = made[r] + 1] /\ made'[r] = made[r] + 1
    BY <1>8, <2>1 DEF MakeModel, TypeOK
  <2>3. qmodels' = [qmodels EXCEPT ![r] = IF qmodels[r] = Absent THEN made[r] + 1 ELSE qmodels[r]]
    BY <1>8, <2>2 DEF MakeModel
  <2>4. /\ DOMAIN rfields' = Threads
        /\ \A u \in Threads : DOMAIN rfields'[u] \subseteq Names
        /\ call' = [call EXCEPT ![t] = Idle]
    BY <1>8, AddRFieldTypes DEF MakeModel, TypeOK
  <2>5. /\ call' \in [Threads -> [name: Names \cup {<<>>}, at: Tables \cup {<<>>}, pc: Labels]]
        /\ \A u \in Threads : call'[u].pc # "idle" => call'[u].name \in Names
    BY <2>4 DEF Typed, Idle
  <2>6. /\ made' \in [Targets -> 0..Cardinality(Threads)]
        /\ qmodels' \in [Targets -> {Absent} \cup (1..Cardinality(Threads))]
    BY <2>1, <2>2, <2>3 DEF TypeOK
  <2> QED
    BY <1>8, <2>4, <2>5, <2>6 DEF MakeModel, TypeOK, Typed
<1> QED
  BY <1>1, <1>2, <1>3, <1>4, <1>5, <1>6, <1>7, <1>8 DEF Next

-----------------------------------------------------------------------------
(* A step that leaves the pointers alone, of a thread that resolves nothing *)
(* before and after it.                                                    *)
LEMMA StepAside ==
    ASSUME QueryInv, UNCHANGED <<qfields, qtables>>, NEW t \in Threads,
           \A u \in Threads \ {t} : call'[u] = call[u],
           call'[t] = call[t] \/ (~Resolving(t) /\ ~Resolving(t)')
    PROVE  OnItsWay' /\ OneEach' /\ NoneForgotten'
<1>1. \A u \in Threads : Resolving(u) \/ Resolving(u)' => call'[u] = call[u]
  BY DEF Resolving
<1>2. \A u \in Threads : Making(u) \/ Making(u)' => call'[u] = call[u] /\ Child(u)' = Child(u)
  BY <1>1 DEF Resolving, Making, Child
<1> QED
  <2>1. OnItsWay'
    BY <1>1, <1>2 DEF QueryInv, OnItsWay, Resolving, Making
  <2>2. OneEach'
    BY <1>1, <1>2 DEF QueryInv, OneEach, Resolving, Making
  <2>3. NoneForgotten'
    BY <1>1, <1>2 DEF QueryInv, NoneForgotten, Resolving, Making
  <2> QED
    BY <2>1, <2>2, <2>3

LEMMA FillStep == QueryInv /\ [Next]_vars => OnItsWay' /\ OneEach' /\ NoneForgotten'
<1> DEFINE Goal == OnItsWay' /\ OneEach' /\ NoneForgotten'
<1> SUFFICES ASSUME QueryInv, [Next]_vars PROVE Goal
  OBVIOUS
<1> USE QueryModelAssumption
<1> USE DEF At, Goto, Crash
<1>1. CASE UNCHANGED vars \/ OtherAlias
  <2>1. UNCHANGED <<qfields, qtables, call>>
    BY <1>1 DEF vars, OtherAlias
  <2> QED
    BY <2>1 DEF QueryInv, OnItsWay, OneEach, NoneForgotten, Resolving, Making, Child
<1>2. ASSUME NEW t \in Threads, NEW n \in Names, GetRField(t, n) PROVE Goal
  <2>1. CASE qfields[n] # Absent
    BY <1>2, <2>1, StepAside DEF GetRField, Resolving, QueryInv, Typed
  <2>2. CASE qfields[n] = Absent
    <3> DEFINE new == [name |-> n, at |-> <<>>, pc |-> "walk"]
    <3>1. /\ qfields' = [qfields EXCEPT ![n] = Null]
          /\ call' = [call EXCEPT ![t] = new]
          /\ UNCHANGED qtables /\ call[t].pc = "idle"
      BY <1>2, <2>2 DEF GetRField
    <3>2. /\ call'[t] = new /\ \A u \in Threads \ {t} : call'[u] = call[u]
          /\ qfields'[n] = Null /\ \A m \in Names \ {n} : qfields'[m] = qfields[m]
      BY <3>1 DEF QueryInv, Typed, TypeOK
    <3>3. \A u \in Threads : Making(u) \/ Making(u)' =>
            u # t /\ call'[u] = call[u] /\ Child(u)' = Child(u)
      BY <3>1, <3>2 DEF Making, Child
    <3>4. \A u \in Threads : Resolving(u) => u # t /\ call[u].name \in Names \ {n}
      BY <2>2, <3>1 DEF QueryInv, Typed, OnItsWay, Resolving
    <3>5. OnItsWay'
      <4>1. Len(<<>>) < Len(n)
        BY NameLength
      <4>2. \A u \in Threads : Resolving(u)' =>
              /\ Len(call'[u].at) < Len(call'[u].name)
              /\ qfields'[call'[u].name] = Null
        BY <3>2, <3>4, <4>1 DEF QueryInv, OnItsWay, Resolving
      <4>3. \A u \in Threads : Making(u)' =>
              /\ Len(call'[u].at) + 1 < Len(call'[u].name)
              /\ qtables'[Child(u)'] = Null
        BY <3>1, <3>3 DEF QueryInv, OnItsWay, Making
      <4> QED
        BY <4>2, <4>3 DEF OnItsWay
    <3>6. OneEach'
      <4>1. \A u, w \in Threads : Resolving(u)' /\ Resolving(w)' /\ call'[u].name = call'[w].name
              => u = w
        BY <3>2, <3>4 DEF QueryInv, OneEach, Resolving
      <4>2. \A u, w \in Threads : Making(u)' /\ Making(w)' /\ Child(u)' = Child(w)' => u = w
        BY <3>3 DEF QueryInv, OneEach, Making
      <4> QED
        BY <4>1, <4>2 DEF OneEach
    <3>7. NoneForgotten'
      <4>1. \A m \in Names : qfields'[m] = Null =>
              \E u \in Threads : Resolving(u)' /\ call'[u].name = m
        BY <3>2, <3>4 DEF QueryInv, NoneForgotten, Resolving
      <4>2. \A p \in Tables : qtables'[p] = Null => \E u \in Threads : Making(u)' /\ Child(u)' = p
        BY <3>1, <3>2, <3>3 DEF QueryInv, NoneForgotten, Making
      <4> QED
        BY <4>1, <4>2 DEF NoneForgotten
    <3> QED
      BY <3>5, <3>6, <3>7
  <2> QED
    BY <2>1, <2>2
<1>3. ASSUME NEW t \in Threads, UseField(t) \/ MakeModel(t) PROVE Goal
  <2>1. UNCHANGED <<qfields, qtables>> /\ call[t].pc \in {"use", "new"}
    BY <1>3 DEF UseField, MakeModel
  <2>2. call' = [call EXCEPT ![t] = Idle] \/ call' = [call EXCEPT ![t].pc = "new"]
    BY <1>3 DEF UseField, MakeModel, AddRField
  <2>3. /\ \A u \in Threads \ {t} : call'[u] = call[u]
        /\ call'[t].pc \in {"idle", "new"}
    BY <2>2 DEF QueryInv, Typed, Idle
  <2> QED
    BY <2>1, <2>3, StepAside DEF Resolving
<1>4. ASSUME NEW t \in Threads, Walk(t) PROVE Goal
  <2>0. /\ UNCHANGED qfields /\ call[t].pc = "walk" /\ Resolving(t) /\ ~Making(t)
        /\ Len(call[t].at) + 1 < Len(call[t].name)
        /\ Child(t) \in Tables /\ Len(Child(t)) = Len(call[t].at) + 1
    BY <1>4, ChildOnTheWay DEF Walk, QueryInv, OnItsWay, Resolving, Making
  <2>1. CASE qtables[Child(t)] = Absent
    <3>1. /\ qtables' = [qtables EXCEPT ![Child(t)] = Null]
          /\ call' = [call EXCEPT ![t].pc = "make"]
      BY <1>4, <2>1 DEF Walk
    <3>2. /\ call'[t].pc = "make" /\ call'[t].name = call[t].name /\ call'[t].at = call[t].at
          /\ \A u \in Threads \ {t} : call'[u] = call[u]
      BY <3>1 DEF QueryInv, Typed
    <3>3. /\ qtables'[Child(t)] = Null
          /\ \A p \in Tables \ {Child(t)} : qtables'[p] = qtables[p]
      BY <2>0, <3>1 DEF QueryInv, TypeOK
    <3>4. \A u \in Threads : /\ Resolving(u)' <=> Resolving(u)
                             /\ call'[u].name = call[u].name /\ call'[u].at = call[u].at
                             /\ Child(u)' = Child(u)
                             /\ Making(u)' <=> Making(u) \/ u = t
      BY <2>0, <3>2 DEF Resolving, Making, Child
    <3>5. \A u \in Threads : Making(u) => u # t /\ Child(u) # Child(t) /\ qtables'[Child(u)] = Null
      BY <2>0, <2>1, <3>1 DEF QueryInv, OnItsWay, TypeOK
    <3>6. OnItsWay'
      BY <2>0, <3>3, <3>4, <3>5 DEF QueryInv, OnItsWay
    <3>7. OneEach'
      BY <3>4, <3>5 DEF QueryInv, OneEach
    <3>8. NoneForgotten'
      <4>1. \A m \in Names : qfields'[m] = Null =>
              \E u \in Threads : Resolving(u)' /\ call'[u].name = m
        BY <2>0, <3>4 DEF QueryInv, NoneForgotten
      <4>2. ASSUME NEW p \in Tables, qtables'[p] = Null
            PROVE  \E u \in Threads : Making(u)' /\ Child(u)' = p
        BY <3>3, <3>4, <4>2 DEF QueryInv, NoneForgotten
      <4> QED
        BY <4>1, <4>2 DEF NoneForgotten
    <3> QED
      BY <3>6, <3>7, <3>8
  <2>2. CASE qtables[Child(t)] = Null
    BY <1>4, <2>2, StepAside DEF Walk
  <2>3. CASE qtables[Child(t)] \notin {Absent, Null}
    <3>1. UNCHANGED qtables /\ call' = [call EXCEPT ![t].at = Child(t)]
      BY <1>4, <2>3 DEF Walk
    <3>2. /\ call'[t].pc = "walk" /\ call'[t].name = call[t].name /\ call'[t].at = Child(t)
          /\ \A u \in Threads \ {t} : call'[u] = call[u]
      BY <2>0, <3>1 DEF QueryInv, Typed
    <3>3. \A u \in Threads : /\ Resolving(u)' <=> Resolving(u)
                             /\ call'[u].name = call[u].name
                             /\ Making(u)' <=> Making(u)
                             /\ u # t => call'[u].at = call[u].at
                             /\ Making(u) => u # t /\ Child(u)' = Child(u)
      BY <2>0, <3>2 DEF Resolving, Making, Child
    <3>4. OnItsWay'
      BY <2>0, <3>1, <3>2, <3>3 DEF QueryInv, OnItsWay
    <3>5. OneEach'
      BY <3>3 DEF QueryInv, OneEach
    <3>6. NoneForgotten'
      BY <2>0, <3>1, <3>3 DEF QueryInv, NoneForgotten
    <3> QED
      BY <3>4, <3>5, <3>6
  <2> QED
    BY <2>1, <2>2, <2>3
<1>5. ASSUME NEW t \in Threads, MakeTable(t) PROVE Goal
  <2>1. /\ UNCHANGED qfields /\ call[t].pc = "make" /\ Resolving(t) /\ Making(t)
        /\ qtables' = [qtables EXCEPT ![Child(t)] = num]
        /\ call' = [call EXCEPT ![t].at = Child(t), ![t].pc = "walk"]
    BY <1>5 DEF MakeTable, Resolving, Making
  <2>2. /\ Len(call[t].at) + 1 < Len(call[t].name)
        /\ Child(t) \in Tables /\ Len(Child(t)) = Len(call[t].at) + 1
    <3>1. call[t].name \in Names /\ call[t].at \in Tables \cup {<<>>}
      BY <2>1 DEF QueryInv, Typed
    <3>2. Len(call[t].at) \in Nat /\ Len(call[t].at) + 1 < Len(call[t].name)
      BY <2>1, <3>1, PathLength DEF QueryInv, OnItsWay
    <3> QED
      BY <3>1, <3>2, TablePath DEF Child
  <2>3. /\ call'[t].pc = "walk" /\ call'[t].name = call[t].name /\ call'[t].at = Child(t)
        /\ \A u \in Threads \ {t} : call'[u] = call[u]
    BY <2>1 DEF QueryInv, Typed
  <2>4. /\ qtables'[Child(t)] # Null
        /\ \A p \in Tables \ {Child(t)} : qtables'[p] = qtables[p]
    <3>1. num \in FirstAlias..MaxAlias
      BY DEF QueryInv, TypeOK
    <3>2. num # Null
      BY <3>1
    <3> QED
      BY <2>1, <2>2, <3>2 DEF QueryInv, TypeOK
  <2>5. \A u \in Threads : /\ Resolving(u)' <=> Resolving(u)
                           /\ call'[u].name = call[u].name
                           /\ Making(u)' <=> Making(u) /\ u # t
                           /\ u # t => call'[u].at = call[u].at /\ Child(u)' = Child(u)
    BY <2>1, <2>3 DEF Resolving, Making, Child
  <2>6. \A u \in Threads : Making(u)' => qtables'[Child(u)'] = Null
    BY <2>1, <2>4, <2>5 DEF QueryInv, OnItsWay, OneEach, TypeOK
  <2>7. OnItsWay'
    <3>1. \A u \in Threads : Resolving(u)' =>
            Len(call'[u].at) < Len(call'[u].name) /\ qfields'[call'[u].name] = Null
      <4>1. \A u \in Threads : Resolving(u) =>
              Len(call[u].at) < Len(call[u].name) /\ qfields[call[u].name] = Null
        BY DEF QueryInv, OnItsWay
      <4>2. Len(Child(t)) < Len(call[t].name) /\ qfields[call[t].name] = Null
        BY <2>1, <2>2, <4>1
      <4>3. qfields' = qfields
        BY <2>1
      <4> SUFFICES ASSUME NEW u \in Threads, Resolving(u)'
                   PROVE  Len(call'[u].at) < Len(call'[u].name) /\ qfields'[call'[u].name] = Null
        OBVIOUS
      <4>4. CASE u = t
        BY <2>3, <4>2, <4>3, <4>4
      <4>5. CASE u # t
        BY <2>3, <2>5, <4>1, <4>3, <4>5
      <4> QED
        BY <4>4, <4>5
    <3>2. \A u \in Threads : Making(u)' => Len(call'[u].at) + 1 < Len(call'[u].name)
      BY <2>5 DEF QueryInv, OnItsWay
    <3> QED
      BY <2>6, <3>1, <3>2 DEF OnItsWay
  <2>8. OneEach'
    BY <2>5 DEF QueryInv, OneEach
  <2>9. NoneForgotten'
    <3>1. ASSUME NEW m \in Names, qfields'[m] = Null
          PROVE  \E u \in Threads : Resolving(u)' /\ call'[u].name = m
      <4>1. PICK u \in Threads : Resolving(u) /\ call[u].name = m
        BY <2>1, <3>1 DEF QueryInv, NoneForgotten
      <4> QED
        BY <2>5, <4>1
    <3>2. \A p \in Tables : qtables'[p] = Null => \E u \in Threads : Making(u)' /\ Child(u)' = p
      BY <2>4, <2>5 DEF QueryInv, NoneForgotten
    <3> QED
      BY <3>1, <3>2 DEF NoneForgotten
  <2> QED
    BY <2>7, <2>8, <2>9
<1>6. ASSUME NEW t \in Threads, MakeField(t) PROVE Goal
  <2>1. /\ UNCHANGED qtables /\ call[t].pc = "walk" /\ Resolving(t) /\ ~Making(t)
        /\ qfields' = [qfields EXCEPT ![call[t].name] = "made"]
        /\ call' = [call EXCEPT ![t].pc = "use"]
    BY <1>6 DEF MakeField, Resolving, Making
  <2>2. call'[t].pc = "use" /\ \A u \in Threads \ {t} : call'[u] = call[u]
    BY <2>1 DEF QueryInv, Typed
  <2>3. \A u \in Threads : /\ Resolving(u)' <=> Resolving(u) /\ u # t
                           /\ Making(u)' <=> Making(u)
                           /\ Making(u) => u # t
                           /\ u # t => call'[u] = call[u] /\ Child(u)' = Child(u)
    BY <2>1, <2>2 DEF Resolving, Making, Child
  <2>4. /\ call[t].name \in Names /\ qfields'[call[t].name] # Null
        /\ \A m \in Names \ {call[t].name} : qfields'[m] = qfields[m]
    BY <2>1 DEF QueryInv, Typed, TypeOK
  <2>5. \A u \in Threads : Resolving(u)' =>
          call[u].name \in Names \ {call[t].name} /\ qfields'[call[u].name] = Null
    BY <2>1, <2>3, <2>4 DEF QueryInv, OnItsWay, OneEach, Typed, Resolving
  <2>6. OnItsWay'
    BY <2>1, <2>3, <2>5 DEF QueryInv, OnItsWay
  <2>7. OneEach'
    BY <2>3 DEF QueryInv, OneEach
  <2>8. NoneForgotten'
    BY <2>1, <2>3, <2>4 DEF QueryInv, NoneForgotten
  <2> QED
    BY <2>6, <2>7, <2>8
<1> QED
  BY <1>1, <1>2, <1>3, <1>4, <1>5, <1>6 DEF Next

-----------------------------------------------------------------------------
(* A thread finds no model before the first is stored, and then none again *)
(* but those that are being made: one for each thread at most.             *)
LEMMA CountStep == QueryInv /\ [Next]_vars => ModelsCounted'
<1> SUFFICES ASSUME QueryInv, [Next]_vars PROVE ModelsCounted'
  OBVIOUS
<1> USE QueryModelAssumption
<1> USE DEF At, Goto, Crash
<1>1. ASSUME UNCHANGED <<qmodels, made>>,
             \A u \in Threads : call'[u].pc = "new" =>
                call[u].pc = "new" /\ call'[u].name = call[u].name
      PROVE  ModelsCounted'
  <2>1. ASSUME NEW r \in Targets
        PROVE  Cardinality(Newcomers(r)') <= Cardinality(Newcomers(r))
    <3>1. Newcomers(r)' \in SUBSET Newcomers(r)
      BY <1>1 DEF Newcomers
    <3> QED
      BY <3>1, NewcomersFinite, FS_Subset
  <2>2. ASSUME NEW r \in Targets
        PROVE  /\ qmodels[r] = Absent => made[r] = 0
               /\ made[r] \in Nat /\ Cardinality(Newcomers(r)) \in Nat
               /\ made[r] + Cardinality(Newcomers(r)) <= Cardinality(Threads)
               /\ Cardinality(Threads) \in Nat
    BY NewcomersFinite DEF QueryInv, ModelsCounted, TypeOK
  <2>3. ASSUME NEW r \in Targets
        PROVE  made[r] + Cardinality(Newcomers(r)') <= Cardinality(Threads)
    <3>1. Newcomers(r)' \in SUBSET Newcomers(r)
      BY <1>1 DEF Newcomers
    <3>2. Cardinality(Newcomers(r)') \in Nat
      BY <3>1, NewcomersFinite, FS_Subset, FS_CardinalityType
    <3> QED
      BY <2>1, <2>2, <3>2
  <2> QED
    BY <1>1, <2>2, <2>3 DEF QueryInv, ModelsCounted
<1>2. CASE UNCHANGED vars \/ OtherAlias
  BY <1>1, <1>2 DEF vars, OtherAlias
<1>3. ASSUME NEW t \in Threads, NEW n \in Names, GetRField(t, n) PROVE ModelsCounted'
  <2>1. UNCHANGED <<qmodels, made>>
    BY <1>3 DEF GetRField
  <2>2. \/ call' = call
        \/ call' = [call EXCEPT ![t] = [name |-> n, at |-> <<>>, pc |-> "walk"]]
        \/ call' = [call EXCEPT ![t] = [name |-> n, at |-> <<>>, pc |-> "use"]]
    BY <1>3 DEF GetRField
  <2>3. \A u \in Threads : call'[u].pc = "new" => call'[u] = call[u]
    BY <2>2 DEF QueryInv, Typed
  <2> QED
    BY <1>1, <2>1, <2>3
<1>4. ASSUME NEW t \in Threads, Walk(t) \/ MakeTable(t) \/ MakeField(t) PROVE ModelsCounted'
  <2>1. UNCHANGED <<qmodels, made>>
    BY <1>4 DEF Walk, MakeTable, MakeField
  <2>2. call[t].pc \in {"walk", "make"}
    BY <1>4 DEF Walk, MakeTable, MakeField
  <2>3. \/ call' = call
        \/ call' = [call EXCEPT ![t].pc = "make"]
        \/ call' = [call EXCEPT ![t].at = Child(t)]
        \/ call' = [call EXCEPT ![t].at = Child(t), ![t].pc = "walk"]
        \/ call' = [call EXCEPT ![t].pc = "use"]
    BY <1>4 DEF Walk, MakeTable, MakeField
  <2>4. \A u \in Threads : call'[u].pc = "new" => call'[u] = call[u]
    BY <2>2, <2>3 DEF QueryInv, Typed
  <2> QED
    BY <1>1, <2>1, <2>4
<1>5. ASSUME NEW t \in Threads, UseField(t) PROVE ModelsCounted'
  <2> DEFINE r == RefTable[call[t].name]
  <2>0. UNCHANGED <<qmodels, made>> /\ call[t].pc = "use" /\ call[t].name \in Names
    BY <1>5 DEF UseField, QueryInv, Typed
  <2>1. CASE \E model : AddRField(t, model)
    <3>1. \A u \in Threads : call'[u].pc = "new" => call'[u] = call[u]
      BY <2>1 DEF AddRField, QueryInv, Typed, Idle
    <3> QED
      BY <1>1, <2>0, <3>1
  <2>2. CASE r # Plain /\ qmodels[r] = Absent /\ Goto(t, "new")
    <3>1. r \in Targets
      BY <2>0, <2>2 DEF Targets
    <3>2. /\ call'[t].pc = "new" /\ call'[t].name = call[t].name
          /\ \A u \in Threads \ {t} : call'[u] = call[u]
      BY <2>2 DEF QueryInv, Typed
    <3>3. \A u \in Threads : call'[u].pc = "new" => RefTable[call'[u].name] \in Targets
      BY <3>1, <3>2 DEF QueryInv, ModelsCounted
    <3>4. ASSUME NEW x \in Targets
          PROVE  made[x] + Cardinality(Newcomers(x)') <= Cardinality(Threads)
      <4>1. CASE x = r
        <5>1. made[x] = 0
          BY <2>2, <3>1, <4>1 DEF QueryInv, ModelsCounted
        <5>2. Newcomers(x)' \in SUBSET Threads
          BY DEF Newcomers
        <5>3. /\ Cardinality(Newcomers(x)') \in Nat
              /\ Cardinality(Newcomers(x)') <= Cardinality(Threads)
          BY <5>2, FS_Subset, FS_CardinalityType
        <5> QED
          BY <5>1, <5>3
      <4>2. CASE x # r
        <5>1. Newcomers(x)' = Newcomers(x)
          BY <2>0, <3>2, <4>2 DEF Newcomers
        <5> QED
          BY <5>1 DEF QueryInv, ModelsCounted
      <4> QED
        BY <4>1, <4>2
    <3> QED
      BY <2>0, <3>3, <3>4 DEF QueryInv, ModelsCounted
  <2> QED
    BY <1>5, <2>1, <2>2 DEF UseField
<1>6. ASSUME NEW t \in Threads, MakeModel(t) PROVE ModelsCounted'
  <2> DEFINE r == RefTable[call[t].name]
  <2>1. /\ r \in Targets /\ made[r] \in Nat /\ made[r] + 1 \in 1..Cardinality(Threads)
        /\ call[t].pc = "new"
    BY <1>6, RoomForModel DEF MakeModel, QueryInv
  <2>2. /\ made'[r] = made[r] + 1 /\ qmodels'[r] # Absent
        /\ \A x \in Targets \ {r} : made'[x] = made[x] /\ qmodels'[x] = qmodels[x]
    <3>1. made' = [made EXCEPT ![r] = made[r] + 1] /\ made'[r] = made[r] + 1
      BY <1>6, <2>1 DEF MakeModel, QueryInv, TypeOK
    <3>2. qmodels' = [qmodels EXCEPT ![r] =
                        IF qmodels[r] = Absent THEN made[r] + 1 ELSE qmodels[r]]
      BY <1>6, <3>1 DEF MakeModel
    <3>3. made[r] + 1 # Absent
      BY <2>1
    <3> QED
      BY <2>1, <3>1, <3>2, <3>3 DEF QueryInv, TypeOK
  <2>3. call'[t].pc = "idle" /\ \A u \in Threads \ {t} : call'[u] = call[u]
    BY <1>6 DEF MakeModel, AddRField, QueryInv, Typed, Idle
  <2>4. \A u \in Threads : call'[u].pc = "new" => RefTable[call'[u].name] \in Targets
    BY <2>3 DEF QueryInv, ModelsCounted
  <2>5. ASSUME NEW x \in Targets
        PROVE  made'[x] + Cardinality(Newcomers(x)') <= Cardinality(Threads)
    <3>0. /\ made[x] + Cardinality(Newcomers(x)) <= Cardinality(Threads)
          /\ IsFiniteSet(Newcomers(x)) /\ Cardinality(Newcomers(x)) \in Nat
          /\ Cardinality(Threads) \in Nat
      BY NewcomersFinite DEF QueryInv, ModelsCounted
    <3>1. CASE x = r
      <4>1. Newcomers(x)' = Newcomers(x) \ {t} /\ t \in Newcomers(x)
        BY <2>1, <2>3, <3>1 DEF Newcomers
      <4>2. Cardinality(Newcomers(x)') = Cardinality(Newcomers(x)) - 1
        <5> HIDE DEF r
        <5>1. IsFiniteSet(Newcomers(x)) /\ t \in Newcomers(x)
          BY <3>0, <4>1
        <5>2. Cardinality(Newcomers(x) \ {t}) = Cardinality(Newcomers(x)) - 1
          BY <5>1, FS_RemoveElement
        <5>3. Newcomers(x)' = Newcomers(x) \ {t}
          BY <4>1
        <5> QED
          BY <5>2, <5>3
      <4> QED
        BY <2>1, <2>2, <3>0, <3>1, <4>2
    <3>2. CASE x # r
      <4>1. Newcomers(x)' = Newcomers(x)
        BY <2>1, <2>3, <3>2 DEF Newcomers
      <4> QED
        BY <2>2, <3>0, <3>2, <4>1
    <3> QED
      BY <3>1, <3>2
  <2>6. \A x \in Targets : qmodels'[x] = Absent => made'[x] = 0
    BY <2>2 DEF QueryInv, ModelsCounted
  <2> QED
    BY <2>4, <2>5, <2>6 DEF ModelsCounted
<1> QED
  BY <1>2, <1>3, <1>4, <1>5, <1>6 DEF Next

-----------------------------------------------------------------------------
(* The inductive invariant holds of every behaviour of the query model. *)
THEOREM QueryInvariant == Spec => []QueryInv
<1>1. Init => QueryInv
  BY InitInv
<1>2. QueryInv /\ [Next]_vars => QueryInv'
  BY TypeStep, FillStep, CountStep DEF QueryInv
<1> QED
  BY <1>1, <1>2, PTL DEF Spec

(* Rack::getQModel and namemap::get(): at most one model of a table for    *)
(* each thread, and every variable keeps its type.                         *)
THEOREM QueryTypeCorrect == Spec => []TypeOK
<1>1. QueryInv => TypeOK
  BY DEF QueryInv
<1> QED
  BY <1>1, QueryInvariant, PTL

(* rack.cpp:77 and rack.h:199: whatever names the threads resolve and in   *)
(* whatever order, a null pointer stands in the maps only while exactly    *)
(* one thread is about to replace it.                                      *)
THEOREM NullPointersAreBeingFilled == Spec => []NullIsBeingFilled
<1>1. ASSUME QueryInv PROVE NullIsBeingFilled
  <2>1. ASSUME NEW n \in Names, qfields[n] = Null
        PROVE  Cardinality({t \in Threads :
                 call[t].name = n /\ call[t].pc \in {"walk", "make"}}) = 1
    <3>1. PICK t \in Threads : Resolving(t) /\ call[t].name = n
      BY <1>1, <2>1 DEF QueryInv, NoneForgotten
    <3>2. {u \in Threads : call[u].name = n /\ call[u].pc \in {"walk", "make"}} = {t}
      BY <1>1, <3>1 DEF QueryInv, OneEach, Resolving
    <3> QED
      BY <3>2, FS_Singleton
  <2>2. ASSUME NEW p \in Tables, qtables[p] = Null
        PROVE  Cardinality({t \in Threads : call[t].pc = "make" /\ Child(t) = p}) = 1
    <3>1. PICK t \in Threads : Making(t) /\ Child(t) = p
      BY <1>1, <2>2 DEF QueryInv, NoneForgotten
    <3>2. {u \in Threads : call[u].pc = "make" /\ Child(u) = p} = {t}
      BY <1>1, <3>1 DEF QueryInv, OneEach, Making
    <3> QED
      BY <3>2, FS_Singleton
  <2> QED
    BY <2>1, <2>2 DEF NullIsBeingFilled
<1> QED
  BY <1>1, QueryInvariant, PTL

(* t goes through the null pointer that u is about to replace: that of the *)
(* field t asks for while u resolves the same name, or that of the table   *)
(* below t on its way while u makes the same table.                        *)
MeetsNullOf(t, u) ==
    \/ \E n \in Names : /\ GetRField(t, n) /\ qfields[n] = Null
                        /\ Resolving(u) /\ call[u].name = n
    \/ /\ Walk(t) /\ qtables[Child(t)] = Null
       /\ Making(u) /\ Child(u) = Child(t)

(* Rack::getQField and QTable::getChildTable: the step that crashes is     *)
(* one of a thread that meets a null pointer which another thread has      *)
(* inserted and not yet replaced.  A thread alone never crashes.           *)
THEOREM CrashNeedsARace ==
    Spec => [][~crashed /\ crashed' =>
                 \E t, u \in Threads : t # u /\ MeetsNullOf(t, u)]_vars
<1>1. ASSUME QueryInv, [Next]_vars, ~crashed, crashed'
      PROVE  \E t, u \in Threads : t # u /\ MeetsNullOf(t, u)
  <2>1. CASE \E t \in Threads, n \in Names : GetRField(t, n)
    <3>1. PICK t \in Threads : \E n \in Names : GetRField(t, n)
      BY <2>1
    <3>2. PICK n \in Names : GetRField(t, n)
      BY <3>1
    <3>3. qfields[n] = Null /\ call[t].pc = "idle"
      BY <1>1, <3>2 DEF GetRField, At
    <3>4. PICK u \in Threads : Resolving(u) /\ call[u].name = n
      BY <1>1, <3>3 DEF QueryInv, NoneForgotten
    <3>5. t # u
      BY <3>3, <3>4 DEF Resolving
    <3>6. MeetsNullOf(t, u)
      BY <3>2, <3>3, <3>4 DEF MeetsNullOf
    <3> QED
      BY <3>5, <3>6
  <2>2. CASE \E t \in Threads : Walk(t)
    <3>1. PICK t \in Threads : Walk(t)
      BY <2>2
    <3>2. qtables[Child(t)] = Null /\ call[t].pc = "walk" /\ Child(t) \in Tables
      BY <1>1, <3>1, ChildOnTheWay DEF Walk, At, QueryInv, OnItsWay, Resolving
    <3>3. PICK u \in Threads : Making(u) /\ Child(u) = Child(t)
      BY <1>1, <3>2 DEF QueryInv, NoneForgotten
    <3>4. t # u
      BY <3>2, <3>3 DEF Making
    <3>5. MeetsNullOf(t, u)
      BY <3>1, <3>2, <3>3 DEF MeetsNullOf
    <3> QED
      BY <3>4, <3>5
  <2>3. CASE UNCHANGED vars \/ OtherAlias
             \/ \E t \in Threads : MakeTable(t) \/ MakeField(t) \/ UseField(t) \/ MakeModel(t)
    <3>1. crashed' = crashed
      BY <2>3 DEF vars, OtherAlias, MakeTable, MakeField, UseField, MakeModel
    <3> QED
      BY <1>1, <3>1
  <2> QED
    BY <1>1, <2>1, <2>2, <2>3 DEF Next
<1> QED
  BY <1>1, QueryInvariant, PTL DEF Spec

-----------------------------------------------------------------------------
(* The tables of a model and their aliases, also while several threads     *)
(* make them.  Who walks has a table behind every step that it took.       *)
Reached ==
    \A t \in Threads : Resolving(t) =>
        /\ call[t].at = SubSeq(call[t].name, 1, Len(call[t].at))
        /\ call[t].at \in Tables => qtables[call[t].at] \in Nat

AliasesApart ==
    \A p, q \in Tables : qtables[p] \in Nat /\ qtables[p] = qtables[q] => p = q

ParentsFirst ==
    \A p \in Tables : Len(p) > 1 /\ qtables[p] # Absent =>
        /\ TableOf(p) \in Tables /\ qtables[TableOf(p)] \in Nat
        /\ qtables[p] \in Nat => qtables[TableOf(p)] < qtables[p]

FieldsJoined ==
    \A n \in Names : Len(n) > 1 /\ qfields[n] = "made" =>
        TableOf(n) \in Tables /\ qtables[TableOf(n)] \in Nat

AliasInv ==
    /\ Reached /\ AliasesApart /\ ParentsFirst /\ FieldsJoined
    /\ \A p \in Tables : qtables[p] \in Nat => qtables[p] < num

(* A path begins with the path of the table that it hangs on. *)
LEMMA ParentPath ==
    ASSUME NEW n \in Names, NEW k \in Nat, k > 1, k <= Len(n)
    PROVE  /\ TableOf(SubSeq(n, 1, k)) = SubSeq(n, 1, k - 1)
           /\ SubSeq(n, 1, k - 1) \in Tables /\ Len(SubSeq(n, 1, k - 1)) = k - 1
<1>1. n \in Seq(ToSet(n)) /\ Len(n) \in Nat
  BY NameLength
<1>2. SubSeq(n, 1, k) \in Seq(ToSet(n)) /\ Len(SubSeq(n, 1, k)) = k
  BY <1>1
<1>3. SubSeq(SubSeq(n, 1, k), 1, k - 1) = SubSeq(n, 1, k - 1)
  BY <1>1, <1>2
<1> QED
  BY <1>1, <1>2, <1>3, TablePath DEF TableOf, Front

LEMMA TableNotEmpty == <<>> \notin Tables
<1> SUFFICES ASSUME NEW n \in Names, NEW k \in 1..(Len(n) - 1)
             PROVE  SubSeq(n, 1, k) # <<>>
  BY DEF Tables
<1>1. Len(SubSeq(n, 1, k)) = k /\ k > 0
  BY NameLength, TablePath
<1> QED
  BY <1>1

(* Where a thread is, seen from the table or the field that it goes to. *)
LEMMA NextOnTheWay ==
    ASSUME QueryInv, Reached, NEW t \in Threads, Resolving(t)
    PROVE  /\ Len(Child(t)) = Len(call[t].at) + 1
           /\ Len(Child(t)) > 1 => /\ TableOf(Child(t)) = call[t].at
                                   /\ call[t].at \in Tables
                                   /\ qtables[call[t].at] \in Nat
<1> DEFINE n == call[t].name
           k == Len(call[t].at) + 1
<1>1. n \in Names /\ k \in Nat /\ k > 0 /\ k <= Len(n)
  <2>1. n \in Names /\ call[t].at \in Tables \cup {<<>>}
    BY DEF QueryInv, Typed, Resolving
  <2>2. Len(call[t].at) \in Nat /\ Len(n) \in Nat
    BY <2>1, PathLength, NameLength
  <2>3. Len(call[t].at) < Len(n)
    BY DEF QueryInv, OnItsWay
  <2> QED
    BY <2>1, <2>2, <2>3
<1>2. Child(t) = SubSeq(n, 1, k)
  BY DEF Child
<1>3. Len(Child(t)) = k
  BY <1>1, <1>2, NameLength
<1>4. ASSUME k > 1
      PROVE  TableOf(Child(t)) = call[t].at /\ call[t].at \in Tables
  <2>1. call[t].at = SubSeq(n, 1, k - 1)
    BY <1>1 DEF Reached
  <2> QED
    BY <1>1, <1>2, <1>4, <2>1, ParentPath
<1> QED
  BY <1>3, <1>4 DEF Reached

(* Steps that make no table: what they leave of the walks and the fields.  *)
LEMMA AliasFrame ==
    ASSUME QueryInv, AliasInv, UNCHANGED qtables, num' \in Nat, num' >= num,
           \A t \in Threads : Resolving(t)' =>
                (call'[t] = call[t] /\ Resolving(t)) \/ call'[t].at = <<>>,
           \A n \in Names : qfields'[n] = "made" => qfields[n] = "made"
    PROVE  AliasInv'
<1>1. Reached'
  <2>1. ASSUME NEW t \in Threads, Resolving(t)', call'[t].at = <<>>
        PROVE  /\ call'[t].at = SubSeq(call'[t].name, 1, Len(call'[t].at))
               /\ call'[t].at \notin Tables
    BY <2>1, TableNotEmpty
  <2> QED
    BY <2>1 DEF AliasInv, Reached
<1>2. \A p \in Tables : qtables[p] \in Nat => qtables[p] < num'
  BY QueryModelAssumption DEF AliasInv, QueryInv, TypeOK
<1> QED
  BY <1>1, <1>2 DEF AliasInv, AliasesApart, ParentsFirst, FieldsJoined

LEMMA WalkKeepsAliases ==
    ASSUME QueryInv, AliasInv, NEW t \in Threads, Walk(t)
    PROVE  AliasInv'
<1> USE QueryModelAssumption
<1>1. /\ Resolving(t) /\ call[t].name \in Names
      /\ Child(t) \in Tables /\ Len(Child(t)) = Len(call[t].at) + 1
      /\ UNCHANGED <<qfields, num>>
  BY ChildOnTheWay DEF Walk, At, QueryInv, Typed, OnItsWay, Resolving
<1>2. call \in [Threads -> [name: Names \cup {<<>>}, at: Tables \cup {<<>>}, pc: Labels]]
  BY DEF QueryInv, Typed
<1>3. CASE /\ qtables[Child(t)] = Absent
           /\ qtables' = [qtables EXCEPT ![Child(t)] = Null]
           /\ Goto(t, "make")
  <2>1. /\ qtables'[Child(t)] = Null
        /\ \A p \in Tables \ {Child(t)} : qtables'[p] = qtables[p]
    BY <1>1, <1>3 DEF QueryInv, TypeOK
  <2>2. \A p \in Tables : (qtables'[p] \in Nat <=> qtables[p] \in Nat)
                         /\ (qtables[p] \in Nat => qtables'[p] = qtables[p])
    BY <1>3, <2>1
  <2>3. \A u \in Threads : call'[u].name = call[u].name /\ call'[u].at = call[u].at
                         /\ (Resolving(u)' => Resolving(u))
    BY <1>1, <1>2, <1>3 DEF Goto, Resolving
  <2>4. Reached'
    BY <2>2, <2>3 DEF AliasInv, Reached
  <2>5. ParentsFirst'
    <3>1. Len(Child(t)) > 1 => /\ TableOf(Child(t)) \in Tables
                              /\ qtables[TableOf(Child(t))] \in Nat
      BY <1>1, NextOnTheWay DEF AliasInv
    <3> QED
      BY <2>1, <2>2, <3>1 DEF AliasInv, ParentsFirst
  <2>6. AliasesApart' /\ FieldsJoined'
    BY <1>1, <2>2 DEF AliasInv, AliasesApart, FieldsJoined
  <2> QED
    BY <1>1, <2>2, <2>4, <2>5, <2>6 DEF AliasInv
<1>4. CASE UNCHANGED <<call, qtables>>
  BY <1>1, <1>4, AliasFrame DEF Resolving, QueryInv, TypeOK
<1>5. CASE /\ qtables[Child(t)] \notin {Absent, Null} /\ UNCHANGED qtables
           /\ call' = [call EXCEPT ![t].at = Child(t)]
  <2>1. call'[t].name = call[t].name /\ call'[t].at = Child(t)
    BY <1>2, <1>5
  <2>2. \A u \in Threads \ {t} : call'[u] = call[u]
    BY <1>5
  <2>3. Child(t) = SubSeq(call[t].name, 1, Len(Child(t)))
    BY <1>1 DEF Child
  <2>4. qtables[Child(t)] \in Nat
    BY <1>1, <1>5 DEF QueryInv, TypeOK
  <2>5. Reached'
    BY <1>5, <2>1, <2>2, <2>3, <2>4 DEF AliasInv, Reached, Resolving
  <2> QED
    BY <1>1, <1>5, <2>5 DEF AliasInv, AliasesApart, ParentsFirst, FieldsJoined
<1> QED
  BY <1>3, <1>4, <1>5 DEF Walk, Crash

LEMMA MakeTableKeepsAliases ==
    ASSUME QueryInv, AliasInv, NEW t \in Threads, MakeTable(t)
    PROVE  AliasInv'
<1> USE QueryModelAssumption
<1> DEFINE c == Child(t)
<1>1. Resolving(t) /\ Making(t) /\ call[t].pc # "idle" /\ call[t].name \in Names
  BY DEF MakeTable, At, QueryInv, Typed, Resolving, Making
<1>2. /\ Len(call[t].at) < Len(call[t].name) /\ Len(call[t].at) + 1 < Len(call[t].name)
      /\ qtables[c] = Null
  BY <1>1 DEF QueryInv, OnItsWay
<1>3. c \in Tables /\ Len(c) = Len(call[t].at) + 1 /\ c = SubSeq(call[t].name, 1, Len(c))
  <2>1. Len(call[t].at) \in Nat
    BY PathLength DEF QueryInv, Typed
  <2>2. c \in Tables /\ Len(c) = Len(call[t].at) + 1
    BY <1>1, <1>2, <2>1, TablePath DEF Child
  <2> QED
    BY <2>2 DEF Child
<1>4. /\ num \in Nat /\ num' = num + 1 /\ qfields' = qfields
      /\ qtables'[c] = num /\ \A p \in Tables \ {c} : qtables'[p] = qtables[p]
  BY <1>3 DEF MakeTable, QueryInv, TypeOK
<1>5. /\ call'[t].name = call[t].name /\ call'[t].at = c
      /\ \A u \in Threads \ {t} : call'[u] = call[u]
  BY DEF MakeTable, QueryInv, Typed
<1>6. Null \notin Nat /\ Absent \notin Nat
  OBVIOUS
<1>7. Reached'
  <2>1. \A p \in Tables : qtables[p] \in Nat => qtables'[p] \in Nat
    BY <1>4
  <2>2. ASSUME NEW u \in Threads, Resolving(u)'
        PROVE  /\ call'[u].at = SubSeq(call'[u].name, 1, Len(call'[u].at))
               /\ call'[u].at \in Tables => qtables'[call'[u].at] \in Nat
    <3>1. CASE u = t
      BY <1>3, <1>4, <1>5, <3>1
    <3>2. CASE u # t
      BY <1>5, <2>1, <2>2, <3>2 DEF AliasInv, Reached, Resolving
    <3> QED
      BY <3>1, <3>2
  <2> QED
    BY <2>2 DEF Reached
<1>8. AliasesApart'
  BY <1>4 DEF AliasInv, AliasesApart
<1>9. ParentsFirst'
  <2>1. Len(c) > 1 => /\ TableOf(c) \in Tables \ {c} /\ qtables[TableOf(c)] \in Nat
                      /\ qtables[TableOf(c)] < num
    BY <1>1, <1>2, <1>6, NextOnTheWay DEF AliasInv
  <2>2. \A p \in Tables : Len(p) > 1 /\ qtables[p] # Absent => TableOf(p) # c
    BY <1>2, <1>6 DEF AliasInv, ParentsFirst
  <2> QED
    BY <1>4, <2>1, <2>2 DEF AliasInv, ParentsFirst
<1>10. FieldsJoined'
  BY <1>4 DEF AliasInv, FieldsJoined
<1>11. \A p \in Tables : qtables'[p] \in Nat => qtables'[p] < num'
  BY <1>4 DEF AliasInv
<1> QED
  BY <1>7, <1>8, <1>9, <1>10, <1>11 DEF AliasInv

LEMMA MakeFieldKeepsAliases ==
    ASSUME QueryInv, AliasInv, NEW t \in Threads, MakeField(t)
    PROVE  AliasInv'
<1>1. /\ Resolving(t) /\ Child(t) = call[t].name
      /\ UNCHANGED <<qtables, num>>
  BY DEF MakeField, At, Resolving
<1>2. Reached'
  <2>1. \A u \in Threads \ {t} : call'[u] = call[u]
    BY DEF MakeField, Goto
  <2>2. ~Resolving(t)'
    BY DEF MakeField, Goto, QueryInv, Typed, Resolving
  <2> QED
    BY <1>1, <2>1, <2>2 DEF AliasInv, Reached, Resolving
<1>3. Len(call[t].name) > 1 => /\ TableOf(call[t].name) \in Tables
                              /\ qtables[TableOf(call[t].name)] \in Nat
  BY <1>1, NextOnTheWay DEF AliasInv
<1>4. \A n \in Names : qfields'[n] = "made" => qfields[n] = "made" \/ n = call[t].name
  BY DEF MakeField, QueryInv, TypeOK
<1>5. FieldsJoined'
  BY <1>1, <1>3, <1>4 DEF AliasInv, FieldsJoined
<1> QED
  BY <1>1, <1>2, <1>5 DEF AliasInv, AliasesApart, ParentsFirst

LEMMA AliasStep == QueryInv /\ AliasInv /\ [Next]_vars => AliasInv'
<1> SUFFICES ASSUME QueryInv, AliasInv, [Next]_vars PROVE AliasInv'
  OBVIOUS
<1> USE QueryModelAssumption
<1>0. num \in Nat
  BY DEF QueryInv, TypeOK
<1>1. CASE UNCHANGED vars \/ OtherAlias
  BY <1>0, <1>1, AliasFrame DEF vars, OtherAlias, Resolving
<1>2. ASSUME NEW t \in Threads, NEW n \in Names, GetRField(t, n) PROVE AliasInv'
  <2>1. UNCHANGED <<qtables, num>>
    BY <1>2 DEF GetRField
  <2>2. \A m \in Names : qfields'[m] = "made" => qfields[m] = "made"
    <3>1. qfields' = qfields \/ qfields' = [qfields EXCEPT ![n] = Null]
      BY <1>2 DEF GetRField
    <3> QED
      BY <3>1 DEF QueryInv, TypeOK
  <2>3. \A u \in Threads : call'[u] = call[u] \/ call'[u].at = <<>>
    BY <1>2 DEF GetRField, Crash, QueryInv, Typed
  <2> QED
    BY <1>0, <2>1, <2>2, <2>3, AliasFrame DEF Resolving
<1>3. ASSUME NEW t \in Threads, UseField(t) \/ MakeModel(t) PROVE AliasInv'
  <2>1. UNCHANGED <<qtables, num, qfields>>
    BY <1>3 DEF UseField, MakeModel
  <2>2. call' = [call EXCEPT ![t] = Idle] \/ call' = [call EXCEPT ![t].pc = "new"]
    BY <1>3 DEF UseField, MakeModel, AddRField, Goto
  <2>3. \A u \in Threads : Resolving(u)' => call'[u] = call[u] /\ Resolving(u)
    BY <2>2 DEF QueryInv, Typed, Resolving, Idle
  <2> QED
    BY <1>0, <2>1, <2>3, AliasFrame
<1> QED
  BY <1>1, <1>2, <1>3, WalkKeepsAliases, MakeTableKeepsAliases, MakeFieldKeepsAliases
     DEF Next

(* rack.cpp:55 and rack.h:181: in whatever order the threads make tables,  *)
(* no two tables have the same alias, a table is made after the one that   *)
(* it hangs on and has a later alias, and a field exists only when all the *)
(* tables on the way to it do: what the joins of every statement rest on.  *)
THEOREM TablesNamedApart == Spec => [](AliasesApart /\ ParentsFirst /\ FieldsJoined)
<1>1. Init => AliasInv
  <2> SUFFICES ASSUME Init PROVE AliasInv
    OBVIOUS
  <2>1. \A p \in Tables : qtables[p] = Absent
    BY DEF Init
  <2>2. \A t \in Threads : ~Resolving(t)
    BY DEF Init, Idle, Resolving
  <2>3. \A n \in Names : qfields[n] # "made"
    BY QueryModelAssumption DEF Init
  <2> QED
    BY <2>1, <2>2, <2>3, QueryModelAssumption
       DEF AliasInv, Reached, AliasesApart, ParentsFirst, FieldsJoined
<1>2. AliasInv => AliasesApart /\ ParentsFirst /\ FieldsJoined
  BY DEF AliasInv
<1> QED
  BY <1>1, <1>2, AliasStep, QueryInvariant, PTL DEF Spec

-----------------------------------------------------------------------------
(* The joins of a statement.  The aliases of the tables are ordered as the *)
(* keys of a std::map<std::string, ...>.                                   *)
LEMMA DigitsType ==
    ASSUME NEW n, n \in Nat
    PROVE  Digits(n) \in Seq(Nat)
<1> DEFINE Q == Seq(Nat)
           Body(f) == [k \in 0..n |-> IF k < 10 THEN <<k>>
                                      ELSE Append(f[k \div 10], k % 10)]
           Solves(f) == f = Body(f)
           F == CHOOSE f : Solves(f)
           below == [k \in 0..n |-> k \div 10]
           step == [k \in 0..n |-> [x \in Q |-> IF k < 10 THEN <<k>>
                                                ELSE Append(x, k % 10)]]
           first == <<0>>
<1>1. Digits(n) = F[n]
  BY DEF Digits
<1>2. \A k \in Nat : k # 0 => k \div 10 \in 0..(k - 1) /\ k % 10 \in Nat
  OBVIOUS
<1>3. IsRecursion(Q, 0, n, first, below, step)
  <2>1. \A k \in 0..n : k \div 10 \in Int /\ (k # 0 => below[k] \in 0..(k - 1))
    BY <1>2
  <2>2. \A k \in 0..n, x \in Q : (IF k < 10 THEN <<k>> ELSE Append(x, k % 10)) \in Q
    <3> TAKE k \in 0..n, x \in Q
    <3>1. CASE k < 10
      BY <3>1
    <3>2. CASE ~(k < 10)
      BY <1>2, <3>2, AppendProperties
    <3> QED
      BY <3>1, <3>2
  <2>3. step \in [0..n -> [Q -> Q]] /\ below \in [0..n -> Int] /\ first \in Q
    BY <2>1, <2>2
  <2> QED
    BY <2>1, <2>3 DEF IsRecursion
<1>4. \E f : Solves(f)
  <2>1. \A k \in 0..n : below[k] = k \div 10
    OBVIOUS
  <2>2. \A k \in 0..n, x \in Q :
           step[k][x] = IF k < 10 THEN <<k>> ELSE Append(x, k % 10)
    OBVIOUS
  <2>0. first = <<0>>
    OBVIOUS
  <2> HIDE DEF below, step, Q, first
  <2>3. PICK f \in [0..n -> Q] :
           \A k \in 0..n : f[k] = IF k = 0 THEN first ELSE step[k][f[below[k]]]
    BY ONLY <1>3, RecursionExists
  <2>4. ASSUME NEW k \in 0..n
        PROVE  f[k] = IF k < 10 THEN <<k>> ELSE Append(f[k \div 10], k % 10)
    <3>1. CASE k = 0
      BY <2>0, <2>3, <3>1
    <3>2. CASE k # 0
      <4>1. k \div 10 \in 0..n
        BY <1>2, <3>2
      <4>2. f[k] = step[k][f[k \div 10]]
        BY <2>1, <2>3, <3>2
      <4> QED
        BY <2>2, <2>3, <4>1, <4>2
    <3> QED
      BY <3>1, <3>2
  <2>5. f = Body(f)
    BY <2>3, <2>4
  <2>6. Solves(f)
    BY <2>5
  <2> HIDE DEF Solves
  <2> QED
    BY <2>6
<1>5. F = Body(F)
  <2>1. Solves(F)
    <3> HIDE DEF Solves
    <3> QED
      BY <1>4
  <2> QED
    BY <2>1
<1> HIDE DEF F
<1>6. \A k \in 0..n : F[k] = IF k < 10 THEN <<k>> ELSE Append(F[k \div 10], k % 10)
  BY <1>5
<1> DEFINE T == {k \in 0..n : F[k] \in Q}
<1>7. ASSUME NEW k \in 0..n, \A j \in 0..(k - 1) : j \in T
      PROVE  k \in T
  <2>1. CASE k < 10
    <3>1. F[k] = <<k>>
      BY <1>6, <2>1
    <3>2. k \in Nat
      OBVIOUS
    <3>3. <<k>> \in Seq(Nat)
      BY <3>2
    <3> QED
      BY <3>1, <3>3
  <2>2. CASE ~(k < 10)
    <3>1. k \div 10 \in 0..(k - 1) /\ k % 10 \in Nat
      BY <1>2, <2>2
    <3>2. F[k \div 10] \in Seq(Nat)
      BY <1>7, <3>1
    <3>3. Append(F[k \div 10], k % 10) \in Seq(Nat)
      BY <3>1, <3>2, AppendProperties
    <3> QED
      BY <1>6, <2>2, <3>3
  <2> QED
    BY <2>1, <2>2
<1>8. n \in T
  <2> HIDE DEF T
  <2>1. n \in 0..n /\ 0 \in Nat
    OBVIOUS
  <2> QED
    BY <1>7, <2>1, IntervalInduction
<1> QED
  BY <1>1, <1>8

LEMMA PrecedesOrders ==
    ASSUME NEW a \in Seq(Nat), NEW b \in Seq(Nat), NEW c \in Seq(Nat)
    PROVE  ~Precedes(a, a) /\ (Precedes(a, b) /\ Precedes(b, c) => Precedes(a, c))
<1>0. /\ Len(a) \in Nat /\ DOMAIN a = 1..Len(a) /\ \A k \in 1..Len(a) : a[k] \in Nat
      /\ Len(b) \in Nat /\ DOMAIN b = 1..Len(b) /\ \A k \in 1..Len(b) : b[k] \in Nat
      /\ Len(c) \in Nat /\ DOMAIN c = 1..Len(c) /\ \A k \in 1..Len(c) : c[k] \in Nat
  BY LenProperties
<1>1. ~Precedes(a, a)
  BY <1>0 DEF Precedes
<1>2. ASSUME Precedes(a, b), Precedes(b, c)
      PROVE  Precedes(a, c)
  <2>1. PICK k \in 1..Len(b) : /\ \A j \in 1..(k - 1) : j <= Len(a) /\ a[j] = b[j]
                               /\ k > Len(a) \/ a[k] < b[k]
    BY <1>0, <1>2 DEF Precedes
  <2>2. PICK l \in 1..Len(c) : /\ \A j \in 1..(l - 1) : j <= Len(b) /\ b[j] = c[j]
                               /\ l > Len(b) \/ b[l] < c[l]
    BY <1>0, <1>2 DEF Precedes
  <2>3. CASE k < l
    <3>1. k \in 1..Len(c) /\ b[k] = c[k]
      BY <1>0, <2>2, <2>3
    <3>2. \A j \in 1..(k - 1) : j <= Len(a) /\ a[j] = c[j]
      BY <1>0, <2>1, <2>2, <2>3
    <3>3. k > Len(a) \/ a[k] < c[k]
      BY <2>1, <3>1
    <3> QED
      BY <1>0, <3>1, <3>2, <3>3 DEF Precedes
  <2>4. CASE k = l
    <3>1. b[l] < c[l]
      BY <1>0, <2>2, <2>4
    <3>2. \A j \in 1..(l - 1) : j <= Len(a) /\ a[j] = c[j]
      BY <1>0, <2>1, <2>2, <2>4
    <3>3. l > Len(a) \/ a[l] < c[l]
      BY <1>0, <2>1, <2>4, <3>1
    <3> QED
      BY <1>0, <3>2, <3>3 DEF Precedes
  <2>5. CASE l < k
    <3>1. l <= Len(a) /\ a[l] = b[l] /\ l <= Len(b)
      BY <1>0, <2>1, <2>5
    <3>2. a[l] < c[l]
      BY <1>0, <2>2, <3>1
    <3>3. \A j \in 1..(l - 1) : j <= Len(a) /\ a[j] = c[j]
      BY <1>0, <2>1, <2>2, <2>5
    <3> QED
      BY <1>0, <3>2, <3>3 DEF Precedes
  <2> QED
    BY <1>0, <2>3, <2>4, <2>5
<1> QED
  BY <1>1, <1>2

(* used_tables.begin(): the first of the tables that are left. *)
LEMMA FirstByAliasExists ==
    ASSUME NEW rec, NEW tables, IsFiniteSet(tables), tables # {},
           \A p \in tables : rec.alias[p] \in Nat
    PROVE  FirstByAlias(rec, tables) \in tables
<1> DEFINE Earlier(q, p) == Precedes(Digits(rec.alias[q]), Digits(rec.alias[p]))
           Preds(p) == {q \in tables : Earlier(q, p)}
           Counts == {Cardinality(Preds(p)) : p \in tables}
<1>1. ASSUME NEW p \in tables
      PROVE  IsFiniteSet(Preds(p)) /\ Cardinality(Preds(p)) \in Nat
  <2>1. Preds(p) \in SUBSET tables
    OBVIOUS
  <2>2. IsFiniteSet(Preds(p))
    BY <2>1, FS_Subset
  <2> QED
    BY <2>2, FS_CardinalityType
<1>2. ASSUME NEW p \in tables, NEW q \in tables, NEW r \in tables
      PROVE  ~Earlier(p, p) /\ (Earlier(r, q) /\ Earlier(q, p) => Earlier(r, p))
  <2>1. /\ Digits(rec.alias[p]) \in Seq(Nat) /\ Digits(rec.alias[q]) \in Seq(Nat)
        /\ Digits(rec.alias[r]) \in Seq(Nat)
    BY DigitsType
  <2> QED
    BY <2>1, PrecedesOrders
<1>3. PICK p \in tables : \A q \in tables : Cardinality(Preds(p)) <= Cardinality(Preds(q))
  <2>1. Counts \subseteq Nat /\ Counts # {}
    BY <1>1
  <2>2. PICK x \in Counts : \A y \in Counts : x <= y
    <3> HIDE DEF Counts
    <3> QED
      BY <2>1, MinimumExists
  <2> QED
    BY <2>2
<1>4. \A q \in tables : ~Earlier(q, p)
  <2> SUFFICES ASSUME NEW q \in tables, Earlier(q, p)
               PROVE  FALSE
    OBVIOUS
  <2> HIDE DEF Earlier
  <2>1. Preds(q) \in SUBSET Preds(p) /\ q \in Preds(p) /\ q \notin Preds(q)
    BY <1>2
  <2>2. IsFiniteSet(Preds(p)) /\ Cardinality(Preds(p)) \in Nat /\ Cardinality(Preds(q)) \in Nat
    BY <1>1
  <2>3. Cardinality(Preds(p)) <= Cardinality(Preds(q))
    BY <1>3
  <2> HIDE DEF Preds
  <2>4. Cardinality(Preds(q)) <= Cardinality(Preds(p)) /\ Cardinality(Preds(p)) # Cardinality(Preds(q))
    BY <2>1, <2>2, FS_Subset
  <2> QED
    BY <2>2, <2>3, <2>4
<1> QED
  BY <1>4 DEF FirstByAlias

(* Tables that hang on one another, and what is joined of them at any      *)
(* time: each once, and after the table that it hangs on.                  *)
Closed(tables) ==
    \A p \in tables :
        /\ p \in Seq(ToSet(p)) /\ p # <<>>
        /\ \A k \in 1..Len(p) : SubSeq(p, 1, k) \in tables

Standing(joins, tables) ==
    /\ joins \in Seq(tables) /\ IsInjective(joins)
    /\ \A i \in DOMAIN joins :
         \/ Len(joins[i]) = 1
         \/ \E j \in 1..(i - 1) : joins[j] = Front(joins[i])

LEMMA StandingAppend ==
    ASSUME NEW tables, NEW joins, Standing(joins, tables),
           NEW p \in tables, p \notin ToSet(joins),
           Len(p) = 1 \/ Front(p) \in ToSet(joins)
    PROVE  Standing(Append(joins, p), tables)
<1> DEFINE s == Append(joins, p)
<1>1. joins \in Seq(tables) /\ IsInjective(joins)
  BY DEF Standing
<1>2. Len(joins) \in Nat /\ DOMAIN joins = 1..Len(joins)
  BY <1>1, LenProperties
<1>3. s \in Seq(tables) /\ IsInjective(s)
  BY <1>1, AppendSet
<1>4. /\ DOMAIN s = 1..(Len(joins) + 1) /\ s[Len(joins) + 1] = p
      /\ \A i \in 1..Len(joins) : s[i] = joins[i]
  BY <1>1, AppendProperties, LenProperties
<1> HIDE DEF s
<1>5. ASSUME NEW i \in DOMAIN s
      PROVE  Len(s[i]) = 1 \/ \E j \in 1..(i - 1) : s[j] = Front(s[i])
  <2>1. CASE i \in 1..Len(joins)
    <3>1. Len(joins[i]) = 1 \/ \E j \in 1..(i - 1) : joins[j] = Front(joins[i])
      BY <1>2, <2>1 DEF Standing
    <3>2. s[i] = joins[i] /\ \A j \in 1..(i - 1) : s[j] = joins[j]
      BY <1>2, <1>4, <2>1
    <3> QED
      BY <3>1, <3>2
  <2>2. CASE i = Len(joins) + 1
    <3>1. s[i] = p /\ i - 1 = Len(joins)
      BY <1>2, <1>4, <2>2
    <3>2. CASE Front(p) \in ToSet(joins)
      <4>1. PICK j \in 1..Len(joins) : joins[j] = Front(p)
        BY <1>2, <3>2 DEF ToSet
      <4> QED
        BY <1>4, <3>1, <4>1
    <3> QED
      BY <3>1, <3>2
  <2> QED
    BY <1>2, <1>4, <2>1, <2>2
<1> QED
  BY <1>3, <1>5 DEF Standing, s

(* What build_joins() has joined after k tables on the way to p. *)
LEMMA BuildJoinsEquation ==
    ASSUME NEW tables, NEW p, Len(p) \in Nat, NEW done, done \in Seq(tables)
    PROVE  \E f : /\ BuildJoins(p, tables, done) = f[Len(p)]
                  /\ f[0] = done
                  /\ \A k \in 1..Len(p) :
                       f[k] = IF SubSeq(p, 1, k) \in tables \ ToSet(f[k - 1])
                              THEN Append(f[k - 1], SubSeq(p, 1, k)) ELSE f[k - 1]
<1> DEFINE n == Len(p)
           Q == Seq(tables)
           Add(x, k) == IF SubSeq(p, 1, k) \in tables \ ToSet(x)
                        THEN Append(x, SubSeq(p, 1, k)) ELSE x
           Body(f) == [k \in 0..n |-> IF k = 0 THEN done ELSE Add(f[k - 1], k)]
           Solves(f) == f = Body(f)
           F == CHOOSE f : Solves(f)
           below == [k \in 0..n |-> k - 1]
           step == [k \in 0..n |-> [x \in Q |-> Add(x, k)]]
<1>1. BuildJoins(p, tables, done) = F[n]
  BY DEF BuildJoins
<1>2. IsRecursion(Q, 0, n, done, below, step)
  <2>1. \A k \in 0..n, x \in Q : Add(x, k) \in Q
    <3> TAKE k \in 0..n, x \in Q
    <3>1. CASE SubSeq(p, 1, k) \in tables \ ToSet(x)
      BY <3>1, AppendProperties
    <3>2. CASE SubSeq(p, 1, k) \notin tables \ ToSet(x)
      BY <3>2
    <3> QED
      BY <3>1, <3>2
  <2> HIDE DEF Add, Q
  <2>2. step \in [0..n -> [Q -> Q]]
    BY <2>1
  <2>3. below \in [0..n -> Int] /\ \A k \in 0..n : k # 0 => below[k] \in 0..(k - 1)
    OBVIOUS
  <2>4. done \in Q
    BY DEF Q
  <2> HIDE DEF below, step
  <2> QED
    BY <2>2, <2>3, <2>4 DEF IsRecursion
<1>3. \E f : Solves(f)
  <2> HIDE DEF Add
  <2>1. \A k \in 0..n : below[k] = k - 1
    OBVIOUS
  <2>2. \A k \in 0..n, x \in Q : step[k][x] = Add(x, k)
    OBVIOUS
  <2> HIDE DEF below, step, Q, n
  <2>3. PICK f \in [0..n -> Q] :
           \A k \in 0..n : f[k] = IF k = 0 THEN done ELSE step[k][f[below[k]]]
    BY ONLY <1>2, RecursionExists
  <2>4. ASSUME NEW k \in 0..n
        PROVE  f[k] = IF k = 0 THEN done ELSE Add(f[k - 1], k)
    <3>1. CASE k = 0
      BY <2>3, <3>1
    <3>2. CASE k # 0
      <4>1. k - 1 \in 0..n
        BY <3>2 DEF n
      <4>2. f[k] = step[k][f[k - 1]]
        BY <2>1, <2>3, <3>2
      <4> QED
        BY <2>2, <2>3, <3>2, <4>1, <4>2
    <3> QED
      BY <3>1, <3>2
  <2>5. f = Body(f)
    BY <2>3, <2>4
  <2>6. Solves(f)
    BY <2>5 DEF Add
  <2> HIDE DEF Solves
  <2> QED
    BY <2>6
<1>4. F = Body(F)
  <2>1. Solves(F)
    <3> HIDE DEF Solves
    <3> QED
      BY <1>3
  <2> QED
    BY <2>1
<1> HIDE DEF F
<1>5. F[0] = done /\ \A k \in 1..n : F[k] = Add(F[k - 1], k)
  <2>1. \A k \in 0..n : F[k] = IF k = 0 THEN done ELSE Add(F[k - 1], k)
    BY <1>4
  <2> HIDE DEF Add
  <2>2. 0 \in 0..n /\ \A k \in 1..n : k \in 0..n /\ k # 0
    OBVIOUS
  <2> QED
    BY <2>1, <2>2
<1> QED
  BY <1>1, <1>5

LEMMA BuildJoinsStands ==
    ASSUME NEW tables, Closed(tables), NEW p \in tables,
           NEW done, Standing(done, tables)
    PROVE  LET joins == BuildJoins(p, tables, done)
           IN  Standing(joins, tables) /\ ToSet(done) \cup {p} \subseteq ToSet(joins)
<1>1. /\ p \in Seq(ToSet(p)) /\ Len(p) \in Nat \ {0}
      /\ \A k \in 1..Len(p) : SubSeq(p, 1, k) \in tables
  BY LenProperties, EmptySeq DEF Closed
<1>2. done \in Seq(tables)
  BY DEF Standing
<1>3. PICK f : /\ BuildJoins(p, tables, done) = f[Len(p)]
               /\ f[0] = done
               /\ \A k \in 1..Len(p) :
                    f[k] = IF SubSeq(p, 1, k) \in tables \ ToSet(f[k - 1])
                           THEN Append(f[k - 1], SubSeq(p, 1, k)) ELSE f[k - 1]
  BY <1>1, <1>2, BuildJoinsEquation
<1> DEFINE Good(k) == /\ Standing(f[k], tables) /\ ToSet(done) \subseteq ToSet(f[k])
                      /\ k # 0 => SubSeq(p, 1, k) \in ToSet(f[k])
           T == {k \in 0..Len(p) : Good(k)}
<1>4. ASSUME NEW k \in 0..Len(p), \A j \in 0..(k - 1) : j \in T
      PROVE  k \in T
  <2>1. CASE k = 0
    BY <1>3, <2>1
  <2>2. CASE k # 0
    <3> DEFINE q == SubSeq(p, 1, k)
               before == f[k - 1]
    <3>1. k - 1 \in 0..(k - 1) /\ k \in 1..Len(p)
      BY <2>2
    <3>2. Good(k - 1)
      BY <1>4, <3>1
    <3>3. q \in tables
      BY <1>1, <3>1
    <3>4. Len(q) = 1 \/ Front(q) \in ToSet(before)
      <4>1. CASE k = 1
        BY <1>1, <4>1
      <4>2. CASE k # 1
        <5>1. Len(q) = k /\ Front(q) = SubSeq(p, 1, k - 1)
          <6>1. q \in Seq(ToSet(p)) /\ Len(q) = k
            BY <1>1, <3>1
          <6>2. SubSeq(SubSeq(p, 1, k), 1, k - 1) = SubSeq(p, 1, k - 1)
            BY <1>1, <3>1, <4>2
          <6> QED
            BY <6>1, <6>2 DEF Front
        <5>2. k - 1 # 0
          BY <4>2, <3>1
        <5> QED
          BY <3>2, <5>1, <5>2
      <4> QED
        BY <4>1, <4>2
    <3>5. f[k] = IF q \in tables \ ToSet(before) THEN Append(before, q) ELSE before
      BY <1>3, <3>1
    <3>6. before \in Seq(tables) /\ Standing(before, tables) /\ ToSet(done) \subseteq ToSet(before)
      BY <3>2 DEF Standing
    <3> HIDE DEF q, before
    <3>7. CASE q \in ToSet(before)
      <4>1. f[k] = before
        BY <3>5, <3>7
      <4> QED
        BY <3>6, <3>7, <4>1 DEF q
    <3>8. CASE q \notin ToSet(before)
      <4>1. f[k] = Append(before, q)
        BY <3>3, <3>5, <3>8
      <4>2. Standing(f[k], tables)
        BY <3>3, <3>4, <3>6, <3>8, <4>1, StandingAppend
      <4>3. ToSet(f[k]) = ToSet(before) \cup {q}
        BY <3>3, <3>6, <4>1, AppendSet
      <4> QED
        BY <3>6, <4>2, <4>3 DEF q
    <3> QED
      BY <3>7, <3>8
  <2> QED
    BY <2>1, <2>2
<1>5. Len(p) \in T
  <2> HIDE DEF T
  <2>1. Len(p) \in 0..Len(p) /\ 0 \in Nat /\ Len(p) \in Nat
    BY <1>1
  <2> DEFINE n == Len(p)
  <2>2. \A k \in 0..n : (\A j \in 0..(k - 1) : j \in T) => k \in T
    BY <1>4
  <2> HIDE DEF n
  <2>3. \A k \in 0..n : k \in T
    BY <2>1, <2>2, IntervalInduction DEF n
  <2> QED
    BY <2>1, <2>3 DEF n
<1>6. Good(Len(p)) /\ SubSeq(p, 1, Len(p)) = p /\ Len(p) # 0
  BY <1>1, <1>5
<1> QED
  BY <1>3, <1>6

(* Tables that can be joined; what sql_clause_from() has joined of them    *)
(* after n rounds of its loop.                                             *)
Joinable(rec, tables) ==
    /\ Closed(tables) /\ IsFiniteSet(tables)
    /\ \A p \in tables : rec.alias[p] \in Nat

Rounds(rec, tables, f) ==
    /\ Joins(rec, tables) = f[Cardinality(tables)]
    /\ Standing(f[0], tables)
    /\ \A n \in 1..Cardinality(tables) :
         LET left == tables \ ToSet(f[n - 1]) IN
         f[n] = IF left = {} THEN f[n - 1]
                ELSE BuildJoins(FirstByAlias(rec, left), tables, f[n - 1])

LEMMA JoinsEquation ==
    ASSUME NEW rec, NEW tables, Joinable(rec, tables)
    PROVE  \E f : Rounds(rec, tables, f)
<1> USE DEF Joinable
<1> DEFINE n == Cardinality(tables)
           Q == {s \in Seq(tables) : Standing(s, tables)}
           Round(x) == IF tables \ ToSet(x) = {} THEN x
                       ELSE BuildJoins(FirstByAlias(rec, tables \ ToSet(x)), tables, x)
           Body(f) == [k \in 0..n |-> IF k = 0 THEN <<>> ELSE Round(f[k - 1])]
           Solves(f) == f = Body(f)
           F == CHOOSE f : Solves(f)
           below == [k \in 0..n |-> k - 1]
           step == [k \in 0..n |-> [x \in Q |-> Round(x)]]
           first == <<>>
<1>0. n \in Nat
  BY FS_CardinalityType
<1>1. Joins(rec, tables) = F[n]
  BY DEF Joins
<1>2. \A x \in Q : Round(x) \in Q
  <2> TAKE x \in Q
  <2> DEFINE left == tables \ ToSet(x)
  <2>1. CASE left = {}
    BY <2>1
  <2>2. CASE left # {}
    <3>1. IsFiniteSet(left) /\ \A p \in left : rec.alias[p] \in Nat
      BY FS_Difference
    <3>2. FirstByAlias(rec, left) \in tables
      <4>1. FirstByAlias(rec, left) \in left
        <5> HIDE DEF left
        <5> QED
          BY <2>2, <3>1, FirstByAliasExists
      <4> QED
        BY <4>1
    <3>3. Standing(BuildJoins(FirstByAlias(rec, left), tables, x), tables)
      BY <3>2, BuildJoinsStands
    <3>4. BuildJoins(FirstByAlias(rec, left), tables, x) \in Q
      BY <3>3 DEF Standing
    <3> QED
      BY <2>2, <3>4
  <2> QED
    BY <2>1, <2>2
<1>3. IsRecursion(Q, 0, n, first, below, step)
  <2>1. step \in [0..n -> [Q -> Q]]
    BY <1>2
  <2>2. below \in [0..n -> Int] /\ \A k \in 0..n : k # 0 => below[k] \in 0..(k - 1)
    BY <1>0
  <2>3. first \in Q
    <3>1. first \in Seq(tables) /\ DOMAIN first = {}
      OBVIOUS
    <3> QED
      BY <3>1 DEF Standing, IsInjective
  <2> HIDE DEF Q, below, step, n
  <2> QED
    BY <1>0, <2>1, <2>2, <2>3 DEF IsRecursion
<1>4. \E f : Solves(f)
  <2>0. first = <<>>
    OBVIOUS
  <2>1. \A k \in 0..n : below[k] = k - 1
    OBVIOUS
  <2> HIDE DEF Round, n
  <2>2. \A k \in 0..n, x \in Q : step[k][x] = Round(x)
    OBVIOUS
  <2> HIDE DEF below, step, Q, first
  <2>3. PICK f \in [0..n -> Q] :
           \A k \in 0..n : f[k] = IF k = 0 THEN first ELSE step[k][f[below[k]]]
    BY ONLY <1>3, RecursionExists
  <2>4. ASSUME NEW k \in 0..n
        PROVE  f[k] = IF k = 0 THEN <<>> ELSE Round(f[k - 1])
    <3>1. CASE k = 0
      BY <2>0, <2>3, <3>1
    <3>2. CASE k # 0
      <4>1. k - 1 \in 0..n
        BY <1>0, <3>2
      <4>2. f[k] = step[k][f[k - 1]]
        BY <2>1, <2>3, <3>2
      <4> QED
        BY <2>2, <2>3, <3>2, <4>1, <4>2
    <3> QED
      BY <3>1, <3>2
  <2>5. f = Body(f)
    BY <2>3, <2>4
  <2>6. Solves(f)
    BY <2>5 DEF Round
  <2> HIDE DEF Solves
  <2> QED
    BY <2>6
<1>5. F = Body(F)
  <2>1. Solves(F)
    <3> HIDE DEF Solves
    <3> QED
      BY <1>4
  <2> QED
    BY <2>1
<1> HIDE DEF F
<1>6. F[0] = <<>> /\ \A k \in 1..n : F[k] = Round(F[k - 1])
  <2>1. \A k \in 0..n : F[k] = IF k = 0 THEN <<>> ELSE Round(F[k - 1])
    BY <1>5
  <2> HIDE DEF Round, n
  <2>2. 0 \in 0..n /\ \A k \in 1..n : k \in 0..n /\ k # 0
    BY <1>0
  <2> QED
    BY <2>1, <2>2
<1>7. Standing(F[0], tables)
  <2>1. <<>> \in Seq(tables) /\ DOMAIN <<>> = {}
    OBVIOUS
  <2> QED
    BY <1>6, <2>1 DEF Standing, IsInjective
<1> QED
  <2>1. Rounds(rec, tables, F)
    BY <1>1, <1>6, <1>7 DEF Rounds
  <2> QED
    BY <2>1

(* Each round joins a table at least, so that the loop joins them all. *)
LEMMA JoinsStand ==
    ASSUME NEW rec, NEW tables, Joinable(rec, tables)
    PROVE  Standing(Joins(rec, tables), tables) /\ ToSet(Joins(rec, tables)) = tables
<1> DEFINE N == Cardinality(tables)
<1>9. PICK f : Rounds(rec, tables, f)
  BY JoinsEquation
<1> USE DEF Joinable
<1>0. N \in Nat
  BY FS_CardinalityType
<1>1. /\ Joins(rec, tables) = f[N]
      /\ Standing(f[0], tables)
      /\ \A n \in 1..N :
           LET left == tables \ ToSet(f[n - 1]) IN
           f[n] = IF left = {} THEN f[n - 1]
                  ELSE BuildJoins(FirstByAlias(rec, left), tables, f[n - 1])
  BY <1>9 DEF Rounds
<1>2. ASSUME NEW s, Standing(s, tables)
      PROVE  /\ ToSet(s) \subseteq tables /\ IsFiniteSet(ToSet(s))
             /\ Cardinality(ToSet(s)) \in Nat /\ Cardinality(ToSet(s)) <= N
             /\ Cardinality(ToSet(s)) = N => ToSet(s) = tables
  <2>1. ToSet(s) \in SUBSET tables
    <3>1. s \in Seq(tables) /\ DOMAIN s = 1..Len(s)
      BY <1>2, LenProperties DEF Standing
    <3> QED
      BY <3>1 DEF ToSet
  <2>2. IsFiniteSet(ToSet(s)) /\ Cardinality(ToSet(s)) <= N
        /\ (N = Cardinality(ToSet(s)) => tables = ToSet(s))
    BY <2>1, FS_Subset
  <2>3. Cardinality(ToSet(s)) \in Nat
    BY <2>2, FS_CardinalityType
  <2> QED
    BY <2>1, <2>2, <2>3
<1> DEFINE Good(n) == Standing(f[n], tables) /\ Cardinality(ToSet(f[n])) >= n
           T == {n \in 0..N : Good(n)}
<1>3. ASSUME NEW n \in 0..N, \A j \in 0..(n - 1) : j \in T
      PROVE  n \in T
  <2>1. CASE n = 0
    BY <1>1, <1>2, <2>1
  <2>2. CASE n # 0
    <3> DEFINE done == f[n - 1]
               left == tables \ ToSet(done)
               p == FirstByAlias(rec, left)
    <3>1. Good(n - 1) /\ n - 1 \in Nat /\ n \in 1..N
      BY <1>0, <1>3, <2>2
    <3>2. f[n] = IF left = {} THEN done ELSE BuildJoins(p, tables, done)
      BY <1>1, <3>1
    <3>3. CASE left = {}
      <4>1. ToSet(done) = tables /\ f[n] = done
        BY <1>2, <3>1, <3>2, <3>3
      <4> QED
        BY <3>1, <4>1
    <3>4. CASE left # {}
      <4>1. IsFiniteSet(left) /\ \A q \in left : rec.alias[q] \in Nat
        BY FS_Difference
      <4>2. p \in left
        <5> HIDE DEF left
        <5> QED
          BY <3>4, <4>1, FirstByAliasExists
      <4>3. p \in tables /\ p \notin ToSet(done)
        BY <4>2
      <4>4. Standing(done, tables) /\ Cardinality(ToSet(done)) >= n - 1
        BY <3>1
      <4> HIDE DEF p, done
      <4>5. Standing(f[n], tables) /\ ToSet(done) \cup {p} \subseteq ToSet(f[n])
        BY <3>2, <3>4, <4>3, <4>4, BuildJoinsStands
      <4>6. /\ IsFiniteSet(ToSet(done)) /\ Cardinality(ToSet(done)) \in Nat
            /\ IsFiniteSet(ToSet(f[n])) /\ Cardinality(ToSet(f[n])) \in Nat
        BY <1>2, <4>4, <4>5
      <4>7. /\ Cardinality(ToSet(done) \cup {p}) = Cardinality(ToSet(done)) + 1
            /\ Cardinality(ToSet(done) \cup {p}) <= Cardinality(ToSet(f[n]))
        BY <4>3, <4>5, <4>6, FS_AddElement, FS_Subset
      <4>8. Cardinality(ToSet(f[n])) >= n
        BY <3>1, <4>4, <4>6, <4>7
      <4> QED
        BY <4>5, <4>8
    <3> QED
      BY <3>3, <3>4
  <2> QED
    BY <2>1, <2>2
<1>4. N \in T
  <2> HIDE DEF T
  <2>1. N \in 0..N /\ 0 \in Nat
    BY <1>0
  <2>2. \A n \in 0..N : (\A j \in 0..(n - 1) : j \in T) => n \in T
    BY <1>3
  <2> HIDE DEF N
  <2>3. \A n \in 0..N : n \in T
    BY <1>0, <2>1, <2>2, IntervalInduction
  <2> QED
    BY <2>1, <2>3
<1> DEFINE joins == Joins(rec, tables)
<1>5. joins = f[N] /\ Standing(joins, tables) /\ Cardinality(ToSet(joins)) >= N
  BY <1>1, <1>4
<1> HIDE DEF joins
<1>6. ToSet(joins) = tables
  BY <1>0, <1>2, <1>5
<1> QED
  BY <1>5, <1>6 DEF joins

-----------------------------------------------------------------------------
(* The tables on the way to fields that are made.                          *)
TablesInv == TypeOK /\ AliasesApart /\ ParentsFirst /\ FieldsJoined

LEMMA OwnElements ==
    ASSUME NEW S, NEW s \in Seq(S)
    PROVE  s \in Seq(ToSet(s))
<1>1. Len(s) \in Nat /\ DOMAIN s = 1..Len(s) /\ s \in [1..Len(s) -> S]
  BY LenProperties
<1>2. \A i \in 1..Len(s) : s[i] \in ToSet(s)
  BY <1>1 DEF ToSet
<1>3. s \in [1..Len(s) -> ToSet(s)]
  BY <1>1, <1>2
<1> QED
  BY <1>1, <1>3

LEMMA PathHasAliases ==
    ASSUME TablesInv, NEW n \in Made, NEW k \in 1..(Len(n) - 1)
    PROVE  SubSeq(n, 1, k) \in Tables /\ qtables[SubSeq(n, 1, k)] \in Nat
<1>0. n \in Names /\ Len(n) \in Nat /\ qfields[n] = "made"
  BY NameLength DEF Made
<1> DEFINE Table(j) == SubSeq(n, 1, Len(n) - j)
           T == {j \in 1..(Len(n) - 1) : qtables[Table(j)] \in Nat}
<1>1. ASSUME NEW j \in 1..(Len(n) - 1), \A i \in 1..(j - 1) : i \in T
      PROVE  j \in T
  <2>1. CASE j = 1
    <3>1. Len(n) > 1 /\ TableOf(n) = Table(j)
      BY <1>0, <2>1 DEF TableOf, Front
    <3> QED
      BY <1>0, <3>1 DEF TablesInv, FieldsJoined
  <2>2. CASE j # 1
    <3> DEFINE m == Len(n) - (j - 1)
               p == SubSeq(n, 1, m)
    <3>1. /\ j - 1 \in 1..(j - 1) /\ m \in Nat /\ m > 1 /\ m < Len(n)
          /\ m - 1 = Len(n) - j
      BY <1>0, <2>2
    <3>2. qtables[p] \in Nat
      BY <1>1, <3>1
    <3>3. /\ TableOf(p) = SubSeq(n, 1, m - 1)
          /\ p \in Tables /\ Len(p) = m
      BY <1>0, <3>1, ParentPath, TablePath
    <3>4. qtables[p] # Absent
      BY <3>2, QueryModelAssumption
    <3>5. qtables[TableOf(p)] \in Nat
      BY <3>1, <3>3, <3>4 DEF TablesInv, ParentsFirst
    <3>6. TableOf(p) = Table(j)
      BY <3>1, <3>3
    <3> QED
      BY <3>5, <3>6
  <2> QED
    BY <2>1, <2>2
<1>2. Len(n) - k \in T
  <2> DEFINE b == Len(n) - 1
  <2> HIDE DEF T
  <2>1. b \in Nat /\ 1 \in Nat /\ Len(n) - k \in 1..b
    BY <1>0
  <2>2. \A j \in 1..b : (\A i \in 1..(j - 1) : i \in T) => j \in T
    BY <1>1
  <2> HIDE DEF b
  <2>3. \A j \in 1..b : j \in T
    BY <2>1, <2>2, IntervalInduction
  <2> QED
    BY <2>1, <2>3
<1>3. Table(Len(n) - k) = SubSeq(n, 1, k)
  <2>1. Len(n) - (Len(n) - k) = k
    BY <1>0
  <2> QED
    BY <2>1
<1>4. SubSeq(n, 1, k) \in Tables
  BY <1>0, TablePath
<1> QED
  BY <1>2, <1>3, <1>4

LEMMA OnUsedTables ==
    ASSUME NEW columns, NEW n \in columns, NEW k, k \in 1..(Len(n) - 1)
    PROVE  SubSeq(n, 1, k) \in UsedTables(columns)
BY DEF UsedTables

LEMMA FrontIsUsed ==
    ASSUME NEW columns, columns \subseteq Made, NEW f \in columns, Front(f) # <<>>
    PROVE  Front(f) \in UsedTables(columns)
<1>1. f \in Names
  BY DEF Made
<1>2. f \in Seq(ToSet(f)) /\ Len(f) \in Nat /\ Len(f) > 0
  BY <1>1, NameLength
<1>3. Len(f) # 1
  <2>1. SUFFICES ASSUME Len(f) = 1 PROVE Front(f) = <<>>
    OBVIOUS
  <2>2. Front(f) \in Seq(ToSet(f)) /\ Len(Front(f)) = 0
    BY <1>2, <2>1 DEF Front
  <2> QED
    BY <2>2, EmptySeq
<1>4. Len(f) - 1 \in 1..(Len(f) - 1)
  <2>1. \A m \in Nat : m > 0 /\ m # 1 => m - 1 \in 1..(m - 1)
    OBVIOUS
  <2> QED
    BY <1>2, <1>3, <2>1
<1> QED
  BY <1>4, OnUsedTables DEF Front

LEMMA UsedTablesJoinable ==
    ASSUME TablesInv, NEW rec, rec.alias = qtables,
           NEW columns, columns \subseteq Made
    PROVE  /\ UsedTables(columns) \subseteq Tables
           /\ Joinable(rec, UsedTables(columns))
<1> DEFINE tables == UsedTables(columns)
<1>1. ASSUME NEW p \in tables
      PROVE  \E n \in columns : \E k \in 1..(Len(n) - 1) : p = SubSeq(n, 1, k)
  BY DEF UsedTables
<1>2. ASSUME NEW n \in columns, NEW k \in 1..(Len(n) - 1)
      PROVE  /\ SubSeq(n, 1, k) \in tables
             /\ n \in Seq(ToSet(n)) /\ Len(n) \in Nat
             /\ SubSeq(n, 1, k) \in Tables /\ qtables[SubSeq(n, 1, k)] \in Nat
  <2>1. n \in Names
    BY DEF Made
  <2>2. n \in Seq(ToSet(n)) /\ Len(n) \in Nat
    BY <2>1, NameLength
  <2>3. SubSeq(n, 1, k) \in tables
    BY DEF UsedTables
  <2> QED
    BY <2>2, <2>3, PathHasAliases
<1> HIDE DEF tables
<1>3. \A p \in tables : p \in Tables /\ qtables[p] \in Nat
  BY <1>1, <1>2
<1>4. Closed(tables)
  <2> SUFFICES ASSUME NEW p \in tables
               PROVE  /\ p \in Seq(ToSet(p)) /\ p # <<>>
                      /\ \A j \in 1..Len(p) : SubSeq(p, 1, j) \in tables
    BY DEF Closed
  <2>1. PICK n \in columns : \E k \in 1..(Len(n) - 1) : p = SubSeq(n, 1, k)
    BY <1>1
  <2>2. PICK k \in 1..(Len(n) - 1) : p = SubSeq(n, 1, k)
    BY <2>1
  <2>3. n \in Seq(ToSet(n)) /\ Len(n) \in Nat
    BY <1>2
  <2>4. p \in Seq(ToSet(n)) /\ Len(p) = k
    BY <2>2, <2>3
  <2>5. p \in Seq(ToSet(p)) /\ p # <<>>
    BY <2>4, OwnElements
  <2>6. ASSUME NEW j \in 1..Len(p) PROVE SubSeq(p, 1, j) \in tables
    <3>1. j \in 1..k /\ j \in 1..(Len(n) - 1)
      BY <2>3, <2>4
    <3>2. SubSeq(p, 1, j) = SubSeq(n, 1, j)
      BY <2>2, <2>3, <3>1
    <3> QED
      BY <1>2, <3>1, <3>2
  <2> QED
    BY <2>5, <2>6
<1>5. IsFiniteSet(tables)
  <2> DEFINE a == [p \in tables |-> qtables[p]]
             R == FirstAlias..MaxAlias
  <2>1. \A p \in tables : qtables[p] \in R
    BY <1>3, QueryModelAssumption DEF TablesInv, TypeOK
  <2>2. a \in Injection(tables, R)
    BY <1>3, <2>1 DEF TablesInv, AliasesApart, Injection, IsInjective
  <2>3. IsFiniteSet(R)
    BY QueryModelAssumption, FS_Interval
  <2> HIDE DEF a, R
  <2> QED
    BY <2>2, <2>3, FS_Injection
<1> QED
  BY <1>3, <1>4, <1>5 DEF Joinable, tables

(* What the joins of a statement over such fields are. *)
JoinedFor(joins, columns) ==
    /\ joins \in Seq(Tables) /\ IsInjective(joins)
    /\ ToSet(joins) = UsedTables(columns)
    /\ \A p \in ToSet(joins) : qtables[p] \in Nat
    /\ Cardinality({qtables[p] : p \in ToSet(joins)}) = Len(joins)
    /\ \A i \in DOMAIN joins :
         \/ Len(joins[i]) = 1
         \/ \E j \in 1..(i - 1) : joins[j] = Front(joins[i])
    /\ \A f \in columns : Front(f) = <<>> \/ Contains(joins, Front(f))

LEMMA JoinsOfColumns ==
    ASSUME TablesInv, NEW rec, rec.alias = qtables,
           NEW columns, columns \subseteq Made
    PROVE  JoinedFor(Joins(rec, UsedTables(columns)), columns)
<1> DEFINE joins == Joins(rec, UsedTables(columns))
<1>1. UsedTables(columns) \subseteq Tables /\ Joinable(rec, UsedTables(columns))
  BY UsedTablesJoinable
<1>2. Standing(joins, UsedTables(columns)) /\ ToSet(joins) = UsedTables(columns)
  BY <1>1, JoinsStand
<1> HIDE DEF joins
<1>3. joins \in Seq(UsedTables(columns)) /\ IsInjective(joins)
  BY <1>2 DEF Standing
<1>4. /\ Len(joins) \in Nat /\ DOMAIN joins = 1..Len(joins)
      /\ joins \in [1..Len(joins) -> UsedTables(columns)]
  BY <1>3, LenProperties
<1>5. joins \in Seq(Tables)
  BY <1>1, <1>4
<1>6. \A p \in ToSet(joins) : qtables[p] \in Nat
  BY <1>1, <1>2 DEF Joinable
<1>7. Cardinality({qtables[p] : p \in ToSet(joins)}) = Len(joins)
  <2> DEFINE a == [i \in 1..Len(joins) |-> qtables[joins[i]]]
  <2>1. \A i \in 1..Len(joins) : joins[i] \in Tables /\ qtables[joins[i]] \in Nat
    BY <1>1, <1>2, <1>4, <1>6 DEF ToSet
  <2>2. a \in Seq(Nat) /\ Len(a) = Len(joins) /\ DOMAIN a = 1..Len(joins)
    BY <1>4, <2>1
  <2>3. IsInjective(a)
    BY <1>3, <1>4, <2>1 DEF IsInjective, TablesInv, AliasesApart
  <2>4. ToSet(a) = {qtables[p] : p \in ToSet(joins)}
    BY <1>4 DEF ToSet
  <2> HIDE DEF a
  <2> QED
    BY <2>2, <2>3, <2>4, DistinctCardinality
<1>8. ASSUME NEW f \in columns, Front(f) # <<>>
      PROVE  Contains(joins, Front(f))
  <2>1. Front(f) \in UsedTables(columns)
    BY <1>8, FrontIsUsed
  <2> QED
    BY <1>2, <1>4, <2>1 DEF Contains, ToSet
<1>9. \A i \in DOMAIN joins :
         \/ Len(joins[i]) = 1
         \/ \E j \in 1..(i - 1) : joins[j] = Front(joins[i])
  BY <1>2 DEF Standing
<1> QED
  BY <1>2, <1>3, <1>5, <1>6, <1>7, <1>8, <1>9 DEF JoinedFor, joins

-----------------------------------------------------------------------------
LEMMA StatementParts ==
    ASSUME NEW rec, NEW tables, NEW columns, NEW names, NEW values
    PROVE  LET stmt == Statement(rec, tables, columns, names, values)
               joins == Joins(rec, tables)
               all == JoinNames(rec, joins) \o names
           IN  /\ stmt.joins = joins /\ stmt.columns = columns /\ stmt.names = all
               /\ stmt.params = Bind(all, JoinValues(rec, joins) \o values)
BY DEF Statement

LEMMA StatementJoins ==
    ASSUME TablesInv, NEW rec, rec.alias = qtables, NEW used, used \subseteq Made,
           NEW columns, NEW names, NEW values
    PROVE  LET stmt == Statement(rec, UsedTables(used), columns, names, values) IN
           /\ WellJoined(stmt) /\ Declared(stmt, used)
           /\ \A f : Front(f) \in UsedTables(used) => Contains(stmt.joins, Front(f))
<1> DEFINE stmt == Statement(rec, UsedTables(used), columns, names, values)
<1>1. stmt.joins = Joins(rec, UsedTables(used))
  BY StatementParts
<1> HIDE DEF stmt
<1> DEFINE joins == stmt.joins
<1>2. JoinedFor(joins, used)
  BY <1>1, JoinsOfColumns
<1>3. DOMAIN joins = 1..Len(joins)
  BY <1>2, LenProperties DEF JoinedFor
<1>4. \A f : Front(f) \in UsedTables(used) => Contains(joins, Front(f))
  BY <1>2, <1>3 DEF JoinedFor, Contains, ToSet
<1>5. WellJoined(stmt) /\ Declared(stmt, used)
  BY <1>2 DEF JoinedFor, WellJoined, Declared
<1> QED
  BY <1>4, <1>5 DEF stmt

LEMMA ListParts ==
    ASSUME NEW filters, NEW rec \in Lists(filters)
    PROVE  /\ rec.alias = qtables /\ rec.val = [f \in Made |-> <<"own", f>>]
           /\ rec.modified \subseteq Made /\ rec.filters \in filters
           /\ rec.sorts \in Seq(Made) /\ ToSet(rec.sorts) \subseteq Made
           /\ rec.page = "page"
<1>1. /\ rec.alias = qtables /\ rec.val = [f \in Made |-> <<"own", f>>]
      /\ rec.modified \subseteq Made /\ rec.filters \in filters
      /\ rec.sorts \in {<<>>} \cup {<<f>> : f \in Made} /\ rec.page = "page"
  BY DEF Lists
<1>2. rec.sorts \in Seq(Made)
  <2>1. <<>> \in Seq(Made) /\ \A f \in Made : <<f>> \in Seq(Made)
    OBVIOUS
  <2> QED
    BY <1>1, <2>1
<1>3. ToSet(rec.sorts) \subseteq Made
  BY <1>2 DEF ToSet
<1> QED
  BY <1>1, <1>2, <1>3

LEMMA FilterFieldsMade ==
    ASSUME NEW rec \in Lists(FilterSets(Made))
    PROVE  FilterFields(rec) \in Seq(Made) /\ ToSet(FilterFields(rec)) \subseteq Made
<1>1. rec.filters \in FilterSets(Made)
  BY ListParts
<1> DEFINE fields == [i \in DOMAIN rec.filters |-> rec.filters[i].field]
<1>2. fields \in Seq(Made)
  <2>1. CASE rec.filters = <<>>
    <3>1. DOMAIN rec.filters = 1..0
      BY <2>1
    <3> QED
      BY <3>1
  <2>2. CASE \E f \in Made, s \in SegmentLists :
                rec.filters = <<[field |-> f, segments |-> s]>>
    <3>1. DOMAIN rec.filters = 1..1 /\ rec.filters[1].field \in Made
      BY <2>2
    <3> QED
      BY <3>1
  <2>3. CASE \E p \in Made \X Made, s \in SegmentLists, r \in SegmentLists :
                rec.filters = <<[field |-> p[1], segments |-> s],
                                [field |-> p[2], segments |-> r]>>
    <3>1. /\ DOMAIN rec.filters = 1..2
          /\ rec.filters[1].field \in Made /\ rec.filters[2].field \in Made
      BY <2>3
    <3>2. \A i \in 1..2 : rec.filters[i].field \in Made
      <4>1. \A i \in 1..2 : i = 1 \/ i = 2
        OBVIOUS
      <4> QED
        BY <3>1, <4>1
    <3> QED
      BY <3>1, <3>2
  <2> QED
    BY <1>1, <2>1, <2>2, <2>3 DEF FilterSets
<1>3. FilterFields(rec) = fields
  BY DEF FilterFields
<1> HIDE DEF fields
<1>4. ToSet(fields) \subseteq Made
  BY <1>2 DEF ToSet
<1> QED
  BY <1>2, <1>3, <1>4

(* Each kind of SELECT joins the tables of fields that are made. *)
LEMMA EveryStatementJoins == TablesInv => JoinsDeclareAliases
<1> SUFFICES ASSUME TablesInv PROVE JoinsDeclareAliases
  OBVIOUS
<1>1. ASSUME NEW rec \in Lists(FilterSets(Made))
      PROVE  \A stmt \in {gen_select_count(rec), gen_select_ids(rec)} :
                WellJoined(stmt) /\ Declared(stmt, stmt.columns)
  <2> DEFINE where == ToSet(FilterFields(rec))
             columns == ToSet(FilterFields(rec) \o rec.sorts)
  <2>1. rec.alias = qtables /\ where \subseteq Made /\ columns \subseteq Made
    <3>1. FilterFields(rec) \o rec.sorts \in Seq(Made)
      BY FilterFieldsMade, ListParts, ConcatProperties
    <3>2. columns \subseteq Made
      BY <3>1 DEF ToSet
    <3> QED
      BY <3>2, FilterFieldsMade, ListParts
  <2> DEFINE count == Statement(rec, UsedTables(where), where,
                                WhereNames(rec), WhereValues(rec))
             ids == Statement(rec, UsedTables(columns), columns,
                              Append(WhereNames(rec), <<"pg">>),
                              Append(WhereValues(rec), rec.page))
  <2>2. gen_select_count(rec) = count /\ gen_select_ids(rec) = ids
    BY DEF gen_select_count, gen_select_ids
  <2> HIDE DEF where, columns
  <2>3. count.columns = where /\ ids.columns = columns
    BY StatementParts
  <2>4. WellJoined(count) /\ Declared(count, where)
    BY <2>1, StatementJoins
  <2>5. WellJoined(ids) /\ Declared(ids, columns)
    BY <2>1, StatementJoins
  <2> QED
    BY <2>2, <2>3, <2>4, <2>5
<1>2. ASSUME NEW rec \in Lists({<<>>}), NEW fields \in SUBSET Made
      PROVE  LET one == gen_select_one(rec, fields, "id")
                 page == gen_select_by_ids(rec, fields, Ids)
             IN  /\ WellJoined(one) /\ Declared(one, one.columns)
                 /\ WellJoined(page) /\ Declared(page, fields)
                 /\ UsedTables(ToSet(rec.sorts)) \subseteq UsedTables(fields)
                      => Declared(page, page.columns)
  <2> DEFINE sorts == ToSet(rec.sorts)
             one == Statement(rec, UsedTables(fields), fields, << <<"id">> >>, <<"id">>)
             page == Statement(rec, UsedTables(fields), fields \cup sorts,
                               [i \in DOMAIN Ids |-> <<"id", i - 1>>], Ids)
  <2>1. rec.alias = qtables /\ sorts \subseteq Made /\ fields \subseteq Made
    BY ListParts
  <2>2. gen_select_one(rec, fields, "id") = one /\ gen_select_by_ids(rec, fields, Ids) = page
    BY DEF gen_select_one, gen_select_by_ids
  <2> HIDE DEF sorts
  <2>3. one.columns = fields /\ page.columns = fields \cup sorts
    BY StatementParts
  <2>4. WellJoined(one) /\ Declared(one, fields)
    BY <2>1, StatementJoins
  <2>5. /\ WellJoined(page) /\ Declared(page, fields)
        /\ \A f : Front(f) \in UsedTables(fields) => Contains(page.joins, Front(f))
    BY <2>1, StatementJoins
  <2> HIDE DEF one, page
  <2>6. UsedTables(sorts) \subseteq UsedTables(fields) => Declared(page, page.columns)
    BY <2>1, <2>3, <2>5, FrontIsUsed DEF Declared
  <2> QED
    BY <2>2, <2>3, <2>4, <2>5, <2>6 DEF sorts
<1> QED
  BY <1>1, <1>2 DEF JoinsDeclareAliases

(* SqlGenius.h:404: for every model, whatever threads resolved its fields  *)
(* in whatever order, and whatever aliases its tables got, a SELECT over   *)
(* the fields joins each table once, after the one that it hangs on, and   *)
(* declares the alias of every column it names.                            *)
THEOREM StatementsAreJoined == Spec => []JoinsDeclareAliases
<1>1. TypeOK /\ AliasesApart /\ ParentsFirst /\ FieldsJoined => JoinsDeclareAliases
  BY EveryStatementJoins DEF TablesInv
<1> QED
  BY <1>1, QueryTypeCorrect, TablesNamedApart, PTL

-----------------------------------------------------------------------------
(* The parameters of a statement.  If no name occurs twice, each place of  *)
(* the text gets the value that was given with its name.                   *)
LEMMA BindDistinct ==
    ASSUME NEW A, NEW B, NEW names \in Seq(A), IsInjective(names),
           NEW values \in Seq(B), Len(values) = Len(names)
    PROVE  [i \in DOMAIN names |-> Bind(names, values)[names[i]]] = values
<1>1. /\ Len(names) \in Nat /\ DOMAIN names = 1..Len(names)
      /\ DOMAIN values = 1..Len(names) /\ values \in [1..Len(names) -> B]
  BY LenProperties
<1>2. ASSUME NEW i \in 1..Len(names)
      PROVE  Bind(names, values)[names[i]] = values[i]
  <2> DEFINE First(k) == names[k] = names[i] /\ \A j \in 1..(k - 1) : names[j] # names[i]
             f == CHOOSE k \in DOMAIN names : First(k)
  <2>1. \A j, k \in 1..Len(names) : names[j] = names[k] => j = k
    BY <1>1 DEF IsInjective
  <2>2. First(i)
    <3>1. \A j \in 1..(i - 1) : j \in 1..Len(names) /\ j # i
      BY <1>1
    <3> QED
      BY <2>1, <3>1
  <2>3. f = i
    <3>1. f \in DOMAIN names /\ First(f)
      BY <1>1, <2>2
    <3> QED
      BY <1>1, <2>1, <3>1
  <2>4. names[i] \in {names[j] : j \in DOMAIN names}
    BY <1>1
  <2>5. Bind(names, values)[names[i]] = values[f]
    BY <2>4 DEF Bind
  <2> QED
    BY <2>3, <2>5
<1> DEFINE bound == [i \in DOMAIN names |-> Bind(names, values)[names[i]]]
<1>3. bound = [i \in 1..Len(names) |-> values[i]]
  BY <1>1, <1>2
<1>4. values = [i \in 1..Len(names) |-> values[i]]
  BY <1>1
<1> QED
  BY <1>3, <1>4

(* The joins on a reference that the user modified, after k joins. *)
SmartRounds(rec, joins, f) ==
    /\ SmartJoins(rec, joins) = f[Len(joins)]
    /\ f[0] = <<>>
    /\ \A k \in 1..Len(joins) :
         f[k] = IF joins[k] \in rec.modified THEN Append(f[k - 1], joins[k]) ELSE f[k - 1]

LEMMA SmartJoinsEquation ==
    ASSUME NEW rec, NEW S, NEW joins, joins \in Seq(S)
    PROVE  \E f : SmartRounds(rec, joins, f)
<1> DEFINE n == Len(joins)
           Q == Seq(S)
           Add(x, k) == IF joins[k] \in rec.modified THEN Append(x, joins[k]) ELSE x
           Body(f) == [k \in 0..n |-> IF k = 0 THEN <<>> ELSE Add(f[k - 1], k)]
           Solves(f) == f = Body(f)
           F == CHOOSE f : Solves(f)
           below == [k \in 0..n |-> k - 1]
           step == [k \in 0..n |-> [x \in Q |-> IF k = 0 THEN x ELSE Add(x, k)]]
           first == <<>>
<1>0. n \in Nat /\ \A k \in 1..n : joins[k] \in S
  BY LenProperties
<1>1. SmartJoins(rec, joins) = F[n]
  <2>1. SmartJoins(rec, joins)
          = (CHOOSE f : f = [k \in 0..n |->
                IF k = 0 THEN <<>>
                ELSE IF joins[k] \in rec.modified THEN Append(f[k - 1], joins[k])
                ELSE f[k - 1]])[n]
    BY DEF SmartJoins
  <2> QED
    BY <2>1
<1>2. IsRecursion(Q, 0, n, first, below, step)
  <2>1. \A k \in 1..n, x \in Q : Add(x, k) \in Q
    <3> TAKE k \in 1..n, x \in Q
    <3>1. CASE joins[k] \in rec.modified
      BY <1>0, <3>1, AppendProperties
    <3>2. CASE joins[k] \notin rec.modified
      BY <3>2
    <3> QED
      BY <3>1, <3>2
  <2> HIDE DEF Add
  <2>2. \A k \in 0..n : k = 0 \/ k \in 1..n
    BY <1>0
  <2>3. first \in Q
    OBVIOUS
  <2> HIDE DEF Q
  <2>4. step \in [0..n -> [Q -> Q]]
    BY <2>1, <2>2
  <2>5. below \in [0..n -> Int] /\ \A k \in 0..n : k # 0 => below[k] \in 0..(k - 1)
    BY <1>0
  <2> HIDE DEF below, step, first, n
  <2> QED
    BY <1>0, <2>3, <2>4, <2>5 DEF IsRecursion
<1>3. \E f : Solves(f)
  <2>0. first = <<>>
    OBVIOUS
  <2> HIDE DEF Add, n
  <2>1. \A k \in 0..n : below[k] = k - 1
    OBVIOUS
  <2>2. \A k \in 0..n, x \in Q : k # 0 => step[k][x] = Add(x, k)
    OBVIOUS
  <2> HIDE DEF below, step, Q, first
  <2>3. PICK f \in [0..n -> Q] :
           \A k \in 0..n : f[k] = IF k = 0 THEN first ELSE step[k][f[below[k]]]
    BY ONLY <1>2, RecursionExists
  <2>4. ASSUME NEW k \in 0..n
        PROVE  f[k] = IF k = 0 THEN <<>> ELSE Add(f[k - 1], k)
    <3>1. CASE k = 0
      BY <2>0, <2>3, <3>1
    <3>2. CASE k # 0
      <4>1. k - 1 \in 0..n
        BY <1>0, <3>2
      <4>2. f[k] = step[k][f[k - 1]]
        BY <2>1, <2>3, <3>2
      <4> QED
        BY <2>2, <2>3, <3>2, <4>1, <4>2
    <3> QED
      BY <3>1, <3>2
  <2>5. f = Body(f)
    BY <2>3, <2>4
  <2>6. Solves(f)
    BY <2>5, Zenon DEF Add
  <2> HIDE DEF Solves
  <2> QED
    BY <2>6
<1>4. F = Body(F)
  <2>1. Solves(F)
    <3> HIDE DEF Solves
    <3> QED
      BY <1>3
  <2> QED
    BY <2>1
<1> HIDE DEF F
<1>5. F[0] = <<>> /\ \A k \in 1..n : F[k] = Add(F[k - 1], k)
  <2>1. \A k \in 0..n : F[k] = IF k = 0 THEN <<>> ELSE Add(F[k - 1], k)
    BY <1>4
  <2> HIDE DEF Add, n
  <2>2. 0 \in 0..n /\ \A k \in 1..n : k \in 0..n /\ k # 0
    BY <1>0
  <2> QED
    BY <2>1, <2>2
<1>6. SmartRounds(rec, joins, F)
  BY <1>1, <1>5 DEF SmartRounds
<1> QED
  BY <1>6

LEMMA SmartJoinsDistinct ==
    ASSUME NEW rec, NEW S, NEW joins, joins \in Seq(S), IsInjective(joins)
    PROVE  SmartJoins(rec, joins) \in Seq(S) /\ IsInjective(SmartJoins(rec, joins))
<1>0. /\ Len(joins) \in Nat /\ DOMAIN joins = 1..Len(joins)
      /\ \A k \in 1..Len(joins) : joins[k] \in S
      /\ \A i, k \in 1..Len(joins) : joins[i] = joins[k] => i = k
  <2>1. Len(joins) \in Nat /\ DOMAIN joins = 1..Len(joins) /\ joins \in [1..Len(joins) -> S]
    BY LenProperties
  <2> QED
    BY <2>1 DEF IsInjective
<1>1. PICK f : SmartRounds(rec, joins, f)
  BY SmartJoinsEquation
<1> DEFINE N == Len(joins)
           Good(k) == /\ f[k] \in Seq(S) /\ IsInjective(f[k])
                      /\ ToSet(f[k]) \subseteq {joins[i] : i \in 1..k}
           T == {k \in 0..N : Good(k)}
<1>2. ASSUME NEW k \in 0..N, \A j \in 0..(k - 1) : j \in T
      PROVE  k \in T
  <2>1. CASE k = 0
    <3>1. f[k] = <<>> /\ <<>> \in Seq(S) /\ DOMAIN <<>> = {}
      BY <1>1, <2>1 DEF SmartRounds
    <3> QED
      BY <3>1 DEF IsInjective, ToSet
  <2>2. CASE k # 0
    <3> DEFINE before == f[k - 1]
    <3>1. k \in 1..N /\ k - 1 \in 0..(k - 1)
      BY <1>0, <2>2
    <3>2. /\ before \in Seq(S) /\ IsInjective(before)
          /\ ToSet(before) \subseteq {joins[i] : i \in 1..(k - 1)}
      BY <1>2, <3>1
    <3>3. f[k] = IF joins[k] \in rec.modified THEN Append(before, joins[k]) ELSE before
      BY <1>1, <3>1 DEF SmartRounds
    <3>4. /\ \A i \in 1..(k - 1) : i \in 1..N /\ i \in 1..k /\ i # k
          /\ k \in 1..k /\ joins[k] \in S
      BY <1>0, <3>1
    <3>5. joins[k] \notin ToSet(before)
      BY <1>0, <3>1, <3>2, <3>4
    <3> HIDE DEF before
    <3>6. CASE joins[k] \in rec.modified
      <4>1. f[k] = Append(before, joins[k])
        BY <3>3, <3>6
      <4>2. /\ f[k] \in Seq(S) /\ IsInjective(f[k])
            /\ ToSet(f[k]) = ToSet(before) \cup {joins[k]}
        BY <3>2, <3>4, <3>5, <4>1, AppendSet
      <4> QED
        BY <3>2, <3>4, <4>2
    <3>7. CASE joins[k] \notin rec.modified
      <4>1. f[k] = before
        BY <3>3, <3>7
      <4> QED
        BY <3>2, <3>4, <4>1
    <3> QED
      BY <3>6, <3>7
  <2> QED
    BY <2>1, <2>2
<1>3. N \in T
  <2> HIDE DEF T
  <2>1. N \in 0..N /\ 0 \in Nat /\ N \in Nat
    BY <1>0
  <2>2. \A k \in 0..N : (\A j \in 0..(k - 1) : j \in T) => k \in T
    BY <1>2
  <2> HIDE DEF N
  <2>3. \A k \in 0..N : k \in T
    BY <2>1, <2>2, IntervalInduction
  <2> QED
    BY <2>1, <2>3
<1> QED
  BY <1>1, <1>3 DEF SmartRounds

(* The names of the parameters of joins, and of the other parameters.      *)
SmartNames == {<<"smart_join", k>> : k \in Nat}
OwnNames == {<<"f", k>> : k \in Nat} \cup {<<"id", k>> : k \in Nat}
            \cup {<<"pg">>, <<"id">>}

LEMMA NamesApart == SmartNames \cap OwnNames = {}
<1> SUFFICES ASSUME NEW k \in Nat, <<"smart_join", k>> \in OwnNames
             PROVE  FALSE
  BY DEF SmartNames
<1> DEFINE x == <<"smart_join", k>>
<1>1. Len(x) = 2 /\ x[1] = "smart_join"
  OBVIOUS
<1>2. /\ Len(<<"pg">>) = 1 /\ Len(<<"id">>) = 1
      /\ \A j \in Nat : <<"f", j>>[1] = "f" /\ <<"id", j>>[1] = "id"
  OBVIOUS
<1>3. x \in OwnNames
  OBVIOUS
<1> HIDE DEF x
<1> QED
  BY <1>1, <1>2, <1>3 DEF OwnNames

(* The parameters of joins: their names differ because the aliases do.     *)
LEMMA JoinParameters ==
    ASSUME TablesInv, NEW rec, rec.alias = qtables,
           NEW joins, NEW columns, JoinedFor(joins, columns)
    PROVE  /\ JoinNames(rec, joins) \in Seq(SmartNames)
           /\ IsInjective(JoinNames(rec, joins))
           /\ JoinValues(rec, joins) \in Seq(ToSet(JoinValues(rec, joins)))
           /\ Len(JoinValues(rec, joins)) = Len(JoinNames(rec, joins))
<1> DEFINE smart == SmartJoins(rec, joins)
           aliased == {p \in Tables : qtables[p] \in Nat}
           names == [i \in DOMAIN smart |-> <<"smart_join", rec.alias[smart[i]]>>]
           values == [i \in DOMAIN smart |-> rec.val[smart[i]]]
<1>1. joins \in Seq(aliased) /\ IsInjective(joins)
  <2>1. /\ joins \in Seq(Tables) /\ IsInjective(joins)
        /\ \A p \in ToSet(joins) : qtables[p] \in Nat
    BY DEF JoinedFor
  <2>2. /\ Len(joins) \in Nat /\ DOMAIN joins = 1..Len(joins)
        /\ joins \in [1..Len(joins) -> Tables]
    BY <2>1, LenProperties
  <2>3. \A i \in 1..Len(joins) : joins[i] \in aliased
    BY <2>1, <2>2 DEF ToSet
  <2>4. joins \in [1..Len(joins) -> aliased]
    BY <2>2, <2>3
  <2> HIDE DEF aliased
  <2> QED
    BY <2>1, <2>2, <2>4
<1>2. smart \in Seq(aliased) /\ IsInjective(smart)
  <2> HIDE DEF aliased
  <2> QED
    BY <1>1, SmartJoinsDistinct
<1> HIDE DEF smart
<1> DEFINE n == Len(smart)
<1>3. /\ n \in Nat /\ DOMAIN smart = 1..n
      /\ \A i \in 1..n : smart[i] \in Tables /\ qtables[smart[i]] \in Nat
      /\ \A i, j \in 1..n : smart[i] = smart[j] => i = j
  <2>1. n \in Nat /\ DOMAIN smart = 1..n /\ smart \in [1..n -> aliased]
    BY <1>2, LenProperties
  <2> QED
    BY <1>2, <2>1 DEF IsInjective
<1> HIDE DEF n
<1>4. \A i \in 1..n : names[i] = <<"smart_join", qtables[smart[i]]>> /\ names[i] \in SmartNames
  BY <1>3 DEF SmartNames
<1>5. names \in Seq(SmartNames) /\ Len(names) = n /\ DOMAIN names = 1..n
  BY <1>3, <1>4
<1>6. Len(values) = n /\ values \in Seq(ToSet(values))
  <2>1. DOMAIN values = 1..n
    BY <1>3
  <2>2. values \in [1..n -> ToSet(values)]
    BY <2>1 DEF ToSet
  <2> HIDE DEF values
  <2> QED
    BY <1>3, <2>2
<1>7. ASSUME NEW i \in 1..n, NEW j \in 1..n, names[i] = names[j]
      PROVE  i = j
  <2>1. <<"smart_join", qtables[smart[i]]>>[2] = <<"smart_join", qtables[smart[j]]>>[2]
    BY <1>4, <1>7
  <2>2. qtables[smart[i]] = qtables[smart[j]]
    BY <2>1
  <2>3. smart[i] = smart[j]
    BY <1>3, <2>2 DEF TablesInv, AliasesApart
  <2> QED
    BY <1>3, <2>3
<1>8. IsInjective(names)
  <2> HIDE DEF names
  <2> QED
    BY <1>5, <1>7 DEF IsInjective
<1>9. JoinNames(rec, joins) = names /\ JoinValues(rec, joins) = values
  BY DEF JoinNames, JoinValues, smart
<1> HIDE DEF names, values
<1> QED
  BY <1>5, <1>6, <1>8, <1>9

(* The names of the joins come first, then others: each has its own       *)
(* value.                                                                  *)
LEMMA StatementParameters ==
    ASSUME TablesInv, NEW rec, rec.alias = qtables,
           NEW used, used \subseteq Made, NEW columns,
           NEW B, NEW names \in Seq(OwnNames), IsInjective(names),
           NEW own \in Seq(B), Len(own) = Len(names)
    PROVE  OwnValues(rec, Statement(rec, UsedTables(used), columns, names, own), own)
<1> DEFINE joins == Joins(rec, UsedTables(used))
           stmt == Statement(rec, UsedTables(used), columns, names, own)
           jn == JoinNames(rec, joins)
           jv == JoinValues(rec, joins)
           A == SmartNames \cup OwnNames
           V == ToSet(jv) \cup B
           all == jn \o names
           values == jv \o own
<1>1. /\ stmt.joins = joins /\ stmt.names = all /\ stmt.params = Bind(all, values)
  BY StatementParts
<1>2. JoinedFor(joins, used)
  BY JoinsOfColumns
<1> HIDE DEF joins, stmt
<1>3. /\ jn \in Seq(SmartNames) /\ IsInjective(jn)
      /\ jv \in Seq(ToSet(jv)) /\ Len(jv) = Len(jn)
  BY <1>2, JoinParameters
<1> HIDE DEF jn, jv
<1>4. jn \in Seq(A) /\ names \in Seq(A) /\ jv \in Seq(V) /\ own \in Seq(V)
  BY <1>3, SeqMonotonic
<1>5. ToSet(jn) \subseteq SmartNames /\ ToSet(names) \subseteq OwnNames
  <2>1. /\ DOMAIN jn = 1..Len(jn) /\ jn \in [1..Len(jn) -> SmartNames]
        /\ DOMAIN names = 1..Len(names) /\ names \in [1..Len(names) -> OwnNames]
    BY <1>3, LenProperties
  <2> QED
    BY <2>1 DEF ToSet
<1>6. ToSet(jn) \cap ToSet(names) = {}
  BY <1>5, NamesApart
<1> HIDE DEF A, V
<1>7. all \in Seq(A) /\ IsInjective(all) /\ Len(all) = Len(jn) + Len(names)
  BY <1>3, <1>4, <1>6, ConcatDistinct
<1>8. values \in Seq(V) /\ Len(values) = Len(jv) + Len(own)
  BY <1>4, ConcatProperties
<1> HIDE DEF all, values
<1>9. [i \in DOMAIN all |-> Bind(all, values)[all[i]]] = values
  <2>1. Len(values) = Len(all)
    BY <1>3, <1>7, <1>8
  <2> QED
    BY <1>7, <1>8, <2>1, BindDistinct
<1>10. getOrderedParams(stmt) = values
  BY <1>1, <1>9 DEF getOrderedParams
<1> QED
  BY <1>1, <1>10 DEF OwnValues, values, jv, stmt

(* The values of a filter: lists of strings; the prover does not know of a *)
(* literal that it is a string.                                            *)
Texts == Seq(STRING \cup {"%"})

LEMMA FilterParameters ==
    ASSUME NEW filter, filter.segments \in SegmentLists
    PROVE  /\ FilterValues(filter) \in Seq(Texts)
           /\ FilterNames(filter) \in Seq(OwnNames) /\ IsInjective(FilterNames(filter))
           /\ Len(FilterNames(filter)) = Len(FilterValues(filter))
           /\ \A i \in DOMAIN FilterNames(filter) : FilterNames(filter)[i] = <<"f", i - 1>>
<1> DEFINE V == Texts
           segments == filter.segments
           pieces == [i \in DOMAIN segments |-> Values(segments[i])]
           values == FilterValues(filter)
           names == [i \in DOMAIN values |-> <<"f", i - 1>>]
<1>1. segments \in Seq([op: STRING, parts: Seq(STRING)])
  BY StatementsAssumption
<1>2. /\ Len(segments) \in Nat /\ DOMAIN segments = 1..Len(segments)
      /\ segments \in [1..Len(segments) -> [op: STRING, parts: Seq(STRING)]]
  BY <1>1, LenProperties
<1>3. ASSUME NEW s \in [op: STRING, parts: Seq(STRING)]
      PROVE  Values(s) \in Seq(V)
  <2> DEFINE C == STRING \cup {"%"}
  <2>1. s.parts \in Seq(C) /\ V = Seq(C)
    <3>1. s.parts \in Seq(STRING) /\ STRING \subseteq C
      OBVIOUS
    <3> HIDE DEF C
    <3>2. s.parts \in Seq(C)
      BY <3>1, SeqMonotonic
    <3> QED
      BY <3>2 DEF Texts, C
  <2>2. <<s.parts>> \in Seq(V) /\ <<>> \in Seq(V)
    BY <2>1
  <2>3. << Append(s.parts, "%") >> \in Seq(V)
    <3> DEFINE parts == s.parts
               e == "%"
    <3>0. parts \in Seq(C) /\ e \in C
      BY <2>1
    <3>1. Append(s.parts, "%") \in V
      <4> HIDE DEF parts, e, C, V
      <4>1. Append(parts, e) \in Seq(C)
        BY <3>0, AppendProperties
      <4> QED
        BY <2>1, <4>1 DEF parts, e
    <3> HIDE DEF V
    <3> QED
      BY <3>1
  <2>4. s.parts # <<>> => << <<s.parts[1]>>, Tail(s.parts) >> \in Seq(V)
    <3> SUFFICES ASSUME s.parts # <<>>
                 PROVE  << <<s.parts[1]>>, Tail(s.parts) >> \in Seq(V)
      OBVIOUS
    <3> HIDE DEF C, V
    <3>1. Tail(s.parts) \in Seq(C) /\ s.parts[1] \in C
      BY <2>1, HeadTailProperties
    <3>2. <<s.parts[1]>> \in Seq(C)
      BY <3>1
    <3> DEFINE a == <<s.parts[1]>>
               b == Tail(s.parts)
    <3>3. a \in V /\ b \in V
      BY <2>1, <3>1, <3>2
    <3> HIDE DEF a, b
    <3>4. <<a, b>> \in Seq(V)
      BY <3>3
    <3> QED
      BY <3>4 DEF a, b
  <2> HIDE DEF V
  <2> QED
    BY <2>2, <2>3, <2>4 DEF Values
<1> HIDE DEF V, segments
<1>4. pieces \in Seq(Seq(V))
  BY <1>2, <1>3
<1>5. values \in Seq(V)
  <2>1. values = FlattenSeq(pieces)
    BY DEF FilterValues, segments
  <2> HIDE DEF pieces, values
  <2> QED
    BY <1>4, <2>1, FlattenSeqType
<1> HIDE DEF values
<1>6. Len(values) \in Nat /\ DOMAIN values = 1..Len(values)
  BY <1>5, LenProperties
<1>7. \A i \in 1..Len(values) : names[i] = <<"f", i - 1>> /\ <<"f", i - 1>> \in OwnNames
  BY <1>6 DEF OwnNames
<1>8. names \in Seq(OwnNames) /\ Len(names) = Len(values) /\ DOMAIN names = 1..Len(values)
  BY <1>6, <1>7
<1>9. IsInjective(names)
  <2> SUFFICES ASSUME NEW i \in 1..Len(values), NEW j \in 1..Len(values), names[i] = names[j]
               PROVE  i = j
    BY <1>8 DEF IsInjective
  <2>1. <<"f", i - 1>>[2] = <<"f", j - 1>>[2]
    BY <1>7
  <2>2. i - 1 = j - 1
    BY <2>1
  <2> QED
    BY <1>6, <2>2
<1>10. FilterNames(filter) = names
  BY DEF FilterNames, ParamName, values
<1> HIDE DEF names
<1> QED
  BY <1>5, <1>7, <1>8, <1>9, <1>10 DEF values, V

(* The names of one filter's parameters differ, and are not the page's.    *)
LEMMA WhereParameters ==
    ASSUME NEW rec \in Lists({f \in FilterSets(Made) : Len(f) <= 1})
    PROVE  /\ WhereNames(rec) \in Seq(OwnNames) /\ IsInjective(WhereNames(rec))
           /\ WhereValues(rec) \in Seq(Texts)
           /\ Len(WhereNames(rec)) = Len(WhereValues(rec))
           /\ <<"pg">> \notin ToSet(WhereNames(rec))
<1> DEFINE names == [i \in DOMAIN rec.filters |-> FilterNames(rec.filters[i])]
           values == [i \in DOMAIN rec.filters |-> FilterValues(rec.filters[i])]
<1>1. rec.filters \in FilterSets(Made) /\ Len(rec.filters) <= 1
  BY DEF Lists
<1>2. WhereNames(rec) = FlattenSeq(names) /\ WhereValues(rec) = FlattenSeq(values)
  BY DEF WhereNames, WhereValues
<1>3. CASE rec.filters = <<>>
  <2>1. DOMAIN rec.filters = {}
    BY <1>3
  <2>2. names = <<>> /\ values = <<>>
    BY <2>1
  <2>3. FlattenSeq(<<>>) = <<>>
    <3>1. <<>> \in Seq({})
      OBVIOUS
    <3> QED
      BY <3>1, FlattenSeqOne
  <2>4. WhereNames(rec) = <<>> /\ WhereValues(rec) = <<>>
    BY <1>2, <2>2, <2>3
  <2>5. <<>> \in Seq(OwnNames) /\ <<>> \in Seq(Texts) /\ DOMAIN <<>> = {}
    OBVIOUS
  <2> QED
    BY <2>4, <2>5 DEF IsInjective, ToSet
<1>4. CASE \E f \in Made, s \in SegmentLists :
              rec.filters = <<[field |-> f, segments |-> s]>>
  <2>1. PICK filter : rec.filters = <<filter>> /\ filter.segments \in SegmentLists
    BY <1>4
  <2> DEFINE fn == FilterNames(filter)
             fv == FilterValues(filter)
  <2>2. /\ fv \in Seq(Texts) /\ fn \in Seq(OwnNames) /\ IsInjective(fn)
        /\ Len(fn) = Len(fv)
        /\ \A i \in DOMAIN fn : fn[i] = <<"f", i - 1>>
    BY <2>1, FilterParameters
  <2>3. DOMAIN rec.filters = 1..1 /\ rec.filters[1] = filter
    BY <2>1
  <2>4. names = [i \in 1..1 |-> fn] /\ values = [i \in 1..1 |-> fv]
    BY <2>3
  <2> HIDE DEF names, values, fn, fv
  <2>5. names = <<fn>> /\ values = <<fv>>
    BY <2>4
  <2>6. FlattenSeq(<<fn>>) = fn /\ FlattenSeq(<<fv>>) = fv
    BY <2>2, FlattenSeqOne
  <2>7. WhereNames(rec) = fn /\ WhereValues(rec) = fv
    BY <1>2, <2>5, <2>6
  <2>8. <<"pg">> \notin ToSet(fn)
    <3> SUFFICES ASSUME NEW i \in DOMAIN fn, fn[i] = <<"pg">>
                 PROVE  FALSE
      BY DEF ToSet
    <3>1. i \in Nat /\ fn[i] = <<"f", i - 1>>
      BY <2>2, LenProperties
    <3>2. <<"f", i - 1>>[1] = <<"pg">>[1]
      BY <3>1
    <3> QED
      BY <3>2
  <2> QED
    BY <2>2, <2>7, <2>8
<1>5. CASE \E p \in Made \X Made, s \in SegmentLists, r \in SegmentLists :
              rec.filters = <<[field |-> p[1], segments |-> s],
                              [field |-> p[2], segments |-> r]>>
  <2>1. Len(rec.filters) = 2
    BY <1>5
  <2> QED
    BY <1>1, <2>1
<1> QED
  BY <1>1, <1>3, <1>4, <1>5 DEF FilterSets

(* Each kind of SELECT, with the names and values that it adds. *)
LEMMA EveryParameterIsOwn == TablesInv => ParametersAreOwn
<1> SUFFICES ASSUME TablesInv PROVE ParametersAreOwn
  OBVIOUS
<1>1. ASSUME NEW rec \in Lists({f \in FilterSets(Made) : Len(f) <= 1})
      PROVE  /\ OwnValues(rec, gen_select_count(rec), WhereValues(rec))
             /\ OwnValues(rec, gen_select_ids(rec), Append(WhereValues(rec), rec.page))
  <2> DEFINE where == ToSet(FilterFields(rec))
             columns == ToSet(FilterFields(rec) \o rec.sorts)
             wn == WhereNames(rec)
             wv == WhereValues(rec)
             B == Texts \cup {rec.page}
             page == <<"pg">>
  <2>1. rec.alias = qtables /\ where \subseteq Made /\ columns \subseteq Made
    <3>1. rec \in Lists(FilterSets(Made))
      BY DEF Lists
    <3>2. FilterFields(rec) \o rec.sorts \in Seq(Made)
      BY <3>1, FilterFieldsMade, ListParts, ConcatProperties
    <3>3. columns \subseteq Made
      BY <3>2 DEF ToSet
    <3> QED
      BY <3>1, <3>3, FilterFieldsMade, ListParts
  <2>2. /\ wn \in Seq(OwnNames) /\ IsInjective(wn) /\ wv \in Seq(Texts)
        /\ Len(wn) = Len(wv) /\ page \notin ToSet(wn)
    BY WhereParameters
  <2>3. /\ gen_select_count(rec) = Statement(rec, UsedTables(where), where, wn, wv)
        /\ gen_select_ids(rec) = Statement(rec, UsedTables(columns), columns,
                                           Append(wn, page), Append(wv, rec.page))
    BY DEF gen_select_count, gen_select_ids
  <2>4. page \in OwnNames
    BY DEF OwnNames
  <2> HIDE DEF where, columns, wn, wv, page, B
  <2>5. OwnValues(rec, gen_select_count(rec), wv)
    BY <2>1, <2>2, <2>3, StatementParameters
  <2>6. Append(wn, page) \in Seq(OwnNames) /\ IsInjective(Append(wn, page))
    BY <2>2, <2>4, AppendSet
  <2>7. Append(wv, rec.page) \in Seq(B) /\ Len(Append(wv, rec.page)) = Len(Append(wn, page))
    <3>1. wv \in Seq(B) /\ rec.page \in B
      <4>1. Texts \subseteq B /\ rec.page \in B
        BY DEF B
      <4> QED
        BY <2>2, <4>1, SeqMonotonic
    <3> QED
      BY <2>2, <3>1, AppendProperties
  <2> DEFINE names == Append(wn, page)
             values == Append(wv, rec.page)
  <2> HIDE DEF names, values
  <2>8. OwnValues(rec, Statement(rec, UsedTables(columns), columns, names, values), values)
    BY <2>1, <2>6, <2>7, StatementParameters DEF names, values
  <2> QED
    BY <2>3, <2>5, <2>8 DEF names, values, wv
<1>2. ASSUME NEW rec \in Lists({<<>>})
      PROVE  /\ OwnValues(rec, gen_select_one(rec, Made, "id"), <<"id">>)
             /\ OwnValues(rec, gen_select_by_ids(rec, Made, Ids), Ids)
  <2> DEFINE name == << <<"id">> >>
             value == <<"id">>
             names == [i \in DOMAIN Ids |-> <<"id", i - 1>>]
             all == Made \cup ToSet(rec.sorts)
  <2>1. rec.alias = qtables /\ Made \subseteq Made
    BY ListParts
  <2>2. /\ gen_select_one(rec, Made, "id") = Statement(rec, UsedTables(Made), Made, name, value)
        /\ gen_select_by_ids(rec, Made, Ids)
             = Statement(rec, UsedTables(Made), all, names, Ids)
    BY DEF gen_select_one, gen_select_by_ids
  <2>3. /\ name \in Seq(OwnNames) /\ IsInjective(name)
        /\ value \in Seq({"id"}) /\ Len(value) = Len(name)
    <3>1. <<"id">> \in OwnNames
      BY DEF OwnNames
    <3>2. name \in Seq(OwnNames) /\ value \in Seq({"id"})
      BY <3>1
    <3>3. Len(value) = 1 /\ Len(name) = 1 /\ DOMAIN name = 1..1
      OBVIOUS
    <3>4. IsInjective(name)
      BY <3>3 DEF IsInjective
    <3> QED
      BY <3>2, <3>3, <3>4
  <2>4. /\ Ids \in Seq(STRING) /\ Len(Ids) \in Nat /\ DOMAIN Ids = 1..Len(Ids)
    BY StatementsAssumption, LenProperties
  <2>5. \A i \in 1..Len(Ids) : names[i] = <<"id", i - 1>> /\ <<"id", i - 1>> \in OwnNames
    BY <2>4 DEF OwnNames
  <2>6. names \in Seq(OwnNames) /\ Len(names) = Len(Ids) /\ DOMAIN names = 1..Len(Ids)
    BY <2>4, <2>5
  <2>7. IsInjective(names)
    <3> SUFFICES ASSUME NEW i \in 1..Len(Ids), NEW j \in 1..Len(Ids), names[i] = names[j]
                 PROVE  i = j
      BY <2>6 DEF IsInjective
    <3>1. <<"id", i - 1>>[2] = <<"id", j - 1>>[2]
      BY <2>5
    <3>2. i - 1 = j - 1
      BY <3>1
    <3> QED
      BY <2>4, <3>2
  <2> HIDE DEF name, value, names, all
  <2>8. OwnValues(rec, gen_select_one(rec, Made, "id"), value)
    BY <2>1, <2>2, <2>3, StatementParameters
  <2>9. OwnValues(rec, gen_select_by_ids(rec, Made, Ids), Ids)
    BY <2>1, <2>2, <2>4, <2>6, <2>7, StatementParameters
  <2> QED
    BY <2>8, <2>9 DEF value
<1> QED
  BY <1>1, <1>2 DEF ParametersAreOwn

(* SqlGenius.h:310: for every model, every list with at most one filter,   *)
(* whatever its value, and every page: each place of the text of a SELECT  *)
(* gets the value meant for it, of its reference, filter, page or row.     *)
THEOREM ParametersMeetTheirPlaces == Spec => []ParametersAreOwn
<1>1. TypeOK /\ AliasesApart /\ ParentsFirst /\ FieldsJoined => ParametersAreOwn
  BY EveryParameterIsOwn DEF TablesInv
<1> QED
  BY <1>1, QueryTypeCorrect, TablesNamedApart, PTL

=============================================================================
