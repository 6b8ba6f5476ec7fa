---------------------------- MODULE PgPoolProofs ----------------------------
(***************************************************************************)
(* For every number of threads and connections and every hard limit, the   *)
(* pool's variables keep their types, it stays within its limit, and the   *)
(* connections it owns are exactly those available and those in use.  The  *)
(* clock's epoch is never compared, the connection that has been idle      *)
(* longest is handed out, and the newest free one is destroyed.            *)
(***************************************************************************)
EXTENDS PgPool, SeqLemmas

-----------------------------------------------------------------------------
(* The inductive invariant.  LeaseConservation and PoolBound are preserved *)
(* only because one thread at a time is in a critical section (MutexOwner) *)
(* and because the loop index stays within storage (ScanInRange).          *)
ScanInRange == \A t \in Threads : pc[t] = "pruning" => scan <= Len(storage)

PoolInv ==
    /\ TypeOK
    /\ MutexOwner
    /\ HoldsWhileUsing
    /\ ScanInRange
    /\ PoolBound
    /\ LeaseConservation

LEMMA InitInv == Init => PoolInv
<1> SUFFICES ASSUME Init PROVE PoolInv
  OBVIOUS
<1> USE PoolAssumption
<1>0. PICK c \in Conns : storage = <<c>> /\ available = <<c>>
  BY DEF Init
<1>1. storage \in Seq(Conns) /\ Len(storage) = 1 /\ storage[1] = c
  BY <1>0
<1>2. TypeOK
  BY <1>0, <1>1 DEF Init, TypeOK, NeverReleased, Labels
<1>3. MutexOwner /\ HoldsWhileUsing /\ ScanInRange /\ PoolBound
  BY <1>1 DEF Init, MutexOwner, HoldsWhileUsing, ScanInRange, PoolBound, Locked
<1>4. LeaseConservation
  <2>1. IsInjective(storage) /\ IsInjective(available)
    BY <1>0, <1>1 DEF IsInjective
  <2>2. InUse = {}
    BY DEF Init, InUse
  <2> QED
    BY <1>0, <2>1, <2>2 DEF LeaseConservation, Init
<1> QED
  BY <1>2, <1>3, <1>4 DEF PoolInv

(* A thread that is pruning and looks at a free connection: where it is in *)
(* both sequences.                                                         *)
LEMMA PrunePositions ==
    ASSUME PoolInv, NEW t \in Threads, PruneDestroy(t)
    PROVE  /\ scan \in 1..Len(storage)
           /\ PosOf(storage[scan]) \in 1..Len(available)
           /\ available[PosOf(storage[scan])] = storage[scan]
<1>1. scan \in 1..Len(storage)
  BY DEF PoolInv, TypeOK, ScanInRange, PruneDestroy
<1>2. \E i \in 1..Len(available) : available[i] = storage[scan]
  <2>1. DOMAIN available = 1..Len(available)
    BY LenProperties DEF PoolInv, TypeOK
  <2> QED
    BY <2>1 DEF PruneDestroy, ToSet
<1> QED
  BY <1>1, <1>2 DEF PosOf

LEMMA AgeRange == 0 \in 0..NeverReleased /\ NeverReleased \in 0..NeverReleased
BY PoolAssumption DEF NeverReleased

LEMMA TypeStep == PoolInv /\ [Next]_vars => TypeOK'
<1> SUFFICES ASSUME PoolInv, [Next]_vars PROVE TypeOK'
  OBVIOUS
<1> USE PoolAssumption
<1> USE DEF PoolInv, TypeOK, Labels, Goto, Unlock
<1>1. CASE UNCHANGED vars
  BY <1>1 DEF vars
<1>2. CASE Tick
  BY <1>2 DEF Tick, OldAge, NeverReleased
<1>3. ASSUME NEW t \in Threads, Acquiring(t) PROVE TypeOK'
  <2>1. CASE Enter(t)
    <3>1. Len(storage) \in Nat
      BY LenProperties
    <3> QED
      BY <2>1, <3>1 DEF Enter
  <2>2. CASE PruneStop(t)
    BY <2>2 DEF PruneStop
  <2>3. CASE PruneSkip(t)
    BY <2>3 DEF PruneSkip
  <2>4. CASE PruneDestroy(t)
    <3>1. storage' \in Seq(Conns) /\ available' \in Seq(Conns)
      BY <2>4, PrunePositions, RemoveAtElements DEF PruneDestroy
    <3>2. scan' \in Nat
      BY <2>4 DEF PruneDestroy
    <3>3. age' \in [Conns -> 0..NeverReleased]
      BY <2>4, AgeRange DEF PruneDestroy
    <3> QED
      BY <2>4, <3>1, <3>2, <3>3 DEF PruneDestroy
  <2>5. CASE Take(t)
    <3>1. Head(available) \in Conns /\ Tail(available) \in Seq(Conns)
      BY <2>5 DEF Take
    <3> QED
      BY <2>5, <3>1 DEF Take
  <2>6. CASE Wait(t)
    BY <2>6 DEF Wait
  <2>7. CASE Timeout(t) \/ SpuriousWake(t)
    BY <2>7 DEF Timeout, SpuriousWake
  <2>8. CASE ResumeNotified(t)
    BY <2>8 DEF ResumeNotified
  <2>9. CASE ResumeTimedOut(t)
    BY <2>9 DEF ResumeTimedOut
  <2>10. CASE Grow(t)
    BY <2>10 DEF Grow
  <2>11. CASE ConnectFails(t)
    BY <2>11 DEF ConnectFails
  <2> QED
    BY <1>3, <2>1, <2>2, <2>3, <2>4, <2>5, <2>6, <2>7, <2>8, <2>9, <2>10,
       <2>11 DEF Acquiring
<1>4. ASSUME NEW t \in Threads, Release(t) PROVE TypeOK'
  <2>1. holds[t] \in Conns
    BY <1>4 DEF Release, HoldsWhileUsing
  <2>2. pc' \in [Threads -> Labels]
    BY <1>4 DEF Release, NotifyOne
  <2>3. age' \in [Conns -> 0..NeverReleased]
    BY <1>4, AgeRange DEF Release
  <2>4. available' \in Seq(Conns)
    BY <1>4, <2>1, AppendProperties DEF Release
  <2> QED
    BY <1>4, <2>2, <2>3, <2>4 DEF Release
<1> QED
  BY <1>1, <1>2, <1>3, <1>4 DEF Next

(* Who owns the mutex and who has a connection. *)
LEMMA ControlStep ==
    PoolInv /\ [Next]_vars => MutexOwner' /\ HoldsWhileUsing' /\ ScanInRange'
<1> DEFINE Goal == MutexOwner' /\ HoldsWhileUsing' /\ ScanInRange'
<1> SUFFICES ASSUME PoolInv, [Next]_vars PROVE Goal
  OBVIOUS
<1> USE PoolAssumption
<1> USE DEF PoolInv, TypeOK, Labels, Goto, Unlock, Locked, MutexOwner,
            HoldsWhileUsing, ScanInRange
<1>1. CASE UNCHANGED vars
  BY <1>1 DEF vars
<1>2. CASE Tick
  BY <1>2 DEF Tick
<1>3. ASSUME NEW t \in Threads, Acquiring(t) PROVE Goal
  <2>1. CASE Enter(t)
    <3>1. Len(storage) \in Nat
      BY LenProperties
    <3> QED
      BY <2>1, <3>1 DEF Enter
  <2>2. CASE PruneStop(t)
    BY <2>2 DEF PruneStop
  <2>3. CASE PruneSkip(t)
    <3>1. Len(storage) \in Nat
      BY LenProperties
    <3> QED
      BY <2>3, <3>1 DEF PruneSkip
  <2>4. CASE PruneDestroy(t)
    <3>1. Len(storage) \in Nat /\ Len(storage') = Len(storage) - 1
      BY <2>4, PrunePositions, RemoveAtElements, LenProperties DEF PruneDestroy
    <3> QED
      BY <2>4, <3>1 DEF PruneDestroy
  <2>5. CASE Take(t)
    <3>1. Head(available) \in Conns
      BY <2>5 DEF Take
    <3> QED
      BY <2>5, <3>1 DEF Take
  <2>6. CASE Wait(t)
    BY <2>6 DEF Wait
  <2>7. CASE Timeout(t) \/ SpuriousWake(t)
    BY <2>7 DEF Timeout, SpuriousWake
  <2>8. CASE ResumeNotified(t)
    BY <2>8 DEF ResumeNotified
  <2>9. CASE ResumeTimedOut(t)
    BY <2>9 DEF ResumeTimedOut
  <2>10. CASE Grow(t)
    BY <2>10 DEF Grow
  <2>11. CASE ConnectFails(t)
    BY <2>11 DEF ConnectFails
  <2> QED
    BY <1>3, <2>1, <2>2, <2>3, <2>4, <2>5, <2>6, <2>7, <2>8, <2>9, <2>10,
       <2>11 DEF Acquiring
<1>4. ASSUME NEW t \in Threads, Release(t) PROVE Goal
  BY <1>4 DEF Release, NotifyOne
<1> QED
  BY <1>1, <1>2, <1>3, <1>4 DEF Next

(* The limit tested by ResumeTimedOut still holds when Grow appends.       *)
LEMMA BoundStep == PoolInv /\ [Next]_vars => PoolBound'
<1> SUFFICES ASSUME PoolInv, [Next]_vars PROVE PoolBound'
  OBVIOUS
<1> USE PoolAssumption
<1>0. Len(storage) \in Nat /\ \A t \in Threads : pc[t] \in Labels
  BY LenProperties DEF PoolInv, TypeOK
<1> USE DEF PoolBound
<1>1. ASSUME storage' = storage,
             \A t \in Threads :
                pc'[t] = "growing" => pc[t] = "growing" \/ Len(storage) < HardLimit
      PROVE  PoolBound'
  BY <1>1 DEF PoolInv
<1>2. CASE UNCHANGED vars \/ Tick
  BY <1>1, <1>2 DEF vars, Tick
<1>3. ASSUME NEW t \in Threads, Acquiring(t) PROVE PoolBound'
  <2>1. CASE PruneDestroy(t)
    <3>1. Len(storage') = Len(storage) - 1
      BY <2>1, PrunePositions, RemoveAtElements DEF PruneDestroy, PoolInv, TypeOK
    <3> QED
      BY <1>0, <2>1, <3>1 DEF PruneDestroy, PoolInv, MinLimit
  <2>2. CASE Grow(t)
    <3>1. Len(storage') = Len(storage) + 1
      BY <2>2, AppendSet DEF Grow, PoolInv, TypeOK
    <3>2. \A u \in Threads : pc'[u] # "growing"
      BY <2>2 DEF Grow, Goto, PoolInv, TypeOK, MutexOwner, Locked
    <3> QED
      BY <1>0, <2>2, <3>1, <3>2 DEF Grow, PoolInv
  <2>3. CASE ResumeTimedOut(t)
    BY <1>1, <2>3 DEF ResumeTimedOut, Goto, PoolInv, TypeOK
  <2>4. CASE Enter(t) \/ PruneStop(t) \/ PruneSkip(t) \/ Take(t) \/ Wait(t)
    BY <1>1, <2>4 DEF Enter, PruneStop, PruneSkip, Take, Wait, Goto, PoolInv,
                     TypeOK
  <2>5. CASE Timeout(t) \/ SpuriousWake(t) \/ ResumeNotified(t) \/ ConnectFails(t)
    BY <1>1, <2>5 DEF Timeout, SpuriousWake, ResumeNotified, ConnectFails,
                     Goto, PoolInv, TypeOK
  <2> QED
    BY <1>3, <2>1, <2>2, <2>3, <2>4, <2>5 DEF Acquiring
<1>4. ASSUME NEW t \in Threads, Release(t) PROVE PoolBound'
  BY <1>1, <1>4 DEF Release, NotifyOne, Goto, PoolInv, TypeOK
<1> QED
  BY <1>2, <1>3, <1>4 DEF Next

(* A step that moves no connection. *)
LEMMA LeaseFrame ==
    ASSUME LeaseConservation, UNCHANGED <<storage, available, holds>>
    PROVE  LeaseConservation'
<1>1. InUse' = InUse
  BY DEF InUse
<1>2. IsInjective(storage)' /\ IsInjective(available)'
  BY DEF LeaseConservation, IsInjective
<1>3. ToSet(storage)' = ToSet(storage) /\ ToSet(available)' = ToSet(available)
  BY DEF ToSet
<1> QED
  BY <1>1, <1>2, <1>3 DEF LeaseConservation

LEMMA LeaseStep == PoolInv /\ [Next]_vars => LeaseConservation'
<1> SUFFICES ASSUME PoolInv, [Next]_vars PROVE LeaseConservation'
  OBVIOUS
<1> USE PoolAssumption
<1>0. /\ storage \in Seq(Conns) /\ available \in Seq(Conns)
      /\ holds \in [Threads -> Conns \cup {NoConn}]
      /\ IsInjective(storage) /\ IsInjective(available)
      /\ ToSet(storage) = ToSet(available) \cup InUse
      /\ ToSet(available) \cap InUse = {}
      /\ \A t, u \in Threads :
            t # u /\ holds[t] # NoConn => holds[u] # holds[t]
      /\ NoConn \notin Conns
  BY DEF PoolInv, TypeOK, LeaseConservation, InUse
<1>1. SUFFICES ASSUME ~UNCHANGED <<storage, available, holds>>
               PROVE  LeaseConservation'
  BY LeaseFrame DEF PoolInv
<1>2. PICK t \in Threads : Take(t) \/ PruneDestroy(t) \/ Grow(t) \/ Release(t)
  BY <1>1 DEF Next, vars, Tick, Acquiring, Enter, PruneStop, PruneSkip, Wait,
              Timeout, SpuriousWake, ResumeNotified, ResumeTimedOut, ConnectFails
<1>3. SUFFICES /\ IsInjective(storage)' /\ IsInjective(available)'
               /\ ToSet(storage') = ToSet(available') \cup InUse'
               /\ ToSet(available') \cap InUse' = {}
               /\ \A u, v \in Threads :
                     u # v /\ holds'[u] # NoConn => holds'[v] # holds'[u]
  BY DEF LeaseConservation, InUse
<1>4. CASE PruneDestroy(t)
  <2> DEFINE c == storage[scan]
  <2>1. /\ IsInjective(storage') /\ ToSet(storage') = ToSet(storage) \ {c}
        /\ IsInjective(available') /\ ToSet(available') = ToSet(available) \ {c}
    BY <1>0, <1>4, PrunePositions, RemoveAtSet DEF PruneDestroy
  <2>2. holds' = holds /\ InUse' = InUse /\ c \in ToSet(available)
    BY <1>4 DEF PruneDestroy, InUse
  <2> QED
    BY <1>0, <2>1, <2>2 DEF IsInjective
<1>5. CASE Take(t)
  <2> DEFINE c == Head(available)
  <2>1. /\ c \in ToSet(available) /\ c \in Conns
        /\ IsInjective(available') /\ ToSet(available') = ToSet(available) \ {c}
    BY <1>0, <1>5, TailSet DEF Take
  <2>2. storage' = storage /\ holds' = [holds EXCEPT ![t] = c]
        /\ holds[t] = NoConn
    BY <1>5 DEF Take, PoolInv, HoldsWhileUsing
  <2>3. InUse' = InUse \cup {c}
    BY <1>0, <2>1, <2>2 DEF InUse
  <2>4. c \notin InUse
    BY <1>0, <2>1
  <2>5. \A u \in Threads : holds[u] # c
    BY <1>0, <2>1, <2>4 DEF InUse
  <2> QED
    BY <1>0, <2>1, <2>2, <2>3, <2>4, <2>5 DEF IsInjective
<1>6. CASE Grow(t)
  <2>1. PICK c \in Conns \ ToSet(storage) :
            storage' = Append(storage, c) /\ holds' = [holds EXCEPT ![t] = c]
    BY <1>6 DEF Grow
  <2>2. available' = available /\ holds[t] = NoConn
    BY <1>6 DEF Grow, PoolInv, HoldsWhileUsing
  <2>3. IsInjective(storage') /\ ToSet(storage') = ToSet(storage) \cup {c}
    BY <1>0, <2>1, AppendSet
  <2>4. InUse' = InUse \cup {c}
    BY <1>0, <2>1, <2>2 DEF InUse
  <2>5. c \notin InUse /\ c \notin ToSet(available)
    BY <1>0, <2>1
  <2>6. \A u \in Threads : holds[u] # c
    BY <1>0, <2>1, <2>5 DEF InUse
  <2> QED
    BY <1>0, <2>1, <2>2, <2>3, <2>4, <2>5, <2>6 DEF IsInjective
<1>7. CASE Release(t)
  <2> DEFINE c == holds[t]
  <2>1. c \in Conns /\ c \in InUse
    BY <1>0, <1>7 DEF Release, PoolInv, HoldsWhileUsing, InUse
  <2>2. /\ storage' = storage /\ available' = Append(available, c)
        /\ holds' = [holds EXCEPT ![t] = NoConn]
    BY <1>7 DEF Release
  <2>3. IsInjective(available') /\ ToSet(available') = ToSet(available) \cup {c}
    BY <1>0, <2>1, <2>2, AppendSet
  <2>4. InUse' = InUse \ {c}
    BY <1>0, <2>1, <2>2 DEF InUse
  <2> QED
    BY <1>0, <2>1, <2>2, <2>3, <2>4 DEF IsInjective
<1> QED
  BY <1>2, <1>4, <1>5, <1>6, <1>7

LEMMA PoolInvStep == PoolInv /\ [Next]_vars => PoolInv'
BY TypeStep, ControlStep, BoundStep, LeaseStep DEF PoolInv

(* Whatever the threads do, PoolInv holds. *)
THEOREM PoolInvariant == Spec => []PoolInv
<1>1. Init => PoolInv
  BY InitInv
<1>2. PoolInv /\ [Next]_vars => PoolInv'
  BY PoolInvStep
<1> QED
  BY <1>1, <1>2, PTL DEF Spec

(* Type correctness: no null pointer gets into storage or available. *)
THEOREM PoolTypeCorrect == Spec => []TypeOK
<1>1. PoolInv => TypeOK
  BY DEF PoolInv
<1> QED
  BY <1>1, PoolInvariant, PTL

(* The connections owned are those available and those in use, exclusively.*)
THEOREM PoolLeasesConserved == Spec => []LeaseConservation
<1>1. PoolInv => LeaseConservation
  BY DEF PoolInv
<1> QED
  BY <1>1, PoolInvariant, PTL

(* Between one and hardLimit connections exist at any time. *)
THEOREM PoolBounded == Spec => []PoolBound
<1>1. PoolInv => PoolBound
  BY DEF PoolInv
<1> QED
  BY <1>1, PoolInvariant, PTL

-----------------------------------------------------------------------------
(* One step of the pool is a step of ConnLease or changes no lease: taking *)
(* is a checkout, growing opens, releasing returns, and pruning closes a   *)
(* connection nobody leases.                                               *)
LEMMA LeaseStepMaps == PoolInv /\ [Next]_vars => [Lease!Next]_(Lease!vars)
<1> SUFFICES ASSUME PoolInv, [Next]_vars PROVE [Lease!Next]_(Lease!vars)
  OBVIOUS
<1> USE PoolAssumption
<1>0. /\ storage \in Seq(Conns) /\ available \in Seq(Conns)
      /\ holds \in [Threads -> Conns \cup {NoConn}]
      /\ IsInjective(storage) /\ IsInjective(available)
      /\ ToSet(storage) = ToSet(available) \cup InUse
      /\ ToSet(available) \cap InUse = {}
      /\ Lease!Leased = InUse
  BY DEF PoolInv, TypeOK, LeaseConservation, InUse, Lease!Leased
<1>c. Lease!Cardinality(ToSet(storage)) = Len(storage)
  <2>1. Cardinality(ToSet(storage)) = Len(storage)
    BY <1>0, DistinctCardinality
  <2>2. Lease!Cardinality(ToSet(storage)) = Cardinality(ToSet(storage))
    BY DEF Cardinality, Lease!Cardinality
  <2> QED
    BY <2>1, <2>2
<1>1. SUFFICES ASSUME ~UNCHANGED <<storage, holds>>
               PROVE  Lease!Next
  BY DEF Lease!vars, ToSet
<1>2. PICK t \in Threads : Take(t) \/ PruneDestroy(t) \/ Grow(t) \/ Release(t)
  BY <1>1 DEF Next, vars, Tick, Acquiring, Enter, PruneStop, PruneSkip, Wait,
              Timeout, SpuriousWake, ResumeNotified, ResumeTimedOut, ConnectFails
<1>3. CASE PruneDestroy(t)
  <2> DEFINE c == storage[scan]
  <2>1. ToSet(storage') = ToSet(storage) \ {c}
    BY <1>0, <1>3, PrunePositions, RemoveAtSet DEF PruneDestroy
  <2>2. holds' = holds /\ c \in ToSet(available) /\ Len(storage) > 1
    BY <1>3 DEF PruneDestroy, MinLimit
  <2>3. c \in ToSet(storage) \ Lease!Leased
    BY <1>0, <2>2
  <2>4. Lease!Close
    BY <1>c, <2>1, <2>2, <2>3 DEF Lease!Close
  <2> QED
    BY <2>4 DEF Lease!Next
<1>4. CASE Take(t)
  <2> DEFINE c == Head(available)
  <2>1. c \in ToSet(available)
    BY <1>0, <1>4, TailSet DEF Take
  <2>2. storage' = storage /\ holds' = [holds EXCEPT ![t] = c]
        /\ holds[t] = NoConn
    BY <1>4 DEF Take, PoolInv, HoldsWhileUsing
  <2>3. c \in ToSet(storage) \ Lease!Leased
    BY <1>0, <2>1
  <2>4. ToSet(storage)' = ToSet(storage)
    BY <2>2 DEF ToSet
  <2>5. Lease!Checkout(t)
    BY <2>2, <2>3, <2>4 DEF Lease!Checkout
  <2> QED
    BY <2>5 DEF Lease!Next
<1>5. CASE Grow(t)
  <2>1. PICK c \in Conns \ ToSet(storage) :
            storage' = Append(storage, c) /\ holds' = [holds EXCEPT ![t] = c]
    BY <1>5 DEF Grow
  <2>2. holds[t] = NoConn /\ Len(storage) < HardLimit
    BY <1>5 DEF Grow, PoolInv, HoldsWhileUsing, PoolBound
  <2>3. ToSet(storage)' = ToSet(storage) \cup {c}
    BY <1>0, <2>1, AppendSet
  <2>4. Lease!Open(t)
    BY <1>c, <2>1, <2>2, <2>3 DEF Lease!Open
  <2> QED
    BY <2>4 DEF Lease!Next
<1>6. CASE Release(t)
  <2>1. storage' = storage /\ holds' = [holds EXCEPT ![t] = NoConn]
        /\ holds[t] # NoConn
    BY <1>6 DEF Release, PoolInv, HoldsWhileUsing
  <2>2. ToSet(storage)' = ToSet(storage)
    BY <2>1 DEF ToSet
  <2>3. Lease!Return(t)
    BY <2>1, <2>2 DEF Lease!Return
  <2> QED
    BY <2>3 DEF Lease!Next
<1> QED
  BY <1>2, <1>3, <1>4, <1>5, <1>6

(* The pool implements exclusive leases of at most hardLimit connections.  *)
THEOREM PoolImplementsLease == Spec => LeaseSpec
<1>1. Init => Lease!Init
  <2> SUFFICES ASSUME Init PROVE Lease!Init
    OBVIOUS
  <2>1. PICK c \in Conns : storage = <<c>>
    BY DEF Init
  <2>2. ToSet(storage) = {c}
    BY <2>1 DEF ToSet
  <2> QED
    BY <2>2 DEF Init, Lease!Init
<1>2. PoolInv /\ [Next]_vars => [Lease!Next]_(Lease!vars)
  BY LeaseStepMaps
<1> QED
  BY <1>1, <1>2, PoolInvariant, PTL DEF Spec, LeaseSpec, Lease!Spec


-----------------------------------------------------------------------------
(* The available connections after a step: those that were available, with *)
(* their age unless it was a Tick, and the one that was just returned.     *)
LEMMA AvailableAfter ==
    ASSUME PoolInv, [Next]_vars, ~Tick, NEW c \in ToSet(available')
    PROVE  \/ c \in ToSet(available) /\ age'[c] = age[c]
           \/ age'[c] = 0
<1>0. /\ available \in Seq(Conns) /\ storage \in Seq(Conns) /\ IsInjective(available)
      /\ age \in [Conns -> 0..NeverReleased]
      /\ ToSet(available) \subseteq Conns
  <2>1. DOMAIN available = 1..Len(available)
    BY LenProperties DEF PoolInv, TypeOK
  <2> QED
    BY <2>1, ElementOfSeq DEF PoolInv, TypeOK, LeaseConservation, ToSet
<1>1. CASE UNCHANGED <<available, age>>
  BY <1>1
<1>2. ASSUME NEW t \in Threads, PruneDestroy(t)
      PROVE  c \in ToSet(available) /\ age'[c] = age[c]
  <2>1. ToSet(available') = ToSet(available) \ {storage[scan]}
    BY <1>0, <1>2, PrunePositions, RemoveAtSet DEF PruneDestroy
  <2> QED
    BY <1>0, <1>2, <2>1 DEF PruneDestroy
<1>3. ASSUME NEW t \in Threads, Take(t)
      PROVE  c \in ToSet(available) /\ age'[c] = age[c]
  BY <1>0, <1>3, TailSet DEF Take
<1>4. ASSUME NEW t \in Threads, Release(t)
      PROVE  \/ c \in ToSet(available) /\ age'[c] = age[c]
             \/ age'[c] = 0
  <2>1. holds[t] \in Conns
    BY <1>4 DEF Release, PoolInv, TypeOK, HoldsWhileUsing
  <2>2. ToSet(available') = ToSet(available) \cup {holds[t]}
    BY <1>0, <1>4, <2>1, AppendSet DEF Release
  <2> QED
    BY <1>0, <1>4, <2>1, <2>2 DEF Release
<1> QED
  BY <1>1, <1>2, <1>3, <1>4 DEF Next, vars, Acquiring, Enter, PruneStop,
     PruneSkip, Wait, Timeout, SpuriousWake, ResumeNotified, ResumeTimedOut,
     Grow, ConnectFails

(* A thread that has found nothing available has seen the first connection *)
(* go: whatever is available until it takes or grows was released.         *)
Searching(t) == Waiting(t) \/ pc[t] = "growing"

EpochInv ==
    /\ EpochNeverCompared
    /\ \A t \in Threads : Searching(t) =>
          \A c \in ToSet(available) : age[c] # NeverReleased

LEMMA EpochInit == Init => EpochInv
<1> SUFFICES ASSUME Init PROVE EpochInv
  OBVIOUS
<1>1. PICK c \in Conns : storage = <<c>>
  BY DEF Init
<1>2. Len(storage) = 1
  BY <1>1
<1> QED
  BY <1>2 DEF Init, EpochInv, EpochNeverCompared, Searching, Waiting

(* What a step leaves in storage, and who searches after it. *)
LEMMA EpochFrame ==
    ASSUME PoolInv, [Next]_vars, ~Tick, NEW t \in Threads
    PROVE  /\ Searching(t)' => Searching(t) \/ available' = <<>>
           /\ \/ Len(storage') = Len(storage)
              \/ Len(storage) > 1
              \/ \E u \in Threads : Searching(u)
<1> USE DEF PoolInv, TypeOK, Searching, Waiting, Goto, Labels
<1>1. CASE UNCHANGED vars
  BY <1>1 DEF vars
<1>2. ASSUME NEW u \in Threads, Acquiring(u)
      PROVE  /\ Searching(t)' => Searching(t) \/ available' = <<>>
             /\ \/ Len(storage') = Len(storage)
                \/ Len(storage) > 1
                \/ \E v \in Threads : Searching(v)
  <2>1. CASE Enter(u) \/ PruneStop(u) \/ PruneSkip(u) \/ Take(u) \/ Wait(u)
    BY <2>1 DEF Enter, PruneStop, PruneSkip, Take, Wait
  <2>2. CASE PruneDestroy(u)
    BY <2>2 DEF PruneDestroy, MinLimit
  <2>3. CASE Timeout(u) \/ SpuriousWake(u) \/ ResumeNotified(u) \/ ResumeTimedOut(u)
    BY <2>3 DEF Timeout, SpuriousWake, ResumeNotified, ResumeTimedOut
  <2>4. CASE Grow(u) \/ ConnectFails(u)
    BY <2>4 DEF Grow, ConnectFails
  <2> QED
    BY <1>2, <2>1, <2>2, <2>3, <2>4 DEF Acquiring
<1>3. ASSUME NEW u \in Threads, Release(u)
      PROVE  (Searching(t)' => Searching(t)) /\ storage' = storage
  BY <1>3 DEF Release, NotifyOne
<1> QED
  BY <1>1, <1>2, <1>3 DEF Next

LEMMA EpochStep == PoolInv /\ EpochInv /\ [Next]_vars => EpochInv'
<1> SUFFICES ASSUME PoolInv, EpochInv, [Next]_vars PROVE EpochInv'
  OBVIOUS
<1>0. IdleTimeout \in Nat /\ NeverReleased # 0
  BY PoolAssumption DEF NeverReleased
<1>1. CASE Tick
  <2>1. /\ UNCHANGED <<storage, available, pc>>
        /\ \A c \in Conns : age'[c] = NeverReleased => age[c] = NeverReleased
    BY <1>0, <1>1 DEF Tick, OldAge, NeverReleased, PoolInv, TypeOK
  <2>2. ToSet(available) \subseteq Conns
    <3>1. DOMAIN available = 1..Len(available)
      BY LenProperties DEF PoolInv, TypeOK
    <3> QED
      BY <3>1, ElementOfSeq DEF PoolInv, TypeOK, ToSet
  <2> QED
    BY <2>1, <2>2 DEF EpochInv, EpochNeverCompared, Searching, Waiting
<1>2. CASE ~Tick
  <2>1. \A c \in ToSet(available') : age'[c] = NeverReleased =>
            c \in ToSet(available) /\ age[c] = NeverReleased
    BY <1>0, <1>2, AvailableAfter
  <2>2. EpochNeverCompared'
    <3> SUFFICES ASSUME NEW c \in ToSet(available'), age'[c] = NeverReleased
                 PROVE  Len(storage') = 1
      BY DEF EpochNeverCompared
    <3>1. Len(storage) = 1 /\ \A u \in Threads : ~Searching(u)
      BY <2>1 DEF EpochInv, EpochNeverCompared
    <3>2. CASE Threads = {}
      BY <1>2, <3>1, <3>2 DEF Next, vars
    <3>3. CASE Threads # {}
      BY <1>2, <3>1, <3>3, EpochFrame
    <3> QED
      BY <3>2, <3>3
  <2>3. ASSUME NEW t \in Threads, Searching(t)', NEW c \in ToSet(available')
        PROVE  age'[c] # NeverReleased
    <3>1. CASE Searching(t)
      BY <2>1, <3>1 DEF EpochInv
    <3>2. CASE available' = <<>>
      BY <2>3, <3>2 DEF ToSet
    <3> QED
      BY <1>2, <2>3, <3>1, <3>2, EpochFrame
  <2> QED
    BY <2>2, <2>3 DEF EpochInv
<1> QED
  BY <1>1, <1>2

(* pgpool.cpp:65: an age is read of no connection that was never released, *)
(* but of the only one, which is not pruned.                               *)
THEOREM PoolEpochNeverCompared == Spec => []EpochNeverCompared
<1>1. Init => EpochInv
  BY EpochInit
<1>2. PoolInv /\ EpochInv /\ [Next]_vars => EpochInv'
  BY EpochStep
<1>3. EpochInv => EpochNeverCompared
  BY DEF EpochInv
<1> QED
  BY <1>1, <1>2, <1>3, PoolInvariant, PTL DEF Spec

-----------------------------------------------------------------------------
LEMMA OrderInit == Init => LongestIdleFirst
<1> SUFFICES ASSUME Init PROVE LongestIdleFirst
  OBVIOUS
<1>1. PICK c \in Conns : available = <<c>>
  BY DEF Init
<1>2. Len(available) = 1
  BY <1>1
<1> QED
  BY <1>2 DEF LongestIdleFirst

(* Pruning and taking erase an element, releasing appends the freshest,    *)
(* and time makes no younger connection overtake an older one.             *)
LEMMA OrderStep == PoolInv /\ LongestIdleFirst /\ [Next]_vars => LongestIdleFirst'
<1> SUFFICES ASSUME PoolInv, LongestIdleFirst, [Next]_vars PROVE LongestIdleFirst'
  OBVIOUS
<1>0. /\ available \in Seq(Conns) /\ storage \in Seq(Conns)
      /\ Len(available) \in Nat /\ DOMAIN available = 1..Len(available)
      /\ \A i \in 1..Len(available) : available[i] \in Conns
      /\ age \in [Conns -> 0..NeverReleased]
      /\ \A i, j \in 1..Len(available) : i # j => available[i] # available[j]
  BY LenProperties, ElementOfSeq DEF PoolInv, TypeOK, LeaseConservation, IsInjective
<1>00. IdleTimeout \in Nat
  BY PoolAssumption
<1>1. CASE UNCHANGED <<available, age>>
  BY <1>1 DEF LongestIdleFirst
<1>2. CASE Tick
  <2>1. available' = available /\ \A c, d \in Conns : age[c] >= age[d] => age'[c] >= age'[d]
    BY <1>0, <1>00, <1>2 DEF Tick, OldAge, NeverReleased
  <2> QED
    BY <1>0, <2>1 DEF LongestIdleFirst
<1>3. ASSUME NEW t \in Threads, PruneDestroy(t) PROVE LongestIdleFirst'
  <2> DEFINE p == PosOf(storage[scan])
  <2>1. p \in 1..Len(available) /\ available[p] = storage[scan]
    BY <1>3, PrunePositions
  <2> HIDE DEF p
  <2>2. /\ Len(available') = Len(available) - 1
        /\ \A j \in 1..(Len(available) - 1) :
             available'[j] = IF j < p THEN available[j] ELSE available[j + 1]
    BY <1>0, <1>3, <2>1, RemoveAtElements DEF PruneDestroy, p
  <2>3. \A i \in 1..Len(available) : i # p => age'[available[i]] = age[available[i]]
    BY <1>0, <1>3, <2>1 DEF PruneDestroy
  <2> SUFFICES ASSUME NEW i \in 1..(Len(available) - 1),
                      NEW j \in 1..(Len(available) - 1), i < j
               PROVE  age'[available'[i]] >= age'[available'[j]]
    BY <2>2 DEF LongestIdleFirst
  <2> DEFINE old(k) == IF k < p THEN k ELSE k + 1
  <2>4. /\ old(i) \in 1..Len(available) /\ old(j) \in 1..Len(available)
        /\ old(i) # p /\ old(j) # p /\ old(i) < old(j)
    BY <1>0, <2>1
  <2>5. available'[i] = available[old(i)] /\ available'[j] = available[old(j)]
    BY <2>2
  <2> HIDE DEF old
  <2> QED
    BY <2>3, <2>4, <2>5 DEF LongestIdleFirst
<1>4. ASSUME NEW t \in Threads, Take(t) PROVE LongestIdleFirst'
  <2>1. /\ Len(available') = Len(available) - 1
        /\ \A j \in 1..(Len(available) - 1) : available'[j] = available[j + 1]
    BY <1>0, <1>4, HeadTailProperties DEF Take
  <2>2. age' = age
    BY <1>4 DEF Take
  <2> SUFFICES ASSUME NEW i \in 1..(Len(available) - 1),
                      NEW j \in 1..(Len(available) - 1), i < j
               PROVE  age[available'[i]] >= age[available'[j]]
    BY <2>1, <2>2 DEF LongestIdleFirst
  <2>3. i + 1 \in 1..Len(available) /\ j + 1 \in 1..Len(available) /\ i + 1 < j + 1
    BY <1>0
  <2> QED
    BY <2>1, <2>3 DEF LongestIdleFirst
<1>5. ASSUME NEW t \in Threads, Release(t) PROVE LongestIdleFirst'
  <2> DEFINE c == holds[t]
             n == Len(available)
  <2>1. c \in Conns
    BY <1>5 DEF Release, PoolInv, TypeOK, HoldsWhileUsing
  <2>2. c \notin ToSet(available)
    BY <1>5, <2>1 DEF PoolInv, LeaseConservation, HoldsWhileUsing, Release
  <2>3. available' = Append(available, c) /\ age' = [age EXCEPT ![c] = 0]
    BY <1>5 DEF Release
  <2>4. /\ Len(available') = n + 1 /\ available'[n + 1] = c
        /\ \A j \in 1..n : available'[j] = available[j]
    BY <1>0, <2>1, <2>3, AppendProperties
  <2>5. \A j \in 1..n : available[j] # c /\ age'[available[j]] = age[available[j]]
    BY <1>0, <2>2, <2>3 DEF ToSet
  <2>6. age'[c] = 0 /\ age' \in [Conns -> 0..NeverReleased]
    BY <1>0, <2>1, <2>3, AgeRange
  <2> HIDE DEF c, n
  <2>7. n \in Nat /\ \A j \in 1..n : available[j] \in Conns
    BY <1>0 DEF n
  <2>8. \A k \in Conns : age'[k] \in Nat
    BY <1>00, <2>6 DEF NeverReleased
  <2> SUFFICES ASSUME NEW i \in 1..(n + 1), NEW j \in 1..(n + 1), i < j
               PROVE  age'[available'[i]] >= age'[available'[j]]
    BY <2>4 DEF LongestIdleFirst
  <2>9. i \in 1..n /\ (j \in 1..n \/ j = n + 1)
    BY <2>7
  <2>10. CASE j \in 1..n
    BY <2>4, <2>5, <2>9, <2>10 DEF LongestIdleFirst, n
  <2>11. CASE j = n + 1
    BY <2>4, <2>6, <2>7, <2>8, <2>9, <2>11
  <2> QED
    BY <2>9, <2>10, <2>11
<1> QED
  BY <1>1, <1>2, <1>3, <1>4, <1>5 DEF Next, vars, Acquiring, Enter, PruneStop,
     PruneSkip, Wait, Timeout, SpuriousWake, ResumeNotified, ResumeTimedOut,
     Grow, ConnectFails

(* pgpool.cpp:44: available stays in the order of release, so that         *)
(* acquire() hands out the connection that has been idle longest.          *)
THEOREM PoolLongestIdleFirst == Spec => []LongestIdleFirst
<1>1. Init => LongestIdleFirst
  BY OrderInit
<1>2. PoolInv /\ LongestIdleFirst /\ [Next]_vars => LongestIdleFirst'
  BY OrderStep
<1> QED
  BY <1>1, <1>2, PoolInvariant, PTL DEF Spec

-----------------------------------------------------------------------------
(* The pruning loop.  Behind its index it has left no free connection: one *)
(* that is in use stays so, for the mutex is held, and one that is erased  *)
(* moves those down that the loop has passed.                              *)
PassedAreInUse ==
    \A t \in Threads : pc[t] = "pruning" =>
        \A j \in 1..Len(storage) : storage[j] \in ToSet(available) => j <= scan

LEMMA PassedInit == Init => PassedAreInUse
BY DEF Init, PassedAreInUse

LEMMA PassedStep == PoolInv /\ PassedAreInUse /\ [Next]_vars => PassedAreInUse'
<1> SUFFICES ASSUME PoolInv, PassedAreInUse, [Next]_vars,
                    NEW t \in Threads, pc'[t] = "pruning",
                    NEW j \in 1..Len(storage'), storage'[j] \in ToSet(available')
             PROVE  j <= scan'
  BY DEF PassedAreInUse
<1>0. /\ storage \in Seq(Conns) /\ available \in Seq(Conns)
      /\ IsInjective(storage) /\ IsInjective(available)
      /\ Len(storage) \in Nat /\ scan \in Nat
      /\ DOMAIN storage = 1..Len(storage) /\ DOMAIN available = 1..Len(available)
      /\ pc \in [Threads -> Labels]
      /\ \A u \in Threads : pc[u] \in Locked <=> mutex = u
  BY LenProperties DEF PoolInv, TypeOK, LeaseConservation, MutexOwner
<1>00. NoThread \notin Threads
  BY PoolAssumption
<1>1. CASE UNCHANGED <<storage, available, scan, pc>>
  BY <1>1 DEF PassedAreInUse
<1>2. CASE Tick
  BY <1>2 DEF Tick, PassedAreInUse
<1>3. ASSUME NEW u \in Threads, Enter(u) PROVE j <= scan'
  <2>1. storage' = storage
    BY <1>3 DEF Enter
  <2>2. CASE t = u
    <3>1. scan' = Len(storage)
      BY <1>0, <1>3, <2>2 DEF Enter, Goto
    <3> QED
      BY <1>0, <2>1, <3>1
  <2>3. CASE t # u
    BY <1>0, <1>00, <1>3, <2>3 DEF Enter, Goto, Locked
  <2> QED
    BY <2>2, <2>3
<1>4. ASSUME NEW u \in Threads, PruneSkip(u) PROVE j <= scan'
  <2>1. j <= scan /\ j # scan
    BY <1>4 DEF PruneSkip, PassedAreInUse
  <2> QED
    BY <1>0, <1>4, <2>1 DEF PruneSkip
<1>5. ASSUME NEW u \in Threads, PruneDestroy(u) PROVE j <= scan'
  <2> DEFINE p == PosOf(storage[scan])
  <2>1. scan \in 1..Len(storage) /\ p \in 1..Len(available) /\ available[p] = storage[scan]
    BY <1>5, PrunePositions
  <2>2. /\ storage' = RemoveAt(storage, scan) /\ available' = RemoveAt(available, p)
        /\ scan' = scan - 1 /\ pc' = pc
    BY <1>5 DEF PruneDestroy
  <2> HIDE DEF p
  <2>3. ToSet(available') = ToSet(available) \ {storage[scan]}
    BY <1>0, <2>1, <2>2, RemoveAtSet
  <2>4. /\ Len(storage') = Len(storage) - 1
        /\ \A k \in 1..(Len(storage) - 1) :
             storage'[k] = IF k < scan THEN storage[k] ELSE storage[k + 1]
    BY <1>0, <2>1, <2>2, RemoveAtElements
  <2> SUFFICES ASSUME j >= scan PROVE FALSE
    BY <1>0, <2>2, <2>4
  <2>5. j + 1 \in 1..Len(storage) /\ storage[j + 1] \in ToSet(available) /\ ~(j + 1 <= scan)
    BY <1>0, <2>1, <2>3, <2>4
  <2> QED
    BY <2>2, <2>5 DEF PassedAreInUse
<1>6. ASSUME NEW u \in Threads,
             \/ PruneStop(u) \/ Take(u) \/ Wait(u) \/ Grow(u) \/ ConnectFails(u)
      PROVE  j <= scan'
  <2>1. pc[u] \in Locked /\ pc'[u] # "pruning" /\ \A w \in Threads \ {u} : pc'[w] = pc[w]
    BY <1>0, <1>6 DEF PruneStop, Take, Wait, Grow, ConnectFails, Goto, Locked
  <2> QED
    BY <1>0, <2>1 DEF Locked
<1>7. ASSUME NEW u \in Threads,
             \/ Timeout(u) \/ SpuriousWake(u) \/ ResumeNotified(u) \/ ResumeTimedOut(u)
      PROVE  j <= scan'
  <2>1. /\ UNCHANGED <<storage, available, scan>>
        /\ pc'[u] # "pruning" /\ \A w \in Threads \ {u} : pc'[w] = pc[w]
    BY <1>0, <1>7 DEF Timeout, SpuriousWake, ResumeNotified, ResumeTimedOut, Goto
  <2> QED
    BY <2>1 DEF PassedAreInUse
<1>8. ASSUME NEW u \in Threads, Release(u) PROVE j <= scan'
  <2>1. \A w \in Threads : pc'[w] = "pruning" => pc[w] = "pruning"
    BY <1>0, <1>8 DEF Release, NotifyOne, Goto
  <2>2. mutex = NoThread
    BY <1>8 DEF Release
  <2> QED
    BY <1>0, <1>00, <2>1, <2>2 DEF Locked
<1> QED
  BY <1>1, <1>2, <1>3, <1>4, <1>5, <1>6, <1>7, <1>8 DEF Next, vars, Acquiring

(* pgpool.cpp:56: what the loop destroys is the newest connection that is  *)
(* free, though it erases from the vector that it indexes; and each turn   *)
(* that does not end it lowers the index, which stays within the vector.   *)
THEOREM NewestFreeIsPruned ==
    Spec => [][\A t \in Threads :
                 /\ PruneDestroy(t) =>
                      \A j \in 1..Len(storage) : storage[j] \in ToSet(available) => j <= scan
                 /\ PruneSkip(t) \/ PruneDestroy(t) =>
                      scan' < scan /\ scan' <= Len(storage')]_vars
<1>1. Init => PassedAreInUse
  BY PassedInit
<1>2. PoolInv /\ PassedAreInUse /\ [Next]_vars => PassedAreInUse'
  BY PassedStep
<1> DEFINE Turn ==
      \A t \in Threads :
        /\ PruneDestroy(t) =>
             \A j \in 1..Len(storage) : storage[j] \in ToSet(available) => j <= scan
        /\ PruneSkip(t) \/ PruneDestroy(t) => scan' < scan /\ scan' <= Len(storage')
<1>3. PoolInv /\ PassedAreInUse /\ [Next]_vars => Turn
  <2> SUFFICES ASSUME PoolInv, PassedAreInUse, [Next]_vars, NEW t \in Threads PROVE Turn!(t)
    OBVIOUS
  <2>1. /\ PruneDestroy(t) =>
             \A j \in 1..Len(storage) : storage[j] \in ToSet(available) => j <= scan
    BY DEF PruneDestroy, PassedAreInUse
  <2>2. ScanInRange' /\ scan \in Nat
    BY PoolInvStep DEF PoolInv, TypeOK
  <2>3. PruneSkip(t) \/ PruneDestroy(t) => scan' < scan /\ pc'[t] = "pruning"
    BY <2>2 DEF PruneSkip, PruneDestroy
  <2> QED
    BY <2>1, <2>2, <2>3 DEF ScanInRange
<1>4. PoolInv /\ PassedAreInUse /\ [Next]_vars => [Turn]_vars
  BY <1>3
<1> HIDE DEF Turn
<1>5. Spec => [][Turn]_vars
  BY <1>1, <1>2, <1>4, PoolInvariant, PTL DEF Spec
<1> QED
  BY <1>5 DEF Turn
=============================================================================
