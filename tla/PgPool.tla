------------------------------- MODULE PgPool -------------------------------
(***************************************************************************)
(* The dynamic connection pool of src/libsqldb/pgpool.cpp: PgPool and its  *)
(* RAII wrapper PgPoolRaii, used by several threads.                       *)
(*                                                                         *)
(* The mutex is explicit.  acquire() holds it from its first line except   *)
(* inside cv.wait_for, so every action below that belongs to a critical    *)
(* section names the thread that owns the mutex.  What the loop iterations *)
(* of the pruning code do, and what happens between two lock acquisitions, *)
(* are separate actions; nothing else is.                                  *)
(***************************************************************************)
EXTENDS Naturals, FiniteSets, SequencesExt

CONSTANTS Threads,      \* callers of acquire()
          Conns,        \* identities of PgConn objects
          NoThread,     \* "the mutex is free"
          NoConn,       \* a null PgConn*
          HardLimit,    \* PgPool::hardLimit
          IdleTimeout   \* PgPool::idleTimeout, in ticks

ASSUME PoolAssumption ==
    /\ NoThread \notin Threads
    /\ NoConn \notin Conns
    /\ Conns # {}
    /\ HardLimit \in Nat \ {0}
    /\ IdleTimeout \in Nat

VARIABLES storage,      \* PgPool::storage, oldest connection first
          available,    \* PgPool::available, the front is taken next
          age,          \* now - last_released_time, saturating
          mutex,        \* the owner of PgPool::mutex
          pc,           \* where each thread is in acquire()/release()
          holds,        \* PgPoolRaii::pgConn of each thread
          scan          \* i + 1 in the pruning loop

vars == <<storage, available, age, mutex, pc, holds, scan>>

MinLimit == 1

\* Ages saturate one tick past the timeout.  A connection that was never
\* released has a default-constructed last_released_time, the clock's epoch.
OldAge == IdleTimeout + 1
NeverReleased == IdleTimeout + 2
Expired(c) == age[c] > IdleTimeout

PosOf(c) == CHOOSE i \in 1..Len(available) : available[i] = c

Goto(t, label) == pc' = [pc EXCEPT ![t] = label]
Unlock == mutex' = NoThread

-----------------------------------------------------------------------------
(* The constructor opens one connection and lists it as available. *)
Init ==
    /\ \E c \in Conns : storage = <<c>> /\ available = <<c>>
    /\ age = [c \in Conns |-> NeverReleased]
    /\ mutex = NoThread
    /\ pc = [t \in Threads |-> "idle"]
    /\ holds = [t \in Threads |-> NoConn]
    /\ scan = 0

(* acquire() locks; it prunes only if some connection is available. *)
Enter(t) ==
    /\ pc[t] = "idle" /\ mutex = NoThread
    /\ mutex' = t
    /\ IF available # <<>>
         THEN Goto(t, "pruning") /\ scan' = Len(storage)
         ELSE Goto(t, "taking") /\ UNCHANGED scan
    /\ UNCHANGED <<storage, available, age, holds>>

(* An iteration that ends the loop: index exhausted, pool at its minimum,  *)
(* or the newest free connection is still fresh.                           *)
PruneStop(t) ==
    /\ pc[t] = "pruning"
    /\ \/ scan = 0
       \/ Len(storage) <= MinLimit
       \/ scan > 0 /\ storage[scan] \in ToSet(available) /\ ~Expired(storage[scan])
    /\ Goto(t, "taking")
    /\ scan' = 0
    /\ UNCHANGED <<storage, available, age, mutex, holds>>

\* Mutant: the index does not move past a connection in use.
PruneStuck(t) ==
    /\ pc[t] = "pruning"
    /\ scan > 0 /\ Len(storage) > MinLimit
    /\ storage[scan] \notin ToSet(available)
    /\ UNCHANGED vars

PruneSkip(t) ==
    /\ pc[t] = "pruning"
    /\ scan > 0 /\ Len(storage) > MinLimit
    /\ storage[scan] \notin ToSet(available)
    /\ scan' = scan - 1
    /\ UNCHANGED <<storage, available, age, mutex, pc, holds>>

\* Mutant: the pointer stays in available after its object is destroyed.
PruneLeavesPointer(t) ==
    /\ pc[t] = "pruning"
    /\ scan > 0 /\ Len(storage) > MinLimit
    /\ storage[scan] \in ToSet(available) /\ Expired(storage[scan])
    /\ storage' = RemoveAt(storage, scan)
    /\ age' = [age EXCEPT ![storage[scan]] = NeverReleased]
    /\ scan' = scan - 1
    /\ UNCHANGED <<available, mutex, pc, holds>>

PruneDestroy(t) ==
    /\ pc[t] = "pruning"
    /\ scan > 0 /\ Len(storage) > MinLimit
    /\ storage[scan] \in ToSet(available) /\ Expired(storage[scan])
    /\ available' = RemoveAt(available, PosOf(storage[scan]))
    /\ storage' = RemoveAt(storage, scan)
    /\ age' = [age EXCEPT ![storage[scan]] = NeverReleased]
    /\ scan' = scan - 1
    /\ UNCHANGED <<mutex, pc, holds>>

(* The body of while(true): take the front, or wait and drop the mutex. *)
\* Mutant: front() without pop_front().
TakeKeepsListed(t) ==
    /\ pc[t] = "taking" /\ available # <<>>
    /\ holds' = [holds EXCEPT ![t] = Head(available)]
    /\ Goto(t, "using") /\ Unlock
    /\ UNCHANGED <<storage, available, age, scan>>

Take(t) ==
    /\ pc[t] = "taking" /\ available # <<>>
    /\ holds' = [holds EXCEPT ![t] = Head(available)]
    /\ available' = Tail(available)
    /\ Goto(t, "using") /\ Unlock
    /\ UNCHANGED <<storage, age, scan>>

Wait(t) ==
    /\ pc[t] = "taking" /\ available = <<>>
    /\ Goto(t, "waiting") /\ Unlock
    /\ UNCHANGED <<storage, available, age, holds, scan>>

(* The wait ends without the mutex: by its timeout, or spuriously.  From   *)
(* then on a notify_one no longer reaches this thread.                     *)
Timeout(t) ==
    /\ pc[t] = "waiting"
    /\ Goto(t, "timedOut")
    /\ UNCHANGED <<storage, available, age, mutex, holds, scan>>

SpuriousWake(t) ==
    /\ pc[t] = "waiting"
    /\ Goto(t, "notified")
    /\ UNCHANGED <<storage, available, age, mutex, holds, scan>>

(* wait_for returns with the mutex held again.  A woken thread may still   *)
(* report a timeout: the status is read from the clock after the wake-up.  *)
ResumeNotified(t) ==
    /\ pc[t] = "notified" /\ mutex = NoThread
    /\ mutex' = t
    /\ Goto(t, "taking")
    /\ UNCHANGED <<storage, available, age, holds, scan>>

\* Mutant: the hard limit is not tested.
ResumeIgnoresLimit(t) ==
    /\ pc[t] \in {"timedOut", "notified"} /\ mutex = NoThread
    /\ mutex' = t
    /\ Goto(t, "growing")
    /\ UNCHANGED <<storage, available, age, holds, scan>>

ResumeTimedOut(t) ==
    /\ pc[t] \in {"timedOut", "notified"} /\ mutex = NoThread
    /\ mutex' = t
    /\ Goto(t, IF Len(storage) < HardLimit THEN "growing" ELSE "taking")
    /\ UNCHANGED <<storage, available, age, holds, scan>>

(* PQconnectdb runs under the mutex; a failure leaves acquire() by an      *)
(* exception, which unlocks and creates nothing.                           *)
Grow(t) ==
    /\ pc[t] = "growing"
    /\ \E c \in Conns \ ToSet(storage) :
         /\ storage' = Append(storage, c)
         /\ holds' = [holds EXCEPT ![t] = c]
    /\ Goto(t, "using") /\ Unlock
    /\ UNCHANGED <<available, age, scan>>

\* Mutant: a failed connection is returned as a null pointer.
ConnectReturnsNull(t) ==
    /\ pc[t] = "growing"
    /\ Goto(t, "using") /\ Unlock
    /\ UNCHANGED <<storage, available, age, holds, scan>>

ConnectFails(t) ==
    /\ pc[t] = "growing"
    /\ Goto(t, "idle") /\ Unlock
    /\ UNCHANGED <<storage, available, age, holds, scan>>

(* cv.notify_one() by a thread that returns from release().                *)
NotifyOne(t) ==
    \/ \E w \in Threads :
         /\ pc[w] = "waiting"
         /\ pc' = [pc EXCEPT ![t] = "idle", ![w] = "notified"]
    \/ /\ \A w \in Threads : pc[w] # "waiting"
       /\ Goto(t, "idle")

\* Mutant: last_released_time is not written.
ReleaseUnstamped(t) ==
    /\ pc[t] = "using" /\ mutex = NoThread
    /\ available' = Append(available, holds[t])
    /\ holds' = [holds EXCEPT ![t] = NoConn]
    /\ NotifyOne(t)
    /\ UNCHANGED <<storage, age, mutex, scan>>

\* Mutant: push_front.
ReleaseToFront(t) ==
    /\ pc[t] = "using" /\ mutex = NoThread
    /\ age' = [age EXCEPT ![holds[t]] = 0]
    /\ available' = <<holds[t]>> \o available
    /\ holds' = [holds EXCEPT ![t] = NoConn]
    /\ NotifyOne(t)
    /\ UNCHANGED <<storage, mutex, scan>>

(* release(): stamp, list last, notify one of the threads in the wait set. *)
Release(t) ==
    /\ pc[t] = "using" /\ mutex = NoThread
    /\ age' = [age EXCEPT ![holds[t]] = 0]
    /\ available' = Append(available, holds[t])
    /\ holds' = [holds EXCEPT ![t] = NoConn]
    /\ NotifyOne(t)
    /\ UNCHANGED <<storage, mutex, scan>>

(* Time is read only once in each critical section, so a clock that stands *)
(* still while the mutex is owned loses no behaviour.                      *)
Tick ==
    /\ mutex = NoThread
    /\ age' = [c \in Conns |-> IF age[c] < OldAge THEN age[c] + 1 ELSE age[c]]
    /\ UNCHANGED <<storage, available, mutex, pc, holds, scan>>

Acquiring(t) ==
    \/ Enter(t)
    \/ PruneStop(t) \/ PruneSkip(t) \/ PruneDestroy(t)
    \/ Take(t) \/ Wait(t)
    \/ Timeout(t) \/ SpuriousWake(t)
    \/ ResumeNotified(t) \/ ResumeTimedOut(t)
    \/ Grow(t) \/ ConnectFails(t)

Next == Tick \/ \E t \in Threads : Acquiring(t) \/ Release(t)

Spec == Init /\ [][Next]_vars

(***************************************************************************)
(* Fairness.  A thread that owns the mutex runs (WF); a wait times out; a  *)
(* query returns, so its connection is released.  A thread that keeps      *)
(* asking for a mutex that is free again and again gets it eventually      *)
(* (SF): the pthread mutex promises no order but starves nobody for ever.  *)
(* Nobody has to call acquire().                                           *)
(***************************************************************************)
InsideLock(t) ==
    \/ PruneStop(t) \/ PruneSkip(t) \/ PruneDestroy(t)
    \/ Take(t) \/ Wait(t)
    \/ Grow(t) \/ ConnectFails(t)

FairSpec ==
    /\ Spec
    /\ \A t \in Threads : /\ WF_vars(InsideLock(t))
                          /\ WF_vars(Timeout(t))
                          /\ SF_vars(ResumeNotified(t) \/ ResumeTimedOut(t))
                          /\ SF_vars(Release(t))

-----------------------------------------------------------------------------
Labels == {"idle", "pruning", "taking", "waiting", "notified", "timedOut",
           "growing", "using"}
Locked == {"pruning", "taking", "growing"}
Waiting(t) == pc[t] \in {"waiting", "notified", "timedOut"}

(* Every variable of the pool has its type: in particular no null pointer  *)
(* ever gets into storage or available.                                    *)
TypeOK ==
    /\ storage \in Seq(Conns)
    /\ available \in Seq(Conns)
    /\ age \in [Conns -> 0..NeverReleased]
    /\ mutex \in Threads \cup {NoThread}
    /\ pc \in [Threads -> Labels]
    /\ holds \in [Threads -> Conns \cup {NoConn}]
    /\ scan \in Nat

InUse == {holds[t] : t \in Threads} \ {NoConn}

(* A thread is inside a critical section exactly when it owns the mutex.   *)
MutexOwner == \A t \in Threads : pc[t] \in Locked <=> mutex = t

(* A thread has a connection exactly while its PgPoolRaii is alive.        *)
HoldsWhileUsing == \A t \in Threads : pc[t] = "using" <=> holds[t] # NoConn

(* The connections the pool owns are, without repetition, those that are   *)
(* listed as available and those that some thread uses, and no connection  *)
(* is both or is used by two threads: pruning, growing and returning lose  *)
(* no connection, hand none out twice and destroy none that is in use.     *)
LeaseConservation ==
    /\ IsInjective(storage) /\ IsInjective(available)
    /\ \A t \in Threads : holds[t] # NoConn =>
          /\ holds[t] \notin ToSet(available)
          /\ \A u \in Threads \ {t} : holds[u] # holds[t]
    /\ ToSet(storage) = ToSet(available) \cup InUse

(* The pool never empties and never grows beyond hardLimit, although the   *)
(* limit is tested before the connection is made.                          *)
PoolBound ==
    /\ Len(storage) \in 1..HardLimit
    /\ \A t \in Threads : pc[t] = "growing" => Len(storage) < HardLimit

(* A connection whose last_released_time was never written is available    *)
(* only while it is the pool's only one, so that the pruning code, which   *)
(* needs a second one to go on, never compares the clock's epoch.          *)
EpochNeverCompared ==
    \A c \in ToSet(available) : age[c] = NeverReleased => Len(storage) = 1

(* available is in the order of release: acquire() hands out the           *)
(* connection that has been idle longest.                                  *)
LongestIdleFirst ==
    \A i, j \in 1..Len(available) :
        i < j => age[available[i]] >= age[available[j]]

(* No wake-up is lost for good: a free connection does not stay free while *)
(* a thread waits for one, though a notified thread that reports a timeout *)
(* grows the pool and leaves the connection it was woken for.  A waiting   *)
(* thread needs the mutex to go on, so that the pruning loop ends, and the *)
(* growth path unlocks whether or not it made a connection.                *)
FreeConnectionIsTaken ==
    (available # <<>> /\ \E t \in Threads : Waiting(t))
        ~> (available = <<>> \/ \A t \in Threads : ~Waiting(t))

(* The pool as leases of connections: what its users rely on.              *)
Lease == INSTANCE ConnLease WITH Users <- Threads, Limit <- HardLimit,
                                 None <- NoConn,
                                 live <- ToSet(storage), lease <- holds

LeaseSpec == Lease!Spec

=============================================================================
