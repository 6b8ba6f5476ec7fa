------------------------------ MODULE ArcCache ------------------------------
(***************************************************************************)
(* AdaptiveReplacementCache of src/libkycore/arc.h: an LRU list of entries *)
(* used seldom, an LFU set of entries used often, and a soft limit that    *)
(* follows the hit rate.  The methods run under cache_mutex; put() is one  *)
(* action, get() is one action for the access count and the adjustment,    *)
(* one for each entry its trim loop evicts, and one for the lookup.        *)
(*                                                                         *)
(* Keys are numbered in the order of their strings, which breaks ties in   *)
(* the LFU set.                                                            *)
(***************************************************************************)
EXTENDS Integers, FiniteSets, SequencesExt

CONSTANTS Keys,         \* the texts of the SQL statements
          Values,       \* the cached objects
          Null,         \* nullptr
          HardLimit,    \* the constructor's argument
          LimitParts,   \* 10 in the code: part of HardLimit in one adjustment
          Window,       \* 10 in the code: accesses per unit of softLimit between adjustments
          MaxUses       \* bound: no entry is hit more often than this

ASSUME CacheAssumption ==
    /\ Keys \subseteq Nat
    /\ Null \notin Values /\ Null \notin Keys
    /\ HardLimit \in Nat \ {0}
    /\ LimitParts \in Nat \ {0}
    /\ Window \in Nat \ {0}
    /\ MaxUses \in Nat \ {0}

VARIABLES entries,      \* cache: what each present key maps to
          lruKeys,      \* lru_keys, the front is the last used
          lfuKeys,      \* lfu_keys, pairs of a count and a key
          softLimit, total, hits,
          pc,           \* "ready", or where get() is under the mutex
          asked,        \* the key of the get() in progress
          result        \* the last returned value

structure == <<entries, lruKeys, lfuKeys>>
vars == <<entries, lruKeys, lfuKeys, softLimit, total, hits, pc, asked, result>>

AtLeast(low, n) == IF n < low THEN low ELSE n
AtMost(high, n) == IF n > high THEN high ELSE n

MinLimit == AtLeast(1, HardLimit \div LimitParts)
Stride == AtLeast(1, HardLimit \div LimitParts)
LfuThreshold == AtLeast(2, HardLimit \div 20)

Present == DOMAIN entries
Size == Cardinality(Present)

Init ==
    /\ entries = << >> /\ lruKeys = << >> /\ lfuKeys = {}
    /\ softLimit = MinLimit
    /\ total = 0 /\ hits = 0
    /\ pc = "ready" /\ asked = Null /\ result = Null

-----------------------------------------------------------------------------
(* The private methods act on the three structures together: here on a     *)
(* record m of them.                                                       *)
Now == [entries |-> entries, lru |-> lruKeys, lfu |-> lfuKeys]

Erase(list, k) == RemoveAt(list, CHOOSE i \in DOMAIN list : list[i] = k)

\* Mutant: the pair stays in the LFU set.
RemoveFromLru(m, k) ==
    [entries |-> [j \in DOMAIN m.entries \ {k} |-> m.entries[j]],
     lru |-> IF m.entries[k].inLfu THEN m.lru ELSE Erase(m.lru, k),
     lfu |-> m.lfu]

RemoveEntry(m, k) ==
    [entries |-> [j \in DOMAIN m.entries \ {k} |-> m.entries[j]],
     lru |-> IF m.entries[k].inLfu THEN m.lru ELSE Erase(m.lru, k),
     lfu |-> IF m.entries[k].inLfu THEN m.lfu \ {<<m.entries[k].uses, k>>}
                                   ELSE m.lfu]

(* *lfu_keys.begin(): the lowest count, then the first key. *)
Before(p, q) == p[1] < q[1] \/ (p[1] = q[1] /\ p[2] <= q[2])
LfuVictim(m) == (CHOOSE p \in m.lfu : \A q \in m.lfu : Before(p, q))[2]
LruVictim(m) == Last(m.lru)

\* Mutant: always evict_from_lru().
EvictLru(m) == IF m.lru # << >> THEN RemoveEntry(m, LruVictim(m)) ELSE m

Evict(m) ==
    IF Cardinality(m.lfu) > Len(m.lru) THEN RemoveEntry(m, LfuVictim(m))
    ELSE IF m.lru # << >> THEN RemoveEntry(m, LruVictim(m))
    ELSE m

Become(m) == entries' = m.entries /\ lruKeys' = m.lru /\ lfuKeys' = m.lfu

-----------------------------------------------------------------------------
IsFull(m) == Cardinality(DOMAIN m.entries) >= softLimit

\* Mutant: useCount starts at zero.
UnusedEntry(v) == [value |-> v, uses |-> 0, inLfu |-> FALSE]
NewEntry(v) == [value |-> v, uses |-> 1, inLfu |-> FALSE]

(* put(): drop the key's old entry, evict if full, insert in front. *)
Put(k, v) ==
    /\ pc = "ready"
    /\ LET m0 == IF k \in Present THEN RemoveEntry(Now, k) ELSE Now
           m1 == IF IsFull(m0) THEN Evict(m0) ELSE m0
       IN  Become([entries |-> [j \in DOMAIN m1.entries \cup {k} |->
                                  IF j = k THEN NewEntry(v) ELSE m1.entries[j]],
                   lru |-> <<k>> \o m1.lru,
                   lfu |-> m1.lfu])
    /\ result' = v
    /\ UNCHANGED <<softLimit, total, hits, pc, asked>>

(* adjust_size(): grow below a hit rate of 1/2, shrink above 9/10.  n is   *)
(* total_accesses, which is reset together with hits.                      *)
AdjustedLimit(n) ==
    IF 2 * hits < n /\ softLimit < HardLimit
      THEN AtMost(HardLimit, softLimit + Stride)
    ELSE IF 10 * hits > 9 * n /\ softLimit > MinLimit
      THEN AtLeast(MinLimit, softLimit - Stride)
    ELSE softLimit

ResetStats == total' = 0 /\ hits' = 0

NeedsTrim(limit) == limit < softLimit /\ Size > limit

(* get(), up to the lookup. *)
Access(k) ==
    /\ pc = "ready"
    /\ k \in Present => entries[k].uses < MaxUses
    /\ asked' = k
    /\ IF total + 1 >= softLimit * Window
         THEN /\ softLimit' = AdjustedLimit(total + 1)
              /\ ResetStats
              /\ pc' = IF NeedsTrim(softLimit') THEN "trimming" ELSE "looking"
         ELSE /\ total' = total + 1
              /\ pc' = "looking"
              /\ UNCHANGED <<softLimit, hits>>
    /\ UNCHANGED <<structure, result>>

(* One turn of trim(). *)
TrimOne ==
    /\ pc = "trimming"
    /\ LET m == Evict(Now)
       IN  /\ Become(m)
           /\ pc' = IF Cardinality(DOMAIN m.entries) > softLimit
                      THEN "trimming" ELSE "looking"
    /\ UNCHANGED <<softLimit, total, hits, asked, result>>

(* The end of get(): a miss, or a hit that counts and moves the entry. *)

\* Mutant: the lookup finds promoted entries only.
MissUnlessPromoted ==
    /\ pc = "looking" /\ (asked \in Present => ~entries[asked].inLfu)
    /\ pc' = "ready" /\ asked' = Null /\ result' = Null
    /\ UNCHANGED <<structure, softLimit, total, hits>>

Miss ==
    /\ pc = "looking" /\ asked \notin Present
    /\ pc' = "ready" /\ asked' = Null /\ result' = Null
    /\ UNCHANGED <<structure, softLimit, total, hits>>

Promotes(e) == e.inLfu \/ e.uses + 1 > LfuThreshold

\* Mutant: a hit does not move the entry.
StaysInPlace(list, k) == list
MovedToFront(list, k) == <<k>> \o Erase(list, k)

Hit ==
    /\ pc = "looking" /\ asked \in Present
    /\ LET e == entries[asked]
           promoted == Promotes(e)
       IN  /\ entries' = [entries EXCEPT ![asked].uses = e.uses + 1,
                                         ![asked].inLfu = promoted]
           /\ lfuKeys' = IF promoted
                           THEN (lfuKeys \ {<<e.uses, asked>>})
                                  \cup {<<e.uses + 1, asked>>}
                           ELSE lfuKeys
           /\ lruKeys' = IF e.inLfu THEN lruKeys
                         ELSE IF promoted THEN Erase(lruKeys, asked)
                         ELSE MovedToFront(lruKeys, asked)
           /\ result' = e.value
    /\ hits' = hits + 1
    /\ pc' = "ready" /\ asked' = Null
    /\ UNCHANGED <<softLimit, total>>

Get == TrimOne \/ Miss \/ Hit

Next == Get \/ \E k \in Keys : Access(k) \/ \E v \in Values : Put(k, v)

Spec == Init /\ [][Next]_vars

(* A method that owns cache_mutex runs to its end. *)
FairSpec == Spec /\ WF_vars(Get)

-----------------------------------------------------------------------------
InLfu == {k \in Present : entries[k].inLfu}
InLru == Present \ InLfu

(* Types; the hit rate that adjust_size() computes never exceeds one,      *)
(* though the access that adjusts is counted in total_accesses before the  *)
(* reset and in hits after it.                                             *)
TypeOK ==
    /\ Present \subseteq Keys
    /\ \A k \in Present :
         entries[k] \in [value : Values, uses : 1..MaxUses, inLfu : BOOLEAN]
    /\ lruKeys \in Seq(Keys)
    /\ lfuKeys \subseteq (1..MaxUses) \X Keys
    /\ softLimit \in MinLimit..HardLimit
    /\ total \in Nat /\ hits \in 0..(total + IF pc = "ready" THEN 1 ELSE 0)
    /\ pc \in {"ready", "trimming", "looking"}
    /\ asked \in Keys \cup {Null}
    /\ result \in Values \cup {Null}

(* The map and the two orders describe the same entries: a key is listed   *)
(* once, in the order its flag names, and in the LFU set under its count.  *)
(* The iterators that an entry keeps into lru_keys and lfu_keys are valid  *)
(* exactly when this holds.  Whichever way an entry went through them, it  *)
(* is in the LFU set if it was used more often than the threshold; and     *)
(* outside a trim they keep softLimit, although put() evicts only once.    *)
Consistent ==
    /\ IsInjective(lruKeys) /\ ToSet(lruKeys) = InLru
    /\ lfuKeys = {<<entries[k].uses, k>> : k \in InLfu}
    /\ \A k \in Present : k \in InLfu <=> entries[k].uses > LfuThreshold
    /\ pc # "trimming" => Size <= softLimit

(* An eviction removes an entry: a trim cannot spin on an empty LRU list,  *)
(* and every get() that trims goes on to its lookup.                       *)
TrimEnds == pc = "trimming" ~> pc = "looking"

(* arc.h:128 and 158: the cache is a bounded cache of capacity hardLimit.  *)
(* A get() asks where it is called, trims while it adjusts the limit, and  *)
(* answers by the lookup: with the value last put under the key that this  *)
(* very get() asked for, or with nullptr, and that only if the entry was   *)
(* evicted by a put() or a trim, also the trim of the same get().          *)
Abstract == INSTANCE BoundedCache WITH
    Capacity <- HardLimit, answer <- result,
    content <- [k \in Keys |-> IF k \in Present THEN entries[k].value ELSE Null]

CacheSpec == Abstract!Spec

=============================================================================
