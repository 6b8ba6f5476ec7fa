--------------------------- MODULE ArcCacheProofs ---------------------------
(***************************************************************************)
(* For any keys and values and every hard limit: the map, the LRU list and *)
(* the LFU set of the cache describe the same entries after every method   *)
(* and every turn of a trim, the soft limit is kept, the LRU list is in    *)
(* the order of use, and the cache is a bounded cache.                     *)
(***************************************************************************)
EXTENDS MCArcCache, SeqLemmas

-----------------------------------------------------------------------------
(* The inductive invariant: Consistent as a predicate on the record that   *)
(* the private methods work on, so that their composition in put() can be  *)
(* followed; what get() knows of its key between its steps; and the types. *)
Entry == [value : Values, uses : 1..MaxUses, inLfu : BOOLEAN]

Sound(m) ==
    /\ DOMAIN m.entries \subseteq Keys /\ IsFiniteSet(DOMAIN m.entries)
    /\ m.entries \in [DOMAIN m.entries -> Entry]
    /\ m.lru \in Seq(Keys) /\ IsInjective(m.lru)
    /\ ToSet(m.lru) = {k \in DOMAIN m.entries : ~m.entries[k].inLfu}
    /\ m.lfu = {<<m.entries[k].uses, k>> : k \in {j \in DOMAIN m.entries : m.entries[j].inLfu}}
    /\ \A k \in DOMAIN m.entries : m.entries[k].inLfu <=> m.entries[k].uses > LfuThreshold

AskedKnown ==
    /\ pc = "ready" => asked = Null
    /\ pc # "ready" => /\ asked \in Keys
                       /\ asked \in Present => entries[asked].uses < MaxUses

LimitKept == pc # "trimming" => Size <= softLimit

CacheInv == TypeOK /\ Sound(Now) /\ AskedKnown /\ LimitKept

-----------------------------------------------------------------------------
(* The bounds of the soft limit and the threshold of promotion. *)
LEMMA LimitRange ==
    /\ MinLimit \in 1..HardLimit /\ Stride \in Nat \ {0}
    /\ LfuThreshold \in Nat /\ LfuThreshold >= 2
<1>1. HardLimit \in Nat \ {0} /\ LimitParts \in Nat \ {0}
  BY CacheAssumption
<1>2. HardLimit \div LimitParts \in 0..HardLimit
  BY <1>1
<1>3. HardLimit \div 20 \in 0..HardLimit
  BY <1>1
<1> QED
  BY <1>1, <1>2, <1>3 DEF MinLimit, Stride, LfuThreshold, AtLeast

-----------------------------------------------------------------------------
(* lru_keys.erase(entry.lru_iter) *)
LEMMA EraseSet ==
    ASSUME NEW s \in Seq(Keys), IsInjective(s), NEW k \in ToSet(s)
    PROVE  /\ Erase(s, k) \in Seq(Keys) /\ IsInjective(Erase(s, k))
           /\ ToSet(Erase(s, k)) = ToSet(s) \ {k}
<1> DEFINE i == CHOOSE j \in DOMAIN s : s[j] = k
<1>1. DOMAIN s = 1..Len(s)
  BY LenProperties
<1>2. i \in 1..Len(s) /\ s[i] = k
  BY <1>1 DEF ToSet
<1> HIDE DEF i
<1>3. Erase(s, k) = RemoveAt(s, i)
  BY DEF Erase, i
<1> QED
  BY <1>2, <1>3, RemoveAtElements, RemoveAtSet

(* remove_entry() *)
LEMMA RemoveSound ==
    ASSUME NEW m, Sound(m), NEW k \in DOMAIN m.entries
    PROVE  /\ Sound(RemoveEntry(m, k))
           /\ DOMAIN RemoveEntry(m, k).entries = DOMAIN m.entries \ {k}
           /\ \A j \in DOMAIN m.entries \ {k} : RemoveEntry(m, k).entries[j] = m.entries[j]
           /\ Cardinality(DOMAIN m.entries) \in Nat
           /\ Cardinality(DOMAIN RemoveEntry(m, k).entries) = Cardinality(DOMAIN m.entries) - 1
<1> DEFINE r == RemoveEntry(m, k)
           D == DOMAIN m.entries
<1>0. /\ r.entries = [j \in D \ {k} |-> m.entries[j]]
      /\ r.lru = IF m.entries[k].inLfu THEN m.lru ELSE Erase(m.lru, k)
      /\ r.lfu = IF m.entries[k].inLfu THEN m.lfu \ {<<m.entries[k].uses, k>>} ELSE m.lfu
  BY DEF RemoveEntry
<1>1. /\ DOMAIN r.entries = D \ {k}
      /\ \A j \in D \ {k} : r.entries[j] = m.entries[j]
  BY <1>0
<1>2. IsFiniteSet(D \ {k}) /\ Cardinality(D) \in Nat /\ Cardinality(D \ {k}) = Cardinality(D) - 1
  BY FS_RemoveElement, FS_CardinalityType DEF Sound
<1> HIDE DEF r
<1>3. D \subseteq Keys /\ r.entries \in [D \ {k} -> Entry]
  <2>1. m.entries \in [D -> Entry] /\ D \subseteq Keys
    BY DEF Sound
  <2> QED
    BY <1>0, <2>1
<1>4. /\ r.lru \in Seq(Keys) /\ IsInjective(r.lru)
      /\ ToSet(r.lru) = {j \in D \ {k} : ~r.entries[j].inLfu}
  <2>1. /\ m.lru \in Seq(Keys) /\ IsInjective(m.lru)
        /\ ToSet(m.lru) = {j \in D : ~m.entries[j].inLfu}
    BY DEF Sound
  <2>2. CASE m.entries[k].inLfu
    BY <1>0, <1>1, <2>1, <2>2
  <2>3. CASE ~m.entries[k].inLfu
    <3>1. k \in ToSet(m.lru)
      BY <2>1, <2>3
    <3>2. /\ r.lru \in Seq(Keys) /\ IsInjective(r.lru)
          /\ ToSet(r.lru) = ToSet(m.lru) \ {k}
      BY <1>0, <2>1, <2>3, <3>1, EraseSet
    <3> QED
      BY <1>1, <2>1, <3>2
  <2> QED
    BY <2>2, <2>3
<1>5. r.lfu = {<<r.entries[j].uses, j>> : j \in {i \in D \ {k} : r.entries[i].inLfu}}
  <2>1. m.lfu = {<<m.entries[j].uses, j>> : j \in {i \in D : m.entries[i].inLfu}}
    BY DEF Sound
  <2>2. r.lfu = m.lfu \ {<<m.entries[k].uses, k>>}
    BY <1>0, <2>1
  <2>3. {<<r.entries[j].uses, j>> : j \in {i \in D \ {k} : r.entries[i].inLfu}}
          = {<<m.entries[j].uses, j>> : j \in {i \in D \ {k} : m.entries[i].inLfu}}
    BY <1>1
  <2> QED
    BY <2>1, <2>2, <2>3
<1>6. \A j \in D \ {k} : r.entries[j].inLfu <=> r.entries[j].uses > LfuThreshold
  BY <1>1 DEF Sound
<1>7. Sound(r)
  BY <1>1, <1>2, <1>3, <1>4, <1>5, <1>6 DEF Sound
<1> QED
  BY <1>1, <1>2, <1>7 DEF r

(* *lfu_keys.begin() is an entry of the set. *)
LEMMA LfuVictimPresent ==
    ASSUME NEW m, Sound(m), m.lfu # {}
    PROVE  LfuVictim(m) \in DOMAIN m.entries
<1> DEFINE D == DOMAIN m.entries
           Counts == {m.entries[k].uses : k \in {j \in D : m.entries[j].inLfu}}
<1>0. /\ D \subseteq Nat /\ m.entries \in [D -> Entry]
      /\ m.lfu = {<<m.entries[k].uses, k>> : k \in {j \in D : m.entries[j].inLfu}}
  BY CacheAssumption DEF Sound
<1>1. Counts \subseteq Nat /\ Counts # {}
  <2>1. \A k \in D : m.entries[k].uses \in Nat
    BY <1>0, CacheAssumption DEF Entry
  <2>2. PICK p \in m.lfu : TRUE
    OBVIOUS
  <2>3. PICK k \in D : m.entries[k].inLfu
    BY <1>0, <2>2
  <2> QED
    BY <2>1, <2>3
<1>2. PICK c \in Counts : \A d \in Counts : c <= d
  BY <1>1, MinimumExists
<1> DEFINE Firsts == {k \in D : m.entries[k].inLfu /\ m.entries[k].uses = c}
<1>3. Firsts \subseteq Nat /\ Firsts # {}
  BY <1>0
<1>4. PICK k \in Firsts : \A j \in Firsts : k <= j
  BY <1>3, MinimumExists
<1>5. <<c, k>> \in m.lfu /\ \A q \in m.lfu : Before(<<c, k>>, q)
  <2>1. <<c, k>> \in m.lfu
    BY <1>0, <1>4
  <2> SUFFICES ASSUME NEW q \in m.lfu PROVE Before(<<c, k>>, q)
    BY <2>1
  <2>2. PICK j \in D : m.entries[j].inLfu /\ q = <<m.entries[j].uses, j>>
    BY <1>0
  <2>3. m.entries[j].uses \in Counts /\ m.entries[j].uses \in Nat /\ c \in Nat
    BY <1>1, <2>2
  <2>4. c <= m.entries[j].uses
    BY <1>2, <2>3
  <2>5. m.entries[j].uses = c => k <= j
    BY <1>4, <2>2
  <2> QED
    BY <2>2, <2>3, <2>4, <2>5 DEF Before
<1>6. (CHOOSE p \in m.lfu : \A q \in m.lfu : Before(p, q)) \in m.lfu
  BY <1>5
<1>7. PICK j \in D : LfuVictim(m) = (<<m.entries[j].uses, j>>)[2]
  BY <1>0, <1>6 DEF LfuVictim
<1> QED
  BY <1>7

(* evict(): an entry goes, unless there is none. *)
LEMMA EvictRemoves ==
    ASSUME NEW m, Sound(m)
    PROVE  \/ \E k \in DOMAIN m.entries : Evict(m) = RemoveEntry(m, k)
           \/ Evict(m) = m /\ DOMAIN m.entries = {}
<1> DEFINE D == DOMAIN m.entries
           Often == {k \in D : m.entries[k].inLfu}
<1>0. /\ m.lru \in Seq(Keys) /\ ToSet(m.lru) = D \ Often
      /\ m.lfu = {<<m.entries[k].uses, k>> : k \in Often}
      /\ Len(m.lru) \in Nat /\ DOMAIN m.lru = 1..Len(m.lru)
  BY LenProperties DEF Sound
<1>1. IsFiniteSet(m.lfu)
  <2> DEFINE f == [k \in Often |-> <<m.entries[k].uses, k>>]
  <2>1. f \in Surjection(Often, m.lfu)
    BY <1>0 DEF Surjection
  <2>2. IsFiniteSet(Often)
    BY FS_Subset DEF Sound
  <2> HIDE DEF f
  <2> QED
    BY <2>1, <2>2, FS_Surjection
<1>2. CASE Cardinality(m.lfu) > Len(m.lru)
  <2>1. ASSUME m.lfu = {} PROVE FALSE
    <3>1. Cardinality(m.lfu) = 0
      BY <2>1, FS_EmptySet
    <3> QED
      BY <1>0, <1>2, <3>1
  <2> QED
    BY <1>2, <2>1, LfuVictimPresent DEF Evict
<1>3. CASE ~(Cardinality(m.lfu) > Len(m.lru)) /\ m.lru # <<>>
  <2>1. Len(m.lru) \in 1..Len(m.lru)
    BY <1>0, <1>3, EmptySeq
  <2>2. LruVictim(m) \in D
    BY <1>0, <2>1 DEF LruVictim, Last, ToSet
  <2> QED
    BY <1>3, <2>2 DEF Evict
<1>4. CASE ~(Cardinality(m.lfu) > Len(m.lru)) /\ m.lru = <<>>
  <2>1. Cardinality(m.lfu) \in Nat /\ Len(m.lru) = 0
    BY <1>1, <1>4, FS_CardinalityType
  <2>2. Cardinality(m.lfu) = 0
    BY <1>4, <2>1
  <2>3. m.lfu = {} /\ ToSet(m.lru) = {}
    BY <1>0, <1>1, <1>4, <2>1, <2>2, FS_EmptySet DEF ToSet
  <2>4. D = {}
    BY <1>0, <2>3
  <2> QED
    BY <1>4, <2>4 DEF Evict
<1> QED
  BY <1>2, <1>3, <1>4

(* The insertion at the end of put(). *)
Inserted(m, k, v) ==
    [entries |-> [j \in DOMAIN m.entries \cup {k} |->
                    IF j = k THEN NewEntry(v) ELSE m.entries[j]],
     lru |-> <<k>> \o m.lru,
     lfu |-> m.lfu]

LEMMA InsertSound ==
    ASSUME NEW m, Sound(m), NEW k \in Keys, k \notin DOMAIN m.entries, NEW v \in Values
    PROVE  /\ Sound(Inserted(m, k, v))
           /\ Cardinality(DOMAIN m.entries) \in Nat
           /\ Cardinality(DOMAIN Inserted(m, k, v).entries) = Cardinality(DOMAIN m.entries) + 1
<1> DEFINE D == DOMAIN m.entries
           r == Inserted(m, k, v)
<1>0. /\ r.entries = [j \in D \cup {k} |-> IF j = k THEN NewEntry(v) ELSE m.entries[j]]
      /\ r.lru = <<k>> \o m.lru /\ r.lfu = m.lfu
  BY DEF Inserted
<1>1. /\ DOMAIN r.entries = D \cup {k} /\ r.entries[k] = NewEntry(v)
      /\ \A j \in D : r.entries[j] = m.entries[j]
  BY <1>0
<1> HIDE DEF r
<1>2. /\ D \subseteq Keys /\ IsFiniteSet(D) /\ m.entries \in [D -> Entry]
      /\ m.lru \in Seq(Keys) /\ IsInjective(m.lru)
      /\ ToSet(m.lru) = {j \in D : ~m.entries[j].inLfu}
      /\ m.lfu = {<<m.entries[j].uses, j>> : j \in {i \in D : m.entries[i].inLfu}}
  BY DEF Sound
<1>3. NewEntry(v) \in Entry /\ ~NewEntry(v).inLfu /\ NewEntry(v).uses = 1
  BY CacheAssumption DEF NewEntry, Entry
<1>4. /\ IsFiniteSet(D \cup {k}) /\ Cardinality(D) \in Nat
      /\ Cardinality(D \cup {k}) = Cardinality(D) + 1
  BY <1>2, FS_AddElement, FS_CardinalityType
<1>5. r.entries \in [D \cup {k} -> Entry]
  BY <1>0, <1>2, <1>3
<1>6. /\ r.lru \in Seq(Keys) /\ IsInjective(r.lru)
      /\ ToSet(r.lru) = {j \in D \cup {k} : ~r.entries[j].inLfu}
  <2>1. k \notin ToSet(m.lru)
    BY <1>2
  <2>2. /\ <<k>> \o m.lru \in Seq(Keys) /\ IsInjective(<<k>> \o m.lru)
        /\ ToSet(<<k>> \o m.lru) = ToSet(m.lru) \cup {k}
    BY <1>2, <2>1, PushFrontSet
  <2> QED
    BY <1>0, <1>1, <1>2, <1>3, <2>2
<1>7. r.lfu = {<<r.entries[j].uses, j>> : j \in {i \in D \cup {k} : r.entries[i].inLfu}}
  <2>1. {i \in D \cup {k} : r.entries[i].inLfu} = {i \in D : m.entries[i].inLfu}
    BY <1>1, <1>3
  <2>2. {<<r.entries[j].uses, j>> : j \in {i \in D : m.entries[i].inLfu}}
          = {<<m.entries[j].uses, j>> : j \in {i \in D : m.entries[i].inLfu}}
    BY <1>1
  <2> QED
    BY <1>0, <1>2, <2>1, <2>2
<1>8. \A j \in D \cup {k} : r.entries[j].inLfu <=> r.entries[j].uses > LfuThreshold
  <2>1. ~(1 > LfuThreshold)
    BY LimitRange
  <2> QED
    BY <1>1, <1>3, <2>1 DEF Sound
<1>9. Sound(r)
  BY <1>1, <1>2, <1>4, <1>5, <1>6, <1>7, <1>8 DEF Sound
<1> QED
  BY <1>1, <1>4, <1>9 DEF r

-----------------------------------------------------------------------------
(* What the invariant says of the three structures and their types. *)
LEMMA SoundTypes ==
    ASSUME Sound(Now)
    PROVE  /\ Present \subseteq Keys /\ IsFiniteSet(Present) /\ Size \in Nat
           /\ entries \in [Present -> Entry]
           /\ lruKeys \in Seq(Keys)
           /\ lfuKeys \subseteq (1..MaxUses) \X Keys
<1>1. Now.entries = entries /\ Now.lru = lruKeys /\ Now.lfu = lfuKeys
  BY DEF Now
<1>2. /\ Present \subseteq Keys /\ IsFiniteSet(Present)
      /\ entries \in [Present -> Entry]
      /\ lruKeys \in Seq(Keys)
      /\ lfuKeys = {<<entries[k].uses, k>> : k \in {j \in Present : entries[j].inLfu}}
  BY <1>1 DEF Sound, Present
<1> QED
  BY <1>2, FS_CardinalityType DEF Entry, Size

LEMMA SoundBecomes ==
    ASSUME NEW m, Sound(m), Become(m)
    PROVE  Sound(Now)' /\ Present' = DOMAIN m.entries /\ Size' = Cardinality(DOMAIN m.entries)
<1>1. Now'.entries = m.entries /\ Now'.lru = m.lru /\ Now'.lfu = m.lfu
  BY DEF Become, Now
<1>2. Sound(Now)'
  BY <1>1 DEF Sound
<1> QED
  BY <1>2 DEF Become, Present, Size

LEMMA InitInv == Init => CacheInv
<1> SUFFICES ASSUME Init PROVE CacheInv
  OBVIOUS
<1>1. Present = {} /\ entries = <<>> /\ lruKeys = <<>> /\ lfuKeys = {}
  BY DEF Init, Present
<1>2. Size = 0
  BY <1>1, FS_EmptySet DEF Size
<1>3. Sound(Now)
  <2>1. Now.entries = <<>> /\ Now.lru = <<>> /\ Now.lfu = {} /\ DOMAIN Now.entries = {}
    BY <1>1 DEF Now, Present
  <2>2. IsFiniteSet(DOMAIN Now.entries)
    BY <2>1, FS_EmptySet
  <2>3. Now.entries \in [DOMAIN Now.entries -> Entry]
    BY <2>1
  <2>4. IsInjective(Now.lru) /\ ToSet(Now.lru) = {} /\ Now.lru \in Seq(Keys)
    BY <2>1 DEF IsInjective, ToSet
  <2> QED
    BY <2>1, <2>2, <2>3, <2>4 DEF Sound
<1>4. TypeOK
  BY <1>1, LimitRange, CacheAssumption DEF Init, TypeOK
<1>5. AskedKnown /\ LimitKept
  BY <1>2, LimitRange DEF Init, AskedKnown, LimitKept
<1> QED
  BY <1>3, <1>4, <1>5 DEF CacheInv

-----------------------------------------------------------------------------
(* m holds some of the entries of the cache, unchanged. *)
PartOfCache(m) ==
    /\ Sound(m) /\ DOMAIN m.entries \subseteq Present
    /\ \A j \in DOMAIN m.entries : m.entries[j] = entries[j]

(* The entries to which put(k, _) adds its own. *)
KeptForPut(k) ==
    LET m0 == IF k \in Present THEN RemoveEntry(Now, k) ELSE Now
    IN  IF IsFull(m0) THEN Evict(m0) ELSE m0

(* put(): what is left of the entries is sound and has room for another;   *)
(* beside the old entry of the key, one entry at most is lost.             *)
LEMMA PutStep ==
    ASSUME CacheInv, NEW k \in Keys, NEW v \in Values, Put(k, v)
    PROVE  /\ PartOfCache(KeptForPut(k)) /\ k \notin DOMAIN KeptForPut(k).entries
           /\ \E lost \in Keys : Present \ DOMAIN KeptForPut(k).entries \subseteq {k, lost}
           /\ Cardinality(DOMAIN KeptForPut(k).entries) < softLimit
           /\ Become(Inserted(KeptForPut(k), k, v))
<1>0. /\ Sound(Now) /\ Present \subseteq Keys /\ Size \in Nat /\ Size <= softLimit
      /\ softLimit \in Nat /\ softLimit >= 1 /\ Now.entries = entries
  BY SoundTypes, LimitRange, CacheAssumption DEF CacheInv, LimitKept, TypeOK, Put, Now
<1> DEFINE m0 == IF k \in Present THEN RemoveEntry(Now, k) ELSE Now
           m1 == IF IsFull(m0) THEN Evict(m0) ELSE m0
<1>1. Become(Inserted(m1, k, v)) /\ KeptForPut(k) = m1
  BY DEF Put, Inserted, KeptForPut
<1>2. /\ Sound(m0) /\ DOMAIN m0.entries = Present \ {k}
      /\ \A j \in Present \ {k} : m0.entries[j] = entries[j]
      /\ Cardinality(DOMAIN m0.entries) \in Nat
      /\ Cardinality(DOMAIN m0.entries) <= softLimit
  <2>1. CASE k \in Present
    <3>1. /\ Sound(RemoveEntry(Now, k))
          /\ DOMAIN RemoveEntry(Now, k).entries = Present \ {k}
          /\ \A j \in Present \ {k} : RemoveEntry(Now, k).entries[j] = entries[j]
          /\ Cardinality(DOMAIN RemoveEntry(Now, k).entries) = Size - 1
      BY <1>0, <2>1, RemoveSound DEF Present, Size
    <3>2. Size # 0
      BY <1>0, <2>1, SoundTypes, FS_EmptySet DEF Size
    <3> QED
      BY <1>0, <2>1, <3>1, <3>2
  <2>2. CASE k \notin Present
    BY <1>0, <2>2 DEF Present, Size
  <2> QED
    BY <2>1, <2>2
<1> HIDE DEF m0
<1>3. CASE IsFull(m0)
  <2>1. m1 = Evict(m0)
    BY <1>3
  <2>2. DOMAIN m0.entries # {}
    <3>1. Cardinality(DOMAIN m0.entries) # 0
      BY <1>0, <1>2, <1>3 DEF IsFull
    <3> QED
      BY <3>1, FS_EmptySet
  <2>3. PICK j \in DOMAIN m0.entries : m1 = RemoveEntry(m0, j)
    BY <1>2, <2>1, <2>2, EvictRemoves
  <2> HIDE DEF m1
  <2>4. /\ Sound(m1) /\ DOMAIN m1.entries = DOMAIN m0.entries \ {j}
        /\ \A i \in DOMAIN m0.entries \ {j} : m1.entries[i] = m0.entries[i]
        /\ Cardinality(DOMAIN m1.entries) = Cardinality(DOMAIN m0.entries) - 1
    BY <1>2, <2>3, RemoveSound
  <2>5. Cardinality(DOMAIN m1.entries) < softLimit
    BY <1>0, <1>2, <2>4
  <2>6. j \in Keys /\ Present \ DOMAIN m1.entries \subseteq {k, j}
    BY <1>0, <1>2, <2>4
  <2>7. /\ k \notin DOMAIN m1.entries /\ DOMAIN m1.entries \subseteq Present
        /\ \A i \in DOMAIN m1.entries : m1.entries[i] = entries[i]
    BY <1>2, <2>4
  <2> QED
    BY <1>1, <2>4, <2>5, <2>6, <2>7 DEF PartOfCache
<1>4. CASE ~IsFull(m0)
  <2>1. m1 = m0
    BY <1>4
  <2> HIDE DEF m1
  <2>2. Cardinality(DOMAIN m1.entries) < softLimit
    BY <1>0, <1>2, <1>4, <2>1 DEF IsFull
  <2>3. Present \ DOMAIN m1.entries \subseteq {k, k}
    BY <1>2, <2>1
  <2>4. /\ k \notin DOMAIN m1.entries /\ DOMAIN m1.entries \subseteq Present
        /\ \A i \in DOMAIN m1.entries : m1.entries[i] = entries[i]
    BY <1>2, <2>1
  <2> QED
    BY <1>1, <1>2, <2>1, <2>2, <2>3, <2>4 DEF PartOfCache
<1> QED
  BY <1>3, <1>4

(* A turn of trim() evicts one entry, unless there is none.                *)
LEMMA TrimStep ==
    ASSUME CacheInv
    PROVE  PartOfCache(Evict(Now))
<1>1. Sound(Now) /\ Now.entries = entries
  BY DEF CacheInv, Now
<1>2. CASE \E k \in Present : Evict(Now) = RemoveEntry(Now, k)
  <2>1. PICK k \in Present : Evict(Now) = RemoveEntry(Now, k)
    BY <1>2
  <2>2. /\ Sound(Evict(Now)) /\ DOMAIN Evict(Now).entries = Present \ {k}
        /\ \A j \in Present \ {k} : Evict(Now).entries[j] = entries[j]
    BY <1>1, <2>1, RemoveSound DEF Present
  <2> QED
    BY <2>2 DEF PartOfCache
<1>3. CASE Evict(Now) = Now
  BY <1>1, <1>3 DEF Present, PartOfCache
<1> QED
  BY <1>1, <1>2, <1>3, EvictRemoves DEF Present

(* The end of get() counts the hit, and moves the entry to the front of    *)
(* the LRU list, to the LFU set or to the next count there.                *)
LEMMA HitSound ==
    ASSUME CacheInv, Hit
    PROVE  /\ Sound(Now)' /\ Present' = Present /\ Size' = Size
           /\ \A k \in Present : entries'[k].value = entries[k].value
<1> DEFINE e == entries[asked]
           promoted == Promotes(e)
<1>0. /\ Sound(Now) /\ asked \in Present /\ Present \subseteq Keys
      /\ entries \in [Present -> Entry] /\ e \in Entry
      /\ IsFiniteSet(Present)
      /\ e.uses \in 1..MaxUses /\ e.uses < MaxUses /\ e.inLfu \in BOOLEAN
  BY SoundTypes DEF CacheInv, Hit, AskedKnown, Entry
<1>1. /\ lruKeys \in Seq(Keys) /\ IsInjective(lruKeys)
      /\ ToSet(lruKeys) = {k \in Present : ~entries[k].inLfu}
      /\ lfuKeys = {<<entries[k].uses, k>> : k \in {j \in Present : entries[j].inLfu}}
      /\ \A k \in Present : entries[k].inLfu <=> entries[k].uses > LfuThreshold
  BY <1>0 DEF Sound, Now, Present
<1>2. /\ entries' = [entries EXCEPT ![asked].uses = e.uses + 1, ![asked].inLfu = promoted]
      /\ lfuKeys' = IF promoted THEN (lfuKeys \ {<<e.uses, asked>>}) \cup {<<e.uses + 1, asked>>}
                                ELSE lfuKeys
      /\ lruKeys' = IF e.inLfu THEN lruKeys
                    ELSE IF promoted THEN Erase(lruKeys, asked)
                    ELSE MovedToFront(lruKeys, asked)
  BY DEF Hit
<1>3. e.uses + 1 \in 1..MaxUses
  BY <1>0, CacheAssumption
<1>4. promoted \in BOOLEAN /\ (promoted <=> e.uses + 1 > LfuThreshold)
  BY <1>0, <1>1, <1>3, LimitRange, CacheAssumption DEF Promotes
<1> HIDE DEF promoted
<1>5. /\ DOMAIN entries' = Present
      /\ \A k \in Present \ {asked} : entries'[k] = entries[k]
      /\ entries'[asked].uses = e.uses + 1 /\ entries'[asked].inLfu = promoted
      /\ entries'[asked].value = e.value
      /\ entries'[asked] \in Entry
  BY <1>0, <1>2, <1>3, <1>4 DEF Entry
<1>6. entries' \in [Present -> Entry]
  <2>1. entries' = [k \in Present |-> entries'[k]]
    BY <1>0, <1>2
  <2>2. \A k \in Present : entries'[k] \in Entry
    BY <1>0, <1>5
  <2> QED
    BY <2>1, <2>2
<1>7. /\ lruKeys' \in Seq(Keys) /\ IsInjective(lruKeys')
      /\ ToSet(lruKeys') = {k \in Present : ~entries'[k].inLfu}
  <2>1. CASE e.inLfu
    <3>1. promoted
      BY <2>1 DEF promoted, Promotes
    <3> QED
      BY <1>0, <1>1, <1>2, <1>5, <2>1, <3>1
  <2>2. CASE ~e.inLfu
    <3>1. asked \in ToSet(lruKeys)
      BY <1>0, <1>1, <2>2
    <3>2. /\ Erase(lruKeys, asked) \in Seq(Keys) /\ IsInjective(Erase(lruKeys, asked))
          /\ ToSet(Erase(lruKeys, asked)) = ToSet(lruKeys) \ {asked}
      BY <1>1, <3>1, EraseSet
    <3>3. CASE promoted
      BY <1>0, <1>1, <1>2, <1>5, <2>2, <3>2, <3>3
    <3>4. CASE ~promoted
      <4>1. asked \in Keys /\ asked \notin ToSet(Erase(lruKeys, asked))
        BY <1>0, <3>2
      <4>2. /\ <<asked>> \o Erase(lruKeys, asked) \in Seq(Keys)
            /\ IsInjective(<<asked>> \o Erase(lruKeys, asked))
            /\ ToSet(<<asked>> \o Erase(lruKeys, asked)) = ToSet(Erase(lruKeys, asked)) \cup {asked}
        BY <3>2, <4>1, PushFrontSet
      <4>3. lruKeys' = <<asked>> \o Erase(lruKeys, asked)
        BY <1>2, <2>2, <3>4 DEF MovedToFront
      <4>4. ToSet(lruKeys') = ToSet(lruKeys)
        BY <3>1, <3>2, <4>2, <4>3
      <4>5. \A k \in Present : entries'[k].inLfu <=> entries[k].inLfu
        BY <1>5, <2>2, <3>4
      <4> QED
        BY <1>1, <4>2, <4>3, <4>4, <4>5
    <3> QED
      BY <3>3, <3>4
  <2> QED
    BY <2>1, <2>2
<1>8. lfuKeys' = {<<entries'[k].uses, k>> : k \in {j \in Present : entries'[j].inLfu}}
  <2>1. CASE promoted
    <3> DEFINE Others == {j \in Present : entries[j].inLfu /\ j # asked}
    <3>1. lfuKeys' = (lfuKeys \ {<<e.uses, asked>>}) \cup {<<e.uses + 1, asked>>}
      BY <1>2, <2>1
    <3>2. lfuKeys \ {<<e.uses, asked>>} = {<<entries[k].uses, k>> : k \in Others}
      BY <1>1
    <3>3. {<<entries[k].uses, k>> : k \in Others} = {<<entries'[k].uses, k>> : k \in Others}
      BY <1>5
    <3>4. {j \in Present : entries'[j].inLfu} = Others \cup {asked}
      BY <1>0, <1>5, <2>1
    <3>5. {<<entries'[k].uses, k>> : k \in Others \cup {asked}}
            = {<<entries'[k].uses, k>> : k \in Others} \cup {<<entries'[asked].uses, asked>>}
      OBVIOUS
    <3> HIDE DEF Others
    <3> QED
      BY <1>5, <3>1, <3>2, <3>3, <3>4, <3>5
  <2>2. CASE ~promoted
    <3>1. ~e.inLfu
      BY <2>2 DEF promoted, Promotes
    <3>2. {j \in Present : entries'[j].inLfu} = {j \in Present : entries[j].inLfu}
      BY <1>0, <1>5, <2>2, <3>1
    <3>3. {<<entries'[k].uses, k>> : k \in {j \in Present : entries[j].inLfu}}
            = {<<entries[k].uses, k>> : k \in {j \in Present : entries[j].inLfu}}
      BY <1>5, <3>1
    <3> QED
      BY <1>1, <1>2, <2>2, <3>2, <3>3
  <2> QED
    BY <1>4, <2>1, <2>2
<1>9. \A k \in Present : entries'[k].inLfu <=> entries'[k].uses > LfuThreshold
  BY <1>1, <1>4, <1>5
<1>10. Now'.entries = entries' /\ Now'.lru = lruKeys' /\ Now'.lfu = lfuKeys'
  BY DEF Now
<1>11. Sound(Now)'
  BY <1>0, <1>5, <1>6, <1>7, <1>8, <1>9, <1>10 DEF Sound
<1> QED
  BY <1>0, <1>5, <1>11 DEF Present, Size

-----------------------------------------------------------------------------
(* adjust_size() keeps the limit between its bounds. *)
LEMMA AdjustedRange ==
    ASSUME softLimit \in MinLimit..HardLimit, NEW n
    PROVE  AdjustedLimit(n) \in MinLimit..HardLimit
BY LimitRange, CacheAssumption DEF AdjustedLimit, AtMost, AtLeast

(* Every step keeps the invariant. *)
LEMMA StepInv == CacheInv /\ [Next]_vars => CacheInv'
<1> SUFFICES ASSUME CacheInv, [Next]_vars PROVE CacheInv'
  OBVIOUS
<1>0. /\ softLimit \in MinLimit..HardLimit /\ total \in Nat
      /\ hits \in 0..(total + IF pc = "ready" THEN 1 ELSE 0)
      /\ pc \in {"ready", "trimming", "looking"}
      /\ asked \in Keys \cup {Null} /\ result \in Values \cup {Null}
      /\ Sound(Now) /\ AskedKnown /\ LimitKept
      /\ MinLimit \in Nat /\ HardLimit \in Nat /\ Size \in Nat
  BY LimitRange, CacheAssumption, SoundTypes DEF CacheInv, TypeOK
\* The types of the three structures follow from their soundness.
<1>1. ASSUME /\ Sound(Now)'
             /\ softLimit' \in MinLimit..HardLimit /\ total' \in Nat
             /\ hits' \in 0..(total' + IF pc' = "ready" THEN 1 ELSE 0)
             /\ pc' \in {"ready", "trimming", "looking"}
             /\ asked' \in Keys \cup {Null} /\ result' \in Values \cup {Null}
             /\ AskedKnown' /\ LimitKept'
      PROVE  CacheInv'
  <2>1. Now'.entries = entries' /\ Now'.lru = lruKeys' /\ Now'.lfu = lfuKeys'
    BY DEF Now
  <2>2. /\ Present' \subseteq Keys
        /\ entries' \in [Present' -> Entry]
        /\ lruKeys' \in Seq(Keys)
        /\ lfuKeys' = {<<entries'[k].uses, k>> : k \in {j \in Present' : entries'[j].inLfu}}
    BY <1>1, <2>1 DEF Sound, Present
  <2>3. \A k \in Present' :
          entries'[k] \in [value : Values, uses : 1..MaxUses, inLfu : BOOLEAN]
    BY <2>2 DEF Entry
  <2>4. lfuKeys' \subseteq (1..MaxUses) \X Keys
    BY <2>2, <2>3
  <2> QED
    BY <1>1, <2>2, <2>3, <2>4 DEF CacheInv, TypeOK
<1>2. ASSUME NEW k \in Keys, NEW v \in Values, Put(k, v)
      PROVE  CacheInv'
  <2> DEFINE m == KeptForPut(k)
  <2>1. /\ Sound(m) /\ k \notin DOMAIN m.entries
        /\ Cardinality(DOMAIN m.entries) < softLimit
        /\ Become(Inserted(m, k, v))
    BY <1>2, PutStep DEF PartOfCache
  <2>2. /\ Sound(Inserted(m, k, v)) /\ Cardinality(DOMAIN m.entries) \in Nat
        /\ Cardinality(DOMAIN Inserted(m, k, v).entries) = Cardinality(DOMAIN m.entries) + 1
    BY <2>1, InsertSound
  <2>3. Sound(Now)' /\ Size' = Cardinality(DOMAIN m.entries) + 1
    BY <2>1, <2>2, SoundBecomes
  <2>4. Size' <= softLimit
    BY <1>0, <2>1, <2>2, <2>3
  <2>5. pc = "ready" /\ UNCHANGED <<softLimit, total, hits, pc, asked>> /\ result' = v
    BY <1>2 DEF Put
  <2> QED
    BY <1>0, <1>1, <2>3, <2>4, <2>5 DEF AskedKnown, LimitKept
<1>3. ASSUME NEW k \in Keys, Access(k)
      PROVE  CacheInv'
  <2>1. /\ UNCHANGED <<entries, lruKeys, lfuKeys, result>> /\ asked' = k
        /\ k \in Present => entries[k].uses < MaxUses
        /\ pc = "ready" /\ pc' \in {"trimming", "looking"}
    BY <1>3 DEF Access, structure
  <2>2. Now' = Now /\ Present' = Present /\ Size' = Size
    BY <2>1 DEF Now, Present, Size
  <2>3. Sound(Now)'
    BY <1>0, <2>2 DEF Sound
  <2>4. AskedKnown'
    BY <2>1, <2>2 DEF AskedKnown
  <2>5. Size <= softLimit
    BY <1>0, <2>1 DEF LimitKept
  <2>6. CASE total + 1 >= softLimit * Window
    <3>1. /\ softLimit' = AdjustedLimit(total + 1) /\ total' = 0 /\ hits' = 0
          /\ pc' = IF NeedsTrim(softLimit') THEN "trimming" ELSE "looking"
      BY <1>3, <2>6 DEF Access, ResetStats
    <3>2. softLimit' \in MinLimit..HardLimit
      BY <1>0, <3>1, AdjustedRange
    <3>3. LimitKept'
      BY <1>0, <2>2, <2>5, <3>1, <3>2 DEF LimitKept, NeedsTrim
    <3> QED
      BY <1>0, <1>1, <2>1, <2>3, <2>4, <3>1, <3>2, <3>3
  <2>7. CASE ~(total + 1 >= softLimit * Window)
    <3>1. total' = total + 1 /\ pc' = "looking" /\ UNCHANGED <<softLimit, hits>>
      BY <1>3, <2>7 DEF Access
    <3>2. hits' \in 0..total'
      BY <1>0, <2>1, <3>1
    <3> QED
      BY <1>0, <1>1, <2>1, <2>2, <2>3, <2>4, <2>5, <3>1, <3>2 DEF LimitKept
  <2> QED
    BY <2>6, <2>7
<1>4. ASSUME TrimOne
      PROVE  CacheInv'
  <2> DEFINE m == Evict(Now)
  <2>1. /\ Sound(m) /\ DOMAIN m.entries \subseteq Present
        /\ \A j \in DOMAIN m.entries : m.entries[j] = entries[j]
        /\ Become(m)
        /\ pc' = IF Cardinality(DOMAIN m.entries) > softLimit
                   THEN "trimming" ELSE "looking"
    BY <1>4, TrimStep DEF PartOfCache, TrimOne
  <2>2. /\ Sound(Now)' /\ Present' = DOMAIN m.entries
        /\ Size' = Cardinality(DOMAIN m.entries)
    BY <2>1, SoundBecomes
  <2>3. Cardinality(DOMAIN m.entries) \in Nat
    BY <2>1, FS_CardinalityType DEF Sound
  <2>4. pc = "trimming" /\ UNCHANGED <<softLimit, total, hits, asked, result>>
    BY <1>4 DEF TrimOne
  <2>5. LimitKept'
    BY <1>0, <2>1, <2>2, <2>3, <2>4 DEF LimitKept
  <2>6. AskedKnown'
    BY <1>0, <2>1, <2>2, <2>4 DEF AskedKnown, Become
  <2> QED
    BY <1>0, <1>1, <2>1, <2>2, <2>4, <2>5, <2>6
<1>5. ASSUME Miss
      PROVE  CacheInv'
  <2>1. /\ UNCHANGED <<entries, lruKeys, lfuKeys, softLimit, total, hits>>
        /\ pc = "looking" /\ pc' = "ready" /\ asked' = Null /\ result' = Null
    BY <1>5 DEF Miss, structure
  <2>2. Now' = Now /\ Present' = Present /\ Size' = Size
    BY <2>1 DEF Now, Present, Size
  <2>3. Sound(Now)'
    BY <1>0, <2>2 DEF Sound
  <2> QED
    BY <1>0, <1>1, <2>1, <2>2, <2>3 DEF AskedKnown, LimitKept
<1>6. ASSUME Hit
      PROVE  CacheInv'
  <2>1. /\ UNCHANGED <<softLimit, total>> /\ hits' = hits + 1
        /\ pc = "looking" /\ pc' = "ready" /\ asked' = Null
        /\ asked \in Present /\ result' = entries[asked].value
    BY <1>6 DEF Hit
  <2>2. result' \in Values
    BY <1>0, <2>1, SoundTypes DEF Entry
  <2>3. Sound(Now)' /\ Size' = Size
    BY <1>6, HitSound
  <2>4. hits' \in 0..(total' + 1)
    BY <1>0, <2>1
  <2> QED
    BY <1>0, <1>1, <2>1, <2>2, <2>3, <2>4 DEF AskedKnown, LimitKept
<1>7. CASE UNCHANGED vars
  <2>1. UNCHANGED <<entries, lruKeys, lfuKeys, softLimit, total, hits, pc, asked, result>>
    BY <1>7 DEF vars
  <2>2. Now' = Now /\ Present' = Present /\ Size' = Size
    BY <2>1 DEF Now, Present, Size
  <2>3. Sound(Now)'
    BY <1>0, <2>2 DEF Sound
  <2> QED
    BY <1>0, <1>1, <2>1, <2>2, <2>3 DEF AskedKnown, LimitKept
<1> QED
  BY <1>2, <1>3, <1>4, <1>5, <1>6, <1>7 DEF Next, Get

-----------------------------------------------------------------------------
(* The invariant holds of every cache. *)
THEOREM CacheInvariant == Spec => []CacheInv
<1> QED
  BY InitInv, StepInv, PTL DEF Spec

(* The counters, the limit and the three structures of the cache keep      *)
(* their ranges; adjust_size() never computes a hit rate above one.        *)
THEOREM CacheTypeCorrect == Spec => []TypeOK
<1>1. CacheInv => TypeOK
  BY DEF CacheInv
<1> QED
  BY <1>1, CacheInvariant, PTL

(* put(), get() and every turn of trim() leave the map, lru_keys and       *)
(* lfu_keys describing the same entries, and the soft limit kept.          *)
THEOREM StructuresAgree == Spec => []Consistent
<1>1. CacheInv => Consistent
  <2> SUFFICES ASSUME CacheInv PROVE Consistent
    OBVIOUS
  <2>1. /\ IsInjective(lruKeys)
        /\ ToSet(lruKeys) = {k \in Present : ~entries[k].inLfu}
        /\ lfuKeys = {<<entries[k].uses, k>> : k \in {j \in Present : entries[j].inLfu}}
        /\ \A k \in Present : entries[k].inLfu <=> entries[k].uses > LfuThreshold
    BY DEF CacheInv, Sound, Now, Present
  <2>2. InLfu = {k \in Present : entries[k].inLfu}
    BY DEF InLfu
  <2>3. ToSet(lruKeys) = InLru
    BY <2>1, <2>2 DEF InLru
  <2>4. \A k \in Present : k \in InLfu <=> entries[k].uses > LfuThreshold
    BY <2>1, <2>2
  <2> QED
    BY <2>1, <2>2, <2>3, <2>4 DEF Consistent, CacheInv, LimitKept
<1> QED
  BY <1>1, CacheInvariant, PTL

-----------------------------------------------------------------------------
(* The refinement: the content of the abstract cache. *)
Content == [k \in Keys |-> IF k \in Present THEN entries[k].value ELSE Null]

LEMMA ContentPresent ==
    ASSUME Sound(Now)
    PROVE  {k \in Keys : Content[k] # Null} = Present
<1>1. Present \subseteq Keys /\ entries \in [Present -> Entry]
  BY SoundTypes
<1>2. \A k \in Present : entries[k].value \in Values /\ entries[k].value # Null
  BY <1>1, CacheAssumption DEF Entry
<1> QED
  BY <1>1, <1>2 DEF Content

(* put() stores the value, keeps the others but one, and the capacity.     *)
LEMMA PutStores ==
    ASSUME CacheInv, CacheInv', NEW k \in Keys, NEW v \in Values, Put(k, v)
    PROVE  Abstract!Store(k, v)
<1> DEFINE m == KeptForPut(k)
<1>1. /\ Sound(m) /\ DOMAIN m.entries \subseteq Present /\ k \notin DOMAIN m.entries
      /\ \A j \in DOMAIN m.entries : m.entries[j] = entries[j]
      /\ \E lost \in Keys : Present \ DOMAIN m.entries \subseteq {k, lost}
      /\ Become(Inserted(m, k, v))
  BY PutStep DEF PartOfCache
<1> HIDE DEF m
<1>2. entries' = [j \in DOMAIN m.entries \cup {k} |->
                    IF j = k THEN NewEntry(v) ELSE m.entries[j]]
  BY <1>1 DEF Become, Inserted
<1>3. /\ Present' = DOMAIN m.entries \cup {k} /\ entries'[k].value = v
      /\ \A j \in DOMAIN m.entries : entries'[j] = entries[j]
  BY <1>1, <1>2 DEF Present, NewEntry
<1>4. /\ Content \in [Keys -> Values \cup {Null}] /\ Present \subseteq Keys
      /\ DOMAIN Content' = Keys
  BY SoundTypes DEF Content, CacheInv, Entry
<1>5. Content'[k] = v
  BY <1>3 DEF Content
<1>6. \A j \in Keys : Content'[j] \in {[Content EXCEPT ![k] = v][j], Null}
  <2> SUFFICES ASSUME NEW j \in Keys
               PROVE  Content'[j] \in {[Content EXCEPT ![k] = v][j], Null}
    OBVIOUS
  <2>1. CASE j = k
    BY <1>4, <1>5, <2>1
  <2>2. CASE j # k /\ j \in DOMAIN m.entries
    <3>1. Content'[j] = entries[j].value /\ Content[j] = entries[j].value
      BY <1>1, <1>3, <2>2 DEF Content
    <3> QED
      BY <1>4, <2>2, <3>1
  <2>3. CASE j # k /\ j \notin DOMAIN m.entries
    <3>1. Content'[j] = Null
      BY <1>3, <2>3 DEF Content
    <3> QED
      BY <3>1
  <2> QED
    BY <2>1, <2>2, <2>3
<1>7. Cardinality(Present \ Present') <= 1
  <2>1. PICK lost \in Keys : Present \ DOMAIN m.entries \subseteq {k, lost}
    BY <1>1
  <2>2. Present \ Present' \subseteq {lost}
    BY <1>3, <2>1
  <2>3. IsFiniteSet({lost}) /\ Cardinality({lost}) = 1
    BY FS_Singleton
  <2> QED
    BY <2>2, <2>3, FS_Subset, FS_CardinalityType
<1>8. Cardinality(Present') <= HardLimit
  <2>1. pc' = "ready" /\ Size' \in Nat /\ Size' <= softLimit' /\ softLimit' \in MinLimit..HardLimit
    <3>1. pc' = "ready" /\ UNCHANGED softLimit
      BY DEF Put
    <3>2. Size' <= softLimit' /\ softLimit' \in MinLimit..HardLimit
      BY <3>1 DEF CacheInv, LimitKept, TypeOK
    <3>3. Sound(Inserted(m, k, v)) /\ Cardinality(DOMAIN Inserted(m, k, v).entries) \in Nat
      BY <1>1, InsertSound
    <3>4. Size' \in Nat
      BY <1>1, <3>3, SoundBecomes
    <3> QED
      BY <3>1, <3>2, <3>4
  <2>2. Size' = Cardinality(Present')
    BY DEF Size
  <2> QED
    BY <2>1, <2>2, LimitRange, CacheAssumption
<1>9. /\ {j \in Keys : Content[j] # Null} = Present
      /\ {j \in Keys : Content'[j] # Null} = Present'
  <2>1. {j \in Keys : Content'[j] # Null} = Present'
    <3>1. m.entries \in [DOMAIN m.entries -> Entry] /\ DOMAIN m.entries \subseteq Keys
      BY <1>1 DEF Sound
    <3>2. \A j \in Present' : entries'[j].value # Null
      BY <1>1, <1>3, <3>1, CacheAssumption DEF Entry
    <3> QED
      BY <1>3, <3>1, <3>2 DEF Content
  <2> QED
    BY <2>1, ContentPresent DEF CacheInv
<1>10. result' = v
  BY DEF Put
<1>11. Abstract!Shrinks([Content EXCEPT ![k] = v], Content')
  BY <1>6 DEF Abstract!Shrinks
<1>12. Abstract!Present(Content) = Present /\ Abstract!Present(Content') = Present'
  BY <1>9 DEF Abstract!Present
<1>13. /\ Cardinality(Abstract!Present(Content) \ Abstract!Present(Content')) <= 1
       /\ Cardinality(Abstract!Present(Content')) <= HardLimit
  BY <1>7, <1>8, <1>12
<1>14. \A S : Abstract!Cardinality(S) = Cardinality(S)
  BY DEF Abstract!Cardinality, Cardinality
<1>15. asked = Null /\ UNCHANGED asked
  BY DEF Put, CacheInv, AskedKnown
<1> QED
  BY <1>5, <1>10, <1>11, <1>13, <1>14, <1>15 DEF Abstract!Store, Content

(* A turn of trim() only loses entries; get() then finds what is left.     *)
LEMMA TrimShrinks ==
    ASSUME CacheInv, TrimOne
    PROVE  Abstract!Trim
<1> DEFINE m == Evict(Now)
<1>1. /\ DOMAIN m.entries \subseteq Present
      /\ \A j \in DOMAIN m.entries : m.entries[j] = entries[j]
      /\ entries' = m.entries /\ result' = result
  BY TrimStep DEF TrimOne, PartOfCache, Become
<1> HIDE DEF m
<1>2. \A j \in Keys : Content'[j] \in {Content[j], Null}
  BY <1>1 DEF Content, Present
<1>3. asked \in Keys /\ asked # Null /\ UNCHANGED asked
  BY CacheAssumption DEF CacheInv, AskedKnown, TrimOne
<1> QED
  BY <1>1, <1>2, <1>3 DEF Abstract!Trim, Abstract!Shrinks, Content

LEMMA LookupAnswers ==
    ASSUME CacheInv, Miss \/ Hit
    PROVE  Abstract!Reply
<1>1. asked \in Keys /\ asked # Null /\ asked' = Null
  BY CacheAssumption DEF CacheInv, AskedKnown, Miss, Hit
<1>2. Content' = Content /\ result' = Content[asked]
  <2>1. CASE Miss
    BY <1>1, <2>1 DEF Miss, structure, Content, Present
  <2>2. CASE Hit
    <3>1. Present' = Present /\ \A k \in Present : entries'[k].value = entries[k].value
      BY <2>2, HitSound
    <3>2. Content' = Content
      BY <3>1 DEF Content
    <3>3. result' = Content[asked]
      BY <1>1, <2>2 DEF Hit, Content
    <3> QED
      BY <3>2, <3>3
  <2> QED
    BY <2>1, <2>2
<1> QED
  BY <1>1, <1>2 DEF Abstract!Reply, Content

(* The cache is a bounded cache of capacity hardLimit: each get() returns  *)
(* what was last put under the text that it was asked for, or nothing if a *)
(* put() or a trim lost it; put() loses at most one other entry, and       *)
(* nothing appears by itself.                                              *)
THEOREM CacheImplementsBoundedCache == Spec => CacheSpec
<1>1. Init => Abstract!Init
  BY DEF Init, Abstract!Init, Present
<1>2. CacheInv /\ CacheInv' /\ [Next]_vars => [Abstract!Next]_(Abstract!vars)
  <2> SUFFICES ASSUME CacheInv, CacheInv', [Next]_vars
               PROVE  [Abstract!Next]_(Abstract!vars)
    OBVIOUS
  <2>1. ASSUME NEW k \in Keys, NEW v \in Values, Put(k, v)
        PROVE  Abstract!Next
    BY <2>1, PutStores DEF Abstract!Next
  <2>2. ASSUME NEW k \in Keys, Access(k)
        PROVE  Abstract!Ask(k)
    <3>1. /\ UNCHANGED <<entries, lruKeys, lfuKeys, result>>
          /\ pc = "ready" /\ asked' = k
      BY <2>2 DEF Access, structure
    <3>2. asked = Null
      BY <3>1 DEF CacheInv, AskedKnown
    <3> QED
      BY <3>1, <3>2 DEF Abstract!Ask, Present
  <2>3. CASE TrimOne
    BY <2>3, TrimShrinks DEF Abstract!Next
  <2>4. CASE Miss \/ Hit
    BY <2>4, LookupAnswers DEF Abstract!Next
  <2>5. CASE UNCHANGED vars
    BY <2>5 DEF vars, Abstract!vars, Present
  <2>6. ASSUME NEW k \in Keys, Access(k)
        PROVE  Abstract!Next
    BY <2>2, <2>6 DEF Abstract!Next
  <2> QED
    BY <2>1, <2>3, <2>4, <2>5, <2>6 DEF Next, Get
<1> QED
  BY <1>1, <1>2, CacheInvariant, PTL DEF Spec, CacheSpec, Abstract!Spec


-----------------------------------------------------------------------------
(* lru_keys in the order of a relation: what erase and push_front do.     *)
OrderedBy(s, R) == \A i, j \in DOMAIN s : i < j => <<s[i], s[j]>> \in R

LEMMA EraseOrdered ==
    ASSUME NEW s \in Seq(Keys), NEW k \in ToSet(s), NEW R, OrderedBy(s, R)
    PROVE  OrderedBy(Erase(s, k), R)
<1> DEFINE n == CHOOSE j \in DOMAIN s : s[j] = k
           r == Erase(s, k)
<1>1. DOMAIN s = 1..Len(s) /\ Len(s) \in Nat
  BY LenProperties
<1>2. n \in 1..Len(s)
  BY <1>1 DEF ToSet
<1> HIDE DEF n
<1>3. r = RemoveAt(s, n)
  BY DEF Erase, n
<1>4. /\ r \in Seq(Keys) /\ Len(r) = Len(s) - 1
      /\ \A j \in 1..(Len(s) - 1) : r[j] = IF j < n THEN s[j] ELSE s[j + 1]
  BY <1>2, <1>3, RemoveAtElements
<1> HIDE DEF r
<1>5. DOMAIN r = 1..(Len(s) - 1)
  BY <1>4, LenProperties
<1>6. ASSUME NEW i \in 1..(Len(s) - 1), NEW j \in 1..(Len(s) - 1), i < j
      PROVE  <<r[i], r[j]>> \in R
  <2> DEFINE up(x) == IF x < n THEN x ELSE x + 1
  <2>1. up(i) \in 1..Len(s) /\ up(j) \in 1..Len(s) /\ up(i) < up(j)
    BY <1>1, <1>2, <1>6
  <2>2. r[i] = s[up(i)] /\ r[j] = s[up(j)]
    BY <1>4
  <2> QED
    BY <1>1, <2>1, <2>2 DEF OrderedBy
<1> QED
  BY <1>5, <1>6 DEF OrderedBy, r

LEMMA PushFrontOrdered ==
    ASSUME NEW s \in Seq(Keys), NEW k \in Keys, NEW R, OrderedBy(s, R),
           \A x \in ToSet(s) : <<k, x>> \in R
    PROVE  OrderedBy(<<k>> \o s, R)
<1> DEFINE r == <<k>> \o s
<1>1. DOMAIN s = 1..Len(s) /\ Len(s) \in Nat
  BY LenProperties
<1>2. /\ r \in Seq(Keys) /\ Len(r) = 1 + Len(s)
      /\ r[1] = k /\ \A j \in 2..(1 + Len(s)) : r[j] = s[j - 1]
  <2>1. <<k>> \in Seq(Keys) /\ Len(<<k>>) = 1 /\ <<k>>[1] = k
    OBVIOUS
  <2>2. /\ r \in Seq(Keys) /\ Len(r) = 1 + Len(s)
        /\ \A j \in 1..(1 + Len(s)) : r[j] = IF j <= 1 THEN <<k>>[j] ELSE s[j - 1]
    BY <2>1, ConcatProperties
  <2>3. 1 \in 1..(1 + Len(s)) /\ \A j \in 2..(1 + Len(s)) : j \in 1..(1 + Len(s)) /\ ~(j <= 1)
    BY <1>1
  <2> QED
    BY <2>1, <2>2, <2>3
<1> HIDE DEF r
<1>3. DOMAIN r = 1..(1 + Len(s))
  BY <1>2, LenProperties
<1>4. ASSUME NEW i \in 1..(1 + Len(s)), NEW j \in 1..(1 + Len(s)), i < j
      PROVE  <<r[i], r[j]>> \in R
  <2>1. j \in 2..(1 + Len(s)) /\ j - 1 \in 1..Len(s) /\ r[j] = s[j - 1]
    BY <1>1, <1>2, <1>4
  <2>2. CASE i = 1
    BY <1>1, <1>2, <2>1, <2>2 DEF ToSet
  <2>3. CASE i # 1
    <3>1. i - 1 \in 1..Len(s) /\ i - 1 < j - 1 /\ r[i] = s[i - 1]
      BY <1>1, <1>2, <1>4, <2>3
    <3> QED
      BY <1>1, <2>1, <3>1 DEF OrderedBy
  <2> QED
    BY <2>2, <2>3
<1> QED
  BY <1>3, <1>4 DEF OrderedBy, r

(* Only the pairs of elements of the list matter. *)
LEMMA OrderedAmong ==
    ASSUME NEW s, NEW P, ToSet(s) \subseteq P, NEW R, OrderedBy(s, R), NEW Q,
           \A i, j \in P : <<i, j>> \in R => <<i, j>> \in Q
    PROVE  OrderedBy(s, Q)
  BY DEF OrderedBy, ToSet

LEMMA RemoveOrdered ==
    ASSUME NEW m, Sound(m), NEW k \in DOMAIN m.entries, NEW R, OrderedBy(m.lru, R)
    PROVE  OrderedBy(RemoveEntry(m, k).lru, R)
<1>1. RemoveEntry(m, k).lru = IF m.entries[k].inLfu THEN m.lru ELSE Erase(m.lru, k)
  BY DEF RemoveEntry
<1>2. ~m.entries[k].inLfu => k \in ToSet(m.lru)
  BY DEF Sound
<1>3. m.lru \in Seq(Keys)
  BY DEF Sound
<1> QED
  BY <1>1, <1>2, <1>3, EraseOrdered

LEMMA EvictOrdered ==
    ASSUME NEW m, Sound(m), NEW R, OrderedBy(m.lru, R)
    PROVE  OrderedBy(Evict(m).lru, R)
  BY EvictRemoves, RemoveOrdered

-----------------------------------------------------------------------------
(* The history watches the cache, and the order of use survives each step. *)
LEMMA HistoryStep == [HNext]_hvars => [Next]_vars
  BY DEF HNext, hvars, Next, Get

LEMMA LruOrdered == LruInOrderOfUse <=> OrderedBy(lruKeys, usedAfter)
  BY DEF LruInOrderOfUse, OrderedBy

LEMMA PutKeepsOrder ==
    ASSUME CacheInv, LruInOrderOfUse, NEW k \in Keys, NEW v \in Values, Put(k, v),
           usedAfter' = Touched(k)
    PROVE  LruInOrderOfUse'
<1> DEFINE m0 == IF k \in Present THEN RemoveEntry(Now, k) ELSE Now
           m == KeptForPut(k)
<1>1. /\ Sound(m) /\ k \notin DOMAIN m.entries
      /\ Become(Inserted(m, k, v))
  BY PutStep DEF PartOfCache
<1>2. Sound(Now) /\ Now.entries = entries /\ OrderedBy(Now.lru, usedAfter)
  BY LruOrdered DEF CacheInv, Now
<1>3. Sound(m0) /\ OrderedBy(m0.lru, usedAfter)
  BY <1>2, RemoveSound, RemoveOrdered DEF Present
<1>4. OrderedBy(m.lru, usedAfter)
  <2> HIDE DEF m0
  <2>1. m = IF IsFull(m0) THEN Evict(m0) ELSE m0
    BY DEF KeptForPut, m0
  <2> QED
    BY <1>3, <2>1, EvictOrdered
<1> HIDE DEF m
<1>5. lruKeys' = <<k>> \o m.lru /\ Present' = DOMAIN m.entries \cup {k}
  BY <1>1 DEF Become, Inserted, Present
<1>6. m.lru \in Seq(Keys) /\ IsInjective(m.lru) /\ ToSet(m.lru) \subseteq DOMAIN m.entries
  BY <1>1 DEF Sound
<1>7. \A i, j \in DOMAIN m.entries : <<i, j>> \in usedAfter => <<i, j>> \in Touched(k)
  BY <1>1, <1>5 DEF Touched, StillPresent
<1>8. OrderedBy(m.lru, Touched(k))
  BY <1>4, <1>6, <1>7, OrderedAmong
<1>9. \A x \in ToSet(m.lru) : <<k, x>> \in Touched(k)
  BY <1>1, <1>5, <1>6 DEF Touched
<1>10. OrderedBy(<<k>> \o m.lru, Touched(k))
  BY <1>6, <1>8, <1>9, PushFrontOrdered
<1> QED
  BY <1>5, <1>10 DEF LruInOrderOfUse, OrderedBy

LEMMA TrimKeepsOrder ==
    ASSUME CacheInv, LruInOrderOfUse, TrimOne, usedAfter' = StillPresent
    PROVE  LruInOrderOfUse'
<1> DEFINE m == Evict(Now)
<1>1. Sound(m) /\ lruKeys' = m.lru /\ Present' = DOMAIN m.entries
  BY TrimStep DEF TrimOne, Become, Present, PartOfCache
<1>2. OrderedBy(m.lru, usedAfter)
  BY EvictOrdered, LruOrdered DEF CacheInv, Now
<1> HIDE DEF m
<1>3. \A i, j \in DOMAIN m.entries : <<i, j>> \in usedAfter => <<i, j>> \in StillPresent
  BY <1>1 DEF StillPresent
<1>4. ToSet(m.lru) \subseteq DOMAIN m.entries
  BY <1>1 DEF Sound
<1>5. OrderedBy(m.lru, StillPresent)
  BY <1>2, <1>3, <1>4, OrderedAmong
<1> QED
  BY <1>1, <1>5 DEF LruInOrderOfUse, OrderedBy

LEMMA HitKeepsOrder ==
    ASSUME CacheInv, LruInOrderOfUse, Hit, usedAfter' = Touched(asked)
    PROVE  LruInOrderOfUse'
<1> DEFINE e == entries[asked]
           erased == Erase(lruKeys, asked)
           others == Present \ {asked}
<1>1. /\ lruKeys \in Seq(Keys) /\ IsInjective(lruKeys)
      /\ ToSet(lruKeys) = {k \in Present : ~entries[k].inLfu}
      /\ asked \in Present /\ Present \subseteq Keys /\ Present' = Present
  BY SoundTypes, HitSound DEF CacheInv, Sound, Now, Present, Hit
<1>2. OrderedBy(lruKeys, usedAfter)
  BY LruOrdered
<1>3. \A i, j \in others : <<i, j>> \in usedAfter => <<i, j>> \in Touched(asked)
  BY <1>1 DEF Touched, StillPresent
<1>4. CASE e.inLfu
  <2>1. lruKeys' = lruKeys
    BY <1>4 DEF Hit
  <2>2. ToSet(lruKeys) \subseteq others
    BY <1>1, <1>4
  <2> HIDE DEF others
  <2>3. OrderedBy(lruKeys, Touched(asked))
    BY <1>2, <1>3, <2>2, OrderedAmong
  <2> QED
    BY <2>1, <2>3 DEF LruInOrderOfUse, OrderedBy
<1>5. CASE ~e.inLfu
  <2>1. asked \in ToSet(lruKeys)
    BY <1>1, <1>5
  <2>2. /\ erased \in Seq(Keys) /\ IsInjective(erased)
        /\ ToSet(erased) = ToSet(lruKeys) \ {asked}
    BY <1>1, <2>1, EraseSet
  <2>3. OrderedBy(erased, usedAfter)
    BY <1>1, <1>2, <2>1, EraseOrdered
  <2>4. lruKeys' = erased \/ lruKeys' = <<asked>> \o erased
    BY <1>5 DEF Hit, MovedToFront
  <2>5. ToSet(erased) \subseteq others
    BY <1>1, <2>2
  <2>6. \A x \in ToSet(erased) : <<asked, x>> \in Touched(asked)
    BY <1>1, <2>5 DEF Touched
  <2> HIDE DEF erased, others
  <2>7. OrderedBy(erased, Touched(asked))
    BY <1>3, <2>3, <2>5, OrderedAmong
  <2>8. OrderedBy(<<asked>> \o erased, Touched(asked))
    BY <1>1, <2>2, <2>6, <2>7, PushFrontOrdered
  <2> QED
    BY <2>4, <2>7, <2>8 DEF LruInOrderOfUse, OrderedBy
<1> QED
  BY <1>4, <1>5

(* lru_keys is in the order of last use through puts, hits, evictions and  *)
(* promotions, so that its back is the least recently used of the seldom   *)
(* used entries.                                                           *)
THEOREM CacheLruInOrderOfUse == HSpec => []LruInOrderOfUse
<1>1. HInit => CacheInv /\ LruInOrderOfUse
  BY InitInv DEF HInit, Init, LruInOrderOfUse
<1>2. CacheInv /\ [HNext]_hvars => CacheInv'
  BY HistoryStep, StepInv
<1>3. CacheInv /\ LruInOrderOfUse /\ [HNext]_hvars => LruInOrderOfUse'
  <2> SUFFICES ASSUME CacheInv, LruInOrderOfUse, [HNext]_hvars PROVE LruInOrderOfUse'
    OBVIOUS
  <2>1. CASE UNCHANGED <<lruKeys, usedAfter>>
    BY <2>1 DEF LruInOrderOfUse
  <2>2. CASE UNCHANGED hvars
    BY <2>1, <2>2 DEF hvars, vars
  <2>3. ASSUME NEW k \in Keys, Access(k) PROVE UNCHANGED lruKeys
    BY <2>3 DEF Access, structure
  <2>4. ASSUME Miss PROVE UNCHANGED lruKeys
    BY <2>4 DEF Miss, structure
  <2> QED
    BY <2>1, <2>2, <2>3, <2>4, PutKeepsOrder, TrimKeepsOrder, HitKeepsOrder DEF HNext
<1> QED
  BY <1>1, <1>2, <1>3, PTL DEF HSpec

-----------------------------------------------------------------------------
(* trim() turns only while there are too many entries, which they are      *)
(* when it starts and what each turn tests before the next.                *)
TrimDue == pc = "trimming" => Size > softLimit

LEMMA TrimTurn ==
    ASSUME CacheInv, TrimDue, TrimOne
    PROVE  /\ \E k \in Present : Present' = Present \ {k}
           /\ Size' = Size - 1 /\ Size' >= softLimit
<1>1. Sound(Now) /\ Now.entries = entries /\ softLimit \in Nat /\ Size > softLimit
  BY LimitRange DEF CacheInv, TypeOK, Now, TrimDue, TrimOne
<1>2. Size \in Nat /\ Present # {}
  <2>1. IsFiniteSet(Present)
    BY <1>1 DEF Sound, Present
  <2>2. Size \in Nat
    BY <2>1, FS_CardinalityType DEF Size
  <2> QED
    BY <1>1, <2>2, FS_EmptySet DEF Size
<1>3. PICK k \in Present : Evict(Now) = RemoveEntry(Now, k)
  BY <1>1, <1>2, EvictRemoves DEF Present
<1>4. entries' = RemoveEntry(Now, k).entries
  BY <1>3 DEF TrimOne, Become
<1>5. Present' = Present \ {k} /\ Size' = Size - 1
  BY <1>1, <1>3, <1>4, RemoveSound DEF Present, Size
<1> QED
  BY <1>1, <1>2, <1>5

(* arc.h: trim() takes one entry at each of its turns, whichever of the    *)
(* two orders has the victim, never runs on an empty cache and stops at    *)
(* the soft limit, not below it: as many turns as there are entries over.  *)
THEOREM TrimStopsAtTheLimit ==
    Spec => [][TrimOne => /\ \E k \in Present : Present' = Present \ {k}
                          /\ Size' = Size - 1 /\ Size' >= softLimit]_vars
<1> DEFINE Turn == /\ \E k \in Present : Present' = Present \ {k}
                   /\ Size' = Size - 1 /\ Size' >= softLimit
<1>1. Init => TrimDue
  BY DEF Init, TrimDue
<1>2. CacheInv /\ TrimDue /\ [Next]_vars => TrimDue'
  <2> SUFFICES ASSUME CacheInv, TrimDue, [Next]_vars, pc' = "trimming"
               PROVE  Size' > softLimit'
    BY DEF TrimDue
  <2>1. ASSUME NEW k \in Keys, Access(k) PROVE Size' > softLimit'
    BY <2>1 DEF Access, NeedsTrim, structure, Size, Present
  <2>2. CASE TrimOne
    <3>1. Size' = Cardinality(DOMAIN Evict(Now).entries) /\ softLimit' = softLimit
      BY <2>2 DEF TrimOne, Become, Size, Present
    <3> QED
      BY <2>2, <3>1 DEF TrimOne
  <2>3. CASE UNCHANGED vars
    BY <2>3 DEF vars, TrimDue, Size, Present
  <2>4. ASSUME Miss \/ Hit \/ \E k \in Keys, v \in Values : Put(k, v)
        PROVE  FALSE
    BY <2>4 DEF Miss, Hit, Put
  <2> QED
    BY <2>1, <2>2, <2>3, <2>4 DEF Next, Get
<1>3. CacheInv /\ TrimDue => [TrimOne => Turn]_vars
  BY TrimTurn
<1> QED
  BY <1>1, <1>2, <1>3, CacheInvariant, PTL DEF Spec
=============================================================================
