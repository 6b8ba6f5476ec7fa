----------------------------- MODULE SeqLemmas -----------------------------
(***************************************************************************)
(* Sequences used as std::vector and std::list of distinct elements: what  *)
(* erase, push_back and pop_front do to the elements; least numbers, by    *)
(* which what holds of every number is proved without induction; and loops *)
(* written as recursive functions over numbers.                            *)
(***************************************************************************)
EXTENDS SequencesExt, SequenceTheorems, FiniteSetTheorems,
        WellFoundedInduction, TLAPS

(* vector::erase and list::erase: the elements after position i move down. *)
LEMMA RemoveAtElements ==
    ASSUME NEW S, NEW s \in Seq(S), NEW i \in 1..Len(s)
    PROVE  /\ RemoveAt(s, i) \in Seq(S)
           /\ Len(RemoveAt(s, i)) = Len(s) - 1
           /\ \A j \in 1..(Len(s) - 1) :
                RemoveAt(s, i)[j] = IF j < i THEN s[j] ELSE s[j + 1]
<1> DEFINE a == SubSeq(s, 1, i - 1)
           b == SubSeq(s, i + 1, Len(s))
<1>0. Len(s) \in Nat /\ i \in Nat
  BY LenProperties
<1>1. a \in Seq(S) /\ Len(a) = i - 1 /\ \A j \in 1..(i - 1) : a[j] = s[j]
  BY <1>0
<1>2. /\ b \in Seq(S) /\ Len(b) = Len(s) - i
      /\ \A j \in 1..(Len(s) - i) : b[j] = s[i + j]
  BY <1>0
<1>3. RemoveAt(s, i) = a \o b
  BY DEF RemoveAt
<1> HIDE DEF a, b
<1>4. /\ a \o b \in Seq(S) /\ Len(a \o b) = Len(s) - 1
      /\ \A j \in 1..(Len(s) - 1) :
           (a \o b)[j] = IF j <= i - 1 THEN a[j] ELSE b[j - (i - 1)]
  <2>1. Len(a) + Len(b) = Len(s) - 1
    BY <1>0, <1>1, <1>2
  <2>2. /\ a \o b \in Seq(S)
        /\ Len(a \o b) = Len(a) + Len(b)
        /\ \A j \in 1..(Len(a) + Len(b)) :
             (a \o b)[j] = IF j <= Len(a) THEN a[j] ELSE b[j - Len(a)]
    BY <1>1, <1>2, ConcatProperties
  <2>3. Len(a) = i - 1
    BY <1>1
  <2> QED
    BY <2>1, <2>2, <2>3
<1>5. ASSUME NEW j \in 1..(Len(s) - 1)
      PROVE  (a \o b)[j] = IF j < i THEN s[j] ELSE s[j + 1]
  <2>1. CASE j < i
    <3>1. j <= i - 1 /\ j \in 1..(i - 1)
      BY <1>0, <2>1
    <3> QED
      BY <1>1, <1>4, <2>1, <3>1
  <2>2. CASE ~(j < i)
    <3>1. /\ ~(j <= i - 1) /\ j - (i - 1) \in 1..(Len(s) - i)
          /\ i + (j - (i - 1)) = j + 1
      BY <1>0, <2>2
    <3>2. b[j - (i - 1)] = s[j + 1]
      BY <1>2, <3>1
    <3> QED
      BY <1>4, <2>2, <3>1, <3>2
  <2> QED
    BY <2>1, <2>2
<1> QED
  BY <1>3, <1>4, <1>5

(* Erasing from a sequence without repetition removes just that element.   *)
LEMMA RemoveAtSet ==
    ASSUME NEW S, NEW s \in Seq(S), NEW i \in 1..Len(s), IsInjective(s)
    PROVE  /\ IsInjective(RemoveAt(s, i))
           /\ ToSet(RemoveAt(s, i)) = ToSet(s) \ {s[i]}
<1> DEFINE r == RemoveAt(s, i)
<1>0. Len(s) \in Nat /\ i \in Nat /\ DOMAIN s = 1..Len(s)
  BY LenProperties
<1>1. /\ r \in Seq(S) /\ Len(r) = Len(s) - 1
      /\ \A j \in 1..(Len(s) - 1) : r[j] = IF j < i THEN s[j] ELSE s[j + 1]
  BY RemoveAtElements
<1>2. DOMAIN r = 1..(Len(s) - 1)
  BY <1>1, LenProperties
<1> HIDE DEF r
<1>3. IsInjective(r)
  <2> SUFFICES ASSUME NEW j \in 1..(Len(s) - 1), NEW k \in 1..(Len(s) - 1),
                      r[j] = r[k]
               PROVE  j = k
    BY <1>2 DEF IsInjective
  <2> DEFINE up(n) == IF n < i THEN n ELSE n + 1
  <2>1. /\ up(j) \in 1..Len(s) /\ up(k) \in 1..Len(s)
        /\ r[j] = s[up(j)] /\ r[k] = s[up(k)]
    BY <1>0, <1>1
  <2>2. up(j) = up(k)
    BY <1>0, <2>1 DEF IsInjective
  <2> QED
    BY <1>0, <2>2
<1>4. ToSet(r) \subseteq ToSet(s) \ {s[i]}
  <2> SUFFICES ASSUME NEW j \in 1..(Len(s) - 1)
               PROVE  r[j] \in ToSet(s) \ {s[i]}
    BY <1>2 DEF ToSet
  <2>1. PICK k \in 1..Len(s) : r[j] = s[k] /\ k # i
    <3>1. CASE j < i
      BY <1>0, <1>1, <3>1
    <3>2. CASE ~(j < i)
      <4>1. j + 1 \in 1..Len(s) /\ j + 1 # i
        BY <1>0, <3>2
      <4> QED
        BY <1>1, <3>2, <4>1
    <3> QED
      BY <3>1, <3>2
  <2>2. s[k] # s[i]
    BY <1>0, <2>1 DEF IsInjective
  <2> QED
    BY <1>0, <2>1, <2>2 DEF ToSet
<1>5. ToSet(s) \ {s[i]} \subseteq ToSet(r)
  <2> SUFFICES ASSUME NEW k \in 1..Len(s), k # i
               PROVE  \E j \in 1..(Len(s) - 1) : r[j] = s[k]
    BY <1>0, <1>2 DEF ToSet
  <2>1. CASE k < i
    BY <1>0, <1>1, <2>1
  <2>2. CASE k > i
    <3>1. k - 1 \in 1..(Len(s) - 1) /\ ~(k - 1 < i) /\ (k - 1) + 1 = k
      BY <1>0, <2>2
    <3> QED
      BY <1>1, <3>1
  <2> QED
    BY <1>0, <2>1, <2>2
<1> QED
  BY <1>3, <1>4, <1>5 DEF r

(* push_back of a new element. *)
LEMMA AppendSet ==
    ASSUME NEW S, NEW s \in Seq(S), NEW e \in S
    PROVE  /\ Append(s, e) \in Seq(S)
           /\ Len(Append(s, e)) = Len(s) + 1
           /\ ToSet(Append(s, e)) = ToSet(s) \cup {e}
           /\ (IsInjective(s) /\ e \notin ToSet(s)) => IsInjective(Append(s, e))
<1>0. Len(s) \in Nat /\ DOMAIN s = 1..Len(s)
  BY LenProperties
<1>1. /\ Append(s, e) \in Seq(S) /\ Len(Append(s, e)) = Len(s) + 1
      /\ DOMAIN Append(s, e) = 1..(Len(s) + 1)
      /\ \A j \in 1..Len(s) : Append(s, e)[j] = s[j]
      /\ Append(s, e)[Len(s) + 1] = e
  BY AppendProperties, LenProperties
<1>2. ToSet(Append(s, e)) = ToSet(s) \cup {e}
  BY <1>0, <1>1 DEF ToSet
<1>3. ASSUME IsInjective(s), e \notin ToSet(s)
      PROVE  IsInjective(Append(s, e))
  BY <1>0, <1>1, <1>3 DEF IsInjective, ToSet
<1> QED
  BY <1>1, <1>2, <1>3

(* front() and pop_front(). *)
LEMMA TailSet ==
    ASSUME NEW S, NEW s \in Seq(S), s # <<>>, IsInjective(s)
    PROVE  /\ Head(s) \in ToSet(s) /\ Head(s) \in S
           /\ Tail(s) \in Seq(S)
           /\ IsInjective(Tail(s))
           /\ ToSet(Tail(s)) = ToSet(s) \ {Head(s)}
<1>0. Len(s) \in Nat /\ Len(s) > 0 /\ DOMAIN s = 1..Len(s)
  BY LenProperties, EmptySeq
<1>1. /\ Head(s) = s[1] /\ Head(s) \in S
      /\ Tail(s) \in Seq(S) /\ Len(Tail(s)) = Len(s) - 1
      /\ DOMAIN Tail(s) = 1..(Len(s) - 1)
      /\ \A j \in 1..(Len(s) - 1) : Tail(s)[j] = s[j + 1]
  BY <1>0, HeadTailProperties, LenProperties
<1>2. Head(s) \in ToSet(s)
  BY <1>0, <1>1 DEF ToSet
<1>3. IsInjective(Tail(s))
  BY <1>0, <1>1 DEF IsInjective
<1>4. ToSet(Tail(s)) \subseteq ToSet(s) \ {Head(s)}
  <2> SUFFICES ASSUME NEW j \in 1..(Len(s) - 1)
               PROVE  Tail(s)[j] \in ToSet(s) \ {Head(s)}
    BY <1>1 DEF ToSet
  <2>1. j + 1 \in 1..Len(s) /\ 1 \in 1..Len(s) /\ j + 1 # 1
    BY <1>0
  <2> QED
    BY <1>0, <1>1, <2>1 DEF ToSet, IsInjective
<1>5. ToSet(s) \ {Head(s)} \subseteq ToSet(Tail(s))
  <2> SUFFICES ASSUME NEW e \in ToSet(s), e # Head(s)
               PROVE  e \in ToSet(Tail(s))
    OBVIOUS
  <2>1. PICK k \in 1..Len(s) : e = s[k]
    BY <1>0 DEF ToSet
  <2>2. k # 1
    BY <1>1, <2>1
  <2>3. k - 1 \in 1..(Len(s) - 1) /\ (k - 1) + 1 = k
    BY <1>0, <2>2
  <2>4. Tail(s)[k - 1] = e
    BY <1>1, <2>1, <2>3
  <2> QED
    BY <1>1, <2>3, <2>4 DEF ToSet
<1> QED
  BY <1>1, <1>2, <1>3, <1>4, <1>5

(* push_front of a new element. *)
LEMMA PushFrontSet ==
    ASSUME NEW S, NEW s \in Seq(S), NEW e \in S
    PROVE  /\ <<e>> \o s \in Seq(S)
           /\ ToSet(<<e>> \o s) = ToSet(s) \cup {e}
           /\ (IsInjective(s) /\ e \notin ToSet(s)) => IsInjective(<<e>> \o s)
<1>0. Len(s) \in Nat /\ DOMAIN s = 1..Len(s)
  BY LenProperties
<1>1. /\ <<e>> \o s \in Seq(S) /\ Len(<<e>> \o s) = 1 + Len(s)
      /\ \A j \in 1..(1 + Len(s)) :
           (<<e>> \o s)[j] = IF j <= 1 THEN e ELSE s[j - 1]
  <2>1. <<e>> \in Seq(S) /\ Len(<<e>>) = 1 /\ <<e>>[1] = e
    OBVIOUS
  <2>2. /\ <<e>> \o s \in Seq(S) /\ Len(<<e>> \o s) = Len(<<e>>) + Len(s)
        /\ \A j \in 1..(Len(<<e>>) + Len(s)) :
             (<<e>> \o s)[j] = IF j <= Len(<<e>>) THEN <<e>>[j] ELSE s[j - Len(<<e>>)]
    BY <2>1, ConcatProperties
  <2>3. \A j \in 1..(1 + Len(s)) : j <= 1 => j = 1
    BY <1>0
  <2> QED
    BY <2>1, <2>2, <2>3
<1> DEFINE t == <<e>> \o s
<1>2. DOMAIN t = 1..(1 + Len(s))
  BY <1>1, LenProperties
<1> HIDE DEF t
<1>3. t[1] = e /\ \A j \in 1..Len(s) : j + 1 \in DOMAIN t /\ t[j + 1] = s[j]
  BY <1>0, <1>1, <1>2 DEF t
<1>4. \A j \in DOMAIN t : j = 1 \/ \E i \in 1..Len(s) : j = i + 1
  <2> TAKE j \in DOMAIN t
  <2>1. j # 1 => j - 1 \in 1..Len(s) /\ j = (j - 1) + 1
    BY <1>0, <1>2
  <2> QED
    BY <2>1
<1>5. ToSet(t) = ToSet(s) \cup {e}
  <2>1. ToSet(t) \subseteq ToSet(s) \cup {e}
    BY <1>0, <1>3, <1>4 DEF ToSet
  <2>2. ToSet(s) \cup {e} \subseteq ToSet(t)
    BY <1>0, <1>2, <1>3 DEF ToSet
  <2> QED
    BY <2>1, <2>2
<1>6. ASSUME IsInjective(s), e \notin ToSet(s)
      PROVE  IsInjective(t)
  <2> SUFFICES ASSUME NEW j \in DOMAIN t, NEW k \in DOMAIN t, t[j] = t[k]
               PROVE  j = k
    BY DEF IsInjective
  <2>1. \A i \in 1..Len(s) : s[i] # e
    BY <1>0, <1>6 DEF ToSet
  <2>2. \A i, h \in 1..Len(s) : s[i] = s[h] => i = h
    BY <1>0, <1>6 DEF IsInjective
  <2>3. \A i \in 1..Len(s) : t[i + 1] = s[i] /\ t[1] = e
    BY <1>3
  <2>4. CASE j = 1 /\ k = 1
    BY <2>4
  <2>5. CASE j = 1 /\ k # 1
    <3>1. PICK h \in 1..Len(s) : k = h + 1
      BY <1>4, <2>5
    <3> QED
      BY <2>1, <2>3, <2>5, <3>1
  <2>6. CASE j # 1 /\ k = 1
    <3>1. PICK i \in 1..Len(s) : j = i + 1
      BY <1>4, <2>6
    <3> QED
      BY <2>1, <2>3, <2>6, <3>1
  <2>7. CASE j # 1 /\ k # 1
    <3>1. PICK i \in 1..Len(s) : j = i + 1
      BY <1>4, <2>7
    <3>2. PICK h \in 1..Len(s) : k = h + 1
      BY <1>4, <2>7
    <3>3. s[i] = s[h]
      BY <2>3, <3>1, <3>2
    <3> QED
      BY <2>2, <3>1, <3>2, <3>3
  <2> QED
    BY <2>4, <2>5, <2>6, <2>7
<1> QED
  BY <1>1, <1>5, <1>6 DEF t

(* A sequence without repetition has as many elements as it is long. *)
LEMMA DistinctCardinality ==
    ASSUME NEW S, NEW s \in Seq(S), IsInjective(s)
    PROVE  Cardinality(ToSet(s)) = Len(s)
<1>1. Len(s) \in Nat /\ DOMAIN s = 1..Len(s) /\ s \in [1..Len(s) -> S]
  BY LenProperties
<1>2. s \in [1..Len(s) -> ToSet(s)]
  BY <1>1 DEF ToSet
<1>3. s \in Bijection(1..Len(s), ToSet(s))
  BY <1>1, <1>2 DEF Bijection, Injection, Surjection, IsInjective, ToSet
<1> QED
  BY <1>1, <1>3, FS_CountingElements DEF ExistsBijection

(* SetToSeqs(S): the sequences in which each element of S occurs once. *)
LEMMA SetToSeqsElements ==
    ASSUME NEW S, IsFiniteSet(S), NEW s \in SetToSeqs(S)
    PROVE  /\ s \in Seq(S) /\ Len(s) = Cardinality(S)
           /\ IsInjective(s) /\ ToSet(s) = S
<1> DEFINE n == Cardinality(S)
<1>1. n \in Nat
  BY FS_CardinalityType
<1>2. s \in [1..n -> S] /\ \A i, j \in 1..n : i # j => s[i] # s[j]
  BY DEF SetToSeqs
<1> HIDE DEF n
<1>3. s \in Seq(S) /\ Len(s) = n /\ DOMAIN s = 1..n
  BY <1>1, <1>2
<1>4. IsInjective(s)
  BY <1>2, <1>3 DEF IsInjective
<1>5. s \in Injection(1..n, S)
  BY <1>2 DEF Injection, IsInjective
<1>6. IsFiniteSet(1..n) /\ Cardinality(1..n) = n
  BY <1>1, FS_Interval
<1>7. s \in Surjection(1..n, S)
  BY <1>5, <1>6, FS_Injection DEF n
<1>8. ToSet(s) = S
  BY <1>2, <1>3, <1>7 DEF Surjection, ToSet
<1> QED
  BY <1>3, <1>4, <1>8 DEF n

(* What comes before position i of s, without repetition, are i - 1        *)
(* elements.                                                               *)
LEMMA PrefixCardinality ==
    ASSUME NEW S, NEW s \in Seq(S), IsInjective(s), NEW i \in 1..Len(s)
    PROVE  Cardinality({s[j] : j \in 1..(i - 1)}) = i - 1
<1> DEFINE p == SubSeq(s, 1, i - 1)
<1>1. Len(s) \in Nat /\ i \in Nat /\ DOMAIN s = 1..Len(s)
  BY LenProperties
<1>2. p \in Seq(S) /\ Len(p) = i - 1 /\ \A j \in 1..(i - 1) : p[j] = s[j]
  BY <1>1
<1> HIDE DEF p
<1>3. DOMAIN p = 1..(i - 1)
  BY <1>2, LenProperties
<1>4. IsInjective(p)
  BY <1>1, <1>2, <1>3 DEF IsInjective
<1>5. ToSet(p) = {s[j] : j \in 1..(i - 1)}
  BY <1>2, <1>3 DEF ToSet
<1> QED
  BY <1>2, <1>4, <1>5, DistinctCardinality

(* A set of numbers has a least one, and a bounded one a greatest. *)
LEMMA MinimumExists ==
    ASSUME NEW T, T \subseteq Nat, T # {}
    PROVE  \E x \in T : \A y \in T : x <= y
<1> DEFINE R == OpToRel(<, Nat)
<1>1. IsWellFoundedOn(R, Nat)
  BY NatLessThanWellFounded
<1>2. \A x, y \in Nat : y < x => <<y, x>> \in R
  BY Z3 DEF OpToRel
<1> HIDE DEF R
<1>3. \E x \in T : \A y \in T : ~(<<y, x>> \in R)
  BY <1>1, WFMin
<1>4. PICK x \in T : \A y \in T : ~(<<y, x>> \in R)
  BY <1>3
<1>5. \A y \in T : x <= y
  <2> TAKE y \in T
  <2>1. x \in Nat /\ y \in Nat
    OBVIOUS
  <2>2. ~(y < x)
    BY <1>2, <1>4, <2>1
  <2> QED
    BY <2>1, <2>2
<1> QED
  BY <1>5

LEMMA MaximumExists ==
    ASSUME NEW b \in Nat, NEW T, T \subseteq 0..b, T # {}
    PROVE  \E x \in T : \A y \in T : y <= x
<1> DEFINE D == {d \in 0..b : b - d \in T}
<1>1. D \subseteq Nat
  OBVIOUS
<1>2. D # {}
  <2>1. PICK x \in T : TRUE
    OBVIOUS
  <2>2. b - x \in 0..b /\ b - (b - x) = x
    BY <2>1
  <2> QED
    BY <2>1, <2>2
<1>3. PICK d \in D : \A e \in D : d <= e
  <2> HIDE DEF D
  <2> QED
    BY <1>1, <1>2, MinimumExists
<1>4. b - d \in T
  BY <1>3
<1>5. ASSUME NEW y \in T PROVE y <= b - d
  <2>1. b - y \in 0..b /\ b - (b - y) = y
    BY <1>5
  <2>2. d <= b - y
    BY <1>3, <2>1
  <2> QED
    BY <1>3, <2>1, <2>2
<1> QED
  BY <1>4, <1>5
-----------------------------------------------------------------------------
(* What holds of a number when it holds of those before it, and what a     *)
(* function is that is defined from its earlier values.  Both are about    *)
(* sets and functions, so that they can be cited where an operator cannot. *)
LEMMA IntervalInduction ==
    ASSUME NEW lo \in Nat, NEW n \in Nat, NEW T,
           \A k \in lo..n : (\A j \in lo..(k - 1) : j \in T) => k \in T
    PROVE  \A k \in lo..n : k \in T
<1> SUFFICES ASSUME (lo..n) \ T # {}
             PROVE  FALSE
  OBVIOUS
<1>1. (lo..n) \ T \subseteq Nat
  OBVIOUS
<1>2. PICK k \in (lo..n) \ T : \A j \in (lo..n) \ T : k <= j
  BY <1>1, MinimumExists
<1>3. \A j \in lo..(k - 1) : j \in T
  <2> TAKE j \in lo..(k - 1)
  <2>1. j \in lo..n /\ ~(k <= j)
    OBVIOUS
  <2> QED
    BY <1>2, <2>1
<1> QED
  BY <1>2, <1>3

IsRecursion(S, lo, n, base, below, step) ==
    /\ lo \in Nat /\ n \in Nat /\ base \in S
    /\ below \in [lo..n -> Int] /\ step \in [lo..n -> [S -> S]]
    /\ \A k \in lo..n : k # lo => below[k] \in lo..(k - 1)

LEMMA RecursionExists ==
    ASSUME NEW S, NEW lo, NEW n, NEW base, NEW below, NEW step,
           IsRecursion(S, lo, n, base, below, step)
    PROVE  \E f \in [lo..n -> S] :
              \A k \in lo..n :
                 f[k] = IF k = lo THEN base ELSE step[k][f[below[k]]]
<1> USE DEF IsRecursion
<1> DEFINE Solves(f, m) == \A k \in lo..m :
              f[k] = IF k = lo THEN base ELSE step[k][f[below[k]]]
           T == {m \in lo..n : \E f \in [lo..m -> S] : Solves(f, m)}
<1>1. ASSUME NEW m \in lo..n, \A j \in lo..(m - 1) : j \in T
      PROVE  m \in T
  <2>1. CASE m = lo
    <3> DEFINE f == [k \in lo..m |-> base]
    <3>1. f \in [lo..m -> S] /\ Solves(f, m)
      BY <2>1
    <3> QED
      BY <3>1
  <2>2. CASE m # lo
    <3>1. m - 1 \in lo..n /\ m - 1 \in lo..(m - 1)
      BY <2>2
    <3>2. PICK f \in [lo..(m - 1) -> S] : Solves(f, m - 1)
      BY <1>1, <3>1
    <3>3. below[m] \in lo..(m - 1)
      BY <2>2
    <3> DEFINE last == step[m][f[below[m]]]
               g == [k \in lo..m |-> IF k = m THEN last ELSE f[k]]
    <3>4. last \in S
      BY <3>3
    <3>5. g \in [lo..m -> S]
      BY <3>4
    <3>6. \A k \in lo..(m - 1) : g[k] = f[k] /\ k # m /\ k \in lo..n
      OBVIOUS
    <3>7. ASSUME NEW k \in lo..m
          PROVE  g[k] = IF k = lo THEN base ELSE step[k][g[below[k]]]
      <4>1. CASE k = m
        BY <2>2, <3>3, <3>6, <4>1
      <4>2. CASE k # m
        <5>1. k \in lo..(m - 1)
          BY <4>2
        <5>2. k # lo => below[k] \in lo..(m - 1)
          <6>1. k # lo => below[k] \in lo..(k - 1)
            BY <5>1, <3>6
          <6> QED
            BY <6>1, <5>1
        <5>3. f[k] = IF k = lo THEN base ELSE step[k][f[below[k]]]
          BY <3>2, <5>1
        <5> QED
          BY <3>6, <5>1, <5>2, <5>3
      <4> QED
        BY <4>1, <4>2
    <3> QED
      BY <3>5, <3>7
  <2> QED
    BY <2>1, <2>2
<1> HIDE DEF T
<1>2. \A m \in lo..n : m \in T
  BY <1>1, IntervalInduction
<1>3. CASE lo <= n
  <2>1. n \in T
    BY <1>2, <1>3
  <2> QED
    BY <2>1 DEF T
<1>4. CASE ~(lo <= n)
  <2> DEFINE f == [k \in lo..n |-> base]
  <2>1. f \in [lo..n -> S] /\ \A k \in lo..n : FALSE
    BY <1>4
  <2> QED
    BY <2>1
<1> QED
  BY <1>3, <1>4

(* A concatenation of sequences is a sequence; that of one is this one.    *)
LEMMA FlattenSeqOne ==
    ASSUME NEW S, NEW s \in Seq(S)
    PROVE  FlattenSeq(<<s>>) = s /\ FlattenSeq(<<>>) = <<>>
<1>1. FlattenSeq(<<>>) = <<>>
  BY DEF FlattenSeq
<1>2. FlattenSeq(<<s>>) = s
  BY DEF FlattenSeq
<1> QED
  BY <1>1, <1>2

LEMMA FlattenSeqType ==
    ASSUME NEW S, NEW s \in Seq(Seq(S))
    PROVE  FlattenSeq(s) \in Seq(S)
<1>0. Len(s) \in Nat /\ \A i \in 1..Len(s) : s[i] \in Seq(S)
  BY LenProperties
<1>1. CASE Len(s) = 0
  <2>1. s = <<>>
    BY <1>1, EmptySeq
  <2> QED
    BY <1>1, <2>1 DEF FlattenSeq
<1>2. CASE Len(s) # 0
  <2> DEFINE n == Len(s)
             Body(f) == [i \in 1..n |-> IF i = 1 THEN s[i] ELSE f[i - 1] \o s[i]]
             Solves(f) == f = Body(f)
             F == CHOOSE f : Solves(f)
             step == [k \in 1..n |-> [x \in Seq(S) |-> x \o s[k]]]
             below == [k \in 1..n |-> k - 1]
  <2>1. FlattenSeq(s) = F[n]
    BY <1>2 DEF FlattenSeq
  <2>2. \E f : Solves(f)
    <3>1. step \in [1..n -> [Seq(S) -> Seq(S)]]
      BY <1>0, ConcatProperties
    <3>2. s[1] \in Seq(S) /\ n \in Nat /\ 1 \in Nat
      BY <1>0, <1>2
    <3>3. \A k \in 1..n : k # 1 => below[k] \in 1..(k - 1)
      BY <1>0
    <3>4. \A k \in 1..n, x \in Seq(S) : step[k][x] = x \o s[k]
      OBVIOUS
    <3>5. below \in [1..n -> Int] /\ \A k \in 1..n : below[k] = k - 1
      BY <1>0
    <3> HIDE DEF step, below
    <3>6. PICK f \in [1..n -> Seq(S)] :
             \A k \in 1..n : f[k] = IF k = 1 THEN s[1] ELSE step[k][f[below[k]]]
      <4>1. IsRecursion(Seq(S), 1, n, s[1], below, step)
        BY <3>1, <3>2, <3>3, <3>5 DEF IsRecursion
      <4> HIDE DEF n
      <4> QED
        BY <4>1, RecursionExists
    <3>7. ASSUME NEW k \in 1..n
          PROVE  f[k] = IF k = 1 THEN s[k] ELSE f[k - 1] \o s[k]
      <4>1. CASE k = 1
        BY <3>6, <4>1
      <4>2. CASE k # 1
        <5>1. k - 1 \in 1..n /\ below[k] = k - 1
          BY <1>0, <3>5, <4>2
        <5>2. f[k] = step[k][f[k - 1]]
          BY <3>6, <4>2, <5>1
        <5> QED
          BY <3>4, <3>6, <4>2, <5>1, <5>2
      <4> QED
        BY <4>1, <4>2
    <3>8. f = Body(f)
      BY <3>6, <3>7
    <3>9. Solves(f)
      BY <3>8
    <3> HIDE DEF Solves
    <3> QED
      BY <3>9
  <2>3. Solves(F)
    <3> HIDE DEF Solves
    <3> QED
      BY <2>2
  <2>4. F = Body(F)
    BY <2>3
  <2> HIDE DEF F
  <2>5. \A k \in 1..n : F[k] = IF k = 1 THEN s[k] ELSE F[k - 1] \o s[k]
    BY <2>4
  <2> DEFINE T == {k \in 1..n : F[k] \in Seq(S)}
  <2>6. ASSUME NEW k \in 1..n, \A j \in 1..(k - 1) : j \in T
        PROVE  k \in T
    <3>1. CASE k = 1
      BY <1>0, <2>5, <3>1
    <3>2. CASE k # 1
      <4>1. k - 1 \in 1..(k - 1)
        BY <1>0, <3>2
      <4>2. F[k - 1] \in Seq(S)
        BY <2>6, <4>1
      <4>3. F[k - 1] \o s[k] \in Seq(S)
        BY <1>0, <4>2, ConcatProperties
      <4> QED
        BY <2>5, <3>2, <4>3
    <3> QED
      BY <3>1, <3>2
  <2>7. n \in 1..n /\ n \in Nat
    BY <1>0, <1>2
  <2>8. n \in T
    <3> HIDE DEF T, n
    <3> QED
      BY <2>6, <2>7, IntervalInduction
  <2> QED
    BY <2>1, <2>8
<1> QED
  BY <1>1, <1>2

(* Two sequences without repetition and without a common element, one      *)
(* after the other.                                                        *)
LEMMA ConcatDistinct ==
    ASSUME NEW S, NEW s \in Seq(S), NEW t \in Seq(S),
           IsInjective(s), IsInjective(t), ToSet(s) \cap ToSet(t) = {}
    PROVE  s \o t \in Seq(S) /\ Len(s \o t) = Len(s) + Len(t) /\ IsInjective(s \o t)
<1>0. /\ Len(s) \in Nat /\ DOMAIN s = 1..Len(s)
      /\ Len(t) \in Nat /\ DOMAIN t = 1..Len(t)
  BY LenProperties
<1>1. /\ s \o t \in Seq(S) /\ Len(s \o t) = Len(s) + Len(t)
      /\ \A i \in 1..(Len(s) + Len(t)) :
           (s \o t)[i] = IF i <= Len(s) THEN s[i] ELSE t[i - Len(s)]
  BY ConcatProperties
<1> DEFINE c == s \o t
<1>2. DOMAIN c = 1..(Len(s) + Len(t))
  BY <1>1, LenProperties
<1> HIDE DEF c
<1>3. ASSUME NEW i \in DOMAIN c
      PROVE  \/ i \in DOMAIN s /\ c[i] = s[i] /\ c[i] \in ToSet(s)
             \/ i - Len(s) \in DOMAIN t /\ c[i] = t[i - Len(s)] /\ c[i] \in ToSet(t)
  <2>1. CASE i <= Len(s)
    BY <1>0, <1>1, <1>2, <2>1 DEF c, ToSet
  <2>2. CASE ~(i <= Len(s))
    <3>1. i - Len(s) \in DOMAIN t
      BY <1>0, <1>2, <2>2
    <3>2. c[i] = t[i - Len(s)]
      BY <1>1, <1>2, <2>2 DEF c
    <3> QED
      BY <3>1, <3>2 DEF ToSet
  <2> QED
    BY <2>1, <2>2
<1>4. ASSUME NEW i \in DOMAIN c, NEW j \in DOMAIN c, c[i] = c[j]
      PROVE  i = j
  <2>1. \/ i \in DOMAIN s /\ j \in DOMAIN s /\ s[i] = s[j]
        \/ /\ i - Len(s) \in DOMAIN t /\ j - Len(s) \in DOMAIN t
           /\ t[i - Len(s)] = t[j - Len(s)]
    BY <1>3, <1>4
  <2>2. i = j \/ i - Len(s) = j - Len(s)
    BY <2>1 DEF IsInjective
  <2> QED
    BY <1>0, <1>2, <2>2
<1> QED
  BY <1>1, <1>4 DEF IsInjective, c

=============================================================================
