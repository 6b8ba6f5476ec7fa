----------------------------- MODULE MCArcCache -----------------------------
(* ArcCache for TLC, with a history of the order in which the present keys *)
(* were last used.                                                         *)
EXTENDS ArcCache

VARIABLE usedAfter  \* the pairs <<j, k>> of present keys, j used after k

hvars == <<vars, usedAfter>>

StillPresent == usedAfter \cap (Present' \X Present')
Touched(k) ==
    {p \in StillPresent : p[1] # k /\ p[2] # k} \cup ({k} \X (Present' \ {k}))

HInit == Init /\ usedAfter = {}

HNext ==
    \/ \E k \in Keys, v \in Values : Put(k, v) /\ usedAfter' = Touched(k)
    \/ \E k \in Keys : Access(k) /\ UNCHANGED usedAfter
    \/ TrimOne /\ usedAfter' = StillPresent
    \/ Miss /\ UNCHANGED usedAfter
    \/ Hit /\ usedAfter' = Touched(asked)

(* The fairness of FairSpec: a get() under cache_mutex runs to its end.    *)
HSpec ==
    /\ HInit /\ [][HNext]_hvars
    /\ WF_hvars((TrimOne \/ Miss \/ Hit) /\ HNext)

(* lru_keys is in the order of last use, so that evict_from_lru() takes    *)
(* the least recently used of the seldom used entries.                     *)
LruInOrderOfUse ==
    \A i, j \in DOMAIN lruKeys : i < j => <<lruKeys[i], lruKeys[j]>> \in usedAfter
=============================================================================
