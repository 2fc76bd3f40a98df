------------------------------ MODULE LruCache ------------------------------
(***************************************************************************)
(* SectorCache and FileCache: the same least-recently-used list, keyed by  *)
(* a sector or by a file name.  A cache is the list lru_ itself, most      *)
(* recent first; index_ is the position of each key in it.  Hit and miss   *)
(* counters are left out.                                                  *)
(***************************************************************************)
EXTENDS Integers, Sequences

Keys(lru) == {lru[i].key : i \in DOMAIN lru}
Position(lru, key) == CHOOSE i \in DOMAIN lru : lru[i].key = key
Cached(lru, key) == lru[Position(lru, key)]

\* The list without the entry of a key, the others in their order.
Without(lru, key) ==
    IF key \in Keys(lru)
    THEN SubSeq(lru, 1, Position(lru, key) - 1)
            \o SubSeq(lru, Position(lru, key) + 1, Len(lru))
    ELSE lru

\* A capacity of zero is taken as one.
Capacity(n) == IF n = 0 THEN 1 ELSE n

Truncate(lru, n) == SubSeq(lru, 1, IF Len(lru) > n THEN n ELSE Len(lru))

\* Get on a key that is there: its entry moves to the front.
Touch(lru, key) == <<Cached(lru, key)>> \o Without(lru, key)

\* Mutant: nothing is evicted.
PutUnbounded(lru, key, data, n) ==
    <<[key |-> key, data |-> data]>> \o Without(lru, key)

Put(lru, key, data, n) ==
    Truncate(<<[key |-> key, data |-> data]>> \o Without(lru, key), n)

SetCapacity(lru, n) == Truncate(lru, Capacity(n))

Distinct(lru) ==
    \A i, j \in DOMAIN lru : lru[i].key = lru[j].key => i = j
=============================================================================
