------------------------------ MODULE LRUCache ------------------------------
(***************************************************************************)
(* The template behind the asset cache of the WHIP server                  *)
(* (src/whip-server/whip/lru_cache.h with AssetSizeCalculator.h), which    *)
(* the Aperture server has a copy of: a list with the most recently used   *)
(* entry in front, an index into it, and a running total of the sizes.     *)
(* Every operation is a function of the cache.                             *)
(***************************************************************************)
EXTENDS Integers, Sequences, Functions

CONSTANTS
    SizeOf,     \* size of an asset, overhead included
    MaxSize     \* _max_size

\* A sequence without its i-th element, and the least of some numbers.
Without(s, i) == SubSeq(s, 1, i - 1) \o SubSeq(s, i + 1, Len(s))
Least(S) == CHOOSE n \in S : \A m \in S : n <= m

EmptyCache == [list |-> <<>>, index |-> {}, counted |-> 0]

\* The node of a key in the list, which the index has an iterator of.
At(c, k) == CHOOSE i \in DOMAIN c.list : c.list[i].key = k

exists(c, k) == k \in c.index

touch(c, k) == [c EXCEPT !.list = <<c.list[At(c, k)]>> \o Without(c.list, At(c, k))]

remove(c, k) ==
    [list |-> Without(c.list, At(c, k)),
     index |-> c.index \ {k},
     counted |-> c.counted - SizeOf[c.list[At(c, k)].data]]

\* The data of a key that exists, and the cache after the fetch.
fetched(c, k) == c.list[At(c, k)].data
fetch(c, k) == IF exists(c, k) THEN touch(c, k) ELSE c

\* A new entry in front.
Pushed(c, k, d) ==
    [list |-> <<[key |-> k, data |-> d]>> \o c.list,
     index |-> c.index \cup {k},
     counted |-> c.counted + SizeOf[d]]

\* The new entry, in place of an old one with its key.
Added(c, k, d) ==
    Pushed(IF exists(c, k) THEN remove(touch(c, k), k) ELSE c, k, d)

\* The entry at the back is removed.
Evicted(c) == remove(c, c.list[Len(c.list)].key)

\* Faulty variant: one entry is removed at most.
BadInsert(c, k, d) ==
    LET new == Added(c, k, d)
    IN  IF new.counted > MaxSize THEN Evicted(new) ELSE new

\* Entries are removed from the back until the total fits; an asset that does
\* not fit by itself empties the cache.
insert(c, k, d) ==
    LET new == Added(c, k, d)
        dropped[n \in 0 .. Len(new.list)] ==
            IF n = 0 THEN new ELSE Evicted(dropped[n - 1])
    IN  dropped[Least({n \in DOMAIN dropped : dropped[n].counted <= MaxSize})]

\* The keys by their last use, the latest first, after a use of k.
Latest(u, k) ==
    LET uses == {i \in DOMAIN u : u[i] = k}
    IN  <<k>> \o IF uses = {} THEN u ELSE Without(u, Least(uses))

\* The list has the keys that were used last, in the order of their use.
InOrder(c, u) ==
    Len(c.list) <= Len(u) /\ \A i \in 1 .. Len(c.list) : u[i] = c.list[i].key

Keys(c) == [i \in DOMAIN c.list |-> c.list[i].key]
Total(c) ==
    LET sum[i \in 0 .. Len(c.list)] ==
            IF i = 0 THEN 0 ELSE sum[i - 1] + SizeOf[c.list[i].data]
    IN  sum[Len(c.list)]

\* The list, the index and the total agree, and the total fits: otherwise
\* the eviction would decrement an iterator of an empty list, or never end.
Agrees(c) ==
    /\ IsInjective(Keys(c))
    /\ c.index = Range(Keys(c))
    /\ c.counted = Total(c)
    /\ c.counted <= MaxSize
=============================================================================
