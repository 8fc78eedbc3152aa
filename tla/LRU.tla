-------------------------------- MODULE LRU --------------------------------
(***************************************************************************)
(* The byte-bounded LRU cache of internal/cache/lru.go, as operators on a  *)
(* cache record.  Every exported method runs entirely under c.mu, so each  *)
(* is one operator from the cache before the call to the cache after it.   *)
(*                                                                         *)
(*   list       evictList, front first; the map c.items is the position of *)
(*              a key in it                                                *)
(*   size, max  currentSize and maxSizeBytes                               *)
(*   hits, misses, evictions   the counters of CacheStats                  *)
(***************************************************************************)
EXTENDS CacheItems

NewLRUCache(max) ==
  [list |-> << >>, size |-> 0, max |-> max, hits |-> 0, misses |-> 0, evictions |-> 0]

\* c is a record with the fields of a cache.
HasShape(c) ==
  c = [list |-> c.list, size |-> c.size, max |-> c.max,
       hits |-> c.hits, misses |-> c.misses, evictions |-> c.evictions]

\* removeElement.
RemoveElement(c, key) ==
  [c EXCEPT !.size = @ - Lookup(c.list, key).size, !.list = RemoveKey(@, key)]

(***************************************************************************)
(* Get: a miss, an expired item that is removed and counted as a miss, or  *)
(* a hit that becomes the most recently used item.                         *)
(***************************************************************************)
\* Mutant: the expiry is not looked at.
IsHitStale(c, key, now) == key \in KeysOf(c.list)

IsHit(c, key, now) == key \in KeysOf(c.list) /\ ~Expired(Lookup(c.list, key), now)

Get(c, key, now) ==
  IF IsHit(c, key, now)
  THEN [c EXCEPT !.list = <<Lookup(@, key)>> \o RemoveKey(@, key), !.hits = @ + 1]
  ELSE IF key \in KeysOf(c.list)
       THEN [RemoveElement(c, key) EXCEPT !.misses = @ + 1]
       ELSE [c EXCEPT !.misses = @ + 1]

(***************************************************************************)
(* Put: drop what can never fit, otherwise make the item the front of the  *)
(* list and evict from the back while the cache is over its budget.        *)
(***************************************************************************)
\* Mutant: the victims are taken from the front of the list.
EvictFront(c, n) ==
  [c EXCEPT !.list = SubSeq(@, n + 1, Len(@)),
            !.size = @ - Bytes(SubSeq(c.list, 1, n)),
            !.evictions = @ + n]

EvictBack(c, n) ==
  LET kept == Len(c.list) - n
  IN  [c EXCEPT !.list = SubSeq(@, 1, kept),
                !.size = @ - Bytes(SubSeq(c.list, kept + 1, Len(c.list))),
                !.evictions = @ + n]

\* The loop stops at the first n that is within the budget or empties the list.
EvictOver(c) ==
  LET stops == { n \in 0 .. Len(c.list) :
                   n = Len(c.list) \/ EvictBack(c, n).size <= c.max }
  IN  EvictBack(c, CHOOSE n \in stops : \A m \in stops : n <= m)

\* Mutant: an update in place returns before the eviction loop.
PutUpdateUnchecked(c, item) ==
  IF item.size > c.max
  THEN c
  ELSE IF item.key \in KeysOf(c.list)
       THEN [c EXCEPT !.size = @ - Lookup(c.list, item.key).size + item.size,
                      !.list = <<item>> \o RemoveKey(@, item.key)]
       ELSE EvictOver([c EXCEPT !.size = @ + item.size, !.list = <<item>> \o @])

Put(c, item) ==
  IF item.size > c.max
  THEN c
  ELSE IF item.key \in KeysOf(c.list)
       THEN EvictOver([c EXCEPT !.size = @ - Lookup(c.list, item.key).size + item.size,
                                !.list = <<item>> \o RemoveKey(@, item.key)])
       ELSE EvictOver([c EXCEPT !.size = @ + item.size, !.list = <<item>> \o @])

\* Clear.
Clear(c) == NewLRUCache(c.max)
=============================================================================
