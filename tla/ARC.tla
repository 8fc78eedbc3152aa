-------------------------------- MODULE ARC --------------------------------
(***************************************************************************)
(* The adaptive replacement cache of internal/cache/arc.go, as operators   *)
(* on a cache record.  Every exported method runs under c.mu.              *)
(*                                                                         *)
(*   lists      the four lists by the owner byte of the code, front first: *)
(*              "t" T1, "T" T2, "b" B1 and "B" B2                          *)
(*   bytes      t1Bytes, t2Bytes, b1Bytes and b2Bytes, by the same letter  *)
(*   ownerOf    the owner of every key of c.index, Absent for the others   *)
(*   p, max     the target of T1 and maxSizeBytes                          *)
(*   hits, misses, evictions   the counters of CacheStats                  *)
(*                                                                         *)
(* An item is a record [key, size, expiry] as in module LRU; a ghost is an *)
(* item without an expiry.                                                 *)
(***************************************************************************)
EXTENDS CacheItems

T1 == "t"
T2 == "T"
B1 == "b"
B2 == "B"
Owners == {T1, T2, B1, B2}
Absent == "none"

NewARCCache(keys, max) ==
  [lists |-> [o \in Owners |-> << >>], bytes |-> [o \in Owners |-> 0],
   ownerOf |-> [k \in keys |-> Absent], p |-> 0, max |-> max,
   hits |-> 0, misses |-> 0, evictions |-> 0]

\* Take the entry of key out of list o; the directory entry stays.
Unlink(c, o, key) ==
  [c EXCEPT !.bytes[o] = @ - Lookup(c.lists[o], key).size,
            !.lists[o] = RemoveKey(@, key)]

\* PushFront of item on list o, with its bytes and its directory entry.
PushFront(c, o, item) ==
  [c EXCEPT !.bytes[o] = @ + item.size,
            !.lists[o] = <<item>> \o @,
            !.ownerOf[item.key] = o]

Forget(c, key) == [c EXCEPT !.ownerOf[key] = Absent]

Ghost(item) == [item EXCEPT !.expiry = NoExpiry]

(***************************************************************************)
(* Get: only an unexpired entry of T1 or T2 is a hit, and the hit makes it *)
(* the most recent entry of T2.  An expired one is removed entirely.       *)
(***************************************************************************)
Active(c, key) == c.ownerOf[key] \in {T1, T2}

Entry(c, key) == Lookup(c.lists[c.ownerOf[key]], key)

\* Mutant: a ghost counts as a hit.
IsHitOnGhost(c, key, now) ==
  c.ownerOf[key] # Absent /\ ~Expired(Entry(c, key), now)

IsARCHit(c, key, now) == Active(c, key) /\ ~Expired(Entry(c, key), now)

ARCGet(c, key, now) ==
  IF IsARCHit(c, key, now)
  THEN [PushFront(Unlink(c, c.ownerOf[key], key), T2, Entry(c, key)) EXCEPT !.hits = @ + 1]
  ELSE IF Active(c, key)
       THEN [Forget(Unlink(c, c.ownerOf[key], key), key) EXCEPT !.misses = @ + 1]
       ELSE [c EXCEPT !.misses = @ + 1]

(***************************************************************************)
(* Eviction of the back of a list, into a ghost list (replace and          *)
(* moveT1LRUToB1) or for good (evictLRUList); nothing to do if it is empty.*)
(***************************************************************************)
MoveLRUToGhost(c, o, ghosts) ==
  IF c.lists[o] = << >>
  THEN c
  ELSE LET victim == Last(c.lists[o])
       IN  [PushFront(Unlink(c, o, victim.key), ghosts, Ghost(victim))
              EXCEPT !.evictions = @ + 1]

EvictLRUList(c, o) ==
  IF c.lists[o] = << >>
  THEN c
  ELSE LET victim == Last(c.lists[o])
       IN  Forget(Unlink(c, o, victim.key), victim.key)

(***************************************************************************)
(* replace: make room for size bytes, from T1 while it exceeds its target  *)
(* and otherwise from T2, giving up when neither has anything to evict.    *)
(***************************************************************************)
\* Mutant: the comparison with the target is turned around.
PrefersT1BelowTarget(c, inB2) ==
  c.bytes[T1] > 0 /\ (c.bytes[T1] < c.p \/ (inB2 /\ c.bytes[T1] = c.p))

PrefersT1(c, inB2) ==
  c.bytes[T1] > 0 /\ (c.bytes[T1] > c.p \/ (inB2 /\ c.bytes[T1] = c.p))

Replace(c, size, inB2) ==
  LET rounds == Len(c.lists[T1]) + Len(c.lists[T2])
      after[n \in 0 .. rounds] ==  \* the cache after at most n rounds of the loop
        IF n = 0 THEN c
        ELSE LET d == after[n - 1]
             IN  IF d.bytes[T1] + d.bytes[T2] + size <= d.max THEN d
                 ELSE IF PrefersT1(d, inB2) THEN MoveLRUToGhost(d, T1, B1)
                 ELSE IF d.bytes[T2] > 0 THEN MoveLRUToGhost(d, T2, B2)
                 ELSE d
  IN  after[rounds]

(***************************************************************************)
(* Put, by where the key is found.                                         *)
(***************************************************************************)
UpdateInPlace(c, item) ==
  LET o == c.ownerOf[item.key]
  IN  [c EXCEPT !.bytes[o] = @ - Entry(c, item.key).size + item.size,
                !.lists[o][Position(c.lists[o], item.key)] = item]

\* How far a ghost hit in list o moves the target p, other being the other
\* ghost list: the ratio of the two when the other one is larger, at least 1.
TargetStep(c, o, other, key) ==
  LET delta == IF c.bytes[other] > c.bytes[o] /\ c.bytes[o] > 0
               THEN c.bytes[other] \div c.bytes[o] ELSE 1
  IN  delta * Entry(c, key).size

AtMost(n, bound) == IF n > bound THEN bound ELSE n
AtLeast(n, bound) == IF n < bound THEN bound ELSE n

\* Mutant: the bytes of the incoming item, not of the ghost, leave the counter.
ReadmitIncomingSize(c, o, item, p) ==
  LET gone == [Forget(Unlink(c, o, item.key), item.key)
                 EXCEPT !.bytes[o] = c.bytes[o] - item.size]
  IN  PushFront(Replace([gone EXCEPT !.p = p], item.size, o = B2), T2, item)

\* A key found in a ghost list leaves it and is admitted to T2.
Readmit(c, o, item, p) ==
  LET gone == Forget(Unlink(c, o, item.key), item.key)
  IN  PushFront(Replace([gone EXCEPT !.p = p], item.size, o = B2), T2, item)

GrowTarget(c, item) == AtMost(c.p + TargetStep(c, B1, B2, item.key), c.max)
ShrinkTarget(c, item) == AtLeast(c.p - TargetStep(c, B2, B1, item.key), 0)

\* Case IV of Megiddo and Modha: what is evicted before replace for a key
\* that no list knows.
MakeRoom(c, size) ==
  IF c.bytes[T1] + c.bytes[B1] + size > c.max
  THEN IF c.bytes[T1] < c.max
       THEN EvictLRUList(c, B1)
       ELSE MoveLRUToGhost(c, T1, B1)
  ELSE IF c.bytes[T1] + c.bytes[T2] + c.bytes[B1] + c.bytes[B2] + size >= 2 * c.max
       THEN EvictLRUList(c, B2)
       ELSE c

\* Mutant: a key seen for the first time goes to the frequency list.
InsertFrequent(c, item) ==
  PushFront(Replace(MakeRoom(c, item.size), item.size, FALSE), T2, item)

InsertFresh(c, item) ==
  PushFront(Replace(MakeRoom(c, item.size), item.size, FALSE), T1, item)

ARCPut(c, item) ==
  LET o == c.ownerOf[item.key]
  IN  IF item.size > c.max THEN c
      ELSE IF Active(c, item.key) THEN UpdateInPlace(c, item)
      ELSE IF o = B1 THEN Readmit(c, B1, item, GrowTarget(c, item))
      ELSE IF o = B2 THEN Readmit(c, B2, item, ShrinkTarget(c, item))
      ELSE InsertFresh(c, item)

\* Clear.
ARCClear(c) == NewARCCache(DOMAIN c.ownerOf, c.max)
=============================================================================
