--------------------------- MODULE CacheContract ---------------------------
(***************************************************************************)
(* What the interface cache.Cache (internal/cache/cache.go) promises its   *)
(* callers, whatever the replacement policy behind it.  LRUCache and       *)
(* ARCCache are shown to implement it.                                     *)
(*                                                                         *)
(*   contents   the items a Get can still return, by key                   *)
(*   answer     the last Get: its key, its instant and the item returned,  *)
(*              NoItem for (Item{}, false)                                 *)
(***************************************************************************)
EXTENDS Integers, FiniteSetsExt

CONSTANTS Keys, Items, Instants, MaxSizeBytes, NoItem

VARIABLES contents, answer

vars == <<contents, answer>>

Live(item, now) == item.expiry = 0 \/ now <= item.expiry

Held(store) == { k \in Keys : store[k] # NoItem }

BytesHeld(store) == MapThenSumSet(LAMBDA k : store[k].size, Held(store))

Init ==
  /\ contents = [k \in Keys |-> NoItem]
  /\ answer = NoItem

\* A hit returns the item of the last accepted Put of that key, not expired.
GetHit(k, now) ==
  /\ contents[k] # NoItem
  /\ Live(contents[k], now)
  /\ answer' = [key |-> k, now |-> now, item |-> contents[k]]
  /\ UNCHANGED contents

\* A miss is justified: nothing is held for the key, or it expired and is dropped.
GetMiss(k, now) ==
  /\ contents[k] = NoItem \/ ~Live(contents[k], now)
  /\ answer' = [key |-> k, now |-> now, item |-> NoItem]
  /\ contents' = [contents EXCEPT ![k] = NoItem]

\* "Put inserts an item, evicting as needed": other items go only if all of
\* them together with the new one would not fit, and the new item is held.
Put(item) ==
  /\ item.size <= MaxSizeBytes
  /\ LET inserted == [contents EXCEPT ![item.key] = item]
     IN  \E evicted \in SUBSET (Held(inserted) \ {item.key}) :
           /\ evicted # {} => BytesHeld(inserted) > MaxSizeBytes
           /\ contents' = [k \in Keys |-> IF k \in evicted THEN NoItem ELSE inserted[k]]
  /\ UNCHANGED answer

Clear ==
  /\ contents' = [k \in Keys |-> NoItem]
  /\ UNCHANGED answer

Next ==
  \/ \E k \in Keys, now \in Instants : GetHit(k, now) \/ GetMiss(k, now)
  \/ \E item \in Items : Put(item)
  \/ Clear

Spec == Init /\ [][Next]_vars
=============================================================================
