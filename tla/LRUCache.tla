------------------------------ MODULE LRUCache ------------------------------
(***************************************************************************)
(* One LRU cache under calls from any number of goroutines: the mutex      *)
(* makes every method one step, and the caller supplies the instant "now". *)
(* Instants are not monotone: in the simulator every client session        *)
(* restarts the clock at SimEpoch while the edge cache is shared.          *)
(***************************************************************************)
EXTENDS Integers, Sequences, LRU

CONSTANTS
  Keys,
  Items,         \* the items callers put
  Instants,      \* the instants callers pass as now
  NoItem,
  MaxSizeBytes,
  MaxGets,       \* bound: Get calls counted by hits and misses
  MaxEvictions   \* bound: the last Put starts with fewer evictions than this

ASSUME ItemsAssumption ==
  Items \subseteq [key : Keys, size : Nat \ {0}, expiry : Nat] /\ MaxSizeBytes \in Nat
ASSUME InstantsAssumption == Instants \subseteq Nat \ {0}
ASSUME NoItemAssumption == NoItem \notin Items

VARIABLES
  cache,   \* the LRUCache
  answer,  \* the last Get: its arguments and the item returned
  newer    \* history: <<j, k>> when j was used after the last use of k

vars == <<cache, answer, newer>>

\* History: key is used now.
Used(key) ==
  { p \in newer : p[1] # key /\ p[2] # key } \cup { <<key, k>> : k \in Keys \ {key} }

Init ==
  /\ cache = NewLRUCache(MaxSizeBytes)
  /\ answer = NoItem
  /\ newer = {}

DoGet(key, now) ==
  /\ cache.hits + cache.misses < MaxGets
  /\ cache' = Get(cache, key, now)
  /\ answer' = [key |-> key, now |-> now,
                 item |-> IF IsHit(cache, key, now) THEN Lookup(cache.list, key) ELSE NoItem]
  /\ newer' = IF IsHit(cache, key, now) THEN Used(key) ELSE newer

DoPut(item) ==
  /\ cache.evictions < MaxEvictions
  /\ cache' = Put(cache, item)
  /\ newer' = IF item.size > cache.max THEN newer ELSE Used(item.key)
  /\ UNCHANGED answer

DoClear ==
  /\ cache' = Clear(cache)
  /\ UNCHANGED <<answer, newer>>

Next ==
  \/ \E key \in Keys, now \in Instants : DoGet(key, now)
  \/ \E item \in Items : DoPut(item)
  \/ DoClear

Spec == Init /\ [][Next]_vars

-----------------------------------------------------------------------------
\* currentSize is the sum of the items in evictList, each key being there once:
\* the in-place update, the expiry path of Get and the eviction loop all adjust
\* the counter by the size of the item they take out (lru.go:68-75, 88-93).
ByteAccounting ==
  /\ cache.size = Bytes(cache.list)
  /\ \A i, j \in DOMAIN cache.list : cache.list[i].key = cache.list[j].key => i = j

\* No call returns with the cache over its budget, in particular not an update
\* in place that grows an item (lru.go:77-84).
WithinBudget == cache.size <= MaxSizeBytes

\* evictList is in the order of last use: whatever mixture of hits, updates,
\* expiries and evictions came before, the back of the list is the least recently
\* used item (lru.go:54, 71, 73).
RecencyOrder ==
  \A i, j \in DOMAIN cache.list : i < j => <<cache.list[i].key, cache.list[j].key>> \in newer

\* Whatever calls came before, evictList, the key index and currentSize agree, in
\* the order of last use and within the budget.
ListConsistent == ByteAccounting /\ WithinBudget /\ RecencyOrder

\* The keys a step takes out of the list.
Victims == KeysOf(cache.list) \ KeysOf(cache'.list)

\* The victims are the least recently used items and no more than must go: what
\* survives was used after every victim, and with the most recently used victim
\* still in the cache it would be over its budget.
EvictionStep ==
  cache'.evictions > cache.evictions =>
    /\ \A victim \in Victims, kept \in KeysOf(Tail(cache'.list)) : <<kept, victim>> \in newer
    /\ \E victim \in Victims :
          /\ \A other \in Victims \ {victim} : <<victim, other>> \in newer
          /\ cache'.size + Lookup(cache.list, victim).size > MaxSizeBytes

\* Whenever a call evicts, it evicts only the least recently used items and only as
\* many as it must (lru.go:77-84).
EvictsOnlyOldest == [][EvictionStep]_vars

Contract == INSTANCE CacheContract WITH
  contents <- [k \in Keys |-> IF k \in KeysOf(cache.list) THEN Lookup(cache.list, k) ELSE NoItem]

\* The cache implements the promise of the interface cache.Cache.
ImplementsContract == Contract!Spec
=============================================================================
