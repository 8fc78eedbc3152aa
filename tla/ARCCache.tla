------------------------------ MODULE ARCCache ------------------------------
(***************************************************************************)
(* One ARC cache under calls from any number of goroutines: the mutex      *)
(* makes every method one step, and the caller supplies the instant "now". *)
(***************************************************************************)
EXTENDS Integers, Sequences, FiniteSets, ARC

CONSTANTS
  Keys,
  Items,         \* the items callers put
  Instants,      \* the instants callers pass as now
  NoItem,
  MaxSizeBytes,
  MaxGets,       \* bound: Get calls counted by hits and misses
  MaxEvictions   \* bound: the last Put starts with fewer evictions than this

ASSUME ItemsAssumption ==
  Items \subseteq [key : Keys, size : Nat \ {0}, expiry : Nat] /\ MaxSizeBytes \in Nat
ASSUME InstantsAssumption == Instants \subseteq Nat \ {0}
ASSUME NoItemAssumption == NoItem \notin Items

VARIABLES
  cache,   \* the ARCCache
  answer,  \* the last Get: its arguments and the item returned
  seen     \* history: how often a key was used since the directory last forgot it

vars == <<cache, answer, seen>>

Init ==
  /\ cache = NewARCCache(Keys, MaxSizeBytes)
  /\ answer = NoItem
  /\ seen = [k \in Keys |-> 0]

\* History: the keys in uses are used by this step; a key is seen 0, 1 or
\* several (2) times, and 0 times again once the directory has forgotten it.
Record(uses) ==
  seen' = [k \in Keys |->
             IF cache'.ownerOf[k] = Absent THEN 0
             ELSE IF k \in uses THEN AtMost(seen[k] + 1, 2) ELSE seen[k]]

DoGet(key, now) ==
  /\ cache.hits + cache.misses < MaxGets
  /\ cache' = ARCGet(cache, key, now)
  /\ answer' = [key |-> key, now |-> now,
                 item |-> IF IsARCHit(cache, key, now) THEN Entry(cache, key) ELSE NoItem]
  /\ Record(IF IsARCHit(cache, key, now) THEN {key} ELSE {})

DoPut(item) ==
  /\ cache.evictions < MaxEvictions
  /\ cache' = ARCPut(cache, item)
  /\ Record(IF Active(cache, item.key) THEN {} ELSE {item.key})
  /\ UNCHANGED answer

DoClear ==
  /\ cache' = ARCClear(cache)
  /\ Record({})
  /\ UNCHANGED answer

Next ==
  \/ \E key \in Keys, now \in Instants : DoGet(key, now)
  \/ \E item \in Items : DoPut(item)
  \/ DoClear

Spec == Init /\ [][Next]_vars

-----------------------------------------------------------------------------
\* Each byte counter is the sum of its list, ghosts included, although a ghost
\* may come back with a size other than the one it was evicted with
\* (arc.go:163-181, and TestARCGhostByteAccountingStable).
ByteAccounting == \A o \in Owners : cache.bytes[o] = Bytes(cache.lists[o])

\* index and ownerOf agree with the lists: a key is in the one list its owner
\* names and nowhere else, once, and a key without an owner is in no list.
DirectoryAgrees ==
  \A o \in Owners, k \in Keys :
     Cardinality({ i \in DOMAIN cache.lists[o] : cache.lists[o][i].key = k })
       = IF cache.ownerOf[k] = o THEN 1 ELSE 0

\* The target of T1 stays between nothing and the whole cache (arc.go:174-204).
TargetInRange == cache.p \in 0 .. MaxSizeBytes

\* The books of the cache agree with its four lists after every call.
BooksAgree == ByteAccounting /\ DirectoryAgrees /\ TargetInRange

\* "T1: recent items seen once; T2: items seen at least twice recently"
\* (arc.go:12-13): T2 never holds a key that was only inserted, so a scan of
\* keys that are read once never reaches T2.
FrequentSeenTwice == \A k \in Keys : cache.ownerOf[k] = T2 => seen[k] = 2

\* A step that moves an entry of T2 to its ghosts is a Put that leaves in T1, beside
\* the new item, at most the target.
SparingStep ==
  \A k \in Keys : cache.ownerOf[k] = T2 /\ cache'.ownerOf[k] = B2 =>
     \E item \in Items :
        /\ cache' = ARCPut(cache, item)
        /\ cache'.bytes[T1] - (IF cache'.ownerOf[item.key] = T1 THEN item.size ELSE 0) <= cache'.p

\* An entry of T2 gives way only while T1 is within its target: what replace
\* leaves in T1 beside the new item is at most p (arc.go:268-283).
FrequentSpared == [][SparingStep]_vars

\* The active lists hold no more than the byte budget NewARCCache was given.
WithinBudget == cache.bytes[T1] + cache.bytes[T2] <= MaxSizeBytes

Contract == INSTANCE CacheContract WITH
  contents <- [k \in Keys |-> IF Active(cache, k) THEN Entry(cache, k) ELSE NoItem]

\* The cache implements the promise of the interface cache.Cache; in
\* particular a ghost is never an answer, and a Put evicts only as needed.
ImplementsContract == Contract!Spec
=============================================================================
