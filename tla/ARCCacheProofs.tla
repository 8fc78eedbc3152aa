--------------------------- MODULE ARCCacheProofs ---------------------------
(***************************************************************************)
(* The ARC cache for any keys, items, instants and budget: its books agree *)
(* after every sequence of calls, T2 holds only keys that were used twice  *)
(* and is spared while T1 is above its target, and the cache implements    *)
(* the interface cache.Cache.  What the calls do to one cache is shown in  *)
(* module CacheItemsProofs.                                                *)
(***************************************************************************)
EXTENDS ARCCache, CacheItemsProofs

\* What this cache is about.
Here == [keys |-> Keys, items |-> Items, max |-> MaxSizeBytes]

LEMMA HereWorld ==
  World(Here) /\ Here.keys = Keys /\ Here.items = Items /\ Here.max = MaxSizeBytes
BY ItemsAssumption DEF World, Here

-----------------------------------------------------------------------------
\* FrequentSeenTwice is not inductive by itself: a ghost is admitted to T2 by its second
\* use, so every key the directory knows must have had a first one.
KnownSeen ==
  /\ seen \in [Keys -> 0 .. 2]
  /\ \A k \in Keys : cache.ownerOf[k] # Absent => seen[k] >= 1

Inv == ARCSound(Here, cache, {}) /\ KnownSeen /\ FrequentSeenTwice

\* A new cache satisfies the invariant.
LEMMA InitInv == Init => Inv
<1> SUFFICES ASSUME Init PROVE Inv
  OBVIOUS
<1>1. ARCSound(Here, cache, {}) /\ cache.ownerOf = [k \in Keys |-> Absent]
  BY EmptyARCSound, HereWorld DEF Init
<1>2. seen = [k \in Keys |-> 0]
  BY DEF Init
<1>3. QED
  BY <1>1, <1>2, OwnersDiffer DEF Inv, KnownSeen, FrequentSeenTwice

\* The history, key by key.
LEMMA SeenNext ==
  ASSUME KnownSeen, NEW uses, Record(uses)
  PROVE  /\ seen' \in [Keys -> 0 .. 2]
         /\ \A k \in Keys : cache'.ownerOf[k] # Absent =>
              /\ k \in uses /\ seen[k] = 0 => seen'[k] = 1
              /\ k \in uses /\ seen[k] >= 1 => seen'[k] = 2
              /\ k \notin uses => seen'[k] = seen[k]
<1>1. \A k \in Keys : seen[k] \in 0 .. 2 /\ AtMost(seen[k] + 1, 2) \in 0 .. 2
  BY DEF KnownSeen, AtMost
<1>2. \A k \in Keys : (seen[k] = 0 => AtMost(seen[k] + 1, 2) = 1)
                   /\ (seen[k] >= 1 => AtMost(seen[k] + 1, 2) = 2)
  BY <1>1 DEF AtMost
<1>3. QED
  BY <1>1, <1>2 DEF Record

\* Every call leaves the books in agreement, and what it does to the history.
LEMMA StepInv == Inv /\ [Next]_vars => Inv'
<1> SUFFICES ASSUME Inv, [Next]_vars PROVE Inv'
  OBVIOUS
<1>0. /\ T1 \in Owners /\ T2 \in Owners /\ Absent \notin Owners /\ B1 \in Owners /\ B2 \in Owners
      /\ T1 # T2 /\ T1 # B1 /\ T1 # B2 /\ T2 # B1 /\ T2 # B2 /\ B1 # B2
  BY OwnersDiffer
<1>1. /\ ARCSound(Here, cache, {}) /\ KnownSeen
      /\ \A k \in Keys : seen[k] \in 0 .. 2
      /\ \A k \in Keys : cache.ownerOf[k] # Absent => seen[k] >= 1
      /\ \A k \in Keys : cache.ownerOf[k] = T2 => seen[k] = 2
  BY DEF Inv, KnownSeen, FrequentSeenTwice
<1>2. ASSUME ARCSound(Here, cache', {}), seen' \in [Keys -> 0 .. 2],
             \A k \in Keys : /\ cache'.ownerOf[k] # Absent => seen'[k] >= 1
                             /\ cache'.ownerOf[k] = T2 => seen'[k] = 2
      PROVE  Inv'
  BY <1>2, HereWorld DEF Inv, KnownSeen, FrequentSeenTwice, ARCSound
<1>3. ASSUME NEW key \in Keys, NEW now \in Instants, DoGet(key, now) PROVE Inv'
  <2> DEFINE uses == IF IsARCHit(cache, key, now) THEN {key} ELSE {}
  <2>1. cache' = ARCGet(cache, key, now) /\ Record(uses)
    BY <1>3 DEF DoGet
  <2>2. /\ ARCSound(Here, cache', {})
        /\ IsARCHit(cache, key, now) => HitEffect(Here, cache, cache', key)
        /\ ~IsARCHit(cache, key, now) => MissEffect(Here, cache, cache', key)
    BY <1>1, <2>1, ARCGetEffect, HereWorld
  <2> HIDE DEF uses
  <2>3. /\ seen' \in [Keys -> 0 .. 2]
        /\ \A k \in Keys : cache'.ownerOf[k] # Absent =>
             /\ k \in uses /\ seen[k] = 0 => seen'[k] = 1
             /\ k \in uses /\ seen[k] >= 1 => seen'[k] = 2
             /\ k \notin uses => seen'[k] = seen[k]
    BY <1>1, <2>1, SeenNext
  <2>4. CASE IsARCHit(cache, key, now)
    <3>1. uses = {key} /\ HitEffect(Here, cache, cache', key)
      BY <2>2, <2>4 DEF uses
    <3>2. cache.ownerOf[key] # Absent /\ cache'.ownerOf[key] = T2
      BY <1>0, <3>1, HereWorld DEF HitEffect, Active
    <3>3. seen'[key] = 2
      BY <1>0, <1>1, <2>3, <3>1, <3>2
    <3>4. \A k \in Keys \ {key} : cache'.ownerOf[k] = cache.ownerOf[k]
      BY <3>1, HereWorld DEF HitEffect, Same
    <3>5. ASSUME NEW k \in Keys, k # key
          PROVE  /\ cache'.ownerOf[k] # Absent => seen'[k] >= 1
                 /\ cache'.ownerOf[k] = T2 => seen'[k] = 2
      <4>1. k \notin uses /\ cache'.ownerOf[k] = cache.ownerOf[k]
        BY <3>1, <3>4, <3>5
      <4>2. cache'.ownerOf[k] # Absent => seen'[k] = seen[k]
        BY <2>3, <4>1
      <4>3. QED
        BY <1>0, <1>1, <4>1, <4>2
    <3>6. ASSUME NEW k \in Keys
          PROVE  /\ cache'.ownerOf[k] # Absent => seen'[k] >= 1
                 /\ cache'.ownerOf[k] = T2 => seen'[k] = 2
      BY <3>3, <3>5
    <3>7. QED
      BY <1>2, <2>2, <2>3, <3>6
  <2>5. CASE ~IsARCHit(cache, key, now)
    <3>1. uses = {} /\ MissEffect(Here, cache, cache', key)
      BY <2>2, <2>5 DEF uses
    <3>2. \A k \in Keys : cache'.ownerOf[k] # Absent => cache'.ownerOf[k] = cache.ownerOf[k]
      BY <3>1, HereWorld DEF MissEffect, Same
    <3>3. QED
      BY <1>0, <1>1, <1>2, <2>2, <2>3, <3>1, <3>2
  <2>6. QED
    BY <2>4, <2>5
<1>4. ASSUME NEW item \in Items, DoPut(item) PROVE Inv'
  <2> DEFINE key == item.key
             uses == IF Active(cache, key) THEN {} ELSE {key}
  <2>1. cache' = ARCPut(cache, item) /\ Record(uses) /\ key \in Keys
    BY <1>4, HeldItems, HereWorld DEF DoPut
  <2>2. /\ ARCSound(Here, cache', {})
        /\ \/ cache' = cache
           \/ UpdateEffect(Here, cache, cache', item)
           \/ AdmitEffect(Here, cache, cache', item)
    BY <1>1, <2>1, ARCPutEffect, HereWorld
  <2> HIDE DEF uses
  <2>3. /\ seen' \in [Keys -> 0 .. 2]
        /\ \A k \in Keys : cache'.ownerOf[k] # Absent =>
             /\ k \in uses /\ seen[k] = 0 => seen'[k] = 1
             /\ k \in uses /\ seen[k] >= 1 => seen'[k] = 2
             /\ k \notin uses => seen'[k] = seen[k]
    BY <1>1, <2>1, SeenNext
  <2>4. \A k \in Keys : seen[k] = 0 \/ seen[k] >= 1
    BY <1>1
  <2>5. CASE cache'.ownerOf = cache.ownerOf
    BY <1>0, <1>1, <1>2, <2>2, <2>3, <2>4, <2>5
  <2>6. CASE AdmitEffect(Here, cache, cache', item)
    <3>1. uses = {key}
      BY <2>6, HereWorld DEF AdmitEffect, uses
    <3>2. ASSUME NEW k \in Keys \ {key}, cache'.ownerOf[k] # Absent
          PROVE  cache.ownerOf[k] # Absent /\ (cache'.ownerOf[k] = T2 => cache.ownerOf[k] = T2)
      BY <1>0, <2>6, <3>2, HereWorld DEF AdmitEffect, AdmittedWithRoom, Same
    <3>3. \/ cache.ownerOf[key] \in {B1, B2} /\ cache'.ownerOf[key] = T2
          \/ cache.ownerOf[key] = Absent /\ cache'.ownerOf[key] = T1
      BY <2>6, HereWorld DEF AdmitEffect, AdmittedWithRoom
    <3>4. seen'[key] >= 1 /\ (cache'.ownerOf[key] = T2 => seen'[key] = 2)
      BY <1>0, <1>1, <2>1, <2>3, <2>4, <3>1, <3>3
    <3> HIDE DEF key
    <3>5. ASSUME NEW k \in Keys
          PROVE  /\ cache'.ownerOf[k] # Absent => seen'[k] >= 1
                 /\ cache'.ownerOf[k] = T2 => seen'[k] = 2
      BY <1>0, <1>1, <2>3, <3>1, <3>2, <3>4
    <3>6. QED
      BY <1>2, <2>2, <2>3, <3>5
  <2>7. QED
    BY <2>2, <2>5, <2>6, HereWorld DEF UpdateEffect
<1>5. ASSUME DoClear PROVE Inv'
  <2>1. cache' = NewARCCache(Keys, MaxSizeBytes) /\ Record({})
    BY <1>1, <1>5, HereWorld DEF DoClear, ARCClear, ARCSound, Books
  <2>2. ARCSound(Here, cache', {}) /\ cache'.ownerOf = [k \in Keys |-> Absent]
    BY <2>1, EmptyARCSound, HereWorld
  <2>3. seen' \in [Keys -> 0 .. 2]
    BY <1>1, <2>1, SeenNext
  <2>4. QED
    BY <1>0, <1>2, <2>2, <2>3
<1>6. CASE UNCHANGED vars
  <2>1. cache' = cache /\ seen' = seen
    BY <1>6 DEF vars
  <2>2. QED
    BY <1>1, <1>2, <2>1 DEF KnownSeen
<1>7. QED
  BY <1>3, <1>4, <1>5, <1>6 DEF Next

\* The directory of a sound cache finds every key where it is.
LEMMA SoundBooks == ARCSound(Here, cache, {}) => BooksAgree
<1> SUFFICES ASSUME ARCSound(Here, cache, {}) PROVE BooksAgree
  OBVIOUS
<1>1. /\ cache.p \in 0 .. MaxSizeBytes
      /\ \A o \in Owners :
           GoodList(Here, cache.lists[o], cache.bytes[o], o, { k \in Keys \ {} : cache.ownerOf[k] = o })
  BY HereWorld DEF ARCSound, Books
<1>2. ByteAccounting /\ TargetInRange
  BY <1>1, HereWorld DEF GoodList, ByteAccounting, TargetInRange
<1>3. ASSUME NEW o \in Owners, NEW k \in Keys
      PROVE  Cardinality({ i \in DOMAIN cache.lists[o] : cache.lists[o][i].key = k })
               = IF cache.ownerOf[k] = o THEN 1 ELSE 0
  <2> DEFINE list == cache.lists[o]
             places == { i \in DOMAIN list : list[i].key = k }
  <2>1. Distinct(list) /\ KeysOf(list) = { x \in Keys \ {} : cache.ownerOf[x] = o }
    BY <1>1, HereWorld DEF GoodList
  <2> HIDE DEF list
  <2>2. CASE cache.ownerOf[k] = o
    <3>1. k \in KeysOf(list)
      BY <2>1, <2>2
    <3>2. PICK i \in DOMAIN list : list[i].key = k
      BY <3>1 DEF KeysOf
    <3>3. places = {i}
      BY <2>1, <3>2 DEF Distinct
    <3>4. Cardinality(places) = 1
      BY <3>3, FS_Singleton
    <3>5. QED
      BY <2>2, <3>4 DEF list
  <2>3. CASE cache.ownerOf[k] # o
    <3>1. k \notin KeysOf(list)
      BY <2>1, <2>3
    <3>2. places = {}
      BY <3>1 DEF KeysOf
    <3>3. Cardinality(places) = 0
      BY <3>2, FS_EmptySet
    <3>4. QED
      BY <2>3, <3>3 DEF list
  <2>4. QED
    BY <2>2, <2>3
<1>4. DirectoryAgrees
  BY <1>3 DEF DirectoryAgrees
<1>5. QED
  BY <1>2, <1>4 DEF BooksAgree

\* For any keys, items, instants and budget: after any sequence of calls each of the
\* four byte counters is the sum of its list, a key is in the one list the directory
\* names and nowhere else, and the target is in its range (arc.go:55-315).
THEOREM BooksStayInAgreement == Spec => []BooksAgree
<1>1. Inv => BooksAgree
  BY SoundBooks DEF Inv
<1>2. QED
  BY <1>1, InitInv, StepInv, PTL DEF Spec

\* For any keys, items, instants and budget: T2 never holds a key that was used only
\* once since the directory last forgot it (arc.go:12-13).
THEOREM ScanNeverReachesT2 == Spec => []FrequentSeenTwice
<1>1. Inv => FrequentSeenTwice
  BY DEF Inv
<1>2. QED
  BY <1>1, InitInv, StepInv, PTL DEF Spec

-----------------------------------------------------------------------------
\* Only the loop of replace moves an entry of T2 to its ghosts.
LEMMA StepSpares == Inv /\ [Next]_vars => SparingStep
<1> SUFFICES ASSUME Inv, [Next]_vars, NEW k \in Keys, cache.ownerOf[k] = T2, cache'.ownerOf[k] = B2
             PROVE  \E item \in Items :
                      /\ cache' = ARCPut(cache, item)
                      /\ cache'.bytes[T1] - (IF cache'.ownerOf[item.key] = T1 THEN item.size ELSE 0)
                           <= cache'.p
  BY DEF SparingStep
<1>0. /\ Absent \notin Owners /\ B2 \in Owners
      /\ T1 # T2 /\ T1 # B1 /\ T1 # B2 /\ T2 # B1 /\ T2 # B2 /\ B1 # B2
  BY OwnersDiffer
<1>1. ARCSound(Here, cache, {})
  BY DEF Inv
<1>2. ASSUME NEW key \in Keys, NEW now \in Instants, DoGet(key, now) PROVE FALSE
  <2>1. cache' = ARCGet(cache, key, now)
    BY <1>2 DEF DoGet
  <2>2. HitEffect(Here, cache, cache', key) \/ MissEffect(Here, cache, cache', key)
    BY <1>1, <2>1, ARCGetEffect, HereWorld
  <2>3. QED
    BY <1>0, <2>2, HereWorld DEF HitEffect, MissEffect, Same, Active
<1>3. ASSUME NEW item \in Items, DoPut(item)
      PROVE  /\ cache' = ARCPut(cache, item)
             /\ cache'.bytes[T1] - (IF cache'.ownerOf[item.key] = T1 THEN item.size ELSE 0)
                  <= cache'.p
  <2>1. cache' = ARCPut(cache, item)
    BY <1>3 DEF DoPut
  <2>2. AdmitEffect(Here, cache, cache', item)
    <3>1. \/ cache' = cache
          \/ UpdateEffect(Here, cache, cache', item)
          \/ AdmitEffect(Here, cache, cache', item)
      BY <1>1, <2>1, ARCPutEffect, HereWorld
    <3>2. QED
      BY <1>0, <3>1, HereWorld DEF UpdateEffect
  <2>3. PICK q \in {T1, T2} : AdmittedWithRoom(Here, cache, cache', item, q)
    BY <2>2, HereWorld DEF AdmitEffect
  <2>4. /\ cache'.ownerOf[item.key] = q
        /\ cache'.bytes[T1] - (IF q = T1 THEN item.size ELSE 0) <= cache'.p
    BY <2>3, HereWorld DEF AdmittedWithRoom
  <2>5. QED
    BY <2>1, <2>4
<1>4. ASSUME DoClear PROVE FALSE
  <2>1. cache' = NewARCCache(Keys, MaxSizeBytes)
    BY <1>1, <1>4, HereWorld DEF DoClear, ARCClear, ARCSound, Books
  <2>2. cache'.ownerOf = [x \in Keys |-> Absent]
    BY <2>1, EmptyARCSound, HereWorld
  <2>3. QED
    BY <1>0, <2>2
<1>5. CASE UNCHANGED vars
  BY <1>0, <1>5 DEF vars
<1>6. QED
  BY <1>2, <1>3, <1>4, <1>5 DEF Next

\* For any keys, items, instants and budget: an entry of T2 gives way only to a Put, and
\* only with T1, beside the new item, within its target (arc.go:268-283).
THEOREM FrequentGivesWayLast == Spec => FrequentSpared
<1>1. Inv /\ [Next]_vars => [SparingStep]_vars
  BY StepSpares
<1>2. QED
  BY <1>1, InitInv, StepInv, PTL DEF Spec, FrequentSpared

-----------------------------------------------------------------------------
\* The map of the interface that a cache stands for: what is in T1 or T2, by key.
Contents(c) == [k \in Keys |-> IF Active(c, k) THEN Entry(c, k) ELSE NoItem]

\* What is held are the active keys.
LEMMA ContentsHeld ==
  ASSUME NEW c, ARCSound(Here, c, {})
  PROVE  /\ \A k \in Keys : Active(c, k) => Contents(c)[k] = Entry(c, k) /\ Entry(c, k) \in Items
         /\ \A k \in Keys : Contents(c)[k] # NoItem <=> Active(c, k)
<1>1. \A k \in Keys : Active(c, k) => Entry(c, k) \in Items
  BY ActiveEntry, HereWorld
<1>2. QED
  BY <1>1, NoItemAssumption DEF Contents

\* A key with the same owner and entry has the same item in both maps.
LEMMA SameContents ==
  ASSUME NEW c, NEW d, NEW k \in Keys, Same(c, d, k)
  PROVE  Contents(d)[k] = Contents(c)[k]
<1>1. T1 \in Owners /\ T2 \in Owners
  BY OwnersDiffer
<1>2. QED
  BY <1>1 DEF Same, Contents, Active, Entry

\* The sum of the interface, as the function its definition chooses.
LEMMA BytesHeldUnfolds ==
  ASSUME NEW store
  PROVE  LET held == Contract!Held(store)
         IN  Contract!BytesHeld(store) = (CHOOSE g : SumsUp(g, store, held))[held]
  BY DEF Contract!BytesHeld, Contract!MapThenSumSet, Contract!MapThenFoldSet, SumsUp

\* The bytes of the interface, with an item added, are those of T1 and T2 and the item.
LEMMA BytesWithItem ==
  ASSUME NEW c, ARCSound(Here, c, {}), NEW item \in Items, ~Active(c, item.key)
  PROVE  Contract!BytesHeld([Contents(c) EXCEPT ![item.key] = item])
           = c.bytes[T1] + c.bytes[T2] + item.size
<1> DEFINE key == item.key
           store == [Contents(c) EXCEPT ![key] = item]
           s == c.lists[T1]
           t == c.lists[T2]
           l == s \o t
           list == <<item>> \o l
<1>1. key \in Keys /\ (\A x \in Items : x.size \in Nat) /\ T1 \in Owners /\ T2 \in Owners /\ T1 # T2
  BY HeldItems, OwnersDiffer, HereWorld
<1>2. /\ s \in Seq(Items) /\ Distinct(s) /\ c.bytes[T1] = Bytes(s)
      /\ KeysOf(s) = { k \in Keys : c.ownerOf[k] = T1 }
  BY <1>1, HeldItems, HereWorld DEF ARCSound, Books, GoodList
<1>3. /\ t \in Seq(Items) /\ Distinct(t) /\ c.bytes[T2] = Bytes(t)
      /\ KeysOf(t) = { k \in Keys : c.ownerOf[k] = T2 }
  BY <1>1, HeldItems, HereWorld DEF ARCSound, Books, GoodList
<1>4. KeysOf(s) \cap KeysOf(t) = {} /\ key \notin KeysOf(s) /\ key \notin KeysOf(t)
  BY <1>1, <1>2, <1>3 DEF Active
<1> HIDE DEF s, t
<1>5. /\ l \in Seq(Items) /\ Distinct(l) /\ KeysOf(l) = KeysOf(s) \cup KeysOf(t)
      /\ Bytes(l) = Bytes(s) + Bytes(t)
      /\ \A k \in KeysOf(s) : Lookup(l, k) = Lookup(s, k)
      /\ \A k \in KeysOf(t) : Lookup(l, k) = Lookup(t, k)
  BY <1>1, <1>2, <1>3, <1>4, Joined
<1> HIDE DEF l
<1>6. /\ list \in Seq(Items) /\ Distinct(list) /\ KeysOf(list) = KeysOf(l) \cup {key}
      /\ Bytes(list) = Bytes(l) + item.size /\ Lookup(list, key) = item
      /\ \A k \in KeysOf(l) : Lookup(list, k) = Lookup(l, k)
  BY <1>1, <1>4, <1>5, PutInFront
<1> HIDE DEF list
<1>7. /\ store[key] = item
      /\ \A k \in Keys \ {key} : store[k] = Contents(c)[k]
  BY <1>1 DEF Contents
<1>8. ASSUME NEW k \in KeysOf(list) PROVE k \in Keys /\ store[k] = Lookup(list, k)
  <2>1. CASE k = key
    BY <1>1, <1>6, <1>7, <2>1
  <2>2. CASE k # key /\ k \in KeysOf(s)
    <3>1. Lookup(list, k) = Lookup(s, k) /\ k \in Keys /\ c.ownerOf[k] = T1
      BY <1>2, <1>5, <1>6, <2>2
    <3>2. Contents(c)[k] = Lookup(s, k)
      BY <3>1 DEF Contents, Active, Entry, s
    <3>3. QED
      BY <1>7, <2>2, <3>1, <3>2
  <2>3. CASE k # key /\ k \in KeysOf(t)
    <3>1. Lookup(list, k) = Lookup(t, k) /\ k \in Keys /\ c.ownerOf[k] = T2
      BY <1>3, <1>5, <1>6, <2>3
    <3>2. Contents(c)[k] = Lookup(t, k)
      BY <3>1 DEF Contents, Active, Entry, t
    <3>3. QED
      BY <1>7, <2>3, <3>1, <3>2
  <2>4. QED
    BY <1>5, <1>6, <1>8, <2>1, <2>2, <2>3
<1>9. Contract!Held(store) = KeysOf(list)
  <2>1. ASSUME NEW k \in KeysOf(list) PROVE k \in Contract!Held(store)
    <3>1. Lookup(list, k) \in Items
      BY <1>6, RemoveKeyKeys
    <3>2. QED
      BY <1>8, <3>1, NoItemAssumption DEF Contract!Held
  <2>2. ASSUME NEW k \in Keys, k # key, store[k] # NoItem PROVE k \in KeysOf(list)
    <3>1. c.ownerOf[k] \in {T1, T2}
      BY <1>7, <2>2 DEF Contents, Active
    <3>2. QED
      BY <1>2, <1>3, <1>5, <1>6, <3>1
  <2>3. QED
    BY <1>6, <2>1, <2>2 DEF Contract!Held
<1>10. \A i \in DOMAIN list : store[list[i].key] = list[i]
  BY <1>6, <1>8, LookupFinds DEF KeysOf
<1> HIDE DEF store
<1>11. /\ \E g : SumsUp(g, store, KeysOf(list))
       /\ \A g : SumsUp(g, store, KeysOf(list)) => g[KeysOf(list)] = Bytes(list)
  BY <1>1, <1>6, <1>10, SumByKey
<1>12. (CHOOSE g : SumsUp(g, store, KeysOf(list)))[KeysOf(list)] = Bytes(list)
  BY <1>11
<1>13. Contract!BytesHeld(store) = Bytes(list)
  BY <1>9, <1>12, BytesHeldUnfolds
<1>14. QED
  BY <1>2, <1>3, <1>5, <1>6, <1>13 DEF store

\* A Get is a justified hit or miss of the interface.
LEMMA GetContract ==
  ASSUME ARCSound(Here, cache, {}), NEW key \in Keys, NEW now \in Instants, DoGet(key, now)
  PROVE  Contract!GetHit(key, now) \/ Contract!GetMiss(key, now)
<1> DEFINE old == Contents(cache)
           new == Contents(cache')
<1>1. /\ ARCSound(Here, cache', {})
      /\ IsARCHit(cache, key, now) => HitEffect(Here, cache, cache', key)
      /\ ~IsARCHit(cache, key, now) => MissEffect(Here, cache, cache', key)
  <2>1. cache' = ARCGet(cache, key, now)
    BY DEF DoGet
  <2>2. QED
    BY <2>1, ARCGetEffect, HereWorld
<1>2. /\ Active(cache, key) => old[key] = Entry(cache, key) /\ Entry(cache, key) \in Items
      /\ old[key] # NoItem <=> Active(cache, key)
  BY ContentsHeld
<1>3. Active(cache, key) =>
        (Contract!Live(Entry(cache, key), now) <=> ~Expired(Entry(cache, key), now))
  <2>1. ASSUME Active(cache, key)
        PROVE  Entry(cache, key).expiry \in Nat /\ now \in Nat
    BY <1>2, <2>1, ItemsAssumption, InstantsAssumption
  <2>2. QED
    BY <2>1 DEF Contract!Live, Expired, NoExpiry
<1>4. CASE IsARCHit(cache, key, now)
  <2>1. /\ Active(cache, key) /\ cache'.ownerOf[key] = T2
        /\ Lookup(cache'.lists[T2], key) = Entry(cache, key)
        /\ \A k \in Keys \ {key} : Same(cache, cache', k)
        /\ ~Expired(Entry(cache, key), now)
    BY <1>1, <1>4, HereWorld DEF HitEffect, IsARCHit
  <2>2. answer' = [key |-> key, now |-> now, item |-> Entry(cache, key)]
    BY <1>4 DEF DoGet
  <2>3. new[key] = old[key]
    BY <1>2, <2>1 DEF Contents, Active, Entry
  <2>4. \A k \in Keys \ {key} : new[k] = old[k]
    BY <2>1, SameContents
  <2>5. new = old
    BY <2>3, <2>4 DEF Contents
  <2>6. QED
    BY <1>2, <1>3, <2>1, <2>2, <2>5 DEF Contract!GetHit, Contents
<1>5. CASE ~IsARCHit(cache, key, now)
  <2>1. /\ Active(cache, key) => cache'.ownerOf[key] = Absent /\ Expired(Entry(cache, key), now)
        /\ ~Active(cache, key) => Same(cache, cache', key)
        /\ \A k \in Keys \ {key} : Same(cache, cache', k)
    BY <1>1, <1>5, HereWorld DEF MissEffect, IsARCHit
  <2>2. answer' = [key |-> key, now |-> now, item |-> NoItem]
    BY <1>5 DEF DoGet
  <2>3. new[key] = NoItem
    <3>1. CASE Active(cache, key)
      BY <2>1, <3>1, OwnersDiffer DEF Contents, Active
    <3>2. CASE ~Active(cache, key)
      BY <1>2, <2>1, <3>2, SameContents
    <3>3. QED
      BY <3>1, <3>2
  <2>4. \A k \in Keys \ {key} : new[k] = old[k]
    BY <2>1, SameContents
  <2>5. new = [old EXCEPT ![key] = NoItem]
    BY <2>3, <2>4 DEF Contents
  <2>6. old[key] = NoItem \/ ~Contract!Live(old[key], now)
    BY <1>2, <1>3, <2>1
  <2>7. QED
    BY <2>2, <2>5, <2>6 DEF Contract!GetMiss, Contents
<1>6. QED
  BY <1>4, <1>5

\* A Put that is not refused holds the item, and drops others only for want of room.
LEMMA PutContract ==
  ASSUME ARCSound(Here, cache, {}), NEW item \in Items, DoPut(item)
  PROVE  Contract!Put(item) \/ UNCHANGED Contract!vars
<1> DEFINE key == item.key
           old == Contents(cache)
           new == Contents(cache')
           inserted == [old EXCEPT ![key] = item]
           evicted == { k \in Keys \ {key} : old[k] # NoItem /\ new[k] = NoItem }
<1>1. /\ ARCSound(Here, cache', {}) /\ answer' = answer /\ key \in Keys
      /\ item.size > MaxSizeBytes => cache' = cache
      /\ ~(item.size > MaxSizeBytes) =>
           UpdateEffect(Here, cache, cache', item) \/ AdmitEffect(Here, cache, cache', item)
  <2>1. cache' = ARCPut(cache, item) /\ answer' = answer
    BY DEF DoPut
  <2>2. QED
    BY <2>1, ARCPutEffect, HeldItems, HereWorld
<1>2. CASE item.size > MaxSizeBytes
  BY <1>1, <1>2 DEF Contract!vars
<1>3. CASE ~(item.size > MaxSizeBytes)
  <2>0. item.size <= MaxSizeBytes
    BY <1>3, HeldItems, HereWorld
  <2>1. /\ T1 \in Owners /\ T2 \in Owners /\ Absent \notin Owners
        /\ T1 # B1 /\ T1 # B2 /\ T2 # B1 /\ T2 # B2
    BY OwnersDiffer
  <2>2. /\ \A k \in Keys : old[k] # NoItem <=> Active(cache, k)
        /\ \A k \in Keys : new[k] # NoItem <=> Active(cache', k)
    BY <1>1, ContentsHeld
  <2>3. new[key] = item
    <3>1. CASE UpdateEffect(Here, cache, cache', item)
      BY <1>1, <3>1, HereWorld DEF UpdateEffect, Contents, Active, Entry
    <3>2. CASE AdmitEffect(Here, cache, cache', item)
      BY <1>1, <2>1, <3>2, HereWorld DEF AdmitEffect, AdmittedWithRoom, Contents, Active, Entry
    <3>3. QED
      BY <1>1, <1>3, <3>1, <3>2
  <2>4. \A k \in Keys \ {key} : new[k] = old[k] \/ new[k] = NoItem
    <3>1. CASE UpdateEffect(Here, cache, cache', item)
      BY <3>1, SameContents, HereWorld DEF UpdateEffect
    <3>2. CASE AdmitEffect(Here, cache, cache', item)
      <4>1. ASSUME NEW k \in Keys \ {key}, ~Same(cache, cache', k) PROVE ~Active(cache', k)
        BY <2>1, <3>2, <4>1, HereWorld DEF AdmitEffect, AdmittedWithRoom, Active
      <4>2. QED
        BY <2>2, <4>1, SameContents
    <3>3. QED
      BY <1>1, <1>3, <3>1, <3>2
  <2>5. ASSUME evicted # {} PROVE Contract!BytesHeld(inserted) > MaxSizeBytes
    <3>1. PICK k \in Keys \ {key} : old[k] # NoItem /\ new[k] = NoItem
      BY <2>5
    <3>2. Active(cache, k) /\ ~Active(cache', k)
      BY <2>2, <3>1
    <3>3. cache.ownerOf[k] \in {T1, T2} /\ cache.ownerOf[k] # cache'.ownerOf[k]
      BY <3>2 DEF Active
    <3>4. AdmitEffect(Here, cache, cache', item)
      BY <1>1, <1>3, <3>3, HereWorld DEF UpdateEffect
    <3>5. ~Active(cache, key) /\ cache.bytes[T1] + cache.bytes[T2] + item.size > MaxSizeBytes
      BY <3>3, <3>4, HereWorld DEF AdmitEffect, AdmittedWithRoom
    <3>6. QED
      BY <3>5, BytesWithItem
  <2>6. evicted \in SUBSET (Contract!Held(inserted) \ {key})
    BY DEF Contract!Held, Contents
  <2>7. new = [k \in Keys |-> IF k \in evicted THEN NoItem ELSE inserted[k]]
    <3>1. ASSUME NEW k \in Keys PROVE new[k] = IF k \in evicted THEN NoItem ELSE inserted[k]
      BY <1>1, <2>3, <2>4 DEF Contents
    <3>2. new = [k \in Keys |-> new[k]]
      BY DEF Contents
    <3> HIDE DEF new, evicted, inserted
    <3>3. QED
      BY <3>1, <3>2
  <2> HIDE DEF evicted
  <2>8. QED
    BY <1>1, <2>0, <2>5, <2>6, <2>7 DEF Contract!Put, Contents
<1>4. QED
  BY <1>2, <1>3

\* Every call of the ARC cache is a call of the interface, or changes nothing it shows.
LEMMA StepContract == Inv /\ [Next]_vars => [Contract!Next]_(Contract!vars)
<1> SUFFICES ASSUME Inv, [Next]_vars PROVE Contract!Next \/ UNCHANGED Contract!vars
  OBVIOUS
<1>1. ARCSound(Here, cache, {})
  BY DEF Inv
<1>2. ASSUME NEW key \in Keys, NEW now \in Instants, DoGet(key, now) PROVE Contract!Next
  BY <1>1, <1>2, GetContract DEF Contract!Next
<1>3. ASSUME NEW item \in Items, DoPut(item) PROVE Contract!Next \/ UNCHANGED Contract!vars
  BY <1>1, <1>3, PutContract DEF Contract!Next
<1>4. ASSUME DoClear PROVE Contract!Next
  <2>1. cache' = NewARCCache(Keys, MaxSizeBytes) /\ answer' = answer
    BY <1>1, <1>4, HereWorld DEF DoClear, ARCClear, ARCSound, Books
  <2>2. cache'.ownerOf = [k \in Keys |-> Absent]
    BY <2>1, EmptyARCSound, HereWorld
  <2>3. \A k \in Keys : ~Active(cache', k)
    BY <2>2, OwnersDiffer DEF Active
  <2>4. Contract!Clear
    BY <2>1, <2>3 DEF Contract!Clear
  <2>5. QED
    BY <2>4 DEF Contract!Next
<1>5. CASE UNCHANGED vars
  BY <1>5 DEF vars, Contract!vars
<1>6. QED
  BY <1>2, <1>3, <1>4, <1>5 DEF Next

\* For any keys, items, instants and budget the ARC cache implements the promise of the
\* interface cache.Cache, as the LRU cache does: a ghost is never an answer, and an active
\* entry goes only if all of them and the new item would not fit (cache.go:15-29,
\* arc.go:55-315).
THEOREM ARCImplementsContract == Spec => ImplementsContract
<1>1. Init => Contract!Init
  <2> SUFFICES ASSUME Init PROVE Contract!Init
    OBVIOUS
  <2>1. cache.ownerOf = [k \in Keys |-> Absent] /\ answer = NoItem
    BY EmptyARCSound, HereWorld DEF Init
  <2>2. \A k \in Keys : ~Active(cache, k)
    BY <2>1, OwnersDiffer DEF Active
  <2>3. QED
    BY <2>1, <2>2 DEF Contract!Init
<1>2. QED
  BY <1>1, InitInv, StepInv, StepContract, PTL DEF Spec, ImplementsContract, Contract!Spec
=============================================================================
