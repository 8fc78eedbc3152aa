--------------------------- MODULE LRUCacheProofs ---------------------------
(***************************************************************************)
(* The LRU cache for any keys, items, instants and budget: its books agree *)
(* after every sequence of calls, it evicts the least recently used items  *)
(* and no more than it must, and it implements the interface cache.Cache.  *)
(*                                                                         *)
(* Every call leaves a list that is the old one without a key, that list   *)
(* with an item put at its front, or a front of it (lemmas GetEffect and   *)
(* PutEffect); each theorem is then about what these three changes do to   *)
(* the bytes, to the order of last use and to the map of the interface.    *)
(***************************************************************************)
EXTENDS LRUCache, CacheItemsProofs

\* The map of the interface that a list stands for.
Contents(list) ==
  [k \in Keys |-> IF k \in KeysOf(list) THEN Lookup(list, k) ELSE NoItem]

\* Only an item that can be put is in a list, under one of the keys.
LEMMA ListItems ==
  ASSUME NEW list \in Seq(Items)
  PROVE  /\ Len(list) \in Nat /\ DOMAIN list = 1 .. Len(list)
         /\ \A i \in 1 .. Len(list) : list[i] \in Items /\ list[i].key \in Keys
         /\ KeysOf(list) \subseteq Keys
         /\ \A x \in Items : x.size \in Nat /\ x.key \in Keys
<1>1. \A x \in Items : x.size \in Nat /\ x.key \in Keys
  BY ItemsAssumption
<1>2. Len(list) \in Nat /\ DOMAIN list = 1 .. Len(list) /\ \A i \in 1 .. Len(list) : list[i] \in Items
  BY LenProperties, ElementOfSeq
<1>3. QED
  BY <1>1, <1>2 DEF KeysOf

-----------------------------------------------------------------------------
\* The sum of the interface, as the function its definition chooses.
LEMMA BytesHeldUnfolds ==
  ASSUME NEW store
  PROVE  LET held == Contract!Held(store)
         IN  Contract!BytesHeld(store) = (CHOOSE g : SumsUp(g, store, held))[held]
  BY DEF Contract!BytesHeld, Contract!MapThenSumSet, Contract!MapThenFoldSet, SumsUp

\* The items by key and the list have the same bytes.
LEMMA BytesByKey ==
  ASSUME NEW list \in Seq(Items), Distinct(list)
  PROVE  Contract!BytesHeld(Contents(list)) = Bytes(list)
<1> DEFINE store == Contents(list)
           keys == KeysOf(list)
           sum == CHOOSE g : SumsUp(g, store, keys)
<1>1. /\ DOMAIN list = 1 .. Len(list) /\ keys \subseteq Keys
      /\ \A i \in 1 .. Len(list) : list[i] \in Items /\ list[i].key \in keys
      /\ \A x \in Items : x.size \in Nat
  BY ListItems DEF KeysOf
<1>2. Contract!Held(store) = keys
  <2>1. ASSUME NEW k \in keys PROVE Lookup(list, k) \in Items
    BY <2>1, RemoveKeyKeys
  <2>2. QED
    BY <1>1, <2>1, NoItemAssumption DEF Contract!Held, Contents
<1>3. Contract!BytesHeld(store) = sum[keys]
  BY <1>2, BytesHeldUnfolds
<1>4. \A i \in DOMAIN list : store[list[i].key] = list[i]
  BY <1>1, LookupFinds DEF Contents
<1> HIDE DEF store
<1>5. \A x \in Items : x.size \in Nat
  BY <1>1
<1>6. /\ \E g : SumsUp(g, store, keys)
      /\ \A g : SumsUp(g, store, keys) => g[keys] = Bytes(list)
  BY <1>4, <1>5, SumByKey
<1>7. sum[keys] = Bytes(list)
  BY <1>6
<1>8. QED
  BY <1>3, <1>7 DEF store

-----------------------------------------------------------------------------
\* The list without the item of a key, if there is one.
Without(list, key) == IF key \in KeysOf(list) THEN RemoveKey(list, key) ELSE list

\* The keys of a list are in the order of a relation.
Ordered(list, order) ==
  \A i, j \in DOMAIN list : i < j => <<list[i].key, list[j].key>> \in order

\* What is left of a list in its order is in the order the list was in.
LEMMA WithinOrdered ==
  ASSUME NEW s, NEW t, Within(s, t), NEW order, Ordered(t, order)
  PROVE  Ordered(s, order)
  BY DEF Within, Ordered

\* A list is within itself.
LEMMA WithinItself ==
  ASSUME NEW S, NEW list \in Seq(S)
  PROVE  Within(list, list)
<1> DEFINE e == [i \in DOMAIN list |-> i]
<1>1. /\ e \in [DOMAIN list -> DOMAIN list]
      /\ \A i \in DOMAIN list : list[i] = list[e[i]]
      /\ \A i, j \in DOMAIN list : i < j => e[i] < e[j]
  OBVIOUS
<1> HIDE DEF e
<1>2. QED
  BY <1>1 DEF Within

\* Taking out one key leaves everything else as it was, and takes that item's bytes.
LEMMA WithoutKey ==
  ASSUME NEW list \in Seq(Items), Distinct(list), NEW key
  PROVE  LET rest == Without(list, key)
         IN  /\ rest \in Seq(Items) /\ Distinct(rest) /\ Within(rest, list)
             /\ KeysOf(rest) = KeysOf(list) \ {key}
             /\ \A k \in KeysOf(rest) : Lookup(rest, k) = Lookup(list, k)
             /\ Bytes(rest) \in Nat
             /\ Bytes(list) = Bytes(rest) + IF key \in KeysOf(list) THEN Lookup(list, key).size ELSE 0
<1> DEFINE rest == Without(list, key)
<1>0. \A x \in Items : x.size \in Nat
  BY ItemsAssumption
<1>1. /\ rest \in Seq(Items) /\ Within(rest, list) /\ Distinct(rest)
      /\ KeysOf(rest) = KeysOf(list) \ {key}
  <2>1. CASE key \in KeysOf(list)
    <3>1. rest = RemoveKey(list, key)
      BY <2>1 DEF Without
    <3>2. rest \in Seq(Items) /\ Within(rest, list)
      BY <2>1, <3>1, RemoveKeyKeys, RemoveKeyWithin
    <3>3. Distinct(rest)
      BY <3>2, WithinDistinct
    <3>4. KeysOf(rest) = KeysOf(list) \ {key}
      BY <2>1, <3>1, RemoveKeyGone
    <3>5. QED
      BY <3>2, <3>3, <3>4
  <2>2. CASE key \notin KeysOf(list)
    <3>1. rest = list
      BY <2>2 DEF Without
    <3>2. QED
      BY <2>2, <3>1, WithinItself
  <2>3. QED
    BY <2>1, <2>2
<1>2. \A k \in KeysOf(rest) : Lookup(rest, k) = Lookup(list, k)
  BY <1>1, WithinLookup
<1>3. /\ Bytes(rest) \in Nat
      /\ Bytes(list) = Bytes(rest) + IF key \in KeysOf(list) THEN Lookup(list, key).size ELSE 0
  <2>1. CASE key \in KeysOf(list)
    <3>1. /\ Bytes(RemoveKey(list, key)) + Lookup(list, key).size = Bytes(list)
          /\ Bytes(RemoveKey(list, key)) \in Nat
      BY <1>0, <2>1, RemoveKeyBytes
    <3>2. QED
      BY <2>1, <3>1 DEF Without
  <2>2. CASE key \notin KeysOf(list)
    <3>1. Bytes(list) \in Nat
      BY <1>0, BytesConcat
    <3>2. QED
      BY <2>2, <3>1 DEF Without
  <2>3. QED
    BY <2>1, <2>2
<1>4. QED
  BY <1>1, <1>2, <1>3

\* The list with an item at its front, the old item of that key taken out.
Fronted(list, item) == <<item>> \o Without(list, item.key)

\* Such a list is as distinct as the old one, and has the bytes of the item and the rest.
LEMMA FrontedList ==
  ASSUME NEW list \in Seq(Items), Distinct(list), NEW item \in Items
  PROVE  LET d == Fronted(list, item)  rest == Without(list, item.key)
         IN  /\ d \in Seq(Items) /\ Distinct(d)
             /\ Len(d) = Len(rest) + 1 /\ d[1] = item
             /\ \A j \in 1 .. Len(rest) : d[j + 1] = rest[j]
             /\ KeysOf(d) = KeysOf(list) \cup {item.key}
             /\ Bytes(d) = item.size + Bytes(rest) /\ Bytes(d) \in Nat
<1> DEFINE rest == Without(list, item.key)
           d == Fronted(list, item)
<1>1. /\ rest \in Seq(Items) /\ Distinct(rest) /\ Bytes(rest) \in Nat
      /\ KeysOf(rest) = KeysOf(list) \ {item.key} /\ item.key \notin KeysOf(rest)
  <2>1. /\ rest \in Seq(Items) /\ Distinct(rest) /\ Bytes(rest) \in Nat
        /\ KeysOf(rest) = KeysOf(list) \ {item.key}
    BY WithoutKey
  <2> HIDE DEF rest
  <2>2. QED
    BY <2>1
<1>2. d = <<item>> \o rest
  BY DEF Fronted
<1>3. item.size \in Nat /\ \A x \in Items : x.size \in Nat
  BY ItemsAssumption
<1> HIDE DEF rest, d
<1>4. d \in Seq(Items) /\ KeysOf(d) = {item.key} \cup KeysOf(rest)
  BY <1>1, <1>2, FrontKeys
<1>5. /\ DOMAIN d = 1 .. Len(rest) + 1 /\ d[1] = item /\ Distinct(d)
      /\ \A j \in 1 .. Len(rest) : d[j + 1] = rest[j]
  BY <1>1, <1>2, FrontDistinct
<1>6. Len(d) = Len(rest) + 1
  <2>1. Len(rest) \in Nat /\ Len(d) \in Nat /\ DOMAIN d = 1 .. Len(d)
    BY <1>1, <1>4, LenProperties
  <2>2. QED
    BY <1>1, <1>2, ConcatProperties
<1>7. Bytes(d) = item.size + Bytes(rest) /\ Bytes(d) \in Nat
  <2>1. <<item>> \in Seq(Items) /\ Bytes(<<item>>) = item.size
    BY <1>3, BytesOfFew
  <2>2. Bytes(<<item>> \o rest) = Bytes(<<item>>) + Bytes(rest)
    BY <1>1, <1>3, <2>1, BytesConcat
  <2>3. QED
    BY <1>1, <1>2, <1>3, <2>1, <2>2
<1>8. QED
  BY <1>1, <1>4, <1>5, <1>6, <1>7 DEF rest, d

\* The front of the list is the key that was just used.
LEMMA FrontedOrdered ==
  ASSUME NEW list \in Seq(Items), Distinct(list), Ordered(list, newer), NEW item \in Items
  PROVE  Ordered(Fronted(list, item), Used(item.key))
<1> DEFINE key == item.key
           rest == Without(list, key)
           d == Fronted(list, item)
           n == Len(rest)
<1>1. /\ d \in Seq(Items) /\ Len(d) = n + 1 /\ d[1] = item
      /\ \A j \in 1 .. n : d[j + 1] = rest[j]
  BY FrontedList
<1>2. rest \in Seq(Items) /\ Within(rest, list) /\ KeysOf(rest) = KeysOf(list) \ {key}
  BY WithoutKey
<1>3. Ordered(rest, newer)
  BY <1>2, WithinOrdered
<1>4. n \in Nat /\ DOMAIN rest = 1 .. n /\ KeysOf(rest) \subseteq Keys
  BY <1>2, ListItems
<1>5. DOMAIN d = 1 .. n + 1
  BY <1>1, LenProperties
<1> HIDE DEF key, rest, d, n
<1>6. ASSUME NEW j \in 1 .. n PROVE rest[j].key \in Keys \ {key}
  <2>1. rest[j].key \in KeysOf(rest)
    BY <1>4 DEF KeysOf
  <2>2. QED
    BY <1>2, <1>4, <2>1
<1>7. ASSUME NEW j \in 1 .. n + 1, j # 1 PROVE j - 1 \in 1 .. n /\ d[j] = rest[j - 1]
  <2>1. j - 1 \in 1 .. n /\ (j - 1) + 1 = j
    BY <1>4, <1>7
  <2>2. QED
    BY <1>1, <2>1
<1>8. ASSUME NEW i \in 1 .. n + 1, NEW j \in 1 .. n + 1, i < j
      PROVE  <<d[i].key, d[j].key>> \in Used(key)
  <2>1. j # 1
    BY <1>4, <1>8
  <2>2. j - 1 \in 1 .. n /\ d[j] = rest[j - 1] /\ d[j].key \in Keys \ {key}
    BY <1>6, <1>7, <2>1
  <2>3. CASE i = 1
    <3>1. d[i].key = key
      BY <1>1, <2>3 DEF key
    <3>2. QED
      BY <2>2, <3>1 DEF Used
  <2>4. CASE i # 1
    <3>1. i - 1 \in 1 .. n /\ d[i] = rest[i - 1] /\ d[i].key \in Keys \ {key}
      BY <1>6, <1>7, <2>4
    <3>2. i - 1 < j - 1
      BY <1>4, <1>8
    <3>3. <<d[i].key, d[j].key>> \in newer
      BY <1>3, <1>4, <2>2, <3>1, <3>2 DEF Ordered
    <3> DEFINE p == <<d[i].key, d[j].key>>
    <3>4. p[1] # key /\ p[2] # key
      BY <2>2, <3>1
    <3> HIDE DEF p
    <3>5. p \in Used(key)
      BY <3>3, <3>4 DEF Used, p
    <3>6. QED
      BY <3>5 DEF p
  <2>5. QED
    BY <2>3, <2>4
<1>9. QED
  BY <1>5, <1>8 DEF Ordered, key, d

-----------------------------------------------------------------------------
\* A cache whose list, sizes and budget agree.
Sound(c) ==
  /\ HasShape(c) /\ c.evictions \in Nat /\ c.max = MaxSizeBytes
  /\ c.list \in Seq(Items) /\ Distinct(c.list)
  /\ c.size = Bytes(c.list) /\ c.size <= c.max

\* Get moves the item to the front, or takes it out: the rest stays in its place.
LEMMA GetEffect ==
  ASSUME NEW c, Sound(c), NEW key, NEW now
  PROVE  /\ IsHit(c, key, now) =>
              /\ Lookup(c.list, key) \in Items /\ Lookup(c.list, key).key = key
              /\ Get(c, key, now).list = Fronted(c.list, Lookup(c.list, key))
         /\ ~IsHit(c, key, now) => Get(c, key, now).list = Without(c.list, key)
         /\ Sound(Get(c, key, now)) /\ Get(c, key, now).evictions = c.evictions
<1> DEFINE rest == Without(c.list, key)
<1>0. c.list \in Seq(Items) /\ Distinct(c.list)
  BY DEF Sound
<1>1. /\ rest \in Seq(Items) /\ Distinct(rest) /\ Bytes(rest) \in Nat
      /\ Bytes(c.list) = Bytes(rest) + IF key \in KeysOf(c.list) THEN Lookup(c.list, key).size ELSE 0
  BY <1>0, WithoutKey
<1>2. MaxSizeBytes \in Nat /\ \A x \in Items : x.size \in Nat
  BY ItemsAssumption
<1>3. CASE IsHit(c, key, now)
  <2> DEFINE item == Lookup(c.list, key)
             list == <<item>> \o RemoveKey(c.list, key)
  <2>1. key \in KeysOf(c.list)
    BY <1>3 DEF IsHit
  <2>2. item \in Items /\ item.key = key /\ item.size \in Nat
    BY <1>0, <1>2, <2>1, RemoveKeyKeys
  <2>3. list = Fronted(c.list, item)
    BY <2>1, <2>2 DEF Fronted, Without
  <2> HIDE DEF item
  <2>4. /\ Fronted(c.list, item) \in Seq(Items) /\ Distinct(Fronted(c.list, item))
        /\ Bytes(Fronted(c.list, item)) = item.size + Bytes(rest)
    BY <1>0, <2>2, FrontedList
  <2> HIDE DEF list, rest
  <2>5. Bytes(list) = Bytes(c.list)
    BY <1>1, <2>1, <2>2, <2>3, <2>4 DEF item
  <2>6. Get(c, key, now) = [c EXCEPT !.list = list, !.hits = c.hits + 1]
    BY <1>3 DEF Get, list, item
  <2>7. Get(c, key, now) = [list |-> list, size |-> c.size, max |-> c.max,
                            hits |-> c.hits + 1, misses |-> c.misses, evictions |-> c.evictions]
    BY <2>6 DEF HasShape, Sound
  <2>8. Sound(Get(c, key, now))
    BY <2>3, <2>4, <2>5, <2>7 DEF Sound, HasShape
  <2>9. QED
    BY <1>3, <2>2, <2>3, <2>7, <2>8 DEF item
<1>4. CASE ~IsHit(c, key, now)
  <2>1. Get(c, key, now) = [list |-> rest, size |-> Bytes(rest), max |-> c.max,
                            hits |-> c.hits, misses |-> c.misses + 1, evictions |-> c.evictions]
    <3>1. CASE key \in KeysOf(c.list)
      <4> DEFINE size == c.size - Lookup(c.list, key).size
      <4>1. rest = RemoveKey(c.list, key)
        BY <3>1 DEF Without
      <4>2. Lookup(c.list, key).size \in Nat
        BY <1>0, <1>2, <3>1, RemoveKeyKeys
      <4> HIDE DEF rest
      <4>3. size = Bytes(rest)
        BY <1>1, <3>1, <4>2 DEF Sound
      <4> HIDE DEF size
      <4>4. RemoveElement(c, key) = [c EXCEPT !.size = size, !.list = rest]
        BY <4>1 DEF RemoveElement, size
      <4>5. RemoveElement(c, key) = [list |-> rest, size |-> size, max |-> c.max,
                                     hits |-> c.hits, misses |-> c.misses, evictions |-> c.evictions]
        BY <4>4 DEF HasShape, Sound
      <4>6. Get(c, key, now) = [RemoveElement(c, key) EXCEPT !.misses = @ + 1]
        BY <1>4, <3>1 DEF Get
      <4>7. QED
        BY <4>3, <4>5, <4>6
    <3>2. CASE key \notin KeysOf(c.list)
      <4>1. rest = c.list
        BY <3>2 DEF Without
      <4> HIDE DEF rest
      <4>2. Get(c, key, now) = [c EXCEPT !.misses = c.misses + 1]
        BY <1>4, <3>2 DEF Get
      <4>3. QED
        BY <4>1, <4>2 DEF HasShape, Sound
    <3>3. QED
      BY <3>1, <3>2
  <2> HIDE DEF rest
  <2>2. Bytes(rest) <= c.max
    <3>1. CASE key \in KeysOf(c.list)
      <4>1. Lookup(c.list, key).size \in Nat
        BY <1>0, <1>2, <3>1, RemoveKeyKeys
      <4>2. QED
        BY <1>1, <1>2, <3>1, <4>1 DEF Sound
    <3>2. CASE key \notin KeysOf(c.list)
      BY <1>1, <1>2, <3>2 DEF Sound
    <3>3. QED
      BY <3>1, <3>2
  <2>3. Sound(Get(c, key, now))
    BY <1>1, <2>1, <2>2 DEF Sound, HasShape
  <2>4. QED
    BY <1>4, <2>1, <2>3 DEF rest
<1>5. QED
  BY <1>3, <1>4

\* The eviction loop keeps the longest front of the list that is within the budget,
\* and counts what it drops.
LEMMA EvictOverEffect ==
  ASSUME NEW S, \A x \in S : x.size \in Nat, NEW c, HasShape(c), c.list \in Seq(S),
         c.size = Bytes(c.list), c.max \in Nat
  PROVE  \E k \in 0 .. Len(c.list) :
           /\ EvictOver(c) = [list |-> SubSeq(c.list, 1, k), size |-> Bytes(SubSeq(c.list, 1, k)),
                              max |-> c.max, hits |-> c.hits, misses |-> c.misses,
                              evictions |-> c.evictions + (Len(c.list) - k)]
           /\ Bytes(SubSeq(c.list, 1, k)) <= c.max
           /\ k < Len(c.list) => Bytes(SubSeq(c.list, 1, k + 1)) > c.max
<1> DEFINE n == Len(c.list)
           stops == { m \in 0 .. n : m = n \/ EvictBack(c, m).size <= c.max }
           last == CHOOSE m \in stops : \A o \in stops : m <= o
<1>1. n \in Nat
  BY LenProperties
<1>2. ASSUME NEW m \in 0 .. n
      PROVE  EvictBack(c, m) = [list |-> SubSeq(c.list, 1, n - m),
                                size |-> Bytes(SubSeq(c.list, 1, n - m)),
                                max |-> c.max, hits |-> c.hits, misses |-> c.misses,
                                evictions |-> c.evictions + m]
  <2> DEFINE front == SubSeq(c.list, 1, n - m)
             back == SubSeq(c.list, n - m + 1, n)
  <2>1. EvictBack(c, m) = [c EXCEPT !.list = front, !.size = c.size - Bytes(back),
                                    !.evictions = c.evictions + m]
    BY DEF EvictBack
  <2>2. n - m \in 0 .. n
    BY <1>1
  <2>3. Bytes(c.list) = Bytes(front) + Bytes(back) /\ Bytes(front) \in Nat /\ Bytes(back) \in Nat
    BY <2>2, BytesCut
  <2> HIDE DEF front, back, n
  <2>4. c.size - Bytes(back) = Bytes(front)
    BY <2>3
  <2>5. QED
    BY <2>1, <2>4 DEF HasShape, front
<1>3. stops \subseteq Nat /\ n \in stops
  BY <1>1
<1>4. last \in stops /\ \A o \in stops : last <= o
  <2> HIDE DEF stops
  <2>1. \E m \in stops : \A o \in stops : m <= o
    BY <1>3, LeastNatural
  <2>2. QED
    BY <2>1
<1> DEFINE k == n - last
<1>5. EvictOver(c) = EvictBack(c, last)
  BY DEF EvictOver
<1> HIDE DEF last
<1>6. last \in 0 .. n /\ k \in 0 .. n /\ n - k = last
  BY <1>1, <1>4
<1>7. Bytes(SubSeq(c.list, 1, k)) <= c.max
  <2>1. CASE last = n
    <3>1. SubSeq(c.list, 1, k) = << >>
      BY <1>1, <2>1
    <3>2. Bytes(SubSeq(c.list, 1, k)) = 0
      BY <3>1, BytesOfFew
    <3>3. QED
      BY <3>2
  <2>2. CASE EvictBack(c, last).size <= c.max
    BY <1>2, <1>6, <2>2
  <2>3. QED
    BY <1>4, <2>1, <2>2
<1>8. ASSUME k < n PROVE Bytes(SubSeq(c.list, 1, k + 1)) > c.max
  <2>1. last - 1 \in 0 .. n /\ n - (last - 1) = k + 1 /\ last - 1 # n /\ ~(last <= last - 1)
    BY <1>1, <1>6, <1>8
  <2>2. ~(EvictBack(c, last - 1).size <= c.max)
    BY <1>4, <2>1
  <2>3. EvictBack(c, last - 1).size = Bytes(SubSeq(c.list, 1, k + 1))
    BY <1>2, <2>1
  <2>4. k + 1 \in 0 .. n
    BY <1>1, <1>6, <1>8
  <2>5. Bytes(SubSeq(c.list, 1, k + 1)) \in Nat
    BY <2>4, BytesCut
  <2>6. QED
    BY <2>2, <2>3, <2>5
<1>9. QED
  BY <1>2, <1>5, <1>6, <1>7, <1>8

\* Put makes the item the front and cuts the back off, no further than it must: the
\* item itself is never its own victim, because it fits.
LEMMA PutEffect ==
  ASSUME NEW c, Sound(c), NEW item \in Items, ~(item.size > c.max)
  PROVE  LET d == Fronted(c.list, item)
         IN  \E k \in 1 .. Len(d) :
               /\ Put(c, item) = [list |-> SubSeq(d, 1, k), size |-> Bytes(SubSeq(d, 1, k)),
                                  max |-> c.max, hits |-> c.hits, misses |-> c.misses,
                                  evictions |-> c.evictions + (Len(d) - k)]
               /\ Sound(Put(c, item))
               /\ k < Len(d) => Bytes(SubSeq(d, 1, k + 1)) > c.max
<1> DEFINE rest == Without(c.list, item.key)
           d == Fronted(c.list, item)
           n == Len(d)
           e == [list |-> d, size |-> Bytes(d), max |-> c.max,
                 hits |-> c.hits, misses |-> c.misses, evictions |-> c.evictions]
<1>0. c.list \in Seq(Items) /\ Distinct(c.list) /\ c.size = Bytes(c.list) /\ c.max = MaxSizeBytes
  BY DEF Sound
<1>1. MaxSizeBytes \in Nat /\ item.size \in Nat /\ \A x \in Items : x.size \in Nat
  BY ItemsAssumption
<1>2. /\ d \in Seq(Items) /\ Distinct(d) /\ n = Len(rest) + 1 /\ d[1] = item
      /\ Bytes(d) = item.size + Bytes(rest) /\ Bytes(d) \in Nat
  BY <1>0, FrontedList
<1>3. /\ rest \in Seq(Items) /\ Bytes(rest) \in Nat
      /\ Bytes(c.list) = Bytes(rest) +
           IF item.key \in KeysOf(c.list) THEN Lookup(c.list, item.key).size ELSE 0
  BY <1>0, WithoutKey
<1>4. n \in Nat /\ n >= 1
  BY <1>2, <1>3, LenProperties
<1>5. Put(c, item) = EvictOver(e)
  <2>1. CASE item.key \in KeysOf(c.list)
    <3> DEFINE size == c.size - Lookup(c.list, item.key).size + item.size
    <3>1. Lookup(c.list, item.key).size \in Nat
      BY <1>0, <1>1, <2>1, RemoveKeyKeys
    <3>2. d = <<item>> \o RemoveKey(c.list, item.key)
      BY <2>1 DEF Fronted, Without
    <3> HIDE DEF rest, d
    <3> DEFINE old == Lookup(c.list, item.key).size
    <3> HIDE DEF old
    <3>3. size = Bytes(d)
      <4>1. c.size = Bytes(rest) + old /\ old \in Nat
        BY <1>0, <1>3, <2>1, <3>1 DEF old
      <4>2. size = c.size - old + item.size
        BY DEF old
      <4> HIDE DEF size
      <4>3. QED
        BY <1>1, <1>2, <1>3, <4>1, <4>2
    <3> HIDE DEF size
    <3>4. Put(c, item) = EvictOver([c EXCEPT !.size = size, !.list = d])
      BY <2>1, <3>2 DEF Put, size
    <3> DEFINE u == [c EXCEPT !.size = size, !.list = d]
    <3>5. u = e
      <4> HIDE DEF u
      <4>1. u = [c EXCEPT !.size = size, !.list = d]
        BY DEF u
      <4>2. u = [list |-> d, size |-> size, max |-> c.max,
                 hits |-> c.hits, misses |-> c.misses, evictions |-> c.evictions]
        BY <4>1 DEF Sound, HasShape
      <4>3. QED
        BY <3>3, <4>2
    <3>6. QED
      BY <3>4, <3>5
  <2>2. CASE item.key \notin KeysOf(c.list)
    <3> DEFINE size == c.size + item.size
    <3>1. d = <<item>> \o c.list
      BY <2>2 DEF Fronted, Without
    <3> HIDE DEF rest, d
    <3>2. size = Bytes(d)
      BY <1>0, <1>1, <1>2, <1>3, <2>2
    <3> HIDE DEF size
    <3>3. Put(c, item) = EvictOver([c EXCEPT !.size = size, !.list = d])
      BY <2>2, <3>1 DEF Put, size
    <3> DEFINE u == [c EXCEPT !.size = size, !.list = d]
    <3>4. u = e
      <4> HIDE DEF u
      <4>1. u = [c EXCEPT !.size = size, !.list = d]
        BY DEF u
      <4>2. u = [list |-> d, size |-> size, max |-> c.max,
                 hits |-> c.hits, misses |-> c.misses, evictions |-> c.evictions]
        BY <4>1 DEF Sound, HasShape
      <4>3. QED
        BY <3>2, <4>2
    <3>5. QED
      BY <3>3, <3>4
  <2>3. QED
    BY <2>1, <2>2
<1> HIDE DEF rest, d, n
<1>6. /\ HasShape(e) /\ e.list = d /\ e.size = Bytes(d) /\ e.max = c.max
      /\ e.hits = c.hits /\ e.misses = c.misses /\ e.evictions = c.evictions
  BY DEF HasShape
<1> HIDE DEF e
<1>7. PICK k \in 0 .. n :
        /\ EvictOver(e) = [list |-> SubSeq(d, 1, k), size |-> Bytes(SubSeq(d, 1, k)),
                           max |-> c.max, hits |-> c.hits, misses |-> c.misses,
                           evictions |-> c.evictions + (n - k)]
        /\ Bytes(SubSeq(d, 1, k)) <= c.max
        /\ k < n => Bytes(SubSeq(d, 1, k + 1)) > c.max
  <2>1. e.list \in Seq(Items) /\ e.size = Bytes(e.list) /\ e.max \in Nat
    BY <1>0, <1>1, <1>2, <1>6
  <2>2. \E k \in 0 .. Len(e.list) :
           /\ EvictOver(e) = [list |-> SubSeq(e.list, 1, k), size |-> Bytes(SubSeq(e.list, 1, k)),
                              max |-> e.max, hits |-> e.hits, misses |-> e.misses,
                              evictions |-> e.evictions + (Len(e.list) - k)]
           /\ Bytes(SubSeq(e.list, 1, k)) <= e.max
           /\ k < Len(e.list) => Bytes(SubSeq(e.list, 1, k + 1)) > e.max
    BY <1>1, <1>6, <2>1, EvictOverEffect
  <2>3. QED
    BY <1>6, <2>2 DEF n
<1>8. k # 0
  <2>1. SubSeq(d, 1, 1) = <<item>>
    <3>1. 1 \in 1 .. Len(d) /\ 1 \in 1 .. Len(d)
      BY <1>4 DEF n
    <3>2. SubSeq(d, 1, 1) = <<d[1]>> \o SubSeq(d, 2, 1)
      BY <1>2, <3>1, SubSeqRecursiveFirst
    <3>3. SubSeq(d, 2, 1) = << >>
      BY <1>2, SubSeqEmpty
    <3>4. <<item>> \in Seq(Items)
      OBVIOUS
    <3>5. QED
      BY <1>2, <3>2, <3>3, <3>4, ConcatEmptySeq
  <2>2. Bytes(SubSeq(d, 1, 1)) = item.size
    BY <1>1, <2>1, BytesOfFew
  <2>3. ~(item.size > c.max)
    OBVIOUS
  <2>4. QED
    BY <1>4, <1>7, <2>2, <2>3
<1>9. k \in 1 .. n
  BY <1>4, <1>8
<1>10. SubSeq(d, 1, k) \in Seq(Items) /\ Distinct(SubSeq(d, 1, k))
  <2>1. SubSeq(d, 1, k) \in Seq(Items) /\ Within(SubSeq(d, 1, k), d)
    BY <1>2, <1>7, PrefixWithin DEF n
  <2>2. QED
    BY <1>2, <2>1, WithinDistinct
<1>11. Sound(Put(c, item))
  <2>1. c.evictions \in Nat /\ c.evictions + (n - k) \in Nat
    BY <1>4, <1>9 DEF Sound
  <2>2. QED
    BY <1>0, <1>5, <1>7, <1>10, <2>1 DEF Sound, HasShape
<1>12. QED
  BY <1>5, <1>7, <1>9, <1>11 DEF n, d

-----------------------------------------------------------------------------
\* The inductive invariant: ListConsistent, with the shape of the cache and the items
\* it can hold.
Inv == Sound(cache) /\ RecencyOrder

\* The empty cache is sound.
LEMMA EmptySound == Sound(NewLRUCache(MaxSizeBytes)) /\ NewLRUCache(MaxSizeBytes).list = << >>
<1> DEFINE c == NewLRUCache(MaxSizeBytes)
<1>1. c = [list |-> << >>, size |-> 0, max |-> MaxSizeBytes, hits |-> 0, misses |-> 0,
           evictions |-> 0]
  BY DEF NewLRUCache
<1> HIDE DEF c
<1>2. << >> \in Seq(Items) /\ Distinct(<< >>) /\ Bytes(<< >>) = 0 /\ MaxSizeBytes \in Nat
  BY EmptySeq, BytesOfFew, ItemsAssumption DEF Distinct
<1>3. HasShape(c)
  BY <1>1 DEF HasShape
<1>4. Sound(c) /\ c.list = << >>
  BY <1>1, <1>2, <1>3 DEF Sound
<1>5. QED
  BY <1>4 DEF c

\* A new cache satisfies the invariant.
LEMMA InitInv == Init => Inv
<1> SUFFICES ASSUME Init PROVE Inv
  OBVIOUS
<1>1. Sound(cache) /\ cache.list = << >>
  BY EmptySound DEF Init
<1>2. RecencyOrder
  BY <1>1 DEF RecencyOrder
<1>3. QED
  BY <1>1, <1>2 DEF Inv

\* What a step does to a sound cache, in one of four ways.
GetHitStep(key, now) ==
  /\ IsHit(cache, key, now)
  /\ Lookup(cache.list, key) \in Items /\ Lookup(cache.list, key).key = key
  /\ cache'.list = Fronted(cache.list, Lookup(cache.list, key))
  /\ cache'.evictions = cache.evictions /\ newer' = Used(key)
  /\ answer' = [key |-> key, now |-> now, item |-> Lookup(cache.list, key)]

GetMissStep(key, now) ==
  /\ ~IsHit(cache, key, now)
  /\ cache'.list = Without(cache.list, key)
  /\ cache'.evictions = cache.evictions /\ newer' = newer
  /\ answer' = [key |-> key, now |-> now, item |-> NoItem]

PutStep(item, k) ==
  LET d == Fronted(cache.list, item)
  IN  /\ item.size <= MaxSizeBytes
      /\ cache'.list = SubSeq(d, 1, k) /\ cache'.size = Bytes(SubSeq(d, 1, k))
      /\ cache'.evictions = cache.evictions + (Len(d) - k)
      /\ k < Len(d) => Bytes(SubSeq(d, 1, k + 1)) > MaxSizeBytes
      /\ newer' = Used(item.key) /\ answer' = answer

ClearStep ==
  cache'.list = << >> /\ cache'.evictions = 0 /\ newer' = newer /\ answer' = answer

\* There is no other way, and the cache stays sound.
LEMMA Steps ==
  ASSUME Sound(cache), [Next]_vars
  PROVE  /\ Sound(cache)'
         /\ \/ \E key \in Keys, now \in Instants : GetHitStep(key, now) \/ GetMissStep(key, now)
            \/ \E item \in Items : \E k \in 1 .. Len(Fronted(cache.list, item)) : PutStep(item, k)
            \/ ClearStep
            \/ cache' = cache /\ newer' = newer /\ answer' = answer
<1>1. ASSUME NEW key \in Keys, NEW now \in Instants, DoGet(key, now)
      PROVE  Sound(cache)' /\ (GetHitStep(key, now) \/ GetMissStep(key, now))
  <2>1. /\ Sound(Get(cache, key, now)) /\ Get(cache, key, now).evictions = cache.evictions
        /\ IsHit(cache, key, now) =>
             /\ Lookup(cache.list, key) \in Items /\ Lookup(cache.list, key).key = key
             /\ Get(cache, key, now).list = Fronted(cache.list, Lookup(cache.list, key))
        /\ ~IsHit(cache, key, now) => Get(cache, key, now).list = Without(cache.list, key)
    BY GetEffect
  <2>2. cache' = Get(cache, key, now)
    BY <1>1 DEF DoGet
  <2>3. Sound(cache)'
    BY <2>1, <2>2 DEF Sound
  <2>4. QED
    BY <1>1, <2>1, <2>2, <2>3 DEF DoGet, GetHitStep, GetMissStep
<1>2. ASSUME NEW item \in Items, DoPut(item)
      PROVE  /\ Sound(cache)'
             /\ \/ \E k \in 1 .. Len(Fronted(cache.list, item)) : PutStep(item, k)
                \/ cache' = cache /\ newer' = newer /\ answer' = answer
  <2>1. CASE item.size > cache.max
    <3>1. cache' = cache /\ newer' = newer /\ answer' = answer
      BY <1>2, <2>1 DEF DoPut, Put
    <3>2. QED
      BY <3>1 DEF Sound
  <2>2. CASE ~(item.size > cache.max)
    <3> DEFINE d == Fronted(cache.list, item)
    <3>1. PICK k \in 1 .. Len(d) :
            /\ Put(cache, item) = [list |-> SubSeq(d, 1, k), size |-> Bytes(SubSeq(d, 1, k)),
                                   max |-> cache.max, hits |-> cache.hits, misses |-> cache.misses,
                                   evictions |-> cache.evictions + (Len(d) - k)]
            /\ Sound(Put(cache, item))
            /\ k < Len(d) => Bytes(SubSeq(d, 1, k + 1)) > cache.max
      BY <2>2, PutEffect
    <3>2. cache' = Put(cache, item) /\ answer' = answer /\ newer' = Used(item.key)
      BY <1>2, <2>2 DEF DoPut
    <3>3. Sound(cache)'
      BY <3>1, <3>2 DEF Sound
    <3>4. item.size <= MaxSizeBytes /\ cache.max = MaxSizeBytes
      BY <2>2, ItemsAssumption DEF Sound
    <3> HIDE DEF d
    <3>5. PutStep(item, k)
      BY <3>1, <3>2, <3>4 DEF PutStep, d
    <3>6. QED
      BY <3>3, <3>5 DEF d
  <2>3. QED
    BY <2>1, <2>2
<1>3. ASSUME DoClear PROVE Sound(cache)' /\ ClearStep
  <2>1. cache' = NewLRUCache(MaxSizeBytes) /\ newer' = newer /\ answer' = answer
    BY <1>3 DEF DoClear, Clear, Sound
  <2>2. Sound(cache)'
    BY <2>1, EmptySound DEF Sound
  <2>3. cache'.list = << >> /\ cache'.evictions = 0
    BY <2>1 DEF NewLRUCache
  <2>4. QED
    BY <2>1, <2>2, <2>3 DEF ClearStep
<1>4. CASE UNCHANGED vars
  BY <1>4 DEF vars, Sound
<1>5. QED
  BY <1>1, <1>2, <1>3, <1>4 DEF Next

\* Every step keeps the list in the order of last use.
LEMMA StepInv == Inv /\ [Next]_vars => Inv'
<1> SUFFICES ASSUME Inv, [Next]_vars PROVE RecencyOrder'
  BY Steps DEF Inv
<1>1. Sound(cache) /\ cache.list \in Seq(Items) /\ Distinct(cache.list) /\ Ordered(cache.list, newer)
  BY DEF Inv, Sound, RecencyOrder, Ordered
<1>2. SUFFICES Ordered(cache'.list, newer')
  BY DEF RecencyOrder, Ordered
<1>3. CASE \E key \in Keys, now \in Instants : GetHitStep(key, now)
  BY <1>1, <1>3, FrontedOrdered DEF GetHitStep
<1>4. CASE \E key \in Keys, now \in Instants : GetMissStep(key, now)
  <2>1. PICK key \in Keys : cache'.list = Without(cache.list, key) /\ newer' = newer
    BY <1>4 DEF GetMissStep
  <2>2. Within(Without(cache.list, key), cache.list)
    BY <1>1, WithoutKey
  <2>3. QED
    BY <1>1, <2>1, <2>2, WithinOrdered
<1>5. CASE \E item \in Items : \E k \in 1 .. Len(Fronted(cache.list, item)) : PutStep(item, k)
  <2>0. PICK item \in Items : \E k \in 1 .. Len(Fronted(cache.list, item)) : PutStep(item, k)
    BY <1>5
  <2>1. PICK k \in 1 .. Len(Fronted(cache.list, item)) : PutStep(item, k)
    BY <2>0
  <2> DEFINE d == Fronted(cache.list, item)
  <2>2. d \in Seq(Items) /\ Ordered(d, Used(item.key))
    BY <1>1, FrontedList, FrontedOrdered
  <2>3. k \in 0 .. Len(d)
    BY <2>2, LenProperties
  <2> HIDE DEF d
  <2>4. Within(SubSeq(d, 1, k), d)
    BY <2>2, <2>3, PrefixWithin
  <2>5. cache'.list = SubSeq(d, 1, k) /\ newer' = Used(item.key)
    BY <2>1 DEF PutStep, d
  <2>6. QED
    BY <2>2, <2>4, <2>5, WithinOrdered
<1>6. CASE ClearStep
  BY <1>6 DEF ClearStep, Ordered
<1>7. CASE cache' = cache /\ newer' = newer
  BY <1>1, <1>7
<1>8. QED
  BY <1>1, <1>3, <1>4, <1>5, <1>6, <1>7, Steps

\* For any keys, items, instants and budget: after any sequence of calls evictList,
\* the key index and currentSize agree, in the order of last use and within the
\* budget (lru.go:39-112).
THEOREM ListStaysConsistent == Spec => []ListConsistent
<1>1. Inv => ListConsistent
  BY DEF Inv, Sound, Distinct, ListConsistent, ByteAccounting, WithinBudget
<1>2. QED
  BY <1>1, InitInv, StepInv, PTL DEF Spec

-----------------------------------------------------------------------------
\* One more item of the list adds its size.
LEMMA BytesNext ==
  ASSUME NEW list \in Seq(Items), NEW k \in 0 .. Len(list) - 1
  PROVE  Bytes(SubSeq(list, 1, k + 1)) = Bytes(SubSeq(list, 1, k)) + list[k + 1].size
<1>1. Len(list) \in Nat /\ \A i \in 1 .. Len(list) : list[i] \in Items
  BY ListItems
<1>2. \A x \in Items : x.size \in Nat
  BY ItemsAssumption
<1>3. k \in 0 .. Len(list) /\ k + 1 \in 1 .. Len(list) /\ 1 \in 1 .. Len(list) /\ (k + 1) - 1 = k
  BY <1>1
<1>4. SubSeq(list, 1, k + 1) = SubSeq(list, 1, k) \o <<list[k + 1]>>
  BY <1>3, SubSeqRecursiveSecond
<1>5. SubSeq(list, 1, k) \in Seq(Items)
  BY <1>3, PrefixWithin
<1>6. list[k + 1] \in Items /\ list[k + 1].size \in Nat
  BY <1>1, <1>2, <1>3
<1>7. <<list[k + 1]>> \in Seq(Items) /\ Bytes(<<list[k + 1]>>) = list[k + 1].size
  BY <1>6, BytesOfFew
<1>8. QED
  BY <1>2, <1>4, <1>5, <1>7, BytesConcat

\* The keys of the items that a cut leaves and of those it drops.
LEMMA CutKeys ==
  ASSUME NEW list \in Seq(Items), Distinct(list), NEW k \in 1 .. Len(list)
  PROVE  LET s == SubSeq(list, 1, k)
         IN  /\ KeysOf(s) = { list[i].key : i \in 1 .. k }
             /\ KeysOf(list) \ KeysOf(s) = { list[i].key : i \in (k + 1) .. Len(list) }
             /\ KeysOf(Tail(s)) = { list[i].key : i \in 2 .. k }
<1> DEFINE s == SubSeq(list, 1, k)
           n == Len(list)
<1>1. n \in Nat /\ DOMAIN list = 1 .. n
  BY ListItems
<1>2. k \in 0 .. n
  BY <1>1
<1>3. s \in Seq(Items) /\ DOMAIN s = 1 .. k /\ \A j \in 1 .. k : s[j] = list[j]
  BY <1>2, PrefixWithin
<1>4. Len(s) = k
  BY <1>1, <1>3, LenProperties
<1> HIDE DEF s, n
<1>5. KeysOf(s) = { list[i].key : i \in 1 .. k }
  BY <1>3 DEF KeysOf
<1>6. KeysOf(list) \ KeysOf(s) = { list[i].key : i \in (k + 1) .. n }
  <2>1. KeysOf(list) = { list[i].key : i \in 1 .. n }
    BY <1>1 DEF KeysOf
  <2>2. ASSUME NEW i \in 1 .. n PROVE list[i].key \in KeysOf(s) <=> i \in 1 .. k
    BY <1>1, <1>2, <1>5 DEF Distinct
  <2>3. \A i \in 1 .. n : i \in 1 .. k \/ i \in (k + 1) .. n
    BY <1>1, <1>2
  <2>4. \A i \in (k + 1) .. n : i \in 1 .. n /\ i \notin 1 .. k
    BY <1>1, <1>2
  <2>5. KeysOf(list) \ KeysOf(s) \subseteq { list[i].key : i \in (k + 1) .. n }
    BY <2>1, <2>2, <2>3
  <2>6. { list[i].key : i \in (k + 1) .. n } \subseteq KeysOf(list) \ KeysOf(s)
    BY <2>1, <2>2, <2>4
  <2>7. QED
    BY <2>5, <2>6
<1>7. KeysOf(Tail(s)) = { list[i].key : i \in 2 .. k }
  <2>1. s # << >>
    BY <1>1, <1>4
  <2>2. Tail(s) \in Seq(Items) /\ Len(Tail(s)) = k - 1 /\ \A i \in 1 .. k - 1 : Tail(s)[i] = s[i + 1]
    BY <1>3, <1>4, <2>1, HeadTailProperties
  <2>3. DOMAIN Tail(s) = 1 .. k - 1
    BY <2>2, LenProperties
  <2>4. \A i \in 1 .. k - 1 : i + 1 \in 2 .. k /\ Tail(s)[i] = list[i + 1]
    BY <1>1, <1>3, <2>2
  <2>5. \A i \in 2 .. k : i - 1 \in 1 .. k - 1 /\ Tail(s)[i - 1] = list[i]
    <3>1. \A i \in 2 .. k : i - 1 \in 1 .. k - 1 /\ (i - 1) + 1 = i
      BY <1>1
    <3>2. QED
      BY <2>4, <3>1
  <2>6. KeysOf(Tail(s)) = { Tail(s)[i].key : i \in 1 .. k - 1 }
    BY <2>3 DEF KeysOf
  <2>7. KeysOf(Tail(s)) \subseteq { list[i].key : i \in 2 .. k }
    BY <2>4, <2>6
  <2>8. { list[i].key : i \in 2 .. k } \subseteq KeysOf(Tail(s))
    BY <2>5, <2>6
  <2>9. QED
    BY <2>7, <2>8
<1>8. QED
  BY <1>5, <1>6, <1>7 DEF s, n

\* A step that counts an eviction is a Put that cut the list.
LEMMA StepEvicts == Inv /\ [Next]_vars => EvictionStep
<1> SUFFICES ASSUME Inv, [Next]_vars, cache'.evictions > cache.evictions
             PROVE  /\ \A victim \in Victims, kept \in KeysOf(Tail(cache'.list)) :
                          <<kept, victim>> \in newer
                    /\ \E victim \in Victims :
                          /\ \A other \in Victims \ {victim} : <<victim, other>> \in newer
                          /\ cache'.size + Lookup(cache.list, victim).size > MaxSizeBytes
  BY DEF EvictionStep
<1>1. /\ Sound(cache) /\ cache.list \in Seq(Items) /\ Distinct(cache.list)
      /\ Ordered(cache.list, newer) /\ cache.evictions \in Nat
  BY DEF Inv, Sound, RecencyOrder, Ordered
<1>2. \E item \in Items : \E k \in 1 .. Len(Fronted(cache.list, item)) : PutStep(item, k)
  BY <1>1, Steps DEF GetHitStep, GetMissStep, ClearStep
<1>3. PICK item \in Items : \E k \in 1 .. Len(Fronted(cache.list, item)) : PutStep(item, k)
  BY <1>2
<1> DEFINE d == Fronted(cache.list, item)
           rest == Without(cache.list, item.key)
           n == Len(d)
<1>4. PICK k \in 1 .. n : PutStep(item, k)
  BY <1>3
<1>5. /\ d \in Seq(Items) /\ Distinct(d) /\ n = Len(rest) + 1 /\ d[1] = item
      /\ \A j \in 1 .. Len(rest) : d[j + 1] = rest[j]
      /\ KeysOf(d) = KeysOf(cache.list) \cup {item.key}
  BY <1>1, FrontedList
<1>6. /\ rest \in Seq(Items) /\ Within(rest, cache.list) /\ Distinct(rest)
      /\ \A key \in KeysOf(rest) : Lookup(rest, key) = Lookup(cache.list, key)
  BY <1>1, WithoutKey
<1>7. Ordered(rest, newer)
  BY <1>1, <1>6, WithinOrdered
<1>8. Len(rest) \in Nat /\ DOMAIN rest = 1 .. Len(rest) /\ n \in Nat /\ DOMAIN d = 1 .. n
  BY <1>5, <1>6, LenProperties
<1>9. /\ cache'.list = SubSeq(d, 1, k) /\ cache'.size = Bytes(SubSeq(d, 1, k))
      /\ cache'.evictions = cache.evictions + (n - k)
      /\ k < n => Bytes(SubSeq(d, 1, k + 1)) > MaxSizeBytes
  BY <1>4 DEF PutStep
<1> HIDE DEF d, rest, n
<1>10. k < n
  BY <1>1, <1>8, <1>9
<1>11. ASSUME NEW j \in 2 .. n PROVE j - 1 \in 1 .. Len(rest) /\ d[j] = rest[j - 1]
  <2>1. j - 1 \in 1 .. Len(rest) /\ (j - 1) + 1 = j
    BY <1>5, <1>8
  <2>2. QED
    BY <1>5, <2>1
<1>12. ASSUME NEW i \in 2 .. n, NEW j \in 2 .. n, i < j
       PROVE  <<d[i].key, d[j].key>> \in newer
  <2>1. i - 1 \in 1 .. Len(rest) /\ j - 1 \in 1 .. Len(rest) /\ i - 1 < j - 1
    BY <1>8, <1>11, <1>12
  <2>2. QED
    BY <1>7, <1>8, <1>11, <2>1 DEF Ordered
<1>13. /\ KeysOf(SubSeq(d, 1, k)) = { d[i].key : i \in 1 .. k }
       /\ KeysOf(d) \ KeysOf(SubSeq(d, 1, k)) = { d[i].key : i \in (k + 1) .. n }
       /\ KeysOf(Tail(SubSeq(d, 1, k))) = { d[i].key : i \in 2 .. k }
  BY <1>5, CutKeys DEF n
<1>14. Victims = { d[i].key : i \in (k + 1) .. n }
  <2>1. item.key \in KeysOf(SubSeq(d, 1, k))
    BY <1>5, <1>8, <1>13
  <2>2. KeysOf(d) \ KeysOf(SubSeq(d, 1, k)) = KeysOf(cache.list) \ KeysOf(SubSeq(d, 1, k))
    BY <1>5, <2>1
  <2>3. QED
    BY <1>9, <1>13, <2>2 DEF Victims
<1>15. ASSUME NEW victim \in Victims, NEW kept \in KeysOf(Tail(cache'.list))
       PROVE  <<kept, victim>> \in newer
  <2>1. PICK j \in (k + 1) .. n : victim = d[j].key
    BY <1>14
  <2>2. PICK i \in 2 .. k : kept = d[i].key
    BY <1>9, <1>13
  <2>3. i \in 2 .. n /\ j \in 2 .. n /\ i < j
    BY <1>8
  <2>4. QED
    BY <1>12, <2>1, <2>2, <2>3
<1> DEFINE first == d[k + 1].key
<1>16. k + 1 \in (k + 1) .. n /\ k + 1 \in 2 .. n /\ k + 1 \in 1 .. n /\ k \in 0 .. n - 1
  BY <1>8, <1>10
<1>17. first \in Victims
  BY <1>14, <1>16
<1>18. ASSUME NEW other \in Victims \ {first} PROVE <<first, other>> \in newer
  <2>1. PICK j \in (k + 1) .. n : other = d[j].key
    BY <1>14
  <2>2. j # k + 1
    BY <1>18, <2>1
  <2>3. j \in 2 .. n /\ k + 1 < j
    BY <1>8, <2>2
  <2>4. QED
    BY <1>12, <1>16, <2>1, <2>3
<1>19. cache'.size + Lookup(cache.list, first).size > MaxSizeBytes
  <2>1. d[k + 1] = rest[k] /\ k \in 1 .. Len(rest)
    BY <1>8, <1>11, <1>16
  <2>2. first \in KeysOf(rest) /\ Lookup(rest, first) = rest[k]
    BY <1>6, <1>8, <2>1, LookupFinds DEF KeysOf
  <2>3. Lookup(cache.list, first) = d[k + 1]
    BY <1>6, <2>1, <2>2
  <2>4. Bytes(SubSeq(d, 1, k + 1)) = Bytes(SubSeq(d, 1, k)) + d[k + 1].size
    BY <1>5, <1>16, BytesNext DEF n
  <2>5. QED
    BY <1>9, <1>10, <2>3, <2>4
<1>20. QED
  BY <1>15, <1>17, <1>18, <1>19

\* For any keys, items, instants and budget: a call that evicts takes the least
\* recently used items, and stops as soon as the cache is within its budget
\* (lru.go:77-84).
THEOREM EvictionIsLRU == Spec => EvictsOnlyOldest
<1>1. Inv /\ [Next]_vars => [EvictionStep]_vars
  BY StepEvicts
<1>2. QED
  BY <1>1, InitInv, StepInv, PTL DEF Spec, EvictsOnlyOldest

-----------------------------------------------------------------------------
\* What the changes of the list are to the map of the interface: an item put, ...
LEMMA ContentsFronted ==
  ASSUME NEW list \in Seq(Items), Distinct(list), NEW item \in Items
  PROVE  Contents(Fronted(list, item)) = [Contents(list) EXCEPT ![item.key] = item]
<1> DEFINE d == Fronted(list, item)
           rest == Without(list, item.key)
<1>1. /\ d \in Seq(Items) /\ Distinct(d) /\ Len(d) = Len(rest) + 1 /\ d[1] = item
      /\ \A j \in 1 .. Len(rest) : d[j + 1] = rest[j]
      /\ KeysOf(d) = KeysOf(list) \cup {item.key}
  BY FrontedList
<1>2. /\ rest \in Seq(Items) /\ Distinct(rest) /\ KeysOf(rest) = KeysOf(list) \ {item.key}
      /\ \A k \in KeysOf(rest) : Lookup(rest, k) = Lookup(list, k)
  BY WithoutKey
<1>3. Len(rest) \in Nat /\ DOMAIN rest = 1 .. Len(rest) /\ DOMAIN d = 1 .. Len(rest) + 1
  BY <1>1, <1>2, LenProperties
<1>4. item.key \in Keys
  BY ItemsAssumption
<1> HIDE DEF d, rest
<1>5. Lookup(d, item.key) = item
  <2>1. 1 \in DOMAIN d
    BY <1>3
  <2>2. QED
    BY <1>1, <2>1, LookupFinds
<1>6. ASSUME NEW k \in KeysOf(list), k # item.key PROVE Lookup(d, k) = Lookup(list, k)
  <2>1. k \in KeysOf(rest)
    BY <1>2, <1>6
  <2>2. PICK j \in 1 .. Len(rest) : rest[j].key = k
    BY <1>3, <2>1 DEF KeysOf
  <2>3. j + 1 \in DOMAIN d /\ d[j + 1] = rest[j]
    BY <1>1, <1>3
  <2>4. Lookup(rest, k) = rest[j]
    BY <1>2, <1>3, <2>2, LookupFinds
  <2>5. Lookup(d, k) = d[j + 1]
    BY <1>1, <2>2, <2>3, LookupFinds
  <2>6. QED
    BY <1>2, <2>1, <2>3, <2>4, <2>5
<1>7. ASSUME NEW k \in Keys
      PROVE  Contents(d)[k] = IF k = item.key THEN item ELSE Contents(list)[k]
  BY <1>1, <1>5, <1>6 DEF Contents
<1>8. QED
  BY <1>4, <1>7 DEF Contents, d

\* ... an item taken out, ...
LEMMA ContentsWithout ==
  ASSUME NEW list \in Seq(Items), Distinct(list), NEW key \in Keys
  PROVE  Contents(Without(list, key)) = [Contents(list) EXCEPT ![key] = NoItem]
<1> DEFINE rest == Without(list, key)
<1>1. /\ KeysOf(rest) = KeysOf(list) \ {key}
      /\ \A k \in KeysOf(rest) : Lookup(rest, k) = Lookup(list, k)
  BY WithoutKey
<1> HIDE DEF rest
<1>2. \A k \in Keys : Contents(rest)[k] = IF k = key THEN NoItem ELSE Contents(list)[k]
  BY <1>1 DEF Contents
<1>3. QED
  BY <1>2 DEF Contents, rest

\* ... and the items behind a cut dropped.
LEMMA ContentsCut ==
  ASSUME NEW list \in Seq(Items), Distinct(list), NEW k \in 0 .. Len(list)
  PROVE  LET s == SubSeq(list, 1, k)
         IN  Contents(s) = [key \in Keys |-> IF key \in KeysOf(list) \ KeysOf(s) THEN NoItem
                                             ELSE Contents(list)[key]]
<1> DEFINE s == SubSeq(list, 1, k)
<1>1. s \in Seq(Items) /\ Within(s, list)
  BY PrefixWithin
<1>2. Distinct(s)
  BY <1>1, WithinDistinct
<1>3. \A key \in KeysOf(s) : key \in KeysOf(list) /\ Lookup(s, key) = Lookup(list, key)
  BY <1>1, <1>2, WithinLookup
<1> HIDE DEF s
<1>4. QED
  BY <1>3 DEF Contents, s

\* The items of the map are those of the list.
LEMMA ContentsHeld ==
  ASSUME NEW list \in Seq(Items)
  PROVE  /\ \A k \in Keys : k \in KeysOf(list) =>
               Contents(list)[k] = Lookup(list, k) /\ Lookup(list, k) \in Items
         /\ \A k \in Keys : Contents(list)[k] = NoItem <=> k \notin KeysOf(list)
         /\ Contract!Held(Contents(list)) = KeysOf(list)
<1>1. \A k \in Keys : k \in KeysOf(list) =>
         Contents(list)[k] = Lookup(list, k) /\ Lookup(list, k) \in Items
  BY RemoveKeyKeys DEF Contents
<1>2. \A k \in Keys : Contents(list)[k] = NoItem <=> k \notin KeysOf(list)
  BY <1>1, NoItemAssumption DEF Contents
<1>3. KeysOf(list) \subseteq Keys
  BY ListItems
<1>4. QED
  BY <1>1, <1>2, <1>3 DEF Contract!Held

\* Every step of the cache is one that the interface allows.
LEMMA StepContract == Inv /\ [Next]_vars => [Contract!Next]_(Contract!vars)
<1> DEFINE list == cache.list
<1> SUFFICES ASSUME Inv, [Next]_vars PROVE Contract!Next \/ UNCHANGED Contract!vars
  OBVIOUS
<1>1. Sound(cache) /\ list \in Seq(Items) /\ Distinct(list)
  BY DEF Inv, Sound
<1>2. ASSUME NEW key \in Keys, NEW now \in Instants, GetHitStep(key, now)
      PROVE  Contract!GetHit(key, now)
  <2> DEFINE item == Lookup(list, key)
  <2>1. /\ key \in KeysOf(list) /\ ~Expired(item, now) /\ item \in Items /\ item.key = key
        /\ cache'.list = Fronted(list, item)
        /\ answer' = [key |-> key, now |-> now, item |-> item]
    BY <1>2 DEF GetHitStep, IsHit
  <2>2. Contents(list)[key] = item /\ item # NoItem
    BY <1>1, <2>1, ContentsHeld, NoItemAssumption
  <2>3. Contract!Live(item, now)
    <3>1. item.expiry \in Nat /\ now \in Nat
      BY <2>1, ItemsAssumption, InstantsAssumption
    <3>2. QED
      BY <2>1, <3>1 DEF Contract!Live, Expired, NoExpiry
  <2> HIDE DEF item
  <2>4. Contents(cache'.list) = [Contents(list) EXCEPT ![key] = item]
    BY <1>1, <2>1, ContentsFronted
  <2>5. Contents(cache'.list) = Contents(list)
    BY <2>2, <2>4 DEF Contents
  <2>6. QED
    BY <2>1, <2>2, <2>3, <2>5 DEF Contract!GetHit, Contents
<1>3. ASSUME NEW key \in Keys, NEW now \in Instants, GetMissStep(key, now)
      PROVE  Contract!GetMiss(key, now)
  <2>1. /\ key \in KeysOf(list) => Expired(Lookup(list, key), now)
        /\ cache'.list = Without(list, key)
        /\ answer' = [key |-> key, now |-> now, item |-> NoItem]
    BY <1>3 DEF GetMissStep, IsHit
  <2>2. Contents(list)[key] = NoItem \/ ~Contract!Live(Contents(list)[key], now)
    <3>1. CASE key \in KeysOf(list)
      <4>1. Contents(list)[key] = Lookup(list, key) /\ Lookup(list, key) \in Items
        BY <1>1, <3>1, ContentsHeld
      <4>2. Lookup(list, key).expiry \in Nat /\ now \in Nat
        BY <4>1, ItemsAssumption, InstantsAssumption
      <4>3. QED
        BY <2>1, <3>1, <4>1, <4>2 DEF Contract!Live, Expired, NoExpiry
    <3>2. CASE key \notin KeysOf(list)
      BY <3>2 DEF Contents
    <3>3. QED
      BY <3>1, <3>2
  <2>3. Contents(cache'.list) = [Contents(list) EXCEPT ![key] = NoItem]
    BY <1>1, <2>1, ContentsWithout
  <2>4. QED
    BY <2>1, <2>2, <2>3 DEF Contract!GetMiss, Contents
<1>4. ASSUME NEW item \in Items, NEW k \in 1 .. Len(Fronted(list, item)), PutStep(item, k)
      PROVE  Contract!Put(item)
  <2> DEFINE d == Fronted(list, item)
             s == SubSeq(d, 1, k)
             evicted == KeysOf(d) \ KeysOf(s)
             inserted == [Contents(list) EXCEPT ![item.key] = item]
  <2>1. /\ item.size <= MaxSizeBytes /\ answer' = answer
        /\ cache'.list = s /\ (k < Len(d) => Bytes(SubSeq(d, 1, k + 1)) > MaxSizeBytes)
    BY <1>4 DEF PutStep
  <2>2. d \in Seq(Items) /\ Distinct(d) /\ d[1] = item /\ Bytes(d) \in Nat
    BY <1>1, FrontedList
  <2>3. Contents(d) = inserted
    BY <1>1, ContentsFronted
  <2>4. Len(d) \in Nat /\ k \in 0 .. Len(d) /\ k \in 1 .. Len(d)
    BY <1>4, <2>2, LenProperties
  <2> HIDE DEF d, s, inserted
  <2>5. Contents(s) = [key \in Keys |-> IF key \in evicted THEN NoItem ELSE inserted[key]]
    BY <2>2, <2>3, <2>4, ContentsCut DEF s
  <2>6. /\ KeysOf(s) = { d[i].key : i \in 1 .. k }
        /\ evicted = { d[i].key : i \in (k + 1) .. Len(d) }
    BY <2>2, <2>4, CutKeys DEF s
  <2>7. evicted \in SUBSET (Contract!Held(inserted) \ {item.key})
    <3>1. Contract!Held(inserted) = KeysOf(d)
      BY <2>2, <2>3, ContentsHeld
    <3>2. item.key \in KeysOf(s)
      BY <2>2, <2>4, <2>6
    <3>3. QED
      BY <3>1, <3>2
  <2>8. ASSUME evicted # {} PROVE Contract!BytesHeld(inserted) > MaxSizeBytes
    <3>1. k < Len(d) /\ k + 1 \in 0 .. Len(d)
      BY <2>4, <2>6, <2>8
    <3>2. Contract!BytesHeld(inserted) = Bytes(d)
      BY <2>2, <2>3, BytesByKey
    <3>3. \A x \in Items : x.size \in Nat
      BY ItemsAssumption
    <3> DEFINE tail == SubSeq(d, (k + 1) + 1, Len(d))
    <3>4. /\ Bytes(d) = Bytes(SubSeq(d, 1, k + 1)) + Bytes(tail)
          /\ Bytes(SubSeq(d, 1, k + 1)) \in Nat /\ Bytes(tail) \in Nat
      BY <2>2, <3>1, <3>3, BytesCut
    <3>5. MaxSizeBytes \in Nat
      BY ItemsAssumption
    <3> HIDE DEF tail
    <3>6. QED
      BY <2>1, <3>1, <3>2, <3>4, <3>5
  <2> HIDE DEF evicted
  <2>9. Contents(cache'.list) = [key \in Keys |-> IF key \in evicted THEN NoItem ELSE inserted[key]]
    BY <2>1, <2>5
  <2>10. QED
    BY <2>1, <2>7, <2>8, <2>9 DEF Contract!Put, Contents, inserted
<1>5. ASSUME ClearStep PROVE Contract!Clear
  <2>1. KeysOf(<< >>) = {}
    BY DEF KeysOf
  <2>2. QED
    BY <1>5, <2>1 DEF ClearStep, Contract!Clear
<1>6. ASSUME cache' = cache, answer' = answer PROVE UNCHANGED Contract!vars
  BY <1>6 DEF Contract!vars
<1>7. QED
  BY <1>1, <1>2, <1>3, <1>4, <1>5, <1>6, Steps DEF Contract!Next

\* For any keys, items, instants and budget the LRU cache implements the promise of
\* the interface cache.Cache: a hit returns the item of the last accepted Put of its
\* key, not expired, and nothing is dropped unless all of it would not fit
\* (cache.go:15-29, lru.go:39-112).
THEOREM LRUImplementsContract == Spec => ImplementsContract
<1>1. Init => Contract!Init
  <2>1. Init => cache.list = << >>
    BY EmptySound DEF Init
  <2>2. KeysOf(<< >>) = {}
    BY DEF KeysOf
  <2>3. QED
    BY <2>1, <2>2 DEF Init, Contract!Init
<1>2. QED
  BY <1>1, InitInv, StepInv, StepContract, PTL DEF Spec, ImplementsContract, Contract!Spec
====
