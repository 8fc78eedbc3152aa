-------------------------- MODULE CacheItemsProofs --------------------------
(***************************************************************************)
(* The caches and sums the other proofs rest on: what the operations on    *)
(* the lists of a cache do to their items, keys and bytes, for every list, *)
(* what the operations of the LRU cache and of the ARC cache do, and sums  *)
(* and sorted lists of numbers.                                            *)
(*                                                                         *)
(* The bytes of a list are a recursive function.  What it computes is      *)
(* shown by induction on the naturals (SetInduction), through the function *)
(* of its partial sums.                                                    *)
(*                                                                         *)
(* Every call of the ARC cache is put together from three changes to its   *)
(* lists: an entry is unlinked, an item is pushed to the front of a list,  *)
(* a key is forgotten.  Between two of them the directory is wrong about   *)
(* one key, and ARCSound says about which.  What replace does is shown by  *)
(* induction on the rounds of its loop.                                    *)
(***************************************************************************)
EXTENDS Caches, Numbers, SequenceTheorems, FiniteSetTheorems, WellFoundedInduction, TLAPS

\* A set that has 0 and the successor of each of its naturals has all naturals: the
\* induction over lists and sets below, with the property written as a set.
LEMMA SetInduction ==
  ASSUME NEW T, 0 \in T, \A n \in Nat : n \in T => n + 1 \in T
  PROVE  Nat \subseteq T
<1> SUFFICES ASSUME Nat \ T # {} PROVE FALSE
  OBVIOUS
<1>1. PICK n \in Nat \ T : \A m \in Nat \ T : <<m, n>> \notin OpToRel(<, Nat)
  BY NatLessThanWellFounded, WFMin
<1>2. n # 0 /\ n - 1 \in Nat /\ n - 1 < n
  OBVIOUS
<1>3. n - 1 \in T
  BY <1>1, <1>2 DEF OpToRel
<1>4. QED
  BY <1>2, <1>3

\* A set of naturals that is not empty has a least element.
LEMMA LeastNatural ==
  ASSUME NEW T, T \subseteq Nat, T # {}
  PROVE  \E n \in T : \A m \in T : n <= m
<1>1. PICK n \in T : \A m \in T : <<m, n>> \notin OpToRel(<, Nat)
  BY NatLessThanWellFounded, WFMin
<1>2. ASSUME NEW m \in T PROVE n <= m
  <2>1. n \in Nat /\ m \in Nat
    OBVIOUS
  <2>2. ~(m < n)
    BY <1>1, <2>1 DEF OpToRel
  <2>3. QED
    BY <2>1, <2>2
<1>3. QED
  BY <1>2

-----------------------------------------------------------------------------
\* f sums up the items of s from the front.
Sums(f, s) ==
  /\ f \in [0 .. Len(s) -> Nat] /\ f[0] = 0
  /\ \A n \in 1 .. Len(s) : f[n] = f[n - 1] + s[n].size

\* The sums of a list exist.
LEMMA SumsExist ==
  ASSUME NEW S, \A x \in S : x.size \in Nat, NEW s \in Seq(S)
  PROVE  \E f : Sums(f, s)
<1> DEFINE UpTo(n, f) == /\ f \in [0 .. n -> Nat] /\ f[0] = 0
                         /\ \A k \in 1 .. n : f[k] = f[k - 1] + s[k].size
           T == { n \in Nat : n <= Len(s) => \E f : UpTo(n, f) }
<1>1. Len(s) \in Nat /\ \A k \in 1 .. Len(s) : s[k].size \in Nat
  BY LenProperties, ElementOfSeq
<1>2. 0 \in T
  <2>1. UpTo(0, [k \in 0 .. 0 |-> 0])
    OBVIOUS
  <2>2. QED
    BY <2>1
<1>3. ASSUME NEW n \in Nat, n \in T PROVE n + 1 \in T
  <2> SUFFICES ASSUME n + 1 <= Len(s) PROVE \E f : UpTo(n + 1, f)
    OBVIOUS
  <2>0. n <= Len(s)
    BY <1>1
  <2>1. PICK f : UpTo(n, f)
    <3> HIDE DEF UpTo
    <3>1. QED
      BY <1>3, <2>0
  <2> DEFINE g == [k \in 0 .. n + 1 |-> IF k <= n THEN f[k] ELSE f[n] + s[n + 1].size]
  <2>2. s[n + 1].size \in Nat /\ f[n] \in Nat
    BY <1>1, <2>1
  <2>3. g \in [0 .. n + 1 -> Nat] /\ g[0] = 0
    BY <2>1, <2>2
  <2>4. \A k \in 1 .. n + 1 : g[k] = g[k - 1] + s[k].size
    BY <2>1, <2>2
  <2>5. QED
    BY <2>3, <2>4
<1>4. Len(s) \in T
  <2> HIDE DEF T
  <2>1. QED
    BY <1>1, <1>2, <1>3, SetInduction
<1>5. QED
  BY <1>1, <1>4 DEF Sums

\* Bytes is the last of the sums.
LEMMA BytesOfSums ==
  ASSUME NEW S, \A x \in S : x.size \in Nat, NEW s \in Seq(S), NEW f, Sums(f, s)
  PROVE  Bytes(s) = f[Len(s)] /\ Bytes(s) \in Nat
<1> DEFINE Step(g) == [n \in 0 .. Len(s) |-> IF n = 0 THEN 0 ELSE g[n - 1] + s[n].size]
           sum == CHOOSE g : g = Step(g)
           T == { n \in Nat : n <= Len(s) => sum[n] = f[n] }
<1>1. Len(s) \in Nat
  BY LenProperties
<1>2. Bytes(s) = sum[Len(s)]
  BY DEF Bytes
<1>3. f = Step(f)
  <2>1. \A n \in 0 .. Len(s) : f[n] = IF n = 0 THEN 0 ELSE f[n - 1] + s[n].size
    BY <1>1 DEF Sums
  <2>2. f = [n \in 0 .. Len(s) |-> f[n]]
    BY DEF Sums
  <2>3. QED
    BY <2>1, <2>2
<1>4. sum = Step(sum)
  <2> HIDE DEF Step
  <2>1. \E g : g = Step(g)
    BY <1>3
  <2>2. QED
    BY <2>1
<1> HIDE DEF sum
<1>5. /\ sum[0] = 0
      /\ \A n \in 1 .. Len(s) : sum[n] = sum[n - 1] + s[n].size
  BY <1>1, <1>4
<1>6. 0 \in T
  BY <1>5 DEF Sums
<1>7. ASSUME NEW n \in Nat, n \in T PROVE n + 1 \in T
  BY <1>1, <1>5, <1>7 DEF Sums
<1>8. Len(s) \in T
  <2> HIDE DEF T
  <2>1. QED
    BY <1>1, <1>6, <1>7, SetInduction
<1>9. QED
  BY <1>1, <1>2, <1>8 DEF Sums

\* The bytes of a list in two parts are those of the parts.
LEMMA BytesConcat ==
  ASSUME NEW S, \A x \in S : x.size \in Nat, NEW s \in Seq(S), NEW t \in Seq(S)
  PROVE  Bytes(s \o t) = Bytes(s) + Bytes(t) /\ Bytes(s) \in Nat /\ Bytes(t) \in Nat
<1>1. PICK f, g : Sums(f, s) /\ Sums(g, t)
  BY SumsExist
<1> DEFINE a == Len(s)
           b == Len(t)
           u == s \o t
           h == [n \in 0 .. a + b |-> IF n <= a THEN f[n] ELSE f[a] + g[n - a]]
<1>2. a \in Nat /\ b \in Nat /\ (\A n \in 1 .. b : t[n].size \in Nat)
  BY LenProperties, ElementOfSeq
<1>3. /\ u \in Seq(S) /\ Len(u) = a + b
      /\ \A i \in 1 .. a + b : u[i] = IF i <= a THEN s[i] ELSE t[i - a]
  BY ConcatProperties
<1>4. /\ (\A n \in 0 .. a : f[n] \in Nat) /\ f[0] = 0
      /\ \A n \in 1 .. a : f[n] = f[n - 1] + s[n].size
  BY <1>1 DEF Sums
<1>5. /\ (\A n \in 0 .. b : g[n] \in Nat) /\ g[0] = 0
      /\ \A n \in 1 .. b : g[n] = g[n - 1] + t[n].size
  BY <1>1 DEF Sums
<1>6. Bytes(s) = f[a] /\ Bytes(t) = g[b]
  BY <1>1, BytesOfSums
<1> HIDE DEF a, b, u
<1>7. \A n \in 0 .. a : h[n] = f[n]
  BY <1>2
<1>8. \A n \in 0 .. b : h[a + n] = f[a] + g[n]
  <2> SUFFICES ASSUME NEW n \in 0 .. b PROVE h[a + n] = f[a] + g[n]
    OBVIOUS
  <2>1. CASE n = 0
    BY <1>2, <1>4, <1>5, <1>7, <2>1
  <2>2. CASE n > 0
    BY <1>2, <2>2
  <2>3. QED
    BY <2>1, <2>2
<1>9. ASSUME NEW n \in 0 .. a + b PROVE n \in 0 .. a \/ (n - a \in 1 .. b /\ n = a + (n - a))
  BY <1>2
<1>10. DOMAIN h = 0 .. a + b /\ h = [n \in 0 .. a + b |-> h[n]]
  OBVIOUS
<1> HIDE DEF h
<1>11. \A n \in 0 .. a + b : h[n] \in Nat
  <2> SUFFICES ASSUME NEW n \in 0 .. a + b PROVE h[n] \in Nat
    OBVIOUS
  <2>1. CASE n \in 0 .. a
    BY <1>4, <1>7, <2>1
  <2>2. CASE n - a \in 1 .. b /\ n = a + (n - a)
    <3>1. f[a] \in Nat /\ g[n - a] \in Nat
      BY <1>2, <1>4, <1>5, <2>2
    <3>2. QED
      BY <1>2, <1>8, <2>2, <3>1
  <2>3. QED
    BY <1>9, <2>1, <2>2
<1>12. ASSUME NEW n \in 1 .. a + b PROVE h[n] = h[n - 1] + u[n].size
  <2>1. CASE n \in 1 .. a
    <3>1. h[n] = f[n] /\ h[n - 1] = f[n - 1] /\ u[n] = s[n]
      BY <1>2, <1>3, <1>7, <2>1
    <3>2. QED
      BY <1>4, <2>1, <3>1
  <2>2. CASE n - a \in 1 .. b
    <3> DEFINE k == n - a
    <3>0. n \in Nat /\ k \in 1 .. b
      BY <1>2, <2>2
    <3>1. k \in 1 .. b /\ k - 1 \in 0 .. b /\ n = a + k /\ n - 1 = a + (k - 1) /\ ~(n <= a)
      BY <1>2, <3>0
    <3> HIDE DEF k
    <3>2. h[n] = f[a] + g[k] /\ h[n - 1] = f[a] + g[k - 1]
      BY <1>2, <1>8, <3>1
    <3>3. u[n] = t[k]
      BY <1>3, <3>1 DEF k
    <3>4. /\ g[k] = g[k - 1] + t[k].size /\ t[k].size \in Nat
          /\ f[a] \in Nat /\ g[k - 1] \in Nat /\ g[k] \in Nat
      BY <1>2, <1>4, <1>5, <3>1
    <3>5. QED
      BY <3>2, <3>3, <3>4
  <2>3. QED
    BY <1>2, <2>1, <2>2
<1>13. h[0] = 0
  BY <1>2, <1>4, <1>7
<1>14. Sums(h, u)
  BY <1>3, <1>10, <1>11, <1>12, <1>13 DEF Sums
<1>15. Bytes(u) = h[a + b]
  BY <1>3, <1>14, BytesOfSums
<1>16. h[a + b] = f[a] + g[b] /\ f[a] \in Nat /\ g[b] \in Nat
  BY <1>2, <1>4, <1>5, <1>8
<1>17. QED
  BY <1>6, <1>15, <1>16 DEF u

\* The bytes of nothing and of a single item.
LEMMA BytesOfFew ==
  /\ Bytes(<< >>) = 0
  /\ \A x : x.size \in Nat => Bytes(<<x>>) = x.size
<1>1. Sums([n \in 0 .. 0 |-> 0], << >>)
  BY DEF Sums
<1>2. Bytes(<< >>) = 0
  <2> DEFINE f == [n \in 0 .. 0 |-> 0]
  <2>1. << >> \in Seq({}) /\ Len(<< >>) = 0 /\ f[0] = 0
    OBVIOUS
  <2> HIDE DEF f
  <2>2. Bytes(<< >>) = f[0]
    BY <1>1, <2>1, BytesOfSums DEF f
  <2>3. QED
    BY <2>1, <2>2
<1>3. ASSUME NEW x, x.size \in Nat PROVE Bytes(<<x>>) = x.size
  <2> DEFINE f == [n \in 0 .. 1 |-> IF n = 0 THEN 0 ELSE x.size]
             s == <<x>>
  <2>1. s \in Seq({x}) /\ Len(s) = 1 /\ s[1] = x
    OBVIOUS
  <2>2. f \in [0 .. 1 -> Nat] /\ f[0] = 0 /\ f[1] = x.size
    BY <1>3
  <2> HIDE DEF f, s
  <2>3. Sums(f, s)
    BY <1>3, <2>1, <2>2 DEF Sums
  <2>4. Bytes(s) = f[Len(s)]
    BY <1>3, <2>1, <2>3, BytesOfSums
  <2>5. QED
    BY <2>1, <2>2, <2>4 DEF s
<1>4. QED
  BY <1>2, <1>3

\* A list is cut in two anywhere.
LEMMA BytesCut ==
  ASSUME NEW S, \A x \in S : x.size \in Nat, NEW s \in Seq(S), NEW k \in 0 .. Len(s)
  PROVE  /\ SubSeq(s, 1, k) \in Seq(S) /\ SubSeq(s, k + 1, Len(s)) \in Seq(S)
         /\ Bytes(s) = Bytes(SubSeq(s, 1, k)) + Bytes(SubSeq(s, k + 1, Len(s)))
         /\ Bytes(SubSeq(s, 1, k)) \in Nat /\ Bytes(SubSeq(s, k + 1, Len(s))) \in Nat
<1>1. Len(s) \in Nat /\ DOMAIN s = 1 .. Len(s) /\ \A j \in 1 .. Len(s) : s[j] \in S
  BY LenProperties, ElementOfSeq
<1>2. SubSeq(s, 1, k) \in Seq(S)
  <2>1. \A j \in 1 .. k : s[j] \in S
    BY <1>1
  <2>2. QED
    BY <1>1, <2>1, SubSeqProperties
<1>3. SubSeq(s, k + 1, Len(s)) \in Seq(S)
  <2>1. \A j \in (k + 1) .. Len(s) : s[j] \in S
    BY <1>1
  <2>2. QED
    BY <1>1, <2>1, SubSeqProperties
<1>4. SubSeq(s, 1, k) \o SubSeq(s, k + 1, Len(s)) = s
  <2>1. SubSeq(s, 1, k) \o SubSeq(s, k + 1, Len(s)) = SubSeq(s, 1, Len(s))
    <3>1. 1 \in 1 .. Len(s) + 1 /\ k \in 1 - 1 .. Len(s) /\ Len(s) \in k .. Len(s)
      BY <1>1
    <3>2. QED
      BY <3>1, ConcatAdjacentSubSeq
  <2>2. SubSeq(s, 1, Len(s)) = s
    BY <1>1, SubSeqFull
  <2>3. QED
    BY <2>1, <2>2
<1>5. QED
  BY <1>2, <1>3, <1>4, BytesConcat

-----------------------------------------------------------------------------
\* Taking the first item of a key out of a list closes the gap.
LEMMA RemoveKeyAt ==
  ASSUME NEW S, NEW list \in Seq(S), NEW key \in KeysOf(list)
  PROVE  LET p == Position(list, key)  rest == RemoveKey(list, key)
         IN  /\ p \in 1 .. Len(list) /\ list[p].key = key
             /\ rest \in Seq(S) /\ Len(rest) = Len(list) - 1
             /\ \A j \in 1 .. Len(list) - 1 : rest[j] = IF j < p THEN list[j] ELSE list[j + 1]
<1> DEFINE p == Position(list, key)
           n == Len(list)
           front == SubSeq(list, 1, p - 1)
           back == SubSeq(list, p + 1, n)
<1>1. n \in Nat /\ DOMAIN list = 1 .. n /\ \A j \in 1 .. n : list[j] \in S
  BY LenProperties, ElementOfSeq
<1>2. p \in 1 .. n /\ list[p].key = key
  BY <1>1 DEF Position, KeysOf
<1> HIDE DEF p, n
<1>3. /\ front \in Seq(S) /\ Len(front) = p - 1
      /\ \A j \in 1 .. p - 1 : front[j] = list[j]
  <2>1. \A j \in 1 .. (p - 1) : list[j] \in S
    BY <1>1, <1>2
  <2>2. QED
    BY <1>2, <1>1, <2>1, SubSeqProperties
<1>4. /\ back \in Seq(S) /\ Len(back) = n - p
      /\ \A j \in 1 .. n - p : back[j] = list[p + j]
  <2>1. \A j \in (p + 1) .. n : list[j] \in S
    BY <1>1, <1>2
  <2>2. QED
    BY <1>2, <1>1, <2>1, SubSeqProperties
<1> HIDE DEF front, back
<1>5. RemoveKey(list, key) = front \o back
  BY DEF RemoveKey, RemoveAt, front, back, p, n
<1>6. /\ front \o back \in Seq(S) /\ Len(front \o back) = n - 1
      /\ \A j \in 1 .. n - 1 :
           (front \o back)[j] = IF j <= p - 1 THEN front[j] ELSE back[j - (p - 1)]
  <2>1. Len(front) + Len(back) = n - 1
    BY <1>1, <1>2, <1>3, <1>4
  <2>2. /\ front \o back \in Seq(S) /\ Len(front \o back) = Len(front) + Len(back)
        /\ \A j \in 1 .. Len(front) + Len(back) :
             (front \o back)[j] = IF j <= Len(front) THEN front[j] ELSE back[j - Len(front)]
    BY <1>3, <1>4, ConcatProperties
  <2>3. QED
    BY <1>3, <2>1, <2>2
<1>7. ASSUME NEW j \in 1 .. n - 1
      PROVE  (front \o back)[j] = IF j < p THEN list[j] ELSE list[j + 1]
  <2>1. CASE j < p
    <3>1. j \in 1 .. p - 1 /\ j <= p - 1
      BY <1>1, <1>2, <2>1
    <3>2. QED
      BY <1>3, <1>6, <2>1, <3>1
  <2>2. CASE ~(j < p)
    <3> DEFINE k == j - (p - 1)
    <3>1. k \in 1 .. n - p /\ p + k = j + 1 /\ ~(j <= p - 1)
      BY <1>1, <1>2, <2>2
    <3> HIDE DEF k
    <3>2. (front \o back)[j] = back[k]
      BY <1>6, <3>1 DEF k
    <3>3. back[k] = list[j + 1]
      BY <1>4, <3>1
    <3>4. QED
      BY <2>2, <3>2, <3>3
  <2>3. QED
    BY <2>1, <2>2
<1>8. QED
  BY <1>2, <1>5, <1>6, <1>7 DEF p, n

\* Taking a key out of a list takes the bytes of its item with it.
LEMMA RemoveKeyBytes ==
  ASSUME NEW S, \A x \in S : x.size \in Nat, NEW list \in Seq(S), NEW key \in KeysOf(list)
  PROVE  /\ Bytes(RemoveKey(list, key)) + Lookup(list, key).size = Bytes(list)
         /\ Bytes(RemoveKey(list, key)) \in Nat /\ Lookup(list, key).size \in Nat
<1> DEFINE p == Position(list, key)
           n == Len(list)
           front == SubSeq(list, 1, p - 1)
           back == SubSeq(list, p + 1, n)
<1>1. n \in Nat /\ p \in 1 .. n /\ list[p] \in S
  BY RemoveKeyAt, LenProperties, ElementOfSeq
<1>2. RemoveKey(list, key) = front \o back /\ Lookup(list, key) = list[p]
  BY DEF RemoveKey, RemoveAt, Lookup
<1> HIDE DEF p
<1>3. p - 1 \in 0 .. n /\ p \in 0 .. n /\ p - 1 + 1 = p
  BY <1>1
<1>4. /\ front \in Seq(S) /\ Bytes(front) \in Nat /\ Bytes(SubSeq(list, p, n)) \in Nat
      /\ Bytes(list) = Bytes(front) + Bytes(SubSeq(list, p, n))
  BY <1>3, BytesCut
<1>5. back \in Seq(S) /\ Bytes(back) \in Nat
  BY <1>3, BytesCut
<1>6. SubSeq(list, p, n) = <<list[p]>> \o back
  <2>1. p \in 1 .. Len(list) /\ n \in p .. Len(list)
    BY <1>1
  <2>2. QED
    BY <2>1, SubSeqRecursiveFirst
<1> HIDE DEF front, back
<1>7. Bytes(SubSeq(list, p, n)) = list[p].size + Bytes(back) /\ list[p].size \in Nat
  <2>1. <<list[p]>> \in Seq(S) /\ list[p].size \in Nat
    BY <1>1
  <2>2. Bytes(<<list[p]>>) = list[p].size
    BY <2>1, BytesOfFew
  <2>3. QED
    BY <1>5, <1>6, <2>1, <2>2, BytesConcat
<1>8. Bytes(front \o back) = Bytes(front) + Bytes(back)
  BY <1>4, <1>5, BytesConcat
<1>9. QED
  BY <1>2, <1>4, <1>5, <1>7, <1>8

\* What is left after evictions from the back of the list held no other keys.
LEMMA PrefixKeys ==
  ASSUME NEW S, NEW list \in Seq(S), NEW n \in 0 .. Len(list)
  PROVE  /\ SubSeq(list, 1, n) \in Seq(S)
         /\ KeysOf(SubSeq(list, 1, n)) \subseteq KeysOf(list)
  BY SubSeqProperties, LenProperties DEF KeysOf

\* A key of the list is found, and taking it out leaves only keys of the list.
LEMMA RemoveKeyKeys ==
  ASSUME NEW S, NEW list \in Seq(S), NEW key \in KeysOf(list)
  PROVE  /\ Lookup(list, key) \in S /\ Lookup(list, key).key = key
         /\ RemoveKey(list, key) \in Seq(S)
         /\ KeysOf(RemoveKey(list, key)) \subseteq KeysOf(list)
<1> DEFINE p == Position(list, key)
           rest == RemoveKey(list, key)
           n == Len(list)
<1>1. /\ n \in Nat /\ DOMAIN list = 1 .. n /\ \A j \in 1 .. n : list[j] \in S
      /\ p \in 1 .. n /\ list[p].key = key /\ rest \in Seq(S) /\ DOMAIN rest = 1 .. n - 1
      /\ \A j \in 1 .. n - 1 : rest[j] = IF j < p THEN list[j] ELSE list[j + 1]
  BY RemoveKeyAt, LenProperties, ElementOfSeq
<1>2. Lookup(list, key) = list[p]
  BY DEF Lookup
<1> HIDE DEF p, rest, n
<1>3. ASSUME NEW j \in 1 .. n - 1 PROVE rest[j].key \in KeysOf(list)
  <2>1. j \in 1 .. n /\ j + 1 \in 1 .. n
    BY <1>1
  <2>2. QED
    BY <1>1, <2>1 DEF KeysOf
<1>4. KeysOf(rest) \subseteq KeysOf(list)
  BY <1>1, <1>3 DEF KeysOf
<1>5. QED
  BY <1>1, <1>2, <1>4 DEF rest

\* An item at the front adds at most its own key.
LEMMA FrontKeys ==
  ASSUME NEW S, NEW list \in Seq(S), NEW item \in S
  PROVE  /\ <<item>> \o list \in Seq(S)
         /\ KeysOf(<<item>> \o list) = {item.key} \cup KeysOf(list)
<1>1. /\ <<item>> \in Seq(S) /\ Len(<<item>>) = 1 /\ <<item>>[1] = item
      /\ Len(list) \in Nat /\ DOMAIN list = 1 .. Len(list)
  BY LenProperties
<1> DEFINE l == <<item>> \o list
<1>2. /\ l \in Seq(S) /\ DOMAIN l = 1 .. Len(list) + 1
      /\ l[1] = item /\ \A j \in 1 .. Len(list) : l[j + 1] = list[j]
  BY <1>1, ConcatProperties, LenProperties
<1>3. \A j \in 1 .. Len(list) + 1 : j = 1 \/ j - 1 \in 1 .. Len(list)
  BY <1>1
<1>4. KeysOf(l) \subseteq {item.key} \cup KeysOf(list)
  <2>1. SUFFICES ASSUME NEW j \in 1 .. Len(list) + 1 PROVE l[j].key \in {item.key} \cup KeysOf(list)
    BY <1>2 DEF KeysOf
  <2>2. CASE j = 1
    BY <1>2, <2>2
  <2>3. CASE j - 1 \in 1 .. Len(list)
    <3>1. l[j] = list[j - 1]
      BY <1>1, <1>2, <2>3
    <3>2. QED
      BY <1>1, <2>3, <3>1 DEF KeysOf
  <2>4. QED
    BY <1>3, <2>2, <2>3
<1>5. {item.key} \cup KeysOf(list) \subseteq KeysOf(l)
  <2>1. item.key \in KeysOf(l)
    BY <1>1, <1>2 DEF KeysOf
  <2>2. ASSUME NEW j \in 1 .. Len(list) PROVE list[j].key \in KeysOf(l)
    <3>1. j + 1 \in DOMAIN l /\ l[j + 1] = list[j]
      BY <1>1, <1>2
    <3>2. QED
      BY <3>1 DEF KeysOf
  <2>3. QED
    BY <1>1, <2>1, <2>2 DEF KeysOf
<1>6. QED
  BY <1>2, <1>4, <1>5

\* Every key is in the list once.
Distinct(list) == \A i, j \in DOMAIN list : list[i].key = list[j].key => i = j

\* Each item of s is an item of t, and they are in the same order.
Within(s, t) ==
  \E e \in [DOMAIN s -> DOMAIN t] :
    /\ \A i \in DOMAIN s : s[i] = t[e[i]]
    /\ \A i, j \in DOMAIN s : i < j => e[i] < e[j]

\* What is left of a list in its order is as distinct as the list.
LEMMA WithinDistinct ==
  ASSUME NEW S, NEW T, NEW s \in Seq(S), NEW t \in Seq(T), Within(s, t), Distinct(t)
  PROVE  Distinct(s)
<1> SUFFICES ASSUME NEW i \in DOMAIN s, NEW j \in DOMAIN s, s[i].key = s[j].key PROVE i = j
  BY DEF Distinct
<1>1. i \in Nat /\ j \in Nat
  BY LenProperties
<1>2. PICK e \in [DOMAIN s -> DOMAIN t] :
         /\ \A k \in DOMAIN s : s[k] = t[e[k]]
         /\ \A k, l \in DOMAIN s : k < l => e[k] < e[l]
  BY DEF Within
<1>3. e[i] \in Nat /\ e[i] = e[j]
  BY <1>2, LenProperties DEF Distinct
<1>4. ~(i < j) /\ ~(j < i)
  <2>1. ~(e[i] < e[j]) /\ ~(e[j] < e[i])
    BY <1>3
  <2>2. QED
    BY <1>2, <2>1
<1>5. QED
  BY <1>1, <1>4

\* Taking a key out leaves the others in their order.
LEMMA RemoveKeyWithin ==
  ASSUME NEW S, NEW list \in Seq(S), NEW key \in KeysOf(list)
  PROVE  Within(RemoveKey(list, key), list)
<1> DEFINE p == Position(list, key)
           rest == RemoveKey(list, key)
           n == Len(list)
           e == [j \in 1 .. n - 1 |-> IF j < p THEN j ELSE j + 1]
<1>1. /\ n \in Nat /\ DOMAIN list = 1 .. n /\ DOMAIN rest = 1 .. n - 1 /\ p \in 1 .. n
      /\ \A j \in 1 .. n - 1 : rest[j] = IF j < p THEN list[j] ELSE list[j + 1]
  BY RemoveKeyAt, LenProperties
<1> HIDE DEF p, rest, n
<1>2. e \in [1 .. n - 1 -> 1 .. n]
  BY <1>1
<1>3. \A j \in 1 .. n - 1 : rest[j] = list[e[j]]
  BY <1>1
<1>4. \A i, j \in 1 .. n - 1 : i < j => e[i] < e[j]
  BY <1>1
<1> HIDE DEF e
<1>5. QED
  BY <1>1, <1>2, <1>3, <1>4 DEF Within, rest

\* Cutting the back off leaves the front as it was.
LEMMA PrefixWithin ==
  ASSUME NEW S, NEW list \in Seq(S), NEW k \in 0 .. Len(list)
  PROVE  /\ Within(SubSeq(list, 1, k), list) /\ SubSeq(list, 1, k) \in Seq(S)
         /\ DOMAIN SubSeq(list, 1, k) = 1 .. k
         /\ \A j \in 1 .. k : SubSeq(list, 1, k)[j] = list[j]
<1> DEFINE s == SubSeq(list, 1, k)
           e == [j \in 1 .. k |-> j]
<1>1. Len(list) \in Nat /\ DOMAIN list = 1 .. Len(list) /\ \A j \in 1 .. Len(list) : list[j] \in S
  BY LenProperties, ElementOfSeq
<1>2. s \in Seq(S) /\ Len(s) = k /\ \A j \in 1 .. k : s[j] = list[j]
  <2>1. \A j \in 1 .. k : list[j] \in S
    BY <1>1
  <2>2. QED
    BY <1>1, <2>1, SubSeqProperties
<1>3. DOMAIN s = 1 .. k
  BY <1>2, LenProperties
<1>4. e \in [1 .. k -> DOMAIN list] /\ \A i, j \in 1 .. k : i < j => e[i] < e[j]
  BY <1>1
<1>5. \A j \in 1 .. k : s[j] = list[e[j]]
  BY <1>2
<1> HIDE DEF e, s
<1>6. Within(s, list)
  BY <1>3, <1>4, <1>5 DEF Within
<1>7. QED
  BY <1>2, <1>3, <1>6 DEF s

\* A new key at the front leaves the list distinct.
LEMMA FrontDistinct ==
  ASSUME NEW S, NEW list \in Seq(S), NEW item \in S, Distinct(list), item.key \notin KeysOf(list)
  PROVE  LET l == <<item>> \o list
         IN  /\ DOMAIN l = 1 .. Len(list) + 1 /\ l[1] = item
             /\ \A j \in 1 .. Len(list) : l[j + 1] = list[j]
             /\ Distinct(l)
<1> DEFINE l == <<item>> \o list
           n == Len(list)
<1>1. /\ n \in Nat /\ DOMAIN list = 1 .. n
      /\ <<item>> \in Seq(S) /\ Len(<<item>>) = 1 /\ <<item>>[1] = item
  BY LenProperties
<1>2. /\ DOMAIN l = 1 .. n + 1
      /\ l[1] = item /\ \A j \in 1 .. n : l[j + 1] = list[j]
  BY <1>1, ConcatProperties, LenProperties
<1> HIDE DEF l, n
<1>3. \A j \in 1 .. n : list[j].key # item.key
  BY <1>1 DEF KeysOf
<1>4. ASSUME NEW j \in 1 .. n + 1, j # 1 PROVE j - 1 \in 1 .. n /\ l[j] = list[j - 1]
  <2>1. j - 1 \in 1 .. n /\ j - 1 + 1 = j
    BY <1>1, <1>4
  <2>2. QED
    BY <1>2, <2>1
<1>5. ASSUME NEW i \in 1 .. n + 1, NEW j \in 1 .. n + 1, l[i].key = l[j].key PROVE i = j
  <2>1. CASE i = 1 \/ j = 1
    BY <1>2, <1>3, <1>4, <1>5, <2>1
  <2>2. CASE i # 1 /\ j # 1
    <3>1. i - 1 = j - 1
      BY <1>1, <1>4, <1>5, <2>2 DEF Distinct
    <3>2. i \in Int /\ j \in Int
      BY <1>1
    <3>3. QED
      BY <3>1, <3>2
  <2>3. QED
    BY <2>1, <2>2
<1>6. QED
  BY <1>2, <1>5 DEF Distinct, l, n

\* In a distinct list every item is found by its key.
LEMMA LookupFinds ==
  ASSUME NEW list, Distinct(list), NEW i \in DOMAIN list
  PROVE  Lookup(list, list[i].key) = list[i]
  BY DEF Distinct, Lookup, Position

\* Taking a key out of a distinct list takes out that key alone.
LEMMA RemoveKeyGone ==
  ASSUME NEW S, NEW list \in Seq(S), NEW key \in KeysOf(list), Distinct(list)
  PROVE  KeysOf(RemoveKey(list, key)) = KeysOf(list) \ {key}
<1> DEFINE p == Position(list, key)
           rest == RemoveKey(list, key)
           n == Len(list)
<1>1. /\ n \in Nat /\ DOMAIN list = 1 .. n /\ DOMAIN rest = 1 .. n - 1 /\ p \in 1 .. n
      /\ list[p].key = key
      /\ \A j \in 1 .. n - 1 : rest[j] = IF j < p THEN list[j] ELSE list[j + 1]
  BY RemoveKeyAt, LenProperties
<1> HIDE DEF p, rest, n
<1>2. ASSUME NEW j \in 1 .. n - 1 PROVE rest[j].key \in KeysOf(list) \ {key}
  <2>1. \E m \in 1 .. n : m # p /\ rest[j] = list[m]
    <3>1. CASE j < p
      <4>1. j \in 1 .. n /\ j # p
        BY <1>1, <3>1
      <4>2. QED
        BY <1>1, <3>1, <4>1
    <3>2. CASE ~(j < p)
      <4>1. j + 1 \in 1 .. n /\ j + 1 # p
        BY <1>1, <3>2
      <4>2. QED
        BY <1>1, <3>2, <4>1
    <3>3. QED
      BY <3>1, <3>2
  <2>2. QED
    BY <1>1, <2>1 DEF Distinct, KeysOf
<1>3. ASSUME NEW m \in 1 .. n, list[m].key # key PROVE list[m].key \in KeysOf(rest)
  <2>1. CASE m < p
    <3>1. m \in 1 .. n - 1
      BY <1>1, <2>1
    <3>2. QED
      BY <1>1, <2>1, <3>1 DEF KeysOf
  <2>2. CASE m > p
    <3>1. m - 1 \in 1 .. n - 1 /\ ~(m - 1 < p) /\ m - 1 + 1 = m
      BY <1>1, <2>2
    <3>2. rest[m - 1] = list[m]
      BY <1>1, <3>1
    <3>3. QED
      BY <1>1, <3>1, <3>2 DEF KeysOf
  <2>3. m # p /\ m \in Int /\ p \in Int
    BY <1>1, <1>3
  <2>4. QED
    BY <2>1, <2>2, <2>3
<1>4. KeysOf(rest) \subseteq KeysOf(list) \ {key}
  <2>1. KeysOf(rest) = { rest[j].key : j \in 1 .. n - 1 }
    BY <1>1 DEF KeysOf
  <2>2. QED
    BY <1>2, <2>1
<1>5. KeysOf(list) \ {key} \subseteq KeysOf(rest)
  <2>1. KeysOf(list) = { list[m].key : m \in 1 .. n }
    BY <1>1 DEF KeysOf
  <2>2. QED
    BY <1>3, <2>1
<1>6. QED
  BY <1>4, <1>5 DEF rest

\* A list that is within a distinct one has its items under the same keys.
LEMMA WithinLookup ==
  ASSUME NEW s, NEW t, Within(s, t), Distinct(s), Distinct(t), NEW k \in KeysOf(s)
  PROVE  k \in KeysOf(t) /\ Lookup(s, k) = Lookup(t, k)
<1>1. PICK e \in [DOMAIN s -> DOMAIN t] : \A i \in DOMAIN s : s[i] = t[e[i]]
  BY DEF Within
<1>2. PICK i \in DOMAIN s : s[i].key = k
  BY DEF KeysOf
<1>3. e[i] \in DOMAIN t /\ s[i] = t[e[i]]
  BY <1>1
<1>4. QED
  BY <1>2, <1>3, LookupFinds DEF KeysOf

-----------------------------------------------------------------------------
\* Taking a key out of a distinct list leaves every other item as it was.
LEMMA TakenOut ==
  ASSUME NEW S, \A x \in S : x.size \in Nat, NEW list \in Seq(S), Distinct(list),
         NEW key \in KeysOf(list)
  PROVE  LET rest == RemoveKey(list, key)
         IN  /\ Lookup(list, key) \in S /\ Lookup(list, key).key = key
             /\ rest \in Seq(S) /\ Distinct(rest) /\ KeysOf(rest) = KeysOf(list) \ {key}
             /\ Bytes(rest) = Bytes(list) - Lookup(list, key).size
             /\ \A k \in KeysOf(rest) : Lookup(rest, k) = Lookup(list, k)
<1> DEFINE rest == RemoveKey(list, key)
<1>1. /\ Lookup(list, key) \in S /\ Lookup(list, key).key = key
      /\ rest \in Seq(S) /\ Within(rest, list) /\ KeysOf(rest) = KeysOf(list) \ {key}
  BY RemoveKeyKeys, RemoveKeyWithin, RemoveKeyGone
<1>2. Distinct(rest)
  BY <1>1, WithinDistinct
<1>3. \A k \in KeysOf(rest) : Lookup(rest, k) = Lookup(list, k)
  BY <1>1, <1>2, WithinLookup
<1>4. /\ Bytes(rest) + Lookup(list, key).size = Bytes(list)
      /\ Bytes(rest) \in Nat /\ Lookup(list, key).size \in Nat
  BY RemoveKeyBytes
<1> HIDE DEF rest
<1>5. Bytes(rest) = Bytes(list) - Lookup(list, key).size
  BY <1>4
<1>6. QED
  BY <1>1, <1>2, <1>3, <1>5 DEF rest

\* So does putting an item with a new key at the front.
LEMMA PutInFront ==
  ASSUME NEW S, \A x \in S : x.size \in Nat, NEW list \in Seq(S), Distinct(list),
         NEW item \in S, item.key \notin KeysOf(list)
  PROVE  LET l == <<item>> \o list
         IN  /\ l \in Seq(S) /\ Distinct(l) /\ KeysOf(l) = KeysOf(list) \cup {item.key}
             /\ Bytes(l) = Bytes(list) + item.size
             /\ Lookup(l, item.key) = item
             /\ \A k \in KeysOf(list) : Lookup(l, k) = Lookup(list, k)
<1> DEFINE l == <<item>> \o list
           n == Len(list)
<1>1. l \in Seq(S) /\ KeysOf(l) = {item.key} \cup KeysOf(list)
  BY FrontKeys
<1>2. /\ DOMAIN l = 1 .. n + 1 /\ l[1] = item /\ Distinct(l)
      /\ \A j \in 1 .. n : l[j + 1] = list[j]
  BY FrontDistinct
<1>3. n \in Nat /\ DOMAIN list = 1 .. n /\ item.size \in Nat
  BY LenProperties
<1>4. Bytes(l) = Bytes(list) + item.size
  <2>1. <<item>> \in Seq(S) /\ Bytes(<<item>>) = item.size
    BY <1>3, BytesOfFew
  <2>2. Bytes(l) = Bytes(<<item>>) + Bytes(list) /\ Bytes(list) \in Nat
    BY <2>1, BytesConcat
  <2> HIDE DEF l
  <2>3. QED
    BY <1>3, <2>1, <2>2
<1> HIDE DEF l, n
<1>5. Lookup(l, item.key) = item
  <2>1. 1 \in DOMAIN l
    BY <1>2, <1>3
  <2>2. QED
    BY <1>2, <2>1, LookupFinds
<1>6. ASSUME NEW k \in KeysOf(list) PROVE Lookup(l, k) = Lookup(list, k)
  <2>1. PICK j \in 1 .. n : list[j].key = k
    BY <1>3 DEF KeysOf
  <2>2. j + 1 \in DOMAIN l /\ l[j + 1] = list[j]
    BY <1>2, <1>3
  <2>3. Lookup(list, k) = list[j]
    BY <1>3, <2>1, LookupFinds
  <2>4. Lookup(l, k) = l[j + 1]
    BY <1>2, <2>1, <2>2, LookupFinds
  <2>5. QED
    BY <2>2, <2>3, <2>4
<1>7. QED
  BY <1>1, <1>2, <1>4, <1>5, <1>6 DEF l

\* Two distinct lists without a common key, one behind the other.
LEMMA Joined ==
  ASSUME NEW S, \A x \in S : x.size \in Nat, NEW s \in Seq(S), NEW t \in Seq(S),
         Distinct(s), Distinct(t), KeysOf(s) \cap KeysOf(t) = {}
  PROVE  LET l == s \o t
         IN  /\ l \in Seq(S) /\ Distinct(l) /\ KeysOf(l) = KeysOf(s) \cup KeysOf(t)
             /\ Bytes(l) = Bytes(s) + Bytes(t)
             /\ \A k \in KeysOf(s) : Lookup(l, k) = Lookup(s, k)
             /\ \A k \in KeysOf(t) : Lookup(l, k) = Lookup(t, k)
<1> DEFINE l == s \o t
           a == Len(s)
           b == Len(t)
<1>1. /\ a \in Nat /\ b \in Nat /\ DOMAIN s = 1 .. a /\ DOMAIN t = 1 .. b
      /\ l \in Seq(S) /\ DOMAIN l = 1 .. a + b
      /\ \A i \in 1 .. a + b : l[i] = IF i <= a THEN s[i] ELSE t[i - a]
  BY LenProperties, ConcatProperties
<1>2. Bytes(l) = Bytes(s) + Bytes(t)
  BY BytesConcat
<1> HIDE DEF a, b, l
<1>3. /\ \A i \in 1 .. a : i \in 1 .. a + b /\ l[i] = s[i]
      /\ \A j \in 1 .. b : a + j \in 1 .. a + b /\ l[a + j] = t[j]
  <2>1. ASSUME NEW i \in 1 .. a PROVE i \in 1 .. a + b /\ l[i] = s[i]
    BY <1>1
  <2>2. ASSUME NEW j \in 1 .. b PROVE a + j \in 1 .. a + b /\ l[a + j] = t[j]
    <3>1. a + j \in 1 .. a + b /\ ~(a + j <= a) /\ (a + j) - a = j
      BY <1>1
    <3>2. QED
      BY <1>1, <3>1
  <2>3. QED
    BY <2>1, <2>2
<1>4. \A i \in 1 .. a + b : \/ i \in 1 .. a /\ l[i].key \in KeysOf(s)
                            \/ \E j \in 1 .. b : i = a + j /\ l[i].key \in KeysOf(t)
  <2> SUFFICES ASSUME NEW i \in 1 .. a + b, ~(i \in 1 .. a)
               PROVE  \E j \in 1 .. b : i = a + j /\ l[i].key \in KeysOf(t)
    BY <1>1, <1>3 DEF KeysOf
  <2>1. i - a \in 1 .. b /\ i = a + (i - a)
    BY <1>1
  <2>2. l[i] = t[i - a]
    BY <1>3, <2>1
  <2>3. QED
    BY <1>1, <2>1, <2>2 DEF KeysOf
<1>5. KeysOf(l) = KeysOf(s) \cup KeysOf(t)
  <2>1. KeysOf(l) \subseteq KeysOf(s) \cup KeysOf(t)
    BY <1>1, <1>4 DEF KeysOf
  <2>2. KeysOf(s) \subseteq KeysOf(l)
    BY <1>1, <1>3 DEF KeysOf
  <2>3. ASSUME NEW k \in KeysOf(t) PROVE k \in KeysOf(l)
    <3>1. PICK j \in 1 .. b : t[j].key = k
      BY <1>1 DEF KeysOf
    <3>2. a + j \in DOMAIN l /\ l[a + j].key = k
      BY <1>1, <1>3, <3>1
    <3>3. QED
      BY <3>2 DEF KeysOf
  <2>4. QED
    BY <2>1, <2>2, <2>3
<1>6. Distinct(l)
  <2> SUFFICES ASSUME NEW i \in DOMAIN l, NEW j \in DOMAIN l, l[i].key = l[j].key PROVE i = j
    BY DEF Distinct
  <2>0. i \in 1 .. a + b /\ j \in 1 .. a + b
    BY <1>1
  <2>1. CASE i \in 1 .. a
    <3>1. l[i].key \in KeysOf(s)
      BY <1>1, <1>3, <2>1 DEF KeysOf
    <3>2. j \in 1 .. a
      BY <1>4, <2>0, <3>1
    <3>3. l[i] = s[i] /\ l[j] = s[j] /\ i \in DOMAIN s /\ j \in DOMAIN s
      BY <1>1, <1>3, <2>1, <3>2
    <3>4. QED
      BY <3>3 DEF Distinct
  <2>2. CASE ~(i \in 1 .. a)
    <3>1. PICK p \in 1 .. b : i = a + p /\ l[i].key \in KeysOf(t)
      BY <1>4, <2>0, <2>2
    <3>2. j \in 1 .. a => l[j].key \in KeysOf(s)
      BY <1>1, <1>3 DEF KeysOf
    <3>3. PICK q \in 1 .. b : j = a + q
      BY <1>4, <2>0, <3>1, <3>2
    <3>4. t[p].key = t[q].key /\ p \in DOMAIN t /\ q \in DOMAIN t
      BY <1>1, <1>3, <3>1, <3>3
    <3>5. QED
      BY <3>1, <3>3, <3>4 DEF Distinct
  <2>3. QED
    BY <2>1, <2>2
<1>7. ASSUME NEW k \in KeysOf(s) PROVE Lookup(l, k) = Lookup(s, k)
  <2>1. PICK i \in 1 .. a : s[i].key = k
    BY <1>1 DEF KeysOf
  <2>2. l[i] = s[i] /\ i \in DOMAIN l /\ i \in DOMAIN s
    BY <1>1, <1>3
  <2>3. QED
    BY <1>6, <2>1, <2>2, LookupFinds
<1>8. ASSUME NEW k \in KeysOf(t) PROVE Lookup(l, k) = Lookup(t, k)
  <2>1. PICK j \in 1 .. b : t[j].key = k
    BY <1>1 DEF KeysOf
  <2>2. l[a + j] = t[j] /\ a + j \in DOMAIN l /\ j \in DOMAIN t
    BY <1>1, <1>3
  <2>3. QED
    BY <1>6, <2>1, <2>2, LookupFinds
<1>9. QED
  BY <1>1, <1>2, <1>5, <1>6, <1>7, <1>8 DEF l

-----------------------------------------------------------------------------
\* The items of a list whose keys are in s, each in its place, with nothing in the
\* places of the others.
Nothing == [size |-> 0]
Mask(list, s) == [i \in 1 .. Len(list) |-> IF list[i].key \in s THEN list[i] ELSE Nothing]

\* Putting an item where there was nothing adds its size.
LEMMA BytesFill ==
  ASSUME NEW S, \A x \in S : x.size \in Nat, NEW s \in Seq(S), NEW t \in Seq(S),
         Len(t) = Len(s), NEW p \in 1 .. Len(s), t[p].size = 0,
         \A i \in 1 .. Len(s) : i # p => t[i] = s[i]
  PROVE  Bytes(s) = s[p].size + Bytes(t) /\ Bytes(t) \in Nat
<1> DEFINE n == Len(s)
<1>1. PICK f : Sums(f, t)
  BY SumsExist
<1>2. n \in Nat /\ \A i \in 1 .. n : s[i].size \in Nat
  BY LenProperties, ElementOfSeq
<1>3. /\ (\A i \in 0 .. n : f[i] \in Nat) /\ f[0] = 0
      /\ \A i \in 1 .. n : f[i] = f[i - 1] + t[i].size
  BY <1>1 DEF Sums
<1> DEFINE g == [i \in 0 .. n |-> IF i < p THEN f[i] ELSE f[i] + s[p].size]
<1>4. g \in [0 .. n -> Nat] /\ g[0] = 0
  BY <1>2, <1>3
<1>5. ASSUME NEW i \in 1 .. n PROVE g[i] = g[i - 1] + s[i].size
  <2>1. i - 1 \in 0 .. n /\ i \in 0 .. n
    BY <1>2
  <2> DEFINE x == s[i].size
             y == s[p].size
  <2>2. f[i] = f[i - 1] + t[i].size /\ f[i] \in Nat /\ f[i - 1] \in Nat /\ x \in Nat /\ y \in Nat
    BY <1>2, <1>3, <2>1
  <2>3. CASE i = p
    <3>1. g[i] = f[i] + y /\ g[i - 1] = f[i - 1] /\ t[i].size = 0
      BY <1>2, <2>1, <2>3
    <3>2. QED
      BY <2>2, <2>3, <3>1
  <2>4. CASE i # p
    <3>1. t[i].size = x
      BY <2>4
    <3>2. \/ g[i] = f[i] /\ g[i - 1] = f[i - 1]
          \/ g[i] = f[i] + y /\ g[i - 1] = f[i - 1] + y
      <4>1. (i < p /\ i - 1 < p) \/ (~(i < p) /\ ~(i - 1 < p))
        BY <1>2, <2>4
      <4>2. QED
        BY <2>1, <4>1
    <3> HIDE DEF g, x, y
    <3>3. g[i] = g[i - 1] + x
      BY <2>2, <3>1, <3>2
    <3>4. QED
      BY <3>3 DEF x
  <2>5. QED
    BY <2>3, <2>4
<1>6. g[n] = s[p].size + f[n]
  BY <1>2, <1>3
<1> HIDE DEF g
<1>7. Sums(g, s)
  BY <1>4, <1>5 DEF Sums
<1>8. QED
  BY <1>1, <1>6, <1>7, BytesOfSums

\* With nothing in any place there are no bytes.
LEMMA BytesOfNothing ==
  ASSUME NEW S, \A x \in S : x.size \in Nat, NEW s \in Seq(S), \A i \in 1 .. Len(s) : s[i].size = 0
  PROVE  Bytes(s) = 0
<1> DEFINE f == [i \in 0 .. Len(s) |-> 0]
<1>1. Len(s) \in Nat
  BY LenProperties
<1>2. Sums(f, s) /\ f[Len(s)] = 0
  BY <1>1 DEF Sums
<1> HIDE DEF f
<1>3. QED
  BY <1>2, BytesOfSums

\* Another item in the place of the one with its key.
Placed(list, item) == [list EXCEPT ![Position(list, item.key)] = item]

\* It changes the bytes by the difference in size, and no other item.
LEMMA PutInPlace ==
  ASSUME NEW S, \A x \in S : x.size \in Nat, NEW list \in Seq(S), Distinct(list),
         NEW item \in S, item.key \in KeysOf(list)
  PROVE  LET l == Placed(list, item)
         IN  /\ l \in Seq(S) /\ Distinct(l) /\ KeysOf(l) = KeysOf(list)
             /\ Bytes(l) = Bytes(list) - Lookup(list, item.key).size + item.size
             /\ Lookup(l, item.key) = item
             /\ \A k \in KeysOf(list) \ {item.key} : Lookup(l, k) = Lookup(list, k)
<1> DEFINE p == Position(list, item.key)
           n == Len(list)
           l == [list EXCEPT ![p] = item]
           t == [list EXCEPT ![p] = Nothing]
           R == S \cup {Nothing}
<1>1. /\ n \in Nat /\ DOMAIN list = 1 .. n /\ p \in 1 .. n /\ list[p].key = item.key
      /\ list = [i \in 1 .. n |-> list[i]] /\ \A i \in 1 .. n : list[i] \in S
  BY RemoveKeyAt, LenProperties, ElementOfSeq
<1>2. Lookup(list, item.key) = list[p]
  BY DEF Lookup
<1> HIDE DEF p
<1>3. l \in Seq(S) /\ l \in Seq(R) /\ t \in Seq(R) /\ list \in Seq(R)
  BY <1>1
<1>4. /\ Len(l) = n /\ Len(t) = n /\ DOMAIN l = 1 .. n /\ l[p] = item /\ t[p] = Nothing
      /\ \A i \in 1 .. n : i # p => l[i] = list[i] /\ t[i] = list[i]
  BY <1>1
<1>5. \A x \in R : x.size \in Nat
  BY DEF Nothing
<1> HIDE DEF l, t, R, n
<1>6. \A i \in 1 .. n : l[i].key = list[i].key
  BY <1>1, <1>4
<1>7. Distinct(l) /\ KeysOf(l) = KeysOf(list)
  <2>0. DOMAIN list = 1 .. n /\ DOMAIN l = 1 .. n
    BY <1>1, <1>4
  <2>1. Distinct(l)
    BY <1>6, <2>0 DEF Distinct
  <2>2. KeysOf(l) = KeysOf(list)
    BY <1>6, <2>0 DEF KeysOf
  <2>3. QED
    BY <2>1, <2>2
<1>8. t[p].size = 0
  BY <1>4 DEF Nothing
<1>9. Bytes(list) = list[p].size + Bytes(t) /\ Bytes(t) \in Nat
  <2>1. /\ Len(t) = Len(list) /\ p \in 1 .. Len(list)
        /\ \A i \in 1 .. Len(list) : i # p => t[i] = list[i]
    BY <1>1, <1>4 DEF n
  <2>2. QED
    BY <1>3, <1>5, <1>8, <2>1, BytesFill
<1>10. Bytes(l) = item.size + Bytes(t)
  <2>1. Len(t) = Len(l) /\ p \in 1 .. Len(l) /\ \A i \in 1 .. Len(l) : i # p => t[i] = l[i]
    BY <1>1, <1>4
  <2>2. Bytes(l) = l[p].size + Bytes(t)
    BY <1>3, <1>5, <1>8, <2>1, BytesFill
  <2>3. QED
    BY <1>4, <2>2
<1>11. Bytes(l) = Bytes(list) - Lookup(list, item.key).size + item.size
  <2>1. list[p].size \in Nat /\ item.size \in Nat
    BY <1>1
  <2>2. QED
    BY <1>2, <1>9, <1>10, <2>1
<1>12. Lookup(l, item.key) = item
  BY <1>1, <1>4, <1>7, LookupFinds
<1>13. ASSUME NEW k \in KeysOf(list) \ {item.key} PROVE Lookup(l, k) = Lookup(list, k)
  <2>1. PICK j \in 1 .. n : list[j].key = k
    BY <1>1 DEF KeysOf
  <2>2. l[j] = list[j] /\ j \in DOMAIN l
    BY <1>1, <1>4, <2>1
  <2>3. Lookup(l, k) = l[j] /\ Lookup(list, k) = list[j]
    BY <1>1, <1>7, <2>1, <2>2, LookupFinds
  <2>4. QED
    BY <2>2, <2>3
<1>14. QED
  BY <1>3, <1>7, <1>11, <1>12, <1>13 DEF l, p, Placed

\* g sums up the sizes of the items in store, for every subset of the keys, by taking
\* one key after the other out of it.
SumsUp(g, store, keys) ==
  g = [s \in SUBSET keys |-> IF s = {} THEN 0
                             ELSE LET x == CHOOSE x \in s : TRUE IN store[x].size + g[s \ {x}]]

\* The items by key and the list have the same bytes, in whichever order they are
\* summed up: by induction on the number of keys taken.
LEMMA SumByKey ==
  ASSUME NEW R, \A x \in R : x.size \in Nat, NEW list \in Seq(R), Distinct(list),
         NEW store, \A i \in DOMAIN list : store[list[i].key] = list[i]
  PROVE  /\ \E g : SumsUp(g, store, KeysOf(list))
         /\ \A g : SumsUp(g, store, KeysOf(list)) => g[KeysOf(list)] = Bytes(list)
<1> DEFINE n == Len(list)
           keys == KeysOf(list)
           S == R \cup {Nothing}
           F == [s \in SUBSET keys |-> Bytes(Mask(list, s))]
<1>1. /\ n \in Nat /\ DOMAIN list = 1 .. n
      /\ \A i \in 1 .. n : list[i] \in R /\ list[i].key \in keys
      /\ \A x \in S : x.size \in Nat
  BY LenProperties, ElementOfSeq DEF KeysOf, Nothing
<1>4. ASSUME NEW s PROVE Mask(list, s) \in Seq(S) /\ Len(Mask(list, s)) = n
  BY <1>1 DEF Mask
<1>5. F[{}] = 0
  <2>1. \A i \in 1 .. n : Mask(list, {})[i].size = 0
    BY DEF Mask, Nothing
  <2>2. Bytes(Mask(list, {})) = 0
    BY <1>1, <1>4, <2>1, BytesOfNothing
  <2>3. QED
    BY <2>2
<1>6. ASSUME NEW s \in SUBSET keys, NEW x \in s PROVE F[s] = store[x].size + F[s \ {x}]
  <2>1. PICK p \in 1 .. n : list[p].key = x
    BY <1>1 DEF KeysOf
  <2>2. store[x] = list[p]
    BY <1>1, <2>1
  <2> DEFINE a == Mask(list, s)
             b == Mask(list, s \ {x})
  <2>3. a[p] = list[p] /\ b[p].size = 0
    BY <2>1 DEF Mask, Nothing
  <2>4. \A i \in 1 .. n : i # p => a[i] = b[i]
    <3>1. \A i \in 1 .. n : i # p => list[i].key # x
      BY <1>1, <2>1 DEF Distinct
    <3>2. QED
      BY <1>1, <3>1 DEF Mask
  <2>5. a \in Seq(S) /\ b \in Seq(S) /\ Len(a) = n /\ Len(b) = n
    BY <1>4
  <2> HIDE DEF a, b, S, n
  <2>6. Bytes(a) = a[p].size + Bytes(b)
    <3>1. /\ Len(b) = Len(a) /\ p \in 1 .. Len(a)
          /\ \A i \in 1 .. Len(a) : i # p => b[i] = a[i]
      BY <2>4, <2>5
    <3>2. QED
      BY <1>1, <2>3, <2>5, <3>1, BytesFill
  <2>7. s \ {x} \in SUBSET keys
    OBVIOUS
  <2>8. QED
    BY <2>2, <2>3, <2>6, <2>7 DEF a, b
<1>7. SumsUp(F, store, keys)
  <2> HIDE DEF keys
  <2>1. ASSUME NEW s \in SUBSET keys, s # {}
        PROVE  F[s] = LET x == CHOOSE x \in s : TRUE IN store[x].size + F[s \ {x}]
    <3>1. (CHOOSE x \in s : TRUE) \in s
      BY <2>1
    <3> HIDE DEF F
    <3>2. QED
      BY <1>6, <3>1
  <2>2. F = [s \in SUBSET keys |-> F[s]]
    OBVIOUS
  <2> HIDE DEF F
  <2>3. QED
    BY <1>5, <2>1, <2>2 DEF SumsUp
<1>8. SUFFICES ASSUME NEW sum, SumsUp(sum, store, keys) PROVE sum[keys] = Bytes(list)
  <2> HIDE DEF F
  <2>1. QED
    BY <1>7
<1>9. IsFiniteSet(keys)
  <2> DEFINE f == [i \in 1 .. n |-> list[i].key]
  <2>1. f \in Surjection(1 .. n, keys)
    BY <1>1 DEF Surjection, KeysOf
  <2>2. IsFiniteSet(1 .. n)
    BY <1>1, FS_Interval
  <2>3. QED
    BY <2>1, <2>2, FS_Surjection
<1> DEFINE T == { m \in Nat : \A s \in SUBSET keys : Cardinality(s) = m => sum[s] = F[s] }
<1>10. sum[{}] = 0 /\ \A s \in SUBSET keys : s # {} =>
          LET x == CHOOSE x \in s : TRUE IN sum[s] = store[x].size + sum[s \ {x}]
  <2> HIDE DEF keys
  <2>1. QED
    BY <1>8 DEF SumsUp
<1> HIDE DEF F, keys
<1>11. 0 \in T
  <2>1. ASSUME NEW s \in SUBSET keys, Cardinality(s) = 0 PROVE s = {}
    BY <1>9, <2>1, FS_Subset, FS_EmptySet
  <2>2. QED
    BY <1>5, <1>10, <2>1
<1>12. ASSUME NEW m \in Nat, m \in T PROVE m + 1 \in T
  <2> SUFFICES ASSUME NEW s \in SUBSET keys, Cardinality(s) = m + 1 PROVE sum[s] = F[s]
    OBVIOUS
  <2> DEFINE x == CHOOSE x \in s : TRUE
  <2>0. Cardinality({}) = 0 /\ m + 1 # 0
    BY FS_EmptySet
  <2>1. s # {}
    BY <2>0
  <2>2. x \in s /\ s \ {x} \in SUBSET keys
    BY <2>1
  <2>3. sum[s] = store[x].size + sum[s \ {x}]
    BY <1>10, <2>1
  <2> HIDE DEF x
  <2>4. Cardinality(s \ {x}) = m
    <3>1. IsFiniteSet(s)
      BY <1>9, FS_Subset
    <3>2. Cardinality(s \ {x}) = Cardinality(s) - 1
      BY <2>2, <3>1, FS_RemoveElement
    <3>3. QED
      BY <3>2
  <2>5. sum[s \ {x}] = F[s \ {x}]
    BY <1>12, <2>2, <2>4
  <2>6. QED
    BY <1>6, <2>2, <2>3, <2>5
<1>13. sum[keys] = F[keys]
  <2>1. Cardinality(keys) \in Nat
    BY <1>9, FS_CardinalityType
  <2> HIDE DEF T
  <2>2. Cardinality(keys) \in T
    BY <1>11, <1>12, <2>1, SetInduction
  <2>3. QED
    BY <2>2 DEF T
<1>14. Mask(list, keys) = list
  <2>1. \A i \in 1 .. n : Mask(list, keys)[i] = list[i]
    BY <1>1 DEF Mask
  <2>2. list = [i \in 1 .. n |-> list[i]]
    BY <1>1, LenProperties
  <2>3. QED
    BY <1>1, <2>1, <2>2 DEF Mask
<1>15. QED
  BY <1>13, <1>14 DEF F

-----------------------------------------------------------------------------
\* The eviction loop stops, and only ever drops entries from the back: n of them.
LEMMA EvictOverCuts ==
  ASSUME NEW S, NEW c, HasShape(c), c.list \in Seq(S)
  PROVE  /\ HasShape(EvictOver(c))
         /\ EvictOver(c).max = c.max /\ EvictOver(c).hits = c.hits /\ EvictOver(c).misses = c.misses
         /\ \E n \in 0 .. Len(c.list) : /\ EvictOver(c).list = SubSeq(c.list, 1, Len(c.list) - n)
                                       /\ EvictOver(c).evictions = c.evictions + n
<1> DEFINE stops == { n \in 0 .. Len(c.list) :
                        n = Len(c.list) \/ EvictBack(c, n).size <= c.max }
           last == CHOOSE n \in stops : \A m \in stops : n <= m
<1>1. Len(c.list) \in Nat
  BY LenProperties
<1>2. stops \subseteq Nat /\ stops # {}
  BY <1>1
<1> HIDE DEF stops
<1>3. \E n \in stops : \A m \in stops : n <= m
  BY <1>2, LeastNatural
<1>4. last \in 0 .. Len(c.list)
  BY <1>3 DEF stops
<1> HIDE DEF last
<1>5. EvictOver(c) = EvictBack(c, last)
  BY DEF EvictOver, last, stops
<1> DEFINE kept == Len(c.list) - last
           size == c.size - Bytes(SubSeq(c.list, kept + 1, Len(c.list)))
<1>6. EvictBack(c, last) = [list |-> SubSeq(c.list, 1, kept), size |-> size, max |-> c.max,
                            hits |-> c.hits, misses |-> c.misses, evictions |-> c.evictions + last]
  <2> HIDE DEF kept, size
  <2>1. EvictBack(c, last) = [c EXCEPT !.list = SubSeq(c.list, 1, kept), !.size = size,
                                       !.evictions = c.evictions + last]
    BY DEF EvictBack, kept, size
  <2>2. QED
    BY <2>1 DEF HasShape
<1> HIDE DEF size
<1>7. QED
  BY <1>4, <1>5, <1>6 DEF HasShape

\* So it leaves no other keys.
LEMMA EvictOverKeys ==
  ASSUME NEW S, NEW c, HasShape(c), c.list \in Seq(S)
  PROVE  /\ HasShape(EvictOver(c)) /\ EvictOver(c).list \in Seq(S)
         /\ KeysOf(EvictOver(c).list) \subseteq KeysOf(c.list)
         /\ EvictOver(c).max = c.max
<1>1. PICK n \in 0 .. Len(c.list) : EvictOver(c).list = SubSeq(c.list, 1, Len(c.list) - n)
  BY EvictOverCuts
<1>2. Len(c.list) - n \in 0 .. Len(c.list)
  BY LenProperties
<1>3. QED
  BY <1>1, <1>2, EvictOverCuts, PrefixKeys

\* Get drops at most the key it was asked for, and adds none.
LEMMA GetKeys ==
  ASSUME NEW S, NEW c, HasShape(c), c.list \in Seq(S), NEW key, NEW at
  PROVE  /\ HasShape(Get(c, key, at)) /\ Get(c, key, at).list \in Seq(S)
         /\ KeysOf(Get(c, key, at).list) \subseteq KeysOf(c.list)
         /\ Get(c, key, at).max = c.max
<1>1. CASE IsHit(c, key, at)
  <2>1. key \in KeysOf(c.list)
    BY <1>1 DEF IsHit
  <2> DEFINE list == <<Lookup(c.list, key)>> \o RemoveKey(c.list, key)
  <2>2. list \in Seq(S) /\ KeysOf(list) \subseteq KeysOf(c.list)
    BY <2>1, RemoveKeyKeys, FrontKeys
  <2> HIDE DEF list
  <2>3. Get(c, key, at) = [c EXCEPT !.list = list, !.hits = c.hits + 1]
    BY <1>1 DEF Get, list
  <2>4. Get(c, key, at) = [list |-> list, size |-> c.size, max |-> c.max,
                            hits |-> c.hits + 1, misses |-> c.misses, evictions |-> c.evictions]
    BY <2>3 DEF HasShape
  <2>5. QED
    BY <2>2, <2>4 DEF HasShape
<1>2. CASE ~IsHit(c, key, at) /\ key \in KeysOf(c.list)
  <2> DEFINE list == RemoveKey(c.list, key)
             size == c.size - Lookup(c.list, key).size
  <2>1. list \in Seq(S) /\ KeysOf(list) \subseteq KeysOf(c.list)
    BY <1>2, RemoveKeyKeys
  <2> HIDE DEF list, size
  <2>2. RemoveElement(c, key) = [c EXCEPT !.size = size, !.list = list]
    BY DEF RemoveElement, list, size
  <2>3. RemoveElement(c, key) = [list |-> list, size |-> size, max |-> c.max,
                                 hits |-> c.hits, misses |-> c.misses, evictions |-> c.evictions]
    BY <2>2 DEF HasShape
  <2>4. Get(c, key, at) = [RemoveElement(c, key) EXCEPT !.misses = @ + 1]
    BY <1>2 DEF Get
  <2>5. Get(c, key, at) = [list |-> list, size |-> size, max |-> c.max,
                            hits |-> c.hits, misses |-> c.misses + 1, evictions |-> c.evictions]
    BY <2>3, <2>4
  <2>6. QED
    BY <2>1, <2>5 DEF HasShape
<1>3. CASE ~IsHit(c, key, at) /\ key \notin KeysOf(c.list)
  <2>1. Get(c, key, at) = [c EXCEPT !.misses = c.misses + 1]
    BY <1>3 DEF Get
  <2>2. Get(c, key, at) = [list |-> c.list, size |-> c.size, max |-> c.max,
                            hits |-> c.hits, misses |-> c.misses + 1, evictions |-> c.evictions]
    BY <2>1 DEF HasShape
  <2>3. QED
    BY <2>2 DEF HasShape
<1>4. QED
  BY <1>1, <1>2, <1>3

\* Put adds at most the key of its item.
LEMMA PutKeys ==
  ASSUME NEW S, NEW c, HasShape(c), c.list \in Seq(S), NEW item \in S
  PROVE  /\ HasShape(Put(c, item)) /\ Put(c, item).list \in Seq(S)
         /\ KeysOf(Put(c, item).list) \subseteq KeysOf(c.list) \cup {item.key}
         /\ Put(c, item).max = c.max
<1>1. CASE item.size > c.max
  BY <1>1 DEF Put
<1>2. CASE ~(item.size > c.max) /\ item.key \in KeysOf(c.list)
  <2> DEFINE list == <<item>> \o RemoveKey(c.list, item.key)
             size == c.size - Lookup(c.list, item.key).size + item.size
             d == [c EXCEPT !.size = size, !.list = list]
  <2>1. list \in Seq(S) /\ KeysOf(list) \subseteq KeysOf(c.list) \cup {item.key}
    BY <1>2, RemoveKeyKeys, FrontKeys
  <2>2. Put(c, item) = EvictOver(d)
    BY <1>2 DEF Put
  <2> HIDE DEF list, size
  <2> HIDE DEF d
  <2>3. d = [c EXCEPT !.size = size, !.list = list]
    BY DEF d
  <2>4. d = [list |-> list, size |-> size, max |-> c.max,
             hits |-> c.hits, misses |-> c.misses, evictions |-> c.evictions]
    BY <2>3 DEF HasShape
  <2>5. HasShape(d) /\ d.list = list /\ d.max = c.max
    BY <2>4 DEF HasShape
  <2>6. /\ HasShape(EvictOver(d)) /\ EvictOver(d).list \in Seq(S)
        /\ KeysOf(EvictOver(d).list) \subseteq KeysOf(d.list)
        /\ EvictOver(d).max = d.max
    BY <2>1, <2>5, EvictOverKeys
  <2>7. QED
    BY <2>1, <2>2, <2>5, <2>6
<1>3. CASE ~(item.size > c.max) /\ item.key \notin KeysOf(c.list)
  <2> DEFINE list == <<item>> \o c.list
             size == c.size + item.size
             d == [c EXCEPT !.size = size, !.list = list]
  <2>1. list \in Seq(S) /\ KeysOf(list) \subseteq KeysOf(c.list) \cup {item.key}
    BY FrontKeys
  <2>2. Put(c, item) = EvictOver(d)
    BY <1>3 DEF Put
  <2> HIDE DEF list, size
  <2> HIDE DEF d
  <2>3. d = [c EXCEPT !.size = size, !.list = list]
    BY DEF d
  <2>4. d = [list |-> list, size |-> size, max |-> c.max,
             hits |-> c.hits, misses |-> c.misses, evictions |-> c.evictions]
    BY <2>3 DEF HasShape
  <2>5. HasShape(d) /\ d.list = list /\ d.max = c.max
    BY <2>4 DEF HasShape
  <2>6. /\ HasShape(EvictOver(d)) /\ EvictOver(d).list \in Seq(S)
        /\ KeysOf(EvictOver(d).list) \subseteq KeysOf(d.list)
        /\ EvictOver(d).max = d.max
    BY <2>1, <2>5, EvictOverKeys
  <2>7. QED
    BY <2>1, <2>2, <2>5, <2>6
<1>4. QED
  BY <1>1, <1>2, <1>3

-----------------------------------------------------------------------------
\* A cache whose keys are in its list once, and whose counters count.
Counting(c) ==
  /\ HasShape(c) /\ (\E S : c.list \in Seq(S)) /\ Distinct(c.list)
  /\ c.hits \in Nat /\ c.misses \in Nat /\ c.evictions \in Nat

\* Putting an item with a new key at the front keeps every other item.
LEMMA FrontItems ==
  ASSUME NEW S, NEW list \in Seq(S), NEW item \in S, Distinct(list), item.key \notin KeysOf(list)
  PROVE  LET l == <<item>> \o list
         IN  /\ l \in Seq(S) /\ Distinct(l) /\ KeysOf(l) = {item.key} \cup KeysOf(list)
             /\ Lookup(l, item.key) = item
             /\ \A k \in KeysOf(list) : Lookup(l, k) = Lookup(list, k)
<1> DEFINE l == <<item>> \o list
           n == Len(list)
<1>1. l \in Seq(S) /\ KeysOf(l) = {item.key} \cup KeysOf(list)
  BY FrontKeys
<1>2. /\ DOMAIN l = 1 .. n + 1 /\ l[1] = item /\ Distinct(l)
      /\ \A j \in 1 .. n : l[j + 1] = list[j]
  BY FrontDistinct
<1>3. n \in Nat /\ DOMAIN list = 1 .. n
  BY LenProperties
<1> HIDE DEF l, n
<1>4. Lookup(l, item.key) = item
  <2>1. 1 \in DOMAIN l
    BY <1>2, <1>3
  <2>2. QED
    BY <1>2, <2>1, LookupFinds
<1>5. ASSUME NEW k \in KeysOf(list) PROVE Lookup(l, k) = Lookup(list, k)
  <2>1. PICK j \in 1 .. n : list[j].key = k
    BY <1>3 DEF KeysOf
  <2>2. j + 1 \in DOMAIN l /\ l[j + 1] = list[j]
    BY <1>2, <1>3, <2>1
  <2>3. Lookup(l, l[j + 1].key) = l[j + 1]
    BY <1>2, <2>2, LookupFinds
  <2>4. Lookup(list, list[j].key) = list[j]
    BY <1>3, <2>1, LookupFinds
  <2>5. QED
    BY <2>1, <2>2, <2>3, <2>4
<1>6. QED
  BY <1>1, <1>2, <1>4, <1>5 DEF l

\* Get counts the hit or the miss, evicts nothing, and leaves every other key alone.
LEMMA GetCounts ==
  ASSUME NEW c, Counting(c), NEW key, NEW at
  PROVE  LET d == Get(c, key, at)
         IN  /\ Counting(d) /\ d.max = c.max /\ d.evictions = c.evictions
             /\ d.hits = IF IsHit(c, key, at) THEN c.hits + 1 ELSE c.hits
             /\ d.misses = IF IsHit(c, key, at) THEN c.misses ELSE c.misses + 1
             /\ IsHit(c, key, at) => key \in KeysOf(d.list)
             /\ \A k : k # key => /\ k \in KeysOf(d.list) <=> k \in KeysOf(c.list)
                                  /\ IsHit(d, k, at) <=> IsHit(c, k, at)
<1> DEFINE d == Get(c, key, at)
<1>1. PICK S : c.list \in Seq(S)
  BY DEF Counting
<1>2. HasShape(c) /\ Distinct(c.list)
  BY DEF Counting
<1>3. CASE IsHit(c, key, at)
  <2> DEFINE item == Lookup(c.list, key)
             rest == RemoveKey(c.list, key)
             list == <<item>> \o rest
  <2>1. key \in KeysOf(c.list)
    BY <1>3 DEF IsHit
  <2>2. /\ item \in S /\ item.key = key
        /\ rest \in Seq(S) /\ Within(rest, c.list) /\ KeysOf(rest) = KeysOf(c.list) \ {key}
    BY <1>1, <1>2, <2>1, RemoveKeyKeys, RemoveKeyWithin, RemoveKeyGone
  <2>3. Distinct(rest)
    BY <1>1, <1>2, <2>2, WithinDistinct
  <2>4. \A k \in KeysOf(rest) : Lookup(rest, k) = Lookup(c.list, k)
    BY <1>2, <2>2, <2>3, WithinLookup
  <2> HIDE DEF item, rest
  <2>5. /\ list \in Seq(S) /\ Distinct(list) /\ KeysOf(list) = {key} \cup KeysOf(rest)
        /\ \A k \in KeysOf(rest) : Lookup(list, k) = Lookup(rest, k)
    BY <2>2, <2>3, FrontItems
  <2>6. d = [c EXCEPT !.list = list, !.hits = c.hits + 1]
    BY <1>3 DEF Get, item, rest
  <2> HIDE DEF list, d
  <2>7. d = [list |-> list, size |-> c.size, max |-> c.max,
             hits |-> c.hits + 1, misses |-> c.misses, evictions |-> c.evictions]
    BY <1>2, <2>6 DEF HasShape
  <2>8. Counting(d)
    BY <2>5, <2>7 DEF Counting, HasShape
  <2>9. ASSUME NEW k, k # key
        PROVE  /\ k \in KeysOf(d.list) <=> k \in KeysOf(c.list)
               /\ IsHit(d, k, at) <=> IsHit(c, k, at)
    <3>1. k \in KeysOf(list) <=> k \in KeysOf(c.list)
      BY <2>2, <2>5, <2>9
    <3>2. k \in KeysOf(c.list) => Lookup(list, k) = Lookup(c.list, k)
      BY <2>2, <2>4, <2>5, <2>9
    <3>3. d.list = list
      BY <2>7
    <3>4. QED
      BY <3>1, <3>2, <3>3 DEF IsHit
  <2>10. QED
    BY <1>3, <2>5, <2>7, <2>8, <2>9 DEF d
<1>4. CASE ~IsHit(c, key, at) /\ key \in KeysOf(c.list)
  <2> DEFINE list == RemoveKey(c.list, key)
             size == c.size - Lookup(c.list, key).size
  <2>1. list \in Seq(S) /\ Within(list, c.list) /\ KeysOf(list) = KeysOf(c.list) \ {key}
    BY <1>1, <1>2, <1>4, RemoveKeyKeys, RemoveKeyWithin, RemoveKeyGone
  <2>2. Distinct(list)
    BY <1>1, <1>2, <2>1, WithinDistinct
  <2>3. \A k \in KeysOf(list) : Lookup(list, k) = Lookup(c.list, k)
    BY <1>2, <2>1, <2>2, WithinLookup
  <2> HIDE DEF list, size, d
  <2>4. RemoveElement(c, key) = [c EXCEPT !.size = size, !.list = list]
    BY DEF RemoveElement, list, size
  <2>5. RemoveElement(c, key) = [list |-> list, size |-> size, max |-> c.max,
                                 hits |-> c.hits, misses |-> c.misses, evictions |-> c.evictions]
    BY <1>2, <2>4 DEF HasShape
  <2>6. d = [RemoveElement(c, key) EXCEPT !.misses = @ + 1]
    BY <1>4 DEF Get, d
  <2>7. d = [list |-> list, size |-> size, max |-> c.max,
             hits |-> c.hits, misses |-> c.misses + 1, evictions |-> c.evictions]
    BY <2>5, <2>6
  <2>8. Counting(d)
    BY <2>1, <2>2, <2>7 DEF Counting, HasShape
  <2>9. ASSUME NEW k, k # key
        PROVE  /\ k \in KeysOf(d.list) <=> k \in KeysOf(c.list)
               /\ IsHit(d, k, at) <=> IsHit(c, k, at)
    <3>1. d.list = list
      BY <2>7
    <3>2. QED
      BY <2>1, <2>3, <2>9, <3>1 DEF IsHit
  <2>10. QED
    BY <1>4, <2>7, <2>8, <2>9 DEF d
<1>5. CASE ~IsHit(c, key, at) /\ key \notin KeysOf(c.list)
  <2> HIDE DEF d
  <2>1. d = [c EXCEPT !.misses = c.misses + 1]
    BY <1>5 DEF Get, d
  <2>2. d = [list |-> c.list, size |-> c.size, max |-> c.max,
             hits |-> c.hits, misses |-> c.misses + 1, evictions |-> c.evictions]
    BY <1>2, <2>1 DEF HasShape
  <2>3. Counting(d)
    BY <2>2 DEF Counting, HasShape
  <2>4. d.list = c.list
    BY <2>2
  <2>5. QED
    BY <1>5, <2>2, <2>3, <2>4 DEF d, IsHit
<1>6. QED
  BY <1>3, <1>4, <1>5

\* The eviction loop keeps everything unless it counts an eviction.
LEMMA EvictOverCounts ==
  ASSUME NEW c, Counting(c)
  PROVE  LET d == EvictOver(c)
         IN  /\ Counting(d) /\ d.max = c.max /\ d.hits = c.hits /\ d.misses = c.misses
             /\ d.evictions >= c.evictions
             /\ d.evictions = c.evictions => KeysOf(d.list) = KeysOf(c.list)
<1> DEFINE d == EvictOver(c)
<1>1. PICK S : c.list \in Seq(S)
  BY DEF Counting
<1>2. HasShape(c) /\ Distinct(c.list) /\ c.hits \in Nat /\ c.misses \in Nat /\ c.evictions \in Nat
  BY DEF Counting
<1>3. HasShape(d) /\ d.max = c.max /\ d.hits = c.hits /\ d.misses = c.misses
  BY <1>1, <1>2, EvictOverCuts
<1>4. PICK n \in 0 .. Len(c.list) : /\ d.list = SubSeq(c.list, 1, Len(c.list) - n)
                                    /\ d.evictions = c.evictions + n
  BY <1>1, <1>2, EvictOverCuts
<1> HIDE DEF d
<1>5. Len(c.list) \in Nat /\ DOMAIN c.list = 1 .. Len(c.list)
  BY <1>1, LenProperties
<1> DEFINE k == Len(c.list) - n
<1>6. k \in 0 .. Len(c.list)
  BY <1>5
<1>7. /\ d.list \in Seq(S) /\ Within(d.list, c.list) /\ DOMAIN d.list = 1 .. k
      /\ \A j \in 1 .. k : d.list[j] = c.list[j]
  BY <1>1, <1>4, <1>6, PrefixWithin
<1>8. Distinct(d.list)
  BY <1>1, <1>2, <1>7, WithinDistinct
<1>9. Counting(d) /\ d.evictions >= c.evictions
  <2>1. d.evictions \in Nat /\ d.evictions >= c.evictions
    BY <1>2, <1>4, <1>5
  <2>2. d.list \in Seq(S)
    BY <1>7
  <2> HIDE DEF k
  <2>3. QED
    BY <1>2, <1>3, <1>8, <2>1, <2>2 DEF Counting
<1>10. ASSUME d.evictions = c.evictions PROVE KeysOf(d.list) = KeysOf(c.list)
  <2>1. n = 0 /\ k = Len(c.list)
    BY <1>2, <1>4, <1>5, <1>10
  <2> HIDE DEF k
  <2>2. QED
    BY <1>5, <1>7, <2>1 DEF KeysOf
<1>11. QED
  BY <1>3, <1>9, <1>10 DEF d

\* So does Put, which takes in what is not larger than the cache.
LEMMA PutCounts ==
  ASSUME NEW c, Counting(c), NEW item
  PROVE  LET d == Put(c, item)
         IN  /\ Counting(d) /\ d.max = c.max /\ d.hits = c.hits /\ d.misses = c.misses
             /\ d.evictions >= c.evictions
             /\ d.evictions = c.evictions => /\ KeysOf(c.list) \subseteq KeysOf(d.list)
                                             /\ item.size > c.max \/ item.key \in KeysOf(d.list)
<1> DEFINE Kept(d) == /\ Counting(d) /\ d.max = c.max /\ d.hits = c.hits /\ d.misses = c.misses
                      /\ d.evictions = c.evictions
                      /\ KeysOf(d.list) = KeysOf(c.list) \cup {item.key}
<1>1. PICK R : c.list \in Seq(R)
  BY DEF Counting
<1> DEFINE S == R \cup {item}
<1>2. c.list \in Seq(S) /\ item \in S
  BY <1>1
<1> HIDE DEF S
<1>3. HasShape(c) /\ Distinct(c.list)
  BY DEF Counting
<1>4. ASSUME NEW d, Kept(d), Put(c, item) = EvictOver(d)
      PROVE  LET e == Put(c, item)
             IN  /\ Counting(e) /\ e.max = c.max /\ e.hits = c.hits /\ e.misses = c.misses
                 /\ e.evictions >= c.evictions
                 /\ e.evictions = c.evictions => /\ KeysOf(c.list) \subseteq KeysOf(e.list)
                                                 /\ item.size > c.max \/ item.key \in KeysOf(e.list)
  BY <1>4, EvictOverCounts
<1>5. CASE item.size > c.max
  <2>1. Put(c, item) = c
    BY <1>5 DEF Put
  <2>2. c.evictions >= c.evictions
    BY DEF Counting
  <2>3. QED
    BY <1>5, <2>1, <2>2
<1>6. ASSUME NEW list \in Seq(S), Distinct(list), KeysOf(list) = KeysOf(c.list) \cup {item.key},
             NEW size
      PROVE  Kept([c EXCEPT !.size = size, !.list = list])
  <2> DEFINE d == [c EXCEPT !.size = size, !.list = list]
  <2> HIDE DEF d
  <2>0. d = [c EXCEPT !.size = size, !.list = list]
    BY DEF d
  <2>1. d = [list |-> list, size |-> size, max |-> c.max,
             hits |-> c.hits, misses |-> c.misses, evictions |-> c.evictions]
    BY <1>3, <2>0 DEF HasShape
  <2>2. Counting(d)
    BY <1>6, <2>1 DEF Counting, HasShape
  <2>3. Kept(d)
    BY <1>6, <2>1, <2>2
  <2>4. QED
    BY <2>3 DEF d
<1> HIDE DEF Kept
<1>7. CASE ~(item.size > c.max) /\ item.key \in KeysOf(c.list)
  <2> DEFINE rest == RemoveKey(c.list, item.key)
             list == <<item>> \o rest
             size == c.size - Lookup(c.list, item.key).size + item.size
  <2>1. rest \in Seq(S) /\ Within(rest, c.list) /\ KeysOf(rest) = KeysOf(c.list) \ {item.key}
    BY <1>2, <1>3, <1>7, RemoveKeyKeys, RemoveKeyWithin, RemoveKeyGone
  <2>2. Distinct(rest)
    BY <1>2, <1>3, <2>1, WithinDistinct
  <2>3. Put(c, item) = EvictOver([c EXCEPT !.size = size, !.list = list])
    BY <1>7 DEF Put
  <2> HIDE DEF rest, size
  <2>4. list \in Seq(S) /\ Distinct(list) /\ KeysOf(list) = {item.key} \cup KeysOf(rest)
    BY <1>2, <2>1, <2>2, FrontItems
  <2>5. KeysOf(list) = KeysOf(c.list) \cup {item.key}
    BY <2>1, <2>4
  <2> HIDE DEF list
  <2>6. QED
    BY <1>4, <1>6, <2>3, <2>4, <2>5
<1>8. CASE ~(item.size > c.max) /\ item.key \notin KeysOf(c.list)
  <2> DEFINE list == <<item>> \o c.list
             size == c.size + item.size
  <2>1. Put(c, item) = EvictOver([c EXCEPT !.size = size, !.list = list])
    BY <1>8 DEF Put
  <2> HIDE DEF size
  <2>2. list \in Seq(S) /\ Distinct(list) /\ KeysOf(list) = {item.key} \cup KeysOf(c.list)
    BY <1>2, <1>3, <1>8, FrontItems
  <2>3. KeysOf(list) = KeysOf(c.list) \cup {item.key}
    BY <2>2
  <2> HIDE DEF list
  <2>4. QED
    BY <1>4, <1>6, <2>1, <2>2, <2>3
<1>9. QED
  BY <1>5, <1>7, <1>8

-----------------------------------------------------------------------------
\* What the recursive sum computes.
LEMMA SumToUnfolds ==
  ASSUME NEW s \in Seq(Nat)
  PROVE  /\ SumTo(s, 0) = 0
         /\ \A n \in 1 .. Len(s) : SumTo(s, n) = SumTo(s, n - 1) + s[n]
         /\ \A n \in 0 .. Len(s) : SumTo(s, n) \in Nat
<1> DEFINE len == Len(s)
           t == [k \in 1 .. len |-> [size |-> s[k]]]
           Step(g) == [m \in 0 .. len |-> IF m = 0 THEN 0 ELSE g[m - 1] + s[m]]
           sum == CHOOSE g : g = Step(g)
<1>1. len \in Nat /\ \A k \in 1 .. len : s[k] \in Nat
  BY LenProperties, ElementOfSeq
<1>2. PICK f : Sums(f, t)
  <2>1. t \in Seq([size : Nat]) /\ \A x \in [size : Nat] : x.size \in Nat
    BY <1>1
  <2>2. QED
    BY <2>1, SumsExist
<1>3. Len(t) = len /\ \A k \in 1 .. len : t[k].size = s[k]
  BY <1>1
<1> HIDE DEF t
<1>4. f \in [0 .. len -> Nat] /\ f[0] = 0 /\ \A n \in 1 .. len : f[n] = f[n - 1] + s[n]
  BY <1>2, <1>3 DEF Sums
<1>5. f = Step(f)
  <2>1. \A n \in 0 .. len : f[n] = IF n = 0 THEN 0 ELSE f[n - 1] + s[n]
    BY <1>1, <1>4
  <2>2. f = [n \in 0 .. len |-> f[n]]
    BY <1>4
  <2>3. QED
    BY <2>1, <2>2
<1>6. sum = Step(sum)
  <2> HIDE DEF Step
  <2>1. \E g : g = Step(g)
    BY <1>5
  <2>2. QED
    BY <2>1
<1>7. \A n : SumTo(s, n) = sum[n]
  BY DEF SumTo
<1> HIDE DEF sum
<1>8. sum[0] = 0 /\ \A n \in 1 .. len : sum[n] = sum[n - 1] + s[n]
  BY <1>1, <1>6
<1> DEFINE T == { n \in Nat : n <= len => sum[n] \in Nat }
<1>9. \A n \in 0 .. len : sum[n] \in Nat
  <2>1. 0 \in T
    BY <1>8
  <2>2. ASSUME NEW n \in Nat, n \in T PROVE n + 1 \in T
    <3> SUFFICES ASSUME n + 1 <= len PROVE sum[n + 1] \in Nat
      OBVIOUS
    <3>1. n + 1 \in 1 .. len /\ sum[n] \in Nat /\ (n + 1) - 1 = n
      BY <1>1, <2>2
    <3>2. QED
      BY <1>1, <1>8, <3>1
  <2>3. Nat \subseteq T
    <3> HIDE DEF T
    <3>1. QED
      BY <2>1, <2>2, SetInduction
  <2>4. QED
    BY <1>1, <2>3
<1>10. QED
  BY <1>7, <1>8, <1>9

\* A sum grows with what is summed up.
LEMMA SumToGrows ==
  ASSUME NEW s \in Seq(Nat), NEW k \in 0 .. Len(s)
  PROVE  SumTo(s, k) <= SumOf(s)
<1> DEFINE len == Len(s)
           T == { n \in Nat : k + n <= len => SumTo(s, k) <= SumTo(s, k + n) }
<1>1. len \in Nat /\ k \in Nat /\ (\A n \in 0 .. len : SumTo(s, n) \in Nat)
  BY LenProperties, SumToUnfolds
<1>2. 0 \in T
  BY <1>1
<1>3. ASSUME NEW n \in Nat, n \in T PROVE n + 1 \in T
  <2> SUFFICES ASSUME k + (n + 1) <= len PROVE SumTo(s, k) <= SumTo(s, k + (n + 1))
    OBVIOUS
  <2>1. /\ SumTo(s, k) <= SumTo(s, k + n) /\ k + (n + 1) \in 1 .. len
        /\ (k + (n + 1)) - 1 = k + n /\ k + n \in 0 .. len
    BY <1>1, <1>3
  <2>2. SumTo(s, k + (n + 1)) = SumTo(s, k + n) + s[k + (n + 1)] /\ s[k + (n + 1)] \in Nat
    BY <2>1, SumToUnfolds, ElementOfSeq
  <2>3. SumTo(s, k) \in Nat /\ SumTo(s, k + n) \in Nat
    BY <1>1, <2>1
  <2>4. QED
    BY <2>1, <2>2, <2>3
<1>4. len - k \in T
  <2> HIDE DEF T
  <2>1. len - k \in Nat
    BY <1>1
  <2>2. QED
    BY <1>2, <1>3, <2>1, SetInduction
<1>5. k + (len - k) = len
  BY <1>1
<1>6. QED
  BY <1>1, <1>4, <1>5 DEF SumOf

\* Sorted lists every number of a finite set, in ascending order: the rank of a number
\* is an injection into as many places as there are numbers.
LEMMA SortedLists ==
  ASSUME NEW S, S \subseteq Nat, IsFiniteSet(S)
  PROVE  LET r == Sorted(S)
         IN  /\ r \in Seq(S) /\ Len(r) = Cardinality(S) /\ DOMAIN r = 1 .. Cardinality(S)
             /\ \A i, j \in 1 .. Cardinality(S) : i < j => r[i] < r[j]
             /\ \A x \in S : \E i \in 1 .. Cardinality(S) : r[i] = x
<1> DEFINE n == Cardinality(S)
           Below(x) == { y \in S : y < x }
           rank == [x \in S |-> Cardinality(Below(x)) + 1]
           r == Sorted(S)
<1>1. n \in Nat
  BY FS_CardinalityType
<1>2. ASSUME NEW x \in S PROVE IsFiniteSet(Below(x)) /\ Cardinality(Below(x)) \in 0 .. n - 1
  <2>1. IsFiniteSet(S \ {x}) /\ Cardinality(S \ {x}) = n - 1
    BY FS_RemoveElement
  <2>2. Below(x) \in SUBSET (S \ {x})
    BY <1>2
  <2>3. IsFiniteSet(Below(x)) /\ Cardinality(Below(x)) <= n - 1
    BY <2>1, <2>2, FS_Subset
  <2>4. QED
    BY <1>1, <2>3, FS_CardinalityType
<1>3. ASSUME NEW x \in S, NEW z \in S, x < z
      PROVE  Cardinality(Below(x)) < Cardinality(Below(z))
  <2>1. Below(x) \cup {x} \in SUBSET Below(z) /\ x \notin Below(x)
    <3>1. x \in Nat /\ z \in Nat /\ \A y \in S : y \in Nat
      OBVIOUS
    <3>2. \A y \in S : y < x => y < z
      BY <1>3, <3>1
    <3>3. ~(x < x)
      BY <3>1
    <3>4. QED
      BY <1>3, <3>2, <3>3
  <2>2. Cardinality(Below(x) \cup {x}) = Cardinality(Below(x)) + 1
    BY <1>2, <2>1, FS_AddElement
  <2>3. Cardinality(Below(x) \cup {x}) <= Cardinality(Below(z))
    BY <1>2, <2>1, FS_Subset
  <2>4. QED
    BY <1>2, <2>2, <2>3
<1> HIDE DEF Below
<1>4. \A x, z \in S : Cardinality(Below(x)) = Cardinality(Below(z)) => x = z
  <2> SUFFICES ASSUME NEW x \in S, NEW z \in S, x # z,
                      Cardinality(Below(x)) = Cardinality(Below(z))
               PROVE  FALSE
    OBVIOUS
  <2>1. x < z \/ z < x
    OBVIOUS
  <2>2. QED
    BY <1>2, <1>3, <2>1
<1>5. rank \in Injection(S, 1 .. n)
  <2>1. rank \in [S -> 1 .. n]
    BY <1>1, <1>2
  <2>2. \A x, z \in S : rank[x] = rank[z] => x = z
    BY <1>2, <1>4
  <2> HIDE DEF rank
  <2>3. QED
    BY <2>1, <2>2 DEF Injection, IsInjective
<1>6. rank \in Surjection(S, 1 .. n)
  <2>1. IsFiniteSet(1 .. n) /\ Cardinality(1 .. n) = n
    BY <1>1, FS_Interval
  <2> HIDE DEF rank
  <2>2. QED
    BY <1>5, <2>1, FS_Injection
<1>7. ASSUME NEW k \in 1 .. n PROVE \E x \in S : Cardinality(Below(x)) = k - 1
  <2>1. PICK x \in S : rank[x] = k
    BY <1>6 DEF Surjection
  <2>2. QED
    BY <1>1, <1>2, <2>1
<1>8. r = [k \in 1 .. n |-> CHOOSE x \in S : Cardinality(Below(x)) = k - 1]
  BY DEF Sorted, Below
<1>9. \A k \in 1 .. n : r[k] \in S /\ Cardinality(Below(r[k])) = k - 1
  BY <1>7, <1>8
<1>10. r \in Seq(S) /\ Len(r) = n /\ DOMAIN r = 1 .. n
  <2>1. r \in [1 .. n -> S]
    BY <1>8, <1>9
  <2>2. QED
    BY <1>1, <2>1
<1> HIDE DEF r
<1>11. ASSUME NEW i \in 1 .. n, NEW j \in 1 .. n, i < j PROVE r[i] < r[j]
  <2>1. /\ r[i] \in S /\ Cardinality(Below(r[i])) = i - 1
        /\ r[j] \in S /\ Cardinality(Below(r[j])) = j - 1
    BY <1>9
  <2>2. r[i] # r[j] /\ ~(r[j] < r[i])
    <3>1. i \in Nat /\ j \in Nat
      BY <1>1
    <3>2. r[j] < r[i] => j - 1 < i - 1
      BY <1>3, <2>1
    <3>3. r[i] = r[j] => i - 1 = j - 1
      BY <2>1
    <3>4. QED
      BY <1>11, <3>1, <3>2, <3>3
  <2>3. r[i] \in Nat /\ r[j] \in Nat
    BY <2>1
  <2>4. QED
    BY <2>2, <2>3
<1>12. ASSUME NEW x \in S PROVE \E i \in 1 .. n : r[i] = x
  <2>1. Cardinality(Below(x)) + 1 \in 1 .. n
    BY <1>1, <1>2
  <2>2. Cardinality(Below(r[Cardinality(Below(x)) + 1])) = Cardinality(Below(x))
    BY <1>2, <1>9, <2>1
  <2>3. QED
    BY <1>4, <1>9, <2>1, <2>2
<1>13. QED
  BY <1>10, <1>11, <1>12 DEF r

\* A set of naturals that is bounded and not empty has a maximum.
LEMMA MaxExists ==
  ASSUME NEW S, S \subseteq Nat, S # {}, NEW n \in Nat, \A x \in S : x <= n
  PROVE  Max(S) \in S /\ \A x \in S : x <= Max(S)
<1> DEFINE bounds == { u \in Nat : \A x \in S : x <= u }
<1>1. PICK u \in bounds : \A v \in bounds : u <= v
  <2>1. bounds \subseteq Nat /\ n \in bounds
    OBVIOUS
  <2> HIDE DEF bounds
  <2>2. QED
    BY <2>1, LeastNatural
<1>2. u \in Nat /\ \A x \in S : x <= u
  BY <1>1
<1>3. u \in S
  <2> SUFFICES ASSUME u \notin S PROVE FALSE
    OBVIOUS
  <2>1. \A x \in S : x \in Nat /\ x <= u - 1
    BY <1>2
  <2>2. u - 1 \in Nat
    <3>1. PICK x : x \in S
      OBVIOUS
    <3>2. QED
      BY <1>2, <2>1, <3>1
  <2>3. QED
    BY <1>1, <1>2, <2>1, <2>2
<1>4. \E x \in S : \A y \in S : x >= y
  BY <1>2, <1>3
<1>5. Max(S) \in S /\ \A y \in S : Max(S) >= y
  BY <1>4 DEF Max
<1>6. QED
  BY <1>5

\* The maximum of a set of naturals is the one that is no less than the others.
LEMMA MaxIs ==
  ASSUME NEW S, S \subseteq Nat, NEW m \in S, \A x \in S : x <= m
  PROVE  Max(S) = m
<1>1. Max(S) \in S /\ \A x \in S : x <= Max(S)
  BY MaxExists
<1>2. Max(S) \in Nat /\ m \in Nat /\ Max(S) <= m /\ m <= Max(S)
  BY <1>1
<1>3. QED
  BY <1>2

-----------------------------------------------------------------------------
\* An ARC cache is about some keys, the items that are put into it and a budget.
World(w) == w.items \subseteq [key : w.keys, size : Nat \ {0}, expiry : Nat] /\ w.max \in Nat

\* What can be in a list: the active lists hold items as they were put, a ghost list
\* items without an expiry.
Entries(w) == [key : w.keys, size : Nat \ {0}, expiry : Nat]
Holds(w, o) == IF o \in {T1, T2} THEN w.items ELSE Entries(w)

\* The fields of a cache.
Shape(c) ==
  c = [lists |-> c.lists, bytes |-> c.bytes, ownerOf |-> c.ownerOf, p |-> c.p, max |-> c.max,
       hits |-> c.hits, misses |-> c.misses, evictions |-> c.evictions]

\* A list of owner o with the given keys, and its byte counter.
GoodList(w, list, bytes, o, keys) ==
  list \in Seq(Holds(w, o)) /\ Distinct(list) /\ KeysOf(list) = keys /\ bytes = Bytes(list)

\* The books of a cache agree, except that the keys in loose are in no list.
Books(w, lists, bytes, ownerOf, loose) ==
  /\ lists = [o \in Owners |-> lists[o]] /\ bytes = [o \in Owners |-> bytes[o]]
  /\ ownerOf \in [w.keys -> Owners \cup {Absent}]
  /\ \A o \in Owners : GoodList(w, lists[o], bytes[o], o, { k \in w.keys \ loose : ownerOf[k] = o })

ARCSound(w, c, loose) ==
  /\ Shape(c) /\ Books(w, c.lists, c.bytes, c.ownerOf, loose)
  /\ c.p \in 0 .. w.max /\ c.max = w.max
  /\ c.hits \in Nat /\ c.misses \in Nat /\ c.evictions \in Nat

\* The key has the same owner and the same entry in both caches.
Same(c, d, k) ==
  /\ d.ownerOf[k] = c.ownerOf[k]
  /\ \A o \in Owners : c.ownerOf[k] = o => Lookup(d.lists[o], k) = Lookup(c.lists[o], k)

\* What can be in a list is an item of one of the keys and has a size.
LEMMA HeldItems ==
  ASSUME NEW w, World(w)
  PROVE  /\ \A o \in Owners : \A x \in Holds(w, o) :
              x \in Entries(w) /\ x.size \in Nat /\ x.size > 0 /\ x.key \in w.keys
         /\ \A x \in w.items : x \in Entries(w) /\ x.size \in Nat /\ x.size > 0 /\ x.key \in w.keys
         /\ Holds(w, T1) = w.items /\ Holds(w, T2) = w.items
         /\ Holds(w, B1) = Entries(w) /\ Holds(w, B2) = Entries(w)
         /\ w.max \in Nat
<1>1. /\ Holds(w, T1) = w.items /\ Holds(w, T2) = w.items
      /\ Holds(w, B1) = Entries(w) /\ Holds(w, B2) = Entries(w)
  BY DEF Holds, T1, T2, B1, B2
<1>2. \A x \in Entries(w) : x.size \in Nat /\ x.size > 0 /\ x.key \in w.keys
  BY DEF Entries
<1>3. w.items \subseteq Entries(w) /\ w.max \in Nat
  BY DEF World, Entries
<1>4. QED
  BY <1>1, <1>2, <1>3 DEF Owners, Holds

\* The owners are four letters, and Absent is none of them.
LEMMA OwnersDiffer ==
  /\ Owners = {T1, T2, B1, B2} /\ Absent \notin Owners
  /\ T1 # T2 /\ T1 # B1 /\ T1 # B2 /\ T2 # B1 /\ T2 # B2 /\ B1 # B2
  BY DEF Owners, Absent, T1, T2, B1, B2

-----------------------------------------------------------------------------
\* Unlinking the entry of a key makes the key loose and disturbs no other.
LEMMA Unlinked ==
  ASSUME NEW w, World(w), NEW c, ARCSound(w, c, {}), NEW key \in w.keys, NEW o \in Owners,
         c.ownerOf[key] = o
  PROVE  LET d == Unlink(c, o, key)
             item == Lookup(c.lists[o], key)
         IN  /\ ARCSound(w, d, {key}) /\ d.ownerOf = c.ownerOf /\ d.p = c.p /\ d.max = c.max
             /\ d.hits = c.hits /\ d.misses = c.misses /\ d.evictions = c.evictions
             /\ item \in Holds(w, o) /\ item.key = key
             /\ d.bytes = [c.bytes EXCEPT ![o] = c.bytes[o] - item.size]
             /\ \A k \in w.keys \ {key} : Same(c, d, k)
<1> DEFINE d == Unlink(c, o, key)
           list == c.lists[o]
           item == Lookup(list, key)
           rest == RemoveKey(list, key)
           less == c.bytes[o] - item.size
           lists == [c.lists EXCEPT ![o] = rest]
           bytes == [c.bytes EXCEPT ![o] = less]
<1>1. /\ Shape(c) /\ c.p \in 0 .. w.max /\ c.max = w.max
      /\ c.hits \in Nat /\ c.misses \in Nat /\ c.evictions \in Nat
      /\ c.lists = [q \in Owners |-> c.lists[q]] /\ c.bytes = [q \in Owners |-> c.bytes[q]]
      /\ c.ownerOf \in [w.keys -> Owners \cup {Absent}]
      /\ \A q \in Owners :
           GoodList(w, c.lists[q], c.bytes[q], q, { k \in w.keys : c.ownerOf[k] = q })
  BY DEF ARCSound, Books
<1>2. /\ list \in Seq(Holds(w, o)) /\ Distinct(list) /\ c.bytes[o] = Bytes(list)
      /\ KeysOf(list) = { k \in w.keys : c.ownerOf[k] = o }
  BY <1>1 DEF GoodList
<1>3. key \in KeysOf(list) /\ \A x \in Holds(w, o) : x.size \in Nat
  BY <1>2, HeldItems
<1>4. /\ item \in Holds(w, o) /\ item.key = key
      /\ rest \in Seq(Holds(w, o)) /\ Distinct(rest) /\ KeysOf(rest) = KeysOf(list) \ {key}
      /\ Bytes(rest) = Bytes(list) - item.size
      /\ \A k \in KeysOf(rest) : Lookup(rest, k) = Lookup(list, k)
  BY <1>2, <1>3, TakenOut
<1> HIDE DEF d, list, item, rest, less, lists, bytes
<1>5. d = [c EXCEPT !.bytes = bytes, !.lists = lists]
  BY <1>1 DEF d, Unlink, bytes, lists, less, item, list, rest
<1>6. d = [lists |-> lists, bytes |-> bytes, ownerOf |-> c.ownerOf, p |-> c.p, max |-> c.max,
           hits |-> c.hits, misses |-> c.misses, evictions |-> c.evictions]
  BY <1>1, <1>5 DEF Shape
<1>7. /\ lists = [q \in Owners |-> lists[q]] /\ bytes = [q \in Owners |-> bytes[q]]
      /\ lists[o] = rest /\ bytes[o] = less
      /\ \A q \in Owners \ {o} : lists[q] = c.lists[q] /\ bytes[q] = c.bytes[q]
  BY <1>1 DEF lists, bytes
<1>8. ASSUME NEW q \in Owners
      PROVE  GoodList(w, lists[q], bytes[q], q, { k \in w.keys \ {key} : c.ownerOf[k] = q })
  <2>1. CASE q = o
    BY <1>2, <1>4, <1>7, <2>1 DEF GoodList, less
  <2>2. CASE q # o
    <3>1. { k \in w.keys \ {key} : c.ownerOf[k] = q } = { k \in w.keys : c.ownerOf[k] = q }
      BY <2>2
    <3>2. QED
      BY <1>1, <1>7, <2>2, <3>1
  <2>3. QED
    BY <2>1, <2>2
<1>9. ARCSound(w, d, {key})
  BY <1>1, <1>6, <1>7, <1>8 DEF ARCSound, Shape, Books
<1>10. ASSUME NEW k \in w.keys \ {key} PROVE Same(c, d, k)
  <2>1. ASSUME NEW q \in Owners, c.ownerOf[k] = q PROVE Lookup(lists[q], k) = Lookup(c.lists[q], k)
    <3>1. CASE q = o
      BY <1>2, <1>4, <1>7, <2>1, <3>1 DEF list
    <3>2. CASE q # o
      BY <1>7, <3>2
    <3>3. QED
      BY <3>1, <3>2
  <2>2. QED
    BY <1>6, <2>1 DEF Same
<1>11. /\ d.ownerOf = c.ownerOf /\ d.p = c.p /\ d.max = c.max
       /\ d.hits = c.hits /\ d.misses = c.misses /\ d.evictions = c.evictions
       /\ d.bytes = [c.bytes EXCEPT ![o] = c.bytes[o] - item.size]
  BY <1>6 DEF bytes, less
<1>12. QED
  BY <1>4, <1>9, <1>10, <1>11 DEF d, item, list

\* Pushing an item with the loose key ties it to that list and disturbs no other.
LEMMA Pushed ==
  ASSUME NEW w, World(w), NEW c, NEW o \in Owners, NEW item \in Holds(w, o),
         ARCSound(w, c, {item.key})
  PROVE  LET d == PushFront(c, o, item)
         IN  /\ ARCSound(w, d, {}) /\ d.p = c.p /\ d.max = c.max
             /\ d.hits = c.hits /\ d.misses = c.misses /\ d.evictions = c.evictions
             /\ d.ownerOf[item.key] = o /\ Lookup(d.lists[o], item.key) = item
             /\ d.bytes = [c.bytes EXCEPT ![o] = c.bytes[o] + item.size]
             /\ \A k \in w.keys \ {item.key} : Same(c, d, k)
<1> DEFINE d == PushFront(c, o, item)
           key == item.key
           list == c.lists[o]
           front == <<item>> \o list
           more == c.bytes[o] + item.size
           lists == [c.lists EXCEPT ![o] = front]
           bytes == [c.bytes EXCEPT ![o] = more]
           ownerOf == [c.ownerOf EXCEPT ![key] = o]
<1>1. /\ Shape(c) /\ c.p \in 0 .. w.max /\ c.max = w.max
      /\ c.hits \in Nat /\ c.misses \in Nat /\ c.evictions \in Nat
      /\ c.lists = [q \in Owners |-> c.lists[q]] /\ c.bytes = [q \in Owners |-> c.bytes[q]]
      /\ c.ownerOf \in [w.keys -> Owners \cup {Absent}]
      /\ \A q \in Owners :
           GoodList(w, c.lists[q], c.bytes[q], q, { k \in w.keys \ {key} : c.ownerOf[k] = q })
  BY DEF ARCSound, Books
<1>2. /\ list \in Seq(Holds(w, o)) /\ Distinct(list) /\ c.bytes[o] = Bytes(list)
      /\ KeysOf(list) = { k \in w.keys \ {key} : c.ownerOf[k] = o }
  BY <1>1 DEF GoodList
<1>3. key \notin KeysOf(list) /\ key \in w.keys /\ \A x \in Holds(w, o) : x.size \in Nat
  BY <1>2, HeldItems
<1>4. /\ front \in Seq(Holds(w, o)) /\ Distinct(front) /\ KeysOf(front) = KeysOf(list) \cup {key}
      /\ Bytes(front) = Bytes(list) + item.size /\ Lookup(front, key) = item
      /\ \A k \in KeysOf(list) : Lookup(front, k) = Lookup(list, k)
  BY <1>2, <1>3, PutInFront
<1> HIDE DEF d, key, list, front, more, lists, bytes, ownerOf
<1>5. d = [c EXCEPT !.bytes = bytes, !.lists = lists, !.ownerOf = ownerOf]
  BY <1>1 DEF d, PushFront, bytes, lists, ownerOf, more, front, list, key
<1>6. d = [lists |-> lists, bytes |-> bytes, ownerOf |-> ownerOf, p |-> c.p, max |-> c.max,
           hits |-> c.hits, misses |-> c.misses, evictions |-> c.evictions]
  BY <1>1, <1>5 DEF Shape
<1>7. /\ lists = [q \in Owners |-> lists[q]] /\ bytes = [q \in Owners |-> bytes[q]]
      /\ lists[o] = front /\ bytes[o] = more
      /\ \A q \in Owners \ {o} : lists[q] = c.lists[q] /\ bytes[q] = c.bytes[q]
  BY <1>1 DEF lists, bytes
<1>8. /\ ownerOf \in [w.keys -> Owners \cup {Absent}] /\ ownerOf[key] = o
      /\ \A k \in w.keys \ {key} : ownerOf[k] = c.ownerOf[k]
  BY <1>1, <1>3 DEF ownerOf
<1>9. ASSUME NEW q \in Owners
      PROVE  GoodList(w, lists[q], bytes[q], q, { k \in w.keys \ {} : ownerOf[k] = q })
  <2>1. CASE q = o
    <3>1. { k \in w.keys \ {} : ownerOf[k] = q } = KeysOf(front)
      BY <1>2, <1>3, <1>4, <1>8, <2>1
    <3>2. QED
      BY <1>2, <1>4, <1>7, <2>1, <3>1 DEF GoodList, more
  <2>2. CASE q # o
    <3>1. { k \in w.keys \ {} : ownerOf[k] = q } = { k \in w.keys \ {key} : c.ownerOf[k] = q }
      BY <1>8, <2>2
    <3>2. QED
      BY <1>1, <1>7, <2>2, <3>1
  <2>3. QED
    BY <2>1, <2>2
<1>10. ARCSound(w, d, {})
  BY <1>1, <1>6, <1>7, <1>8, <1>9 DEF ARCSound, Shape, Books
<1>11. ASSUME NEW k \in w.keys \ {key} PROVE Same(c, d, k)
  <2>1. ASSUME NEW q \in Owners, c.ownerOf[k] = q PROVE Lookup(lists[q], k) = Lookup(c.lists[q], k)
    <3>1. CASE q = o
      BY <1>2, <1>4, <1>7, <2>1, <3>1 DEF list
    <3>2. CASE q # o
      BY <1>7, <3>2
    <3>3. QED
      BY <3>1, <3>2
  <2>2. QED
    BY <1>6, <1>8, <2>1 DEF Same
<1>12. QED
  BY <1>4, <1>6, <1>7, <1>8, <1>10, <1>11 DEF d, bytes, more, key

\* Forgetting the loose key makes the books agree again.
LEMMA Forgotten ==
  ASSUME NEW w, World(w), NEW c, NEW key \in w.keys, ARCSound(w, c, {key})
  PROVE  LET d == Forget(c, key)
         IN  /\ ARCSound(w, d, {}) /\ d.p = c.p /\ d.max = c.max
             /\ d.hits = c.hits /\ d.misses = c.misses /\ d.evictions = c.evictions
             /\ d.ownerOf[key] = Absent /\ d.bytes = c.bytes
             /\ \A k \in w.keys \ {key} : Same(c, d, k)
<1> DEFINE d == Forget(c, key)
           ownerOf == [c.ownerOf EXCEPT ![key] = Absent]
<1>1. /\ Shape(c) /\ c.p \in 0 .. w.max /\ c.max = w.max
      /\ c.hits \in Nat /\ c.misses \in Nat /\ c.evictions \in Nat
      /\ c.lists = [q \in Owners |-> c.lists[q]] /\ c.bytes = [q \in Owners |-> c.bytes[q]]
      /\ c.ownerOf \in [w.keys -> Owners \cup {Absent}]
      /\ \A q \in Owners :
           GoodList(w, c.lists[q], c.bytes[q], q, { k \in w.keys \ {key} : c.ownerOf[k] = q })
  BY DEF ARCSound, Books
<1> HIDE DEF d, ownerOf
<1>2. d = [c EXCEPT !.ownerOf = ownerOf]
  BY <1>1 DEF d, Forget, ownerOf
<1>3. d = [lists |-> c.lists, bytes |-> c.bytes, ownerOf |-> ownerOf, p |-> c.p, max |-> c.max,
           hits |-> c.hits, misses |-> c.misses, evictions |-> c.evictions]
  BY <1>1, <1>2 DEF Shape
<1>4. /\ ownerOf \in [w.keys -> Owners \cup {Absent}] /\ ownerOf[key] = Absent
      /\ \A k \in w.keys \ {key} : ownerOf[k] = c.ownerOf[k]
  BY <1>1 DEF ownerOf
<1>5. ASSUME NEW q \in Owners
      PROVE  GoodList(w, c.lists[q], c.bytes[q], q, { k \in w.keys \ {} : ownerOf[k] = q })
  <2>1. { k \in w.keys \ {} : ownerOf[k] = q } = { k \in w.keys \ {key} : c.ownerOf[k] = q }
    BY <1>4, OwnersDiffer
  <2>2. QED
    BY <1>1, <2>1
<1>6. ARCSound(w, d, {})
  BY <1>1, <1>3, <1>4, <1>5 DEF ARCSound, Shape, Books
<1>7. QED
  BY <1>3, <1>4, <1>6 DEF d, Same

\* The counters of CacheStats are no part of the books.
SameBooks(c, d) ==
  d.lists = c.lists /\ d.bytes = c.bytes /\ d.ownerOf = c.ownerOf /\ d.p = c.p /\ d.max = c.max
Tally(c, hits, misses, evictions) ==
  c.hits = hits /\ c.misses = misses /\ c.evictions = evictions

LEMMA Counted ==
  ASSUME NEW w, World(w), NEW c, ARCSound(w, c, {})
  PROVE  /\ LET d == [c EXCEPT !.hits = c.hits + 1]
            IN  ARCSound(w, d, {}) /\ SameBooks(c, d) /\ Tally(d, c.hits + 1, c.misses, c.evictions)
         /\ LET d == [c EXCEPT !.misses = c.misses + 1]
            IN  ARCSound(w, d, {}) /\ SameBooks(c, d) /\ Tally(d, c.hits, c.misses + 1, c.evictions)
         /\ LET d == [c EXCEPT !.evictions = c.evictions + 1]
            IN  ARCSound(w, d, {}) /\ SameBooks(c, d) /\ Tally(d, c.hits, c.misses, c.evictions + 1)
<1>0. c.hits \in Nat /\ c.misses \in Nat /\ c.evictions \in Nat
  BY DEF ARCSound
<1>1. ASSUME NEW d, Shape(d), SameBooks(c, d), d.hits \in Nat, d.misses \in Nat, d.evictions \in Nat
      PROVE  ARCSound(w, d, {})
  BY <1>1 DEF ARCSound, SameBooks
<1> DEFINE n == c.hits + 1
           m == c.misses + 1
           e == c.evictions + 1
<1>2. ASSUME NEW d, d = [c EXCEPT !.hits = n]
      PROVE  Shape(d) /\ SameBooks(c, d) /\ Tally(d, n, c.misses, c.evictions)
  <2>1. d = [lists |-> c.lists, bytes |-> c.bytes, ownerOf |-> c.ownerOf, p |-> c.p, max |-> c.max,
             hits |-> n, misses |-> c.misses, evictions |-> c.evictions]
    BY <1>2 DEF ARCSound, Shape
  <2>2. QED
    BY <2>1 DEF Shape, SameBooks, Tally
<1>3. ASSUME NEW d, d = [c EXCEPT !.misses = m]
      PROVE  Shape(d) /\ SameBooks(c, d) /\ Tally(d, c.hits, m, c.evictions)
  <2>1. d = [lists |-> c.lists, bytes |-> c.bytes, ownerOf |-> c.ownerOf, p |-> c.p, max |-> c.max,
             hits |-> c.hits, misses |-> m, evictions |-> c.evictions]
    BY <1>3 DEF ARCSound, Shape
  <2>2. QED
    BY <2>1 DEF Shape, SameBooks, Tally
<1>4. ASSUME NEW d, d = [c EXCEPT !.evictions = e]
      PROVE  Shape(d) /\ SameBooks(c, d) /\ Tally(d, c.hits, c.misses, e)
  <2>1. d = [lists |-> c.lists, bytes |-> c.bytes, ownerOf |-> c.ownerOf, p |-> c.p, max |-> c.max,
             hits |-> c.hits, misses |-> c.misses, evictions |-> e]
    BY <1>4 DEF ARCSound, Shape
  <2>2. QED
    BY <2>1 DEF Shape, SameBooks, Tally
<1>5. n \in Nat /\ m \in Nat /\ e \in Nat
  BY <1>0
<1>6. QED
  BY <1>0, <1>1, <1>2, <1>3, <1>4, <1>5 DEF Tally

\* No key leaves the active lists without being counted as evicted.
Tallied(w, c, d) ==
  /\ d.hits = c.hits /\ d.misses = c.misses /\ d.evictions >= c.evictions
  /\ d.evictions = c.evictions => \A k \in w.keys : Active(c, k) => Active(d, k)

LEMMA TalliedOn ==
  ASSUME NEW w, NEW c, NEW d, NEW e, ARCSound(w, c, {}), ARCSound(w, d, {}), ARCSound(w, e, {}),
         Tallied(w, c, d), Tallied(w, d, e)
  PROVE  Tallied(w, c, e)
<1>1. c.evictions \in Nat /\ d.evictions \in Nat /\ e.evictions \in Nat
  BY DEF ARCSound
<1>2. e.evictions >= c.evictions /\ (e.evictions = c.evictions =>
                                       d.evictions = c.evictions /\ e.evictions = d.evictions)
  BY <1>1 DEF Tallied
<1>3. QED
  BY <1>2 DEF Tallied

\* The byte counters are naturals.
LEMMA CountersAreNatural ==
  ASSUME NEW w, World(w), NEW c, NEW loose, ARCSound(w, c, loose), NEW o \in Owners
  PROVE  c.bytes[o] \in Nat /\ (c.lists[o] = << >> <=> c.bytes[o] = 0)
<1>1. c.lists[o] \in Seq(Holds(w, o)) /\ c.bytes[o] = Bytes(c.lists[o])
  BY DEF ARCSound, Books, GoodList
<1>2. \A x \in Holds(w, o) : x.size \in Nat /\ x.size > 0
  BY HeldItems
<1>3. Bytes(c.lists[o]) \in Nat
  BY <1>1, <1>2, BytesConcat
<1>4. ASSUME c.lists[o] # << >> PROVE Bytes(c.lists[o]) # 0
  <2> DEFINE list == c.lists[o]
             rest == Tail(list)
  <2>1. Head(list) \in Holds(w, o) /\ rest \in Seq(Holds(w, o)) /\ list = <<Head(list)>> \o rest
    BY <1>1, <1>4, HeadTailProperties
  <2>2. Head(list).size \in Nat /\ Head(list).size > 0 /\ <<Head(list)>> \in Seq(Holds(w, o))
    BY <1>2, <2>1
  <2> HIDE DEF list, rest
  <2>3. Bytes(<<Head(list)>>) = Head(list).size
    BY <2>2, BytesOfFew
  <2>4. Bytes(<<Head(list)>> \o rest) = Bytes(<<Head(list)>>) + Bytes(rest) /\ Bytes(rest) \in Nat
    BY <1>2, <2>1, <2>2, BytesConcat
  <2>5. Bytes(list) = Head(list).size + Bytes(rest)
    BY <2>1, <2>3, <2>4
  <2>6. Bytes(list) # 0
    BY <2>2, <2>4, <2>5
  <2>7. QED
    BY <2>6 DEF list
<1>5. QED
  BY <1>1, <1>3, <1>4, BytesOfFew

\* A key that no list knows may be treated as loose.
LEMMA AbsentIsLoose ==
  ASSUME NEW w, World(w), NEW c, ARCSound(w, c, {}), NEW key, c.ownerOf[key] = Absent
  PROVE  ARCSound(w, c, {key})
<1>1. ASSUME NEW o \in Owners
      PROVE  { k \in w.keys \ {key} : c.ownerOf[k] = o } = { k \in w.keys \ {} : c.ownerOf[k] = o }
  BY OwnersDiffer
<1>2. QED
  BY <1>1 DEF ARCSound, Books

-----------------------------------------------------------------------------
\* An entry that moves to another list: only its own key is concerned.
LEMMA Moved ==
  ASSUME NEW w, World(w), NEW c, ARCSound(w, c, {}), NEW key \in w.keys, NEW o \in Owners,
         c.ownerOf[key] = o,
         NEW q \in Owners, NEW item \in Holds(w, q), item.key = key
  PROVE  LET d == PushFront(Unlink(c, o, key), q, item)
             old == Lookup(c.lists[o], key)
         IN  /\ ARCSound(w, d, {}) /\ d.p = c.p /\ d.max = c.max
             /\ Tally(d, c.hits, c.misses, c.evictions)
             /\ d.ownerOf[key] = q /\ Lookup(d.lists[q], key) = item
             /\ \A k \in w.keys \ {key} : Same(c, d, k)
             /\ old \in Holds(w, o) /\ old.key = key
             /\ o # q => /\ d.bytes[o] = c.bytes[o] - old.size
                         /\ d.bytes[q] = c.bytes[q] + item.size
             /\ \A r \in Owners \ {o, q} : d.bytes[r] = c.bytes[r]
<1> DEFINE e == Unlink(c, o, key)
           d == PushFront(e, q, item)
           old == Lookup(c.lists[o], key)
<1>1. /\ ARCSound(w, e, {key}) /\ e.ownerOf = c.ownerOf /\ e.p = c.p /\ e.max = c.max
      /\ e.hits = c.hits /\ e.misses = c.misses /\ e.evictions = c.evictions
      /\ old \in Holds(w, o) /\ old.key = key
      /\ e.bytes = [c.bytes EXCEPT ![o] = c.bytes[o] - old.size]
      /\ \A k \in w.keys \ {key} : Same(c, e, k)
  BY Unlinked, SMTT(30)
<1> HIDE DEF e, old
<1>2. /\ ARCSound(w, d, {}) /\ d.p = e.p /\ d.max = e.max
      /\ d.hits = e.hits /\ d.misses = e.misses /\ d.evictions = e.evictions
      /\ d.ownerOf[key] = q /\ Lookup(d.lists[q], key) = item
      /\ d.bytes = [e.bytes EXCEPT ![q] = e.bytes[q] + item.size]
      /\ \A k \in w.keys \ {key} : Same(e, d, k)
  BY <1>1, Pushed
<1> HIDE DEF d
<1>3. \A k \in w.keys \ {key} : Same(c, d, k)
  BY <1>1, <1>2 DEF Same
<1>4. c.bytes = [r \in Owners |-> c.bytes[r]]
  BY DEF ARCSound, Books
<1>5. /\ o # q => d.bytes[o] = c.bytes[o] - old.size /\ d.bytes[q] = c.bytes[q] + item.size
      /\ \A r \in Owners \ {o, q} : d.bytes[r] = c.bytes[r]
  BY <1>1, <1>2, <1>4
<1>6. QED
  BY <1>1, <1>2, <1>3, <1>5 DEF d, e, old, Tally

\* An entry that is removed for good.
LEMMA Dropped ==
  ASSUME NEW w, World(w), NEW c, ARCSound(w, c, {}), NEW key \in w.keys, NEW o \in Owners,
         c.ownerOf[key] = o
  PROVE  LET d == Forget(Unlink(c, o, key), key)
         IN  /\ ARCSound(w, d, {}) /\ d.p = c.p /\ d.max = c.max
             /\ Tally(d, c.hits, c.misses, c.evictions)
             /\ d.ownerOf[key] = Absent
             /\ \A k \in w.keys \ {key} : Same(c, d, k)
             /\ \A r \in Owners \ {o} : d.bytes[r] = c.bytes[r]
<1> DEFINE e == Unlink(c, o, key)
           d == Forget(e, key)
           old == Lookup(c.lists[o], key)
<1>1. /\ ARCSound(w, e, {key}) /\ e.ownerOf = c.ownerOf /\ e.p = c.p /\ e.max = c.max
      /\ e.hits = c.hits /\ e.misses = c.misses /\ e.evictions = c.evictions
      /\ e.bytes = [c.bytes EXCEPT ![o] = c.bytes[o] - old.size]
      /\ \A k \in w.keys \ {key} : Same(c, e, k)
  BY Unlinked
<1> HIDE DEF e, old
<1>2. /\ ARCSound(w, d, {}) /\ d.p = e.p /\ d.max = e.max
      /\ d.hits = e.hits /\ d.misses = e.misses /\ d.evictions = e.evictions
      /\ d.ownerOf[key] = Absent /\ d.bytes = e.bytes
      /\ \A k \in w.keys \ {key} : Same(e, d, k)
  BY <1>1, Forgotten
<1> HIDE DEF d
<1>3. \A k \in w.keys \ {key} : Same(c, d, k)
  BY <1>1, <1>2 DEF Same
<1>4. c.bytes = [r \in Owners |-> c.bytes[r]]
  BY DEF ARCSound, Books
<1>5. \A r \in Owners \ {o} : d.bytes[r] = c.bytes[r]
  BY <1>1, <1>2, <1>4
<1>6. QED
  BY <1>1, <1>2, <1>3, <1>5 DEF d, e, Tally

\* A new key.
LEMMA Admitted ==
  ASSUME NEW w, World(w), NEW c, ARCSound(w, c, {}), NEW o \in Owners, NEW item \in Holds(w, o),
         c.ownerOf[item.key] = Absent
  PROVE  LET d == PushFront(c, o, item)
         IN  /\ ARCSound(w, d, {}) /\ d.p = c.p /\ d.max = c.max
             /\ Tally(d, c.hits, c.misses, c.evictions)
             /\ d.ownerOf[item.key] = o /\ Lookup(d.lists[o], item.key) = item
             /\ \A k \in w.keys \ {item.key} : Same(c, d, k)
             /\ d.bytes[o] = c.bytes[o] + item.size
             /\ \A r \in Owners \ {o} : d.bytes[r] = c.bytes[r]
<1> DEFINE d == PushFront(c, o, item)
<1>1. /\ ARCSound(w, d, {}) /\ d.p = c.p /\ d.max = c.max
      /\ d.hits = c.hits /\ d.misses = c.misses /\ d.evictions = c.evictions
      /\ d.ownerOf[item.key] = o /\ Lookup(d.lists[o], item.key) = item
      /\ d.bytes = [c.bytes EXCEPT ![o] = c.bytes[o] + item.size]
      /\ \A k \in w.keys \ {item.key} : Same(c, d, k)
  <2>1. ARCSound(w, c, {item.key})
    BY AbsentIsLoose
  <2>2. QED
    BY <2>1, Pushed
<1>2. c.bytes = [r \in Owners |-> c.bytes[r]]
  BY DEF ARCSound, Books
<1> HIDE DEF d
<1>3. d.bytes[o] = c.bytes[o] + item.size /\ \A r \in Owners \ {o} : d.bytes[r] = c.bytes[r]
  BY <1>1, <1>2
<1>4. QED
  BY <1>1, <1>3 DEF d, Tally

\* The back of a list that is not empty is the entry of a key that the list owns.
LEMMA Victim ==
  ASSUME NEW w, World(w), NEW c, ARCSound(w, c, {}), NEW o \in Owners, c.lists[o] # << >>
  PROVE  LET victim == Last(c.lists[o])
         IN  /\ victim \in Holds(w, o) /\ victim.key \in w.keys /\ c.ownerOf[victim.key] = o
             /\ Lookup(c.lists[o], victim.key) = victim
<1> DEFINE list == c.lists[o]
           n == Len(list)
<1>1. /\ list \in Seq(Holds(w, o)) /\ Distinct(list)
      /\ KeysOf(list) = { k \in w.keys \ {} : c.ownerOf[k] = o }
  BY DEF ARCSound, Books, GoodList
<1>2. n \in Nat /\ n # 0 /\ DOMAIN list = 1 .. n
  BY <1>1, LenProperties
<1>3. n \in DOMAIN list /\ list[n] \in Holds(w, o) /\ Last(list) = list[n]
  BY <1>1, <1>2, ElementOfSeq DEF Last
<1> HIDE DEF n, list
<1>4. list[n].key \in KeysOf(list)
  BY <1>3 DEF KeysOf
<1>5. Lookup(list, list[n].key) = list[n]
  BY <1>1, <1>3, LookupFinds
<1>6. QED
  BY <1>1, <1>3, <1>4, <1>5 DEF list

\* The least recently used entry of an active list becomes a ghost.
LEMMA MovedToGhosts ==
  ASSUME NEW w, World(w), NEW c, ARCSound(w, c, {}), NEW o \in {T1, T2}, NEW g,
         g = IF o = T1 THEN B1 ELSE B2
  PROVE  LET d == MoveLRUToGhost(c, o, g)
         IN  /\ ARCSound(w, d, {}) /\ d.p = c.p /\ d.max = c.max /\ Tallied(w, c, d)
             /\ \A k \in w.keys : Same(c, d, k) \/ (c.ownerOf[k] = o /\ d.ownerOf[k] = g)
             /\ d.bytes[o] <= c.bytes[o]
             /\ \A r \in {T1, T2} \ {o} : d.bytes[r] = c.bytes[r]
<1> DEFINE d == MoveLRUToGhost(c, o, g)
<1>1. /\ o \in Owners /\ g \in Owners /\ o # g /\ g \notin {T1, T2}
      /\ Holds(w, o) = w.items /\ Holds(w, g) = Entries(w)
  BY OwnersDiffer, HeldItems
<1>2. CASE c.lists[o] = << >>
  <2>1. d = c
    BY <1>2 DEF MoveLRUToGhost
  <2>2. c.bytes[o] \in Nat /\ c.evictions \in Nat
    BY <1>1, CountersAreNatural DEF ARCSound
  <2>3. QED
    BY <2>1, <2>2 DEF Same, Tallied
<1>3. CASE c.lists[o] # << >>
  <2> DEFINE victim == Last(c.lists[o])
             key == victim.key
             ghost == Ghost(victim)
             e == PushFront(Unlink(c, o, key), g, ghost)
  <2>1. /\ victim \in w.items /\ key \in w.keys /\ c.ownerOf[key] = o
        /\ Lookup(c.lists[o], key) = victim
    BY <1>1, <1>3, Victim
  <2>2. d = [e EXCEPT !.evictions = e.evictions + 1]
    BY <1>3 DEF MoveLRUToGhost
  <2>3. ghost \in Holds(w, g) /\ ghost.key = key /\ victim.size \in Nat
    <3>1. victim \in Entries(w)
      BY <2>1, HeldItems
    <3> HIDE DEF victim
    <3>2. QED
      BY <1>1, <3>1 DEF Ghost, Entries, NoExpiry
  <2> HIDE DEF victim, key, ghost
  <2>4. /\ ARCSound(w, e, {}) /\ e.p = c.p /\ e.max = c.max
        /\ Tally(e, c.hits, c.misses, c.evictions)
        /\ e.ownerOf[key] = g
        /\ \A k \in w.keys \ {key} : Same(c, e, k)
        /\ e.bytes[o] = c.bytes[o] - victim.size
        /\ \A r \in Owners \ {o, g} : e.bytes[r] = c.bytes[r]
    BY <1>1, <2>1, <2>3, Moved
  <2> HIDE DEF e, d
  <2>5. ARCSound(w, d, {}) /\ SameBooks(e, d) /\ Tally(d, e.hits, e.misses, e.evictions + 1)
    BY <2>2, <2>4, Counted
  <2>6. c.bytes[o] \in Nat /\ c.evictions \in Nat
    BY <1>1, CountersAreNatural DEF ARCSound
  <2> HIDE DEF Tally
  <2>11. Tallied(w, c, d)
    BY <2>4, <2>5, <2>6 DEF Tally, Tallied
  <2>7. d.bytes[o] <= c.bytes[o]
    BY <2>3, <2>4, <2>5, <2>6 DEF SameBooks
  <2>8. \A r \in {T1, T2} \ {o} : d.bytes[r] = c.bytes[r]
    BY <1>1, <2>4, <2>5 DEF SameBooks, Owners
  <2>9. \A k \in w.keys : Same(c, d, k) \/ (c.ownerOf[k] = o /\ d.ownerOf[k] = g)
    BY <2>1, <2>4, <2>5 DEF SameBooks, Same
  <2>10. QED
    BY <2>4, <2>5, <2>7, <2>8, <2>9, <2>11 DEF SameBooks, d
<1>4. QED
  BY <1>2, <1>3

\* The least recently used ghost of a list is forgotten.
LEMMA GhostForgotten ==
  ASSUME NEW w, World(w), NEW c, ARCSound(w, c, {}), NEW o \in {B1, B2}
  PROVE  LET d == EvictLRUList(c, o)
         IN  /\ ARCSound(w, d, {}) /\ d.p = c.p /\ d.max = c.max /\ Tallied(w, c, d)
             /\ \A k \in w.keys : Same(c, d, k) \/ (c.ownerOf[k] = o /\ d.ownerOf[k] = Absent)
             /\ \A r \in {T1, T2} : d.bytes[r] = c.bytes[r]
<1> DEFINE d == EvictLRUList(c, o)
<1>1. o \in Owners /\ o \notin {T1, T2} /\ c.evictions \in Nat
  BY OwnersDiffer DEF ARCSound
<1>2. CASE c.lists[o] = << >>
  <2>1. d = c
    BY <1>2 DEF EvictLRUList
  <2>2. QED
    BY <1>1, <2>1 DEF Same, Tallied
<1>3. CASE c.lists[o] # << >>
  <2> DEFINE key == Last(c.lists[o]).key
  <2>1. key \in w.keys /\ c.ownerOf[key] = o
    BY <1>1, <1>3, Victim
  <2>2. d = Forget(Unlink(c, o, key), key)
    BY <1>3 DEF EvictLRUList
  <2> HIDE DEF key, d
  <2>3. /\ ARCSound(w, d, {}) /\ d.p = c.p /\ d.max = c.max
        /\ Tally(d, c.hits, c.misses, c.evictions)
        /\ d.ownerOf[key] = Absent
        /\ \A k \in w.keys \ {key} : Same(c, d, k)
        /\ \A r \in Owners \ {o} : d.bytes[r] = c.bytes[r]
    BY <1>1, <2>1, <2>2, Dropped
  <2>4. \A r \in {T1, T2} : d.bytes[r] = c.bytes[r]
    BY <1>1, <2>3 DEF Owners
  <2>5. Tallied(w, c, d)
    <3>1. \A k \in w.keys : Active(c, k) => Active(d, k)
      BY <1>1, <2>1, <2>3 DEF Active, Same
    <3>2. QED
      BY <1>1, <2>3, <3>1 DEF Tally, Tallied
  <2>6. QED
    BY <2>1, <2>3, <2>4, <2>5 DEF d
<1>4. QED
  BY <1>2, <1>3

-----------------------------------------------------------------------------
\* d is the cache c after some entries of T1 and T2 became ghosts, to make room for
\* size bytes.
Demoted(w, c, d, size) ==
  /\ ARCSound(w, d, {}) /\ d.p = c.p /\ d.max = c.max /\ Tallied(w, c, d)
  /\ \A k \in w.keys : \/ Same(c, d, k)
                       \/ c.ownerOf[k] = T1 /\ d.ownerOf[k] = B1
                       \/ c.ownerOf[k] = T2 /\ d.ownerOf[k] = B2
  /\ (\E k \in w.keys : c.ownerOf[k] = T2 /\ d.ownerOf[k] = B2) => d.bytes[T1] <= d.p
  /\ (\E k \in w.keys : c.ownerOf[k] # d.ownerOf[k]) => c.bytes[T1] + c.bytes[T2] + size > c.max
  /\ d.bytes[T1] + d.bytes[T2] <= c.bytes[T1] + c.bytes[T2]

\* One round of the loop of replace.
ReplaceRound(d, size, inB2) ==
  IF d.bytes[T1] + d.bytes[T2] + size <= d.max THEN d
  ELSE IF PrefersT1(d, inB2) THEN MoveLRUToGhost(d, T1, B1)
  ELSE IF d.bytes[T2] > 0 THEN MoveLRUToGhost(d, T2, B2)
  ELSE d

\* A round demotes at most one entry, one of T2 only while T1 is within its target.
LEMMA RoundDemotes ==
  ASSUME NEW w, World(w), NEW c, ARCSound(w, c, {}), NEW d, NEW size \in Nat, NEW inB2 \in BOOLEAN,
         Demoted(w, c, d, size)
  PROVE  Demoted(w, c, ReplaceRound(d, size, inB2), size)
<1> DEFINE e == ReplaceRound(d, size, inB2)
<1>1. /\ T1 \in Owners /\ T2 \in Owners
      /\ T1 # T2 /\ T1 # B1 /\ T1 # B2 /\ T2 # B1 /\ T2 # B2 /\ B1 # B2
  BY OwnersDiffer
<1>2. /\ ARCSound(w, d, {}) /\ d.p = c.p /\ d.max = c.max /\ d.max \in Nat /\ d.p \in Nat
      /\ Tallied(w, c, d)
      /\ c.bytes[T1] \in Nat /\ c.bytes[T2] \in Nat /\ d.bytes[T1] \in Nat /\ d.bytes[T2] \in Nat
  <2>1. c.p \in 0 .. w.max /\ c.max = w.max /\ w.max \in Nat
    BY HeldItems DEF ARCSound
  <2>2. QED
    BY <1>1, <2>1, CountersAreNatural DEF Demoted
<1>3. /\ \A k \in w.keys : \/ Same(c, d, k)
                           \/ c.ownerOf[k] = T1 /\ d.ownerOf[k] = B1
                           \/ c.ownerOf[k] = T2 /\ d.ownerOf[k] = B2
      /\ (\E k \in w.keys : c.ownerOf[k] = T2 /\ d.ownerOf[k] = B2) => d.bytes[T1] <= d.p
      /\ d.bytes[T1] + d.bytes[T2] <= c.bytes[T1] + c.bytes[T2]
  BY DEF Demoted
<1>4. CASE e = d
  BY <1>4
<1>5. CASE /\ ~(d.bytes[T1] + d.bytes[T2] + size <= d.max)
           /\ e = MoveLRUToGhost(d, T1, B1)
  <2> HIDE DEF e
  <2>1. /\ ARCSound(w, e, {}) /\ e.p = d.p /\ e.max = d.max /\ Tallied(w, d, e)
        /\ \A k \in w.keys : Same(d, e, k) \/ (d.ownerOf[k] = T1 /\ e.ownerOf[k] = B1)
        /\ e.bytes[T1] <= d.bytes[T1] /\ e.bytes[T2] = d.bytes[T2]
    BY <1>1, <1>2, <1>5, MovedToGhosts
  <2>2. e.bytes[T1] \in Nat
    BY <1>1, <2>1, CountersAreNatural
  <2>3. \A k \in w.keys : \/ Same(c, e, k)
                          \/ c.ownerOf[k] = T1 /\ e.ownerOf[k] = B1
                          \/ c.ownerOf[k] = T2 /\ e.ownerOf[k] = B2
    BY <1>1, <1>3, <2>1 DEF Same
  <2>4. ASSUME NEW k \in w.keys, c.ownerOf[k] = T2, e.ownerOf[k] = B2 PROVE e.bytes[T1] <= e.p
    <3>1. d.ownerOf[k] = B2
      BY <1>1, <2>1, <2>4 DEF Same
    <3>2. d.bytes[T1] <= d.p
      BY <1>3, <2>4, <3>1
    <3>3. QED
      BY <1>2, <2>1, <2>2, <3>2
  <2>5. c.bytes[T1] + c.bytes[T2] + size > c.max
    BY <1>2, <1>3, <1>5
  <2>6. e.bytes[T1] + e.bytes[T2] <= c.bytes[T1] + c.bytes[T2]
    BY <1>2, <1>3, <2>1, <2>2
  <2>7. ARCSound(w, e, {}) /\ e.p = c.p /\ e.max = c.max /\ Tallied(w, c, e)
    BY <1>2, <2>1, TalliedOn
  <2>8. QED
    BY <2>3, <2>4, <2>5, <2>6, <2>7 DEF Demoted, e
<1>6. CASE /\ ~(d.bytes[T1] + d.bytes[T2] + size <= d.max) /\ ~PrefersT1(d, inB2)
           /\ e = MoveLRUToGhost(d, T2, B2)
  <2> HIDE DEF e
  <2>1. /\ ARCSound(w, e, {}) /\ e.p = d.p /\ e.max = d.max /\ Tallied(w, d, e)
        /\ \A k \in w.keys : Same(d, e, k) \/ (d.ownerOf[k] = T2 /\ e.ownerOf[k] = B2)
        /\ e.bytes[T2] <= d.bytes[T2] /\ e.bytes[T1] = d.bytes[T1]
    BY <1>1, <1>2, <1>6, MovedToGhosts
  <2>2. e.bytes[T2] \in Nat
    BY <1>1, <2>1, CountersAreNatural
  <2>3. \A k \in w.keys : \/ Same(c, e, k)
                          \/ c.ownerOf[k] = T1 /\ e.ownerOf[k] = B1
                          \/ c.ownerOf[k] = T2 /\ e.ownerOf[k] = B2
    BY <1>1, <1>3, <2>1 DEF Same
  <2>4. e.bytes[T1] <= e.p
    BY <1>2, <1>6, <2>1 DEF PrefersT1
  <2>5. c.bytes[T1] + c.bytes[T2] + size > c.max
    BY <1>2, <1>3, <1>6
  <2>6. e.bytes[T1] + e.bytes[T2] <= c.bytes[T1] + c.bytes[T2]
    BY <1>2, <1>3, <2>1, <2>2
  <2>7. ARCSound(w, e, {}) /\ e.p = c.p /\ e.max = c.max /\ Tallied(w, c, e)
    BY <1>2, <2>1, TalliedOn
  <2>8. QED
    BY <2>3, <2>4, <2>5, <2>6, <2>7 DEF Demoted, e
<1>7. QED
  BY <1>4, <1>5, <1>6 DEF ReplaceRound

\* Any number of rounds does: by induction on the rounds.
LEMMA ReplaceDemotes ==
  ASSUME NEW w, World(w), NEW c, ARCSound(w, c, {}), NEW size \in Nat, NEW inB2 \in BOOLEAN
  PROVE  Demoted(w, c, Replace(c, size, inB2), size)
<1> DEFINE a == Len(c.lists[T1])
           b == Len(c.lists[T2])
           N == a + b
           R(d) == ReplaceRound(d, size, inB2)
           Steps(f, m) == f = [n \in 0 .. m |-> IF n = 0 THEN c ELSE R(f[n - 1])]
           after == CHOOSE f : Steps(f, N)
<1>1. N \in Nat
  <2>1. c.lists[T1] \in Seq(Holds(w, T1)) /\ c.lists[T2] \in Seq(Holds(w, T2))
    BY OwnersDiffer DEF ARCSound, Books, GoodList
  <2>2. a \in Nat /\ b \in Nat
    BY <2>1, LenProperties
  <2> HIDE DEF a, b
  <2>3. QED
    BY <2>2
<1>2. Replace(c, size, inB2) = after[N]
  BY DEF Replace, ReplaceRound
<1> HIDE DEF N, R
<1>3. \E f : Steps(f, N)
  <2> DEFINE T == { m \in Nat : \E f : Steps(f, m) }
  <2>1. 0 \in T
    <3>1. Steps([n \in 0 .. 0 |-> c], 0)
      OBVIOUS
    <3>2. QED
      BY <3>1
  <2>2. ASSUME NEW m \in Nat, m \in T PROVE m + 1 \in T
    <3>1. PICK f : Steps(f, m)
      BY <2>2
    <3> DEFINE g == [n \in 0 .. m + 1 |-> IF n <= m THEN f[n] ELSE R(f[m])]
    <3>2. ASSUME NEW n \in 0 .. m + 1 PROVE g[n] = IF n = 0 THEN c ELSE R(g[n - 1])
      <4>1. CASE n = 0
        BY <3>1, <4>1
      <4>2. CASE n \in 1 .. m
        <5>1. g[n] = f[n] /\ g[n - 1] = f[n - 1] /\ n # 0 /\ n \in 0 .. m
          BY <4>2
        <5>2. f[n] = R(f[n - 1])
          BY <3>1, <5>1
        <5>3. QED
          BY <5>1, <5>2
      <4>3. CASE n = m + 1
        <5>1. g[n] = R(f[m]) /\ g[n - 1] = f[m] /\ n # 0
          BY <4>3
        <5>2. QED
          BY <5>1
      <4>4. QED
        BY <4>1, <4>2, <4>3
    <3>3. g = [n \in 0 .. m + 1 |-> g[n]]
      OBVIOUS
    <3> HIDE DEF g
    <3>4. Steps(g, m + 1)
      BY <3>2, <3>3
    <3>5. QED
      BY <3>4
  <2> HIDE DEF T
  <2>3. N \in T
    BY <1>1, <2>1, <2>2, SetInduction
  <2>4. QED
    BY <2>3 DEF T
<1>4. Steps(after, N)
  <2> HIDE DEF Steps
  <2>1. QED
    BY <1>3
<1> HIDE DEF after
<1> DEFINE U == { n \in Nat : n <= N => Demoted(w, c, after[n], size) }
<1>5. 0 \in U
  <2>1. after[0] = c
    BY <1>1, <1>4
  <2>2. c.bytes[T1] \in Nat /\ c.bytes[T2] \in Nat
    BY CountersAreNatural, OwnersDiffer
  <2>3. Demoted(w, c, c, size)
    <3>1. c.evictions \in Nat
      BY DEF ARCSound
    <3>2. QED
      BY <2>2, <3>1, OwnersDiffer DEF Demoted, Same, Tallied
  <2>4. QED
    BY <2>1, <2>3
<1>6. ASSUME NEW n \in Nat, n \in U PROVE n + 1 \in U
  <2> SUFFICES ASSUME n + 1 <= N PROVE Demoted(w, c, after[n + 1], size)
    OBVIOUS
  <2>1. Demoted(w, c, after[n], size)
    BY <1>1, <1>6
  <2>2. n + 1 \in 0 .. N /\ n + 1 # 0 /\ (n + 1) - 1 = n
    BY <1>1
  <2>3. after[n + 1] = R(after[n])
    BY <1>4, <2>2
  <2>4. QED
    BY <2>1, <2>3, RoundDemotes DEF R
<1> HIDE DEF U
<1>7. N \in U
  BY <1>1, <1>5, <1>6, SetInduction
<1>8. QED
  BY <1>1, <1>2, <1>7 DEF U

-----------------------------------------------------------------------------
\* d is the cache c after item, whose key was not active, was admitted to list q: others
\* became ghosts only if they and the item did not fit, those of T2 only with T1, beside
\* the item, within its target, and only ghosts were forgotten.
AdmittedWithRoom(w, c, d, item, q) ==
  /\ ARCSound(w, d, {}) /\ d.ownerOf[item.key] = q /\ Lookup(d.lists[q], item.key) = item
  /\ Tallied(w, c, d)
  /\ \A k \in w.keys \ {item.key} : \/ Same(c, d, k)
                                    \/ c.ownerOf[k] = T1 /\ d.ownerOf[k] = B1
                                    \/ c.ownerOf[k] = T2 /\ d.ownerOf[k] = B2
                                    \/ c.ownerOf[k] \in {B1, B2} /\ d.ownerOf[k] = Absent
  /\ (\E k \in w.keys \ {item.key} : c.ownerOf[k] \in {T1, T2} /\ c.ownerOf[k] # d.ownerOf[k])
       => c.bytes[T1] + c.bytes[T2] + item.size > w.max
  /\ (\E k \in w.keys : c.ownerOf[k] = T2 /\ d.ownerOf[k] = B2)
       => d.bytes[T1] - (IF q = T1 THEN item.size ELSE 0) <= d.p

\* replace and PushFront do this for a key the directory does not know, and forget none.
LEMMA ReplaceThenPush ==
  ASSUME NEW w, World(w), NEW c, ARCSound(w, c, {}), NEW item \in w.items,
         c.ownerOf[item.key] = Absent,
         NEW q \in {T1, T2}, NEW inB2 \in BOOLEAN
  PROVE  LET d == PushFront(Replace(c, item.size, inB2), q, item)
         IN  /\ AdmittedWithRoom(w, c, d, item, q)
             /\ \A k \in w.keys : d.ownerOf[k] = Absent => c.ownerOf[k] = Absent
<1> DEFINE e == Replace(c, item.size, inB2)
           d == PushFront(e, q, item)
           key == item.key
<1>1. /\ q \in Owners /\ T1 \in Owners /\ T2 \in Owners /\ Absent \notin Owners /\ B1 \in Owners
      /\ T1 # T2 /\ T1 # B1 /\ T1 # B2 /\ T2 # B1 /\ T2 # B2 /\ B1 # B2 /\ B2 \in Owners
  BY OwnersDiffer
<1>2. item \in Holds(w, q) /\ item.size \in Nat /\ key \in w.keys /\ w.max \in Nat
  BY HeldItems
<1>3. Demoted(w, c, e, item.size)
  BY <1>2, ReplaceDemotes
<1> HIDE DEF e
<1>4. ARCSound(w, e, {}) /\ e.ownerOf[key] = Absent
  BY <1>1, <1>2, <1>3 DEF Demoted, Same
<1>5. /\ ARCSound(w, d, {}) /\ d.p = e.p /\ Tally(d, e.hits, e.misses, e.evictions)
      /\ d.ownerOf[key] = q /\ Lookup(d.lists[q], key) = item
      /\ \A k \in w.keys \ {key} : Same(e, d, k)
      /\ d.bytes[q] = e.bytes[q] + item.size
      /\ \A r \in Owners \ {q} : d.bytes[r] = e.bytes[r]
  BY <1>1, <1>2, <1>4, Admitted
<1> HIDE DEF d, key
<1>6. ASSUME NEW k \in w.keys \ {key}
      PROVE  \/ Same(c, d, k)
             \/ c.ownerOf[k] = T1 /\ d.ownerOf[k] = B1
             \/ c.ownerOf[k] = T2 /\ d.ownerOf[k] = B2
  <2>1. \/ Same(c, e, k)
        \/ c.ownerOf[k] = T1 /\ e.ownerOf[k] = B1
        \/ c.ownerOf[k] = T2 /\ e.ownerOf[k] = B2
    BY <1>3 DEF Demoted
  <2>2. Same(e, d, k)
    BY <1>5
  <2>3. QED
    BY <2>1, <2>2 DEF Same
<1>7. ASSUME NEW k \in w.keys \ {key}, c.ownerOf[k] # d.ownerOf[k]
      PROVE  c.bytes[T1] + c.bytes[T2] + item.size > w.max
  <2>1. c.ownerOf[k] # e.ownerOf[k]
    BY <1>5, <1>7 DEF Same
  <2>2. c.bytes[T1] + c.bytes[T2] + item.size > c.max
    BY <1>3, <2>1 DEF Demoted
  <2>3. QED
    BY <2>2 DEF ARCSound
<1>8. ASSUME NEW k \in w.keys, c.ownerOf[k] = T2, d.ownerOf[k] = B2
      PROVE  d.bytes[T1] - (IF q = T1 THEN item.size ELSE 0) <= d.p
  <2>1. k # key
    BY <1>1, <1>5, <1>8
  <2>2. e.ownerOf[k] = B2
    BY <1>5, <1>8, <2>1 DEF Same
  <2>3. e.bytes[T1] <= e.p
    BY <1>3, <1>8, <2>2 DEF Demoted
  <2>4. e.bytes[T1] \in Nat
    BY <1>1, <1>4, CountersAreNatural
  <2>5. CASE q = T1
    <3>1. d.bytes[T1] - item.size = e.bytes[T1]
      BY <1>2, <1>5, <2>4, <2>5
    <3>2. QED
      BY <1>5, <2>3, <2>5, <3>1
  <2>6. CASE q # T1
    <3>1. d.bytes[T1] = e.bytes[T1]
      BY <1>1, <1>5, <2>6
    <3>2. QED
      BY <1>5, <2>3, <2>4, <2>6, <3>1
  <2>7. QED
    BY <2>5, <2>6
<1>12. Tallied(w, c, d)
  <2>1. \A k \in w.keys : Active(e, k) => Active(d, k)
    BY <1>2, <1>5 DEF Active, Same, key
  <2>2. Tallied(w, e, d)
    <3>1. e.evictions \in Nat
      BY <1>4 DEF ARCSound
    <3>2. QED
      BY <1>5, <2>1, <3>1 DEF Tally, Tallied
  <2>3. Tallied(w, c, e)
    BY <1>3 DEF Demoted
  <2>4. QED
    BY <1>4, <1>5, <2>2, <2>3, TalliedOn
<1>9. AdmittedWithRoom(w, c, d, item, q)
  BY <1>5, <1>6, <1>7, <1>8, <1>12 DEF AdmittedWithRoom, key
<1>10. \A k \in w.keys : d.ownerOf[k] = Absent => c.ownerOf[k] = Absent
  BY <1>1, <1>5, <1>6 DEF Same
<1>11. QED
  BY <1>9, <1>10 DEF d, e

\* Setting the target within its range leaves the books alone.
LEMMA Retargeted ==
  ASSUME NEW w, World(w), NEW c, ARCSound(w, c, {}), NEW p \in 0 .. w.max
  PROVE  LET d == [c EXCEPT !.p = p]
         IN  /\ ARCSound(w, d, {}) /\ d.lists = c.lists /\ d.bytes = c.bytes
             /\ d.ownerOf = c.ownerOf
             /\ Tally(d, c.hits, c.misses, c.evictions)
<1> DEFINE d == [c EXCEPT !.p = p]
<1>1. d = [lists |-> c.lists, bytes |-> c.bytes, ownerOf |-> c.ownerOf, p |-> p, max |-> c.max,
           hits |-> c.hits, misses |-> c.misses, evictions |-> c.evictions]
  BY DEF ARCSound, Shape
<1> HIDE DEF d
<1>2. /\ Shape(d) /\ d.lists = c.lists /\ d.bytes = c.bytes /\ d.ownerOf = c.ownerOf
      /\ d.p = p /\ d.max = c.max /\ Tally(d, c.hits, c.misses, c.evictions)
  BY <1>1 DEF Shape, Tally
<1>3. ARCSound(w, d, {})
  BY <1>2 DEF ARCSound, Tally
<1>4. QED
  BY <1>2, <1>3 DEF d

\* A ghost hit.
LEMMA Readmitted ==
  ASSUME NEW w, World(w), NEW c, ARCSound(w, c, {}), NEW item \in w.items,
         NEW o \in {B1, B2}, c.ownerOf[item.key] = o, NEW p \in 0 .. w.max
  PROVE  AdmittedWithRoom(w, c, Readmit(c, o, item, p), item, T2)
<1> DEFINE key == item.key
           gone == Forget(Unlink(c, o, key), key)
           e == [gone EXCEPT !.p = p]
           d == PushFront(Replace(e, item.size, o = B2), T2, item)
<1>1. o \in Owners /\ o \notin {T1, T2} /\ T1 \in Owners /\ T2 \in Owners /\ T1 # T2 /\ T2 # B2
  BY OwnersDiffer
<1>2. key \in w.keys /\ item.size \in Nat
  BY HeldItems
<1>3. /\ ARCSound(w, gone, {}) /\ gone.ownerOf[key] = Absent
      /\ Tally(gone, c.hits, c.misses, c.evictions)
      /\ \A k \in w.keys \ {key} : Same(c, gone, k)
      /\ \A r \in Owners \ {o} : gone.bytes[r] = c.bytes[r]
  BY <1>1, <1>2, Dropped
<1> HIDE DEF gone
<1>4. /\ ARCSound(w, e, {}) /\ e.lists = gone.lists /\ e.bytes = gone.bytes
      /\ e.ownerOf = gone.ownerOf
      /\ Tally(e, gone.hits, gone.misses, gone.evictions)
  BY <1>3, Retargeted
<1> HIDE DEF e
<1>5. /\ e.ownerOf[key] = Absent /\ e.bytes[T1] = c.bytes[T1] /\ e.bytes[T2] = c.bytes[T2]
      /\ \A k \in w.keys \ {key} : Same(c, e, k)
  BY <1>1, <1>3, <1>4 DEF Same
<1>6. AdmittedWithRoom(w, e, d, item, T2)
  <2>1. e.ownerOf[item.key] = Absent /\ (o = B2) \in BOOLEAN
    BY <1>5
  <2>2. QED
    BY <1>4, <2>1, ReplaceThenPush
<1>7. d = Readmit(c, o, item, p)
  BY DEF Readmit, e, gone
<1> HIDE DEF d
<1>8. ASSUME NEW k \in w.keys \ {key}
      PROVE  \/ Same(c, d, k)
             \/ c.ownerOf[k] = T1 /\ d.ownerOf[k] = B1
             \/ c.ownerOf[k] = T2 /\ d.ownerOf[k] = B2
             \/ c.ownerOf[k] \in {B1, B2} /\ d.ownerOf[k] = Absent
  BY <1>5, <1>6 DEF AdmittedWithRoom, Same
<1>9. ASSUME NEW k \in w.keys \ {key}, c.ownerOf[k] \in {T1, T2}, c.ownerOf[k] # d.ownerOf[k]
      PROVE  c.bytes[T1] + c.bytes[T2] + item.size > w.max
  <2>1. e.ownerOf[k] = c.ownerOf[k]
    BY <1>5 DEF Same
  <2>2. e.bytes[T1] + e.bytes[T2] + item.size > w.max
    BY <1>6, <1>9, <2>1 DEF AdmittedWithRoom
  <2>3. QED
    BY <1>5, <2>2
<1>10. ASSUME NEW k \in w.keys, c.ownerOf[k] = T2, d.ownerOf[k] = B2
       PROVE  d.bytes[T1] - (IF T2 = T1 THEN item.size ELSE 0) <= d.p
  <2>1. k # key /\ e.ownerOf[k] = T2
    BY <1>1, <1>5, <1>10 DEF Same
  <2>2. QED
    BY <1>6, <1>10, <2>1 DEF AdmittedWithRoom
<1>11. /\ ARCSound(w, d, {}) /\ d.ownerOf[key] = T2 /\ Lookup(d.lists[T2], key) = item
  BY <1>6 DEF AdmittedWithRoom
<1>14. Tallied(w, c, d)
  <2>1. \A k \in w.keys : Active(c, k) => Active(e, k)
    BY <1>1, <1>5 DEF Active, Same
  <2>2. Tallied(w, c, e)
    <3>1. c.evictions \in Nat
      BY DEF ARCSound
    <3>2. QED
      BY <1>3, <1>4, <2>1, <3>1 DEF Tally, Tallied
  <2>3. Tallied(w, e, d)
    BY <1>6 DEF AdmittedWithRoom
  <2>4. QED
    BY <1>4, <1>11, <2>2, <2>3, TalliedOn
<1>12. AdmittedWithRoom(w, c, d, item, T2)
  BY <1>8, <1>9, <1>10, <1>11, <1>14 DEF AdmittedWithRoom
<1>13. QED
  BY <1>7, <1>12

\* What goes before replace for a key that no list knows.
LEMMA RoomMade ==
  ASSUME NEW w, World(w), NEW c, ARCSound(w, c, {}), NEW size \in Nat, size > 0
  PROVE  LET d == MakeRoom(c, size)
         IN  /\ ARCSound(w, d, {}) /\ Tallied(w, c, d)
             /\ \A k \in w.keys : \/ Same(c, d, k)
                                  \/ c.ownerOf[k] = T1 /\ d.ownerOf[k] = B1
                                  \/ c.ownerOf[k] \in {B1, B2} /\ d.ownerOf[k] = Absent
             /\ (\E k \in w.keys : c.ownerOf[k] = T1 /\ d.ownerOf[k] = B1)
                  => c.bytes[T1] + c.bytes[T2] + size > w.max
             /\ d.bytes[T1] + d.bytes[T2] <= c.bytes[T1] + c.bytes[T2]
<1> DEFINE d == MakeRoom(c, size)
<1>1. /\ T1 \in Owners /\ T2 \in Owners /\ Absent \notin Owners /\ B1 \in Owners
      /\ T1 # T2 /\ T1 # B1 /\ T1 # B2 /\ T2 # B1 /\ T2 # B2 /\ B1 # B2
  BY OwnersDiffer
<1>2. /\ c.bytes[T1] \in Nat /\ c.bytes[T2] \in Nat /\ c.max = w.max /\ w.max \in Nat
      /\ c.evictions \in Nat
  BY <1>1, CountersAreNatural, HeldItems DEF ARCSound
<1>3. CASE d = c
  BY <1>1, <1>2, <1>3 DEF Same, Tallied
<1>4. CASE d = EvictLRUList(c, B1) \/ d = EvictLRUList(c, B2)
  <2> HIDE DEF d
  <2>1. PICK o \in {B1, B2} : d = EvictLRUList(c, o)
    BY <1>4
  <2>2. /\ ARCSound(w, d, {}) /\ Tallied(w, c, d)
        /\ \A k \in w.keys : Same(c, d, k) \/ (c.ownerOf[k] = o /\ d.ownerOf[k] = Absent)
        /\ d.bytes[T1] = c.bytes[T1] /\ d.bytes[T2] = c.bytes[T2]
    BY <2>1, GhostForgotten
  <2>3. \A k \in w.keys : ~(c.ownerOf[k] = T1 /\ d.ownerOf[k] = B1)
    BY <1>1, <2>2 DEF Same
  <2>4. QED
    BY <1>2, <2>2, <2>3 DEF d
<1>5. CASE d = MoveLRUToGhost(c, T1, B1) /\ ~(c.bytes[T1] < c.max)
  <2> HIDE DEF d
  <2>1. /\ ARCSound(w, d, {}) /\ Tallied(w, c, d)
        /\ \A k \in w.keys : Same(c, d, k) \/ (c.ownerOf[k] = T1 /\ d.ownerOf[k] = B1)
        /\ d.bytes[T1] <= c.bytes[T1] /\ d.bytes[T2] = c.bytes[T2]
    BY <1>1, <1>5, MovedToGhosts
  <2>2. c.bytes[T1] + c.bytes[T2] + size > w.max
    BY <1>2, <1>5
  <2>3. d.bytes[T1] \in Nat
    BY <1>1, <2>1, CountersAreNatural
  <2>4. d.bytes[T1] + d.bytes[T2] <= c.bytes[T1] + c.bytes[T2]
    BY <1>2, <2>1, <2>3
  <2>5. QED
    BY <2>1, <2>2, <2>4 DEF d
<1>6. QED
  BY <1>3, <1>4, <1>5 DEF MakeRoom

\* A key that no list knows.
LEMMA FreshInserted ==
  ASSUME NEW w, World(w), NEW c, ARCSound(w, c, {}), NEW item \in w.items,
         c.ownerOf[item.key] = Absent
  PROVE  AdmittedWithRoom(w, c, InsertFresh(c, item), item, T1)
<1> DEFINE key == item.key
           e == MakeRoom(c, item.size)
           d == PushFront(Replace(e, item.size, FALSE), T1, item)
<1>1. /\ T1 \in Owners /\ T2 \in Owners /\ Absent \notin Owners /\ B1 \in Owners /\ B2 \in Owners
      /\ T1 # T2 /\ T1 # B1 /\ T1 # B2 /\ T2 # B1 /\ T2 # B2 /\ B1 # B2
  BY OwnersDiffer
<1>2. key \in w.keys /\ item.size \in Nat /\ item.size > 0 /\ w.max \in Nat
  BY HeldItems
<1>3. /\ ARCSound(w, e, {}) /\ Tallied(w, c, e)
      /\ \A k \in w.keys : \/ Same(c, e, k)
                           \/ c.ownerOf[k] = T1 /\ e.ownerOf[k] = B1
                           \/ c.ownerOf[k] \in {B1, B2} /\ e.ownerOf[k] = Absent
      /\ (\E k \in w.keys : c.ownerOf[k] = T1 /\ e.ownerOf[k] = B1)
           => c.bytes[T1] + c.bytes[T2] + item.size > w.max
      /\ e.bytes[T1] + e.bytes[T2] <= c.bytes[T1] + c.bytes[T2]
  BY <1>2, RoomMade
<1>4. d = InsertFresh(c, item)
  BY DEF InsertFresh
<1> HIDE DEF e
<1>5. e.ownerOf[key] = Absent
  BY <1>1, <1>2, <1>3 DEF Same
<1>6. /\ AdmittedWithRoom(w, e, d, item, T1)
      /\ \A k \in w.keys : d.ownerOf[k] = Absent => e.ownerOf[k] = Absent
  <2>1. e.ownerOf[item.key] = Absent /\ FALSE \in BOOLEAN /\ T1 \in {T1, T2}
    BY <1>5
  <2>2. QED
    BY <1>3, <2>1, ReplaceThenPush
<1> HIDE DEF d, key
<1>7. ASSUME NEW k \in w.keys \ {key}
      PROVE  \/ Same(c, d, k)
             \/ c.ownerOf[k] = T1 /\ d.ownerOf[k] = B1
             \/ c.ownerOf[k] = T2 /\ d.ownerOf[k] = B2
             \/ c.ownerOf[k] \in {B1, B2} /\ d.ownerOf[k] = Absent
  <2> DEFINE u == c.ownerOf[k]
             v == e.ownerOf[k]
             x == d.ownerOf[k]
  <2>1. \/ Same(c, e, k)
        \/ u = T1 /\ v = B1
        \/ u \in {B1, B2} /\ v = Absent
    BY <1>3
  <2>2. \/ Same(e, d, k)
        \/ v = T1 /\ x = B1
        \/ v = T2 /\ x = B2
    BY <1>1, <1>6 DEF AdmittedWithRoom, key
  <2>3. QED
    BY <1>1, <2>1, <2>2 DEF Same
<1>8. ASSUME NEW k \in w.keys \ {key}, c.ownerOf[k] \in {T1, T2}, c.ownerOf[k] # d.ownerOf[k]
      PROVE  c.bytes[T1] + c.bytes[T2] + item.size > w.max
  <2>1. CASE c.ownerOf[k] = T1 /\ e.ownerOf[k] = B1
    BY <1>3, <2>1
  <2>2. CASE e.ownerOf[k] = c.ownerOf[k]
    <3>1. e.bytes[T1] + e.bytes[T2] + item.size > w.max
      BY <1>6, <1>8, <2>2 DEF AdmittedWithRoom, key
    <3>2. /\ e.bytes[T1] \in Nat /\ e.bytes[T2] \in Nat
          /\ c.bytes[T1] \in Nat /\ c.bytes[T2] \in Nat
      BY <1>1, <1>3, CountersAreNatural
    <3>3. QED
      BY <1>2, <1>3, <3>1, <3>2
  <2>3. QED
    BY <1>1, <1>3, <1>8, <2>1, <2>2 DEF Same
<1>9. ASSUME NEW k \in w.keys, c.ownerOf[k] = T2, d.ownerOf[k] = B2
      PROVE  d.bytes[T1] - (IF T1 = T1 THEN item.size ELSE 0) <= d.p
  <2>1. e.ownerOf[k] = T2
    BY <1>1, <1>3, <1>9 DEF Same
  <2>2. QED
    BY <1>6, <1>9, <2>1 DEF AdmittedWithRoom
<1>10. /\ ARCSound(w, d, {}) /\ d.ownerOf[key] = T1 /\ Lookup(d.lists[T1], key) = item
  BY <1>6 DEF AdmittedWithRoom, key
<1>13. Tallied(w, c, d)
  BY <1>3, <1>6, <1>10, TalliedOn DEF AdmittedWithRoom
<1>11. AdmittedWithRoom(w, c, d, item, T1)
  BY <1>7, <1>8, <1>9, <1>10, <1>13 DEF AdmittedWithRoom, key
<1>12. QED
  BY <1>4, <1>11

\* An item put in the place of an active one.
LEMMA Updated ==
  ASSUME NEW w, World(w), NEW c, ARCSound(w, c, {}), NEW item \in w.items, Active(c, item.key)
  PROVE  LET d == UpdateInPlace(c, item)
         IN  /\ ARCSound(w, d, {}) /\ d.ownerOf = c.ownerOf /\ Tallied(w, c, d)
             /\ Lookup(d.lists[d.ownerOf[item.key]], item.key) = item
             /\ \A k \in w.keys \ {item.key} : Same(c, d, k)
<1> DEFINE d == UpdateInPlace(c, item)
           key == item.key
           o == c.ownerOf[key]
           list == c.lists[o]
           new == Placed(list, item)
           now == c.bytes[o] - Lookup(list, key).size + item.size
           lists == [c.lists EXCEPT ![o] = new]
           bytes == [c.bytes EXCEPT ![o] = now]
<1>1. /\ Shape(c) /\ c.p \in 0 .. w.max /\ c.max = w.max
      /\ c.hits \in Nat /\ c.misses \in Nat /\ c.evictions \in Nat
      /\ c.lists = [q \in Owners |-> c.lists[q]] /\ c.bytes = [q \in Owners |-> c.bytes[q]]
      /\ c.ownerOf \in [w.keys -> Owners \cup {Absent}]
      /\ \A q \in Owners :
           GoodList(w, c.lists[q], c.bytes[q], q, { k \in w.keys \ {} : c.ownerOf[k] = q })
  BY DEF ARCSound, Books
<1>2. o \in Owners /\ Holds(w, o) = w.items /\ key \in w.keys /\ \A x \in w.items : x.size \in Nat
  BY OwnersDiffer, HeldItems DEF Active
<1>3. /\ list \in Seq(w.items) /\ Distinct(list) /\ c.bytes[o] = Bytes(list)
      /\ KeysOf(list) = { k \in w.keys \ {} : c.ownerOf[k] = o }
  BY <1>1, <1>2 DEF GoodList
<1>4. /\ new \in Seq(w.items) /\ Distinct(new) /\ KeysOf(new) = KeysOf(list)
      /\ Bytes(new) = Bytes(list) - Lookup(list, key).size + item.size
      /\ Lookup(new, key) = item
      /\ \A k \in KeysOf(list) \ {key} : Lookup(new, k) = Lookup(list, k)
  <2>1. key \in KeysOf(list)
    BY <1>2, <1>3
  <2>2. list \in Seq(w.items) /\ Distinct(list) /\ \A x \in w.items : x.size \in Nat
    BY <1>2, <1>3
  <2> HIDE DEF list, o
  <2>3. QED
    BY <2>1, <2>2, PutInPlace
<1> HIDE DEF d, key, o, list, new, now, lists, bytes
<1>5. d = [c EXCEPT !.bytes = bytes, !.lists = lists]
  BY <1>1 DEF d, UpdateInPlace, Entry, Placed, bytes, lists, now, new, list, o, key
<1>6. d = [lists |-> lists, bytes |-> bytes, ownerOf |-> c.ownerOf, p |-> c.p, max |-> c.max,
           hits |-> c.hits, misses |-> c.misses, evictions |-> c.evictions]
  BY <1>1, <1>5 DEF Shape
<1>7. /\ lists = [q \in Owners |-> lists[q]] /\ bytes = [q \in Owners |-> bytes[q]]
      /\ lists[o] = new /\ bytes[o] = now
      /\ \A q \in Owners \ {o} : lists[q] = c.lists[q] /\ bytes[q] = c.bytes[q]
  BY <1>1, <1>2 DEF lists, bytes
<1>8. ASSUME NEW q \in Owners
      PROVE  GoodList(w, lists[q], bytes[q], q, { k \in w.keys \ {} : c.ownerOf[k] = q })
  <2>1. CASE q = o
    BY <1>2, <1>3, <1>4, <1>7, <2>1 DEF GoodList, now
  <2>2. CASE q # o
    BY <1>1, <1>7, <2>2
  <2>3. QED
    BY <2>1, <2>2
<1>9. ARCSound(w, d, {})
  BY <1>1, <1>6, <1>7, <1>8 DEF ARCSound, Shape, Books
<1>10. ASSUME NEW k \in w.keys \ {key} PROVE Same(c, d, k)
  <2>1. ASSUME NEW q \in Owners, c.ownerOf[k] = q PROVE Lookup(lists[q], k) = Lookup(c.lists[q], k)
    <3>1. CASE q = o
      BY <1>3, <1>4, <1>7, <2>1, <3>1 DEF list
    <3>2. CASE q # o
      BY <1>7, <3>2
    <3>3. QED
      BY <3>1, <3>2
  <2>2. QED
    BY <1>6, <2>1 DEF Same
<1>11. d.ownerOf = c.ownerOf /\ Lookup(d.lists[d.ownerOf[key]], key) = item /\ Tallied(w, c, d)
  <2>1. c.evictions \in Nat
    BY DEF ARCSound
  <2>2. QED
    BY <1>4, <1>6, <1>7, <2>1 DEF o, Tallied, Active
<1>12. QED
  BY <1>9, <1>10, <1>11 DEF d, key

\* How far a ghost hit moves the target, and that it stays in its range.
LEMMA TargetsInRange ==
  ASSUME NEW w, World(w), NEW c, ARCSound(w, c, {}), NEW item \in w.items
  PROVE  /\ c.ownerOf[item.key] = B1 => GrowTarget(c, item) \in 0 .. w.max
         /\ c.ownerOf[item.key] = B2 => ShrinkTarget(c, item) \in 0 .. w.max
<1>1. B1 \in Owners /\ B2 \in Owners
  BY OwnersDiffer
<1>2. /\ c.bytes[B1] \in Nat /\ c.bytes[B2] \in Nat /\ c.max = w.max /\ w.max \in Nat
      /\ c.p \in Nat /\ c.p <= w.max /\ item.key \in w.keys
  <2>1. c.bytes[B1] \in Nat /\ c.bytes[B2] \in Nat
    BY <1>1, CountersAreNatural
  <2>2. c.max = w.max /\ c.p \in 0 .. w.max
    BY DEF ARCSound
  <2>3. w.max \in Nat /\ item.key \in w.keys
    BY HeldItems
  <2>4. QED
    BY <2>1, <2>2, <2>3
<1>3. ASSUME NEW m \in Nat, NEW n \in Nat, NEW s \in Nat
      PROVE  (IF m > n /\ n > 0 THEN m \div n ELSE 1) * s \in Nat
  <2>1. ASSUME n > 0 PROVE m \div n \in Nat
    BY <2>1
  <2>2. \A a \in Nat : a * s \in Nat
    OBVIOUS
  <2>3. QED
    BY <2>1, <2>2
<1>4. ASSUME NEW o \in {B1, B2}, c.ownerOf[item.key] = o PROVE Entry(c, item.key).size \in Nat
  <2>1. /\ c.lists[o] \in Seq(Holds(w, o))
        /\ KeysOf(c.lists[o]) = { k \in w.keys \ {} : c.ownerOf[k] = o }
    BY <1>1 DEF ARCSound, Books, GoodList
  <2>2. item.key \in KeysOf(c.lists[o])
    BY <1>2, <1>4, <2>1
  <2>3. Lookup(c.lists[o], item.key) \in Holds(w, o)
    BY <2>1, <2>2, RemoveKeyKeys
  <2>4. QED
    BY <1>1, <1>4, <2>3, HeldItems DEF Entry
<1>5. ASSUME c.ownerOf[item.key] = B1 PROVE GrowTarget(c, item) \in 0 .. w.max
  <2>1. TargetStep(c, B1, B2, item.key) \in Nat
    BY <1>2, <1>3, <1>4, <1>5 DEF TargetStep
  <2>2. QED
    BY <1>2, <2>1 DEF GrowTarget, AtMost
<1>6. ASSUME c.ownerOf[item.key] = B2 PROVE ShrinkTarget(c, item) \in 0 .. w.max
  <2>1. TargetStep(c, B2, B1, item.key) \in Nat
    BY <1>2, <1>3, <1>4, <1>6 DEF TargetStep
  <2>2. QED
    BY <1>2, <2>1 DEF ShrinkTarget, AtLeast
<1>7. QED
  BY <1>5, <1>6

-----------------------------------------------------------------------------
\* What a call makes of the cache c, in one of six ways.
HitEffect(w, c, d, key) ==
  /\ Active(c, key) /\ Entry(c, key) \in w.items
  /\ d.ownerOf[key] = T2 /\ Lookup(d.lists[T2], key) = Entry(c, key)
  /\ Tally(d, c.hits + 1, c.misses, c.evictions)
  /\ \A k \in w.keys \ {key} : Same(c, d, k)

MissEffect(w, c, d, key) ==
  /\ Tally(d, c.hits, c.misses + 1, c.evictions)
  /\ Active(c, key) => d.ownerOf[key] = Absent
  /\ ~Active(c, key) => Same(c, d, key)
  /\ \A k \in w.keys \ {key} : Same(c, d, k)

UpdateEffect(w, c, d, item) ==
  /\ Active(c, item.key) /\ Tallied(w, c, d)
  /\ d.ownerOf = c.ownerOf /\ Lookup(d.lists[d.ownerOf[item.key]], item.key) = item
  /\ \A k \in w.keys \ {item.key} : Same(c, d, k)

AdmitEffect(w, c, d, item) ==
  /\ ~Active(c, item.key)
  /\ \/ c.ownerOf[item.key] \in {B1, B2} /\ AdmittedWithRoom(w, c, d, item, T2)
     \/ c.ownerOf[item.key] = Absent /\ AdmittedWithRoom(w, c, d, item, T1)

\* The entry of an active key is an item that was put under that key.
LEMMA ActiveEntry ==
  ASSUME NEW w, World(w), NEW c, ARCSound(w, c, {}), NEW key \in w.keys, Active(c, key)
  PROVE  /\ c.ownerOf[key] \in Owners /\ Entry(c, key) \in w.items /\ Entry(c, key).key = key
         /\ Entry(c, key) = Lookup(c.lists[c.ownerOf[key]], key)
<1> DEFINE o == c.ownerOf[key]
<1>1. o \in Owners /\ Holds(w, o) = w.items
  BY OwnersDiffer, HeldItems DEF Active
<1>2. c.lists[o] \in Seq(w.items) /\ KeysOf(c.lists[o]) = { k \in w.keys \ {} : c.ownerOf[k] = o }
  BY <1>1 DEF ARCSound, Books, GoodList
<1>3. key \in KeysOf(c.lists[o])
  BY <1>2
<1>4. QED
  BY <1>1, <1>2, <1>3, RemoveKeyKeys DEF Entry

\* Get.
LEMMA ARCGetEffect ==
  ASSUME NEW w, World(w), NEW c, ARCSound(w, c, {}), NEW key \in w.keys, NEW at
  PROVE  /\ ARCSound(w, ARCGet(c, key, at), {})
         /\ IsARCHit(c, key, at) => HitEffect(w, c, ARCGet(c, key, at), key)
         /\ ~IsARCHit(c, key, at) => MissEffect(w, c, ARCGet(c, key, at), key)
<1> DEFINE o == c.ownerOf[key]
           d == ARCGet(c, key, at)
<1>0. T2 \in Owners /\ Holds(w, T2) = w.items
  BY OwnersDiffer, HeldItems
<1>1. CASE IsARCHit(c, key, at)
  <2> DEFINE item == Entry(c, key)
             e == PushFront(Unlink(c, o, key), T2, item)
  <2>1. Active(c, key) /\ o \in Owners /\ item \in w.items /\ item.key = key
    BY <1>1, ActiveEntry DEF IsARCHit
  <2>2. d = [e EXCEPT !.hits = e.hits + 1]
    BY <1>1 DEF ARCGet
  <2> HIDE DEF item
  <2>3. /\ ARCSound(w, e, {}) /\ e.ownerOf[key] = T2 /\ Lookup(e.lists[T2], key) = item
        /\ Tally(e, c.hits, c.misses, c.evictions)
        /\ \A k \in w.keys \ {key} : Same(c, e, k)
    BY <1>0, <2>1, Moved
  <2> HIDE DEF e, d
  <2>4. ARCSound(w, d, {}) /\ SameBooks(e, d) /\ Tally(d, e.hits + 1, e.misses, e.evictions)
    BY <2>2, <2>3, Counted
  <2>5. HitEffect(w, c, d, key)
    BY <2>1, <2>3, <2>4 DEF HitEffect, SameBooks, Tally, Same, item
  <2>6. QED
    BY <1>1, <2>4, <2>5 DEF d
<1>2. CASE ~IsARCHit(c, key, at) /\ Active(c, key)
  <2> DEFINE e == Forget(Unlink(c, o, key), key)
  <2>1. o \in Owners
    BY <1>2, ActiveEntry
  <2>2. d = [e EXCEPT !.misses = e.misses + 1]
    BY <1>2 DEF ARCGet
  <2>3. /\ ARCSound(w, e, {}) /\ e.ownerOf[key] = Absent
        /\ Tally(e, c.hits, c.misses, c.evictions)
        /\ \A k \in w.keys \ {key} : Same(c, e, k)
    BY <2>1, Dropped
  <2> HIDE DEF e, d
  <2>4. ARCSound(w, d, {}) /\ SameBooks(e, d) /\ Tally(d, e.hits, e.misses + 1, e.evictions)
    BY <2>2, <2>3, Counted
  <2>5. MissEffect(w, c, d, key)
    BY <1>2, <2>3, <2>4 DEF MissEffect, SameBooks, Tally, Same
  <2>6. QED
    BY <1>2, <2>4, <2>5 DEF d
<1>3. CASE ~IsARCHit(c, key, at) /\ ~Active(c, key)
  <2>1. d = [c EXCEPT !.misses = c.misses + 1]
    BY <1>3 DEF ARCGet
  <2> HIDE DEF d
  <2>2. ARCSound(w, d, {}) /\ SameBooks(c, d) /\ Tally(d, c.hits, c.misses + 1, c.evictions)
    BY <2>1, Counted
  <2>3. MissEffect(w, c, d, key)
    BY <1>3, <2>2 DEF MissEffect, SameBooks, Same
  <2>4. QED
    BY <1>3, <2>2, <2>3 DEF d
<1>4. QED
  BY <1>1, <1>2, <1>3

\* Put.
LEMMA ARCPutEffect ==
  ASSUME NEW w, World(w), NEW c, ARCSound(w, c, {}), NEW item \in w.items
  PROVE  /\ ARCSound(w, ARCPut(c, item), {})
         /\ item.size > w.max => ARCPut(c, item) = c
         /\ ~(item.size > w.max) =>
              UpdateEffect(w, c, ARCPut(c, item), item) \/ AdmitEffect(w, c, ARCPut(c, item), item)
<1> DEFINE o == c.ownerOf[item.key]
           d == ARCPut(c, item)
<1>1. /\ Owners = {T1, T2, B1, B2} /\ c.max = w.max /\ item.key \in w.keys
      /\ o \in Owners \cup {Absent} /\ Absent \notin Owners
      /\ T1 # B1 /\ T1 # B2 /\ T2 # B1 /\ T2 # B2 /\ B1 # B2
  BY OwnersDiffer, HeldItems DEF ARCSound, Books
<1>2. CASE item.size > w.max
  <2>1. d = c
    BY <1>1, <1>2 DEF ARCPut
  <2>2. QED
    BY <1>2, <2>1
<1>3. CASE ~(item.size > w.max) /\ Active(c, item.key)
  <2>1. d = UpdateInPlace(c, item)
    BY <1>1, <1>3 DEF ARCPut
  <2> HIDE DEF d
  <2>2. ARCSound(w, d, {}) /\ UpdateEffect(w, c, d, item)
    BY <1>3, <2>1, Updated DEF UpdateEffect
  <2>3. QED
    BY <1>3, <2>2 DEF d
<1>4. CASE ~(item.size > w.max) /\ ~Active(c, item.key) /\ o = B1
  <2>1. d = Readmit(c, B1, item, GrowTarget(c, item))
    BY <1>1, <1>4 DEF ARCPut
  <2>2. GrowTarget(c, item) \in 0 .. w.max
    BY <1>4, TargetsInRange
  <2> HIDE DEF d
  <2>3. AdmittedWithRoom(w, c, d, item, T2)
    BY <1>4, <2>1, <2>2, Readmitted
  <2>4. ARCSound(w, d, {}) /\ AdmitEffect(w, c, d, item)
    BY <1>4, <2>3 DEF AdmitEffect, AdmittedWithRoom
  <2>5. QED
    BY <1>4, <2>4 DEF d
<1>5. CASE ~(item.size > w.max) /\ ~Active(c, item.key) /\ o = B2
  <2>1. d = Readmit(c, B2, item, ShrinkTarget(c, item))
    BY <1>1, <1>5 DEF ARCPut
  <2>2. ShrinkTarget(c, item) \in 0 .. w.max
    BY <1>5, TargetsInRange
  <2> HIDE DEF d
  <2>3. AdmittedWithRoom(w, c, d, item, T2)
    BY <1>5, <2>1, <2>2, Readmitted
  <2>4. ARCSound(w, d, {}) /\ AdmitEffect(w, c, d, item)
    BY <1>5, <2>3 DEF AdmitEffect, AdmittedWithRoom
  <2>5. QED
    BY <1>5, <2>4 DEF d
<1>6. CASE ~(item.size > w.max) /\ o = Absent
  <2>0. ~Active(c, item.key)
    BY <1>1, <1>6 DEF Active
  <2>1. d = InsertFresh(c, item)
    BY <1>1, <1>6, <2>0 DEF ARCPut
  <2> HIDE DEF d
  <2>2. AdmittedWithRoom(w, c, d, item, T1)
    BY <1>6, <2>1, FreshInserted
  <2>3. ARCSound(w, d, {}) /\ AdmitEffect(w, c, d, item)
    BY <1>6, <2>0, <2>2 DEF AdmitEffect, AdmittedWithRoom
  <2>4. QED
    BY <1>6, <2>3 DEF d
<1>7. QED
  BY <1>1, <1>2, <1>3, <1>4, <1>5, <1>6 DEF Active

\* NewARCCache and Clear.
LEMMA EmptyARCSound ==
  ASSUME NEW w, World(w)
  PROVE  LET c == NewARCCache(w.keys, w.max)
         IN  /\ ARCSound(w, c, {}) /\ c.ownerOf = [k \in w.keys |-> Absent]
             /\ c.misses = 0 /\ c.evictions = 0
<1> DEFINE c == NewARCCache(w.keys, w.max)
<1>1. c = [lists |-> [o \in Owners |-> << >>], bytes |-> [o \in Owners |-> 0],
           ownerOf |-> [k \in w.keys |-> Absent], p |-> 0, max |-> w.max,
           hits |-> 0, misses |-> 0, evictions |-> 0]
  BY DEF NewARCCache
<1> HIDE DEF c
<1>2. /\ Shape(c) /\ c.ownerOf = [k \in w.keys |-> Absent] /\ c.p = 0 /\ c.max = w.max
      /\ c.hits = 0 /\ c.misses = 0 /\ c.evictions = 0
      /\ c.lists = [o \in Owners |-> << >>] /\ c.bytes = [o \in Owners |-> 0]
  BY <1>1 DEF Shape
<1>3. \A S : << >> \in Seq(S) /\ Distinct(<< >>) /\ KeysOf(<< >>) = {} /\ Bytes(<< >>) = 0
  BY EmptySeq, BytesOfFew DEF Distinct, KeysOf
<1>4. ASSUME NEW o \in Owners
      PROVE  GoodList(w, c.lists[o], c.bytes[o], o, { k \in w.keys \ {} : c.ownerOf[k] = o })
  <2>1. { k \in w.keys \ {} : c.ownerOf[k] = o } = {}
    BY <1>2, OwnersDiffer
  <2>2. QED
    BY <1>2, <1>3, <2>1 DEF GoodList
<1>5. ARCSound(w, c, {})
  BY <1>2, <1>4, HeldItems DEF ARCSound, Books
<1>6. QED
  BY <1>2, <1>5 DEF c

-----------------------------------------------------------------------------
(***************************************************************************)
(* A cache of either type, as a caller of the interface knows it.          *)
(***************************************************************************)
CacheSound(type, w, c) ==
  /\ c.max = w.max
  /\ IF type = "arc" THEN ARCSound(w, c, {}) ELSE Counting(c)

\* The counters of a cache are naturals, and what an ARC cache holds is of its keys.
LEMMA CacheCounters ==
  ASSUME NEW type, NEW w, NEW c, CacheSound(type, w, c)
  PROVE  /\ c.max = w.max /\ c.hits \in Nat /\ c.misses \in Nat /\ c.evictions \in Nat
         /\ type = "arc" => DOMAIN c.ownerOf = w.keys
  BY DEF CacheSound, ARCSound, Books, Counting

\* A new cache is empty and has counted nothing.
LEMMA NewCacheSound ==
  ASSUME NEW type, NEW w, World(w)
  PROVE  LET c == NewCache(type, w.keys, w.max)
         IN  CacheSound(type, w, c) /\ CachedKeys(type, c) = {} /\ c.misses = 0 /\ c.evictions = 0
<1>1. CASE type = "arc"
  <2> DEFINE c == NewARCCache(w.keys, w.max)
  <2>1. /\ ARCSound(w, c, {}) /\ c.ownerOf = [k \in w.keys |-> Absent]
        /\ c.misses = 0 /\ c.evictions = 0
    BY EmptyARCSound
  <2>2. NewCache(type, w.keys, w.max) = c
    BY <1>1 DEF NewCache
  <2> HIDE DEF c
  <2>3. CachedKeys(type, c) = {}
    BY <1>1, <2>1, OwnersDiffer DEF CachedKeys, Active
  <2>4. CacheSound(type, w, c)
    BY <1>1, <2>1 DEF CacheSound, ARCSound
  <2>5. QED
    BY <2>1, <2>2, <2>3, <2>4
<1>2. CASE type # "arc"
  <2> DEFINE c == NewLRUCache(w.max)
  <2>1. NewCache(type, w.keys, w.max) = c
    BY <1>2 DEF NewCache
  <2>2. c.list \in Seq({}) /\ c.list = << >> /\ c.max = w.max /\ c.misses = 0 /\ c.evictions = 0
    BY DEF NewLRUCache
  <2>3. Counting(c)
    BY <2>2 DEF Counting, NewLRUCache, HasShape, Distinct
  <2>4. KeysOf(c.list) = {}
    BY <2>2 DEF KeysOf
  <2> HIDE DEF c
  <2>5. QED
    BY <1>2, <2>1, <2>2, <2>3, <2>4 DEF CacheSound, CachedKeys
<1>3. QED
  BY <1>1, <1>2

\* Get counts a miss unless it hits, keeps what it hits, brings in nothing, and leaves
\* every other key alone.
LEMMA CacheGetEffect ==
  ASSUME NEW type, NEW w, World(w), NEW c, CacheSound(type, w, c), NEW key \in w.keys, NEW now
  PROVE  LET d == CacheGet(type, c, key, now)
             hit == CacheHit(type, c, key, now)
         IN  /\ CacheSound(type, w, d) /\ d.evictions = c.evictions
             /\ d.misses = IF hit THEN c.misses ELSE c.misses + 1
             /\ CachedKeys(type, d) \subseteq CachedKeys(type, c)
             /\ hit => key \in CachedKeys(type, d)
             /\ \A k : k # key => (k \in CachedKeys(type, d) <=> k \in CachedKeys(type, c))
             /\ \A k \in w.keys \ {key} : CacheHit(type, d, k, now) <=> CacheHit(type, c, k, now)
<1>1. CASE type = "arc"
  <2> DEFINE d == ARCGet(c, key, now)
             hit == IsARCHit(c, key, now)
  <2>1. ARCSound(w, c, {})
    BY <1>1 DEF CacheSound
  <2>2. ARCSound(w, d, {}) /\ (hit => HitEffect(w, c, d, key)) /\ (~hit => MissEffect(w, c, d, key))
    BY <2>1, ARCGetEffect
  <2>3. CacheGet(type, c, key, now) = d /\ CacheHit(type, c, key, now) = hit
    BY <1>1 DEF CacheGet, CacheHit
  <2> HIDE DEF d, hit
  <2>4. /\ DOMAIN c.ownerOf = w.keys /\ DOMAIN d.ownerOf = w.keys
        /\ c.ownerOf \in [w.keys -> Owners \cup {Absent}] /\ d.max = w.max
    BY <2>1, <2>2 DEF ARCSound, Books
  <2>5. \A k \in w.keys \ {key} : Same(c, d, k)
    BY <2>2 DEF HitEffect, MissEffect
  <2>6. /\ d.evictions = c.evictions /\ d.misses = IF hit THEN c.misses ELSE c.misses + 1
        /\ hit => Active(c, key) /\ Active(d, key)
        /\ Active(d, key) => Active(c, key)
    BY <2>2, OwnersDiffer DEF HitEffect, MissEffect, Tally, Active, Same
  <2>7. ASSUME NEW k \in w.keys \ {key}
        PROVE  /\ Active(d, k) <=> Active(c, k)
               /\ IsARCHit(d, k, now) <=> IsARCHit(c, k, now)
    <3>1. Same(c, d, k) /\ d.ownerOf[k] = c.ownerOf[k]
      BY <2>5 DEF Same
    <3>2. Active(c, k) => Entry(d, k) = Entry(c, k)
      BY <3>1, OwnersDiffer DEF Same, Active, Entry
    <3>3. QED
      BY <3>1, <3>2 DEF IsARCHit, Active
  <2>8. /\ CachedKeys(type, d) = { k \in w.keys : Active(d, k) }
        /\ CachedKeys(type, c) = { k \in w.keys : Active(c, k) }
    BY <1>1, <2>4 DEF CachedKeys
  <2>9. /\ CachedKeys(type, d) \subseteq CachedKeys(type, c)
        /\ hit => key \in CachedKeys(type, d)
        /\ \A k : k # key => (k \in CachedKeys(type, d) <=> k \in CachedKeys(type, c))
    BY <2>6, <2>7, <2>8
  <2>10. \A k \in w.keys \ {key} : CacheHit(type, d, k, now) <=> CacheHit(type, c, k, now)
    BY <1>1, <2>7 DEF CacheHit
  <2>11. CacheSound(type, w, d)
    BY <1>1, <2>2, <2>4 DEF CacheSound
  <2>12. QED
    BY <2>3, <2>6, <2>9, <2>10, <2>11
<1>2. CASE type # "arc"
  <2> DEFINE d == Get(c, key, now)
             hit == IsHit(c, key, now)
  <2>1. Counting(c) /\ c.max = w.max
    BY <1>2 DEF CacheSound
  <2>2. /\ Counting(d) /\ d.max = c.max /\ d.evictions = c.evictions
        /\ d.misses = IF hit THEN c.misses ELSE c.misses + 1
        /\ hit => key \in KeysOf(d.list)
        /\ \A k : k # key => /\ k \in KeysOf(d.list) <=> k \in KeysOf(c.list)
                             /\ IsHit(d, k, now) <=> IsHit(c, k, now)
    BY <2>1, GetCounts
  <2>3. KeysOf(d.list) \subseteq KeysOf(c.list)
    BY <2>1, GetKeys DEF Counting
  <2>4. /\ CacheGet(type, c, key, now) = d /\ CacheHit(type, c, key, now) = hit
        /\ \A k : CacheHit(type, d, k, now) = IsHit(d, k, now)
        /\ \A k : CacheHit(type, c, k, now) = IsHit(c, k, now)
    BY <1>2 DEF CacheGet, CacheHit
  <2> HIDE DEF d, hit
  <2>5. CachedKeys(type, d) = KeysOf(d.list) /\ CachedKeys(type, c) = KeysOf(c.list)
    BY <1>2 DEF CachedKeys
  <2>6. CacheSound(type, w, d)
    BY <1>2, <2>1, <2>2 DEF CacheSound
  <2>7. QED
    BY <2>2, <2>3, <2>4, <2>5, <2>6
<1>3. QED
  BY <1>1, <1>2

\* Put counts no hit and no miss and adds no key but its own; unless it evicts it keeps
\* every key, and has its own if the item is not larger than the cache.
LEMMA CachePutEffect ==
  ASSUME NEW type, NEW w, World(w), NEW c, CacheSound(type, w, c), NEW item \in w.items
  PROVE  LET d == CachePut(type, c, item)
         IN  /\ CacheSound(type, w, d) /\ d.misses = c.misses /\ d.evictions >= c.evictions
             /\ CachedKeys(type, d) \subseteq CachedKeys(type, c) \cup {item.key}
             /\ d.evictions = c.evictions =>
                  /\ CachedKeys(type, c) \subseteq CachedKeys(type, d)
                  /\ item.size > w.max \/ item.key \in CachedKeys(type, d)
<1>1. CASE type = "arc"
  <2> DEFINE d == ARCPut(c, item)
             key == item.key
  <2>1. ARCSound(w, c, {}) /\ c.evictions \in Nat
    BY <1>1 DEF CacheSound, ARCSound
  <2>2. /\ ARCSound(w, d, {}) /\ (item.size > w.max => d = c)
        /\ ~(item.size > w.max) => UpdateEffect(w, c, d, item) \/ AdmitEffect(w, c, d, item)
    BY <2>1, ARCPutEffect
  <2>3. CachePut(type, c, item) = d
    BY <1>1 DEF CachePut
  <2> HIDE DEF d
  <2>4. DOMAIN c.ownerOf = w.keys /\ DOMAIN d.ownerOf = w.keys /\ d.max = w.max /\ key \in w.keys
    BY <2>1, <2>2, HeldItems DEF ARCSound, Books
  <2> HIDE DEF key
  <2>5. Tallied(w, c, d)
    <3>1. c.evictions >= c.evictions
      BY <2>1
    <3>2. CASE d = c
      BY <3>1, <3>2 DEF Tallied
    <3>3. QED
      BY <2>2, <3>2 DEF UpdateEffect, AdmitEffect, AdmittedWithRoom
  <2>6. item.size > w.max \/ Active(d, key)
    BY <2>2 DEF UpdateEffect, AdmitEffect, AdmittedWithRoom, Active, key
  <2>7. ASSUME NEW k \in w.keys, k # key, Active(d, k) PROVE Active(c, k)
    <3>1. CASE d = c
      BY <2>7, <3>1
    <3>2. CASE UpdateEffect(w, c, d, item)
      BY <2>7, <3>2 DEF UpdateEffect, Active
    <3>3. CASE AdmitEffect(w, c, d, item)
      <4>1. \/ Same(c, d, k)
            \/ c.ownerOf[k] = T1 /\ d.ownerOf[k] = B1
            \/ c.ownerOf[k] = T2 /\ d.ownerOf[k] = B2
            \/ c.ownerOf[k] \in {B1, B2} /\ d.ownerOf[k] = Absent
        BY <2>7, <3>3 DEF AdmitEffect, AdmittedWithRoom, key
      <4>2. QED
        BY <2>7, <4>1, OwnersDiffer DEF Same, Active
    <3>4. QED
      BY <2>2, <3>1, <3>2, <3>3
  <2>8. /\ CachedKeys(type, d) = { k \in w.keys : Active(d, k) }
        /\ CachedKeys(type, c) = { k \in w.keys : Active(c, k) }
    BY <1>1, <2>4 DEF CachedKeys
  <2>9. CacheSound(type, w, d)
    BY <1>1, <2>2, <2>4 DEF CacheSound
  <2>10. QED
    BY <2>3, <2>4, <2>5, <2>6, <2>7, <2>8, <2>9 DEF Tallied, key
<1>2. CASE type # "arc"
  <2> DEFINE d == Put(c, item)
  <2>1. Counting(c) /\ c.max = w.max
    BY <1>2 DEF CacheSound
  <2>2. /\ Counting(d) /\ d.max = c.max /\ d.misses = c.misses /\ d.evictions >= c.evictions
        /\ d.evictions = c.evictions => /\ KeysOf(c.list) \subseteq KeysOf(d.list)
                                        /\ item.size > c.max \/ item.key \in KeysOf(d.list)
    BY <2>1, PutCounts
  <2>3. KeysOf(d.list) \subseteq KeysOf(c.list) \cup {item.key}
    <3>1. PICK R : c.list \in Seq(R)
      BY <2>1 DEF Counting
    <3>2. c.list \in Seq(R \cup {item}) /\ item \in R \cup {item} /\ HasShape(c)
      BY <2>1, <3>1 DEF Counting
    <3>3. QED
      BY <3>2, PutKeys
  <2>4. CachePut(type, c, item) = d
    BY <1>2 DEF CachePut
  <2> HIDE DEF d
  <2>5. CachedKeys(type, d) = KeysOf(d.list) /\ CachedKeys(type, c) = KeysOf(c.list)
    BY <1>2 DEF CachedKeys
  <2>6. CacheSound(type, w, d)
    BY <1>2, <2>1, <2>2 DEF CacheSound
  <2>7. QED
    BY <2>1, <2>2, <2>3, <2>4, <2>5, <2>6
<1>3. QED
  BY <1>1, <1>2
=============================================================================
