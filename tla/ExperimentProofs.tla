-------------------------- MODULE ExperimentProofs --------------------------
(***************************************************************************)
(* Proofs about an experiment, its routes and its statistics: module       *)
(* Experiment with Routing and Metrics.                                    *)
(***************************************************************************)
EXTENDS Experiment, CacheItemsProofs

\* The least element of a set of naturals that is not empty.
LEMMA MinExists ==
  ASSUME NEW S, S \subseteq Nat, S # {}
  PROVE  Min(S) \in S /\ \A x \in S : Min(S) <= x
<1>1. \E x \in S : \A y \in S : x <= y
  BY LeastNatural
<1>2. QED
  BY <1>1 DEF Min

\* The numbers up to n are n.
LEMMA RangeCounts ==
  ASSUME NEW n \in Nat
  PROVE  IsFiniteSet(1 .. n) /\ Cardinality(1 .. n) = n
<1>1. IsFiniteSet(1 .. n) /\ Cardinality(1 .. n) = IF 1 > n THEN 0 ELSE n - 1 + 1
  BY FS_Interval
<1>2. QED
  BY <1>1

-----------------------------------------------------------------------------
(***************************************************************************)
(* The routing policies.  An edge as a run keeps it has a load.            *)
(***************************************************************************)
LoadedEdges == [id : STRING, geo : STRING, capacity : Int, load : Nat]

\* The latency policy answers with an edge that has room, if there is one.
LEMMA LatencyBasedAnswers ==
  ASSUME NEW es \in Seq(LoadedEdges), NEW who, \A i \in DOMAIN es : who.rtt[i] \in Nat
  PROVE  IF Open(es) = {} THEN LatencyBased(who, es) = NoEdge
                          ELSE LatencyBased(who, es) \in Open(es)
<1>1. Open(es) \subseteq DOMAIN es /\ DOMAIN es = 1 .. Len(es) /\ Len(es) \in Nat
  BY LenProperties DEF Open
<1>2. CASE Open(es) = {}
  BY <1>2 DEF LatencyBased
<1>3. CASE Open(es) # {}
  <2> DEFINE rtts == { who.rtt[i] : i \in Open(es) }
  <2>1. PICK least \in rtts : \A rtt \in rtts : least <= rtt
    <3>1. rtts \subseteq Nat /\ rtts # {}
      BY <1>1, <1>3
    <3>2. QED
      BY <3>1, LeastNatural
  <2> DEFINE first == { i \in Open(es) : who.rtt[i] = least }
  <2>2. PICK i \in first : \A j \in first : i <= j
    <3>1. first \subseteq Nat /\ first # {}
      BY <1>1
    <3>2. QED
      BY <3>1, LeastNatural
  <2>3. \A j \in Open(es) :
          who.rtt[i] < who.rtt[j] \/ (who.rtt[i] = who.rtt[j] /\ i <= j)
    <3> SUFFICES ASSUME NEW j \in Open(es), ~(who.rtt[i] < who.rtt[j])
                 PROVE  who.rtt[i] = who.rtt[j] /\ i <= j
      OBVIOUS
    <3>1. who.rtt[i] = least /\ least <= who.rtt[j] /\ least \in Nat /\ who.rtt[j] \in Nat
      BY <1>1, <2>1, <2>2
    <3>2. who.rtt[i] = who.rtt[j]
      BY <3>1
    <3>3. QED
      BY <2>2, <3>1, <3>2
  <2>4. QED
    BY <1>3, <2>2, <2>3 DEF LatencyBased
<1>4. QED
  BY <1>2, <1>3

\* So does the regional policy.
LEMMA GeoAffinityAnswers ==
  ASSUME NEW es \in Seq(LoadedEdges), NEW who, \A i \in DOMAIN es : who.rtt[i] \in Nat
  PROVE  GeoAffinity(who, es) \in Open(es) \cup {NoEdge}
<1> DEFINE local == { i \in Open(es) : es[i].geo = who.geo }
<1>1. Open(es) \subseteq Nat
  BY LenProperties DEF Open
<1>2. CASE local = {}
  BY <1>2, LatencyBasedAnswers DEF GeoAffinity
<1>3. CASE local # {}
  <2>1. Min(local) \in local
    BY <1>1, <1>3, MinExists
  <2>2. QED
    BY <1>3, <2>1 DEF GeoAffinity
<1>4. QED
  BY <1>2, <1>3

\* So does the policy that sometimes misroutes.
LEMMA RealisticBGPAnswers ==
  ASSUME NEW es \in Seq(LoadedEdges), NEW who, \A i \in DOMAIN es : who.rtt[i] \in Nat,
         NEW source, source.pick \in Nat
  PROVE  RealisticBGP(who, es, source) \in Open(es) \cup {NoEdge}
<1> DEFINE best == LatencyBased(who, es)
           others == { i \in Open(es) : es[i].id # es[best].id }
           alts == Sorted(others)
<1>1. others \subseteq Nat /\ IsFiniteSet(others)
  <2>1. IsFiniteSet(1 .. Len(es)) /\ Len(es) \in Nat
    BY LenProperties, FS_Interval
  <2>2. others \subseteq 1 .. Len(es)
    BY LenProperties DEF Open
  <2>3. QED
    BY <2>1, <2>2, FS_Subset
<1>2. best \in Open(es) \cup {NoEdge}
  BY LatencyBasedAnswers
<1>3. alts \in Seq(others) /\ DOMAIN alts = 1 .. Len(alts) /\ Len(alts) \in Nat
  <2> HIDE DEF others
  <2>1. QED
    BY <1>1, SortedLists, LenProperties
<1>4. CASE alts # << >>
  <2>1. Len(alts) # 0
    BY <1>3, <1>4, EmptySeq
  <2>2. (source.pick % Len(alts)) + 1 \in 1 .. Len(alts)
    BY <1>3, <2>1
  <2>3. alts[(source.pick % Len(alts)) + 1] \in others
    <3> HIDE DEF alts, others
    <3>1. QED
      BY <1>3, <2>2, ElementOfSeq
  <2>4. QED
    BY <1>2, <2>3 DEF RealisticBGP
<1>5. CASE alts = << >>
  BY <1>2, <1>5 DEF RealisticBGP
<1>6. QED
  BY <1>4, <1>5

\* The weight of an edge is a natural number, and positive only of one with room.
LEMMA Weighs ==
  ASSUME NEW e \in LoadedEdges
  PROVE  Weight(e) \in Nat /\ (Weight(e) > 0 => HasRoom(e))
<1>1. CASE e.capacity > 0 /\ e.load < e.capacity
  <2>1. e.capacity \in Nat /\ e.capacity > 0 /\ (e.capacity - e.load) * WeightUnit \in Nat
    <3>1. e.capacity - e.load \in Nat /\ WeightUnit \in Nat
      BY <1>1, UnitAssumption DEF LoadedEdges
    <3>2. (e.capacity - e.load) * WeightUnit \in Nat
      BY <3>1
    <3>3. QED
      BY <1>1, <3>2 DEF LoadedEdges
  <2>2. \A a, b \in Nat : b > 0 => a \div b \in Nat
    OBVIOUS
  <2>3. QED
    BY <1>1, <2>1, <2>2 DEF Weight, HasRoom
<1>2. CASE ~(e.capacity > 0 /\ e.load < e.capacity)
  BY <1>2 DEF Weight
<1>3. QED
  BY <1>1, <1>2

\* The weighted policy answers with an edge that has room but for a draw of zero,
\* which makes it the first edge.
LEMMA WeightedCapacityAnswers ==
  ASSUME NEW es \in Seq(LoadedEdges), NEW draw \in 0 .. DrawSteps - 1,
         WeightedCapacity(es, draw) # NoEdge
  PROVE  /\ WeightedCapacity(es, draw) \in DOMAIN es
         /\ WeightedCapacity(es, draw) \in Open(es) \/ (draw = 0 /\ WeightedCapacity(es, draw) = 1)
<1> DEFINE w == [i \in DOMAIN es |-> Weight(es[i])]
           len == Len(es)
           total == SumOf(w)
           hit == { i \in DOMAIN es : draw * total <= SumTo(w, i) * DrawSteps }
<1>1. /\ DOMAIN es = 1 .. len /\ len \in Nat /\ DrawSteps \in Nat \ {0} /\ draw \in Nat
      /\ \A i \in 1 .. len : es[i] \in LoadedEdges
  BY LenProperties, ElementOfSeq, DrawAssumption
<1>2. w \in Seq(Nat) /\ Len(w) = len /\ \A i \in 1 .. len : w[i] = Weight(es[i])
  <2>1. w \in [1 .. len -> Nat]
    BY <1>1, Weighs
  <2>2. QED
    BY <1>1, <2>1
<1>3. total # 0 /\ WeightedCapacity(es, draw) = Min(hit)
  BY DEF WeightedCapacity
<1>4. SumTo(w, len) = total
  BY <1>2 DEF SumOf
<1> HIDE DEF w, total
<1>5. /\ SumTo(w, 0) = 0 /\ (\A n \in 0 .. len : SumTo(w, n) \in Nat)
      /\ \A n \in 1 .. len : SumTo(w, n) = SumTo(w, n - 1) + w[n]
  BY <1>2, SumToUnfolds
<1>6. len \in 1 .. len /\ total \in Nat
  BY <1>1, <1>3, <1>4, <1>5
<1>7. draw * total <= total * DrawSteps
  <2>1. \A a, b, c \in Nat : a <= c => a * b <= b * c
    OBVIOUS
  <2>2. QED
    BY <1>1, <1>6, <2>1
<1>8. Min(hit) \in hit /\ \A i \in hit : Min(hit) <= i
  <2>1. hit \subseteq Nat /\ len \in hit
    BY <1>1, <1>4, <1>6, <1>7
  <2> HIDE DEF hit
  <2>2. QED
    BY <2>1, MinExists
<1> DEFINE i == Min(hit)
<1>9. i \in 1 .. len /\ draw * total <= SumTo(w, i) * DrawSteps
  BY <1>1, <1>8
<1>10. \A j \in 1 .. len : j < i => ~(draw * total <= SumTo(w, j) * DrawSteps)
  <2> SUFFICES ASSUME NEW j \in 1 .. len, j < i, draw * total <= SumTo(w, j) * DrawSteps
               PROVE  FALSE
    OBVIOUS
  <2>1. j \in hit
    BY <1>1
  <2> HIDE DEF hit
  <2>2. i <= j
    BY <1>8, <2>1
  <2> HIDE DEF i
  <2>3. QED
    BY <1>1, <1>9, <2>2
<1> HIDE DEF i, hit
<1>11. CASE draw = 0
  <2>1. 1 \in 1 .. len /\ SumTo(w, 1) \in Nat
    BY <1>1, <1>5, <1>6
  <2>2. 0 * total <= SumTo(w, 1) * DrawSteps
    <3>1. \A a, b \in Nat : a * b >= 0
      OBVIOUS
    <3>2. QED
      BY <1>1, <1>6, <2>1, <3>1
  <2>3. ~(1 < i)
    BY <1>10, <1>11, <2>1, <2>2
  <2>4. i = 1
    BY <1>1, <1>9, <2>3
  <2>5. QED
    BY <1>1, <1>3, <1>9, <1>11, <2>4 DEF i
<1>12. CASE draw > 0
  <2>1. w[i] # 0
    <3> SUFFICES ASSUME w[i] = 0 PROVE FALSE
      OBVIOUS
    <3>1. SumTo(w, i) = SumTo(w, i - 1) /\ SumTo(w, i - 1) \in Nat
      <4>1. i - 1 \in 0 .. len
        BY <1>1, <1>9
      <4>2. QED
        BY <1>5, <1>9, <4>1
    <3>2. CASE i = 1
      <4>1. SumTo(w, i) = 0
        BY <1>5, <3>1, <3>2
      <4>2. draw * total > 0
        <5>1. \A a, b \in Nat : a > 0 /\ b > 0 => a * b > 0
          OBVIOUS
        <5>2. QED
          BY <1>1, <1>3, <1>6, <1>12, <5>1
      <4>3. QED
        <5>1. SumTo(w, i) * DrawSteps = 0
          BY <1>1, <4>1
        <5>2. QED
          BY <1>1, <1>6, <1>9, <4>2, <5>1
    <3>3. CASE i > 1
      <4>1. i - 1 \in 1 .. len /\ i - 1 < i
        BY <1>1, <1>9, <3>3
      <4>2. QED
        BY <1>9, <1>10, <3>1, <4>1
    <3>4. QED
      BY <1>1, <1>9, <3>2, <3>3
  <2>2. HasRoom(es[i])
    <3>1. es[i] \in LoadedEdges /\ w[i] = Weight(es[i])
      BY <1>1, <1>2, <1>9
    <3>2. QED
      BY <2>1, <3>1, Weighs
  <2>3. QED
    BY <1>1, <1>3, <1>9, <2>2 DEF Open, i
<1>13. QED
  BY <1>1, <1>11, <1>12

\* A route leads to an edge that has room, but for a draw of zero of the weighted policy.
LEMMA RouteAnswers ==
  ASSUME NEW es \in Seq(LoadedEdges), NEW who, \A i \in DOMAIN es : who.rtt[i] \in Nat,
         NEW source, source.draw \in 0 .. DrawSteps - 1, source.pick \in Nat, NEW policy,
         Route(policy, who, es, source) # NoEdge
  PROVE  LET r == Route(policy, who, es, source)
         IN  /\ r \in DOMAIN es
             /\ r \in Open(es) \/ (policy = "weighted_capacity" /\ source.draw = 0 /\ r = 1)
<1>1. Open(es) \subseteq DOMAIN es
  BY DEF Open
<1>2. CASE policy = "weighted_capacity"
  <2>1. Route(policy, who, es, source) = WeightedCapacity(es, source.draw)
    BY <1>2 DEF Route
  <2>2. QED
    BY <1>2, <2>1, WeightedCapacityAnswers
<1>3. CASE policy # "weighted_capacity"
  <2>1. Route(policy, who, es, source) \in Open(es) \cup {NoEdge}
    <3>1. CASE policy = "geo_affinity"
      BY <3>1, GeoAffinityAnswers DEF Route
    <3>2. CASE policy = "realistic_bgp"
      BY <3>2, RealisticBGPAnswers DEF Route
    <3>3. CASE policy \notin {"geo_affinity", "realistic_bgp"}
      BY <1>3, <3>3, LatencyBasedAnswers DEF Route
    <3>4. QED
      BY <3>1, <3>2, <3>3
  <2>2. QED
    BY <1>1, <2>1
<1>4. QED
  BY <1>2, <1>3

-----------------------------------------------------------------------------
(***************************************************************************)
(* The collector.  The loops over its sessions are recursive functions;    *)
(* what they compute is shown by induction on the naturals.                *)
(***************************************************************************)
\* f is base at 0, and F gives it from each number to the next.
Recurs(f, n, S, base, F) ==
  f \in [0 .. n -> S] /\ f[0] = base /\ \A m \in 1 .. n : f[m] = F[<<m, f[m - 1]>>]

\* There is such a function.
LEMMA Recursion ==
  ASSUME NEW n \in Nat, NEW S, NEW base \in S, NEW F, F \in [(1 .. n) \X S -> S]
  PROVE  \E f : Recurs(f, n, S, base, F)
<1> DEFINE UpToHere(k, f) == /\ f \in [0 .. k -> S] /\ f[0] = base
                             /\ \A m \in 1 .. k : f[m] = F[<<m, f[m - 1]>>]
           T == { k \in Nat : k <= n => \E f : UpToHere(k, f) }
<1>1. 0 \in T
  <2>1. UpToHere(0, [m \in 0 .. 0 |-> base])
    OBVIOUS
  <2>2. QED
    BY <2>1
<1>2. ASSUME NEW k \in Nat, k \in T PROVE k + 1 \in T
  <2> SUFFICES ASSUME k + 1 <= n PROVE \E f : UpToHere(k + 1, f)
    OBVIOUS
  <2>1. PICK f : UpToHere(k, f)
    <3>1. k <= n
      OBVIOUS
    <3> HIDE DEF UpToHere
    <3>2. QED
      BY <1>2, <3>1
  <2> DEFINE g == [m \in 0 .. k + 1 |-> IF m <= k THEN f[m] ELSE F[<<k + 1, f[k]>>]]
  <2>2. f[k] \in S /\ k + 1 \in 1 .. n
    BY <2>1
  <2>3. F[<<k + 1, f[k]>>] \in S
    BY <2>2
  <2>4. g \in [0 .. k + 1 -> S] /\ g[0] = base
    BY <2>1, <2>3
  <2>5. \A m \in 1 .. k + 1 : g[m] = F[<<m, g[m - 1]>>]
    <3> SUFFICES ASSUME NEW m \in 1 .. k + 1 PROVE g[m] = F[<<m, g[m - 1]>>]
      OBVIOUS
    <3>1. CASE m <= k
      <4>1. g[m] = f[m] /\ g[m - 1] = f[m - 1] /\ m \in 1 .. k
        BY <3>1
      <4>2. QED
        BY <2>1, <4>1
    <3>2. CASE m = k + 1
      <4>1. g[m] = F[<<k + 1, f[k]>>] /\ g[m - 1] = f[k]
        BY <3>2
      <4>2. QED
        BY <3>2, <4>1
    <3>3. QED
      BY <3>1, <3>2
  <2>6. QED
    BY <2>4, <2>5
<1>3. n \in T
  <2> HIDE DEF T
  <2>1. QED
    BY <1>1, <1>2, SetInduction
<1>4. QED
  BY <1>3 DEF Recurs

\* f collects the sessions of a protocol from the front of rs.
Collects(f, rs, protocol, S) ==
  /\ f \in [0 .. Len(rs) -> Seq(S)] /\ f[0] = << >>
  /\ \A n \in 1 .. Len(rs) :
       f[n] = IF rs[n].protocol = protocol THEN Append(f[n - 1], rs[n]) ELSE f[n - 1]

LEMMA OfProtocolUnfolds ==
  ASSUME NEW S, NEW rs \in Seq(S), NEW protocol
  PROVE  \E f : Collects(f, rs, protocol, S) /\ OfProtocol(rs, protocol) = f[Len(rs)]
<1> DEFINE len == Len(rs)
           Step(g) == [n \in 0 .. len |->
                         IF n = 0 THEN << >>
                         ELSE IF rs[n].protocol = protocol THEN Append(g[n - 1], rs[n]) ELSE g[n - 1]]
           of == CHOOSE g : g = Step(g)
           F == [q \in (1 .. len) \X Seq(S) |->
                   IF rs[q[1]].protocol = protocol THEN Append(q[2], rs[q[1]]) ELSE q[2]]
<1>1. len \in Nat /\ \A n \in 1 .. len : rs[n] \in S
  BY LenProperties, ElementOfSeq
<1>2. F \in [(1 .. len) \X Seq(S) -> Seq(S)]
  <2>1. \A q \in (1 .. len) \X Seq(S) : Append(q[2], rs[q[1]]) \in Seq(S) /\ q[2] \in Seq(S)
    BY <1>1, AppendProperties
  <2>2. QED
    BY <2>1
<1>3. PICK f \in [0 .. len -> Seq(S)] :
        f[0] = << >> /\ \A m \in 1 .. len : f[m] = F[<<m, f[m - 1]>>]
  <2>1. << >> \in Seq(S)
    OBVIOUS
  <2> HIDE DEF F
  <2>2. \E f : Recurs(f, len, Seq(S), << >>, F)
    BY <1>1, <1>2, <2>1, Recursion
  <2>3. QED
    BY <2>2 DEF Recurs
<1>4. \A m \in 1 .. len :
        f[m] = IF rs[m].protocol = protocol THEN Append(f[m - 1], rs[m]) ELSE f[m - 1]
  <2> SUFFICES ASSUME NEW m \in 1 .. len
               PROVE  f[m] = IF rs[m].protocol = protocol THEN Append(f[m - 1], rs[m]) ELSE f[m - 1]
    OBVIOUS
  <2>1. m - 1 \in 0 .. len
    BY <1>1
  <2>2. f[m - 1] \in Seq(S) /\ f[m] = F[<<m, f[m - 1]>>]
    BY <1>3, <2>1
  <2>3. QED
    BY <2>2
<1>5. Collects(f, rs, protocol, S)
  BY <1>3, <1>4 DEF Collects
<1>6. f = Step(f)
  <2>1. \A n \in 0 .. len :
          f[n] = IF n = 0 THEN << >>
                 ELSE IF rs[n].protocol = protocol THEN Append(f[n - 1], rs[n]) ELSE f[n - 1]
    <3>1. \A n \in 0 .. len : n # 0 => n \in 1 .. len
      BY <1>1
    <3>2. QED
      BY <1>3, <1>4, <3>1
  <2>2. f = [n \in 0 .. len |-> f[n]]
    BY <1>3
  <2>3. QED
    BY <2>1, <2>2
<1>7. of = Step(of)
  <2> HIDE DEF Step
  <2>1. QED
    BY <1>6
<1>8. OfProtocol(rs, protocol) = of[len]
  BY DEF OfProtocol
<1> HIDE DEF of
<1> DEFINE T == { n \in Nat : n <= len => of[n] = f[n] }
<1>9. 0 \in T
  BY <1>1, <1>3, <1>7
<1>10. ASSUME NEW n \in Nat, n \in T PROVE n + 1 \in T
  <2> SUFFICES ASSUME n + 1 <= len PROVE of[n + 1] = f[n + 1]
    OBVIOUS
  <2>1. n + 1 \in 1 .. len /\ n + 1 \in 0 .. len /\ n + 1 # 0 /\ (n + 1) - 1 = n /\ of[n] = f[n]
    BY <1>1, <1>10
  <2>2. of[n + 1] = IF rs[n + 1].protocol = protocol THEN Append(of[n], rs[n + 1]) ELSE of[n]
    BY <1>7, <2>1
  <2>3. QED
    BY <1>4, <2>1, <2>2
<1>11. len \in T
  <2> HIDE DEF T
  <2>1. QED
    BY <1>1, <1>9, <1>10, SetInduction
<1>12. QED
  BY <1>1, <1>5, <1>8, <1>11

\* There is one such function.
LEMMA OneCollects ==
  ASSUME NEW S, NEW rs \in Seq(S), NEW protocol, NEW f, Collects(f, rs, protocol, S)
  PROVE  OfProtocol(rs, protocol) = f[Len(rs)]
<1>1. PICK g : Collects(g, rs, protocol, S) /\ OfProtocol(rs, protocol) = g[Len(rs)]
  BY OfProtocolUnfolds
<1> DEFINE T == { n \in Nat : n <= Len(rs) => f[n] = g[n] }
<1>2. Len(rs) \in Nat
  BY LenProperties
<1>3. 0 \in T
  BY <1>1 DEF Collects
<1>4. ASSUME NEW n \in Nat, n \in T PROVE n + 1 \in T
  <2> SUFFICES ASSUME n + 1 <= Len(rs) PROVE f[n + 1] = g[n + 1]
    OBVIOUS
  <2>1. n + 1 \in 1 .. Len(rs) /\ (n + 1) - 1 = n /\ f[n] = g[n]
    BY <1>2, <1>4
  <2>2. QED
    BY <1>1, <2>1 DEF Collects
<1>5. Len(rs) \in T
  <2> HIDE DEF T
  <2>1. QED
    BY <1>2, <1>3, <1>4, SetInduction
<1>6. QED
  BY <1>1, <1>2, <1>5

\* The sessions of a protocol are among the sessions.
LEMMA OfProtocolOf ==
  ASSUME NEW S, NEW rs \in Seq(S), NEW protocol
  PROVE  OfProtocol(rs, protocol) \in Seq(S)
<1>1. PICK f : Collects(f, rs, protocol, S) /\ OfProtocol(rs, protocol) = f[Len(rs)]
  BY OfProtocolUnfolds
<1>2. Len(rs) \in 0 .. Len(rs)
  BY LenProperties
<1>3. QED
  BY <1>1, <1>2 DEF Collects

\* The sessions of a protocol, with one session more.
LEMMA OfProtocolAppend ==
  ASSUME NEW S, NEW rs \in Seq(S), NEW s \in S, NEW protocol
  PROVE  /\ OfProtocol(rs, protocol) \in Seq(S)
         /\ OfProtocol(Append(rs, s), protocol)
              = IF s.protocol = protocol THEN Append(OfProtocol(rs, protocol), s)
                                         ELSE OfProtocol(rs, protocol)
<1> DEFINE len == Len(rs)
           more == Append(rs, s)
<1>1. PICK f : Collects(f, rs, protocol, S) /\ OfProtocol(rs, protocol) = f[len]
  BY OfProtocolUnfolds
<1>2. /\ len \in Nat /\ more \in Seq(S) /\ Len(more) = len + 1
      /\ (\A n \in 1 .. len : more[n] = rs[n]) /\ more[len + 1] = s
  BY LenProperties, AppendProperties
<1>3. f[len] \in Seq(S)
  BY <1>1, <1>2 DEF Collects
<1> DEFINE last == IF s.protocol = protocol THEN Append(f[len], s) ELSE f[len]
           g == [n \in 0 .. len + 1 |-> IF n <= len THEN f[n] ELSE last]
<1>4. last \in Seq(S)
  BY <1>3, AppendProperties
<1> HIDE DEF more
<1>5. Collects(g, more, protocol, S)
  <2>1. g \in [0 .. len + 1 -> Seq(S)] /\ g[0] = << >>
    <3> HIDE DEF last
    <3>1. QED
      BY <1>1, <1>2, <1>4 DEF Collects
  <2>2. ASSUME NEW n \in 1 .. len + 1
        PROVE  g[n] = IF more[n].protocol = protocol THEN Append(g[n - 1], more[n]) ELSE g[n - 1]
    <3>1. CASE n <= len
      <4>1. g[n] = f[n] /\ g[n - 1] = f[n - 1] /\ n \in 1 .. len
        BY <1>2, <3>1
      <4>2. QED
        BY <1>1, <1>2, <4>1 DEF Collects
    <3>2. CASE n = len + 1
      <4>1. g[n] = last /\ g[n - 1] = f[len] /\ more[n] = s
        BY <1>2, <3>2
      <4>2. QED
        BY <4>1
    <3>3. QED
      BY <1>2, <3>1, <3>2
  <2> HIDE DEF g
  <2>3. QED
    BY <1>2, <2>1, <2>2 DEF Collects
<1>6. g[len + 1] = last
  BY <1>2
<1> HIDE DEF g
<1>7. OfProtocol(more, protocol) = last
  BY ZenonT(40), <1>2, <1>5, <1>6, OneCollects
<1>8. QED
  BY <1>1, <1>3, <1>7 DEF more

\* Nothing is collected from nothing.
LEMMA OfProtocolOfNothing ==
  ASSUME NEW protocol
  PROVE  OfProtocol(<< >>, protocol) = << >>
<1>1. << >> \in Seq({}) /\ Len(<< >>) = 0
  OBVIOUS
<1>2. PICK f : Collects(f, << >>, protocol, {}) /\ OfProtocol(<< >>, protocol) = f[Len(<< >>)]
  BY <1>1, OfProtocolUnfolds
<1>3. QED
  BY <1>1, <1>2 DEF Collects

-----------------------------------------------------------------------------
(***************************************************************************)
(* Types.                                                                  *)
(***************************************************************************)
Sessions == [protocol : {"tcp-h2", "quic-h3"}, run : Nat, client : Nat, edge : Nat, content : Nat,
             played : Outcomes]

\* What a client that nothing is on tape for may be given.
GeoOf(who) == cfg.geos[(who % Len(cfg.geos)) + 1]
FirstChances(who) ==
  [rtt : cfg.rtts[GeoOf(who)], draw : cfg.draws, pick : cfg.picks, content : cfg.contents]

TypeOK ==
  /\ IsConfig(cfg)
  /\ pc \in {"load", "begin", "rejected", "failed", "loop", "clients", "done"}
  /\ proto \in Nat \ {0} /\ run \in Nat /\ client \in Nat
  /\ edges \in Seq(LoadedEdges)
  /\ pc = "clients" => Len(edges) = Len(cfg.edges)
  /\ results \in Seq(Sessions)
  /\ IsFiniteSet(DOMAIN tape)
  /\ \A k \in DOMAIN tape : k = <<k[1], k[2]>> /\ k[2] \in Nat /\ tape[k] \in FirstChances(k[2])

\* A client's chances are of the types the policies need.
LEMMA ChancesTyped ==
  ASSUME TypeOK, pc = "clients", NEW t \in Chances
  PROVE  /\ t \in FirstChances(client)
         /\ t.draw \in 0 .. DrawSteps - 1 /\ t.pick \in Nat /\ t.content \in Nat
         /\ \A i \in DOMAIN edges : t.rtt[i] \in Nat
<1>1. t \in FirstChances(client)
  <2>1. CASE <<Seed, client>> \in DOMAIN tape
    <3>1. t = tape[<<Seed, client>>]
      BY <2>1 DEF Chances
    <3>2. QED
      BY <2>1, <3>1 DEF TypeOK
  <2>2. CASE <<Seed, client>> \notin DOMAIN tape
    BY <2>2 DEF Chances, FirstChances, Geo, GeoOf
  <2>3. QED
    BY <2>1, <2>2
<1>2. /\ cfg.draws \subseteq 0 .. DrawSteps - 1 /\ cfg.picks \subseteq Nat /\ cfg.contents \subseteq Nat
      /\ cfg.geos \in Seq(DOMAIN cfg.rtts) /\ cfg.geos # << >>
      /\ \A g \in DOMAIN cfg.rtts : \A rtt \in cfg.rtts[g] : \A i \in DOMAIN cfg.edges : rtt[i] \in Nat
      /\ cfg.edges \in Seq(Edges)
  BY DEF TypeOK, IsConfig
<1>3. /\ t.draw \in cfg.draws /\ t.pick \in cfg.picks /\ t.content \in cfg.contents
      /\ t.rtt \in cfg.rtts[GeoOf(client)]
  BY <1>1 DEF FirstChances
<1>4. GeoOf(client) \in DOMAIN cfg.rtts
  <2>1. Len(cfg.geos) \in Nat \ {0}
    BY <1>2, LenProperties, EmptySeq
  <2>2. (client % Len(cfg.geos)) + 1 \in 1 .. Len(cfg.geos)
    <3>1. \A m \in Nat, n \in Nat \ {0} : (m % n) + 1 \in 1 .. n
      OBVIOUS
    <3>2. QED
      BY <2>1, <3>1 DEF TypeOK
  <2>3. QED
    BY <1>2, <2>2, ElementOfSeq DEF GeoOf
<1>5. DOMAIN edges = DOMAIN cfg.edges
  BY <1>2, LenProperties DEF TypeOK
<1>6. QED
  BY <1>1, <1>2, <1>3, <1>4, <1>5

\* A client that is routed is routed to an edge.
LEMMA RoutedTyped ==
  ASSUME TypeOK, pc = "clients", NEW t \in Chances, Routed(t) # NoEdge
  PROVE  /\ Routed(t) \in DOMAIN edges /\ Routed(t) \in Nat
         /\ \/ Routed(t) \in Open(edges)
            \/ cfg.policy = "weighted_capacity" /\ t.draw = 0 /\ Routed(t) = 1
<1> DEFINE who == [geo |-> Geo, rtt |-> t.rtt]
<1>1. edges \in Seq(LoadedEdges) /\ DOMAIN edges = 1 .. Len(edges) /\ Len(edges) \in Nat
  BY LenProperties DEF TypeOK
<1>2. (\A i \in DOMAIN edges : who.rtt[i] \in Nat) /\ t.draw \in 0 .. DrawSteps - 1 /\ t.pick \in Nat
  BY ChancesTyped
<1>3. Route(cfg.policy, who, edges, t) # NoEdge /\ Routed(t) = Route(cfg.policy, who, edges, t)
  BY DEF Routed
<1> HIDE DEF who
<1>4. /\ Routed(t) \in DOMAIN edges
      /\ \/ Routed(t) \in Open(edges)
         \/ cfg.policy = "weighted_capacity" /\ t.draw = 0 /\ Routed(t) = 1
  <2> DEFINE policy == cfg.policy
  <2> HIDE DEF policy
  <2>1. Route(policy, who, edges, t) # NoEdge
    BY <1>3 DEF policy
  <2>2. LET r == Route(policy, who, edges, t)
        IN  r \in DOMAIN edges
            /\ (r \in Open(edges) \/ (policy = "weighted_capacity" /\ t.draw = 0 /\ r = 1))
    BY <1>1, <1>2, <2>1, RouteAnswers
  <2>3. QED
    BY <1>3, <2>2 DEF policy
<1>5. QED
  BY <1>1, <1>4

\* One edge gets the client: the first with the ID of the one routed to.
LEMMA BumpOne ==
  ASSUME NEW es \in Seq(LoadedEdges), NEW r \in DOMAIN es
  PROVE  /\ Bump(es, r) \in Seq(LoadedEdges) /\ Len(Bump(es, r)) = Len(es)
         /\ DOMAIN Bump(es, r) = DOMAIN es
         /\ \E i \in DOMAIN es :
              /\ es[i].id = es[r].id
              /\ Bump(es, r) = [es EXCEPT ![i].load = @ + 1]
<1> DEFINE same == { j \in DOMAIN es : es[j].id = es[r].id }
           i == Min(same)
<1>1. DOMAIN es = 1 .. Len(es) /\ Len(es) \in Nat /\ \A j \in 1 .. Len(es) : es[j] \in LoadedEdges
  BY LenProperties, ElementOfSeq
<1>2. i \in same
  <2>1. same \subseteq Nat /\ same # {}
    BY <1>1
  <2>2. QED
    BY <2>1, MinExists
<1>3. i \in DOMAIN es /\ es[i].id = es[r].id /\ Bump(es, r) = [es EXCEPT ![i].load = @ + 1]
  BY <1>2 DEF Bump
<1> HIDE DEF i
<1>4. [es[i] EXCEPT !.load = @ + 1] \in LoadedEdges
  <2>1. es[i] \in LoadedEdges
    BY <1>1, <1>3
  <2>2. ASSUME NEW e \in LoadedEdges PROVE [e EXCEPT !.load = @ + 1] \in LoadedEdges
    <3>1. /\ e = [id |-> e.id, geo |-> e.geo, capacity |-> e.capacity, load |-> e.load]
          /\ e.id \in STRING /\ e.geo \in STRING /\ e.capacity \in Int /\ e.load + 1 \in Nat
      BY DEF LoadedEdges
    <3>2. [e EXCEPT !.load = @ + 1]
            = [id |-> e.id, geo |-> e.geo, capacity |-> e.capacity, load |-> e.load + 1]
      BY <3>1
    <3>3. QED
      BY <3>1, <3>2 DEF LoadedEdges
  <2>3. QED
    BY <2>1, <2>2
<1>5. Bump(es, r) \in [1 .. Len(es) -> LoadedEdges]
  BY <1>1, <1>3, <1>4
<1>6. Bump(es, r) \in Seq(LoadedEdges) /\ Len(Bump(es, r)) = Len(es)
  BY <1>1, <1>5, SeqDef, LenProperties
<1>7. QED
  BY <1>3, <1>6

\* What Validate fills in leaves the rest alone.
LEMMA DefaultsKeep ==
  ASSUME NEW c, IsConfig(c)
  PROVE  LET d == WithDefaults(c)
         IN  /\ IsConfig(d)
             /\ d.protocols = c.protocols /\ d.clients = c.clients /\ d.edges = c.edges
             /\ d.geos = c.geos /\ d.rtts = c.rtts /\ d.draws = c.draws /\ d.picks = c.picks
             /\ d.contents = c.contents /\ d.runs >= 1
<1> DEFINE d == WithDefaults(c)
<1>1. DOMAIN d = DOMAIN c
  BY DEF WithDefaults
<1>2. /\ d.runs \in Int /\ d.runs >= 1 /\ d.clients = c.clients /\ d.protocols = c.protocols
      /\ d.edges = c.edges /\ d.geos = c.geos /\ d.rtts = c.rtts
      /\ d.draws = c.draws /\ d.picks = c.picks /\ d.contents = c.contents
      /\ d.outcomes = c.outcomes
  BY DEF WithDefaults, IsConfig
<1> HIDE DEF d
<1>3. QED
  BY <1>1, <1>2 DEF IsConfig, d

\* What a client that is served changes.
LEMMA Served ==
  ASSUME TypeOK, ServeClient
  PROVE  \E t \in Chances, s \in Sessions :
           /\ pc = "clients" /\ client < cfg.clients
           /\ Routed(t) \in DOMAIN edges /\ edges' = Bump(edges, Routed(t))
           /\ s.protocol = LabelOf(Protocol) /\ s.run = run /\ s.client = client
           /\ s.edge = Routed(t) /\ s.content = t.content /\ results' = Append(results, s)
           /\ tape' = Recorded(t) /\ client' = client + 1
           /\ UNCHANGED <<cfg, pc, proto, run, report>>
<1>1. PICK t \in Chances, outcome \in cfg.outcomes :
        /\ pc = "clients" /\ client < cfg.clients
        /\ Routed(t) # NoEdge /\ edges' = Bump(edges, Routed(t))
        /\ results' = Append(results, [protocol |-> LabelOf(Protocol), run |-> run,
                                       client |-> client, edge |-> Routed(t),
                                       content |-> t.content, played |-> outcome])
        /\ tape' = Recorded(t) /\ client' = client + 1
        /\ UNCHANGED <<cfg, pc, proto, run, report>>
  BY DEF ServeClient, Serving
<1> DEFINE s == [protocol |-> LabelOf(Protocol), run |-> run, client |-> client,
                 edge |-> Routed(t), content |-> t.content, played |-> outcome]
<1>2. Routed(t) \in DOMAIN edges /\ Routed(t) \in Nat /\ t.content \in Nat
  BY <1>1, RoutedTyped, ChancesTyped
<1>3. outcome \in Outcomes /\ run \in Nat /\ client \in Nat
  BY DEF TypeOK, IsConfig
<1>4. LabelOf(Protocol) \in {"tcp-h2", "quic-h3"}
  BY DEF LabelOf
<1>5. s \in Sessions
  BY <1>2, <1>3, <1>4 DEF Sessions
<1>6. /\ s.protocol = LabelOf(Protocol) /\ s.run = run /\ s.client = client
      /\ s.edge = Routed(t) /\ s.content = t.content /\ results' = Append(results, s)
  BY <1>1
<1> HIDE DEF s
<1>7. QED
  BY <1>1, <1>2, <1>5, <1>6

LEMMA InitTypeOK == Init => TypeOK
<1> SUFFICES ASSUME Init PROVE TypeOK
  OBVIOUS
<1>1. IsConfig(cfg)
  BY ConfigsAssumption DEF Init
<1>2. DOMAIN tape = {}
  BY DEF Init
<1>3. IsFiniteSet(DOMAIN tape)
  BY <1>2, FS_EmptySet
<1>4. QED
  BY <1>1, <1>2, <1>3 DEF Init, TypeOK

LEMMA StepTypeOK == TypeOK /\ [Next]_vars => TypeOK'
<1> SUFFICES ASSUME TypeOK, [Next]_vars PROVE TypeOK'
  OBVIOUS
<1>1. ASSUME cfg' = cfg, tape' = tape
      PROVE  \A k \in DOMAIN tape' : k = <<k[1], k[2]>> /\ k[2] \in Nat /\ tape'[k] \in FirstChances(k[2])'
  BY <1>1 DEF TypeOK, FirstChances, GeoOf
<1>2. CASE LoadConfig
  <2>0. cfg' = WithDefaults(cfg) /\ IsConfig(cfg)
    BY <1>2 DEF LoadConfig, TypeOK
  <2>1. /\ IsConfig(cfg') /\ cfg'.geos = cfg.geos /\ cfg'.rtts = cfg.rtts /\ cfg'.draws = cfg.draws
        /\ cfg'.picks = cfg.picks /\ cfg'.contents = cfg.contents
    BY <2>0, DefaultsKeep
  <2>2. \A k \in DOMAIN tape' : k = <<k[1], k[2]>> /\ k[2] \in Nat /\ tape'[k] \in FirstChances(k[2])'
    <3>1. tape' = tape
      BY <1>2 DEF LoadConfig
    <3>2. QED
      BY <2>1, <3>1 DEF TypeOK, FirstChances, GeoOf
  <2>3. QED
    BY <1>2, <2>1, <2>2 DEF LoadConfig, TypeOK
<1>3. CASE Begin
  BY <1>1, <1>3 DEF Begin, TypeOK
<1>4. CASE Cancelled
  BY <1>1, <1>4 DEF Cancelled, TypeOK
<1>5. CASE StartRun
  <2>1. cfg.edges \in Seq(LoadedEdges)
    <3>1. cfg.edges \in Seq(Edges)
      BY DEF TypeOK, IsConfig
    <3>2. \A e \in Edges : e \in LoadedEdges
      BY DEF Edges, LoadedEdges
    <3>3. QED
      BY <3>1, <3>2
  <2>2. QED
    BY <1>1, <1>5, <2>1 DEF StartRun, TypeOK
<1>6. CASE ServeClient
  <2>1. PICK t \in Chances, s \in Sessions :
          /\ pc = "clients" /\ Routed(t) \in DOMAIN edges /\ edges' = Bump(edges, Routed(t))
          /\ results' = Append(results, s) /\ tape' = Recorded(t) /\ client' = client + 1
          /\ UNCHANGED <<cfg, pc, proto, run, report>>
    BY <1>6, Served
  <2>3. edges' \in Seq(LoadedEdges) /\ Len(edges') = Len(edges)
    BY <2>1, BumpOne DEF TypeOK
  <2>4. t \in FirstChances(client)
    BY <2>1, ChancesTyped
  <2>5. results' \in Seq(Sessions)
    BY <2>1, AppendProperties DEF TypeOK
  <2>6. /\ DOMAIN tape' = DOMAIN tape \cup {<<Seed, client>>}
        /\ \A k \in DOMAIN tape' : tape'[k] = IF k = <<Seed, client>> THEN t ELSE tape[k]
    BY <2>1 DEF Recorded
  <2>7. IsFiniteSet(DOMAIN tape')
    <3>1. IsFiniteSet(DOMAIN tape)
      BY DEF TypeOK
    <3>2. IsFiniteSet(DOMAIN tape \cup {<<Seed, client>>})
      BY <3>1, FS_AddElement
    <3>3. QED
      BY <2>6, <3>2
  <2>8. \A k \in DOMAIN tape' : k = <<k[1], k[2]>> /\ k[2] \in Nat /\ tape'[k] \in FirstChances(k[2])'
    <3> SUFFICES ASSUME NEW k \in DOMAIN tape'
                 PROVE  k = <<k[1], k[2]>> /\ k[2] \in Nat /\ tape'[k] \in FirstChances(k[2])'
      OBVIOUS
    <3>1. k = <<k[1], k[2]>> /\ k[2] \in Nat /\ tape'[k] \in FirstChances(k[2])
      <4>1. CASE k = <<Seed, client>>
        BY <2>4, <2>6, <4>1 DEF TypeOK
      <4>2. CASE k # <<Seed, client>>
        BY <2>6, <4>2 DEF TypeOK
      <4>3. QED
        BY <4>1, <4>2
    <3>2. QED
      BY <2>1, <3>1 DEF FirstChances, GeoOf
  <2>9. QED
    BY <2>1, <2>3, <2>5, <2>7, <2>8 DEF TypeOK
<1>7. CASE NoEdgeAvailable
  BY <1>1, <1>7 DEF NoEdgeAvailable, Serving, Fail, TypeOK
<1>8. CASE SessionFails
  <2>1. PICK t \in Chances :
          /\ pc = "clients" /\ Routed(t) # NoEdge /\ edges' = Bump(edges, Routed(t))
          /\ pc' = "failed" /\ UNCHANGED <<cfg, proto, run, client, results, tape>>
    BY <1>8 DEF SessionFails, Serving, Fail
  <2>2. edges' \in Seq(LoadedEdges)
    <3>1. Routed(t) \in DOMAIN edges
      BY <2>1, RoutedTyped
    <3>2. QED
      BY <2>1, <3>1, BumpOne DEF TypeOK
  <2>3. QED
    BY <1>1, <2>1, <2>2 DEF TypeOK
<1>9. CASE EndRun
  BY <1>1, <1>9 DEF EndRun, TypeOK
<1>10. CASE Report
  BY <1>1, <1>10 DEF Report, TypeOK
<1>11. CASE UNCHANGED vars
  BY <1>1, <1>11 DEF vars, TypeOK
<1>12. QED
  BY <1>2, <1>3, <1>4, <1>5, <1>6, <1>7, <1>8, <1>9, <1>10, <1>11 DEF Next

-----------------------------------------------------------------------------
(***************************************************************************)
(* How far the loops are, and what is filed.                               *)
(***************************************************************************)
LoopsOK ==
  /\ pc \notin {"load", "rejected"} => cfg.runs >= 1 /\ cfg.clients >= 1 /\ cfg.protocols # << >>
  /\ pc \in {"load", "begin"} => proto = 1 /\ run = 0 /\ client = 0 /\ results = << >> /\ tape = << >>
  /\ pc \in {"loop", "clients", "done"} => proto <= Len(cfg.protocols) + 1 /\ run < cfg.runs
  /\ pc = "clients" => proto <= Len(cfg.protocols) /\ client <= cfg.clients
  /\ pc \in {"loop", "done"} /\ Finished => run = 0
  /\ pc = "done" => Finished
  /\ report # << >> <=> pc = "done"

LEMMA StepLoopsOK == TypeOK /\ LoopsOK /\ [Next]_vars => LoopsOK'
<1> SUFFICES ASSUME TypeOK, LoopsOK, [Next]_vars PROVE LoopsOK'
  OBVIOUS
<1>0. /\ cfg.protocols \in Seq(STRING) /\ Len(cfg.protocols) \in Nat
      /\ cfg.runs \in Int /\ cfg.clients \in Int
      /\ proto \in Nat /\ run \in Nat /\ client \in Nat
  BY LenProperties DEF TypeOK, IsConfig
<1>1. CASE LoadConfig
  <2>1. /\ cfg' = WithDefaults(cfg) /\ pc = "load"
        /\ pc' = IF Valid(cfg') THEN "begin" ELSE "rejected"
        /\ UNCHANGED <<proto, run, client, edges, open, results, tape, report>>
    BY <1>1 DEF LoadConfig
  <2>2. cfg'.runs >= 1 /\ cfg'.clients = cfg.clients /\ cfg'.protocols = cfg.protocols
    BY <2>1, DefaultsKeep DEF TypeOK
  <2>3. pc' = "begin" => cfg'.clients >= 1 /\ cfg'.protocols # << >>
    <3>1. Valid(cfg') => cfg'.clients > 0 /\ cfg'.protocols # << >>
      BY DEF Valid
    <3>2. pc' = "begin" => Valid(cfg')
      BY <2>1
    <3>3. QED
      BY <1>0, <2>2, <3>1, <3>2
  <2>4. QED
    BY <2>1, <2>2, <2>3 DEF LoopsOK
<1>2. CASE Begin
  BY <1>0, <1>2, EmptySeq DEF Begin, LoopsOK
<1>3. CASE Cancelled
  BY <1>3 DEF Cancelled, LoopsOK
<1>4. CASE StartRun
  BY <1>0, <1>4 DEF StartRun, LoopsOK, Finished
<1>5. CASE ServeClient
  BY <1>0, <1>5 DEF ServeClient, Serving, LoopsOK
<1>6. CASE NoEdgeAvailable
  BY <1>6 DEF NoEdgeAvailable, Serving, Fail, LoopsOK
<1>7. CASE SessionFails
  BY <1>7 DEF SessionFails, Serving, Fail, LoopsOK
<1>8. CASE EndRun
  BY <1>0, <1>8 DEF EndRun, LoopsOK, Finished
<1>9. CASE Report
  <2>1. report' # << >>
    <3>1. DOMAIN report' = {"by", "comparison", "enhanced"}
      BY <1>9 DEF Report
    <3>2. QED
      BY <3>1
  <2>2. QED
    BY <1>9, <2>1 DEF Report, LoopsOK, Finished
<1>10. CASE UNCHANGED vars
  BY <1>10 DEF vars, LoopsOK, Finished
<1>11. QED
  BY <1>1, <1>2, <1>3, <1>4, <1>5, <1>6, <1>7, <1>8, <1>9, <1>10 DEF Next

\* The places of protocol p in the list, and those the loop is past.
Places(p) == { k \in DOMAIN cfg.protocols : LabelOf(cfg.protocols[k]) = p }
Past(p) == { k \in Places(p) : k < proto }

\* The sessions filed under p in the protocol that is being run.
FiledNow(p) ==
  IF ~Finished /\ LabelOf(Protocol) = p
  THEN run * cfg.clients + (IF pc = "clients" THEN client ELSE 0)
  ELSE 0

\* Every session that was played is filed.
FiledOK ==
  pc \in {"loop", "clients", "done"} =>
    \A p : Len(OfProtocol(results, p)) = cfg.runs * cfg.clients * Cardinality(Past(p)) + FiledNow(p)

\* The sessions of a protocol that is listed once are in the order of runs and clients.
PlacedOK ==
  pc \in {"loop", "clients", "done"} =>
    \A p : (\A k, l \in Places(p) : k = l) =>
      LET mine == OfProtocol(results, p)
      IN  \A j \in DOMAIN mine :
            mine[j].client < cfg.clients /\ mine[j].run * cfg.clients + mine[j].client + 1 = j

LEMMA PastFinite ==
  ASSUME TypeOK, NEW p
  PROVE  /\ IsFiniteSet(Places(p)) /\ IsFiniteSet(Past(p)) /\ Cardinality(Past(p)) \in Nat
         /\ Finished => Past(p) = Places(p)
<1>1. cfg.protocols \in Seq(STRING) /\ Len(cfg.protocols) \in Nat
      /\ DOMAIN cfg.protocols = 1 .. Len(cfg.protocols) /\ proto \in Nat
  BY LenProperties DEF TypeOK, IsConfig
<1>2. Places(p) \subseteq 1 .. Len(cfg.protocols) /\ Past(p) \subseteq Places(p)
  BY <1>1 DEF Places, Past
<1>3. IsFiniteSet(Places(p)) /\ IsFiniteSet(Past(p))
  <2>1. IsFiniteSet(1 .. Len(cfg.protocols))
    BY <1>1, RangeCounts
  <2>2. IsFiniteSet(Places(p))
    BY <1>2, <2>1, FS_Subset
  <2>3. QED
    BY <1>2, <2>2, FS_Subset
<1>4. Finished => Past(p) = Places(p)
  BY <1>1 DEF Finished, Places, Past
<1>5. QED
  BY <1>3, <1>4, FS_CardinalityType

\* Nothing of p is filed in advance.
LEMMA StepFiledOK == TypeOK /\ LoopsOK /\ FiledOK /\ [Next]_vars => FiledOK'
<1> SUFFICES ASSUME TypeOK, LoopsOK, FiledOK, [Next]_vars,
                    pc' \in {"loop", "clients", "done"}, NEW p
             PROVE  Len(OfProtocol(results, p))'
                      = cfg'.runs * cfg'.clients * Cardinality(Past(p)') + FiledNow(p)'
  BY DEF FiledOK
<1>0. /\ cfg.protocols \in Seq(STRING) /\ Len(cfg.protocols) \in Nat
      /\ DOMAIN cfg.protocols = 1 .. Len(cfg.protocols)
      /\ cfg.runs \in Int /\ cfg.clients \in Int
      /\ proto \in Nat \ {0} /\ run \in Nat /\ client \in Nat /\ results \in Seq(Sessions)
  BY LenProperties DEF TypeOK, IsConfig
<1> DEFINE full == cfg.runs * cfg.clients
<1>1. IsFiniteSet(Past(p)) /\ Cardinality(Past(p)) \in Nat /\ full \in Int
  BY <1>0, PastFinite
<1>2. CASE LoadConfig
  BY <1>2 DEF LoadConfig
<1>3. CASE Begin
  <2>1. results' = << >> /\ proto' = 1 /\ run' = 0 /\ pc' = "loop" /\ cfg' = cfg
    BY <1>3 DEF Begin, LoopsOK
  <2>2. Len(OfProtocol(results', p)) = 0
    BY <2>1, OfProtocolOfNothing
  <2>3. Past(p)' = {}
    BY <1>0, <2>1 DEF Past, Places
  <2>4. Cardinality(Past(p)') = 0
    BY <2>3, FS_EmptySet
  <2>5. FiledNow(p)' = 0
    BY <1>0, <2>1 DEF FiledNow
  <2>6. QED
    BY <1>0, <1>1, <2>1, <2>2, <2>4, <2>5
<1>4. CASE Cancelled
  BY <1>4 DEF Cancelled
<1>5. CASE StartRun
  <2>1. UNCHANGED <<cfg, proto, run, results>> /\ pc = "loop" /\ pc' = "clients" /\ client' = 0
    BY <1>5 DEF StartRun
  <2>2. FiledNow(p)' = FiledNow(p)
    BY <1>0, <2>1 DEF FiledNow, Protocol, Finished
  <2>3. QED
    BY <2>1, <2>2 DEF FiledOK, Past, Places
<1>6. CASE ServeClient
  <2>1. PICK s \in Sessions :
          /\ pc = "clients" /\ s.protocol = LabelOf(Protocol) /\ results' = Append(results, s)
          /\ client' = client + 1 /\ UNCHANGED <<cfg, pc, proto, run>>
    BY <1>6, Served
  <2>2. ~Finished
    BY <1>0, <2>1 DEF LoopsOK, Finished
  <2> DEFINE one == IF LabelOf(Protocol) = p THEN 1 ELSE 0
  <2>3. Len(OfProtocol(results', p)) = Len(OfProtocol(results, p)) + one
    <3>1. /\ OfProtocol(results, p) \in Seq(Sessions)
          /\ OfProtocol(results', p) = IF s.protocol = p THEN Append(OfProtocol(results, p), s)
                                                         ELSE OfProtocol(results, p)
      BY <1>0, <2>1, OfProtocolAppend
    <3>2. QED
      BY <2>1, <3>1, LenProperties, AppendProperties
  <2>4. FiledNow(p)' = FiledNow(p) + one
    BY <1>0, <2>1, <2>2 DEF FiledNow, Finished, Protocol
  <2>5. Len(OfProtocol(results, p)) = full * Cardinality(Past(p)) + FiledNow(p)
    BY <2>1 DEF FiledOK
  <2>6. Past(p)' = Past(p) /\ cfg' = cfg
    BY <2>1 DEF Past, Places
  <2>7. FiledNow(p) \in Int
    BY <1>0 DEF FiledNow
  <2>8. QED
    BY <1>1, <2>3, <2>4, <2>5, <2>6, <2>7
<1>7. CASE NoEdgeAvailable
  BY <1>7 DEF NoEdgeAvailable, Fail
<1>8. CASE SessionFails
  BY <1>8 DEF SessionFails, Fail
<1>9. CASE EndRun
  <2>1. /\ pc = "clients" /\ client = cfg.clients /\ pc' = "loop" /\ UNCHANGED <<cfg, results, client>>
        /\ run' = IF run + 1 < cfg.runs THEN run + 1 ELSE 0
        /\ proto' = IF run + 1 < cfg.runs THEN proto ELSE proto + 1
    BY <1>9 DEF EndRun
  <2>a. /\ ~Finished /\ run < cfg.runs
        /\ Len(OfProtocol(results, p)) = full * Cardinality(Past(p)) + FiledNow(p)
    BY <1>0, <2>1 DEF LoopsOK, Finished, FiledOK
  <2>b. \A a, b \in Int : a * b \in Int
    OBVIOUS
  <2>c. run * cfg.clients + cfg.clients = (run + 1) * cfg.clients
    <3>1. ASSUME NEW a \in Int, NEW b \in Int PROVE a * b + b = (a + 1) * b
      OBVIOUS
    <3>2. run \in Int /\ cfg.clients \in Int
      BY <1>0
    <3>3. QED
      BY <3>1, <3>2
  <2>2. CASE run + 1 < cfg.runs
    <3>1. proto' = proto /\ run' = run + 1 /\ Past(p)' = Past(p)
      BY <2>1, <2>2 DEF Past, Places
    <3>2. run * cfg.clients + cfg.clients = (run + 1) * cfg.clients
      BY <2>c
    <3>3. FiledNow(p)' = FiledNow(p)
      <4>1. FiledNow(p) = IF LabelOf(Protocol) = p THEN run * cfg.clients + cfg.clients ELSE 0
        BY <2>1, <2>a DEF FiledNow
      <4>2. FiledNow(p)' = IF LabelOf(Protocol) = p THEN (run + 1) * cfg.clients + 0 ELSE 0
        BY <2>1, <2>a, <3>1 DEF FiledNow, Finished, Protocol
      <4>3. (run + 1) * cfg.clients + 0 = (run + 1) * cfg.clients
        BY <1>0, <2>b
      <4>4. QED
        BY <3>2, <4>1, <4>2, <4>3
    <3>4. QED
      BY <2>1, <2>a, <3>1, <3>3
  <2>3. CASE ~(run + 1 < cfg.runs)
    <3>1. proto' = proto + 1 /\ run' = 0 /\ run + 1 = cfg.runs
      BY <1>0, <2>1, <2>3, <2>a
    <3>2. run * cfg.clients + cfg.clients = full
      BY <2>c, <3>1
    <3>3. FiledNow(p)' = 0
      <4>1. 0 * cfg.clients + 0 = 0
        BY <1>0
      <4>2. QED
        BY <2>1, <3>1, <4>1 DEF FiledNow
    <3>4. CASE LabelOf(Protocol) = p
      <4>1. Past(p)' = Past(p) \cup {proto} /\ proto \notin Past(p)
        BY SMTT(20), <1>0, <2>1, <2>a, <3>1, <3>4 DEF Past, Places, Protocol, Finished
      <4>2. Cardinality(Past(p)') = Cardinality(Past(p)) + 1
        BY <1>1, <4>1, FS_AddElement
      <4>3. FiledNow(p) = full
        BY <2>1, <2>a, <3>2, <3>4 DEF FiledNow
      <4>4. full * Cardinality(Past(p)) + full = full * (Cardinality(Past(p)) + 1)
        BY <1>1
      <4>5. full * (Cardinality(Past(p)) + 1) + 0 = full * (Cardinality(Past(p)) + 1)
        BY <1>1
      <4>6. QED
        BY <2>1, <2>a, <3>3, <4>2, <4>3, <4>4, <4>5
    <3>5. CASE LabelOf(Protocol) # p
      <4>1. Past(p)' = Past(p)
        BY <1>0, <2>1, <2>a, <3>1, <3>5 DEF Past, Places, Protocol, Finished
      <4>2. FiledNow(p) = 0
        BY <3>5 DEF FiledNow
      <4>3. QED
        BY <2>1, <2>a, <3>3, <4>1, <4>2
    <3>6. QED
      BY <3>4, <3>5
  <2>4. QED
    BY <2>2, <2>3
<1>10. CASE Report
  <2>1. UNCHANGED <<cfg, proto, run, results, client>> /\ pc = "loop" /\ pc' = "done"
    BY <1>10 DEF Report
  <2>2. FiledNow(p)' = FiledNow(p)
    BY <1>0, <2>1 DEF FiledNow, Protocol, Finished
  <2>3. QED
    BY <2>1, <2>2 DEF FiledOK, Past, Places
<1>11. CASE UNCHANGED vars
  BY <1>11 DEF vars, FiledOK, FiledNow, Protocol, Finished, Past, Places
<1>12. QED
  BY <1>2, <1>3, <1>4, <1>5, <1>6, <1>7, <1>8, <1>9, <1>10, <1>11 DEF Next

LEMMA StepPlacedOK == TypeOK /\ LoopsOK /\ FiledOK /\ PlacedOK /\ [Next]_vars => PlacedOK'
<1> SUFFICES ASSUME TypeOK, LoopsOK, FiledOK, PlacedOK, [Next]_vars,
                    pc' \in {"loop", "clients", "done"},
                    NEW p, \A k, l \in Places(p)' : k = l,
                    NEW j \in DOMAIN OfProtocol(results', p)
             PROVE  LET s == OfProtocol(results', p)[j]
                    IN  s.client < cfg'.clients /\ s.run * cfg'.clients + s.client + 1 = j
  BY DEF PlacedOK
<1> DEFINE mine == OfProtocol(results, p)
<1>0. /\ cfg.protocols \in Seq(STRING) /\ Len(cfg.protocols) \in Nat
      /\ DOMAIN cfg.protocols = 1 .. Len(cfg.protocols)
      /\ cfg.runs \in Int /\ cfg.clients \in Int
      /\ proto \in Nat \ {0} /\ run \in Nat /\ client \in Nat /\ results \in Seq(Sessions)
  BY LenProperties DEF TypeOK, IsConfig
<1>1. ASSUME cfg' = cfg, results' = results, pc \in {"loop", "clients", "done"}
      PROVE  LET s == OfProtocol(results', p)[j]
             IN  s.client < cfg'.clients /\ s.run * cfg'.clients + s.client + 1 = j
  <2>1. Places(p)' = Places(p)
    BY <1>1 DEF Places
  <2>2. QED
    BY <1>1, <2>1 DEF PlacedOK
<1>2. CASE LoadConfig
  BY <1>2 DEF LoadConfig
<1>3. CASE Begin
  <2>1. results' = << >>
    BY <1>3 DEF Begin, LoopsOK
  <2>2. OfProtocol(results', p) = << >>
    BY <2>1, OfProtocolOfNothing
  <2>3. QED
    BY <2>2
<1>4. CASE Cancelled
  BY <1>4 DEF Cancelled
<1>5. CASE StartRun
  BY <1>1, <1>5 DEF StartRun
<1>6. CASE ServeClient
  <2>1. PICK s \in Sessions :
          /\ pc = "clients" /\ client < cfg.clients
          /\ s.protocol = LabelOf(Protocol) /\ s.run = run /\ s.client = client
          /\ results' = Append(results, s) /\ UNCHANGED <<cfg, pc, proto, run>>
    BY <1>6, Served
  <2>2. /\ mine \in Seq(Sessions)
        /\ OfProtocol(results', p) = IF s.protocol = p THEN Append(mine, s) ELSE mine
    BY <1>0, <2>1, OfProtocolAppend
  <2>3. Places(p)' = Places(p)
    BY <2>1 DEF Places
  <2>4. \A i \in DOMAIN mine :
          mine[i].client < cfg.clients /\ mine[i].run * cfg.clients + mine[i].client + 1 = i
    BY <2>1, <2>3 DEF PlacedOK
  <2>5. CASE s.protocol # p
    BY <2>1, <2>2, <2>4, <2>5
  <2>6. CASE s.protocol = p
    <3>1. ~Finished /\ proto \in Places(p)
      <4>1. proto \in 1 .. Len(cfg.protocols)
        BY <1>0, <2>1 DEF LoopsOK
      <4>2. LabelOf(cfg.protocols[proto]) = p
        BY <2>1, <2>6 DEF Protocol
      <4>3. QED
        BY <1>0, <4>1, <4>2 DEF Finished, Places
    <3>2. Past(p) = {}
      BY <1>0, <2>3, <3>1 DEF Past
    <3>3. Len(mine) = cfg.runs * cfg.clients * Cardinality(Past(p)) + FiledNow(p)
      BY <2>1 DEF FiledOK
    <3>4. Cardinality(Past(p)) = 0 /\ cfg.runs * cfg.clients \in Int
      BY <1>0, <3>2, FS_EmptySet
    <3>5. FiledNow(p) = run * cfg.clients + client
      BY <2>1, <2>6, <3>1 DEF FiledNow
    <3>6. run * cfg.clients \in Int
      BY <1>0
    <3>7. Len(mine) = run * cfg.clients + client
      BY <1>0, <3>3, <3>4, <3>5, <3>6
    <3>8. /\ DOMAIN Append(mine, s) = 1 .. Len(mine) + 1 /\ Len(mine) \in Nat
          /\ DOMAIN mine = 1 .. Len(mine)
          /\ \A i \in 1 .. Len(mine) : Append(mine, s)[i] = mine[i]
          /\ Append(mine, s)[Len(mine) + 1] = s
      BY <2>2, LenProperties, AppendProperties
    <3> HIDE DEF mine
    <3>9. CASE j \in 1 .. Len(mine)
      BY <2>1, <2>2, <2>4, <2>6, <3>8, <3>9
    <3>10. CASE j = Len(mine) + 1
      BY <2>1, <2>2, <2>6, <3>6, <3>7, <3>8, <3>10
    <3>11. QED
      BY <2>2, <2>6, <3>8, <3>9, <3>10
  <2>7. QED
    BY <2>5, <2>6
<1>7. CASE NoEdgeAvailable
  BY <1>7 DEF NoEdgeAvailable, Fail
<1>8. CASE SessionFails
  BY <1>8 DEF SessionFails, Fail
<1>9. CASE EndRun
  BY <1>1, <1>9 DEF EndRun
<1>10. CASE Report
  BY <1>1, <1>10 DEF Report
<1>11. CASE UNCHANGED vars
  BY <1>1, <1>11 DEF vars
<1>12. QED
  BY <1>2, <1>3, <1>4, <1>5, <1>6, <1>7, <1>8, <1>9, <1>10, <1>11 DEF Next

\* A report says what was collected.
ReportOK ==
  pc = "done" =>
    report = [by |-> [p \in ToSet(cfg.protocols) |-> Aggregate(results, p)],
              comparison |-> IF HasBoth THEN Compare(results) ELSE None,
              enhanced |-> IF HasBoth /\ ~Emulated THEN CompareEnhanced(results) ELSE None]

LEMMA StepReportOK == ReportOK /\ [Next]_vars => ReportOK'
<1> SUFFICES ASSUME ReportOK, [Next]_vars PROVE ReportOK'
  OBVIOUS
<1>1. CASE Report
  BY <1>1 DEF Report, ReportOK, HasBoth, Emulated
<1>2. CASE UNCHANGED vars
  BY <1>2 DEF vars, ReportOK, HasBoth, Emulated
<1>3. ASSUME Next, ~Report PROVE pc' # "done"
  BY <1>3 DEF Next, LoadConfig, Begin, Cancelled, StartRun, ServeClient, Serving, NoEdgeAvailable,
     SessionFails, Fail, EndRun
<1>4. QED
  BY <1>1, <1>2, <1>3 DEF ReportOK

LEMMA StepClosed == NothingLeftOpen /\ [Next]_vars => NothingLeftOpen'
<1> SUFFICES ASSUME NothingLeftOpen, [Next]_vars PROVE NothingLeftOpen'
  OBVIOUS
<1>1. CASE LoadConfig \/ Begin \/ Cancelled \/ StartRun \/ Report
  BY <1>1 DEF LoadConfig, Begin, Cancelled, StartRun, Report, NothingLeftOpen
<1>2. CASE ServeClient
  BY <1>2 DEF ServeClient, Serving, NothingLeftOpen
<1>3. CASE NoEdgeAvailable \/ SessionFails \/ EndRun
  BY <1>3 DEF NoEdgeAvailable, SessionFails, EndRun, Fail, NothingLeftOpen
<1>4. CASE UNCHANGED vars
  BY <1>4 DEF vars, NothingLeftOpen
<1>5. QED
  BY <1>1, <1>2, <1>3, <1>4 DEF Next

Inv == TypeOK /\ LoopsOK /\ FiledOK /\ PlacedOK /\ ReportOK /\ NothingLeftOpen

LEMMA InitInv == Init => Inv
<1>1. Init => TypeOK
  BY InitTypeOK
<1>2. Init => LoopsOK /\ FiledOK /\ PlacedOK /\ ReportOK /\ NothingLeftOpen
  BY DEF Init, LoopsOK, FiledOK, PlacedOK, ReportOK, NothingLeftOpen
<1>3. QED
  BY <1>1, <1>2 DEF Inv

LEMMA StepInv == Inv /\ [Next]_vars => Inv'
BY StepTypeOK, StepLoopsOK, StepFiledOK, StepPlacedOK, StepReportOK, StepClosed DEF Inv

\* A run ends in one of two ways: with every session filed under its protocol and the
\* report written, or with nothing reported; either way every transport is closed
\* (runner.go:80, emulated.go:92).
THEOREM RunsWhole == Spec => []RunsEndWhole
<1>1. Inv => RunsEndWhole
  <2> SUFFICES ASSUME Inv PROVE SessionsFiled
    BY DEF Inv, RunsEndWhole
  <2>1. report # << >> <=> pc = "done"
    BY DEF Inv, LoopsOK
  <2>2. ASSUME pc = "done", NEW p \in ToSet(cfg.protocols)
        PROVE  report.by[p].sessions = cfg.runs * cfg.clients * Cardinality(Places(p))
    <3>1. report.by[p].sessions = Len(OfProtocol(results, p))
      BY <2>2 DEF Inv, ReportOK, Aggregate
    <3>2. Len(OfProtocol(results, p)) = cfg.runs * cfg.clients * Cardinality(Past(p)) + FiledNow(p)
      BY <2>2 DEF Inv, FiledOK
    <3>3. FiledNow(p) = 0 /\ Past(p) = Places(p)
      BY <2>2, PastFinite DEF Inv, LoopsOK, FiledNow
    <3>4. Cardinality(Places(p)) \in Nat /\ cfg.runs \in Int /\ cfg.clients \in Int
      BY <3>3, PastFinite DEF Inv, TypeOK, IsConfig
    <3>5. cfg.runs * cfg.clients * Cardinality(Places(p)) \in Int
      BY <3>4
    <3>6. QED
      BY <3>1, <3>2, <3>3, <3>5
  <2>3. QED
    BY <2>1, <2>2 DEF SessionsFiled, Places
<1>2. QED
  BY <1>1, InitInv, StepInv, PTL DEF Spec

-----------------------------------------------------------------------------
(***************************************************************************)
(* In modelled mode every pass over a run replays the first one.  H gives  *)
(* the edges of a run as each client found them, in whichever pass.        *)
(***************************************************************************)
RouteAt(es, who, t) == Route(cfg.policy, [geo |-> GeoOf(who), rtt |-> t.rtt], es, t)
Key(r, who) == <<<<r, "">>, who>>
Known(r, who) == Key(r, who) \in DOMAIN tape

Replays(H) ==
  /\ \A r \in Nat : H[<<r, 0>>] = cfg.edges
  /\ \A r, who \in Nat : Known(r, who) =>
       H[<<r, who + 1>>]
         = Bump(H[<<r, who>>], RouteAt(H[<<r, who>>], who, tape[Key(r, who)]))
  /\ \A r, who \in Nat : Known(r, who + 1) => Known(r, who)
  /\ pc = "clients" =>
       edges = H[<<run, client>>] /\ \A who \in Nat : who < client => Known(run, who)
  /\ \A j \in DOMAIN results : LET s == results[j] IN
       /\ Known(s.run, s.client)
       /\ s.edge = RouteAt(H[<<s.run, s.client>>], s.client, tape[Key(s.run, s.client)])
       /\ s.content = tape[Key(s.run, s.client)].content

History == [Nat \X Nat -> Seq(LoadedEdges)]
ReplayOK == ~Emulated /\ pc # "load" => \E H \in History : Replays(H)

LEMMA EdgesLoaded == TypeOK => cfg.edges \in Seq(LoadedEdges)
<1>1. TypeOK => cfg.edges \in Seq(Edges)
  BY DEF TypeOK, IsConfig
<1>2. \A e \in Edges : e \in LoadedEdges
  BY DEF Edges, LoadedEdges
<1>3. QED
  BY <1>1, <1>2

\* Serving a client extends the history, or repeats it.
LEMMA ServeReplays ==
  ASSUME Inv, ServeClient, ~Emulated, NEW H \in History, Replays(H)
  PROVE  \E G \in History : Replays(G)'
<1>1. PICK t \in Chances, s \in Sessions :
        /\ pc = "clients" /\ client < cfg.clients
        /\ Routed(t) \in DOMAIN edges /\ edges' = Bump(edges, Routed(t))
        /\ s.run = run /\ s.client = client
        /\ s.edge = Routed(t) /\ s.content = t.content /\ results' = Append(results, s)
        /\ tape' = Recorded(t) /\ client' = client + 1
        /\ UNCHANGED <<cfg, pc, run>>
  BY Served DEF Inv
<1>2. run \in Nat /\ client \in Nat /\ edges \in Seq(LoadedEdges) /\ results \in Seq(Sessions)
  BY DEF Inv, TypeOK
<1>3. <<Seed, client>> = Key(run, client)
  BY DEF Key, Seed
<1> DEFINE key == Key(run, client)
<1>4. /\ DOMAIN tape' = DOMAIN tape \cup {key}
      /\ \A k \in DOMAIN tape' : tape'[k] = IF k = key THEN t ELSE tape[k]
  BY <1>1, <1>3 DEF Recorded
<1>5. key \in DOMAIN tape => t = tape[key]
  BY <1>3 DEF Chances
<1>6. \A r, who \in Nat : (Key(r, who) = key <=> r = run /\ who = client)
  BY <1>2 DEF Key
<1>7. edges = H[<<run, client>>] /\ \A who \in Nat : who < client => Known(run, who)
  BY <1>1 DEF Replays
<1>8. Routed(t) = RouteAt(edges, client, t) /\ edges' \in Seq(LoadedEdges)
  BY <1>1, <1>2, BumpOne DEF Routed, RouteAt, Geo, GeoOf
<1>9. \A r, who \in Nat : Known(r, who)' <=> Known(r, who) \/ (r = run /\ who = client)
  BY <1>4, <1>6 DEF Known
<1>10. \A es, who, x : RouteAt(es, who, x)' = RouteAt(es, who, x)
  BY <1>1 DEF RouteAt, GeoOf
<1> HIDE DEF key
<1> DEFINE longer == IF key \in DOMAIN tape THEN H ELSE [H EXCEPT ![<<run, client + 1>>] = edges']
<1>11. PICK G \in History : G = longer
  BY <1>2, <1>8 DEF History
<1>12. \A r, who \in Nat :
         Known(r, who) \/ who = 0 \/ (r = run /\ who = client) => G[<<r, who>>] = H[<<r, who>>]
  <2> SUFFICES ASSUME NEW r \in Nat, NEW who \in Nat,
                      Known(r, who) \/ who = 0 \/ (r = run /\ who = client),
                      key \notin DOMAIN tape
               PROVE  G[<<r, who>>] = H[<<r, who>>]
    BY <1>11
  <2>1. <<r, who>> # <<run, client + 1>>
    <3>1. ~Known(run, client)
      BY DEF Known, key
    <3>2. ~Known(run, client + 1)
      BY <1>2, <3>1 DEF Replays
    <3>3. QED
      BY <1>2, <3>2
  <2>2. G = [H EXCEPT ![<<run, client + 1>>] = edges'] /\ <<r, who>> \in Nat \X Nat
    BY <1>11
  <2>3. QED
    BY <2>1, <2>2 DEF History
<1>a. \A r, who \in Nat : ~(r = run /\ who = client) => G[<<r, who + 1>>] = H[<<r, who + 1>>]
  BY <1>2, <1>11 DEF History
<1>13. G[<<run, client + 1>>] = edges'
  <2>1. CASE key \in DOMAIN tape
    <3>1. H[<<run, client + 1>>]
            = Bump(H[<<run, client>>], RouteAt(H[<<run, client>>], client, tape[key]))
      BY <1>2, <2>1 DEF Replays, Known, key
    <3>2. QED
      BY <1>1, <1>5, <1>7, <1>8, <1>11, <2>1, <3>1
  <2>2. CASE key \notin DOMAIN tape
    BY <1>2, <1>11, <2>2 DEF History
  <2>3. QED
    BY <2>1, <2>2
<1> HIDE DEF longer
<1>14. Replays(G)'
  <2>1. \A r \in Nat : G[<<r, 0>>] = cfg'.edges
    BY <1>1, <1>12 DEF Replays
  <2>2. ASSUME NEW r \in Nat, NEW who \in Nat, Known(r, who)'
        PROVE  G[<<r, who + 1>>]
                 = Bump(G[<<r, who>>], RouteAt(G[<<r, who>>], who, tape'[Key(r, who)]))
    <3>1. CASE r = run /\ who = client
      <4>1. G[<<r, who>>] = edges /\ tape'[Key(r, who)] = t /\ G[<<r, who + 1>>] = edges'
        BY <1>4, <1>6, <1>7, <1>12, <1>13, <3>1
      <4>2. QED
        BY <1>1, <1>8, <3>1, <4>1
    <3>2. CASE ~(r = run /\ who = client)
      <4>1. Known(r, who) /\ tape'[Key(r, who)] = tape[Key(r, who)]
        BY <1>4, <1>6, <1>9, <2>2, <3>2 DEF Known
      <4>2. G[<<r, who>>] = H[<<r, who>>]
        BY <1>12, <4>1
      <4>3. H[<<r, who + 1>>]
              = Bump(H[<<r, who>>], RouteAt(H[<<r, who>>], who, tape[Key(r, who)]))
        BY <4>1 DEF Replays
      <4>4. G[<<r, who + 1>>] = H[<<r, who + 1>>]
        BY <1>2, <1>a, <3>2
      <4>5. QED
        BY <4>1, <4>2, <4>3, <4>4
    <3>3. QED
      BY <3>1, <3>2
  <2>3. ASSUME NEW r \in Nat, NEW who \in Nat, Known(r, who + 1)'
        PROVE  Known(r, who)'
    <3>1. CASE Known(r, who + 1)
      BY <1>9, <3>1 DEF Replays
    <3>2. CASE r = run /\ who + 1 = client
      BY <1>7, <1>9, <3>2
    <3>3. QED
      BY <1>9, <2>3, <3>1, <3>2
  <2>4. edges' = G[<<run', client'>>] /\ \A who \in Nat : who < client' => Known(run, who)'
    <3>1. \A who \in Nat : who < client + 1 => who < client \/ who = client
      BY <1>2
    <3>2. QED
      BY <1>1, <1>2, <1>7, <1>9, <1>13, <3>1
  <2>5. ASSUME NEW j \in DOMAIN results', NEW x, x = results'[j]
        PROVE  /\ Key(x.run, x.client) \in DOMAIN tape'
               /\ x.edge = RouteAt(G[<<x.run, x.client>>], x.client, tape'[Key(x.run, x.client)])
               /\ x.content = tape'[Key(x.run, x.client)].content
    <3>1. /\ DOMAIN results' = 1 .. Len(results) + 1 /\ DOMAIN results = 1 .. Len(results)
          /\ Len(results) \in Nat /\ results'[Len(results) + 1] = s
          /\ \A i \in 1 .. Len(results) : results'[i] = results[i] /\ results[i] \in Sessions
      BY <1>1, <1>2, LenProperties, AppendProperties, ElementOfSeq
    <3>2. CASE j \in DOMAIN results
      <4>1. /\ Key(x.run, x.client) \in DOMAIN tape /\ x.run \in Nat /\ x.client \in Nat
            /\ x.edge = RouteAt(H[<<x.run, x.client>>], x.client, tape[Key(x.run, x.client)])
            /\ x.content = tape[Key(x.run, x.client)].content
        BY <2>5, <3>1, <3>2 DEF Replays, Sessions, Known
      <4>2. /\ Key(x.run, x.client) \in DOMAIN tape'
            /\ tape'[Key(x.run, x.client)] = tape[Key(x.run, x.client)]
        BY <1>4, <1>5, <4>1
      <4>3. G[<<x.run, x.client>>] = H[<<x.run, x.client>>]
        BY <1>12, <4>1 DEF Known
      <4>4. QED
        BY <4>1, <4>2, <4>3
    <3>3. CASE j = Len(results) + 1
      <4>1. /\ Key(run, client) \in DOMAIN tape' /\ tape'[Key(run, client)] = t
            /\ G[<<run, client>>] = edges
        BY <1>2, <1>4, <1>7, <1>12 DEF key
      <4>2. QED
        BY <1>1, <1>8, <2>5, <3>1, <3>3, <4>1
    <3>4. QED
      BY <3>1, <3>2, <3>3
  <2>6. QED
    BY ZenonT(40), <1>1, <2>1, <2>2, <2>3, <2>4, <2>5 DEF Replays, RouteAt, GeoOf, Known
<1>15. QED
  BY <1>14

LEMMA StepReplayOK == Inv /\ ReplayOK /\ [Next]_vars => ReplayOK'
<1> SUFFICES ASSUME Inv, ReplayOK, [Next]_vars, (~Emulated)', pc' # "load"
             PROVE  \E H \in History : Replays(H)'
  BY DEF ReplayOK, History
<1>1. CASE LoadConfig
  <2>1. /\ pc = "load" /\ pc' # "clients" /\ cfg' = WithDefaults(cfg)
        /\ tape' = << >> /\ results' = << >>
    BY <1>1 DEF LoadConfig, Inv, LoopsOK
  <2>2. cfg'.edges = cfg.edges /\ cfg.edges \in Seq(LoadedEdges)
    BY <2>1, DefaultsKeep, EdgesLoaded DEF Inv, TypeOK
  <2>3. PICK H \in History : H = [x \in Nat \X Nat |-> cfg.edges]
    BY <2>2 DEF History
  <2>4. DOMAIN tape' = {} /\ DOMAIN results' = {}
    BY <2>1
  <2>5. \A r \in Nat : H[<<r, 0>>] = cfg'.edges
    BY <2>2, <2>3
  <2>6. Replays(H)'
    BY <2>1, <2>4, <2>5 DEF Replays, Known
  <2>7. QED
    BY <2>6
<1>2. ASSUME cfg' = cfg, pc # "load" PROVE \E H \in History : Replays(H)
  BY <1>2 DEF ReplayOK, Emulated
<1>3. ASSUME cfg' = cfg, pc # "load", pc' # "clients", tape' = tape, results' = results
      PROVE  \E H \in History : Replays(H)'
  <2>1. PICK H \in History : Replays(H)
    BY <1>2, <1>3
  <2>2. Replays(H)'
    BY <1>3, <2>1 DEF Replays, Known, RouteAt, GeoOf
  <2>3. QED
    BY <2>2
<1>4. CASE Begin \/ Cancelled \/ EndRun \/ Report
  BY <1>3, <1>4 DEF Begin, Cancelled, EndRun, Report
<1>5. CASE NoEdgeAvailable \/ SessionFails
  BY <1>3, <1>5 DEF NoEdgeAvailable, SessionFails, Serving, Fail
<1>6. CASE StartRun
  <2>1. /\ pc' = "clients" /\ client' = 0 /\ edges' = cfg.edges /\ pc # "load"
        /\ UNCHANGED <<cfg, run, tape, results>>
    BY <1>6 DEF StartRun
  <2>2. PICK H \in History : Replays(H)
    BY <1>2, <2>1
  <2>3. run \in Nat /\ edges' = H[<<run, 0>>] /\ \A who \in Nat : ~(who < 0)
    BY <2>1, <2>2 DEF Replays, Inv, TypeOK
  <2>4. Replays(H)'
    BY <2>1, <2>2, <2>3 DEF Replays, Known, RouteAt, GeoOf
  <2>5. QED
    BY <2>4
<1>7. CASE ServeClient
  <2>1. cfg' = cfg /\ pc # "load"
    BY <1>7 DEF ServeClient, Serving
  <2>2. PICK H \in History : Replays(H)
    BY <1>2, <2>1
  <2>3. QED
    BY <1>7, <2>1, <2>2, ServeReplays DEF Emulated
<1>8. CASE UNCHANGED vars
  <2>1. cfg' = cfg /\ pc # "load"
    BY <1>8 DEF vars
  <2>2. PICK H \in History : Replays(H)
    BY <1>2, <2>1
  <2>3. Replays(H)'
    BY <1>8, <2>2 DEF vars, Replays, Known, RouteAt, GeoOf
  <2>4. QED
    BY <2>3
<1>9. QED
  BY <1>1, <1>4, <1>5, <1>6, <1>7, <1>8 DEF Next

\* Two sessions of a run and client are at the same edge with the same content.
LEMMA SameReplay ==
  ASSUME Inv, ReplayOK, ~Emulated, NEW s \in ToSet(results), NEW t \in ToSet(results), Of(s) = Of(t)
  PROVE  s.edge = t.edge /\ s.content = t.content
<1>1. PICK i \in DOMAIN results, j \in DOMAIN results : s = results[i] /\ t = results[j]
  BY DEF ToSet
<1>2. pc # "load"
  BY <1>1 DEF Inv, LoopsOK
<1>3. PICK H \in History : Replays(H)
  BY <1>2 DEF ReplayOK
<1>4. s.run = t.run /\ s.client = t.client
  BY DEF Of
<1>5. QED
  BY <1>1, <1>3, <1>4 DEF Replays

-----------------------------------------------------------------------------
(***************************************************************************)
(* Sorting by content.                                                     *)
(***************************************************************************)
\* A session that is inserted goes behind those with no greater content.
LEMMA InsertedAt ==
  ASSUME NEW u \in Seq(Sessions), NEW s \in Sessions
  PROVE  LET n == Cardinality({ k \in DOMAIN u : u[k].content <= s.content })
         IN  /\ n \in 0 .. Len(u)
             /\ Inserted(u, s) \in Seq(Sessions) /\ Len(Inserted(u, s)) = Len(u) + 1
             /\ \A k \in 1 .. Len(u) + 1 :
                  Inserted(u, s)[k] = IF k <= n THEN u[k] ELSE IF k = n + 1 THEN s ELSE u[k - 1]
<1> DEFINE below == { k \in DOMAIN u : u[k].content <= s.content }
           n == Cardinality(below)
           len == Len(u)
           front == SubSeq(u, 1, n)
           back == SubSeq(u, n + 1, len)
<1>1. len \in Nat /\ DOMAIN u = 1 .. len /\ \A k \in 1 .. len : u[k] \in Sessions
  BY LenProperties, ElementOfSeq
<1>2. n \in 0 .. len
  <2>1. IsFiniteSet(1 .. len) /\ Cardinality(1 .. len) = len
    BY <1>1, RangeCounts
  <2>2. below \in SUBSET (1 .. len)
    BY <1>1
  <2>3. IsFiniteSet(below) /\ Cardinality(below) <= len
    BY <2>1, <2>2, FS_Subset
  <2>4. QED
    BY <1>1, <2>3, FS_CardinalityType
<1>3. Inserted(u, s) = front \o <<s>> \o back
  BY DEF Inserted
<1> HIDE DEF n
<1>4. front \in Seq(Sessions) /\ Len(front) = n /\ \A k \in 1 .. n : front[k] = u[k]
  <2>1. 1 \in Int /\ n \in Int /\ \A k \in 1 .. n : u[k] \in Sessions
    BY <1>1, <1>2
  <2>2. /\ front \in Seq(Sessions) /\ Len(front) = IF 1 <= n THEN n - 1 + 1 ELSE 0
        /\ \A k \in 1 .. n - 1 + 1 : front[k] = u[1 + k - 1]
    BY <2>1, SubSeqProperties
  <2> HIDE DEF front
  <2>3. n \in Nat /\ n - 1 + 1 = n /\ Len(front) = n
    BY <1>2, <2>2
  <2>4. ASSUME NEW k \in 1 .. n PROVE front[k] = u[k]
    <3>1. k \in 1 .. n - 1 + 1 /\ 1 + k - 1 = k
      BY <2>3
    <3>2. QED
      BY <2>2, <3>1
  <2>5. QED
    BY <2>2, <2>3, <2>4
<1>5. /\ back \in Seq(Sessions) /\ Len(back) = len - n
      /\ \A k \in 1 .. len - n : back[k] = u[n + k]
  <2>1. n + 1 \in Int /\ len \in Int /\ \A k \in n + 1 .. len : u[k] \in Sessions
    BY <1>1, <1>2
  <2>2. /\ back \in Seq(Sessions) /\ Len(back) = IF n + 1 <= len THEN len - (n + 1) + 1 ELSE 0
        /\ \A k \in 1 .. len - (n + 1) + 1 : back[k] = u[n + 1 + k - 1]
    BY <2>1, SubSeqProperties
  <2> HIDE DEF back
  <2>3. Len(back) = len - n
    <3>1. n \in Int /\ len \in Int /\ n <= len
      BY <1>1, <1>2
    <3>2. Len(back) = IF n + 1 <= len THEN len - (n + 1) + 1 ELSE 0
      BY <2>2
    <3>3. QED
      BY <3>1, <3>2
  <2>4. ASSUME NEW k \in 1 .. len - n PROVE back[k] = u[n + k]
    <3>1. k \in 1 .. len - (n + 1) + 1 /\ n + 1 + k - 1 = n + k
      BY <1>1, <1>2
    <3>2. QED
      BY <2>2, <3>1
  <2>5. QED
    BY <2>2, <2>3, <2>4
<1>6. /\ <<s>> \in Seq(Sessions) /\ Len(<<s>>) = 1 /\ <<s>>[1] = s
  OBVIOUS
<1> HIDE DEF front, back
<1> DEFINE first == front \o <<s>>
<1>7. /\ first \in Seq(Sessions) /\ Len(first) = n + 1
      /\ \A k \in 1 .. n + 1 : first[k] = IF k <= n THEN u[k] ELSE s
  BY <1>2, <1>4, <1>6, ConcatProperties
<1> HIDE DEF first
<1>8. /\ first \o back \in Seq(Sessions) /\ Len(first \o back) = len + 1
      /\ \A k \in 1 .. len + 1 :
           (first \o back)[k] = IF k <= n + 1 THEN first[k] ELSE back[k - (n + 1)]
  <2>1. /\ first \o back \in Seq(Sessions) /\ Len(first \o back) = Len(first) + Len(back)
        /\ \A k \in 1 .. Len(first) + Len(back) :
             (first \o back)[k] = IF k <= Len(first) THEN first[k] ELSE back[k - Len(first)]
    BY <1>5, <1>7, ConcatProperties
  <2>2. Len(first) = n + 1 /\ Len(first) + Len(back) = len + 1
    BY <1>1, <1>2, <1>5, <1>7
  <2>3. QED
    BY <2>1, <2>2
<1>9. ASSUME NEW k \in 1 .. len + 1
      PROVE  (first \o back)[k] = IF k <= n THEN u[k] ELSE IF k = n + 1 THEN s ELSE u[k - 1]
  <2>1. CASE k <= n + 1
    <3>1. k \in 1 .. n + 1 /\ (first \o back)[k] = first[k]
      BY <1>1, <1>2, <1>8, <2>1
    <3>2. k > n => k = n + 1
      BY <1>1, <1>2, <2>1
    <3>3. QED
      BY <1>1, <1>2, <1>7, <3>1, <3>2
  <2>2. CASE k > n + 1
    <3>1. k - (n + 1) \in 1 .. len - n /\ n + (k - (n + 1)) = k - 1
      BY <1>1, <1>2, <2>2
    <3>2. QED
      BY <1>2, <1>5, <1>8, <2>2, <3>1
  <2>3. k <= n + 1 \/ k > n + 1
    BY <1>1, <1>2
  <2>4. QED
    BY <2>1, <2>2, <2>3
<1>10. Inserted(u, s) = first \o back
  BY <1>3 DEF first
<1>11. /\ Inserted(u, s) \in Seq(Sessions) /\ Len(Inserted(u, s)) = len + 1
       /\ \A k \in 1 .. len + 1 :
            Inserted(u, s)[k] = IF k <= n THEN u[k] ELSE IF k = n + 1 THEN s ELSE u[k - 1]
  BY <1>8, <1>9, <1>10
<1>12. QED
  BY <1>2, <1>11 DEF n

\* f inserts one session of u after another.
Sorts(f, u) ==
  /\ f \in [0 .. Len(u) -> Seq(Sessions)] /\ f[0] = << >>
  /\ \A n \in 1 .. Len(u) : f[n] = Inserted(f[n - 1], u[n])

LEMMA ByContentUnfolds ==
  ASSUME NEW u \in Seq(Sessions)
  PROVE  \E f : Sorts(f, u) /\ ByContent(u) = f[Len(u)]
<1> DEFINE len == Len(u)
           Step(g) == [n \in 0 .. len |-> IF n = 0 THEN << >> ELSE Inserted(g[n - 1], u[n])]
           by == CHOOSE g : g = Step(g)
           F == [q \in (1 .. len) \X Seq(Sessions) |-> Inserted(q[2], u[q[1]])]
<1>1. len \in Nat /\ \A n \in 1 .. len : u[n] \in Sessions
  BY LenProperties, ElementOfSeq
<1>2. F \in [(1 .. len) \X Seq(Sessions) -> Seq(Sessions)]
  <2>1. \A q \in (1 .. len) \X Seq(Sessions) : Inserted(q[2], u[q[1]]) \in Seq(Sessions)
    BY <1>1, InsertedAt
  <2>2. QED
    BY <2>1
<1>3. PICK f : Recurs(f, len, Seq(Sessions), << >>, F)
  <2>1. << >> \in Seq(Sessions)
    OBVIOUS
  <2> HIDE DEF F
  <2>2. QED
    BY <1>1, <1>2, <2>1, Recursion
<1>4. /\ f \in [0 .. len -> Seq(Sessions)] /\ f[0] = << >>
      /\ \A n \in 1 .. len : f[n] = F[<<n, f[n - 1]>>]
  BY <1>3 DEF Recurs
<1>5. \A n \in 1 .. len : f[n] = Inserted(f[n - 1], u[n])
  <2> SUFFICES ASSUME NEW n \in 1 .. len PROVE f[n] = Inserted(f[n - 1], u[n])
    OBVIOUS
  <2>1. n - 1 \in 0 .. len
    BY <1>1
  <2>2. f[n - 1] \in Seq(Sessions) /\ f[n] = F[<<n, f[n - 1]>>]
    BY <1>4, <2>1
  <2>3. QED
    BY <2>2
<1>6. Sorts(f, u)
  BY <1>4, <1>5 DEF Sorts
<1>7. f = Step(f)
  <2>1. \A n \in 0 .. len : f[n] = IF n = 0 THEN << >> ELSE Inserted(f[n - 1], u[n])
    <3>1. \A n \in 0 .. len : n # 0 => n \in 1 .. len
      BY <1>1
    <3>2. QED
      BY <1>4, <1>5, <3>1
  <2>2. f = [n \in 0 .. len |-> f[n]]
    BY <1>4
  <2>3. QED
    BY <2>1, <2>2
<1>8. by = Step(by)
  <2> HIDE DEF Step
  <2>1. QED
    BY <1>7
<1>9. ByContent(u) = by[len]
  BY DEF ByContent
<1> HIDE DEF by
<1> DEFINE T == { n \in Nat : n <= len => by[n] = f[n] }
<1>10. 0 \in T
  BY <1>1, <1>4, <1>8
<1>11. ASSUME NEW n \in Nat, n \in T PROVE n + 1 \in T
  <2> SUFFICES ASSUME n + 1 <= len PROVE by[n + 1] = f[n + 1]
    OBVIOUS
  <2>1. n + 1 \in 1 .. len /\ n + 1 \in 0 .. len /\ n + 1 # 0 /\ (n + 1) - 1 = n /\ by[n] = f[n]
    BY <1>1, <1>11
  <2>2. by[n + 1] = Inserted(by[n], u[n + 1])
    BY <1>8, <2>1
  <2>3. QED
    BY <1>5, <2>1, <2>2
<1>12. len \in T
  <2> HIDE DEF T
  <2>1. QED
    BY <1>1, <1>10, <1>11, SetInduction
<1>13. QED
  BY <1>1, <1>6, <1>9, <1>12

\* Lists that agree place by place in pair and content.
Alike(u, v) ==
  /\ u \in Seq(Sessions) /\ v \in Seq(Sessions) /\ Len(u) = Len(v)
  /\ \A k \in 1 .. Len(u) : Of(u[k]) = Of(v[k]) /\ u[k].content = v[k].content

LEMMA InsertedAlike ==
  ASSUME NEW u, NEW v, Alike(u, v), NEW s \in Sessions, NEW t \in Sessions,
         Of(s) = Of(t), s.content = t.content
  PROVE  Alike(Inserted(u, s), Inserted(v, t))
<1> DEFINE n == Cardinality({ k \in DOMAIN u : u[k].content <= s.content })
           m == Cardinality({ k \in DOMAIN v : v[k].content <= t.content })
<1>1. /\ u \in Seq(Sessions) /\ v \in Seq(Sessions) /\ Len(u) = Len(v) /\ Len(u) \in Nat
      /\ DOMAIN u = 1 .. Len(u) /\ DOMAIN v = 1 .. Len(u)
      /\ \A k \in 1 .. Len(u) : Of(u[k]) = Of(v[k]) /\ u[k].content = v[k].content
  BY LenProperties DEF Alike
<1>2. { k \in DOMAIN u : u[k].content <= s.content } = { k \in DOMAIN v : v[k].content <= t.content }
  BY <1>1
<1>3. m = n
  BY <1>2
<1>4. /\ n \in 0 .. Len(u)
      /\ Inserted(u, s) \in Seq(Sessions) /\ Len(Inserted(u, s)) = Len(u) + 1
      /\ \A k \in 1 .. Len(u) + 1 :
           Inserted(u, s)[k] = IF k <= n THEN u[k] ELSE IF k = n + 1 THEN s ELSE u[k - 1]
  BY <1>1, InsertedAt
<1>5. /\ Inserted(v, t) \in Seq(Sessions) /\ Len(Inserted(v, t)) = Len(v) + 1
      /\ \A k \in 1 .. Len(v) + 1 :
           Inserted(v, t)[k] = IF k <= m THEN v[k] ELSE IF k = m + 1 THEN t ELSE v[k - 1]
  BY <1>1, InsertedAt
<1> HIDE DEF n, m
<1>6. ASSUME NEW k \in 1 .. Len(u) + 1
      PROVE  /\ Of(Inserted(u, s)[k]) = Of(Inserted(v, t)[k])
             /\ Inserted(u, s)[k].content = Inserted(v, t)[k].content
  <2>1. CASE k <= n
    BY <1>1, <1>3, <1>4, <1>5, <2>1
  <2>2. CASE k = n + 1
    <3>1. ~(k <= n) /\ ~(k <= m) /\ k = m + 1
      BY <1>1, <1>3, <1>4, <2>2
    <3>2. Inserted(u, s)[k] = s
      BY <1>4, <2>2, <3>1
    <3>3. Inserted(v, t)[k] = t
      BY <1>1, <1>5, <3>1
    <3>4. QED
      BY <3>2, <3>3
  <2>3. CASE k > n + 1
    <3>1. k - 1 \in 1 .. Len(u) /\ ~(k <= n) /\ k # n + 1
      BY <1>1, <1>4, <2>3
    <3>2. QED
      BY <1>1, <1>3, <1>4, <1>5, <3>1
  <2>4. QED
    BY <1>1, <1>4, <2>1, <2>2, <2>3
<1>7. QED
  BY <1>1, <1>4, <1>5, <1>6 DEF Alike

\* What is alike is sorted alike.
LEMMA SortedAlike ==
  ASSUME NEW u, NEW v, Alike(u, v)
  PROVE  Alike(ByContent(u), ByContent(v))
<1>1. /\ u \in Seq(Sessions) /\ v \in Seq(Sessions) /\ Len(u) = Len(v) /\ Len(u) \in Nat
      /\ \A k \in 1 .. Len(u) : /\ Of(u[k]) = Of(v[k]) /\ u[k].content = v[k].content
                                /\ u[k] \in Sessions /\ v[k] \in Sessions
  BY LenProperties, ElementOfSeq DEF Alike
<1>2. PICK f, g : /\ Sorts(f, u) /\ ByContent(u) = f[Len(u)]
                  /\ Sorts(g, v) /\ ByContent(v) = g[Len(v)]
  BY <1>1, ByContentUnfolds
<1> DEFINE T == { n \in Nat : n <= Len(u) => Alike(f[n], g[n]) }
<1>3. 0 \in T
  <2>1. f[0] = << >> /\ g[0] = << >> /\ << >> \in Seq(Sessions) /\ Len(<< >>) = 0
    BY <1>2 DEF Sorts
  <2>2. QED
    BY <2>1 DEF Alike
<1>4. ASSUME NEW n \in Nat, n \in T PROVE n + 1 \in T
  <2> SUFFICES ASSUME n + 1 <= Len(u) PROVE Alike(f[n + 1], g[n + 1])
    OBVIOUS
  <2>1. n + 1 \in 1 .. Len(u) /\ (n + 1) - 1 = n /\ Alike(f[n], g[n])
    BY <1>1, <1>4
  <2>2. f[n + 1] = Inserted(f[n], u[n + 1]) /\ g[n + 1] = Inserted(g[n], v[n + 1])
    BY <1>1, <1>2, <2>1 DEF Sorts
  <2>3. QED
    BY <1>1, <2>1, <2>2, InsertedAlike
<1>5. Len(u) \in T
  <2> HIDE DEF T
  <2>1. QED
    BY <1>1, <1>3, <1>4, SetInduction
<1>6. QED
  BY <1>1, <1>2, <1>5

\* A place tells run and client.
LEMMA Quotients ==
  ASSUME NEW n \in Nat, NEW a \in Nat, NEW b \in Nat, NEW c \in Nat, NEW d \in Nat,
         c < n, d < n, a * n + c = b * n + d
  PROVE  a = b /\ c = d
<1>1. ASSUME NEW x \in Nat, NEW y \in Nat, NEW e \in Nat, NEW f \in Nat,
             e < n, x < y, x * n + e = y * n + f
      PROVE  FALSE
  <2>1. PICK k \in Nat : y = x + 1 + k
    <3>1. y - x - 1 \in Nat /\ y = x + 1 + (y - x - 1)
      BY <1>1
    <3>2. QED
      BY <3>1
  <2>2. y * n = x * n + n + k * n
    BY <2>1
  <2>3. k * n \in Nat /\ x * n \in Nat
    OBVIOUS
  <2>4. QED
    BY <1>1, <2>2, <2>3
<1>2. ~(a < b) /\ ~(b < a)
  BY <1>1
<1>3. a = b
  BY <1>2
<1>4. a * n \in Nat
  OBVIOUS
<1>5. QED
  BY <1>3, <1>4

\* The sessions of the two protocols are in the same places.
LEMMA ProtocolsAlike ==
  ASSUME Inv, ReplayOK, ~Emulated, pc = "done",
         ToSet(cfg.protocols) = {"tcp-h2", "quic-h3"}, Len(cfg.protocols) = 2
  PROVE  Alike(OfProtocol(results, "tcp-h2"), OfProtocol(results, "quic-h3"))
<1> DEFINE mine(p) == OfProtocol(results, p)
<1>1. /\ cfg.protocols \in Seq(STRING) /\ DOMAIN cfg.protocols = 1 .. 2
      /\ cfg.runs \in Int /\ cfg.runs >= 1 /\ cfg.clients \in Int /\ cfg.clients >= 1
      /\ results \in Seq(Sessions)
  BY LenProperties DEF Inv, TypeOK, IsConfig, LoopsOK
<1>2. /\ cfg.protocols[1] \in {"tcp-h2", "quic-h3"} /\ cfg.protocols[2] \in {"tcp-h2", "quic-h3"}
      /\ cfg.protocols[1] # cfg.protocols[2]
  <2>1. {"tcp-h2", "quic-h3"} = { cfg.protocols[i] : i \in 1 .. 2 }
    BY <1>1 DEF ToSet
  <2>2. { cfg.protocols[i] : i \in 1 .. 2 } = {cfg.protocols[1], cfg.protocols[2]}
    OBVIOUS
  <2>3. "tcp-h2" # "quic-h3"
    OBVIOUS
  <2>4. QED
    BY <2>1, <2>2, <2>3
<1>3. ASSUME NEW p \in {"tcp-h2", "quic-h3"}
      PROVE  \E i \in 1 .. 2 : Places(p) = {i}
  BY <1>1, <1>2 DEF Places, LabelOf
<1>4. ASSUME NEW p \in {"tcp-h2", "quic-h3"}
      PROVE  /\ Len(mine(p)) = cfg.runs * cfg.clients
             /\ \A j \in 1 .. Len(mine(p)) :
                  /\ mine(p)[j].client < cfg.clients
                  /\ mine(p)[j].run * cfg.clients + mine(p)[j].client + 1 = j
  <2>1. Len(mine(p)) = cfg.runs * cfg.clients * Cardinality(Past(p)) + FiledNow(p)
    BY DEF Inv, FiledOK
  <2>2. Past(p) = Places(p) /\ FiledNow(p) = 0
    BY PastFinite DEF Inv, LoopsOK, FiledNow
  <2>3. Cardinality(Past(p)) = 1
    BY <1>3, <2>2, FS_Singleton
  <2>4. cfg.runs * cfg.clients \in Int
    BY <1>1
  <2>5. Len(mine(p)) = cfg.runs * cfg.clients
    BY <2>1, <2>2, <2>3, <2>4
  <2>6. \A k, l \in Places(p) : k = l
    BY <1>3
  <2>7. DOMAIN mine(p) = 1 .. Len(mine(p))
    BY <1>1, OfProtocolOf, LenProperties
  <2>8. QED
    BY <2>5, <2>6, <2>7 DEF Inv, PlacedOK
<1>5. results \in Seq(ToSet(results) \cap Sessions)
  <2>1. /\ Len(results) \in Nat /\ results = [i \in 1 .. Len(results) |-> results[i]]
        /\ \A i \in 1 .. Len(results) : results[i] \in ToSet(results) \cap Sessions
    BY <1>1, LenProperties, ElementOfSeq DEF ToSet
  <2>2. results \in [1 .. Len(results) -> ToSet(results) \cap Sessions]
    BY <2>1
  <2>3. QED
    BY <2>1, <2>2, SeqDef
<1>6. mine("tcp-h2") \in Seq(Sessions) /\ mine("quic-h3") \in Seq(Sessions)
  BY <1>1, OfProtocolOf
<1>7. ASSUME NEW k \in 1 .. Len(mine("tcp-h2"))
      PROVE  /\ Of(mine("tcp-h2")[k]) = Of(mine("quic-h3")[k])
             /\ mine("tcp-h2")[k].content = mine("quic-h3")[k].content
  <2> DEFINE s == mine("tcp-h2")[k]
             t == mine("quic-h3")[k]
  <2>0. k \in 1 .. Len(mine("quic-h3"))
    BY <1>4
  <2>1. s \in ToSet(results) /\ t \in ToSet(results) /\ s \in Sessions /\ t \in Sessions
    <3>1. \A p : mine(p) \in Seq(ToSet(results) \cap Sessions)
      BY <1>5, OfProtocolOf
    <3>2. QED
      BY <2>0, <3>1, ElementOfSeq
  <2>2. /\ s.client < cfg.clients /\ s.run * cfg.clients + s.client + 1 = k
        /\ t.client < cfg.clients /\ t.run * cfg.clients + t.client + 1 = k
    BY <1>4, <2>0
  <2> HIDE DEF s, t
  <2>3. s.run \in Nat /\ t.run \in Nat /\ s.client \in Nat /\ t.client \in Nat
    BY <2>1 DEF Sessions
  <2>4. s.run = t.run /\ s.client = t.client
    <3>1. cfg.clients \in Nat /\ s.run * cfg.clients \in Int /\ t.run * cfg.clients \in Int
      BY <1>1, <2>3
    <3>2. s.run * cfg.clients + s.client = t.run * cfg.clients + t.client
      BY SMTT(20), <2>2, <2>3, <3>1
    <3>3. QED
      BY <2>2, <2>3, <3>1, <3>2, Quotients
  <2>5. Of(s) = Of(t)
    BY <2>4 DEF Of
  <2>6. QED
    BY <2>1, <2>5, SameReplay DEF s, t
<1>8. QED
  BY <1>4, <1>6, <1>7 DEF Alike

\* In modelled mode a client of a run sees the same edge and content in every protocol,
\* and the comparison of the two protocols lines its sessions up pair by pair
\* (runner.go:101, collector.go:128), whatever the policy and the positions drawn.
THEOREM ClientsPaired == Spec => []PairedSessions
<1>1. Inv /\ ReplayOK => PairedSessions
  <2> SUFFICES ASSUME Inv, ReplayOK, ~Emulated PROVE PairedSessions
    BY DEF PairedSessions
  <2>1. \A s, t \in ToSet(results) : Of(s) = Of(t) => s.edge = t.edge /\ s.content = t.content
    BY SameReplay
  <2>2. ASSUME pc = "done", ToSet(cfg.protocols) = {"tcp-h2", "quic-h3"}, Len(cfg.protocols) = 2
        PROVE  LET tcp == SessionsFor(results, "tcp-h2")  quic == SessionsFor(results, "quic-h3")
               IN  [k \in DOMAIN tcp |-> Of(tcp[k])] = [k \in DOMAIN quic |-> Of(quic[k])]
    <3> DEFINE tcp == SessionsFor(results, "tcp-h2")
               quic == SessionsFor(results, "quic-h3")
    <3>1. Alike(tcp, quic)
      BY <2>2, ProtocolsAlike, SortedAlike DEF SessionsFor
    <3> HIDE DEF tcp, quic
    <3>2. /\ DOMAIN tcp = 1 .. Len(tcp) /\ DOMAIN quic = 1 .. Len(tcp)
          /\ \A k \in 1 .. Len(tcp) : Of(tcp[k]) = Of(quic[k])
      BY <3>1, LenProperties DEF Alike
    <3>3. [k \in DOMAIN tcp |-> Of(tcp[k])] = [k \in DOMAIN quic |-> Of(quic[k])]
      BY <3>2
    <3>4. QED
      BY <3>3 DEF tcp, quic
  <2>3. QED
    BY <2>1, <2>2 DEF PairedSessions
<1>2. Init => ReplayOK
  BY DEF Init, ReplayOK
<1>3. QED
  BY <1>1, <1>2, InitInv, StepInv, StepReplayOK, PTL DEF Spec

-----------------------------------------------------------------------------
(***************************************************************************)
(* Capacities.                                                             *)
(***************************************************************************)
Allowed(i) == IF cfg.policy = "weighted_capacity" /\ i = 1 THEN Cardinality(ZeroDraws) ELSE 0

LEMMA ZeroDrawsFinite ==
  ASSUME TypeOK
  PROVE  IsFiniteSet(ZeroDraws) /\ Cardinality(ZeroDraws) \in Nat
<1>1. IsFiniteSet(DOMAIN tape) /\ ZeroDraws \subseteq DOMAIN tape
  BY DEF TypeOK, ZeroDraws
<1>2. IsFiniteSet(ZeroDraws)
  BY <1>1, FS_Subset
<1>3. QED
  BY <1>2, FS_CardinalityType

\* The load of an edge whose capacity is full grows only by a draw of zero.
LEMMA ServeHonours ==
  ASSUME Inv, ServeClient, CapacityHonoured
  PROVE  CapacityHonoured'
<1>1. PICK t \in Chances :
        /\ pc = "clients" /\ Routed(t) \in DOMAIN edges /\ edges' = Bump(edges, Routed(t))
        /\ tape' = Recorded(t) /\ client' = client + 1 /\ UNCHANGED <<cfg, pc, run, proto>>
  BY Served DEF Inv
<1>2. edges \in Seq(LoadedEdges) /\ client \in Nat /\ TypeOK
  BY DEF Inv, TypeOK
<1>3. PICK r \in DOMAIN edges : /\ edges[r].id = edges[Routed(t)].id
                                /\ edges' = [edges EXCEPT ![r].load = @ + 1]
  BY <1>1, <1>2, BumpOne
<1>4. /\ DOMAIN edges' = DOMAIN edges
      /\ \A i \in DOMAIN edges : /\ edges[i] \in LoadedEdges
                                 /\ edges'[i].id = edges[i].id /\ edges'[i].capacity = edges[i].capacity
                                 /\ edges'[i].load = IF i = r THEN edges[i].load + 1 ELSE edges[i].load
  <2>1. ASSUME NEW i \in DOMAIN edges PROVE edges[i] \in LoadedEdges
    BY <1>2, ElementOfSeq, LenProperties
  <2>2. DOMAIN edges' = DOMAIN edges
    BY <1>3
  <2>3. ASSUME NEW i \in DOMAIN edges
        PROVE  /\ edges'[i].id = edges[i].id /\ edges'[i].capacity = edges[i].capacity
               /\ edges'[i].load = IF i = r THEN edges[i].load + 1 ELSE edges[i].load
    <3>1. CASE i = r
      <4>1. edges'[i] = [edges[i] EXCEPT !.load = @ + 1]
        BY <1>3, <3>1
      <4>2. DOMAIN edges[i] = {"id", "geo", "capacity", "load"}
        BY <2>1 DEF LoadedEdges
      <4>3. QED
        BY <3>1, <4>1, <4>2
    <3>2. CASE i # r
      <4>1. edges'[i] = edges[i]
        BY <1>3, <3>2
      <4>2. QED
        BY <3>2, <4>1
    <3>3. QED
      BY <3>1, <3>2
  <2>4. QED
    BY <2>1, <2>2, <2>3
<1> SUFFICES ASSUME UniqueIDs', NEW i \in DOMAIN edges, edges[i].capacity > 0
             PROVE  edges'[i].load - edges[i].capacity <= Allowed(i)'
  BY <1>1, <1>4 DEF CapacityHonoured, Allowed
<1>5. UniqueIDs
  BY <1>4 DEF UniqueIDs
<1>6. r = Routed(t)
  BY <1>1, <1>3, <1>5 DEF UniqueIDs
<1>7. /\ \/ r \in Open(edges)
         \/ cfg.policy = "weighted_capacity" /\ t.draw = 0 /\ r = 1
  <2>1. Routed(t) # NoEdge
    BY <1>1, <1>2, LenProperties DEF NoEdge
  <2>2. QED
    BY <1>1, <1>2, <1>6, <2>1, RoutedTyped
<1>8. edges[i].load - edges[i].capacity <= Allowed(i)
  BY <1>1, <1>5 DEF CapacityHonoured, Allowed
<1>9. /\ Cardinality(ZeroDraws') \in Nat /\ Cardinality(ZeroDraws) \in Nat
      /\ Cardinality(ZeroDraws') = Cardinality(ZeroDraws) + IF t.draw = 0 THEN 1 ELSE 0
  <2> DEFINE key == <<Seed, client>>
  <2>1. IsFiniteSet(ZeroDraws) /\ Cardinality(ZeroDraws) \in Nat
    BY <1>2, ZeroDrawsFinite
  <2>2. /\ DOMAIN tape' = DOMAIN tape \cup {key}
        /\ \A k \in DOMAIN tape' : tape'[k] = IF k = key THEN t ELSE tape[k]
    BY <1>1 DEF Recorded
  <2>3. Seed' = Seed /\ key[1] = Seed /\ key[2] = client /\ client' = client + 1
    BY <1>1 DEF Seed, Emulated, Protocol
  <2>4. \A k \in DOMAIN tape : k = <<k[1], k[2]>> /\ k[2] \in Nat
    BY <1>2 DEF TypeOK
  <2>6. key \notin ZeroDraws
    BY <1>2, <2>3 DEF ZeroDraws
  <2>7. ZeroDraws' = ZeroDraws \cup (IF t.draw = 0 THEN {key} ELSE {})
    <3>1. ZeroDraws' = { k \in DOMAIN tape' : k[1] = Seed /\ k[2] < client + 1 /\ tape'[k].draw = 0 }
      BY <2>3 DEF ZeroDraws
    <3>2. key \in ZeroDraws' <=> t.draw = 0
      BY <1>2, <2>2, <2>3, <3>1
    <3>3. \A k : k # key => (k \in ZeroDraws' <=> k \in ZeroDraws)
      <4> SUFFICES ASSUME NEW k, k # key PROVE k \in ZeroDraws' <=> k \in ZeroDraws
        OBVIOUS
      <4>1. k \in ZeroDraws => k \in ZeroDraws'
        BY <1>2, <2>2, <2>4, <3>1 DEF ZeroDraws
      <4>2. k \in ZeroDraws' => k \in ZeroDraws
        <5> SUFFICES ASSUME k \in ZeroDraws' PROVE k \in ZeroDraws
          OBVIOUS
        <5>1. k \in DOMAIN tape /\ k[1] = Seed /\ k[2] < client + 1 /\ tape[k].draw = 0
          BY <2>2, <3>1
        <5>2. k[2] # client
          BY <2>4, <5>1
        <5>3. k[2] < client
          BY <1>2, <2>4, <5>1, <5>2
        <5>4. QED
          BY <5>1, <5>3 DEF ZeroDraws
      <4>3. QED
        BY <4>1, <4>2
    <3>4. QED
      BY <2>6, <3>2, <3>3
  <2>8. CASE t.draw = 0
    <3>1. ZeroDraws' = ZeroDraws \cup {key}
      BY <2>7, <2>8
    <3>2. Cardinality(ZeroDraws \cup {key}) = Cardinality(ZeroDraws) + 1
      BY <2>1, <2>6, FS_AddElement
    <3>3. QED
      BY <2>1, <2>8, <3>1, <3>2
  <2>9. CASE t.draw # 0
    BY <2>1, <2>7, <2>9
  <2>10. QED
    BY <2>8, <2>9
<1>10. Allowed(i)' >= Allowed(i) /\ Allowed(i) >= 0
  BY <1>1, <1>9 DEF Allowed
<1>11. edges[i].load \in Nat /\ edges[i].capacity \in Int /\ Allowed(i) \in Nat /\ Allowed(i)' \in Nat
  BY <1>4, <1>9 DEF LoadedEdges, Allowed
<1>12. CASE i # r
  BY <1>4, <1>8, <1>10, <1>11, <1>12
<1>13. CASE i = r /\ r \in Open(edges)
  <2>1. edges[i].load < edges[i].capacity
    BY <1>11, <1>13 DEF Open, HasRoom
  <2>2. QED
    BY <1>4, <1>10, <1>11, <1>13, <2>1
<1>14. CASE i = r /\ cfg.policy = "weighted_capacity" /\ t.draw = 0 /\ r = 1
  <2>1. Allowed(i)' = Allowed(i) + 1
    BY <1>1, <1>9, <1>14 DEF Allowed
  <2>2. QED
    BY <1>4, <1>8, <1>11, <1>14, <2>1
<1>15. QED
  BY <1>7, <1>12, <1>13, <1>14

LEMMA StepCapacity == Inv /\ CapacityHonoured /\ [Next]_vars => CapacityHonoured'
<1> SUFFICES ASSUME Inv, CapacityHonoured, [Next]_vars PROVE CapacityHonoured'
  OBVIOUS
<1>1. CASE pc' # "clients"
  BY <1>1 DEF CapacityHonoured
<1>2. CASE StartRun
  <2>1. edges' = cfg.edges /\ cfg.edges \in Seq(Edges) /\ cfg' = cfg /\ client' = 0 /\ tape' = tape
    BY <1>2 DEF StartRun, Inv, TypeOK, IsConfig
  <2>2. \A i \in DOMAIN edges' : edges'[i].load = 0 /\ edges'[i].capacity \in Int
    <3>1. \A i \in DOMAIN edges' : edges'[i] \in Edges
      BY <2>1, ElementOfSeq, LenProperties
    <3>2. \A e \in Edges : e.load = 0 /\ e.capacity \in Int
      BY DEF Edges
    <3>3. QED
      BY <3>1, <3>2
  <2>4. IsFiniteSet(ZeroDraws') /\ Cardinality(ZeroDraws') \in Nat
    <3>1. IsFiniteSet(DOMAIN tape) /\ ZeroDraws' \subseteq DOMAIN tape
      BY <2>1 DEF Inv, TypeOK, ZeroDraws
    <3>2. IsFiniteSet(ZeroDraws')
      BY <3>1, FS_Subset
    <3>3. QED
      BY <3>2, FS_CardinalityType
  <2>5. QED
    BY <2>1, <2>2, <2>4 DEF CapacityHonoured
<1>3. CASE ServeClient
  BY <1>3, ServeHonours
<1>4. CASE UNCHANGED vars
  BY <1>4 DEF vars, CapacityHonoured, UniqueIDs, ZeroDraws, Seed, Emulated, Protocol
<1>5. ASSUME Next, ~StartRun, ~ServeClient PROVE pc' # "clients"
  BY <1>5 DEF Next, LoadConfig, Begin, Cancelled, NoEdgeAvailable, SessionFails, Fail, EndRun, Report
<1>6. QED
  BY <1>1, <1>2, <1>3, <1>4, <1>5

\* Whatever the policy, the positions and the random source, no edge is loaded beyond
\* its capacity, but the first one by draws of exactly zero (weighted.go:35).
THEOREM CapacitiesHonoured == Spec => []CapacityHonoured
<1>1. Init => CapacityHonoured
  BY DEF Init, CapacityHonoured
<1>2. QED
  BY <1>1, InitInv, StepInv, StepCapacity, PTL DEF Spec

-----------------------------------------------------------------------------
(***************************************************************************)
(* The statistics.  First, percentiles.                                    *)
(***************************************************************************)
LEMMA CountsTyped ==
  ASSUME NEW values \in Seq(Nat), NEW v
  PROVE  /\ Below(values, v) \in 0 .. Len(values) /\ UpTo(values, v) \in 0 .. Len(values)
         /\ IsFiniteSet({ i \in DOMAIN values : values[i] < v })
         /\ IsFiniteSet({ i \in DOMAIN values : values[i] <= v })
<1>1. Len(values) \in Nat /\ DOMAIN values = 1 .. Len(values)
  BY LenProperties
<1>2. IsFiniteSet(1 .. Len(values)) /\ Cardinality(1 .. Len(values)) = Len(values)
  BY <1>1, RangeCounts
<1>3. ASSUME NEW T \in SUBSET (1 .. Len(values))
      PROVE  IsFiniteSet(T) /\ Cardinality(T) \in 0 .. Len(values)
  <2>1. IsFiniteSet(T) /\ Cardinality(T) <= Len(values)
    BY <1>2, FS_Subset
  <2>2. QED
    BY <1>1, <2>1, FS_CardinalityType
<1>4. QED
  BY <1>1, <1>3 DEF Below, UpTo

\* The k-th value in order exists.
LEMMA KthExists ==
  ASSUME NEW values \in Seq(Nat), NEW k \in 1 .. Len(values)
  PROVE  /\ KthOf(values, k) \in Nat
         /\ Below(values, KthOf(values, k)) < k /\ k <= UpTo(values, KthOf(values, k))
<1> DEFINE len == Len(values)
           all == ToSet(values)
           reach == { v \in all : k <= UpTo(values, v) }
<1>1. /\ len \in Nat /\ DOMAIN values = 1 .. len /\ (\A i \in 1 .. len : values[i] \in Nat)
      /\ all = { values[i] : i \in 1 .. len }
  BY LenProperties, ElementOfSeq DEF ToSet
<1>2. all \subseteq Nat /\ all # {}
  BY <1>1
<1>3. ASSUME NEW S \in SUBSET all, S # {}
      PROVE  Max(S) \in S /\ \A x \in S : x <= Max(S)
  <2>1. PICK n \in Nat : \A x \in all : x <= n
    <3>1. \A i \in 1 .. len : values[i] <= SumOf(values)
      <4> SUFFICES ASSUME NEW i \in 1 .. len PROVE values[i] <= SumOf(values)
        OBVIOUS
      <4>1. /\ SumTo(values, i) = SumTo(values, i - 1) + values[i]
            /\ SumTo(values, i) \in Nat /\ SumTo(values, i - 1) \in Nat
            /\ SumOf(values) \in Nat
        <5>1. i - 1 \in 0 .. len /\ i \in 0 .. len /\ len \in 0 .. len
          BY <1>1
        <5>2. QED
          BY <5>1, SumToUnfolds DEF SumOf
      <4>2. SumTo(values, i) <= SumOf(values)
        <5>1. i \in 0 .. len
          BY <1>1
        <5>2. QED
          BY <5>1, SumToGrows
      <4>3. QED
        BY <1>1, <4>1, <4>2
    <3>2. SumOf(values) \in Nat
      <4>1. len \in 0 .. len
        BY <1>1
      <4>2. QED
        BY <4>1, SumToUnfolds DEF SumOf
    <3>3. QED
      BY <1>1, <3>1, <3>2
  <2>2. QED
    BY <1>2, <1>3, <2>1, MaxExists
<1>4. reach # {}
  <2>1. Max(all) \in all /\ \A x \in all : x <= Max(all)
    BY <1>2, <1>3
  <2>2. { i \in DOMAIN values : values[i] <= Max(all) } = 1 .. len
    BY <1>1, <2>1
  <2>3. UpTo(values, Max(all)) = len
    <3>1. Cardinality(1 .. len) = len
      BY <1>1, RangeCounts
    <3> HIDE DEF all
    <3>2. QED
      BY <2>2, <3>1 DEF UpTo
  <2>4. QED
    BY <1>1, <2>1, <2>3
<1>5. PICK v \in reach : \A w \in reach : v <= w
  <2>1. reach \subseteq Nat
    BY <1>2
  <2> HIDE DEF reach
  <2>2. QED
    BY <1>4, <2>1, LeastNatural
<1>6. Below(values, v) < k
  <2>0. Below(values, v) \in Nat /\ k \in Nat
    <3>1. Below(values, v) \in 0 .. Len(values)
      BY CountsTyped
    <3>2. QED
      BY <1>1, <3>1
  <2> SUFFICES ASSUME k <= Below(values, v) PROVE FALSE
    BY <2>0
  <2> DEFINE less == { x \in all : x < v }
  <2>1. less # {}
    <3> SUFFICES ASSUME less = {} PROVE FALSE
      OBVIOUS
    <3>1. { i \in DOMAIN values : values[i] < v } = {}
      BY <1>1
    <3>2. Below(values, v) = 0
      BY <3>1, FS_EmptySet DEF Below
    <3>3. QED
      BY <1>1, <3>2
  <2>2. Max(less) \in less /\ \A x \in less : x <= Max(less)
    BY <1>3, <2>1
  <2>3. { i \in DOMAIN values : values[i] < v } = { i \in DOMAIN values : values[i] <= Max(less) }
    <3>1. Max(less) \in Nat /\ Max(less) < v /\ v \in Nat
      BY <1>2, <1>5, <2>2
    <3>2. \A i \in 1 .. len : values[i] < v => values[i] <= Max(less)
      BY <1>1, <2>2
    <3>3. \A i \in 1 .. len : values[i] <= Max(less) => values[i] < v
      BY <1>1, <3>1
    <3> HIDE DEF less
    <3>4. QED
      BY <1>1, <3>2, <3>3
  <2>4. Max(less) \in reach
    BY <2>2, <2>3 DEF Below, UpTo
  <2>5. v <= Max(less) /\ Max(less) < v /\ v \in Nat /\ Max(less) \in Nat
    BY <1>2, <1>5, <2>2, <2>4
  <2>6. QED
    BY <2>5
<1>7. KthOf(values, k) \in all
      /\ Below(values, KthOf(values, k)) < k /\ k <= UpTo(values, KthOf(values, k))
  BY <1>5, <1>6 DEF KthOf
<1>8. QED
  BY <1>2, <1>7

\* The rank of a percentile, for the percentiles that are reported.
IsRank(r, n, p) == r \in 1 .. n /\ 100 * r >= p * n /\ 100 * (r - 1) < p * n

LEMMA Ranks ==
  ASSUME NEW n \in Nat \ {0}, NEW p \in {50, 95, 99}
  PROVE  IsRank(NearestRank(n, p), n, p)
<1> DEFINE r == (p * n + 99) \div 100
<1>1. r \in 1 .. n /\ 100 * r >= p * n /\ 100 * (r - 1) < p * n
  <2>1. CASE p = 50
    BY <2>1
  <2>2. CASE p = 95
    BY <2>2
  <2>3. CASE p = 99
    BY <2>3
  <2>4. p = 50 \/ p = 95 \/ p = 99
    OBVIOUS
  <2> HIDE DEF r
  <2>5. QED
    BY <2>1, <2>2, <2>3, <2>4
<1> HIDE DEF r
<1>2. Min({n, r}) = r
  BY <1>1 DEF Min
<1>3. Max({1, r}) = r
  BY <1>1 DEF Max
<1>4. NearestRank(n, p) = r
  BY <1>2, <1>3 DEF NearestRank, r
<1>5. QED
  BY <1>1, <1>4 DEF IsRank

\* A percentile of values is one by its definition.
LEMMA PercentileIs ==
  ASSUME NEW values \in Seq(Nat), NEW p \in {50, 95, 99}
  PROVE  /\ Percentile(values, p) \in Nat
         /\ values # << >> => IsPercentile(Percentile(values, p), values, p)
<1>1. CASE values = << >>
  BY <1>1 DEF Percentile
<1>2. CASE values # << >>
  <2> DEFINE n == Len(values)
             r == NearestRank(n, p)
             v == KthOf(values, r)
  <2>1. n \in Nat \ {0}
    BY <1>2, LenProperties, EmptySeq
  <2>2. r \in 1 .. n /\ 100 * r >= p * n /\ 100 * (r - 1) < p * n
    <3>1. IsRank(r, n, p)
      BY <2>1, Ranks
    <3> HIDE DEF r, n
    <3>2. QED
      BY <3>1 DEF IsRank
  <2>3. v \in Nat /\ Below(values, v) < r /\ r <= UpTo(values, v)
    BY <2>2, KthExists
  <2>4. Percentile(values, p) = v
    BY <1>2 DEF Percentile
  <2>5. Below(values, v) \in 0 .. n /\ UpTo(values, v) \in 0 .. n
    BY CountsTyped
  <2> HIDE DEF r, v
  <2>6. 100 * UpTo(values, v) >= p * n /\ 100 * Below(values, v) < p * n
    <3>1. p * n \in Int
      BY <2>1
    <3>2. QED
      BY <2>1, <2>2, <2>3, <2>5, <3>1
  <2>7. QED
    BY <2>3, <2>4, <2>6 DEF IsPercentile
<1>3. QED
  BY <1>1, <1>2

\* The sum of a list, all of it.
LEMMA SumOfTyped ==
  ASSUME NEW s \in Seq(Nat)
  PROVE  SumOf(s) \in Nat
<1>1. Len(s) \in 0 .. Len(s)
  BY LenProperties
<1>2. QED
  BY <1>1, SumToUnfolds DEF SumOf

-----------------------------------------------------------------------------
(***************************************************************************)
(* The effect of two groups is the same from either side.                  *)
(***************************************************************************)
LEMMA SquaresTyped ==
  ASSUME NEW s \in Seq(Nat)
  PROVE  Deviation(s) \in Int /\ SumOf(s) \in Nat /\ Len(s) \in Nat
<1>1. DOMAIN s = 1 .. Len(s) /\ Len(s) \in Nat /\ \A i \in 1 .. Len(s) : s[i] \in Nat
  BY LenProperties, ElementOfSeq
<1>2. [i \in DOMAIN s |-> s[i] * s[i]] \in Seq(Nat)
  <2>1. \A i \in 1 .. Len(s) : s[i] * s[i] \in Nat
    BY <1>1
  <2>2. QED
    BY <1>1, <2>1
<1>3. SumOf([i \in DOMAIN s |-> s[i] * s[i]]) \in Nat /\ SumOf(s) \in Nat
  BY <1>2, SumOfTyped
<1>4. QED
  BY <1>1, <1>3 DEF Deviation

\* Turned around, the effect has the same size and label and the other sign.
LEMMA EffectTurned ==
  ASSUME NEW g \in Seq(Nat), NEW h \in Seq(Nat)
  PROVE  LET there == CohensD(g, h)  back == CohensD(h, g)
         IN  /\ there.num = back.num /\ there.den = back.den /\ there.label = back.label
             /\ there.sign = -back.sign
<1> DEFINE m == Len(g)
           n == Len(h)
           a == SumOf(g)
           b == SumOf(h)
           x == Deviation(g)
           y == Deviation(h)
<1>1. m \in Nat /\ n \in Nat /\ a \in Nat /\ b \in Nat /\ x \in Int /\ y \in Int
  BY SquaresTyped
<1> DEFINE scaled == n * x + m * y
           diff == a * n - b * m
           num == diff * diff * (m + n - 2)
           den == m * n * scaled
<1>2. Pooled(g, h) = [scaled |-> scaled, free |-> m + n - 2]
  BY DEF Pooled
<1>3. Pooled(h, g) = [scaled |-> m * y + n * x, free |-> n + m - 2]
  BY DEF Pooled
<1>4. n * x \in Int /\ m * y \in Int /\ a * n \in Int /\ b * m \in Int /\ m * n \in Int
  BY <1>1
<1>5. m * y + n * x = scaled /\ n + m - 2 = m + n - 2 /\ n * m = m * n
  BY <1>1, <1>4
<1>6. diff \in Int /\ scaled \in Int
  BY <1>4
<1>7. b * m - a * n = -diff
  BY <1>4
<1>8. (-diff) * (-diff) = diff * diff
  BY <1>6
<1>9. CohensD(g, h) =
        IF m = 0 \/ n = 0 \/ m + n <= 2 \/ scaled <= 0
        THEN NoEffect
        ELSE [sign |-> IF diff > 0 THEN 1 ELSE IF diff < 0 THEN -1 ELSE 0,
              num |-> num, den |-> den, label |-> EffectLabel(num, den)]
  BY <1>2 DEF CohensD, Effect
<1>10. CohensD(h, g) =
         IF n = 0 \/ m = 0 \/ n + m <= 2 \/ scaled <= 0
         THEN NoEffect
         ELSE [sign |-> IF -diff > 0 THEN 1 ELSE IF -diff < 0 THEN -1 ELSE 0,
               num |-> num, den |-> den, label |-> EffectLabel(num, den)]
  BY <1>3, <1>5, <1>7, <1>8 DEF CohensD, Effect
<1>11. n + m = m + n
  BY <1>1
<1> HIDE DEF m, n, a, b, x, y, scaled, diff, num, den
<1>12. CASE m = 0 \/ n = 0 \/ m + n <= 2 \/ scaled <= 0
  BY <1>9, <1>10, <1>11, <1>12 DEF NoEffect
<1>13. CASE ~(m = 0 \/ n = 0 \/ m + n <= 2 \/ scaled <= 0)
  BY <1>6, <1>9, <1>10, <1>11, <1>13
<1>14. QED
  BY <1>12, <1>13

-----------------------------------------------------------------------------
(***************************************************************************)
(* The two comparisons of a report.                                        *)
(***************************************************************************)
\* What a metric is of the sessions in order is a sequence of naturals.
LEMMA ProjectTyped ==
  ASSUME NEW key \in EnhancedKeys, NEW u \in Seq(Sessions)
  PROVE  Project(key, u) \in Seq(Nat) /\ Len(Project(key, u)) = Len(u)
<1>1. Len(u) \in Nat /\ DOMAIN u = 1 .. Len(u) /\ \A i \in 1 .. Len(u) : u[i] \in Sessions
  BY LenProperties, ElementOfSeq
<1>2. ASSUME NEW s \in Outcomes PROVE Metric(key, s) \in Nat
  <2>1. /\ s.latencies \in Seq(Nat) /\ s.startup \in Nat /\ s.rebuffers \in Nat /\ s.stalled \in Nat
        /\ s.bitrate \in Nat /\ s.hits \in Nat /\ s.hol \in Nat
    BY DEF Outcomes
  <2>2. /\ Percentile(s.latencies, 50) \in Nat /\ Percentile(s.latencies, 95) \in Nat
        /\ Percentile(s.latencies, 99) \in Nat
    BY <2>1, PercentileIs
  <2>3. \/ key = "segment_latency_p95" \/ key = "startup_latency" \/ key = "rebuffer_count"
        \/ key = "rebuffer_duration" \/ key = "avg_bitrate" \/ key = "segment_latency_p50"
        \/ key = "segment_latency_p99" \/ key = "cache_hit_rate" \/ key = "hol_block_events"
    BY DEF EnhancedKeys, LegacyKeys
  <2>4. QED
    BY <2>1, <2>2, <2>3 DEF Metric
<1>3. \A i \in 1 .. Len(u) : Metric(key, u[i].played) \in Nat
  BY <1>1, <1>2 DEF Sessions
<1>4. QED
  BY <1>1, <1>3 DEF Project

\* Sorting keeps the type and the number of sessions.
LEMMA SessionsForTyped ==
  ASSUME TypeOK, NEW p
  PROVE  /\ SessionsFor(results, p) \in Seq(Sessions)
         /\ \A key \in EnhancedKeys : Project(key, SessionsFor(results, p)) \in Seq(Nat)
<1>1. OfProtocol(results, p) \in Seq(Sessions)
  BY OfProtocolOf DEF TypeOK
<1>2. PICK f : /\ Sorts(f, OfProtocol(results, p))
               /\ ByContent(OfProtocol(results, p)) = f[Len(OfProtocol(results, p))]
  BY <1>1, ByContentUnfolds
<1>3. Len(OfProtocol(results, p)) \in 0 .. Len(OfProtocol(results, p))
  BY <1>1, LenProperties
<1>4. SessionsFor(results, p) \in Seq(Sessions)
  BY <1>2, <1>3 DEF Sorts, SessionsFor
<1>5. QED
  BY <1>4, ProjectTyped

\* The two improvements of the same groups: the same effect but for its sign.
LEMMA SameEffect ==
  ASSUME NEW g \in Seq(Nat), NEW h \in Seq(Nat), NEW higher \in BOOLEAN
  PROVE  LET old == Improvement(g, h, higher)  new == ComputeImprovement(g, h, higher)
         IN  /\ old.effect.num * new.effect.den = new.effect.num * old.effect.den
             /\ old.effect.label = new.effect.label
             /\ old.effect.sign = IF higher THEN -new.effect.sign ELSE new.effect.sign
             /\ IF SumOf(g) = 0 THEN old.pct = NoChange ELSE old.pct = new.pct
<1> DEFINE there == CohensD(g, h)
           back == CohensD(h, g)
<1>1. /\ there.num = back.num /\ there.den = back.den /\ there.label = back.label
      /\ there.sign = -back.sign
  BY EffectTurned
<1>2. Improvement(g, h, higher).effect = there
  BY DEF Improvement
<1>3. ComputeImprovement(g, h, higher).effect = IF higher THEN back ELSE there
  BY DEF ComputeImprovement
<1>4. IF SumOf(g) = 0 THEN Improvement(g, h, higher).pct = NoChange
      ELSE Improvement(g, h, higher).pct = ComputeImprovement(g, h, higher).pct
  BY DEF Improvement, ComputeImprovement, PctImprovement
<1> HIDE DEF there, back
<1>5. QED
  BY <1>1, <1>2, <1>3, <1>4

\* The comparison that old readers still get and the enhanced one agree in the size of
\* every effect and in its label (collector.go:210); where higher is better they differ
\* in sign, and on a TCP mean of zero in the percentage (comparison.go:196).
THEOREM LegacyAgrees == Spec => []LegacyAgreesUpToSign
<1>1. Inv => LegacyAgreesUpToSign
  <2> SUFFICES ASSUME Inv, pc = "done", report.enhanced # None, NEW key \in LegacyKeys
               PROVE  LET old == report.comparison[key]  new == report.enhanced.imps[key]
                      IN  /\ old.effect.num * new.effect.den = new.effect.num * old.effect.den
                          /\ old.effect.label = new.effect.label
                          /\ old.effect.sign = IF HigherIsGood(key) THEN -new.effect.sign
                                                                    ELSE new.effect.sign
                          /\ IF SumOf(Project(key, SessionsFor(results, "tcp-h2"))) = 0
                             THEN old.pct = NoChange
                             ELSE old.pct = new.pct
    BY DEF LegacyAgreesUpToSign
  <2> DEFINE g == Project(key, SessionsFor(results, "tcp-h2"))
             h == Project(key, SessionsFor(results, "quic-h3"))
  <2>1. key \in EnhancedKeys
    BY DEF EnhancedKeys
  <2>2. g \in Seq(Nat) /\ h \in Seq(Nat)
    BY <2>1, SessionsForTyped DEF Inv
  <2>3. report.comparison = Compare(results) /\ report.enhanced = CompareEnhanced(results)
    BY DEF Inv, ReportOK
  <2>4. report.comparison[key] = Improvement(g, h, HigherIsGood(key))
    BY <2>3 DEF Compare
  <2>5. report.enhanced.imps[key] = ComputeImprovement(g, h, HigherIsGood(key))
    BY <2>1, <2>3 DEF CompareEnhanced
  <2>6. HigherIsGood(key) \in BOOLEAN
    BY DEF HigherIsGood
  <2> HIDE DEF g, h
  <2>7. QED
    BY <2>2, <2>4, <2>5, <2>6, SameEffect DEF g
<1>2. QED
  BY <1>1, InitInv, StepInv, PTL DEF Spec

-----------------------------------------------------------------------------
(***************************************************************************)
(* The U statistic counts pairs.                                           *)
(***************************************************************************)
\* A set and its image under a map that tells its elements apart are of one size.
LEMMA Matched ==
  ASSUME NEW S, NEW T, IsFiniteSet(S), NEW f \in [S -> T],
         \A a, b \in S : f[a] = f[b] => a = b, \A t \in T : \E a \in S : f[a] = t
  PROVE  IsFiniteSet(T) /\ Cardinality(T) = Cardinality(S)
<1>1. f \in Bijection(S, T)
  BY DEF Bijection, Injection, Surjection, IsInjective
<1>2. ExistsBijection(S, T)
  BY <1>1 DEF ExistsBijection
<1>3. QED
  BY <1>2, FS_Bijection

\* u adds s and t, one by one.
AddsUp(u, s, t) ==
  Len(s) = Len(u) /\ Len(t) = Len(u) /\ \A i \in 1 .. Len(u) : u[i] = s[i] + t[i]

LEMMA SumOfBoth ==
  ASSUME NEW s \in Seq(Nat), NEW t \in Seq(Nat), NEW u \in Seq(Nat), AddsUp(u, s, t)
  PROVE  SumOf(u) = SumOf(s) + SumOf(t)
<1>0. Len(s) = Len(u) /\ Len(t) = Len(u) /\ \A i \in 1 .. Len(u) : u[i] = s[i] + t[i]
  BY DEF AddsUp
<1> DEFINE len == Len(u)
           T == { n \in Nat : n <= len => SumTo(u, n) = SumTo(s, n) + SumTo(t, n) }
<1>1. len \in Nat /\ \A i \in 1 .. len : s[i] \in Nat /\ t[i] \in Nat
  BY <1>0, LenProperties, ElementOfSeq
<1>2. 0 \in T
  BY SumToUnfolds
<1>3. ASSUME NEW n \in Nat, n \in T PROVE n + 1 \in T
  <2> SUFFICES ASSUME n + 1 <= len PROVE SumTo(u, n + 1) = SumTo(s, n + 1) + SumTo(t, n + 1)
    OBVIOUS
  <2>1. n + 1 \in 1 .. len /\ n \in 0 .. len /\ (n + 1) - 1 = n
    BY <1>1
  <2>2. SumTo(u, n) = SumTo(s, n) + SumTo(t, n)
    BY <1>1, <1>3
  <2>3. /\ SumTo(u, n + 1) = SumTo(u, n) + u[n + 1] /\ SumTo(s, n + 1) = SumTo(s, n) + s[n + 1]
        /\ SumTo(t, n + 1) = SumTo(t, n) + t[n + 1]
    BY <1>0, <2>1, SumToUnfolds
  <2>4. SumTo(s, n) \in Nat /\ SumTo(t, n) \in Nat
    BY <1>0, <2>1, SumToUnfolds
  <2>5. u[n + 1] = s[n + 1] + t[n + 1] /\ s[n + 1] \in Nat /\ t[n + 1] \in Nat
    BY <1>0, <1>1, <2>1
  <2> DEFINE a == SumTo(s, n)
             b == SumTo(t, n)
             c == s[n + 1]
             d == t[n + 1]
  <2>6. a \in Nat /\ b \in Nat /\ c \in Nat /\ d \in Nat
    BY <2>4, <2>5
  <2> HIDE DEF T, len, a, b, c, d
  <2>7. (a + b) + (c + d) = (a + c) + (b + d)
    BY <2>6
  <2> USE DEF a, b, c, d
  <2>8. QED
    BY <2>2, <2>3, <2>5, <2>7, Zenon
<1>4. len \in T
  <2> HIDE DEF T, len
  <2>1. QED
    BY <1>1, <1>2, <1>3, SetInduction
<1>5. QED
  BY <1>0, <1>1, <1>4 DEF SumOf

\* The sum of ones.
LEMMA SumOfOnes ==
  ASSUME NEW u \in Seq(Nat), \A i \in 1 .. Len(u) : u[i] = 1
  PROVE  SumOf(u) = Len(u)
<1> DEFINE len == Len(u)
           T == { n \in Nat : n <= len => SumTo(u, n) = n }
<1>1. len \in Nat
  BY LenProperties
<1>2. 0 \in T
  BY SumToUnfolds
<1>3. ASSUME NEW n \in Nat, n \in T PROVE n + 1 \in T
  <2> SUFFICES ASSUME n + 1 <= len PROVE SumTo(u, n + 1) = n + 1
    OBVIOUS
  <2>1. n + 1 \in 1 .. len /\ (n + 1) - 1 = n
    BY <1>1
  <2>2. SumTo(u, n) = n
    BY <1>1, <1>3
  <2>3. SumTo(u, n + 1) = SumTo(u, n) + u[n + 1]
    BY <2>1, SumToUnfolds
  <2>4. QED
    BY <2>1, <2>2, <2>3
<1>4. len \in T
  <2> HIDE DEF T, len
  <2>1. QED
    BY <1>1, <1>2, <1>3, SetInduction
<1>5. QED
  BY <1>1, <1>4 DEF SumOf

\* Pairs are counted row by row: s has the sizes of the rows of R.
CountsRows(s, R, m, n) ==
  Len(s) = m /\ \A i \in 1 .. m : s[i] = Cardinality({ j \in 1 .. n : <<i, j>> \in R })

LEMMA Rows ==
  ASSUME NEW m \in Nat, NEW n \in Nat, NEW R, R \subseteq (1 .. m) \X (1 .. n),
         NEW s \in Seq(Nat), CountsRows(s, R, m, n)
  PROVE  SumOf(s) = Cardinality(R)
<1>0. Len(s) = m /\ \A i \in 1 .. m : s[i] = Cardinality({ j \in 1 .. n : <<i, j>> \in R })
  BY DEF CountsRows
<1> DEFINE First(k) == { q \in R : q[1] <= k }
           Row(i) == { j \in 1 .. n : <<i, j>> \in R }
           T == { k \in Nat : k <= m => SumTo(s, k) = Cardinality(First(k)) }
<1>1. IsFiniteSet(R)
  <2>1. IsFiniteSet(1 .. m) /\ IsFiniteSet(1 .. n)
    BY RangeCounts
  <2>2. IsFiniteSet((1 .. m) \X (1 .. n))
    BY <2>1, FS_Product
  <2>3. QED
    BY <2>2, FS_Subset
<1>2. 0 \in T
  <2>1. First(0) = {}
    OBVIOUS
  <2>2. SumTo(s, 0) = 0
    BY SumToUnfolds
  <2>3. QED
    BY <2>1, <2>2, FS_EmptySet
<1>3. ASSUME NEW k \in Nat, k \in T PROVE k + 1 \in T
  <2> HIDE DEF First
  <2> SUFFICES ASSUME k + 1 <= m PROVE SumTo(s, k + 1) = Cardinality(First(k + 1))
    OBVIOUS
  <2> DEFINE new == { q \in R : q[1] = k + 1 }
             f == [j \in Row(k + 1) |-> <<k + 1, j>>]
  <2>1. k + 1 \in 1 .. m /\ (k + 1) - 1 = k /\ SumTo(s, k) = Cardinality(First(k))
    BY <1>3
  <2> USE DEF First
  <2>2. SumTo(s, k + 1) = SumTo(s, k) + s[k + 1]
    BY <1>0, <2>1, SumToUnfolds
  <2>3. Cardinality(new) = s[k + 1]
    <3>1. IsFiniteSet(Row(k + 1))
      <4>1. IsFiniteSet(1 .. n) /\ Row(k + 1) \subseteq 1 .. n
        BY RangeCounts
      <4>2. QED
        BY <4>1, FS_Subset
    <3>2. f \in [Row(k + 1) -> new]
      OBVIOUS
    <3>3. \A a, b \in Row(k + 1) : f[a] = f[b] => a = b
      OBVIOUS
    <3>4. ASSUME NEW q \in new PROVE \E a \in Row(k + 1) : f[a] = q
      <4>1. q \in R /\ q[1] = k + 1
        OBVIOUS
      <4>2. q = <<k + 1, q[2]>> /\ q[2] \in 1 .. n
        BY <4>1
      <4>3. q[2] \in Row(k + 1)
        BY <4>1, <4>2
      <4>4. f[q[2]] = q
        BY <4>2, <4>3
      <4>5. QED
        BY <4>3, <4>4
    <3>5. s[k + 1] = Cardinality(Row(k + 1))
      BY <1>0, <2>1
    <3> HIDE DEF new, f, Row
    <3>6. QED
      BY <3>1, <3>2, <3>3, <3>4, <3>5, Matched
  <2>4. First(k + 1) = First(k) \cup new /\ First(k) \cap new = {}
    OBVIOUS
  <2>5. IsFiniteSet(First(k)) /\ IsFiniteSet(new)
    <3>1. First(k) \subseteq R /\ new \subseteq R
      OBVIOUS
    <3> HIDE DEF First, new
    <3>2. QED
      BY <1>1, <3>1, FS_Subset
  <2> HIDE DEF First, new
  <2>6. Cardinality(First(k + 1)) = Cardinality(First(k)) + Cardinality(new) - Cardinality({})
    BY <2>4, <2>5, FS_Union
  <2>7. Cardinality(First(k)) \in Nat /\ Cardinality(new) \in Nat /\ Cardinality({}) = 0
    BY <2>5, FS_CardinalityType, FS_EmptySet
  <2>8. QED
    BY <2>1, <2>2, <2>3, <2>6, <2>7
<1>4. m \in T
  <2> HIDE DEF T
  <2>1. QED
    BY <1>2, <1>3, SetInduction
<1>5. First(m) = R
  OBVIOUS
<1> HIDE DEF First
<1>6. QED
  BY <1>0, <1>4, <1>5 DEF SumOf

\* For each value of g those of h below it, and those up to it, counted together.
Belows(g, h) == [i \in DOMAIN g |-> Below(h, g[i])]
UpTos(g, h) == [i \in DOMAIN g |-> UpTo(h, g[i])]
Above(g, h) == { q \in (DOMAIN g) \X (DOMAIN h) : g[q[1]] > h[q[2]] }
NotBelow(g, h) == { q \in (DOMAIN g) \X (DOMAIN h) : g[q[1]] >= h[q[2]] }

LEMMA PairsCounted ==
  ASSUME NEW g \in Seq(Nat), NEW h \in Seq(Nat)
  PROVE  /\ Belows(g, h) \in Seq(Nat) /\ Len(Belows(g, h)) = Len(g)
         /\ SumOf(Belows(g, h)) = Cardinality(Above(g, h))
         /\ UpTos(g, h) \in Seq(Nat) /\ Len(UpTos(g, h)) = Len(g)
         /\ SumOf(UpTos(g, h)) = Cardinality(NotBelow(g, h))
<1> DEFINE m == Len(g)
           n == Len(h)
<1>1. /\ m \in Nat /\ DOMAIN g = 1 .. m /\ \A i \in 1 .. m : g[i] \in Nat
      /\ n \in Nat /\ DOMAIN h = 1 .. n /\ \A j \in 1 .. n : h[j] \in Nat
  BY LenProperties, ElementOfSeq
<1>2. ASSUME NEW v PROVE Below(h, v) \in Nat /\ UpTo(h, v) \in Nat
  <2>1. Below(h, v) \in 0 .. Len(h) /\ UpTo(h, v) \in 0 .. Len(h)
    BY CountsTyped
  <2>2. QED
    BY <1>1, <2>1
<1>3. /\ Belows(g, h) \in Seq(Nat) /\ Len(Belows(g, h)) = m
      /\ UpTos(g, h) \in Seq(Nat) /\ Len(UpTos(g, h)) = m
  BY <1>1, <1>2 DEF Belows, UpTos
<1>4. \A i \in 1 .. m : Belows(g, h)[i] = Cardinality({ j \in 1 .. n : <<i, j>> \in Above(g, h) })
  <2> SUFFICES ASSUME NEW i \in 1 .. m
               PROVE  Belows(g, h)[i] = Cardinality({ j \in 1 .. n : <<i, j>> \in Above(g, h) })
    OBVIOUS
  <2>1. { j \in 1 .. n : <<i, j>> \in Above(g, h) } = { j \in DOMAIN h : h[j] < g[i] }
    BY <1>1 DEF Above
  <2>2. Belows(g, h)[i] = Cardinality({ j \in DOMAIN h : h[j] < g[i] })
    BY <1>1 DEF Belows, Below
  <2>3. QED
    BY <2>1, <2>2
<1>5. \A i \in 1 .. m : UpTos(g, h)[i] = Cardinality({ j \in 1 .. n : <<i, j>> \in NotBelow(g, h) })
  <2> SUFFICES ASSUME NEW i \in 1 .. m
               PROVE  UpTos(g, h)[i] = Cardinality({ j \in 1 .. n : <<i, j>> \in NotBelow(g, h) })
    OBVIOUS
  <2>1. { j \in 1 .. n : <<i, j>> \in NotBelow(g, h) } = { j \in DOMAIN h : h[j] <= g[i] }
    BY <1>1 DEF NotBelow
  <2>2. UpTos(g, h)[i] = Cardinality({ j \in DOMAIN h : h[j] <= g[i] })
    BY <1>1 DEF UpTos, UpTo
  <2>3. QED
    BY <2>1, <2>2
<1>6. Above(g, h) \subseteq (1 .. m) \X (1 .. n) /\ NotBelow(g, h) \subseteq (1 .. m) \X (1 .. n)
  BY <1>1 DEF Above, NotBelow
<1> HIDE DEF m, n
<1>7. CountsRows(Belows(g, h), Above(g, h), m, n) /\ CountsRows(UpTos(g, h), NotBelow(g, h), m, n)
  BY <1>3, <1>4, <1>5 DEF CountsRows
<1>8. /\ SumOf(Belows(g, h)) = Cardinality(Above(g, h))
      /\ SumOf(UpTos(g, h)) = Cardinality(NotBelow(g, h))
  BY ZenonT(40), <1>1, <1>3, <1>6, <1>7, Rows
<1>9. QED
  BY <1>3, <1>8 DEF m

\* A pair is above one way, or not below the other.
LEMMA EitherWay ==
  ASSUME NEW g \in Seq(Nat), NEW h \in Seq(Nat)
  PROVE  /\ Cardinality(Above(g, h)) \in Nat /\ Cardinality(NotBelow(h, g)) \in Nat
         /\ Cardinality(Above(g, h)) + Cardinality(NotBelow(h, g)) = Len(g) * Len(h)
<1> DEFINE m == Len(g)
           n == Len(h)
           all == (1 .. m) \X (1 .. n)
           back == { q \in all : g[q[1]] <= h[q[2]] }
           f == [q \in back |-> <<q[2], q[1]>>]
<1>1. /\ m \in Nat /\ DOMAIN g = 1 .. m /\ \A i \in 1 .. m : g[i] \in Nat
      /\ n \in Nat /\ DOMAIN h = 1 .. n /\ \A j \in 1 .. n : h[j] \in Nat
  BY LenProperties, ElementOfSeq
<1>2. IsFiniteSet(all) /\ Cardinality(all) = m * n
  <2>1. /\ IsFiniteSet(1 .. m) /\ Cardinality(1 .. m) = m
        /\ IsFiniteSet(1 .. n) /\ Cardinality(1 .. n) = n
    BY <1>1, RangeCounts
  <2>2. QED
    BY ZenonT(40), <2>1, FS_Product
<1>3. IsFiniteSet(Above(g, h)) /\ IsFiniteSet(back)
  <2>1. Above(g, h) \subseteq all /\ back \subseteq all
    BY <1>1 DEF Above
  <2> HIDE DEF back, all
  <2>2. QED
    BY <1>2, <2>1, FS_Subset
<1>4. Cardinality(NotBelow(h, g)) = Cardinality(back)
  <2>1. f \in [back -> NotBelow(h, g)]
    BY <1>1 DEF NotBelow
  <2>2. \A a, b \in back : f[a] = f[b] => a = b
    OBVIOUS
  <2>3. ASSUME NEW q \in NotBelow(h, g) PROVE \E a \in back : f[a] = q
    <3>1. <<q[2], q[1]>> \in back /\ q = <<q[1], q[2]>>
      BY <1>1 DEF NotBelow
    <3>2. f[<<q[2], q[1]>>] = q
      BY <3>1
    <3>3. QED
      BY <3>1, <3>2
  <2> HIDE DEF back, f
  <2>4. QED
    BY <1>3, <2>1, <2>2, <2>3, Matched
<1>5. all = Above(g, h) \cup back /\ Above(g, h) \cap back = {}
  BY <1>1 DEF Above
<1> HIDE DEF all, back
<1>6. Cardinality(all) = Cardinality(Above(g, h)) + Cardinality(back) - Cardinality({})
  BY <1>3, <1>5, FS_Union
<1>7. Cardinality(Above(g, h)) \in Nat /\ Cardinality(back) \in Nat /\ Cardinality({}) = 0
  BY <1>3, FS_CardinalityType, FS_EmptySet
<1>8. QED
  BY <1>2, <1>4, <1>6, <1>7

\* What is below a value in two sequences, one after the other.
LEMMA CountsTogether ==
  ASSUME NEW g \in Seq(Nat), NEW h \in Seq(Nat), NEW v \in Nat
  PROVE  /\ Below(g \o h, v) = Below(g, v) + Below(h, v)
         /\ UpTo(g \o h, v) = UpTo(g, v) + UpTo(h, v)
<1> DEFINE m == Len(g)
           n == Len(h)
<1>1. /\ m \in Nat /\ DOMAIN g = 1 .. m /\ n \in Nat /\ DOMAIN h = 1 .. n
  BY LenProperties
<1>2. /\ DOMAIN (g \o h) = 1 .. m + n
      /\ \A i \in 1 .. m : (g \o h)[i] = g[i]
      /\ \A i \in m + 1 .. m + n : (g \o h)[i] = h[i - m]
  BY <1>1, ConcatProperties, LenProperties
<1>3. ASSUME NEW P, P \subseteq Nat
      PROVE  Cardinality({ i \in 1 .. m + n : (g \o h)[i] \in P })
               = Cardinality({ i \in 1 .. m : g[i] \in P }) + Cardinality({ j \in 1 .. n : h[j] \in P })
  <2> DEFINE D == { i \in 1 .. m + n : (g \o h)[i] \in P }
             A == { i \in 1 .. m : g[i] \in P }
             B == { j \in 1 .. n : h[j] \in P }
             C == { i \in m + 1 .. m + n : h[i - m] \in P }
             f == [j \in B |-> m + j]
  <2>1. D = A \cup C
    <3>1. \A i \in 1 .. m + n : (g \o h)[i] \in P <=> i \in A \/ i \in C
      BY <1>1, <1>2
    <3>2. A \subseteq 1 .. m + n /\ C \subseteq 1 .. m + n
      BY <1>1
    <3> HIDE DEF A, C
    <3>3. QED
      BY <3>1, <3>2
  <2>2. A \cap C = {}
    BY <1>1
  <2>3. IsFiniteSet(A) /\ IsFiniteSet(B)
    <3>1. IsFiniteSet(1 .. m) /\ IsFiniteSet(1 .. n)
      BY <1>1, RangeCounts
    <3>2. A \subseteq 1 .. m /\ B \subseteq 1 .. n
      OBVIOUS
    <3> HIDE DEF A, B
    <3>3. QED
      BY <3>1, <3>2, FS_Subset
  <2>4. IsFiniteSet(C) /\ Cardinality(C) = Cardinality(B)
    <3>1. f \in [B -> C]
      BY <1>1
    <3>2. \A a, b \in B : f[a] = f[b] => a = b
      BY <1>1
    <3>3. ASSUME NEW i \in C PROVE \E b \in B : f[b] = i
      <4>1. i - m \in B /\ m + (i - m) = i
        BY <1>1
      <4>2. f[i - m] = i
        BY <4>1
      <4>3. QED
        BY <4>1, <4>2
    <3> HIDE DEF B, C, f
    <3>4. QED
      BY <2>3, <3>1, <3>2, <3>3, Matched
  <2> HIDE DEF A, B, C, D
  <2>5. Cardinality(A \cup C) = Cardinality(A) + Cardinality(C) - Cardinality({})
    BY <2>2, <2>3, <2>4, FS_Union
  <2>6. Cardinality(A) \in Nat /\ Cardinality(B) \in Nat /\ Cardinality({}) = 0
    BY <2>3, FS_CardinalityType, FS_EmptySet
  <2>7. Cardinality(D) = Cardinality(A) + Cardinality(B)
    BY <2>1, <2>4, <2>5, <2>6
  <2>8. QED
    BY <2>7 DEF A, B, D
<1>4. /\ \A i \in 1 .. m : g[i] \in Nat
      /\ \A j \in 1 .. n : h[j] \in Nat
      /\ \A i \in 1 .. m + n : (g \o h)[i] \in Nat
  <2>1. \A i \in 1 .. m : g[i] \in Nat
    BY <1>1, ElementOfSeq
  <2>2. \A j \in 1 .. n : h[j] \in Nat
    BY <1>1, ElementOfSeq
  <2>3. \A i \in 1 .. m + n : (g \o h)[i] \in Nat
    BY <1>1, <1>2, <2>1, <2>2
  <2>4. QED
    BY <2>1, <2>2, <2>3
<1> HIDE DEF m, n
<1>5. Below(g \o h, v) = Below(g, v) + Below(h, v)
  <2> DEFINE P == { x \in Nat : x < v }
  <2>1. \A x \in Nat : x \in P <=> x < v
    OBVIOUS
  <2>2. P \subseteq Nat
    OBVIOUS
  <2> HIDE DEF P
  <2>3. Cardinality({ i \in 1 .. m + n : (g \o h)[i] \in P })
          = Cardinality({ i \in 1 .. m : g[i] \in P }) + Cardinality({ j \in 1 .. n : h[j] \in P })
    BY <1>3, <2>2
  <2>4. /\ { i \in 1 .. m + n : (g \o h)[i] \in P } = { i \in 1 .. m + n : (g \o h)[i] < v }
        /\ { i \in 1 .. m : g[i] \in P } = { i \in 1 .. m : g[i] < v }
        /\ { j \in 1 .. n : h[j] \in P } = { j \in 1 .. n : h[j] < v }
    <3>1. /\ \A i \in 1 .. m + n : (g \o h)[i] \in P <=> (g \o h)[i] < v
          /\ \A i \in 1 .. m : g[i] \in P <=> g[i] < v
          /\ \A j \in 1 .. n : h[j] \in P <=> h[j] < v
      BY <1>4, <2>1
    <3>2. QED
      BY <3>1, Zenon
  <2>5. QED
    BY <1>1, <1>2, <2>3, <2>4 DEF Below
<1>6. UpTo(g \o h, v) = UpTo(g, v) + UpTo(h, v)
  <2> DEFINE P == { x \in Nat : x <= v }
  <2>1. \A x \in Nat : x \in P <=> x <= v
    OBVIOUS
  <2>2. P \subseteq Nat
    OBVIOUS
  <2> HIDE DEF P
  <2>3. Cardinality({ i \in 1 .. m + n : (g \o h)[i] \in P })
          = Cardinality({ i \in 1 .. m : g[i] \in P }) + Cardinality({ j \in 1 .. n : h[j] \in P })
    BY <1>3, <2>2
  <2>4. /\ { i \in 1 .. m + n : (g \o h)[i] \in P } = { i \in 1 .. m + n : (g \o h)[i] <= v }
        /\ { i \in 1 .. m : g[i] \in P } = { i \in 1 .. m : g[i] <= v }
        /\ { j \in 1 .. n : h[j] \in P } = { j \in 1 .. n : h[j] <= v }
    <3>1. /\ \A i \in 1 .. m + n : (g \o h)[i] \in P <=> (g \o h)[i] <= v
          /\ \A i \in 1 .. m : g[i] \in P <=> g[i] <= v
          /\ \A j \in 1 .. n : h[j] \in P <=> h[j] <= v
      BY <1>4, <2>1
    <3>2. QED
      BY <3>1, Zenon
  <2>5. QED
    BY <1>1, <1>2, <2>3, <2>4 DEF UpTo
<1>7. QED
  BY <1>5, <1>6

\* The rank sum gives the pairs won, as both sides count them.
LEMMA RanksCountPairs ==
  ASSUME NEW g \in Seq(Nat), NEW h \in Seq(Nat)
  PROVE  TwiceU(g, h) = TwicePairsWon(g, h)
<1> DEFINE m == Len(g)
           ranks == [i \in DOMAIN g |-> TwiceRank(g \o h, g[i])]
           ones == [i \in DOMAIN g |-> 1]
           own == [i \in DOMAIN g |-> Belows(g, g)[i] + UpTos(g, g)[i]]
           other == [i \in DOMAIN g |-> Belows(g, h)[i] + UpTos(g, h)[i]]
           both == [i \in DOMAIN g |-> own[i] + other[i]]
<1>1. m \in Nat /\ DOMAIN g = 1 .. m /\ \A i \in 1 .. m : g[i] \in Nat
  BY LenProperties, ElementOfSeq
<1>2. /\ Belows(g, g) \in Seq(Nat) /\ Len(Belows(g, g)) = m
      /\ UpTos(g, g) \in Seq(Nat) /\ Len(UpTos(g, g)) = m
      /\ Belows(g, h) \in Seq(Nat) /\ Len(Belows(g, h)) = m
      /\ UpTos(g, h) \in Seq(Nat) /\ Len(UpTos(g, h)) = m
      /\ SumOf(Belows(g, g)) = Cardinality(Above(g, g))
      /\ SumOf(UpTos(g, g)) = Cardinality(NotBelow(g, g))
      /\ SumOf(Belows(g, h)) = Cardinality(Above(g, h))
      /\ SumOf(UpTos(g, h)) = Cardinality(NotBelow(g, h))
  BY PairsCounted
<1>3. \A i \in 1 .. m : /\ Belows(g, g)[i] \in Nat /\ UpTos(g, g)[i] \in Nat
                        /\ Belows(g, h)[i] \in Nat /\ UpTos(g, h)[i] \in Nat
  BY <1>2, ElementOfSeq
<1>4. own \in Seq(Nat) /\ Len(own) = m /\ other \in Seq(Nat) /\ Len(other) = m
  BY <1>1, <1>3
<1>5. /\ SumOf(own) = Cardinality(Above(g, g)) + Cardinality(NotBelow(g, g))
      /\ SumOf(other) = Cardinality(Above(g, h)) + Cardinality(NotBelow(g, h))
  <2>1. AddsUp(own, Belows(g, g), UpTos(g, g)) /\ AddsUp(other, Belows(g, h), UpTos(g, h))
    <3>1. /\ \A i \in 1 .. m : own[i] = Belows(g, g)[i] + UpTos(g, g)[i]
          /\ \A i \in 1 .. m : other[i] = Belows(g, h)[i] + UpTos(g, h)[i]
      BY <1>1
    <3> HIDE DEF own, other
    <3>2. QED
      BY <1>2, <1>4, <3>1 DEF AddsUp
  <2> HIDE DEF own, other, m
  <2>2. SumOf(own) = SumOf(Belows(g, g)) + SumOf(UpTos(g, g))
    BY <1>2, <1>4, <2>1, SumOfBoth
  <2>3. SumOf(other) = SumOf(Belows(g, h)) + SumOf(UpTos(g, h))
    BY <1>2, <1>4, <2>1, SumOfBoth
  <2>4. QED
    BY <1>2, <2>2, <2>3
<1>6. both \in Seq(Nat) /\ Len(both) = m /\ AddsUp(both, own, other)
  <2>1. \A i \in 1 .. m : own[i] \in Nat /\ other[i] \in Nat
    BY SMTT(20), <1>1, <1>3
  <2> HIDE DEF own, other
  <2>2. both \in Seq(Nat) /\ Len(both) = m /\ \A i \in 1 .. m : both[i] = own[i] + other[i]
    BY <1>1, <2>1
  <2> HIDE DEF both
  <2>3. QED
    BY <1>4, <2>2 DEF AddsUp
<1>7. ones \in Seq(Nat) /\ Len(ones) = m /\ \A i \in 1 .. m : ones[i] = 1
  BY <1>1
<1>8. ranks \in Seq(Nat) /\ Len(ranks) = m /\ AddsUp(ranks, both, ones)
  <2>1. ASSUME NEW i \in 1 .. m PROVE TwiceRank(g \o h, g[i]) = both[i] + ones[i]
    <3>1. /\ Below(g \o h, g[i]) = Below(g, g[i]) + Below(h, g[i])
          /\ UpTo(g \o h, g[i]) = UpTo(g, g[i]) + UpTo(h, g[i])
      BY <1>1, CountsTogether
    <3>2. /\ Belows(g, g)[i] = Below(g, g[i]) /\ UpTos(g, g)[i] = UpTo(g, g[i])
          /\ Belows(g, h)[i] = Below(h, g[i]) /\ UpTos(g, h)[i] = UpTo(h, g[i])
      BY <1>1 DEF Belows, UpTos
    <3>3. both[i] = Belows(g, g)[i] + UpTos(g, g)[i] + (Belows(g, h)[i] + UpTos(g, h)[i])
      BY <1>1
    <3>4. ones[i] = 1
      BY <1>7
    <3>5. /\ Belows(g, g)[i] \in Nat /\ UpTos(g, g)[i] \in Nat
          /\ Belows(g, h)[i] \in Nat /\ UpTos(g, h)[i] \in Nat
      BY <1>3
    <3> HIDE DEF both, ones
    <3>6. QED
      BY <3>1, <3>2, <3>3, <3>4, <3>5 DEF TwiceRank
  <2>2. \A i \in 1 .. m : both[i] \in Nat /\ ones[i] \in Nat
    <3> HIDE DEF both, ones
    <3>1. QED
      BY <1>6, <1>7, ElementOfSeq
  <2> HIDE DEF both, ones
  <2>3. \A i \in 1 .. m : ranks[i] = both[i] + ones[i]
    BY <1>1, <2>1
  <2>4. \A i \in 1 .. m : TwiceRank(g \o h, g[i]) \in Nat
    <3> HIDE DEF both, ones
    <3>1. QED
      BY <2>1, <2>2
  <2>5. ranks \in Seq(Nat) /\ Len(ranks) = m
    BY <1>1, <2>4
  <2> HIDE DEF ranks
  <2>6. QED
    BY <1>6, <1>7, <2>3, <2>5 DEF AddsUp
<1>9. SumOf(ranks) = SumOf(own) + SumOf(other) + m
  <2> HIDE DEF ranks, both, own, other, ones, m
  <2>1. SumOf(ranks) = SumOf(both) + SumOf(ones)
    BY <1>6, <1>7, <1>8, SumOfBoth
  <2>2. SumOf(both) = SumOf(own) + SumOf(other)
    BY <1>4, <1>6, SumOfBoth
  <2>3. SumOf(ones) = m
    BY <1>7, SumOfOnes
  <2>4. QED
    BY <2>1, <2>2, <2>3
<1>10. Cardinality(Above(g, g)) + Cardinality(NotBelow(g, g)) = m * m
  BY EitherWay
<1>11. /\ Cardinality(Above(g, h)) \in Nat /\ Cardinality(NotBelow(g, h)) \in Nat
  BY EitherWay
<1>12. TwiceU(g, h) = SumOf(ranks) - m * (m + 1)
  BY DEF TwiceU
<1>13. TwicePairsWon(g, h) = Cardinality(Above(g, h)) + Cardinality(NotBelow(g, h))
  BY DEF TwicePairsWon, Above, NotBelow
<1> HIDE DEF ranks, own, other, m
<1>14. m * (m + 1) = m * m + m /\ m * m \in Int
  BY <1>1
<1>15. QED
  BY <1>1, <1>5, <1>9, <1>10, <1>11, <1>12, <1>13, <1>14

\* What one side does not win, the other does.
LEMMA WonOrLost ==
  ASSUME NEW g \in Seq(Nat), NEW h \in Seq(Nat)
  PROVE  TwicePairsWon(h, g) = 2 * Len(g) * Len(h) - TwicePairsWon(g, h)
<1>1. /\ TwicePairsWon(g, h) = Cardinality(Above(g, h)) + Cardinality(NotBelow(g, h))
      /\ TwicePairsWon(h, g) = Cardinality(Above(h, g)) + Cardinality(NotBelow(h, g))
  BY DEF TwicePairsWon, Above, NotBelow
<1>2. /\ Cardinality(Above(g, h)) \in Nat /\ Cardinality(NotBelow(h, g)) \in Nat
      /\ Cardinality(Above(g, h)) + Cardinality(NotBelow(h, g)) = Len(g) * Len(h)
      /\ Cardinality(Above(h, g)) \in Nat /\ Cardinality(NotBelow(g, h)) \in Nat
      /\ Cardinality(Above(h, g)) + Cardinality(NotBelow(g, h)) = Len(h) * Len(g)
  BY EitherWay
<1>3. ASSUME NEW m \in Nat, NEW n \in Nat PROVE m * n \in Nat /\ n * m = m * n /\ 2 * m * n = 2 * (m * n)
  OBVIOUS
<1>4. Len(g) \in Nat /\ Len(h) \in Nat
  BY LenProperties
<1>5. /\ Len(g) * Len(h) \in Nat /\ Len(h) * Len(g) = Len(g) * Len(h)
      /\ 2 * Len(g) * Len(h) = 2 * (Len(g) * Len(h))
  BY <1>3, <1>4
<1>6. PICK p \in Nat : p = Len(g) * Len(h)
  BY <1>5
<1>7. PICK a \in Nat, b \in Nat, c \in Nat, d \in Nat :
        /\ a = Cardinality(Above(g, h)) /\ b = Cardinality(NotBelow(h, g))
        /\ c = Cardinality(Above(h, g)) /\ d = Cardinality(NotBelow(g, h))
  BY <1>2
<1>8. /\ a + b = p /\ c + d = p /\ 2 * Len(g) * Len(h) = 2 * p
      /\ TwicePairsWon(g, h) = a + d /\ TwicePairsWon(h, g) = c + b
  BY <1>1, <1>2, <1>5, <1>6, <1>7
<1>9. c + b = 2 * p - (a + d)
  BY <1>8
<1>10. QED
  BY <1>8, <1>9

\* The test statistic is the smaller number of pairs won.
LEMMA UIsPairs ==
  ASSUME NEW g \in Seq(Nat), NEW h \in Seq(Nat)
  PROVE  MannWhitneyU(g, h).twiceU = Min({TwicePairsWon(g, h), TwicePairsWon(h, g)})
<1>1. TwiceU(g, h) = TwicePairsWon(g, h)
  BY RanksCountPairs
<1>2. TwicePairsWon(h, g) = 2 * Len(g) * Len(h) - TwicePairsWon(g, h)
  BY WonOrLost
<1>3. CASE Len(g) = 0 \/ Len(h) = 0
  <2>1. MannWhitneyU(g, h).twiceU = 0
    BY <1>3 DEF MannWhitneyU
  <2>2. (DOMAIN g) \X (DOMAIN h) = {} /\ (DOMAIN h) \X (DOMAIN g) = {}
    <3>1. DOMAIN g = 1 .. Len(g) /\ DOMAIN h = 1 .. Len(h) /\ 1 .. 0 = {}
      BY LenProperties
    <3>2. DOMAIN g = {} \/ DOMAIN h = {}
      BY <1>3, <3>1
    <3>3. QED
      BY <3>2
  <2>3. TwicePairsWon(g, h) = 0 /\ TwicePairsWon(h, g) = 0
    <3>1. /\ TwicePairsWon(g, h) = Cardinality(Above(g, h)) + Cardinality(NotBelow(g, h))
          /\ TwicePairsWon(h, g) = Cardinality(Above(h, g)) + Cardinality(NotBelow(h, g))
      BY DEF TwicePairsWon, Above, NotBelow
    <3>2. Above(g, h) = {} /\ NotBelow(g, h) = {} /\ Above(h, g) = {} /\ NotBelow(h, g) = {}
      BY <2>2 DEF Above, NotBelow
    <3>3. QED
      BY <3>1, <3>2, FS_EmptySet
  <2>4. Min({0, 0}) = 0
    <3>1. {0, 0} \subseteq Nat /\ {0, 0} # {}
      OBVIOUS
    <3>2. Min({0, 0}) \in {0, 0}
      BY <3>1, MinExists
    <3>3. QED
      BY <3>2
  <2>5. QED
    BY <2>1, <2>3, <2>4
<1>4. CASE Len(g) # 0 /\ Len(h) # 0
  BY <1>1, <1>2, <1>4 DEF MannWhitneyU
<1>5. QED
  BY <1>3, <1>4

-----------------------------------------------------------------------------
(***************************************************************************)
(* The latencies a report is made of, and the report.                      *)
(***************************************************************************)
\* Sequences one after another: none of them empty, nor all of them together.
LEMMA FlattenTyped ==
  ASSUME NEW seqs \in Seq(Seq(Nat) \ {<< >>}), seqs # << >>
  PROVE  FlattenSeq(seqs) \in Seq(Nat) /\ FlattenSeq(seqs) # << >>
<1> DEFINE len == Len(seqs)
           Some == Seq(Nat) \ {<< >>}
           Step(g) == [i \in 1 .. len |-> IF i = 1 THEN seqs[i] ELSE g[i - 1] \o seqs[i]]
           flatten == CHOOSE g : g = Step(g)
           F == [q \in (1 .. len - 1) \X Some |-> q[2] \o seqs[q[1] + 1]]
<1>1. len \in Nat /\ len >= 1 /\ \A i \in 1 .. len : seqs[i] \in Some
  <2>1. len \in Nat /\ len # 0
    BY LenProperties, EmptySeq
  <2>2. \A i \in 1 .. len : seqs[i] \in Some
    BY ElementOfSeq
  <2>3. QED
    BY <2>1, <2>2
<1>2. ASSUME NEW s \in Some, NEW t \in Some PROVE s \o t \in Some
  <2>1. s \o t \in Seq(Nat) /\ Len(s \o t) = Len(s) + Len(t)
    BY ConcatProperties
  <2>2. Len(s) \in Nat /\ Len(s) # 0 /\ Len(t) \in Nat
    BY LenProperties, EmptySeq
  <2>3. Len(s \o t) # 0
    BY <2>1, <2>2
  <2>4. QED
    BY <2>1, <2>3, EmptySeq
<1>3. F \in [(1 .. len - 1) \X Some -> Some]
  <2>1. \A q \in (1 .. len - 1) \X Some : q[2] \o seqs[q[1] + 1] \in Some
    <3> SUFFICES ASSUME NEW q \in (1 .. len - 1) \X Some PROVE q[2] \o seqs[q[1] + 1] \in Some
      OBVIOUS
    <3> HIDE DEF Some, len
    <3>0. q[2] \in Some /\ q[1] \in 1 .. len - 1
      OBVIOUS
    <3>1. q[2] \in Some /\ q[1] + 1 \in 1 .. len
      BY <1>1, <3>0
    <3>2. QED
      BY <1>1, <1>2, <3>1
  <2> HIDE DEF Some
  <2>2. QED
    BY <2>1
<1>4. PICK f : Recurs(f, len - 1, Some, seqs[1], F)
  <2>1. len - 1 \in Nat /\ seqs[1] \in Some
    BY <1>1
  <2> HIDE DEF F, Some
  <2>2. QED
    BY <1>3, <2>1, Recursion
<1>5. /\ f \in [0 .. len - 1 -> Some] /\ f[0] = seqs[1]
      /\ \A n \in 1 .. len - 1 : f[n] = F[<<n, f[n - 1]>>]
  BY <1>4 DEF Recurs
<1>6. \A n \in 1 .. len - 1 : f[n] = f[n - 1] \o seqs[n + 1]
  <2> SUFFICES ASSUME NEW n \in 1 .. len - 1 PROVE f[n] = f[n - 1] \o seqs[n + 1]
    OBVIOUS
  <2> HIDE DEF Some
  <2>1. n - 1 \in 0 .. len - 1
    BY <1>1
  <2>2. f[n - 1] \in Some /\ f[n] = F[<<n, f[n - 1]>>]
    BY <1>5, <2>1
  <2>3. QED
    BY <2>2
<1> DEFINE g0 == [i \in 1 .. len |-> f[i - 1]]
<1>7. g0 = Step(g0)
  <2>1. ASSUME NEW i \in 1 .. len
        PROVE  f[i - 1] = IF i = 1 THEN seqs[i] ELSE g0[i - 1] \o seqs[i]
    <3>1. CASE i = 1
      BY <1>5, <3>1
    <3>2. CASE i # 1
      <4>1. i - 1 \in 1 .. len - 1 /\ i - 1 \in 1 .. len /\ (i - 1) + 1 = i
        BY <1>1, <3>2
      <4>2. f[i - 1] = f[(i - 1) - 1] \o seqs[i]
        BY <1>6, <4>1
      <4>3. g0[i - 1] = f[(i - 1) - 1]
        BY <4>1
      <4>4. QED
        BY <3>2, <4>2, <4>3
    <3>3. QED
      BY <3>1, <3>2
  <2>2. QED
    BY <2>1
<1> HIDE DEF g0
<1>8. flatten = Step(flatten)
  <2> HIDE DEF Step
  <2>1. QED
    BY <1>7
<1>9. FlattenSeq(seqs) = flatten[len]
  <2>1. Len(seqs) # 0
    BY <1>1
  <2>2. QED
    BY <2>1 DEF FlattenSeq
<1> HIDE DEF flatten
<1> DEFINE T == { n \in Nat : n + 1 <= len => flatten[n + 1] \in Some }
<1>10. 0 \in T
  <2>1. 1 \in 1 .. len
    BY <1>1
  <2>2. flatten[1] = seqs[1]
    BY <1>8, <2>1
  <2>3. QED
    BY <1>1, <2>1, <2>2
<1>11. ASSUME NEW n \in Nat, n \in T PROVE n + 1 \in T
  <2> SUFFICES ASSUME (n + 1) + 1 <= len PROVE flatten[(n + 1) + 1] \in Some
    OBVIOUS
  <2>1. (n + 1) + 1 \in 1 .. len /\ (n + 1) + 1 # 1 /\ ((n + 1) + 1) - 1 = n + 1 /\ flatten[n + 1] \in Some
    BY <1>1, <1>11
  <2>2. flatten[(n + 1) + 1] = flatten[n + 1] \o seqs[(n + 1) + 1]
    BY <1>8, <2>1
  <2> HIDE DEF Some
  <2>3. QED
    BY <1>1, <1>2, <2>1, <2>2
<1>12. len - 1 \in T
  <2> HIDE DEF T
  <2>1. len - 1 \in Nat
    BY <1>1
  <2>2. QED
    BY <1>10, <1>11, <2>1, SetInduction
<1>13. flatten[len] \in Some
  <2>1. (len - 1) + 1 = len /\ len <= len
    BY <1>1
  <2> HIDE DEF Some
  <2>2. QED
    BY <1>12, <2>1
<1>14. QED
  BY <1>9, <1>13

\* A report is of sessions of both protocols, so that there are latencies of each.
LEMMA LatenciesThere ==
  ASSUME Inv, pc = "done", NEW p \in ToSet(cfg.protocols), LabelOf(p) = p
  PROVE  LET all == AllLatencies(OfProtocol(results, p)) IN all \in Seq(Nat) /\ all # << >>
<1> DEFINE mine == OfProtocol(results, p)
           seqs == [i \in DOMAIN mine |-> mine[i].played.latencies]
<1>1. mine \in Seq(Sessions)
  BY OfProtocolOf DEF Inv, TypeOK
<1>2. Len(mine) # 0
  <2>1. Len(mine) = cfg.runs * cfg.clients * Cardinality(Past(p)) + FiledNow(p)
    BY DEF Inv, FiledOK
  <2>2. FiledNow(p) = 0 /\ Past(p) = Places(p)
    BY PastFinite DEF Inv, LoopsOK, FiledNow
  <2>3. IsFiniteSet(Places(p)) /\ Cardinality(Places(p)) \in Nat
    BY <2>2, PastFinite DEF Inv
  <2>4. Places(p) # {}
    <3>1. PICK k \in DOMAIN cfg.protocols : cfg.protocols[k] = p
      BY DEF ToSet
    <3>2. QED
      BY <3>1 DEF Places
  <2>5. Cardinality(Places(p)) # 0
    BY <2>3, <2>4, FS_EmptySet
  <2>6. cfg.runs \in Int /\ cfg.clients \in Int /\ cfg.runs >= 1 /\ cfg.clients >= 1
    BY DEF Inv, LoopsOK, TypeOK, IsConfig
  <2>7. ASSUME NEW a \in Nat \ {0}, NEW b \in Nat \ {0}, NEW c \in Nat \ {0} PROVE a * b * c + 0 # 0
    <3>1. a * b \in Nat \ {0}
      OBVIOUS
    <3>2. ASSUME NEW d \in Nat \ {0} PROVE d * c + 0 # 0
      OBVIOUS
    <3>3. QED
      BY <3>1, <3>2
  <2>8. cfg.runs \in Nat \ {0} /\ cfg.clients \in Nat \ {0} /\ Cardinality(Places(p)) \in Nat \ {0}
    BY <2>3, <2>5, <2>6
  <2>9. Len(mine) = cfg.runs * cfg.clients * Cardinality(Places(p)) + 0
    BY <2>1, <2>2
  <2>10. cfg.runs * cfg.clients * Cardinality(Places(p)) + 0 # 0
    BY <2>7, <2>8
  <2>11. QED
    BY <2>9, <2>10
<1>3. Len(mine) \in Nat /\ DOMAIN mine = 1 .. Len(mine) /\ \A i \in 1 .. Len(mine) : mine[i] \in Sessions
  BY <1>1, LenProperties, ElementOfSeq
<1>4. \A i \in 1 .. Len(mine) : mine[i].played.latencies \in Seq(Nat) \ {<< >>}
  BY <1>3 DEF Sessions, Outcomes
<1>5. seqs \in Seq(Seq(Nat) \ {<< >>}) /\ Len(seqs) = Len(mine)
  BY <1>3, <1>4
<1>6. seqs # << >>
  BY <1>2, <1>5, EmptySeq
<1>7. AllLatencies(mine) = FlattenSeq(seqs)
  BY DEF AllLatencies
<1> HIDE DEF seqs
<1>8. QED
  BY <1>5, <1>6, <1>7, FlattenTyped

\* The numbers of a report are what their names say: percentiles by their definition
\* (percentile.go:8), and U the pairs one protocol won of the other, ties for half
\* (statistics.go:113).
THEOREM Statistics == Spec => []StatisticsByDefinition
<1>1. Inv => StatisticsByDefinition
  <2> SUFFICES ASSUME Inv, pc = "done", report.enhanced # None PROVE StatisticsByDefinition
    BY DEF StatisticsByDefinition
  <2>1. HasBoth /\ report.enhanced = CompareEnhanced(results)
    BY DEF Inv, ReportOK
  <2>2. ASSUME NEW p \in {"tcp-h2", "quic-h3"}
        PROVE  LET all == AllLatencies(OfProtocol(results, p))
               IN  /\ IsPercentile(report.by[p].latency.p50, all, 50)
                   /\ IsPercentile(report.by[p].latency.p95, all, 95)
                   /\ IsPercentile(report.by[p].latency.p99, all, 99)
    <3> DEFINE all == AllLatencies(OfProtocol(results, p))
    <3>1. p \in ToSet(cfg.protocols) /\ LabelOf(p) = p
      BY <2>1 DEF HasBoth, LabelOf
    <3>2. all \in Seq(Nat) /\ all # << >>
      BY <3>1, LatenciesThere
    <3>3. report.by[p].latency = BuildPercentileSet(all)
      BY <3>1 DEF Inv, ReportOK, Aggregate
    <3> HIDE DEF all
    <3>4. /\ report.by[p].latency.p50 = Percentile(all, 50)
          /\ report.by[p].latency.p95 = Percentile(all, 95)
          /\ report.by[p].latency.p99 = Percentile(all, 99)
      BY <3>3 DEF BuildPercentileSet
    <3>5. \A k \in {50, 95, 99} : IsPercentile(Percentile(all, k), all, k)
      BY <3>2, PercentileIs
    <3>6. QED
      BY <3>4, <3>5 DEF all
  <2>3. ASSUME NEW key \in EnhancedKeys
        PROVE  LET tcp == Project(key, SessionsFor(results, "tcp-h2"))
                   quic == Project(key, SessionsFor(results, "quic-h3"))
               IN  report.enhanced.imps[key].test.twiceU
                     = Min({TwicePairsWon(tcp, quic), TwicePairsWon(quic, tcp)})
    <3> DEFINE tcp == Project(key, SessionsFor(results, "tcp-h2"))
               quic == Project(key, SessionsFor(results, "quic-h3"))
    <3>1. tcp \in Seq(Nat) /\ quic \in Seq(Nat)
      BY SessionsForTyped DEF Inv
    <3>2. report.enhanced.imps[key] = ComputeImprovement(tcp, quic, HigherIsGood(key))
      BY <2>1 DEF CompareEnhanced
    <3> HIDE DEF tcp, quic
    <3>3. report.enhanced.imps[key].test = MannWhitneyU(tcp, quic)
      BY <3>2 DEF ComputeImprovement
    <3>4. QED
      BY <3>1, <3>3, UIsPairs DEF tcp, quic
  <2>4. QED
    BY <2>2, <2>3 DEF StatisticsByDefinition
<1>2. QED
  BY <1>1, InitInv, StepInv, PTL DEF Spec
=============================================================================
