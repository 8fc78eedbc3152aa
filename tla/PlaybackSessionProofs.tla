----------------------- MODULE PlaybackSessionProofs -----------------------
(***************************************************************************)
(* The accounts of a playback session for every ABR algorithm, manifest,   *)
(* buffer configuration, edge cache (LRU or ARC) and sequence of fetches.  *)
(***************************************************************************)
EXTENDS PlaybackSession, CacheItemsProofs

\* What holds of the buffer and the clock in every state.
Inv == TypeOK /\ BufferBounds /\ TimeLedger

\* A batch is never empty and never goes past the end of the content.
LEMMA BatchSizeBounds ==
  ASSUME TypeOK, i < TotalSegments
  PROVE  BatchSize \in 1 .. TotalSegments - i
  BY DurationAssumption DEF TypeOK, BatchSize

\* Every batch takes some time.
LEMMA FetchTimesNat == FetchTimes \subseteq Nat \ {0}
<1>1. ASSUME NEW l \in Latencies, NEW S \in {{}, {HitLatency}} PROVE Max(S \cup {l}) \in Nat \ {0}
  <2>1. l \in Nat \ {0}
    BY LatencyAssumption
  <2>2. \E x \in S \cup {l} : \A y \in S \cup {l} : x >= y
    BY <2>1 DEF HitLatency
  <2>3. Max(S \cup {l}) \in S \cup {l}
    BY <2>2 DEF Max
  <2>4. QED
    BY <2>1, <2>3 DEF HitLatency
<1> DEFINE hitTimes == IF batch.hits = {} THEN {} ELSE {HitLatency}
<1>2. hitTimes \in {{}, {HitLatency}} /\ hitTimes \subseteq Nat \ {0}
  BY DEF HitLatency
<1>3. FetchTimes = IF Misses = << >> THEN hitTimes
                   ELSE { Max(hitTimes \cup {l}) : l \in Latencies }
  BY DEF FetchTimes
<1> HIDE DEF hitTimes
<1>4. \A l \in Latencies : Max(hitTimes \cup {l}) \in Nat \ {0}
  BY <1>1, <1>2
<1>5. QED
  BY <1>2, <1>3, <1>4

\* The initial state has empty accounts.
LEMMA InitInv == Init => Inv
<1> SUFFICES ASSUME Init PROVE Inv
  OBVIOUS
<1>1. i * SegmentDuration = 0
  BY DurationAssumption DEF Init
<1>2. TypeOK
  <2>1. playbackStarted \in BOOLEAN
    BY Zenon DEF Init
  <2>2. QED
    BY <2>1, DurationAssumption DEF Init, TypeOK
<1>3. BufferBounds
  BY DurationAssumption DEF Init, BufferBounds
<1>4. ~playbackStarted /\ buffer + dropped = i * SegmentDuration /\ rebufferDuration = 0
  BY <1>1 DEF Init
<1>5. QED
  BY <1>2, <1>3, <1>4 DEF Inv, TimeLedger

\* The accounts balance over one batch, whatever it took.
LEMMA BatchBalances ==
  ASSUME Inv, i < TotalSegments, NEW fetchTime \in Nat, AdvanceClock(fetchTime),
         i' = i + BatchSize
  PROVE  /\ wallClock' \in Nat /\ buffer' \in Nat /\ dropped' \in Nat
         /\ playbackStarted' \in BOOLEAN /\ i' \in 0 .. TotalSegments
         /\ startupLatency' \in Nat /\ rebufferCount' \in Nat /\ rebufferDuration' \in Nat
         /\ BufferBounds' /\ TimeLedger'
<1> DEFINE media == BatchSize * SegmentDuration
<1>1. BatchSize \in 1 .. TotalSegments - i /\ i \in Nat /\ TotalSegments \in Nat
  BY BatchSizeBounds, DurationAssumption DEF Inv, TypeOK
<1>2. media \in Nat /\ media >= SegmentDuration
  BY <1>1, DurationAssumption
<1>3. i' * SegmentDuration = i * SegmentDuration + media /\ i * SegmentDuration \in Nat
  BY <1>1, DurationAssumption
<1> DEFINE stalled == Stalled(fetchTime)
           drained == DrainedBuffer(fetchTime)
           filled == FilledBuffer(fetchTime)
           excess == Excess(fetchTime)
           stall == Stall(fetchTime)
<1>4. /\ stalled <=> playbackStarted /\ fetchTime >= buffer
      /\ stall = IF stalled THEN fetchTime - buffer ELSE 0
      /\ drained = IF stalled THEN 0 ELSE IF playbackStarted THEN buffer - fetchTime ELSE buffer
      /\ filled = drained + media
      /\ excess = IF filled > MaxBuffer THEN filled - MaxBuffer ELSE 0
  BY DEF Stalled, Stall, DrainedBuffer, FilledBuffer, Excess
<1>5. /\ buffer' = filled - excess
      /\ wallClock' = wallClock + fetchTime + stall + excess
      /\ rebufferCount' = IF stalled THEN rebufferCount + 1 ELSE rebufferCount
      /\ rebufferDuration' = rebufferDuration + stall
      /\ playbackStarted' = (playbackStarted \/ buffer' >= StartupThreshold)
      /\ startupLatency' = IF ~playbackStarted /\ buffer' >= StartupThreshold
                           THEN wallClock' ELSE startupLatency
      /\ dropped' = IF playbackStarted THEN dropped ELSE dropped + excess
  BY DEF AdvanceClock
<1> HIDE DEF media, stalled, drained, filled, excess, stall
<1>6. stall \in Nat /\ drained \in Nat /\ filled \in Nat /\ excess \in Nat
  BY <1>2, <1>4, DurationAssumption DEF Inv, TypeOK
<1>7. /\ wallClock' \in Nat /\ buffer' \in Nat /\ dropped' \in Nat
      /\ startupLatency' \in Nat /\ rebufferCount' \in Nat /\ rebufferDuration' \in Nat
  BY <1>4, <1>5, <1>6, DurationAssumption DEF Inv, TypeOK
<1>8. BufferBounds'
  BY <1>1, <1>2, <1>4, <1>5, <1>6, DurationAssumption DEF Inv, TypeOK, BufferBounds
<1> DEFINE before == i * SegmentDuration
           after == i' * SegmentDuration
<1>9. before \in Nat /\ after = before + media
  BY <1>3
<1>10. TimeLedger'
  <2>1. /\ wallClock \in Nat /\ buffer \in Nat /\ dropped \in Nat /\ playbackStarted \in BOOLEAN
        /\ startupLatency \in Nat /\ rebufferDuration \in Nat
        /\ playbackStarted =>
             wallClock - startupLatency + buffer + dropped = before + 2 * rebufferDuration
        /\ ~playbackStarted => buffer + dropped = before /\ rebufferDuration = 0
    BY DEF Inv, TypeOK, TimeLedger
  <2> HIDE DEF before, after
  <2>2. CASE ~playbackStarted
    <3>1. ~stalled /\ stall = 0 /\ drained = buffer /\ rebufferDuration' = 0
      BY <1>4, <1>5, <2>1, <2>2
    <3>2. buffer' + dropped' = after
      BY <1>2, <1>4, <1>5, <1>6, <1>9, <2>1, <2>2, <3>1
    <3>3. playbackStarted' => startupLatency' = wallClock'
      BY <1>5, <2>2
    <3>4. QED
      BY <1>7, <3>1, <3>2, <3>3 DEF TimeLedger, after
  <2>3. CASE playbackStarted
    <3>1. playbackStarted' /\ startupLatency' = startupLatency /\ dropped' = dropped
      BY <1>5, <2>3
    <3>2. wallClock' - startupLatency + buffer' + dropped = after + 2 * rebufferDuration'
      BY <1>2, <1>4, <1>5, <1>6, <1>9, <2>1, <2>3
    <3>3. QED
      BY <3>1, <3>2 DEF TimeLedger, after
  <2>4. QED
    BY <2>1, <2>2, <2>3
<1>11. QED
  BY <1>1, <1>5, <1>7, <1>8, <1>10 DEF Inv, TypeOK

\* Every step keeps the accounts.
LEMMA StepInv == Inv /\ [Next]_vars => Inv'
<1> SUFFICES ASSUME Inv, [Next]_vars PROVE Inv'
  OBVIOUS
<1> USE DEF session, clockVars
<1>1. ASSUME NEW e \in Edges, NEW name \in Contents, NEW hs \in HandshakeTimes,
             Handshake(e, name, hs)
      PROVE  Inv'
  <2>1. i' * SegmentDuration = 0 /\ hs \in Nat
    BY <1>1, DurationAssumption, LatencyAssumption DEF Handshake
  <2>2. TypeOK'
    <3>1. playbackStarted' \in BOOLEAN
      BY <1>1, Zenon DEF Handshake
    <3>2. QED
      BY <1>1, <2>1, <3>1, DurationAssumption DEF Handshake, Inv, TypeOK
  <2>3. BufferBounds'
    BY <1>1, DurationAssumption DEF Handshake, BufferBounds
  <2>4. ~playbackStarted' /\ buffer' + dropped' = i' * SegmentDuration /\ rebufferDuration' = 0
    BY <1>1, <2>1 DEF Handshake
  <2>5. QED
    BY <2>2, <2>3, <2>4 DEF Inv, TimeLedger
<1>2. CASE SelectBatch
  BY <1>2 DEF SelectBatch, Inv, TypeOK, BufferBounds, TimeLedger
<1>3. CASE ShieldHit
  BY <1>3 DEF ShieldHit, Inv, TypeOK, BufferBounds, TimeLedger
<1>4. CASE ShieldMiss
  BY <1>4 DEF ShieldMiss, Inv, TypeOK, BufferBounds, TimeLedger
<1>5. CASE FetchBatch
  <2>1. PICK fetchTime \in FetchTimes : AdvanceClock(fetchTime)
    BY <1>5 DEF FetchBatch
  <2>2. fetchTime \in Nat /\ i < TotalSegments /\ i' = i + BatchSize
    BY <1>5, FetchTimesNat DEF FetchBatch, Inv, TypeOK
  <2>3. /\ wallClock' \in Nat /\ buffer' \in Nat /\ dropped' \in Nat
        /\ playbackStarted' \in BOOLEAN /\ i' \in 0 .. TotalSegments
        /\ startupLatency' \in Nat /\ rebufferCount' \in Nat /\ rebufferDuration' \in Nat
        /\ BufferBounds' /\ TimeLedger'
    BY <2>1, <2>2, BatchBalances
  <2>4. QED
    BY <1>5, <2>3 DEF FetchBatch, Inv, TypeOK
<1>6. CASE Finish
  BY <1>6 DEF Finish, Inv, TypeOK, BufferBounds, TimeLedger
<1>7. CASE Fail
  <2>1. pc' = "failed" /\ UNCHANGED <<session, clockVars>>
    BY <1>7 DEF Fail, HandshakeFails, ShieldFails, FetchFails
  <2>2. QED
    BY <2>1 DEF Inv, TypeOK, BufferBounds, TimeLedger, session, clockVars
<1>8. CASE UNCHANGED vars
  BY <1>8 DEF vars, Inv, TypeOK, BufferBounds, TimeLedger
<1>9. QED
  BY <1>1, <1>2, <1>3, <1>4, <1>5, <1>6, <1>7, <1>8 DEF Next, Step

\* The accounts hold throughout.
LEMMA Invariance == Spec => []Inv
  BY InitInv, StepInv, PTL DEF Spec

-----------------------------------------------------------------------------
\* The counters and durations of a session are naturals in every run.
THEOREM SessionTypeCorrect == Spec => []TypeOK
<1>1. Inv => TypeOK
  BY DEF Inv
<1>2. QED
  BY Invariance, <1>1, PTL

\* For every configuration and every fetch time, the buffer stays under its cap
\* and holds a segment, or the cap, as soon as the first batch is in.
THEOREM BufferStaysInBounds == Spec => []BufferBounds
<1>1. Inv => BufferBounds
  BY DEF Inv
<1>2. QED
  BY Invariance, <1>1, PTL

\* For every ABR algorithm and every fetch time, no media is lost or invented, and
\* the reported time is the media played plus twice the reported stalls.
THEOREM LedgerBalances == Spec => []TimeLedger
<1>1. Inv => TimeLedger
  BY DEF Inv
<1>2. QED
  BY Invariance, <1>1, PTL
-----------------------------------------------------------------------------
\* The ladder.

\* A finite set of naturals is bounded.
LEMMA FiniteBounded ==
  ASSUME NEW S, S \subseteq Nat, IsFiniteSet(S)
  PROVE  \E n \in Nat : \A x \in S : x <= n
<1> DEFINE Bounded(R) == \E n \in Nat : \A x \in R : x <= n
           T == { n \in Nat : \A R \in SUBSET Nat : IsFiniteSet(R) /\ Cardinality(R) = n => Bounded(R) }
<1>1. 0 \in T
  <2> SUFFICES ASSUME NEW R \in SUBSET Nat, IsFiniteSet(R), Cardinality(R) = 0 PROVE Bounded(R)
    OBVIOUS
  <2>1. R = {}
    BY FS_EmptySet
  <2>2. QED
    BY <2>1
<1>2. ASSUME NEW n \in Nat, n \in T PROVE n + 1 \in T
  <2> SUFFICES ASSUME NEW R \in SUBSET Nat, IsFiniteSet(R), Cardinality(R) = n + 1 PROVE Bounded(R)
    OBVIOUS
  <2>1. R # {}
    BY FS_EmptySet
  <2>2. PICK x : x \in R
    BY <2>1
  <2>3. IsFiniteSet(R \ {x}) /\ Cardinality(R \ {x}) = n
    <3> HIDE DEF T
    <3>1. IsFiniteSet(R \ {x}) /\ Cardinality(R \ {x}) = Cardinality(R) - 1
      BY <2>2, FS_RemoveElement
    <3>2. QED
      BY <3>1
  <2>4. PICK m \in Nat : \A y \in R \ {x} : y <= m
    BY <1>2, <2>3
  <2>5. \A y \in R : y <= m + x
    BY <2>2, <2>4
  <2>6. m + x \in Nat
    BY <2>2, <2>4
  <2>7. QED
    BY <2>5, <2>6
<1>3. Nat \subseteq T
  <2> HIDE DEF T
  <2>1. QED
    BY <1>1, <1>2, SetInduction
<1>4. Cardinality(S) \in Nat
  BY FS_CardinalityType
<1>5. Cardinality(S) \in T /\ S \in SUBSET Nat
  <2> HIDE DEF T
  <2>1. QED
    BY <1>3, <1>4
<1>6. QED
  BY <1>5

\* What is selected is on the ladder and, above its lowest bitrate, no more than asked
\* for; a bitrate of the ladder selects itself.
LEMMA OnLadder ==
  /\ \A x : RepresentationForBitrate(Ladder, x) \in Ladder
  /\ \A b \in Ladder : RepresentationForBitrate(Ladder, b) = b
  /\ LowestBitrate(Ladder) \in Ladder /\ \A b \in Ladder : LowestBitrate(Ladder) <= b
  /\ \A x : RepresentationForBitrate(Ladder, x) # LowestBitrate(Ladder)
           => RepresentationForBitrate(Ladder, x) <= x
<1> DEFINE upTo(x) == { b \in Ladder : b <= x } \cup {Min(Ladder)}
<1>1. Ladder \subseteq Nat /\ Ladder # {} /\ IsFiniteSet(Ladder)
  BY ManifestAssumption
<1>2. Min(Ladder) \in Ladder /\ \A b \in Ladder : Min(Ladder) <= b
  <2>1. \E x \in Ladder : \A y \in Ladder : x <= y
    BY <1>1, LeastNatural
  <2>2. QED
    BY <2>1 DEF Min
<1>3. PICK n \in Nat : \A b \in Ladder : b <= n
  BY <1>1, FiniteBounded
<1>4. ASSUME NEW x PROVE upTo(x) \subseteq Ladder /\ upTo(x) # {}
  BY <1>2
<1>5. ASSUME NEW x PROVE RepresentationForBitrate(Ladder, x) = Max(upTo(x))
  BY DEF RepresentationForBitrate, ClosestBitrate, LowestBitrate
<1>6. ASSUME NEW b \in Ladder PROVE b \in upTo(b) /\ \A y \in upTo(b) : y <= b
  BY <1>1, <1>2
<1> DEFINE top(x) == Max(upTo(x))
<1>7. ASSUME NEW x PROVE top(x) \in Ladder /\ top(x) \in upTo(x)
  <2> HIDE DEF upTo
  <2>1. QED
    BY <1>1, <1>3, <1>4, MaxExists
<1> HIDE DEF top
<1>8. ASSUME NEW x, top(x) # Min(Ladder) PROVE top(x) <= x
  BY <1>7, <1>8
<1> USE DEF top
<1> HIDE DEF upTo
<1>9. ASSUME NEW b \in Ladder PROVE Max(upTo(b)) = b
  BY <1>1, <1>4, <1>6, MaxIs
<1>10. QED
  BY <1>2, <1>5, <1>7, <1>8, <1>9 DEF LowestBitrate

\* Every finite set of naturals has an element with n others below it, for any n that
\* leaves room for it.
LEMMA RankExists ==
  ASSUME NEW S, S \subseteq Nat, IsFiniteSet(S), NEW n \in 0 .. Cardinality(S) - 1
  PROVE  \E b \in S : Cardinality({ c \in S : c < b }) = n
<1> DEFINE Ranked(R) == \A m \in 0 .. Cardinality(R) - 1 :
                          \E b \in R : Cardinality({ c \in R : c < b }) = m
           T == { k \in Nat : \A R \in SUBSET Nat : IsFiniteSet(R) /\ Cardinality(R) = k => Ranked(R) }
<1>1. 0 \in T
  <2>1. 0 .. 0 - 1 = {}
    OBVIOUS
  <2>2. QED
    BY <2>1
<1>2. ASSUME NEW k \in Nat, k \in T PROVE k + 1 \in T
  <2> SUFFICES ASSUME NEW R \in SUBSET Nat, IsFiniteSet(R), Cardinality(R) = k + 1,
                      NEW m \in 0 .. k
               PROVE  \E b \in R : Cardinality({ c \in R : c < b }) = m
    BY <1>2
  <2>1. R # {}
    BY FS_EmptySet
  <2>2. PICK u \in Nat : \A x \in R : x <= u
    BY FiniteBounded
  <2>3. Max(R) \in R /\ \A x \in R : x <= Max(R)
    BY <2>1, <2>2, MaxExists
  <2> DEFINE top == Max(R)
             Q == R \ {top}
  <2> HIDE DEF top
  <2>4. top \in R /\ top \in Nat /\ \A x \in R : x \in Nat /\ x <= top
    BY <2>3 DEF top
  <2>5. IsFiniteSet(Q) /\ Cardinality(Q) = k
    <3>1. IsFiniteSet(Q) /\ Cardinality(Q) = Cardinality(R) - 1
      BY <2>4, FS_RemoveElement
    <3>2. QED
      BY <3>1
  <2>6. CASE m = k
    <3>1. { c \in R : c < top } = Q
      <4>1. \A c \in R : c < top <=> c # top
        BY <2>4
      <4> HIDE DEF top
      <4>2. QED
        BY <4>1
    <3>2. QED
      BY <2>4, <2>5, <2>6, <3>1
  <2>7. CASE m # k
    <3>1. m \in 0 .. Cardinality(Q) - 1
      BY <2>5, <2>7
    <3>2. Ranked(Q)
      <4>1. Q \in SUBSET Nat
        OBVIOUS
      <4> HIDE DEF Q, Ranked
      <4>2. QED
        BY <1>2, <2>5, <4>1
    <3>3. PICK b \in Q : Cardinality({ c \in Q : c < b }) = m
      BY <3>1, <3>2
    <3>4. { c \in R : c < b } = { c \in Q : c < b }
      BY <2>4
    <3>5. QED
      BY <3>3, <3>4
  <2>8. QED
    BY <2>6, <2>7
<1>3. Nat \subseteq T
  <2> HIDE DEF T
  <2>1. QED
    BY <1>1, <1>2, SetInduction
<1>4. Cardinality(S) \in T /\ S \in SUBSET Nat
  <2>1. Cardinality(S) \in Nat
    BY FS_CardinalityType
  <2> HIDE DEF T
  <2>2. QED
    BY <1>3, <2>1
<1>5. QED
  BY <1>4

-----------------------------------------------------------------------------

-----------------------------------------------------------------------------
\* The caches between the calls of a loop over cache.Put.
LEMMA PutAllUnfolds ==
  ASSUME NEW c, NEW items, Len(items) \in Nat
  PROVE  \E f : /\ f[0] = c /\ PutAll(c, items) = f[Len(items)]
                /\ \A n \in 1 .. Len(items) : f[n] = CachePut(cacheType, f[n - 1], items[n])
<1> DEFINE len == Len(items)
           UpTo(n, f) == /\ f = [k \in 0 .. n |-> f[k]] /\ f[0] = c
                         /\ \A k \in 1 .. n : f[k] = CachePut(cacheType, f[k - 1], items[k])
           T == { n \in Nat : \E f : UpTo(n, f) }
           Loop(g) == [n \in 0 .. len |-> IF n = 0 THEN c ELSE CachePut(cacheType, g[n - 1], items[n])]
           after == CHOOSE g : g = Loop(g)
<1>1. 0 \in T
  <2>1. UpTo(0, [k \in 0 .. 0 |-> c])
    OBVIOUS
  <2>2. QED
    BY <2>1
<1>2. ASSUME NEW n \in Nat, n \in T PROVE n + 1 \in T
  <2>1. PICK f : UpTo(n, f)
    BY <1>2
  <2> DEFINE next == CachePut(cacheType, f[n], items[n + 1])
             g == [k \in 0 .. n + 1 |-> IF k <= n THEN f[k] ELSE next]
  <2>2. g = [k \in 0 .. n + 1 |-> g[k]]
    OBVIOUS
  <2>3. g[0] = c /\ (\A k \in 0 .. n : g[k] = f[k]) /\ g[n + 1] = next
    BY <2>1
  <2> HIDE DEF g
  <2>4. ASSUME NEW k \in 1 .. n + 1 PROVE g[k] = CachePut(cacheType, g[k - 1], items[k])
    <3>1. CASE k = n + 1
      <4>1. k - 1 = n /\ n \in 0 .. n
        BY <3>1
      <4>2. QED
        BY <2>3, <3>1, <4>1
    <3>2. CASE k # n + 1
      <4>1. k \in 1 .. n /\ k \in 0 .. n /\ k - 1 \in 0 .. n
        BY <3>2
      <4>2. QED
        BY <2>1, <2>3, <4>1
    <3>3. QED
      BY <3>1, <3>2
  <2>5. UpTo(n + 1, g)
    BY <2>2, <2>3, <2>4
  <2> HIDE DEF UpTo
  <2>6. QED
    BY <2>5
<1>3. PICK f : UpTo(len, f)
  <2>1. len \in T
    <3> HIDE DEF T
    <3>1. QED
      BY <1>1, <1>2, SetInduction
  <2>2. QED
    BY <2>1
<1>4. f = Loop(f)
  <2>1. \A n \in 0 .. len : f[n] = IF n = 0 THEN c ELSE CachePut(cacheType, f[n - 1], items[n])
    BY <1>3
  <2>2. QED
    BY <1>3, <2>1
<1>5. after = Loop(after)
  <2> HIDE DEF Loop
  <2>1. QED
    BY <1>4
<1>6. PutAll(c, items) = after[len]
  BY DEF PutAll
<1> HIDE DEF after
<1>7. after[0] = c /\ \A n \in 1 .. len : after[n] = CachePut(cacheType, after[n - 1], items[n])
  BY <1>5
<1>8. QED
  BY <1>6, <1>7

\* The caches between the calls of a loop over cache.Get.
LEMMA GetAllUnfolds ==
  ASSUME NEW c, NEW now, NEW keys, Len(keys) \in Nat
  PROVE  \E f : /\ f[0] = c /\ GetAll(c, keys, now) = f[Len(keys)]
                /\ \A n \in 1 .. Len(keys) : f[n] = CacheGet(cacheType, f[n - 1], keys[n], now)
<1> DEFINE len == Len(keys)
           UpTo(n, f) == /\ f = [k \in 0 .. n |-> f[k]] /\ f[0] = c
                         /\ \A k \in 1 .. n : f[k] = CacheGet(cacheType, f[k - 1], keys[k], now)
           T == { n \in Nat : \E f : UpTo(n, f) }
           Loop(g) == [n \in 0 .. len |-> IF n = 0 THEN c ELSE CacheGet(cacheType, g[n - 1], keys[n], now)]
           after == CHOOSE g : g = Loop(g)
<1>1. 0 \in T
  <2>1. UpTo(0, [k \in 0 .. 0 |-> c])
    OBVIOUS
  <2>2. QED
    BY <2>1
<1>2. ASSUME NEW n \in Nat, n \in T PROVE n + 1 \in T
  <2>1. PICK f : UpTo(n, f)
    BY <1>2
  <2> DEFINE next == CacheGet(cacheType, f[n], keys[n + 1], now)
             g == [k \in 0 .. n + 1 |-> IF k <= n THEN f[k] ELSE next]
  <2>2. g = [k \in 0 .. n + 1 |-> g[k]]
    OBVIOUS
  <2>3. g[0] = c /\ (\A k \in 0 .. n : g[k] = f[k]) /\ g[n + 1] = next
    BY <2>1
  <2> HIDE DEF g
  <2>4. ASSUME NEW k \in 1 .. n + 1 PROVE g[k] = CacheGet(cacheType, g[k - 1], keys[k], now)
    <3>1. CASE k = n + 1
      <4>1. k - 1 = n /\ n \in 0 .. n
        BY <3>1
      <4>2. QED
        BY <2>3, <3>1, <4>1
    <3>2. CASE k # n + 1
      <4>1. k \in 1 .. n /\ k \in 0 .. n /\ k - 1 \in 0 .. n
        BY <3>2
      <4>2. QED
        BY <2>1, <2>3, <4>1
    <3>3. QED
      BY <3>1, <3>2
  <2>5. UpTo(n + 1, g)
    BY <2>2, <2>3, <2>4
  <2> HIDE DEF UpTo
  <2>6. QED
    BY <2>5
<1>3. PICK f : UpTo(len, f)
  <2>1. len \in T
    <3> HIDE DEF T
    <3>1. QED
      BY <1>1, <1>2, SetInduction
  <2>2. QED
    BY <2>1
<1>4. f = Loop(f)
  <2>1. \A n \in 0 .. len : f[n] = IF n = 0 THEN c ELSE CacheGet(cacheType, f[n - 1], keys[n], now)
    BY <1>3
  <2>2. QED
    BY <1>3, <2>1
<1>5. after = Loop(after)
  <2> HIDE DEF Loop
  <2>1. QED
    BY <1>4
<1>6. GetAll(c, keys, now) = after[len]
  BY DEF GetAll
<1> HIDE DEF after
<1>7. after[0] = c /\ \A n \in 1 .. len : after[n] = CacheGet(cacheType, after[n - 1], keys[n], now)
  BY <1>5
<1>8. QED
  BY <1>6, <1>7

-----------------------------------------------------------------------------
\* A loop over cache.Get for different keys counts what was not there when it began,
\* keeps what was, and brings in nothing.
LEMMA GetAllCounts ==
  ASSUME NEW w, World(w), NEW c, CacheSound(cacheType, w, c), NEW now,
         NEW keys, Len(keys) \in Nat, \A k \in 1 .. Len(keys) : keys[k] \in w.keys,
         \A k, l \in 1 .. Len(keys) : keys[k] = keys[l] => k = l
  PROVE  LET d == GetAll(c, keys, now)
             held == CachedKeys(cacheType, d)
             Hit(k) == CacheHit(cacheType, c, keys[k], now)
         IN  /\ CacheSound(cacheType, w, d) /\ d.evictions = c.evictions
             /\ d.misses = c.misses + Cardinality({ k \in 1 .. Len(keys) : ~Hit(k) })
             /\ held \subseteq CachedKeys(cacheType, c)
             /\ \A k \in 1 .. Len(keys) : Hit(k) => keys[k] \in held
             /\ \A key \in CachedKeys(cacheType, c) :
                  (\A k \in 1 .. Len(keys) : keys[k] # key) => key \in held
<1> DEFINE len == Len(keys)
           Held(d) == CachedKeys(cacheType, d)
           HitOf(d, k) == CacheHit(cacheType, d, keys[k], now)
<1>1. PICK f : /\ f[0] = c /\ GetAll(c, keys, now) = f[len]
               /\ \A n \in 1 .. len : f[n] = CacheGet(cacheType, f[n - 1], keys[n], now)
  <2>1. \E f : /\ f[0] = c /\ GetAll(c, keys, now) = f[Len(keys)]
               /\ \A n \in 1 .. Len(keys) : f[n] = CacheGet(cacheType, f[n - 1], keys[n], now)
    BY GetAllUnfolds
  <2>2. QED
    BY <2>1
<1> DEFINE Missed(n) == { k \in 1 .. n : ~HitOf(c, k) }
           Done(d, n) ==
             /\ CacheSound(cacheType, w, d) /\ d.evictions = c.evictions
             /\ d.misses = c.misses + Cardinality(Missed(n))
             /\ Held(d) \subseteq Held(c)
             /\ \A k \in 1 .. n : HitOf(c, k) => keys[k] \in Held(d)
             /\ \A key \in Held(c) : (\A k \in 1 .. n : keys[k] # key) => key \in Held(d)
             /\ \A k \in n + 1 .. len : HitOf(d, k) <=> HitOf(c, k)
           T == { n \in Nat : n <= len => Done(f[n], n) }
<1>2. c.misses \in Nat
  BY CacheCounters
<1>3. 0 \in T
  <2>1. Missed(0) = {} /\ Cardinality({}) = 0
    BY FS_EmptySet
  <2>2. c.misses = c.misses + Cardinality(Missed(0))
    BY <1>2, <2>1
  <2>3. QED
    BY <1>1, <2>2
<1>4. ASSUME NEW n \in Nat, n \in T PROVE n + 1 \in T
  <2> SUFFICES ASSUME n + 1 <= len PROVE Done(f[n + 1], n + 1)
    OBVIOUS
  <2> DEFINE key == keys[n + 1]
             d == f[n]
             e == f[n + 1]
  <2>1. /\ n + 1 \in 1 .. len /\ (n + 1) - 1 = n /\ n + 1 \in n + 1 .. len
        /\ \A k \in 1 .. n : k \in 1 .. len /\ k # n + 1
        /\ \A k \in (n + 1) + 1 .. len : k \in n + 1 .. len /\ k \in 1 .. len /\ k # n + 1
        /\ \A k \in 1 .. n + 1 : k \in 1 .. n \/ k = n + 1
    BY <1>4
  <2>2. Done(d, n)
    BY <1>4, <2>1
  <2>3. e = CacheGet(cacheType, d, key, now)
    BY <1>1, <2>1
  <2>4. HitOf(d, n + 1) <=> HitOf(c, n + 1)
    BY <2>1, <2>2
  <2>5. key \in w.keys
    BY <2>1
  <2> HIDE DEF d, e, Missed
  <2>6. /\ CacheSound(cacheType, w, e) /\ e.evictions = d.evictions
        /\ e.misses = IF HitOf(d, n + 1) THEN d.misses ELSE d.misses + 1
        /\ Held(e) \subseteq Held(d)
        /\ HitOf(d, n + 1) => key \in Held(e)
        /\ \A k : k # key => (k \in Held(e) <=> k \in Held(d))
        /\ \A k \in w.keys \ {key} :
             CacheHit(cacheType, e, k, now) <=> CacheHit(cacheType, d, k, now)
    <3>1. CacheSound(cacheType, w, d)
      BY <2>2
    <3> HIDE DEF key
    <3>2. HitOf(d, n + 1) = CacheHit(cacheType, d, key, now)
      BY DEF key
    <3> DEFINE g == CacheGet(cacheType, d, key, now)
    <3>3. /\ CacheSound(cacheType, w, g) /\ g.evictions = d.evictions
          /\ g.misses = IF CacheHit(cacheType, d, key, now) THEN d.misses ELSE d.misses + 1
          /\ CachedKeys(cacheType, g) \subseteq CachedKeys(cacheType, d)
          /\ CacheHit(cacheType, d, key, now) => key \in CachedKeys(cacheType, g)
          /\ \A k : k # key => (k \in CachedKeys(cacheType, g) <=> k \in CachedKeys(cacheType, d))
          /\ \A k \in w.keys \ {key} :
               CacheHit(cacheType, g, k, now) <=> CacheHit(cacheType, d, k, now)
      BY <2>5, <3>1, CacheGetEffect, Zenon
    <3>4. QED
      BY <2>3, <3>2, <3>3, Zenon
  <2>7. \A k \in 1 .. len : k # n + 1 => keys[k] # key /\ keys[k] \in w.keys
    BY <2>1
  <2> HIDE DEF key
  <2>8. e.misses = c.misses + Cardinality(Missed(n + 1))
    <3>1. IsFiniteSet(Missed(n)) /\ n + 1 \notin Missed(n)
      <4>0. IsFiniteSet(1 .. n)
        BY FS_Interval
      <4>1. IsFiniteSet(1 .. n) /\ Missed(n) \in SUBSET (1 .. n)
        BY <4>0 DEF Missed
      <4>2. IsFiniteSet(Missed(n))
        BY <4>1, FS_Subset
      <4>3. QED
        BY <2>1, <4>1, <4>2
    <3>2. Missed(n + 1) = IF HitOf(c, n + 1) THEN Missed(n) ELSE Missed(n) \cup {n + 1}
      <4>1. \A k : k \in 1 .. n + 1 <=> k \in 1 .. n \/ k = n + 1
        BY <1>4
      <4> HIDE DEF HitOf
      <4>2. QED
        BY <4>1 DEF Missed
    <3>3. Cardinality(Missed(n) \cup {n + 1}) = Cardinality(Missed(n)) + 1 /\ Cardinality(Missed(n)) \in Nat
      BY <3>1, FS_AddElement, FS_CardinalityType
    <3> HIDE DEF HitOf
    <3>4. QED
      BY <1>2, <2>2, <2>4, <2>6, <3>2, <3>3
  <2>9. ASSUME NEW k \in 1 .. n + 1, HitOf(c, k) PROVE keys[k] \in Held(e)
    <3>1. CASE k = n + 1
      BY <2>4, <2>6, <2>9, <3>1 DEF key
    <3>2. CASE k # n + 1
      <4>1. k \in 1 .. n /\ k \in 1 .. len /\ keys[k] # key
        BY <2>1, <2>7, <3>2
      <4>2. keys[k] \in Held(d)
        BY <2>2, <2>9, <4>1
      <4>3. QED
        BY <2>6, <4>1, <4>2
    <3>3. QED
      BY <3>1, <3>2
  <2>10. ASSUME NEW x \in Held(c), \A k \in 1 .. n + 1 : keys[k] # x PROVE x \in Held(e)
    <3>1. x # key /\ \A k \in 1 .. n : keys[k] # x
      <4>1. n + 1 \in 1 .. n + 1 /\ \A k \in 1 .. n : k \in 1 .. n + 1
        BY <1>4
      <4>2. QED
        BY <2>10, <4>1 DEF key
    <3>2. x \in Held(d)
      BY <2>2, <3>1
    <3>3. QED
      BY <2>6, <3>1, <3>2
  <2>11. ASSUME NEW k \in (n + 1) + 1 .. len PROVE HitOf(e, k) <=> HitOf(c, k)
    <3>1. keys[k] # key /\ keys[k] \in w.keys /\ k \in n + 1 .. len
      BY <2>1, <2>7
    <3>2. HitOf(e, k) <=> HitOf(d, k)
      BY <2>6, <3>1
    <3>3. QED
      BY <2>2, <3>1, <3>2
  <2>12. Done(e, n + 1)
    <3> HIDE DEF HitOf, Held
    <3>1. QED
      BY <2>2, <2>6, <2>8, <2>9, <2>10, <2>11
  <2>13. QED
    BY <2>12 DEF e
<1>5. len \in T
  <2> HIDE DEF T
  <2>1. QED
    BY <1>3, <1>4, SetInduction
<1>6. Done(f[len], len)
  BY <1>5
<1>7. QED
  BY <1>1, <1>6

\* A loop over cache.Put counts no miss, adds no keys but those of its items and, unless
\* it evicts, keeps what was there and takes in every item not larger than the cache.
LEMMA PutAllCounts ==
  ASSUME NEW w, World(w), NEW c, CacheSound(cacheType, w, c),
         NEW items, Len(items) \in Nat, \A k \in 1 .. Len(items) : items[k] \in w.items
  PROVE  LET d == PutAll(c, items)
             held == CachedKeys(cacheType, d)
         IN  /\ CacheSound(cacheType, w, d) /\ d.misses = c.misses /\ d.evictions >= c.evictions
             /\ \A key \in held \ CachedKeys(cacheType, c) :
                  \E k \in 1 .. Len(items) : key = items[k].key
             /\ d.evictions = c.evictions =>
                  /\ CachedKeys(cacheType, c) \subseteq held
                  /\ \A k \in 1 .. Len(items) : items[k].size > w.max \/ items[k].key \in held
<1> DEFINE len == Len(items)
           Held(d) == CachedKeys(cacheType, d)
<1>1. PICK f : /\ f[0] = c /\ PutAll(c, items) = f[len]
               /\ \A n \in 1 .. len : f[n] = CachePut(cacheType, f[n - 1], items[n])
  <2>1. \E f : /\ f[0] = c /\ PutAll(c, items) = f[Len(items)]
               /\ \A n \in 1 .. Len(items) : f[n] = CachePut(cacheType, f[n - 1], items[n])
    BY PutAllUnfolds
  <2>2. QED
    BY <2>1
<1> DEFINE Done(d, n) ==
             /\ CacheSound(cacheType, w, d) /\ d.misses = c.misses /\ d.evictions >= c.evictions
             /\ \A key \in Held(d) \ Held(c) : \E k \in 1 .. n : key = items[k].key
             /\ d.evictions = c.evictions =>
                  /\ Held(c) \subseteq Held(d)
                  /\ \A k \in 1 .. n : items[k].size > w.max \/ items[k].key \in Held(d)
           T == { n \in Nat : n <= len => Done(f[n], n) }
<1>2. 0 \in T
  <2>1. c.evictions >= c.evictions
    BY CacheCounters
  <2>2. QED
    BY <1>1, <2>1
<1>3. ASSUME NEW n \in Nat, n \in T PROVE n + 1 \in T
  <2> SUFFICES ASSUME n + 1 <= len PROVE Done(f[n + 1], n + 1)
    OBVIOUS
  <2> DEFINE d == f[n]
             e == f[n + 1]
             item == items[n + 1]
  <2>1. /\ n + 1 \in 1 .. len /\ (n + 1) - 1 = n
        /\ \A k \in 1 .. n + 1 : k \in 1 .. n \/ k = n + 1
        /\ n + 1 \in 1 .. n + 1 /\ \A k \in 1 .. n : k \in 1 .. n + 1
    BY <1>3
  <2>2. Done(d, n)
    BY <1>3, <2>1
  <2>3. e = CachePut(cacheType, d, item) /\ item \in w.items
    BY <1>1, <2>1
  <2> HIDE DEF d, e, Held
  <2>4. /\ CacheSound(cacheType, w, e) /\ e.misses = d.misses /\ e.evictions >= d.evictions
        /\ Held(e) \subseteq Held(d) \cup {item.key}
        /\ e.evictions = d.evictions => /\ Held(d) \subseteq Held(e)
                                        /\ item.size > w.max \/ item.key \in Held(e)
    <3> HIDE DEF item
    <3>1. CacheSound(cacheType, w, d)
      BY <2>2
    <3> DEFINE g == CachePut(cacheType, d, item)
    <3>2. /\ CacheSound(cacheType, w, g) /\ g.misses = d.misses /\ g.evictions >= d.evictions
          /\ CachedKeys(cacheType, g) \subseteq CachedKeys(cacheType, d) \cup {item.key}
          /\ g.evictions = d.evictions =>
               /\ CachedKeys(cacheType, d) \subseteq CachedKeys(cacheType, g)
               /\ item.size > w.max \/ item.key \in CachedKeys(cacheType, g)
      BY <2>3, <3>1, CachePutEffect, Zenon
    <3>3. QED
      BY <2>3, <3>2, Zenon DEF Held
  <2>5. c.evictions \in Nat /\ d.evictions \in Nat /\ e.evictions \in Nat
    <3>1. CacheSound(cacheType, w, d) /\ CacheSound(cacheType, w, e)
      BY <2>2, <2>4
    <3>2. QED
      BY <3>1, CacheCounters
  <2>6. e.evictions >= c.evictions /\ (e.evictions = c.evictions => d.evictions = c.evictions)
    BY <2>2, <2>4, <2>5
  <2>7. ASSUME e.evictions = c.evictions, NEW k \in 1 .. n + 1, ~(items[k].size > w.max)
        PROVE  items[k].key \in Held(e)
    <3>1. CASE k = n + 1
      BY <2>2, <2>4, <2>6, <2>7, <3>1
    <3>2. CASE k \in 1 .. n
      BY <2>2, <2>4, <2>6, <2>7, <3>2
    <3>3. QED
      BY <2>1, <3>1, <3>2
  <2>8. ASSUME NEW key \in Held(e) \ Held(c) PROVE \E k \in 1 .. n + 1 : key = items[k].key
    <3>1. CASE key \in Held(d)
      BY <2>1, <2>2, <2>8, <3>1
    <3>2. CASE key \notin Held(d)
      BY <2>1, <2>4, <2>8, <3>2
    <3>3. QED
      BY <3>1, <3>2
  <2>9. Done(e, n + 1)
    BY <2>2, <2>4, <2>6, <2>7, <2>8
  <2>10. QED
    BY <2>9 DEF e
<1>4. len \in T
  <2> HIDE DEF T
  <2>1. QED
    BY <1>2, <1>3, SetInduction
<1>5. QED
  BY <1>1, <1>4

-----------------------------------------------------------------------------
\* The keys and items of the catalog, and the size of the edges' caches.
EdgeWorld == [keys |-> SegmentKeys, items |-> [key : SegmentKeys, size : Nat \ {0}, expiry : Nat],
              max |-> CacheBytes]

\* The caches of the edges are caches of the catalog, the batch under way is of the
\* ladder, and the log is a list of as many segments as were fetched.
CachesShaped ==
  /\ edgeCaches = [e \in Edges |-> edgeCaches[e]]
  /\ \A e \in Edges : CacheSound(cacheType, EdgeWorld, edgeCaches[e])
BatchShaped ==
  /\ batch = [rep |-> batch.rep, hits |-> batch.hits, asked |-> batch.asked,
              shieldHits |-> batch.shieldHits, upstream |-> batch.upstream]
  /\ pc \in {"shield", "fetch"} => batch.rep \in Ladder
LogShaped == Len(segments) = i /\ \E S : segments \in Seq(S)

\* The segments of the manifests make up that world.
LEMMA Catalog ==
  /\ World(EdgeWorld) /\ EdgeWorld.keys = SegmentKeys /\ EdgeWorld.max = CacheBytes
  /\ \A key \in SegmentKeys : \A expiry \in Nat :
       /\ ItemOf(key, expiry) \in EdgeWorld.items
       /\ ItemOf(key, expiry).key = key /\ ItemOf(key, expiry).size = SegmentSizes[key[3]][key[2]]
<1>1. World(EdgeWorld)
  BY CacheAssumption DEF World, EdgeWorld
<1>2. ASSUME NEW key \in SegmentKeys, NEW expiry \in Nat
      PROVE  ItemOf(key, expiry) \in [key : SegmentKeys, size : Nat \ {0}, expiry : Nat]
  <2>1. key[3] \in Ladder /\ key[2] \in 0 .. TotalSegments - 1
    BY DEF SegmentKeys
  <2>2. SegmentSizes[key[3]][key[2]] \in Nat \ {0}
    BY <2>1, ManifestAssumption
  <2>3. QED
    BY <2>2 DEF ItemOf
<1>3. QED
  BY <1>1, <1>2 DEF EdgeWorld, ItemOf

\* The keys of a batch are different keys of the catalog.
LEMMA BatchKeys ==
  ASSUME TypeOK, i < TotalSegments, NEW rep \in Ladder
  PROVE  /\ i \in Nat /\ BatchSize \in Nat /\ at \in Edges
         /\ \A n \in i .. i + BatchSize - 1 : Key(n, rep) \in SegmentKeys
         /\ \A n, m : Key(n, rep) = Key(m, rep) => n = m
<1>1. i \in Nat /\ BatchSize \in 1 .. TotalSegments - i /\ content \in Contents /\ at \in Edges
  BY BatchSizeBounds, DurationAssumption DEF TypeOK
<1>2. \A n \in i .. i + BatchSize - 1 : n \in 0 .. TotalSegments - 1
  BY <1>1, DurationAssumption
<1>3. QED
  BY <1>1, <1>2 DEF Key, SegmentKeys

\* The misses of a batch are segments of the batch.
LEMMA MissesKnown ==
  ASSUME TypeOK, i < TotalSegments
  PROVE  /\ Len(Misses) \in Nat /\ DOMAIN Misses = 1 .. Len(Misses)
         /\ \A k \in 1 .. Len(Misses) :
              Misses[k] \in i .. i + BatchSize - 1 /\ Misses[k] \notin batch.hits
<1> DEFINE missing == (i .. i + BatchSize - 1) \ batch.hits
<1>1. i \in Nat /\ BatchSize \in Nat
  BY BatchSizeBounds, DurationAssumption DEF TypeOK
<1>2. missing \subseteq Nat
  BY <1>1
<1>3. IsFiniteSet(missing)
  <2>1. IsFiniteSet(i .. i + BatchSize - 1)
    <3>1. i \in Int /\ i + BatchSize - 1 \in Int
      BY <1>1
    <3>2. QED
      BY <3>1, FS_Interval
  <2>2. missing \in SUBSET (i .. i + BatchSize - 1)
    OBVIOUS
  <2> HIDE DEF missing
  <2>3. QED
    BY <2>1, <2>2, FS_Subset
<1>4. Misses = Sorted(missing)
  BY DEF Misses
<1> HIDE DEF missing
<1>5. /\ Misses \in Seq(missing) /\ Len(Misses) = Cardinality(missing)
      /\ DOMAIN Misses = 1 .. Cardinality(missing)
  BY <1>2, <1>3, <1>4, SortedLists
<1>6. Len(Misses) \in Nat /\ \A k \in 1 .. Len(Misses) : Misses[k] \in missing
  BY <1>5, LenProperties, ElementOfSeq
<1>7. QED
  BY <1>5, <1>6 DEF missing

\* Counting the places of a batch is counting its segments.
LEMMA BatchCount ==
  ASSUME NEW b \in Nat, NEW size \in Nat, NEW S
  PROVE  /\ IsFiniteSet((b .. b + size - 1) \ S)
         /\ Cardinality({ k \in 1 .. size : b + k - 1 \notin S }) = Cardinality((b .. b + size - 1) \ S)
<1> DEFINE A == { k \in 1 .. size : b + k - 1 \notin S }
           B == (b .. b + size - 1) \ S
           g == [k \in A |-> b + k - 1]
<1>1. \A k \in 1 .. size : b + k - 1 \in b .. b + size - 1
  OBVIOUS
<1>2. \A n \in b .. b + size - 1 : n - b + 1 \in 1 .. size /\ b + (n - b + 1) - 1 = n
  OBVIOUS
<1>3. g \in [A -> B]
  BY <1>1
<1>4. \A k, l \in A : g[k] = g[l] => k = l
  OBVIOUS
<1>5. \A n \in B : \E k \in A : g[k] = n
  <2> SUFFICES ASSUME NEW n \in B PROVE \E k \in A : g[k] = n
    OBVIOUS
  <2>1. n - b + 1 \in A /\ b + (n - b + 1) - 1 = n
    BY <1>2
  <2>2. g[n - b + 1] = n
    BY <2>1
  <2>3. QED
    BY <2>1, <2>2
<1>6. IsFiniteSet(A)
  <2>1. IsFiniteSet(1 .. size) /\ A \in SUBSET (1 .. size)
    BY FS_Interval
  <2>2. QED
    BY <2>1, FS_Subset
<1> HIDE DEF A, B, g
<1>7. g \in Bijection(A, B)
  BY <1>3, <1>4, <1>5 DEF Bijection, Injection, Surjection, IsInjective
<1>8. IsFiniteSet(B) /\ Cardinality(B) = Cardinality(A)
  BY <1>6, <1>7, FS_Bijection DEF ExistsBijection
<1>9. QED
  BY <1>8 DEF A, B

\* The misses of a batch are all its segments that are no hits.
MissesListed ==
  /\ Len(Misses) = Cardinality((i .. i + BatchSize - 1) \ batch.hits)
  /\ \A n \in (i .. i + BatchSize - 1) \ batch.hits : \E k \in 1 .. Len(Misses) : Misses[k] = n
LEMMA MissesAll == TypeOK /\ i < TotalSegments => MissesListed
<1> SUFFICES ASSUME TypeOK, i < TotalSegments PROVE MissesListed
  OBVIOUS
<1> DEFINE missing == (i .. i + BatchSize - 1) \ batch.hits
<1>1. i \in Nat /\ BatchSize \in Nat
  BY BatchSizeBounds, DurationAssumption DEF TypeOK
<1>2. missing \subseteq Nat
  BY <1>1
<1>3. IsFiniteSet(missing)
  BY <1>1, BatchCount
<1>4. Misses = Sorted(missing)
  BY DEF Misses
<1> HIDE DEF missing
<1>5. /\ Len(Misses) = Cardinality(missing)
      /\ \A n \in missing : \E k \in 1 .. Cardinality(missing) : Misses[k] = n
  BY <1>2, <1>3, <1>4, SortedLists
<1>6. QED
  BY <1>5 DEF missing, MissesListed

\* What looking a batch up does to the cache of the edge.
LEMMA BatchLookedUp ==
  ASSUME TypeOK, i < TotalSegments, NEW rep \in Ladder, CacheOn,
         CacheSound(cacheType, EdgeWorld, Cache)
  PROVE  LET d == LookUpBatch(Cache, rep)
             held == CachedKeys(cacheType, d)
             missing == (i .. i + BatchSize - 1) \ CachedInBatch(rep)
         IN  /\ CacheSound(cacheType, EdgeWorld, d) /\ d.evictions = Cache.evictions
             /\ d.misses = Cache.misses + Cardinality(missing) /\ Cardinality(missing) \in Nat
             /\ held \subseteq CachedKeys(cacheType, Cache)
             /\ \A n \in CachedInBatch(rep) : Key(n, rep) \in held
             /\ \A key \in CachedKeys(cacheType, Cache) :
                  (\A n \in i .. i + BatchSize - 1 : Key(n, rep) # key) => key \in held
<1> DEFINE keys == [k \in 1 .. BatchSize |-> Key(i + k - 1, rep)]
           places == i .. i + BatchSize - 1
           cached == CachedInBatch(rep)
           missing == places \ cached
           c == Cache
           d == GetAll(c, keys, Now)
           Hit(k) == CacheHit(cacheType, c, keys[k], Now)
           held == CachedKeys(cacheType, d)
<1>1. /\ i \in Nat /\ BatchSize \in Nat
      /\ \A n \in i .. i + BatchSize - 1 : Key(n, rep) \in SegmentKeys
      /\ \A n, m : Key(n, rep) = Key(m, rep) => n = m
  BY BatchKeys
<1>2. LookUpBatch(Cache, rep) = d
  BY DEF LookUpBatch
<1>3. /\ \A k \in 1 .. BatchSize : i + k - 1 \in places /\ keys[k] = Key(i + k - 1, rep)
      /\ \A n \in places : n - i + 1 \in 1 .. BatchSize /\ i + (n - i + 1) - 1 = n
      /\ Len(keys) = BatchSize
  BY <1>1
<1>4. /\ \A k \in 1 .. BatchSize : keys[k] \in SegmentKeys
      /\ \A k, l \in 1 .. BatchSize : keys[k] = keys[l] => k = l
  <2>1. ASSUME NEW k \in 1 .. BatchSize, NEW l \in 1 .. BatchSize, keys[k] = keys[l] PROVE k = l
    <3>1. i + k - 1 = i + l - 1
      BY <1>1, <1>3, <2>1
    <3>2. QED
      BY <1>1, <3>1
  <2>2. QED
    BY <1>1, <1>3, <2>1
<1>5. \A k \in 1 .. BatchSize : Hit(k) <=> i + k - 1 \in cached
  BY <1>3 DEF CachedInBatch
<1> HIDE DEF keys
<1>6. /\ CacheSound(cacheType, EdgeWorld, d) /\ d.evictions = c.evictions
      /\ d.misses = c.misses + Cardinality({ k \in 1 .. BatchSize : ~Hit(k) })
      /\ held \subseteq CachedKeys(cacheType, c)
      /\ \A k \in 1 .. BatchSize : Hit(k) => keys[k] \in held
      /\ \A key \in CachedKeys(cacheType, c) :
           (\A k \in 1 .. BatchSize : keys[k] # key) => key \in held
  <2>1. /\ Len(keys) \in Nat /\ \A k \in 1 .. Len(keys) : keys[k] \in EdgeWorld.keys
        /\ \A k, l \in 1 .. Len(keys) : keys[k] = keys[l] => k = l
    BY <1>1, <1>3, <1>4, Catalog
  <2>2. World(EdgeWorld) /\ CacheSound(cacheType, EdgeWorld, c)
    BY Catalog
  <2> HIDE DEF c
  <2>3. /\ CacheSound(cacheType, EdgeWorld, d) /\ d.evictions = c.evictions
        /\ d.misses = c.misses + Cardinality({ k \in 1 .. Len(keys) : ~Hit(k) })
        /\ held \subseteq CachedKeys(cacheType, c)
        /\ \A k \in 1 .. Len(keys) : Hit(k) => keys[k] \in held
        /\ \A key \in CachedKeys(cacheType, c) :
             (\A k \in 1 .. Len(keys) : keys[k] # key) => key \in held
    BY <2>1, <2>2, GetAllCounts
  <2> HIDE DEF Hit, held, d
  <2>4. QED
    BY <1>3, <2>3, Zenon
<1> HIDE DEF Hit
<1>7. { k \in 1 .. BatchSize : ~Hit(k) } = { k \in 1 .. BatchSize : i + k - 1 \notin cached }
  BY <1>5
<1> HIDE DEF cached
<1>8. /\ IsFiniteSet(missing)
      /\ Cardinality({ k \in 1 .. BatchSize : i + k - 1 \notin cached }) = Cardinality(missing)
  BY <1>1, BatchCount
<1>9. Cardinality(missing) \in Nat
  BY <1>8, FS_CardinalityType
<1>10. d.misses = c.misses + Cardinality(missing)
  BY <1>6, <1>7, <1>8
<1>11. cached \subseteq places
  BY DEF CachedInBatch, cached
<1>12. \A n \in cached : Key(n, rep) \in held
  BY <1>3, <1>5, <1>6, <1>11
<1>13. ASSUME NEW key \in CachedKeys(cacheType, c), \A n \in places : Key(n, rep) # key
       PROVE  key \in held
  BY <1>3, <1>6, <1>13
<1>14. QED
  BY <1>2, <1>6, <1>9, <1>10, <1>12, <1>13 DEF cached

\* A batch that was fetched misses nothing more, adds no keys to the cache but those of
\* its misses and, unless it evicts, leaves them all there with what was there before.
LEMMA BatchStored ==
  ASSUME TypeOK, i < TotalSegments, batch.rep \in Ladder, NEW c,
         CacheSound(cacheType, EdgeWorld, c)
  PROVE  LET d == CacheMisses(c)
             held == CachedKeys(cacheType, d)
             missing == (i .. i + BatchSize - 1) \ batch.hits
         IN  /\ CacheSound(cacheType, EdgeWorld, d)
             /\ d.misses = c.misses /\ d.evictions >= c.evictions
             /\ \A key \in held \ CachedKeys(cacheType, c) : \E n \in missing : key = Key(n, batch.rep)
             /\ d.evictions = c.evictions =>
                  /\ CachedKeys(cacheType, c) \subseteq held
                  /\ \A n \in missing :
                       SegmentSizes[batch.rep][n] > CacheBytes \/ Key(n, batch.rep) \in held
<1> DEFINE missing == (i .. i + BatchSize - 1) \ batch.hits
           Item(n) == ItemOf(Key(n, batch.rep), Now + CacheTTL)
           items == [k \in DOMAIN Misses |-> Item(Misses[k])]
           d == PutAll(c, items)
           held == CachedKeys(cacheType, d)
<1>1. /\ Len(Misses) \in Nat /\ DOMAIN Misses = 1 .. Len(Misses)
      /\ \A k \in 1 .. Len(Misses) : Misses[k] \in missing
  BY MissesKnown
<1>2. \A n \in missing : \E k \in 1 .. Len(Misses) : Misses[k] = n
  BY MissesAll DEF MissesListed
<1>3. CacheMisses(c) = d
  BY DEF CacheMisses
<1>4. ASSUME NEW n \in missing
      PROVE  /\ Item(n) \in EdgeWorld.items /\ Item(n).key = Key(n, batch.rep)
             /\ Item(n).size = SegmentSizes[batch.rep][n]
  <2>1. Key(n, batch.rep) \in SegmentKeys
    BY BatchKeys
  <2>2. Now + CacheTTL \in Nat
    BY CacheAssumption DEF TypeOK, Now
  <2>3. Key(n, batch.rep)[3] = batch.rep /\ Key(n, batch.rep)[2] = n
    BY DEF Key
  <2>4. QED
    BY <2>1, <2>2, <2>3, Catalog
<1> HIDE DEF missing, Item
<1>5. Len(items) = Len(Misses) /\ \A k \in 1 .. Len(Misses) : items[k] = Item(Misses[k])
  BY <1>1
<1> HIDE DEF items
<1>6. /\ CacheSound(cacheType, EdgeWorld, d) /\ d.misses = c.misses /\ d.evictions >= c.evictions
      /\ \A key \in held \ CachedKeys(cacheType, c) : \E k \in 1 .. Len(items) : key = items[k].key
      /\ d.evictions = c.evictions =>
           /\ CachedKeys(cacheType, c) \subseteq held
           /\ \A k \in 1 .. Len(items) : items[k].size > EdgeWorld.max \/ items[k].key \in held
  <2>1. Len(items) \in Nat /\ \A k \in 1 .. Len(items) : items[k] \in EdgeWorld.items
    BY <1>1, <1>4, <1>5
  <2>2. World(EdgeWorld)
    BY Catalog
  <2>3. QED
    BY <2>1, <2>2, PutAllCounts
<1> HIDE DEF d, held
<1>7. \A key \in held \ CachedKeys(cacheType, c) : \E n \in missing : key = Key(n, batch.rep)
  BY <1>1, <1>4, <1>5, <1>6
<1>8. ASSUME d.evictions = c.evictions, NEW n \in missing
      PROVE  SegmentSizes[batch.rep][n] > CacheBytes \/ Key(n, batch.rep) \in held
  <2>1. PICK k \in 1 .. Len(Misses) : Misses[k] = n
    BY <1>2
  <2>2. items[k].size > EdgeWorld.max \/ items[k].key \in held
    BY <1>5, <1>6, <1>8, <2>1
  <2>3. QED
    BY <1>4, <1>5, <2>1, <2>2, Catalog
<1>9. QED
  BY <1>3, <1>6, <1>7, <1>8 DEF held, missing

\* Warming a cache up asks it for nothing and leaves a cache of the catalog.
LEMMA WarmSound == CacheSound(cacheType, EdgeWorld, WarmCache) /\ WarmCache.misses = 0
<1> DEFINE middle == CHOOSE b \in Ladder :
                       Cardinality({ c \in Ladder : c < b }) = Cardinality(Ladder) \div 2
           Warm(k) == <<WarmUp[(k - 1) \div TotalSegments + 1], (k - 1) % TotalSegments, middle>>
           n == Len(WarmUp) * TotalSegments
           items == [k \in 1 .. n |-> ItemOf(Warm(k), NoExpiry)]
           c == NewCache(cacheType, SegmentKeys, CacheBytes)
<1>1. Len(WarmUp) \in Nat /\ TotalSegments \in Nat \ {0} /\ n \in Nat
  BY DurationAssumption, ManifestAssumption, LenProperties
<1>2. WarmCache = PutAll(c, items)
  BY DEF WarmCache
<1>3. middle \in Ladder
  <2>1. Ladder \subseteq Nat /\ IsFiniteSet(Ladder) /\ Cardinality(Ladder) \in Nat \ {0}
    BY ManifestAssumption, FS_CardinalityType, FS_EmptySet
  <2>2. Cardinality(Ladder) \div 2 \in 0 .. Cardinality(Ladder) - 1
    BY <2>1
  <2>3. \E b \in Ladder : Cardinality({ a \in Ladder : a < b }) = Cardinality(Ladder) \div 2
    BY <2>1, <2>2, RankExists
  <2>4. QED
    BY <2>3
<1> HIDE DEF middle, n, c
<1>4. ASSUME NEW k \in 1 .. n PROVE Warm(k) \in SegmentKeys
  <2> DEFINE q == (k - 1) \div TotalSegments
             r == (k - 1) % TotalSegments
  <2>1. q \in Nat /\ r \in 0 .. TotalSegments - 1 /\ k - 1 = TotalSegments * q + r /\ k <= n
    BY <1>1
  <2>2. n = Len(WarmUp) * TotalSegments
    BY DEF n
  <2> HIDE DEF q, r
  <2>3. q < Len(WarmUp)
    <3> SUFFICES ASSUME q >= Len(WarmUp) PROVE FALSE
      BY <1>1, <2>1
    <3>1. TotalSegments * q >= TotalSegments * Len(WarmUp)
      BY <1>1, <2>1
    <3>2. QED
      BY <1>1, <2>1, <2>2, <3>1
  <2>4. q + 1 \in 1 .. Len(WarmUp)
    BY <1>1, <2>1, <2>3
  <2>5. WarmUp[q + 1] \in Contents
    BY <2>4, ManifestAssumption, ElementOfSeq
  <2>6. Warm(k) = <<WarmUp[q + 1], r, middle>>
    BY DEF q, r
  <2>7. QED
    BY <1>3, <2>1, <2>5, <2>6 DEF SegmentKeys
<1> HIDE DEF Warm
<1>5. Len(items) = n /\ \A k \in 1 .. n : items[k] \in EdgeWorld.items
  <2>1. NoExpiry \in Nat
    BY DEF NoExpiry
  <2>2. QED
    BY <1>1, <1>4, <2>1, Catalog
<1> HIDE DEF items
<1>6. CacheSound(cacheType, EdgeWorld, c) /\ c.misses = 0 /\ World(EdgeWorld)
  <2>1. World(EdgeWorld) /\ c = NewCache(cacheType, EdgeWorld.keys, EdgeWorld.max)
    BY Catalog DEF c
  <2>2. QED
    BY <2>1, NewCacheSound
<1>7. QED
  <2>1. Len(items) \in Nat /\ \A k \in 1 .. Len(items) : items[k] \in EdgeWorld.items
    BY <1>1, <1>5
  <2>2. CacheSound(cacheType, EdgeWorld, PutAll(c, items)) /\ PutAll(c, items).misses = c.misses
    BY <1>6, <2>1, PutAllCounts
  <2>3. QED
    BY <1>2, <1>6, <2>2

\* What a batch adds to the log.
LEMMA LogGrows ==
  ASSUME TypeOK, LogShaped, i < TotalSegments, NEW fetchTime,
         segments' = segments \o [k \in 1 .. BatchSize |-> LogOf(i + k - 1, fetchTime)],
         i' = i + BatchSize
  PROVE  /\ LogShaped' /\ DOMAIN segments = 1 .. i /\ DOMAIN segments' = 1 .. i + BatchSize
         /\ \A n \in 1 .. i : segments'[n] = segments[n]
         /\ \A n \in i + 1 .. i + BatchSize : segments'[n] = LogOf(n - 1, fetchTime)
<1> DEFINE new == [k \in 1 .. BatchSize |-> LogOf(i + k - 1, fetchTime)]
           R == { LogOf(n, fetchTime) : n \in i .. i + BatchSize - 1 }
<1>1. i \in Nat /\ BatchSize \in Nat
  BY BatchSizeBounds, DurationAssumption DEF TypeOK
<1>2. PICK S : segments \in Seq(S)
  BY DEF LogShaped
<1>3. /\ new \in Seq(R) /\ Len(new) = BatchSize
      /\ \A k \in 1 .. BatchSize : new[k] = LogOf(i + k - 1, fetchTime)
  <2>1. ASSUME NEW k \in 1 .. BatchSize PROVE LogOf(i + k - 1, fetchTime) \in R
    <3>1. i + k - 1 \in i .. i + BatchSize - 1
      BY <1>1
    <3>2. QED
      BY <3>1
  <2> HIDE DEF R
  <2>2. QED
    BY <1>1, <2>1
<1>4. segments \in Seq(S \cup R) /\ new \in Seq(S \cup R)
  <2> HIDE DEF new, R
  <2>1. QED
    BY <1>2, <1>3
<1> HIDE DEF new
<1>5. /\ segments' \in Seq(S \cup R) /\ Len(segments') = Len(segments) + Len(new)
      /\ \A n \in 1 .. Len(segments) + Len(new) :
           segments'[n] = IF n <= Len(segments) THEN segments[n] ELSE new[n - Len(segments)]
  <2> DEFINE A == S \cup R
  <2>1. segments' = segments \o new
    BY DEF new
  <2>2. segments \in Seq(A) /\ new \in Seq(A)
    BY <1>4
  <2> HIDE DEF A
  <2>3. /\ segments \o new \in Seq(A) /\ Len(segments \o new) = Len(segments) + Len(new)
        /\ \A n \in 1 .. Len(segments) + Len(new) :
             (segments \o new)[n] = IF n <= Len(segments) THEN segments[n] ELSE new[n - Len(segments)]
    BY <2>2, ConcatProperties, Zenon
  <2>4. QED
    BY <2>1, <2>3, Zenon DEF A
<1>6. Len(segments) = i
  BY DEF LogShaped
<1> HIDE DEF R
<1>7. LogShaped'
  BY <1>3, <1>5, <1>6 DEF LogShaped
<1>8. DOMAIN segments = 1 .. i /\ DOMAIN segments' = 1 .. i + BatchSize
  BY <1>2, <1>3, <1>5, <1>6, LenProperties
<1>9. \A n \in 1 .. i : segments'[n] = segments[n]
  BY <1>1, <1>3, <1>5, <1>6
<1>10. ASSUME NEW n \in i + 1 .. i + BatchSize PROVE segments'[n] = LogOf(n - 1, fetchTime)
  <2>1. n \in 1 .. i + BatchSize /\ ~(n <= i) /\ n - i \in 1 .. BatchSize /\ i + (n - i) - 1 = n - 1
    BY <1>1
  <2>2. segments'[n] = new[n - i]
    BY <1>3, <1>5, <1>6, <2>1
  <2>3. QED
    BY <1>3, <2>1, <2>2
<1>11. QED
  BY <1>7, <1>8, <1>9, <1>10

-----------------------------------------------------------------------------
\* The caches, the batch and the log keep their shape.
Shaped == CachesShaped /\ BatchShaped /\ LogShaped

LEMMA ShapedInit == Init => Shaped
<1> SUFFICES ASSUME Init PROVE Shaped
  OBVIOUS
<1>1. edgeCaches = [e \in Edges |-> WarmCache] /\ segments = << >> /\ i = 0
      /\ pc = "idle" /\ batch = NoBatch
  BY DEF Init
<1>2. CachesShaped
  BY <1>1, WarmSound DEF CachesShaped
<1>3. LogShaped
  <2>1. Len(segments) = 0 /\ segments \in Seq({})
    BY <1>1
  <2>2. QED
    BY <1>1, <2>1 DEF LogShaped
<1>4. BatchShaped
  BY <1>1 DEF BatchShaped, NoBatch
<1>5. QED
  BY <1>2, <1>3, <1>4 DEF Shaped

\* A step that leaves the caches alone caches nothing.
LEMMA NothingCached ==
  ASSUME edgeCaches' = edgeCaches, cacheType' = cacheType
  PROVE  CachingStep /\ (CachesShaped => CachesShaped')
  BY DEF CachingStep, CachesShaped

\* SelectBatch, for one bitrate of the ladder.
LEMMA Selected ==
  ASSUME SelectBatch
  PROVE  \E decision \in Decisions : \E rep \in Ladder :
           /\ rep = RepresentationForBitrate(Ladder, decision)
           /\ batch' = [NoBatch EXCEPT !.rep = rep, !.hits = CachedInBatch(rep)]
           /\ batch'.rep = rep /\ batch'.hits = CachedInBatch(rep) /\ batch'.asked = 0
           /\ BatchShaped'
           /\ edgeCaches' = IF CacheOn
                THEN [edgeCaches EXCEPT ![at] = LookUpBatch(@, rep)]
                ELSE edgeCaches
           /\ pc' = IF ShieldOn /\ Cardinality(CachedInBatch(rep)) < BatchSize
                    THEN "shield" ELSE "fetch"
<1>1. PICK decision \in Decisions :
        LET rep == RepresentationForBitrate(Ladder, decision)
            cached == CachedInBatch(rep)
        IN  /\ batch' = [NoBatch EXCEPT !.rep = rep, !.hits = cached]
            /\ edgeCaches' = IF CacheOn
                 THEN [edgeCaches EXCEPT ![at] = LookUpBatch(@, rep)]
                 ELSE edgeCaches
            /\ pc' = IF ShieldOn /\ Cardinality(cached) < BatchSize THEN "shield" ELSE "fetch"
  BY Zenon DEF SelectBatch
<1> DEFINE rep == RepresentationForBitrate(Ladder, decision)
           cached == CachedInBatch(rep)
<1>2. rep \in Ladder
  BY OnLadder
<1> HIDE DEF rep
<1>3. /\ batch' = [NoBatch EXCEPT !.rep = rep, !.hits = cached]
      /\ edgeCaches' = IF CacheOn
           THEN [edgeCaches EXCEPT ![at] = LookUpBatch(@, rep)]
           ELSE edgeCaches
      /\ pc' = IF ShieldOn /\ Cardinality(cached) < BatchSize THEN "shield" ELSE "fetch"
  BY <1>1, Zenon DEF rep
<1>4. /\ batch'.rep = rep /\ batch'.hits = cached /\ batch'.asked = 0
      /\ BatchShaped'
  <2> HIDE DEF cached
  <2>1. QED
    BY <1>2, <1>3 DEF NoBatch, BatchShaped
<1>5. QED
  BY <1>2, <1>3, <1>4, Zenon DEF rep

\* What a step does to the caches and to the log.
LEMMA ShapedStep == Inv /\ Shaped /\ [Next]_vars => Shaped' /\ [CachingStep]_vars
<1> SUFFICES ASSUME Inv, Shaped, [Next]_vars PROVE Shaped' /\ [CachingStep]_vars
  OBVIOUS
<1> USE DEF Shaped
<1>1. ASSUME NEW e \in Edges, NEW name \in Contents, NEW hs \in HandshakeTimes,
             Handshake(e, name, hs)
      PROVE  Shaped' /\ CachingStep
  <2>1. /\ segments' = << >> /\ i' = 0 /\ edgeCaches' = edgeCaches /\ cacheType' = cacheType
        /\ pc' = "loop" /\ batch' = NoBatch
    BY <1>1 DEF Handshake
  <2>2. Len(segments') = 0 /\ segments' \in Seq({})
    BY <2>1
  <2>3. BatchShaped'
    BY <2>1 DEF BatchShaped, NoBatch
  <2>4. QED
    BY <2>1, <2>2, <2>3, NothingCached DEF LogShaped
<1>2. CASE ShieldHit \/ ShieldMiss \/ Finish \/ Fail \/ UNCHANGED vars
  <2>1. UNCHANGED <<segments, i, edgeCaches, cacheType>>
    <3>1. CASE ShieldHit \/ ShieldMiss \/ ShieldFails
      BY <3>1, Zenon DEF ShieldHit, ShieldMiss, ShieldFails, session, clockVars, logVars
    <3>2. CASE Finish \/ HandshakeFails \/ FetchFails \/ UNCHANGED vars
      BY <3>2 DEF Finish, HandshakeFails, FetchFails, vars, session, clockVars, logVars
    <3>3. QED
      BY <1>2, <3>1, <3>2 DEF Fail
  <2>2. BatchShaped'
    <3>1. CASE ShieldHit
      BY <3>1 DEF ShieldHit, BatchShaped
    <3>2. CASE ShieldMiss
      BY <3>2 DEF ShieldMiss, BatchShaped
    <3>3. CASE Finish \/ Fail \/ UNCHANGED vars
      <4>1. batch' = batch /\ (pc' \in {"idle", "failed"} \/ pc' = pc)
        BY <3>3 DEF Finish, Fail, HandshakeFails, ShieldFails, FetchFails, vars
      <4>2. QED
        BY <4>1 DEF BatchShaped
    <3>4. QED
      BY <1>2, <3>1, <3>2, <3>3
  <2>3. QED
    BY <2>1, <2>2, NothingCached DEF LogShaped
<1>3. CASE SelectBatch
  <2>1. PICK rep \in Ladder :
          /\ BatchShaped'
          /\ edgeCaches' = IF CacheOn THEN [edgeCaches EXCEPT ![at] = LookUpBatch(@, rep)]
                           ELSE edgeCaches
    BY <1>3, Selected, Zenon
  <2>2. UNCHANGED <<segments, i, cacheType>> /\ i < TotalSegments
    BY <1>3 DEF SelectBatch, session, clockVars, logVars
  <2>3. CASE ~CacheOn
    BY <2>1, <2>2, <2>3, NothingCached DEF LogShaped
  <2>4. CASE CacheOn
    <3> DEFINE d == LookUpBatch(Cache, rep)
    <3>1. at \in Edges /\ TypeOK /\ CacheSound(cacheType, EdgeWorld, Cache)
      BY DEF Inv, TypeOK, CachesShaped, Cache
    <3>2. /\ CacheSound(cacheType, EdgeWorld, d)
          /\ CachedKeys(cacheType, d) \subseteq CachedKeys(cacheType, Cache)
      BY <2>2, <2>4, <3>1, BatchLookedUp
    <3> HIDE DEF d
    <3>3. edgeCaches' = [edgeCaches EXCEPT ![at] = d]
      BY <2>1, <2>4 DEF d, Cache
    <3>4. \A e \in Edges : edgeCaches'[e] = IF e = at THEN d ELSE edgeCaches[e]
      BY <3>1, <3>3 DEF CachesShaped
    <3>5. CachesShaped'
      BY <2>2, <3>2, <3>3, <3>4 DEF CachesShaped
    <3>6. CachingStep
      BY <2>2, <3>2, <3>4 DEF CachingStep, Cache
    <3>7. QED
      BY <2>1, <2>2, <3>5, <3>6 DEF LogShaped
  <2>5. QED
    BY <2>3, <2>4
<1>4. CASE FetchBatch
  <2>1. PICK fetchTime \in FetchTimes :
          segments' = segments \o [k \in 1 .. BatchSize |-> LogOf(i + k - 1, fetchTime)]
    BY <1>4 DEF FetchBatch
  <2>2. /\ i < TotalSegments /\ i' = i + BatchSize /\ cacheType' = cacheType
        /\ pc = "fetch" /\ pc' = "loop" /\ batch' = batch
        /\ edgeCaches' = IF CacheOn THEN [edgeCaches EXCEPT ![at] = CacheMisses(@)] ELSE edgeCaches
    BY <1>4 DEF FetchBatch, Inv, TypeOK, session
  <2>3. /\ LogShaped' /\ DOMAIN segments' = 1 .. i + BatchSize
        /\ \A n \in i + 1 .. i + BatchSize : segments'[n] = LogOf(n - 1, fetchTime)
    BY <2>1, <2>2, LogGrows DEF Inv
  <2>4. BatchShaped' /\ batch.rep \in Ladder
    BY <2>2 DEF BatchShaped
  <2>5. CASE ~CacheOn
    BY <2>2, <2>3, <2>4, <2>5, NothingCached
  <2>6. CASE CacheOn
    <3> DEFINE d == CacheMisses(Cache)
    <3>1. at \in Edges /\ TypeOK /\ CacheSound(cacheType, EdgeWorld, Cache)
      BY DEF Inv, TypeOK, CachesShaped, Cache
    <3>2. /\ CacheSound(cacheType, EdgeWorld, d)
          /\ \A key \in CachedKeys(cacheType, d) \ CachedKeys(cacheType, Cache) :
               \E n \in (i .. i + BatchSize - 1) \ batch.hits : key = Key(n, batch.rep)
      BY <2>2, <2>4, <3>1, BatchStored
    <3> HIDE DEF d
    <3>3. edgeCaches' = [edgeCaches EXCEPT ![at] = d]
      BY <2>2, <2>6 DEF d, Cache
    <3>4. \A e \in Edges : edgeCaches'[e] = IF e = at THEN d ELSE edgeCaches[e]
      BY <3>1, <3>3 DEF CachesShaped
    <3>5. CachesShaped'
      BY <2>2, <3>2, <3>3, <3>4 DEF CachesShaped
    <3>6. ASSUME NEW key \in CachedKeys(cacheType, d) \ CachedKeys(cacheType, Cache)
          PROVE  \E n \in DOMAIN segments' : /\ n > Len(segments) /\ ~segments'[n].cacheHit
                                             /\ key = Key(segments'[n].index, segments'[n].bitrate)
      <4>1. PICK n \in (i .. i + BatchSize - 1) \ batch.hits : key = Key(n, batch.rep)
        BY <3>2
      <4>2. /\ n + 1 \in i + 1 .. i + BatchSize /\ n + 1 \in 1 .. i + BatchSize /\ n + 1 > i
            /\ (n + 1) - 1 = n
        BY <2>2, BatchSizeBounds, DurationAssumption DEF Inv, TypeOK
      <4>3. segments'[n + 1] = LogOf(n, fetchTime)
        BY <2>3, <4>2
      <4>4. ~segments'[n + 1].cacheHit /\ segments'[n + 1].index = n /\ segments'[n + 1].bitrate = batch.rep
        <5>1. LogOf(n, fetchTime).index = n /\ LogOf(n, fetchTime).bitrate = batch.rep
          BY DEF LogOf
        <5>2. LogOf(n, fetchTime).cacheHit = (n \in batch.hits)
          BY Zenon DEF LogOf
        <5>3. QED
          BY <4>1, <4>3, <5>1, <5>2
      <4>5. Len(segments) = i
        BY DEF LogShaped
      <4>6. QED
        BY <2>3, <4>1, <4>2, <4>4, <4>5
    <3>7. CachingStep
      BY <2>2, <3>4, <3>6 DEF CachingStep, Cache
    <3>8. QED
      BY <2>3, <2>4, <3>5, <3>7
  <2>7. QED
    BY <2>5, <2>6
<1>5. QED
  BY <1>1, <1>2, <1>3, <1>4 DEF Next, Step

\* However often a segment is asked for, missed or lost on the way, it enters the cache
\* of an edge only in the step that delivers it: for any edges, catalog, cache size,
\* LRU or ARC, ABR and order of hits, misses and expiries (player.go:172-193).
THEOREM CachedWhenDelivered == Spec => CachedOnlyWhenDelivered
<1>1. Init => Inv /\ Shaped
  BY InitInv, ShapedInit
<1>2. Inv /\ Shaped /\ [Next]_vars => (Inv /\ Shaped)' /\ [CachingStep]_vars
  BY StepInv, ShapedStep
<1>3. QED
  BY <1>1, <1>2, PTL DEF Spec, CachedOnlyWhenDelivered
-----------------------------------------------------------------------------
\* The batch a position is in: the one that starts at a, and none before it.
LEMMA InBatch ==
  ASSUME NEW P \in Nat \ {0}, NEW a \in Nat, a % P = 0
  PROVE  /\ \A j \in 0 .. P - 1 : (a + j) % P = j /\ (a + j) \div P = a \div P
         /\ \A b \in 0 .. a - 1 : b \div P # a \div P
         /\ (a + P) % P = 0
<1> DEFINE q == a \div P
<1>1. q \in Int /\ a = P * q
  OBVIOUS
<1> HIDE DEF q
<1>2. ASSUME NEW x \in Nat, NEW j \in 0 .. P - 1, NEW d \in Int, x = P * d + j
      PROVE  x % P = j /\ x \div P = d
  <2> DEFINE e == x \div P
             r == x % P
  <2>1. e \in Int /\ r \in 0 .. P - 1 /\ x = P * e + r
    OBVIOUS
  <2> HIDE DEF e, r
  <2>2. P * (e - d) = j - r
    BY <1>2, <2>1
  <2>3. ~(e - d >= 1)
    <3> SUFFICES ASSUME e - d >= 1 PROVE FALSE
      OBVIOUS
    <3>1. P * (e - d) >= P
      BY <2>1
    <3>2. QED
      BY <2>1, <2>2, <3>1
  <2>4. ~(e - d <= -1)
    <3> SUFFICES ASSUME e - d <= -1 PROVE FALSE
      OBVIOUS
    <3>1. P * (e - d) <= -P
      BY <2>1
    <3>2. QED
      BY <2>1, <2>2, <3>1
  <2>5. e = d
    BY <2>1, <2>3, <2>4
  <2>6. r = j
    BY <1>2, <2>1, <2>5
  <2>7. QED
    BY <2>5, <2>6 DEF e, r
<1>3. ASSUME NEW j \in 0 .. P - 1 PROVE (a + j) % P = j /\ (a + j) \div P = q
  BY <1>1, <1>2
<1>4. ASSUME NEW b \in 0 .. a - 1 PROVE b \div P # q
  <2>1. b \in Nat /\ b % P \in 0 .. P - 1 /\ b = P * (b \div P) + (b % P)
    OBVIOUS
  <2>2. QED
    BY <1>1, <2>1
<1>5. (a + P) % P = 0
  <2>1. a + P = P * (q + 1) + 0 /\ a + P \in Nat /\ 0 \in 0 .. P - 1 /\ q + 1 \in Int
    BY <1>1
  <2>2. QED
    BY <1>2, <2>1
<1>6. QED
  BY <1>3, <1>4, <1>5 DEF q

\* Zeros in front do not change a sum.
LEMMA SumAfterZeros ==
  ASSUME NEW a \in Nat, NEW s \in Seq(Nat), NEW t \in Seq(Nat), Len(s) = a + Len(t),
         \A n \in 1 .. a : s[n] = 0, \A k \in 1 .. Len(t) : s[a + k] = t[k]
  PROVE  SumOf(s) = SumOf(t)
<1> DEFINE len == Len(t)
           T == { n \in Nat : n <= a => SumTo(s, n) = 0 }
           U == { k \in Nat : k <= len => SumTo(s, a + k) = SumTo(t, k) }
<1>1. len \in Nat /\ Len(s) = a + len
  BY LenProperties
<1>2. /\ SumTo(s, 0) = 0 /\ SumTo(t, 0) = 0
      /\ \A n \in 1 .. a + len : SumTo(s, n) = SumTo(s, n - 1) + s[n]
      /\ \A n \in 1 .. len : SumTo(t, n) = SumTo(t, n - 1) + t[n]
  BY <1>1, SumToUnfolds
<1>3. 0 \in T
  BY <1>2
<1>4. ASSUME NEW n \in Nat, n \in T PROVE n + 1 \in T
  <2> SUFFICES ASSUME n + 1 <= a PROVE SumTo(s, n + 1) = 0
    OBVIOUS
  <2>1. n + 1 \in 1 .. a /\ n + 1 \in 1 .. a + len /\ (n + 1) - 1 = n /\ SumTo(s, n) = 0
    BY <1>1, <1>4
  <2>2. QED
    BY <1>2, <2>1
<1>5. SumTo(s, a) = 0
  <2>1. a \in T
    <3> HIDE DEF T
    <3>1. QED
      BY <1>3, <1>4, SetInduction
  <2>2. QED
    BY <2>1
<1>6. 0 \in U
  BY <1>2, <1>5
<1>7. ASSUME NEW k \in Nat, k \in U PROVE k + 1 \in U
  <2> SUFFICES ASSUME k + 1 <= len PROVE SumTo(s, a + (k + 1)) = SumTo(t, k + 1)
    OBVIOUS
  <2>1. /\ k + 1 \in 1 .. len /\ a + (k + 1) \in 1 .. a + len
        /\ (k + 1) - 1 = k /\ (a + (k + 1)) - 1 = a + k
        /\ SumTo(s, a + k) = SumTo(t, k)
    BY <1>1, <1>7
  <2>2. SumTo(s, a + (k + 1)) = SumTo(s, a + k) + s[a + (k + 1)] /\ s[a + (k + 1)] = t[k + 1]
    BY <1>2, <2>1
  <2>3. SumTo(t, k + 1) = SumTo(t, k) + t[k + 1]
    BY <1>2, <2>1
  <2>4. QED
    BY <2>1, <2>2, <2>3
<1>8. len \in U
  <2> HIDE DEF U
  <2>1. QED
    BY <1>1, <1>6, <1>7, SetInduction
<1>9. SumTo(s, a + len) = SumTo(t, len)
  BY <1>1, <1>8
<1>10. QED
  BY <1>1, <1>9 DEF SumOf

-----------------------------------------------------------------------------
\* What makes the log of a session tell one story in the next step too: batches start
\* at multiples of the prefetch depth, the first one finds the player as it started,
\* and the player's bitrate is the one of the last segment.
Samples == [bytes : Nat, time : Nat \ {0}]
Logged ==
  /\ i < TotalSegments => i % PrefetchDepth = 0
  /\ i = 0 => ~playbackStarted /\ buffer = 0 /\ currentBitrate = 0
  /\ i > 0 => currentBitrate = segments[i].bitrate /\ currentBitrate \in Ladder
  /\ history \in Seq(Samples)

\* The whole invariant of the log.
LogInv == Inv /\ Shaped /\ Logged /\ SessionLog

\* FetchBatch, for one fetch time.
Fetched(fetchTime) ==
  /\ pc = "fetch" /\ i < TotalSegments /\ fetchTime \in Nat \ {0}
  /\ pc' = "loop"
  /\ AdvanceClock(fetchTime)
  /\ history' = NewHistory(fetchTime)
  /\ bitrateChanges' = NewBitrateChanges
  /\ currentBitrate' = batch.rep
  /\ segments' = segments \o [k \in 1 .. BatchSize |-> LogOf(i + k - 1, fetchTime)]
  /\ i' = i + BatchSize
  /\ batch' = batch

\* The log before and after a batch.
LEMMA NewEntries ==
  ASSUME LogInv, NEW fetchTime, Fetched(fetchTime)
  PROVE  /\ BatchSize \in 1 .. PrefetchDepth /\ i \in Nat /\ Len(segments) = i
         /\ Len(segments') = i + BatchSize /\ i' = i + BatchSize
         /\ DOMAIN segments = 1 .. i /\ DOMAIN segments' = 1 .. i + BatchSize
         /\ \A n \in 1 .. i : segments'[n] = segments[n]
         /\ \A n \in i + 1 .. i + BatchSize :
              /\ segments'[n].index = n - 1 /\ segments'[n].bitrate = batch.rep
              /\ segments'[n].before = buffer /\ segments'[n].after = buffer'
              /\ segments'[n].cacheHit = (n - 1 \in batch.hits)
              /\ segments'[n].rebuffered = Stalled(fetchTime)
<1>1. TypeOK /\ LogShaped /\ i < TotalSegments
  BY DEF LogInv, Inv, Shaped, Fetched
<1>2. /\ segments' = segments \o [k \in 1 .. BatchSize |-> LogOf(i + k - 1, fetchTime)]
      /\ i' = i + BatchSize
  BY DEF Fetched
<1>3. /\ LogShaped' /\ DOMAIN segments = 1 .. i /\ DOMAIN segments' = 1 .. i + BatchSize
      /\ \A n \in 1 .. i : segments'[n] = segments[n]
      /\ \A n \in i + 1 .. i + BatchSize : segments'[n] = LogOf(n - 1, fetchTime)
  BY <1>1, <1>2, LogGrows
<1>4. ASSUME NEW n \in i + 1 .. i + BatchSize
      PROVE  /\ segments'[n].index = n - 1 /\ segments'[n].bitrate = batch.rep
             /\ segments'[n].before = buffer /\ segments'[n].after = buffer'
             /\ segments'[n].cacheHit = (n - 1 \in batch.hits)
             /\ segments'[n].rebuffered = Stalled(fetchTime)
  <2>1. segments'[n] = LogOf(n - 1, fetchTime)
    BY <1>3
  <2>2. /\ LogOf(n - 1, fetchTime).index = n - 1 /\ LogOf(n - 1, fetchTime).bitrate = batch.rep
        /\ LogOf(n - 1, fetchTime).before = buffer /\ LogOf(n - 1, fetchTime).after = buffer'
    BY DEF LogOf
  <2>3. LogOf(n - 1, fetchTime).cacheHit = (n - 1 \in batch.hits)
    BY Zenon DEF LogOf
  <2>4. LogOf(n - 1, fetchTime).rebuffered = Stalled(fetchTime)
    BY Zenon DEF LogOf
  <2>5. QED
    BY <2>1, <2>2, <2>3, <2>4
<1>5. BatchSize \in 1 .. PrefetchDepth /\ i \in Nat
  BY <1>1, DurationAssumption DEF TypeOK, BatchSize
<1>6. Len(segments) = i /\ Len(segments') = i + BatchSize
  BY <1>2, <1>3, <1>1 DEF LogShaped
<1>7. QED
  BY <1>2, <1>3, <1>4, <1>5, <1>6

\* A batch starts where the first of its segments is, and only there.
LEMMA BatchPlaces ==
  ASSUME LogInv, NEW fetchTime, Fetched(fetchTime)
  PROVE  /\ \A n \in i + 1 .. i + BatchSize : OpensBatch(n) <=> n = i + 1
         /\ \A n \in i + 1 .. i + BatchSize : (n - 1) \div PrefetchDepth = i \div PrefetchDepth
         /\ \A n \in 1 .. i : (n - 1) \div PrefetchDepth # i \div PrefetchDepth
<1> DEFINE P == PrefetchDepth
<1>1. P \in Nat \ {0} /\ i \in Nat /\ BatchSize \in 1 .. P /\ i % P = 0
  BY NewEntries, DurationAssumption DEF LogInv, Logged, Fetched
<1> HIDE DEF P
<1>2. /\ \A j \in 0 .. P - 1 : (i + j) % P = j /\ (i + j) \div P = i \div P
      /\ \A b \in 0 .. i - 1 : b \div P # i \div P
  BY <1>1, InBatch
<1>3. ASSUME NEW n \in i + 1 .. i + BatchSize
      PROVE  (OpensBatch(n) <=> n = i + 1) /\ (n - 1) \div P = i \div P
  <2> DEFINE j == n - 1 - i
  <2>1. j \in 0 .. P - 1 /\ i + j = n - 1 /\ (j = 0 <=> n = i + 1)
    BY <1>1
  <2> HIDE DEF j
  <2>2. (n - 1) % P = j /\ (n - 1) \div P = i \div P
    BY <1>2, <2>1
  <2>3. QED
    BY <2>1, <2>2 DEF OpensBatch, P
<1>4. ASSUME NEW n \in 1 .. i PROVE (n - 1) \div P # i \div P
  <2>1. n - 1 \in 0 .. i - 1
    BY <1>1
  <2>2. QED
    BY <1>2, <2>1
<1>5. QED
  BY <1>3, <1>4 DEF P

\* A set and one more element.
LEMMA CountOneMore ==
  ASSUME NEW n \in Nat, NEW S, S \subseteq 1 .. n
  PROVE  /\ IsFiniteSet(S) /\ Cardinality(S) \in Nat
         /\ Cardinality(S \cup {n + 1}) = Cardinality(S) + 1
<1>1. IsFiniteSet(1 .. n)
  BY FS_Interval
<1>2. IsFiniteSet(S)
  BY <1>1, FS_Subset
<1>3. n + 1 \notin S
  OBVIOUS
<1>4. QED
  BY <1>2, <1>3, FS_AddElement, FS_CardinalityType

\* A batch that stalled is counted and tagged.
LEMMA TagsKept ==
  ASSUME LogInv, NEW fetchTime, Fetched(fetchTime)
  PROVE  RebufferTags'
<1> DEFINE Opening == { n \in 1 .. i : OpensBatch(n) /\ segments[n].rebuffered }
           Opened == { n \in 1 .. i + BatchSize : OpensBatch(n) /\ segments'[n].rebuffered }
<1>1. /\ BatchSize \in 1 .. PrefetchDepth /\ i \in Nat
      /\ DOMAIN segments = 1 .. i /\ DOMAIN segments' = 1 .. i + BatchSize
      /\ \A n \in 1 .. i : segments'[n] = segments[n]
      /\ \A n \in i + 1 .. i + BatchSize : segments'[n].rebuffered = Stalled(fetchTime)
  BY NewEntries
<1>2. \A n \in i + 1 .. i + BatchSize : OpensBatch(n) <=> n = i + 1
  BY BatchPlaces
<1>3. Stalled(fetchTime) \in BOOLEAN /\ (Stalled(fetchTime) => playbackStarted)
  BY DEF Stalled
<1>4. /\ rebufferCount \in Nat /\ (i = 0 => ~playbackStarted)
      /\ rebufferCount' = IF Stalled(fetchTime) THEN rebufferCount + 1 ELSE rebufferCount
  BY DEF LogInv, Inv, TypeOK, Logged, Fetched, AdvanceClock
<1>5. /\ rebufferCount = Cardinality(Opening)
      /\ \A n \in 1 .. i : IF OpensBatch(n) THEN segments[n].rebuffered => n > 1
                           ELSE segments[n].rebuffered = segments[n - 1].rebuffered
  BY <1>1 DEF LogInv, SessionLog, RebufferTags
<1>6. Opening \subseteq 1 .. i
  OBVIOUS
<1>7. Opened = IF Stalled(fetchTime) THEN Opening \cup {i + 1} ELSE Opening
  <2>1. \A n \in 1 .. i + BatchSize : n \in 1 .. i \/ n \in i + 1 .. i + BatchSize
    BY <1>1
  <2>2. i + 1 \in i + 1 .. i + BatchSize /\ i + 1 \in 1 .. i + BatchSize
    BY <1>1
  <2>3. 1 .. i \subseteq 1 .. i + BatchSize
    BY <1>1
  <2>4. ASSUME NEW n \in i + 1 .. i + BatchSize
        PROVE  OpensBatch(n) /\ segments'[n].rebuffered <=> n = i + 1 /\ Stalled(fetchTime)
    BY <1>1, <1>2
  <2>5. ASSUME NEW n \in 1 .. i
        PROVE  OpensBatch(n) /\ segments'[n].rebuffered <=> OpensBatch(n) /\ segments[n].rebuffered
    BY <1>1
  <2> HIDE DEF OpensBatch
  <2>6. QED
    BY <2>1, <2>2, <2>3, <2>4, <2>5
<1> HIDE DEF Opening
<1>8. rebufferCount' = Cardinality(Opened)
  BY <1>1, <1>4, <1>5, <1>6, <1>7, CountOneMore
<1>9. ASSUME NEW n \in 1 .. i + BatchSize
      PROVE  IF OpensBatch(n) THEN segments'[n].rebuffered => n > 1
             ELSE segments'[n].rebuffered = segments'[n - 1].rebuffered
  <2>1. CASE n \in 1 .. i
    <3>1. CASE OpensBatch(n)
      BY <1>1, <1>5, <2>1, <3>1
    <3>2. CASE ~OpensBatch(n)
      <4>1. n - 1 \in 1 .. i
        <5>1. 0 % PrefetchDepth = 0
          BY DurationAssumption
        <5>2. n # 1
          BY <3>2, <5>1 DEF OpensBatch
        <5>3. QED
          BY <1>1, <2>1, <5>2
      <4>2. segments[n].rebuffered = segments[n - 1].rebuffered
        BY <1>5, <2>1, <3>2
      <4>3. QED
        BY <1>1, <2>1, <3>2, <4>1, <4>2
    <3>3. QED
      BY <3>1, <3>2
  <2>2. CASE n = i + 1
    <3>1. n \in i + 1 .. i + BatchSize /\ OpensBatch(n)
      BY <1>1, <1>2, <2>2
    <3>2. segments'[n].rebuffered => i # 0
      BY <1>1, <1>3, <1>4, <3>1
    <3>3. segments'[n].rebuffered => n > 1
      BY <1>1, <2>2, <3>2
    <3>4. QED
      BY <3>1, <3>3
  <2>3. CASE n \notin 1 .. i /\ n # i + 1
    <3>1. n \in i + 1 .. i + BatchSize /\ n - 1 \in i + 1 .. i + BatchSize
      BY <1>1, <2>3
    <3>2. ~OpensBatch(n) /\ segments'[n].rebuffered = segments'[n - 1].rebuffered
      BY <1>1, <1>2, <2>3, <3>1
    <3>3. QED
      BY <3>2
  <2>4. QED
    BY <2>1, <2>2, <2>3
<1>10. QED
  BY <1>1, <1>8, <1>9 DEF RebufferTags, OpensBatch

\* A batch goes on where the log ended.
LEMMA ChainKept ==
  ASSUME LogInv, NEW fetchTime, Fetched(fetchTime)
  PROVE  LogChains'
<1>1. /\ BatchSize \in 1 .. PrefetchDepth /\ i \in Nat /\ i' = i + BatchSize
      /\ Len(segments') = i + BatchSize /\ DOMAIN segments' = 1 .. i + BatchSize
      /\ \A n \in 1 .. i : segments'[n] = segments[n]
      /\ \A n \in i + 1 .. i + BatchSize :
           segments'[n].index = n - 1 /\ segments'[n].before = buffer /\ segments'[n].after = buffer'
  BY NewEntries
<1>2. \A n \in i + 1 .. i + BatchSize : OpensBatch(n) <=> n = i + 1
  BY BatchPlaces
<1>3. DOMAIN segments = 1 .. i
  BY NewEntries
<1>4. /\ \A n \in 1 .. i :
           /\ segments[n].index = n - 1
           /\ segments[n].before = IF n = 1 THEN 0
                                   ELSE IF OpensBatch(n) THEN segments[n - 1].after
                                                         ELSE segments[n - 1].before
      /\ i > 0 => segments[i].after = buffer
  BY <1>3 DEF LogInv, SessionLog, LogChains
<1>5. i = 0 => buffer = 0
  BY DEF LogInv, Logged
<1>6. ASSUME NEW n \in 1 .. i + BatchSize
      PROVE  /\ segments'[n].index = n - 1
             /\ segments'[n].before = IF n = 1 THEN 0
                                      ELSE IF OpensBatch(n) THEN segments'[n - 1].after
                                                            ELSE segments'[n - 1].before
  <2> HIDE DEF OpensBatch
  <2>1. CASE n \in 1 .. i
    <3>1. n # 1 => n - 1 \in 1 .. i
      BY <1>1, <2>1
    <3>2. QED
      BY <1>1, <1>4, <2>1, <3>1
  <2>2. CASE n = i + 1
    <3>1. n \in i + 1 .. i + BatchSize /\ (n # 1 => i \in 1 .. i /\ n - 1 = i /\ i > 0)
      BY <1>1, <2>2
    <3>2. OpensBatch(n) /\ (n = 1 => i = 0)
      BY <1>1, <1>2, <2>2, <3>1
    <3>3. QED
      BY <1>1, <1>4, <1>5, <3>1, <3>2
  <2>3. CASE n \notin 1 .. i /\ n # i + 1
    <3>1. n \in i + 1 .. i + BatchSize /\ n - 1 \in i + 1 .. i + BatchSize /\ n # 1
      BY <1>1, <2>3
    <3>2. ~OpensBatch(n)
      BY <1>2, <2>3, <3>1
    <3>3. QED
      BY <1>1, <3>1, <3>2
  <2>4. QED
    BY <2>1, <2>2, <2>3
<1>7. segments'[i + BatchSize].after = buffer'
  <2>1. i + BatchSize \in i + 1 .. i + BatchSize
    BY <1>1
  <2>2. QED
    BY <1>1, <2>1
<1>8. QED
  BY <1>1, <1>6, <1>7 DEF LogChains, OpensBatch

\* The switch a batch may bring is counted.
LEMMA ChangesKept ==
  ASSUME LogInv, NEW fetchTime, Fetched(fetchTime)
  PROVE  ChangesMatchLog'
<1> DEFINE Switches == { n \in 2 .. i : segments[n].bitrate # segments[n - 1].bitrate }
           Switched == { n \in 2 .. i + BatchSize : segments'[n].bitrate # segments'[n - 1].bitrate }
<1>1. /\ BatchSize \in 1 .. PrefetchDepth /\ i \in Nat
      /\ Len(segments) = i /\ Len(segments') = i + BatchSize
      /\ \A n \in 1 .. i : segments'[n] = segments[n]
      /\ \A n \in i + 1 .. i + BatchSize : segments'[n].bitrate = batch.rep
  BY NewEntries
<1>2. /\ bitrateChanges = Cardinality(Switches)
      /\ bitrateChanges' = IF currentBitrate # 0 /\ currentBitrate # batch.rep
                           THEN bitrateChanges + 1 ELSE bitrateChanges
  BY <1>1 DEF LogInv, SessionLog, ChangesMatchLog, Fetched, NewBitrateChanges
<1>3. /\ i = 0 => currentBitrate = 0
      /\ i > 0 => currentBitrate = segments[i].bitrate /\ currentBitrate # 0
  BY ManifestAssumption DEF LogInv, Logged
<1>4. Switches \subseteq 1 .. i
  BY <1>1
<1> DEFINE Switch == i > 0 /\ segments[i].bitrate # batch.rep
<1>5. bitrateChanges' = IF Switch THEN bitrateChanges + 1 ELSE bitrateChanges
  BY <1>1, <1>2, <1>3
<1>6. Switched = IF Switch THEN Switches \cup {i + 1} ELSE Switches
  <2>1. ASSUME NEW n \in 2 .. i PROVE n \in 2 .. i + BatchSize /\ (n \in Switched <=> n \in Switches)
    <3>1. n \in 1 .. i /\ n - 1 \in 1 .. i /\ n \in 2 .. i + BatchSize
      BY <1>1
    <3>2. QED
      BY <1>1, <3>1
  <2>2. i > 0 => i + 1 \in 2 .. i + BatchSize /\ i + 1 \in i + 1 .. i + BatchSize /\ i \in 1 .. i
                 /\ (i + 1) - 1 = i
    BY <1>1
  <2>3. i > 0 => (i + 1 \in Switched <=> Switch)
    BY <1>1, <2>2
  <2>4. ASSUME NEW n \in 2 .. i + BatchSize, n \notin 2 .. i, n # i + 1 PROVE n \notin Switched
    <3>1. n \in i + 1 .. i + BatchSize /\ n - 1 \in i + 1 .. i + BatchSize
      BY <1>1, <2>4
    <3>2. QED
      BY <1>1, <3>1
  <2>5. i = 0 => i + 1 \notin 2 .. i + BatchSize
    OBVIOUS
  <2>6. Switched \subseteq 2 .. i + BatchSize /\ Switches \subseteq 2 .. i
    OBVIOUS
  <2>7. Switch => i > 0
    OBVIOUS
  <2>8. i = 0 \/ i > 0
    BY <1>1
  <2> HIDE DEF Switched, Switches, Switch
  <2>9. ASSUME NEW n PROVE n \in Switched <=> n \in Switches \/ (Switch /\ n = i + 1)
    BY <2>1, <2>2, <2>3, <2>4, <2>5, <2>6, <2>7, <2>8
  <2>10. QED
    BY <2>9
<1> HIDE DEF Switches, Switched, Switch
<1>7. bitrateChanges' = Cardinality(Switched)
  BY <1>1, <1>2, <1>4, <1>5, <1>6, CountOneMore
<1>8. QED
  BY <1>1, <1>7 DEF ChangesMatchLog, Switched

\* The bytes of the last batch the log shows as fetched are those that crossed the
\* transport.
LEMMA MissedIsTransferred ==
  ASSUME LogInv, NEW fetchTime, Fetched(fetchTime)
  PROVE  LET Missed(n) == /\ ~segments'[n].cacheHit
                          /\ (n - 1) \div PrefetchDepth = (i' - 1) \div PrefetchDepth
         IN  /\ Transferred \in Nat
             /\ SumOf([n \in DOMAIN segments' |->
                        IF Missed(n) THEN SegmentSizes[segments'[n].bitrate][segments'[n].index]
                        ELSE 0]) = Transferred
<1> DEFINE Missed(n) == /\ ~segments'[n].cacheHit
                        /\ (n - 1) \div PrefetchDepth = (i' - 1) \div PrefetchDepth
           Size(n) == IF Missed(n) THEN SegmentSizes[segments'[n].bitrate][segments'[n].index] ELSE 0
           m == BatchSize
           s == [n \in 1 .. i + m |-> Size(n)]
           Cost(k) == IF i + k - 1 \in batch.hits THEN 0 ELSE SizeAt(k)
           t == [k \in 1 .. m |-> Cost(k)]
<1>1. /\ m \in 1 .. PrefetchDepth /\ i \in Nat /\ i' = i + m
      /\ DOMAIN segments' = 1 .. i + m
      /\ \A n \in i + 1 .. i + m : /\ segments'[n].index = n - 1 /\ segments'[n].bitrate = batch.rep
                                   /\ segments'[n].cacheHit = (n - 1 \in batch.hits)
  BY NewEntries
<1>2. /\ \A n \in i + 1 .. i + m : (n - 1) \div PrefetchDepth = i \div PrefetchDepth
      /\ \A n \in 1 .. i : (n - 1) \div PrefetchDepth # i \div PrefetchDepth
  BY BatchPlaces
<1>3. i + m <= TotalSegments /\ batch.rep \in Ladder
  <2>1. TypeOK /\ BatchShaped /\ pc = "fetch"
    BY DEF LogInv, Shaped, Inv, Fetched
  <2>2. i < TotalSegments /\ i \in Nat /\ TotalSegments \in Nat /\ batch.rep \in Ladder
    BY <2>1, DurationAssumption DEF TypeOK, BatchShaped
  <2>3. m \in 1 .. TotalSegments - i
    BY <2>1, <2>2, BatchSizeBounds
  <2>4. QED
    BY <2>2, <2>3
<1>4. (i' - 1) \div PrefetchDepth = i \div PrefetchDepth
  <2>1. i + m \in i + 1 .. i + m
    BY <1>1
  <2>2. QED
    BY <1>1, <1>2, <2>1
<1>5. ASSUME NEW n \in 1 .. i PROVE Size(n) = 0
  BY <1>2, <1>4
<1>6. ASSUME NEW k \in 1 .. m
      PROVE  Cost(k) \in Nat /\ Size(i + k) = Cost(k)
  <2>1. i + k \in i + 1 .. i + m /\ (i + k) - 1 = i + k - 1 /\ i + k - 1 \in 0 .. TotalSegments - 1
    BY <1>1, <1>3, DurationAssumption
  <2>2. SizeAt(k) = SegmentSizes[batch.rep][i + k - 1] /\ SizeAt(k) \in Nat
    BY <1>3, <2>1, ManifestAssumption DEF SizeAt
  <2>3. Cost(k) \in Nat
    BY <2>2
  <2>4. CASE i + k - 1 \in batch.hits
    BY <1>1, <2>1, <2>4
  <2>5. CASE i + k - 1 \notin batch.hits
    <3>1. Missed(i + k)
      BY <1>1, <1>2, <1>4, <2>1, <2>5
    <3>2. segments'[i + k].bitrate = batch.rep /\ segments'[i + k].index = i + k - 1
      BY <1>1, <2>1
    <3> HIDE DEF Missed
    <3>3. QED
      BY <2>2, <2>3, <2>5, <3>1, <3>2
  <2>6. QED
    BY <2>3, <2>4, <2>5
<1> HIDE DEF Missed, Size, Cost
<1>7. ASSUME NEW n \in 1 .. i + m PROVE Size(n) \in Nat
  <2>1. CASE n \in 1 .. i
    BY <1>5, <2>1
  <2>2. CASE n \notin 1 .. i
    <3>1. n - i \in 1 .. m /\ i + (n - i) = n
      BY <1>1, <2>2
    <3>2. QED
      BY <1>6, <3>1
  <2>3. QED
    BY <2>1, <2>2
<1>8. /\ s \in Seq(Nat) /\ t \in Seq(Nat) /\ Len(s) = i + m /\ Len(t) = m
      /\ \A n \in 1 .. i + m : s[n] = Size(n)
      /\ \A k \in 1 .. m : t[k] = Cost(k)
  BY <1>1, <1>6, <1>7
<1>9. Transferred = SumOf(t)
  BY DEF Transferred, Cost
<1>10. SumOf([n \in DOMAIN segments' |-> Size(n)]) = SumOf(s)
  BY <1>1
<1> HIDE DEF s, t
<1>11. SumOf(s) = SumOf(t)
  <2>1. \A n \in 1 .. i : s[n] = 0
    BY <1>1, <1>5, <1>8
  <2>2. \A k \in 1 .. Len(t) : s[i + k] = t[k]
    <3>1. ASSUME NEW k \in 1 .. m PROVE s[i + k] = t[k]
      <4>1. i + k \in 1 .. i + m
        BY <1>1
      <4>2. QED
        BY <1>6, <1>8, <4>1
    <3>2. QED
      BY <1>8, <3>1
  <2>3. QED
    BY <1>1, <1>8, <2>1, <2>2, SumAfterZeros
<1>12. SumOf(t) \in Nat
  BY <1>8, SumToUnfolds, LenProperties DEF SumOf
<1>13. QED
  BY <1>9, <1>10, <1>11, <1>12 DEF Size, Missed

\* What crossed the transport is the last sample.
LEMMA SamplesKept ==
  ASSUME LogInv, NEW fetchTime, Fetched(fetchTime)
  PROVE  SamplesExcludeHits' /\ history' \in Seq(Samples)
<1> DEFINE sample == [bytes |-> Transferred, time |-> fetchTime]
           all == Append(history, sample)
           from == IF Len(all) > 20 THEN Len(all) - 19 ELSE 1
<1>1. history \in Seq(Samples)
  BY DEF LogInv, Logged
<1>2. Transferred \in Nat
  BY MissedIsTransferred
<1>3. fetchTime \in Nat \ {0}
  BY DEF Fetched
<1>4. sample \in Samples /\ sample.bytes = Transferred
  BY <1>2, <1>3 DEF Samples
<1>5. history' = IF fetchTime > 0 /\ Transferred > 0 THEN SubSeq(all, from, Len(all)) ELSE history
  BY DEF Fetched, NewHistory
<1> HIDE DEF sample
<1>6. /\ all \in Seq(Samples) /\ Len(all) = Len(history) + 1 /\ Len(history) \in Nat
      /\ all[Len(all)] = sample
  BY <1>1, <1>4, AppendProperties, LenProperties
<1> HIDE DEF all
<1>7. from \in 1 .. Len(all) /\ Len(all) \in 1 .. Len(all)
  BY <1>6
<1> HIDE DEF from
<1>8. Transferred > 0 =>
        /\ history' \in Seq(Samples) /\ history' # << >>
        /\ history'[Len(history')] = sample
  <2> SUFFICES ASSUME Transferred > 0
               PROVE  /\ history' \in Seq(Samples) /\ history' # << >>
                      /\ history'[Len(history')] = sample
    OBVIOUS
  <2> DEFINE len == Len(all) - from + 1
  <2>1. history' = SubSeq(all, from, Len(all))
    <3>1. fetchTime > 0
      BY <1>3
    <3>2. QED
      BY <1>5, <3>1
  <2>2. from \in 1 .. Len(all) + 1 /\ Len(all) \in from - 1 .. Len(all) /\ from \in Int
    BY <1>6, <1>7
  <2>3. /\ history' \in Seq(Samples) /\ Len(history') = len
        /\ \A k \in 1 .. len : history'[k] = all[from + k - 1]
    BY <1>6, <2>1, <2>2, SubSeqProperties
  <2>4. len \in 1 .. len /\ from + len - 1 = Len(all) /\ len # 0
    BY <1>6, <1>7
  <2>5. history'[len] = sample
    BY <1>6, <2>3, <2>4
  <2>6. history' # << >>
    BY <2>3, <2>4
  <2>7. QED
    BY <2>3, <2>5, <2>6
<1>9. history' \in Seq(Samples)
  BY <1>1, <1>2, <1>3, <1>5, <1>8
<1>10. Transferred > 0 => history' # << >> /\ history'[Len(history')].bytes = Transferred
  BY <1>4, <1>8
<1>11. SamplesExcludeHits'
  BY <1>10, MissedIsTransferred DEF SamplesExcludeHits
<1>12. QED
  BY <1>9, <1>11

\* A batch keeps what the next one relies on.
LEMMA LoggedKept ==
  ASSUME LogInv, NEW fetchTime, Fetched(fetchTime)
  PROVE  Logged'
<1>1. /\ BatchSize \in 1 .. PrefetchDepth /\ i \in Nat /\ i' = i + BatchSize
      /\ \A n \in i + 1 .. i + BatchSize : segments'[n].bitrate = batch.rep
  BY NewEntries
<1>2. i' < TotalSegments => i' % PrefetchDepth = 0
  <2> SUFFICES ASSUME i' < TotalSegments PROVE i' % PrefetchDepth = 0
    OBVIOUS
  <2>1. i' = i + PrefetchDepth
    BY <1>1, DurationAssumption DEF BatchSize
  <2>2. i % PrefetchDepth = 0
    BY DEF LogInv, Logged, Fetched
  <2>3. PrefetchDepth \in Nat \ {0}
    BY DurationAssumption
  <2>4. (i + PrefetchDepth) % PrefetchDepth = 0
    BY <1>1, <2>2, <2>3, InBatch
  <2>5. QED
    BY <2>1, <2>4
<1>3. i' > 0 /\ currentBitrate' = segments'[i'].bitrate /\ currentBitrate' \in Ladder
  <2>1. i + BatchSize \in i + 1 .. i + BatchSize /\ i + BatchSize > 0
    BY <1>1
  <2>2. batch.rep \in Ladder
    BY DEF LogInv, Shaped, BatchShaped, Fetched
  <2>3. QED
    BY <1>1, <2>1, <2>2 DEF Fetched
<1>4. QED
  BY <1>1, <1>2, <1>3, SamplesKept DEF Logged

\* A session that has not fetched anything has an empty log.
Fresh ==
  /\ i = 0 /\ segments = << >> /\ history = << >> /\ ~playbackStarted /\ buffer = 0
  /\ currentBitrate = 0 /\ bitrateChanges = 0 /\ rebufferCount = 0 /\ batch = NoBatch
  /\ pc \in {"idle", "loop"}

LEMMA FreshLog == Fresh => Logged /\ SessionLog
<1> SUFFICES ASSUME Fresh PROVE Logged /\ SessionLog
  OBVIOUS
<1> USE DEF Fresh
<1>1. Len(segments) = 0 /\ DOMAIN segments = {} /\ 2 .. 0 = {}
  OBVIOUS
<1>2. Cardinality({}) = 0
  BY FS_EmptySet
<1>3. RebufferTags
  BY <1>1, <1>2 DEF RebufferTags
<1>4. LogChains
  BY <1>1 DEF LogChains
<1>5. ChangesMatchLog
  <2>1. { n \in 2 .. Len(segments) : segments[n].bitrate # segments[n - 1].bitrate } = {}
    BY <1>1
  <2>2. QED
    BY <1>2, <2>1 DEF ChangesMatchLog
<1>6. SamplesExcludeHits
  <2> DEFINE Missed(n) == /\ ~segments[n].cacheHit
                          /\ (n - 1) \div PrefetchDepth = (i - 1) \div PrefetchDepth
             missed == [n \in DOMAIN segments |->
                          IF Missed(n) THEN SegmentSizes[segments[n].bitrate][segments[n].index]
                          ELSE 0]
  <2>1. missed = << >>
    BY <1>1
  <2>2. SumOf(missed) = 0
    <3>1. << >> \in Seq(Nat) /\ Len(<< >>) = 0
      OBVIOUS
    <3>2. SumTo(<< >>, 0) = 0
      BY <3>1, SumToUnfolds
    <3> HIDE DEF missed
    <3>3. QED
      BY <2>1, <3>1, <3>2 DEF SumOf
  <2>3. QED
    BY <2>2 DEF SamplesExcludeHits
<1>7. Logged
  <2>1. i % PrefetchDepth = 0
    BY DurationAssumption
  <2>2. history \in Seq(Samples)
    OBVIOUS
  <2>3. QED
    BY <2>1, <2>2 DEF Logged
<1>8. QED
  BY <1>3, <1>4, <1>5, <1>6, <1>7 DEF SessionLog

\* A step that leaves the player and its log alone leaves the story alone.
LEMMA LogUnchanged ==
  ASSUME UNCHANGED <<segments, i, buffer, rebufferCount, bitrateChanges, history>>, SessionLog
  PROVE  SessionLog'
<1>1. RebufferTags'
  BY DEF SessionLog, RebufferTags, OpensBatch
<1>2. LogChains'
  BY DEF SessionLog, LogChains, OpensBatch
<1>3. ChangesMatchLog'
  BY DEF SessionLog, ChangesMatchLog
<1>4. SamplesExcludeHits'
  BY DEF SessionLog, SamplesExcludeHits
<1>5. QED
  BY <1>1, <1>2, <1>3, <1>4 DEF SessionLog

\* Every step of a session keeps its log.
LEMMA LogStep == LogInv /\ [Next]_vars => LogInv'
<1> SUFFICES ASSUME LogInv, [Next]_vars PROVE LogInv'
  OBVIOUS
<1> SUFFICES Logged' /\ SessionLog'
  BY StepInv, ShapedStep DEF LogInv
<1>1. ASSUME NEW e \in Edges, NEW name \in Contents, NEW hs \in HandshakeTimes,
             Handshake(e, name, hs)
      PROVE  Logged' /\ SessionLog'
  <2>1. Fresh'
    BY <1>1 DEF Handshake, Fresh, NoBatch
  <2>2. QED
    BY <2>1, FreshLog, PTL
<1>2. CASE SelectBatch
  <2>1. UNCHANGED <<segments, i, buffer, rebufferCount, bitrateChanges, history, playbackStarted,
                    currentBitrate>>
    BY <1>2 DEF SelectBatch, clockVars, logVars
  <2>2. Logged'
    BY <2>1 DEF LogInv, Logged
  <2>3. QED
    BY <2>1, <2>2, LogUnchanged DEF LogInv
<1>3. CASE ShieldHit \/ ShieldMiss
  <2>1. UNCHANGED <<segments, i, buffer, rebufferCount, bitrateChanges, history, playbackStarted,
                    currentBitrate>>
    BY <1>3, Zenon DEF ShieldHit, ShieldMiss, clockVars, logVars
  <2>2. Logged'
    BY <2>1 DEF LogInv, Logged
  <2>3. QED
    BY <2>1, <2>2, LogUnchanged DEF LogInv
<1>4. CASE FetchBatch
  <2>1. PICK fetchTime \in FetchTimes : Fetched(fetchTime)
    BY <1>4, FetchTimesNat DEF FetchBatch, Fetched, LogInv, Inv, TypeOK
  <2>2. QED
    BY <2>1, TagsKept, ChainKept, ChangesKept, SamplesKept, LoggedKept DEF SessionLog
<1>5. CASE Finish \/ Fail \/ UNCHANGED vars
  <2>1. UNCHANGED <<segments, i, buffer, rebufferCount, bitrateChanges, history, playbackStarted,
                    currentBitrate>>
    BY <1>5 DEF Finish, Fail, HandshakeFails, ShieldFails, FetchFails, vars, clockVars, logVars
  <2>2. Logged'
    BY <2>1 DEF LogInv, Logged
  <2>3. QED
    BY <2>1, <2>2, LogUnchanged DEF LogInv
<1>6. QED
  BY <1>1, <1>2, <1>3, <1>4, <1>5 DEF Next, Step

\* The log is kept throughout.
LEMMA LogInvariance == Spec => []LogInv
<1>1. Init => LogInv
  <2> SUFFICES ASSUME Init PROVE LogInv
    OBVIOUS
  <2>1. Fresh
    BY DEF Init, Fresh
  <2>2. QED
    BY <2>1, InitInv, ShapedInit, FreshLog DEF LogInv
<1>2. QED
  BY <1>1, LogStep, PTL DEF Spec

\* For every ABR, manifest, prefetch depth, cache content and sequence of fetch times,
\* the log, the counters and the throughput samples of a session can be derived from
\* each other: stalls are counted once per batch and none before playback started,
\* buffer levels join up, switches are those a viewer sees, and a sample has the bytes
\* that crossed the transport (player.go:232-300).
THEOREM LogTellsOneStory == Spec => []SessionLog
<1>1. LogInv => SessionLog
  BY DEF LogInv
<1>2. QED
  BY LogInvariance, <1>1, PTL

-----------------------------------------------------------------------------
\* The misses of the edges, as the function the definition of their sum chooses.
LEMMA EdgeMissesUnfolds ==
  ASSUME NEW m
  PROVE  EdgeMisses(m) =
           (CHOOSE g : g = [s \in SUBSET Edges |->
                              IF s = {} THEN 0
                              ELSE LET x == CHOOSE x \in s : TRUE IN m[x].misses + g[s \ {x}]])[Edges]
  BY DEF EdgeMisses, MapThenSumSet, MapThenFoldSet

\* They are the bytes of a list with an item for every edge, whose size is its misses.
LEMMA EdgeMissesListed ==
  ASSUME NEW n \in Nat, NEW f \in Bijection(1 .. n, Edges),
         NEW m, \A e \in Edges : m[e].misses \in Nat
  PROVE  EdgeMisses(m) = Bytes([k \in 1 .. n |-> [key |-> f[k], size |-> m[f[k]].misses]])
<1> DEFINE Item(e) == [key |-> e, size |-> m[e].misses]
           R == { Item(e) : e \in Edges }
           list == [k \in 1 .. n |-> Item(f[k])]
           store == [e \in Edges |-> Item(e)]
           Sum(g) == g = [s \in SUBSET Edges |->
                            IF s = {} THEN 0
                            ELSE LET x == CHOOSE x \in s : TRUE IN m[x].misses + g[s \ {x}]]
<1>1. /\ \A k \in 1 .. n : f[k] \in Edges
      /\ \A k, l \in 1 .. n : f[k] = f[l] => k = l
      /\ \A e \in Edges : \E k \in 1 .. n : f[k] = e
  BY DEF Bijection, Injection, Surjection, IsInjective
<1>2. list \in Seq(R) /\ Len(list) = n /\ DOMAIN list = 1 .. n
  BY <1>1
<1>3. \A k \in 1 .. n : list[k] = Item(f[k]) /\ list[k].key = f[k]
  OBVIOUS
<1>4. \A x \in R : x.size \in Nat
  OBVIOUS
<1>5. Distinct(list)
  BY <1>1, <1>2, <1>3 DEF Distinct
<1>6. KeysOf(list) = Edges
  BY <1>1, <1>2, <1>3 DEF KeysOf
<1>7. \A k \in DOMAIN list : store[list[k].key] = list[k]
  BY <1>1, <1>2, <1>3
<1>8. \A e \in Edges : store[e].size = m[e].misses
  OBVIOUS
<1> HIDE DEF R, list, store
<1>9. /\ \E g : SumsUp(g, store, Edges)
      /\ \A g : SumsUp(g, store, Edges) => g[Edges] = Bytes(list)
  BY <1>2, <1>4, <1>5, <1>6, <1>7, SumByKey
<1>10. ASSUME NEW g PROVE Sum(g) <=> SumsUp(g, store, Edges)
  <2>1. \A s \in SUBSET Edges : s # {} => (CHOOSE x \in s : TRUE) \in Edges
    OBVIOUS
  <2>2. [s \in SUBSET Edges |-> IF s = {} THEN 0
                                ELSE LET x == CHOOSE x \in s : TRUE IN m[x].misses + g[s \ {x}]]
        = [s \in SUBSET Edges |-> IF s = {} THEN 0
                                  ELSE LET x == CHOOSE x \in s : TRUE IN store[x].size + g[s \ {x}]]
    BY <1>8, <2>1
  <2>3. QED
    BY <2>2 DEF SumsUp
<1>11. (CHOOSE g : Sum(g))[Edges] = Bytes(list)
  <2> HIDE DEF Sum
  <2>1. SumsUp(CHOOSE g : Sum(g), store, Edges)
    BY <1>9, <1>10
  <2>2. QED
    BY <1>9, <2>1
<1>12. QED
  BY <1>11, EdgeMissesUnfolds DEF list

\* When one edge misses more, so do the edges together.
LEMMA EdgeMissesGrow ==
  ASSUME NEW m, \A e \in Edges : m[e].misses \in Nat, NEW edge \in Edges, NEW more \in Nat,
         NEW m2, m2[edge].misses = m[edge].misses + more,
         \A e \in Edges : e # edge => m2[e].misses = m[e].misses
  PROVE  EdgeMisses(m2) = EdgeMisses(m) + more /\ EdgeMisses(m) \in Nat
<1>0. PICK n \in Nat : ExistsBijection(1 .. n, Edges)
  BY EdgesAssumption, FS_NatBijection
<1>1. PICK f : f \in Bijection(1 .. n, Edges)
  BY <1>0 DEF ExistsBijection
<1> DEFINE Items == [key : Edges, size : Nat] \cup {Nothing}
           s == [k \in 1 .. n |-> [key |-> f[k], size |-> m[f[k]].misses]]
           t == [k \in 1 .. n |-> [key |-> f[k], size |-> m2[f[k]].misses]]
<1>2. PICK p \in 1 .. n : f[p] = edge
  BY <1>1 DEF Bijection, Surjection
<1> DEFINE u == [s EXCEPT ![p] = Nothing]
<1>3. \A k \in 1 .. n : f[k] \in Edges /\ (f[k] = edge => k = p)
  BY <1>1, <1>2 DEF Bijection, Injection, Surjection, IsInjective
<1>4. \A e \in Edges : m2[e].misses \in Nat
  <2>1. m[edge].misses + more \in Nat
    OBVIOUS
  <2>2. QED
    BY <2>1
<1>5. EdgeMisses(m) = Bytes(s) /\ EdgeMisses(m2) = Bytes(t)
  BY <1>1, <1>4, EdgeMissesListed
<1>6. /\ s \in Seq(Items) /\ t \in Seq(Items) /\ u \in Seq(Items)
      /\ Len(s) = n /\ Len(t) = n /\ Len(u) = n
  BY <1>3, <1>4
<1>7. /\ s[p].size = m[edge].misses /\ t[p].size = m2[edge].misses /\ u[p] = Nothing
      /\ \A k \in 1 .. n : k # p => u[k] = s[k] /\ u[k] = t[k]
  <2>1. \A k \in 1 .. n : k # p => m2[f[k]].misses = m[f[k]].misses
    BY <1>3
  <2>2. QED
    BY <1>2, <2>1
<1>8. (\A x \in Items : x.size \in Nat) /\ Nothing.size = 0
  BY DEF Nothing
<1> HIDE DEF Items, s, t, u
<1>9. Bytes(s) = s[p].size + Bytes(u) /\ Bytes(u) \in Nat
  <2>1. /\ Len(u) = Len(s) /\ p \in 1 .. Len(s) /\ u[p].size = 0
        /\ \A k \in 1 .. Len(s) : k # p => u[k] = s[k]
    BY <1>6, <1>7, <1>8
  <2>2. QED
    BY <1>6, <1>8, <2>1, BytesFill
<1>10. Bytes(t) = t[p].size + Bytes(u)
  <2>1. /\ Len(u) = Len(t) /\ p \in 1 .. Len(t) /\ u[p].size = 0
        /\ \A k \in 1 .. Len(t) : k # p => u[k] = t[k]
    BY <1>6, <1>7, <1>8
  <2>2. QED
    BY <1>6, <1>8, <2>1, BytesFill
<1>11. QED
  <2>1. m[edge].misses \in Nat
    OBVIOUS
  <2>2. QED
    BY <1>5, <1>7, <1>9, <1>10, <2>1

\* Edges that have missed nothing have missed nothing together.
LEMMA NoEdgeMisses ==
  ASSUME NEW m, \A e \in Edges : m[e].misses = 0
  PROVE  EdgeMisses(m) = 0
<1>0. PICK n \in Nat : ExistsBijection(1 .. n, Edges)
  BY EdgesAssumption, FS_NatBijection
<1>1. PICK f : f \in Bijection(1 .. n, Edges)
  BY <1>0 DEF ExistsBijection
<1> DEFINE Items == [key : Edges, size : Nat]
           s == [k \in 1 .. n |-> [key |-> f[k], size |-> m[f[k]].misses]]
<1>2. \A k \in 1 .. n : f[k] \in Edges
  BY <1>1 DEF Bijection, Surjection
<1>3. s \in Seq(Items) /\ Len(s) = n /\ \A k \in 1 .. n : s[k].size = 0
  <2>1. \A k \in 1 .. n : m[f[k]].misses = 0
    BY <1>2
  <2>2. \A k \in 1 .. n : [key |-> f[k], size |-> m[f[k]].misses] \in Items
    BY <1>2, <2>1
  <2> HIDE DEF Items
  <2>3. s \in Seq(Items) /\ Len(s) = n
    BY <2>2
  <2>4. \A k \in 1 .. n : s[k].size = 0
    BY <2>1
  <2>5. QED
    BY <2>3, <2>4
<1>4. \A x \in Items : x.size \in Nat
  OBVIOUS
<1>5. EdgeMisses(m) = Bytes(s)
  BY <1>1, EdgeMissesListed
<1> HIDE DEF Items, s
<1>6. QED
  BY <1>3, <1>4, <1>5, BytesOfNothing

-----------------------------------------------------------------------------
\* The shield counts, and the edge still has the hits of the batch under way when its
\* misses arrive.
Tiered ==
  /\ Counting(shield) /\ batch.asked \in Nat
  /\ pc \in {"shield", "fetch"} =>
       \A n \in batch.hits : Key(n, batch.rep) \in CachedKeys(cacheType, Cache)
TierInv == LogInv /\ Tiered /\ TiersAgree

\* The edges count their misses.
LEMMA MissesCounted ==
  ASSUME Shaped, at \in Edges
  PROVE  /\ CacheSound(cacheType, EdgeWorld, Cache)
         /\ \A e \in Edges : edgeCaches[e].misses \in Nat
         /\ EdgeMisses(edgeCaches) \in Nat
<1>1. \A e \in Edges : CacheSound(cacheType, EdgeWorld, edgeCaches[e])
  BY DEF Shaped, CachesShaped
<1>2. \A e \in Edges : edgeCaches[e].misses \in Nat
  BY <1>1, CacheCounters
<1>3. edgeCaches[at].misses = edgeCaches[at].misses + 0
  BY <1>2
<1>4. EdgeMisses(edgeCaches) \in Nat
  BY <1>2, <1>3, EdgeMissesGrow
<1>5. QED
  BY <1>1, <1>2, <1>4 DEF Cache

\* The next session starts with the caches as they are and an empty log.
LEMMA HandshakeTiers ==
  ASSUME TierInv, NEW e \in Edges, NEW name \in Contents, NEW hs \in HandshakeTimes,
         Handshake(e, name, hs)
  PROVE  Tiered' /\ TiersAgree'
<1>1. /\ segments' = << >> /\ edgeCaches' = edgeCaches /\ shield' = shield
      /\ pc = "idle" /\ pc' = "loop" /\ batch'.asked = 0
  BY DEF Handshake, NoBatch
<1>2. Tiered'
  BY <1>1 DEF TierInv, Tiered
<1>3. AskedOnce'
  BY <1>1 DEF TierInv, TiersAgree, AskedOnce
<1>4. DeliveredIsCached'
  BY <1>1 DEF DeliveredIsCached
<1>5. QED
  BY <1>2, <1>3, <1>4 DEF TiersAgree

\* A step that moves no segment keeps the agreement, or fails the run.
LEMMA StillTiers ==
  ASSUME TierInv, UNCHANGED <<segments, edgeCaches, batch, at, content, i, cacheType>>,
         Counting(shield'),
         \/ pc' = "failed"
         \/ shield' = shield /\ (pc' = pc \/ (pc = "loop" /\ pc' = "idle"))
  PROVE  Tiered' /\ TiersAgree'
<1>1. Tiered'
  BY DEF TierInv, Tiered, Cache, Key
<1>2. DeliveredIsCached'
  BY DEF TierInv, TiersAgree, DeliveredIsCached, Cache, Key
<1>3. Misses' = Misses
  BY DEF Misses, BatchSize
<1>4. AskedOnce'
  BY <1>3 DEF TierInv, TiersAgree, AskedOnce
<1>5. QED
  BY <1>1, <1>2, <1>4 DEF TiersAgree

\* An answer of the shield settles one of the misses the edge has counted.
LEMMA ShieldTiers ==
  ASSUME TierInv, ShieldHit \/ ShieldMiss
  PROVE  Tiered' /\ TiersAgree'
<1>1. /\ UNCHANGED <<session, clockVars, logVars, edgeCaches>> /\ pc = "shield"
      /\ pc' = IF Asking = Len(Misses) THEN "fetch" ELSE "shield"
      /\ \E shieldHits, upstream :
           batch' = [batch EXCEPT !.asked = Asking, !.shieldHits = shieldHits, !.upstream = upstream]
      /\ \/ IsHit(shield, AskedKey, Now) /\ shield' = Get(shield, AskedKey, Now)
         \/ ~IsHit(shield, AskedKey, Now) /\ \E item : shield' = Put(Get(shield, AskedKey, Now), item)
  <2>1. BatchShaped
    BY DEF TierInv, LogInv, Shaped
  <2>2. CASE ShieldHit
    <3>1. /\ UNCHANGED <<session, clockVars, logVars, edgeCaches>> /\ pc = "shield"
          /\ pc' = IF Asking = Len(Misses) THEN "fetch" ELSE "shield"
          /\ IsHit(shield, AskedKey, Now) /\ shield' = Get(shield, AskedKey, Now)
      BY <2>2, Zenon DEF ShieldHit
    <3>2. batch' = [batch EXCEPT !.asked = Asking,
                                 !.shieldHits = batch.shieldHits \cup {Misses[Asking]},
                                 !.upstream = Max({batch.upstream, ShieldHitLatency})]
      BY <2>2, Zenon DEF ShieldHit
    <3>3. QED
      BY <3>1, <3>2, Zenon
  <2>3. CASE ShieldMiss
    <3>1. /\ UNCHANGED <<session, clockVars, logVars, edgeCaches>> /\ pc = "shield"
          /\ pc' = IF Asking = Len(Misses) THEN "fetch" ELSE "shield"
          /\ ~IsHit(shield, AskedKey, Now)
          /\ \E item : shield' = Put(Get(shield, AskedKey, Now), item)
      BY <2>3, Zenon DEF ShieldMiss
    <3>2. \E latency : batch' = [batch EXCEPT !.asked = Asking,
                                              !.upstream = Max({batch.upstream, latency})]
      BY <2>3, Zenon DEF ShieldMiss
    <3>3. \E upstream : batch' = [batch EXCEPT !.asked = Asking, !.upstream = upstream]
      BY <3>2, Zenon
    <3>4. \E shieldHits, upstream :
            batch' = [batch EXCEPT !.asked = Asking, !.shieldHits = shieldHits, !.upstream = upstream]
      <4>1. PICK upstream : batch' = [batch EXCEPT !.asked = Asking, !.upstream = upstream]
        BY <3>3, Zenon
      <4>2. batch' = [batch EXCEPT !.asked = Asking, !.shieldHits = batch.shieldHits,
                                   !.upstream = upstream]
        BY <2>1, <4>1 DEF BatchShaped
      <4>3. QED
        BY <4>2, Zenon
    <3>5. QED
      BY <3>1, <3>4, Zenon
  <2>4. QED
    BY <2>2, <2>3, Zenon
<1>2. batch'.asked = batch.asked + 1 /\ batch'.hits = batch.hits /\ batch'.rep = batch.rep
  <2>1. BatchShaped
    BY DEF TierInv, LogInv, Shaped
  <2>2. QED
    BY <1>1, <2>1 DEF Asking, BatchShaped
<1>3. Counting(shield') /\ shield'.hits + shield'.misses = shield.hits + shield.misses + 1
  <2> DEFINE got == Get(shield, AskedKey, Now)
  <2>1. Counting(shield) /\ shield.hits \in Nat /\ shield.misses \in Nat
    BY DEF TierInv, Tiered, Counting
  <2>2. /\ Counting(got)
        /\ got.hits = IF IsHit(shield, AskedKey, Now) THEN shield.hits + 1 ELSE shield.hits
        /\ got.misses = IF IsHit(shield, AskedKey, Now) THEN shield.misses ELSE shield.misses + 1
    BY <2>1, GetCounts
  <2> HIDE DEF got
  <2>3. CASE IsHit(shield, AskedKey, Now) /\ shield' = got
    BY <2>1, <2>2, <2>3
  <2>4. CASE ~IsHit(shield, AskedKey, Now) /\ \E item : shield' = Put(got, item)
    <3>1. PICK item : shield' = Put(got, item)
      BY <2>4
    <3>2. Counting(shield') /\ shield'.hits = got.hits /\ shield'.misses = got.misses
      BY <2>2, <3>1, PutCounts
    <3>3. QED
      BY <2>1, <2>2, <2>4, <3>2
  <2>5. QED
    BY <1>1, <2>3, <2>4 DEF got
<1>4. Tiered'
  <2>1. batch'.asked \in Nat
    BY <1>2 DEF TierInv, Tiered
  <2>2. QED
    BY <1>1, <1>2, <1>3, <2>1 DEF TierInv, Tiered, Cache, Key, session
<1>5. DeliveredIsCached'
  BY <1>1 DEF TierInv, TiersAgree, DeliveredIsCached, Cache, Key, session, logVars
<1>6. AskedOnce'
  <2> SUFFICES ASSUME ShieldOn, CacheOn
               PROVE  shield'.hits + shield'.misses =
                        EdgeMisses(edgeCaches)
                          - (IF pc' = "shield" THEN Len(Misses) - batch'.asked ELSE 0)
    <3>1. Misses' = Misses
      BY <1>1, <1>2 DEF Misses, BatchSize, clockVars
    <3>2. QED
      BY <1>1, <3>1 DEF AskedOnce
  <2>1. shield.hits + shield.misses = EdgeMisses(edgeCaches) - (Len(Misses) - batch.asked)
    BY <1>1 DEF TierInv, TiersAgree, AskedOnce
  <2>2. Len(Misses) \in Nat
    <3>1. TypeOK /\ i < TotalSegments
      BY <1>1 DEF TierInv, LogInv, Inv, TypeOK
    <3>2. QED
      BY <3>1, MissesKnown
  <2>3. batch.asked \in Nat /\ EdgeMisses(edgeCaches) \in Nat
    <3>1. EdgeMisses(edgeCaches) \in Nat
      BY MissesCounted DEF TierInv, LogInv, Inv, TypeOK
    <3>2. QED
      BY <3>1 DEF TierInv, Tiered
  <2>4. CASE batch.asked + 1 = Len(Misses)
    <3>1. pc' # "shield"
      BY <1>1, <2>4 DEF Asking
    <3>2. QED
      BY <1>3, <2>1, <2>2, <2>3, <2>4, <3>1
  <2>5. CASE batch.asked + 1 # Len(Misses)
    <3>1. pc' = "shield"
      BY <1>1, <2>5 DEF Asking
    <3>2. QED
      BY <1>2, <1>3, <2>1, <2>2, <2>3, <3>1
  <2>6. QED
    BY <2>4, <2>5
<1>7. QED
  BY <1>4, <1>5, <1>6 DEF TiersAgree

\* Looking a batch up counts its misses at the edge, for the shield to be asked for, and
\* costs no segment that has been delivered, nor one of the hits.
LEMMA SelectTiers ==
  ASSUME TierInv, SelectBatch
  PROVE  Tiered' /\ TiersAgree'
<1>1. PICK rep \in Ladder :
        /\ batch'.rep = rep /\ batch'.hits = CachedInBatch(rep) /\ batch'.asked = 0
        /\ edgeCaches' = IF CacheOn
             THEN [edgeCaches EXCEPT ![at] = LookUpBatch(@, rep)]
             ELSE edgeCaches
        /\ pc' = IF ShieldOn /\ Cardinality(CachedInBatch(rep)) < BatchSize
                 THEN "shield" ELSE "fetch"
  BY Selected, Zenon
<1>2. pc = "loop" /\ i < TotalSegments /\ UNCHANGED <<session, clockVars, logVars, shield>>
  BY Zenon DEF SelectBatch
<1> DEFINE places == i .. i + BatchSize - 1
           cached == CachedInBatch(rep)
           missing == places \ cached
<1>3. UNCHANGED <<segments, at, content, cacheType, i, shield, BatchSize>>
  BY <1>2 DEF session, clockVars, logVars, BatchSize
<1>4. /\ i \in Nat /\ BatchSize \in Nat /\ at \in Edges
      /\ \A n, m : Key(n, rep) = Key(m, rep) => n = m
  BY <1>2, BatchKeys DEF TierInv, LogInv, Inv
<1>5. cached \subseteq places
  BY DEF CachedInBatch
<1>6. CASE ~CacheOn
  <2>1. edgeCaches' = edgeCaches /\ cached = {}
    BY <1>1, <1>6 DEF CachedInBatch
  <2> HIDE DEF cached
  <2>2. Tiered'
    BY <1>1, <1>3, <2>1 DEF TierInv, Tiered, cached
  <2>3. QED
    BY <1>6, <2>2 DEF TiersAgree, AskedOnce, DeliveredIsCached
<1>7. CASE CacheOn
  <2> DEFINE d == LookUpBatch(Cache, rep)
             held == CachedKeys(cacheType, d)
  <2>1. CacheSound(cacheType, EdgeWorld, Cache) /\ EdgeMisses(edgeCaches) \in Nat
        /\ \A e \in Edges : edgeCaches[e].misses \in Nat
    BY <1>4, MissesCounted DEF TierInv, LogInv
  <2>2. /\ CacheSound(cacheType, EdgeWorld, d) /\ d.evictions = Cache.evictions
        /\ d.misses = Cache.misses + Cardinality(missing) /\ Cardinality(missing) \in Nat
        /\ \A n \in cached : Key(n, rep) \in held
        /\ \A key \in CachedKeys(cacheType, Cache) :
             (\A n \in places : Key(n, rep) # key) => key \in held
    BY <1>2, <1>7, <2>1, BatchLookedUp DEF TierInv, LogInv, Inv
  <2> HIDE DEF d, cached
  <2>3. edgeCaches' = [edgeCaches EXCEPT ![at] = d]
    BY <1>1, <1>7 DEF d, Cache
  <2>4. Cache' = d /\ \A e \in Edges : edgeCaches'[e] = IF e = at THEN d ELSE edgeCaches[e]
    <3>1. edgeCaches = [e \in Edges |-> edgeCaches[e]]
      BY DEF TierInv, LogInv, Shaped, CachesShaped
    <3>2. QED
      BY <1>3, <1>4, <2>3, <3>1 DEF Cache
  <2>5. Tiered'
    <3>1. Counting(shield') /\ batch'.asked \in Nat
      BY <1>1, <1>3 DEF TierInv, Tiered
    <3>2. batch'.hits = cached /\ batch'.rep = rep
      BY <1>1 DEF cached
    <3>3. CachedKeys(cacheType, Cache)' = held /\ content' = content
      BY <1>3, <2>4
    <3> DEFINE after == CachedKeys(cacheType, Cache)'
    <3>4. after = held
      BY <3>3
    <3>5. Tiered' <=> /\ Counting(shield') /\ batch'.asked \in Nat
                      /\ pc' \in {"shield", "fetch"} =>
                           \A n \in batch'.hits : <<content', n, batch'.rep>> \in after
      BY DEF Tiered, Key
    <3> HIDE DEF after, held
    <3>6. \A n \in batch'.hits : <<content', n, batch'.rep>> \in after
      BY <2>2, <3>2, <3>3, <3>4 DEF Key, held
    <3>7. QED
      BY <3>1, <3>5, <3>6
  <2>6. DeliveredIsCached'
    <3> SUFFICES ASSUME d.evictions = 0, NEW n \in DOMAIN segments,
                        ~(SegmentSizes[segments[n].bitrate][segments[n].index] > CacheBytes)
                 PROVE  Key(segments[n].index, segments[n].bitrate) \in held
      BY <1>3, <2>4 DEF DeliveredIsCached, Key
    <3>1. Key(segments[n].index, segments[n].bitrate) \in CachedKeys(cacheType, Cache)
      BY <1>7, <2>2 DEF TierInv, TiersAgree, DeliveredIsCached
    <3>2. segments[n].index \in Nat /\ segments[n].index < i
      <4>1. Len(segments) = i /\ \A m \in DOMAIN segments : segments[m].index = m - 1
        BY DEF TierInv, LogInv, SessionLog, LogChains
      <4>2. DOMAIN segments = 1 .. i
        <5>1. PICK S : segments \in Seq(S)
          BY DEF TierInv, LogInv, Shaped, LogShaped
        <5>2. QED
          BY <4>1, <5>1, LenProperties
      <4>3. QED
        BY <1>4, <4>1, <4>2
    <3>3. \A m \in places : Key(m, rep) # Key(segments[n].index, segments[n].bitrate)
      <4>1. \A m \in places : m # segments[n].index
        BY <1>4, <3>2
      <4>2. QED
        BY <4>1 DEF Key
    <3>4. QED
      BY <2>2, <3>1, <3>3
  <2>7. AskedOnce'
    <3> SUFFICES ASSUME ShieldOn
                 PROVE  shield.hits + shield.misses =
                          EdgeMisses(edgeCaches')
                            - (IF pc' = "shield" THEN Len(Misses)' - 0 ELSE 0)
      BY <1>1, <1>3 DEF AskedOnce
    <3>1. shield.hits + shield.misses = EdgeMisses(edgeCaches)
      <4>1. shield.hits + shield.misses = EdgeMisses(edgeCaches) - 0
        BY <1>2, <1>7 DEF TierInv, TiersAgree, AskedOnce
      <4>2. shield.hits + shield.misses \in Nat
        BY DEF TierInv, Tiered, Counting
      <4>3. QED
        BY <2>1, <4>1, <4>2
    <3>2. EdgeMisses(edgeCaches') = EdgeMisses(edgeCaches) + Cardinality(missing)
      <4>1. /\ edgeCaches'[at].misses = edgeCaches[at].misses + Cardinality(missing)
            /\ \A e \in Edges : e # at => edgeCaches'[e].misses = edgeCaches[e].misses
        BY <1>4, <2>2, <2>4 DEF Cache
      <4> HIDE DEF missing
      <4>2. QED
        BY <1>4, <2>1, <2>2, <4>1, EdgeMissesGrow
    <3>3. Len(Misses)' = Cardinality(missing)
      <4>1. (TypeOK /\ i < TotalSegments)'
        <5>1. TypeOK'
          <6>1. [Next]_vars
            BY DEF Next, Step
          <6>2. QED
            BY <6>1, StepInv DEF TierInv, LogInv, Inv
        <5>2. QED
          BY <1>2, <1>3, <5>1
      <4>2. MissesListed'
        BY <4>1, MissesAll, PTL
      <4>3. QED
        BY <1>1, <1>3, <4>2 DEF MissesListed, cached
    <3>4. ASSUME pc' # "shield" PROVE Cardinality(missing) = 0
      <4>1. ~(Cardinality(cached) < BatchSize)
        BY <1>1, <3>4 DEF cached
      <4>2. IsFiniteSet(places) /\ Cardinality(places) = BatchSize
        <5>1. i + BatchSize - 1 \in Int /\ i \in Int
          BY <1>4
        <5>2. IsFiniteSet(places) /\ Cardinality(places) =
                IF i > i + BatchSize - 1 THEN 0 ELSE (i + BatchSize - 1) - i + 1
          BY <5>1, FS_Interval
        <5>3. QED
          BY <1>4, <5>2
      <4> HIDE DEF places
      <4>3. IsFiniteSet(cached) /\ Cardinality(cached) <= BatchSize
            /\ (Cardinality(places) = Cardinality(cached) => places = cached)
        BY <1>5, <4>2, FS_Subset
      <4>4. Cardinality(cached) \in Nat
        BY <4>3, FS_CardinalityType
      <4>5. places = cached
        BY <1>4, <4>1, <4>2, <4>3, <4>4
      <4>6. missing = {}
        BY <4>5
      <4>7. QED
        BY <4>6, FS_EmptySet
    <3> HIDE DEF missing
    <3>5. QED
      BY <2>1, <2>2, <3>1, <3>2, <3>3, <3>4
  <2>8. QED
    BY <2>5, <2>6, <2>7 DEF TiersAgree
<1>8. QED
  BY <1>6, <1>7

\* A batch that arrives misses nothing more, and leaves every segment of it in the cache
\* that is not larger than the cache, unless something is evicted.
LEMMA FetchTiers ==
  ASSUME TierInv, FetchBatch
  PROVE  Tiered' /\ TiersAgree'
<1>1. PICK fetchTime \in FetchTimes : Fetched(fetchTime)
  BY FetchTimesNat DEF FetchBatch, Fetched, TierInv, LogInv, Inv, TypeOK
<1>2. /\ UNCHANGED <<session, batch, shield>> /\ pc = "fetch" /\ pc' = "loop"
      /\ edgeCaches' = IF CacheOn THEN [edgeCaches EXCEPT ![at] = CacheMisses(@)] ELSE edgeCaches
  BY DEF FetchBatch
<1>3. TypeOK /\ i < TotalSegments /\ at \in Edges /\ batch.rep \in Ladder
  BY <1>2 DEF TierInv, LogInv, Inv, TypeOK, Shaped, BatchShaped
<1>4. CASE ~CacheOn
  <2>1. Tiered'
    BY <1>2, <1>4 DEF TierInv, Tiered
  <2>2. QED
    BY <1>4, <2>1 DEF TiersAgree, AskedOnce, DeliveredIsCached
<1>5. CASE CacheOn
  <2> DEFINE d == CacheMisses(Cache)
             held == CachedKeys(cacheType, d)
             missing == (i .. i + BatchSize - 1) \ batch.hits
  <2>1. CacheSound(cacheType, EdgeWorld, Cache) /\ EdgeMisses(edgeCaches) \in Nat
        /\ \A e \in Edges : edgeCaches[e].misses \in Nat
    BY <1>3, MissesCounted DEF TierInv, LogInv
  <2>2. /\ CacheSound(cacheType, EdgeWorld, d)
        /\ d.misses = Cache.misses /\ d.evictions >= Cache.evictions
        /\ d.evictions = Cache.evictions =>
             /\ CachedKeys(cacheType, Cache) \subseteq held
             /\ \A n \in missing :
                  SegmentSizes[batch.rep][n] > CacheBytes \/ Key(n, batch.rep) \in held
    BY <1>3, <2>1, BatchStored
  <2>3. Cache.evictions \in Nat /\ d.evictions \in Nat
    BY <2>1, <2>2, CacheCounters
  <2> HIDE DEF d
  <2>4. /\ \A e \in Edges : edgeCaches'[e] = IF e = at THEN d ELSE edgeCaches[e]
        /\ Cache' = d /\ cacheType' = cacheType /\ content' = content
    <3>1. edgeCaches = [e \in Edges |-> edgeCaches[e]]
      BY DEF TierInv, LogInv, Shaped, CachesShaped
    <3>2. edgeCaches' = [edgeCaches EXCEPT ![at] = d]
      BY <1>2, <1>5 DEF d, Cache
    <3>3. QED
      BY <1>2, <1>3, <3>1, <3>2 DEF Cache, session
  <2>5. Tiered'
    BY <1>2 DEF TierInv, Tiered
  <2>6. AskedOnce'
    <3>1. EdgeMisses(edgeCaches') = EdgeMisses(edgeCaches) + 0
      <4>1. /\ edgeCaches'[at].misses = edgeCaches[at].misses + 0
            /\ \A e \in Edges : e # at => edgeCaches'[e].misses = edgeCaches[e].misses
        BY <1>3, <2>1, <2>2, <2>4 DEF Cache
      <4>2. QED
        BY <1>3, <2>1, <4>1, EdgeMissesGrow
    <3>2. EdgeMisses(edgeCaches') = EdgeMisses(edgeCaches)
      BY <2>1, <3>1
    <3>3. QED
      BY <1>2, <3>2 DEF TierInv, TiersAgree, AskedOnce
  <2>7. DeliveredIsCached'
    <3>1. /\ BatchSize \in Nat /\ i \in Nat
          /\ DOMAIN segments = 1 .. i /\ DOMAIN segments' = 1 .. i + BatchSize
          /\ \A n \in 1 .. i : segments'[n] = segments[n]
          /\ \A n \in i + 1 .. i + BatchSize :
               segments'[n].index = n - 1 /\ segments'[n].bitrate = batch.rep
      BY <1>1, NewEntries DEF TierInv
    <3> SUFFICES ASSUME d.evictions = 0, NEW n \in 1 .. i + BatchSize,
                        ~(SegmentSizes[segments'[n].bitrate][segments'[n].index] > CacheBytes)
                 PROVE  Key(segments'[n].index, segments'[n].bitrate) \in held
      BY <2>4, <3>1 DEF DeliveredIsCached, Key
    <3>2. /\ Cache.evictions = 0 /\ CachedKeys(cacheType, Cache) \subseteq held
          /\ \A m \in missing :
               SegmentSizes[batch.rep][m] > CacheBytes \/ Key(m, batch.rep) \in held
      BY <2>2, <2>3
    <3>3. CASE n \in 1 .. i
      <4>1. Key(segments[n].index, segments[n].bitrate) \in CachedKeys(cacheType, Cache)
        BY <1>5, <3>1, <3>2, <3>3 DEF TierInv, TiersAgree, DeliveredIsCached
      <4>2. QED
        BY <3>1, <3>2, <3>3, <4>1
    <3>4. CASE n \in i + 1 .. i + BatchSize
      <4>1. segments'[n].index = n - 1 /\ segments'[n].bitrate = batch.rep /\ n - 1 \in i .. i + BatchSize - 1
        BY <3>1, <3>4
      <4>2. CASE n - 1 \in batch.hits
        <5>1. Key(n - 1, batch.rep) \in CachedKeys(cacheType, Cache)
          BY <1>2, <4>2 DEF TierInv, Tiered
        <5>2. QED
          BY <3>2, <4>1, <5>1
      <4>3. CASE n - 1 \notin batch.hits
        BY <3>2, <4>1, <4>3
      <4>4. QED
        BY <4>2, <4>3
    <3>5. QED
      BY <3>1, <3>3, <3>4
  <2>8. QED
    BY <2>5, <2>6, <2>7 DEF TiersAgree
<1>6. QED
  BY <1>4, <1>5

\* The tiers agree before the first session: warming up asks for nothing.
LEMMA InitTiers == Init => Tiered /\ TiersAgree
<1> SUFFICES ASSUME Init PROVE Tiered /\ TiersAgree
  OBVIOUS
<1>1. /\ edgeCaches = [e \in Edges |-> WarmCache] /\ shield = NewLRUCache(ShieldBytes)
      /\ segments = << >> /\ pc = "idle" /\ batch = NoBatch
  BY DEF Init
<1>2. Counting(NewLRUCache(ShieldBytes))
  <2>1. NewLRUCache(ShieldBytes).list \in Seq({})
    BY DEF NewLRUCache
  <2>2. QED
    BY <2>1 DEF Counting, NewLRUCache, HasShape, Distinct
<1>3. Tiered
  BY <1>1, <1>2 DEF Tiered, NoBatch
<1>4. AskedOnce
  <2>1. EdgeMisses(edgeCaches) = 0
    BY <1>1, WarmSound, NoEdgeMisses
  <2>2. shield.hits = 0 /\ shield.misses = 0
    BY <1>1 DEF NewLRUCache
  <2>3. QED
    BY <1>1, <2>1, <2>2 DEF AskedOnce
<1>5. DeliveredIsCached
  BY <1>1 DEF DeliveredIsCached
<1>6. QED
  BY <1>3, <1>4, <1>5 DEF TiersAgree

\* Every step keeps the tiers in agreement.
LEMMA TierStep == TierInv /\ [Next]_vars => Tiered' /\ TiersAgree'
<1> SUFFICES ASSUME TierInv, [Next]_vars PROVE Tiered' /\ TiersAgree'
  OBVIOUS
<1>1. Counting(shield)
  BY DEF TierInv, Tiered
<1>2. CASE Finish \/ HandshakeFails \/ FetchFails \/ UNCHANGED vars
  <2>1. /\ UNCHANGED <<segments, edgeCaches, batch, at, content, i, cacheType, shield>>
        /\ pc' = "failed" \/ pc' = pc \/ (pc = "loop" /\ pc' = "idle")
    BY <1>2 DEF Finish, HandshakeFails, FetchFails, vars, session, clockVars, logVars
  <2>2. QED
    BY <1>1, <2>1, StillTiers
<1>3. CASE ShieldFails
  <2>1. /\ UNCHANGED <<segments, edgeCaches, batch, at, content, i, cacheType>> /\ pc' = "failed"
        /\ shield' = Get(shield, AskedKey, Now)
    BY <1>3 DEF ShieldFails, session, clockVars, logVars
  <2>2. Counting(shield')
    BY <1>1, <2>1, GetCounts
  <2>3. QED
    BY <2>1, <2>2, StillTiers
<1>4. QED
  BY <1>2, <1>3, HandshakeTiers, SelectTiers, ShieldTiers, FetchTiers DEF Next, Step, Fail

\* For any edges with LRU or ARC caches, catalog, clients, cache and shield sizes, ABR and
\* order of hits, misses and expiries: every miss of an edge reaches the shield exactly
\* once, across sessions and batches, and what a session was delivered is in its edge's
\* cache until something is evicted (player.go:131-193, shield.go).
THEOREM EdgesAndShieldAgree == Spec => []TiersAgree
<1>1. Init => TierInv
  BY InitTiers, InitInv, ShapedInit, FreshLog DEF TierInv, LogInv, Init, Fresh
<1>2. TierInv /\ [Next]_vars => TierInv'
  BY TierStep, LogStep DEF TierInv
<1>3. TierInv => TiersAgree
  BY DEF TierInv
<1>4. QED
  BY <1>1, <1>2, <1>3, PTL DEF Spec

-----------------------------------------------------------------------------
\* The danger zone never gets past the hysteresis: its target is the bitrate itself or
\* the next one below.
LEMMA DangerHolds ==
  ASSUME NEW current \in Ladder, NEW samples
  PROVE  Hysteresis(Ladder, current, DangerTarget(Ladder, current, samples)) = current
<1> DEFINE below == { b \in Ladder : b < current }
           target == DangerTarget(Ladder, current, samples)
           Between(t) == { c \in Ladder : (current < c /\ c <= t) \/ (t < c /\ c <= current) }
<1>1. Ladder \subseteq Nat /\ IsFiniteSet(Ladder)
  BY ManifestAssumption
<1>2. target = current \/ (below # {} /\ target = Max(below))
  BY DEF DangerTarget, OneLevelBelow
<1> HIDE DEF target
<1>3. CASE target = current
  <2>1. Between(target) = {}
    <3>1. \A c \in Ladder : ~(current < c /\ c <= current)
      BY <1>1
    <3>2. QED
      BY <1>3, <3>1
  <2>2. LevelsApart(Ladder, current, target) = 0
    BY <1>3, <2>1, FS_EmptySet DEF LevelsApart
  <2>3. QED
    BY <2>2 DEF Hysteresis, target
<1>4. CASE below # {} /\ target = Max(below)
  <2>1. PICK n \in Nat : \A b \in Ladder : b <= n
    BY <1>1, FiniteBounded
  <2>2. target \in below /\ \A b \in below : b <= target
    <3>1. below \subseteq Nat /\ below # {} /\ \A b \in below : b <= n
      BY <1>1, <1>4, <2>1
    <3> HIDE DEF below
    <3>2. QED
      BY <1>4, <3>1, MaxExists
  <2>3. Between(target) = {current}
    <3>1. target \in Nat /\ target < current /\ current \in Nat
      BY <1>1, <2>2
    <3>2. ASSUME NEW c \in Ladder
          PROVE  (current < c /\ c <= target) \/ (target < c /\ c <= current) <=> c = current
      <4>1. c \in Nat /\ (c < current => c <= target)
        BY <1>1, <2>2
      <4>2. QED
        BY <3>1, <4>1
    <3>3. QED
      BY <3>2
  <2>4. Cardinality({current}) = 1
    BY FS_Singleton
  <2>5. LevelsApart(Ladder, current, target) = 1
    BY <2>2, <2>3, <2>4 DEF LevelsApart
  <2>6. QED
    BY <2>5 DEF Hysteresis, target
<1>5. QED
  BY <1>2, <1>3, <1>4

\* With segments and a buffer above the critical level, the buffer-based ABR holds its
\* bitrate below the danger level, after the first batch: for every ladder, whatever the
\* samples and however often the buffer runs low (abr_buffer.go:44-77).
THEOREM DangerFreezes ==
  ASSUME SegmentDuration >= CriticalBuffer, MaxBuffer >= CriticalBuffer
  PROVE  Spec => FrozenInDanger
<1> DEFINE Frozen == abr = "buffer_based" /\ pc = "loop" /\ pc' \in {"shield", "fetch"}
                         /\ i > 0 /\ buffer < DangerBuffer
                       => batch'.rep = currentBitrate
<1>1. LogInv /\ [Next]_vars => [Frozen]_vars
  <2> SUFFICES ASSUME LogInv, Next, abr = "buffer_based", pc = "loop",
                      pc' \in {"shield", "fetch"}, i > 0, buffer < DangerBuffer
               PROVE  batch'.rep = currentBitrate
    OBVIOUS
  <2>1. SelectBatch
    BY DEF Next, Step, Fail, Handshake, ShieldHit, ShieldMiss, FetchBatch, Finish, HandshakeFails,
           ShieldFails, FetchFails
  <2>2. currentBitrate \in Ladder /\ currentBitrate # 0
    BY ManifestAssumption DEF LogInv, Logged
  <2>3. buffer \in Nat /\ buffer >= CriticalBuffer
    BY DurationAssumption DEF LogInv, Inv, TypeOK, BufferBounds, CriticalBuffer
  <2>4. SelectBitrate(Ladder, buffer, currentBitrate, history) = currentBitrate
    <3>1. SelectBitrate(Ladder, buffer, currentBitrate, history)
            = Hysteresis(Ladder, currentBitrate, DangerTarget(Ladder, currentBitrate, history))
      BY <2>2, <2>3 DEF SelectBitrate, CriticalBuffer, DangerBuffer, SurplusBuffer
    <3>2. QED
      BY <2>2, <3>1, DangerHolds
  <2>5. Decisions = {currentBitrate}
    BY <2>4 DEF Decisions
  <2>6. batch'.rep = RepresentationForBitrate(Ladder, currentBitrate)
    <3>1. \E decision \in Decisions : batch'.rep = RepresentationForBitrate(Ladder, decision)
      BY <2>1, Selected, Zenon
    <3>2. QED
      BY <2>5, <3>1
  <2>7. RepresentationForBitrate(Ladder, currentBitrate) = currentBitrate
    BY <2>2, OnLadder
  <2>8. QED
    BY <2>6, <2>7
<1>2. QED
  BY <1>1, LogInvariance, PTL DEF Spec, FrozenInDanger

-----------------------------------------------------------------------------
\* A sample slower than a bitrate has a throughput below it, in tenths of kbps.
LEMMA SlowIsBelow ==
  ASSUME NEW sample \in Samples, NEW kbps \in Nat, SlowerThan(sample, kbps)
  PROVE  Kbps(sample) \in Nat /\ Kbps(sample) < 10 * kbps
<1> DEFINE b == sample.bytes
           t == sample.time
           q == Kbps(sample)
<1>1. b \in Nat /\ t \in Nat \ {0} /\ b * 8 < kbps * t
  BY DEF Samples, SlowerThan
<1>2. q = (b * 80) \div t
  BY DEF Kbps
<1> HIDE DEF b, t, q
<1>3. q \in Nat /\ q * t <= b * 80
  <2> DEFINE x == b * 80
  <2>1. x \in Nat
    BY <1>1
  <2> HIDE DEF x
  <2>2. q = x \div t
    BY <1>2 DEF x
  <2>3. q \in Nat /\ q * t <= x
    BY <1>1, <2>1, <2>2
  <2>4. QED
    BY <2>3 DEF x
<1>4. q * t < (10 * kbps) * t
  BY <1>1, <1>3
<1>5. q < 10 * kbps
  BY <1>1, <1>3, <1>4
<1>6. QED
  BY <1>3, <1>5 DEF q

\* An average is below what all its samples are below.
LEMMA SmoothedBelow ==
  ASSUME NEW estimate \in Nat, NEW sample, Kbps(sample) \in Nat, NEW limit \in Nat,
         estimate < limit, Kbps(sample) < limit
  PROVE  Smoothed(estimate, sample) \in Nat /\ Smoothed(estimate, sample) < limit
<1> DEFINE q == Kbps(sample)
           x == 3 * q + 7 * estimate
<1>1. q \in Nat /\ q < limit
  OBVIOUS
<1> HIDE DEF q
<1>2. x \in Nat /\ x < 10 * limit
  BY <1>1
<1>3. Smoothed(estimate, sample) = x \div 10
  BY DEF Smoothed, q
<1> HIDE DEF x
<1>4. QED
  BY <1>2, <1>3

\* The EWMA of samples below a limit is below it.
LEMMA EWMABelow ==
  ASSUME NEW s, Len(s) \in Nat \ {0}, NEW limit \in Nat,
         \A n \in 1 .. Len(s) : Kbps(s[n]) \in Nat /\ Kbps(s[n]) < limit
  PROVE  EWMA(s) \in Nat /\ EWMA(s) < limit
<1> DEFINE len == Len(s)
           UpTo(n, f) == /\ f = [k \in 1 .. n |-> f[k]] /\ f[1] = Kbps(s[1])
                         /\ \A k \in 2 .. n : f[k] = Smoothed(f[k - 1], s[k])
           T == { n \in Nat : \E f : UpTo(n + 1, f) }
           Loop(g) == [n \in 1 .. len |-> IF n = 1 THEN Kbps(s[1]) ELSE Smoothed(g[n - 1], s[n])]
           estimate == CHOOSE g : g = Loop(g)
<1>1. 0 \in T
  <2>1. UpTo(1, [k \in 1 .. 1 |-> Kbps(s[1])])
    OBVIOUS
  <2> HIDE DEF UpTo
  <2>2. QED
    BY <2>1
<1>2. ASSUME NEW n \in Nat, n \in T PROVE n + 1 \in T
  <2>1. PICK f : UpTo(n + 1, f)
    BY <1>2
  <2> DEFINE m == n + 1
             next == Smoothed(f[m], s[m + 1])
             g == [k \in 1 .. m + 1 |-> IF k <= m THEN f[k] ELSE next]
  <2>2. m \in Nat \ {0} /\ UpTo(m, f)
    BY <2>1
  <2> HIDE DEF m, next
  <2>3. g = [k \in 1 .. m + 1 |-> g[k]]
    OBVIOUS
  <2>4. (\A k \in 1 .. m : g[k] = f[k]) /\ g[m + 1] = next
    BY <2>2
  <2> HIDE DEF g
  <2>5. g[1] = Kbps(s[1])
    BY <2>2, <2>4
  <2>6. ASSUME NEW k \in 2 .. m + 1 PROVE g[k] = Smoothed(g[k - 1], s[k])
    <3>1. CASE k = m + 1
      <4>1. k - 1 = m /\ m \in 1 .. m
        BY <2>2, <3>1
      <4>2. QED
        BY <2>4, <3>1, <4>1 DEF next
    <3>2. CASE k # m + 1
      <4>1. k \in 2 .. m /\ k \in 1 .. m /\ k - 1 \in 1 .. m
        BY <2>2, <3>2
      <4>2. QED
        BY <2>2, <2>4, <4>1
    <3>3. QED
      BY <3>1, <3>2
  <2>7. UpTo(m + 1, g)
    BY <2>3, <2>5, <2>6
  <2> HIDE DEF UpTo
  <2>8. QED
    BY <2>7 DEF m
<1>3. PICK f : UpTo(len, f)
  <2>1. len - 1 \in T
    <3> HIDE DEF T
    <3>1. len - 1 \in Nat
      OBVIOUS
    <3>2. QED
      BY <1>1, <1>2, <3>1, SetInduction
  <2>2. (len - 1) + 1 = len
    OBVIOUS
  <2> HIDE DEF UpTo
  <2>3. QED
    BY <2>1, <2>2
<1>4. f = Loop(f)
  <2>1. ASSUME NEW n \in 1 .. len
        PROVE  f[n] = IF n = 1 THEN Kbps(s[1]) ELSE Smoothed(f[n - 1], s[n])
    <3>1. n # 1 => n \in 2 .. len
      OBVIOUS
    <3>2. f[1] = Kbps(s[1]) /\ \A k \in 2 .. len : f[k] = Smoothed(f[k - 1], s[k])
      BY <1>3
    <3>3. QED
      BY <3>1, <3>2
  <2>2. QED
    BY <1>3, <2>1
<1>5. estimate = Loop(estimate)
  <2> HIDE DEF Loop
  <2>1. QED
    BY <1>4
<1>6. EWMA(s) = estimate[len]
  BY DEF EWMA
<1> HIDE DEF estimate
<1>7. /\ estimate[1] = Kbps(s[1])
      /\ \A n \in 2 .. len : estimate[n] = Smoothed(estimate[n - 1], s[n])
  BY <1>5
<1> HIDE DEF Loop, UpTo
<1> DEFINE U == { n \in Nat : n + 1 <= len => estimate[n + 1] \in Nat /\ estimate[n + 1] < limit }
<1>8. 0 \in U
  BY <1>7
<1>9. ASSUME NEW n \in Nat, n \in U PROVE n + 1 \in U
  <2> SUFFICES ASSUME n + 2 <= len PROVE estimate[n + 2] \in Nat /\ estimate[n + 2] < limit
    BY (n + 1) + 1 = n + 2
  <2>1. n + 2 \in 2 .. len /\ n + 2 \in 1 .. len /\ (n + 2) - 1 = n + 1
    OBVIOUS
  <2>2. estimate[n + 1] \in Nat /\ estimate[n + 1] < limit
    BY <1>9
  <2>3. estimate[n + 2] = Smoothed(estimate[n + 1], s[n + 2])
    BY <1>7, <2>1
  <2>4. Kbps(s[n + 2]) \in Nat /\ Kbps(s[n + 2]) < limit
    BY <2>1
  <2>5. QED
    BY <2>2, <2>3, <2>4, SmoothedBelow
<1>10. len - 1 \in U
  <2> HIDE DEF U
  <2>1. len - 1 \in Nat
    OBVIOUS
  <2>2. QED
    BY <1>8, <1>9, <2>1, SetInduction
<1>11. estimate[len] \in Nat /\ estimate[len] < limit
  <2>1. (len - 1) + 1 = len
    OBVIOUS
  <2>2. QED
    BY <1>10, <2>1
<1>12. QED
  BY <1>6, <1>11

\* The estimate over some samples is below what all of them are below.
LEMMA EstimateBelow ==
  ASSUME NEW s \in Seq(Samples), s # << >>, NEW kbps \in Nat,
         \A n \in 1 .. Len(s) : SlowerThan(s[n], kbps)
  PROVE  Estimate(Ladder, s) \in Nat /\ Estimate(Ladder, s) < 10 * kbps
<1> DEFINE len == Len(s)
           limit == 10 * kbps
           Q(n) == Kbps(s[n])
           q == [n \in 1 .. len |-> Q(n)]
<1>1. len \in Nat \ {0} /\ DOMAIN s = 1 .. len /\ \A n \in 1 .. len : s[n] \in Samples
  BY LenProperties, ElementOfSeq, EmptySeq
<1>2. limit \in Nat /\ \A n \in 1 .. len : Q(n) \in Nat /\ Q(n) < limit
  BY <1>1, SlowIsBelow
<1>3. Estimate(Ladder, s) = IF len < 3 THEN SumOf([n \in DOMAIN s |-> Q(n)]) \div len ELSE EWMA(s)
  BY DEF Estimate, MinSamplesEWMA
<1>4. CASE len >= 3
  <2>1. EWMA(s) \in Nat /\ EWMA(s) < limit
    <3> HIDE DEF limit
    <3>1. QED
      BY <1>1, <1>2, EWMABelow
  <2>2. QED
    BY <1>1, <1>3, <1>4, <2>1
<1>5. CASE len < 3
  <2> HIDE DEF Q, limit
  <2>1. q \in Seq(Nat) /\ Len(q) = len /\ \A n \in 1 .. len : q[n] = Q(n)
    BY <1>1, <1>2
  <2>2. [n \in DOMAIN s |-> Q(n)] = q
    BY <1>1
  <2> HIDE DEF q
  <2>3. SumTo(q, 0) = 0 /\ \A n \in 1 .. len : SumTo(q, n) = SumTo(q, n - 1) + q[n]
    BY <2>1, SumToUnfolds
  <2> DEFINE sum == SumTo(q, len)
  <2>4. SumTo(q, 1) = Q(1) /\ Q(1) \in Nat /\ Q(1) < limit
    <3>1. 1 \in 1 .. len /\ 1 - 1 = 0
      BY <1>1
    <3>2. QED
      BY <1>2, <2>1, <2>3, <3>1
  <2>5. CASE len = 1
    <3>1. sum \div 1 = Q(1)
      BY <2>4, <2>5
    <3>2. QED
      BY <1>3, <1>5, <2>1, <2>2, <2>4, <2>5, <3>1 DEF SumOf, limit
  <2>6. CASE len = 2
    <3>1. 2 \in 1 .. len /\ 2 - 1 = 1
      BY <2>6
    <3>2. SumTo(q, 2) = Q(1) + Q(2) /\ Q(2) \in Nat /\ Q(2) < limit
      BY <1>2, <2>1, <2>3, <2>4, <3>1
    <3>3. sum \div 2 \in Nat /\ sum \div 2 < limit
      BY <1>2, <2>4, <2>6, <3>2
    <3>4. QED
      BY <1>3, <1>5, <2>1, <2>2, <2>6, <3>3 DEF SumOf, limit
  <2>7. QED
    BY <1>1, <1>5, <2>5, <2>6
<1>6. QED
  BY <1>1, <1>4, <1>5

\* What the throughput-based ABR selects has a reason.
LEMMA SelectionHasReason ==
  ASSUME NEW index \in Nat, NEW current, index > 0 => current \in Ladder, NEW s \in Seq(Samples)
  PROVE  LET b == SelectByThroughput(Ladder, index, current, s)
         IN  /\ b \in Ladder
             /\ \/ b = LowestBitrate(Ladder)
                \/ \E k \in DOMAIN s : ~SlowerThan(s[k], b)
                \/ index % ProbeInterval = 0 /\ b = OneLevelAbove(Ladder, current)
<1> DEFINE low == LowestBitrate(Ladder)
           estimate == Estimate(Ladder, s)
           aim == (85 * estimate) \div 1000
           chosen == ClosestBitrate(Ladder, aim)
           probing == index % ProbeInterval = 0 /\ index > StartupLength
           above == OneLevelAbove(Ladder, current)
           b == SelectByThroughput(Ladder, index, current, s)
<1>1. Ladder \subseteq Nat \ {0} /\ IsFiniteSet(Ladder)
  BY ManifestAssumption
<1>2. low \in Ladder /\ \A x \in Ladder : low <= x
  BY OnLadder
<1>3. chosen \in Ladder /\ (chosen # low => chosen <= aim)
  BY OnLadder DEF RepresentationForBitrate
<1>4. b = IF index < StartupLength THEN low
          ELSE Max({chosen} \cup IF probing THEN {above} ELSE {})
  BY DEF SelectByThroughput
<1>5. index > 0 => above \in Ladder
  <2> DEFINE higher == { x \in Ladder : x > current }
  <2>1. above = IF higher = {} THEN current ELSE Min(higher)
    BY DEF OneLevelAbove
  <2>2. higher # {} => Min(higher) \in higher
    <3> SUFFICES ASSUME higher # {} PROVE Min(higher) \in higher
      OBVIOUS
    <3>1. higher \subseteq Nat
      BY <1>1
    <3> HIDE DEF higher
    <3>2. \E x \in higher : \A y \in higher : x <= y
      BY <3>1, LeastNatural
    <3>3. QED
      BY <3>2 DEF Min
  <2>3. QED
    BY <2>1, <2>2
<1> DEFINE Evidence == \E k \in DOMAIN s : ~SlowerThan(s[k], chosen)
<1>6. chosen = low \/ Evidence
  <2> SUFFICES ASSUME chosen # low, ~Evidence PROVE FALSE
    OBVIOUS
  <2>1. chosen \in Nat \ {0} /\ low \in Nat /\ low <= chosen /\ chosen <= aim
    <3> HIDE DEF low, chosen, aim
    <3>1. QED
      BY <1>1, <1>2, <1>3
  <2>2. \A n \in 1 .. Len(s) : SlowerThan(s[n], chosen)
    BY LenProperties
  <2> HIDE DEF Evidence, chosen
  <2>3. estimate \in Nat /\ estimate < 10 * chosen
    <3>1. CASE s = << >>
      <4>1. estimate = 10 * low
        BY <3>1 DEF Estimate
      <4> HIDE DEF estimate, low
      <4>2. QED
        BY <2>1, <4>1
    <3>2. CASE s # << >>
      BY <2>1, <2>2, <3>2, EstimateBelow
    <3>3. QED
      BY <3>1, <3>2
  <2> HIDE DEF estimate
  <2>4. aim \in Nat /\ 1000 * aim <= 85 * estimate
    BY <2>3
  <2> HIDE DEF aim
  <2>5. QED
    BY <2>1, <2>3, <2>4
<1> HIDE DEF chosen, above, low, probing, Evidence
<1>7. b \in {low, chosen} \/ (probing /\ b = above /\ above \in Ladder)
  <2>1. CASE index < StartupLength
    BY <1>4, <2>1
  <2>2. CASE ~(index < StartupLength) /\ ~probing
    <3>1. b = Max({chosen})
      BY <1>4, <2>2
    <3>2. chosen \in Nat
      BY <1>1, <1>3
    <3>3. b = chosen
      BY <3>1, <3>2 DEF Max
    <3>4. QED
      BY <3>3
  <2>3. CASE ~(index < StartupLength) /\ probing
    <3>1. b = Max({chosen, above})
      BY <1>4, <2>3
    <3>2. chosen \in Nat /\ above \in Nat /\ above \in Ladder
      <4>1. index > 0
        BY <2>3 DEF probing, StartupLength
      <4>2. QED
        BY <1>1, <1>3, <1>5, <4>1
    <3>3. \E x \in {chosen, above} : \A y \in {chosen, above} : x >= y
      BY <3>2
    <3>4. b \in {chosen, above}
      BY <3>1, <3>3 DEF Max
    <3>5. QED
      BY <2>3, <3>2, <3>4
  <2>4. QED
    BY <2>1, <2>2, <2>3
<1> HIDE DEF b
<1>8. b \in Ladder
  BY <1>2, <1>3, <1>7
<1>9. CASE b = low
  BY <1>8, <1>9 DEF b, low
<1>10. CASE b = chosen
  BY <1>6, <1>8, <1>9, <1>10 DEF b, low, Evidence
<1>11. CASE probing /\ b = above
  BY <1>8, <1>11 DEF b, above, probing
<1>12. QED
  BY <1>7, <1>9, <1>10, <1>11

\* For every ladder and every sequence of samples, whatever the sizes and the times, the
\* throughput-based ABR leaves the lowest bitrate only on evidence of a fetch that was
\* fast enough, or by one level to probe (abr_throughput.go:31-71).
THEOREM EvidenceBeforeBitrate == Spec => ThroughputHasEvidence
<1> DEFINE Justified ==
             abr = "throughput_based" /\ pc = "loop" /\ pc' \in {"shield", "fetch"} =>
               \/ batch'.rep = LowestBitrate(Ladder)
               \/ \E k \in DOMAIN history : ~SlowerThan(history[k], batch'.rep)
               \/ i % ProbeInterval = 0 /\ batch'.rep = OneLevelAbove(Ladder, currentBitrate)
<1>1. LogInv /\ [Next]_vars => [Justified]_vars
  <2> DEFINE b == SelectByThroughput(Ladder, i, currentBitrate, history)
  <2> SUFFICES ASSUME LogInv, Next, abr = "throughput_based", pc = "loop",
                      pc' \in {"shield", "fetch"}
               PROVE  \/ batch'.rep = LowestBitrate(Ladder)
                      \/ \E k \in DOMAIN history : ~SlowerThan(history[k], batch'.rep)
                      \/ i % ProbeInterval = 0 /\ batch'.rep = OneLevelAbove(Ladder, currentBitrate)
    OBVIOUS
  <2>1. SelectBatch
    BY DEF Next, Step, Fail, Handshake, ShieldHit, ShieldMiss, FetchBatch, Finish, HandshakeFails,
           ShieldFails, FetchFails
  <2>2. i \in Nat /\ (i > 0 => currentBitrate \in Ladder) /\ history \in Seq(Samples)
    BY DEF LogInv, Inv, TypeOK, Logged
  <2>3. /\ b \in Ladder
        /\ \/ b = LowestBitrate(Ladder)
           \/ \E k \in DOMAIN history : ~SlowerThan(history[k], b)
           \/ i % ProbeInterval = 0 /\ b = OneLevelAbove(Ladder, currentBitrate)
    BY <2>2, SelectionHasReason
  <2>4. Decisions = {b}
    BY DEF Decisions
  <2> HIDE DEF b
  <2>5. batch'.rep = RepresentationForBitrate(Ladder, b)
    <3>1. \E decision \in Decisions : batch'.rep = RepresentationForBitrate(Ladder, decision)
      BY <2>1, Selected, Zenon
    <3>2. QED
      BY <2>4, <3>1
  <2>6. batch'.rep = b
    BY <2>3, <2>5, OnLadder
  <2>7. QED
    BY <2>3, <2>6
<1>2. QED
  BY <1>1, LogInvariance, PTL DEF Spec, ThroughputHasEvidence

=============================================================================
