-------------------------- MODULE PlaybackSession --------------------------
(***************************************************************************)
(* RunPlayback of internal/video/player.go, for the clients of one run of  *)
(* internal/experiment/runner.go (runOne): the sessions run one after the  *)
(* other, each at the edge it is routed to, and share the caches of the    *)
(* edges, LRU or ARC by the configuration of the run, and behind them the  *)
(* origin shield of internal/cdn/shield.go, which is always LRU.           *)
(* Each session restarts the simulated clock.                              *)
(*                                                                         *)
(* A session fetches its segments in batches.  For each batch it asks the  *)
(* ABR algorithm for a bitrate, looks the segments up in the edge cache,   *)
(* takes the misses through the shield one by one, fetches them together,  *)
(* and accounts for the time this took.  Times are milliseconds.           *)
(***************************************************************************)
EXTENDS Integers, Sequences, FiniteSets, Numbers, Caches, BufferBasedABR, ThroughputBasedABR

CONSTANTS
  ABRs,              \* the ABR algorithms of a run: "buffer_based", "throughput_based",
                     \* or "any" for every possible ABRAlgorithm
  Ladder,            \* the bitrates of a manifest
  Contents,          \* the catalog
  Edges,             \* the points of presence clients are routed to
  TotalSegments, SegmentDuration,
  SegmentSizes,      \* [Ladder -> [0 .. TotalSegments - 1 -> bytes]]
  MaxBuffer, StartupThreshold, PrefetchDepth,
  CacheOn,           \* FALSE in emulated mode, where Cache is nil
  CacheTypes,        \* the cache types of a run: "arc", and any other name for LRU
  CacheBytes,
  CacheTTL,          \* one hour in the code, in milliseconds
  ShieldOn,          \* whether the scenario has a shield
  ShieldBytes, ShieldTTL,
  WarmUp,            \* the contents warmUpCaches put into the edge cache
  Clients,           \* bound: the sessions of the run
  HandshakeTimes,    \* the handshake times, and ...
  Latencies,         \* ... the latencies of a batch the transport may report
  OriginLatencies    \* the latencies of an origin fetch

ASSUME DurationAssumption ==
  /\ TotalSegments \in Nat \ {0} /\ SegmentDuration \in Nat \ {0} /\ Clients \in Nat
  /\ MaxBuffer \in Nat \ {0} /\ StartupThreshold \in Nat \ {0} /\ PrefetchDepth \in Nat \ {0}
\* What crosses a transport takes time.
ASSUME LatencyAssumption ==
  HandshakeTimes \subseteq Nat /\ Latencies \subseteq Nat \ {0} /\ OriginLatencies \subseteq Nat
ASSUME ManifestAssumption ==
  /\ Ladder \subseteq Nat \ {0} /\ Ladder # {} /\ IsFiniteSet(Ladder)
  /\ SegmentSizes \in [Ladder -> [0 .. TotalSegments - 1 -> Nat \ {0}]]
  /\ WarmUp \in Seq(Contents)
\* Validate replaces a cache size that is not positive.
ASSUME CacheAssumption ==
  CacheBytes \in Nat /\ CacheTTL \in Nat \ {0}
ASSUME EdgesAssumption == IsFiniteSet(Edges)

HitLatency == 1
ShieldHitLatency == 2

VARIABLES
  pc, client, content,
  at,               \* the edge of the client
  abr,              \* the ABR algorithm of the run
  cacheType,        \* and the type of its edge caches
  wallClock, buffer, playbackStarted, i, currentBitrate, history,
  startupLatency, rebufferCount, rebufferDuration, bitrateChanges, segments,
  batch,            \* the batch under way
  edgeCaches,       \* the cache of every edge
  shield,           \* the cache of the shield
  dropped           \* history: media that overflowed before playback started

session == <<client, content, at, abr, cacheType>>
clockVars == <<wallClock, buffer, playbackStarted, i, startupLatency, rebufferCount,
               rebufferDuration, dropped>>
logVars == <<currentBitrate, history, bitrateChanges, segments>>
vars == <<pc, session, clockVars, logVars, batch, edgeCaches, shield>>

\* SegmentID: content, segment index and bitrate.
Key(index, bitrate) == <<content, index, bitrate>>

\* wallClockToTime: instants count from SimEpoch, which is not the zero time.
Now == wallClock + 1

\* The cache the client's edge serves it from.
Cache == edgeCaches[at]

\* The keys the manifests of the catalog give rise to.
SegmentKeys == Contents \X (0 .. TotalSegments - 1) \X Ladder

\* The cache.Item of a segment.
ItemOf(key, expiry) == [key |-> key, size |-> SegmentSizes[key[3]][key[2]], expiry |-> expiry]

\* cache.Get for the keys, and cache.Put of the items, one after the other.
GetAll(c, keys, now) ==
  LET after[n \in 0 .. Len(keys)] ==
        IF n = 0 THEN c ELSE CacheGet(cacheType, after[n - 1], keys[n], now)
  IN  after[Len(keys)]
PutAll(c, items) ==
  LET after[n \in 0 .. Len(items)] ==
        IF n = 0 THEN c ELSE CachePut(cacheType, after[n - 1], items[n])
  IN  after[Len(items)]

\* warmUpCaches: the middle representation of the first contents, without expiry.
WarmCache ==
  LET middle == CHOOSE b \in Ladder :
                  Cardinality({ c \in Ladder : c < b }) = Cardinality(Ladder) \div 2
  IN  PutAll(NewCache(cacheType, SegmentKeys, CacheBytes),
             [k \in 1 .. Len(WarmUp) * TotalSegments |->
                ItemOf(<<WarmUp[(k - 1) \div TotalSegments + 1], (k - 1) % TotalSegments, middle>>,
                       NoExpiry)])

NoBatch == [rep |-> 0, hits |-> {}, asked |-> 0, shieldHits |-> {}, upstream |-> 0]

Init ==
  /\ pc = "idle"
  /\ client = 0
  /\ content \in Contents /\ at \in Edges /\ abr \in ABRs /\ cacheType \in CacheTypes
  /\ wallClock = 0 /\ buffer = 0 /\ playbackStarted = FALSE /\ i = 0
  /\ startupLatency = 0 /\ rebufferCount = 0 /\ rebufferDuration = 0 /\ dropped = 0
  /\ currentBitrate = 0 /\ history = << >> /\ bitrateChanges = 0 /\ segments = << >>
  /\ batch = NoBatch
  /\ edgeCaches = [e \in Edges |-> WarmCache]
  /\ shield = NewLRUCache(ShieldBytes)

\* The next client is routed to an edge and starts on some content; its
\* handshake takes hs.
Handshake(e, name, hs) ==
  /\ pc = "idle" /\ client < Clients
  /\ pc' = "loop"
  /\ client' = client + 1
  /\ content' = name /\ at' = e
  /\ wallClock' = hs /\ buffer' = 0 /\ playbackStarted' = FALSE /\ i' = 0
  /\ startupLatency' = 0 /\ rebufferCount' = 0 /\ rebufferDuration' = 0 /\ dropped' = 0
  /\ currentBitrate' = 0 /\ history' = << >> /\ bitrateChanges' = 0 /\ segments' = << >>
  /\ batch' = NoBatch
  /\ UNCHANGED <<abr, cacheType, edgeCaches, shield>>

\* The first error ends the session, and with it the whole run.
HandshakeFails ==
  /\ pc = "idle" /\ client < Clients
  /\ pc' = "failed"
  /\ UNCHANGED <<session, clockVars, logVars, batch, edgeCaches, shield>>

-----------------------------------------------------------------------------
BatchSize ==
  IF i + PrefetchDepth > TotalSegments THEN TotalSegments - i ELSE PrefetchDepth

\* batchReqs: the segments of the batch that missed the edge cache, in order.
Misses == Sorted((i .. i + BatchSize - 1) \ batch.hits)

\* Mutant: an entry counts as cached as long as it is there, also after its expiry.
CachedInBatchStale(rep) ==
  { n \in i .. i + BatchSize - 1 : CacheOn /\ Key(n, rep) \in CachedKeys(cacheType, Cache) }

\* The segments of the batch that the edge cache answers.
CachedInBatch(rep) ==
  { n \in i .. i + BatchSize - 1 : CacheOn /\ CacheHit(cacheType, Cache, Key(n, rep), Now) }

\* What the ABR algorithm may select in the current player state.
Decisions ==
  CASE abr = "buffer_based" -> {SelectBitrate(Ladder, buffer, currentBitrate, history)}
    [] abr = "throughput_based" -> {SelectByThroughput(Ladder, i, currentBitrate, history)}
    [] OTHER -> Ladder

\* cache.Get for every segment of the batch, in order.
LookUpBatch(c, rep) == GetAll(c, [k \in 1 .. BatchSize |-> Key(i + k - 1, rep)], Now)

SelectBatch == \E decision \in Decisions :
  LET rep == RepresentationForBitrate(Ladder, decision)
      cached == CachedInBatch(rep)
  IN  /\ pc = "loop" /\ i < TotalSegments
      /\ batch' = [NoBatch EXCEPT !.rep = rep, !.hits = cached]
      /\ edgeCaches' = IF CacheOn
           THEN [edgeCaches EXCEPT ![at] = LookUpBatch(@, rep)]
           ELSE edgeCaches
      /\ pc' = IF ShieldOn /\ Cardinality(cached) < BatchSize THEN "shield" ELSE "fetch"
      /\ UNCHANGED <<session, clockVars, logVars, shield>>

\* The next miss, while the shield has not been asked for all of them.
Asking == batch.asked + 1
AskedKey == Key(Misses[Asking], batch.rep)

\* OriginShield.Fetch: a hit, or an origin fetch whose result the shield keeps.
ShieldHit ==
  /\ pc = "shield" /\ IsHit(shield, AskedKey, Now)
  /\ shield' = Get(shield, AskedKey, Now)
  /\ batch' = [batch EXCEPT !.asked = Asking,
                            !.shieldHits = @ \cup {Misses[Asking]},
                            !.upstream = Max({@, ShieldHitLatency})]
  /\ pc' = IF Asking = Len(Misses) THEN "fetch" ELSE "shield"
  /\ UNCHANGED <<session, clockVars, logVars, edgeCaches>>

ShieldMiss == \E latency \in OriginLatencies :
  /\ pc = "shield" /\ ~IsHit(shield, AskedKey, Now)
  /\ shield' = Put(Get(shield, AskedKey, Now),
                   ItemOf(AskedKey, IF ShieldTTL > 0 THEN Now + ShieldTTL ELSE NoExpiry))
  /\ batch' = [batch EXCEPT !.asked = Asking, !.upstream = Max({@, latency})]
  /\ pc' = IF Asking = Len(Misses) THEN "fetch" ELSE "shield"
  /\ UNCHANGED <<session, clockVars, logVars, edgeCaches>>

ShieldFails ==
  /\ pc = "shield" /\ ~IsHit(shield, AskedKey, Now)
  /\ shield' = Get(shield, AskedKey, Now)
  /\ pc' = "failed"
  /\ UNCHANGED <<session, clockVars, logVars, batch, edgeCaches>>

\* cache.Put for every miss, in order.
CacheMisses(c) ==
  PutAll(c, [k \in DOMAIN Misses |-> ItemOf(Key(Misses[k], batch.rep), Now + CacheTTL)])

\* Mutant: the missed segments are put into the cache when they are asked for.
FetchFailsCaching ==
  /\ pc = "fetch" /\ Misses # << >>
  /\ pc' = "failed"
  /\ edgeCaches' = [edgeCaches EXCEPT ![at] = CacheMisses(@)]
  /\ UNCHANGED <<session, clockVars, logVars, batch, shield>>

FetchFails ==
  /\ pc = "fetch" /\ Misses # << >>
  /\ pc' = "failed"
  /\ UNCHANGED <<session, clockVars, logVars, batch, edgeCaches, shield>>

-----------------------------------------------------------------------------
(***************************************************************************)
(* What a batch that took fetchTime does to the buffer and the clock.      *)
(***************************************************************************)
\* Playback ran dry before the batch was there.
Stalled(fetchTime) == playbackStarted /\ fetchTime >= buffer

Stall(fetchTime) == IF Stalled(fetchTime) THEN fetchTime - buffer ELSE 0

\* Mutant: the buffer does not drain while the batch is fetched.
UndrainedBuffer(fetchTime) == IF Stalled(fetchTime) THEN 0 ELSE buffer

\* What playback has left in the buffer when the batch arrives.
DrainedBuffer(fetchTime) ==
  IF Stalled(fetchTime) THEN 0 ELSE IF playbackStarted THEN buffer - fetchTime ELSE buffer

FilledBuffer(fetchTime) == DrainedBuffer(fetchTime) + BatchSize * SegmentDuration

\* Mutant: the cap on the buffer is never applied.
NoExcess(fetchTime) == 0

\* What does not fit: the player waits that long.
Excess(fetchTime) ==
  IF FilledBuffer(fetchTime) > MaxBuffer THEN FilledBuffer(fetchTime) - MaxBuffer ELSE 0

AdvanceClock(fetchTime) ==
  LET started == buffer' >= StartupThreshold
      excess == Excess(fetchTime)
  IN  /\ buffer' = FilledBuffer(fetchTime) - excess
      /\ wallClock' = wallClock + fetchTime + Stall(fetchTime) + excess
      /\ rebufferCount' = IF Stalled(fetchTime) THEN rebufferCount + 1 ELSE rebufferCount
      /\ rebufferDuration' = rebufferDuration + Stall(fetchTime)
      /\ playbackStarted' = (playbackStarted \/ started)
      /\ startupLatency' = IF ~playbackStarted /\ started THEN wallClock' ELSE startupLatency
      /\ dropped' = IF playbackStarted THEN dropped ELSE dropped + excess

\* batchSizes.
SizeAt(k) == SegmentSizes[batch.rep][i + k - 1]

\* Mutant: the bytes of cache hits count as transferred.
TransferredWithHits == SumOf([k \in 1 .. BatchSize |-> SizeAt(k)])

\* missBytes: the bytes that crossed the transport.
Transferred ==
  SumOf([k \in 1 .. BatchSize |-> IF i + k - 1 \in batch.hits THEN 0 ELSE SizeAt(k)])

\* Only what crossed the transport is a throughput sample; the last 20 are kept.
NewHistory(fetchTime) ==
  LET all == Append(history, [bytes |-> Transferred, time |-> fetchTime])
  IN  IF fetchTime > 0 /\ Transferred > 0
      THEN SubSeq(all, IF Len(all) > 20 THEN Len(all) - 19 ELSE 1, Len(all))
      ELSE history

NewBitrateChanges ==
  IF currentBitrate # 0 /\ currentBitrate # batch.rep THEN bitrateChanges + 1 ELSE bitrateChanges

LogOf(n, fetchTime) ==
  [index |-> n, bitrate |-> batch.rep, cacheHit |-> n \in batch.hits,
   shieldHit |-> n \in batch.shieldHits, before |-> buffer, after |-> buffer',
   rebuffered |-> Stalled(fetchTime)]

\* The batch completes with its slowest response: the latency of the
\* transport for the misses, and that of a cache hit for the hits.
FetchTimes ==
  LET hitTimes == IF batch.hits = {} THEN {} ELSE {HitLatency}
  IN  IF Misses = << >> THEN hitTimes ELSE { Max(hitTimes \cup {l}) : l \in Latencies }

FetchBatch == \E fetchTime \in FetchTimes :
  /\ pc = "fetch"
  /\ pc' = "loop"
  /\ AdvanceClock(fetchTime)
  /\ edgeCaches' = IF CacheOn THEN [edgeCaches EXCEPT ![at] = CacheMisses(@)] ELSE edgeCaches
  /\ history' = NewHistory(fetchTime)
  /\ bitrateChanges' = NewBitrateChanges
  /\ currentBitrate' = batch.rep
  /\ segments' = segments \o [k \in 1 .. BatchSize |-> LogOf(i + k - 1, fetchTime)]
  /\ i' = i + BatchSize
  /\ UNCHANGED <<session, batch, shield>>

\* Mutant: the session waits for a buffer nobody drains any more.
FinishDrained ==
  /\ pc = "loop" /\ i = TotalSegments /\ buffer = 0
  /\ pc' = "idle"
  /\ UNCHANGED <<session, clockVars, logVars, batch, edgeCaches, shield>>

\* A session that never reached the threshold reports its whole time as startup.
Finish ==
  /\ pc = "loop" /\ i = TotalSegments
  /\ pc' = "idle"
  /\ startupLatency' = IF playbackStarted THEN startupLatency ELSE wallClock
  /\ UNCHANGED <<session, wallClock, buffer, playbackStarted, i, rebufferCount,
                 rebufferDuration, dropped, logVars, batch, edgeCaches, shield>>

Step ==
  \/ \E e \in Edges, name \in Contents, hs \in HandshakeTimes : Handshake(e, name, hs)
  \/ SelectBatch \/ ShieldHit \/ ShieldMiss \/ FetchBatch \/ Finish

Fail == HandshakeFails \/ ShieldFails \/ FetchFails

Next == Step \/ Fail

\* One goroutine runs the sessions, and every transport call returns.
Spec == Init /\ [][Next]_vars /\ WF_vars(Next)

-----------------------------------------------------------------------------
\* No duration of the player goes negative, stalls and drained buffers included
\* (player.go:230-253), and a batch under way has segments left to fetch.
TypeOK ==
  /\ pc \in {"idle", "loop", "shield", "fetch", "failed"}
  /\ client \in 0 .. Clients /\ content \in Contents /\ at \in Edges
  /\ wallClock \in Nat /\ buffer \in Nat /\ dropped \in Nat
  /\ playbackStarted \in BOOLEAN /\ i \in 0 .. TotalSegments
  /\ startupLatency \in Nat /\ rebufferCount \in Nat /\ rebufferDuration \in Nat
  /\ pc \in {"shield", "fetch"} => i < TotalSegments

\* The buffer never exceeds its cap, and once a batch has arrived it holds at
\* least a segment, or the cap (player.go:247-253): whatever the fetch times,
\* the ABR sees a buffer below that only for the first batch of a session.
BufferBounds ==
  /\ buffer <= MaxBuffer
  /\ i > 0 => buffer >= SegmentDuration \/ buffer = MaxBuffer

\* Where the media of a session went, against the clock: what was delivered is
\* in the buffer, was played, or overflowed before playback started; since the
\* start the clock has run for the media played and twice for every stall, once
\* within the fetch time and once more at player.go:239.
TimeLedger ==
  /\ playbackStarted =>
       wallClock - startupLatency + buffer + dropped = i * SegmentDuration + 2 * rebufferDuration
  /\ ~playbackStarted => buffer + dropped = i * SegmentDuration /\ rebufferDuration = 0

\* The first segment of a batch, as a position in the log.
OpensBatch(n) == (n - 1) % PrefetchDepth = 0

\* Every batch that stalled is counted once and tagged on all its segments, and
\* none before playback started (player.go:232-244, 297-300).
RebufferTags ==
  /\ rebufferCount = Cardinality({ n \in DOMAIN segments : OpensBatch(n) /\ segments[n].rebuffered })
  /\ \A n \in DOMAIN segments : IF OpensBatch(n)
                                 THEN segments[n].rebuffered => n > 1
                                 ELSE segments[n].rebuffered = segments[n - 1].rebuffered

\* The log lists the segments in order without gaps, and the buffer levels of
\* consecutive batches join up with each other and with the player's own level.
LogChains ==
  /\ Len(segments) = i
  /\ \A n \in DOMAIN segments :
       /\ segments[n].index = n - 1
       /\ segments[n].before = IF n = 1 THEN 0
                               ELSE IF OpensBatch(n) THEN segments[n - 1].after
                                                     ELSE segments[n - 1].before
  /\ i > 0 => segments[i].after = buffer

\* BitrateChanges counts the switches a viewer of the log would see.
ChangesMatchLog ==
  bitrateChanges = Cardinality({ n \in 2 .. Len(segments) :
                                   segments[n].bitrate # segments[n - 1].bitrate })

\* The last throughput sample has the bytes of the segments of its batch that the
\* log shows as fetched, and of no cache hit (player.go:265-281).
SamplesExcludeHits ==
  LET Missed(n) == /\ ~segments[n].cacheHit
                   /\ (n - 1) \div PrefetchDepth = (i - 1) \div PrefetchDepth
      missed == [n \in DOMAIN segments |->
                   IF Missed(n) THEN SegmentSizes[segments[n].bitrate][segments[n].index] ELSE 0]
  IN  SumOf(missed) > 0 => history # << >> /\ history[Len(history)].bytes = SumOf(missed)

\* What a session reports of itself is one story: the counters, the log and the
\* throughput samples can be derived from each other.
SessionLog == RebufferTags /\ LogChains /\ ChangesMatchLog /\ SamplesExcludeHits

\* Every edge miss, that of an expired entry included, is asked of the shield exactly
\* once, over all sessions, although each of them restarts the clock (player.go:126-168).
EdgeMisses(caches) == MapThenSumSet(LAMBDA e : caches[e].misses, Edges)
AskedOnce ==
  ShieldOn /\ CacheOn /\ pc # "failed" =>
    shield.hits + shield.misses =
      EdgeMisses(edgeCaches) - (IF pc = "shield" THEN Len(Misses) - batch.asked ELSE 0)

\* As long as nothing has been evicted, whatever a session was delivered and is not
\* larger than the cache is in it for the next one, in LRU and ARC caches alike, and
\* whatever expired in between (player.go:184-193).
DeliveredIsCached ==
  CacheOn /\ Cache.evictions = 0 =>
    \A n \in DOMAIN segments :
       \/ SegmentSizes[segments[n].bitrate][segments[n].index] > CacheBytes
       \/ Key(segments[n].index, segments[n].bitrate) \in CachedKeys(cacheType, Cache)

\* The log, the edge caches and the shield agree on what was delivered from where.
TiersAgree == AskedOnce /\ DeliveredIsCached

\* A segment enters the edge cache, LRU or ARC, only in the step that delivers it as a
\* miss: a batch that fails leaves nothing behind (player.go:172-193), and no lookup
\* brings a ghost of ARC back (arc.go:87-121).
CachingStep ==
  \A e \in Edges : \A key \in CachedKeys(cacheType, edgeCaches'[e]) \ CachedKeys(cacheType, edgeCaches[e]) :
    \E n \in DOMAIN segments' : /\ n > Len(segments) /\ ~segments'[n].cacheHit
                                /\ key = Key(segments'[n].index, segments'[n].bitrate)
CachedOnlyWhenDelivered == [][CachingStep]_vars

\* Below the danger level the buffer-based ABR freezes the bitrate: it does not
\* raise it (abr_buffer.go:44), the one level it aims lower is swallowed by the
\* hysteresis (abr_buffer.go:72), and with segments longer than the critical
\* level the critical zone is never entered again after the first batch.
FrozenInDanger ==
  [][ abr = "buffer_based" /\ pc = "loop" /\ pc' \in {"shield", "fetch"} /\ i > 0 /\ buffer < DangerBuffer
        => batch'.rep = currentBitrate ]_vars

\* The throughput-based ABR goes above the lowest bitrate only after some fetch of
\* the session was faster than that, or by one level at a tenth segment: no average
\* of its samples exceeds them all (abr_throughput.go:37-57).
ThroughputHasEvidence ==
  [][ abr = "throughput_based" /\ pc = "loop" /\ pc' \in {"shield", "fetch"} =>
        \/ batch'.rep = LowestBitrate(Ladder)
        \/ \E k \in DOMAIN history : ~SlowerThan(history[k], batch'.rep)
        \/ i % ProbeInterval = 0 /\ batch'.rep = OneLevelAbove(Ladder, currentBitrate) ]_vars

\* The sessions of all clients end, or one fails.
RunEnds == <>(pc = "failed" \/ (pc = "idle" /\ client = Clients))
=============================================================================
