# A verification project for the video streaming CDN simulator

TLA+ modules for the parts of the simulator that keep state or run
concurrently, TLC configurations that check them on small instances, and
theorems proved with TLAPS for every value of the constants.

Contents: 1 the system, 2 the modules, 3 the runs, 4 bounds, fairness and
abstractions, 5 the proofs, 6 where code and documents disagree, 7 what is not
modelled, 8 the plan.

## 1. The system

The program compares HTTP/2 over TCP with HTTP/3 over QUIC for video delivery
through a CDN. In *modelled* mode (`internal/experiment/runner.go`) everything
runs in one process on a simulated clock; in *emulated* mode
(`internal/experiment/emulated.go`) real clients talk to real edge, shield and
origin servers (`cmd/`).

| Component | State | Operations | Interacts with |
|---|---|---|---|
| LRU cache, `internal/cache/lru.go` | list, byte count, statistics, a mutex | Get, Put, Clear | called by sessions of runs with cache type `lru`, the shield and the edge server |
| ARC cache, `internal/cache/arc.go` | T1, T2, B1, B2, their byte counts, directory, target p | Get, Put, Clear | called by sessions of runs with cache type `arc` |
| Edge server, `cmd/edge-server` | LRU index, payload map, two counters | one handler goroutine per request | upstream HTTP server |
| Playback session, `internal/video/player.go` | clock, buffer, throughput history, log | one batch after another | ABR, edge cache, shield, transport |
| Buffer-based ABR, `internal/video/abr_buffer.go` | none | SelectBitrate | called per batch |
| Origin shield, `internal/cdn/shield.go` | LRU cache | Fetch | called for every edge miss |
| Throughput-based ABR, `internal/video/abr_throughput.go` | none | SelectBitrate | called per batch |
| Runner, `internal/experiment/runner.go` and `emulated.go` | edge caches, shield, load of the edges, collector | runs for each protocol, a session per client, a report | everything above |
| Routing, `internal/routing` | none (reads loads) | Route | called by the runner |
| Metrics, `internal/metrics`, `internal/analysis` | the collected results | Add, Aggregate, Compare, CompareEnhanced | called by the runner |
| Sweep, `internal/experiment/sweep.go`, `reporter.go` | an output directory, the index in memory | an experiment per combination, its files, index, heatmap | the runner |
| Emulated transports, `internal/transport/emulated` | HTTP client | FetchSegment, FetchConcurrent, Handshake | edge server |
| Modelled transports, `internal/transport/modeled` | congestion window, loss process | the same interface | called by sessions |
| Server processes, `cmd/edge-server`, `cmd/origin-server` | two listeners, a signal | listen, drain, exit | the handlers |
| Server certificates, `internal/servertls` | two files several servers share | LoadOrGenerate | called by the servers, read by edges |

What is hard here:

* **Concurrency.** The edge server's handlers share an index, a map and two
  counters, each atomic alone, no lock around them together. FetchConcurrent
  runs a goroutine per request under a context any of them may cancel. A signal
  meets listeners and handlers wherever they are. Servers share certificate
  files without a lock.
* **Failure.** Upstream errors, timeouts and error pages; a batch of which one
  request fails; a session that fails after the shield has already cached; a
  sweep or a server that is killed between two writes.
* **Order and time.** Every session restarts the simulated clock while the caches
  live on, so `now` goes backwards. Fetch time, stall, overflow and start
  are applied to the clock and the buffer in one order.
* **Limits.** Byte budgets with items of several sizes, the cap on the buffer, the
  short last batch, a threshold that is never reached.

What makes each component correct: the caches account for their bytes, respect
their budget and evict what their policy says; the edge server answers every
request with the right bytes and loses no count; a session conserves media and
time and its log agrees with its counters; a batch is delivered whole or not at
all; an experiment compares like with like and reports all or nothing; a sweep's
index can be trusted; servers start again after a crash. `PROJECT.json` lists the hazards line by line with the properties that
cover them.

## 2. The modules

`CacheItems` - items, lists and byte sums shared by both caches. `Numbers` - sums
and ascending lists of numbers, shared by the sessions, the throughput-based ABR, the
modelled transports, routing and metrics.

`LRU`, `ARC` - the two caches as operators on a record, one operator per method
(every method holds the mutex throughout, so it is one step). A list is a
sequence, front first. In `ARC` the four lists and their byte counters are
functions of the code's owner byte (its methods are `ARCGet`, `ARCPut`, `ARCClear`); `Replace` is the loop of `replace` as a
recursive function over its rounds; `MakeRoom` is what case IV does before it.

`LRUCache`, `ARCCache` - one cache as a state machine: `DoGet`, `DoPut`,
`DoClear`, any order, any instant. History variables (`newer`, `seen`) record
how keys were used, so that the eviction policy can be stated.

`CacheContract` - the abstract specification: what the interface `cache.Cache`
promises whatever the policy. A hit returns the item of the last accepted Put,
not expired; a miss is justified; a Put evicts other items only when everything
would not fit, and keeps the new one. `ImplementsContract` in both state
machines is the refinement (contents mapped to the list, or to T1 and T2).

`Caches` - the interface over its two implementations: `NewCache`, `CacheGet` and
`CachePut` go where `newCache` (runner.go:229-236) sends the cache type of a run.

`EdgeServer` - `segmentHandler` of `cmd/edge-server/main.go`. `pc` is where
each handler is; each access to shared state is an action: `LruGet` (line 184),
`LoadPayload` (185), `WriteHit`, `CountHit` (193), `CountMiss` (198), `FetchOK` and
`FetchFails` (206-223), `LruPut` (231), `StorePayload` (232), `WriteMiss`. The
index is a record of `LRU`.

`EdgeProcess` - `main` around these handlers (the origin's `main` is the same):
the goroutines of the two listeners (`ListenUp`, `ListenFails`,
`ListenerReturns`), requests accepted by one of them, `Signal`, and the sequence
`Drained` or `DrainTimesOut`, `H3Close`, `Exit`. It extends `EdgeServer`, and its
steps are steps of it (theorem ProcessImplementsHandlers). The HTTP servers are
libraries and modelled by what `main` relies on.

`BufferBasedABR`, `ThroughputBasedABR` - the ladder lookups of `manifest.go` and
`SelectBitrate` of the two algorithms. Times are milliseconds; a throughput
sample keeps the bytes and the time whose quotient it is, so the comparisons of
the first are exact; the second averages in tenths of kbps.

`PlaybackSession` - `RunPlayback` for the clients of one run, over the caches
of the edges and the shield. `Init` chooses the type of the edge caches, LRU or ARC, and warms
one up (`WarmCache`); the shield is LRU, as in the code. `SelectBatch` is the ABR decision and the cache
lookups, `ShieldHit`, `ShieldMiss` and `ShieldFails` one call of
`OriginShield.Fetch`, `FetchBatch` everything from the transport's answer to the
end of the iteration (cache inserts, clock, buffer, start, throughput sample,
log), `FetchFails` and `HandshakeFails` the error returns, `Finish` the end of the
session. The transport is external to it: any latency of a set, or an error. The loops over
`cache.Get` and `cache.Put` are `GetAll` and `PutAll`, recursive functions over the
operators of `Caches`. Items of the edge and of the shield expire, and every session starts the
clock at zero again while they keep the expiry of an earlier one.
`abr = "any"` stands for every possible algorithm.

`Routing` - the four policies as operators on the runner's slice of edges, a
client's distances, and what its random source will say. `Metrics` - the
collector, percentiles, effect sizes, rank test, both comparisons and the verdict
as operators on sequences of sessions; every quotient and root is kept as the
integers it is made of, so that thresholds are compared exactly. Sorting is stated by
what it yields: `KthOf` is the k-th value in order, found by counting, and sessions are
ordered by `Inserted`, one after another.

`Experiment` - composes the two: `LoadConfig` (Validate), `Begin`, then for each
protocol and run `StartRun`, a `ServeClient` per client (route, bump the load, play,
collect) and `EndRun`, at last `Report`; `NoEdgeAvailable`, `SessionFails` and
`Cancelled` are the error returns, after which the deferred closers have run. A
session is an outcome here. `tape` remembers what a seed produced, so that using it
again for the other protocol produces the same clients and contents.

`Sweep` - `RunSweep` over an output directory that outlives it: `Start`,
`RunCombination`, a `WriteFile` for each file, `Record`, `WriteIndex`,
`WriteHeatmap`, and `Interrupt` at any step, which may leave a file half written.
`FlushFails` is the one write error the code does not see. A result is the
configuration and the seed it follows from. The label of a combination is a set: for
each parameter its name, which of that name it is, and its value as formatted. The
heatmap is a function of the two values of a cell. A sweep runs over a modelled or an emulated
base (`emulated`: no enhanced comparison, reporter.go:32), of which `Validate` may refuse
everything that no parameter can change (`valid`). As in the code, nothing removes
what an earlier sweep left in a directory.

`ServerCertificates` - `LoadOrGenerate` of several servers over one pair of files,
each Stat, read, truncation and write a step, with crashes and restarts, and
the pool an edge loads to verify its upstream. A certificate lists names and addresses:
those of the program that generated it (`OriginLists`, `EdgeLists`), or all of them
(`Prepared`, by `docker/certs/generate.sh`). Four histories tell starts that
may fail from those that may not: `torn` (a crash left a key alone), `mixed` (two servers were
writing at once), `disturbed` (this start met a server that was writing) and `raced`
(some start met a server that had decided to write).

`ConcurrentFetch` - `FetchConcurrent` of the emulated transports (`tcp.go` and
`quic.go` have the same code): spawn, fetch, cancel, leave, return.

`ModeledTransports` - `FetchSegment` and `FetchConcurrent` of the modelled TCP
and QUIC transports. A call is `Start` (draw the losses, read the bandwidth), a
`Round` per round trip of `TransferTime`, and `Finish` (the time of each
stream, the clock). `NextProtocol` starts the second protocol from the same seed,
as the runner does; the seed is the set `lost` of packet numbers the loss process
loses, and the bandwidth trace. `windows` and `log` are histories the
properties compare the two protocols by.

`MC...` - instances for TLC. `...Proofs` - theorems, section 5.

Operators whose comment begins with "Mutant" are plausible bugs in the code they
stand beside; each shows that some property would notice.

## 3. The runs

| Run | Checks | Shows |
|---|---|---|
| lru_cache | ListConsistent (accounting, budget, recency), EvictsOnlyOldest, ImplementsContract | LRU is right for mixed sizes, updates, expiry and a clock that goes backwards |
| arc_mixed_sizes | BooksAgree (accounting, directory, target), FrequentSeenTwice, FrequentSpared, ImplementsContract | ARC is consistent also when ghosts come back in another size |
| edge_server | IndexBacked, AnswersMatchRequest, StatsAddUp, DegradedOnlyWhileStoring | the handlers' races are benign for these properties |
| edge_process | DrainSparesH2, AnsweredOrCut, ShutdownCompletes | no request is lost but to the shutdown, and no shutdown hangs |
| playback_any_abr | BufferBounds, TimeLedger, SessionLog, TiersAgree, CachedOnlyWhenDelivered | media, clock, log, samples and both tiers agree whatever the ABR does, over LRU and ARC edges, with items that expire |
| playback_abrs | FrozenInDanger, ThroughputHasEvidence, RunEnds | what the two ABRs really do, also behind a shield, and that every run ends |
| concurrent_fetch | TruthfulResult, NoStragglers, Returns | the batch contract the session relies on |
| modeled_transports | RenoLaw, LossNeverHelps, DriftBounded, PairedTimes, EveryByteSent | the window law, and how far the two transports are comparable |
| experiment | PairedSessions, CapacityHonoured, RunsEndWhole, StatisticsByDefinition, LegacyAgreesUpToSign | protocols are compared on the same pairs, and the numbers mean what they say |
| sweep | SweepComplete, IndexNeverDangles, OrderIndependent | what interruptions and earlier sweeps in the same directory can and cannot spoil |
| certificates | StartsUnlessTorn, EdgesVerifyUpstreams | from which crashes and races servers recover |

The run arc_over_budget ends in a violation, a finding of section 6.

Some properties deserve a word. `TimeLedger` is the conservation law of a
session: media delivered = buffered + played + overflowed before the start, and
the clock since the start = media played + *twice* the stalls. It states what the
code does: the wait is inside the fetch time and is added again.
`DegradedOnlyWhileStoring` says that the index and the payload map only disagree in
the window between two lines of one handler. `TiersAgree` counts over all sessions
and edges: every edge miss reaches the shield exactly once, and what was delivered
stays, unless it is larger than the whole cache or something had to be evicted. It
holds of both cache types: an entry that ARC demotes is counted as evicted.
`SweepComplete` speaks of every file in the directory of a combination: those this
sweep writes hold its own results, the others are leftovers of an earlier sweep
(`Leftover`), which the code keeps under the new index (section 6). `StartsUnlessTorn`
exempts a start only for what really defeats it: of a start that races with
others nothing is exempt but the overlap with the writes themselves, and for each of the
three exemptions TLC finds a failed start if it is left out.
`OrderIndependent` excepts sweeps in which two parameters set one path or share a
name (`Apart`): there the declared order is the meaning. `PairedSessions` is what makes the comparison of the protocols a paired one:
the same edge and content for the same run and client, although load accumulates and
policies draw at random. `CapacityHonoured` allows for one exception, exactly as
large as the code makes it: each draw of zero may put a client on a full first edge.
`StatisticsByDefinition` compares the sorted-rank computations with counting
definitions (a percentile as shares below and up to it, U as pairs won).
`IndexNeverDangles` relates two sweeps: the index of the first beside the files of
the second. `EdgesVerifyUpstreams` is an equivalence, so it also pins down the case
in which verification fails.

## 4. Bounds, fairness and abstractions

Bounds. *Caches*: three or four keys, sizes of which one never fits, one fills the
cache and three small ones do not fit together, so eviction of one and of several
items, update that shrinks and grows, and drop all occur; `MaxGets` and
`MaxEvictions` bound the statistics counters, which nothing else depends on. Clear resets
the counters, so the bounds do not cut off what comes after it. *Edge*: three
requests suffice for a reader, a writer and an evictor at one time; two paths
whose bodies do not fit together, one above the cap on bodies; three instants, so
that entries expire between arrivals. *Sessions*: five segments at depth two give a
short last batch; the latencies lie below, at and above the buffer levels (8000
ms is exactly one full batch); the second session meets what the first left in
the caches, and edge evictions happen. Items live for 4000 ms, so they expire between two
lookups of a session, and some that were stored late in the first session have
not expired for the second, whose clock starts at zero. Edge caches are LRU or ARC. With the real ABRs, eleven segments reach the
first probe of the throughput-based one. *Process*: two requests, by either
listener. *ConcurrentFetch*: four requests. *Modelled transports*: the constants of
the code (1460-byte packets, ten of them in the first window), batches that end
on a window's boundary and one packet past it, losses of one packet, two a window
apart, and bursts of two, ten and twenty at every position, long enough to halve
the window down to its floor. *Experiments*: three or four clients over edges that
together have few more places, so that edges fill and policies fall back; two runs,
repeated and unknown protocols, both modes; four sessions a protocol, the fewest that
can differ significantly at 5 percent. *Sweeps*: up to three parameters of two or
three values, in either order of declaration, on one path, of one name, all but equal,
truncated to zero, of an unknown path, without a name; bases that are modelled, emulated
and refused; two sweeps in one directory, over one protocol after both and the reverse.
*Certificates*: an origin and
two edges, two starts each, over every combination of prepared files.

Fairness. `EdgeProcess`: the Go scheduler runs every handler, listener and the main
goroutine, the upstream client has a 30 s timeout and Shutdown one of 5 s, so weak
fairness of each of them; arrivals, signals and the clock have none. `PlaybackSession`: one goroutine and transport calls that
return. `ConcurrentFetch`: goroutines are scheduled and the client has a 60 s
timeout; the caller's cancellation has none.

Deadlock is off where the system really stops: all requests done, a run over,
a batch returned, an experiment reported or failed, the last sweep over, every
server up with no start left.

Abstractions. Item values, header texts and wording are left out. Paths and segment
identifiers are atoms or tuples. Durations are milliseconds, floating-point
seconds and rates become exact integer comparisons; the truncation of the
interpolated bitrate is kept. A random source is the set of outcomes it can
produce: any loss pattern a process allows, any jitter. The size of a
manifest's segments is a constant function. Numbers of a sweep are tenths, with one
digit for "integer but for less than 1e-9". Great-circle distances are inputs.

## 5. The proofs

Induction. The library's induction theorems take an operator as a parameter, which
the provers cannot instantiate, so the lemma `SetInduction` of `CacheItemsProofs`
states induction over the naturals with the property as a set: `{ n \in Nat : P(n) }`
has 0 and the successor of each of its elements, and so is all of `Nat`. A recursive
function is a CHOOSE; that it satisfies its equation is shown by constructing, by
induction, a function that does. All results about byte sums, eviction loops, sums
of sizes and transfers rest on this.

`CacheItemsProofs` - the lemmas that several components need, those about the ARC
operators included. About lists: the bytes
of a list in parts, of a list without a key, of a front of it, of a list with one more
item (`Joined`). About the LRU operators: which keys `Get`, `Put` and an eviction can leave
in the list (`GetKeys`, `PutKeys`, `EvictOverKeys`), for caches in any state, which is what
the edge server and the session rely on. About numbers: how `SumTo` unfolds and grows, that
`Sorted` lists a finite set, that a bounded set has its `Max`.

About the ARC operators: in the middle of a Put the books do not
agree, an entry is unlinked before it is pushed elsewhere. `ARCSound(w, c, loose)` says that
they agree but for the keys in `loose`, every helper is shown to take one sound cache to
another, and `replace` by induction on the rounds of its loop (`ReplaceDemotes`). `ARCGetEffect` and
`ARCPutEffect` say what a call does to the contents, `Tallied` that no key leaves T1 and T2
without being counted as evicted. `CacheSound(type, w, c)` is what a session may rely on
whatever type its edges have; `NewCacheSound`, `CacheGetEffect` and `CachePutEffect`
put the two implementations together.

`LRUCacheProofs` - for any keys, items, instants and budget: `ListStaysConsistent`,
`EvictionIsLRU` and `LRUImplementsContract`. Every call leaves the old list without a key,
with an item put at its front, or a front of it (`GetEffect`, `PutEffect`); each theorem
says what these changes do to the bytes, to the order of last use, and to the map that
the interface promises.

`ARCCacheProofs` - likewise `BooksStayInAgreement`, `ScanNeverReachesT2`,
`FrequentGivesWayLast` and `ARCImplementsContract`, from the lemmas above. For T2 the
invariant adds that the directory knows only keys that have been seen.

`EdgeServerProofs` - for any requests, paths, sizes, budget and TTL: `TypeCorrect`,
`IndexAlwaysBacked`, `AnswersAlwaysMatch`, `DegradationJustified`, `StatsAlwaysAddUp`. IndexBacked is not
inductive alone: a handler between `LruGet` and `LoadPayload` has seen a key that
may since be evicted. The invariant adds what each label means (which handlers
have a path and a body, and that the body and the stored payload are of that
path) and `HitBacked`: the path a handler is about to load has bytes, or is being
stored. The map never loses an entry, which is what carries the argument -
the growth noted in section 6 is also why the races are harmless. For the counters
the invariant adds that a hit about to be counted has been served, and that the
requests counted so far are finitely many, so Requests itself may be infinite.

Of `EdgeProcess` the same module has `ProcessImplementsHandlers`: the process is a
refinement of its handlers, so the five theorems above hold in it too; and
`H2SparedInTime`. The invariant says that after a drain in time no HTTP/2 request is under way, which
stands because none is accepted any more and a handler that is done stays done.

`FilesProofs` - what lies on disk. Of the certificates, for any servers and number of
starts: `StartsSafely` and `UpstreamsVerified`. The invariant has a half for each. Unless two have
written at once or a crash tore the pair (`Orderly`), there is one writer, between
persists a file is missing or the pair is usable (`Sound`), and a server that met no
writer can rely on what it saw (`Sees`), even when others have replaced the pair since. In
histories without overlapping starts (`Calm`) a server that persists is moreover alone
(`Alone`), so a usable pair is never replaced and each label says what its server knows
of it (`Knows`). Overlapping starts stay exempt from `UpstreamsVerified`: two
servers that both found no files may go on to serve certificates of two generators, and
then nothing can be said about who verifies whom.

Of the sweeps, for any set of configurations and any number of sweeps, interrupted
at any step, three theorems. `IndexCanBeFollowed`: the invariant says that until a sweep
writes its index the one on disk is of an earlier sweep (`IndexOlder`), that every entry
of the index in memory has a whole summary of this sweep (`IndexFresh`), and that the
summary is the first file of a combination to be written (`SummaryFirst`).
`OrderDoesNotMatter`: parameters of different names and paths are, with their values, a
set, and both the label and the overridden configuration follow from that set
(`Untangled`). `SweepsComplete`: `idx` counts through the cross product like an odometer,
so the places behind it (`Gone`, in the order `Earlier`) grow by exactly one with each
combination. The invariant keeps for these places one index entry each (`IndexedOK`),
their files with this sweep's results (`FilesOK`), the percentile that the heatmap will
need (`PctOK`), and at the end its cells; of all other files, that they are an earlier
sweep's (`LeftoversOK`). Two combinations share a directory only if
their labels are equal, which happens to values that are all but equal and to no others;
there the later one overwrites the earlier, as the property says. The one
assumption is the type of a configuration (`ConfigsAssumption`, `IsSweep`).

`ExperimentProofs` - all five properties of the run, for any configurations of the
type `IsConfig`, any policy, edges, clients and random sources. `RunsWhole`: at every
point of the three loops the number of sessions filed under a protocol is what the
counters say, also for protocols that are listed twice (`FiledOK`), and a transport is
open only while the clients of a run are served. `ClientsPaired`: in modelled mode there is a
history of the edges, one list for every run and number of clients served, which each
pass over the run goes through again (`Replays`); the clients that were served are on
`tape` from the first on, so both protocols route the same client over the same loads
with the same draws. Sessions are filed in the order of runs and clients (`PlacedOK`),
and sorting them by content is stable, so the rows of the two protocols line up.
`CapacitiesHonoured`: every policy routes to an edge with room but for a draw of zero;
a draw of zero is new on the tape, and the load rises by one. `LegacyAgrees` compares the
two effects symbolically; turning the groups around changes the sign and nothing else.
`Statistics`: the k-th value by counting has as many values below it as a percentile
must; the rank sum of a group is that of its ranks within itself plus the pairs it won,
which is counted row by row and column by column. Assumptions: draws and the weights'
unit are positive (`DrawAssumption`, `UnitAssumption`), which are resolutions of the model and not
of the code.

`PlaybackSessionProofs` - for every manifest, configuration, ABR and set of
latencies: `SessionTypeCorrect`, `BufferStaysInBounds` and `LedgerBalances`. The
three are inductive together; the step that matters, `BatchBalances`, is one
batch taken through stall, drain, fill and overflow.

`CachedWhenDelivered`, over any edges, LRU or ARC, of any size and any TTL: the loops over
`Get` and `Put` are unfolded by induction (`GetAllUnfolds`, `PutAllUnfolds`), so a lookup adds no
key to a cache and a batch adds only the keys of its misses; the log grows in the same step by an
entry for each of these (`LogGrows`). The invariant (`Shaped`) only says that the caches
are sound caches of their type (`CacheSound`) and that the log has an entry per
fetched segment: it bounds no contents.

`EdgesAndShieldAgree`, over any finite set of edges, LRU or ARC: the two tiers of caches. A loop of
`Get` over a batch counts as many misses as keys were missing or expired when it began,
since the keys differ and a `Get` touches no other key (`GetAllCounts`); a loop of `Put`
keeps every item that fits, unless it counts an eviction (`PutAllCounts`). The sum of
the misses over the edges grows by what the one edge in use counts (`EdgeMissesGrow`).
The invariant (`Tiered`) adds to `TiersAgree` that every cache counts its evictions and
that the hits of a batch are still in the cache when the batch arrives, for no other
client comes between. `EdgesAssumption` says that the edges are finitely many.

`LogTellsOneStory` - the four parts of `SessionLog`. They are not inductive alone. The
invariant (`Logged`) adds that a batch starts at a multiple of the prefetch depth, which
is what makes "first of its batch" a matter of the position (`InBatch`, `BatchPlaces`), and
which the short last batch would break if anything came after it; that before the
first batch the player has not started and its buffer is empty, so that the first
batch is tagged with no stall; and that the player's bitrate is the one of the last
segment and not zero, so that the code's test for a first batch (player.go:260) misses no
switch. The counters follow since each batch adds at most its first position to
the set they count (`CountOneMore`), the sample since zeros in front of a batch do not
change its sum (`SumAfterZeros`).

`DangerFreezes` and `EvidenceBeforeBitrate` - the two ABRs, for every ladder and all
samples a session can have collected. The target of the danger zone is at most one
level away (`DangerHolds`), and `BufferBounds` keeps the critical zone out of reach provided a segment and the
buffer are not below `CriticalBuffer`, a hypothesis of that theorem which the defaults of
the code and its configurations (4 s segments, 30 s buffer) satisfy. An average, plain or moving, is below what
all its samples are below (`EstimateBelow`, by induction along the samples), and the safety
margin only lowers it.

Assumptions: positive durations and depth (`DurationAssumption`), which is what the
code's defaults (player.go:78-83) enforce; handshake and origin latencies are natural
numbers and those of a fetch positive (`LatencyAssumption`: what crosses a transport takes
time); a manifest has finitely many positive bitrates and sizes for all of them
(`ManifestAssumption`, as generate.go makes it).

`TransportsProofs` - the modelled transports, for every workload, loss pattern and
trace: `RenoFollowed`, `NoByteLeft`, `LossesCost`, `DriftStaysBounded` and `TimesPaired`, all
five properties of the run. Within a transfer the invariant says that the offsets of the
losses ascend and lie inside it, that the cursor has passed exactly the ones below what is
sent (`Cursor`), that these were all in some window (`Covered`), and that the transfer is
no further than one without a loss, and exactly as far until its first (`Pace`). With the
floor of the window the guard of congestion.go:72 is dead code, so the loop ends with
everything sent. Between transfers it keeps for every fetch in the history where the loss
process was, its round trips against slow start, and its times (`EntryOK`). That
a fetch of one stream takes both protocols the same round trips is an induction along the
transfer: its end depends on its bytes and its losses only (`SameTransfer`). The drift
follows from a bound on the padding of one batch (`PaddingBounded`). Assumptions: sizes
are positive and a batch is not empty (both transports return early otherwise), traces
have an interval, times are natural numbers.

And the emulated ones, for a batch of any size: `DeliveredWhole` and
`NobodyLeftBehind`. The invariant ties each goroutine's place to its slot of the two
slices and to the WaitGroup.

Only model-checked: liveness (`AnsweredOrCut`, `ShutdownCompletes`, `RunEnds`,
`Returns`), which is out of the prover's reach. Every invariant and every action property
that a run checks and that holds is stated by a theorem.

## 6. Where code and documents disagree

* **ARC exceeds its budget** (run arc_over_budget, arc.go:296): `replace` gives
  up when T2 is empty and T1 within its target, and the item is inserted all
  the same.
* **The danger zone never steps down** (`FrozenInDanger`, abr_buffer.go:72): the
  hysteresis swallows the one level it aims for, and after a stall a whole segment is in
  the buffer, so the critical zone is not entered either; ADR-004 expects a step down.
* **QUIC is slower at depth one** (`PairedTimes`, quic.go:208): each loss is paid for
  in the connection time and again by its stream, so a lone segment takes exactly a
  round trip per loss longer than over TCP, where the README expects the same time.
* **The two comparisons still differ** (`LegacyAgreesUpToSign`, collector.go:185): for
  the average bitrate their effects have opposite signs, and over a TCP mean of zero
  their percentages differ, where a comment says that the divergence is eliminated.
* **Start order decides about verification** (`EdgesVerifyUpstreams`, edge main.go:55):
  a certificate an edge generates does not name the origin, so where an edge starts
  first no edge can reach the origin over the files they share. One the origin generates
  names the shield but lists of the addresses only the origin's (origin main.go:39), so no
  edge that trusts it reaches the shield by its address, the way docker-compose.yml:123 dials.
* **Comparisons outlive their sweep** (`SweepComplete`, sweep.go:304): the directory of a
  combination is not cleared, so a sweep over one protocol leaves the comparison of an earlier
  one beside its own summary, and `sweep_heatmap.py` (line 4), which follows the new index,
  plots it. The same goes for `enhanced_comparison.json` under an emulated base, `raw.csv`
  and `heatmap.json`.

Other behaviour the models contain and no run of its own is spent on: the payload
map of the edge server is never evicted (main.go:232), whatever `-cache-size-mb`
says; upstream error pages are cached for the TTL (main.go:206); a stall advances
the simulated clock twice (player.go:239, `TimeLedger`); the latency of the shield is
dropped (player.go:170, though shield.go:16 says a shield hit "still pays the edge->shield
RTT"), so `batch.upstream` enters no clock; a draw of zero overbooks the first edge
(weighted.go:35, `CapacityHonoured`); a failed flush of raw.csv goes unnoticed
(reporter.go:63, `SweepComplete`); a certificate whose key was never written is
replaced, but one with a half-written key file stops every later start
(`StartsUnlessTorn`); the verdict trusts the mean and the rank test to
mean the same winner (comparison.go:228-244): with seven sessions of 1 and one of 100
over TCP and eight of 2 over QUIC, the mean is for QUIC, the significant test for TCP, and
the verdict "large" for QUIC; and the two protocols
drift apart in the losses they draw from one seed (`DriftBounded`), where ADR-007
says they "see identical loss patterns".

## 7. What is not modelled

Bootstrap resampling, Welch's test and the special functions of `internal/analysis`,
the verbal findings of `comparison.go` and `validate.go` (floating-point functions of
finished results), report formatting, reference tables, the parsing of configurations
and flags, payload bytes, great-circle distances, operating-system measurements,
scripts (but for the names in the certificate of `docker/certs/generate.sh`) and containers,
so also the `ca.crt` that `docker-compose.yml` passes as `-ca-cert`: edges trust their default.
They compute or print and keep no state a property could be
about. The modelled handshake moves nothing but the jitter source. Zipf popularity is
a random draw: the models allow every content.

## 8. The plan

Done: the caches with their contract, the edge server and its process, the session
with both ABRs and the shield, the batch fetch, the modelled transports, the experiment
with routing and metrics, the sweep, the certificates, and a proof of every safety
property. Left, in this order:

1. The modelled handshake with resumption, and the session composed with the modelled
   transports in place of its external one.
2. Cross-validation of modelled and emulated results (`validate.go`).
