------------------------- MODULE ModeledTransports -------------------------
(***************************************************************************)
(* The modelled transports of internal/transport/modeled: HTTP/2 over TCP  *)
(* (tcp.go) and HTTP/3 over QUIC (quic.go) above the same Reno window      *)
(* (congestion.go), loss process (loss.go) and bandwidth (bandwidth.go).   *)
(*                                                                         *)
(* As in internal/experiment/runner.go the two protocols run one after the *)
(* other from the same seed, here over the same fetches.  What the child   *)
(* random source makes of the n-th packet is then the same for both, and   *)
(* is the set lost of packet numbers.  Times are milliseconds, rates bytes *)
(* per millisecond.                                                        *)
(***************************************************************************)
EXTENDS Integers, Sequences, FiniteSets, FiniteSetsExt, SequencesExt, Numbers

CONSTANTS
  Workloads,     \* sequences of fetches: FetchSegment or FetchConcurrent calls
  LossPatterns,  \* sets of packets a loss process may lose
  LossType,      \* "none", "uniform" or "gilbert_elliott"
  Traces,        \* bandwidth traces; one interval is a constant bandwidth
  RTT,           \* BaseRTTMs
  Jitters        \* what sampleJitter may return

DefaultMSS == 1460
InitialCWND == 10
Unbounded == 1073741824  \* 1 << 30, the first threshold
Protocols == <<"tcp-h2", "quic-h3">>

Fetches == [kind : {"segment", "batch"}, sizes : Seq(Nat \ {0})]

ASSUME WorkloadAssumption ==
  \A w \in Workloads :
     /\ w \in Seq(Fetches)
     /\ \A n \in DOMAIN w : Len(w[n].sizes) > 0 /\ (w[n].kind = "segment" => Len(w[n].sizes) = 1)
ASSUME TraceAssumption ==
  \A trace \in Traces : Len(trace) > 0 /\ trace \in Seq([duration : Nat, rate : Int])
ASSUME TimeAssumption == RTT \in Nat \ {0} /\ Jitters \subseteq Nat
ASSUME PatternAssumption == \A lost \in LossPatterns : lost \subseteq Nat /\ IsFiniteSet(lost)

VARIABLES
  workload, lost, trace,
  proto,    \* the protocol whose session is running, by its number
  pc,
  packet,   \* the next packet of the loss process
  clock,    \* the wallClock of the transport
  conn,     \* the transfer under way
  windows,  \* history: the byte ranges sent in its round trips
  log       \* for each protocol, what each of its fetches came to

params == <<workload, lost, trace>>
vars == <<params, proto, pc, packet, clock, conn, windows, log>>

CeilDiv(a, b) == (a + b - 1) \div b

-----------------------------------------------------------------------------
\* The loss processes: GOOD never loses a packet, and a connection starts there.
IsPossible(pattern) ==
  CASE LossType = "none" -> pattern = {}
    [] LossType = "gilbert_elliott" -> 0 \notin pattern
    [] OTHER -> TRUE

\* BandwidthAt: the last interval goes on for ever.
BandwidthAt(t) ==
  LET durations == [n \in DOMAIN trace |-> trace[n].duration]
      after == { n \in DOMAIN trace : t < SumTo(durations, n) }
  IN  trace[IF after = {} THEN Len(trace) ELSE Min(after)].rate

\* A rate of nothing or less is taken for 1 Mbps.
Rate == IF BandwidthAt(clock) <= 0 THEN 125 ELSE BandwidthAt(clock)

\* SimulatePackets: the lost ones of the next n packets, counted from 0.
SimulatePackets(first, n) == { k - first : k \in lost \cap first .. first + n - 1 }

Fetch == workload[Len(log[proto]) + 1]
Packets(bytes) == CeilDiv(bytes, DefaultMSS)

\* QUIC runs the loss process per stream, TCP over the bytes of all of them.
PerStream == Protocols[proto] = "quic-h3" /\ Fetch.kind = "batch"

StreamPackets == [k \in DOMAIN Fetch.sizes |-> Packets(Fetch.sizes[k])]

\* The first packet and the byte offset of the k-th stream of a QUIC batch.
FirstPacket(k) == packet + SumTo(StreamPackets, k - 1)
Offset(k) == SumTo(Fetch.sizes, k - 1)
StreamLosses(k) == SimulatePackets(FirstPacket(k), Packets(Fetch.sizes[k]))

TotalBytes == SumOf(Fetch.sizes)

\* Mutant: QUIC draws a packet too many for a stream of whole packets.
DrawnOneTooMany ==
  IF PerStream THEN SumOf([k \in DOMAIN Fetch.sizes |-> Fetch.sizes[k] \div DefaultMSS + 1])
               ELSE Packets(TotalBytes)

\* The packets a call draws from the loss process.
Drawn == IF PerStream THEN SumOf(StreamPackets) ELSE Packets(TotalBytes)

\* The byte offsets of the losses, and sorted.
LostAt ==
  IF PerStream
  THEN UNION { { Offset(k) + n * DefaultMSS : n \in StreamLosses(k) } : k \in DOMAIN Fetch.sizes }
  ELSE { n * DefaultMSS : n \in SimulatePackets(packet, Drawn) }
LossOffsets == Sorted(LostAt)

-----------------------------------------------------------------------------
(***************************************************************************)
(* CongestionController: one transfer, a round trip at a time.             *)
(***************************************************************************)
\* Mutant: the initial window has already been doubled once.
NewControllerDoubled == [cwnd |-> 2 * InitialCWND * DefaultMSS, ssthresh |-> Unbounded,
                         sent |-> 0, rtts |-> 0, lossIdx |-> 0]

NewController == [cwnd |-> InitialCWND * DefaultMSS, ssthresh |-> Unbounded,
                  sent |-> 0, rtts |-> 0, lossIdx |-> 0]

ToSend(c, total) == IF c.cwnd > total - c.sent THEN total - c.sent ELSE c.cwnd

\* Mutant: a loss at the very end of a window is passed over with the window.
ConsumedPastEnd(c, offsets, end) ==
  c.lossIdx + Cardinality({ k \in DOMAIN offsets : k > c.lossIdx /\ offsets[k] <= end })

\* The cursor moves past every loss below the end of the window.
Consumed(c, offsets, end) ==
  c.lossIdx + Cardinality({ k \in DOMAIN offsets : k > c.lossIdx /\ offsets[k] < end })

LossInWindow(c, offsets, end) ==
  \E k \in c.lossIdx + 1 .. Consumed(c, offsets, end) : offsets[k] >= c.sent

Halved(cwnd) == IF cwnd \div 2 < 2 * DefaultMSS THEN 2 * DefaultMSS ELSE cwnd \div 2

Grown(c) == IF c.cwnd < c.ssthresh THEN c.cwnd * 2 ELSE c.cwnd + DefaultMSS

RoundTrip(c, total, offsets) ==
  LET end == c.sent + ToSend(c, total)
      loss == LossInWindow(c, offsets, end)
  IN  [sent |-> end,
       lossIdx |-> Consumed(c, offsets, end),
       rtts |-> IF loss THEN c.rtts + 2 ELSE c.rtts + 1,
       cwnd |-> IF loss THEN Halved(c.cwnd) ELSE Grown(c),
       ssthresh |-> IF loss THEN Halved(c.cwnd) ELSE c.ssthresh]

-----------------------------------------------------------------------------
NoConn == [offsets |-> << >>, total |-> 0, rate |-> 125, c |-> NewController]

Init ==
  /\ workload \in Workloads
  /\ lost \in { pattern \in LossPatterns : IsPossible(pattern) }
  /\ trace \in Traces
  /\ proto = 1 /\ pc = "idle"
  /\ packet = 0 /\ clock = 0
  /\ conn = NoConn /\ windows = << >>
  /\ log = [p \in 1 .. Len(Protocols) |-> << >>]

\* The losses of the whole call are drawn before its first round trip.
Start ==
  /\ pc = "idle" /\ Len(log[proto]) < Len(workload)
  /\ pc' = "transfer"
  /\ conn' = [offsets |-> LossOffsets, total |-> TotalBytes, rate |-> Rate, c |-> NewController]
  /\ windows' = << >>
  /\ UNCHANGED <<params, proto, packet, clock, log>>

\* Mutant: only whole packets are sent.
SendingWholePackets == conn.c.sent + DefaultMSS <= conn.total

\* TransferTime's loop, with its guard against a window that closed.
Sending == conn.c.sent < conn.total /\ ToSend(conn.c, conn.total) > 0

Round ==
  /\ pc = "transfer" /\ Sending
  /\ conn' = [conn EXCEPT !.c = RoundTrip(@, conn.total, conn.offsets)]
  /\ windows' = Append(windows, [from |-> conn.c.sent, to |-> conn'.c.sent])
  /\ UNCHANGED <<params, proto, pc, packet, clock, log>>

\* The slower of window and bandwidth.
ConnTransferTime == Max({conn.c.rtts * RTT, conn.total \div conn.rate})

Share(k) == (ConnTransferTime * Fetch.sizes[k]) \div conn.total

\* Mutant: a stream of TCP waits for the connection also without a loss.
TransferTimesTCPAlwaysBlocked ==
  [k \in DOMAIN Fetch.sizes |-> IF PerStream THEN Share(k) + Cardinality(StreamLosses(k)) * RTT
                                             ELSE ConnTransferTime]

\* A lone fetch takes the whole transfer.  In a batch a stream of TCP waits for
\* the whole connection as soon as anything is lost, and one of QUIC takes its
\* share and a round trip for each loss of its own.
TransferTimes ==
  [k \in DOMAIN Fetch.sizes |->
     IF Fetch.kind = "segment" THEN ConnTransferTime
     ELSE IF PerStream THEN Share(k) + Cardinality(StreamLosses(k)) * RTT
     ELSE IF conn.offsets # << >> THEN ConnTransferTime ELSE Share(k)]

\* How far the call has moved the loss process.
NextPacket == packet + Drawn

\* Each stream has a jitter of its own, that of its first byte and of the rest.
Finish ==
  /\ pc = "transfer" /\ ~Sending
  /\ pc' = "idle"
  /\ log' = [log EXCEPT ![proto] = Append(@,
       [first |-> packet, next |-> NextPacket, losses |-> Len(conn.offsets),
        rate |-> conn.rate, rtts |-> conn.c.rtts, transfers |-> TransferTimes])]
  /\ packet' = NextPacket
  /\ \E jitter \in [DOMAIN Fetch.sizes -> Jitters] :
        LET totals == [k \in DOMAIN Fetch.sizes |-> RTT \div 2 + TransferTimes[k] + jitter[k]]
        IN  clock' = clock + IF Fetch.kind = "batch" /\ ~PerStream
                             THEN ConnTransferTime ELSE Max(Range(totals))
  /\ UNCHANGED <<params, proto, conn, windows>>

\* The second protocol gets a transport of its own, from the same seed.
NextProtocol ==
  /\ pc = "idle" /\ Len(log[proto]) = Len(workload) /\ proto < Len(Protocols)
  /\ proto' = proto + 1
  /\ packet' = 0 /\ clock' = 0
  /\ UNCHANGED <<params, pc, conn, windows, log>>

Next == Start \/ Round \/ Finish \/ NextProtocol

Spec == Init /\ [][Next]_vars

-----------------------------------------------------------------------------
\* The window never falls below two packets, however many losses come in a row:
\* "cwnd cannot reach 0" (congestion.go:68-71).
WindowFloor == conn.c.cwnd >= 2 * DefaultMSS /\ conn.c.ssthresh >= 2 * DefaultMSS

\* A transfer is over only when every byte has been sent: the guard against a
\* closed window never ends one early (congestion.go:72-74).
EveryByteSent == [][ pc = "transfer" /\ pc' = "idle" => conn.c.sent = conn.total ]_vars

\* The round trips that lost something.
Hits == { n \in DOMAIN windows : \E k \in DOMAIN conn.offsets :
            windows[n].from <= conn.offsets[k] /\ conn.offsets[k] < windows[n].to }

\* Each round trip costs one, and one more if it lost anything, however many
\* packets: no loss is charged twice and none is passed over, also at the
\* boundary of two windows (congestion.go:82-91).
RttsAccounted == conn.c.rtts = Len(windows) + Cardinality(Hits)

\* The round trips after which slow start passes the first threshold, if nothing is
\* lost; from then on the window grows by a packet.
Doublings == 17
Doubled(n) == IF n < Doublings THEN n ELSE Doublings

\* The window after n round trips without a loss, and the bytes sent in them.
LosslessWindow(n) == InitialCWND * DefaultMSS * 2^Doubled(n) + (n - Doubled(n)) * DefaultMSS
LosslessBytes(n) ==
  LET more == n - Doubled(n)
  IN  InitialCWND * DefaultMSS * (2^Doubled(n) - 1)
        + more * (InitialCWND * DefaultMSS * 2^Doublings) + ((more * (more - 1)) \div 2) * DefaultMSS

\* Until the first loss the window doubles every round trip, up to the first
\* threshold; from then on it is the threshold of the last loss and a packet more
\* for each round trip since.
SlowStartThenAvoidance ==
  IF Hits = {}
  THEN conn.c.cwnd = LosslessWindow(Len(windows))
  ELSE conn.c.cwnd = conn.c.ssthresh + (Len(windows) - Max(Hits)) * DefaultMSS

\* The window follows Reno, round trip by round trip.
RenoLaw == WindowFloor /\ RttsAccounted /\ SlowStartThenAvoidance

\* Without a loss a transfer takes the round trips of slow start, as few as its bytes
\* need; with one it takes more than that, wherever the losses are.
LossNeverHelps ==
  \A p \in 1 .. Len(Protocols) : \A n \in DOMAIN log[p] :
     LET Enough(rounds) == LosslessBytes(rounds) >= SumOf(workload[n].sizes)
         rtts == log[p][n].rtts
     IN  IF log[p][n].losses = 0
         THEN Enough(rtts) /\ ~(\E fewer \in 0 .. rtts - 1 : Enough(fewer))
         ELSE \E fewer \in 0 .. rtts - 1 : Enough(fewer)

\* The fetches both protocols have made.
Compared == DOMAIN log[1] \cap DOMAIN log[2]

\* The two protocols draw from the same losses and drift apart: QUIC pads every
\* stream of a batch to whole packets, so it is ahead, and by at most one packet
\* for each stream beyond the first (tcp.go:182-183, quic.go:170-171).
DriftBounded ==
  \A n \in Compared :
     log[2][n].next - log[1][n].next
       \in 0 .. SumTo([m \in DOMAIN workload |-> Len(workload[m].sizes) - 1], n)

\* "At 0% loss, each stream completes at its proportional share of the connection
\* time - same as QUIC" (docs/CODEMAP.md): over the same bandwidth a fetch that
\* lost nothing takes the same time with both protocols.
LosslessIdentical ==
  \A n \in Compared :
     log[1][n].losses + log[2][n].losses = 0 /\ log[1][n].rate = log[2][n].rate =>
        log[1][n].transfers = log[2][n].transfers

\* "At prefetch depth 1 (fetching one segment at a time), TCP and QUIC perform
\* identically" (README.md:135).  Over the same losses and the same bandwidth a
\* batch of one segment takes QUIC a round trip longer for every loss: the recovery
\* is in the connection time and is charged to the stream again (quic.go:208).
DepthOneGap ==
  \A n \in Compared :
     /\ Len(workload[n].sizes) = 1
     /\ log[1][n].first = log[2][n].first /\ log[1][n].rate = log[2][n].rate
     => log[2][n].transfers[1] - log[1][n].transfers[1] =
          IF workload[n].kind = "batch" THEN log[1][n].losses * RTT ELSE 0

\* Where the two protocols meet the same conditions, this is all that sets their
\* times apart.
PairedTimes == LosslessIdentical /\ DepthOneGap
=============================================================================
