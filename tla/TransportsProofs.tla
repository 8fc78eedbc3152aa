-------------------------- MODULE TransportsProofs --------------------------
(***************************************************************************)
(* The transports.  The modelled ones, for every workload, loss pattern    *)
(* and bandwidth trace: within a transfer the invariant relates the window *)
(* to the round trips so far, the cursor to the bytes sent and the         *)
(* progress to that of slow start; between transfers it keeps, for every   *)
(* fetch made, the packets drawn, the round trips and the times.  That the *)
(* end of a transfer depends on its bytes and losses only is shown by      *)
(* induction along its round trips.                                        *)
(*                                                                         *)
(* The emulated ones: FetchConcurrent for batches of any size.  Its safety *)
(* follows from where the goroutines are: the WaitGroup holds exactly the  *)
(* goroutines that are neither unborn nor done, a slot without an error is *)
(* filled by the time its goroutine leaves, and the context is only        *)
(* cancelled by a goroutine that has recorded an error.                    *)
(***************************************************************************)
EXTENDS ModeledTransports, ConcurrentFetch, CacheItemsProofs

-----------------------------------------------------------------------------
\* The history is one sequence per protocol, whatever its entries; a transfer is that
\* of the next fetch.
LogShape ==
  /\ workload \in Workloads /\ lost \in LossPatterns /\ trace \in Traces
  /\ proto \in 1 .. 2 /\ packet \in Nat
  /\ \E S : log \in [1 .. 2 -> Seq(S)]
  /\ pc = "transfer" => Len(log[proto]) < Len(workload)

\* Offsets of losses in a transfer of that many bytes.
Ascending(offsets, total) ==
  /\ offsets \in Seq(Nat)
  /\ \A i, j \in DOMAIN offsets : i < j => offsets[i] < offsets[j]
  /\ \A i \in DOMAIN offsets : offsets[i] < total

\* The packets of some bytes start inside of them.
LEMMA PacketsCover ==
  ASSUME NEW bytes \in Nat
  PROVE  Packets(bytes) \in Nat /\ \A n \in 0 .. Packets(bytes) - 1 : n * DefaultMSS < bytes
BY DEF Packets, CeilDiv, DefaultMSS

\* The fetch under way is one of the workload's, and its bytes and packets are numbers.
LEMMA FetchKnown ==
  ASSUME LogShape, Len(log[proto]) < Len(workload)
  PROVE  /\ Fetch.sizes \in Seq(Nat) /\ Len(Fetch.sizes) \in Nat
         /\ StreamPackets \in Seq(Nat) /\ Len(StreamPackets) = Len(Fetch.sizes)
         /\ \A k \in 1 .. Len(Fetch.sizes) :
              Fetch.sizes[k] \in Nat \ {0} /\ StreamPackets[k] = Packets(Fetch.sizes[k])
         /\ TotalBytes \in Nat /\ Drawn \in Nat
<1>1. workload \in Seq(Fetches) /\ Len(log[proto]) + 1 \in 1 .. Len(workload)
  <2>1. workload \in Seq(Fetches)
    BY WorkloadAssumption DEF LogShape
  <2>2. Len(log[proto]) \in Nat
    BY DEF LogShape
  <2>3. QED
    BY <2>1, <2>2
<1>2. Fetch \in Fetches
  BY <1>1, ElementOfSeq DEF Fetch
<1>3. Fetch.sizes \in Seq(Nat \ {0})
  BY <1>2 DEF Fetches
<1>4. /\ Fetch.sizes \in Seq(Nat) /\ Len(Fetch.sizes) \in Nat
      /\ DOMAIN Fetch.sizes = 1 .. Len(Fetch.sizes)
      /\ \A k \in 1 .. Len(Fetch.sizes) : Fetch.sizes[k] \in Nat \ {0}
  BY <1>3, SeqDef
<1>5. /\ StreamPackets \in Seq(Nat) /\ Len(StreamPackets) = Len(Fetch.sizes)
      /\ \A k \in 1 .. Len(Fetch.sizes) : StreamPackets[k] = Packets(Fetch.sizes[k])
  <2>1. \A k \in 1 .. Len(Fetch.sizes) : Packets(Fetch.sizes[k]) \in Nat
    BY <1>4, PacketsCover
  <2>2. StreamPackets = [k \in 1 .. Len(Fetch.sizes) |-> Packets(Fetch.sizes[k])]
    BY <1>4 DEF StreamPackets
  <2>3. QED
    BY <1>4, <2>1, <2>2
<1>6. TotalBytes \in Nat /\ SumOf(StreamPackets) \in Nat
  BY <1>4, <1>5, SumToUnfolds DEF TotalBytes, SumOf
<1>7. QED
  BY <1>4, <1>5, <1>6, PacketsCover DEF Drawn

\* The losses of the next n packets are among them.
LEMMA LossesAmongPackets ==
  ASSUME NEW first \in Nat, NEW n \in Nat
  PROVE  SimulatePackets(first, n) \subseteq 0 .. n - 1
BY DEF SimulatePackets

\* The losses of a call are inside the bytes it transfers: also those of the streams of
\* QUIC, one after the other (quic.go:163-180).
LEMMA LostInside ==
  ASSUME LogShape, Len(log[proto]) < Len(workload)
  PROVE  LostAt \subseteq 0 .. TotalBytes - 1 /\ LostAt \subseteq Nat /\ IsFiniteSet(LostAt)
<1> DEFINE ofStreams == UNION { { Offset(k) + n * DefaultMSS : n \in StreamLosses(k) } :
                                  k \in DOMAIN Fetch.sizes }
           ofBytes == { n * DefaultMSS : n \in SimulatePackets(packet, Drawn) }
<1>1. TotalBytes \in Nat /\ packet \in Nat /\ DefaultMSS \in Nat
  BY FetchKnown DEF LogShape, DefaultMSS
<1>2. ofStreams \subseteq 0 .. TotalBytes - 1
  <2> SUFFICES ASSUME NEW x \in ofStreams PROVE x \in 0 .. TotalBytes - 1
    OBVIOUS
  <2>0. PICK k \in DOMAIN Fetch.sizes : \E n \in StreamLosses(k) : x = Offset(k) + n * DefaultMSS
    BY Zenon
  <2> PICK n \in StreamLosses(k) : x = Offset(k) + n * DefaultMSS
    BY <2>0
  <2> HIDE DEF ofStreams, ofBytes
  <2>1. k \in 1 .. Len(Fetch.sizes) /\ Fetch.sizes \in Seq(Nat) /\ Fetch.sizes[k] \in Nat
    <3>1. Fetch.sizes \in Seq(Nat)
      BY FetchKnown
    <3>2. DOMAIN Fetch.sizes = 1 .. Len(Fetch.sizes)
      BY <3>1
    <3>3. k \in 1 .. Len(Fetch.sizes)
      BY <3>2
    <3>4. QED
      BY <3>1, <3>3
  <2>2. FirstPacket(k) \in Nat
    <3>1. StreamPackets \in Seq(Nat) /\ k - 1 \in 0 .. Len(StreamPackets)
      BY <2>1, FetchKnown
    <3>2. QED
      BY <1>1, <3>1, SumToUnfolds DEF FirstPacket
  <2>3. n \in 0 .. Packets(Fetch.sizes[k]) - 1 /\ Packets(Fetch.sizes[k]) \in Nat
    BY <2>1, <2>2, PacketsCover, LossesAmongPackets DEF StreamLosses
  <2>4. n * DefaultMSS \in Nat /\ n * DefaultMSS < Fetch.sizes[k]
    <3>1. n * DefaultMSS < Fetch.sizes[k]
      BY <2>1, <2>3, PacketsCover
    <3>2. n * DefaultMSS \in Nat
      BY <2>3 DEF DefaultMSS
    <3>3. QED
      BY <3>1, <3>2
  <2>5. Offset(k) \in Nat /\ Offset(k) + Fetch.sizes[k] = SumTo(Fetch.sizes, k)
    BY <2>1, SumToUnfolds DEF Offset
  <2>6. SumTo(Fetch.sizes, k) <= TotalBytes
    BY <2>1, SumToGrows DEF TotalBytes
  <2> DEFINE start == Offset(k)
             past == n * DefaultMSS
             size == Fetch.sizes[k]
             upTo == SumTo(Fetch.sizes, k)
  <2>7. start \in Nat /\ past \in Nat /\ size \in Nat /\ TotalBytes \in Nat
    BY <1>1, <2>1, <2>4, <2>5
  <2>8. x = start + past /\ past < size /\ start + size = upTo /\ upTo <= TotalBytes
    BY <2>4, <2>5, <2>6
  <2> HIDE DEF start, past, size, upTo
  <2>9. QED
    BY <2>7, <2>8
<1>3. ~PerStream => ofBytes \subseteq 0 .. TotalBytes - 1
  <2> SUFFICES ASSUME ~PerStream, NEW n \in SimulatePackets(packet, Drawn)
               PROVE  n * DefaultMSS \in 0 .. TotalBytes - 1
    BY Zenon
  <2>1. n \in 0 .. Packets(TotalBytes) - 1 /\ Packets(TotalBytes) \in Nat
    BY <1>1, PacketsCover, LossesAmongPackets DEF Drawn
  <2>2. QED
    BY <1>1, <2>1, PacketsCover DEF DefaultMSS
<1>4. LostAt \subseteq 0 .. TotalBytes - 1
  BY <1>2, <1>3 DEF LostAt
<1>5. IsFiniteSet(0 .. TotalBytes - 1) /\ 0 .. TotalBytes - 1 \subseteq Nat
  BY <1>1, FS_Interval
<1>6. QED
  BY <1>4, <1>5, FS_Subset

\* A call hands them to the controller in ascending order.
LEMMA OffsetsAscend ==
  ASSUME LogShape, Len(log[proto]) < Len(workload)
  PROVE  Ascending(LossOffsets, TotalBytes) /\ Len(LossOffsets) = Cardinality(LostAt)
<1>1. /\ LossOffsets \in Seq(LostAt) /\ Len(LossOffsets) = Cardinality(LostAt)
      /\ DOMAIN LossOffsets = 1 .. Cardinality(LostAt)
      /\ \A i, j \in 1 .. Cardinality(LostAt) : i < j => LossOffsets[i] < LossOffsets[j]
  BY LostInside, SortedLists DEF LossOffsets
<1>2. \A i \in DOMAIN LossOffsets : LossOffsets[i] \in LostAt
  BY <1>1, ElementOfSeq
<1>3. LossOffsets \in Seq(Nat)
  <2>1. PICK n \in Nat : LossOffsets \in [1 .. n -> LostAt]
    BY <1>1, SeqDef
  <2>2. LossOffsets \in [1 .. n -> Nat]
    BY <2>1, LostInside
  <2>3. QED
    BY <2>2, SeqDef
<1>4. \A i \in DOMAIN LossOffsets : LossOffsets[i] < TotalBytes
  <2>1. \A x \in LostAt : x < TotalBytes
    BY FetchKnown, LostInside
  <2>2. QED
    BY <1>2, <2>1
<1>5. QED
  BY <1>1, <1>3, <1>4 DEF Ascending

-----------------------------------------------------------------------------
\* What slow start multiplies the window by before it passes the first threshold.
LastPower == 65536

\* The powers of two that slow start reaches.
LEMMA PowersOfTwo ==
  ASSUME NEW n \in 0 .. 16
  PROVE  2^n \in Nat /\ 1 <= 2^n /\ 2^n <= LastPower /\ 2^(n + 1) = 2 * 2^n
<1> DEFINE p(k) == 2^k
<1>1. /\ p(0) = 1 /\ p(1) = 2 /\ p(2) = 4 /\ p(3) = 8 /\ p(4) = 16 /\ p(5) = 32 /\ p(6) = 64
      /\ p(7) = 128 /\ p(8) = 256 /\ p(9) = 512 /\ p(10) = 1024 /\ p(11) = 2048 /\ p(12) = 4096
      /\ p(13) = 8192 /\ p(14) = 16384 /\ p(15) = 32768 /\ p(16) = 65536 /\ p(17) = 131072
  BY SMT
<1> HIDE DEF p
<1>2. p(n) \in Nat /\ 1 <= p(n) /\ p(n) <= LastPower /\ p(n + 1) = 2 * p(n)
  BY <1>1, SMT DEF LastPower
<1>3. QED
  BY <1>2 DEF p

\* Slow start by its closed form: the window passes the first threshold with the 17th
\* doubling, and what a round trip sends is its window.
LEMMA LosslessGrowth ==
  ASSUME NEW n \in Nat
  PROVE  /\ LosslessWindow(n) \in Nat /\ LosslessWindow(n) >= 10 * DefaultMSS
         /\ LosslessWindow(n) < Unbounded <=> n < Doublings
         /\ LosslessWindow(n + 1) = IF n < Doublings THEN LosslessWindow(n) * 2
                                                     ELSE LosslessWindow(n) + DefaultMSS
         /\ LosslessBytes(n) \in Nat
         /\ LosslessBytes(n + 1) = LosslessBytes(n) + LosslessWindow(n)
<1>1. CASE n < Doublings
  <2> DEFINE p == 2^n
             q == 2^(n + 1)
  <2>1. p \in Nat /\ 1 <= p /\ p <= LastPower /\ q = 2 * p
    <3>1. n \in 0 .. 16
      BY <1>1 DEF Doublings
    <3>2. QED
      BY <3>1, PowersOfTwo, Zenon
  <2>2. /\ LosslessWindow(n) = 14600 * p /\ LosslessBytes(n) = 14600 * (p - 1)
        /\ LosslessWindow(n + 1) = 14600 * q /\ LosslessBytes(n + 1) = 14600 * (q - 1)
    <3>1. Doubled(n) = n /\ Doubled(n + 1) = n + 1 /\ p \in Int /\ q \in Int
      BY <1>1, <2>1 DEF Doubled, Doublings
    <3>2. /\ LosslessWindow(n) = InitialCWND * DefaultMSS * p + (n - n) * DefaultMSS
          /\ LosslessWindow(n + 1) = InitialCWND * DefaultMSS * q + ((n + 1) - (n + 1)) * DefaultMSS
      BY <3>1, Zenon DEF LosslessWindow
    <3> DEFINE b == 2^Doublings
    <3>3. /\ LosslessBytes(n) = InitialCWND * DefaultMSS * (p - 1)
               + (n - n) * (InitialCWND * DefaultMSS * b) + (((n - n) * ((n - n) - 1)) \div 2) * DefaultMSS
          /\ LosslessBytes(n + 1) = InitialCWND * DefaultMSS * (q - 1)
               + ((n + 1) - (n + 1)) * (InitialCWND * DefaultMSS * b)
               + ((((n + 1) - (n + 1)) * (((n + 1) - (n + 1)) - 1)) \div 2) * DefaultMSS
      BY <3>1, Zenon DEF LosslessBytes
    <3>4. n - n = 0 /\ (n + 1) - (n + 1) = 0 /\ b \in Int
      BY SMT DEF Doublings
    <3> HIDE DEF p, q, b
    <3>5. QED
      BY <3>1, <3>2, <3>3, <3>4, SMT DEF InitialCWND, DefaultMSS
  <2> HIDE DEF p, q
  <2>3. QED
    BY <1>1, <2>1, <2>2, SMT DEF Doublings, DefaultMSS, Unbounded, LastPower
<1>2. CASE n >= Doublings
  <2> DEFINE more == n - 17
             pairs == more * (more - 1)
  <2>1. more \in Nat /\ n = 17 + more
    BY <1>2 DEF Doublings
  <2>2. pairs \in Nat /\ (more + 1) * more = pairs + 2 * more
    BY <2>1
  <2>3. /\ LosslessWindow(n) = 1913651200 + more * 1460
        /\ LosslessWindow(n + 1) = 1913651200 + (more + 1) * 1460
    BY <2>1, SMT DEF LosslessWindow, Doubled, Doublings, InitialCWND, DefaultMSS
  <2>4. /\ LosslessBytes(n) = 1913636600 + more * 1913651200 + (pairs \div 2) * 1460
        /\ LosslessBytes(n + 1) = 1913636600 + (more + 1) * 1913651200
                                    + (((more + 1) * more) \div 2) * 1460
    BY <2>1, SMT DEF LosslessBytes, Doubled, Doublings, InitialCWND, DefaultMSS
  <2>5. pairs \div 2 \in Nat /\ ((more + 1) * more) \div 2 = pairs \div 2 + more
    <3> HIDE DEF pairs
    <3>1. QED
      BY <2>1, <2>2
  <2> HIDE DEF pairs, more
  <2>6. QED
    BY <1>2, <2>1, <2>3, <2>4, <2>5, SMT DEF Doublings, DefaultMSS, Unbounded
<1>3. QED
  BY <1>1, <1>2 DEF Doublings

\* The cursor has passed the losses below what is sent, and no others.
Cursor(c, offsets) ==
  /\ c.lossIdx \in 0 .. Len(offsets)
  /\ \A k \in DOMAIN offsets : k <= c.lossIdx <=> offsets[k] < c.sent

\* Since the offsets ascend, counting the ones below the end of a window moves the
\* cursor exactly past them, and a window sees the losses inside of it and no others.
LEMMA CursorMoves ==
  ASSUME NEW c, NEW offsets, NEW total \in Nat, NEW end \in Nat,
         Ascending(offsets, total), c.sent \in Nat, c.sent <= end, Cursor(c, offsets)
  PROVE  /\ Consumed(c, offsets, end) \in 0 .. Len(offsets)
         /\ \A k \in DOMAIN offsets : k <= Consumed(c, offsets, end) <=> offsets[k] < end
         /\ LossInWindow(c, offsets, end)
              <=> \E k \in DOMAIN offsets : c.sent <= offsets[k] /\ offsets[k] < end
<1> DEFINE len == Len(offsets)
           past == { k \in 1 .. len + 1 : k <= len => ~(offsets[k] < end) }
           passed == { k \in DOMAIN offsets : k > c.lossIdx /\ offsets[k] < end }
<1>1. /\ len \in Nat /\ DOMAIN offsets = 1 .. len
      /\ \A k \in 1 .. len : offsets[k] \in Nat
      /\ c.lossIdx \in 0 .. len
  BY LenProperties, ElementOfSeq DEF Ascending, Cursor
<1>2. PICK m \in past : \A k \in past : m <= k
  <2>1. past \subseteq Nat /\ len + 1 \in past
    BY <1>1
  <2> HIDE DEF past
  <2>2. QED
    BY <2>1, LeastNatural
<1>3. m \in 1 .. len + 1 /\ \A k \in 1 .. len : k <= m - 1 <=> offsets[k] < end
  <2>1. m \in 1 .. len + 1
    OBVIOUS
  <2>2. ASSUME NEW k \in 1 .. len, k <= m - 1 PROVE offsets[k] < end
    BY <1>1, <1>2, <2>1, <2>2
  <2>3. ASSUME NEW k \in 1 .. len, ~(k <= m - 1) PROVE ~(offsets[k] < end)
    <3>1. m \in 1 .. len /\ ~(offsets[m] < end) /\ m <= k
      BY <1>1, <2>1, <2>3
    <3>2. offsets[m] <= offsets[k]
      <4>1. m < k => offsets[m] < offsets[k]
        BY <1>1, <3>1 DEF Ascending
      <4>2. QED
        BY <1>1, <3>1, <4>1
    <3>3. QED
      BY <1>1, <3>1, <3>2
  <2>4. QED
    BY <2>1, <2>2, <2>3
<1>4. c.lossIdx <= m - 1
  <2>1. c.lossIdx \in 1 .. len => offsets[c.lossIdx] < end
    BY <1>1 DEF Cursor
  <2>2. QED
    BY <1>1, <1>3, <2>1
<1>5. passed = c.lossIdx + 1 .. m - 1
  BY <1>1, <1>3, <1>4
<1>6. Cardinality(passed) = (m - 1) - c.lossIdx
  <2>1. c.lossIdx + 1 \in Int /\ m - 1 \in Int
    BY <1>1, <1>3
  <2>2. Cardinality(c.lossIdx + 1 .. m - 1) =
          IF c.lossIdx + 1 > m - 1 THEN 0 ELSE (m - 1) - (c.lossIdx + 1) + 1
    BY <2>1, FS_Interval
  <2>3. c.lossIdx \in Nat /\ m \in Nat
    BY <1>1, <1>3
  <2> HIDE DEF passed
  <2>4. Cardinality(passed) = Cardinality(c.lossIdx + 1 .. m - 1)
    BY <1>5
  <2>5. QED
    BY <1>4, <2>2, <2>3, <2>4
<1>7. Consumed(c, offsets, end) = m - 1
  <2>1. Consumed(c, offsets, end) = c.lossIdx + Cardinality(passed)
    BY DEF Consumed
  <2>2. QED
    BY <1>1, <1>3, <1>6, <2>1
<1>8. \A k \in 1 .. len : k >= c.lossIdx + 1 <=> c.sent <= offsets[k]
  BY <1>1 DEF Cursor
<1>9. LossInWindow(c, offsets, end)
        <=> \E k \in 1 .. len : c.sent <= offsets[k] /\ offsets[k] < end
  <2>1. LossInWindow(c, offsets, end) <=> \E k \in c.lossIdx + 1 .. m - 1 : offsets[k] >= c.sent
    BY <1>7 DEF LossInWindow
  <2>2. \A k : k \in c.lossIdx + 1 .. m - 1 <=> k \in 1 .. len /\ k >= c.lossIdx + 1 /\ k <= m - 1
    BY <1>1, <1>3
  <2>3. QED
    BY <1>1, <1>3, <1>8, <2>1, <2>2
<1>10. Consumed(c, offsets, end) \in 0 .. len
  BY <1>1, <1>3, <1>7
<1>11. \A k \in 1 .. len : k <= Consumed(c, offsets, end) <=> offsets[k] < end
  BY <1>3, <1>7
<1> HIDE DEF len, past, passed
<1>12. QED
  <2>1. Len(offsets) = len
    BY DEF len
  <2>2. DOMAIN offsets = 1 .. len
    BY <1>1
  <2>3. QED
    BY <1>9, <1>10, <1>11, <2>1, <2>2, Zenon

-----------------------------------------------------------------------------
\* The shape of the transfer, for the records the steps update.
ConnShape ==
  /\ conn = [offsets |-> conn.offsets, total |-> conn.total, rate |-> conn.rate, c |-> conn.c]
  /\ conn.total \in Nat
  /\ conn.c.sent \in Nat /\ conn.c.sent <= conn.total
  /\ conn.c.cwnd \in Nat /\ conn.c.ssthresh \in Nat
  /\ Ascending(conn.offsets, conn.total) /\ Cursor(conn.c, conn.offsets)
  /\ windows \in Seq([from : Nat, to : Nat])

\* Every loss below what is sent was in the window of a round trip.
Covered ==
  \A k \in DOMAIN conn.offsets : conn.offsets[k] < conn.c.sent =>
     \E n \in DOMAIN windows : windows[n].from <= conn.offsets[k] /\ conn.offsets[k] < windows[n].to

\* No transfer is ahead of one without a loss, and one that has lost nothing so far is
\* exactly as far.
Pace ==
  LET n == Len(windows)
  IN  /\ conn.c.cwnd <= LosslessWindow(n) /\ conn.c.sent <= LosslessBytes(n)
      /\ Hits = {} => /\ conn.c.ssthresh = Unbounded
                      /\ conn.c.sent = conn.total \/ conn.c.sent = LosslessBytes(n)
                      /\ \A m \in 0 .. n - 1 : LosslessBytes(m) < conn.total

TransferInv == ConnShape /\ RenoLaw /\ Covered /\ Pace

\* A fresh controller has ten packets of window and nothing sent (congestion.go:25-33).
LEMMA FreshController ==
  /\ NewController.cwnd = 10 * DefaultMSS /\ NewController.ssthresh = Unbounded
  /\ NewController.sent = 0 /\ NewController.rtts = 0 /\ NewController.lossIdx = 0
BY DEF NewController, InitialCWND, DefaultMSS, Unbounded

\* A transfer before its first round trip.
Fresh ==
  /\ conn = [offsets |-> conn.offsets, total |-> conn.total, rate |-> conn.rate, c |-> conn.c]
  /\ conn.c = NewController /\ windows = << >>
  /\ conn.total \in Nat /\ Ascending(conn.offsets, conn.total)

\* A transfer starts as one that has lost nothing.
LEMMA TransferStarts == Fresh => TransferInv
<1> SUFFICES ASSUME Fresh PROVE TransferInv
  OBVIOUS
<1> USE DEF Fresh
<1>1. Hits = {} /\ Len(windows) = 0
  BY DEF Hits
<1>2. LosslessWindow(0) = 10 * DefaultMSS /\ LosslessBytes(0) = 0
  BY SMT DEF LosslessWindow, LosslessBytes, Doubled, Doublings, InitialCWND, DefaultMSS
<1>3. ConnShape
  <2>1. Len(conn.offsets) \in Nat /\ DOMAIN conn.offsets = 1 .. Len(conn.offsets)
    BY LenProperties DEF Ascending
  <2>2. \A k \in DOMAIN conn.offsets : conn.offsets[k] \in Nat
    BY <2>1, ElementOfSeq DEF Ascending
  <2>3. Cursor(conn.c, conn.offsets)
    BY <2>1, <2>2, FreshController DEF Cursor
  <2>4. QED
    BY <2>3, FreshController DEF ConnShape, DefaultMSS, Unbounded
<1>4. RenoLaw
  <2>1. WindowFloor
    BY FreshController DEF WindowFloor, DefaultMSS, Unbounded
  <2>2. RttsAccounted
    BY <1>1, FreshController, FS_EmptySet DEF RttsAccounted
  <2>3. SlowStartThenAvoidance
    BY <1>1, <1>2, FreshController DEF SlowStartThenAvoidance
  <2>4. QED
    BY <2>1, <2>2, <2>3 DEF RenoLaw
<1>5. Covered
  BY <1>3, FreshController, ElementOfSeq DEF Covered, ConnShape, Ascending
<1>6. Pace
  BY <1>1, <1>2, FreshController DEF Pace, DefaultMSS
<1>7. QED
  BY <1>3, <1>4, <1>5, <1>6 DEF TransferInv

\* A round trip moves the transfer forward, never past its end, and neither
\* doubling, nor adding, nor halving takes the window below two packets.
LEMMA RoundKeepsFloor ==
  ASSUME NEW c, NEW total \in Nat, NEW offsets,
         c.sent \in Nat, c.sent <= total,
         c.cwnd \in Nat, c.cwnd >= 2 * DefaultMSS,
         c.ssthresh \in Nat, c.ssthresh >= 2 * DefaultMSS
  PROVE  LET r == RoundTrip(c, total, offsets)
         IN  /\ r.sent \in Nat /\ c.sent <= r.sent /\ r.sent <= total
             /\ r.cwnd \in Nat /\ r.cwnd >= 2 * DefaultMSS
             /\ r.ssthresh \in Nat /\ r.ssthresh >= 2 * DefaultMSS
<1> DEFINE end == c.sent + ToSend(c, total)
<1> DEFINE loss == LossInWindow(c, offsets, end)
<1>1. end \in Nat /\ c.sent <= end /\ end <= total
  BY DEF ToSend, DefaultMSS
<1>2. Halved(c.cwnd) \in Nat /\ Halved(c.cwnd) >= 2 * DefaultMSS
  BY DEF Halved, DefaultMSS
<1>3. Grown(c) \in Nat /\ Grown(c) >= 2 * DefaultMSS
  BY DEF Grown, DefaultMSS
<1>4. /\ RoundTrip(c, total, offsets).sent = end
      /\ RoundTrip(c, total, offsets).cwnd = IF loss THEN Halved(c.cwnd) ELSE Grown(c)
      /\ RoundTrip(c, total, offsets).ssthresh = IF loss THEN Halved(c.cwnd) ELSE c.ssthresh
  BY DEF RoundTrip
<1> HIDE DEF loss, end
<1> QED BY <1>1, <1>2, <1>3, <1>4

\* A round trip keeps the laws of the transfer.
LEMMA RoundKeeps ==
  ASSUME TransferInv, Round
  PROVE  TransferInv'
<1> DEFINE c == conn.c
           n == Len(windows)
           end == c.sent + ToSend(c, conn.total)
           loss == LossInWindow(c, conn.offsets, end)
           Inside(k) == c.sent <= conn.offsets[k] /\ conn.offsets[k] < end
<1>0. n \in Nat
  BY LenProperties DEF TransferInv, ConnShape
<1>1. /\ ConnShape /\ WindowFloor /\ RttsAccounted /\ SlowStartThenAvoidance /\ Covered /\ Pace
      /\ n \in Nat /\ DOMAIN windows = 1 .. n
      /\ \A m \in 1 .. n : windows[m].from \in Nat /\ windows[m].to \in Nat
  <2>1. windows \in Seq([from : Nat, to : Nat])
    BY DEF TransferInv, ConnShape
  <2>2. n \in Nat /\ DOMAIN windows = 1 .. n
    BY <2>1, LenProperties
  <2>3. \A m \in 1 .. n : windows[m] \in [from : Nat, to : Nat]
    BY <2>1, <2>2, ElementOfSeq
  <2>4. QED
    BY <2>2, <2>3 DEF TransferInv, RenoLaw
<1>2. /\ conn' = [offsets |-> conn.offsets, total |-> conn.total, rate |-> conn.rate, c |-> conn'.c]
      /\ conn'.c = RoundTrip(c, conn.total, conn.offsets)
  BY <1>1 DEF Round, ConnShape
<1>3. /\ conn'.c.sent = end
      /\ conn'.c.lossIdx = Consumed(c, conn.offsets, end)
      /\ conn'.c.rtts = IF loss THEN c.rtts + 2 ELSE c.rtts + 1
      /\ conn'.c.cwnd = IF loss THEN Halved(c.cwnd) ELSE Grown(c)
      /\ conn'.c.ssthresh = IF loss THEN Halved(c.cwnd) ELSE c.ssthresh
  BY <1>2 DEF RoundTrip
<1>4. /\ conn'.offsets = conn.offsets /\ conn'.total = conn.total
      /\ end \in Nat /\ c.sent <= end /\ end <= conn.total
      /\ conn'.c.cwnd \in Nat /\ conn'.c.cwnd >= 2 * DefaultMSS
      /\ conn'.c.ssthresh \in Nat /\ conn'.c.ssthresh >= 2 * DefaultMSS
  BY <1>1, <1>2, <1>3, RoundKeepsFloor DEF ConnShape, WindowFloor
<1>5. /\ Cursor(conn'.c, conn.offsets)
      /\ loss <=> \E k \in DOMAIN conn.offsets : Inside(k)
  <2>1. /\ conn.total \in Nat /\ end \in Nat /\ c.sent \in Nat /\ c.sent <= end
        /\ Ascending(conn.offsets, conn.total) /\ Cursor(c, conn.offsets)
    BY <1>1, <1>4 DEF ConnShape
  <2> HIDE DEF end
  <2>2. /\ Consumed(c, conn.offsets, end) \in 0 .. Len(conn.offsets)
        /\ \A k \in DOMAIN conn.offsets : k <= Consumed(c, conn.offsets, end) <=> conn.offsets[k] < end
        /\ loss <=> \E k \in DOMAIN conn.offsets : Inside(k)
    BY <2>1, CursorMoves
  <2>3. QED
    BY <1>3, <2>2 DEF Cursor
<1>6. /\ windows' \in Seq([from : Nat, to : Nat]) /\ Len(windows') = n + 1
      /\ DOMAIN windows' = 1 .. n + 1
      /\ \A m \in 1 .. n : windows'[m] = windows[m]
      /\ windows'[n + 1].from = c.sent /\ windows'[n + 1].to = end
  <2> DEFINE w == [from |-> c.sent, to |-> end]
  <2>1. windows' = Append(windows, w)
    BY <1>3 DEF Round
  <2>2. w \in [from : Nat, to : Nat] /\ windows \in Seq([from : Nat, to : Nat])
    BY <1>1, <1>4 DEF ConnShape
  <2>3. w.from = c.sent /\ w.to = end
    OBVIOUS
  <2> HIDE DEF w
  <2>4. QED
    BY <1>1, <2>1, <2>2, <2>3, AppendProperties, LenProperties
<1>7. ConnShape'
  BY <1>1, <1>2, <1>3, <1>4, <1>5, <1>6 DEF ConnShape
<1>8. WindowFloor'
  BY <1>4 DEF WindowFloor
<1>9. Covered'
  <2> SUFFICES ASSUME NEW k \in DOMAIN conn.offsets, conn.offsets[k] < end
               PROVE  \E m \in 1 .. n + 1 : /\ windows'[m].from <= conn.offsets[k]
                                            /\ conn.offsets[k] < windows'[m].to
    BY <1>3, <1>4, <1>6 DEF Covered
  <2>1. CASE conn.offsets[k] < c.sent
    <3>1. PICK m \in 1 .. n : windows[m].from <= conn.offsets[k] /\ conn.offsets[k] < windows[m].to
      BY <1>1, <2>1 DEF Covered
    <3>2. m \in 1 .. n + 1
      BY <1>1
    <3>3. QED
      BY <1>6, <3>1, <3>2
  <2>2. CASE ~(conn.offsets[k] < c.sent)
    <3>1. c.sent <= conn.offsets[k]
      <4>1. conn.offsets[k] \in Nat /\ c.sent \in Nat
        BY <1>1, LenProperties, ElementOfSeq DEF ConnShape, Ascending
      <4>2. QED
        BY <2>2, <4>1
    <3>2. n + 1 \in 1 .. n + 1
      BY <1>1
    <3>3. QED
      BY <1>6, <3>1, <3>2
  <2>3. QED
    BY <2>1, <2>2
<1>10. /\ Hits \subseteq 1 .. n
       /\ Hits' = IF loss THEN Hits \cup {n + 1} ELSE Hits
  <2> DEFINE Hit(m) == \E k \in DOMAIN conn.offsets :
                         windows[m].from <= conn.offsets[k] /\ conn.offsets[k] < windows[m].to
             HitAfter(m) == \E k \in DOMAIN conn.offsets :
                         windows'[m].from <= conn.offsets[k] /\ conn.offsets[k] < windows'[m].to
  <2>1. Hits = { m \in 1 .. n : Hit(m) } /\ Hits' = { m \in 1 .. n + 1 : HitAfter(m) }
    BY <1>1, <1>4, <1>6 DEF Hits
  <2>2. \A m \in 1 .. n : HitAfter(m) <=> Hit(m)
    BY <1>6
  <2>3. HitAfter(n + 1) <=> loss
    BY <1>5, <1>6
  <2> HIDE DEF Hit, HitAfter, loss
  <2>4. \A m : m \in 1 .. n + 1 <=> m \in 1 .. n \/ m = n + 1
    BY <1>1
  <2>5. QED
    BY <2>1, <2>2, <2>3, <2>4
<1>11. n + 1 \notin Hits /\ IsFiniteSet(Hits) /\ Hits \subseteq Nat /\ \A m \in Hits : m <= n
  <2>1. IsFiniteSet(1 .. n) /\ n + 1 \notin 1 .. n /\ \A m \in 1 .. n : m \in Nat /\ m <= n
    BY <1>1, FS_Interval
  <2>2. QED
    BY <1>10, <2>1, FS_Subset
<1> HIDE DEF loss, end
<1>12. RttsAccounted'
  <2>1. Cardinality(Hits) \in Nat /\ Cardinality(Hits \cup {n + 1}) = Cardinality(Hits) + 1
    BY <1>11, FS_CardinalityType, FS_AddElement
  <2>2. Cardinality(Hits') = IF loss THEN Cardinality(Hits) + 1 ELSE Cardinality(Hits)
    BY <1>10, <2>1
  <2>3. c.rtts = n + Cardinality(Hits)
    BY <1>1 DEF RttsAccounted
  <2>4. conn'.c.rtts = (n + 1) + Cardinality(Hits')
    BY <1>0, <1>3, <2>1, <2>2, <2>3
  <2>5. QED
    BY <1>6, <2>4 DEF RttsAccounted
<1> DEFINE window == LosslessWindow(n)
           window1 == LosslessWindow(n + 1)
           bytes == LosslessBytes(n)
           bytes1 == LosslessBytes(n + 1)
<1>13. /\ window \in Nat /\ window >= 10 * DefaultMSS /\ (window < Unbounded <=> n < Doublings)
       /\ window1 = IF n < Doublings THEN window * 2 ELSE window + DefaultMSS
       /\ bytes \in Nat /\ bytes1 = bytes + window
  BY <1>1, LosslessGrowth
<1>14. /\ c.cwnd \in Nat /\ c.cwnd <= window /\ c.sent <= bytes /\ c.ssthresh \in Nat
       /\ c.sent \in Nat /\ conn.total \in Nat /\ c.sent < conn.total
       /\ Hits = {} => /\ c.cwnd = window /\ c.ssthresh = Unbounded /\ c.sent = bytes
                       /\ \A m \in 0 .. n - 1 : LosslessBytes(m) < conn.total
  <2>1. c.sent < conn.total
    BY DEF Round, Sending
  <2>2. c.cwnd \in Nat /\ c.ssthresh \in Nat /\ c.sent \in Nat /\ conn.total \in Nat
    BY <1>1 DEF ConnShape
  <2>3. QED
    BY <1>1, <2>1, <2>2 DEF Pace, SlowStartThenAvoidance
<1> HIDE DEF window, window1, bytes, bytes1
<1>15. Halved(c.cwnd) <= window1 /\ Halved(c.cwnd) \in Nat
  BY <1>13, <1>14 DEF Halved, DefaultMSS, Doublings, Unbounded
<1>16. Hits = {} => Grown(c) = window1
  BY <1>13, <1>14 DEF Grown, Doublings, DefaultMSS, Unbounded
<1>17. ASSUME Hits # {}
       PROVE  /\ Max(Hits) \in 1 .. n /\ c.cwnd = c.ssthresh + (n - Max(Hits)) * DefaultMSS
              /\ Grown(c) = c.cwnd + DefaultMSS
  <2>1. Max(Hits) \in 1 .. n
    BY <1>1, <1>10, <1>11, <1>17, MaxExists
  <2>2. c.cwnd = c.ssthresh + (n - Max(Hits)) * DefaultMSS
    BY <1>1, <1>17 DEF SlowStartThenAvoidance
  <2>3. c.cwnd >= c.ssthresh
    BY <1>1, <1>14, <2>1, <2>2 DEF DefaultMSS
  <2>4. QED
    BY <1>14, <2>1, <2>2, <2>3 DEF Grown
<1>18. loss => Hits' # {} /\ Max(Hits') = n + 1
  <2>1. ASSUME loss PROVE Max(Hits') = n + 1
    <3>1. Hits' = Hits \cup {n + 1} /\ Hits' \subseteq Nat /\ n + 1 \in Hits'
      <4>1. n + 1 \in Nat
        BY <1>0
      <4>2. QED
        BY <1>10, <1>11, <2>1, <4>1
    <3>2. \A m \in Hits' : m <= n + 1
      BY <1>0, <1>11, <3>1
    <3>3. QED
      BY <3>1, <3>2, MaxIs
  <2>2. QED
    BY <1>10, <2>1
<1>19. SlowStartThenAvoidance'
  <2>1. CASE loss
    <3>1. conn'.c.cwnd = conn'.c.ssthresh + ((n + 1) - (n + 1)) * DefaultMSS
      BY <1>1, <1>3, <1>15, <2>1 DEF DefaultMSS
    <3>2. QED
      BY <1>6, <1>18, <2>1, <3>1 DEF SlowStartThenAvoidance
  <2>2. CASE ~loss /\ Hits = {}
    BY <1>3, <1>6, <1>10, <1>16, <2>2 DEF SlowStartThenAvoidance, window1
  <2>3. CASE ~loss /\ Hits # {}
    <3>1. conn'.c.cwnd = conn'.c.ssthresh + ((n + 1) - Max(Hits)) * DefaultMSS
      <4> DEFINE h == Max(Hits)
      <4>1. /\ h \in 1 .. n /\ c.cwnd = c.ssthresh + (n - h) * DefaultMSS
            /\ conn'.c.cwnd = c.cwnd + DefaultMSS /\ conn'.c.ssthresh = c.ssthresh
        BY <1>3, <1>17, <2>3
      <4> HIDE DEF h
      <4>2. conn'.c.cwnd = conn'.c.ssthresh + ((n + 1) - h) * DefaultMSS
        BY <1>0, <1>14, <4>1 DEF DefaultMSS
      <4>3. QED
        BY <4>2 DEF h
    <3>2. QED
      BY <1>6, <1>10, <2>3, <3>1 DEF SlowStartThenAvoidance
  <2>4. QED
    BY <2>1, <2>2, <2>3
<1>20. Pace'
  <2>1. conn'.c.cwnd <= window1
    <3>1. ASSUME Hits # {} PROVE Grown(c) <= window1
      <4>1. Grown(c) = c.cwnd + DefaultMSS
        BY <1>17, <3>1
      <4>2. window1 >= window + DefaultMSS
        BY <1>13 DEF Doublings, DefaultMSS
      <4> HIDE DEF window, window1
      <4>3. window \in Nat /\ window1 \in Int /\ c.cwnd \in Nat /\ c.cwnd <= window
        BY <1>13, <1>14 DEF DefaultMSS
      <4>4. QED
        BY <4>1, <4>2, <4>3 DEF DefaultMSS
    <3>2. window1 \in Nat
      BY <1>13 DEF DefaultMSS
    <3>3. QED
      BY <1>3, <1>15, <1>16, <3>1, <3>2
  <2>2. end <= bytes1 /\ (Hits = {} => end = conn.total \/ end = bytes1)
    BY <1>13, <1>14 DEF end, ToSend
  <2>3. ASSUME Hits' = {}
        PROVE  /\ conn'.c.ssthresh = Unbounded /\ (end = conn.total \/ end = bytes1)
               /\ \A m \in 0 .. (n + 1) - 1 : LosslessBytes(m) < conn.total
    <3>1. ~loss /\ Hits = {}
      BY <1>10, <2>3
    <3>2. bytes < conn.total
      BY <1>14, <3>1
    <3>3. \A m \in 0 .. (n + 1) - 1 : m \in 0 .. n - 1 \/ m = n
      BY <1>0
    <3>4. QED
      BY <1>3, <1>14, <2>2, <3>1, <3>2, <3>3 DEF bytes
  <2>4. QED
    BY <1>3, <1>4, <1>6, <2>1, <2>2, <2>3 DEF Pace, window1, bytes1
<1>21. QED
  BY <1>7, <1>8, <1>9, <1>12, <1>19, <1>20 DEF TransferInv, RenoLaw

-----------------------------------------------------------------------------
\* Term by term differences add up.
LEMMA SumsApart ==
  ASSUME NEW a \in Seq(Nat), NEW b \in Seq(Nat), NEW d \in Seq(Nat),
         Len(b) = Len(a), Len(d) = Len(a),
         \A k \in 1 .. Len(a) : a[k] <= b[k] /\ b[k] <= a[k] + d[k],
         NEW n \in 0 .. Len(a)
  PROVE  SumTo(a, n) <= SumTo(b, n) /\ SumTo(b, n) <= SumTo(a, n) + SumTo(d, n)
<1> DEFINE len == Len(a)
           T == { k \in Nat : k <= len => /\ SumTo(a, k) <= SumTo(b, k)
                                          /\ SumTo(b, k) <= SumTo(a, k) + SumTo(d, k) }
<1>1. len \in Nat
  BY LenProperties
<1>2. 0 \in T
  BY <1>1, SumToUnfolds
<1>3. ASSUME NEW k \in Nat, k \in T PROVE k + 1 \in T
  <2> SUFFICES ASSUME k + 1 <= len
               PROVE  /\ SumTo(a, k + 1) <= SumTo(b, k + 1)
                      /\ SumTo(b, k + 1) <= SumTo(a, k + 1) + SumTo(d, k + 1)
    OBVIOUS
  <2>1. k + 1 \in 1 .. len /\ (k + 1) - 1 = k /\ k \in 0 .. len
    BY <1>1
  <2>2. /\ SumTo(a, k + 1) = SumTo(a, k) + a[k + 1] /\ SumTo(a, k) \in Nat
        /\ SumTo(b, k + 1) = SumTo(b, k) + b[k + 1] /\ SumTo(b, k) \in Nat
        /\ SumTo(d, k + 1) = SumTo(d, k) + d[k + 1] /\ SumTo(d, k) \in Nat
    BY <2>1, SumToUnfolds
  <2>3. /\ a[k + 1] \in Nat /\ b[k + 1] \in Nat /\ d[k + 1] \in Nat
        /\ a[k + 1] <= b[k + 1] /\ b[k + 1] <= a[k + 1] + d[k + 1]
    BY <2>1, ElementOfSeq
  <2>4. SumTo(a, k) <= SumTo(b, k) /\ SumTo(b, k) <= SumTo(a, k) + SumTo(d, k)
    BY <1>1, <1>3, <2>1
  <2> DEFINE x == SumTo(a, k)
             y == SumTo(b, k)
             z == SumTo(d, k)
             x1 == a[k + 1]
             y1 == b[k + 1]
             z1 == d[k + 1]
  <2>5. x + x1 <= y + y1 /\ y + y1 <= (x + x1) + (z + z1)
    <3>1. /\ x \in Nat /\ y \in Nat /\ z \in Nat /\ x1 \in Nat /\ y1 \in Nat /\ z1 \in Nat
          /\ x <= y /\ y <= x + z /\ x1 <= y1 /\ y1 <= x1 + z1
      BY <2>2, <2>3, <2>4
    <3> HIDE DEF x, y, z, x1, y1, z1
    <3>2. QED
      BY <3>1
  <2>6. QED
    BY <2>2, <2>5
<1>4. n \in T
  <2> HIDE DEF T
  <2>1. n \in Nat
    BY <1>1
  <2>2. QED
    BY <1>2, <1>3, <2>1, SetInduction
<1>5. QED
  BY <1>1, <1>4

\* The packets of the streams of a fetch.
PacketsOf(sizes) == [k \in DOMAIN sizes |-> Packets(sizes[k])]

\* Padding every stream to whole packets costs at most a packet for each beyond the
\* first.
LEMMA PaddingBounded ==
  ASSUME NEW sizes \in Seq(Nat), Len(sizes) > 0
  PROVE  /\ PacketsOf(sizes) \in Seq(Nat) /\ Len(PacketsOf(sizes)) = Len(sizes)
         /\ Packets(SumOf(sizes)) \in Nat /\ SumOf(PacketsOf(sizes)) \in Nat
         /\ Packets(SumOf(sizes)) <= SumOf(PacketsOf(sizes))
         /\ SumOf(PacketsOf(sizes)) <= Packets(SumOf(sizes)) + (Len(sizes) - 1)
<1> DEFINE len == Len(sizes)
           ps == PacketsOf(sizes)
           Apart(k) == /\ Packets(SumTo(sizes, k)) <= SumTo(ps, k)
                       /\ SumTo(ps, k) <= Packets(SumTo(sizes, k)) + (k - 1)
           T == { k \in Nat : k + 1 <= len => Apart(k + 1) }
<1>1. len \in Nat /\ len >= 1 /\ DOMAIN sizes = 1 .. len /\ \A k \in 1 .. len : sizes[k] \in Nat
  BY LenProperties, ElementOfSeq
<1>2. ps \in Seq(Nat) /\ Len(ps) = len /\ \A k \in 1 .. len : ps[k] = Packets(sizes[k])
  <2>1. ps = [k \in 1 .. len |-> Packets(sizes[k])]
    BY <1>1 DEF PacketsOf
  <2>2. \A k \in 1 .. len : Packets(sizes[k]) \in Nat
    BY <1>1, PacketsCover
  <2>3. QED
    BY <1>1, <2>1, <2>2
<1> HIDE DEF ps
<1>3. \A k \in 0 .. len : SumTo(sizes, k) \in Nat /\ SumTo(ps, k) \in Nat
  BY <1>2, SumToUnfolds
<1>4. \A k \in 1 .. len : /\ SumTo(sizes, k) = SumTo(sizes, k - 1) + sizes[k]
                          /\ SumTo(ps, k) = SumTo(ps, k - 1) + Packets(sizes[k])
  BY <1>2, SumToUnfolds
<1>5. Apart(1)
  <2>1. SumTo(sizes, 0) = 0 /\ SumTo(ps, 0) = 0 /\ 1 \in 1 .. len /\ 1 - 1 = 0
    BY <1>1, <1>2, SumToUnfolds
  <2>2. SumTo(sizes, 1) = sizes[1] /\ SumTo(ps, 1) = Packets(sizes[1]) /\ Packets(sizes[1]) \in Nat
    BY <1>1, <1>4, <2>1, PacketsCover
  <2>3. QED
    BY <2>2
<1>6. ASSUME NEW a \in Nat, NEW b \in Nat
      PROVE  /\ Packets(a + b) <= Packets(a) + Packets(b)
             /\ Packets(a) + Packets(b) <= Packets(a + b) + 1
  BY SMT DEF Packets, CeilDiv, DefaultMSS
<1>7. ASSUME NEW k \in Nat, k \in T PROVE k + 1 \in T
  <2> SUFFICES ASSUME (k + 1) + 1 <= len PROVE Apart((k + 1) + 1)
    OBVIOUS
  <2> DEFINE a == SumTo(sizes, k + 1)
             x == SumTo(ps, k + 1)
             b == sizes[(k + 1) + 1]
  <2>1. (k + 1) + 1 \in 1 .. len /\ ((k + 1) + 1) - 1 = k + 1 /\ k + 1 \in 0 .. len
    BY <1>1
  <2>2. Packets(a) <= x /\ x <= Packets(a) + k
    BY <1>1, <1>7, <2>1
  <2>3. SumTo(sizes, (k + 1) + 1) = a + b /\ SumTo(ps, (k + 1) + 1) = x + Packets(b)
    BY <1>4, <2>1
  <2>4. a \in Nat /\ b \in Nat /\ x \in Nat
    BY <1>1, <1>3, <2>1
  <2>5. Packets(a) \in Nat /\ Packets(b) \in Nat /\ Packets(a + b) \in Nat
    <3>1. a + b \in Nat
      BY <2>4
    <3>2. QED
      BY <2>4, <3>1, PacketsCover
  <2>6. Packets(a + b) <= Packets(a) + Packets(b) /\ Packets(a) + Packets(b) <= Packets(a + b) + 1
    BY <1>6, <2>4
  <2>7. Packets(a + b) <= x + Packets(b) /\ x + Packets(b) <= Packets(a + b) + (k + 1)
    <3> DEFINE pa == Packets(a)
               pb == Packets(b)
               pab == Packets(a + b)
    <3>1. pa \in Nat /\ pb \in Nat /\ pab \in Nat /\ x \in Nat
      BY <2>4, <2>5
    <3>2. pa <= x /\ x <= pa + k /\ pab <= pa + pb /\ pa + pb <= pab + 1
      BY <2>2, <2>6
    <3> HIDE DEF a, b, x, pa, pb, pab
    <3>3. pab <= x + pb /\ x + pb <= pab + (k + 1)
      BY <3>1, <3>2
    <3>4. QED
      BY <3>3 DEF pb, pab
  <2> HIDE DEF a, b, x
  <2>8. ((k + 1) + 1) - 1 = k + 1
    OBVIOUS
  <2>9. QED
    BY <2>3, <2>7, <2>8
<1>8. Apart(len)
  <2>1. 0 \in T
    BY <1>5
  <2>2. len - 1 \in T
    <3> HIDE DEF T
    <3>1. len - 1 \in Nat
      BY <1>1
    <3>2. QED
      BY <1>7, <2>1, <3>1, SetInduction
  <2>3. (len - 1) + 1 = len
    BY <1>1
  <2>4. QED
    BY <1>1, <2>2, <2>3
<1>9. SumTo(sizes, len) \in Nat /\ SumTo(ps, len) \in Nat
  BY <1>1, <1>3
<1>10. QED
  BY <1>2, <1>8, <1>9, PacketsCover DEF SumOf, ps

-----------------------------------------------------------------------------
\* The packets a protocol draws for a fetch, and for each of a workload.
DrawnFor(p, fetch) ==
  IF p = 2 /\ fetch.kind = "batch" THEN SumOf(PacketsOf(fetch.sizes)) ELSE Packets(SumOf(fetch.sizes))
DrawnList(w, p) == [m \in DOMAIN w |-> DrawnFor(p, w[m])]

\* A fetch of a workload has streams, and its sums are numbers.
LEMMA WorkloadFetch ==
  ASSUME NEW w \in Workloads, NEW n \in DOMAIN w
  PROVE  /\ DOMAIN w = 1 .. Len(w) /\ Len(w) \in Nat
         /\ w[n].kind \in {"segment", "batch"}
         /\ w[n].sizes \in Seq(Nat) /\ Len(w[n].sizes) \in Nat \ {0}
         /\ w[n].kind = "segment" => Len(w[n].sizes) = 1
         /\ DOMAIN w[n].sizes = 1 .. Len(w[n].sizes)
         /\ \A k \in 1 .. Len(w[n].sizes) : w[n].sizes[k] \in Nat \ {0}
         /\ SumOf(w[n].sizes) \in Nat \ {0}
         /\ \A p : DrawnFor(p, w[n]) \in Nat
<1>1. /\ w \in Seq(Fetches) /\ Len(w[n].sizes) > 0
      /\ w[n].kind = "segment" => Len(w[n].sizes) = 1
  BY WorkloadAssumption
<1>2. DOMAIN w = 1 .. Len(w) /\ Len(w) \in Nat /\ w[n] \in Fetches
  BY <1>1, LenProperties, ElementOfSeq
<1>3. w[n].kind \in {"segment", "batch"} /\ w[n].sizes \in Seq(Nat \ {0})
  BY <1>2 DEF Fetches
<1>4. /\ w[n].sizes \in Seq(Nat) /\ Len(w[n].sizes) \in Nat \ {0}
      /\ DOMAIN w[n].sizes = 1 .. Len(w[n].sizes)
      /\ \A k \in 1 .. Len(w[n].sizes) : w[n].sizes[k] \in Nat \ {0}
  BY <1>1, <1>3, SeqDef
<1>5. SumOf(w[n].sizes) \in Nat \ {0}
  <2> DEFINE s == w[n].sizes
  <2>1. 1 \in 1 .. Len(s) /\ 1 - 1 = 0 /\ 1 \in 0 .. Len(s) /\ Len(s) \in 0 .. Len(s)
    BY <1>4
  <2> HIDE DEF s
  <2>2. s \in Seq(Nat) /\ s[1] \in Nat \ {0}
    BY <1>4, <2>1 DEF s
  <2>3. SumTo(s, 1) = s[1] /\ SumOf(s) \in Nat
    BY <2>1, <2>2, SumToUnfolds DEF SumOf
  <2>4. SumTo(s, 1) <= SumOf(s)
    BY <2>1, <2>2, SumToGrows
  <2>5. QED
    BY <2>2, <2>3, <2>4 DEF s
<1>6. \A p : DrawnFor(p, w[n]) \in Nat
  BY <1>1, <1>4, PaddingBounded DEF DrawnFor
<1>7. QED
  BY <1>1, <1>2, <1>3, <1>4, <1>5, <1>6

\* The packets of a workload are a list of numbers.
LEMMA DrawnListKnown ==
  ASSUME NEW w \in Workloads, NEW p
  PROVE  /\ DrawnList(w, p) \in Seq(Nat) /\ Len(DrawnList(w, p)) = Len(w)
         /\ \A m \in 1 .. Len(w) : DrawnList(w, p)[m] = DrawnFor(p, w[m])
<1>1. DOMAIN w = 1 .. Len(w) /\ Len(w) \in Nat
  BY WorkloadAssumption, LenProperties
<1>2. \A m \in 1 .. Len(w) : DrawnFor(p, w[m]) \in Nat
  BY <1>1, WorkloadFetch
<1>3. DrawnList(w, p) = [m \in 1 .. Len(w) |-> DrawnFor(p, w[m])]
  BY <1>1 DEF DrawnList
<1>4. QED
  BY <1>1, <1>2, <1>3

\* The bandwidth of a transfer is never nothing.
LEMMA RateKnown ==
  ASSUME trace \in Traces
  PROVE  Rate \in Nat \ {0}
<1> DEFINE durations == [n \in DOMAIN trace |-> trace[n].duration]
           after == { n \in DOMAIN trace : clock < SumTo(durations, n) }
           at0 == IF after = {} THEN Len(trace) ELSE Min(after)
<1>1. trace \in Seq([duration : Nat, rate : Int]) /\ Len(trace) \in Nat /\ Len(trace) > 0
  BY TraceAssumption, LenProperties
<1>2. DOMAIN trace = 1 .. Len(trace) /\ after \subseteq 1 .. Len(trace)
  BY <1>1, LenProperties
<1> HIDE DEF after
<1>3. after # {} => Min(after) \in after
  <2>1. after \subseteq Nat
    BY <1>1, <1>2
  <2>2. after # {} => \E n \in after : \A m \in after : n =< m
    BY <2>1, LeastNatural
  <2>3. QED
    BY <2>2 DEF Min
<1>4. at0 \in 1 .. Len(trace)
  <2>1. CASE after = {}
    BY <1>1, <2>1
  <2>2. CASE after # {}
    BY <1>2, <1>3, <2>2
  <2>3. QED
    BY <2>1, <2>2
<1>5. trace[at0] \in [duration : Nat, rate : Int]
  BY <1>1, <1>4, ElementOfSeq
<1>6. BandwidthAt(clock) = trace[at0].rate
  BY DEF BandwidthAt, after
<1> HIDE DEF at0
<1>7. BandwidthAt(clock) \in Int
  BY <1>5, <1>6
<1>8. QED
  BY <1>7 DEF Rate

-----------------------------------------------------------------------------
\* The states a transfer of that many bytes and those losses goes through, round trip
\* by round trip.
Going(c, total) == c.sent < total /\ ToSend(c, total) > 0
Trajectory(f, n, total, offsets) ==
  /\ n \in Nat /\ f[0] = NewController
  /\ \A j \in 0 .. n - 1 : Going(f[j], total) /\ f[j + 1] = RoundTrip(f[j], total, offsets)

\* The end of a transfer depends on its bytes and its losses only.
LEMMA SameTransfer ==
  ASSUME NEW total, NEW offsets, NEW f, NEW n, NEW g, NEW m,
         Trajectory(f, n, total, offsets), ~Going(f[n], total),
         Trajectory(g, m, total, offsets), ~Going(g[m], total)
  PROVE  f[n] = g[m]
<1> DEFINE T == { j \in Nat : j <= n /\ j <= m => f[j] = g[j] }
<1>1. n \in Nat /\ m \in Nat
  BY DEF Trajectory
<1>2. 0 \in T
  BY DEF Trajectory
<1>3. ASSUME NEW j \in Nat, j \in T PROVE j + 1 \in T
  <2> SUFFICES ASSUME j + 1 <= n, j + 1 <= m PROVE f[j + 1] = g[j + 1]
    OBVIOUS
  <2>1. j \in 0 .. n - 1 /\ j \in 0 .. m - 1 /\ f[j] = g[j]
    BY <1>1, <1>3
  <2>2. QED
    BY <2>1 DEF Trajectory
<1>4. \A j \in Nat : j <= n /\ j <= m => f[j] = g[j]
  <2>1. Nat \subseteq T
    <3> HIDE DEF T
    <3>1. QED
      BY <1>2, <1>3, SetInduction
  <2>2. QED
    BY <2>1
<1>5. ~(n < m)
  <2> SUFFICES ASSUME n < m PROVE FALSE
    OBVIOUS
  <2>1. n \in 0 .. m - 1 /\ f[n] = g[n]
    BY <1>1, <1>4
  <2>2. QED
    BY <2>1 DEF Trajectory
<1>6. ~(m < n)
  <2> SUFFICES ASSUME m < n PROVE FALSE
    OBVIOUS
  <2>1. m \in 0 .. n - 1 /\ f[m] = g[m]
    BY <1>1, <1>4
  <2>2. QED
    BY <2>1 DEF Trajectory
<1>7. QED
  BY <1>1, <1>4, <1>5, <1>6

\* A round trip is the next state of the trajectory.
LEMMA TrajectoryGrows ==
  ASSUME NEW total, NEW offsets, NEW f, NEW n,
         Trajectory(f, n, total, offsets), Going(f[n], total)
  PROVE  \E g : /\ Trajectory(g, n + 1, total, offsets)
                /\ g[n + 1] = RoundTrip(f[n], total, offsets)
<1> DEFINE g == [j \in 0 .. n + 1 |-> IF j <= n THEN f[j] ELSE RoundTrip(f[n], total, offsets)]
<1>1. n \in Nat
  BY DEF Trajectory
<1>2. g[n + 1] = RoundTrip(f[n], total, offsets) /\ \A j \in 0 .. n : g[j] = f[j]
  BY <1>1
<1> HIDE DEF g
<1>3. g[0] = NewController
  BY <1>1, <1>2 DEF Trajectory
<1>4. ASSUME NEW j \in 0 .. (n + 1) - 1
      PROVE  Going(g[j], total) /\ g[j + 1] = RoundTrip(g[j], total, offsets)
  <2>1. CASE j \in 0 .. n - 1
    <3>1. g[j] = f[j] /\ g[j + 1] = f[j + 1]
      BY <1>1, <1>2, <2>1
    <3>2. QED
      BY <2>1, <3>1 DEF Trajectory
  <2>2. CASE j = n
    BY <1>1, <1>2, <2>2
  <2>3. QED
    BY <1>1, <2>1, <2>2
<1>5. QED
  BY <1>1, <1>2, <1>3, <1>4 DEF Trajectory

-----------------------------------------------------------------------------
\* The losses of a fetch of one stream that starts with that packet.
Single(pattern, first, size) ==
  Sorted({ j * DefaultMSS : j \in { k - first : k \in pattern \cap first .. first + Packets(size) - 1 } })

\* A fetch of one stream draws the same losses with both protocols, and each of them is
\* one of the stream.
LEMMA OneStream ==
  ASSUME LogShape, Len(log[proto]) < Len(workload), Len(Fetch.sizes) = 1
  PROVE  /\ TotalBytes = Fetch.sizes[1]
         /\ LossOffsets = Single(lost, packet, Fetch.sizes[1])
         /\ PerStream => Cardinality(StreamLosses(1)) = Len(LossOffsets)
<1> DEFINE size == Fetch.sizes[1]
           losses == SimulatePackets(packet, Packets(size))
           ofBytes == { n * DefaultMSS : n \in losses }
<1>1. /\ Fetch.sizes \in Seq(Nat) /\ size \in Nat /\ DOMAIN Fetch.sizes = {1} /\ packet \in Nat
      /\ StreamPackets \in Seq(Nat) /\ Len(StreamPackets) = 1 /\ StreamPackets[1] = Packets(size)
      /\ Packets(size) \in Nat
  <2>1. Fetch.sizes \in Seq(Nat) /\ \A k \in 1 .. 1 : Fetch.sizes[k] \in Nat
    BY FetchKnown
  <2>2. size \in Nat /\ DOMAIN Fetch.sizes = {1}
    BY <2>1, LenProperties
  <2>3. /\ StreamPackets \in Seq(Nat) /\ Len(StreamPackets) = 1
        /\ \A k \in 1 .. 1 : StreamPackets[k] = Packets(Fetch.sizes[k])
    BY FetchKnown
  <2>4. Packets(size) \in Nat /\ packet \in Nat
    BY <2>2, PacketsCover DEF LogShape
  <2>5. 1 \in 1 .. 1
    OBVIOUS
  <2>6. QED
    BY <2>1, <2>2, <2>3, <2>4, <2>5
<1>2. SumOf(Fetch.sizes) = size /\ SumTo(Fetch.sizes, 0) = 0
  <2>1. /\ SumTo(Fetch.sizes, 0) = 0 /\ 1 \in 1 .. Len(Fetch.sizes) /\ 1 - 1 = 0
        /\ \A n \in 1 .. Len(Fetch.sizes) : SumTo(Fetch.sizes, n) = SumTo(Fetch.sizes, n - 1) + Fetch.sizes[n]
    BY <1>1, SumToUnfolds
  <2>2. QED
    BY <1>1, <2>1 DEF SumOf
<1>3. SumOf(StreamPackets) = Packets(size) /\ SumTo(StreamPackets, 0) = 0
  <2>1. /\ SumTo(StreamPackets, 0) = 0 /\ 1 \in 1 .. Len(StreamPackets) /\ 1 - 1 = 0
        /\ \A n \in 1 .. Len(StreamPackets) :
             SumTo(StreamPackets, n) = SumTo(StreamPackets, n - 1) + StreamPackets[n]
    BY <1>1, SumToUnfolds
  <2>2. QED
    BY <1>1, <2>1 DEF SumOf
<1>4. TotalBytes = size /\ Drawn = Packets(size)
  BY <1>2, <1>3 DEF TotalBytes, Drawn
<1>5. losses \subseteq 0 .. Packets(size) - 1 /\ IsFiniteSet(losses)
  <2>1. losses \subseteq 0 .. Packets(size) - 1
    BY <1>1, LossesAmongPackets
  <2> HIDE DEF losses
  <2>2. IsFiniteSet(0 .. Packets(size) - 1)
    BY <1>1, FS_Interval
  <2>3. QED
    BY <2>1, <2>2, FS_Subset
<1>6. StreamLosses(1) = losses /\ Offset(1) = 0
  <2>1. FirstPacket(1) = packet
    BY <1>1, <1>3 DEF FirstPacket
  <2>2. Offset(1) = 0
    BY <1>2 DEF Offset
  <2>3. QED
    BY <2>1, <2>2 DEF StreamLosses
<1> HIDE DEF losses
<1>7. LostAt = ofBytes
  <2>1. CASE PerStream
    <3> DEFINE of(k) == { Offset(k) + n * DefaultMSS : n \in StreamLosses(k) }
    <3>0. LostAt = UNION { of(k) : k \in {1} }
      BY <1>1, <2>1 DEF LostAt
    <3> HIDE DEF of
    <3>1. LostAt = of(1)
      BY <3>0
    <3> USE DEF of
    <3>2. \A n \in losses : Offset(1) + n * DefaultMSS = n * DefaultMSS
      BY <1>1, <1>5, <1>6 DEF DefaultMSS
    <3>3. QED
      BY <1>6, <3>1, <3>2, Zenon
  <2>2. CASE ~PerStream
    BY <1>4, <2>2 DEF LostAt, losses
  <2>3. QED
    BY <2>1, <2>2
<1>8. LossOffsets = Single(lost, packet, size)
  BY <1>7 DEF LossOffsets, Single, losses, SimulatePackets
<1>9. Cardinality(ofBytes) = Cardinality(losses)
  <2> DEFINE f == [n \in losses |-> n * DefaultMSS]
  <2>1. f \in Bijection(losses, ofBytes)
    <3>1. \A n, m \in losses : f[n] = f[m] => n = m
      BY <1>1, <1>5 DEF DefaultMSS
    <3>2. f \in [losses -> ofBytes]
      OBVIOUS
    <3>3. \A x \in ofBytes : \E n \in losses : f[n] = x
      OBVIOUS
    <3> HIDE DEF f, ofBytes
    <3>4. QED
      BY <3>1, <3>2, <3>3 DEF Bijection, Injection, Surjection, IsInjective
  <2>2. ExistsBijection(losses, ofBytes)
    BY <2>1 DEF ExistsBijection
  <2> HIDE DEF ofBytes
  <2>3. QED
    BY <1>5, <2>2, FS_Bijection
<1>10. QED
  BY <1>4, <1>6, <1>7, <1>8, <1>9, OffsetsAscend

\* A call without a loss has none on any of its streams.
LEMMA NoStreamLoses ==
  ASSUME LogShape, Len(log[proto]) < Len(workload), PerStream, Len(LossOffsets) = 0,
         NEW k \in DOMAIN Fetch.sizes
  PROVE  Cardinality(StreamLosses(k)) = 0
<1>1. LostAt = {}
  BY LostInside, OffsetsAscend, FS_EmptySet
<1>2. StreamLosses(k) = {}
  <2> SUFFICES ASSUME NEW n \in StreamLosses(k) PROVE FALSE
    OBVIOUS
  <2>1. LostAt = UNION { { Offset(i) + j * DefaultMSS : j \in StreamLosses(i) } :
                           i \in DOMAIN Fetch.sizes }
    BY DEF LostAt
  <2>2. Offset(k) + n * DefaultMSS \in { Offset(k) + j * DefaultMSS : j \in StreamLosses(k) }
    OBVIOUS
  <2>3. Offset(k) + n * DefaultMSS \in LostAt
    BY <2>1, <2>2
  <2>4. QED
    BY <1>1, <2>3
<1>3. QED
  BY <1>2, FS_EmptySet

-----------------------------------------------------------------------------
\* The time of the connection that a fetch was logged with.
Time(total, e) == Max({e.rtts * RTT, total \div e.rate})

\* The round trips of a fetch, against slow start.
Priced(fetch, e) ==
  LET Enough(rounds) == LosslessBytes(rounds) >= SumOf(fetch.sizes)
  IN  IF e.losses = 0
      THEN Enough(e.rtts) /\ ~(\E fewer \in 0 .. e.rtts - 1 : Enough(fewer))
      ELSE \E fewer \in 0 .. e.rtts - 1 : Enough(fewer)

\* A fetch that lost nothing takes its share of the connection with both protocols.
LosslessTimes(fetch, e) ==
  e.losses = 0 =>
     e.transfers = [k \in DOMAIN fetch.sizes |->
                      IF fetch.kind = "segment" THEN Time(SumOf(fetch.sizes), e)
                      ELSE (Time(SumOf(fetch.sizes), e) * fetch.sizes[k]) \div SumOf(fetch.sizes)]

\* The losses and the round trips of a fetch of one stream follow from its first packet,
\* and a batch of QUIC pays for each loss once more.
OneStreamTimes(p, pattern, fetch, e) ==
  Len(fetch.sizes) = 1 =>
     LET size == fetch.sizes[1]
         offsets == Single(pattern, e.first, size)
     IN  /\ e.losses = Len(offsets)
         /\ \E f, n : Trajectory(f, n, size, offsets) /\ ~Going(f[n], size) /\ e.rtts = f[n].rtts
         /\ e.transfers[1] = Time(size, e) + IF p = 2 /\ fetch.kind = "batch" THEN e.losses * RTT ELSE 0

\* What is known of an entry of the history of protocol p, that of the n-th fetch of w.
EntryOK(w, pattern, p, n, e) ==
  /\ n \in DOMAIN w
  /\ e.losses \in Nat /\ e.rtts \in Nat /\ e.rate \in Nat \ {0}
  /\ e.next = SumTo(DrawnList(w, p), n)
  /\ Priced(w[n], e)
  /\ LosslessTimes(w[n], e)
  /\ OneStreamTimes(p, pattern, w[n], e)

\* The inductive invariant, on top of that of the transfer: where the loss process is,
\* what the transfer under way was started with and how it got to where it is, and what
\* the history says.
LogInv ==
  /\ packet = SumTo(DrawnList(workload, proto), Len(log[proto]))
  /\ proto = 1 => log[2] = << >>
  /\ \A p \in 1 .. 2 : \A n \in DOMAIN log[p] : EntryOK(workload, lost, p, n, log[p][n])
CallInv ==
  /\ conn.rate \in Nat \ {0}
  /\ pc = "transfer" => conn.total = TotalBytes /\ conn.offsets = LossOffsets
  /\ \E f : Trajectory(f, Len(windows), conn.total, conn.offsets) /\ f[Len(windows)] = conn.c

ModelInv == LogShape /\ TransferInv /\ CallInv /\ LogInv

\* The whole of a connection is its share of everything.
LEMMA ShareOfAll ==
  ASSUME NEW t \in Nat, NEW x \in Nat \ {0}
  PROVE  (t * x) \div x = t
OBVIOUS

\* Times are numbers.
LEMMA TimeKnown ==
  ASSUME NEW total \in Nat, NEW e, e.rtts \in Nat, e.rate \in Nat \ {0}
  PROVE  Time(total, e) \in Nat
<1> DEFINE a == e.rtts * RTT
           b == total \div e.rate
<1>1. a \in Nat
  BY TimeAssumption
<1>2. b \in Nat
  OBVIOUS
<1>3. Time(total, e) = Max({a, b})
  BY DEF Time
<1> HIDE DEF a, b
<1>4. {a, b} \subseteq Nat /\ {a, b} # {} /\ a + b \in Nat /\ \A x \in {a, b} : x <= a + b
  BY <1>1, <1>2
<1>5. Max({a, b}) \in {a, b}
  BY <1>4, MaxExists
<1>6. QED
  BY <1>1, <1>2, <1>3, <1>5

\* At the end of a transfer its entry says what the invariant asks of it.
LEMMA EntryLogged ==
  ASSUME ModelInv, Finish, NEW e,
         e = [first |-> packet, next |-> NextPacket, losses |-> Len(conn.offsets),
              rate |-> conn.rate, rtts |-> conn.c.rtts, transfers |-> TransferTimes]
  PROVE  EntryOK(workload, lost, proto, Len(log[proto]) + 1, e)
<1> DEFINE n == Len(log[proto]) + 1
           fetch == workload[n]
           total == SumOf(fetch.sizes)
           rounds == Len(windows)
<1>1. LogShape /\ TransferInv /\ CallInv /\ LogInv /\ Len(log[proto]) < Len(workload)
  BY DEF ModelInv, LogShape, Finish
<1>2. n \in DOMAIN workload /\ n \in Nat /\ n - 1 = Len(log[proto]) /\ Fetch = fetch
  <2>1. workload \in Seq(Fetches) /\ Len(log[proto]) \in Nat
    BY <1>1, WorkloadAssumption DEF LogShape
  <2>2. QED
    BY <1>1, <2>1, LenProperties DEF Fetch
<1> HIDE DEF n
<1>3. /\ DOMAIN workload = 1 .. Len(workload) /\ Len(workload) \in Nat
      /\ fetch.kind \in {"segment", "batch"} /\ total \in Nat \ {0}
      /\ DOMAIN fetch.sizes = 1 .. Len(fetch.sizes) /\ Len(fetch.sizes) \in Nat \ {0}
      /\ \A k \in 1 .. Len(fetch.sizes) : fetch.sizes[k] \in Nat \ {0}
  BY <1>1, <1>2, WorkloadFetch DEF LogShape
<1>4. conn.total = total /\ TotalBytes = total /\ conn.offsets = LossOffsets
  BY <1>1, <1>2 DEF CallInv, Finish, TotalBytes
<1>5. conn.c.sent = total /\ ~Going(conn.c, total)
  <2>1. ~Sending
    BY DEF Finish
  <2>2. conn.c.sent = conn.total
    BY <1>1, <2>1 DEF Sending, ToSend, TransferInv, RenoLaw, ConnShape, WindowFloor, DefaultMSS
  <2>3. QED
    BY <1>4, <2>1, <2>2 DEF Sending, Going
<1>6. /\ conn.offsets \in Seq(Nat) /\ Len(conn.offsets) \in Nat
      /\ DOMAIN conn.offsets = 1 .. Len(conn.offsets)
      /\ rounds \in Nat /\ DOMAIN windows = 1 .. rounds
      /\ IsFiniteSet(Hits) /\ Cardinality(Hits) \in Nat
  <2>1. conn.offsets \in Seq(Nat) /\ windows \in Seq([from : Nat, to : Nat])
    BY <1>1 DEF TransferInv, ConnShape, Ascending
  <2>2. rounds \in Nat /\ DOMAIN windows = 1 .. rounds
    BY <2>1, LenProperties
  <2>3. Hits \subseteq 1 .. rounds
    BY <2>2 DEF Hits
  <2>4. IsFiniteSet(Hits) /\ Cardinality(Hits) \in Nat
    <3>1. IsFiniteSet(1 .. rounds)
      BY <2>2, FS_Interval
    <3>2. IsFiniteSet(Hits)
      BY <2>3, <3>1, FS_Subset
    <3>3. QED
      BY <3>2, FS_CardinalityType
  <2>5. QED
    BY <2>1, <2>2, <2>4, LenProperties
<1>7. /\ e.losses = Len(conn.offsets) /\ e.rate = conn.rate /\ e.first = packet
      /\ e.rtts = conn.c.rtts /\ e.next = packet + Drawn /\ e.transfers = TransferTimes
  BY DEF NextPacket
<1>8. e.losses \in Nat /\ e.rtts \in Nat /\ e.rate \in Nat \ {0} /\ e.rtts = rounds + Cardinality(Hits)
  <2>1. conn.c.rtts = rounds + Cardinality(Hits)
    BY <1>1 DEF TransferInv, RenoLaw, RttsAccounted
  <2>2. conn.rate \in Nat \ {0}
    BY <1>1 DEF CallInv
  <2>3. QED
    BY <1>6, <1>7, <2>1, <2>2
<1>9. e.next = SumTo(DrawnList(workload, proto), n)
  <2>1. Drawn = DrawnFor(proto, fetch)
    <3>1. PerStream <=> proto = 2 /\ fetch.kind = "batch"
      BY <1>1, <1>2 DEF PerStream, Protocols, LogShape
    <3>2. StreamPackets = PacketsOf(fetch.sizes)
      BY <1>2 DEF StreamPackets, PacketsOf
    <3>3. QED
      BY <1>4, <3>1, <3>2 DEF Drawn, DrawnFor
  <2> DEFINE list == DrawnList(workload, proto)
  <2>2. list \in Seq(Nat) /\ n \in 1 .. Len(list) /\ list[n] = DrawnFor(proto, fetch)
    BY <1>1, <1>2, <1>3, DrawnListKnown DEF LogShape
  <2>3. packet = SumTo(list, n - 1)
    BY <1>1, <1>2 DEF LogInv
  <2> HIDE DEF list
  <2>4. SumTo(list, n) = SumTo(list, n - 1) + list[n]
    BY <2>2, SumToUnfolds
  <2>5. QED
    BY <1>7, <2>1, <2>2, <2>3, <2>4 DEF list
<1>10. Priced(fetch, e)
  <2>1. LosslessBytes(rounds) >= total /\ LosslessBytes(rounds) \in Nat
    BY <1>1, <1>3, <1>5, <1>6, LosslessGrowth DEF TransferInv, Pace
  <2>2. CASE e.losses = 0
    <3>1. Hits = {}
      BY <1>6, <1>7, <2>2 DEF Hits
    <3>2. e.rtts = rounds
      BY <1>6, <1>8, <3>1, FS_EmptySet
    <3>3. ASSUME NEW fewer \in 0 .. rounds - 1 PROVE ~(LosslessBytes(fewer) >= total)
      <4>1. LosslessBytes(fewer) < total
        BY <1>1, <1>4, <3>1 DEF TransferInv, Pace
      <4>2. LosslessBytes(fewer) \in Nat
        <5>1. fewer \in Nat
          BY <1>6
        <5>2. QED
          BY <5>1, LosslessGrowth
      <4>3. QED
        BY <1>3, <4>1, <4>2
    <3>4. QED
      BY <2>1, <2>2, <3>2, <3>3 DEF Priced
  <2>3. CASE e.losses # 0
    <3>1. Hits # {}
      <4>1. 1 \in DOMAIN conn.offsets
        BY <1>6, <1>7, <2>3
      <4>2. conn.offsets[1] < conn.c.sent
        BY <1>1, <1>4, <1>5, <4>1 DEF TransferInv, ConnShape, Ascending
      <4>3. QED
        BY <1>1, <4>1, <4>2 DEF TransferInv, Covered, Hits
    <3>2. Cardinality(Hits) # 0
      BY <1>6, <3>1, FS_EmptySet
    <3>3. rounds \in 0 .. e.rtts - 1
      BY <1>6, <1>8, <3>2
    <3>4. QED
      BY <2>1, <2>3, <3>3 DEF Priced
  <2>4. QED
    BY <2>2, <2>3
<1> DEFINE time == Time(total, e)
<1>11. time \in Nat /\ ConnTransferTime = time
  <2>1. time \in Nat
    BY <1>3, <1>8, TimeKnown
  <2>2. ConnTransferTime = time
    BY <1>4, <1>7 DEF ConnTransferTime, Time
  <2>3. QED
    BY <2>1, <2>2
<1> HIDE DEF time
<1>12. \A k \in DOMAIN fetch.sizes : Share(k) = (time * fetch.sizes[k]) \div total
  BY <1>2, <1>4, <1>11 DEF Share
<1>13. e.transfers = [k \in DOMAIN fetch.sizes |->
          IF fetch.kind = "segment" THEN time
          ELSE IF PerStream THEN Share(k) + Cardinality(StreamLosses(k)) * RTT
          ELSE IF conn.offsets # << >> THEN time ELSE Share(k)]
  BY <1>2, <1>7, <1>11 DEF TransferTimes
<1>14. conn.offsets = << >> <=> e.losses = 0
  BY <1>6, <1>7, EmptySeq
<1>15. LosslessTimes(fetch, e)
  <2> SUFFICES ASSUME e.losses = 0
               PROVE  e.transfers = [k \in DOMAIN fetch.sizes |->
                        IF fetch.kind = "segment" THEN time
                        ELSE (time * fetch.sizes[k]) \div total]
    BY DEF LosslessTimes, time
  <2>1. ASSUME NEW k \in DOMAIN fetch.sizes, PerStream
        PROVE  Share(k) + Cardinality(StreamLosses(k)) * RTT = Share(k)
    <3>1. Cardinality(StreamLosses(k)) = 0
      BY <1>1, <1>2, <1>4, <1>7, <2>1, NoStreamLoses
    <3>2. Share(k) \in Int
      <4>1. fetch.sizes[k] \in Nat
        BY <1>3
      <4>2. (time * fetch.sizes[k]) \div total \in Int
        BY <1>3, <1>11, <4>1
      <4>3. QED
        BY <1>12, <4>2
    <3>3. QED
      BY <3>1, <3>2, TimeAssumption
  <2>2. QED
    BY <1>12, <1>13, <1>14, <2>1
<1>16. OneStreamTimes(proto, lost, fetch, e)
  <2> SUFFICES ASSUME Len(fetch.sizes) = 1
               PROVE  LET size == fetch.sizes[1]
                          offsets == Single(lost, e.first, size)
                      IN  /\ e.losses = Len(offsets)
                          /\ \E f, m : Trajectory(f, m, size, offsets) /\ ~Going(f[m], size) /\ e.rtts = f[m].rtts
                          /\ e.transfers[1] = Time(size, e)
                               + IF proto = 2 /\ fetch.kind = "batch" THEN e.losses * RTT ELSE 0
    BY DEF OneStreamTimes
  <2>1. /\ total = fetch.sizes[1] /\ conn.offsets = Single(lost, e.first, fetch.sizes[1])
        /\ PerStream => Cardinality(StreamLosses(1)) = e.losses
    BY <1>1, <1>2, <1>4, <1>7, OneStream
  <2>2. \E f, m : Trajectory(f, m, total, conn.offsets) /\ ~Going(f[m], total) /\ e.rtts = f[m].rtts
    BY <1>1, <1>4, <1>5, <1>7 DEF CallInv
  <2>3. e.transfers[1] = time + IF proto = 2 /\ fetch.kind = "batch" THEN e.losses * RTT ELSE 0
    <3>1. 1 \in DOMAIN fetch.sizes
      BY <1>3
    <3>2. Share(1) = time
      BY <1>3, <1>11, <1>12, <2>1, <3>1, ShareOfAll
    <3>3. PerStream <=> proto = 2 /\ fetch.kind = "batch"
      BY <1>1, <1>2 DEF PerStream, Protocols, LogShape
    <3>4. e.losses * RTT \in Nat /\ time + 0 = time
      BY <1>8, <1>11, TimeAssumption
    <3>5. QED
      BY <1>3, <1>13, <2>1, <3>1, <3>2, <3>3, <3>4
  <2>4. QED
    BY <2>1, <2>2, <2>3, <1>7 DEF time
<1>17. QED
  BY <1>2, <1>8, <1>9, <1>10, <1>15, <1>16 DEF EntryOK, n

-----------------------------------------------------------------------------
\* No transfer has been made.
LEMMA InitEstablishes == Init => ModelInv
<1> SUFFICES ASSUME Init PROVE ModelInv
  OBVIOUS
<1>1. LogShape
  <2>1. log \in [1 .. 2 -> Seq({})]
    BY DEF Init, Protocols
  <2>2. QED
    BY <2>1 DEF Init, LogShape
<1>2. /\ conn = [offsets |-> << >>, total |-> 0, rate |-> 125, c |-> NewController]
      /\ windows = << >>
  BY DEF Init, NoConn
<1>3. TransferInv
  <2>1. Ascending(<< >>, 0)
    BY DEF Ascending
  <2>2. QED
    BY <1>2, <2>1, TransferStarts DEF Fresh
<1>4. CallInv
  <2> DEFINE f == [j \in {0} |-> NewController]
  <2>1. Len(windows) = 0 /\ f[0] = NewController
    BY <1>2
  <2>2. Trajectory(f, 0, conn.total, conn.offsets)
    BY <2>1 DEF Trajectory
  <2>3. QED
    BY <1>2, <2>1, <2>2 DEF CallInv, Init
<1>5. LogInv
  <2>1. \A p \in 1 .. 2 : log[p] = << >>
    BY DEF Init, Protocols
  <2>2. SumTo(DrawnList(workload, proto), 0) = 0
    BY <1>1, DrawnListKnown, SumToUnfolds DEF LogShape
  <2>3. QED
    BY <1>1, <2>1, <2>2 DEF LogInv, LogShape, Init
<1>6. QED
  BY <1>1, <1>3, <1>4, <1>5 DEF ModelInv

\* Every step preserves the invariant.
LEMMA NextPreserves == ModelInv /\ [Next]_vars => ModelInv'
<1> SUFFICES ASSUME ModelInv, [Next]_vars PROVE ModelInv'
  OBVIOUS
<1>0. LogShape /\ TransferInv /\ CallInv /\ LogInv
  BY DEF ModelInv
<1>1. CASE Start
  <2>1. LogShape'
    BY <1>0, <1>1 DEF Start, LogShape, params
  <2>2. Len(log[proto]) < Len(workload)
    BY <1>1 DEF Start
  <2>3. /\ conn' = [offsets |-> LossOffsets, total |-> TotalBytes, rate |-> Rate, c |-> NewController]
        /\ windows' = << >>
    BY <1>1 DEF Start
  <2>4. TransferInv'
    <3>1. TotalBytes \in Nat /\ Ascending(LossOffsets, TotalBytes)
      BY <1>0, <2>2, FetchKnown, OffsetsAscend
    <3>2. /\ conn'.c = NewController /\ conn'.total = TotalBytes /\ conn'.offsets = LossOffsets
          /\ conn' = [offsets |-> conn'.offsets, total |-> conn'.total, rate |-> conn'.rate, c |-> conn'.c]
      BY <2>3
    <3>3. Fresh'
      BY <2>3, <3>1, <3>2 DEF Fresh
    <3>4. (Fresh => TransferInv)'
      BY TransferStarts, PTL
    <3>5. QED
      BY <3>3, <3>4
  <2>5. CallInv'
    <3> DEFINE f == [j \in {0} |-> NewController]
    <3>1. Len(windows') = 0 /\ f[0] = NewController
      BY <2>3
    <3>2. Trajectory(f, 0, conn'.total, conn'.offsets)
      BY <3>1 DEF Trajectory
    <3>3. Rate \in Nat \ {0}
      BY <1>0, RateKnown DEF LogShape
    <3>4. TotalBytes' = TotalBytes /\ LossOffsets' = LossOffsets
      BY <1>1 DEF Start, params, TotalBytes, LossOffsets, LostAt, PerStream, Fetch, Offset,
         StreamLosses, FirstPacket, StreamPackets, SimulatePackets, Drawn
    <3>5. QED
      BY <2>3, <3>1, <3>2, <3>3, <3>4 DEF CallInv
  <2>6. LogInv'
    BY <1>0, <1>1 DEF Start, LogInv, params
  <2>7. QED
    BY <2>1, <2>4, <2>5, <2>6 DEF ModelInv
<1>2. CASE Round
  <2>1. LogShape' /\ LogInv'
    BY <1>0, <1>2 DEF Round, LogShape, LogInv, params
  <2>2. TransferInv'
    BY <1>0, <1>2, RoundKeeps
  <2>3. /\ conn' = [offsets |-> conn.offsets, total |-> conn.total, rate |-> conn.rate, c |-> conn'.c]
        /\ conn'.c = RoundTrip(conn.c, conn.total, conn.offsets)
    BY <1>0, <1>2 DEF Round, TransferInv, ConnShape
  <2>4. Len(windows') = Len(windows) + 1
    BY <1>0, <1>2 DEF Round, TransferInv, ConnShape
  <2>5. \E g : /\ Trajectory(g, Len(windows) + 1, conn.total, conn.offsets)
               /\ g[Len(windows) + 1] = RoundTrip(conn.c, conn.total, conn.offsets)
    <3>1. PICK f : Trajectory(f, Len(windows), conn.total, conn.offsets) /\ f[Len(windows)] = conn.c
      BY <1>0 DEF CallInv
    <3>2. Going(conn.c, conn.total)
      BY <1>2 DEF Round, Sending, Going
    <3>3. QED
      BY <3>1, <3>2, TrajectoryGrows
  <2>6. TotalBytes' = TotalBytes /\ LossOffsets' = LossOffsets
    BY <1>2 DEF Round, params, TotalBytes, LossOffsets, LostAt, PerStream, Fetch, Offset,
       StreamLosses, FirstPacket, StreamPackets, SimulatePackets, Drawn
  <2>7. CallInv'
    <3>1. conn'.offsets = conn.offsets /\ conn'.total = conn.total /\ conn'.rate = conn.rate
      BY <2>3
    <3>2. pc' = pc
      BY <1>2 DEF Round
    <3>3. QED
      BY <1>0, <2>3, <2>4, <2>5, <2>6, <3>1, <3>2 DEF CallInv
  <2>8. QED
    BY <2>1, <2>2, <2>7 DEF ModelInv
<1>3. CASE Finish
  <2> DEFINE e == [first |-> packet, next |-> NextPacket, losses |-> Len(conn.offsets),
                   rate |-> conn.rate, rtts |-> conn.c.rtts, transfers |-> TransferTimes]
             n == Len(log[proto]) + 1
  <2>1. log' = [log EXCEPT ![proto] = Append(@, e)]
    BY <1>3, Zenon DEF Finish
  <2>2. EntryOK(workload, lost, proto, n, e) /\ e.next = packet + Drawn
    <3>1. e.next = packet + Drawn
      BY DEF NextPacket
    <3> HIDE DEF n
    <3>2. EntryOK(workload, lost, proto, Len(log[proto]) + 1, e)
      BY <1>3, EntryLogged
    <3>3. QED
      BY <3>1, <3>2 DEF n
  <2> HIDE DEF e
  <2>3. PICK S : log \in [1 .. 2 -> Seq(S)]
    BY <1>0 DEF LogShape
  <2>4. /\ UNCHANGED <<workload, lost, trace, proto, conn, windows>> /\ pc' = "idle"
        /\ packet' = packet + Drawn
    BY <1>3 DEF Finish, params, NextPacket
  <2>5. proto \in 1 .. 2 /\ Len(log[proto]) \in Nat /\ Len(log[proto]) < Len(workload)
    BY <1>0, <1>3, <2>3 DEF LogShape, Finish
  <2>6. /\ log' \in [1 .. 2 -> Seq(S \cup {e})]
        /\ log'[proto] = Append(log[proto], e)
        /\ \A p \in 1 .. 2 : p # proto => log'[p] = log[p]
    <3>1. log \in [1 .. 2 -> Seq(S \cup {e})]
      BY <2>3
    <3>2. Append(log[proto], e) \in Seq(S \cup {e})
      BY <2>5, <3>1
    <3>3. QED
      BY <2>1, <2>5, <3>1, <3>2
  <2>7. /\ Len(log'[proto]) = n
        /\ \A p \in 1 .. 2 : \A m \in DOMAIN log'[p] :
             \/ m \in DOMAIN log[p] /\ log'[p][m] = log[p][m]
             \/ p = proto /\ m = n /\ log'[p][m] = e
    <3>1. log[proto] \in Seq(S \cup {e})
      BY <2>3, <2>5
    <3>2. /\ Len(Append(log[proto], e)) = n
          /\ \A m \in 1 .. Len(log[proto]) : Append(log[proto], e)[m] = log[proto][m]
          /\ Append(log[proto], e)[n] = e
          /\ DOMAIN log[proto] = 1 .. Len(log[proto]) /\ DOMAIN Append(log[proto], e) = 1 .. n
      BY <2>5, <3>1, AppendProperties, LenProperties
    <3>3. \A m \in 1 .. n : m \in 1 .. Len(log[proto]) \/ m = n
      BY <2>5
    <3>4. QED
      BY <2>5, <2>6, <3>2, <3>3
  <2>8. LogShape'
    <3>1. packet + Drawn \in Nat
      BY <1>0, <2>5, FetchKnown DEF LogShape
    <3>2. QED
      BY <1>0, <2>4, <2>6, <3>1 DEF LogShape
  <2>9. TransferInv'
    BY <1>0, <2>4 DEF TransferInv, ConnShape, RenoLaw, WindowFloor, RttsAccounted,
       SlowStartThenAvoidance, Hits, Covered, Pace
  <2>10. CallInv'
    BY <1>0, <2>4 DEF CallInv
  <2>11. LogInv'
    <3>1. packet' = SumTo(DrawnList(workload, proto), n)
      BY <2>2, <2>4 DEF EntryOK
    <3>2. ASSUME NEW p \in 1 .. 2, NEW m \in DOMAIN log'[p]
          PROVE  EntryOK(workload, lost, p, m, log'[p][m])
      BY <1>0, <2>2, <2>7 DEF LogInv
    <3>3. proto = 1 => log'[2] = << >>
      BY <1>0, <2>6 DEF LogInv
    <3>4. QED
      BY <2>4, <2>7, <3>1, <3>2, <3>3 DEF LogInv
  <2>12. QED
    BY <2>8, <2>9, <2>10, <2>11 DEF ModelInv
<1>4. CASE NextProtocol
  <2>1. /\ UNCHANGED <<workload, lost, trace, pc, conn, windows, log>> /\ pc = "idle"
        /\ proto = 1 /\ proto' = 2 /\ packet' = 0 /\ log[2] = << >>
    BY <1>0, <1>4 DEF NextProtocol, params, Protocols, LogShape, LogInv
  <2>2. LogShape'
    BY <1>0, <2>1 DEF LogShape
  <2>3. TransferInv'
    BY <1>0, <2>1 DEF TransferInv, ConnShape, RenoLaw, WindowFloor, RttsAccounted,
       SlowStartThenAvoidance, Hits, Covered, Pace
  <2>4. CallInv'
    BY <1>0, <2>1 DEF CallInv
  <2>5. LogInv'
    <3>1. SumTo(DrawnList(workload, 2), 0) = 0
      BY <1>0, DrawnListKnown, SumToUnfolds DEF LogShape
    <3>2. QED
      BY <1>0, <2>1, <3>1 DEF LogInv
  <2>6. QED
    BY <2>2, <2>3, <2>4, <2>5 DEF ModelInv
<1>5. CASE UNCHANGED vars
  <2>1. UNCHANGED <<workload, lost, trace, proto, packet, pc, conn, windows, log>>
    BY <1>5 DEF vars, params
  <2>2. LogShape' /\ LogInv'
    BY <1>0, <2>1 DEF LogShape, LogInv
  <2>3. TransferInv'
    BY <1>0, <2>1 DEF TransferInv, ConnShape, RenoLaw, WindowFloor, RttsAccounted,
       SlowStartThenAvoidance, Hits, Covered, Pace
  <2>4. CallInv'
    BY <1>0, <2>1 DEF CallInv, TotalBytes, LossOffsets, LostAt, PerStream, Fetch, Offset,
       StreamLosses, FirstPacket, StreamPackets, SimulatePackets, Drawn
  <2>5. QED
    BY <2>2, <2>3, <2>4 DEF ModelInv
<1>6. QED
  BY <1>1, <1>2, <1>3, <1>4, <1>5 DEF Next

\* The inductive invariant holds throughout.
LEMMA ModelInvariance == Spec => []ModelInv
  BY InitEstablishes, NextPreserves, PTL DEF Spec

-----------------------------------------------------------------------------
\* The entries that DriftBounded and PairedTimes compare.
LEMMA ComparedEntries ==
  ASSUME ModelInv, NEW n \in Compared
  PROVE  /\ workload \in Workloads /\ n \in DOMAIN workload /\ n \in 1 .. Len(workload)
         /\ EntryOK(workload, lost, 1, n, log[1][n]) /\ EntryOK(workload, lost, 2, n, log[2][n])
<1>1. EntryOK(workload, lost, 1, n, log[1][n]) /\ EntryOK(workload, lost, 2, n, log[2][n])
  BY DEF ModelInv, LogInv, Compared
<1>2. workload \in Workloads /\ n \in DOMAIN workload
  BY <1>1 DEF ModelInv, LogShape, EntryOK
<1>3. QED
  BY <1>1, <1>2, WorkloadFetch

\* A protocol is ahead by the packets that padding its streams has cost so far.
LEMMA DriftFollows == ModelInv => DriftBounded
<1> SUFFICES ASSUME ModelInv, NEW n \in Compared
             PROVE  log[2][n].next - log[1][n].next
                      \in 0 .. SumTo([m \in DOMAIN workload |-> Len(workload[m].sizes) - 1], n)
  BY DEF DriftBounded
<1> DEFINE a == DrawnList(workload, 1)
           b == DrawnList(workload, 2)
           d == [m \in DOMAIN workload |-> Len(workload[m].sizes) - 1]
<1>1. /\ workload \in Workloads /\ n \in 1 .. Len(workload)
      /\ log[1][n].next = SumTo(a, n) /\ log[2][n].next = SumTo(b, n)
  BY ComparedEntries DEF EntryOK
<1>2. /\ a \in Seq(Nat) /\ Len(a) = Len(workload) /\ b \in Seq(Nat) /\ Len(b) = Len(workload)
      /\ \A m \in 1 .. Len(workload) : a[m] = DrawnFor(1, workload[m]) /\ b[m] = DrawnFor(2, workload[m])
  BY <1>1, DrawnListKnown
<1>3. DOMAIN workload = 1 .. Len(workload) /\ Len(workload) \in Nat
  BY <1>1, WorkloadAssumption, LenProperties
<1>4. \A m \in 1 .. Len(workload) : Len(workload[m].sizes) \in Nat \ {0} /\ workload[m].sizes \in Seq(Nat)
  BY <1>1, <1>3, WorkloadFetch
<1>5. d \in Seq(Nat) /\ Len(d) = Len(workload) /\ \A m \in 1 .. Len(workload) : d[m] = Len(workload[m].sizes) - 1
  <2>1. d = [m \in 1 .. Len(workload) |-> Len(workload[m].sizes) - 1]
    BY <1>3
  <2>2. \A m \in 1 .. Len(workload) : Len(workload[m].sizes) - 1 \in Nat
    BY <1>4
  <2>3. QED
    BY <1>3, <2>1, <2>2
<1>6. ASSUME NEW m \in 1 .. Len(workload) PROVE a[m] <= b[m] /\ b[m] <= a[m] + d[m]
  <2> DEFINE sizes == workload[m].sizes
             p == Packets(SumOf(sizes))
             q == SumOf(PacketsOf(sizes))
             len == Len(sizes)
  <2>1. p \in Nat /\ q \in Nat /\ len \in Nat \ {0} /\ p <= q /\ q <= p + (len - 1)
    <3>1. sizes \in Seq(Nat) /\ len \in Nat \ {0} /\ len > 0
      BY <1>4
    <3> HIDE DEF sizes
    <3>2. QED
      BY <3>1, PaddingBounded
  <2>2. a[m] = p /\ (b[m] = p \/ b[m] = q) /\ d[m] = len - 1
    BY <1>2, <1>5 DEF DrawnFor
  <2> HIDE DEF p, q, len
  <2>3. QED
    BY <2>1, <2>2
<1> HIDE DEF a, b, d
<1>7. n \in 0 .. Len(a)
  BY <1>1, <1>2, <1>3
<1>8. SumTo(a, n) <= SumTo(b, n) /\ SumTo(b, n) <= SumTo(a, n) + SumTo(d, n)
  BY <1>2, <1>5, <1>6, <1>7, SumsApart
<1>9. SumTo(a, n) \in Nat /\ SumTo(b, n) \in Nat /\ SumTo(d, n) \in Nat
  BY <1>2, <1>5, <1>7, SumToUnfolds
<1>10. SumTo(b, n) - SumTo(a, n) \in 0 .. SumTo(d, n)
  BY <1>8, <1>9
<1>11. QED
  BY <1>1, <1>10 DEF d

\* Two fetches that lost nothing took as many round trips as each other, and so the
\* same time.
LEMMA LosslessAlike == ModelInv => LosslessIdentical
<1> SUFFICES ASSUME ModelInv, NEW n \in Compared,
                    log[1][n].losses + log[2][n].losses = 0, log[1][n].rate = log[2][n].rate
             PROVE  log[1][n].transfers = log[2][n].transfers
  BY DEF LosslessIdentical
<1> DEFINE x == log[1][n]
           y == log[2][n]
           fetch == workload[n]
           Enough(rounds) == LosslessBytes(rounds) >= SumOf(fetch.sizes)
<1>1. EntryOK(workload, lost, 1, n, x) /\ EntryOK(workload, lost, 2, n, y)
  BY ComparedEntries
<1>2. x.losses \in Nat /\ y.losses \in Nat /\ x.rtts \in Nat /\ y.rtts \in Nat
  BY <1>1 DEF EntryOK
<1>3. x.losses = 0 /\ y.losses = 0
  BY <1>2
<1>4. /\ Enough(x.rtts) /\ ~(\E fewer \in 0 .. x.rtts - 1 : Enough(fewer))
      /\ Enough(y.rtts) /\ ~(\E fewer \in 0 .. y.rtts - 1 : Enough(fewer))
  BY <1>1, <1>3 DEF EntryOK, Priced
<1>5. x.rtts = y.rtts
  <2> HIDE DEF x, y, Enough
  <2>1. ~(x.rtts < y.rtts)
    BY <1>2, <1>4
  <2>2. ~(y.rtts < x.rtts)
    BY <1>2, <1>4
  <2>3. QED
    BY <1>2, <2>1, <2>2
<1>6. Time(SumOf(fetch.sizes), x) = Time(SumOf(fetch.sizes), y)
  BY <1>5 DEF Time
<1>7. QED
  BY <1>1, <1>3, <1>6 DEF EntryOK, LosslessTimes

\* The same first packet means the same losses, the same losses the same round trips, and
\* what is left is the second charge of QUIC.
LEMMA GapFollows == ModelInv => DepthOneGap
<1> SUFFICES ASSUME ModelInv, NEW n \in Compared, Len(workload[n].sizes) = 1,
                    log[1][n].first = log[2][n].first, log[1][n].rate = log[2][n].rate
             PROVE  log[2][n].transfers[1] - log[1][n].transfers[1] =
                      IF workload[n].kind = "batch" THEN log[1][n].losses * RTT ELSE 0
  BY DEF DepthOneGap
<1> DEFINE x == log[1][n]
           y == log[2][n]
           fetch == workload[n]
           size == fetch.sizes[1]
           offsets == Single(lost, x.first, size)
<1>1. EntryOK(workload, lost, 1, n, x) /\ EntryOK(workload, lost, 2, n, y)
  BY ComparedEntries
<1>2. /\ x.losses \in Nat /\ x.rtts \in Nat /\ y.rtts \in Nat
      /\ x.rate \in Nat \ {0} /\ y.rate \in Nat \ {0}
  BY <1>1 DEF EntryOK
<1>3. size \in Nat
  <2>1. 1 \in 1 .. Len(fetch.sizes)
    OBVIOUS
  <2>2. QED
    BY <2>1, ComparedEntries, WorkloadFetch
<1>4. /\ x.losses = Len(offsets)
      /\ \E f, m : Trajectory(f, m, size, offsets) /\ ~Going(f[m], size) /\ x.rtts = f[m].rtts
      /\ x.transfers[1] = Time(size, x) + 0
  BY <1>1 DEF EntryOK, OneStreamTimes
<1>5. /\ y.losses = Len(offsets)
      /\ \E f, m : Trajectory(f, m, size, offsets) /\ ~Going(f[m], size) /\ y.rtts = f[m].rtts
      /\ y.transfers[1] = Time(size, y) + IF fetch.kind = "batch" THEN y.losses * RTT ELSE 0
  BY <1>1 DEF EntryOK, OneStreamTimes
<1>6. x.rtts = y.rtts
  BY <1>4, <1>5, SameTransfer
<1>7. Time(size, x) = Time(size, y)
  BY <1>6 DEF Time
<1>8. Time(size, x) \in Nat
  BY <1>2, <1>3, TimeKnown
<1>9. x.losses * RTT \in Nat /\ y.losses = x.losses
  BY <1>2, <1>4, <1>5, TimeAssumption
<1> DEFINE t == Time(size, x)
           extra == IF fetch.kind = "batch" THEN x.losses * RTT ELSE 0
<1>10. y.transfers[1] = t + extra /\ x.transfers[1] = t + 0 /\ t \in Nat /\ extra \in Nat
  BY <1>4, <1>5, <1>7, <1>8, <1>9
<1> HIDE DEF t
<1>11. y.transfers[1] - x.transfers[1] = extra
  <2> HIDE DEF extra, x, y
  <2>1. QED
    BY <1>10
<1>12. QED
  BY <1>11

-----------------------------------------------------------------------------
\* However many losses come in a row and wherever they are, the congestion window keeps
\* its floor, every loss costs one round trip and no two, and the window follows slow
\* start up to the first loss and grows by a packet from then on (congestion.go:61-109).
THEOREM RenoFollowed == Spec => []RenoLaw
<1>1. ModelInv => RenoLaw
  BY DEF ModelInv, TransferInv
<1>2. QED
  BY ModelInvariance, <1>1, PTL

\* The guard against a closed window never ends a transfer early: for every
\* workload and loss pattern the loop ends with all bytes sent (congestion.go:61-74).
THEOREM NoByteLeft == Spec => EveryByteSent
<1>1. ModelInv /\ [Next]_vars => [pc = "transfer" /\ pc' = "idle" => conn.c.sent = conn.total]_vars
  <2> SUFFICES ASSUME ModelInv, Next, pc = "transfer", pc' = "idle"
               PROVE  conn.c.sent = conn.total
    OBVIOUS
  <2>1. ~Sending
    BY DEF Next, Start, Round, Finish, NextProtocol
  <2>2. ConnShape /\ WindowFloor
    BY DEF ModelInv, TransferInv, RenoLaw
  <2>3. QED
    BY <2>1, <2>2 DEF Sending, ToSend, ConnShape, WindowFloor, DefaultMSS
<1>2. QED
  BY ModelInvariance, <1>1, PTL DEF Spec, EveryByteSent

\* Transfers of any size take the round trips of slow start when nothing is lost and
\* more when something is, wherever the losses are.
THEOREM LossesCost == Spec => []LossNeverHelps
<1>1. ModelInv => LossNeverHelps
  <2> SUFFICES ASSUME ModelInv, NEW p \in 1 .. 2, NEW n \in DOMAIN log[p]
               PROVE  Priced(workload[n], log[p][n])
    BY DEF LossNeverHelps, Priced, Protocols
  <2>1. QED
    BY DEF ModelInv, LogInv, EntryOK
<1>2. QED
  BY ModelInvariance, <1>1, PTL

\* For every workload the protocols drift apart by at most one packet for each stream
\* beyond the first of the batches so far, and QUIC is never behind
\* (tcp.go:182-183, quic.go:170-171).
THEOREM DriftStaysBounded == Spec => []DriftBounded
  BY ModelInvariance, DriftFollows, PTL

\* Under the same conditions the two protocols take the same time for every fetch that
\* lost nothing, and for every fetch of one stream but for the round trip that QUIC
\* charges a batch a second time for each loss (quic.go:208).
THEOREM TimesPaired == Spec => []PairedTimes
<1>1. ModelInv => PairedTimes
  BY LosslessAlike, GapFollows DEF PairedTimes
<1>2. QED
  BY ModelInvariance, <1>1, PTL

-----------------------------------------------------------------------------
\* The loop has spawned the slots below next, and only those.
Spawned == \A n \in Slots : at[n] = "unborn" <=> n >= next

\* The WaitGroup waits for the goroutines at work.
Waited == \A n \in Slots : n \in wg <=> at[n] \in {"fetch", "cancel", "leave"}

\* What a goroutine leaves in its slot.
Recorded == \A n \in Slots :
  /\ at[n] \in {"unborn", "fetch"} => errs[n] = NoErr
  /\ at[n] = "cancel" => errs[n] # NoErr
  /\ at[n] \in {"leave", "done"} /\ errs[n] = NoErr => out[n] = n

\* Before the return, subCtx is only cancelled after a failure.
CancelledByFailure ==
  cancelled /\ ~parent /\ result = None => \E m \in Slots : errs[m] = "failed"

FetchInv ==
  /\ TypeOK /\ Spawned /\ Waited /\ Recorded /\ CancelledByFailure
  /\ AllOrNothing /\ NoStragglers /\ CancellationHasCause

-----------------------------------------------------------------------------
\* The loop has not started.
LEMMA FetchInitInv == FetchInit => FetchInv
<1> SUFFICES ASSUME FetchInit PROVE FetchInv
  OBVIOUS
<1>1. TypeOK
  <2>1. cancelled \in BOOLEAN /\ parent \in BOOLEAN
    BY Zenon DEF FetchInit
  <2>2. next \in 1 .. N + 1
    BY NAssumption DEF FetchInit
  <2>3. QED
    BY <2>1, <2>2 DEF FetchInit, TypeOK
<1>2. QED
  BY <1>1, NAssumption DEF FetchInit, FetchInv, Spawned, Waited, Recorded, CancelledByFailure, AllOrNothing,
     NoStragglers, CancellationHasCause, Slots, NoErr

\* The first error of the batch exists when there is one.
LEMMA ResultOK ==
  ASSUME TypeOK
  PROVE  /\ Result \in Results
         /\ Result.err = 0 => Result.out = out /\ \A n \in Slots : errs[n] = NoErr
         /\ Result.err # 0 => Result.out = << >> /\ Result.err \in Slots /\ errs[Result.err] # NoErr
<1> DEFINE failed == { n \in Slots : errs[n] # NoErr }
           first == CHOOSE n \in failed : \A m \in failed : n <= m
<1>1. CASE failed = {}
  <2>1. Result = [out |-> out, err |-> 0]
    BY <1>1 DEF Result
  <2>2. QED
    BY <1>1, <2>1 DEF Results, TypeOK
<1>2. CASE failed # {}
  <2>1. Result = [out |-> << >>, err |-> first]
    BY <1>2 DEF Result
  <2>2. first \in failed
    <3>1. failed \subseteq Nat /\ failed # {}
      BY <1>2, NAssumption DEF Slots
    <3> HIDE DEF failed
    <3>2. PICK n \in failed : \A m \in failed : <<m, n>> \notin OpToRel(<, Nat)
      BY <3>1, NatLessThanWellFounded, WFMin
    <3>3. ASSUME NEW m \in failed PROVE n <= m
      <4>1. n \in Nat /\ m \in Nat
        BY <3>1
      <4>2. ~(m < n)
        BY <3>2, <4>1 DEF OpToRel
      <4>3. QED
        BY <4>1, <4>2
    <3>4. QED
      BY <3>3
  <2> HIDE DEF first
  <2>3. first \in Slots /\ errs[first] # NoErr /\ first # 0
    BY <2>2, NAssumption DEF Slots
  <2>4. QED
    BY <2>1, <2>3 DEF Results
<1>3. QED
  BY <1>1, <1>2

\* Every step preserves the invariant.
LEMMA FetchStepInv == FetchInv /\ [FetchNext]_fetchVars => FetchInv'
<1> SUFFICES ASSUME FetchInv, [FetchNext]_fetchVars PROVE FetchInv'
  OBVIOUS
<1> USE NAssumption DEF FetchInv, TypeOK, Spawned, Waited, Recorded, CancelledByFailure, AllOrNothing,
        NoStragglers, CancellationHasCause, NoErr
<1>1. CASE Spawn
  <2>1. next \in Slots /\ next + 1 \in 1 .. N + 1
    BY <1>1 DEF Spawn, Slots
  <2>2. \A n \in Slots : n >= next + 1 <=> (n >= next /\ n # next)
    BY DEF Slots
  <2>3. result = None
    BY <1>1, <2>1 DEF Spawn
  <2>4. QED
    BY <1>1, <2>1, <2>2, <2>3 DEF Spawn
<1>2. ASSUME NEW n \in Slots, FetchOK(n) PROVE FetchInv'
  BY <1>2 DEF FetchOK
<1>3. ASSUME NEW n \in Slots, FetchFails(n) PROVE FetchInv'
  <2>1. PICK err \in {"failed", "canceled"} :
          errs' = [errs EXCEPT ![n] = err] /\ (err = "canceled" => cancelled \/ parent)
    BY <1>3 DEF FetchFails
  <2>2. result = None
    BY <1>3 DEF FetchFails
  <2>3. TypeOK' /\ Spawned' /\ Waited' /\ Recorded' /\ AllOrNothing' /\ NoStragglers'
    BY <1>3, <2>1, <2>2 DEF FetchFails
  <2>4. ASSUME NEW m \in Slots, errs[m] = "failed" PROVE errs'[m] = "failed"
    BY <1>3, <2>1, <2>4 DEF FetchFails
  <2>5. CancelledByFailure' /\ CancellationHasCause'
    BY <1>3, <2>1, <2>2, <2>4 DEF FetchFails
  <2>6. QED
    BY <2>3, <2>5
<1>4. ASSUME NEW n \in Slots, Cancel(n) PROVE FetchInv'
  BY <1>4 DEF Cancel
<1>5. ASSUME NEW n \in Slots, Leave(n) PROVE FetchInv'
  BY <1>5 DEF Leave
<1>6. CASE Return
  <2>1. \A n \in Slots : at[n] = "done"
    BY <1>6 DEF Return, Slots
  <2>2. result' = Result /\ result' \in Results /\ result' # None
    BY <1>6, ResultOK, NoneAssumption DEF Return
  <2>3. AllOrNothing'
    <3>1. Result.err = 0 => \A n \in Slots : Result.out[n] = n
      BY <2>1, ResultOK
    <3>2. QED
      BY <1>6, <2>2, <3>1, ResultOK DEF Return
  <2>4. QED
    BY <1>6, <2>1, <2>2, <2>3 DEF Return
<1>7. CASE ParentCancels
  BY <1>7 DEF ParentCancels
<1>8. CASE UNCHANGED fetchVars
  BY <1>8 DEF fetchVars
<1>9. QED
  BY <1>1, <1>2, <1>3, <1>4, <1>5, <1>6, <1>7, <1>8 DEF FetchNext, Goroutine

\* The inductive invariant holds throughout.
LEMMA FetchInvariance == FetchSpec => []FetchInv
  BY FetchInitInv, FetchStepInv, PTL DEF FetchSpec

-----------------------------------------------------------------------------
\* Batches of any size are delivered whole and in order, or not at all and for a
\* reason that goes back to a failure or to the caller.
THEOREM DeliveredWhole == FetchSpec => []TruthfulResult
<1>1. FetchInv => TruthfulResult
  BY DEF FetchInv, TruthfulResult
<1>2. QED
  BY FetchInvariance, <1>1, PTL

\* No goroutine of a batch outlives the call that started it.
THEOREM NobodyLeftBehind == FetchSpec => []NoStragglers
<1>1. FetchInv => NoStragglers
  BY DEF FetchInv
<1>2. QED
  BY FetchInvariance, <1>1, PTL
=============================================================================
