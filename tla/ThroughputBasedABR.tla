------------------------- MODULE ThroughputBasedABR -------------------------
(***************************************************************************)
(* The throughput-based bitrate selection of internal/video/               *)
(* abr_throughput.go.  A sample has bytes and time (ms); throughputs and   *)
(* their estimates are tenths of kbps, rounded down.                       *)
(***************************************************************************)
EXTENDS BufferBasedABR, Numbers

StartupLength == 3
ProbeInterval == 10
MinSamplesEWMA == 3

OneLevelAbove(ladder, current) ==
  LET above == { b \in ladder : b > current }
  IN  IF above = {} THEN current ELSE Min(above)

\* ThroughputSample.Kbps.
Kbps(sample) == (sample.bytes * 80) \div sample.time

\* Mutant: what the newest sample weighs is not taken off the older ones.
SmoothedHeavy(estimate, sample) == (3 * Kbps(sample) + 10 * estimate) \div 10

\* One step of the EWMA: the newer sample weighs Alpha = 0.3.
Smoothed(estimate, sample) == (3 * Kbps(sample) + 7 * estimate) \div 10

\* The EWMA over all samples, from the oldest on.
EWMA(history) ==
  LET estimate[n \in 1 .. Len(history)] ==
        IF n = 1 THEN Kbps(history[1]) ELSE Smoothed(estimate[n - 1], history[n])
  IN  estimate[Len(history)]

\* The average of the first samples, and an EWMA once there are enough.
Estimate(ladder, history) ==
  CASE history = << >> -> 10 * LowestBitrate(ladder)
    [] history # << >> /\ Len(history) < MinSamplesEWMA ->
         SumOf([n \in DOMAIN history |-> Kbps(history[n])]) \div Len(history)
    [] OTHER -> EWMA(history)

\* SelectBitrate: the ramp of the startup, then 85% of the estimate, and one level
\* above the current bitrate at every tenth segment.
SelectByThroughput(ladder, index, current, history) ==
  LET chosen == ClosestBitrate(ladder, (85 * Estimate(ladder, history)) \div 1000)
      probing == index % ProbeInterval = 0 /\ index > StartupLength
  IN  IF index < StartupLength
      THEN LowestBitrate(ladder)
      ELSE Max({chosen} \cup IF probing THEN {OneLevelAbove(ladder, current)} ELSE {})
=============================================================================
