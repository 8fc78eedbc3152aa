--------------------------- MODULE BufferBasedABR ---------------------------
(***************************************************************************)
(* The bitrate ladder of internal/video/manifest.go and the buffer-based   *)
(* bitrate selection of internal/video/abr_buffer.go.                      *)
(*                                                                         *)
(* A ladder is the set of bitrates (kbps) of a manifest: every manifest    *)
(* lists DefaultRepresentations, which are in increasing order.  Times are *)
(* milliseconds.  A throughput sample keeps the bytes and the time it is   *)
(* the quotient of, so that comparisons are exact.                         *)
(***************************************************************************)
EXTENDS Integers, Sequences, FiniteSets, FiniteSetsExt

DefaultRepresentations == {400, 800, 1500, 3000, 6000, 12000}

LowestBitrate(ladder) == Min(ladder)

HighestBitrate(ladder) == Max(ladder)

\* The largest bitrate of the ladder up to target, the lowest when all are above.
ClosestBitrate(ladder, target) == Max({ b \in ladder : b <= target } \cup {LowestBitrate(ladder)})

RepresentationForBitrate(ladder, bitrate) == ClosestBitrate(ladder, bitrate)

OneLevelBelow(ladder, current) ==
  LET below == { b \in ladder : b < current }
  IN  IF below = {} THEN current ELSE Max(below)

\* The distance of two bitrates on the ladder, 2 when one is not on it.
LevelsApart(ladder, a, b) ==
  IF {a, b} \subseteq ladder
  THEN Cardinality({ c \in ladder : (a < c /\ c <= b) \/ (b < c /\ c <= a) })
  ELSE 2

-----------------------------------------------------------------------------
CriticalBuffer == 2000
DangerBuffer == 6000
ComfortBuffer == 6000
SurplusBuffer == 15000

\* sample.Kbps < kbps, for the quotient of sample.bytes * 8 bits and sample.time ms.
SlowerThan(sample, kbps) == sample.bytes * 8 < kbps * sample.time

\* Mutant: the danger zone aims for the last throughput, up as well as down.
DangerTargetFollowsThroughput(ladder, current, history) ==
  IF history # << >>
  THEN ClosestBitrate(ladder, (history[Len(history)].bytes * 8) \div history[Len(history)].time)
  ELSE current

\* Hold, or aim one level lower when the last fetch was slower than the bitrate.
DangerTarget(ladder, current, history) ==
  IF history # << >> /\ SlowerThan(history[Len(history)], current)
  THEN OneLevelBelow(ladder, current)
  ELSE current

\* Linear between the lowest and the highest bitrate over the comfort zone.
ComfortTarget(ladder, buffer) ==
  LET low == LowestBitrate(ladder)
  IN  ClosestBitrate(ladder,
        low + ((HighestBitrate(ladder) - low) * (buffer - ComfortBuffer))
                 \div (SurplusBuffer - ComfortBuffer))

\* A target at most one level away is not worth a switch.
Hysteresis(ladder, current, target) ==
  IF LevelsApart(ladder, current, target) <= 1 THEN current ELSE target

SelectBitrate(ladder, buffer, currentBitrate, history) ==
  LET low == LowestBitrate(ladder)
      current == IF currentBitrate = 0 THEN low ELSE currentBitrate
  IN  CASE buffer < CriticalBuffer -> low
        [] CriticalBuffer <= buffer /\ buffer < DangerBuffer ->
             Hysteresis(ladder, current, DangerTarget(ladder, current, history))
        [] buffer >= SurplusBuffer -> Hysteresis(ladder, current, HighestBitrate(ladder))
        [] OTHER -> Hysteresis(ladder, current, ComfortTarget(ladder, buffer))
=============================================================================
