------------------------------ MODULE Metrics -------------------------------
(***************************************************************************)
(* What internal/metrics and internal/analysis compute from the sessions a *)
(* run collected.  Samples are sequences of natural numbers; means, effect *)
(* sizes and test statistics are kept as the exact integers they are       *)
(* quotients or roots of, so that every comparison is exact.               *)
(*                                                                         *)
(* A session is a record [protocol, content, played, ...], and what was    *)
(* played [latencies, startup, rebuffers, stalled, bitrate, hits, hol],    *)
(* where latencies are those of the session's segments.                    *)
(***************************************************************************)
EXTENDS Integers, Sequences, FiniteSets, SequencesExt, Numbers

\* Sorting, in counts: the values below v and those up to v, and the k-th of them all.
Below(values, v) == Cardinality({ i \in DOMAIN values : values[i] < v })
UpTo(values, v) == Cardinality({ i \in DOMAIN values : values[i] <= v })
KthOf(values, k) == CHOOSE v \in ToSet(values) : Below(values, v) < k /\ k <= UpTo(values, v)

\* Mutant: the rank is rounded down.
NearestRankFloor(n, p) == Max({1, Min({n, (p * n) \div 100})})

\* ceil(p/100 * n), kept within 1 .. n.
NearestRank(n, p) == Max({1, Min({n, (p * n + 99) \div 100})})

\* Percentile of both packages, and percentileSorted.
Percentile(values, p) == IF values = << >> THEN 0 ELSE KthOf(values, NearestRank(Len(values), p))

BuildPercentileSet(values) ==
  [p50 |-> Percentile(values, 50), p95 |-> Percentile(values, 95), p99 |-> Percentile(values, 99)]

-----------------------------------------------------------------------------
\* sampleVariance times n and n - 1: the squared deviations from the mean, n-fold.
Deviation(values) ==
  Len(values) * SumOf([i \in DOMAIN values |-> values[i] * values[i]])
    - SumOf(values) * SumOf(values)

\* BuildStatSet: the mean is sum / n, the standard deviation the root of squares / n^2.
BuildStatSet(values) ==
  IF values = << >>
  THEN [sum |-> 0, squares |-> 0, min |-> 0, max |-> 0]
  ELSE [sum |-> SumOf(values), squares |-> Deviation(values),
        min |-> Min(ToSet(values)), max |-> Max(ToSet(values))]

\* The pooled variance is scaled / (m * n * free).
Pooled(g, h) ==
  LET m == Len(g)  n == Len(h)
  IN  [scaled |-> n * Deviation(g) + m * Deviation(h), free |-> m + n - 2]

\* The label of an effect whose square is num / den.
EffectLabel(num, den) ==
  CASE 25 * num < den -> "negligible"
    [] 25 * num >= den /\ 4 * num < den -> "small"
    [] 4 * num >= den /\ 25 * num < 16 * den -> "medium"
    [] OTHER -> "large"

NoEffect == [sign |-> 0, num |-> 0, den |-> 1, label |-> "negligible"]

\* The effect of two groups with a given pooled variance: the sign of Cohen's d,
\* and the quotient num / den of its square.
Effect(g, h, pooled) ==
  LET m == Len(g)  n == Len(h)
      diff == SumOf(g) * n - SumOf(h) * m
      num == diff * diff * pooled.free
      den == m * n * pooled.scaled
  IN  IF m = 0 \/ n = 0 \/ m + n <= 2 \/ pooled.scaled <= 0
      THEN NoEffect
      ELSE [sign |-> IF diff > 0 THEN 1 ELSE IF diff < 0 THEN -1 ELSE 0,
            num |-> num, den |-> den, label |-> EffectLabel(num, den)]

CohensD(g, h) == Effect(g, h, Pooled(g, h))

\* Twice the rank of v: the average of the ranks of its ties, which follow those below.
TwiceRank(values, v) == Below(values, v) + 1 + UpTo(values, v)

\* Twice the U statistic of group g against h: the sum of the ranks g has among all,
\* less its minimum.
TwiceU(g, h) ==
  SumOf([i \in DOMAIN g |-> TwiceRank(g \o h, g[i])]) - Len(g) * (Len(g) + 1)

\* MannWhitneyU, and whether its p-value is below 0.05: z > 1.95996, whose square
\* is 3.84146, for z = (|U - mean| - 1/2) / sqrt(m n (m + n + 1) / 12).
MannWhitneyU(g, h) ==
  LET m == Len(g)  n == Len(h)
      u1 == TwiceU(g, h)
      u == Min({u1, 2 * m * n - u1})
      diff == Max({m * n - u - 1, 0})
  IN  IF m = 0 \/ n = 0
      THEN [twiceU |-> 0, significant |-> FALSE]
      ELSE [twiceU |-> u, significant |-> 300000 * diff * diff > 384146 * m * n * (m + n + 1)]

-----------------------------------------------------------------------------
(***************************************************************************)
(* An improvement in percent is 100 * num / den with den > 0: how much     *)
(* better the mean of QUIC is than that of TCP.                            *)
(***************************************************************************)
Percent(tcp, quic, higherIsGood) ==
  LET t == SumOf(tcp) * Len(quic)  q == SumOf(quic) * Len(tcp)
  IN  [num |-> IF higherIsGood THEN q - t ELSE t - q, den |-> t]

NoChange == [num |-> 0, den |-> 1]

\* Mutant: the effect is taken with the population variance.
ImprovementPopulation(tcp, quic, higherIsGood) ==
  [pct |-> IF SumOf(tcp) = 0 THEN NoChange ELSE Percent(tcp, quic, higherIsGood),
   effect |-> Effect(tcp, quic, [Pooled(tcp, quic) EXCEPT !.free = @ + 2])]

\* improvement: a TCP mean of zero counts as no change, and the effect is TCP's
\* over QUIC's whatever the direction.
Improvement(tcp, quic, higherIsGood) ==
  [pct |-> IF SumOf(tcp) = 0 THEN NoChange ELSE Percent(tcp, quic, higherIsGood),
   effect |-> CohensD(tcp, quic)]

\* pctImprovement: against a TCP mean of zero, all or nothing.
PctImprovement(tcp, quic, higherIsGood) ==
  CASE SumOf(tcp) # 0 -> Percent(tcp, quic, higherIsGood)
    [] SumOf(tcp) = 0 /\ SumOf(quic) = 0 -> NoChange
    [] OTHER -> [num |-> IF higherIsGood THEN 1 ELSE -1, den |-> 1]

\* computeImprovement: the effect is positive where QUIC is better.
ComputeImprovement(tcp, quic, higherIsGood) ==
  [pct |-> PctImprovement(tcp, quic, higherIsGood),
   effect |-> IF higherIsGood THEN CohensD(quic, tcp) ELSE CohensD(tcp, quic),
   test |-> MannWhitneyU(tcp, quic)]

\* An improvement of at least k percent.
AtLeastPct(pct, k) == 100 * pct.num >= k * pct.den

\* The metrics of what a session played, and which of them are better when higher.
Metric(key, s) ==
  CASE key = "segment_latency_p95" -> Percentile(s.latencies, 95)
    [] key = "startup_latency" -> s.startup
    [] key = "rebuffer_count" -> s.rebuffers
    [] key = "rebuffer_duration" -> s.stalled
    [] key = "avg_bitrate" -> s.bitrate
    [] key = "segment_latency_p50" -> Percentile(s.latencies, 50)
    [] key = "segment_latency_p99" -> Percentile(s.latencies, 99)
    [] key = "cache_hit_rate" -> s.hits
    [] key = "hol_block_events" -> s.hol

LegacyKeys == {"segment_latency_p95", "startup_latency", "rebuffer_count", "rebuffer_duration",
               "avg_bitrate"}
EnhancedKeys == LegacyKeys \cup {"segment_latency_p50", "segment_latency_p99", "cache_hit_rate",
                                 "hol_block_events"}
DescribedKeys == {"rebuffer_count", "rebuffer_duration", "avg_bitrate", "cache_hit_rate",
                  "hol_block_events"}
HigherIsGood(key) == key \in {"avg_bitrate", "cache_hit_rate"}

Project(key, sessions) == [i \in DOMAIN sessions |-> Metric(key, sessions[i].played)]

\* deriveVerdict, from the improvements of CompareEnhanced.
DeriveVerdict(imps) ==
  LET p95 == imps["segment_latency_p95"]  rebuf == imps["rebuffer_duration"]
      Won(imp, k) == AtLeastPct(imp.pct, k) /\ imp.test.significant
  IN  CASE Won(p95, 30) /\ Won(rebuf, 50) -> "dominant"
        [] Won(p95, 20) /\ ~(Won(p95, 30) /\ Won(rebuf, 50)) -> "large"
        [] Won(p95, 5) /\ ~Won(p95, 20) -> "moderate"
        [] OTHER -> "negligible"

-----------------------------------------------------------------------------
(***************************************************************************)
(* The collector: results is the sequence of the sessions added so far.    *)
(***************************************************************************)
OfProtocol(results, protocol) ==
  LET of[n \in 0 .. Len(results)] ==
        IF n = 0 THEN << >>
        ELSE IF results[n].protocol = protocol THEN Append(of[n - 1], results[n]) ELSE of[n - 1]
  IN  of[Len(results)]

\* The latencies of all segments of the sessions.
AllLatencies(sessions) == FlattenSeq([i \in DOMAIN sessions |-> sessions[i].played.latencies])

\* Aggregate: the number of sessions, percentiles over all their segments and of
\* their startup, and a description of what else there is of each.
Aggregate(results, protocol) ==
  LET mine == OfProtocol(results, protocol)
  IN  [sessions |-> Len(mine),
       latency |-> BuildPercentileSet(AllLatencies(mine)),
       startup |-> BuildPercentileSet(Project("startup_latency", mine)),
       described |-> [key \in DescribedKeys |-> BuildStatSet(Project(key, mine))]]

\* sort.SliceStable by content, one session after another into its place.
Inserted(sessions, s) ==
  LET n == Cardinality({ k \in DOMAIN sessions : sessions[k].content <= s.content })
  IN  SubSeq(sessions, 1, n) \o <<s>> \o SubSeq(sessions, n + 1, Len(sessions))

ByContent(sessions) ==
  LET by[n \in 0 .. Len(sessions)] ==
        IF n = 0 THEN << >> ELSE Inserted(by[n - 1], sessions[n])
  IN  by[Len(sessions)]

\* sessionsFor: ordered by content, and in the order of Add within a content.
SessionsFor(results, protocol) == ByContent(OfProtocol(results, protocol))

\* Compare.
Compare(results) ==
  [key \in LegacyKeys |->
     Improvement(Project(key, SessionsFor(results, "tcp-h2")),
                 Project(key, SessionsFor(results, "quic-h3")), HigherIsGood(key))]

\* CompareEnhanced: the improvements, and the verdict drawn from them.
CompareEnhanced(results) ==
  LET imps == [key \in EnhancedKeys |->
                 ComputeImprovement(Project(key, SessionsFor(results, "tcp-h2")),
                                    Project(key, SessionsFor(results, "quic-h3")),
                                    HigherIsGood(key))]
  IN  [imps |-> imps, verdict |-> DeriveVerdict(imps)]
=============================================================================
