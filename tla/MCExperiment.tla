---------------------------- MODULE MCExperiment ----------------------------
(***************************************************************************)
(* Small experiments: some with a rich choice of routes, some with a rich  *)
(* choice of outcomes, some that are refused.                              *)
(***************************************************************************)
EXTENDS Experiment

Edge(id, geo, capacity) == [id |-> id, geo |-> geo, capacity |-> capacity, load |-> 0]

Outcome(latencies, stalled, bitrate, hits) ==
  [latencies |-> latencies, startup |-> latencies[1], rebuffers |-> IF stalled > 0 THEN 1 ELSE 0,
   stalled |-> stalled, bitrate |-> bitrate, hits |-> hits, hol |-> stalled]

Smooth == Outcome(<<2, 3, 4>>, 0, 8, 50)
Jerky == Outcome(<<3, 9, 3>>, 4, 4, 50)
Stuck == Outcome(<<9, 9, 9>>, 9, 0, 0)

Base ==
  [name |-> "x", mode |-> "modeled", protocols |-> <<"tcp-h2", "quic-h3">>, runs |-> 1,
   clients |-> 2, policy |-> "", edges |-> <<Edge("a", "asia", 0)>>, emulatedEdges |-> 1,
   caCert |-> "", insecure |-> TRUE, geos |-> <<"asia", "europe">>,
   rtts |-> [g \in {"asia", "europe"} |-> {<<1, 2, 2>>}],
   draws |-> {1}, picks |-> {0}, contents |-> {1}, outcomes |-> {Smooth}]

\* Two places each at two edges and one without limit, in several orders.
Topologies ==
  { <<Edge("a", "asia", 1), Edge("b", "europe", 2), Edge("c", "asia", 0)>>,
    <<Edge("c", "asia", 2), Edge("b", "europe", 1)>>,
    <<Edge("a", "asia", 2), Edge("a", "europe", 1), Edge("b", "europe", 2)>> }

\* Three clients, and what the policy is sensitive to: positions, draws, picks.
Routes ==
  { [Base EXCEPT !.policy = "geo_affinity", !.edges = t, !.clients = 3, !.contents = {1, 2}]
    : t \in Topologies }
  \cup
  { [Base EXCEPT !.policy = "latency_based", !.edges = t, !.clients = 3,
                 !.rtts = [asia |-> {<<1, 3, 2>>, <<2, 3, 2>>}, europe |-> {<<3, 1, 3>>, <<2, 2, 1>>}]]
    : t \in Topologies }
  \cup
  { [Base EXCEPT !.policy = "weighted_capacity", !.edges = t, !.clients = 4, !.draws = 0 .. 3]
    : t \in Topologies }
  \cup
  { [Base EXCEPT !.policy = "realistic_bgp", !.edges = t, !.clients = 3, !.draws = {1, 2},
                 !.picks = {0, 1}]
    : t \in Topologies }

\* Two runs, and a protocol nobody knows or one that comes twice.
Loops ==
  { [Base EXCEPT !.protocols = ps, !.runs = 2, !.contents = {1, 2}, !.policy = p,
                 !.mode = m,
                 !.edges = <<Edge("a", "asia", 1), Edge("b", "europe", 2)>>]
    : ps \in {<<"quic-h3", "tcp-h2">>, <<"tcp-h2", "h1">>, <<"quic-h3", "quic-h3">>},
      p \in {"latency_based", "geo_affinity"}, m \in {"modeled", "emulated"} }

\* Four sessions of each protocol, enough for a significant difference.
Samples == { [Base EXCEPT !.runs = 2, !.outcomes = {Smooth, Jerky, Stuck}] }

\* Fewer sessions, whose order depends on their contents.
Mixtures == { [Base EXCEPT !.outcomes = {Smooth, Stuck}, !.contents = {1, 2, 3}] }

Refusals ==
  { [Base EXCEPT !.mode = "emulated", !.caCert = "unreadable"],
    [Base EXCEPT !.mode = "emulated", !.caCert = "readable"],
    [Base EXCEPT !.mode = "emulated", !.emulatedEdges = 0],
    [Base EXCEPT !.mode = "replayed"], [Base EXCEPT !.clients = 0],
    [Base EXCEPT !.runs = 0, !.policy = "nearest"] }

MCConfigs == Routes \cup Loops \cup Samples \cup Mixtures \cup Refusals
=============================================================================
