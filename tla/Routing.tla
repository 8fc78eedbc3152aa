------------------------------ MODULE Routing -------------------------------
(***************************************************************************)
(* The anycast policies of internal/routing: which edge serves a client.   *)
(*                                                                         *)
(* edges is the runner's slice, a sequence of records [id, geo, capacity,  *)
(* load]; a client is a record [geo, rtt], where rtt gives its round-trip  *)
(* time to each position of the slice (HaversineKm and EstimateRTTMs).  A  *)
(* policy answers with a position, or NoEdge.  What the client's random    *)
(* source will say is a record [draw, pick]: Float64() is draw/DrawSteps,  *)
(* and Intn(n) is pick modulo n.                                           *)
(***************************************************************************)
EXTENDS Integers, Sequences, FiniteSets, FiniteSetsExt, Numbers

CONSTANTS
  DrawSteps,      \* the resolution of Float64()
  MisrouteDraws,  \* MisrouteProb, in those steps
  WeightUnit      \* a common multiple of the capacities

ASSUME DrawAssumption == DrawSteps \in Nat \ {0} /\ MisrouteDraws \in 1 .. DrawSteps
ASSUME UnitAssumption == WeightUnit \in Nat \ {0}

\* ErrNoEdgeAvailable.
NoEdge == 0

\* Mutant: a full edge is skipped only once it is over its capacity.
HasRoomOffByOne(e) == e.capacity <= 0 \/ e.load <= e.capacity

HasRoom(e) == e.capacity <= 0 \/ e.load < e.capacity

Open(edges) == { i \in DOMAIN edges : HasRoom(edges[i]) }

\* The least round-trip time, the first of several.
LatencyBased(client, edges) ==
  IF Open(edges) = {}
  THEN NoEdge
  ELSE CHOOSE i \in Open(edges) : \A j \in Open(edges) :
         client.rtt[i] < client.rtt[j] \/ (client.rtt[i] = client.rtt[j] /\ i <= j)

\* The first edge of the client's region with room, else the nearest.
GeoAffinity(client, edges) ==
  LET local == { i \in Open(edges) : edges[i].geo = client.geo }
  IN  IF local = {} THEN LatencyBased(client, edges) ELSE Min(local)

\* The share of its capacity an edge has left, in WeightUnits; an edge without
\* a capacity has none.
Weight(e) ==
  IF e.capacity > 0 /\ e.load < e.capacity
  THEN ((e.capacity - e.load) * WeightUnit) \div e.capacity
  ELSE 0

\* The first edge at which the cumulative weight reaches the draw.  The latency
\* fallback behind it is dead: the draw is below the sum of the weights.
WeightedCapacity(edges, draw) ==
  LET weights == [i \in DOMAIN edges |-> Weight(edges[i])]
      total == SumOf(weights)
  IN  IF total = 0
      THEN NoEdge
      ELSE Min({ i \in DOMAIN edges : draw * total <= SumTo(weights, i) * DrawSteps })

\* The nearest edge or, on an unlucky draw, any other that has room.
RealisticBGP(client, edges, source) ==
  LET optimal == LatencyBased(client, edges)
      alts == Sorted({ i \in Open(edges) : edges[i].id # edges[optimal].id })
  IN  IF optimal = NoEdge \/ source.draw >= MisrouteDraws \/ alts = << >>
      THEN optimal
      ELSE alts[(source.pick % Len(alts)) + 1]

\* buildPolicy: an unknown name means LatencyBased.
Route(policy, client, edges, source) ==
  CASE policy = "weighted_capacity" -> WeightedCapacity(edges, source.draw)
    [] policy = "geo_affinity" -> GeoAffinity(client, edges)
    [] policy = "realistic_bgp" -> RealisticBGP(client, edges, source)
    [] OTHER -> LatencyBased(client, edges)

\* CurrentLoad++ on the first edge of the slice with the routed edge's ID.
Bump(edges, routed) ==
  LET i == Min({ j \in DOMAIN edges : edges[j].id = edges[routed].id })
  IN  [edges EXCEPT ![i].load = @ + 1]
=============================================================================
