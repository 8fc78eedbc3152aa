----------------------------- MODULE Experiment -----------------------------
(***************************************************************************)
(* One experiment: the Runner of internal/experiment (runner.go for the    *)
(* modelled mode, emulated.go for the emulated one), with the routing      *)
(* policies and the metrics it uses.  For every protocol and run it routes *)
(* the clients one after another to edges whose load it keeps, plays their *)
(* sessions (PlaybackSession: here an outcome or an error), collects the   *)
(* results, and in the end aggregates and compares them.                   *)
(*                                                                         *)
(* cfg is the ExperimentConfig; beside the code's fields it says what the  *)
(* random sources and the sessions may produce: rtts, draws, picks,        *)
(* contents and outcomes.                                                  *)
(* tape remembers what a seed has produced, so that a seed used again      *)
(* produces the same.                                                      *)
(***************************************************************************)
EXTENDS Routing, Metrics

CONSTANTS
  Configs,  \* the configurations an experiment may be started with
  None

\* What a session that was played may report (video.PlaybackResult).
Outcomes ==
  [latencies : Seq(Nat) \ {<< >>}, startup : Nat, rebuffers : Nat, stalled : Nat,
   bitrate : Nat, hits : Nat, hol : Nat]

\* The load of an edge is no part of a configuration file (router.go:31).
Edges == [id : STRING, geo : STRING, capacity : Int, load : {0}]

IsConfig(c) ==
  /\ {"name", "mode", "protocols", "runs", "clients", "policy", "edges", "emulatedEdges", "caCert",
      "insecure", "geos", "rtts", "draws", "picks", "contents", "outcomes"} = DOMAIN c
  /\ c.runs \in Int /\ c.clients \in Int
  /\ c.protocols \in Seq(STRING) /\ c.edges \in Seq(Edges)
  /\ c.geos \in Seq(DOMAIN c.rtts) /\ c.geos # << >>
  /\ \A g \in DOMAIN c.rtts : \A rtt \in c.rtts[g] : \A i \in DOMAIN c.edges : rtt[i] \in Nat
  /\ c.draws \subseteq 0 .. DrawSteps - 1
  /\ c.picks \subseteq Nat /\ c.contents \subseteq Nat /\ c.outcomes \subseteq Outcomes

ASSUME ConfigsAssumption == \A c \in Configs : IsConfig(c)

VARIABLES
  cfg, pc,
  proto, run, client,  \* the loop counters, protocols from 1, runs and clients from 0
  edges,               \* the run's copy of the edges
  open,                \* the clients whose QUIC transport is not closed yet
  results,             \* the collector
  tape, report

vars == <<cfg, pc, proto, run, client, edges, open, results, tape, report>>

Init ==
  /\ cfg \in Configs
  /\ pc = "load"
  /\ proto = 1 /\ run = 0 /\ client = 0
  /\ edges = << >> /\ open = {} /\ results = << >>
  /\ tape = << >> /\ report = << >>

\* Validate: what is filled in, and what is refused.
WithDefaults(c) ==
  [c EXCEPT !.runs = IF @ <= 0 THEN 1 ELSE @,
            !.policy = IF @ = "" THEN "latency_based" ELSE @,
            !.mode = IF @ = "" THEN "modeled" ELSE @]

Valid(c) ==
  /\ c.name # "" /\ c.protocols # << >> /\ c.clients > 0 /\ c.edges # << >>
  /\ c.mode \in {"modeled", "emulated"}
  /\ c.mode = "emulated" => c.emulatedEdges > 0

LoadConfig ==
  /\ pc = "load"
  /\ cfg' = WithDefaults(cfg)
  /\ pc' = IF Valid(cfg') THEN "begin" ELSE "rejected"
  /\ UNCHANGED <<proto, run, client, edges, open, results, tape, report>>

Emulated == cfg.mode = "emulated"

\* buildEmulatedTLSConfig: a readable CA, or an explicit waiver, and not both.
TLSConfigured ==
  \/ cfg.caCert = "readable" /\ ~cfg.insecure
  \/ cfg.caCert = "" /\ cfg.insecure

Begin ==
  /\ pc = "begin"
  /\ pc' = IF Emulated /\ ~TLSConfigured THEN "failed" ELSE "loop"
  /\ UNCHANGED <<cfg, proto, run, client, edges, open, results, tape, report>>

Finished == proto > Len(cfg.protocols)

\* The context is done when the loop looks at it.
Cancelled ==
  /\ pc = "loop" /\ ~Finished
  /\ pc' = "failed"
  /\ UNCHANGED <<cfg, proto, run, client, edges, open, results, tape, report>>

\* Mutant: the run works on the configuration's own slice, loads and all.
StartRunShared ==
  /\ pc = "loop" /\ ~Finished
  /\ pc' = "clients"
  /\ client' = 0
  /\ edges' = IF edges = << >> THEN cfg.edges ELSE edges
  /\ UNCHANGED <<cfg, proto, run, open, results, tape, report>>

\* runOne begins: a fresh copy of the edges.
StartRun ==
  /\ pc = "loop" /\ ~Finished
  /\ pc' = "clients"
  /\ client' = 0
  /\ edges' = cfg.edges
  /\ UNCHANGED <<cfg, proto, run, open, results, tape, report>>

-----------------------------------------------------------------------------
Protocol == cfg.protocols[proto]

\* baseSeed: the run, and in emulated mode the salt of QUIC.
Seed == <<run, IF Emulated /\ Protocol = "quic-h3" THEN "salt" ELSE "">>

\* buildClients hands the regions out in turn.
Geo == cfg.geos[(client % Len(cfg.geos)) + 1]

\* What the seed gives the client: position, random source, content.
Chances ==
  IF <<Seed, client>> \in DOMAIN tape
  THEN {tape[<<Seed, client>>]}
  ELSE [rtt : cfg.rtts[Geo], draw : cfg.draws, pick : cfg.picks, content : cfg.contents]

\* The tape with what the seed has given the client.
Recorded(t) ==
  [k \in DOMAIN tape \cup {<<Seed, client>>} |-> IF k = <<Seed, client>> THEN t ELSE tape[k]]

Routed(t) == Route(cfg.policy, [geo |-> Geo, rtt |-> t.rtt], edges, t)

\* buildTransport takes any other name for TCP, buildEmulatedTransport refuses it.
Supported == Emulated => Protocol \in {"tcp-h2", "quic-h3"}
LabelOf(protocol) == IF protocol = "quic-h3" THEN "quic-h3" ELSE "tcp-h2"

Serving == pc = "clients" /\ client < cfg.clients

\* A client is routed, and its session plays to its end and is collected.
ServeClient == Serving /\ Supported /\ \E t \in Chances :
  /\ Routed(t) # NoEdge
  /\ edges' = Bump(edges, Routed(t))
  /\ open' = IF Emulated /\ Protocol = "quic-h3" THEN open \cup {client} ELSE open
  /\ \E outcome \in cfg.outcomes :
       results' = Append(results, [protocol |-> LabelOf(Protocol), run |-> run, client |-> client,
                                   edge |-> Routed(t), content |-> t.content,
                                   played |-> outcome])
  /\ tape' = Recorded(t)
  /\ client' = client + 1
  /\ UNCHANGED <<cfg, pc, proto, run, report>>

\* Mutant: the closers run only where the clients' loop ends.
FailOpen == pc' = "failed" /\ UNCHANGED open

\* An error return of runOne, and of Run with it: the deferred closers run.
Fail == pc' = "failed" /\ open' = {}

NoEdgeAvailable == Serving /\ \E t \in Chances :
  /\ Routed(t) = NoEdge
  /\ Fail
  /\ UNCHANGED <<cfg, proto, run, client, edges, results, tape, report>>

\* An unsupported protocol, or a session whose transport fails.
SessionFails == Serving /\ \E t \in Chances :
  /\ Routed(t) # NoEdge
  /\ edges' = Bump(edges, Routed(t))
  /\ Fail
  /\ UNCHANGED <<cfg, proto, run, client, results, tape, report>>

EndRun ==
  /\ pc = "clients" /\ client = cfg.clients
  /\ pc' = "loop"
  /\ open' = {}
  /\ run' = IF run + 1 < cfg.runs THEN run + 1 ELSE 0
  /\ proto' = IF run + 1 < cfg.runs THEN proto ELSE proto + 1
  /\ UNCHANGED <<cfg, client, edges, results, tape, report>>

HasBoth == {"tcp-h2", "quic-h3"} \subseteq ToSet(cfg.protocols)

\* ByProtocol, and the comparisons; the emulated mode has only the first of them.
Report ==
  /\ pc = "loop" /\ Finished
  /\ pc' = "done"
  /\ report' = [by |-> [p \in ToSet(cfg.protocols) |-> Aggregate(results, p)],
                comparison |-> IF HasBoth THEN Compare(results) ELSE None,
                enhanced |-> IF HasBoth /\ ~Emulated THEN CompareEnhanced(results) ELSE None]
  /\ UNCHANGED <<cfg, proto, run, client, edges, open, results, tape>>

Next ==
  \/ LoadConfig \/ Begin \/ Cancelled \/ StartRun \/ ServeClient
  \/ NoEdgeAvailable \/ SessionFails \/ EndRun \/ Report

Spec == Init /\ [][Next]_vars

-----------------------------------------------------------------------------
\* The pair of run and client a session is of.
Of(s) == <<s.run, s.client>>

\* "Both TCP and QUIC runs for the same (run, client) pair must see the same client
\* population, same content assignments" (runner.go:101): in modelled mode two
\* sessions of a run and client are at the same edge with the same content, and the
\* comparison lines them up pair by pair.
PairedSessions ==
  ~Emulated =>
    /\ \A s, t \in ToSet(results) : Of(s) = Of(t) => s.edge = t.edge /\ s.content = t.content
    /\ pc = "done" /\ ToSet(cfg.protocols) = {"tcp-h2", "quic-h3"} /\ Len(cfg.protocols) = 2
       => LET tcp == SessionsFor(results, "tcp-h2")  quic == SessionsFor(results, "quic-h3")
          IN  [k \in DOMAIN tcp |-> Of(tcp[k])] = [k \in DOMAIN quic |-> Of(quic[k])]

UniqueIDs == \A i, j \in DOMAIN edges : edges[i].id = edges[j].id => i = j

\* The clients of this run whose draw was exactly zero.
ZeroDraws == { k \in DOMAIN tape : k[1] = Seed /\ k[2] < client /\ tape[k].draw = 0 }

\* The load the runner keeps exceeds no capacity, whatever the policy and the order
\* of clients, but for one numeric edge: WeightedCapacity sends a draw of exactly
\* zero to the first edge even when it is full (weighted.go:35).
CapacityHonoured ==
  pc = "clients" /\ UniqueIDs => \A i \in DOMAIN edges :
    edges[i].capacity > 0 =>
      edges[i].load - edges[i].capacity
        <= IF cfg.policy = "weighted_capacity" /\ i = 1 THEN Cardinality(ZeroDraws) ELSE 0

\* However a run ends, in order, by an error or by cancellation, the QUIC
\* transports it opened are closed (emulated.go:92).
NothingLeftOpen == pc # "clients" => open = {}

\* Results are all or nothing, and every session is filed under one protocol; a
\* protocol the modelled mode does not know is filed under TCP (runner.go:219).
SessionsFiled ==
  /\ report # << >> <=> pc = "done"
  /\ pc = "done" => \A p \in ToSet(cfg.protocols) :
       report.by[p].sessions = cfg.runs * cfg.clients
         * Cardinality({ k \in DOMAIN cfg.protocols : LabelOf(cfg.protocols[k]) = p })

\* A run ends in one of two ways: everything filed and reported, or nothing
\* reported; either way everything closed.
RunsEndWhole == NothingLeftOpen /\ SessionsFiled

\* v is the p-th percentile: at least p percent are up to v, fewer are below it.
IsPercentile(v, values, p) ==
  100 * UpTo(values, v) >= p * Len(values) /\ 100 * Below(values, v) < p * Len(values)

\* Twice the Mann-Whitney count: pairs won by g, ties for half.
TwicePairsWon(g, h) ==
  Cardinality({ q \in (DOMAIN g) \X (DOMAIN h) : g[q[1]] > h[q[2]] })
    + Cardinality({ q \in (DOMAIN g) \X (DOMAIN h) : g[q[1]] >= h[q[2]] })

\* The numbers of a report are what their names say: percentiles by their definition,
\* and U the pairs one protocol won of the other, ties for half (statistics.go:113).
StatisticsByDefinition ==
  pc = "done" /\ report.enhanced # None =>
    LET tcp == SessionsFor(results, "tcp-h2")  quic == SessionsFor(results, "quic-h3")
        Won(key) == TwicePairsWon(Project(key, tcp), Project(key, quic))
        Lost(key) == TwicePairsWon(Project(key, quic), Project(key, tcp))
    IN  /\ \A p \in {"tcp-h2", "quic-h3"} :
             LET all == AllLatencies(OfProtocol(results, p))
             IN  /\ IsPercentile(report.by[p].latency.p50, all, 50)
                 /\ IsPercentile(report.by[p].latency.p95, all, 95)
                 /\ IsPercentile(report.by[p].latency.p99, all, 99)
        /\ \A key \in EnhancedKeys :
             report.enhanced.imps[key].test.twiceU = Min({Won(key), Lost(key)})

\* "the enhanced comparison and the legacy comparison therefore reported different
\* effect sizes for the same data ... this shim eliminates it" (collector.go:210): the
\* two agree in the size of an effect and its label, but where higher is better they
\* still differ in sign, and on a TCP mean of zero in the percentage.
LegacyAgreesUpToSign ==
  pc = "done" /\ report.enhanced # None => \A key \in LegacyKeys :
    LET old == report.comparison[key]  new == report.enhanced.imps[key]
    IN  /\ old.effect.num * new.effect.den = new.effect.num * old.effect.den
        /\ old.effect.label = new.effect.label
        /\ old.effect.sign = IF HigherIsGood(key) THEN -new.effect.sign ELSE new.effect.sign
        /\ IF SumOf(Project(key, SessionsFor(results, "tcp-h2"))) = 0
           THEN old.pct = NoChange
           ELSE old.pct = new.pct
=============================================================================
