----------------------------- MODULE EdgeServer -----------------------------
(***************************************************************************)
(* The edge server of cmd/edge-server/main.go: segmentHandler runs once    *)
(* per request, in a goroutine of its own, over shared state that no       *)
(* common lock protects:                                                   *)
(*                                                                         *)
(*   lru        the LRU index, one mutex-protected call at a time          *)
(*   payloads   the sync.Map beside it that holds the bytes                *)
(*   hits, misses   the atomic counters of edgeStats                       *)
(*                                                                         *)
(* Every atomic operation on one of them is a step of its own, so that     *)
(* requests interleave between any two.  The upstream (origin, or a shield *)
(* that runs this same program) answers with the segment, answers with an  *)
(* error page, or does not answer before the 30 s of the client's timeout. *)
(***************************************************************************)
EXTENDS Integers, Sequences, FiniteSets, FiniteSetsExt, LRU

CONSTANTS
  Requests,      \* the requests that may arrive, one handler each
  Paths,         \* the URL paths they ask for
  SegmentSize,   \* the size of the segment at each path
  ErrorSize,     \* the size of an upstream error page
  MaxBodyBytes,  \* the cap on an upstream body
  MaxSizeBytes,  \* the budget of the LRU index
  TTL,           \* the lifetime of an index entry
  MaxTime,       \* bound on the clock
  None

ASSUME SizesAssumption ==
  /\ SegmentSize \in [Paths -> Nat \ {0}]
  /\ ErrorSize \in Nat \ {0} /\ MaxBodyBytes \in Nat \ {0} /\ MaxSizeBytes \in Nat
ASSUME TimeAssumption == TTL \in Nat \ {0} /\ MaxTime \in Nat \ {0}
\* The bytes of a path: its segment, or an error page of the upstream.
Payloads == [path : Paths, size : Nat, error : BOOLEAN]

ASSUME NoneAssumption == None \notin Payloads

VARIABLES
  lru, payloads, hits, misses,
  clock,    \* time.Now()
  pc,       \* where each handler is
  path,     \* key, the path of the request
  now,      \* the instant taken when the handler starts
  body,     \* the payload the handler has in hand
  answer    \* the response of each request, None before

shared == <<lru, payloads, hits, misses>>
vars == <<lru, payloads, hits, misses, clock, pc, path, now, body, answer>>

Labels == {"idle", "lookup", "load", "write_hit", "count_hit", "count_miss",
           "fetch", "put", "store", "write_miss", "done"}
Answers == [status : {200}, cache : {"HIT", "MISS"}, body : Payloads]
BadGateway == [status |-> 502]

Init ==
  /\ lru = NewLRUCache(MaxSizeBytes)
  /\ payloads = [p \in Paths |-> None]
  /\ hits = 0
  /\ misses = 0
  /\ clock = 1
  /\ pc = [r \in Requests |-> "idle"]
  /\ path = [r \in Requests |-> None]
  /\ now = [r \in Requests |-> 0]
  /\ body = [r \in Requests |-> None]
  /\ answer = [r \in Requests |-> None]

Goto(r, from, to) == pc[r] = from /\ pc' = [pc EXCEPT ![r] = to]

\* A request arrives: the handler takes its path and the time.
Arrive(r, p) ==
  /\ Goto(r, "idle", "lookup")
  /\ path' = [path EXCEPT ![r] = p]
  /\ now' = [now EXCEPT ![r] = clock]
  /\ UNCHANGED <<shared, clock, body, answer>>

\* Mutant: the hit is counted when the index knows the path.
LruGetCountsHit(r) ==
  /\ Goto(r, "lookup", IF IsHit(lru, path[r], now[r]) THEN "load" ELSE "count_miss")
  /\ lru' = Get(lru, path[r], now[r])
  /\ hits' = IF IsHit(lru, path[r], now[r]) THEN hits + 1 ELSE hits
  /\ UNCHANGED <<payloads, misses, clock, path, now, body, answer>>

LruGet(r) ==
  /\ Goto(r, "lookup", IF IsHit(lru, path[r], now[r]) THEN "load" ELSE "count_miss")
  /\ lru' = Get(lru, path[r], now[r])
  /\ UNCHANGED <<payloads, hits, misses, clock, path, now, body, answer>>

\* An index hit whose bytes are not in the map is treated as a miss.
LoadPayload(r) ==
  /\ Goto(r, "load", IF payloads[path[r]] # None THEN "write_hit" ELSE "count_miss")
  /\ body' = [body EXCEPT ![r] = payloads[path[r]]]
  /\ UNCHANGED <<shared, clock, path, now, answer>>

\* Mutant: the handlers share one buffer for the bytes they write.
WriteHitSharedBuffer(r) ==
  /\ Goto(r, "write_hit", "count_hit")
  /\ \E s \in { s \in Requests : body[s] # None } :
       answer' = [answer EXCEPT ![r] = [status |-> 200, cache |-> "HIT", body |-> body[s]]]
  /\ UNCHANGED <<shared, clock, path, now, body>>

WriteHit(r) ==
  /\ Goto(r, "write_hit", "count_hit")
  /\ answer' = [answer EXCEPT ![r] = [status |-> 200, cache |-> "HIT", body |-> body[r]]]
  /\ UNCHANGED <<shared, clock, path, now, body>>

\* The hit is counted after the response has been written.
CountHit(r) ==
  /\ Goto(r, "count_hit", "done")
  /\ hits' = hits + 1
  /\ UNCHANGED <<lru, payloads, misses, clock, path, now, body, answer>>

CountMiss(r) ==
  /\ Goto(r, "count_miss", "fetch")
  /\ misses' = misses + 1
  /\ UNCHANGED <<lru, payloads, hits, clock, path, now, body, answer>>

\* Mutant: the error path returns without a response.
FetchFailsSilently(r) ==
  /\ Goto(r, "fetch", "done")
  /\ UNCHANGED <<shared, clock, path, now, body, answer>>

\* client.Do or the read of the body fails: 502, and nothing is cached.
FetchFails(r) ==
  /\ Goto(r, "fetch", "done")
  /\ answer' = [answer EXCEPT ![r] = BadGateway]
  /\ UNCHANGED <<shared, clock, path, now, body>>

\* What io.LimitReader lets through of a body.
Limited(size) == IF size > MaxBodyBytes THEN MaxBodyBytes ELSE size

UpstreamBody(p, error) ==
  [path |-> p, error |-> error,
   size |-> Limited(IF error THEN ErrorSize ELSE SegmentSize[p])]

\* Any HTTP response counts as success: the status is not looked at.
FetchOK(r) == \E error \in BOOLEAN :
  /\ Goto(r, "fetch", "put")
  /\ body' = [body EXCEPT ![r] = UpstreamBody(path[r], error)]
  /\ UNCHANGED <<shared, clock, path, now, answer>>

\* Insert into the index, with the expiry counted from the arrival.
LruPut(r) ==
  /\ Goto(r, "put", "store")
  /\ lru' = Put(lru, [key |-> path[r], size |-> body[r].size, expiry |-> now[r] + TTL])
  /\ UNCHANGED <<payloads, hits, misses, clock, path, now, body, answer>>

\* Mutant: error pages are kept out of the map, and not out of the index.
StoreSegmentsOnly(r) ==
  /\ Goto(r, "store", "write_miss")
  /\ payloads' = IF body[r].error THEN payloads ELSE [payloads EXCEPT ![path[r]] = body[r]]
  /\ UNCHANGED <<lru, hits, misses, clock, path, now, body, answer>>

\* Mutant: the step also drops the bytes of every path the index evicted.
StoreDropsEvicted(r) ==
  /\ Goto(r, "store", "write_miss")
  /\ payloads' = [p \in Paths |-> IF p = path[r] THEN body[r]
                                 ELSE IF p \in KeysOf(lru.list) THEN payloads[p] ELSE None]
  /\ UNCHANGED <<lru, hits, misses, clock, path, now, body, answer>>

\* ... and, as a second step, into the map, whatever the index decided.
StorePayload(r) ==
  /\ Goto(r, "store", "write_miss")
  /\ payloads' = [payloads EXCEPT ![path[r]] = body[r]]
  /\ UNCHANGED <<lru, hits, misses, clock, path, now, body, answer>>

WriteMiss(r) ==
  /\ Goto(r, "write_miss", "done")
  /\ answer' = [answer EXCEPT ![r] = [status |-> 200, cache |-> "MISS", body |-> body[r]]]
  /\ UNCHANGED <<shared, clock, path, now, body>>

Tick ==
  /\ clock < MaxTime
  /\ clock' = clock + 1
  /\ UNCHANGED <<shared, pc, path, now, body, answer>>

\* The steps of a handler once its request has arrived.
Handle(r) ==
  \/ LruGet(r) \/ LoadPayload(r) \/ WriteHit(r) \/ CountHit(r)
  \/ CountMiss(r) \/ FetchFails(r) \/ FetchOK(r)
  \/ LruPut(r) \/ StorePayload(r) \/ WriteMiss(r)

Next ==
  \/ \E r \in Requests, p \in Paths : Arrive(r, p)
  \/ \E r \in Requests : Handle(r)
  \/ Tick

Spec == Init /\ [][Next]_vars

-----------------------------------------------------------------------------
\* The records of the index, and the shape of the cache record.
IndexItems == [key : Paths, size : Nat, expiry : Nat]

\* A handler answers 502, or 200 with bytes and an X-Cache header (main.go:186-240);
\* index, map and counters keep their types.
TypeOK ==
  /\ HasShape(lru) /\ lru.list \in Seq(IndexItems)
  /\ payloads \in [Paths -> Payloads \cup {None}]
  /\ hits \in Nat /\ misses \in Nat /\ clock \in Nat
  /\ pc \in [Requests -> Labels]
  /\ path \in [Requests -> Paths \cup {None}]
  /\ now \in [Requests -> Nat]
  /\ body \in [Requests -> Payloads \cup {None}]
  /\ answer \in [Requests -> Answers \cup {BadGateway, None}]

\* Some handler has put path p in the index and not yet its bytes in the map.
Storing(p) == \E r \in Requests : pc[r] = "store" /\ path[r] = p

\* Whatever evictions and expiries do, an index entry without bytes exists only
\* while a handler is between lru.Put and payloads.Store (main.go:231-232).
IndexBacked == \A p \in KeysOf(lru.list) : payloads[p] # None \/ Storing(p)

\* An index hit degrades to a miss for lack of bytes only while another handler
\* is about to store that very path (main.go:184-196).
DegradedOnlyWhileStoring ==
  [][ \A r \in Requests : pc[r] = "load" /\ pc'[r] = "count_miss" =>
        \E s \in Requests \ {r} : pc[s] = "store" /\ path[s] = path[r] ]_vars

\* No interleaving of handlers answers a request with the body of another path.
AnswersMatchRequest ==
  \A r \in Requests :
     answer[r] # None /\ answer[r].status = 200 => answer[r].body.path = path[r]

\* The counters account for every request: a hit is a served HIT whose counter
\* step is done, a miss every handler that went upstream (main.go:193, 198).
StatsAddUp ==
  /\ hits = Cardinality({ r \in Requests :
                pc[r] = "done" /\ answer[r].status = 200 /\ answer[r].cache = "HIT" })
  /\ misses = Cardinality({ r \in Requests :
                \/ pc[r] \in {"fetch", "put", "store", "write_miss"}
                \/ pc[r] = "done" /\ answer[r].status = 502
                \/ pc[r] = "done" /\ answer[r].status = 200 /\ answer[r].cache = "MISS" })
=============================================================================
