-------------------------- MODULE EdgeServerProofs --------------------------
(***************************************************************************)
(* The safety properties of EdgeServer for any number of requests and      *)
(* paths, any segment sizes, cache budget and clock.                       *)
(*                                                                         *)
(* IndexBacked is not inductive by itself: a handler that stores must have *)
(* the bytes in hand, for the path it put in the index, and a handler that *)
(* saw an index hit relies on bytes that are there or still on their way.  *)
(*                                                                         *)
(* The last part is about EdgeProcess: what the life of the process adds   *)
(* to, and leaves of, the handlers' guarantees.                            *)
(***************************************************************************)
EXTENDS EdgeProcess, CacheItemsProofs

-----------------------------------------------------------------------------
\* The path of a request is known once it has arrived.
PathKnown == \A r \in Requests : pc[r] # "idle" => path[r] \in Paths

\* A handler about to cache or write bytes has the bytes of its own path.
BodyInHand ==
  \A r \in Requests : pc[r] \in {"write_hit", "put", "store", "write_miss"} =>
     body[r] \in Payloads /\ body[r].path = path[r]

\* The map holds bytes under their own path.
MapKeyed == \A p \in Paths : payloads[p] # None => payloads[p].path = p

\* The bytes of an index hit are in the map or about to be stored.
HitBacked ==
  \A r \in Requests : pc[r] = "load" => payloads[path[r]] # None \/ Storing(path[r])

\* No request is answered before it arrives.
AnsweredLater == \A r \in Requests : pc[r] = "idle" => answer[r] = None

Inv ==
  /\ TypeOK /\ PathKnown /\ BodyInHand /\ MapKeyed
  /\ IndexBacked /\ HitBacked /\ AnsweredLater /\ AnswersMatchRequest

-----------------------------------------------------------------------------
\* An index entry refers to one of the paths.
LEMMA IndexKeys == ASSUME NEW list \in Seq(IndexItems) PROVE KeysOf(list) \subseteq Paths
<1>1. \A i \in DOMAIN list : list[i] \in IndexItems
  BY LenProperties, ElementOfSeq
<1>2. QED
  BY <1>1 DEF KeysOf, IndexItems

\* The empty server satisfies the invariant.
LEMMA InitInv == Init => Inv
<1> SUFFICES ASSUME Init PROVE Inv
  OBVIOUS
<1>1. HasShape(lru) /\ lru.list = << >>
  BY DEF Init, NewLRUCache, HasShape
<1>2. lru.list \in Seq(IndexItems) /\ KeysOf(lru.list) = {}
  BY <1>1, EmptySeq DEF KeysOf
<1>3. TypeOK
  BY <1>1, <1>2 DEF Init, TypeOK, Labels
<1>4. QED
  BY <1>2, <1>3 DEF Init, Inv, PathKnown, BodyInHand, MapKeyed, IndexBacked, HitBacked,
                    AnsweredLater, AnswersMatchRequest

\* Every step preserves the type invariant.
LEMMA StepTypeOK == Inv /\ [Next]_vars => TypeOK'
<1> SUFFICES ASSUME Inv, [Next]_vars PROVE TypeOK'
  OBVIOUS
<1> USE DEF Inv, TypeOK, PathKnown, BodyInHand, Goto, shared, Labels
<1>1. ASSUME NEW r \in Requests, NEW p \in Paths, Arrive(r, p) PROVE TypeOK'
  BY <1>1 DEF Arrive
<1>2. ASSUME NEW r \in Requests, LruGet(r) PROVE TypeOK'
  <2>1. HasShape(lru') /\ lru'.list \in Seq(IndexItems)
    BY <1>2, GetKeys DEF LruGet
  <2>2. QED
    BY <1>2, <2>1 DEF LruGet
<1>3. ASSUME NEW r \in Requests, LoadPayload(r) PROVE TypeOK'
  BY <1>3 DEF LoadPayload
<1>4. ASSUME NEW r \in Requests, WriteHit(r) PROVE TypeOK'
  BY <1>4 DEF WriteHit, Answers
<1>5. ASSUME NEW r \in Requests, CountHit(r) PROVE TypeOK'
  BY <1>5 DEF CountHit
<1>6. ASSUME NEW r \in Requests, CountMiss(r) PROVE TypeOK'
  BY <1>6 DEF CountMiss
<1>7. ASSUME NEW r \in Requests, FetchFails(r) PROVE TypeOK'
  BY <1>7 DEF FetchFails
<1>8. ASSUME NEW r \in Requests, FetchOK(r) PROVE TypeOK'
  <2>1. PICK error \in BOOLEAN : body' = [body EXCEPT ![r] = UpstreamBody(path[r], error)]
    BY <1>8 DEF FetchOK
  <2>2. UpstreamBody(path[r], error) \in Payloads
    BY <1>8, SizesAssumption DEF FetchOK, UpstreamBody, Limited, Payloads
  <2>3. QED
    BY <1>8, <2>1, <2>2 DEF FetchOK
<1>9. ASSUME NEW r \in Requests, LruPut(r) PROVE TypeOK'
  <2> DEFINE item == [key |-> path[r], size |-> body[r].size, expiry |-> now[r] + TTL]
  <2>1. item \in IndexItems
    BY <1>9, TimeAssumption DEF LruPut, IndexItems, Payloads
  <2>2. lru' = Put(lru, item)
    BY <1>9 DEF LruPut
  <2> HIDE DEF item
  <2>3. HasShape(lru') /\ lru'.list \in Seq(IndexItems)
    BY <2>1, <2>2, PutKeys
  <2>4. QED
    BY <1>9, <2>3 DEF LruPut
<1>10. ASSUME NEW r \in Requests, StorePayload(r) PROVE TypeOK'
  BY <1>10 DEF StorePayload
<1>11. ASSUME NEW r \in Requests, WriteMiss(r) PROVE TypeOK'
  BY <1>11 DEF WriteMiss, Answers
<1>12. CASE Tick
  BY <1>12 DEF Tick
<1>13. CASE UNCHANGED vars
  BY <1>13 DEF vars, HasShape
<1>14. QED
  BY <1>1, <1>2, <1>3, <1>4, <1>5, <1>6, <1>7, <1>8, <1>9, <1>10, <1>11, <1>12, <1>13
     DEF Next, Handle

\* Every step preserves what handlers know of their path, bytes and answer.
LEMMA StepHandlers ==
  Inv /\ [Next]_vars => (PathKnown /\ BodyInHand /\ MapKeyed /\ AnsweredLater /\ AnswersMatchRequest)'
<1> DEFINE Facts == PathKnown /\ BodyInHand /\ MapKeyed /\ AnsweredLater /\ AnswersMatchRequest
<1> SUFFICES ASSUME Inv, [Next]_vars PROVE Facts'
  OBVIOUS
<1> USE NoneAssumption DEF Inv, TypeOK, Goto, shared, Labels, PathKnown, BodyInHand, MapKeyed,
        AnsweredLater, AnswersMatchRequest
<1>1. ASSUME NEW r \in Requests, NEW p \in Paths, Arrive(r, p) PROVE Facts'
  BY <1>1 DEF Arrive
<1>2. ASSUME NEW r \in Requests, LruGet(r) PROVE Facts'
  BY <1>2 DEF LruGet
<1>3. ASSUME NEW r \in Requests, LoadPayload(r) PROVE Facts'
  BY <1>3 DEF LoadPayload
<1>4. ASSUME NEW r \in Requests, WriteHit(r) PROVE Facts'
  BY <1>4 DEF WriteHit
<1>5. ASSUME NEW r \in Requests, CountHit(r) PROVE Facts'
  BY <1>5 DEF CountHit
<1>6. ASSUME NEW r \in Requests, CountMiss(r) PROVE Facts'
  BY <1>6 DEF CountMiss
<1>7. ASSUME NEW r \in Requests, FetchFails(r) PROVE Facts'
  BY <1>7 DEF FetchFails, BadGateway
<1>8. ASSUME NEW r \in Requests, FetchOK(r) PROVE Facts'
  <2>1. PICK error \in BOOLEAN : body' = [body EXCEPT ![r] = UpstreamBody(path[r], error)]
    BY <1>8 DEF FetchOK
  <2>2. UpstreamBody(path[r], error) \in Payloads /\ UpstreamBody(path[r], error).path = path[r]
    BY <1>8, SizesAssumption DEF FetchOK, UpstreamBody, Limited, Payloads
  <2>3. QED
    BY <1>8, <2>1, <2>2 DEF FetchOK
<1>9. ASSUME NEW r \in Requests, LruPut(r) PROVE Facts'
  BY <1>9 DEF LruPut
<1>10. ASSUME NEW r \in Requests, StorePayload(r) PROVE Facts'
  BY <1>10 DEF StorePayload
<1>11. ASSUME NEW r \in Requests, WriteMiss(r) PROVE Facts'
  BY <1>11 DEF WriteMiss
<1>12. CASE Tick
  BY <1>12 DEF Tick
<1>13. CASE UNCHANGED vars
  BY <1>13 DEF vars
<1>14. QED
  BY <1>1, <1>2, <1>3, <1>4, <1>5, <1>6, <1>7, <1>8, <1>9, <1>10, <1>11, <1>12, <1>13
     DEF Next, Handle

\* A step that neither adds to the index, nor drops bytes, nor ends a store,
\* nor brings a handler to "load", keeps IndexBacked and HitBacked.
LEMMA BackedKept ==
  ASSUME TypeOK, PathKnown, IndexBacked, HitBacked, KeysOf(lru'.list) \subseteq KeysOf(lru.list),
         KeysOf(lru.list) \subseteq Paths,
         payloads' = payloads,
         \A s \in Requests : /\ pc[s] = "store" => pc'[s] = "store"
                             /\ pc'[s] = "load" => pc[s] = "load"
                             /\ pc[s] # "idle" => path'[s] = path[s]
  PROVE  (IndexBacked /\ HitBacked)'
<1>1. ASSUME NEW p, Storing(p) PROVE Storing(p)'
  BY <1>1 DEF Storing
<1>2. QED
  BY <1>1 DEF IndexBacked, HitBacked

\* Every step keeps the index, and the hits seen in it, backed by bytes.
LEMMA StepBacked == Inv /\ [Next]_vars => (IndexBacked /\ HitBacked)'
<1> SUFFICES ASSUME Inv, [Next]_vars PROVE (IndexBacked /\ HitBacked)'
  OBVIOUS
<1>0. KeysOf(lru.list) \subseteq Paths
  BY IndexKeys DEF Inv, TypeOK
<1> USE DEF Inv, TypeOK, Goto, shared, Labels
<1>1. ASSUME NEW r \in Requests, NEW p \in Paths, Arrive(r, p) PROVE (IndexBacked /\ HitBacked)'
  BY <1>0, <1>1, BackedKept DEF Arrive
<1>2. ASSUME NEW r \in Requests, LruGet(r) PROVE (IndexBacked /\ HitBacked)'
  <2>1. KeysOf(lru'.list) \subseteq KeysOf(lru.list)
    BY <1>2, GetKeys DEF LruGet
  <2>2. ASSUME NEW p, Storing(p) PROVE Storing(p)'
    BY <1>2, <2>2 DEF LruGet, Storing
  <2>3. IndexBacked'
    BY <1>2, <2>1, <2>2 DEF LruGet, IndexBacked
  <2>4. pc'[r] = "load" => path[r] \in KeysOf(lru.list)
    BY <1>2 DEF LruGet, IsHit
  <2>5. QED
    BY <1>2, <2>2, <2>3, <2>4 DEF LruGet, IndexBacked, HitBacked
<1>3. ASSUME NEW r \in Requests, LoadPayload(r) PROVE (IndexBacked /\ HitBacked)'
  BY <1>0, <1>3, BackedKept DEF LoadPayload
<1>4. ASSUME NEW r \in Requests, WriteHit(r) PROVE (IndexBacked /\ HitBacked)'
  BY <1>0, <1>4, BackedKept DEF WriteHit
<1>5. ASSUME NEW r \in Requests, CountHit(r) PROVE (IndexBacked /\ HitBacked)'
  BY <1>0, <1>5, BackedKept DEF CountHit
<1>6. ASSUME NEW r \in Requests, CountMiss(r) PROVE (IndexBacked /\ HitBacked)'
  BY <1>0, <1>6, BackedKept DEF CountMiss
<1>7. ASSUME NEW r \in Requests, FetchFails(r) PROVE (IndexBacked /\ HitBacked)'
  BY <1>0, <1>7, BackedKept DEF FetchFails
<1>8. ASSUME NEW r \in Requests, FetchOK(r) PROVE (IndexBacked /\ HitBacked)'
  BY <1>0, <1>8, BackedKept DEF FetchOK
<1>9. ASSUME NEW r \in Requests, LruPut(r) PROVE (IndexBacked /\ HitBacked)'
  <2> DEFINE item == [key |-> path[r], size |-> body[r].size, expiry |-> now[r] + TTL]
  <2>1. item \in IndexItems /\ item.key = path[r]
    BY <1>9, TimeAssumption DEF LruPut, IndexItems, Payloads, PathKnown, BodyInHand
  <2>2. lru' = Put(lru, item)
    BY <1>9 DEF LruPut
  <2> HIDE DEF item
  <2>3. KeysOf(lru'.list) \subseteq KeysOf(lru.list) \cup {path[r]}
    <3>1. HasShape(lru) /\ lru.list \in Seq(IndexItems)
      OBVIOUS
    <3>2. KeysOf(Put(lru, item).list) \subseteq KeysOf(lru.list) \cup {item.key}
      BY <2>1, <3>1, PutKeys
    <3>3. QED
      BY <2>1, <2>2, <3>2
  <2>4. Storing(path[r])'
    BY <1>9 DEF LruPut, Storing
  <2>5. ASSUME NEW p, Storing(p) PROVE Storing(p)'
    BY <1>9, <2>5 DEF LruPut, Storing
  <2>6. QED
    BY <1>9, <2>3, <2>4, <2>5 DEF LruPut, IndexBacked, HitBacked
<1>10. ASSUME NEW r \in Requests, StorePayload(r) PROVE (IndexBacked /\ HitBacked)'
  <2>1. payloads'[path[r]] # None
    BY <1>10, NoneAssumption DEF StorePayload, PathKnown, BodyInHand
  <2>2. ASSUME NEW p \in Paths, payloads[p] # None \/ Storing(p)
        PROVE  payloads'[p] # None \/ Storing(p)'
    <3>1. CASE p = path[r]
      BY <2>1, <3>1
    <3>2. CASE p # path[r]
      BY <1>10, <2>2, <3>2 DEF StorePayload, Storing
    <3>3. QED
      BY <3>1, <3>2
  <2>3. QED
    BY <1>0, <1>10, <2>2 DEF StorePayload, IndexBacked, HitBacked, PathKnown
<1>11. ASSUME NEW r \in Requests, WriteMiss(r) PROVE (IndexBacked /\ HitBacked)'
  BY <1>0, <1>11, BackedKept DEF WriteMiss
<1>12. CASE Tick
  BY <1>0, <1>12, BackedKept DEF Tick
<1>13. CASE UNCHANGED vars
  BY <1>0, <1>13, BackedKept DEF vars
<1>14. QED
  BY <1>1, <1>2, <1>3, <1>4, <1>5, <1>6, <1>7, <1>8, <1>9, <1>10, <1>11, <1>12, <1>13
     DEF Next, Handle

\* The inductive invariant holds throughout.
LEMMA Invariance == Spec => []Inv
<1>1. Inv /\ [Next]_vars => Inv'
  BY StepTypeOK, StepHandlers, StepBacked DEF Inv
<1>2. QED
  BY InitInv, <1>1, PTL DEF Spec

-----------------------------------------------------------------------------
\* The index, the map, the counters and every handler keep their types, whatever
\* the interleaving of segmentHandler's steps.
THEOREM TypeCorrect == Spec => []TypeOK
<1>1. Inv => TypeOK
  BY DEF Inv
<1>2. QED
  BY Invariance, <1>1, PTL

\* For any number of concurrent requests and any cache budget, an index entry
\* without bytes exists only while a handler is between Put and Store.
THEOREM IndexAlwaysBacked == Spec => []IndexBacked
<1>1. Inv => IndexBacked
  BY DEF Inv
<1>2. QED
  BY Invariance, <1>1, PTL

\* No request is ever answered with the bytes of another path.
THEOREM AnswersAlwaysMatch == Spec => []AnswersMatchRequest
<1>1. Inv => AnswersMatchRequest
  BY DEF Inv
<1>2. QED
  BY Invariance, <1>1, PTL

\* An index hit falls back to the upstream for want of bytes only while some
\* other handler is about to store that path.
THEOREM DegradationJustified == Spec => DegradedOnlyWhileStoring
<1> DEFINE Justified ==
      \A r \in Requests : pc[r] = "load" /\ pc'[r] = "count_miss" =>
        \E s \in Requests \ {r} : pc[s] = "store" /\ path[s] = path[r]
<1>1. Inv /\ [Next]_vars => [Justified]_vars
  <2> SUFFICES ASSUME Inv, Next, NEW r \in Requests, pc[r] = "load", pc'[r] = "count_miss"
               PROVE  \E s \in Requests \ {r} : pc[s] = "store" /\ path[s] = path[r]
    OBVIOUS
  <2>1. payloads[path[r]] # None \/ Storing(path[r])
    BY DEF Inv, HitBacked
  <2>2. payloads[path[r]] = None
    <3>1. PICK q \in Requests : Handle(q) \/ \E p \in Paths : Arrive(q, p)
      BY DEF Next, Tick, Inv, TypeOK
    <3>2. q = r
      BY <3>1 DEF Handle, Arrive, LruGet, LoadPayload, WriteHit, CountHit, CountMiss, FetchFails,
                  FetchOK, LruPut, StorePayload, WriteMiss, Goto, Inv, TypeOK
    <3>3. LoadPayload(r)
      BY <3>1, <3>2 DEF Handle, Arrive, LruGet, LoadPayload, WriteHit, CountHit, CountMiss,
                  FetchFails, FetchOK, LruPut, StorePayload, WriteMiss, Goto, Inv, TypeOK
    <3>4. QED
      BY <3>3 DEF LoadPayload, Goto, Inv, TypeOK
  <2>3. QED
    BY <2>1, <2>2 DEF Storing
<1>2. QED
  BY Invariance, <1>1, PTL DEF Spec, DegradedOnlyWhileStoring

-----------------------------------------------------------------------------
\* The two sets StatsAddUp counts: hits that are done, and handlers past count_miss.
ServedHits ==
  { r \in Requests : pc[r] = "done" /\ answer[r].status = 200 /\ answer[r].cache = "HIT" }
WentUpstream ==
  { r \in Requests : \/ pc[r] \in {"fetch", "put", "store", "write_miss"}
                     \/ pc[r] = "done" /\ answer[r].status = 502
                     \/ pc[r] = "done" /\ answer[r].status = 200 /\ answer[r].cache = "MISS" }

\* A hit that is about to be counted has been served; only finitely many requests
\* have been counted at any time, however many may come.
HitServed ==
  \A r \in Requests : pc[r] = "count_hit" => answer[r].status = 200 /\ answer[r].cache = "HIT"
StatsInv == HitServed /\ IsFiniteSet(ServedHits) /\ IsFiniteSet(WentUpstream) /\ StatsAddUp

\* A step other than the two that count leaves both sets as they are.
LEMMA OthersCountNothing ==
  ASSUME TypeOK, HitServed, [Next]_vars,
         ~ \E r \in Requests : CountHit(r) \/ CountMiss(r)
  PROVE  /\ ServedHits' = ServedHits /\ WentUpstream' = WentUpstream /\ HitServed'
         /\ UNCHANGED <<hits, misses>>
<1> USE DEF TypeOK, Goto, shared, ServedHits, WentUpstream, HitServed
<1>1. ASSUME NEW r \in Requests, NEW p \in Paths, Arrive(r, p)
      PROVE  ServedHits' = ServedHits /\ WentUpstream' = WentUpstream /\ HitServed'
  BY <1>1 DEF Arrive
<1>2. ASSUME NEW r \in Requests, LruGet(r) \/ LoadPayload(r)
      PROVE  ServedHits' = ServedHits /\ WentUpstream' = WentUpstream /\ HitServed'
  BY <1>2 DEF LruGet, LoadPayload
<1>3. ASSUME NEW r \in Requests, WriteHit(r)
      PROVE  ServedHits' = ServedHits /\ WentUpstream' = WentUpstream /\ HitServed'
  BY <1>3 DEF WriteHit
<1>4. ASSUME NEW r \in Requests, FetchFails(r)
      PROVE  ServedHits' = ServedHits /\ WentUpstream' = WentUpstream /\ HitServed'
  BY <1>4 DEF FetchFails, BadGateway
<1>5. ASSUME NEW r \in Requests, FetchOK(r) \/ LruPut(r) \/ StorePayload(r)
      PROVE  ServedHits' = ServedHits /\ WentUpstream' = WentUpstream /\ HitServed'
  BY <1>5 DEF FetchOK, LruPut, StorePayload
<1>6. ASSUME NEW r \in Requests, WriteMiss(r)
      PROVE  ServedHits' = ServedHits /\ WentUpstream' = WentUpstream /\ HitServed'
  BY <1>6 DEF WriteMiss
<1>7. CASE Tick \/ UNCHANGED vars
  BY <1>7 DEF Tick, vars
<1>8. ServedHits' = ServedHits /\ WentUpstream' = WentUpstream /\ HitServed'
  BY <1>1, <1>2, <1>3, <1>4, <1>5, <1>6, <1>7 DEF Next, Handle
<1>9. UNCHANGED <<hits, misses>>
  BY DEF Next, Handle, Arrive, LruGet, LoadPayload, WriteHit, FetchFails, FetchOK, LruPut,
         StorePayload, WriteMiss, Tick, vars
<1>10. QED
  BY <1>8, <1>9

\* The counters follow the sets through every step.
LEMMA StepStats == TypeOK /\ StatsInv /\ [Next]_vars => StatsInv'
<1> SUFFICES ASSUME TypeOK, StatsInv, [Next]_vars PROVE StatsInv'
  OBVIOUS
<1>1. /\ HitServed /\ IsFiniteSet(ServedHits) /\ IsFiniteSet(WentUpstream)
      /\ hits = Cardinality(ServedHits) /\ misses = Cardinality(WentUpstream)
  BY DEF StatsInv, StatsAddUp, ServedHits, WentUpstream
<1>2. SUFFICES /\ HitServed' /\ IsFiniteSet(ServedHits') /\ IsFiniteSet(WentUpstream')
               /\ hits' = Cardinality(ServedHits') /\ misses' = Cardinality(WentUpstream')
  BY DEF StatsInv, StatsAddUp, ServedHits, WentUpstream
<1>3. ASSUME NEW r \in Requests, CountHit(r)
      PROVE  /\ HitServed' /\ ServedHits' = ServedHits \cup {r} /\ r \notin ServedHits
             /\ WentUpstream' = WentUpstream /\ hits' = hits + 1 /\ misses' = misses
  BY <1>1, <1>3 DEF CountHit, Goto, TypeOK, ServedHits, WentUpstream, HitServed
<1>4. ASSUME NEW r \in Requests, CountMiss(r)
      PROVE  /\ HitServed' /\ WentUpstream' = WentUpstream \cup {r} /\ r \notin WentUpstream
             /\ ServedHits' = ServedHits /\ misses' = misses + 1 /\ hits' = hits
  BY <1>1, <1>4 DEF CountMiss, Goto, TypeOK, ServedHits, WentUpstream, HitServed
<1>5. CASE \E r \in Requests : CountHit(r)
  BY <1>1, <1>3, <1>5, FS_AddElement
<1>6. CASE \E r \in Requests : CountMiss(r)
  BY <1>1, <1>4, <1>6, FS_AddElement
<1>7. CASE ~ \E r \in Requests : CountHit(r) \/ CountMiss(r)
  BY <1>1, <1>7, OthersCountNothing
<1>8. QED
  BY <1>5, <1>6, <1>7

\* For any number of requests the counters of edgeStats account for each exactly once.
THEOREM StatsAlwaysAddUp == Spec => []StatsAddUp
<1>1. Init => StatsInv
  <2> SUFFICES ASSUME Init PROVE StatsInv
    OBVIOUS
  <2>1. ServedHits = {} /\ WentUpstream = {} /\ HitServed
    BY DEF Init, ServedHits, WentUpstream, HitServed
  <2>2. QED
    BY <2>1, FS_EmptySet DEF Init, StatsInv, StatsAddUp, ServedHits, WentUpstream
<1>2. StatsInv => StatsAddUp
  BY DEF StatsInv
<1>3. QED
  BY <1>1, <1>2, TypeCorrect, StepStats, PTL DEF Spec

-----------------------------------------------------------------------------
\* A step of the process is a step of the handlers, or none of theirs.
LEMMA HandlersSimulated == ProcessNext => Next \/ UNCHANGED vars
<1> SUFFICES ASSUME ProcessNext PROVE Next \/ UNCHANGED vars
  OBVIOUS
<1>1. CASE \E s \in Servers : Listen(s)
  BY <1>1 DEF Listen, ListenUp, ListenFails, ListenerReturns
<1>2. CASE \E r \in Requests, p \in Paths, s \in Servers : Accept(r, p, s)
  BY <1>2 DEF Accept, Next
<1>3. CASE \E r \in Requests : HandleInProcess(r)
  BY <1>3 DEF HandleInProcess, Next
<1>4. CASE Signal \/ Shutdown
  BY <1>4 DEF Signal, Shutdown, Drained, DrainTimesOut, H3Close, Exit
<1>5. CASE main # "exited" /\ Tick /\ UNCHANGED processVars
  BY <1>5 DEF Next
<1>6. QED
  BY <1>1, <1>2, <1>3, <1>4, <1>5 DEF ProcessNext

\* The process implements the handlers: all that EdgeServer promises holds in it.
THEOREM ProcessImplementsHandlers == ProcessSpec => Spec
<1>1. ProcessInit => Init
  BY DEF ProcessInit
<1>2. [ProcessNext]_allVars => [Next]_vars
  BY HandlersSimulated DEF allVars
<1>3. QED
  BY <1>1, <1>2, PTL DEF ProcessSpec, Spec

-----------------------------------------------------------------------------
Stages == {"serving", "draining", "h3close", "waiting", "exited"}

ProcessTypeOK ==
  /\ main \in Stages /\ via \in [Requests -> Servers \cup {None}] /\ cut \subseteq Requests

\* Once the drain is over in time, no request of HTTP/2 is under way: none comes in
\* any more, and a handler that is done stays so.
DrainInv ==
  /\ ProcessTypeOK
  /\ main \in {"h3close", "waiting", "exited"} /\ ~timedOut => OpenRequests("h2") = {}
  /\ \A r \in cut : pc[r] # "idle"
  /\ DrainSparesH2

\* Nothing but its arrival starts a handler, and nothing takes one back.
LEMMA HandlersFlow ==
  ASSUME pc \in [Requests -> Labels], NEW r \in Requests
  PROVE  /\ (\E q \in Requests : Handle(q)) \/ Tick \/ UNCHANGED vars =>
              /\ pc[r] \in {"idle", "done"} => pc'[r] = pc[r]
              /\ pc[r] # "idle" => pc'[r] # "idle"
         /\ \A q \in Requests, p \in Paths : Arrive(q, p) => r = q \/ pc'[r] = pc[r]
<1>1. CASE \E q \in Requests : Handle(q)
  <2>1. PICK q \in Requests : Handle(q)
    BY <1>1
  <2>2. \E to \in Labels \ {"idle"} : pc[q] \notin {"idle", "done"} /\ pc' = [pc EXCEPT ![q] = to]
    <3>1. CASE LruGet(q) \/ LoadPayload(q) \/ WriteHit(q) \/ CountHit(q) \/ CountMiss(q)
      BY <3>1 DEF LruGet, LoadPayload, WriteHit, CountHit, CountMiss, Goto, Labels
    <3>2. CASE FetchFails(q) \/ FetchOK(q) \/ LruPut(q) \/ StorePayload(q) \/ WriteMiss(q)
      BY <3>2 DEF FetchFails, FetchOK, LruPut, StorePayload, WriteMiss, Goto, Labels
    <3>3. QED
      BY <2>1, <3>1, <3>2 DEF Handle
  <2>3. /\ pc[r] \in {"idle", "done"} => pc'[r] = pc[r]
        /\ pc[r] # "idle" => pc'[r] # "idle"
    BY <2>2
  <2>4. \A u \in Requests, p \in Paths : Arrive(u, p) => r = u \/ pc'[r] = pc[r]
    BY DEF Arrive, Goto
  <2>5. QED
    BY <2>3, <2>4
<1>2. CASE Tick \/ UNCHANGED vars
  BY <1>2 DEF Tick, vars
<1>3. \A q \in Requests, p \in Paths : Arrive(q, p) => r = q \/ pc'[r] = pc[r]
  BY DEF Arrive, Goto
<1>4. QED
  BY <1>1, <1>2, <1>3

\* In the initial state nothing is under way.
LEMMA DrainInit == ProcessInit => DrainInv
  BY DEF ProcessInit, Init, DrainInv, DrainSparesH2, ProcessTypeOK, Stages, Servers

\* Every step of the process keeps the invariant.
LEMMA DrainStep == TypeOK /\ DrainInv /\ [ProcessNext]_allVars => DrainInv'
<1> SUFFICES ASSUME TypeOK, DrainInv, [ProcessNext]_allVars PROVE DrainInv'
  OBVIOUS
<1>0. pc \in [Requests -> Labels]
  BY DEF TypeOK
<1>1. ASSUME (\E q \in Requests : Handle(q)) \/ Tick \/ UNCHANGED vars, UNCHANGED processVars
      PROVE  DrainInv'
  <2>1. \A r \in Requests : /\ pc[r] \in {"idle", "done"} => pc'[r] = pc[r]
                            /\ pc[r] # "idle" => pc'[r] # "idle"
    BY <1>0, <1>1, HandlersFlow
  <2>2. QED
    BY <1>1, <2>1 DEF processVars, DrainInv, DrainSparesH2, ProcessTypeOK, OpenRequests
<1>2. CASE \E s \in Servers : Listen(s)
  BY <1>2 DEF Listen, ListenUp, ListenFails, ListenerReturns, vars, DrainInv, DrainSparesH2,
              ProcessTypeOK, OpenRequests
<1>3. CASE \E r \in Requests, p \in Paths, s \in Servers : Accept(r, p, s)
  <2>1. PICK r \in Requests, p \in Paths, s \in Servers : Accept(r, p, s)
    BY <1>3
  <2>2. /\ pc[r] = "idle" /\ pc'[r] = "lookup" /\ ~Closed(s)
        /\ main' = main /\ cut' = cut /\ timedOut' = timedOut
        /\ via' = [via EXCEPT ![r] = s]
    BY <1>0, <2>1 DEF Accept, Arrive, Goto
  <2>3. \A q \in Requests : q = r \/ (pc'[q] = pc[q] /\ via'[q] = via[q])
    BY <1>0, <2>1, <2>2, HandlersFlow DEF Accept, DrainInv, ProcessTypeOK
  <2>4. ProcessTypeOK' /\ via'[r] = s /\ r \notin cut
    BY <2>2 DEF DrainInv, ProcessTypeOK
  <2>5. main \in {"h3close", "waiting", "exited"} => s # "h2"
    BY <2>2 DEF Closed
  <2>6. main' \in {"h3close", "waiting", "exited"} /\ ~timedOut' => OpenRequests("h2")' = {}
    BY <2>2, <2>3, <2>4, <2>5 DEF DrainInv, OpenRequests
  <2>7. QED
    BY <2>2, <2>3, <2>4, <2>6 DEF DrainInv, DrainSparesH2, ProcessTypeOK
<1>4. CASE Signal
  BY <1>4 DEF Signal, vars, DrainInv, DrainSparesH2, ProcessTypeOK, Stages
<1>5. CASE Drained \/ DrainTimesOut
  BY <1>5 DEF Drained, DrainTimesOut, vars, DrainInv, DrainSparesH2, ProcessTypeOK, OpenRequests, Stages
<1>6. CASE H3Close \/ Exit
  BY <1>6 DEF H3Close, Exit, vars, DrainInv, DrainSparesH2, ProcessTypeOK, OpenRequests, Unanswered,
              Stages
<1>7. CASE UNCHANGED allVars
  BY <1>1, <1>7 DEF allVars, processVars
<1>8. QED
  BY <1>1, <1>2, <1>3, <1>4, <1>5, <1>6, <1>7 DEF ProcessNext, HandleInProcess, Shutdown

\* However the shutdown interleaves with the requests, one of HTTP/2 is cut off only
\* after the 5 s of the drain.
THEOREM H2SparedInTime == ProcessSpec => []DrainSparesH2
<1>1. ProcessSpec => []TypeOK
  BY ProcessImplementsHandlers, TypeCorrect, PTL
<1>2. DrainInv => DrainSparesH2
  BY DEF DrainInv
<1>3. QED
  BY <1>1, <1>2, DrainInit, DrainStep, PTL DEF ProcessSpec
=============================================================================
