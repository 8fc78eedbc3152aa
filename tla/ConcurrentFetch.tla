-------------------------- MODULE ConcurrentFetch --------------------------
(***************************************************************************)
(* FetchConcurrent of the emulated transports                              *)
(* (internal/transport/emulated/tcp.go and quic.go, the same code but for  *)
(* the HTTP client): one goroutine per request of the batch, a context     *)
(* that the first failure cancels, and a wait for all of them.             *)
(*                                                                         *)
(* A response is named by the request it answers, Zero is the zero value   *)
(* of SegmentResponse and NoErr the nil error.                             *)
(***************************************************************************)
EXTENDS Integers

CONSTANTS N,      \* the number of requests of the batch
          None    \* no result yet

ASSUME NAssumption == N \in Nat
Slots == 1 .. N
Zero == 0
NoErr == "nil"

VARIABLES
  next,       \* the slot the loop spawns next
  at,         \* where the goroutine of each slot is
  out, errs,  \* the two result slices
  cancelled,  \* whether subCtx is done
  parent,     \* whether the caller's context is done
  wg,         \* the goroutines the WaitGroup waits for
  result      \* what FetchConcurrent returned

fetchVars == <<next, at, out, errs, cancelled, parent, wg, result>>

\* out is nil and err the slot of the error, or out is there and err is 0.
Results == [out : {<< >>}, err : Slots] \cup [out : [Slots -> {Zero} \cup Slots], err : {0}]
ASSUME NoneAssumption == None \notin Results

FetchInit ==
  /\ next = 1
  /\ at = [n \in Slots |-> "unborn"]
  /\ out = [n \in Slots |-> Zero]
  /\ errs = [n \in Slots |-> NoErr]
  /\ cancelled = FALSE
  /\ parent = FALSE
  /\ wg = {}
  /\ result = None

\* Mutant: wg.Add is left to the goroutine, which gets to it after its fetch.
SpawnAddsLater ==
  /\ next <= N
  /\ next' = next + 1
  /\ at' = [at EXCEPT ![next] = "fetch"]
  /\ UNCHANGED <<out, errs, cancelled, parent, wg, result>>

\* wg.Add(1) and the go statement, for the next slot.
Spawn ==
  /\ next <= N
  /\ next' = next + 1
  /\ at' = [at EXCEPT ![next] = "fetch"]
  /\ wg' = wg \cup {next}
  /\ UNCHANGED <<out, errs, cancelled, parent, result>>

\* FetchSegment returns a response, possibly after a cancellation it did not see.
FetchOK(n) ==
  /\ at[n] = "fetch"
  /\ at' = [at EXCEPT ![n] = "leave"]
  /\ out' = [out EXCEPT ![n] = n]
  /\ UNCHANGED <<next, errs, cancelled, parent, wg, result>>

\* FetchSegment fails by itself (connection, body, the client's timeout), or
\* because its context is done.
FetchFails(n) == \E err \in {"failed", "canceled"} :
  /\ at[n] = "fetch"
  /\ err = "canceled" => cancelled \/ parent
  /\ at' = [at EXCEPT ![n] = "cancel"]
  /\ out' = [out EXCEPT ![n] = Zero]
  /\ errs' = [errs EXCEPT ![n] = err]
  /\ UNCHANGED <<next, cancelled, parent, wg, result>>

\* Mutant: the error path returns without wg.Done.
CancelWithoutDone(n) ==
  /\ at[n] = "cancel"
  /\ at' = [at EXCEPT ![n] = "done"]
  /\ cancelled' = TRUE
  /\ UNCHANGED <<next, out, errs, parent, wg, result>>

Cancel(n) ==
  /\ at[n] = "cancel"
  /\ at' = [at EXCEPT ![n] = "leave"]
  /\ cancelled' = TRUE
  /\ UNCHANGED <<next, out, errs, parent, wg, result>>

\* The deferred wg.Done.
Leave(n) ==
  /\ at[n] = "leave"
  /\ at' = [at EXCEPT ![n] = "done"]
  /\ wg' = wg \ {n}
  /\ UNCHANGED <<next, out, errs, cancelled, parent, result>>

\* Mutant: the slice that is there so far is handed back with the error.
ResultPartial ==
  LET failed == { n \in Slots : errs[n] # NoErr }
  IN  IF failed = {} THEN [out |-> out, err |-> 0]
      ELSE [out |-> out, err |-> CHOOSE n \in failed : \A m \in failed : n <= m]

\* The error of the first slot that has one, or all responses.
Result ==
  LET failed == { n \in Slots : errs[n] # NoErr }
  IN  IF failed = {} THEN [out |-> out, err |-> 0]
      ELSE [out |-> << >>, err |-> CHOOSE n \in failed : \A m \in failed : n <= m]

\* wg.Wait is over, and the deferred cancel runs.
Return ==
  /\ next > N /\ wg = {} /\ result = None
  /\ result' = Result
  /\ cancelled' = TRUE
  /\ UNCHANGED <<next, at, out, errs, parent, wg>>

\* The caller's context is cancelled.
ParentCancels ==
  /\ ~parent /\ result = None
  /\ parent' = TRUE
  /\ UNCHANGED <<next, at, out, errs, cancelled, wg, result>>

Goroutine(n) == FetchOK(n) \/ FetchFails(n) \/ Cancel(n) \/ Leave(n)

FetchNext == Spawn \/ Return \/ ParentCancels \/ \E n \in Slots : Goroutine(n)

\* Goroutines are scheduled, and the client's timeout ends every fetch.
Fairness == WF_fetchVars(Spawn \/ Return) /\ \A n \in Slots : WF_fetchVars(Goroutine(n))

FetchSpec == FetchInit /\ [][FetchNext]_fetchVars /\ Fairness

-----------------------------------------------------------------------------
\* Slots, slices and the returned error stay within the batch (tcp.go:138-165).
TypeOK ==
  /\ next \in 1 .. N + 1
  /\ at \in [Slots -> {"unborn", "fetch", "cancel", "leave", "done"}]
  /\ out \in [Slots -> {Zero} \cup Slots]
  /\ errs \in [Slots -> {NoErr, "failed", "canceled"}]
  /\ cancelled \in BOOLEAN /\ parent \in BOOLEAN
  /\ wg \subseteq Slots
  /\ result \in Results \cup {None}

\* The caller gets every response, each in the slot of its request, or an error
\* and no slice at all: never a zero-value response (tcp.go:136-137, 157-163).
AllOrNothing ==
  result # None =>
    IF result.err = 0 THEN \A n \in Slots : result.out[n] = n
                      ELSE result.out = << >> /\ errs[result.err] # NoErr

\* No goroutine of the batch is still at work once FetchConcurrent has returned,
\* so nothing writes to the slices the caller reads.
NoStragglers == result # None => \A n \in Slots : at[n] = "done"

\* A request is cancelled only because a sibling really failed, or the caller
\* gave up: success never cancels anybody.
CancellationHasCause ==
  (\E n \in Slots : errs[n] = "canceled") /\ ~parent => \E m \in Slots : errs[m] = "failed"

\* Whatever the caller is told is true: the answers are all there, or an error is
\* reported that goes back to a real failure (tcp.go:157-164).
TruthfulResult == AllOrNothing /\ CancellationHasCause

\* FetchConcurrent returns, whatever fails.
Returns == <>(result # None)
=============================================================================
