---------------------------- MODULE EdgeProcess -----------------------------
(***************************************************************************)
(* The life of the edge server process (main of cmd/edge-server/main.go)   *)
(* around the handlers of EdgeServer: two listeners in goroutines of their *)
(* own, a signal, the shutdown of HTTP/2 with 5 s to drain, the close of   *)
(* HTTP/3, and the wait for the listeners.  When main returns the handlers *)
(* that still run are gone.  The origin server's main goes the same way.   *)
(*                                                                         *)
(* The HTTP servers are the libraries': Shutdown stops the listener and    *)
(* waits for open requests, Close stops it and cuts them off, and a server *)
(* that is closed before it listens returns at once.                       *)
(***************************************************************************)
EXTENDS EdgeServer

VARIABLES
  main,      \* where the main goroutine is
  listener,  \* the goroutine of each server: "starting", "up", "done"
  via,       \* the server each request came in by
  cut,       \* the requests whose client got no answer
  timedOut   \* history: whether the drain ran into its 5 s

Servers == {"h2", "h3"}
processVars == <<main, listener, via, cut, timedOut>>
allVars == <<vars, processVars>>

ProcessInit ==
  /\ Init
  /\ main = "serving"
  /\ listener = [s \in Servers |-> "starting"]
  /\ via = [r \in Requests |-> None]
  /\ cut = {}
  /\ timedOut = FALSE

\* Shutdown or Close has been called on the server.
Closed(s) == IF s = "h2" THEN main # "serving" ELSE main \in {"waiting", "exited"}

\* The requests of a server that are under way, and those still without answer.
OpenRequests(s) == { r \in Requests : via[r] = s /\ pc[r] \notin {"idle", "done"} }
Unanswered(s) == { r \in OpenRequests(s) : answer[r] = None }

-----------------------------------------------------------------------------
\* ListenAndServe: the server is up, ...
ListenUp(s) ==
  /\ listener[s] = "starting" /\ ~Closed(s)
  /\ listener' = [listener EXCEPT ![s] = "up"]
  /\ UNCHANGED <<vars, main, via, cut, timedOut>>

\* ... its address is taken, which is only logged, ...
ListenFails(s) ==
  /\ listener[s] = "starting" /\ ~Closed(s)
  /\ listener' = [listener EXCEPT ![s] = "done"]
  /\ UNCHANGED <<vars, main, via, cut, timedOut>>

\* ... or it returns ErrServerClosed.
ListenerReturns(s) ==
  /\ listener[s] # "done" /\ Closed(s) /\ main # "exited"
  /\ listener' = [listener EXCEPT ![s] = "done"]
  /\ UNCHANGED <<vars, main, via, cut, timedOut>>

Listen(s) == ListenUp(s) \/ ListenFails(s) \/ ListenerReturns(s)

\* A request comes in by a server that is up.
Accept(r, p, s) ==
  /\ listener[s] = "up" /\ ~Closed(s)
  /\ Arrive(r, p)
  /\ via' = [via EXCEPT ![r] = s]
  /\ UNCHANGED <<main, listener, cut, timedOut>>

HandleInProcess(r) == main # "exited" /\ Handle(r) /\ UNCHANGED processVars

-----------------------------------------------------------------------------
\* SIGINT or SIGTERM.
Signal ==
  /\ main = "serving"
  /\ main' = "draining"
  /\ UNCHANGED <<vars, listener, via, cut, timedOut>>

\* Mutant: the server is closed, not shut down.
DrainedAtOnce ==
  /\ main = "draining"
  /\ main' = "h3close"
  /\ UNCHANGED <<vars, listener, via, cut, timedOut>>

\* h2.Shutdown returns: no request is open, ...
Drained ==
  /\ main = "draining" /\ OpenRequests("h2") = {}
  /\ main' = "h3close"
  /\ UNCHANGED <<vars, listener, via, cut, timedOut>>

\* ... or 5 s are over; what is open runs on.
DrainTimesOut ==
  /\ main = "draining"
  /\ main' = "h3close" /\ timedOut' = TRUE
  /\ UNCHANGED <<vars, listener, via, cut>>

\* Mutant: without Close the listener of HTTP/3 is never told.
H3CloseForgotten ==
  /\ main = "h3close"
  /\ main' = IF listener["h3"] = "done" THEN "waiting" ELSE "h3close"
  /\ UNCHANGED <<vars, listener, via, cut, timedOut>>

H3Close ==
  /\ main = "h3close"
  /\ main' = "waiting"
  /\ cut' = cut \cup Unanswered("h3")
  /\ UNCHANGED <<vars, listener, via, timedOut>>

\* wg.Wait is over: main returns, and nothing runs any more.
Exit ==
  /\ main = "waiting" /\ \A s \in Servers : listener[s] = "done"
  /\ main' = "exited"
  /\ cut' = cut \cup Unanswered("h2") \cup Unanswered("h3")
  /\ UNCHANGED <<vars, listener, via, timedOut>>

Shutdown == Drained \/ DrainTimesOut \/ H3Close \/ Exit

ProcessNext ==
  \/ \E s \in Servers : Listen(s)
  \/ \E r \in Requests, p \in Paths, s \in Servers : Accept(r, p, s)
  \/ \E r \in Requests : HandleInProcess(r)
  \/ Signal \/ Shutdown
  \/ main # "exited" /\ Tick /\ UNCHANGED processVars

\* The Go scheduler runs every goroutine, the upstream client gives up after its
\* timeout, and Shutdown after its own; requests, the clock and signals owe nothing.
ProcessFairness ==
  /\ \A r \in Requests : WF_allVars(HandleInProcess(r))
  /\ \A s \in Servers : WF_allVars(Listen(s))
  /\ WF_allVars(Shutdown)

ProcessSpec == ProcessInit /\ [][ProcessNext]_allVars /\ ProcessFairness

-----------------------------------------------------------------------------
\* Every request that is accepted gets a response, unless the shutdown cuts it off
\* (main.go:121-131): no handler is lost in any other way.
AnsweredOrCut ==
  \A r \in Requests : pc[r] = "lookup" ~> answer[r] # None \/ r \in cut

\* Wherever the signal hits, before a listener is up, after one failed to listen, or
\* amid requests, the process comes to its end (main.go:121-131).
ShutdownCompletes == main = "draining" ~> main = "exited"

\* The shutdown cuts a request of HTTP/2 off only when the 5 s of its drain are over
\* (main.go:123-127), though main goes on to close HTTP/3 and to exit meanwhile.
DrainSparesH2 == \A r \in cut : via[r] = "h2" => timedOut
=============================================================================
