------------------------- MODULE ServerCertificates -------------------------
(***************************************************************************)
(* How the servers of the emulated network come by their certificate:      *)
(* LoadOrGenerate of internal/servertls/cert.go, called by the main of the *)
(* origin (cmd/origin-server) and of edges and shield (cmd/edge-server) on *)
(* one pair of files they may share, and the pool edges trust upstreams by *)
(* (loadCertPool, whose default file is the server's own certificate).     *)
(*                                                                         *)
(* A certificate or key is the pair of the server that generated it and    *)
(* the number of its start.  os.WriteFile opens and truncates the file,    *)
(* then writes it; a crash or another server may come between any two      *)
(* steps.                                                                  *)
(***************************************************************************)
EXTENDS Naturals, FiniteSets

CONSTANTS
  Origin, Edges,     \* the servers; Edges run the edge server's program
  WritableChoices,   \* whether the directory may be written: a subset of BOOLEAN
  MaxStarts,         \* bound on the starts of a server
  NoFile, Empty, NoCert

ASSUME StartsAssumption == MaxStarts \in Nat \ {0}
ASSUME WritableAssumption == WritableChoices \subseteq BOOLEAN
ASSUME NodesAssumption == Origin \notin Edges /\ "prepared" \notin Edges \cup {Origin}

Nodes == {Origin} \cup Edges

VARIABLES
  certFile, keyFile, writable,
  at, starts,
  cert,         \* the certificate a server has in hand
  pool,         \* what an edge trusts: a certificate, or NoCert to skip verification
  torn,         \* history: a crash left a key without its certificate
  mixed,        \* history: two servers were writing the pair at once
  disturbed,    \* history: the start of a server overlapped the writing of another
  raced         \* history: some start overlapped a decision to write

server == <<cert, pool>>
certVars == <<certFile, keyFile, writable, at, starts, server, torn, mixed, disturbed, raced>>

\* What docker/certs/generate.sh leaves; somebody may have removed half of it.
Prepared == <<"prepared", 1>>

\* What a file may hold: nothing, or a certificate or key.
Pairs == (Nodes \X Nat) \cup {Prepared}

ASSUME FilesAssumption == NoFile # Empty /\ {NoFile, Empty, NoCert} \cap Pairs = {}

CertInit ==
  /\ certFile \in {NoFile, Prepared} /\ keyFile \in {NoFile, Prepared}
  /\ writable \in WritableChoices
  /\ at = [s \in Nodes |-> "off"] /\ starts = [s \in Nodes |-> 0]
  /\ cert = [s \in Nodes |-> NoCert] /\ pool = [s \in Nodes |-> NoCert]
  /\ torn = FALSE /\ mixed = FALSE /\ raced = FALSE
  /\ disturbed = [s \in Nodes |-> FALSE]

Goto(s, from, to) == at[s] = from /\ at' = [at EXCEPT ![s] = to]

StartServer(s) ==
  /\ starts[s] < MaxStarts
  /\ Goto(s, "off", "stat_cert")
  /\ starts' = [starts EXCEPT ![s] = @ + 1]
  /\ cert' = [cert EXCEPT ![s] = NoCert] /\ pool' = [pool EXCEPT ![s] = NoCert]
  /\ UNCHANGED <<certFile, keyFile, torn>>

\* Mutant: a certificate that is there is not looked for.
StatCertIgnored(s) ==
  /\ Goto(s, "stat_cert", "open_cert")
  /\ UNCHANGED <<certFile, keyFile, starts, server, torn>>

StatCert(s) ==
  /\ Goto(s, "stat_cert", IF certFile = NoFile THEN "open_cert" ELSE "stat_key")
  /\ UNCHANGED <<certFile, keyFile, starts, server, torn>>

\* Mutant: a certificate is taken to have its key.
StatKeySkipped(s) ==
  /\ Goto(s, "stat_key", "read_cert")
  /\ UNCHANGED <<certFile, keyFile, starts, server, torn>>

StatKey(s) ==
  /\ Goto(s, "stat_key", IF keyFile = NoFile THEN "open_cert" ELSE "read_cert")
  /\ UNCHANGED <<certFile, keyFile, starts, server, torn>>

\* What a server goes on to with its certificate: an edge to its pool.
Ready(s) == IF s = Origin THEN "up" ELSE "pool"

\* LoadX509KeyPair: two reads, and an error unless they are of one pair.
ReadCert(s) ==
  /\ Goto(s, "read_cert", "read_key")
  /\ cert' = [cert EXCEPT ![s] = certFile]
  /\ UNCHANGED <<certFile, keyFile, starts, pool, torn>>

ReadKey(s) ==
  /\ Goto(s, "read_key", IF keyFile = cert[s] /\ keyFile \notin {NoFile, Empty}
                         THEN Ready(s) ELSE "failed")
  /\ UNCHANGED <<certFile, keyFile, starts, server, torn>>

\* generateSelfSigned, and the first half of the first WriteFile.
OpenCert(s) ==
  /\ Goto(s, "open_cert", IF writable THEN "write_cert" ELSE "failed")
  /\ cert' = [cert EXCEPT ![s] = <<s, starts[s]>>]
  /\ certFile' = IF writable THEN Empty ELSE certFile
  /\ UNCHANGED <<keyFile, starts, pool, torn>>

WriteCert(s) ==
  /\ Goto(s, "write_cert", "open_key")
  /\ certFile' = cert[s]
  /\ UNCHANGED <<keyFile, starts, server, torn>>

OpenKey(s) ==
  /\ Goto(s, "open_key", "write_key")
  /\ keyFile' = Empty
  /\ UNCHANGED <<certFile, starts, server, torn>>

WriteKey(s) ==
  /\ Goto(s, "write_key", Ready(s))
  /\ keyFile' = cert[s]
  /\ UNCHANGED <<certFile, starts, server, torn>>

\* loadCertPool, and buildUpstreamClient: without a pool, no verification.
LoadPool(s) ==
  /\ Goto(s, "pool", "up")
  /\ pool' = [pool EXCEPT ![s] = IF certFile \in {NoFile, Empty} THEN NoCert ELSE certFile]
  /\ UNCHANGED <<certFile, keyFile, starts, cert, torn>>

\* The server has decided to write the pair; it has begun to.
Persisting(s) == at[s] \in {"open_cert", "write_cert", "open_key", "write_key"}
MidPersist(s) == at[s] \in {"write_cert", "open_key", "write_key"}

\* A server stops, wherever it is; what it had written stays.
Crash(s) ==
  /\ at[s] # "off"
  /\ at' = [at EXCEPT ![s] = "off"]
  /\ torn' = (torn \/ (MidPersist(s) /\ keyFile # NoFile))
  /\ UNCHANGED <<certFile, keyFile, starts, server>>

Step(s) ==
  \/ StartServer(s) \/ StatCert(s) \/ StatKey(s) \/ ReadCert(s) \/ ReadKey(s)
  \/ OpenCert(s) \/ WriteCert(s) \/ OpenKey(s) \/ WriteKey(s) \/ LoadPool(s) \/ Crash(s)

Starting(s) == at[s] \notin {"off", "up", "failed"}

\* One server writes while another writes, or while server t starts; one server starts
\* while another has at least decided to write.
TwoWrite == \E s, t \in Nodes : s # t /\ MidPersist(s) /\ MidPersist(t)
Disturbs(t) == Starting(t) /\ \E s \in Nodes \ {t} : MidPersist(s)
Overlap == \E s, t \in Nodes : s # t /\ Persisting(s) /\ Starting(t)

CertNext ==
  /\ \E s \in Nodes : Step(s)
  /\ mixed' = (mixed \/ TwoWrite')
  /\ disturbed' = [t \in Nodes |-> (at[t] # "off" /\ disturbed[t]) \/ Disturbs(t)']
  /\ raced' = (raced \/ Overlap')
  /\ UNCHANGED writable

CertSpec == CertInit /\ [][CertNext]_certVars

-----------------------------------------------------------------------------
\* A server fails to start only in a directory it may not write to, or while another
\* one writes the pair (it may find a file without its other half: cert.go:38-44), or
\* after two have written it at once, or after a crash between two steps of persist
\* (cert.go:99-117) left a key file.  Cut off before that, started on half a pair, or
\* while others start that only read, or after a pair has been replaced by a server
\* that had seen no files, it finds its way.
StartsUnlessTorn ==
  \A s \in Nodes : at[s] = "failed" /\ writable => torn \/ mixed \/ disturbed[s]

\* The server names and addresses a generator lists: generate.sh all of them; the origin
\* all names, but no address except its own; an edge names and addresses of the edges and
\* the shield, but none of the origin.
OriginLists(s, by) == s = Origin \/ by = "name"
EdgeLists(s) == s # Origin

\* What certificate c is good for.
GoodFor(c, s, by) ==
  \/ c = Prepared
  \/ c[1] = Origin /\ OriginLists(s, by)
  \/ c[1] \in Edges /\ EdgeLists(s)

\* What edge s makes of upstream u when it connects to it by its name or address.
Verifies(s, u, by) == pool[s] = NoCert \/ (pool[s] = cert[u] /\ GoodFor(cert[u], u, by))

\* No start has overlapped a decision to write, and no crash has torn the pair.
Undisturbed == ~raced /\ ~torn

\* "uses a throwaway self-signed cert across origin, shield, and edge" (cert.go:2):
\* servers that share the files and did not race for them hold one certificate and
\* trust it, crashes and restarts included.  By name every upstream is verified but an
\* origin that took over the certificate of an edge; by address (docker-compose.yml:88,
\* 123) those whose certificate came from generate.sh or from their own program.
EdgesVerifyUpstreams ==
  Undisturbed => \A s \in Edges, u \in Nodes :
    at[s] = "up" /\ at[u] = "up" =>
      LET generator == cert[u][1]
      IN  /\ Verifies(s, u, "name") <=> u # Origin \/ generator \notin Edges
          /\ Verifies(s, u, "address") <=>
               generator = "prepared" \/ (generator = Origin <=> u = Origin)
=============================================================================
