---------------------------- MODULE MCEdgeServer ----------------------------
(***************************************************************************)
(* Three concurrent requests for two paths whose segments do not fit into  *)
(* the index together, one of them larger than the cap on bodies.          *)
(***************************************************************************)
EXTENDS EdgeServer, TLC

CONSTANTS p1, p2

MCPaths == {p1, p2}
MCSegmentSize == (p1 :> 2) @@ (p2 :> 4)

RequestSymmetry == Permutations(Requests)
=============================================================================
