--------------------------- MODULE MCEdgeProcess ----------------------------
(***************************************************************************)
(* Two requests for one path, by either server, at any point of the life   *)
(* of the process.                                                         *)
(***************************************************************************)
EXTENDS EdgeProcess

MCSegmentSize == [p \in Paths |-> 2]
=============================================================================
