----------------------------- MODULE MCLRUCache -----------------------------
(***************************************************************************)
(* LRUCache with three keys: one size that never fits, two of which one or *)
(* three items fit, and an expiry that one of the two instants is past.    *)
(***************************************************************************)
EXTENDS LRUCache, TLC

MCItems == [key : Keys, size : {1, 2, 4}, expiry : {NoExpiry, 1}]
MCInstants == {1, 2}

KeySymmetry == Permutations(Keys)
=============================================================================
