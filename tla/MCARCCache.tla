----------------------------- MODULE MCARCCache -----------------------------
(***************************************************************************)
(* Instances of ARCCache by what callers put in it.                        *)
(***************************************************************************)
EXTENDS ARCCache, TLC

\* Keys that may come back with another size, one of which never fits.
MixedItems == [key : Keys, size : {1, 2, 4}, expiry : {NoExpiry, 1}]
MCInstants == {1, 2}

\* Every item is one unit: the count-based setting of the published algorithm.
UnitItems == [key : Keys, size : {1}, expiry : {NoExpiry}]
OneInstant == {1}

KeySymmetry == Permutations(Keys)
=============================================================================
