------------------------------ MODULE Numbers -------------------------------
(***************************************************************************)
(* The loops over numbers that several parts of the simulator have: adding *)
(* up a slice, and listing a finite set in ascending order.                *)
(***************************************************************************)
EXTENDS Integers, Sequences, FiniteSets

\* The sum of the first n numbers of a sequence, and of all of them.
SumTo(s, n) ==
  LET sum[m \in 0 .. Len(s)] == IF m = 0 THEN 0 ELSE sum[m - 1] + s[m]
  IN  sum[n]
SumOf(s) == SumTo(s, Len(s))

\* The numbers of a set in ascending order.
Sorted(S) == [k \in 1 .. Cardinality(S) |->
                CHOOSE x \in S : Cardinality({ y \in S : y < x }) = k - 1]
=============================================================================
