------------------------ MODULE MCModeledTransports ------------------------
(***************************************************************************)
(* Three fetches with the constants of the code: two streams of one packet *)
(* more than the initial window, one stream of exactly two windows, and a  *)
(* fetch of a single segment; and a longer one.  The losses are single     *)
(* packets, pairs and bursts anywhere in them.                             *)
(***************************************************************************)
EXTENDS ModeledTransports

Batch(sizes) == [kind |-> "batch", sizes |-> sizes]
Segment(size) == [kind |-> "segment", sizes |-> <<size>>]

MCWorkloads == { <<Batch(<<14601, 14601>>), Batch(<<29200>>), Segment(44000)>>,
                 <<Batch(<<90000>>)>> }

MCLossPatterns ==
  {{}} \cup { a .. a + n : a \in 0 .. 62, n \in {0, 1, 9, 19} }
       \cup { {a, a + n} : a \in 0 .. 50, n \in {10, 11, 20, 21} }

Steady == <<[duration |-> 1000, rate |-> 1250]>>
Falling == <<[duration |-> 150, rate |-> 1250], [duration |-> 100, rate |-> -10],
             [duration |-> 100, rate |-> 250]>>
MCTraces == {Steady, Falling}
=============================================================================
