------------------------------ MODULE MCSweep -------------------------------
(***************************************************************************)
(* Sweeps over up to three parameters: in either order of declaration, of  *)
(* one path or one name, with values that are all but equal, truncated to  *)
(* nothing, or of a path nobody knows; of a modeled and of an emulated     *)
(* base, and of one that Validate refuses.                                 *)
(***************************************************************************)
EXTENDS Sweep

Base == [p \in SupportedPaths \cup {"seed"} |-> IF p = "clients.count" THEN 2 ELSE 10]

Param(name, path, values) == [name |-> name, path |-> path, values |-> values]

Loss == Param("loss", "uniform_percent", <<30, 0>>)
Rtt == Param("rtt", "base_rtt_ms", <<20, 105>>)
Near == Param("rtt", "base_rtt_ms", <<20, 21, 30>>)
Clients == Param("clients", "clients.count", <<20, 25>>)
Namesake == Param("clients", "base_rtt_ms", <<20, 25>>)
MoreClients == Param("audience", "clients.count", <<30>>)
Shrinking == Param("clients", "clients.count", <<10, 5>>)
Durations == Param("duration", "content.duration_seconds", <<40, 5>>)
Unknown == Param("shield", "topology.shield", <<10>>)

Conf(parameters, both, csv) ==
  [base |-> Base, valid |-> TRUE, parameters |-> parameters, both |-> both,
   emulated |-> FALSE, csv |-> csv]

MCConfigs ==
  { Conf(<<Loss, Rtt>>, TRUE, FALSE), Conf(<<Rtt, Loss>>, FALSE, TRUE),
    Conf(<<Clients, MoreClients>>, TRUE, FALSE), Conf(<<MoreClients, Clients>>, TRUE, FALSE),
    Conf(<<Near>>, TRUE, TRUE), Conf(<<Rtt, Shrinking>>, TRUE, FALSE),
    Conf(<<Loss, Rtt, Durations>>, FALSE, FALSE), Conf(<<Unknown>>, TRUE, FALSE),
    Conf(<<Clients, Namesake>>, FALSE, FALSE), Conf(<< >>, TRUE, FALSE),
    [Conf(<<Rtt>>, TRUE, FALSE) EXCEPT !.emulated = TRUE],
    [Conf(<<Rtt>>, TRUE, FALSE) EXCEPT !.valid = FALSE],
    Conf(<<Rtt, Param("", "uniform_percent", <<10>>)>>, TRUE, FALSE) }
=============================================================================
