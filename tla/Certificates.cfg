CONSTANTS
  Origin = origin
  Edges = {edge, shield}
  WritableChoices = {TRUE, FALSE}
  MaxStarts = 2
  NoFile = NoFile
  Empty = Empty
  NoCert = NoCert
SPECIFICATION CertSpec
INVARIANTS StartsUnlessTorn EdgesVerifyUpstreams
CHECK_DEADLOCK FALSE
