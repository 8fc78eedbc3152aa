CONSTANTS
  Requests = {r1, r2, r3}
  p1 = p1
  p2 = p2
  Paths <- MCPaths
  SegmentSize <- MCSegmentSize
  ErrorSize = 1
  MaxBodyBytes = 3
  MaxSizeBytes = 3
  TTL = 1
  MaxTime = 3
  None = None
SYMMETRY RequestSymmetry
SPECIFICATION Spec
INVARIANTS IndexBacked AnswersMatchRequest StatsAddUp
PROPERTIES DegradedOnlyWhileStoring
CHECK_DEADLOCK FALSE
