CONSTANTS
  Requests = {r1, r2}
  Paths = {p1}
  SegmentSize <- MCSegmentSize
  ErrorSize = 1
  MaxBodyBytes = 3
  MaxSizeBytes = 3
  TTL = 1
  MaxTime = 2
  None = None
SPECIFICATION ProcessSpec
INVARIANTS DrainSparesH2
PROPERTIES AnsweredOrCut ShutdownCompletes
CHECK_DEADLOCK FALSE
