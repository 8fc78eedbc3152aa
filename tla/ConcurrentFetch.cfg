CONSTANTS
  N = 4
  None = None
SPECIFICATION FetchSpec
INVARIANTS TruthfulResult NoStragglers
PROPERTIES Returns
CHECK_DEADLOCK FALSE
