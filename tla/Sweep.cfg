CONSTANTS
  Configs <- MCConfigs
  MaxSweeps = 2
  None = None
SPECIFICATION Spec
INVARIANTS SweepComplete IndexNeverDangles OrderIndependent
CHECK_DEADLOCK FALSE
