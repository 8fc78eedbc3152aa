CONSTANTS
  Configs <- MCConfigs
  DrawSteps = 4
  MisrouteDraws = 2
  WeightUnit = 2
  None = None
SPECIFICATION Spec
INVARIANTS PairedSessions CapacityHonoured RunsEndWhole StatisticsByDefinition LegacyAgreesUpToSign
CHECK_DEADLOCK FALSE
