CONSTANTS
  Workloads <- MCWorkloads
  LossPatterns <- MCLossPatterns
  LossType = "uniform"
  Traces <- MCTraces
  RTT = 50
  Jitters = {0, 7}
SPECIFICATION Spec
INVARIANTS RenoLaw LossNeverHelps DriftBounded PairedTimes
PROPERTIES EveryByteSent
CHECK_DEADLOCK FALSE
