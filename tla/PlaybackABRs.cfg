CONSTANTS
  ABRs = {"buffer_based", "throughput_based"}
  Ladder <- DefaultRepresentations
  Contents = {"c1"}
  Edges = {"e1"}
  TotalSegments = 11
  SegmentDuration = 4000
  SegmentSizes <- MCSegmentSizes
  MaxBuffer = 30000
  StartupThreshold = 2000
  PrefetchDepth = 1
  CacheOn = FALSE
  CacheTypes = {"lru"}
  CacheTTL = 3600000
  CacheBytes = 8000000
  ShieldOn = TRUE
  ShieldBytes = 1000000
  ShieldTTL = 3600000
  WarmUp <- NoContents
  Clients = 1
  HandshakeTimes = {100}
  Latencies = {800, 9000}
  OriginLatencies = {700}
SPECIFICATION Spec
PROPERTIES FrozenInDanger ThroughputHasEvidence RunEnds
CHECK_DEADLOCK FALSE
