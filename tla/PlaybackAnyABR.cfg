CONSTANTS
  ABRs = {"any"}
  Ladder = {400, 3000}
  Contents = {"c1", "c2"}
  Edges = {"e1", "e2"}
  TotalSegments = 5
  SegmentDuration = 4000
  SegmentSizes <- MCSegmentSizes
  MaxBuffer = 10000
  StartupThreshold = 2000
  PrefetchDepth = 2
  CacheOn = TRUE
  CacheTypes = {"lru", "arc"}
  CacheTTL = 4000
  CacheBytes = 8000000
  ShieldOn = TRUE
  ShieldBytes = 20000000
  ShieldTTL = 4000
  WarmUp <- OneContent
  Clients = 2
  HandshakeTimes = {100}
  Latencies = {1500, 8000, 9500}
  OriginLatencies = {700}
SPECIFICATION Spec
INVARIANTS BufferBounds TimeLedger SessionLog TiersAgree
PROPERTIES CachedOnlyWhenDelivered
CHECK_DEADLOCK FALSE
