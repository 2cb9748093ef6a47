SPECIFICATION FairSpec
CONSTANTS
  Requests = {r1, r2, r3}
  Ips = {i1, i2}
  RateLimitCount = 1
  Window = 2
  MaxTrackedIps = 2
  CapacityThreshold = 1
  CrashOnUnhandled = TRUE
  MaxTime = 3
  Null = Null
INVARIANTS
  RateLimit
PROPERTIES
  DecidesAsLimiter
  RequestsSettle
\* A refused secret ends the start for good, and the requests are finite.
CHECK_DEADLOCK FALSE
