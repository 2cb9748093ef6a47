SPECIFICATION FairSpec
CONSTANTS
  Callers = {c1, c2}
  Kids = {k1, k2}
  FetchIds = {f1, f2}
  JwksCacheTtl = 1
  ValidationMode = "offline"
  MaxTime = 1
  Null = Null
INVARIANTS
  SingleFlight
  FetchedKeyStays
PROPERTIES
  ServedUnderLease
  LookupsEnd
\* A failed first fetch ends the start of the application for good.
CHECK_DEADLOCK FALSE
