SPECIFICATION Spec
CONSTANTS
  c = c
  u = u
  k1 = k1
  k2 = k2
  l1 = l1
  l2 = l2
  Metrics = {c, u}
  Type <- MCType
  Keys = {k1, k2}
  Series = {l1, l2}
  SeriesOf <- OwnSeries
  Amounts <- Signed
  Scrapes = {s1, s2}
  MaxPending = 2
  MaxRecorded = 3
INVARIANTS
  NothingMiscounted
PROPERTIES
  CountersAreLedger
\* Values and scrapes are bounded.
CHECK_DEADLOCK FALSE
