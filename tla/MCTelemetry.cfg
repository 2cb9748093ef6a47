SPECIFICATION MCSpec
CONSTANTS
  Calls = {c1, c2}
  NoCall = NoCall
  Methods <- MCMethods
  Decorated <- MCDecorated
  Metrics <- MCMetrics
  MaxListed = 5
  MaxMarks = 1
  HttpRequests = {r1, r2}
  DefaultMeter = own
  Meters = {own, a, b}
  MaxMeters = 2
  Pushed <- MCPushed
  LabelSets <- MCLabelSets
  GaugeKey <- MCGaugeKey
  GivenValues = {1, 3}
  MaxGiven = 2
  Statuses = {200, 302, 404}
  Durations <- MCDurations
  Tags = {"db"}
  MaxSamples = 3
  MaxUsage = 1
  Causes = {"ECONNREFUSED", "401", "timeout"}
  Precision = 100
  BaseDelay = 1
  MaxDelay = 3
  Jitter = 2
  MaxAttempts = 3
  HttpNames = {"http_total"}
  Names = {"http_total", "orders", "stock"}
  Kind <- MCKind
  Collectors <- MCCollectors
  MaxEvents = 4
INVARIANTS
  TraceFollowsCalls
  EndsAgree
  SpansShowNobody
  PushedIsKept
  FiguresAreRight
  ExposureIsExact
SYMMETRY Symmetry
\* The calls come to an end.
CHECK_DEADLOCK FALSE
