SPECIFICATION Spec
CONSTANTS
  Metrics = {m1}
  Handlers = {h1}
  Exporters = {prometheus, openTelemetry}
  EventBased = {prometheus, openTelemetry}
  Faulty = {}
  Hooks <- PascalCaseHooks
  MaxValues = 2
  MaxRecorded = 2
  MaxListeners = 1
  MaxDepth = 1
INVARIANTS
  ReceivesEach
CHECK_DEADLOCK FALSE
