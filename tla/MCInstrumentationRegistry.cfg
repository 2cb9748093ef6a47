SPECIFICATION Spec
CONSTANTS
  Metrics = {m1}
  Handlers = {h1, h2}
  Exporters = {push, pull}
  EventBased = {push}
  Faulty = {pull}
  Hooks <- FullHooks
  MaxValues = 2
  MaxRecorded = 3
  MaxListeners = 2
  MaxDepth = 2
SYMMETRY Symmetry
INVARIANTS
  BookkeepingExact
  ReceivesEach
  ShutdownCompletes
  DeliveredOnce
\* Values are bounded, and nothing has to happen after a shutdown.
CHECK_DEADLOCK FALSE
