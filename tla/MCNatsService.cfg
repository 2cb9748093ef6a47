SPECIFICATION Spec
CONSTANTS
  Messages = {m1, m2}
  Wrappers = {w1, w2}
  MethodsOf <- MCMethodsOf
  Dynamic = {app}
  SubjectOf <- MCSubjectOf
  QueueOf <- MCQueueOf
  Requesters <- MCRequesters
  HooksInOrder = FALSE
  Null = Null
  w1 = w1
  w2 = w2
  onCreated = onCreated
  onTask = onTask
  app = app
  m1 = m1
  m2 = m2
  queue = queue
INVARIANTS
  ConsumedInOrder
  StartedListens
PROPERTIES
  ShutdownCloses
  DeliveredIsHandled
\* A closed connection leaves only the link to change.
CHECK_DEADLOCK FALSE
