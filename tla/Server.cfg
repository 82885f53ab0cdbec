CONSTANTS
  c1 = c1
  c2 = c2
  Conns = {c1, c2}
  CtrlC = none
  Kinds = {"edit", "shutdown", "bad"}
  MaxFrames = 2
  Faults = {"accept", "setup"}
CHECK_DEADLOCK FALSE
SPECIFICATION Spec
INVARIANTS
  ExecutedInOrder
  AnswersMatch
  NothingAfterShutdown
  ExecutedIsAnswered
PROPERTIES
  RequestsResolved
  ShutdownReturns
  ThreadsEnd
