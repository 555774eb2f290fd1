\* The stream is in a directory that its first writer creates.
SPECIFICATION Spec
CONSTANTS
  h1 = h1
  h2 = h2
  t1 = t1
  t2 = t2
  None = None
  Torn = Torn
  Handles <- TwoHandles
  Threads <- TwoThreads
  Nested = TRUE
  FaultKinds <- Crashes
  Settings <- FirstAppends
  MaxCalls = 2
  MaxFaults = 2
INVARIANT AcknowledgedSurvives
CHECK_DEADLOCK FALSE
