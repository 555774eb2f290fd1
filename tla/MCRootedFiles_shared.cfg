\* Two goroutines of one process and a second process; errors, kills, power loss.
SPECIFICATION FairSpec
CONSTANTS
  h1 = h1
  h2 = h2
  t1 = t1
  t2 = t2
  None = None
  Torn = Torn
  Handles <- TwoHandles
  Threads <- TwoThreads
  Nested = FALSE
  FaultKinds <- AllFaults
  Settings <- AllSettings
  MaxCalls = 6
  MaxFaults = 2
INVARIANTS
  TypeOK
  RootOpenWhileInUse
  ViewWithinLock
  ReadersSeeWholeLines
PROPERTIES
  StreamIsDurable
  DocumentIsDurable
  ReplayThenAppend
  RootedCallsReturn
CHECK_DEADLOCK FALSE
