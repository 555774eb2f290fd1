\* Two processes, every kind of fault, another program committing.
SPECIFICATION FairSpec
CONSTANTS
  p1 = p1
  p2 = p2
  parent = parent
  child = child
  None = None
  Absent = Absent
  Torn = Torn
  Plain = Plain
  Procs <- TwoProcs
  Keys <- TwoKeys
  Parents <- OneParent
  Paths <- TwoFiles
  MapPaths <- MapFile
  PathOf <- TwoKeyPaths
  Scenarios <- AllScenarios
  MaxTxs = 2
  MaxOps = 2
  MaxCommits = 1
  MaxFaults = 2
INVARIANTS
  TypeOK
  ReadsAreOfOneState
  ProjectIsSound
PROPERTIES
  FailedLeavesNoTrace
  CommitIsTheTransaction
  AcknowledgedIsCommitted
  TransactionsEnd
CHECK_DEADLOCK FALSE
