\* DDL calls of two processes; errors and crashes, then new attempts.
SPECIFICATION FairSpec
CONSTANTS
  p1 = p1
  p2 = p2
  n1 = n1
  n2 = n2
  a = a
  b = b
  None = None
  Absent = Absent
  Torn = Torn
  Procs <- TwoProcs
  Names <- TwoNames
  Fields <- TwoFields
  Files <- ThreeFiles
  YamlFiles <- OneAndTwo
  Scenarios <- AllScenarios
  MaxCalls = 4
  MaxOps = 2
  MaxFaults = 2
INVARIANT TypeOK
PROPERTIES
  NoLostAlter
  ColumnLeavesEveryRecord
  DdlTakesEffect
  DdlCallsReturn
CHECK_DEADLOCK FALSE
