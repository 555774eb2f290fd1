\* AlterCollection of a collection whose record file is a map of records.
SPECIFICATION FairSpec
CONSTANTS
  p1 = p1
  p2 = p2
  n1 = n1
  n2 = n2
  a = a
  b = b
  None = None
  Absent = Absent
  Torn = Torn
  Procs <- TwoProcs
  Names <- TwoNames
  Fields <- TwoFields
  Files <- ThreeFiles
  YamlFiles <- OneAndTwo
  Scenarios <- AlteringOnce
  MaxCalls = 1
  MaxOps = 1
  MaxFaults = 0
PROPERTY DdlCallsReturn
CHECK_DEADLOCK FALSE
