\* Two clients inspect and write batches while policies are published and another program writes.
SPECIFICATION Spec
CONSTANTS
  c1 = c1
  c2 = c2
  k1 = k1
  m1 = m1
  m2 = m2
  f = f
  g = g
  None = None
  Absent = Absent
  Torn = Torn
  Clients <- TwoClients
  Keys <- ThreeKeys
  Paths <- TwoPaths
  PathOf <- KeyPaths
  MapPaths <- MapFile
  Fields <- TwoFields
  Values <- TwoValues
  Permits <- Revoking
  Batches <- SomeBatches
  OtherWrites <- SomeWrites
  Scenarios <- AllScenarios
  MaxCalls = 3
  MaxWrites = 1
  MaxFaults = 1
SYMMETRY ClientSymmetry
INVARIANTS
  TypeOK
PROPERTIES
  
  BatchIsAtomic
  NoUnseenOverwrite
  ReceiptIsRevision
CHECK_DEADLOCK FALSE
