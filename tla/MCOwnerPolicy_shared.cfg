\* Two goroutines manage one mounted database; errors, crashes, power loss.
SPECIFICATION FairSpec
CONSTANTS
  None = None
  Flat = Flat
  Disabled = Disabled
  h1 = h1
  h2 = h2
  c1 = c1
  c2 = c2
  r1 = r1
  r2 = r2
  Handles <- OneHandle
  Callers <- TwoCallers
  Home <- SharedHome
  Revs <- TwoRevs
  InitialManifests <- AnyStart
  FaultKinds <- GitAnswers
  MaxCommits = 2
  MaxFaults = 2
INVARIANTS
  TypeOK
  NoStaleAdmission
PROPERTIES
  ImplementsRegister
  CallsReturn
