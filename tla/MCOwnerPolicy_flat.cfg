\* First publication over a committed flat manifest.
SPECIFICATION Spec
CONSTANTS
  None = None
  Flat = Flat
  Disabled = Disabled
  h1 = h1
  h2 = h2
  c1 = c1
  c2 = c2
  r1 = r1
  r2 = r2
  Handles <- OneHandle
  Callers <- OneCaller
  Home <- OneHome
  Revs <- TwoRevs
  InitialManifests <- LegacyFlat
  FaultKinds <- ErrorsAndCrashes
  MaxCommits = 1
  MaxFaults = 1
INVARIANTS
  RecoversFromAnyPointer
