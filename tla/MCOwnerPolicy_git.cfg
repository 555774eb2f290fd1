\* A pointer that was not written, and a recovery whose git show fails.
SPECIFICATION Spec
CONSTANTS
  None = None
  Flat = Flat
  Disabled = Disabled
  h1 = h1
  h2 = h2
  c1 = c1
  c2 = c2
  r1 = r1
  r2 = r2
  Handles <- OneHandle
  Callers <- OneCaller
  Home <- OneHome
  Revs <- TwoRevs
  InitialManifests <- FreshOrPublished
  FaultKinds <- ErrorsAndGit
  MaxCommits = 1
  MaxFaults = 2
INVARIANTS
  SnapshotIsAuthoritative
