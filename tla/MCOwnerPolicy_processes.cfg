\* Two processes publish, recover and open; errors, crashes, and Git
\* commands that fail and are taken for an answer.
SPECIFICATION Spec
CONSTANTS
  None = None
  Flat = Flat
  Disabled = Disabled
  h1 = h1
  h2 = h2
  c1 = c1
  c2 = c2
  r1 = r1
  r2 = r2
  Handles <- TwoHandles
  Callers <- TwoCallers
  Home <- TwoHomes
  Revs <- TwoRevs
  InitialManifests <- AnyStart
  FaultKinds <- NoPowerLoss
  MaxCommits = 2
  MaxFaults = 2
INVARIANTS
  Recoverable
  NoBlindOverwrite
  SnapshotIsOneCommit
PROPERTIES
  NoUnprotectedOpen
