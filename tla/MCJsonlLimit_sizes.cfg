\* Streams up to twelve bytes, every limit around them, every way to cut the reads.
SPECIFICATION FairSpec
CONSTANTS
  InitialCapacity = 2
  MaxInt = 12
  Sizes <- SmallSizes
  Limits <- SomeLimits
  MaxCalls = 2
INVARIANTS
  TypeOK
  LimitVerdict
  CapacityBounded
PROPERTIES
  CommittedBytesStay
  ReadReturns
CHECK_DEADLOCK FALSE
