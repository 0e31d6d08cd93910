SPECIFICATION FairSpec
CONSTANTS
  a = a
  b = b
  Services <- TwoServices
  Broken <- SecondBroken
  Persisted <- Started
  Writable <- FewWrites
  Counts <- SmallCounts
  Ids <- OneId
  RingSize = 1
  OutSize = 1
  MaxWrites = 0
  MaxFaults = 1
  MaxDrifts = 1
  MaxCrashes = 1
PROPERTY
  Converges
