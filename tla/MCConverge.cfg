SPECIFICATION FairSpec
CONSTANTS
  a = a
  b = b
  Services <- OneService
  Broken <- NoneBroken
  Persisted <- ScaledUp
  Writable <- UpAndDown
  Counts <- MCCounts
  Ids <- TwoIds
  RingSize = 1
  OutSize = 1
  MaxWrites = 1
  MaxFaults = 1
  MaxDrifts = 0
  MaxCrashes = 0
INVARIANT
  RefusedOnlyIfDisturbed
PROPERTIES
  Converges
  ComesToRest
