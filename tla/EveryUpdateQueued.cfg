SPECIFICATION Spec
CONSTANTS
  a = a
  b = b
  Services <- OneService
  Broken <- NoneBroken
  Persisted <- Empty
  Writable <- UpAndDown
  Counts <- MCCounts
  Ids <- OneId
  RingSize = 2
  OutSize = 2
  MaxWrites = 2
  MaxFaults = 0
  MaxDrifts = 0
  MaxCrashes = 0
INVARIANT
  EveryUpdateQueued
