SPECIFICATION Spec
CONSTANTS
  a = a
  b = b
  Services <- OneService
  Broken <- NoneBroken
  Persisted <- Empty
  Writable <- UpAndDown
  Counts <- MCCounts
  Ids <- OneId
  RingSize = 1
  OutSize = 1
  MaxWrites = 2
  MaxFaults = 1
  MaxDrifts = 1
  MaxCrashes = 1
INVARIANTS
  TypeOK
  OneAtATime
  UpdateTracked
  StaleOnlyIfOvertaken
PROPERTIES
  NothingUndone
  RestKept
