SPECIFICATION FairSpec
CONSTANTS
  s1 = s1
  s2 = s2
  s3 = s3
  w1 = w1
  w2 = w2
  w3 = w3
  Services <- MCServices
  Workers <- MCWorkers
INVARIANTS
  PendingExact
  SingleFlight
  NoLostWakeup
PROPERTIES
  ImplementsServiceQueue
  EveryItemTaken
  WorkersStop
