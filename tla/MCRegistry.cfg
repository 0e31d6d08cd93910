SPECIFICATION FairSpec
CONSTANTS
  KeyOrder <- MCKeyOrder
  NoName = NoName
  RingSize = 2
  OutSize = 1
  MaxWrites = 4
INVARIANTS
  ListsSeparate
  WatchFaithful
PROPERTIES
  WatchEnds
