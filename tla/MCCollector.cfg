SPECIFICATION FairSpec
CONSTANTS
  s1 = s1
  s2 = s2
  s3 = s3
  s4 = s4
  s5 = s5
  Services <- MCServices
  PageSize <- MCPageSize
  MaxChanges <- MCMaxChanges
INVARIANTS
  CompleteUnlessShifted
  PagesBounded
PROPERTIES
  CollectionEnds
