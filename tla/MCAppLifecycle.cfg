SPECIFICATION FairSpec
CONSTANTS
  MaxQueued <- MCMaxQueued
INVARIANTS
  CauseReported
  StoreOutlivesComponents
PROPERTIES
  StopsWhenAsked
  OneEndsAll
