SPECIFICATION Spec
CONSTANTS
  Counts <- MCCounts
  Ids <- MCIds
INVARIANTS
  TypeOK
  AtMostTwoRounds
  QuietIffSatisfied
  NeverRefused
  DecisionsExecutable
