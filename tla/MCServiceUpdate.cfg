SPECIFICATION Spec
CONSTANTS
  v1 = v1
  Blank = Blank
  Default = Default
  Names <- MCNames
  Values <- MCValues
  Tries <- MCTries
  MaxEdits = 2
INVARIANTS
  ImageConfigKept
  CreatableNames
PROPERTIES
  UndoesOnlyRacing
CHECK_DEADLOCK FALSE
