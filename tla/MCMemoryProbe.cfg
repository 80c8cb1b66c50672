\* Three layouts, each of any size up to 2.5 MB and any missing address line.
SPECIFICATION Spec
CONSTANTS
  Top = 10
  NumConfigs = 3
  Boards <- MCBoards
CHECK_DEADLOCK FALSE
INVARIANTS
  KeptIsBest
PROPERTIES
  ComesUp
