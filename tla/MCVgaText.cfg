SPECIFICATION Spec
CHECK_DEADLOCK FALSE
CONSTANTS
  Lines = 3
  Cols = 3
  Byte = 6
INVARIANTS
  PositionOnScreen
  CursorHeals
PROPERTIES
  StoresNearScreen
