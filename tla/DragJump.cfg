CONSTANTS
  SeatIds = {a}
  None = None
  MaxWindows = 1
  Span = 2
  MaxCoord = 6
  CellWidth = 1
  MinSize = 1
SPECIFICATION PointerSpec
PROPERTY DragFollowsPointer
