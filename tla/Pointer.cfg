CONSTANTS
  SeatIds = {a, b}
  None = None
  MaxWindows = 1
  Span = 0
  MaxCoord = 4
  CellWidth = 2
  MinSize = 1
SPECIFICATION PointerSpec
INVARIANTS PointerTypeOK OpsOnLiveSeats OpsAgree CursorMatchesOp
PROPERTY ReleasedOpEnds
