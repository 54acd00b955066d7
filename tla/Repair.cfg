CONSTANTS
  NumTags = 3
  OutputIds = {a}
  None = None
  MaxOutputs = 3
  Parts = 20
  MaxRules = 1
  Scenes <- SmallScenes
SPECIFICATION RepairSpec
INVARIANTS TableRepaired LoopIsClosedForm TilesFit NoSpaceLost FloatsOnTop
PROPERTIES FloatsOnScreen DialogsReadable
CHECK_DEADLOCK FALSE
