CONSTANTS
  NumTags = 3
  OutputIds = {a, b, c}
  None = None
  MaxOutputs = 3
  MaxWindows = 0
  FocusFollowsMouse = FALSE
  Inputs <- WarpInputs
SPECIFICATION Spec
INVARIANT WarpReachesTarget
