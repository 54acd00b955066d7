CONSTANTS
  NumTags = 2
  OutputIds = {a}
  None = None
  MaxOutputs = 1
  MaxWindows = 1
  FocusFollowsMouse = FALSE
  Inputs <- ScreenInputs
SPECIFICATION Spec
INVARIANT NoHiddenFullscreen
