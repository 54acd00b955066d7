CONSTANTS
  NumTags = 2
  OutputIds = {a, b}
  None = None
  MaxOutputs = 2
  MaxWindows = 1
  FocusFollowsMouse = FALSE
  Inputs <- ScreenInputs
SPECIFICATION Spec
INVARIANT UnplugDropsFullscreenFlag
