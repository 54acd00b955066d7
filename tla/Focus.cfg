CONSTANTS
  NumTags = 2
  OutputIds = {a, b}
  None = None
  MaxOutputs = 2
  MaxWindows = 2
  FocusFollowsMouse = TRUE
  Inputs <- FocusInputs
SYMMETRY MonitorSymmetry
SPECIFICATION Spec
PROPERTIES KeyboardRouted
