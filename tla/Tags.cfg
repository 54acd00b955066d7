CONSTANTS
  NumTags = 3
  OutputIds = {a, b, c}
  None = None
  MaxOutputs = 3
  MaxWindows = 1
  FocusFollowsMouse = FALSE
  Inputs <- TagInputs
SYMMETRY MonitorSymmetry
SPECIFICATION Spec
INVARIANTS TypeOK TagOwnership
PROPERTIES ImplementsGlobalTags
