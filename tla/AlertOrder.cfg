SPECIFICATION Spec
CONSTANTS
  s1 = s1
  s2 = s2
  e1 = e1
  Alerts = {s1, s2, e1}
  Priority <- MCPriority
  Fading = {s1}
  Handles = {h1, h2, h3, h4}
  MaxViews = 4
  MaxTimers = 3
  MaxDeferred = 3
  Calm = FALSE
  Null = Null
SYMMETRY Symmetry
PROPERTIES
  ShownAsRequested
