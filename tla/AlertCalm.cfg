SPECIFICATION FairSpec
CONSTANTS
  s1 = s1
  s2 = s2
  e1 = e1
  Alerts = {s1, s2, e1}
  Priority <- MCPriority
  Fading = {s1, s2}
  Handles = {h1, h2, h3}
  MaxViews = 3
  MaxTimers = 3
  MaxDeferred = 3
  Calm = TRUE
  Null = Null
PROPERTIES
  ImplementsBoard
  FadingIsKept
