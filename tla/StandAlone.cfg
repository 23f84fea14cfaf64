SPECIFICATION MCSpec
CONSTANTS
  Actions = {a1, a2, a3}
  Cleanups = {c1, c2}
  MaxHistory = 1
  MaxTime = 2
  Null = Null
  MaxTabs = 3
  Names = {n1, n2}
  Contents = {w1, w2}
  StaleHandles = FALSE
  NullWidgets = FALSE
  NoTab = NoTab
  NumVariables = 4
  Links <- MCLinks
  Priorities = {1, 2}
  MaxConstraints = 3
  MaxPlans = 2
  NumCallbacks = 2
  MaxTests = 2
  MaxPageCalls = 2
  MaxRunStack = 4
  CallbacksThrow = TRUE
INVARIANTS
  RecentCallsKept
  PlansAreSound
  HarnessTells
PROPERTIES
  NothingLeftBehind
  OneTabShown
  TestsComplete
CHECK_DEADLOCK FALSE
