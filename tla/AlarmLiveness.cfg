SPECIFICATION FairSpec
CONSTANTS
  p1 = p1
  p2 = p2
  t1 = t1
  t2 = t2
  Persistent = {p1}
  Transient = {t1}
  Repeat <- MCRepeat
  Delays = {0}
  Unloadable = {}
  Timers = {f1, f2, f3}
  PoolSize = 2
  MinSleep = 1
  BackendFails = FALSE
  EarlyClients = FALSE
  Horizon = 1
  MaxLag = 0
  MaxJobs = 1
  MaxCrashes = 1
  Null = Null
INVARIANTS
  WakeupScheduled
PROPERTIES
  AlarmsFire
