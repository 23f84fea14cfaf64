SPECIFICATION FairSpec
CONSTANTS
  Tabs = {t1}
  NoTab = NoTab
  Users = {u1, u2}
  NoUser = NoUser
  Addresses = {a1, a2}
  Versions = {v1}
  Nowhere = Nowhere
  Slots = {s1, s2}
  Duration = 3
  PreExpire = 2
  MaxTime = 4
  MaxWhims = 1
  MaxTrouble = 1
INVARIANTS
  StaysLoggedIn
  HeardLast
PROPERTIES
  GetsToGame
CHECK_DEADLOCK FALSE
