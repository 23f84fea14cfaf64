SPECIFICATION Spec
CONSTANTS
  a = a
  b = b
  p1 = p1
  c1 = c1
  c2 = c2
  Items = {a, b}
  Hole = Hole
  MaxLen = 3
  MaxRecords = 2
  MaxText = 5
  Objects = {x, y}
  Props = {k}
  PropValues = {0, 1}
  Absent = Absent
  MaxChanges = 4
  PathObservers = {p1}
  Compounds = {c1, c2}
  Eager = {c2}
  Paths = {x, y}
  Values = {0, 1}
  Undefined = Undefined
  MaxCycles = 3
  MaxActs = 4
  MaxStack = 4
  PageThrows = TRUE
INVARIANTS
  SplicesAgree
  PathRoundTrip
  DiffsAgree
  NothingMissed
PROPERTIES
  ProcessedUnlessTaskThrows
CHECK_DEADLOCK FALSE
