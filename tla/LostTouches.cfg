SPECIFICATION Spec
CONSTANTS
  aText = aText
  vInput = vInput
  vOption = vOption
  pathP = pathP
  pathQ = pathQ
  pathR = pathR
  vRadio1 = vRadio1
  vRadio2 = vRadio2
  vSelect = vSelect
  pathU = pathU
  propX = propX
  propY = propY
  propZ = propZ
  da = da
  db = db
  dc = dc
  Definitions = {da, db, dc}
  Imported = {da, db}
  Extends <- MCExtends
  Native = Native
  NoScripts = {dc}
  Styled = {da}
  MaxWhenReady = 2
  MaxForced = 1
  Properties = {propX, propY, propZ}
  Reflected = {propX}
  Computed <- MCComputed
  Observes <- MCObserves
  Method <- MCMethod
  Initially <- MCInitially
  Strings = {aText}
  TrueValue = TrueValue
  FalseValue = FalseValue
  Null = Null
  UndefinedValue = UndefinedValue
  Array = Array
  EmptyText = EmptyText
  NoAttribute = NoAttribute
  MaxWrites = 2
  MaxMoves = 1
  Paths = {pathP, pathQ, pathR, pathU}
  Views = {vInput, vRadio1, vRadio2, vSelect, vOption}
  Kind <- MCKind
  PathOf <- MCPathOf
  SelectOf <- MCSelectOf
  Group <- MCGroup
  Texts = {aText}
  Yes = Yes
  No = No
  UndefinedText = UndefinedText
  EmptyString = EmptyString
  NoView = NoView
  MaxInputs = 2
  Models = {model1, model2}
  Leaves = {leaf}
  Undef = Undef
  Lists = {list}
  Roots = {nodeTree}
  NoRoot = NoRoot
  NotArray = NotArray
  Empty = 0
  Longest = 2
  MaxInstances = 10
  MaxChanges = 6
  Trees <- MCTrees
  FilterLists <- MCFilterLists
  toDOM <- MCFlip
  toModel <- MCFlip
  Objects = {"root", "scope", "o1", "o2"}
  Own <- MCOwn
  parentScope <- MCParentScope
  Contents <- MCContents
  Places = {"scope"}
  NoTree <- MCNoTree
  PathNames = {"a"}
  TextValues = {"0", "none"}
  NoText = "none"
  Self = "self"
  Literals <- MCLiterals
  Remainders <- MCRemainders
  MaxMustaches = 2
  MaxModelWrites = 2
  Nodes = {"doc", "body", "host", "root", "inner"}
  Doc = "doc"
  UpFrom <- MCUpFrom
  ShadowRoots = {"root"}
  ElementAt <- MCElementAt
  Positions = {0, 30}
  PointerIds = {1, 2, 3}
  NoNode = "none"
  NoPointer = 0
  Preventable = {"trackstart"}
  Listened <- MCListened
  Changing <- MCChanging
  MaxListens = 1
  MaxQueue = 4
  Fingers = {2, 3}
  NoFinger = 0
  NoPosition = 99
  MaxEvents = 4
INVARIANTS
  AbandonedTouchesGone
CHECK_DEADLOCK FALSE
VIEW PartView
