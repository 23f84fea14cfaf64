SPECIFICATION Spec
CONSTANTS
  cNode = cNode
  dNode = dNode
  fNode = fNode
  gNode = gNode
  hNode = hNode
  iNode = iNode
  lNode = lNode
  rNode = rNode
  r1 = r1
  r2 = r2
  sNode = sNode
  xNode = xNode
  yNode = yNode
  doc = doc
  button = button
  xTag = xTag
  yTag = yTag
  ca = ca
  cc = cc
  csRoot = csRoot
  ia = ia
  ib = ib
  ua = ua
  ub = ub
  uc = uc
  ud = ud
  la = la
  lb = lb
  lc = lc
  ld = ld
  la2 = la2
  lc2 = lc2
  a1 = a1
  b1 = b1
  c1 = c1
  d1 = d1
  e1 = e1
  Nodes = {rNode, cNode, gNode}
  None = None
  FirstParent <- MCFirstParent
  RawOptions <- MCRawOptions
  NumObservers = 2
  MaxMutations = 3
  MaxCalls = 2
  CallbacksThrow = TRUE
  DomNodes = {hNode, r1, r2, cNode, sNode, xNode, yNode, dNode, fNode}
  Host = hNode
  Roots <- MCRoots
  Fragments = {fNode}
  Contents = {cNode}
  Selective = {cNode}
  Shadows = {sNode}
  FirstTree <- MCFirstTree
  FirstIn <- MCFirstIn
  Null = Null
  Undef = Undef
  MaxOps = 3
  EvNodes = {doc, hNode, lNode, rNode, cNode, iNode}
  Win = Win
  EvDocument = doc
  EvParent <- MCEvParent
  RootHost <- MCRootHost
  ScopeOf <- MCScopeOf
  Points <- MCPoints
  OlderTree <- MCOlder
  VisualParent <- MCVisual
  NoNode = NoNode
  Types = {"click"}
  Bubbling = {"click"}
  AlwaysStopped = {}
  LoadLike = {}
  EvTargets = {hNode, rNode}
  EvSources = {iNode}
  EvRelated = {NoNode, hNode}
  MaxListeners = 2
  MaxRemovals = 1
  MaxDispatches = 2
  CeDocument = CeDocument
  CeImportsOf <- MCCeImportsOf
  CeElements = {ca, cc}
  CeRoots = {csRoot}
  CeRootsOf <- MCCeRootsOf
  CeParent <- MCCeParent
  NoCe = NoCe
  Names = {xTag, yTag}
  LocalName <- MCLocalName
  IsName <- MCIsName
  ExtendsName <- MCExtendsName
  CePlaces = {CeDocument, csRoot, ia}
  MaxCeOps = 3
  Urls = {ua, ub, uc, ud}
  RootDoc = RootDoc
  Links = {la, lb, lc, la2, lc2, ld}
  Scripts = {a1, b1, c1, d1, e1}
  Href <- MCHref
  DocumentContents <- MCDocuments
  Added = {e1, ld}
  NoDoc = NoDoc
  NoElement = NoElement
  NumJsObservers = 2
  TreeNodes = {"root", "mid", "leaf"}
  RootedAt <- MCRootedAt
  NoParent = "none"
  ObserveOptions <- MCObserveOptions
  MaxEventCount = 2
  MaxObserveCalls = 2
  PageCallbacksThrow = TRUE
  Ports <- MCPorts
  FileScheme <- MCFileScheme
  Addresses <- MCAddresses
  Starts <- MCStarts
  Given <- MCGiven
  BaseTexts <- MCBaseTexts
  MaxSettings = 2
INVARIANTS
  MutationsHeard
  NothingStranded
  TreesKept
  EventsHeard
  ElementsKept
  ImportsKept
  RecordsReach
PROPERTIES
  UrlKept
CHECK_DEADLOCK FALSE
VIEW PartView
