\* Three instances, one of which has no handlers and may die; a message sent twice.
CONSTANTS
  p1 = p1
  p2 = p2
  p3 = p3
  c1 = c1
  c2 = c2
  h1 = h1
  h2 = h2
  h3 = h3
  Instances = {p1, p2, p3}
  Channels = {c1}
  Supports <- AllSupport
  Micro <- NoMicro
  MaxListeners = 2
  Ttl = 2
  Node <- OneServer
  Handlers = {h1, h2, h3}
  Boot <- FirstHasNone
  Dynamic = {}
  QuietRemoval = TRUE
  Foreign = Foreign
  Malformed = Malformed
  Publishers = {Foreign}
  MaxPublishes = 2
  MaxBusy = 1
  MayCrash = {p1}
  MayDrop = {}
  FlakySub = {}
  None = None
SPECIFICATION Spec
INVARIANT MutualExclusion
INVARIANT SkipIsCovered
INVARIANT NoLeakedLock
PROPERTY ReleaseIsOwn
PROPERTY ImplementsLock
SYMMETRY Peers
