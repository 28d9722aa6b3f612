\* A message of another publisher reaches an instance that has no handler.
CONSTANTS
  p1 = p1
  p2 = p2
  p3 = p3
  c1 = c1
  c2 = c2
  h1 = h1
  h2 = h2
  h3 = h3
  Instances = {p1, p2}
  Channels = {c1}
  Supports <- AllSupport
  Micro <- MicroFirst
  MaxListeners = 2
  Ttl = 2
  Node <- OneServer
  Handlers = {h1, h2, h3}
  Boot <- FirstHasNone
  Dynamic = {}
  QuietRemoval = TRUE
  Foreign = Foreign
  Malformed = Malformed
  Publishers = {Foreign}
  MaxPublishes = 1
  MaxBusy = 1
  MayCrash = {}
  MayDrop = {}
  FlakySub = {}
  None = None
SPECIFICATION Spec
PROPERTY LockedByRegistered
