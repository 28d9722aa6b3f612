\* A micro producer without handlers and a consumer that may die or lose its subscription; others publish too.
CONSTANTS
  p1 = p1
  p2 = p2
  p3 = p3
  c1 = c1
  c2 = c2
  h1 = h1
  h2 = h2
  h3 = h3
  Instances = {p1, p2}
  Channels = {c1}
  Supports <- AllSupport
  Micro <- MicroFirst
  MaxListeners = 2
  Ttl = 2
  Node <- OneServer
  Handlers = {h1, h2, h3}
  Boot <- FirstHasNone
  Dynamic = {}
  QuietRemoval = TRUE
  Foreign = Foreign
  Malformed = Malformed
  Publishers = {p1, Foreign}
  MaxPublishes = 2
  MaxBusy = 1
  MayCrash = {p2}
  MayDrop = {}
  FlakySub = {p2}
  None = None
SPECIFICATION FairSpec
INVARIANT LockInv
PROPERTY HandledUnlessOwnerDies
PROPERTY LockEventuallyFree
