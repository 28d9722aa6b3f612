\* One instance, channels on two nodes; handlers come and go, commands are resent.
CONSTANTS
  p1 = p1
  p2 = p2
  p3 = p3
  c1 = c1
  c2 = c2
  h1 = h1
  h2 = h2
  h3 = h3
  Instances = {p1}
  Channels = {c1, c2}
  Supports <- FirstChannel
  Micro <- NoMicro
  MaxListeners = 2
  Ttl = 2
  Node <- NodePerChannel
  Handlers = {h1, h2, h3}
  Boot <- TwoHandlers
  Dynamic = {h2, h3}
  QuietRemoval = TRUE
  Foreign = Foreign
  Malformed = Malformed
  Publishers = {p1, Malformed}
  MaxPublishes = 2
  MaxBusy = 1
  MayCrash = {}
  MayDrop = {p1}
  FlakySub = {}
  None = None
SPECIFICATION Spec
INVARIANT TypeOK
PROPERTY Fanout
