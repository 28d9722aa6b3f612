\* One caller: its process dies within a refill, a command is sent twice, setHash writes at any time.
CONSTANTS
  c1 = c1
  c2 = c2
  Callers = {c1}
  LowMark = 3
  AutoExtends = 3
  Batch = 3
  Batches = {1, 2}
  Hashes = {0, 2}
  MaxCalls = 5
  MaxCrashes = 1
  MaxResends = 1
  None = None
SPECIFICATION Spec
INVARIANT SerialInv
INVARIANT Consecutive
