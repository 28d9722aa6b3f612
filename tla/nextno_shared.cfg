\* Two callers, a crash, a command that ioredis sends twice.
CONSTANTS
  c1 = c1
  c2 = c2
  Callers = {c1, c2}
  LowMark = 1
  AutoExtends = 1
  Batch = 1
  Batches = {2}
  Hashes = {}
  MaxCalls = 4
  MaxCrashes = 1
  MaxResends = 1
  None = None
SPECIFICATION Spec
INVARIANT TypeOK
INVARIANT NothingSkipped
INVARIANT ListBounded
SYMMETRY AnyOrder
