\* One producer and two consumers, one of which may fail.
CONSTANTS
  p = p
  c1 = c1
  c2 = c2
  Producers = {p}
  Consumers = {c1, c2}
  PushNames <- Full
  PopNames <- Short
  Textual = {1}
  Parsing = {c1}
  Readers = {c1}
  QueuePrefix = "log:"
  Unset = Unset
  Timeouts = {1}
  Trims <- KeepLast
  MaxCalls = 4
  MaxFaults = 1
  MayFail = {c1}
  None = None
SPECIFICATION FairSpec
INVARIANT TypeOK
INVARIANT NoIdleConsumer
INVARIANT InOrder
INVARIANT ReceivedOnce
PROPERTY ImplementsQueue
PROPERTY CallsSettle
