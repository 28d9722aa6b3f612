\* All ways to register the module, with options of every kind.
CONSTANTS
  s1 = s1
  s2 = s2
  Options <- AllOptions
  Servers = {s1, s2}
  WellFormed = {"chat-bot", "common"}
  Imports = {"useExisting"}
  Patient <- NeverGivesUp
  Unset = Unset
SPECIFICATION FairSpec
INVARIANT TypeOK
INVARIANT KindsAgree
INVARIANT QueueEndsMeet
INVARIANT Verdict
INVARIANT RefusedBeforeConnecting
PROPERTY BootstrapEnds
