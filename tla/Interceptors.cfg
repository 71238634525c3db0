SPECIFICATION Spec
CONSTANTS
  Interceptors = {"auth", "meta", "log"}
  Capabilities <- MCCapabilities
  Owning = {"auth", "meta"}
  Rewriting = {"log"}
  Ops = {"rpc"}
  Threads = {"main", "other"}
  MaxChain = 3
INVARIANTS
  CalledInOrder
  EndSeenOnce
PROPERTY
  NoneStranded
CHECK_DEADLOCK FALSE
