SPECIFICATION FairSpec
CONSTANTS
  o1 = o1
  o2 = o2
  o3 = o3
  Ops = {o1, o2}
  Deadline = {o1, o2}
  ConnectTimeout = TRUE
  SlotCalls = {"cancel", "destroy"}
  LateFrames = FALSE
  EarlyRefusals = FALSE
  MaxBatch = 1
  MaxMessages = 2
  MaxFailures = 2
PROPERTIES
  EveryRpcEnds
  ImplementsContract
CHECK_DEADLOCK FALSE
