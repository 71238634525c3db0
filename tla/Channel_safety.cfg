SPECIFICATION Spec
CONSTANTS
  o1 = o1
  o2 = o2
  o3 = o3
  Ops = {o1, o2}
  Deadline = {o1}
  ConnectTimeout = TRUE
  SlotCalls = {"start", "cancel", "destroy"}
  LateFrames = TRUE
  EarlyRefusals = FALSE
  MaxBatch = 2
  MaxMessages = 2
  MaxFailures = 2
INVARIANTS
  TypeOK
  FinishedOnce
  NothingLeftOver
  HeadersAfterSettings
  NoHandlerLost
  NoStrandedRpc
  NoMessageAfterCancel
CHECK_DEADLOCK FALSE
