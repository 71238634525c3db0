SPECIFICATION QmlSpec
CONSTANTS
  Ops = {1, 2, 3}
  Channels = {ch1, ch2}
  Refusals = TRUE
  Restart = FALSE
  JsOps = {1, 3}
  Callbacks <- MCCallbacks
  MaxMessages = 1
SYMMETRY MCSymmetry
INVARIANTS
  TrackedExactly
  LoopReadsAll
  HeardToTheEnd
  SenderKnowsEnd
CHECK_DEADLOCK FALSE
