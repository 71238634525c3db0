SPECIFICATION Spec
CONSTANTS
  HeaderSize = 5
  MaxSize = 2
  MaxReceiveSize = 2
  Messages <- MCMessages
  Garbage = {0, 3}
  MaxSent = 3
  LateFrames = FALSE
INVARIANTS
  DeliveredExact
  NothingWithheld
  EndJustified
CHECK_DEADLOCK FALSE
