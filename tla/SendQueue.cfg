SPECIFICATION FairSpec
CONSTANTS
  Sizes = {1, 3}
  MaxWrites = 4
INVARIANTS
  BytesExact
  PacingExact
  EndStreamLast
  UploadNeedsHeaders
PROPERTIES
  NoWrittenAfterFinished
  EveryWriteReported
CHECK_DEADLOCK FALSE
