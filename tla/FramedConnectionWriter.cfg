\* A writer that gave up, and an owner that may never hear of it.
SPECIFICATION FairSpec
CONSTANTS
  MaxSent = 1
  MaxFrames = 2
  MaxPrinted = 0
  PipeRoom = 1
  MaxQueuedBytes = 1
  Charges = {1}
PROPERTIES
  WriterFailureIsReported
CHECK_DEADLOCK FALSE
