\* Frames of two sizes, the larger one over the limit, in the parts of MCFramedConnection.
SPECIFICATION BoundedSpec
CONSTANTS
  MaxSent = 2
  MaxFrames = 2
  MaxPrinted = 4
  PipeRoom = 2
  MaxQueuedBytes = 2
  Charges = {1, 3}
INVARIANTS
  TypeOK
  NoLineLost
  QueuedBytesExact
  GracefulAttemptsAll
PROPERTIES
  ImplementsInbound
  ImplementsOutbound
  DestructorReturns
  FramesArrive
  ExitIsReported
CHECK_DEADLOCK FALSE
