\* A write that fails, or takes too long, after the owner has written and closed.
SPECIFICATION FairSpec
CONSTANTS
  Fds = {1}
  Window = 1
  MaxOut = 1
  MaxIn = 1
PROPERTIES
  InputEnds
CHECK_DEADLOCK FALSE
