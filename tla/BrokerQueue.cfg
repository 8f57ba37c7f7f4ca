\* A client queued where no handshake is coming.
SPECIFICATION Spec
CONSTANTS
  Keys = {k1}
  Conns = {c1, c2}
  Servers = {s1, s2}
  Sweeper = sweeper
  None = none
  Threads = {c1, c2, s1, s2, sweeper}
  MaxServers = 1
  MaxRequests = 1
INVARIANTS
  QueuedOnlyWhileStarting
SYMMETRY Symmetry
CHECK_DEADLOCK FALSE
