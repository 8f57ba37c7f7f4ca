\* A join that waits for work that needs the lock.
SPECIFICATION Spec
CONSTANTS
  Keys = {k1}
  Conns = {c1, c2}
  Servers = {s1, s2}
  Sweeper = sweeper
  None = none
  Threads = {c1, c2, s1, s2, sweeper}
  MaxServers = 1
  MaxRequests = 1
INVARIANTS
  JoinsOnlyFinished
SYMMETRY Symmetry
CHECK_DEADLOCK FALSE
