\* Two projects, room for one (the second evicts the first); one with requests; a server and its successor.
SPECIFICATION BoundedSpec
CONSTANTS
  Keys = {k1, k2}
  Conns = {c1, c2}
  Servers = {s1, s2}
  Sweeper = sweeper
  None = none
  Threads = {c1, c2, s1, s2, sweeper}
  MaxServers = 1
  MaxRequests = 1
INVARIANTS
  TypeOK
  NobodyLeftOpen
  TracesAreOfConnections
  OneHandshakeUnlessMixed
  AnswersAreOwnUnlessMixed
SYMMETRY Symmetry
CHECK_DEADLOCK FALSE
