\* Two outputs against a window of one, and an owner that writes, in the parts of MCProcessRelay.
SPECIFICATION BoundedSpec
CONSTANTS
  Fds = {1, 2}
  Window = 1
  MaxOut = 2
  MaxIn = 2
INVARIANTS
  TypeOK
  CreditAddsUp
PROPERTIES
  ImplementsPipes
  EndIsSeen
  NoneLeftRunning
CHECK_DEADLOCK FALSE
