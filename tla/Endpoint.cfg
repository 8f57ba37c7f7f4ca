\* One stream longer than its window, or two requests that cross, in the parts of MCEndpoint.
SPECIFICATION BoundedSpec
CONSTANTS
  MaxRequests = 2
  MaxChunks = 5
  Window = 4
INVARIANTS NoProtocolError CreditConserved WindowRespected BacklogIsDriven
PROPERTIES ImplementsRequestStream RequestsSettle
CHECK_DEADLOCK FALSE
