\* Two saves over two connections; their writes may overlap, and others write too.
SPECIFICATION BoundedSpec
CONSTANTS
  Callers = {"save", "other"}
  MaxAttempts = 2
  MaxTexts = 2
  MaxSaves = 2
INVARIANTS
  TypeOK
  OneConnection
  
  
  SaveIsCarried
PROPERTIES
  CancelledNeverYields
  SavesSettle
CHECK_DEADLOCK FALSE
