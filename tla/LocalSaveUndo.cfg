\* One background save, during which the user may undo.
SPECIFICATION Spec
CONSTANTS
  MaxTexts = 2
  Fsync = TRUE
  WhileSaving = {"edit", "undo"}
INVARIANTS
  UnmodifiedMeansSaved
CHECK_DEADLOCK FALSE
