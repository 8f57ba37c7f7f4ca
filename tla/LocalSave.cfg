\* Either kind of file; while it is saved the user edits, closes and opens it, and it is merged.
SPECIFICATION FairSpec
CONSTANTS
  MaxTexts = 2
  Fsync = TRUE
  WhileSaving = {"edit", "sweep", "close", "reopen"}
INVARIANTS
  EditsKeepTheirMarks
  MergeBaseIsOnDisk
  WholeAfterCrash
  ExitStatusIsTrue
PROPERTIES
  QuitLosesNothing
  QuitEnds
CHECK_DEADLOCK FALSE
