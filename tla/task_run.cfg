\* One task through up to two runs, one of which may die, with the retry
\* limit of the default configuration.  Two runs give the file at most one
\* suffix.
SPECIFICATION Spec
CONSTANTS
  MaxRetries = 3
  CopyBodies = {"task"}
  MaxCopies = 1
  MaxStarts = 2
  MaxCrashes = 1
INVARIANTS
  TypeOK
  DoneOnlyWhenChecked
  RepairsBounded
  CheapFinishOnce
  RestsWhereLedgerSays
PROPERTIES
  RunEnds
\* The task may be at its end with no start left.
CHECK_DEADLOCK FALSE
