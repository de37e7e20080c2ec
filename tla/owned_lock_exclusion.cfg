\* Four processes, the lock of a dead fifth one, one call each, and no fault of any kind.
SPECIFICATION Spec
CONSTANTS
  A = A
  B = B
  C = C
  D = D
  NoDir = NoDir
  NoOwner = NoOwner
  Procs <- FourProcs
  Leftovers <- OnlyAbandoned
  StaleMs = 4
  RetryMs = 1
  TimeoutMs = 2
  Beating <- FourProcs
  WriteErrors = FALSE
  ReadErrors = FALSE
  MissedBeats = 0
  LateBeats = FALSE
  MaxPause = 0
  MaxWork = 5
  MaxCalls = 1
  MaxCrashes = 0
  MaxNow = 10
INVARIANT
  AtMostOneInside
SYMMETRY Symmetric
\* Every process makes MaxCalls calls and then stops.
CHECK_DEADLOCK FALSE
