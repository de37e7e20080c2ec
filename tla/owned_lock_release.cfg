\* Pauses within the release margin, up to two beats in a row whose write fails, and B,
\* without a heartbeat, outlives the stale limit.
SPECIFICATION Spec
CONSTANTS
  A = A
  B = B
  C = C
  D = D
  NoDir = NoDir
  NoOwner = NoOwner
  Procs <- TwoProcs
  Leftovers <- CleanStart
  StaleMs = 8
  RetryMs = 1
  TimeoutMs = 2
  Beating <- OnlyA
  WriteErrors = TRUE
  ReadErrors = FALSE
  MissedBeats = 2
  LateBeats = FALSE
  MaxPause = 1
  MaxWork = 9
  MaxCalls = 1
  MaxCrashes = 0
  MaxNow = 11

  
PROPERTY
  ReleaseRemovesOnlyOwn
\* Every process makes MaxCalls calls and then stops.
CHECK_DEADLOCK FALSE
