\* Records that cannot be read or written, a crash at any step, beats that outlive their hold.
SPECIFICATION FairSpec
CONSTANTS
  A = A
  B = B
  C = C
  D = D
  NoDir = NoDir
  NoOwner = NoOwner
  Procs <- TwoProcs
  Leftovers <- CleanStart
  StaleMs = 2
  RetryMs = 1
  TimeoutMs = 2
  Beating <- TwoProcs
  WriteErrors = TRUE
  ReadErrors = TRUE
  MissedBeats = 1
  LateBeats = TRUE
  MaxPause = 0
  MaxWork = 3
  MaxCalls = 1
  MaxCrashes = 1
  MaxNow = 5
INVARIANT
  TypeOK
PROPERTY
  CallsReturn
\* Every process makes MaxCalls calls and then stops.
CHECK_DEADLOCK FALSE
