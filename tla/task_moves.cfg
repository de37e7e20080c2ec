\* Two movers, one of which may die anywhere, over whatever lock a third one may have left.
SPECIFICATION Spec
CONSTANTS
  A = A
  B = B
  task = task
  another = another
  third = third
  NoDir = NoDir
  NoOwner = NoOwner
  NoFile = NoFile
  Procs <- TwoProcs
  Leftovers <- AnyStart
  StaleMs = 2
  TimeoutMs = 4
  WriteErrors = TRUE
  MinRetryMs = 1
  RetryMs = 1
  Buckets <- FourFolders
  Names <- OneName
  Contents <- ThreeContents
  StartFiles <- TwoTasks
  MaxHold = 2
  MaxCopies = 2
  MaxCalls = 1
  MaxCrashes = 1
  MaxNow = 6
INVARIANTS
  TypeOK
  NoTaskLost
  ReviewStaysOpenForOwnName
PROPERTIES
  HistoryOnlyGrows
  DeadHolderNeverTimesOut
SYMMETRY Symmetric
\* Every process makes MaxCalls moves and then stops.
CHECK_DEADLOCK FALSE
