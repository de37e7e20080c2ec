\* A loop dies over the child of one slot, and its successor starts one in another.
CONSTANTS
  A = A
  B = B
  w1 = w1
  w2 = w2
  api = api
  web = web
  src = src
  www = www
  Loops = {A, B}
  Workers = {w1, w2}
  Tasks = {api, web}
  Scopes = {api, src, www}
  WriteSet <- FileAndDirectory
  Clash <- Overlaps
  NoLoop = NoLoop
  NoTask = NoTask
  TTL = 3
  MaxWait = 0
  MaxPrepare = 1
  MaxRun = 1
  OneLoop = TRUE
  StoreFailures = FALSE
  MaxLeases = 3
  MaxNow = 4
SPECIFICATION Spec
INVARIANT ChildrenApart
SYMMETRY Interchangeable
\* Every loop may be gone and every lease handed out.
CHECK_DEADLOCK FALSE
