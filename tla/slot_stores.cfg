\* Two loops on one slot, crashes and store failures at every step, children that outlast their lease.
CONSTANTS
  A = A
  B = B
  w1 = w1
  w2 = w2
  api = api
  web = web
  src = src
  www = www
  Loops = {A, B}
  Workers = {w1}
  Tasks = {api, web}
  Scopes = {api, src, www}
  WriteSet <- FileAndDirectory
  Clash <- Overlaps
  NoLoop = NoLoop
  NoTask = NoTask
  TTL = 2
  MaxWait = 0
  MaxPrepare = 1
  MaxRun = 3
  OneLoop = FALSE
  StoreFailures = TRUE
  MaxLeases = 4
  MaxNow = 4
SPECIFICATION Spec
INVARIANTS TypeOK ScopeLocksDisjoint HeldLeaseHasLocks
PROPERTIES FencingGrows ReleasedStaysReleased
SYMMETRY Alike
\* Every loop may be gone and every lease handed out.
CHECK_DEADLOCK FALSE
