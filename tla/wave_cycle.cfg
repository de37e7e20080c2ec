\* Two workers over three tasks, through two starts of the loop, one of which
\* may die anywhere.
SPECIFICATION Spec
CONSTANTS
  a = a
  b = b
  c = c
  Tasks = {a, b, c}
  NoTask = none
  Graphs <- MCGraphs
  Requested = 2
  MaxStarts = 2
  MaxCrashes = 1
INVARIANTS
  TypeOK
  DoneIsMerged
  LiveApart
  NothingLeftBehind
PROPERTIES
  ReviewIsFinal
  LoopEnds
\* No start is left.
CHECK_DEADLOCK FALSE
