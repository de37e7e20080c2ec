\* Two workers and one start: nothing dies.
SPECIFICATION Spec
CONSTANTS
  a = a
  b = b
  c = c
  Tasks = {a, b, c}
  NoTask = none
  Graphs <- MCGraphs
  Requested = 2
  MaxStarts = 1
  MaxCrashes = 0
INVARIANTS
  DependentsSeeTheirBlockers
\* No start is left.
CHECK_DEADLOCK FALSE
