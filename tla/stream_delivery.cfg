\* A client of every kind; a log longer than the window, whose events may expire; one lost socket.
SPECIFICATION Spec
CONSTANTS
  Conns <- TwoConns
  MaxEvents = 3
  MaxUnack = 2
  MayExpire = TRUE
  Kinds <- OneKind
  Understood <- OneKind
  MaxSequence = 3
  MaxFaults = 1
INVARIANTS
  TypeOK
  AcksInWindow
PROPERTIES
  ReaderIsGapless
  EventsArrive
  ListenersGo
\* The session may end, and a client that has everything waits.
CHECK_DEADLOCK FALSE
