\* The mobile app, which knows output only; nothing is lost or forgotten.
SPECIFICATION Spec
CONSTANTS
  Conns <- TwoConns
  MaxEvents = 3
  MaxUnack = 2
  MayExpire = FALSE
  Kinds <- BothKinds
  Understood <- OutputOnly
  MaxSequence = 2
  MaxFaults = 0
PROPERTY EventsArrive
CHECK_DEADLOCK FALSE
