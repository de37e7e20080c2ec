\* Two sessions one after the other, two devices, a gateway that may die.
SPECIFICATION FairSpec
CONSTANTS
  phone = phone
  tablet = tablet
  NoSession = NoSession
  Sessions <- TwoSessions
  Devices <- TwoDevices
  Requests <- OneRequest
  Inputs <- OneInput
  MaxRestarts = 1
INVARIANTS
  TypeOK
  OneTerminal
  ControlIsReserved
  InputAtMostOnce
  RunningIsRecoverable
PROPERTIES
  RevokedWritesNothing
  HostIsFreed
\* When every session is over nothing is left to do.
CHECK_DEADLOCK FALSE
