SPECIFICATION Spec
CONSTANTS
  MaxBridges = 2
  MaxFallbacks = 2
  None = None
\* A session's life ends: all its sockets closed and nothing left to do.
CHECK_DEADLOCK FALSE
INVARIANTS
  TypeOK
  ActiveHasRelay
PROPERTIES
  EndedStaysEnded
  RedialAfterJob
  RelayedSessionEnds
