\* Two forwarded requests, Stop at any moment, a listener that may break.
CONSTANTS
  Handlers = {f1, f2}
  Forwards = {f1, f2}
  NoConn = NoConn
  Faulty = TRUE
SPECIFICATION FairForwardSpec
\* The server stops for good and its requests come to their end.
CHECK_DEADLOCK FALSE
INVARIANTS
  ForwardTypeOK
  ActiveIsExact
  OneOwner
PROPERTIES
  StopEnds
  StopDrains
