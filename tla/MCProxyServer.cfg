\* Two CONNECT handlers, Stop at any moment, a listener that may break.
CONSTANTS
  Handlers = {h1, h2}
  Faulty = TRUE
SPECIFICATION Spec
SYMMETRY Symmetry
\* The server stops for good and its handlers come to their end.
CHECK_DEADLOCK FALSE
INVARIANTS
  TypeOK
  ActiveIsExact
  NothingLeaks
  StopCloses
