\* A tunnel established while Stop is closing the others.
CONSTANTS
  Handlers = {h1}
  Faulty = FALSE
SPECIFICATION Spec
\* The server stops for good and its handlers come to their end.
CHECK_DEADLOCK FALSE
INVARIANT
  TunnelsClosed
