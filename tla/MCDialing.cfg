\* As many timeouts as interfaces fit into a dial.
CONSTANTS
  N = 2
  Callers = {c1}
  NoCaller = NoCaller
  Budget = 2
  Blocked = {1}
  MaxOutages = 1
  Stoppable = TRUE
SPECIFICATION FairSpec
INVARIANTS
  TypeOK
  NoFalseOutage
PROPERTY
  HealthConverges
