\* Both strategies over three interfaces whose health changes at any moment.
CONSTANTS
  N = 3
  Callers = {c1, c2}
  NoCaller = NoCaller
SPECIFICATION BalancerSpec
INVARIANTS
  TurnComes
  PriorityKept
PROPERTY
  EvenTurns
