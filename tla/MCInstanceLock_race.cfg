\* Two launches that both find a stale lease.
CONSTANTS
  Launches = {l1, l2, l3}
  Pids = {p1, p2, p3}
  NoFile = NoFile
  NoRecord = NoRecord
  NoPid = NoPid
  Reuse = FALSE
SPECIFICATION Spec
SYMMETRY Symmetry
\* The launches are finitely many, and every one comes to its end.
CHECK_DEADLOCK FALSE
INVARIANT
  Exclusive
