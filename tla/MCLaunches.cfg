\* Four launches at any moments, recycled process IDs, and the proxy settings
\* they share.
CONSTANTS
  Launches = {l1, l2, l3, l4}
  Pids = {p1, p2, p3}
  NoFile = NoFile
  NoRecord = NoRecord
  NoPid = NoPid
  NoOne = NoOne
  Reuse = TRUE
SPECIFICATION WorkSpec
SYMMETRY Symmetry
\* The launches are finitely many, and every one comes to its end.
CHECK_DEADLOCK FALSE
INVARIANTS
  TypeOK
  AtMostOneHolder
  HolderHasLease
  OneRemovalSuffices
  SimultaneousExclusion
  TransactionSpared
PROPERTY
  ReleaseSparesOthers
