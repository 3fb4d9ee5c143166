\* Every user input, failures of the transaction, crashes and relaunches.
CONSTANTS
  a1 = a1
  corp = corp
  managed = managed
  own = own
  Supported = TRUE
  Servers <- MCServers
  Overrides <- MCOverrides
  Addresses <- MCAddresses
  ManagedOverride = managed
  Absent = Absent
  NoJournal = NoJournal
  NoBackup = NoBackup
  MaxFaults = 4
  MaxEdits = 1
  Interference = FALSE
SPECIFICATION FairAppSpec
INVARIANTS
  AppTypeOK
  OwnedBySession
  NeverBeginsTwice
  CleanExit
  ExitOnlyAfterFailure
PROPERTIES
  BoundBeforeEnabled
  DeadServerReleased
