\* Crashes, failed operations and edits by other programs at any moment.
CONSTANTS
  a1 = a1
  a2 = a2
  corp = corp
  managed = managed
  own = own
  Supported = TRUE
  Servers <- MCServers
  Overrides <- MCOverrides
  Addresses <- MCAddresses
  ManagedOverride = managed
  Absent = Absent
  NoJournal = NoJournal
  NoBackup = NoBackup
  MaxFaults = 2
  MaxEdits = 2
  Interference = TRUE
SPECIFICATION Spec
INVARIANTS
  TypeOK
  JournalCovers
  OwnedIsRecoverable
  OnMeansComplete
  CrashRecoverable
  HonestReturn
PROPERTY
  ForeignEditSpared
