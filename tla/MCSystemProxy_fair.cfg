\* Refinement of BackupLog, and recovery once the faults are over: other
\* programs edit the settings between transactions only.
CONSTANTS
  a1 = a1
  a2 = a2
  corp = corp
  managed = managed
  own = own
  Supported = TRUE
  Servers <- MCServers2
  Overrides <- MCOverrides
  Addresses <- MCAddresses2
  ManagedOverride = managed
  Absent = Absent
  NoJournal = NoJournal
  NoBackup = NoBackup
  MaxFaults = 3
  MaxEdits = 2
  Interference = FALSE
SPECIFICATION FairSpec
PROPERTIES
  ImplementsBackupLog
  EventuallyRecovered
