\* A crash inside Restore makes the next launch refuse to recover.
CONSTANTS
  a1 = a1
  a2 = a2
  corp = corp
  managed = managed
  own = own
  Supported = TRUE
  Servers <- MCServers
  Overrides <- MCOverrides
  Addresses <- MCAddresses
  ManagedOverride = managed
  Absent = Absent
  NoJournal = NoJournal
  NoBackup = NoBackup
  MaxFaults = 2
  MaxEdits = 0
  Interference = FALSE
SPECIFICATION Spec
INVARIANT
  NeverRefusedWithoutEdit
