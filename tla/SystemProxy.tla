----------------------------- MODULE SystemProxy -----------------------------
(***************************************************************************)
(* The transaction internal/sysproxy runs over the per-user Windows proxy  *)
(* settings: Manager.Begin, Manager.Restore and, at the next launch,       *)
(* Manager.Recover, with the registry writes of Enable and Restore taken   *)
(* one at a time.  The process may be killed between any two of them, each *)
(* of them may fail, and other programs may edit the settings meanwhile.   *)
(*                                                                         *)
(* Manager.mu serialises the three calls and main runs Recover before any  *)
(* other call, so one routine is in progress at a time: op names it, and   *)
(* step counts the registry writes it has done.  The settings are read by  *)
(* one step, although Current reads three values.                          *)
(***************************************************************************)
EXTENDS Naturals

CONSTANTS
  Supported,        \* Supported(): TRUE on Windows, FALSE on Linux
  Servers,          \* strings the ProxyServer value can hold
  Overrides,        \* strings the ProxyOverride value can hold
  Addresses,        \* the listener addresses Begin may be called with
  ManagedOverride,  \* const managedOverride, the application's bypass list
  Absent,           \* HasServer / HasOverride = FALSE: no such value
  NoJournal,        \* the recovery journal file does not exist
  NoBackup,         \* Manager.backup = nil
  MaxFaults,        \* bound on the crashes and failed operations of a run
  MaxEdits,         \* bound on the edits made by other programs
  Interference      \* may other programs edit during an open transaction?

ASSUME SystemProxyAssumption ==
  /\ Supported \in BOOLEAN /\ Interference \in BOOLEAN
  /\ Addresses \subseteq Servers /\ ManagedOverride \in Overrides
  /\ Absent \notin Servers \cup Overrides
  /\ MaxFaults \in Nat /\ MaxEdits \in Nat

\* ProxySettings; ProxyEnable = 0 also stands for the missing DWORD, which
\* Current reads as 0.
Settings == [ enable   : {0, 1},
              server   : Servers \cup {Absent},
              override : Overrides \cup {Absent} ]

\* recoveryJournal, and the local copy of it that Begin fills in.
Journals == [ address : Addresses, backup : Settings ]

ASSUME SentinelAssumption ==
  /\ NoJournal \notin Journals
  /\ NoBackup \notin Settings

Fields == {"enable", "server", "override"}

VARIABLES
  reg,         \* the values under "Internet Settings" in the registry
  journal,     \* proxy-recovery.json
  active,      \* Manager.active
  backup,      \* Manager.backup
  op,          \* the routine in progress, "idle" between calls, "down"
  step,        \* registry writes done by that routine, plus one
  draft,       \* the journal Begin is about to install
  ret,         \* what the last call returned
  \* Bounds and history, read by no guard of the program.
  orig,        \* the settings the user chose last
  interfered,  \* were settings edited while a transaction was open?
  edited,      \* fields edited while the process was down, not written since
  faults,      \* crashes and failed operations so far
  edits        \* edits so far

disk == <<reg, journal>>
mem == <<active, backup>>
history == <<orig, interfered, edited>>
vars == <<reg, journal, active, backup, op, step, draft, ret,
          orig, interfered, edited, faults, edits>>

Restoring == {"undo", "rollback", "restore"}
Ops == Restoring \cup
       {"down", "recover", "idle", "begin", "enable", "cleanup", "forget"}
Returns == {"none", "began", "beginFailed", "restored", "restoreFailed"}

TypeOK ==
  /\ reg \in Settings
  /\ journal \in Journals \cup {NoJournal}
  /\ active \in BOOLEAN
  /\ backup \in Settings \cup {NoBackup}
  /\ op \in Ops
  /\ step \in 0..5
  /\ draft \in Journals \cup {NoJournal}
  /\ ret \in Returns
  /\ orig \in Settings
  /\ interfered \in BOOLEAN
  /\ edited \subseteq Fields
  /\ faults \in 0..MaxFaults
  /\ edits \in 0..MaxEdits

Init ==
  /\ reg \in Settings
  /\ journal = NoJournal
  /\ active = FALSE
  /\ backup = NoBackup
  /\ op = "down"
  /\ step = 0
  /\ draft = NoJournal
  /\ ret = "none"
  /\ orig = reg
  /\ interfered = FALSE
  /\ edited = {}
  /\ faults = 0
  /\ edits = 0

-----------------------------------------------------------------------------
(***************************************************************************)
(* Control.  Goto starts a routine; Return ends the call in progress;      *)
(* Fail charges a failed operation to the bound.                           *)
(***************************************************************************)
Goto(o) == op' = o /\ step' = (IF o \in Restoring \cup {"enable"} THEN 1 ELSE 0)

Return(r) == Goto("idle") /\ ret' = r /\ draft' = NoJournal

Fail == faults < MaxFaults /\ faults' = faults + 1

\* The process is gone: only the registry and the journal are left.
Stop == /\ Goto("down")
        /\ active' = FALSE /\ backup' = NoBackup
        /\ draft' = NoJournal /\ ret' = "none" /\ edited' = {}
        /\ UNCHANGED <<reg, journal, orig, interfered, edits>>

-----------------------------------------------------------------------------
(***************************************************************************)
(* Recover, called by main before anything else touches the settings.      *)
(***************************************************************************)

\* Faulty variant: only the managed value is recognised.
KnownManagedOnly(current, saved, managed) == current = managed

\* settingValueKnown: the value is the saved one or the managed one.
Known(current, saved, managed) == current \in {saved, managed}

\* Faulty variant: the application's own bypass list is not recognised.
MatchesSavedOverride(current, j) ==
  /\ Known(current.enable, j.backup.enable, 1)
  /\ Known(current.server, j.backup.server, j.address)
  /\ current.override = j.backup.override

\* matchesManagedTransition
Matches(current, j) ==
  /\ Known(current.enable, j.backup.enable, 1)
  /\ Known(current.server, j.backup.server, j.address)
  /\ Known(current.override, j.backup.override, ManagedOverride)

Launch ==
  /\ op = "down"
  /\ Goto("recover")
  /\ UNCHANGED <<disk, mem, draft, ret, history, faults, edits>>

\* Nothing to recover, or nothing this platform can recover.
RecoverNothing ==
  /\ op = "recover"
  /\ ~Supported \/ journal = NoJournal
  /\ Goto("idle") /\ edited' = {}
  /\ UNCHANGED <<disk, mem, draft, ret, orig, interfered, faults, edits>>

\* Faulty variant: every journal is taken for a leftover.
RecoverAnyLeftover ==
  /\ op = "recover"
  /\ Supported /\ journal # NoJournal
  /\ Goto("cleanup")
  /\ UNCHANGED <<disk, mem, draft, ret, history, faults, edits>>

\* The settings are the saved ones already: only the journal is left over.
RecoverLeftover ==
  /\ op = "recover"
  /\ Supported /\ journal # NoJournal
  /\ reg = journal.backup
  /\ Goto("cleanup")
  /\ UNCHANGED <<disk, mem, draft, ret, history, faults, edits>>

\* Faulty variant: the settings are not compared with the transaction's.
RecoverUnchecked ==
  /\ op = "recover"
  /\ Supported /\ journal # NoJournal
  /\ reg # journal.backup
  /\ Goto("undo")
  /\ UNCHANGED <<disk, mem, draft, ret, history, faults, edits>>

RecoverUndo ==
  /\ op = "recover"
  /\ Supported /\ journal # NoJournal
  /\ reg # journal.backup
  /\ Matches(reg, journal)
  /\ Goto("undo")
  /\ UNCHANGED <<disk, mem, draft, ret, history, faults, edits>>

\* "refusing to overwrite them": main prints the error and exits.
RecoverRefuse ==
  /\ op = "recover"
  /\ Supported /\ journal # NoJournal
  /\ reg # journal.backup
  /\ ~Matches(reg, journal)
  /\ Stop
  /\ UNCHANGED faults

\* readJournal or Current fails, or the journal cannot be removed: exit.
RecoverFails ==
  /\ \/ op = "recover" /\ Supported /\ journal # NoJournal
     \/ op = "cleanup"
  /\ Fail
  /\ Stop

-----------------------------------------------------------------------------
(***************************************************************************)
(* Begin                                                                   *)
(***************************************************************************)

\* Back the settings up and fill in the journal in memory.
Begin(address) ==
  /\ op = "idle" /\ Supported /\ ~active
  /\ Goto("begin")
  /\ draft' = [address |-> address, backup |-> reg]
  /\ ret' = "none"
  /\ UNCHANGED <<disk, mem, history, faults, edits>>

\* "system proxy transaction already active", or the backup cannot be read.
BeginRefused ==
  /\ op = "idle" /\ Supported
  /\ \/ active /\ UNCHANGED faults
     \/ ~active /\ Fail
  /\ Return("beginFailed")
  /\ UNCHANGED <<disk, mem, history, edits>>

\* writeJournal: a synced temporary file renamed over the journal.
JournalWritten ==
  /\ op = "begin"
  /\ journal' = draft /\ draft' = NoJournal
  /\ backup' = draft.backup
  /\ active' = TRUE
  /\ Goto("enable")
  /\ UNCHANGED <<reg, ret, history, faults, edits>>

JournalNotWritten ==
  /\ op = "begin"
  /\ Fail
  /\ Return("beginFailed")
  /\ UNCHANGED <<disk, mem, history, edits>>

\* Faulty variants: the address and the bypass list are written under each
\* other's names; ProxyEnable is written first.
EnableWriteSwapped ==
  /\ op = "enable" /\ step \in 1..3
  /\ reg' = CASE step = 1 -> [reg EXCEPT !.server = ManagedOverride]
              [] step = 2 -> [reg EXCEPT !.override = journal.address]
              [] step = 3 -> [reg EXCEPT !.enable = 1]
  /\ step' = step + 1
  /\ UNCHANGED <<journal, mem, op, draft, ret, history, faults, edits>>

EnableWriteFirst ==
  /\ op = "enable" /\ step \in 1..3
  /\ reg' = CASE step = 1 -> [reg EXCEPT !.enable = 1]
              [] step = 2 -> [reg EXCEPT !.server = journal.address]
              [] step = 3 -> [reg EXCEPT !.override = ManagedOverride]
  /\ step' = step + 1
  /\ UNCHANGED <<journal, mem, op, draft, ret, history, faults, edits>>

\* Enable writes the address and the bypass list, and ProxyEnable last.
EnableWrite ==
  /\ op = "enable" /\ step \in 1..3
  /\ reg' = CASE step = 1 -> [reg EXCEPT !.server = journal.address]
              [] step = 2 -> [reg EXCEPT !.override = ManagedOverride]
              [] step = 3 -> [reg EXCEPT !.enable = 1]
  /\ step' = step + 1
  /\ UNCHANGED <<journal, mem, op, draft, ret, history, faults, edits>>

\* notifyProxyChange
EnableNotify ==
  /\ op = "enable" /\ step = 4
  /\ Return("began")
  /\ UNCHANGED <<disk, mem, history, faults, edits>>

EnableFails ==
  /\ op = "enable"
  /\ Fail
  /\ Goto("rollback")
  /\ UNCHANGED <<disk, mem, draft, ret, history, edits>>

-----------------------------------------------------------------------------
(***************************************************************************)
(* Restore(backup), the registry half shared by Recover, by the rollback   *)
(* of Begin and by Manager.Restore: ProxyEnable is switched off, the       *)
(* values are written or deleted, and ProxyEnable is restored last.        *)
(***************************************************************************)
Source == IF op = "undo" THEN journal.backup ELSE backup

RestoreWrite ==
  /\ op \in Restoring /\ step \in 1..4
  /\ reg' = CASE step = 1 -> [reg EXCEPT !.enable = 0]
              [] step = 2 -> [reg EXCEPT !.server = Source.server]
              [] step = 3 -> [reg EXCEPT !.override = Source.override]
              [] step = 4 -> [reg EXCEPT !.enable = Source.enable]
  /\ edited' = edited \ {<<"enable", "server", "override", "enable">>[step]}
  /\ step' = step + 1
  /\ UNCHANGED <<journal, mem, op, draft, ret, orig, interfered, faults, edits>>

\* Faulty variant: the transaction stays active.
RestoreStaysActive ==
  /\ op \in Restoring /\ step = 5
  /\ ret' = CASE op = "rollback" -> "beginFailed"
              [] op = "restore" -> "restored"
              [] OTHER -> ret
  /\ Goto(IF op = "undo" THEN "cleanup" ELSE "forget")
  /\ UNCHANGED <<disk, mem, draft, history, faults, edits>>

\* notifyProxyChange succeeds: the caller gives up ownership and goes on to
\* remove the journal.
RestoreNotify ==
  /\ op \in Restoring /\ step = 5
  /\ active' = FALSE /\ backup' = NoBackup
  /\ ret' = CASE op = "rollback" -> "beginFailed"
              [] op = "restore" -> "restored"
              [] OTHER -> ret
  /\ Goto(IF op = "undo" THEN "cleanup" ELSE "forget")
  /\ UNCHANGED <<disk, draft, history, faults, edits>>

\* Faulty variants: the journal is removed although the settings are not
\* restored; the error of a failed restore is swallowed.
RestoreFailsForgets ==
  /\ op \in {"rollback", "restore"}
  /\ Fail
  /\ Goto("forget")
  /\ ret' = IF op = "rollback" THEN "beginFailed" ELSE "restoreFailed"
  /\ UNCHANGED <<disk, mem, draft, history, edits>>

RestoreErrorSwallowed ==
  /\ op \in {"rollback", "restore"}
  /\ Fail
  /\ Return(IF op = "rollback" THEN "beginFailed" ELSE "restored")
  /\ UNCHANGED <<disk, mem, history, edits>>

\* A failed rollback or restore keeps the transaction active for a retry; a
\* failed recovery ends the process with the journal in place.
RestoreFails ==
  /\ op \in {"rollback", "restore"}
  /\ Fail
  /\ Return(IF op = "rollback" THEN "beginFailed" ELSE "restoreFailed")
  /\ UNCHANGED <<disk, mem, history, edits>>

UndoFails ==
  /\ op = "undo"
  /\ Fail
  /\ Stop

\* removeJournal at the end of Recover, Begin's rollback or Restore.
RemoveJournal ==
  /\ op \in {"cleanup", "forget"}
  /\ journal' = NoJournal
  /\ edited' = {}
  /\ Return(ret)
  /\ UNCHANGED <<reg, mem, orig, interfered, faults, edits>>

RemoveJournalFails ==
  /\ op = "forget"
  /\ Fail
  /\ Return(IF ret = "restored" THEN "restoreFailed" ELSE ret)
  /\ UNCHANGED <<disk, mem, history, edits>>

\* Manager.Restore: nothing to do unless a transaction is active.
Restore ==
  /\ op = "idle"
  /\ IF active
     THEN Goto("restore") /\ ret' = "none" /\ UNCHANGED draft
     ELSE Return("restored")
  /\ UNCHANGED <<disk, mem, history, faults, edits>>

-----------------------------------------------------------------------------
(***************************************************************************)
(* The environment: main returns, the process is killed, and other         *)
(* programs or the user edit the settings.                                 *)
(***************************************************************************)

\* main exits with a transaction still active only after Restore failed.
Exit ==
  /\ op = "idle"
  /\ active => ret = "restoreFailed"
  /\ Stop
  /\ UNCHANGED faults

Crash ==
  /\ op # "down"
  /\ Fail
  /\ Stop

\* No transaction is open: the settings are the user's alone.
Settled == journal = NoJournal /\ op # "begin"

Changed(s) == { f \in Fields : s[f] # reg[f] }

ExternalEdit(s) ==
  /\ edits < MaxEdits
  /\ s # reg
  /\ Settled \/ Interference
  /\ reg' = s
  /\ orig' = IF Settled THEN s ELSE orig
  /\ interfered' = (interfered \/ ~Settled)
  /\ edited' = IF op = "down" THEN edited \cup Changed(s)
                              ELSE edited \ Changed(s)
  /\ edits' = edits + 1
  /\ UNCHANGED <<journal, mem, op, step, draft, ret, faults>>

-----------------------------------------------------------------------------
Recover ==
  RecoverNothing \/ RecoverLeftover \/ RecoverUndo \/ RecoverRefuse

\* The steps of a call in progress that do what the code asks of the system.
Proceed ==
  \/ Recover
  \/ JournalWritten
  \/ EnableWrite \/ EnableNotify
  \/ RestoreWrite \/ RestoreNotify
  \/ RemoveJournal

Failure ==
  \/ RecoverFails \/ JournalNotWritten \/ EnableFails
  \/ RestoreFails \/ UndoFails \/ RemoveJournalFails

Call == (\E a \in Addresses : Begin(a)) \/ BeginRefused \/ Restore

Next ==
  \/ Launch \/ Exit \/ Crash
  \/ Call \/ Proceed \/ Failure
  \/ \E s \in Settings : ExternalEdit(s)

\* A call in progress runs to its end, and the program is started again.
Fairness == WF_vars(Proceed) /\ WF_vars(Launch)

Spec == Init /\ [][Next]_vars
FairSpec == Spec /\ Fairness
-----------------------------------------------------------------------------
(***************************************************************************)
(* What the transaction promises.  An edit made by another program while a *)
(* transaction is open is not protected by any document, so the statements *)
(* about the user's values exclude runs where one happened.                *)
(***************************************************************************)

\* Journal first, restore before delete: in every state, the settings are the
\* user's or the journal on disk holds the user's, so that a crash between any
\* two registry writes loses nothing (CONTRIBUTING.md, docs/architecture.md).
JournalCovers ==
  ~interfered /\ reg # orig => journal # NoJournal /\ journal.backup = orig

\* What the process believes and what the disk says agree: a transaction held
\* in memory can always be finished by the next launch from its journal, even
\* when the in-process rollback or restore failed and the process then died.
OwnedIsRecoverable ==
  active => journal # NoJournal /\ journal.backup = backup

\* Enable's "partial write does not redirect traffic": when the user had no
\* proxy on, the proxy is on only with both managed values in place, whatever
\* write failed or crashed and whichever rollback or recovery followed.
OnMeansComplete ==
  ~interfered /\ orig.enable = 0 /\ reg.enable = 1
    => journal # NoJournal /\ reg.server = journal.address
                           /\ reg.override = ManagedOverride

\* What the next launch finds is the saved settings or a mix it recognises as
\* its own; the one mix it does not is Restore's first write over settings
\* whose proxy was on.  So a crash at any point is recoverable if it was off.
CrashRecoverable ==
  ~interfered /\ journal # NoJournal /\ journal.backup.enable = 0
    => reg = journal.backup \/ Matches(reg, journal)

\* Session drops a transaction when Restore returns nil and main exits when
\* Begin's rollback worked: at those returns the user's settings are back; and
\* when Begin returns nil the managed ones are all in force.
HonestReturn ==
  op = "idle" /\ ~interfered =>
    /\ ret = "restored" => reg = orig
    /\ ret = "beginFailed" /\ ~active => reg = orig
    /\ ret = "began" =>
         reg = [enable |-> 1, server |-> journal.address,
                override |-> ManagedOverride]

\* A value another program wrote while the process was not running, and that
\* is neither the saved nor the managed one, is never changed by recovery.
ForeignEditSpared ==
  [][ \A f \in edited :
        op = "undo" /\ edits' = edits /\ reg'[f] # reg[f] =>
          reg[f] \in { journal.backup[f],
                       [enable |-> 1, server |-> journal.address,
                        override |-> ManagedOverride][f] } ]_vars

\* README: after a crash "the next launch restores the saved values".  With
\* the faults over and the program launched again, an open journal is closed
\* and the user's settings are back (the user had no proxy on).
EventuallyRecovered ==
  (op = "down" /\ journal # NoJournal /\ orig.enable = 0 /\ ~interfered)
    ~> ((journal = NoJournal /\ reg = orig) \/ interfered)

\* BackupLog, with the journal as the slot and the registry in force.
Log == INSTANCE BackupLog WITH
         Setting <- Settings, NoSetting <- NoBackup, inForce <- reg,
         saved <- IF journal = NoJournal THEN NoBackup ELSE journal.backup

\* Without edits during a transaction, every step of the transaction, of its
\* failures and of its crashes is a step of the backup log or invisible in it.
ImplementsBackupLog == Log!Spec

-----------------------------------------------------------------------------
(***************************************************************************)
(* A statement of the documents that the code does not keep.               *)
(***************************************************************************)

\* README.md: "After power loss or hard termination, the next launch restores
\* the saved values"; nothing was changed externally, yet recovery refuses.
NeverRefusedWithoutEdit ==
  op = "recover" /\ journal # NoJournal /\ edits = 0
    => reg = journal.backup \/ Matches(reg, journal)
=============================================================================
