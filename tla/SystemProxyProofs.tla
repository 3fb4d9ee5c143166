-------------------------- MODULE SystemProxyProofs --------------------------
(***************************************************************************)
(* Proofs about SystemProxy for every set of servers, bypass lists and     *)
(* addresses, and for any number of faults and edits.                      *)
(*                                                                         *)
(* None of the safety properties is inductive by itself.  The inductive    *)
(* invariant is Control (which routine can run with what in memory and on  *)
(* disk), Claim (whose settings the journal holds, and when the settings   *)
(* are back) and Progress (what the registry looks like after each write   *)
(* of Enable and Restore).  Claim and Progress speak of runs in which no   *)
(* other program edited the settings during a transaction.                 *)
(***************************************************************************)
EXTENDS SystemProxy, TLAPS

\* Ownership and results, true whatever other programs do.
Control ==
  /\ active => op \in {"idle", "enable", "rollback", "restore"}
  /\ op \in {"enable", "rollback", "restore"} => active
  /\ op \in {"undo", "cleanup", "forget"} => journal # NoJournal
  /\ op = "begin" => draft # NoJournal
  /\ op = "enable" => step \in 1..4
  /\ op \in Restoring => step \in 1..5
  /\ op \notin {"idle", "forget"} => ret = "none"
  /\ op = "idle" /\ ret = "began" => active
  /\ op = "idle" /\ ret = "restored" => ~active
  /\ op = "forget" => ret \in {"restored", "beginFailed"}
  /\ ~Supported => journal = NoJournal /\ op # "begin"
  /\ OwnedIsRecoverable
  /\ interfered => Interference

\* The journal holds the user's settings, and the registry only values of the
\* user's or of the application's.
Claim ==
  ~interfered =>
    /\ journal = NoJournal => reg = orig
    /\ journal # NoJournal =>
         /\ journal.backup = orig
         /\ Known(reg.server, orig.server, journal.address)
         /\ Known(reg.override, orig.override, ManagedOverride)
    /\ op = "begin" => draft.backup = orig
    /\ op \in {"begin", "cleanup", "forget"} => reg = orig
    /\ op = "idle" /\ ~active => reg = orig

Enabled(address) ==
  [enable |-> 1, server |-> address, override |-> ManagedOverride]

\* The registry after each write of Enable and of Restore.
Progress ==
  ~interfered =>
    /\ op = "enable" =>
         /\ step >= 2 => reg.server = journal.address
         /\ step >= 3 => reg.override = ManagedOverride
         /\ step = 4 => reg.enable = 1
         /\ step <= 3 /\ orig.enable = 0 => reg.enable = 0
    /\ op \in Restoring =>
         /\ step \in 2..4 => reg.enable = 0
         /\ step >= 3 => reg.server = orig.server
         /\ step >= 4 => reg.override = orig.override
         /\ step = 5 => reg.enable = orig.enable
    /\ op = "idle" /\ ret = "began" => reg = Enabled(journal.address)

IInv == TypeOK /\ Control /\ Claim /\ Progress /\ OnMeansComplete

-----------------------------------------------------------------------------
USE SystemProxyAssumption, SentinelAssumption
USE DEF SystemProxyAssumption, SentinelAssumption, Restoring

\* Settings are their three values.
LEMMA SettingsEqual ==
  ASSUME NEW s \in Settings, NEW t \in Settings,
         s.enable = t.enable, s.server = t.server, s.override = t.override
  PROVE  s = t
BY DEF Settings

\* A routine that restores has a journal, and takes its values from it.
LEMMA Owner ==
  ASSUME TypeOK, Control, op \in Restoring
  PROVE  /\ journal \in Journals
         /\ Source = journal.backup
         /\ Source \in Settings
BY DEF TypeOK, Control, OwnedIsRecoverable, Source, Journals

\* No step gives active or interfered anything but a truth value.
LEMMA Flags ==
  ASSUME TypeOK, [Next]_vars
  PROVE  active' \in BOOLEAN /\ interfered' \in BOOLEAN
<1>1. active' \in {active, TRUE, FALSE}
  BY Zenon
   DEF Next, Launch, Exit, Crash, Call, Begin, BeginRefused,
     Restore, Proceed, Recover, RecoverNothing, RecoverLeftover,
     RecoverUndo, RecoverRefuse, JournalWritten, EnableWrite, EnableNotify,
     RestoreWrite, RestoreNotify, RemoveJournal, Failure, RecoverFails,
     JournalNotWritten, EnableFails, RestoreFails, UndoFails,
     RemoveJournalFails, ExternalEdit, Stop, mem, history, vars
<1>2. interfered' \in {interfered, TRUE, FALSE}
  BY Zenon
   DEF Next, Launch, Exit, Crash, Call, Begin, BeginRefused,
     Restore, Proceed, Recover, RecoverNothing, RecoverLeftover,
     RecoverUndo, RecoverRefuse, JournalWritten, EnableWrite, EnableNotify,
     RestoreWrite, RestoreNotify, RemoveJournal, Failure, RecoverFails,
     JournalNotWritten, EnableFails, RestoreFails, UndoFails,
     RemoveJournalFails, ExternalEdit, Stop, mem, history, vars
<1>3. QED
  BY <1>1, <1>2 DEF TypeOK

\* The types need Control: Enable and Restore read the journal they are given,
\* so one must be there.
LEMMA TypeStep ==
  ASSUME TypeOK, Control, [Next]_vars
  PROVE  TypeOK'
<1> USE Flags
<1> USE DEF Goto, disk, mem, history, TypeOK, Ops, Returns
<1>1. CASE Launch
  BY <1>1 DEF Launch
<1>2. CASE RecoverNothing
  BY <1>2 DEF RecoverNothing
<1>3. CASE RecoverLeftover
  BY <1>3 DEF RecoverLeftover
<1>4. CASE RecoverUndo
  BY <1>4 DEF RecoverUndo
<1>5. CASE RecoverRefuse
  BY <1>5 DEF RecoverRefuse, Stop
<1>6. CASE RecoverFails
  BY <1>6 DEF RecoverFails, Stop, Fail
<1>7. ASSUME NEW a \in Addresses, Begin(a) PROVE TypeOK'
  BY <1>7 DEF Begin, Journals
<1>8. CASE BeginRefused
  BY <1>8 DEF BeginRefused, Return, Fail
<1>9. CASE JournalWritten
  BY <1>9 DEF JournalWritten, Control, Journals
<1>10. CASE JournalNotWritten
  BY <1>10 DEF JournalNotWritten, Return, Fail
<1>11. CASE EnableWrite
  BY <1>11 DEF EnableWrite, Control, OwnedIsRecoverable, Journals, Settings
<1>12. CASE EnableNotify
  BY <1>12 DEF EnableNotify, Return
<1>13. CASE EnableFails
  BY <1>13 DEF EnableFails, Fail
<1>14. CASE RestoreWrite
  BY <1>14, Owner DEF RestoreWrite, Settings
<1>15. CASE RestoreNotify
  BY <1>15 DEF RestoreNotify
<1>16. CASE RestoreFails
  BY <1>16 DEF RestoreFails, Return, Fail
<1>17. CASE UndoFails
  BY <1>17 DEF UndoFails, Stop, Fail
<1>18. CASE RemoveJournal
  BY <1>18 DEF RemoveJournal, Return
<1>19. CASE RemoveJournalFails
  BY <1>19 DEF RemoveJournalFails, Return, Fail
<1>20. CASE Restore
  BY <1>20 DEF Restore, Return
<1>21. CASE Exit
  BY <1>21 DEF Exit, Stop
<1>22. CASE Crash
  BY <1>22 DEF Crash, Stop, Fail
<1>23. ASSUME NEW s \in Settings, ExternalEdit(s) PROVE TypeOK'
  <2>1. Changed(s) \subseteq Fields
    BY DEF Changed
  <2>2. edited' \subseteq Fields
    BY <1>23, <2>1 DEF ExternalEdit
  <2>3. QED
    BY <1>23, <2>2 DEF ExternalEdit
<1>24. CASE UNCHANGED vars
  BY <1>24 DEF vars
<1>25. QED
  BY <1>1, <1>2, <1>3, <1>4, <1>5, <1>6, <1>7, <1>8, <1>9, <1>10, <1>11,
     <1>12, <1>13, <1>14, <1>15, <1>16, <1>17, <1>18, <1>19, <1>20, <1>21,
     <1>22, <1>23, <1>24 DEF Next, Call, Proceed, Recover, Failure

\* Who owns what survives every operation, failure, crash and edit.
LEMMA ControlStep ==
  ASSUME TypeOK, Control, [Next]_vars, TypeOK'
  PROVE  Control'
<1> USE DEF Goto, disk, mem, history, TypeOK, Control,
           OwnedIsRecoverable
<1>1. CASE Launch
  BY <1>1 DEF Launch
<1>2. CASE RecoverNothing
  BY <1>2 DEF RecoverNothing
<1>3. CASE RecoverLeftover
  BY <1>3 DEF RecoverLeftover
<1>4. CASE RecoverUndo
  BY <1>4 DEF RecoverUndo
<1>5. CASE RecoverRefuse
  BY <1>5 DEF RecoverRefuse, Stop
<1>6. CASE RecoverFails
  BY <1>6 DEF RecoverFails, Stop, Fail
<1>7. ASSUME NEW a \in Addresses, Begin(a) PROVE Control'
  BY <1>7 DEF Begin, Journals
<1>8. CASE BeginRefused
  BY <1>8 DEF BeginRefused, Return, Fail
<1>9. CASE JournalWritten
  BY <1>9 DEF JournalWritten
<1>10. CASE JournalNotWritten
  BY <1>10 DEF JournalNotWritten, Return, Fail
<1>11. CASE EnableWrite
  BY <1>11 DEF EnableWrite
<1>12. CASE EnableNotify
  BY <1>12 DEF EnableNotify, Return
<1>13. CASE EnableFails
  BY <1>13 DEF EnableFails, Fail
<1>14. CASE RestoreWrite
  BY <1>14 DEF RestoreWrite, Source
<1>15. CASE RestoreNotify
  BY <1>15 DEF RestoreNotify
<1>16. CASE RestoreFails
  BY <1>16 DEF RestoreFails, Return, Fail
<1>17. CASE UndoFails
  BY <1>17 DEF UndoFails, Stop, Fail
<1>18. CASE RemoveJournal
  BY <1>18 DEF RemoveJournal, Return
<1>19. CASE RemoveJournalFails
  BY <1>19 DEF RemoveJournalFails, Return, Fail
<1>20. CASE Restore
  BY <1>20 DEF Restore, Return
<1>21. CASE Exit
  BY <1>21 DEF Exit, Stop
<1>22. CASE Crash
  BY <1>22 DEF Crash, Stop, Fail
<1>23. ASSUME NEW s \in Settings, ExternalEdit(s) PROVE Control'
  <2>1. interfered' => Interference
    BY <1>23, Zenon DEF ExternalEdit
  <2>2. QED
    BY <1>23, <2>1 DEF ExternalEdit, Settled
<1>24. CASE UNCHANGED vars
  BY <1>24 DEF vars
<1>25. QED
  BY <1>1, <1>2, <1>3, <1>4, <1>5, <1>6, <1>7, <1>8, <1>9, <1>10, <1>11,
     <1>12, <1>13, <1>14, <1>15, <1>16, <1>17, <1>18, <1>19, <1>20, <1>21,
     <1>22, <1>23, <1>24 DEF Next, Call, Proceed, Recover, Failure

\* The journal keeps holding the user's settings until they are back.
LEMMA ClaimStep ==
  ASSUME TypeOK, Control, Claim, Progress, [Next]_vars, TypeOK', Control'
  PROVE  Claim'
<1> USE DEF Goto, disk, mem, history, TypeOK, Control,
           OwnedIsRecoverable, Known, Claim
<1>1. CASE Launch
  BY <1>1 DEF Launch
<1>2. CASE RecoverNothing
  BY <1>2 DEF RecoverNothing
<1>3. CASE RecoverLeftover
  BY <1>3 DEF RecoverLeftover
<1>4. CASE RecoverUndo
  BY <1>4 DEF RecoverUndo
<1>5. CASE RecoverRefuse
  BY <1>5 DEF RecoverRefuse, Stop
<1>6. CASE RecoverFails
  BY <1>6 DEF RecoverFails, Stop, Fail
<1>7. ASSUME NEW a \in Addresses, Begin(a) PROVE Claim'
  BY <1>7 DEF Begin
<1>8. CASE BeginRefused
  BY <1>8 DEF BeginRefused, Return, Fail
<1>9. CASE JournalWritten
  BY <1>9 DEF JournalWritten
<1>10. CASE JournalNotWritten
  BY <1>10 DEF JournalNotWritten, Return, Fail
<1>11. CASE EnableWrite
  BY <1>11 DEF EnableWrite
<1>12. CASE EnableNotify
  BY <1>12 DEF EnableNotify, Return
<1>13. CASE EnableFails
  BY <1>13 DEF EnableFails, Fail
<1>14. CASE RestoreWrite
  BY <1>14 DEF RestoreWrite, Source
<1>15. CASE RestoreNotify
  <2>1. ~interfered => journal.backup = orig /\ reg = orig
    BY <1>15, Owner, SettingsEqual DEF RestoreNotify, Progress
  <2>2. QED
    BY <1>15, <2>1, Owner DEF RestoreNotify
<1>16. CASE RestoreFails
  BY <1>16 DEF RestoreFails, Return, Fail
<1>17. CASE UndoFails
  BY <1>17 DEF UndoFails, Stop, Fail
<1>18. CASE RemoveJournal
  BY <1>18 DEF RemoveJournal, Return
<1>19. CASE RemoveJournalFails
  BY <1>19 DEF RemoveJournalFails, Return, Fail
<1>20. CASE Restore
  BY <1>20 DEF Restore, Return
<1>21. CASE Exit
  BY <1>21 DEF Exit, Stop
<1>22. CASE Crash
  BY <1>22 DEF Crash, Stop, Fail
<1>23. ASSUME NEW s \in Settings, ExternalEdit(s) PROVE Claim'
  BY <1>23 DEF ExternalEdit, Settled
<1>24. CASE UNCHANGED vars
  BY <1>24 DEF vars
<1>25. QED
  BY <1>1, <1>2, <1>3, <1>4, <1>5, <1>6, <1>7, <1>8, <1>9, <1>10, <1>11,
     <1>12, <1>13, <1>14, <1>15, <1>16, <1>17, <1>18, <1>19, <1>20, <1>21,
     <1>22, <1>23, <1>24 DEF Next, Call, Proceed, Recover, Failure

\* The writes of Enable and Restore follow one another in the code's order.
LEMMA ProgressStep ==
  ASSUME TypeOK, Control, Claim, Progress, [Next]_vars, TypeOK', Control'
  PROVE  Progress'
<1> USE DEF Goto, disk, mem, history, TypeOK, Control,
           OwnedIsRecoverable, Claim, Progress, Enabled
<1>1. CASE Launch
  BY <1>1 DEF Launch
<1>2. CASE RecoverNothing
  BY <1>2 DEF RecoverNothing
<1>3. CASE RecoverLeftover
  BY <1>3 DEF RecoverLeftover
<1>4. CASE RecoverUndo
  BY <1>4 DEF RecoverUndo
<1>5. CASE RecoverRefuse
  BY <1>5 DEF RecoverRefuse, Stop
<1>6. CASE RecoverFails
  BY <1>6 DEF RecoverFails, Stop, Fail
<1>7. ASSUME NEW a \in Addresses, Begin(a) PROVE Progress'
  BY <1>7 DEF Begin
<1>8. CASE BeginRefused
  BY <1>8 DEF BeginRefused, Return, Fail
<1>9. CASE JournalWritten
  BY <1>9 DEF JournalWritten
<1>10. CASE JournalNotWritten
  BY <1>10 DEF JournalNotWritten, Return, Fail
<1>11. CASE EnableWrite
  BY <1>11 DEF EnableWrite
<1>12. CASE EnableNotify
  <2>1. journal \in Journals
    BY <1>12 DEF EnableNotify
  <2>2. Enabled(journal.address) \in Settings
    BY <2>1 DEF Enabled, Settings, Journals
  <2>3. ~interfered => reg = Enabled(journal.address)
    BY <1>12, <2>2, SettingsEqual DEF EnableNotify, Enabled
  <2>4. QED
    BY <1>12, <2>3 DEF EnableNotify, Return
<1>13. CASE EnableFails
  BY <1>13 DEF EnableFails, Fail
<1>14. CASE RestoreWrite
  BY <1>14 DEF RestoreWrite, Source
<1>15. CASE RestoreNotify
  BY <1>15 DEF RestoreNotify
<1>16. CASE RestoreFails
  BY <1>16 DEF RestoreFails, Return, Fail
<1>17. CASE UndoFails
  BY <1>17 DEF UndoFails, Stop, Fail
<1>18. CASE RemoveJournal
  BY <1>18 DEF RemoveJournal, Return
<1>19. CASE RemoveJournalFails
  BY <1>19 DEF RemoveJournalFails, Return, Fail
<1>20. CASE Restore
  BY <1>20 DEF Restore, Return
<1>21. CASE Exit
  BY <1>21 DEF Exit, Stop
<1>22. CASE Crash
  BY <1>22 DEF Crash, Stop, Fail
<1>23. ASSUME NEW s \in Settings, ExternalEdit(s) PROVE Progress'
  BY <1>23 DEF ExternalEdit, Settled
<1>24. CASE UNCHANGED vars
  BY <1>24 DEF vars
<1>25. QED
  BY <1>1, <1>2, <1>3, <1>4, <1>5, <1>6, <1>7, <1>8, <1>9, <1>10, <1>11,
     <1>12, <1>13, <1>14, <1>15, <1>16, <1>17, <1>18, <1>19, <1>20, <1>21,
     <1>22, <1>23, <1>24 DEF Next, Call, Proceed, Recover, Failure

\* The proxy is never switched on without both managed values in place.
LEMMA CompleteStep ==
  ASSUME TypeOK, Control, Claim, Progress, OnMeansComplete, [Next]_vars,
         TypeOK', Control'
  PROVE  OnMeansComplete'
<1> USE DEF Goto, disk, mem, history, TypeOK, Control,
           OwnedIsRecoverable, Claim, Progress,
           OnMeansComplete
<1>1. CASE Launch
  BY <1>1 DEF Launch
<1>2. CASE RecoverNothing
  BY <1>2 DEF RecoverNothing
<1>3. CASE RecoverLeftover
  BY <1>3 DEF RecoverLeftover
<1>4. CASE RecoverUndo
  BY <1>4 DEF RecoverUndo
<1>5. CASE RecoverRefuse
  BY <1>5 DEF RecoverRefuse, Stop
<1>6. CASE RecoverFails
  BY <1>6 DEF RecoverFails, Stop, Fail
<1>7. ASSUME NEW a \in Addresses, Begin(a) PROVE OnMeansComplete'
  BY <1>7 DEF Begin
<1>8. CASE BeginRefused
  BY <1>8 DEF BeginRefused, Return, Fail
<1>9. CASE JournalWritten
  BY <1>9 DEF JournalWritten
<1>10. CASE JournalNotWritten
  BY <1>10 DEF JournalNotWritten, Return, Fail
<1>11. CASE EnableWrite
  BY <1>11 DEF EnableWrite
<1>12. CASE EnableNotify
  BY <1>12 DEF EnableNotify, Return
<1>13. CASE EnableFails
  BY <1>13 DEF EnableFails, Fail
<1>14. CASE RestoreWrite
  BY <1>14 DEF RestoreWrite, Source
<1>15. CASE RestoreNotify
  BY <1>15 DEF RestoreNotify
<1>16. CASE RestoreFails
  BY <1>16 DEF RestoreFails, Return, Fail
<1>17. CASE UndoFails
  BY <1>17 DEF UndoFails, Stop, Fail
<1>18. CASE RemoveJournal
  BY <1>18 DEF RemoveJournal, Return
<1>19. CASE RemoveJournalFails
  BY <1>19 DEF RemoveJournalFails, Return, Fail
<1>20. CASE Restore
  BY <1>20 DEF Restore, Return
<1>21. CASE Exit
  BY <1>21 DEF Exit, Stop
<1>22. CASE Crash
  BY <1>22 DEF Crash, Stop, Fail
<1>23. ASSUME NEW s \in Settings, ExternalEdit(s) PROVE OnMeansComplete'
  BY <1>23 DEF ExternalEdit, Settled
<1>24. CASE UNCHANGED vars
  BY <1>24 DEF vars
<1>25. QED
  BY <1>1, <1>2, <1>3, <1>4, <1>5, <1>6, <1>7, <1>8, <1>9, <1>10, <1>11,
     <1>12, <1>13, <1>14, <1>15, <1>16, <1>17, <1>18, <1>19, <1>20, <1>21,
     <1>22, <1>23, <1>24 DEF Next, Call, Proceed, Recover, Failure

-----------------------------------------------------------------------------
\* The inductive invariant holds in every reachable state.
THEOREM Invariance == Spec => []IInv
<1>1. Init => IInv
  <2> SUFFICES ASSUME Init PROVE IInv
    OBVIOUS
  <2>1. active \in BOOLEAN /\ interfered \in BOOLEAN
    BY Zenon DEF Init
  <2>2. TypeOK
    BY <2>1 DEF Init, TypeOK, Ops, Returns
  <2>3. Control
    BY DEF Init, Control, OwnedIsRecoverable
  <2>4. Claim /\ Progress /\ OnMeansComplete
    BY DEF Init, Claim, Progress, OnMeansComplete
  <2>5. QED
    BY <2>2, <2>3, <2>4 DEF IInv
<1>2. IInv /\ [Next]_vars => IInv'
  BY TypeStep, ControlStep, ClaimStep, ProgressStep, CompleteStep DEF IInv
<1>3. QED
  BY <1>1, <1>2, PTL DEF Spec

\* Every variable has its type in every reachable state.
THEOREM Typing == Spec => []TypeOK
BY Invariance, PTL DEF IInv

\* Journal first, restore before delete: at every instant the settings are the
\* user's or the journal on disk holds the user's.
THEOREM JournalFirst == Spec => []JournalCovers
<1>1. IInv => JournalCovers
  BY DEF IInv, Claim, JournalCovers
<1>2. QED
  BY Invariance, <1>1, PTL

\* What the process believes it owns, the next launch can recover.
THEOREM Ownership == Spec => []OwnedIsRecoverable
<1>1. IInv => OwnedIsRecoverable
  BY DEF IInv, Control
<1>2. QED
  BY Invariance, <1>1, PTL

\* The proxy is on only with a complete setup, for a user who had none on.
THEOREM CompleteSetup == Spec => []OnMeansComplete
BY Invariance, PTL DEF IInv

\* Recovery accepts every mix of values a crash can leave behind, for a user
\* who had no proxy on.
THEOREM Recoverability == Spec => []CrashRecoverable
<1>1. IInv => CrashRecoverable
  BY DEF IInv, TypeOK, Settings, Claim, CrashRecoverable, Matches, Known
<1>2. QED
  BY Invariance, <1>1, PTL

\* What Begin and Restore return says what the settings are.
THEOREM Honesty == Spec => []HonestReturn
<1>1. IInv => HonestReturn
  BY DEF IInv, Control, Claim, Progress, Enabled, HonestReturn
<1>2. QED
  BY Invariance, <1>1, PTL

\* What recovery goes on to overwrite it has recognised: a field edited while
\* the process was down has the saved or the managed value.
Managed == Enabled(journal.address)

Recognised ==
  op = "undo" => \A f \in edited : reg[f] \in {journal.backup[f], Managed[f]}

LEMMA RecognisedStep ==
  ASSUME TypeOK, Control, Recognised, [Next]_vars
  PROVE  Recognised'
<1>1. CASE RecoverUndo
  <2>1. edited' = edited /\ reg' = reg /\ journal' = journal /\ edited \subseteq Fields
    BY <1>1 DEF RecoverUndo, disk, history, TypeOK
  <2>2. \A f \in Fields : reg[f] \in {journal.backup[f], Managed[f]}
    BY <1>1 DEF RecoverUndo, Matches, Known, Managed, Enabled, Fields
  <2>3. QED
    BY <2>1, <2>2 DEF Recognised, Managed, Enabled
<1>2. CASE RestoreWrite /\ op = "undo"
  <2>1. PICK g \in Fields : edited' = edited \ {g} /\ \A f \in Fields : f # g => reg'[f] = reg[f]
    <3>1. step \in 1..4 /\ reg \in Settings
      BY <1>2 DEF RestoreWrite, TypeOK
    <3>2. CASE step = 1
      BY <1>2, <3>1, <3>2 DEF RestoreWrite, Settings, Fields
    <3>3. CASE step = 2
      BY <1>2, <3>1, <3>3 DEF RestoreWrite, Settings, Fields
    <3>4. CASE step = 3
      BY <1>2, <3>1, <3>4 DEF RestoreWrite, Settings, Fields
    <3>5. CASE step = 4
      BY <1>2, <3>1, <3>5 DEF RestoreWrite, Settings, Fields
    <3>6. QED
      BY <3>1, <3>2, <3>3, <3>4, <3>5
  <2>2. journal' = journal /\ edited \subseteq Fields
    BY <1>2 DEF RestoreWrite, TypeOK
  <2>3. QED
    BY <1>2, <2>1, <2>2 DEF Recognised, Managed, Enabled
<1>3. ASSUME NEW s \in Settings, ExternalEdit(s), op = "undo" PROVE Recognised'
  <2>1. edited' = edited \ Changed(s) /\ reg' = s /\ journal' = journal /\ edited \subseteq Fields
    BY <1>3 DEF ExternalEdit, TypeOK
  <2>2. \A f \in edited' : f \in edited /\ reg'[f] = reg[f]
    BY <2>1 DEF Changed
  <2>3. QED
    BY <1>3, <2>1, <2>2 DEF Recognised, Managed, Enabled
<1>4. CASE UNCHANGED vars
  BY <1>4 DEF vars, Recognised, Managed, Enabled
<1>5. ASSUME op' = "undo"
      PROVE  \/ RecoverUndo \/ (RestoreWrite /\ op = "undo")
             \/ op = "undo" /\ (\E s \in Settings : ExternalEdit(s))
             \/ UNCHANGED vars
  BY <1>5 DEF Next, Launch, Exit, Crash, Call, Begin, BeginRefused, Restore,
     Proceed, Recover, RecoverNothing, RecoverLeftover, RecoverRefuse,
     JournalWritten, EnableWrite, EnableNotify, RestoreWrite, RestoreNotify,
     RemoveJournal, Failure, RecoverFails, JournalNotWritten, EnableFails,
     RestoreFails, UndoFails, RemoveJournalFails, ExternalEdit, Stop, Goto, Return,
     mem
<1>6. QED
  BY <1>1, <1>2, <1>3, <1>4, <1>5 DEF Recognised

\* Recovery changes no value that somebody else chose while the process was
\* down, unless it equals one of the transaction's own.
THEOREM OthersEditsSpared == Spec => ForeignEditSpared
<1>1. Init => Recognised
  BY DEF Init, Recognised
<1>2. IInv /\ Recognised /\ [Next]_vars => Recognised'
  BY RecognisedStep DEF IInv
<1>3. Recognised /\ [Next]_vars =>
        [ \A f \in edited :
            op = "undo" /\ edits' = edits /\ reg'[f] # reg[f] =>
              reg[f] \in { journal.backup[f],
                           [enable |-> 1, server |-> journal.address,
                            override |-> ManagedOverride][f] } ]_vars
  BY DEF Recognised, Managed, Enabled
<1>4. QED
  BY <1>1, <1>2, <1>3, Invariance, PTL DEF Spec, ForeignEditSpared

\* Recover lets the program go on only when the journal is gone, and then the
\* settings are the user's.
RecoverReturns ==
  op \in {"recover", "undo", "cleanup"} /\ op' = "idle" =>
    /\ journal' = NoJournal /\ ~active'
    /\ ~interfered' => reg' = orig'

THEOREM RecoversFirst == Spec => [][RecoverReturns]_vars
<1>1. ASSUME IInv, [Next]_vars PROVE RecoverReturns
  <2> SUFFICES ASSUME op \in {"recover", "undo", "cleanup"}, op' = "idle"
               PROVE  /\ journal' = NoJournal /\ ~active'
                      /\ ~interfered' => reg' = orig'
    BY DEF RecoverReturns
  <2>1. TypeOK /\ Control
    BY <1>1 DEF IInv
  <2>2. RecoverNothing \/ RemoveJournal
    BY <1>1
       DEF Next, Launch, Exit, Crash, Call, Begin, BeginRefused, Restore,
           Proceed, Recover, RecoverLeftover, RecoverUndo, RecoverRefuse,
           JournalWritten, EnableWrite, EnableNotify, RestoreWrite, RestoreNotify,
           Failure, RecoverFails, JournalNotWritten, EnableFails, RestoreFails,
           UndoFails, RemoveJournalFails, ExternalEdit, Stop, Goto, Return, vars
  <2>3. journal' = NoJournal
    BY <2>1, <2>2 DEF RecoverNothing, RemoveJournal, Control, disk
  <2>4. ~active'
    BY <1>1, <2>1, <2>2 DEF RecoverNothing, RemoveJournal, Control, mem
  <2>5. ~interfered' => reg' = orig'
    BY <1>1, <2>3, TypeStep, ControlStep, ClaimStep DEF IInv, Claim
  <2>6. QED
    BY <2>3, <2>4, <2>5
<1>2. QED
  BY <1>1, Invariance, PTL DEF Spec

\* The steps that a call in progress may still take, failures included: a
\* Begin that rolls back takes the most.
Left ==
  CASE op = "begin" -> 11
    [] op = "enable" -> 11 - step
    [] op = "recover" -> 7
    [] op \in Restoring -> 7 - step
    [] op \in {"cleanup", "forget"} -> 1
    [] OTHER -> 0

Free == op \in {"down", "idle"}

LEMMA LeftType == TypeOK /\ Control => Left \in 0..11 /\ (Left = 0 <=> Free)
BY DEF TypeOK, Control, Left, Free, Ops

\* Every call ends: whatever fails, each of its steps brings it nearer to its
\* end, and nothing that happens meanwhile takes it further away.  No failure
\* starts a routine a second time.
Nearer ==
  /\ Proceed \/ Failure => Left' < Left
  /\ Left' > Left => Free

THEOREM CallsEnd == Spec => [][Nearer]_vars
<1>1. ASSUME IInv, [Next]_vars PROVE Nearer
  <2> USE DEF Nearer
  <2>1. TypeOK /\ Control /\ TypeOK' /\ Control'
    BY <1>1, TypeStep, ControlStep DEF IInv
  <2>2. Left \in 0..11 /\ Left' \in 0..11
    BY <2>1, LeftType DEF TypeOK, Control, Left, Ops
  <2>3. op \in Ops /\ step \in 0..5 /\ (op \in Restoring => step \in 1..5)
        /\ (op = "enable" => step \in 1..4)
    BY <2>1 DEF TypeOK, Control
  <2>5. CASE Recover \/ RecoverFails
    <3>1. \/ op = "recover" /\ op' \in {"idle", "down", "cleanup"}
          \/ op = "recover" /\ op' = "undo" /\ step' = 1
          \/ op = "cleanup" /\ op' = "down"
      BY <2>5 DEF Recover, RecoverNothing, RecoverLeftover, RecoverUndo, RecoverRefuse,
                  RecoverFails, Stop, Goto
    <3>2. QED
      BY <3>1 DEF Left
  <2>6. CASE JournalWritten \/ JournalNotWritten
    <3>1. /\ op = "begin"
          /\ \/ op' = "idle"
             \/ op' = "enable" /\ step' = 1
      BY <2>6 DEF JournalWritten, JournalNotWritten, Return, Goto
    <3>2. QED
      BY <3>1 DEF Left
  <2>7. CASE EnableWrite \/ EnableNotify \/ EnableFails
    <3>1. /\ op = "enable"
          /\ \/ op' = "idle"
             \/ op' = "enable" /\ step' = step + 1
             \/ op' = "rollback" /\ step' = 1
      BY <2>7 DEF EnableWrite, EnableNotify, EnableFails, Return, Goto
    <3>2. QED
      BY <2>3, <3>1 DEF Left
  <2>8. CASE RestoreWrite \/ RestoreNotify \/ RestoreFails \/ UndoFails
    <3>1. /\ op \in Restoring
          /\ \/ op' \in {"idle", "down", "cleanup", "forget"}
             \/ op' = op /\ step' = step + 1
      BY <2>8 DEF RestoreWrite, RestoreNotify, RestoreFails, UndoFails, Stop, Return, Goto
    <3>2. QED
      BY <2>3, <3>1 DEF Left
  <2>9. CASE RemoveJournal \/ RemoveJournalFails
    <3>1. op \in {"cleanup", "forget"} /\ op' = "idle"
      BY <2>9 DEF RemoveJournal, RemoveJournalFails, Return, Goto
    <3>2. QED
      BY <3>1 DEF Left
  <2>10. CASE Launch \/ Call \/ Exit
    <3>1. Free /\ Left = 0 /\ ~(Proceed \/ Failure)
      BY <2>10
         DEF Launch, Call, Exit, Begin, BeginRefused, Restore, Free, Left,
             Proceed, Recover, RecoverNothing, RecoverLeftover, RecoverUndo,
             RecoverRefuse, JournalWritten, EnableWrite, EnableNotify, RestoreWrite,
             RestoreNotify, RemoveJournal, Failure, RecoverFails, JournalNotWritten,
             EnableFails, RestoreFails, UndoFails, RemoveJournalFails
    <3>2. QED
      BY <3>1
  <2>11. CASE Proceed \/ Failure
    BY <2>2, <2>5, <2>6, <2>7, <2>8, <2>9, <2>11 DEF Proceed, Failure
  <2>12. CASE Crash
    <3>1. op' = "down"
      BY <2>12 DEF Crash, Stop, Goto
    <3>2. Left' = 0
      BY <3>1 DEF Left
    <3>3. QED
      BY <2>2, <2>11, <3>2
  <2>13. CASE UNCHANGED <<op, step>>
    <3>1. Left' = Left
      BY <2>13 DEF Left
    <3>2. QED
      BY <2>2, <2>11, <3>1
  <2>14. QED
    BY <1>1, <2>2, <2>10, <2>11, <2>12, <2>13 DEF Next, ExternalEdit, vars
<1>2. QED
  BY <1>1, Invariance, PTL DEF Spec

-----------------------------------------------------------------------------
\* Without edits during a transaction the program implements BackupLog.
THEOREM Refinement == ASSUME ~Interference PROVE Spec => ImplementsBackupLog
<1> DEFINE saved == IF journal = NoJournal THEN NoBackup ELSE journal.backup
<1>1. Init => Log!Init
  BY DEF Init, Log!Init
<1>2. ASSUME IInv, [Next]_vars PROVE [Log!Next]_<<reg, saved>>
  <2> USE DEF IInv, TypeOK, Control, Claim, Log!Next, Goto, disk, mem, history
  <2>0. ~interfered
    BY <1>2
  <2>1. CASE JournalWritten
    <3>1. saved' = reg /\ reg' = reg /\ saved \in {NoBackup, reg}
      BY <1>2, <2>0, <2>1 DEF JournalWritten
    <3>2. QED
      BY <3>1 DEF Log!Save
  <2>2. CASE EnableWrite
    <3>1. journal \in Journals /\ journal' = journal /\ reg' \in Settings
      BY <1>2, <2>2, TypeStep DEF EnableWrite, OwnedIsRecoverable
    <3>2. QED
      BY <3>1 DEF Log!Change, Journals
  <2>3. CASE RestoreWrite
    <3>1. journal \in Journals /\ journal' = journal /\ reg' \in Settings
      BY <1>2, <2>3, TypeStep, Owner DEF RestoreWrite
    <3>2. QED
      BY <3>1 DEF Log!Change, Journals
  <2>4. CASE RemoveJournal
    <3>1. saved = reg /\ saved' = NoBackup /\ reg' = reg
      BY <1>2, <2>0, <2>4 DEF RemoveJournal, Return
    <3>2. QED
      BY <3>1 DEF Log!Forget
  <2>5. ASSUME NEW s \in Settings, ExternalEdit(s)
        PROVE  [Log!Next]_<<reg, saved>>
    BY <1>2, <2>5 DEF ExternalEdit, Settled, Log!Choose
  <2>6. CASE UNCHANGED <<reg, journal>>
    BY <2>6
  <2>7. QED
    BY <1>2, <2>1, <2>2, <2>3, <2>4, <2>5, <2>6, Zenon
       DEF Next, Launch, Exit, Crash, Call, Begin, BeginRefused,
           Restore, Proceed, Recover, RecoverNothing, RecoverLeftover,
           RecoverUndo, RecoverRefuse, EnableNotify, RestoreNotify, Failure,
           RecoverFails, JournalNotWritten, EnableFails, RestoreFails,
           UndoFails, RemoveJournalFails, Stop, vars
<1>3. QED
  BY <1>1, <1>2, Invariance, PTL DEF Spec, ImplementsBackupLog, Log!Spec
=============================================================================
