------------------------- MODULE ApplicationProofs -------------------------
(***************************************************************************)
(* The program around the transaction.  Application adds handlers to       *)
(* SystemProxy and calls its operations, so it implements SystemProxy and  *)
(* inherits what is proved of the settings.  What the session, the         *)
(* interface and main promise on top is the invariant AInv.                *)
(***************************************************************************)
EXTENDS Application, SystemProxyProofs

\* Which call can be in progress for the handler that waits for it, and what
\* it can have returned.
Calls ==
  /\ task = "off" => op \in {"down", "recover", "undo", "cleanup", "idle"} /\ ~active
  /\ task # "off" => op \in {"idle", "begin", "enable", "rollback", "restore", "forget"}
  /\ task \in {"events", "bind", "begin", "cleanup", "exit"} => op = "idle"
  /\ task = "begun" =>
       /\ op # "restore"
       /\ op = "idle" => ret \in {"began", "beginFailed"}
       /\ op = "forget" => ret = "beginFailed"
  /\ task \in {"rolledBack", "restore"} =>
       /\ op \in {"idle", "restore", "forget"}
       /\ op = "idle" => ret \in {"restored", "restoreFailed"}
       /\ op = "forget" => ret = "restored"

Stoppable == session = "started" /\ ~stopped /\ ~cleaned

\* Whatever is open, a transaction or a listener, has a session to close it.
Owned ==
  /\ active => Stoppable /\ auto
  /\ bound => Stoppable
  /\ task \in {"begin", "begun", "rolledBack", "restore"} => Stoppable /\ auto
  /\ task = "bind" => session = "fresh" /\ ~stopped /\ ~cleaned
  /\ task \in {"bind", "begin"} => ~active
  /\ task \in {"off", "bind", "rolledBack", "restore", "exit"} => ~bound
  /\ task \in {"begin", "begun"} => bound \/ died
  /\ task = "exit" /\ active => ret = "restoreFailed" /\ code = 1

\* Where the interface is then: nowhere it could start a session from.
Phase ==
  /\ caller # "nobody" => task \in {"cleanup", "restore"}
  /\ task \in {"bind", "begin", "begun", "rolledBack"} => phase = "confirm"
  /\ bound /\ task \in {"events", "cleanup"} => phase \in {"running", "stopping"}
  /\ active /\ task \in {"events", "cleanup", "restore"} =>
       \/ phase \in {"running", "stopping"}
       \/ phase = "confirm" /\ (pending \/ caller = "start")

AInv == AppTypeOK /\ Calls /\ Owned /\ Phase
-----------------------------------------------------------------------------
\* The interface, the session and main only call what SystemProxy offers.
LEMMA AppStep == [AppNext]_allVars => [Next]_vars
<1>1. ASSUME User PROVE UNCHANGED vars
  BY <1>1 DEF User, SelectInterfaces, SelectMode, Back, QuitSetup, Confirm, Shutdown, Show
<1>2. ASSUME Program PROVE [Next]_vars
  BY <1>2 DEF Program, OpenTUI, Bind, BindFails, CallBegin, BeginWorked, BeginFailed,
              RolledBack, CleanupDone, StopSession, RestoreReturned, ExitProcess,
              Next, Call
<1>3. ASSUME Inside \/ Killed \/ Edited PROVE Next
  BY <1>3 DEF Inside, Killed, Edited, Next
<1>4. ASSUME ServerDies \/ ServerError \/ QuitArrives \/ Interrupted
      PROVE  UNCHANGED vars
  BY <1>4 DEF ServerDies, ServerError, QuitArrives, Interrupted
<1>5. CASE UNCHANGED allVars
  BY <1>5 DEF allVars
<1>6. QED
  BY <1>1, <1>2, <1>3, <1>4, <1>5 DEF AppNext

\* Application implements SystemProxy, so the theorems about the settings hold
\* of the whole program.
THEOREM AppImplementsTransaction == AppSpec => Spec
<1>1. AppInit => Init
  BY DEF AppInit
<1>2. QED
  BY <1>1, AppStep, PTL DEF AppSpec, Spec

\* So the program, whatever its interface and its session do, never loses the
\* user's settings, leaves no half of a setup in force, returns what is true,
\* spares the edits of others in recovery, and goes on from it only with the
\* settings in order.  Each call it makes of the transaction comes to an end.
THEOREM AppKeepsTransaction ==
  AppSpec => /\ [](JournalCovers /\ OnMeansComplete /\ CrashRecoverable /\ HonestReturn)
             /\ ForeignEditSpared
             /\ [][RecoverReturns /\ Nearer]_vars
BY AppImplementsTransaction, JournalFirst, CompleteSetup, Recoverability, Honesty,
   OthersEditsSpared, RecoversFirst, CallsEnd, PTL

-----------------------------------------------------------------------------
\* A call in progress goes on, for whoever waits for it.
LEMMA InsideStep ==
  ASSUME IInv, AInv, Launch \/ Proceed \/ Failure, UNCHANGED appVars
  PROVE  Calls' /\ Owned' /\ Phase'
<1>1. Control /\ Calls /\ Owned /\ Phase
  BY DEF IInv, AInv
<1>2. task' = task /\ UNCHANGED <<phase, auto, pending, session, stopped, cleaned,
                                  bound, died, caller, code>>
  BY DEF appVars
<1>3. op # "idle" /\ (active' => active \/ op = "begin")
  BY DEF Launch, Proceed, Recover, RecoverNothing, RecoverLeftover, RecoverUndo,
         RecoverRefuse, JournalWritten, EnableWrite, EnableNotify, RestoreWrite,
         RestoreNotify, RemoveJournal, Failure, RecoverFails, JournalNotWritten,
         EnableFails, RestoreFails, UndoFails, RemoveJournalFails, Restoring,
         Stop, disk, mem
<1>4. Calls'
  <2> USE <1>1, <1>2
  <2> USE DEF Calls, Control, Goto, Return, Restoring, Stop, disk, mem
  <2>1. CASE Launch
    BY <2>1 DEF Launch
  <2>2. CASE Recover
    BY <2>2 DEF Recover, RecoverNothing, RecoverLeftover, RecoverUndo, RecoverRefuse
  <2>3. CASE JournalWritten \/ JournalNotWritten
    BY <2>3 DEF JournalWritten, JournalNotWritten
  <2>4. CASE EnableWrite \/ EnableNotify \/ EnableFails
    BY <2>4 DEF EnableWrite, EnableNotify, EnableFails
  <2>5. CASE RestoreWrite
    BY <2>5 DEF RestoreWrite
  <2>6. CASE RestoreNotify
    BY <2>6 DEF RestoreNotify
  <2>7. CASE RestoreFails
    BY <2>7 DEF RestoreFails
  <2>8. CASE RemoveJournal
    BY <2>8 DEF RemoveJournal
  <2>9. CASE RemoveJournalFails
    BY <2>9 DEF RemoveJournalFails
  <2>10. CASE RecoverFails \/ UndoFails
    BY <2>10 DEF RecoverFails, UndoFails
  <2>11. QED
    BY <2>1, <2>2, <2>3, <2>4, <2>5, <2>6, <2>7, <2>8, <2>9, <2>10 DEF Proceed, Failure
<1>5. task \in {"off", "begun", "rolledBack", "restore"}
  <2>1. task \in Tasks
    BY DEF AInv, AppTypeOK
  <2>2. QED
    BY <1>1, <1>3, <2>1 DEF Calls, Tasks
<1>6. active' => active \/ task = "begun"
  BY <1>1, <1>3, <1>5 DEF Calls
<1>7. Owned'
  BY <1>1, <1>2, <1>5, <1>6 DEF Owned, Stoppable
<1>8. Phase'
  BY <1>1, <1>2, <1>5, <1>6 DEF Phase
<1>9. QED
  BY <1>4, <1>7, <1>8

\* Keys of the setup phases, and the start they lead to.
LEMMA SetupStep ==
  ASSUME IInv, AInv,
         \/ OpenTUI \/ SelectInterfaces \/ SelectMode \/ Back \/ QuitSetup \/ Confirm
         \/ Bind \/ BindFails
  PROVE  Calls' /\ Owned' /\ Phase'
<1> USE DEF Calls, Owned, Phase, Stoppable
<1>1. Control /\ Calls /\ Owned /\ Phase
  BY DEF IInv, AInv
<1>2. CASE OpenTUI
  BY <1>1, <1>2 DEF OpenTUI, vars, owned, serverVars
<1>3. CASE SelectInterfaces \/ SelectMode \/ Back
  BY <1>1, <1>3 DEF SelectInterfaces, SelectMode, Back, Show, Event, vars, owned, serverVars
<1>4. CASE QuitSetup
  BY <1>1, <1>4 DEF QuitSetup, Event, vars, owned, serverVars
<1>5. CASE Confirm
  BY <1>1, <1>5 DEF Confirm, Event, vars
<1>6. CASE Bind
  BY <1>1, <1>6 DEF Bind, Run, vars
<1>7. CASE BindFails
  BY <1>1, <1>7 DEF BindFails, Cleanup, vars, owned, serverVars
<1>8. QED
  BY <1>2, <1>3, <1>4, <1>5, <1>6, <1>7

\* Session.Start goes on with the transaction.
LEMMA StartStep ==
  ASSUME IInv, AInv, CallBegin \/ BeginWorked \/ BeginFailed \/ RolledBack
  PROVE  Calls' /\ Owned' /\ Phase'
<1> USE DEF Calls, Owned, Phase, Stoppable
<1>1. Control /\ Calls /\ Owned /\ Phase
  BY DEF IInv, AInv
<1>2. CASE CallBegin
  BY <1>1, <1>2 DEF CallBegin, Begin, BeginRefused, Goto, Return, Restoring, mem,
                    model, owned, serverVars
<1>3. CASE BeginWorked
  BY <1>1, <1>3 DEF BeginWorked, Run, vars, owned
<1>4. CASE BeginFailed
  BY <1>1, <1>4 DEF BeginFailed, Restore, Goto, Return, Restoring, mem, model, owned
<1>5. CASE RolledBack
  BY <1>1, <1>5 DEF RolledBack, Cleanup, Control, vars, serverVars
<1>6. QED
  BY <1>2, <1>3, <1>4, <1>5

\* The running phase, and the ways to Cleanup.
LEMMA RunningStep ==
  ASSUME IInv, AInv,
         \/ ServerDies \/ Shutdown \/ ServerError \/ QuitArrives \/ Interrupted
         \/ Killed \/ Edited
  PROVE  Calls' /\ Owned' /\ Phase'
<1> USE DEF Calls, Owned, Phase, Stoppable
<1>1. Control /\ Calls /\ Owned /\ Phase
  BY DEF IInv, AInv
<1>2. CASE ServerDies
  BY <1>1, <1>2 DEF ServerDies, vars, model, owned
<1>3. CASE Shutdown
  BY <1>1, <1>3 DEF Shutdown, Event, Cleanup, vars, owned, serverVars
<1>4. CASE ServerError
  BY <1>1, <1>4 DEF ServerError, Event, Cleanup, vars, owned
<1>5. CASE QuitArrives \/ Interrupted
  BY <1>1, <1>5 DEF QuitArrives, Interrupted, Event, Cleanup, vars, model, owned, serverVars
<1>6. CASE Killed
  BY <1>6 DEF Killed, Crash, Stop, Goto, Blank, Restoring
<1>7. CASE Edited
  BY <1>1, <1>7 DEF Edited, ExternalEdit, mem, appVars
<1>8. QED
  BY <1>2, <1>3, <1>4, <1>5, <1>6, <1>7

\* Cleanup and what its callers do with its result.
LEMMA CleanupStep ==
  ASSUME IInv, AInv, CleanupDone \/ StopSession \/ RestoreReturned \/ ExitProcess
  PROVE  Calls' /\ Owned' /\ Phase'
<1> USE DEF Calls, Owned, Phase, Stoppable
<1>1. Control /\ Calls /\ Owned /\ Phase
  BY DEF IInv, AInv
<1>2. CASE CleanupDone
  BY <1>1, <1>2 DEF CleanupDone, HandBack, vars, serverVars
<1>3. CASE StopSession
  BY <1>1, <1>3 DEF StopSession, Restore, HandBack, Goto, Return, Restoring, mem, vars, owned
<1>4. CASE RestoreReturned
  <2>1. /\ task = "restore" /\ op = "idle" /\ UNCHANGED <<op, active, ret, phase, auto, bound, died>>
        /\ ret = "restored" => ~active
        /\ task' = IF caller = "main" THEN "exit" ELSE "events"
        /\ caller' = "nobody"
    BY <1>1, <1>4 DEF RestoreReturned, HandBack, Control, vars, serverVars
  <2>2. CASE ret = "restored"
    BY <1>1, <2>1, <2>2
  <2>3. CASE ret = "restoreFailed"
    <3>1. /\ UNCHANGED <<session, stopped, cleaned>>
          /\ pending' = (pending \/ caller = "start")
          /\ caller = "main" => code' = 1
      BY <1>4, <2>3 DEF RestoreReturned, HandBack, owned
    <3>2. QED
      BY <1>1, <2>1, <2>3, <3>1
  <2>4. QED
    BY <1>1, <2>1, <2>2, <2>3
<1>5. CASE ExitProcess
  BY <1>5 DEF ExitProcess, Exit, Stop, Goto, Blank, Restoring
<1>6. QED
  BY <1>2, <1>3, <1>4, <1>5

\* Every step keeps the types.
LEMMA AppTypeStep ==
  ASSUME AppTypeOK, [AppNext]_allVars
  PROVE  AppTypeOK'
<1> USE DEF AppTypeOK, Tasks, Phases
<1>1. CASE OpenTUI \/ SelectInterfaces \/ SelectMode \/ Back \/ QuitSetup
  BY <1>1 DEF OpenTUI, SelectInterfaces, SelectMode, Back, QuitSetup, Show, owned, serverVars
<1>2. CASE Confirm
  <2>1. auto' \in BOOLEAN
    BY <1>2, SystemProxyAssumption DEF Confirm, SystemProxyAssumption
  <2>2. QED
    BY <1>2, <2>1 DEF Confirm
<1>3. CASE Bind \/ BindFails
  BY <1>3 DEF Bind, BindFails, Run, Cleanup, owned, serverVars
<1>4. CASE CallBegin \/ BeginWorked \/ BeginFailed
  BY <1>4 DEF CallBegin, BeginWorked, BeginFailed, Run, model, owned, serverVars
<1>5. CASE RolledBack \/ Shutdown \/ ServerError \/ QuitArrives \/ Interrupted
  BY <1>5 DEF RolledBack, Shutdown, ServerError, QuitArrives, Interrupted, Cleanup,
              model, owned, serverVars
<1>6. CASE ServerDies \/ Killed \/ Edited \/ Inside \/ UNCHANGED allVars
  BY <1>6 DEF ServerDies, Killed, Edited, Inside, Blank, appVars, allVars, model, owned
<1>7. CASE CleanupDone \/ StopSession \/ RestoreReturned
  BY <1>7 DEF CleanupDone, StopSession, RestoreReturned, HandBack, owned, serverVars
<1>8. CASE ExitProcess
  BY <1>8 DEF ExitProcess, Blank
<1>9. QED
  BY <1>1, <1>2, <1>3, <1>4, <1>5, <1>6, <1>7, <1>8 DEF AppNext, User, Program

-----------------------------------------------------------------------------
\* The program keeps hold of what it has opened, in every state.
THEOREM AppInvariance == AppSpec => [](IInv /\ AInv)
<1>1. AppSpec => []IInv
  BY AppImplementsTransaction, Invariance, PTL
<1>2. AppInit => AInv
  <2> SUFFICES ASSUME AppInit PROVE AInv
    OBVIOUS
  <2>1. AppTypeOK
    BY DEF AppInit, AppTypeOK, Tasks, Phases
  <2>2. Calls /\ Owned /\ Phase
    BY DEF AppInit, Init, Calls, Owned, Phase, Stoppable
  <2>3. QED
    BY <2>1, <2>2 DEF AInv
<1>3. ASSUME IInv, AInv, [AppNext]_allVars PROVE AInv'
  <2>1. AppTypeOK'
    BY <1>3, AppTypeStep DEF AInv
  <2>2. ASSUME AppNext PROVE Calls' /\ Owned' /\ Phase'
    BY <1>3, <2>2, InsideStep, SetupStep, StartStep, RunningStep, CleanupStep
       DEF AppNext, User, Program, Inside
  <2>3. ASSUME UNCHANGED allVars PROVE Calls' /\ Owned' /\ Phase'
    BY <1>3, <2>3 DEF AInv, Calls, Owned, Phase, Stoppable, allVars, appVars, vars
  <2>4. QED
    BY <1>3, <2>1, <2>2, <2>3 DEF AInv
<1>4. QED
  BY <1>1, <1>2, <1>3, PTL DEF AppSpec

\* The state of session, interface and main keeps its types.
THEOREM AppTyping == AppSpec => []AppTypeOK
BY AppInvariance, PTL DEF AInv

\* A transaction the process owns always has a session that will restore it.
THEOREM OwnerKept == AppSpec => []OwnedBySession
<1>1. AInv => OwnedBySession
  BY DEF AInv, Owned, Stoppable, OwnedBySession
<1>2. QED
  BY <1>1, AppInvariance, PTL

\* However often a failed start is tried again, Begin finds no transaction.
THEOREM BeginsOnce == AppSpec => []NeverBeginsTwice
<1>1. AInv => NeverBeginsTwice
  BY DEF AInv, Owned, NeverBeginsTwice
<1>2. QED
  BY <1>1, AppInvariance, PTL

\* The exit code 0 is the truth: the settings are the user's.
THEOREM TrueExitCode == AppSpec => []CleanExit
<1>1. IInv /\ AInv => CleanExit
  BY DEF IInv, AInv, Claim, Calls, Owned, CleanExit
<1>2. QED
  BY <1>1, AppInvariance, PTL

\* main leaves a transaction open only after Restore failed, so that the guard
\* of SystemProxy's Exit never holds the process back.
THEOREM LeavesOnlyAfterFailure == AppSpec => []ExitOnlyAfterFailure
<1>1. AInv => ExitOnlyAfterFailure
  BY DEF AInv, Owned, ExitOnlyAfterFailure
<1>2. QED
  BY <1>1, AppInvariance, PTL

\* No value is written that points the system at a listener that was not bound,
\* and none of the user's is written back while the listener is open.
THEOREM BoundFirst == AppSpec => BoundBeforeEnabled
<1>1. IInv /\ AInv =>
        [ op' = op /\ step' = step + 1 =>
            /\ op = "enable" => session = "started" /\ (bound \/ died)
            /\ op = "restore" => ~bound ]_allVars
  <2>1. ASSUME AInv, op = "enable" PROVE session = "started" /\ (bound \/ died)
    <3>1. task \in Tasks /\ Calls /\ Owned
      BY <2>1 DEF AInv, AppTypeOK
    <3>2. task = "begun"
      BY <2>1, <3>1 DEF Calls, Tasks
    <3>3. QED
      BY <3>1, <3>2 DEF Owned, Stoppable
  <2>2. ASSUME AInv, op = "restore" PROVE ~bound
    <3>1. task \in Tasks /\ Calls /\ Owned
      BY <2>2 DEF AInv, AppTypeOK
    <3>2. task \in {"rolledBack", "restore"}
      BY <2>2, <3>1 DEF Calls, Tasks
    <3>3. QED
      BY <3>1, <3>2 DEF Owned
  <2>3. QED
    BY <2>1, <2>2
<1>2. QED
  BY <1>1, AppInvariance, PTL DEF BoundBeforeEnabled

-----------------------------------------------------------------------------
(***************************************************************************)
(* Launches knows of a run no more than these three values, and lets them  *)
(* change by Recover, Begin, Restore and Leave, each in one step.  A run   *)
(* owns its transaction until the attempt to remove the journal is over.   *)
(***************************************************************************)
RunStage ==
  CASE task = "exit" -> "end"
    [] task = "off" /\ op # "idle" -> "recover"
    [] OTHER -> "ui"
RunOwns == active \/ op = "forget"
RunJournal == IF journal = NoJournal THEN "nobody" ELSE "run"

\* The run holds the lease from beginning to end, so that nothing of the lease
\* changes.
AsLaunch == INSTANCE Launches WITH
  Launches <- {"run"}, NoOne <- "nobody", Pids <- {1}, NoPid <- 0,
  NoFile <- "none", NoRecord <- "none", Reuse <- FALSE,
  file <- [by |-> "run", written |-> TRUE],
  pc <- [l \in {"run"} |-> "holding"], pid <- [l \in {"run"} |-> 1],
  seen <- [l \in {"run"} |-> "none"], attempt <- [l \in {"run"} |-> 0],
  overlapped <- FALSE,
  stage <- [l \in {"run"} |-> RunStage], owns <- [l \in {"run"} |-> RunOwns],
  journal <- RunJournal

\* What End of Launches does to them.
RunEnds == RunStage' = "recover" /\ ~RunOwns' /\ UNCHANGED RunJournal

RunStep ==
  \/ AsLaunch!Recover("run") \/ AsLaunch!Begin("run")
  \/ AsLaunch!Restore("run") \/ AsLaunch!Leave("run")
  \/ RunEnds

Unseen == UNCHANGED <<RunStage, RunOwns, RunJournal>>

\* The steps of Launches, in the values of a run.
LEMMA RunRecovers ==
  ASSUME RunStage = "recover", RunStage' = "ui", journal' = NoJournal, RunOwns' = RunOwns
  PROVE  RunStep
BY DEF RunStep, RunJournal, AsLaunch!Recover, AsLaunch!AtWork, AsLaunch!Stage,
       AsLaunch!vars

LEMMA RunBegins ==
  ASSUME RunStage = "ui", RunStage' = "ui", RunOwns = FALSE, RunOwns' = TRUE,
         journal' # NoJournal
  PROVE  RunStep
BY DEF RunStep, RunJournal, AsLaunch!Begin, AsLaunch!AtWork, AsLaunch!vars

LEMMA RunRestores ==
  ASSUME RunStage = "ui", RunStage' = "ui", RunOwns = TRUE, RunOwns' = FALSE,
         journal' \in {NoJournal, journal}
  PROVE  RunStep
BY DEF RunStep, RunJournal, AsLaunch!Restore, AsLaunch!AtWork, AsLaunch!vars

LEMMA RunLeaves ==
  ASSUME RunStage = "ui", RunStage' = "end", RunOwns' = RunOwns, journal' = journal
  PROVE  RunStep
BY DEF RunStep, RunJournal, AsLaunch!Leave, AsLaunch!AtWork, AsLaunch!Stage,
       AsLaunch!vars

\* Handlers and keys leave the transaction alone, or start a call; the last
\* of them ends the interface.
LEMMA HandlerRuns ==
  ASSUME IInv, AInv, AppNext, ~Inside
  PROVE  RunStep \/ Unseen
<1>1. Control /\ Calls /\ task \in Tasks /\ active \in BOOLEAN
  BY DEF IInv, AInv, AppTypeOK, TypeOK
<1>2. CASE Killed \/ ExitProcess
  <2>1. task' = "off" /\ op' = "down" /\ active' = FALSE /\ journal' = journal
    BY <1>2 DEF Killed, ExitProcess, Crash, Exit, Stop, Goto, Blank
  <2>2. QED
    BY <2>1 DEF RunStep, RunEnds, RunStage, RunOwns, RunJournal
<1>3. CASE Edited
  BY <1>3 DEF Edited, ExternalEdit, mem, appVars, Unseen, RunStage, RunOwns, RunJournal
<1>4. CASE ServerDies
  BY <1>4 DEF ServerDies, vars, Unseen, RunStage, RunOwns, RunJournal
<1>5. ASSUME RunStage = "ui", RunStage' \in {"ui", "end"}, op = "idle", op' # "forget",
             active' = active, journal' = journal
      PROVE  RunStep \/ Unseen
  <2>1. RunOwns' = RunOwns /\ RunJournal' = RunJournal
    BY <1>5 DEF RunOwns, RunJournal
  <2>2. QED
    BY <1>5, <2>1, RunLeaves DEF Unseen
<1>6. CASE OpenTUI \/ User \/ Bind \/ BindFails \/ CallBegin \/ BeginWorked \/ BeginFailed
           \/ RolledBack \/ ServerError \/ QuitArrives \/ Interrupted
  <2>1. /\ task \in {"off", "events", "bind", "begin", "begun", "rolledBack"} /\ op = "idle"
        /\ task' \in {"events", "bind", "begin", "begun", "rolledBack", "cleanup"}
    BY <1>1, <1>6
       DEF Calls, OpenTUI, User, SelectInterfaces, SelectMode, Back, QuitSetup, Confirm,
           Shutdown, Show, Event, Bind, BindFails, Run, CallBegin, BeginWorked,
           BeginFailed, RolledBack, ServerError, QuitArrives, Interrupted, Cleanup
  <2>2. op' # "forget" /\ active' = active /\ journal' = journal
    BY <1>6, <2>1
       DEF OpenTUI, User, SelectInterfaces, SelectMode, Back, QuitSetup, Confirm,
           Shutdown, Show, Event, Bind, BindFails, CallBegin, BeginWorked,
           BeginFailed, RolledBack, ServerError, QuitArrives, Interrupted,
           Begin, BeginRefused, Restore, Goto, Return, disk, mem, vars
  <2>3. RunStage = "ui" /\ RunStage' = "ui"
    BY <2>1 DEF RunStage
  <2>4. QED
    BY <1>5, <2>1, <2>2, <2>3
<1>7. CASE CleanupDone \/ StopSession \/ RestoreReturned
  <2>1. /\ task \in {"cleanup", "restore"} /\ op = "idle"
        /\ task' \in {"events", "restore", "exit"}
    BY <1>1, <1>7 DEF Calls, CleanupDone, StopSession, RestoreReturned, HandBack
  <2>2. op' # "forget" /\ active' = active /\ journal' = journal
    BY <1>7, <2>1 DEF CleanupDone, StopSession, RestoreReturned, Restore, Goto, Return,
                      disk, mem, vars
  <2>3. RunStage = "ui" /\ RunStage' \in {"ui", "end"}
    BY <2>1 DEF RunStage
  <2>4. QED
    BY <1>5, <2>1, <2>2, <2>3
<1>8. QED
  BY <1>2, <1>3, <1>4, <1>6, <1>7 DEF AppNext, Program

\* The steps of a call in progress, most of which Launches does not see.
LEMMA CallRuns ==
  ASSUME IInv, AInv, Inside
  PROVE  RunStep \/ Unseen
<1>1. Control /\ Calls /\ task \in Tasks /\ active \in BOOLEAN
  BY DEF IInv, AInv, AppTypeOK, TypeOK
<1>2. task' = task
  BY DEF Inside, appVars
<1>3. CASE Launch
  <2>1. op = "down" /\ op' = "recover" /\ task = "off" /\ UNCHANGED <<active, journal>>
    BY <1>1, <1>3 DEF Launch, Goto, Calls, disk, mem
  <2>2. QED
    BY <1>2, <2>1 DEF Unseen, RunStage, RunOwns, RunJournal
<1>4. CASE RecoverNothing
  <2>1. /\ op = "recover" /\ op' = "idle" /\ task = "off" /\ UNCHANGED active
        /\ journal' = NoJournal
    BY <1>1, <1>4 DEF RecoverNothing, Goto, Calls, Control, disk, mem
  <2>2. RunStage = "recover" /\ RunStage' = "ui" /\ RunOwns' = RunOwns
    BY <1>2, <2>1 DEF RunStage, RunOwns
  <2>3. QED
    BY <2>1, <2>2, RunRecovers
<1>5. CASE RecoverLeftover \/ RecoverUndo \/ RecoverRefuse \/ RecoverFails \/ UndoFails
  <2>1. /\ op \in {"recover", "cleanup", "undo"} /\ op' \in {"down", "cleanup", "undo"}
        /\ task = "off" /\ ~active /\ active' \in {active, FALSE} /\ journal' = journal
    BY <1>1, <1>5 DEF RecoverLeftover, RecoverUndo, RecoverRefuse, RecoverFails, UndoFails,
                      Stop, Goto, Calls, disk, mem
  <2>2. active = FALSE /\ active' = FALSE /\ op # "forget" /\ op' # "forget"
    <3>1. active = FALSE /\ active' = FALSE
      BY <1>1, <2>1, Zenon
    <3>2. QED
      BY <2>1, <3>1
  <2>3. RunOwns' = RunOwns
    BY <2>2 DEF RunOwns
  <2>4. RunStage' = RunStage
    BY <1>2, <2>1 DEF RunStage
  <2>5. QED
    BY <2>1, <2>3, <2>4 DEF Unseen, RunJournal
<1>6. CASE JournalWritten
  <2>1. /\ op = "begin" /\ op' = "enable" /\ task # "off" /\ active' = TRUE
        /\ active = FALSE /\ journal' # NoJournal
    BY <1>1, <1>6 DEF JournalWritten, Goto, Calls, Control
  <2>2. task # "exit"
    BY <1>1, <2>1 DEF Calls
  <2>3. RunStage = "ui" /\ RunStage' = "ui" /\ RunOwns = FALSE /\ RunOwns' = TRUE
    BY <1>2, <2>1, <2>2 DEF RunStage, RunOwns
  <2>4. QED
    BY <2>1, <2>3, RunBegins
<1>7. CASE JournalNotWritten \/ EnableWrite \/ EnableNotify \/ EnableFails \/ RestoreFails
  <2>1. /\ op \in {"begin", "enable", "rollback", "restore"}
        /\ op' \in {"idle", "enable", "rollback"}
        /\ task # "off" /\ UNCHANGED <<active, journal>>
    BY <1>1, <1>7 DEF JournalNotWritten, EnableWrite, EnableNotify, EnableFails,
                      RestoreFails, Goto, Return, Calls, disk, mem
  <2>2. QED
    BY <1>2, <2>1 DEF Unseen, RunStage, RunOwns, RunJournal
<1>8. CASE RestoreWrite
  BY <1>2, <1>8 DEF RestoreWrite, mem, Unseen, RunStage, RunOwns, RunJournal
<1>9. CASE RestoreNotify
  <2>1. /\ UNCHANGED journal /\ active' = FALSE
        /\ \/ op = "undo" /\ op' = "cleanup" /\ ~active
           \/ op \in {"rollback", "restore"} /\ op' = "forget" /\ active /\ task # "off"
    BY <1>1, <1>9 DEF RestoreNotify, Restoring, Goto, Calls, Control, disk
  <2>2. RunOwns' = RunOwns
    BY <1>1, <2>1 DEF RunOwns
  <2>3. QED
    BY <1>2, <2>1, <2>2 DEF Unseen, RunStage, RunJournal
<1>10. CASE RemoveJournal \/ RemoveJournalFails
  <2>1. /\ op' = "idle" /\ active' = active /\ active = FALSE
        /\ \/ op = "cleanup" /\ journal' = NoJournal
           \/ op = "forget"
        /\ journal' \in {NoJournal, journal}
    BY <1>1, <1>10 DEF RemoveJournal, RemoveJournalFails, Return, Goto, Control, disk, mem
  <2>2. CASE op = "cleanup"
    <3>1. RunStage = "recover" /\ RunStage' = "ui" /\ RunOwns' = RunOwns
      BY <1>1, <1>2, <2>1, <2>2 DEF Calls, RunStage, RunOwns
    <3>2. QED
      BY <2>1, <2>2, <3>1, RunRecovers
  <2>3. CASE op = "forget"
    <3>1. task \notin {"off", "exit"}
      BY <1>1, <2>3 DEF Calls
    <3>2. RunStage = "ui" /\ RunStage' = "ui" /\ RunOwns = TRUE /\ RunOwns' = FALSE
      BY <1>2, <2>1, <2>3, <3>1 DEF RunStage, RunOwns
    <3>3. QED
      BY <2>1, <3>2, RunRestores
  <2>4. QED
    BY <2>1, <2>2, <2>3
<1>11. QED
  BY <1>3, <1>4, <1>5, <1>6, <1>7, <1>8, <1>9, <1>10 DEF Inside, Proceed, Recover, Failure

\* What a run does with the settings, write by write, failure by failure, is
\* what Launches lets a launch do in single steps.
THEOREM RunsAsLaunch == AppSpec => [][RunStep]_<<RunStage, RunOwns, RunJournal>>
<1>1. ASSUME IInv, AInv, [AppNext]_allVars
      PROVE  [RunStep]_<<RunStage, RunOwns, RunJournal>>
  <2>1. CASE AppNext
    BY <1>1, <2>1, HandlerRuns, CallRuns DEF Unseen
  <2>2. CASE UNCHANGED allVars
    BY <2>2 DEF allVars, appVars, vars, RunStage, RunOwns, RunJournal
  <2>3. QED
    BY <1>1, <2>1, <2>2
<1>2. QED
  BY <1>1, AppInvariance, PTL DEF AppSpec
=============================================================================
