----------------------------- MODULE Application -----------------------------
(***************************************************************************)
(* One process of the program around the system-proxy transaction: main,   *)
(* the phases of the terminal interface (internal/tui) and the session it  *)
(* starts (internal/app), composed with SystemProxy, whose variables and   *)
(* steps it extends.  main holds the instance lease throughout, so there   *)
(* is one process at a time.                                               *)
(*                                                                         *)
(* Bubble Tea hands the messages to Update one after the other, so at most *)
(* one handler is running: task says where it is.  A handler that calls    *)
(* Begin or Restore waits until op is "idle" again.  Only the server runs  *)
(* beside it, and tea.Quit is a message like any other: keys pressed       *)
(* before it arrives are still handled.                                    *)
(***************************************************************************)
EXTENDS SystemProxy, Integers

VARIABLES
  task,      \* "off" before the interface opens, "events" between messages
  phase,     \* Model.phase
  several,   \* two interfaces or more are selected
  auto,      \* Model.winProxyAuto, and AutoSystemProxy of the session
  failed,    \* Model.err is set
  pending,   \* Model.cleanupPending
  quitting,  \* tea.Quit is on its way
  session,   \* lifecycleState.session: "none", "fresh" or "started"
  stopped,   \* its Session.stopped
  cleaned,   \* lifecycleState.cleaned
  bound,     \* the server of the session accepts connections
  died,      \* that server failed on its own and Wait has not reported it
  waiting,   \* the command that calls Wait was issued
  caller,    \* who called Cleanup
  code       \* exit code of main, -1 while it runs or when it was killed

model == <<phase, several, auto, failed, pending, quitting>>
owned == <<session, stopped, cleaned>>
serverVars == <<bound, died, waiting>>
appVars == <<task, phase, several, auto, failed, pending, quitting, session,
             stopped, cleaned, bound, died, waiting, caller, code>>
allVars == <<vars, appVars>>

Tasks == {"off", "events", "bind", "begin", "begun", "rolledBack",
          "cleanup", "restore", "exit"}
Phases == {"interfaces", "mode", "confirm", "running", "stopping"}

AppTypeOK ==
  /\ task \in Tasks /\ phase \in Phases
  /\ {several, auto, failed, pending, quitting} \subseteq BOOLEAN
  /\ session \in {"none", "fresh", "started"}
  /\ {stopped, cleaned, bound, died, waiting} \subseteq BOOLEAN
  /\ caller \in {"nobody", "start", "key", "error", "main"}
  /\ code \in {-1, 0, 1}

\* NewModelWithConfig, and what is left when the process is gone.
Blank(exitCode) ==
  /\ task' = "off" /\ phase' = "interfaces"
  /\ several' = FALSE /\ auto' = FALSE /\ failed' = FALSE
  /\ pending' = FALSE /\ quitting' = FALSE
  /\ session' = "none" /\ stopped' = FALSE /\ cleaned' = FALSE
  /\ bound' = FALSE /\ died' = FALSE /\ waiting' = FALSE
  /\ caller' = "nobody" /\ code' = exitCode

AppInit ==
  /\ Init
  /\ task = "off" /\ phase = "interfaces"
  /\ several = FALSE /\ auto = FALSE /\ failed = FALSE
  /\ pending = FALSE /\ quitting = FALSE
  /\ session = "none" /\ stopped = FALSE /\ cleaned = FALSE
  /\ bound = FALSE /\ died = FALSE /\ waiting = FALSE
  /\ caller = "nobody" /\ code = -1

\* main opens the interface when Recover has returned without an error.  The
\* discovery of the interfaces may leave an error on the first screen.
OpenTUI ==
  /\ task = "off" /\ op = "idle"
  /\ task' = "events" /\ code' = -1
  /\ failed' \in BOOLEAN
  /\ UNCHANGED <<vars, phase, several, auto, pending, quitting, owned,
                 serverVars, caller>>

-----------------------------------------------------------------------------
(***************************************************************************)
(* Keys of the setup phases                                                *)
(***************************************************************************)
Event == task = "events"

Show(p) == /\ phase' = p
           /\ UNCHANGED <<vars, task, auto, failed, pending, quitting, owned,
                          serverVars, caller, code>>

\* handleSelectInterfaces: an error on screen leaves nothing but to quit.
SelectInterfaces ==
  /\ Event /\ phase = "interfaces" /\ ~failed
  /\ several' \in BOOLEAN
  /\ Show(IF several' THEN "mode" ELSE "confirm")

SelectMode ==
  /\ Event /\ phase = "mode"
  /\ \E p \in {"confirm", "interfaces"} : Show(p)
  /\ UNCHANGED several

Back ==
  /\ Event /\ phase = "confirm" /\ ~pending
  /\ Show(IF several THEN "mode" ELSE "interfaces")
  /\ UNCHANGED several

\* "q" during setup: tea.Quit, and nothing else changes.
QuitSetup ==
  /\ Event
  /\ phase \in {"interfaces", "mode"} \/ (phase = "confirm" /\ ~pending)
  /\ quitting' = TRUE
  /\ UNCHANGED <<vars, task, phase, several, auto, failed, pending, owned,
                 serverVars, caller, code>>

\* "y", or "n" on Windows: startProxy with a new session.  (On Linux "n" goes
\* back a phase, as Back does.)
Confirm ==
  /\ Event /\ phase = "confirm" /\ ~pending
  /\ auto' \in {Supported, FALSE}
  /\ failed' = FALSE
  /\ session' = "fresh" /\ stopped' = FALSE /\ cleaned' = FALSE
  /\ died' = FALSE
  /\ task' = "bind"
  /\ UNCHANGED <<vars, phase, several, pending, quitting, bound, waiting,
                 caller, code>>

-----------------------------------------------------------------------------
(***************************************************************************)
(* Session.Start                                                           *)
(***************************************************************************)
Cleanup(who) == task' = "cleanup" /\ caller' = who

\* Faulty variant: nobody waits for the server.
RunUnwatched == task' = "events" /\ phase' = "running" /\ pending' = FALSE
                /\ UNCHANGED waiting

\* Start returned nil: the interface shows the running phase and waits.
Run == task' = "events" /\ phase' = "running" /\ waiting' = TRUE
       /\ pending' = FALSE

\* Faulty variant: the listener is opened in the background.
BindLater ==
  /\ task = "bind"
  /\ bound' \in BOOLEAN /\ session' = "started"
  /\ IF auto THEN task' = "begin" /\ UNCHANGED <<phase, waiting, pending>>
             ELSE Run
  /\ UNCHANGED <<vars, several, auto, failed, quitting, stopped, cleaned,
                 died, caller, code>>

\* server.Start binds the listeners before anything else happens.
Bind ==
  /\ task = "bind"
  /\ bound' = TRUE /\ session' = "started"
  /\ IF auto THEN task' = "begin" /\ UNCHANGED <<phase, waiting, pending>>
             ELSE Run
  /\ UNCHANGED <<vars, several, auto, failed, quitting, stopped, cleaned,
                 died, caller, code>>

BindFails ==
  /\ task = "bind"
  /\ failed' = TRUE
  /\ Cleanup("start")
  /\ UNCHANGED <<vars, phase, several, auto, pending, quitting, owned,
                 serverVars, code>>

CallBegin ==
  /\ task = "begin"
  /\ (\E a \in Addresses : Begin(a)) \/ BeginRefused
  /\ task' = "begun"
  /\ UNCHANGED <<model, owned, serverVars, caller, code>>

BeginWorked ==
  /\ task = "begun" /\ op = "idle" /\ ret = "began"
  /\ Run
  /\ UNCHANGED <<vars, several, auto, failed, quitting, owned, bound, died,
                 caller, code>>

\* A failed Begin: stopServerLocked, and Restore tries the rollback again.
BeginFailed ==
  /\ task = "begun" /\ op = "idle" /\ ret = "beginFailed"
  /\ bound' = FALSE
  /\ Restore
  /\ task' = "rolledBack"
  /\ UNCHANGED <<model, owned, died, waiting, caller, code>>

\* Faulty variant: the session counts as stopped whatever Restore said.
RolledBackAnyway ==
  /\ task = "rolledBack" /\ op = "idle"
  /\ stopped' = TRUE
  /\ failed' = TRUE
  /\ Cleanup("start")
  /\ UNCHANGED <<vars, phase, several, auto, pending, quitting, session,
                 cleaned, serverVars, code>>

RolledBack ==
  /\ task = "rolledBack" /\ op = "idle"
  /\ stopped' = (ret = "restored")
  /\ failed' = TRUE
  /\ Cleanup("start")
  /\ UNCHANGED <<vars, phase, several, auto, pending, quitting, session,
                 cleaned, serverVars, code>>

-----------------------------------------------------------------------------
(***************************************************************************)
(* The running phase, and the ways to Cleanup                              *)
(***************************************************************************)

\* Serve fails on its own.
ServerDies ==
  /\ bound
  /\ bound' = FALSE /\ died' = TRUE
  /\ UNCHANGED <<vars, task, model, owned, waiting, caller, code>>

\* "q" while running or while a cleanup is pending, ctrl+c at any time.
Shutdown ==
  /\ Event
  /\ phase' = "stopping"
  /\ Cleanup("key")
  /\ UNCHANGED <<vars, several, auto, failed, pending, quitting, owned,
                 serverVars, code>>

\* proxyErrorMsg
ServerError ==
  /\ Event /\ waiting /\ died
  /\ died' = FALSE /\ waiting' = FALSE
  /\ phase' = "stopping" /\ failed' = TRUE
  /\ Cleanup("error")
  /\ UNCHANGED <<vars, several, auto, pending, quitting, owned, bound, code>>

\* program.Run returns: tea.Quit has arrived.
QuitArrives ==
  /\ Event /\ quitting
  /\ code' = 0
  /\ Cleanup("main")
  /\ UNCHANGED <<vars, model, owned, serverVars>>

\* program.Run returns an error: an interrupt, or the terminal is gone.
Interrupted ==
  /\ Event
  /\ code' = 1
  /\ Cleanup("main")
  /\ UNCHANGED <<vars, model, owned, serverVars>>

-----------------------------------------------------------------------------
(***************************************************************************)
(* Cleanup and Session.Stop                                                *)
(***************************************************************************)

\* Faulty variants: the exit code counts the errors; it ignores the cleanup;
\* a failed cleanup does not keep the user from starting again.
HandBackCounting(ok) ==
  /\ failed' = (failed \/ ~ok)
  /\ pending' = (pending \/ (caller = "start" /\ ~ok))
  /\ quitting' = (quitting \/ caller \in {"key", "error"})
  /\ task' = IF caller = "main" THEN "exit" ELSE "events"
  /\ code' = IF caller = "main" /\ ~ok THEN code + 1 ELSE code
  /\ caller' = "nobody"

HandBackIgnoring(ok) ==
  /\ failed' = (failed \/ ~ok)
  /\ pending' = (pending \/ (caller = "start" /\ ~ok))
  /\ quitting' = (quitting \/ caller \in {"key", "error"})
  /\ task' = IF caller = "main" THEN "exit" ELSE "events"
  /\ caller' = "nobody"
  /\ UNCHANGED code

HandBackRetrying(ok) ==
  /\ failed' = (failed \/ ~ok)
  /\ quitting' = (quitting \/ caller \in {"key", "error"})
  /\ task' = IF caller = "main" THEN "exit" ELSE "events"
  /\ code' = IF caller = "main" /\ ~ok THEN 1 ELSE code
  /\ caller' = "nobody"
  /\ UNCHANGED pending

\* What the caller of Cleanup does with its result.
HandBack(ok) ==
  /\ failed' = (failed \/ ~ok)
  /\ pending' = (pending \/ (caller = "start" /\ ~ok))
  /\ quitting' = (quitting \/ caller \in {"key", "error"})
  /\ task' = IF caller = "main" THEN "exit" ELSE "events"
  /\ code' = IF caller = "main" /\ ~ok THEN 1 ELSE code
  /\ caller' = "nobody"

\* Nothing left to stop.
CleanupDone ==
  /\ task = "cleanup"
  /\ cleaned \/ session = "none" \/ stopped
  /\ cleaned' = TRUE /\ session' = "none"
  /\ HandBack(TRUE)
  /\ UNCHANGED <<vars, phase, several, auto, stopped, serverVars>>

\* Faulty variant: only the server is stopped.
StopServerOnly ==
  /\ task = "cleanup"
  /\ ~cleaned /\ session # "none" /\ ~stopped
  /\ bound' = FALSE
  /\ stopped' = TRUE /\ cleaned' = TRUE /\ session' = "none"
  /\ HandBack(TRUE)
  /\ UNCHANGED <<vars, phase, several, auto, died, waiting>>

\* Session.Stop: the server first, then the settings if they are still owned.
StopSession ==
  /\ task = "cleanup"
  /\ ~cleaned /\ session # "none" /\ ~stopped
  /\ bound' = FALSE
  /\ IF auto /\ active
     THEN /\ Restore /\ task' = "restore"
          /\ UNCHANGED <<owned, failed, pending, quitting, caller, code>>
     ELSE /\ stopped' = TRUE /\ cleaned' = TRUE /\ session' = "none"
          /\ HandBack(TRUE) /\ UNCHANGED vars
  /\ UNCHANGED <<phase, several, auto, died, waiting>>

RestoreReturned ==
  /\ task = "restore" /\ op = "idle"
  /\ \/ /\ ret = "restored"
        /\ stopped' = TRUE /\ cleaned' = TRUE /\ session' = "none"
        /\ HandBack(TRUE)
     \/ /\ ret = "restoreFailed"
        /\ HandBack(FALSE) /\ UNCHANGED owned
  /\ UNCHANGED <<vars, phase, several, auto, serverVars>>

\* main returns its exit code.
ExitProcess ==
  /\ task = "exit"
  /\ Exit
  /\ Blank(code)

-----------------------------------------------------------------------------
\* The steps of SystemProxy that the program does not start itself.
Inside == (Launch \/ Proceed \/ Failure) /\ UNCHANGED appVars

Killed == Crash /\ Blank(-1)

Edited == (\E s \in Settings : ExternalEdit(s)) /\ UNCHANGED appVars

User == SelectInterfaces \/ SelectMode \/ Back \/ QuitSetup \/ Confirm \/ Shutdown

\* Steps the program takes by itself once they are possible.
Program ==
  \/ OpenTUI \/ Bind \/ BindFails \/ CallBegin \/ BeginWorked \/ BeginFailed
  \/ RolledBack \/ CleanupDone \/ StopSession \/ RestoreReturned \/ ExitProcess

AppNext ==
  \/ Inside \/ Killed \/ Edited
  \/ User \/ Program
  \/ ServerDies \/ ServerError \/ QuitArrives \/ Interrupted

AppFairness ==
  /\ WF_allVars(Proceed /\ UNCHANGED appVars)
  /\ WF_allVars(Program)
  /\ WF_allVars(ServerError)
  /\ WF_allVars(QuitArrives)

AppSpec == AppInit /\ [][AppNext]_allVars
FairAppSpec == AppSpec /\ AppFairness
-----------------------------------------------------------------------------
\* architecture.md: a failed rollback "remains owned by the session and can be
\* retried during final cleanup".  A transaction the process owns always has a
\* session that Cleanup will find and whose Stop will restore it; a retry of
\* Start never replaces that session.
OwnedBySession ==
  active /\ op = "idle" =>
    /\ session = "started" /\ auto /\ ~stopped /\ ~cleaned
    /\ task # "bind"

\* Begin is never called while a transaction is open, although a failed start
\* may be tried again: "already active" is an error nobody ever sees.
NeverBeginsTwice == task = "begin" => ~active

\* architecture.md: "Windows is never pointed at a listener that has not
\* successfully bound".  A write of Enable happens with the listener open, or
\* after the server broke down by itself; and before the session writes the
\* user's settings back, at its end or after a failed start, it has closed the
\* listener.
BoundBeforeEnabled ==
  [][ op' = op /\ step' = step + 1 =>
        /\ op = "enable" => session = "started" /\ (bound \/ died)
        /\ op = "restore" => ~bound ]_allVars

\* An exit code of 0 says that the settings are the user's again and that the
\* process owned nothing more.
CleanExit ==
  task = "exit" /\ code = 0 =>
    ~active /\ ~bound /\ (~interfered => reg = orig)

\* main exits with a transaction open only after Restore failed, which is what
\* SystemProxy assumes of its callers.
ExitOnlyAfterFailure == task = "exit" /\ active => ret = "restoreFailed"

\* When the server breaks down while the interface shows it running, the
\* settings do not stay pointed at it: they are given back, or the process ends
\* and leaves them to the next launch.  (After a failed start whose rollback and
\* cleanup failed too, the error is on screen and the user has to act.)
DeadServerReleased == (phase = "running" /\ died /\ active) ~> ~active
=============================================================================
