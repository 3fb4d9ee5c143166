---------------------------- MODULE InstanceLock ----------------------------
(***************************************************************************)
(* The single-instance lease of internal/instance: main calls Acquire when *)
(* it starts and Release when it ends.  Every launch of the program is a   *)
(* process of its own; the processes share one lock file and nothing else, *)
(* so every system call on that file is a step, and a process may be       *)
(* killed between any two of them.                                         *)
(*                                                                         *)
(* A launch creates at most one file, so a file is known by the launch     *)
(* that made it: its token is the launch, its PID the launch's process ID. *)
(***************************************************************************)
EXTENDS Naturals

CONSTANTS
  Launches,    \* the launches of the program, each one process
  Pids,        \* process IDs
  NoFile,      \* the lock file does not exist
  NoRecord,    \* the launch has read no record
  NoPid,       \* the launch has no process yet
  Reuse        \* may the system give a process ID of a dead process again?

ASSUME LaunchAssumption ==
  /\ Reuse \in BOOLEAN
  /\ NoRecord \notin Launches
  /\ NoPid \notin Pids

\* A lock file; until written it is empty.
Files == [by : Launches, written : BOOLEAN]

ASSUME FileAssumption == NoFile \notin Files

VARIABLES
  file,      \* the file at the lock path
  pc,        \* the next system call of each launch
  pid,       \* its process ID
  seen,      \* the author of the record Acquire read last
  attempt,   \* rounds of Acquire's loop completed
  overlapped \* history: did a launch start while another was in Acquire?

vars == <<file, pc, pid, seen, attempt, overlapped>>

\* Inside Acquire, owning the file, inside Release; and the ends of a launch.
Acquiring == {"create", "write", "sync", "read", "check", "remove"}
Owning    == {"write", "sync", "holding", "relRead", "relRemove"}
Holding   == {"holding", "relRead", "relRemove"}
Running   == Acquiring \cup Owning \cup {"exiting"}
Places    == Running \cup {"off", "gone"}

TypeOK ==
  /\ file \in Files \cup {NoFile}
  /\ pc \in [Launches -> Places]
  /\ pid \in [Launches -> Pids \cup {NoPid}]
  /\ seen \in [Launches -> Launches \cup {NoRecord}]
  /\ attempt \in [Launches -> 0..3]
  /\ overlapped \in BOOLEAN

Init ==
  /\ file = NoFile
  /\ pc = [l \in Launches |-> "off"]
  /\ pid = [l \in Launches |-> NoPid]
  /\ seen = [l \in Launches |-> NoRecord]
  /\ attempt = [l \in Launches |-> 0]
  /\ overlapped = FALSE

Goto(l, place) == pc' = [pc EXCEPT ![l] = place]

Live == { l \in Launches : pc[l] \in Running }

\* The system starts a process and gives it an ID no living process has.
Launch(l) ==
  /\ pc[l] = "off"
  /\ \E p \in Pids :
       /\ \A k \in Launches : pid[k] = p => Reuse /\ k \notin Live
       /\ pid' = [pid EXCEPT ![l] = p]
  /\ Goto(l, "create")
  /\ overlapped' = (overlapped \/ \E k \in Launches : pc[k] \in Acquiring)
  /\ UNCHANGED <<file, seen, attempt>>

-----------------------------------------------------------------------------
(***************************************************************************)
(* Acquire                                                                 *)
(***************************************************************************)

\* Faulty variants: the process ID serves as the token; a file that exists is
\* cleaned up as after a failed write; the file is opened without O_EXCL.
CreateWithPidToken(l) ==
  /\ pc[l] = "create"
  /\ \/ /\ file = NoFile
        /\ file' = [by |-> pid[l], written |-> FALSE]
        /\ Goto(l, "write")
     \/ file # NoFile /\ Goto(l, "read") /\ UNCHANGED file
  /\ UNCHANGED <<pid, seen, attempt, overlapped>>

CreateCleansUp(l) ==
  /\ pc[l] = "create"
  /\ \/ /\ file = NoFile
        /\ file' = [by |-> l, written |-> FALSE]
        /\ Goto(l, "write")
     \/ file # NoFile /\ Goto(l, "read") /\ file' = NoFile
  /\ UNCHANGED <<pid, seen, attempt, overlapped>>

CreateNotExclusive(l) ==
  /\ pc[l] = "create"
  /\ file' = [by |-> l, written |-> FALSE]
  /\ Goto(l, "write")
  /\ UNCHANGED <<pid, seen, attempt, overlapped>>

\* create: O_EXCL makes the file, or finds that one exists.
Create(l) ==
  /\ pc[l] = "create"
  /\ \/ /\ file = NoFile
        /\ file' = [by |-> l, written |-> FALSE]
        /\ Goto(l, "write")
     \/ /\ file # NoFile
        /\ Goto(l, "read")
        /\ UNCHANGED file
  /\ UNCHANGED <<pid, seen, attempt, overlapped>>

\* The record goes to the file this launch opened, wherever that file is now.
Write(l) ==
  /\ pc[l] = "write"
  /\ file' = IF file # NoFile /\ file.by = l
             THEN [file EXCEPT !.written = TRUE] ELSE file
  /\ Goto(l, "sync")
  /\ UNCHANGED <<pid, seen, attempt, overlapped>>

Sync(l) ==
  /\ pc[l] = "sync"
  /\ Goto(l, "holding")
  /\ UNCHANGED <<file, pid, seen, attempt, overlapped>>

\* The record cannot be written or flushed: create removes the path, and does
\* not look whether that worked.
CreateFails(l) ==
  /\ pc[l] \in {"write", "sync"}
  /\ file' \in {NoFile, file}
  /\ Goto(l, "exiting")
  /\ UNCHANGED <<pid, seen, attempt, overlapped>>

\* read: a missing, empty or partial file is an error.
Record == IF file # NoFile /\ file.written THEN file.by ELSE NoRecord

\* Without a record to judge, Acquire gives up.
Read(l) ==
  /\ pc[l] = "read"
  /\ IF Record # NoRecord
     THEN seen' = [seen EXCEPT ![l] = Record] /\ Goto(l, "check")
     ELSE Goto(l, "exiting") /\ UNCHANGED seen
  /\ UNCHANGED <<file, pid, attempt, overlapped>>

\* Faulty variant: a process that cannot be opened counts as dead.
AliveNever(author) == FALSE

\* processAlive
Alive(author) == \E k \in Live : pid[k] = pid[author]

\* Faulty variant: the verdict on the author is not asked for.
CheckSkipped(l) ==
  /\ pc[l] = "check"
  /\ Goto(l, "remove")
  /\ UNCHANGED <<file, pid, seen, attempt, overlapped>>

Check(l) ==
  /\ pc[l] = "check"
  /\ Goto(l, IF Alive(seen[l]) THEN "exiting" ELSE "remove")
  /\ UNCHANGED <<file, pid, seen, attempt, overlapped>>

\* Faulty variant: an error of the removal is passed over, and the stale lease
\* stays where it is.
RemoveNothing(l) ==
  /\ pc[l] = "remove"
  /\ attempt' = [attempt EXCEPT ![l] = @ + 1]
  /\ Goto(l, IF attempt[l] + 1 < 3 THEN "create" ELSE "exiting")
  /\ UNCHANGED <<file, pid, seen, overlapped>>

\* Whatever is at the path by now is removed, or is gone already.
Remove(l) ==
  /\ pc[l] = "remove"
  /\ file' = NoFile
  /\ attempt' = [attempt EXCEPT ![l] = @ + 1]
  /\ Goto(l, IF attempt[l] + 1 < 3 THEN "create" ELSE "exiting")
  /\ UNCHANGED <<pid, seen, overlapped>>

\* Any other error of a system call ends Acquire.
AcquireFails(l) ==
  /\ pc[l] \in {"create", "read", "check", "remove"}
  /\ Goto(l, "exiting")
  /\ UNCHANGED <<file, pid, seen, attempt, overlapped>>

-----------------------------------------------------------------------------
(***************************************************************************)
(* Release                                                                 *)
(***************************************************************************)
Release(l) ==
  /\ pc[l] = "holding"
  /\ Goto(l, "relRead")
  /\ UNCHANGED <<file, pid, seen, attempt, overlapped>>

\* The file is read; another launch's token is left alone.
ReleaseRead(l) ==
  /\ pc[l] = "relRead"
  /\ Goto(l, IF Record = l THEN "relRemove" ELSE "exiting")
  /\ UNCHANGED <<file, pid, seen, attempt, overlapped>>

ReleaseRemove(l) ==
  /\ pc[l] = "relRemove"
  /\ file' = NoFile
  /\ Goto(l, "exiting")
  /\ UNCHANGED <<pid, seen, attempt, overlapped>>

ReleaseFails(l) ==
  /\ pc[l] \in {"relRead", "relRemove"}
  /\ Goto(l, "exiting")
  /\ UNCHANGED <<file, pid, seen, attempt, overlapped>>

\* main returns, or the process is killed.
Exit(l) ==
  /\ pc[l] = "exiting"
  /\ Goto(l, "gone")
  /\ UNCHANGED <<file, pid, seen, attempt, overlapped>>

Crash(l) ==
  /\ pc[l] \in Running \ {"exiting"}
  /\ Goto(l, "gone")
  /\ UNCHANGED <<file, pid, seen, attempt, overlapped>>

Acquire(l) ==
  \/ Create(l) \/ Write(l) \/ Sync(l) \/ CreateFails(l)
  \/ Read(l) \/ Check(l) \/ Remove(l) \/ AcquireFails(l)

Releasing(l) ==
  Release(l) \/ ReleaseRead(l) \/ ReleaseRemove(l) \/ ReleaseFails(l)

Next == \E l \in Launches :
          Launch(l) \/ Acquire(l) \/ Releasing(l) \/ Exit(l) \/ Crash(l)

Spec == Init /\ [][Next]_vars
-----------------------------------------------------------------------------
(***************************************************************************)
(* What the lease promises: as long as the launches so far did not overlap *)
(* inside Acquire and, last, when they all start at the same moment.       *)
(***************************************************************************)

\* README: "Only one instance may run per user."  As it stands the code does
\* not keep it when two launches find the same stale lease.
Exclusive ==
  \A k, l \in Launches : pc[k] \in Holding /\ pc[l] \in Holding => k = l

\* Launches one after the other exclude each other, whatever crashes, failed
\* system calls and recycled process IDs came before.
AtMostOneHolder == ~overlapped => Exclusive

\* While a launch holds the lease, the file on disk is its own: no other
\* launch, however stale the record it once read, has taken the file away.
HolderHasLease ==
  ~overlapped =>
    \A l \in Launches :
      pc[l] \in Holding => file # NoFile /\ file.by = l /\ file.written

\* "Release removes the lease only if it still belongs to this Lock", although
\* the file is read by one system call and removed by another.
ReleaseSparesOthers ==
  [][ \A l \in Launches :
        ~overlapped /\ pc[l] = "relRemove" /\ pc'[l] = "exiting" /\ file' # file
          => file.by = l ]_vars

\* Acquire "removes a stale lease once": after the one removal of a launch that
\* is alone in Acquire nothing but a failing call or its death keeps the lease
\* from it.  It finds the path free when it creates its file, so it judges and
\* removes no second record and never runs out of rounds.  Nothing is promised
\* before the removal: a living author, and a file without a record, turn a
\* launch away in its first round.
OneRemovalSuffices ==
  ~overlapped =>
    \A l \in Launches : attempt[l] > 0 =>
      /\ attempt[l] = 1
      /\ pc[l] \notin {"read", "check", "remove"}
      /\ pc[l] = "create" => file = NoFile

\* Launches at the same moment exclude each other as long as none of them has
\* ended: two holders need a lease somebody left behind.
SimultaneousExclusion == (\A l \in Launches : pc[l] # "gone") => Exclusive
=============================================================================
