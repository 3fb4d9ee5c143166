------------------------------ MODULE Launches ------------------------------
(***************************************************************************)
(* Many launches of the program and the one set of proxy settings they     *)
(* share: run of cmd/multi-isp-proxy takes the lease of InstanceLock       *)
(* first, recovers what an earlier launch left, works, cleans up and       *)
(* releases the lease last.  Nothing in internal/sysproxy keeps two        *)
(* processes apart; only this order and the lease do.                      *)
(*                                                                         *)
(* SystemProxy has the steps of one launch's transaction.  Here Begin,     *)
(* Restore and Recover are one step each, and the journal is known by the  *)
(* launch whose settings it undoes.                                        *)
(***************************************************************************)
EXTENDS InstanceLock

CONSTANT NoOne     \* no journal

ASSUME NoOneAssumption == NoOne \notin Launches

VARIABLES
  stage,    \* how far run is, once it has the lease
  owns,     \* Manager.active of each launch
  journal   \* the launch whose transaction the journal on disk describes

work == <<stage, owns, journal>>
allVars == <<vars, work>>

WorkTypeOK ==
  /\ stage \in [Launches -> {"recover", "ui", "end"}]
  /\ owns \in [Launches -> BOOLEAN]
  /\ journal \in Launches \cup {NoOne}

WorkInit ==
  /\ Init
  /\ stage = [l \in Launches |-> "recover"]
  /\ owns = [l \in Launches |-> FALSE]
  /\ journal = NoOne

Stage(l, s) == stage' = [stage EXCEPT ![l] = s]

\* run has the lease and has not released it.
AtWork(l, s) == pc[l] = "holding" /\ stage[l] = s

-----------------------------------------------------------------------------
\* Faulty variant: the interface opens although the recovery failed.
RecoverAnyway(l) ==
  /\ AtWork(l, "recover")
  /\ journal' \in {journal, NoOne}
  /\ Stage(l, "ui")
  /\ UNCHANGED <<vars, owns>>

\* Manager.Recover, before the interface opens: it undoes whatever the journal
\* describes, or fails, and then run releases the lease and returns.
Recover(l) ==
  /\ AtWork(l, "recover")
  /\ \/ journal' = NoOne /\ Stage(l, "ui")
     \/ UNCHANGED journal /\ Stage(l, "end")
  /\ UNCHANGED <<vars, owns>>

\* The session's Begin writes the journal over any earlier one.  If it fails,
\* the rollback removes the journal, or leaves it to be tried again.
Begin(l) ==
  /\ AtWork(l, "ui") /\ ~owns[l]
  /\ \/ journal' = l /\ owns' = [owns EXCEPT ![l] = TRUE]
     \/ journal' \in {l, NoOne} /\ UNCHANGED owns
  /\ UNCHANGED <<vars, stage>>

\* Restore, by the session or by Cleanup: the settings are back; the journal
\* may stay behind.  A Restore that fails earlier changes nothing here.
Restore(l) ==
  /\ AtWork(l, "ui") /\ owns[l]
  /\ owns' = [owns EXCEPT ![l] = FALSE]
  /\ journal' \in {NoOne, journal}
  /\ UNCHANGED <<vars, stage>>

\* The interface has ended.  Cleanup was called, and may have failed.
Leave(l) ==
  /\ AtWork(l, "ui")
  /\ Stage(l, "end")
  /\ UNCHANGED <<vars, owns, journal>>

\* Faulty variant: the lease is given up before Cleanup.
HandOverEarly(l) ==
  /\ stage[l] \in {"ui", "end"}
  /\ Release(l)
  /\ UNCHANGED work

\* Only then is the lease released.
HandOver(l) ==
  /\ stage[l] = "end"
  /\ Release(l)
  /\ UNCHANGED work

\* A process takes its memory with it, and leaves the journal.
End(l) ==
  /\ Exit(l) \/ Crash(l)
  /\ owns' = [owns EXCEPT ![l] = FALSE]
  /\ Stage(l, "recover")
  /\ UNCHANGED journal

Elsewhere(l) ==
  /\ Launch(l) \/ Acquire(l) \/ ReleaseRead(l) \/ ReleaseRemove(l) \/ ReleaseFails(l)
  /\ UNCHANGED work

WorkNext == \E l \in Launches :
  \/ Recover(l) \/ Begin(l) \/ Restore(l) \/ Leave(l)
  \/ HandOver(l) \/ End(l) \/ Elsewhere(l)

WorkSpec == WorkInit /\ [][WorkNext]_allVars
-----------------------------------------------------------------------------
\* As long as a launch works with the settings, until Cleanup has had its
\* chance, no other launch recovers, restores or replaces the transaction it
\* owns; and its interface opens on settings that no launch before it left
\* changed, however that launch ended.  Without the lease, or with the lease
\* released too early, the next launch would undo the settings as a leftover.
TransactionSpared ==
  ~overlapped =>
    \A l \in Launches :
      stage[l] = "ui" => journal \in IF owns[l] THEN {l} ELSE {l, NoOne}
=============================================================================
