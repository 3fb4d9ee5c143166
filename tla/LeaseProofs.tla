----------------------------- MODULE LeaseProofs -----------------------------
(***************************************************************************)
(* Proofs about InstanceLock and Launches for any number of launches and   *)
(* process IDs, recycled ones included, as long as launches do not overlap *)
(* in Acquire.                                                             *)
(*                                                                         *)
(* Mutual exclusion is not inductive: what keeps the file of a holder in   *)
(* place is that the one launch inside Acquire, if it is about to remove   *)
(* the file, has seen the author of that very file dead.                   *)
(*                                                                         *)
(* What run does between Acquire and Release leaves the lease alone, so    *)
(* Launches implements InstanceLock and inherits its theorems; that a      *)
(* launch works with the settings only inside the lease is the invariant   *)
(* WithLease.                                                              *)
(***************************************************************************)
EXTENDS Launches, TLAPS

\* One launch at a time is inside Acquire.
OneAcquires ==
  \A k, l \in Launches : pc[k] \in Acquiring /\ pc[l] \in Acquiring => k = l

\* A launch that made a file and has not given it up finds it at the path.
OwnerHasFile ==
  \A l \in Launches :
    pc[l] \in Owning =>
      file # NoFile /\ file.by = l /\ (pc[l] # "write" => file.written)

\* The author of the file at the path was started once.
AuthorStarted == file # NoFile => pc[file.by] # "off"

\* A launch that judges or removes a record: nobody has put another file at
\* the path since it was read, and a condemned author is dead for good.
VerdictHolds ==
  \A l \in Launches :
    pc[l] \in {"check", "remove"} =>
      /\ seen[l] \in Launches
      /\ pc[seen[l]] # "off"
      /\ file # NoFile => file.by = seen[l]
      /\ pc[l] = "remove" => pc[seen[l]] = "gone"

\* After the one removal there is no file, so the next round creates it.
SecondRound ==
  \A l \in Launches :
    /\ attempt[l] <= 1
    /\ pc[l] = "off" => attempt[l] = 0
    /\ attempt[l] = 1 => pc[l] \notin {"read", "check", "remove"}
    /\ attempt[l] = 1 /\ pc[l] = "create" => file = NoFile

Lease ==
  OneAcquires /\ OwnerHasFile /\ AuthorStarted /\ VerdictHolds /\ SecondRound

\* Overlapping or not, a launch in Acquire has a round left.
RoundsLeft ==
  \A l \in Launches : pc[l] \in Acquiring \cup {"off"} => attempt[l] <= 2

\* While nobody has ended, every author is alive and no record is condemned.
Together ==
  /\ OwnerHasFile /\ AuthorStarted
  /\ \A l \in Launches :
       /\ pc[l] # "remove"
       /\ pc[l] = "check" => seen[l] \in Launches /\ pc[seen[l]] # "off"

IInv == TypeOK /\ RoundsLeft /\ (~overlapped => Lease)
-----------------------------------------------------------------------------
USE LaunchAssumption, FileAssumption
USE DEF LaunchAssumption, FileAssumption, Goto, Acquiring, Owning, Running

\* A new lock file is a file.
LEMMA NewFile ==
  \A l \in Launches : [by |-> l, written |-> FALSE] \in Files
BY DEF Files

\* Every step keeps the types.
LEMMA TypeStep ==
  ASSUME TypeOK, RoundsLeft, [Next]_vars
  PROVE  TypeOK'
<1> USE DEF TypeOK, Files, Places, RoundsLeft
<1>1. ASSUME NEW l \in Launches, Launch(l) PROVE TypeOK'
  <2>1. overlapped' \in BOOLEAN
    BY <1>1, Zenon DEF Launch
  <2>2. QED
    BY <1>1, <2>1 DEF Launch
<1>2. ASSUME NEW l \in Launches, Create(l) PROVE TypeOK'
  <2>1. CASE file = NoFile
    <3>1. file' \in Files /\ file' # NoFile
      BY <1>2, <2>1, NewFile DEF Create
    <3>2. file'.by = l
      BY <1>2, <2>1 DEF Create
    <3>3. QED
      BY <1>2, <2>1, <3>1, <3>2 DEF Create
  <2>2. CASE file # NoFile
    BY <1>2, <2>2 DEF Create
  <2>3. QED
    BY <2>1, <2>2
<1>3. ASSUME NEW l \in Launches, Write(l) PROVE TypeOK'
  BY <1>3 DEF Write
<1>4. ASSUME NEW l \in Launches, Sync(l) PROVE TypeOK'
  BY <1>4 DEF Sync
<1>5. ASSUME NEW l \in Launches, CreateFails(l) PROVE TypeOK'
  BY <1>5 DEF CreateFails
<1>6. ASSUME NEW l \in Launches, Read(l) PROVE TypeOK'
  BY <1>6 DEF Read, Record
<1>7. ASSUME NEW l \in Launches, Check(l) PROVE TypeOK'
  BY <1>7 DEF Check, Alive, Live
<1>8. ASSUME NEW l \in Launches, Remove(l) PROVE TypeOK'
  BY <1>8 DEF Remove
<1>9. ASSUME NEW l \in Launches, AcquireFails(l) PROVE TypeOK'
  BY <1>9 DEF AcquireFails
<1>10. ASSUME NEW l \in Launches, Release(l) PROVE TypeOK'
  BY <1>10 DEF Release
<1>11. ASSUME NEW l \in Launches, ReleaseRead(l) PROVE TypeOK'
  BY <1>11 DEF ReleaseRead, Record
<1>12. ASSUME NEW l \in Launches, ReleaseRemove(l) PROVE TypeOK'
  BY <1>12 DEF ReleaseRemove
<1>13. ASSUME NEW l \in Launches, ReleaseFails(l) PROVE TypeOK'
  BY <1>13 DEF ReleaseFails
<1>14. ASSUME NEW l \in Launches, Exit(l) PROVE TypeOK'
  BY <1>14 DEF Exit
<1>15. ASSUME NEW l \in Launches, Crash(l) PROVE TypeOK'
  BY <1>15 DEF Crash
<1>16. CASE UNCHANGED vars
  BY <1>16 DEF vars
<1>17. QED
  BY <1>1, <1>2, <1>3, <1>4, <1>5, <1>6, <1>7, <1>8, <1>9, <1>10, <1>11,
     <1>12, <1>13, <1>14, <1>15, <1>16 DEF Next, Acquire, Releasing

\* A launch that has used its rounds leaves Acquire.
LEMMA RoundsStep ==
  ASSUME TypeOK, RoundsLeft, [Next]_vars
  PROVE  RoundsLeft'
<1> USE DEF TypeOK, RoundsLeft
<1>1. ASSUME NEW l \in Launches, Launch(l) PROVE RoundsLeft'
  BY <1>1 DEF Launch
<1>2. ASSUME NEW l \in Launches, Create(l) PROVE RoundsLeft'
  BY <1>2 DEF Create
<1>3. ASSUME NEW l \in Launches, Write(l) PROVE RoundsLeft'
  BY <1>3 DEF Write
<1>4. ASSUME NEW l \in Launches, Sync(l) PROVE RoundsLeft'
  BY <1>4 DEF Sync
<1>5. ASSUME NEW l \in Launches, CreateFails(l) PROVE RoundsLeft'
  BY <1>5 DEF CreateFails
<1>6. ASSUME NEW l \in Launches, Read(l) PROVE RoundsLeft'
  BY <1>6 DEF Read, Record
<1>7. ASSUME NEW l \in Launches, Check(l) PROVE RoundsLeft'
  BY <1>7 DEF Check, Alive, Live
<1>8. ASSUME NEW l \in Launches, Remove(l) PROVE RoundsLeft'
  BY <1>8 DEF Remove
<1>9. ASSUME NEW l \in Launches, AcquireFails(l) PROVE RoundsLeft'
  BY <1>9 DEF AcquireFails
<1>10. ASSUME NEW l \in Launches, Release(l) PROVE RoundsLeft'
  BY <1>10 DEF Release
<1>11. ASSUME NEW l \in Launches, ReleaseRead(l) PROVE RoundsLeft'
  BY <1>11 DEF ReleaseRead, Record
<1>12. ASSUME NEW l \in Launches, ReleaseRemove(l) PROVE RoundsLeft'
  BY <1>12 DEF ReleaseRemove
<1>13. ASSUME NEW l \in Launches, ReleaseFails(l) PROVE RoundsLeft'
  BY <1>13 DEF ReleaseFails
<1>14. ASSUME NEW l \in Launches, Exit(l) PROVE RoundsLeft'
  BY <1>14 DEF Exit
<1>15. ASSUME NEW l \in Launches, Crash(l) PROVE RoundsLeft'
  BY <1>15 DEF Crash
<1>16. CASE UNCHANGED vars
  BY <1>16 DEF vars
<1>17. QED
  BY <1>1, <1>2, <1>3, <1>4, <1>5, <1>6, <1>7, <1>8, <1>9, <1>10, <1>11,
     <1>12, <1>13, <1>14, <1>15, <1>16 DEF Next, Acquire, Releasing

\* Launches that have overlapped have overlapped for good.
LEMMA OverlapStays ==
  ASSUME [Next]_vars, ~overlapped'
  PROVE  ~overlapped
BY DEF Next, Acquire, Releasing, vars, Launch, Create, Write, Sync, CreateFails,
       Read, Check, Remove, AcquireFails, Release, ReleaseRead, ReleaseRemove,
       ReleaseFails, Exit, Crash

\* No launch enters Acquire while another is in it.
LEMMA AcquireStep ==
  ASSUME ~overlapped', TypeOK, OneAcquires, [Next]_vars
  PROVE  OneAcquires'
<1> USE DEF TypeOK, OneAcquires
<1>1. ASSUME NEW l \in Launches, Launch(l) PROVE OneAcquires'
  BY <1>1 DEF Launch
<1>2. ASSUME NEW l \in Launches, Create(l) PROVE OneAcquires'
  BY <1>2 DEF Create
<1>3. ASSUME NEW l \in Launches, Write(l) PROVE OneAcquires'
  BY <1>3 DEF Write
<1>4. ASSUME NEW l \in Launches, Sync(l) PROVE OneAcquires'
  BY <1>4 DEF Sync
<1>5. ASSUME NEW l \in Launches, CreateFails(l) PROVE OneAcquires'
  BY <1>5 DEF CreateFails
<1>6. ASSUME NEW l \in Launches, Read(l) PROVE OneAcquires'
  BY <1>6 DEF Read, Record
<1>7. ASSUME NEW l \in Launches, Check(l) PROVE OneAcquires'
  BY <1>7 DEF Check, Alive, Live
<1>8. ASSUME NEW l \in Launches, Remove(l) PROVE OneAcquires'
  BY <1>8 DEF Remove
<1>9. ASSUME NEW l \in Launches, AcquireFails(l) PROVE OneAcquires'
  BY <1>9 DEF AcquireFails
<1>10. ASSUME NEW l \in Launches, Release(l) PROVE OneAcquires'
  BY <1>10 DEF Release
<1>11. ASSUME NEW l \in Launches, ReleaseRead(l) PROVE OneAcquires'
  BY <1>11 DEF ReleaseRead, Record
<1>12. ASSUME NEW l \in Launches, ReleaseRemove(l) PROVE OneAcquires'
  BY <1>12 DEF ReleaseRemove
<1>13. ASSUME NEW l \in Launches, ReleaseFails(l) PROVE OneAcquires'
  BY <1>13 DEF ReleaseFails
<1>14. ASSUME NEW l \in Launches, Exit(l) PROVE OneAcquires'
  BY <1>14 DEF Exit
<1>15. ASSUME NEW l \in Launches, Crash(l) PROVE OneAcquires'
  BY <1>15 DEF Crash
<1>16. CASE UNCHANGED vars
  BY <1>16 DEF vars
<1>17. QED
  BY <1>1, <1>2, <1>3, <1>4, <1>5, <1>6, <1>7, <1>8, <1>9, <1>10, <1>11,
     <1>12, <1>13, <1>14, <1>15, <1>16 DEF Next, Acquire, Releasing

\* No step takes a file away from its owner.
LEMMA OwnerStep ==
  ASSUME TypeOK, OneAcquires, OwnerHasFile, VerdictHolds, [Next]_vars
  PROVE  OwnerHasFile'
<1> USE DEF TypeOK, Files, OneAcquires, OwnerHasFile, VerdictHolds
<1>1. ASSUME NEW l \in Launches, Launch(l) PROVE OwnerHasFile'
  BY <1>1 DEF Launch
<1>2. ASSUME NEW l \in Launches, Create(l) PROVE OwnerHasFile'
  <2>1. CASE file = NoFile
    <3>1. file' \in Files /\ file' # NoFile
      BY <1>2, <2>1, NewFile DEF Create
    <3>2. file'.by = l
      BY <1>2, <2>1 DEF Create
    <3>3. QED
      BY <1>2, <2>1, <3>1, <3>2 DEF Create
  <2>2. CASE file # NoFile
    BY <1>2, <2>2 DEF Create
  <2>3. QED
    BY <2>1, <2>2
<1>3. ASSUME NEW l \in Launches, Write(l) PROVE OwnerHasFile'
  <2>1. file # NoFile /\ file.by = l /\ file \in Files
    BY <1>3 DEF Write
  <2>2. file' = [file EXCEPT !.written = TRUE] /\ pc' = [pc EXCEPT ![l] = "sync"]
    BY <1>3, <2>1 DEF Write
  <2>3. file' \in Files /\ file' # NoFile /\ file'.by = l /\ file'.written
    BY <2>1, <2>2
  <2>4. \A k \in Launches : k # l => pc[k] \notin Owning
    BY <2>1
  <2>5. QED
    BY <2>2, <2>3, <2>4
<1>4. ASSUME NEW l \in Launches, Sync(l) PROVE OwnerHasFile'
  BY <1>4 DEF Sync
<1>5. ASSUME NEW l \in Launches, CreateFails(l) PROVE OwnerHasFile'
  BY <1>5 DEF CreateFails
<1>6. ASSUME NEW l \in Launches, Read(l) PROVE OwnerHasFile'
  BY <1>6 DEF Read, Record
<1>7. ASSUME NEW l \in Launches, Check(l) PROVE OwnerHasFile'
  BY <1>7 DEF Check, Alive, Live
<1>8. ASSUME NEW l \in Launches, Remove(l) PROVE OwnerHasFile'
  BY <1>8 DEF Remove
<1>9. ASSUME NEW l \in Launches, AcquireFails(l) PROVE OwnerHasFile'
  BY <1>9 DEF AcquireFails
<1>10. ASSUME NEW l \in Launches, Release(l) PROVE OwnerHasFile'
  BY <1>10 DEF Release
<1>11. ASSUME NEW l \in Launches, ReleaseRead(l) PROVE OwnerHasFile'
  BY <1>11 DEF ReleaseRead, Record
<1>12. ASSUME NEW l \in Launches, ReleaseRemove(l) PROVE OwnerHasFile'
  BY <1>12 DEF ReleaseRemove
<1>13. ASSUME NEW l \in Launches, ReleaseFails(l) PROVE OwnerHasFile'
  BY <1>13 DEF ReleaseFails
<1>14. ASSUME NEW l \in Launches, Exit(l) PROVE OwnerHasFile'
  BY <1>14 DEF Exit
<1>15. ASSUME NEW l \in Launches, Crash(l) PROVE OwnerHasFile'
  BY <1>15 DEF Crash
<1>16. CASE UNCHANGED vars
  BY <1>16 DEF vars
<1>17. QED
  BY <1>1, <1>2, <1>3, <1>4, <1>5, <1>6, <1>7, <1>8, <1>9, <1>10, <1>11,
     <1>12, <1>13, <1>14, <1>15, <1>16 DEF Next, Acquire, Releasing

\* The author of the file at the path stays started.
LEMMA AuthorStep ==
  ASSUME TypeOK, OwnerHasFile, AuthorStarted, [Next]_vars
  PROVE  AuthorStarted'
<1> USE DEF TypeOK, Files, OwnerHasFile, AuthorStarted
<1>1. ASSUME NEW l \in Launches, Launch(l) PROVE AuthorStarted'
  BY <1>1 DEF Launch
<1>2. ASSUME NEW l \in Launches, Create(l) PROVE AuthorStarted'
  BY <1>2 DEF Create
<1>3. ASSUME NEW l \in Launches, Write(l) PROVE AuthorStarted'
  BY <1>3 DEF Write
<1>4. ASSUME NEW l \in Launches, Sync(l) PROVE AuthorStarted'
  BY <1>4 DEF Sync
<1>5. ASSUME NEW l \in Launches, CreateFails(l) PROVE AuthorStarted'
  BY <1>5 DEF CreateFails
<1>6. ASSUME NEW l \in Launches, Read(l) PROVE AuthorStarted'
  BY <1>6 DEF Read, Record
<1>7. ASSUME NEW l \in Launches, Check(l) PROVE AuthorStarted'
  BY <1>7 DEF Check, Alive, Live
<1>8. ASSUME NEW l \in Launches, Remove(l) PROVE AuthorStarted'
  BY <1>8 DEF Remove
<1>9. ASSUME NEW l \in Launches, AcquireFails(l) PROVE AuthorStarted'
  BY <1>9 DEF AcquireFails
<1>10. ASSUME NEW l \in Launches, Release(l) PROVE AuthorStarted'
  BY <1>10 DEF Release
<1>11. ASSUME NEW l \in Launches, ReleaseRead(l) PROVE AuthorStarted'
  BY <1>11 DEF ReleaseRead, Record
<1>12. ASSUME NEW l \in Launches, ReleaseRemove(l) PROVE AuthorStarted'
  BY <1>12 DEF ReleaseRemove
<1>13. ASSUME NEW l \in Launches, ReleaseFails(l) PROVE AuthorStarted'
  BY <1>13 DEF ReleaseFails
<1>14. ASSUME NEW l \in Launches, Exit(l) PROVE AuthorStarted'
  BY <1>14 DEF Exit
<1>15. ASSUME NEW l \in Launches, Crash(l) PROVE AuthorStarted'
  BY <1>15 DEF Crash
<1>16. CASE UNCHANGED vars
  BY <1>16 DEF vars
<1>17. QED
  BY <1>1, <1>2, <1>3, <1>4, <1>5, <1>6, <1>7, <1>8, <1>9, <1>10, <1>11,
     <1>12, <1>13, <1>14, <1>15, <1>16 DEF Next, Acquire, Releasing

\* A verdict on a record stays true until it is carried out.
LEMMA VerdictStep ==
  ASSUME ~overlapped', TypeOK, OneAcquires, OwnerHasFile, AuthorStarted, VerdictHolds,
         [Next]_vars
  PROVE  VerdictHolds'
<1> USE DEF TypeOK, Files, OneAcquires, OwnerHasFile, AuthorStarted,
           VerdictHolds
<1>1. ASSUME NEW l \in Launches, Launch(l) PROVE VerdictHolds'
  BY <1>1 DEF Launch
<1>2. ASSUME NEW l \in Launches, Create(l) PROVE VerdictHolds'
  BY <1>2 DEF Create
<1>3. ASSUME NEW l \in Launches, Write(l) PROVE VerdictHolds'
  BY <1>3 DEF Write
<1>4. ASSUME NEW l \in Launches, Sync(l) PROVE VerdictHolds'
  BY <1>4 DEF Sync
<1>5. ASSUME NEW l \in Launches, CreateFails(l) PROVE VerdictHolds'
  BY <1>5 DEF CreateFails
<1>6. ASSUME NEW l \in Launches, Read(l) PROVE VerdictHolds'
  BY <1>6 DEF Read, Record
<1>7. ASSUME NEW l \in Launches, Check(l) PROVE VerdictHolds'
  <2>1. CASE Alive(seen[l])
    BY <1>7, <2>1 DEF Check
  <2>2. CASE ~Alive(seen[l])
    <3>1. seen[l] \in Launches /\ pc[seen[l]] # "off"
      BY <1>7 DEF Check
    <3>2. pc[seen[l]] \notin Running
      BY <3>1, <2>2, Zenon DEF Alive, Live
    <3>3. pc[seen[l]] = "gone"
      BY <3>1, <3>2 DEF Places
    <3>4. QED
      BY <1>7, <2>2, <3>3 DEF Check
  <2>3. QED
    BY <2>1, <2>2
<1>8. ASSUME NEW l \in Launches, Remove(l) PROVE VerdictHolds'
  BY <1>8 DEF Remove
<1>9. ASSUME NEW l \in Launches, AcquireFails(l) PROVE VerdictHolds'
  BY <1>9 DEF AcquireFails
<1>10. ASSUME NEW l \in Launches, Release(l) PROVE VerdictHolds'
  BY <1>10 DEF Release
<1>11. ASSUME NEW l \in Launches, ReleaseRead(l) PROVE VerdictHolds'
  BY <1>11 DEF ReleaseRead, Record
<1>12. ASSUME NEW l \in Launches, ReleaseRemove(l) PROVE VerdictHolds'
  BY <1>12 DEF ReleaseRemove
<1>13. ASSUME NEW l \in Launches, ReleaseFails(l) PROVE VerdictHolds'
  BY <1>13 DEF ReleaseFails
<1>14. ASSUME NEW l \in Launches, Exit(l) PROVE VerdictHolds'
  BY <1>14 DEF Exit
<1>15. ASSUME NEW l \in Launches, Crash(l) PROVE VerdictHolds'
  BY <1>15 DEF Crash
<1>16. CASE UNCHANGED vars
  BY <1>16 DEF vars
<1>17. QED
  BY <1>1, <1>2, <1>3, <1>4, <1>5, <1>6, <1>7, <1>8, <1>9, <1>10, <1>11,
     <1>12, <1>13, <1>14, <1>15, <1>16 DEF Next, Acquire, Releasing

\* The round after a removal succeeds.
LEMMA RoundStep ==
  ASSUME ~overlapped', TypeOK, OneAcquires, SecondRound, [Next]_vars
  PROVE  SecondRound'
<1> USE DEF TypeOK, OneAcquires, SecondRound
<1>1. ASSUME NEW l \in Launches, Launch(l) PROVE SecondRound'
  BY <1>1 DEF Launch
<1>2. ASSUME NEW l \in Launches, Create(l) PROVE SecondRound'
  BY <1>2 DEF Create
<1>3. ASSUME NEW l \in Launches, Write(l) PROVE SecondRound'
  BY <1>3 DEF Write
<1>4. ASSUME NEW l \in Launches, Sync(l) PROVE SecondRound'
  BY <1>4 DEF Sync
<1>5. ASSUME NEW l \in Launches, CreateFails(l) PROVE SecondRound'
  BY <1>5 DEF CreateFails
<1>6. ASSUME NEW l \in Launches, Read(l) PROVE SecondRound'
  BY <1>6 DEF Read, Record
<1>7. ASSUME NEW l \in Launches, Check(l) PROVE SecondRound'
  BY <1>7 DEF Check, Alive, Live
<1>8. ASSUME NEW l \in Launches, Remove(l) PROVE SecondRound'
  BY <1>8 DEF Remove
<1>9. ASSUME NEW l \in Launches, AcquireFails(l) PROVE SecondRound'
  BY <1>9 DEF AcquireFails
<1>10. ASSUME NEW l \in Launches, Release(l) PROVE SecondRound'
  BY <1>10 DEF Release
<1>11. ASSUME NEW l \in Launches, ReleaseRead(l) PROVE SecondRound'
  BY <1>11 DEF ReleaseRead, Record
<1>12. ASSUME NEW l \in Launches, ReleaseRemove(l) PROVE SecondRound'
  BY <1>12 DEF ReleaseRemove
<1>13. ASSUME NEW l \in Launches, ReleaseFails(l) PROVE SecondRound'
  BY <1>13 DEF ReleaseFails
<1>14. ASSUME NEW l \in Launches, Exit(l) PROVE SecondRound'
  BY <1>14 DEF Exit
<1>15. ASSUME NEW l \in Launches, Crash(l) PROVE SecondRound'
  BY <1>15 DEF Crash
<1>16. CASE UNCHANGED vars
  BY <1>16 DEF vars
<1>17. QED
  BY <1>1, <1>2, <1>3, <1>4, <1>5, <1>6, <1>7, <1>8, <1>9, <1>10, <1>11,
     <1>12, <1>13, <1>14, <1>15, <1>16 DEF Next, Acquire, Releasing

\* While nobody has ended, the lease is never taken from its owner.
LEMMA TogetherStep ==
  ASSUME TypeOK, Together, \A l \in Launches : pc'[l] # "gone", [Next]_vars
  PROVE  Together'
<1> USE DEF TypeOK, Files, OwnerHasFile, AuthorStarted, Together
<1>1. ASSUME NEW l \in Launches, Launch(l) PROVE Together'
  BY <1>1 DEF Launch
<1>2. ASSUME NEW l \in Launches, Create(l) PROVE Together'
  <2>1. CASE file = NoFile
    <3>1. file' \in Files /\ file' # NoFile
      BY <1>2, <2>1, NewFile DEF Create
    <3>2. file'.by = l
      BY <1>2, <2>1 DEF Create
    <3>3. QED
      BY <1>2, <2>1, <3>1, <3>2 DEF Create
  <2>2. CASE file # NoFile
    BY <1>2, <2>2 DEF Create
  <2>3. QED
    BY <2>1, <2>2
<1>3. ASSUME NEW l \in Launches, Write(l) PROVE Together'
  BY <1>3 DEF Write
<1>4. ASSUME NEW l \in Launches, Sync(l) PROVE Together'
  BY <1>4 DEF Sync
<1>5. ASSUME NEW l \in Launches, CreateFails(l) PROVE Together'
  BY <1>5 DEF CreateFails
<1>6. ASSUME NEW l \in Launches, Read(l) PROVE Together'
  BY <1>6 DEF Read, Record
<1>7. ASSUME NEW l \in Launches, Check(l) PROVE Together'
  <2>1. seen[l] \in Launches /\ pc[seen[l]] # "off"
    BY <1>7 DEF Check
  <2>2. pc[seen[l]] # "gone"
    BY <1>7, <2>1 DEF Check
  <2>3. seen[l] \in Live
    BY <2>1, <2>2 DEF Live, Places
  <2>4. Alive(seen[l])
    BY <2>3, Zenon DEF Alive
  <2>5. QED
    BY <1>7, <2>4 DEF Check
<1>8. ASSUME NEW l \in Launches, Remove(l) PROVE Together'
  BY <1>8 DEF Remove
<1>9. ASSUME NEW l \in Launches, AcquireFails(l) PROVE Together'
  BY <1>9 DEF AcquireFails
<1>10. ASSUME NEW l \in Launches, Release(l) PROVE Together'
  BY <1>10 DEF Release
<1>11. ASSUME NEW l \in Launches, ReleaseRead(l) PROVE Together'
  BY <1>11 DEF ReleaseRead, Record
<1>12. ASSUME NEW l \in Launches, ReleaseRemove(l) PROVE Together'
  BY <1>12 DEF ReleaseRemove
<1>13. ASSUME NEW l \in Launches, ReleaseFails(l) PROVE Together'
  BY <1>13 DEF ReleaseFails
<1>14. ASSUME NEW l \in Launches, Exit(l) PROVE Together'
  BY <1>14 DEF Exit
<1>15. ASSUME NEW l \in Launches, Crash(l) PROVE Together'
  BY <1>15 DEF Crash
<1>16. CASE UNCHANGED vars
  BY <1>16 DEF vars
<1>17. QED
  BY <1>1, <1>2, <1>3, <1>4, <1>5, <1>6, <1>7, <1>8, <1>9, <1>10, <1>11,
     <1>12, <1>13, <1>14, <1>15, <1>16 DEF Next, Acquire, Releasing

\* A launch that has ended stays ended.
LEMMA EndStays ==
  ASSUME TypeOK, [Next]_vars, \A l \in Launches : pc'[l] # "gone"
  PROVE  \A l \in Launches : pc[l] # "gone"
BY DEF TypeOK, Next, Acquire, Releasing, vars, Launch, Create, Write, Sync,
       CreateFails, Read, Check, Remove, AcquireFails, Release, ReleaseRead,
       ReleaseRemove, ReleaseFails, Exit, Crash

-----------------------------------------------------------------------------
\* The launches start with their types right.
LEMMA InitTypes == Init => TypeOK
<1>1. Init => overlapped \in BOOLEAN
  BY Zenon DEF Init
<1>2. QED
  BY <1>1 DEF Init, TypeOK, Places

\* The inductive invariant holds in every reachable state.
THEOREM Invariance == Spec => []IInv
<1>1. Init => IInv
  <2>1. Init => TypeOK
    BY InitTypes
  <2>2. Init => RoundsLeft
    BY DEF Init, RoundsLeft
  <2>3. Init => Lease
    BY DEF Init, Lease, OneAcquires, OwnerHasFile, AuthorStarted, VerdictHolds,
           SecondRound
  <2>4. QED
    BY <2>1, <2>2, <2>3 DEF IInv
<1>2. IInv /\ [Next]_vars => IInv'
  <2>1. SUFFICES ASSUME IInv, [Next]_vars PROVE IInv'
    OBVIOUS
  <2>2. TypeOK' /\ RoundsLeft'
    BY <2>1, TypeStep, RoundsStep DEF IInv
  <2>3. ASSUME ~overlapped' PROVE Lease'
    <3>1. TypeOK /\ Lease
      BY <2>1, <2>3, OverlapStays DEF IInv
    <3>2. QED
      BY <2>1, <2>3, <3>1, AcquireStep, OwnerStep, AuthorStep, VerdictStep,
         RoundStep DEF Lease
  <2>4. QED
    BY <2>2, <2>3 DEF IInv
<1>3. QED
  BY <1>1, <1>2, PTL DEF Spec

\* Every variable has its type.
THEOREM Typing == Spec => []TypeOK
<1>1. IInv => TypeOK
  BY DEF IInv
<1>2. QED
  BY Invariance, <1>1, PTL

\* The file of a launch that holds the lease is never taken away.
THEOREM LeaseKept == Spec => []HolderHasLease
<1>1. IInv => HolderHasLease
  BY DEF IInv, Lease, TypeOK, OwnerHasFile, HolderHasLease, Holding
<1>2. QED
  BY Invariance, <1>1, PTL

\* Launches one after the other exclude each other: two holders would both be
\* the author of the one file.
THEOREM MutualExclusion == Spec => []AtMostOneHolder
<1>1. HolderHasLease => AtMostOneHolder
  BY DEF HolderHasLease, AtMostOneHolder, Exclusive
<1>2. QED
  BY LeaseKept, <1>1, PTL

\* Launches at the same moment, overlapping as they like, exclude each other
\* until one of them has ended.
THEOREM Simultaneous == Spec => []SimultaneousExclusion
<1> DEFINE NoneGone == \A l \in Launches : pc[l] # "gone"
           J == TypeOK /\ (NoneGone => Together)
<1>1. Init => J
  <2>1. Init => Together
    BY DEF Init, Together, OwnerHasFile, AuthorStarted
  <2>2. QED
    BY <2>1, InitTypes
<1>2. TypeOK /\ TypeOK' /\ J /\ [Next]_vars => J'
  <2>1. SUFFICES ASSUME TypeOK, TypeOK', J, [Next]_vars, NoneGone'
                 PROVE  Together'
    OBVIOUS
  <2>2. NoneGone
    BY <2>1, EndStays
  <2>3. QED
    BY <2>1, <2>2, TogetherStep
<1>3. J => SimultaneousExclusion
  BY DEF Together, OwnerHasFile, SimultaneousExclusion, Exclusive, Holding
<1> HIDE DEF J
<1>4. QED
  BY <1>1, <1>2, <1>3, Typing, PTL DEF Spec

\* A launch that has removed a stale lease finds the path free in its next
\* round, and needs no third one.
THEOREM OneRemoval == Spec => []OneRemovalSuffices
<1>1. IInv => OneRemovalSuffices
  BY DEF IInv, Lease, TypeOK, SecondRound, OneRemovalSuffices
<1>2. QED
  BY Invariance, <1>1, PTL

\* Release removes no lease but its own.
THEOREM OwnRelease == Spec => ReleaseSparesOthers
<1>1. ASSUME IInv, [Next]_vars
      PROVE  [ \A l \in Launches :
                 ~overlapped /\ pc[l] = "relRemove" /\ pc'[l] = "exiting"
                   /\ file' # file => file.by = l ]_vars
  BY <1>1 DEF IInv, Lease, OwnerHasFile
<1>2. QED
  BY <1>1, Invariance, PTL DEF Spec, ReleaseSparesOthers
-----------------------------------------------------------------------------
(***************************************************************************)
(* The launches' work with the system settings                             *)
(***************************************************************************)
WithLease ==
  /\ WorkTypeOK
  /\ \A l \in Launches :
       /\ stage[l] = "ui" => pc[l] = "holding"
       /\ stage[l] = "end" => pc[l] \in {"holding", "relRead", "relRemove", "exiting"}
       /\ owns[l] => stage[l] # "recover"

WInv == WithLease /\ TransactionSpared

USE NoOneAssumption DEF NoOneAssumption

\* What run adds to the lease does not touch the lease.
LEMMA LeaseStep == [WorkNext]_allVars => [Next]_vars
<1> USE DEF Next, Releasing
<1>1. ASSUME NEW l \in Launches, End(l) PROVE Next
  BY <1>1 DEF End
<1>2. ASSUME NEW l \in Launches, Elsewhere(l) PROVE Next
  BY <1>2 DEF Elsewhere
<1>3. ASSUME NEW l \in Launches, HandOver(l) PROVE Next
  BY <1>3 DEF HandOver
<1>4. ASSUME NEW l \in Launches, Recover(l) \/ Begin(l) \/ Restore(l) \/ Leave(l)
      PROVE  UNCHANGED vars
  BY <1>4 DEF Recover, Begin, Restore, Leave, vars
<1>5. QED
  BY <1>1, <1>2, <1>3, <1>4 DEF WorkNext, allVars

\* Launches implements InstanceLock, so its theorems hold of the whole run.
THEOREM WorkImplementsLease == WorkSpec => Spec
<1>1. WorkInit => Init
  BY DEF WorkInit
<1>2. QED
  BY <1>1, LeaseStep, PTL DEF WorkSpec, Spec

\* A launch works with the settings only while it holds the lease.
LEMMA WithLeaseStep ==
  ASSUME TypeOK, WithLease, [WorkNext]_allVars
  PROVE  WithLease'
<1> USE DEF WithLease, WorkTypeOK, Stage, AtWork, TypeOK
<1>1. ASSUME NEW l \in Launches, Recover(l) \/ Begin(l) \/ Restore(l) \/ Leave(l)
      PROVE  WithLease'
  BY <1>1 DEF Recover, Begin, Restore, Leave, vars
<1>2. ASSUME NEW l \in Launches, HandOver(l) PROVE WithLease'
  BY <1>2 DEF HandOver, Release, work
<1>3. ASSUME NEW l \in Launches, End(l) PROVE WithLease'
  BY <1>3 DEF End, Exit, Crash
<1>4. ASSUME NEW l \in Launches, Launch(l) \/ Acquire(l), UNCHANGED work
      PROVE  WithLease'
  BY <1>4 DEF Launch, Acquire, Create, Write, Sync, CreateFails, Read, Check,
              Remove, AcquireFails, work
<1>5. ASSUME NEW l \in Launches, UNCHANGED work,
             ReleaseRead(l) \/ ReleaseRemove(l) \/ ReleaseFails(l)
      PROVE  WithLease'
  BY <1>5 DEF ReleaseRead, ReleaseRemove, ReleaseFails, work
<1>6. CASE UNCHANGED allVars
  BY <1>6 DEF allVars, vars, work
<1>7. QED
  BY <1>1, <1>2, <1>3, <1>4, <1>5, <1>6 DEF WorkNext, Elsewhere

\* Only one launch at work changes the journal, and it holds the lease.
LEMMA SparedStep ==
  ASSUME TypeOK, AtMostOneHolder, WInv, [WorkNext]_allVars
  PROVE  TransactionSpared'
<1> USE DEF WInv, WithLease, WorkTypeOK, TransactionSpared, Stage
<1>1. SUFFICES ASSUME ~overlapped' PROVE TransactionSpared'
  OBVIOUS
<1>2. ~overlapped
  BY <1>1, OverlapStays, LeaseStep
<1>3. ASSUME NEW l \in Launches, AtWork(l, "recover") \/ AtWork(l, "ui"),
             NEW k \in Launches, stage[k] = "ui"
      PROVE  k = l
  BY <1>2, <1>3 DEF AtWork, AtMostOneHolder, Exclusive, Holding
<1>4. ASSUME NEW l \in Launches, Recover(l) PROVE TransactionSpared'
  BY <1>2, <1>3, <1>4 DEF Recover, AtWork
<1>5. ASSUME NEW l \in Launches, Begin(l) PROVE TransactionSpared'
  BY <1>2, <1>3, <1>5 DEF Begin, AtWork
<1>6. ASSUME NEW l \in Launches, Restore(l) PROVE TransactionSpared'
  BY <1>2, <1>3, <1>6 DEF Restore, AtWork
<1>7. ASSUME NEW l \in Launches, Leave(l) PROVE TransactionSpared'
  BY <1>2, <1>7 DEF Leave
<1>8. ASSUME NEW l \in Launches, End(l) PROVE TransactionSpared'
  BY <1>2, <1>8 DEF End
<1>9. CASE UNCHANGED work
  BY <1>2, <1>9 DEF work
<1>10. QED
  BY <1>4, <1>5, <1>6, <1>7, <1>8, <1>9
     DEF WorkNext, allVars, HandOver, Elsewhere

\* Any number of launches, none of which entered Acquire while another was
\* inside, leave each other's transactions alone, and each opens its
\* interface on settings no earlier launch has changed.
THEOREM TransactionsApart == WorkSpec => []TransactionSpared
<1>1. WorkInit => WInv
  BY DEF WorkInit, WInv, WithLease, WorkTypeOK, TransactionSpared
<1>2. TypeOK /\ AtMostOneHolder /\ WInv /\ [WorkNext]_allVars => WInv'
  BY WithLeaseStep, SparedStep DEF WInv
<1>3. WInv => TransactionSpared
  BY DEF WInv
<1>4. QED
  BY <1>1, <1>2, <1>3, WorkImplementsLease, Typing, MutualExclusion, PTL
     DEF WorkSpec

\* A launch that works with the settings keeps the lease as one that does not:
\* at most one holds it, a release spares the others, and after the removal of
\* a stale lease the path is free.
THEOREM WorkKeepsLease ==
  WorkSpec => [](HolderHasLease /\ AtMostOneHolder /\ OneRemovalSuffices) /\ ReleaseSparesOthers
BY WorkImplementsLease, LeaseKept, MutualExclusion, OneRemoval, OwnRelease, PTL
=============================================================================
