------------------------ MODULE ThreadDirectoryProofs ------------------------
(***************************************************************************)
(* What TLAPS proves of ThreadDirectory for any number of processes,       *)
(* sessions, lock files and crashes.                                       *)
(***************************************************************************)
EXTENDS ThreadDirectory, TLAPS

USE NobodyAssumption
USE DEF locks, works, vars, PCs, Places, Ops

\* Locals of an operation that ends are values of their types.
LEMMA OverTypes ==
    ASSUME TypeOK, NEW p \in Procs, Over(p)
    PROVE  /\ pc' \in [Procs -> PCs] /\ op' \in [Procs -> Ops] /\ session' = session
           /\ made' \in [Procs -> BOOLEAN] /\ found' \in [Procs -> Places]
BY DEF TypeOK, Over, Goto

\* A step of a process keeps the types.
LEMMA TypeStep == TypeOK /\ [Next]_vars => TypeOK'
<1> SUFFICES ASSUME TypeOK, [Next]_vars PROVE TypeOK'
  OBVIOUS
<1> USE DEF Goto
<1>1. CASE UNCHANGED vars
  BY <1>1 DEF TypeOK
<1>2. ASSUME NEW p \in Procs, Begin(p) PROVE TypeOK'
  BY <1>2 DEF TypeOK, Begin
<1>3. ASSUME NEW p \in Procs, LockCoordination(p) PROVE TypeOK'
  BY <1>3 DEF TypeOK, LockCoordination
<1>4. ASSUME NEW p \in Procs, NEW s \in Sessions, Sweep(p, s) PROVE TypeOK'
  BY <1>4 DEF TypeOK, Sweep, IsStale
<1>5. ASSUME NEW p \in Procs, EndSweep(p) PROVE TypeOK'
  BY <1>5 DEF TypeOK, EndSweep
<1>6. ASSUME NEW p \in Procs, OpenLock(p) PROVE TypeOK'
  BY <1>6 DEF TypeOK, OpenLock
<1>7. ASSUME NEW p \in Procs, TryLock(p) PROVE TypeOK'
  BY <1>7, OverTypes DEF TypeOK, TryLock
<1>8. ASSUME NEW p \in Procs, CoordinateRelease(p) PROVE TypeOK'
  BY <1>8 DEF TypeOK, CoordinateRelease
<1>9. ASSUME NEW p \in Procs, DropLock(p) PROVE TypeOK'
  BY <1>9 DEF TypeOK, DropLock, CloseLock
<1>10. ASSUME NEW p \in Procs, RemoveName(p) PROVE TypeOK'
  BY <1>10, OverTypes DEF TypeOK, RemoveName
<1>11. ASSUME NEW p \in Procs, ReleaseUncoordinated(p) PROVE TypeOK'
  BY <1>11, OverTypes DEF TypeOK, ReleaseUncoordinated, CloseLock
<1>12. ASSUME NEW p \in Procs, StartRecorder(p) PROVE TypeOK'
  BY <1>12 DEF TypeOK, StartRecorder
<1>13. ASSUME NEW p \in Procs, Materialize(p) PROVE TypeOK'
  BY <1>13 DEF TypeOK, Materialize
<1>14. ASSUME NEW p \in Procs, StopRecorder(p) \/ GiveUp(p) PROVE TypeOK'
  BY <1>14 DEF TypeOK, StopRecorder, GiveUp
<1>15. ASSUME NEW p \in Procs, MoveRollout(p) PROVE TypeOK'
  BY <1>15 DEF TypeOK, MoveRollout, Move, Source, Target
<1>16. ASSUME NEW p \in Procs, MoveSidecar(p) \/ UpdateIndex(p) PROVE TypeOK'
  BY <1>16 DEF TypeOK, MoveSidecar, UpdateIndex, Follow, MoveBack, Source, Target
<1>17. ASSUME NEW p \in Procs, Delete(p) PROVE TypeOK'
  BY <1>17 DEF TypeOK, Delete
<1>18. ASSUME NEW p \in Procs, PatchCold(p) PROVE TypeOK'
  BY <1>18 DEF TypeOK, PatchCold
<1>19. ASSUME NEW p \in Procs, Crash(p) PROVE TypeOK'
  BY <1>19, OverTypes, CrashesAssumption DEF TypeOK, Crash
<1> QED
  BY <1>1, <1>2, <1>3, <1>4, <1>5, <1>6, <1>7, <1>8, <1>9, <1>10, <1>11, <1>12, <1>13,
     <1>14, <1>15, <1>16, <1>17, <1>18, <1>19 DEF Next, Process

\* The processes start idle, in an empty directory.
LEMMA TypeInit == Init => TypeOK
BY CrashesAssumption DEF Init, TypeOK
------------------------------------------------------------------------------
(* One writer                                                               *)

\* Whoever works on the lock files has the coordination lock.
Coordinated ==
    \A p \in Procs : pc[p] \in {"sweep", "openLock", "tryLock", "dropLock", "removeName"} =>
        coord = p

\* The lock a process is about to try is on the file its session's name stands
\* for: nobody unlinks it between its opening and the attempt.
OpenedIsNamed ==
    \A p \in Procs : pc[p] = "tryLock" =>
        file[p] # NoFile /\ lockFile[session[p]] = file[p]

\* Who removes a name finds no writer behind it.
RemovedIsUnowned ==
    \A p, q \in Procs :
        pc[p] = "removeName" /\ pc[q] \in Owning => session[p] # session[q]

\* A writer's lock is on a file, the one its session's name stands for.
WriterHasFile == \A p \in Procs : pc[p] \in Owning => file[p] # NoFile

LockInv ==
    /\ Coordinated
    /\ OpenedIsNamed
    /\ RemovedIsUnowned
    /\ WriterHasFile
    /\ OwnedLockIsNamed

\* Two writers of one session would have locked the same file.
LEMMA NamedIsOne == TypeOK /\ LockInv => OneWriter
BY DEF TypeOK, LockInv, WriterHasFile, OwnedLockIsNamed, OneWriter

\* A step keeps what is known of the locks.
LEMMA LockStep == TypeOK /\ LockInv /\ [Next]_vars => LockInv'
<1> SUFFICES ASSUME TypeOK, LockInv, [Next]_vars PROVE LockInv'
  OBVIOUS
<1> USE DEF Goto, Owning, TypeOK, LockInv, Coordinated, OpenedIsNamed, RemovedIsUnowned,
            WriterHasFile, OwnedLockIsNamed
<1>1. CASE UNCHANGED vars
  BY <1>1
<1>2. ASSUME NEW p \in Procs, Begin(p) PROVE LockInv'
  BY <1>2 DEF Begin
<1>3. ASSUME NEW p \in Procs, LockCoordination(p) PROVE LockInv'
  BY <1>3 DEF LockCoordination
<1>4. ASSUME NEW p \in Procs, NEW s \in Sessions, Sweep(p, s) PROVE LockInv'
  BY <1>4 DEF Sweep, IsStale
<1>5. ASSUME NEW p \in Procs, EndSweep(p) PROVE LockInv'
  BY <1>5 DEF EndSweep
<1>6. ASSUME NEW p \in Procs, OpenLock(p) PROVE LockInv'
  BY <1>6 DEF OpenLock
<1>7. ASSUME NEW p \in Procs, TryLock(p) PROVE LockInv'
  BY <1>7 DEF TryLock, Over
<1>8. ASSUME NEW p \in Procs, CoordinateRelease(p) PROVE LockInv'
  BY <1>8 DEF CoordinateRelease
<1>9. ASSUME NEW p \in Procs, DropLock(p) PROVE LockInv'
  BY <1>9 DEF DropLock, CloseLock
<1>10. ASSUME NEW p \in Procs, RemoveName(p) PROVE LockInv'
  BY <1>10 DEF RemoveName, Over
<1>11. ASSUME NEW p \in Procs, ReleaseUncoordinated(p) PROVE LockInv'
  BY <1>11 DEF ReleaseUncoordinated, CloseLock, Over
<1>12. ASSUME NEW p \in Procs, StartRecorder(p) PROVE LockInv'
  BY <1>12 DEF StartRecorder
<1>13. ASSUME NEW p \in Procs, Materialize(p) \/ Delete(p) PROVE LockInv'
  BY <1>13 DEF Materialize, Delete
<1>14. ASSUME NEW p \in Procs, StopRecorder(p) \/ GiveUp(p) PROVE LockInv'
  BY <1>14 DEF StopRecorder, GiveUp
<1>15. ASSUME NEW p \in Procs, MoveRollout(p) \/ PatchCold(p) PROVE LockInv'
  BY <1>15 DEF MoveRollout, PatchCold
<1>16. ASSUME NEW p \in Procs, MoveSidecar(p) \/ UpdateIndex(p) PROVE LockInv'
  BY <1>16 DEF MoveSidecar, UpdateIndex, Follow
<1>17. ASSUME NEW p \in Procs, Crash(p) PROVE LockInv'
  BY <1>17 DEF Crash, Over
<1> QED
  BY <1>1, <1>2, <1>3, <1>4, <1>5, <1>6, <1>7, <1>8, <1>9, <1>10, <1>11, <1>12, <1>13, <1>14,
     <1>15, <1>16, <1>17 DEF Next, Process

\* At the start nobody is near a lock.
LEMMA LockInit == Init => LockInv
BY DEF Init, LockInv, Coordinated, OpenedIsNamed, RemovedIsUnowned, WriterHasFile,
       OwnedLockIsNamed, Owning
------------------------------------------------------------------------------
(* The rollouts                                                             *)

\* A recorder that has still to create its file has its session to itself.
NewIsNowhere ==
    \A p \in Procs : pc[p] = "recording" /\ ~made[p] => OfSession(p) = {}

\* An operation that has not got to its recorder has made no file.
NotYetMade ==
    \A p \in Procs :
        pc[p] \in {"idle", "coordinate", "sweep", "openLock", "tryLock", "owned"} => ~made[p]

RolloutInv == OnePlace /\ RecorderKeepsItsFile /\ NewIsNowhere /\ NotYetMade

\* A rollout that was moved, there or back, is not where it came from.
LEMMA MovedIsOnce ==
    ASSUME NEW places, NEW o
    PROVE  Move(places, o) # Places /\ MoveBack(places, o) # Places
<1>1. Source(o) \in Places /\ Target(o) \in Places /\ Source(o) # Target(o)
  BY DEF Source, Target
<1>2. Source(o) \notin Move(places, o)
  BY <1>1 DEF Move
<1>3. Target(o) \notin MoveBack(places, o)
  BY <1>1 DEF MoveBack
<1> QED BY <1>1, <1>2, <1>3

\* A step keeps what is known of the rollouts, because the one writer of a
\* session makes it.
LEMMA RolloutStep == TypeOK /\ OneWriter /\ RolloutInv /\ [Next]_vars => RolloutInv'
<1> SUFFICES ASSUME TypeOK, OneWriter, RolloutInv, [Next]_vars PROVE RolloutInv'
  OBVIOUS
<1> USE DEF Goto, Owning, TypeOK, OneWriter, RolloutInv, OnePlace, RecorderKeepsItsFile,
            NewIsNowhere, NotYetMade, OfSession
<1>1. CASE UNCHANGED vars
  BY <1>1
<1>2. ASSUME NEW p \in Procs, Begin(p) PROVE RolloutInv'
  BY <1>2 DEF Begin
<1>3. ASSUME NEW p \in Procs, LockCoordination(p) PROVE RolloutInv'
  BY <1>3 DEF LockCoordination
<1>4. ASSUME NEW p \in Procs, NEW s \in Sessions, Sweep(p, s) PROVE RolloutInv'
  BY <1>4 DEF Sweep
<1>5. ASSUME NEW p \in Procs, EndSweep(p) PROVE RolloutInv'
  BY <1>5 DEF EndSweep
<1>6. ASSUME NEW p \in Procs, OpenLock(p) PROVE RolloutInv'
  BY <1>6 DEF OpenLock
<1>7. ASSUME NEW p \in Procs, TryLock(p) PROVE RolloutInv'
  <2>1. rollout' = rollout /\ session' = session
    BY <1>7 DEF TryLock, Over
  <2>2. \A q \in Procs : q # p => pc'[q] = pc[q] /\ made'[q] = made[q]
    BY <1>7 DEF TryLock, Over
  <2>3. pc'[p] # "recording" /\ ~made'[p]
    BY <1>7 DEF TryLock, Over
  <2> QED BY <2>1, <2>2, <2>3
<1>8. ASSUME NEW p \in Procs, CoordinateRelease(p) \/ DropLock(p) PROVE RolloutInv'
  BY <1>8 DEF CoordinateRelease, DropLock
<1>9. ASSUME NEW p \in Procs, RemoveName(p) PROVE RolloutInv'
  BY <1>9 DEF RemoveName, Over
<1>10. ASSUME NEW p \in Procs, ReleaseUncoordinated(p) PROVE RolloutInv'
  BY <1>10 DEF ReleaseUncoordinated, Over
<1>11. ASSUME NEW p \in Procs, StartRecorder(p) PROVE RolloutInv'
  <2>1. rollout' = rollout /\ session' = session
    BY <1>11 DEF StartRecorder
  <2>2. \A q \in Procs : q # p => pc'[q] = pc[q] /\ made'[q] = made[q]
    BY <1>11 DEF StartRecorder
  <2>3. pc'[p] = "recording"
    BY <1>11 DEF StartRecorder
  <2>4. IF made'[p] THEN "active" \in OfSession(p) ELSE OfSession(p) = {}
    BY <1>11 DEF StartRecorder, IsNew, CanResume
  <2> QED BY <2>1, <2>2, <2>3, <2>4
<1>12. ASSUME NEW p \in Procs, Materialize(p) PROVE RolloutInv'
  <2>1. pc' = pc /\ session' = session /\ pc[p] = "recording" /\ OfSession(p) = {}
    BY <1>12 DEF Materialize
  <2>2. \A q \in Procs : q # p => made'[q] = made[q]
    BY <1>12 DEF Materialize
  <2>3. made'[p]
    BY <1>12 DEF Materialize
  <2>4. rollout'[session[p]] = {"active"}
    BY <1>12, <2>1 DEF Materialize
  <2>5. \A s \in Sessions : s # session[p] => rollout'[s] = rollout[s]
    BY <1>12 DEF Materialize
  <2>6. \A q \in Procs : q # p /\ pc[q] = "recording" => session[q] # session[p]
    BY <2>1
  <2>7. {"active"} # Places
    BY "archived" \in Places
  <2>8. OnePlace'
    BY <2>4, <2>5, <2>7
  <2> QED BY <2>1, <2>2, <2>3, <2>4, <2>5, <2>6, <2>8
<1>13. ASSUME NEW p \in Procs, StopRecorder(p) \/ GiveUp(p) PROVE RolloutInv'
  BY <1>13 DEF StopRecorder, GiveUp
<1>14. ASSUME NEW p \in Procs, MoveRollout(p) PROVE RolloutInv'
  <2>1. OnePlace'
    BY <1>14, MovedIsOnce DEF MoveRollout
  <2>2. \A q \in Procs : q # p /\ pc[q] = "recording" => rollout'[session[q]] = rollout[session[q]]
    BY <1>14 DEF MoveRollout
  <2>3. \A q \in Procs : q # p => /\ pc'[q] = pc[q] /\ session'[q] = session[q]
                                  /\ made'[q] = made[q]
    BY <1>14 DEF MoveRollout
  <2>4. pc'[p] # "recording"
    BY <1>14 DEF MoveRollout
  <2>5. NotYetMade'
    BY <1>14 DEF MoveRollout
  <2> QED BY <2>1, <2>2, <2>3, <2>4, <2>5
<1>15. ASSUME NEW p \in Procs, MoveSidecar(p) \/ UpdateIndex(p) PROVE RolloutInv'
  <2>1. OnePlace'
    <3>1. CASE rollout' = rollout
      BY <3>1
    <3>2. CASE rollout' = [rollout EXCEPT ![session[p]] = MoveBack(@, op[p])]
      BY <3>2, MovedIsOnce
    <3> QED BY <1>15, <3>1, <3>2 DEF MoveSidecar, UpdateIndex, Follow
  <2>2. \A q \in Procs : q # p /\ pc[q] = "recording" => rollout'[session[q]] = rollout[session[q]]
    BY <1>15 DEF MoveSidecar, UpdateIndex, Follow
  <2>3. \A q \in Procs : q # p => /\ pc'[q] = pc[q] /\ session'[q] = session[q]
                                  /\ made'[q] = made[q]
    BY <1>15 DEF MoveSidecar, UpdateIndex, Follow
  <2>4. pc'[p] # "recording"
    BY <1>15 DEF MoveSidecar, UpdateIndex, Follow
  <2>5. NotYetMade'
    BY <1>15 DEF MoveSidecar, UpdateIndex, Follow
  <2> QED BY <2>1, <2>2, <2>3, <2>4, <2>5
<1>16. ASSUME NEW p \in Procs, Delete(p) PROVE RolloutInv'
  BY <1>16 DEF Delete
<1>17. ASSUME NEW p \in Procs, PatchCold(p) PROVE RolloutInv'
  BY <1>17 DEF PatchCold, Located
<1>18. ASSUME NEW p \in Procs, Crash(p) PROVE RolloutInv'
  BY <1>18 DEF Crash, Over
<1> QED
  BY <1>1, <1>2, <1>3, <1>4, <1>5, <1>6, <1>7, <1>8, <1>9, <1>10, <1>11, <1>12, <1>13, <1>14,
     <1>15, <1>16, <1>17, <1>18 DEF Next, Process

\* At the start there is no rollout.
LEMMA RolloutInit == Init => RolloutInv
BY DEF Init, RolloutInv, OnePlace, RecorderKeepsItsFile, NewIsNowhere, NotYetMade
------------------------------------------------------------------------------
(* The theorems                                                             *)

\* Every variable keeps its type.
THEOREM TypeCorrect == Spec => []TypeOK
BY TypeInit, TypeStep, PTL DEF Spec

\* The lock files behind writer_lock.rs exclude a second writer, for any number of
\* processes that acquire, sweep, let go and die.
THEOREM LocksExclude == Spec => []OneWriter
<1>1. Spec => [](TypeOK /\ LockInv)
  BY TypeInit, TypeStep, LockInit, LockStep, PTL DEF Spec
<1> QED
  BY <1>1, NamedIsOne, PTL

\* A session's rollout is never both active and archived, however its creation,
\* archiving, deletion and patches interleave with crashes.
THEOREM InOnePlace == Spec => []OnePlace
<1>1. Init => RolloutInv
  BY RolloutInit
<1>2. RolloutInv => OnePlace
  BY DEF RolloutInv
<1> QED
  BY <1>1, <1>2, TypeCorrect, LocksExclude, RolloutStep, PTL DEF Spec

\* No operation on a session takes the file away from the recorder that writes it.
THEOREM RecorderUndisturbed == Spec => []RecorderKeepsItsFile
<1>1. RolloutInv => RecorderKeepsItsFile
  BY DEF RolloutInv
<1> QED
  BY <1>1, RolloutInit, TypeCorrect, LocksExclude, RolloutStep, PTL DEF Spec
==============================================================================
