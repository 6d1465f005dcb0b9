--------------------------- MODULE ThreadDirectory ---------------------------
(***************************************************************************)
(* A directory of rollouts shared by several processes: the writer lock of *)
(* each session (rollout/writer_lock.rs), and the operations that create,  *)
(* resume, archive, unarchive, delete and patch a session's rollout under  *)
(* that lock (rollout/threads.rs, rollout/thread_files.rs).                *)
(*                                                                         *)
(* A writer lock is a file named after the session, created when it is     *)
(* wanted and unlinked when it is let go; what is locked is the file a     *)
(* name stood for when it was opened, so two processes could each hold     *)
(* "the" lock of a session.  The coordination lock, on a file nobody       *)
(* unlinks, is there to prevent that.  A process does one operation at a   *)
(* time and may die at any step, which closes its files.                   *)
(***************************************************************************)
EXTENDS Naturals, FiniteSets

CONSTANTS Procs,     \* processes
          Sessions,  \* sessions of the directory
          Inodes,    \* files a lock name may stand for
          Nobody, NoFile,
          MaxCrashes \* bound on crashes

ASSUME NobodyAssumption == Nobody \notin Procs /\ NoFile \notin Inodes
ASSUME CrashesAssumption == MaxCrashes \in Nat

VARIABLES
    \* the lock directory
    lockFile,  \* the file each session's lock name stands for
    flock,     \* who has locked each file
    coord,     \* who has locked the coordination file
    \* the rollouts
    rollout,   \* where each session has a rollout
    \* the processes
    pc, op, session,
    file,      \* the lock file a process has open
    sweeping,  \* the lock names its cleanup has still to look at
    attempted, \* cleanup_attempted of its coordinator
    made,      \* its recorder has created or opened the rollout
    found,     \* where update_thread_metadata located the rollout
    crashes

locks == <<lockFile, flock, coord>>
works == <<op, session, made, found>>
vars  == <<locks, rollout, pc, works, file, sweeping, attempted, crashes>>

Places == {"active", "archived"}
Ops == {"create", "resume", "archive", "unarchive", "delete", "patch"}

PCs == {"idle", "coordinate", "sweep", "openLock", "tryLock", "owned", "recording",
        "moveSidecar", "index", "release", "dropLock", "removeName"}

TypeOK ==
    /\ lockFile \in [Sessions -> Inodes \cup {NoFile}]
    /\ flock \in [Inodes -> Procs \cup {Nobody}]
    /\ coord \in Procs \cup {Nobody}
    /\ rollout \in [Sessions -> SUBSET Places]
    /\ pc \in [Procs -> PCs]
    /\ op \in [Procs -> Ops]
    /\ session \in [Procs -> Sessions]
    /\ file \in [Procs -> Inodes \cup {NoFile}]
    /\ sweeping \in [Procs -> SUBSET Sessions]
    /\ attempted \in [Procs -> BOOLEAN]
    /\ made \in [Procs -> BOOLEAN]
    /\ found \in [Procs -> Places]
    /\ crashes \in 0..MaxCrashes

Init ==
    /\ lockFile = [s \in Sessions |-> NoFile]
    /\ flock = [i \in Inodes |-> Nobody]
    /\ coord = Nobody
    /\ rollout = [s \in Sessions |-> {}]
    /\ pc = [p \in Procs |-> "idle"]
    /\ op = [p \in Procs |-> "create"]
    /\ session \in {[p \in Procs |-> s] : s \in Sessions}
    /\ file = [p \in Procs |-> NoFile]
    /\ sweeping = [p \in Procs |-> {}]
    /\ attempted = [p \in Procs |-> FALSE]
    /\ made = [p \in Procs |-> FALSE]
    /\ found = [p \in Procs |-> "active"]
    /\ crashes = 0

Goto(p, place) == pc' = [pc EXCEPT ![p] = place]

\* The operation is over, and its locals are gone.
Over(p) ==
    /\ Goto(p, "idle")
    /\ op' = [op EXCEPT ![p] = "create"]
    /\ made' = [made EXCEPT ![p] = FALSE]
    /\ found' = [found EXCEPT ![p] = "active"]
    /\ session' = session

OfSession(p) == rollout[session[p]]
------------------------------------------------------------------------------
(* The writer lock                                                          *)

\* An operation starts.  update_thread_metadata looks for the rollout before it
\* takes the lock.
Begin(p) ==
    /\ pc[p] = "idle"
    /\ \E o \in Ops, s \in Sessions, where \in Places :
          /\ o = "patch" => where \in rollout[s]
          /\ o # "patch" => where = "active"
          /\ op' = [op EXCEPT ![p] = o]
          /\ session' = [session EXCEPT ![p] = s]
          /\ found' = [found EXCEPT ![p] = where]
    /\ made' = made
    /\ Goto(p, "coordinate")
    /\ UNCHANGED <<locks, rollout, file, sweeping, attempted, crashes>>

\* acquire_inner, under the coordination lock; the first acquisition of a
\* coordinator cleans up first.
LockCoordination(p) ==
    /\ pc[p] = "coordinate"
    /\ coord = Nobody
    /\ coord' = p
    /\ sweeping' = [sweeping EXCEPT ![p] = IF attempted[p] THEN {} ELSE Sessions]
    /\ attempted' = [attempted EXCEPT ![p] = TRUE]
    /\ Goto(p, "sweep")
    /\ UNCHANGED <<lockFile, flock, rollout, works, file, crashes>>

\* remove_stale_thread_locks unlinks a lock file it could lock itself.
IsStale_Any(s) == lockFile[s] # NoFile
IsStale(s) == lockFile[s] # NoFile /\ flock[lockFile[s]] = Nobody

Sweep(p, s) ==
    /\ pc[p] = "sweep"
    /\ s \in sweeping[p]
    /\ sweeping' = [sweeping EXCEPT ![p] = @ \ {s}]
    /\ \/ /\ IsStale(s)
          /\ lockFile' = [lockFile EXCEPT ![s] = NoFile]
       \/ /\ lockFile' = lockFile
    /\ UNCHANGED <<flock, coord, rollout, pc, works, file, attempted, crashes>>

EndSweep(p) ==
    /\ pc[p] = "sweep"
    /\ sweeping[p] = {}
    /\ Goto(p, "openLock")
    /\ UNCHANGED <<locks, rollout, works, file, sweeping, attempted, crashes>>

\* A file nobody has a name or a handle for.
Unused(i) == (\A s \in Sessions : lockFile[s] # i) /\ (\A p \in Procs : file[p] # i)

OpenLock(p) ==
    LET s == session[p] IN
    /\ pc[p] = "openLock"
    /\ \/ /\ lockFile[s] # NoFile
          /\ file' = [file EXCEPT ![p] = lockFile[s]]
          /\ lockFile' = lockFile
       \/ /\ lockFile[s] = NoFile
          /\ \E i \in Inodes :
                /\ Unused(i)
                /\ file' = [file EXCEPT ![p] = i]
                /\ lockFile' = [lockFile EXCEPT ![s] = i]
    /\ Goto(p, "tryLock")
    /\ UNCHANGED <<flock, coord, rollout, works, sweeping, attempted, crashes>>

\* The lock is taken, or another writer holds the thread.  Either way the
\* coordination lock is let go.
TryLock(p) ==
    /\ pc[p] = "tryLock"
    /\ coord' = Nobody
    /\ \/ /\ flock[file[p]] = Nobody
          /\ flock' = [flock EXCEPT ![file[p]] = p]
          /\ file' = file
          /\ Goto(p, "owned")
          /\ UNCHANGED works
       \/ /\ flock[file[p]] # Nobody
          /\ flock' = flock
          /\ file' = [file EXCEPT ![p] = NoFile]
          /\ Over(p)
    /\ UNCHANGED <<lockFile, rollout, sweeping, attempted, crashes>>

\* The guard is dropped, under the coordination lock.
CoordinateRelease(p) ==
    /\ pc[p] = "release"
    /\ coord = Nobody
    /\ coord' = p
    /\ Goto(p, "dropLock")
    /\ UNCHANGED <<lockFile, flock, rollout, works, file, sweeping, attempted, crashes>>

CloseLock(p) ==
    /\ flock' = [flock EXCEPT ![file[p]] = Nobody]
    /\ file' = [file EXCEPT ![p] = NoFile]

DropLock(p) ==
    /\ pc[p] = "dropLock"
    /\ CloseLock(p)
    /\ Goto(p, "removeName")
    /\ UNCHANGED <<lockFile, coord, rollout, works, sweeping, attempted, crashes>>

\* The name is removed, if it can be, and coordination let go.
RemoveName(p) ==
    /\ pc[p] = "removeName"
    /\ lockFile' \in {lockFile, [lockFile EXCEPT ![session[p]] = NoFile]}
    /\ coord' = Nobody
    /\ Over(p)
    /\ UNCHANGED <<flock, rollout, file, sweeping, attempted, crashes>>

\* Coordination cannot be had: the lock is closed and its file stays.
ReleaseUncoordinated(p) ==
    /\ pc[p] = "release"
    /\ CloseLock(p)
    /\ Over(p)
    /\ UNCHANGED <<lockFile, coord, rollout, sweeping, attempted, crashes>>
------------------------------------------------------------------------------
(* What is done under the lock                                              *)

\* create_thread refuses a session that has a rollout anywhere.
IsNew(p) == OfSession(p) = {}

\* resume_thread wants the active one.
CanResume_Anywhere(p) == OfSession(p) # {}
CanResume(p) == "active" \in OfSession(p)

StartRecorder(p) ==
    /\ pc[p] = "owned"
    /\ \/ op[p] = "create" /\ IsNew(p) /\ made' = made
       \/ op[p] = "resume" /\ CanResume(p) /\ made' = [made EXCEPT ![p] = TRUE]
    /\ Goto(p, "recording")
    /\ UNCHANGED <<locks, rollout, op, session, found, file, sweeping, attempted, crashes>>

\* The recorder of a new thread creates the file when it first writes.
Materialize(p) ==
    /\ pc[p] = "recording" /\ ~made[p]
    /\ made' = [made EXCEPT ![p] = TRUE]
    /\ rollout' = [rollout EXCEPT ![session[p]] = @ \cup {"active"}]
    /\ UNCHANGED <<locks, pc, op, session, found, file, sweeping, attempted, crashes>>

\* The recorder closes its file and lets the lock go.
StopRecorder(p) ==
    /\ pc[p] = "recording"
    /\ Goto(p, "release")
    /\ UNCHANGED <<locks, rollout, works, file, sweeping, attempted, crashes>>

Source(o) == IF o = "archive" THEN "active" ELSE "archived"
Target(o) == IF o = "archive" THEN "archived" ELSE "active"

\* rename_no_replace
Movable(p) == Source(op[p]) \in OfSession(p) /\ Target(op[p]) \notin OfSession(p)

Move(places, o) == (places \ {Source(o)}) \cup {Target(o)}
MoveBack(places, o) == (places \ {Target(o)}) \cup {Source(o)}

MoveRollout(p) ==
    /\ pc[p] = "owned" /\ op[p] \in {"archive", "unarchive"}
    /\ Movable(p)
    /\ rollout' = [rollout EXCEPT ![session[p]] = Move(@, op[p])]
    /\ Goto(p, "moveSidecar")
    /\ UNCHANGED <<locks, works, file, sweeping, attempted, crashes>>

\* What follows the rollout, its sidecar and then the index, does or does not;
\* if not, the rollout goes back.
Follow(p, next) ==
    /\ \/ rollout' = rollout /\ Goto(p, next)
       \/ /\ rollout' = [rollout EXCEPT ![session[p]] = MoveBack(@, op[p])]
          /\ Goto(p, "release")
    /\ UNCHANGED <<locks, works, file, sweeping, attempted, crashes>>

MoveSidecar(p) == pc[p] = "moveSidecar" /\ Follow(p, "index")
UpdateIndex(p) == pc[p] = "index" /\ Follow(p, "release")

\* delete_one removes the active rollout, then the archived one.
Delete(p) ==
    /\ pc[p] = "owned" /\ op[p] = "delete"
    /\ OfSession(p) # {}
    /\ rollout' = [rollout EXCEPT ![session[p]] =
                       IF "active" \in @ THEN @ \ {"active"} ELSE {}]
    /\ UNCHANGED <<locks, pc, works, file, sweeping, attempted, crashes>>

\* The patch reads the rollout where it was located and appends to it there;
\* opening it for that would create it.
Located_Earlier(p) == TRUE
Located(p) == found[p] \in OfSession(p)

PatchCold(p) ==
    /\ pc[p] = "owned" /\ op[p] = "patch"
    /\ Located(p)
    /\ rollout' = [rollout EXCEPT ![session[p]] = @ \cup {found[p]}]
    /\ Goto(p, "release")
    /\ UNCHANGED <<locks, works, file, sweeping, attempted, crashes>>

\* The operation is refused by its checks, fails, or has nothing left to do.
GiveUp(p) ==
    /\ pc[p] = "owned"
    /\ Goto(p, "release")
    /\ UNCHANGED <<locks, rollout, works, file, sweeping, attempted, crashes>>

\* A process dies: its files are closed, and stay where they are.
Crash(p) ==
    /\ pc[p] # "idle" /\ crashes < MaxCrashes
    /\ crashes' = crashes + 1
    /\ flock' = [i \in Inodes |-> IF flock[i] = p THEN Nobody ELSE flock[i]]
    /\ coord' = IF coord = p THEN Nobody ELSE coord
    /\ file' = [file EXCEPT ![p] = NoFile]
    /\ attempted' = [attempted EXCEPT ![p] = FALSE]
    /\ sweeping' = [sweeping EXCEPT ![p] = {}]
    /\ Over(p)
    /\ UNCHANGED <<lockFile, rollout>>

Process(p) ==
    \/ Begin(p) \/ LockCoordination(p) \/ EndSweep(p) \/ OpenLock(p) \/ TryLock(p)
    \/ \E s \in Sessions : Sweep(p, s)
    \/ CoordinateRelease(p) \/ DropLock(p) \/ RemoveName(p) \/ ReleaseUncoordinated(p)
    \/ StartRecorder(p) \/ Materialize(p) \/ StopRecorder(p)
    \/ MoveRollout(p) \/ MoveSidecar(p) \/ UpdateIndex(p)
    \/ Delete(p) \/ PatchCold(p) \/ GiveUp(p)
    \/ Crash(p)

Next == \E p \in Procs : Process(p)

Spec == Init /\ [][Next]_vars
------------------------------------------------------------------------------
(* Properties                                                               *)

Owning == {"owned", "recording", "moveSidecar", "index", "release", "dropLock"}

\* A session has one writer: of all the processes that acquired its lock
\* (writer_lock.rs, acquire), at most one has not let it go, though lock files
\* are created, unlinked and left behind by processes that died.
OneWriter ==
    \A p, q \in Procs :
        pc[p] \in Owning /\ pc[q] \in Owning /\ session[p] = session[q] => p = q

\* What is locked is what the next process will open: a writer's lock is on the
\* file its session's name stands for, whatever cleanup (writer_lock.rs,
\* remove_stale_thread_locks) and the guards of others unlinked meanwhile.
OwnedLockIsNamed ==
    \A p \in Procs : pc[p] \in Owning =>
        /\ lockFile[session[p]] = file[p]
        /\ flock[file[p]] = p

\* A session's rollout is active or archived, never both: no create, archive,
\* unarchive or patch (thread_files.rs, threads.rs) makes a second one, though a
\* patch located the rollout before it had the lock.
OnePlace == \A s \in Sessions : rollout[s] # Places

\* A rollout stays where its recorder writes to it: nobody archives or deletes
\* it meanwhile.
RecorderKeepsItsFile ==
    \A p \in Procs : pc[p] = "recording" /\ made[p] => "active" \in OfSession(p)
==============================================================================
