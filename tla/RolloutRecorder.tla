--------------------------- MODULE RolloutRecorder ---------------------------
(***************************************************************************)
(* The rollout of one session: the task that writes it                     *)
(* (rollout/recorder.rs), the file and its recovery (rollout/writer.rs),   *)
(* and the reader that recovery scans with (rollout/reader.rs).            *)
(*                                                                         *)
(* The file is a sequence of lines.  A line is what was to be written      *)
(* ("full" when its newline is there), or what a failed write or a dead    *)
(* process left of it: "open" when it still parses and only the newline is *)
(* missing, "torn" when it does not parse, "fused" when another line was   *)
(* written behind it.  A crash takes the process and its memory, and       *)
(* leaves the file as it is.                                               *)
(***************************************************************************)
EXTENDS Integers, Sequences, SequencesExt, FiniteSets, FiniteSetsExt, Selection

CONSTANTS Items,              \* what hosts record, each item once
          Calls,              \* the calls that wait for an answer
          Payload,            \* the contents of each item, not always distinct
          Use,                \* what each item adds to the usage totals
          CheckpointInterval, \* records between two checkpoints
          MaxFailures,        \* bound on failing input and output
          MaxRestarts         \* bound on recorders started after the first

Meta == "meta"
Checkpoint == "checkpoint"
LastAttempt == "last attempt"
Unread == "unread"

ASSUME ItemsAssumption ==
    /\ Items \cap Calls = {}
    /\ {Meta, Checkpoint, LastAttempt, Unread} \cap (Items \cup Calls) = {}
    /\ Use \in [Items -> Nat]
    /\ DOMAIN Payload = Items
ASSUME IntervalAssumption == CheckpointInterval \in Nat \ {0}
ASSUME BoundsAssumption == MaxFailures \in Nat /\ MaxRestarts \in Nat

VARIABLES
    \* the file system
    disk,        \* the lines of the rollout
    exists,      \* the rollout has been created
    sidecar,     \* the line the sidecar calls the last checkpoint, or 0
    \* RolloutWriter, when the file is open
    writer,
    \* WriterState
    pending,     \* recorded and not yet written
    unconfirmed, \* the number of the write whose outcome is unknown
    deferred,    \* deferred_creation
    meta,        \* session_meta is still to be queued
    \* the task
    pc,          \* where it is
    command,     \* what it works on: an item, a call, or the last attempt
    attempt,     \* the first or the second of write_with_recovery
    \* the channel and the hosts
    inbox, handles, recorded, kind, result,
    failures, restarts

disks == <<disk, exists, sidecar>>
state == <<writer, pending, unconfirmed, deferred, meta>>
task  == <<pc, command, attempt>>
hosts == <<inbox, handles, recorded, kind, result>>
vars  == <<disks, state, task, hosts, failures, restarts>>

NoSeq == -1
Kinds == {"flush", "persist", "shutdown", "discard"}

NoWriter == [open |-> FALSE, nextSeq |-> 0, total |-> 0, since |-> 0, cp |-> 0,
             poisoned |-> FALSE]
------------------------------------------------------------------------------
(* The file, as the reader sees it                                          *)

UseOf(what) == IF what \in Items THEN Use[what] ELSE 0

Parses(line) == line.form \in {"full", "open"}

\* What a reader adds to the totals for a line.
Adds(line) == IF Parses(line) THEN UseOf(line.what) ELSE 0

\* Bytes go to the end of the file, also behind a line that was never closed.
Put(lines, line) ==
    IF lines # <<>> /\ Last(lines).form # "full"
    THEN Append(Front(lines),
                [Last(lines) EXCEPT !.form = IF line.form = "full" THEN "fused" ELSE "torn"])
    ELSE Append(lines, line)

\* What a write of a line has put on disk so far: none, some or all of it.
AfterWrite(lines, line) ==
    {lines} \cup {Put(lines, [line EXCEPT !.form = f]) : f \in {"torn", "open", "full"}}

\* The write has gone through: the bytes that were missing are there.
Completed(lines, line) ==
    IF lines # <<>> /\ Last(lines).seq = line.seq /\ Last(lines).form # "fused"
    THEN Append(Front(lines), line)
    ELSE Put(lines, line)

\* The checkpoint answers for everything before it.
SeedTotal_Zero(lines, seed) == 0
SeedTotal(lines, seed) == IF seed = 0 THEN 0 ELSE lines[seed].total

\* The usage a scan that starts behind the seed has counted after each line.
Totals(lines, seed) ==
    LET upTo[n \in seed..Len(lines)] ==
            IF n = seed THEN SeedTotal(lines, seed)
            ELSE upTo[n - 1] + Adds(lines[n])
    IN  upTo

IsCheckpoint(lines, n) ==
    n \in 1..Len(lines) /\ lines[n].form = "full" /\ lines[n].what = Checkpoint

\* checkpoint_seed: the sidecar only says where to look.
Seed(lines, index) == IF IsCheckpoint(lines, index) THEN index ELSE 0

\* The sequence numbers increase, across the checkpoint too; a scan from the
\* top holds every checkpoint to the records before it; a closed line that
\* does not parse is an error.
ScanAccepts(lines, seed) ==
    LET tail == {n \in (seed + 1)..Len(lines) : Parses(lines[n])}
        seen == IF seed = 0 THEN tail ELSE tail \cup {seed}
    IN /\ \A n \in (seed + 1)..Len(lines) : lines[n].form # "fused"
       /\ \A m, n \in seen : m < n => lines[m].seq < lines[n].seq
       /\ seed = 0 => \A n \in tail : lines[n].what = Checkpoint =>
                           lines[n].total = Totals(lines, 0)[n]

\* A torn line is cut off and an open one gets its newline.
Repaired(lines) ==
    IF lines = <<>> THEN lines
    ELSE CASE Last(lines).form = "torn" -> Front(lines)
           [] Last(lines).form = "open" -> [lines EXCEPT ![Len(lines)].form = "full"]
           [] OTHER -> lines

\* The newest checkpoint from line a on, or 0.
NewestCheckpoint(lines, a) == Max({0} \cup {n \in a..Len(lines) : IsCheckpoint(lines, n)})

\* The number after the last, of the seed or of the tail.
NextSeq(lines, seed) ==
    1 + Max({-1} \cup {lines[n].seq : n \in ({seed} \cap DOMAIN lines)
                                           \cup ((seed + 1)..Len(lines))})

\* The count goes on across a restart.
SinceCheckpoint_Reset(lines, cp) == 0
SinceCheckpoint(lines, cp) == Len(lines) - cp

\* What recover derives from the repaired file.  A newer checkpoint than the
\* sidecar's becomes the index.
Recovered(lines, seed) ==
    LET fixed == Repaired(lines)
        cp    == Max({seed, NewestCheckpoint(fixed, seed + 1)})
    IN [open |-> TRUE, poisoned |-> FALSE,
        nextSeq |-> NextSeq(fixed, seed),
        total |-> Totals(fixed, seed)[Len(fixed)],
        since |-> SinceCheckpoint(fixed, cp),
        cp |-> cp]

\* The sidecar is replaced in one rename, or is left as it was.
RefreshSidecar(w) == sidecar' \in {sidecar, w.cp}

Line(what) == [seq |-> writer.nextSeq, what |-> what, form |-> "full",
               total |-> IF what = Checkpoint THEN writer.total ELSE 0]

\* The record a write was for is in the file under its number.
FoundAt(lines, seq, item) ==
    \E n \in 1..Len(lines) :
        /\ Parses(lines[n])
        /\ lines[n].seq = seq
        /\ \/ lines[n].what = item
           \/ /\ {lines[n].what, item} \subseteq Items
              /\ Payload[lines[n].what] = Payload[item]
------------------------------------------------------------------------------
(* Types and the first state: a recorder made for a new session             *)

Lines == [seq : Nat, what : Items \cup {Meta, Checkpoint}, total : Nat,
          form : {"full", "open", "torn", "fused"}]

TypeOK ==
    /\ disk \in Seq(Lines)
    /\ exists \in BOOLEAN
    /\ sidecar \in Nat
    /\ writer \in [open : BOOLEAN, nextSeq : Nat, total : Nat, since : Nat, cp : Nat,
                   poisoned : BOOLEAN]
    /\ pending \in Seq(Items \cup {Meta})
    /\ unconfirmed \in Nat \cup {NoSeq}
    /\ deferred \in BOOLEAN
    /\ meta \in BOOLEAN
    /\ pc \in {"recv", "open", "settle", "append", "appended", "checkpoint", "checkpointed",
               "stopping", "stopped", "down"}
    /\ command \in Items \cup Calls \cup {LastAttempt}
    /\ attempt \in {1, 2}
    /\ inbox \in Seq(Items \cup Calls)
    /\ handles \in BOOLEAN
    /\ recorded \subseteq Items
    /\ kind \in [Calls -> Kinds]
    /\ result \in [Calls -> {"none", "waiting", "ok", "failed", "discarded"}]
    /\ failures \in 0..MaxFailures
    /\ restarts \in 0..MaxRestarts

Init ==
    /\ disk = <<>> /\ exists = FALSE /\ sidecar = 0
    /\ writer = NoWriter /\ pending = <<>> /\ unconfirmed = NoSeq
    /\ deferred = TRUE /\ meta = TRUE
    /\ pc = "recv" /\ command = LastAttempt /\ attempt = 1
    /\ inbox = <<>> /\ handles = TRUE /\ recorded = {}
    /\ kind \in [Calls -> Kinds]
    /\ result = [c \in Calls |-> "none"]
    /\ failures = 0 /\ restarts = 0
------------------------------------------------------------------------------
(* The handles                                                              *)

Listening == pc \notin {"stopped", "down"}

Record(i) ==
    /\ handles /\ Listening
    /\ i \notin recorded
    /\ recorded' = recorded \cup {i}
    /\ inbox' = Append(inbox, i)
    /\ UNCHANGED <<disks, state, task, handles, kind, result, failures, restarts>>

\* flush, persist, shutdown and discard send their command and wait; one that
\* failed may be tried again.  Once the task has stopped a call fails at once.
Call(c) ==
    /\ handles /\ Listening
    /\ result[c] \in {"none", "failed"}
    /\ inbox' = Append(inbox, c)
    /\ result' = [result EXCEPT ![c] = "waiting"]
    /\ UNCHANGED <<disks, state, task, handles, recorded, kind, failures, restarts>>

\* The last handle is dropped, by hosts that wait for nothing.
DropHandles ==
    /\ handles /\ Listening
    /\ \A c \in Calls : result[c] # "waiting"
    /\ handles' = FALSE
    /\ UNCHANGED <<disks, state, task, inbox, recorded, kind, result, failures, restarts>>
------------------------------------------------------------------------------
(* The task                                                                 *)

Sync == command \notin Items

\* write_with_recovery starts.
BeginWrite(cmd) ==
    /\ command' = cmd
    /\ attempt' = 1
    /\ pc' = IF writer.open THEN "append" ELSE "open"

\* A command is over: the caller is told, and the task goes on or stops.
Reply(cmd, r) ==
    /\ result' = IF cmd \in Calls THEN [result EXCEPT ![cmd] = r] ELSE result
    /\ pc' = IF cmd = LastAttempt \/ (cmd \in Calls /\ kind[cmd] = "shutdown" /\ r = "ok")
             THEN "stopping" ELSE "recv"

\* close, which a shutdown and the end of the task do.
CloseIfStopping(w) == writer' = IF pc' = "stopping" THEN NoWriter ELSE w

ReceiveRecord ==
    /\ pc = "recv" /\ inbox # <<>>
    /\ Head(inbox) \in Items
    /\ inbox' = Tail(inbox)
    /\ pending' = Append(pending, Head(inbox))
    /\ BeginWrite(Head(inbox))
    /\ UNCHANGED <<disks, writer, unconfirmed, deferred, meta, handles, recorded, kind, result,
                   failures, restarts>>

\* A flush or a shutdown of a file that was never needed leaves it unmade.
NothingToWrite(c) == kind[c] \in {"flush", "shutdown"} /\ deferred /\ pending = <<>>

ReceiveBarrier ==
    /\ pc = "recv" /\ inbox # <<>>
    /\ Head(inbox) \in Calls /\ kind[Head(inbox)] # "discard"
    /\ inbox' = Tail(inbox)
    /\ \/ /\ NothingToWrite(Head(inbox))
          /\ Reply(Head(inbox), "ok")
          /\ UNCHANGED <<command, attempt>>
       \/ /\ ~NothingToWrite(Head(inbox))
          /\ BeginWrite(Head(inbox))
          /\ result' = result
    /\ UNCHANGED <<disks, state, handles, recorded, kind, failures, restarts>>

ReceiveDiscard ==
    /\ pc = "recv" /\ inbox # <<>>
    /\ Head(inbox) \in Calls /\ kind[Head(inbox)] = "discard"
    /\ inbox' = Tail(inbox)
    /\ pending' = <<>>
    /\ writer' = NoWriter
    /\ result' = [result EXCEPT ![Head(inbox)] = "discarded"]
    /\ pc' = "stopping"
    /\ UNCHANGED <<disks, unconfirmed, deferred, meta, command, attempt, handles, recorded, kind,
                   failures, restarts>>

\* Every handle is gone: a last attempt at what is queued.
ReceiveNone ==
    /\ pc = "recv" /\ inbox = <<>> /\ ~handles
    /\ \/ /\ pending # <<>>
          /\ BeginWrite(LastAttempt)
          /\ writer' = writer
       \/ /\ pending = <<>>
          /\ pc' = "stopping"
          /\ writer' = NoWriter
          /\ UNCHANGED <<command, attempt>>
    /\ UNCHANGED <<disks, pending, unconfirmed, deferred, meta, hosts, failures, restarts>>

\* write_once failed: the file is closed, and opened again for a second try.
Recover ==
    /\ writer' = NoWriter
    /\ attempt' = 2
    /\ IF attempt = 1
       THEN pc' = "open" /\ result' = result
       ELSE Reply(command, "failed")
    /\ command' = command

Fails ==
    /\ failures < MaxFailures
    /\ failures' = failures + 1

OpenRollout ==
    LET seed == Seed(disk, sidecar) IN
    /\ pc = "open"
    /\ ScanAccepts(disk, seed)
    /\ disk' = Repaired(disk)
    /\ exists' = TRUE
    /\ writer' = Recovered(disk, seed)
    /\ RefreshSidecar(writer')
    /\ deferred' = FALSE
    /\ pc' = "settle"
    /\ UNCHANGED <<pending, unconfirmed, meta, command, attempt, hosts, failures, restarts>>

\* The open fails, before or after it made or repaired the file, or the file is
\* one it refuses.
OpenFails ==
    /\ pc = "open"
    /\ IF ScanAccepts(disk, Seed(disk, sidecar))
       THEN /\ Fails
            /\ \E repaired \in BOOLEAN :
                  /\ disk' = IF repaired THEN Repaired(disk) ELSE disk
                  /\ exists' = (exists \/ repaired)
       ELSE UNCHANGED <<disk, exists, failures>>
    /\ Recover
    /\ UNCHANGED <<sidecar, pending, unconfirmed, deferred, meta, inbox, handles, recorded, kind,
                   restarts>>

\* The reopened file tells whether the write of unknown outcome landed.
Landed_AnyNumber ==
    /\ unconfirmed # NoSeq /\ pending # <<>>
    /\ \E seq \in 0..writer.nextSeq : FoundAt(disk, seq, Head(pending))
Landed ==
    /\ unconfirmed # NoSeq /\ writer.nextSeq > unconfirmed /\ pending # <<>>
    /\ FoundAt(disk, unconfirmed, Head(pending))

SettleUnconfirmed ==
    LET left == IF Landed THEN Tail(pending) ELSE pending IN
    /\ pc = "settle"
    /\ pending' = IF meta /\ writer.nextSeq = 0 THEN <<Meta>> \o left ELSE left
    /\ unconfirmed' = NoSeq
    /\ meta' = FALSE
    /\ pc' = "append"
    /\ UNCHANGED <<disks, writer, deferred, command, attempt, hosts, failures, restarts>>

\* The file was opened and cannot be read.
SettleFails ==
    /\ pc = "settle"
    /\ unconfirmed # NoSeq /\ writer.nextSeq > unconfirmed /\ pending # <<>>
    /\ Fails
    /\ Recover
    /\ UNCHANGED <<disks, pending, unconfirmed, deferred, meta, inbox, handles, recorded, kind,
                   restarts>>

\* append_inner puts the front of the queue on disk, all of it or not.
AppendFront ==
    /\ pc = "append" /\ pending # <<>> /\ ~writer.poisoned
    /\ disk' \in AfterWrite(disk, Line(Head(pending)))
    /\ pc' = "appended"
    /\ UNCHANGED <<exists, sidecar, state, command, attempt, hosts, failures, restarts>>

\* What the writer keeps of a record it has written.
Counted(what) ==
    [writer EXCEPT !.nextSeq = @ + 1, !.since = @ + 1, !.total = @ + UseOf(what)]

\* The write succeeded: the item leaves the queue, and a checkpoint may be due.
AppendDone ==
    /\ pc = "appended"
    /\ disk' = Completed(disk, Line(Head(pending)))
    /\ writer' = Counted(Head(pending))
    /\ pending' = Tail(pending)
    /\ pc' = IF writer'.since >= CheckpointInterval THEN "checkpoint" ELSE "append"
    /\ UNCHANGED <<exists, sidecar, unconfirmed, deferred, meta, command, attempt, hosts,
                   failures, restarts>>

\* The write reports an error: its outcome is unknown.
AppendFails ==
    /\ pc = "appended"
    /\ Fails
    /\ unconfirmed' = writer.nextSeq
    /\ Recover
    /\ UNCHANGED <<disks, pending, deferred, meta, inbox, handles, recorded, kind, restarts>>

\* A checkpoint that failed left the writer poisoned: it takes no more.
AppendPoisoned_Retries ==
    /\ pc = "append" /\ pending # <<>> /\ writer.poisoned
    /\ UNCHANGED vars
AppendPoisoned ==
    /\ pc = "append" /\ pending # <<>> /\ writer.poisoned
    /\ Recover
    /\ UNCHANGED <<disks, pending, unconfirmed, deferred, meta, inbox, handles, recorded, kind,
                   failures, restarts>>

WriteCheckpoint ==
    /\ pc = "checkpoint"
    /\ disk' \in AfterWrite(disk, Line(Checkpoint))
    /\ pc' = "checkpointed"
    /\ UNCHANGED <<exists, sidecar, state, command, attempt, hosts, failures, restarts>>

CheckpointDone ==
    /\ pc = "checkpointed"
    /\ disk' = Completed(disk, Line(Checkpoint))
    /\ writer' = [Counted(Checkpoint) EXCEPT !.since = 0, !.cp = Len(disk')]
    /\ RefreshSidecar(writer')
    /\ pc' = "append"
    /\ UNCHANGED <<exists, pending, unconfirmed, deferred, meta, command, attempt, hosts,
                   failures, restarts>>

\* The append it belongs to succeeded all the same.
CheckpointFails ==
    /\ pc = "checkpointed"
    /\ Fails
    /\ writer' = [writer EXCEPT !.poisoned = TRUE]
    /\ pc' = "append"
    /\ UNCHANGED <<disks, pending, unconfirmed, deferred, meta, command, attempt, hosts, restarts>>

\* The queue is empty: a barrier flushes the file, and the command is over.
Drained ==
    /\ pc = "append" /\ pending = <<>>
    /\ IF Sync THEN RefreshSidecar(writer) ELSE sidecar' = sidecar
    /\ Reply(command, "ok")
    /\ CloseIfStopping(writer)
    /\ UNCHANGED <<disk, exists, pending, unconfirmed, deferred, meta, command, attempt, inbox,
                   handles, recorded, kind, failures, restarts>>

FlushFails ==
    /\ pc = "append" /\ pending = <<>> /\ Sync
    /\ Fails
    /\ Recover
    /\ UNCHANGED <<disks, pending, unconfirmed, deferred, meta, inbox, handles, recorded, kind,
                   restarts>>

\* The task returns and the receiver goes: what is in the channel is lost.
Stop ==
    /\ pc = "stopping"
    /\ pc' = "stopped"
    /\ inbox' = <<>>
    /\ pending' = <<>>
    /\ result' = [c \in Calls |-> IF result[c] = "waiting"
                                  THEN IF kind[c] = "discard" THEN "discarded" ELSE "failed"
                                  ELSE result[c]]
    /\ UNCHANGED <<disks, writer, unconfirmed, deferred, meta, command, attempt, handles,
                   recorded, kind, failures, restarts>>
------------------------------------------------------------------------------
(* The process                                                              *)

\* The process dies; the file keeps what was written.
Crash ==
    /\ pc # "down" /\ restarts < MaxRestarts
    /\ pc' = "down"
    /\ writer' = NoWriter
    /\ pending' = <<>> /\ inbox' = <<>> /\ unconfirmed' = NoSeq
    /\ handles' = FALSE
    /\ result' = [c \in Calls |-> IF result[c] = "waiting" THEN "failed" ELSE result[c]]
    /\ UNCHANGED <<disks, deferred, meta, command, attempt, recorded, kind, failures, restarts>>

\* A session that has a file is resumed: the file is opened first, and a
\* recorder is started on it.
ResumeThread ==
    LET seed == Seed(disk, sidecar) IN
    /\ pc \in {"stopped", "down"} /\ restarts < MaxRestarts
    /\ exists
    /\ ScanAccepts(disk, seed)
    /\ disk' = Repaired(disk)
    /\ writer' = Recovered(disk, seed)
    /\ RefreshSidecar(writer')
    /\ deferred' = FALSE /\ meta' = FALSE
    /\ pending' = <<>> /\ unconfirmed' = NoSeq /\ inbox' = <<>>
    /\ pc' = "recv"
    /\ handles' = TRUE
    /\ restarts' = restarts + 1
    /\ UNCHANGED <<exists, command, attempt, recorded, kind, result, failures>>

\* One that has none is created again.
CreateThread ==
    /\ pc \in {"stopped", "down"} /\ restarts < MaxRestarts
    /\ ~exists
    /\ writer' = NoWriter
    /\ deferred' = TRUE /\ meta' = TRUE
    /\ pending' = <<>> /\ unconfirmed' = NoSeq /\ inbox' = <<>>
    /\ pc' = "recv"
    /\ handles' = TRUE
    /\ restarts' = restarts + 1
    /\ UNCHANGED <<disks, command, attempt, recorded, kind, result, failures>>

WriterTask ==
    \/ ReceiveRecord \/ ReceiveBarrier \/ ReceiveDiscard \/ ReceiveNone
    \/ OpenRollout \/ OpenFails \/ SettleUnconfirmed \/ SettleFails
    \/ AppendFront \/ AppendDone \/ AppendFails \/ AppendPoisoned
    \/ WriteCheckpoint \/ CheckpointDone \/ CheckpointFails
    \/ Drained \/ FlushFails \/ Stop

Host ==
    \/ \E i \in Items : Record(i)
    \/ \E c \in Calls : Call(c)
    \/ DropHandles
    \/ ResumeThread
    \/ CreateThread

Next == WriterTask \/ Host \/ Crash

Spec == Init /\ [][Next]_vars /\ WF_vars(WriterTask)
------------------------------------------------------------------------------
(* Properties                                                               *)

\* The items a reader of the file finds.
Contents(lines) == [n \in DOMAIN lines |-> IF Parses(lines[n]) THEN lines[n].what ELSE Unread]
StoredItems == Selected(Contents(disk), Items)

\* The front of the queue is on disk already, though the task does not know it:
\* it is being written, or its write failed after it landed.
FrontStored ==
    /\ pending # <<>>
    /\ \/ pc = "appended" /\ FoundAt(disk, writer.nextSeq, Head(pending))
       \/ unconfirmed # NoSeq /\ FoundAt(disk, unconfirmed, Head(pending))

\* What hosts have sent and cannot read yet, with the calls among it.
WaitingQueue ==
    LET unwritten == IF FrontStored THEN Tail(pending) ELSE pending
        working   == pc \notin {"recv", "stopping", "stopped", "down"} /\ command \in Calls
    IN Selected(unwritten, Items)
         \o (IF working THEN <<command>> ELSE <<>>)
         \o inbox

\* A recorder over a file that may fail at every write is a durable log: the
\* items in the file are those recorded, in their order, none twice and none
\* left out; they stay there; a flush, persist or shutdown (recorder.rs,
\* write_all) that returns Ok has everything recorded before it in the file; one
\* that returns an error leaves the queue as it was.
Durable == INSTANCE DurableLog WITH log <- StoredItems, queue <- WaitingQueue
ImplementsDurableLog == Durable!Spec

\* Whatever a process that died left behind can be taken up again: the next open
\* (writer.rs, validate_scan, and reader.rs, verify_checkpoint) finds nothing to
\* reject, recovery from the checkpoint of whichever sidecar a failed or
\* interrupted refresh left gives what reading the whole file gives (recover),
\* and the session's metadata, queued when the file is first opened, is on its
\* first line or, when a crash tore that line, nowhere (recorder.rs, write_once).
RecoveryExact ==
    LET seed == Seed(disk, sidecar)
    IN /\ ScanAccepts(disk, 0) /\ ScanAccepts(disk, seed)
       /\ Recovered(disk, seed) = Recovered(disk, 0)
       /\ \A n \in DOMAIN disk : Parses(disk[n]) /\ disk[n].what = Meta => n = 1

\* A writer that may append (writer.rs, append_inner, is_poisoned) knows its file
\* as one who reads it anew would: the next number, the totals, the last
\* checkpoint and the records since, which a restart must not forget (recover,
\* records_since_checkpoint), with every line closed.
WriterKnowsItsFile ==
    writer.open /\ ~writer.poisoned /\ pc \notin {"appended", "checkpointed"} =>
        /\ writer = Recovered(disk, 0)
        /\ \A n \in DOMAIN disk : disk[n].form = "full"

\* A call that waits for the writer task is answered, if only by its failing.
CallAnswered == \A c \in Calls : result[c] = "waiting" ~> result[c] # "waiting"
=============================================================================
