# Verification of rusty-agent

TLA+ models of the concurrent core of rusty-agent, the TLC runs that check them
on small instances, and TLAPS proofs of what matters most for instances of any
size. Paths below are relative to `src/crates/`.

- [1. The system](#1-the-system)
- [2. Modules, and how they correspond to the code](#2-modules-and-how-they-correspond-to-the-code)
- [3. What the runs check](#3-what-the-runs-check)
- [4. What is proved](#4-what-is-proved)
- [5. Disagreements](#5-disagreements)
- [6. What is left out](#6-what-is-left-out)
- [7. Plan](#7-plan)

To check a run: `tlc -workers 2 -config AgentThreadSteer.cfg MCAgentThread`.
To check the proofs: `tlapm AgentThreadProofs.tla`, and likewise `AgentTurnProofs`,
`AgentTreeProofs`, `ToolBatchProofs`, `RolloutRecorderProofs`,
`ThreadDirectoryProofs`, `AppServerProofs` and `OrderLemmas`.

## 1. The system

rusty-agent is a framework for building agents: a runtime runs model turns and
dispatches tools, and around it are sessions and their logs, an app server, an
executor for remote commands, MCP connections and model clients. The parts with
state of their own:

| Part | State | Operations | Talks to |
|---|---|---|---|
| Thread, `ra-runtime/src/thread.rs` | `ThreadState` behind a mutex: history, settings, the active turn (queue, live settings, cancel scope, pause), `shut_down` | `start_or_steer_turn`, `steer_turn`, `interrupt`, `update_settings`, `update_turn_settings`, `record_approval`, `resume_turn`, `shutdown`; `run_turn`, one task per turn | hosts call it; it drives the runner, sends events on a channel and records to the rollout |
| Steered input, `runner/pending_input.rs` | messages and a closed flag, under a lock of its own | push, take, close, seal, close_if_empty | hosts push through the thread, the run takes |
| Live settings, `runner/live_settings.rs` | the settings of the next step, and those the current step captured | capture, update, close | the same |
| Runner, `runner.rs` | locals of a run: history, spent turns, stop flag | the loop of steps, prompt and stop hooks, delivery of input, the end of a segment | model, tools, hooks, recorder |
| Agent tree, `agent/control.rs` | the map of agents by path, each agent's status, closed flag, mailbox, rollout, resources, driver and pause; the running limiter; the list of task handles | spawn, send, interrupt, resume, close, shutdown; one driver task per running agent, one task per close | tools of a run call it; it runs agents through the runner and reports to parents |
| Tool batch, `turn/batch.rs`, `tool/dispatch.rs` | the tasks of a response's calls, concurrency slots, a read-write lock per resource and a global one, what has been collected | start from the stream or from the response, admit, call, commit, cancel, drain, abort, settle | runner, tools |
| Budgets, `budget.rs`, `circuit.rs`, `agent/control/budget.rs` | counters | spend, check | runner, tree |
| Rollout, `ra-session/src/rollout/{recorder,writer,reader}.rs` | the writer task's channel, its queue of records and the write of unknown outcome; the log file and its checkpoint sidecar | record, flush, persist, shutdown, discard; open, recover, append, checkpoint | thread and tree record; resume and fork read |
| Thread store, `ra-session/src/rollout/{writer_lock,threads,thread_files}.rs` | one lock file per session and a coordination file, the active and the archived rollouts | acquire, sweep, release; create, resume, archive, unarchive, delete, patch | several processes share a directory; hosts and the app server call it |
| App server, `ra-protocol/src/server/`, `server.rs` | per-key request queues, a gate per connection, turn admission, the counts a drain waits for, subscribed threads, unanswered approval requests | read, queue, handle, close a connection, signal, drain, unload; one handler per request | clients, threads |
| Executor, `ra-executor/` | requests in flight, sessions | call, answer, reconnect | runtime, remote process |
| MCP, `ra-mcp/` | connections | connect, call, refresh | external servers |

What is hard in it is concurrency. Several host tasks, the turn's task and a
timer meet in a thread; spawns, senders, drivers, closes and a shutdown meet in
a tree; the calls of a batch meet in their locks, and all of them meet a
cancellation; requests, turns, connections and a drain meet in the app server;
processes meet in a directory. Locks are held for single reads and writes and
let go around every `await`, so each check may be stale when its result is used.
After this come failure (a rollout that cannot be written, a process that dies
in the middle of an append or an archive), retries (a write of unknown outcome)
and delivery (an executor connection that drops). `PROJECT.json` lists the hazards
one by one, at the line where each bites, with the properties that catch it.

What makes each part correct:

- *Thread.* What a host was told is what happens: an accepted message is read
  or kept, once; an acknowledged interrupt, and nothing else, aborts; an answer
  goes to the pause it was given for; after a shutdown nothing runs. A waiting
  call returns.
- *Rollout as the thread writes it.* It replays to the thread's history, and
  the record of a run's end comes last.
- *Tree.* A close takes its whole subtree down and nothing else; a stopped agent
  does not run; mail that asks for a run gets one; a shutdown leaves nothing
  behind; closes, runs and shutdowns do not wait for each other for ever.
- *Rollout writer.* What was confirmed is in the log, once and in order, after
  any failure or crash; a barrier (flush, persist, shutdown) is answered when
  everything before it is stored; a file is recovered to the same state whether
  its sidecar is used or not; every call is answered.
- *Thread store.* A session has one writer and one rollout, whatever dies when.
- *App server.* Exclusive requests run alone and in order and reads share; a
  connection that was cleaned up has nothing running; a drain ends, on a server
  where nothing runs and nothing admitted is left.
- *Tool batch.* Locks never deadlock; the batch returns, with nothing of it still
  running, though tools ignore their cancellation; it answers all calls or none,
  and reports the worst failure.

## 2. Modules, and how they correspond to the code

| Module | Models | Extends |
|---|---|---|
| `PendingInput` | the steered-input queue, an operator per method | |
| `LiveRunSettings` | the live settings, an operator per method | |
| `Selection` | the members of a set in a sequence, in order: `SelectSeq` as a function the prover can reason about | |
| `AgentThread` | the thread, and of the runner what decides when a run reads input, pauses and ends | `PendingInput`, `LiveRunSettings`, `Selection` |
| `AgentTree` | the agent tree | `Selection` |
| `ToolBatch` | the function calls of one model response | |
| `DurableLog` | abstract: what a recorder promises | |
| `RolloutRecorder` | the writer task, the file, the sidecar, recovery and crashes; implements `DurableLog` | `Selection` |
| `ThreadDirectory` | the writer lock and the operations on a session's files, between processes | |
| `RequestQueues` | request serialization, the connection gate and a connection's cleanup | |
| `AppServer` | the reading loop, admission, turns, listeners, drain and unloading | `RequestQueues` |
| `MC...` | values of the constants for TLC | the specification of that name |
| `OrderLemmas` | lemmas about numbers, sequences and `Selected` | `Selection`, `TLAPS` |
| `AgentThreadProofs` | theorems about the thread's types, interrupts, pauses and shutdown | `AgentThread`, `TLAPS` |
| `AgentTurnProofs` | theorems about what becomes of a turn's input, events and records | `AgentThreadProofs`, `OrderLemmas` |
| `AgentTreeProofs`, `ToolBatchProofs`, `RolloutRecorderProofs`, `ThreadDirectoryProofs`, `AppServerProofs` | theorems | their specification, `TLAPS`, some with `OrderLemmas` |

Some definitions have a variant beside them with a suffix (`Leftover_Dropped`
beside `Leftover`). No specification uses a variant. Each is the definition with
a plausible mistake in it, and a property is shown to be violated when it takes
the definition's place.

### AgentThread

An action is one critical section of the thread's mutex, or one stretch of the
turn's task up to the next place where another process can come in between.

*State.* The variables come in groups that follow the code's ownership:
`ThreadState` (`history`, `config`, `shutDown`, `sessionStart`, `sessionEnded`,
and of the active turn `active`, `schema`, `interrupted`, `ending`, `paused`);
what the task shares with hosts under other locks (`queue`, `live`, the cancel
scope as `cancelled` and `expired`, the `oneshot` of a pause); the locals of the
turn's task, with its place in `pc`; `ThreadRecorder` (`deferred`) and the
`rollout`; the event channel, as a sequence of `events` per turn; host calls
(`status`, `turnOf`, `closer`, `updating`); and `owed`, the `notify_waiters`
calls that ended turns have still to make. `pauses`, `approved`, `denied`,
`acked`, `sessionEnds` and `offered` (the settings each turn started with or had
published for it) are history variables. A request is made once, and it names the
message it brings and the turn it starts.

*Actions.*

| Code | Actions |
|---|---|
| `start_or_steer_turn`, `start_turn`, `steer_turn` | `StartOrSteerTurn` (with `StartTurn`, `SteerInto`), `SteerTurn` |
| `turn_ended.notify_waiters()` | `NotifyWaiters` |
| `interrupt`, `update_settings`, `update_turn_settings` | `Interrupt`, `UpdateSettings`, `BeginTurnSettings` and `FinishTurnSettings` on either side of the unlocked model lookup |
| `record_approval`, `resume_turn` | `RecordApproval`, `ResumeTurn` |
| `shutdown` | `Shutdown` (a pass of its loop), `ClaimSessionEnd`, `DispatchSessionEnd`, `FinishShutdown` |
| `prepare_host_input` | `AcceptHostInput`, `StopHostInput` |
| `run_turns`, `run_one_turn` | `BeginStep`, `DeliverAtStep`, `CallModel`, `StepFails` |
| `deliver_pending_input` and its callers | `DeliverAtStep`, `DeliverAtConclusion`, `DeliverLate`, `Settle`, `JudgePrompt`, `PromptHookCancelled`, `CommitDelivery`, `CloseLate` |
| stop hook, resumed segment, deadline | `StopHook`, `ResumeSegment`, `WallClockExpires` |
| end of a segment, `ThreadRecorder` | `FinishSegment`, `FinishRecording` |
| `run_to_end`'s pause | `PauseForApproval`, `AnnouncePause`, `WaitForAnswer`, `LeavePause` |
| `run_turn`'s end | `CloseSettings`, `ClosePending`, `FreezeOutcome`, `KeepLeftover`, `FinishRecording`, `EndTurn` |

*Abstractions.* A model call, with its tools, is one step with the outcomes it
can have: the run goes on, concludes, stops for approval, has spent a budget,
fails, or is cancelled. The turn budget is counted; token and cost budgets are
the outcome "budget". A hook's decision is a choice. `step_model_switching`
is taken to be on. The `tokio::select!` of a pause may take either ready branch.

### AgentTree

*State.* A node is an incarnation of an agent: a path is free again once its
agent has been removed, and two nodes may have the same path. `agents` is the
map behind the tree's mutex. `closed`, `closing` (a count), `mail`, `status`,
`rolloutDown` and `resources` belong to a node; `run` is the place of its driver;
`paused` and `answer` describe its pause. Spawns (`spawn`), sends
(`send`), closes (`task`, keyed by the host's call or by the agent whose cancelled
run closes what is below it) and shutdowns (`stopper`, and the task they share,
`shut`) have places of their own.

*Actions.*

| Code | Actions |
|---|---|
| `spawn`, `prepare_spawned`, `create_rollout`, `admit` | `BeginSpawn`, `PrepareSpawned`, `CreateRollout`, `Admit`, `UndoRollout`, `ReleaseRefused`, `PostTask`, `StartSpawned`; `DropSpawn` when the tool call is dropped at an `await` |
| `send`, `ensure_running` | `BeginSend`, `PushMail`, `StartForMail` |
| `interrupt`, `resume` | `Interrupt`, `Resume` |
| `drive`, `run_to_end`, `run_finished`, `run_ended` | `StartDriver`, `StartRun`, `TakeMail`, `Pause`, `LeavePause`, `EndRun`, `RunFinished`, `ReportToParent`, `AfterRun`, `ClosedBelow`, `HandBack` |
| `close`, `close_subtree`, `stop` | `BeginClose`, `MarkSubtree`, `CancelDoomed`, `AwaitIdle`, `StopRollout`, `RemoveStopped`, `FinishClose` |
| `shutdown`, `finish_shutdown` | `ShutdownTree`, `JoinShutdown`, `CancelTree`, `SnapshotAgents`, `ShutAwaitIdle`, `ShutRollout`, `ShutRelease`, `FinishShutdown` |

*Abstractions.* A mailbox is the set of what waits in it. Completed, Errored and
Interrupted are one status, "Ended". A call that is refused at its first checks
leaves no trace and is not a step. These stretches are one step each because
nothing another process reads changes between their parts: the limiter's count,
`take_for_run` and `run_started` (`StartRun`); cancelling the targets of a close
and registering its task (`CancelDoomed`); the check and the call of a rollout's
shutdown; releasing an agent's resources and removing it; publishing a paused
run's status and storing its checkpoint (`Pause`). The order in which a shutdown
visits the agents it found does not matter to any property, and is depth first:
`DepthFirst` lists the paths, `Below` picks those of a subtree, and `AgentsAt` is
who the map has at them, in that order.
The root's runs are the host's, and so are the root's pauses. The rollout store
and the factory of spawned agents are outside the tree, and may fail.

### ToolBatch

*State.* The place of each call's task and what it ended with; the holders and
the waiting line of each lock, with the global lock as number 0 before the
resources, which are numbered in the order of `ResourceId`; the supervisor's phase,
what it has collected (`completed`, `failure`, `nested`, `postFailure`); the calls
whose error carries the run of their agent (`carried`); the two reasons a tool's
scope may be cancelled (`cancelled`, the turn; `torn`, a peer's failure); and what
`execute_actions` leaves (`outcome`, `records`, `recovery`).

*Actions.*

| Code | Actions |
|---|---|
| `StreamedFunctionDispatches`, the start of `execute_actions` | `StreamCall`, `Respond`; `Contradict` and `StreamFails` when the response does not bear the stream out or does not come |
| `spawn_dispatch_task`, `run_chain` | `TakeSlot`, `RunChain`, `CallReturns`, `FinishOutput`; `HeedCancel` at an await of the chain |
| `ResourceAdmissionGate` | `AskLock`, `GetLock`, `StartCall` |
| `collect_dispatches` | `Join`, `SweepDone`, `CollectCancelled` |
| `drain_dispatches` | `Join`, `GraceOver`, `Abort` |
| the end of `execute_actions` | `Return` |
| the turn's scope | `CancelTurn` |

*Abstractions.* A hook, a guardrail or a tool ends in an error of one of the
classes its call may have (`Fates`), panics, or goes on, before the call, in it or
after it. A call of an agent (`Agents`) may fail with an error that also carries the
agent's run: what failed is the error inside, so such a call is of that error's class
(`KindOf`), and its run is collected besides. A call in `Stubborn` leaves its tool only when it
is aborted. The grace period is a step that may be taken whenever tasks are left.

### RolloutRecorder and DurableLog

*State.* The file is a sequence of lines, each with its sequence number, its
contents and how much of it there is: "full", "open" (only the newline is
missing), "torn" (it does not parse), or "fused" (another line was written behind
one that was never closed). `writer` is `RolloutWriter`, `pending`, `unconfirmed`,
`deferred` and `meta` are `WriterState`; `pc`, `command` and `attempt` say where
the task is in `write_with_recovery`; `inbox` is its channel.

*Actions.*

| Code | Actions |
|---|---|
| `record`, `flush`, `persist`, `shutdown`, `discard`; dropped handles | `Record`, `Call`, `DropHandles` |
| `write_all` and its commands | `ReceiveRecord`, `ReceiveBarrier`, `ReceiveDiscard`, `ReceiveNone`, `Stop` |
| `write_with_recovery`, `write_once`, opening and recovering the file | `OpenRollout`, `OpenFails`; what recovery computes is `Seed`, `ScanAccepts`, `Repaired`, `Recovered` |
| `settle_unconfirmed` | `SettleUnconfirmed`, `SettleFails` |
| appending, checkpoints, the sidecar | `AppendFront`, `AppendDone`, `AppendFails`, `AppendPoisoned`, `WriteCheckpoint`, `CheckpointDone`, `CheckpointFails`, `Drained`, `FlushFails` |
| the process | `Crash`; `CreateThread` and `ResumeThread` start the next recorder |

A write has a step before and a step after it, and a crash between them leaves
none, part or all of the line. A failed write leaves the same.

*Refinement.* `DurableLog` has a log, a queue of items and calls that wait, and
the calls' answers. It appends what is at the front of the queue, answers a
barrier at the front, and may lose the whole queue at once but nothing of the log.
`RolloutRecorder` implements it with `log <- StoredItems`, the items of the lines
that recovery would keep, and `queue <- WaitingQueue`: what the task still has to
write, without the front record once its line can be recovered, then what it
works on, then the channel. A record is therefore stored in the step in which its
line first parses, which is before the writer knows of it.

### ThreadDirectory

*State.* `lockFile` maps the name of a session's lock to a file (an inode),
`flock` says who has locked a file and `coord` who has the coordination lock;
`rollout` says where a session has a rollout. A process has a place, an operation,
the lock file it has open, and what is left of its sweep.

*Actions.*

| Code | Actions |
|---|---|
| `acquire_inner`, `remove_stale_thread_locks` | `Begin`, `LockCoordination`, `Sweep`, `EndSweep`, `OpenLock`, `TryLock` |
| `Drop` of the guard | `CoordinateRelease`, `DropLock`, `RemoveName`, `ReleaseUncoordinated` |
| `create_thread`, `resume_thread` and their recorder | `StartRecorder`, `Materialize`, `StopRecorder` |
| archive, unarchive | `MoveRollout`, `MoveSidecar`, `UpdateIndex` |
| delete, metadata patch | `Delete`, `PatchCold` |
| a refusal or a failure; a process that dies | `GiveUp`; `Crash` |

### RequestQueues and AppServer

*State.* Requests are numbered as they arrive and have a status each. A key has a
queue while a task drains it, the set of the numbers that wait in it, from which
the least is taken; `task` is keyed by the request whose arrival spawned
it, so that nothing in the model's shape keeps a key from having two. `gate` and
`cleanup` follow a connection that goes. `AppServer` adds the loop (its place,
and the counts as it last read them), the signals, and per thread whether it is
loaded, whether a turn runs, the events no listener has handled, and whether its
listener counts a turn as active.

*Actions.*

| Code | Actions |
|---|---|
| `enqueue`, `drain` of a queue | `Enqueue` (in `Incoming`), `NextBatch`, `HearChange`, `JoinReads`, `EndDrain` |
| connection gate, the future of a request | `Begin`, `Enter`, `HandleTurn`, `Finish`, `Detach`, `FinishDetached` |
| `connection_closed` | `ConnectionClosed` (with `CloseGate`), `DiscardClosed`, `HandlersGone`, `GiveUpWaiting`, `ReapCleanup` |
| the loop of `run` | `Incoming`, `OnSignal`, `WatchChanged`, `ReadActive`, `ReadHeard`, `Update`, `TransportsGone`, `ShutdownThreads`, `Exit` |
| turns, `handle_event`, unloading | `EndTurn`, `HandleEvent`, `BeginUnload`, `ForgetThread`, `ShutThread`, `RemoveThread` |

## 3. What the runs check

Every property is stated in a comment above its definition, and is checked in the
run whose instance strains it most.

| Run | Instance | Checks |
|---|---|---|
| `steer` | 3 requests, 2 shutdowns, 2 steps, no pauses | `InterruptDecidesOutcome`, `AcceptedInputSurvives`, `InputDeliveredOnce`, `ShutdownIsFinal`, `SessionEndOnce`, `FinishedRunLeavesNoInput` |
| `approval` | 2 requests, 1 shutdown, 1 step, 2 pauses, fair | `TurnEventsWellFormed`, `RolloutReplaysHistory`, `RunEndIsLast`, `ResumesItsOwnPause`, and the liveness `InterruptedTurnEnds`, `WaitingSubmissionAnswered`, `ShutdownReturns` |
| `settings` | 2 requests, one with settings of its own, 2 configurations, 1 of them published, a schema, an empty request, a deadline, 1 step, 1 pause | `TypeOK`, `PauseKeepsStepSettings` |
| `tree_reuse` | 2 agents in turn at one path, a follow-up, 2 closes | `NoTriggerStranded`, `OpenAgentStaysListed` |
| `tree_shutdown` | a parent and a child, 1 close, closes by cancelled runs, 2 shutdowns, 1 failure | `OpenUnderOpen`, `StoppedAgentIsQuiet`, `ShutdownQuiesces` |
| `tree_followup` | 1 agent, a follow-up, 1 close, 1 shutdown, 1 pause, fair | the liveness `FollowupIsRead`, `ShutdownFinishes`, `CloseFinishes` |
| `tree_live` | a parent and a child, closes by cancelled runs, 1 shutdown, fair | the liveness `CloseFinishes`, of the closes runs make |
| `tool_batch` | 3 calls, one exclusive, two that name two resources in opposite orders, one of them an agent's and the other stubborn; 2 slots; fair | `NoLockDeadlock`, `AllOrNothing`, `WorstFailureReported`, and the liveness `TeardownReturns` |
| `rollout` | 3 items, two with the same contents and one with usage, 1 call, a checkpoint every 3 records, 3 failures, 1 crash and restart, fair | `RecoveryExact`, `WriterKnowsItsFile`, the refinement `ImplementsDurableLog`, the liveness `CallAnswered` |
| `thread_files` | 3 processes, 1 session, 4 lock files, 2 crashes | `OneWriter`, `OnePlace`, `RecorderKeepsItsFile` |
| `requests` | 3 requests of any kind, one key, 2 connections that close | `Serialized`, `CleanedIsQuiet` |
| `drain` | 2 requests, 1 thread, 1 connection, 2 signals, fair | `DrainedIsQuiet`, and the liveness `DrainEnds`, `RequestsSettle` |

*Bounds.*

- *Thread.* Three requests are a turn, input steered into it, and a submission
  that waits for its end and starts the next. Two steps are what a delivery at a
  step needs (a run's first step takes none), and what a delivery at a conclusion
  needs to have an effect. Two pauses are what a stale answer needs. Two shutdowns
  are what a race of them needs; a third is in the situation of one of the two. Two
  turns with settings of their own are what an update needs to outlive its turn, and
  one step, with updates before it, in it and in its pause, is what a pause keeps.
- *Tree.* A parent and a child are what a spawn racing a close, or a close within
  a close, needs; two nodes at one path are what a stale path needs. One rollout
  failure leaves a close half done, and one call more can take it up. A close that a
  host makes and a shutdown work on one agent whose run pauses in `tree_followup`;
  the closes that cancelled runs make below them, and a shutdown that waits for those
  runs, work on a parent and its child in `tree_live`. All of it at once, over two
  agents, is too many states for a liveness run of minutes.
- *Tool batch.* Two calls with opposite orders are what a deadlock needs, a third
  that wants everything is what makes both wait, and two slots are fewer than
  calls. Merging compares two failures at a time, so two calls that fail are enough:
  the agent's, at a guardrail or cancelled, perhaps with its run in hand, and one that
  panics. The guardrail outranks the panic, and would not if it were ranked by the run.
- *Rollout.* Three items and the session's metadata cross a checkpoint; items with
  the same contents are what could be mistaken for each other when a write is
  settled. Three failures are both attempts of one call and the next one's first.
  A crash with a restart is what recovery needs; the file the second recorder
  starts from may be anything the first could leave.
- *Thread files.* One process with the lock, one that sweeps and one that opens are
  what an unlinked lock file needs. Two of them may die. More sessions add nothing
  between them but the coordination lock, which the sweep of one session has too.
- *App server.* Three requests are a running batch, one that waits and one that
  must or must not overtake it. Two requests and two signals are an admitted turn
  that waits in a queue while a drain begins and is then forced.

Steps are bounded by the code itself (`max_turns`); pauses, failures, crashes,
restarts, requests and signals by `MaxPauses`, `MaxFailures`, `MaxCrashes`,
`MaxRestarts`, `MaxRequests` and `MaxSignals` in the guards. Requests, calls of
hosts, connections, processes and lock files are symmetric where the run says so,
never in a run that checks liveness. Deadlock is checked in the tree, where the
host can always run the root again, and in the directory, where a process can
always start an operation. Elsewhere the system may stop when its requests are
used up, and liveness says what may not stop before.

*Fairness.* Weak fairness for what the async runtime polls, and only for it:

- in the thread, the turn's task, a submission that was woken, a shutdown already
  called, `notify_waiters`; in the tree, spawns, sends, drivers, closes and the
  shutdown task that have begun. A cancelled run ends because every wait of a run
  is a select over its scope, and a run reads its mail at its next model call
  (`TakeMail`);
- the rollout's writer task;
- the server's loop, its queues' tasks, handlers, cleanups and listeners; and
  turns end there (`EndTurn`), which is what a graceful drain waits for and what
  the thread's own runs say of an interrupted one;
- the supervisor of a batch and its tasks, as far as they wait for a slot, a lock
  or a cancelled scope. An abort lands at the next await.

Nothing is assumed of hosts: no one has to submit, interrupt, shut down or answer
an approval, and a deadline need not pass. A run that is not cancelled need not
end, and no tool has to return.

*Exceptions the properties make.* `InterruptedTurnEnds` and `ShutdownReturns`
except a run that spins on input it may not read (`SpinsOnCancelledInput`);
`FinishedRunLeavesNoInput` speaks of runs that conclude in their loop, not in a
resumed segment; `AcceptedInputSurvives` is checked where there is no deadline;
`DrainEnds` excepts a server that unloads a thread. Section 5 says why.

## 4. What is proved

Every invariant a run checks is also a theorem, for every value of the constants,
and so is the refinement of `DurableLog`. What stays with TLC is liveness.

Each proof is an inductive invariant: it holds at the start, every step keeps it
(a lemma with one case per action), and it implies the property. TLC checked the less
obvious ones on the runs' instances before they were proved.

### The thread

`AgentThreadProofs` and `AgentTurnProofs`, for every set of requests, closers and
configurations, and any number of steps and pauses, with or without a deadline:

| Theorem | States | With the inductive invariant |
|---|---|---|
| `TypeCorrect` | `Spec => []TypeOK` | `TypeInv` |
| `InterruptOutcome` | `Spec => []InterruptDecidesOutcome` | `OutcomeInv` |
| `ResumeOwnPause` | `Spec => []ResumesItsOwnPause` | `PauseInv` |
| `ShutdownFinal`, `SessionEndsOnce` | `Spec => []ShutdownIsFinal`, `Spec => []SessionEndOnce` | `ShutdownInv` |
| `PauseKeepsSettings` | `Spec => []PauseKeepsStepSettings` | `SettingsInv`, `OfferInv` |
| `FinishedRunReadAll` | `Spec => []FinishedRunLeavesNoInput` | `ConclusionInv` |
| `TurnsReported` | `Spec => []TurnEventsWellFormed` | `EventInv` |
| `RunEndsLast` | `Spec => []RunEndIsLast` | `RecordInv` |
| `RolloutReplays` | `Spec => []RolloutReplaysHistory` | `HistoryInv` |
| `DeliveredOnce` | `Spec => []InputDeliveredOnce` | `DeliveryInv` |
| `AcceptedSurvives` | `Spec => []AcceptedInputSurvives`, if `WallClock = FALSE` | `AccountInv` |

They rest on `RequestsAssumption` (what a request carries is a configuration or
none, and "no request" is not one), `BoundsAssumption` and `KindsAssumption` (a
request is none of the other things a history or a rollout holds).

*The argument.* The thread's `TypeOK` is not inductive: an event goes to the sequence
of the active turn, which has to be a request. `TypeInv` adds `ActiveWhileRunning`: a
turn is active exactly while a task runs. The other invariants are proved relative to
it.

- `InterruptDecidesOutcome` speaks of events that were sent, and depends on a
  decision taken three steps before. `OutcomeInv` therefore says also that the
  decision is frozen once taken (`OutcomeFrozen`: from there on `ending` holds
  and `aborting` is `interrupted`), that the flag is what was acknowledged
  (`InterruptAcknowledged`), and that a turn active or not yet started has not
  reported an end (`ActiveHasNotEnded`, `UnstartedIsSilent`).
- `ResumesItsOwnPause`: `PauseInv` says that a waiting pause is the newest, and
  that an answer which was sent is for it.
- `ShutdownIsFinal` and `SessionEndOnce`: `ShutdownInv` says that the thread is
  closed and idle once any closer is past its loop (`ClosedWhenPast`), and that
  the closer which claimed the hook, or the hook's single dispatch, accounts for
  `sessionEnded` (`HookClaimedOnce`).
- `PauseKeepsStepSettings`: a run that has taken a step has the settings it captured
  (`SettingsInv`), and it is only in a pause when it has taken one (`ProgressInv`). An
  update between its two checks is among those published for the turn it names, so
  what it becomes is that turn's own or nothing (`OfferInv`).
- `FinishedRunLeavesNoInput`: the queue a run concluded on was closed empty in the
  step that looked, and a closed queue takes nothing (`ConclusionInv`).
- `RolloutReplaysHistory`: `HistoryInv` says it at every step, of the history the
  turn's task holds, and of the thread's when no turn is active. Appending to the
  rollout appends to what is selected from it (`OrderLemmas`, `SelectedAppend`).
- `InputDeliveredOnce`: a message is in one of four places, the history the task holds,
  what hooks have let through, what was taken, and what waits in the queue; the turn's
  first message joins them when the hooks have let it through. `DeliveryInv` puts the
  places in a row (`Line`) and says that no message is in the row twice. Every delivery
  moves messages within the row.
- `AcceptedInputSurvives`: `AccountInv` says of every accepted message that it is in
  the row while its turn runs and in the history afterwards, unless it was denied or
  the turn's interrupt was acknowledged. With a deadline the property is false, as
  section 5 says, hence the hypothesis.

### The agent tree

`AgentTreeProofs`, for any tree of agents and any number of messages, closes, closes
of closes and shutdowns, from `NodesAssumption` (paths are sequences of names, a path's
parent is a path, and `DepthFirst` lists the paths with parents first) and
`LimitsAssumption`:

| Theorem | States |
|---|---|
| `NoneStranded` | `Spec => []NoTriggerStranded` |
| `OpenAgentsStay` | `Spec => []OpenAgentStaysListed` |
| `ClosedSubtreesStayClosed` | `Spec => []OpenUnderOpen` |
| `StoppedAgentsAreQuiet` | `Spec => []StoppedAgentIsQuiet` |
| `ShutdownLeavesQuiet` | `Spec => []ShutdownQuiesces` |

*The argument.* For `NoTriggerStranded`, every step either leaves an agent
undisturbed (`Undisturbed`), brings mail together with the call that will start its
reader, or is the claim or the return of a run, which look at the mailbox in the same
step. What could go wrong is a final answer that a child leaves with itself, which
would be mail that asks for a run with nobody to start it. `StartInv` therefore says
that the map lists agents at their own paths (`ListedAtPath`), that the root does not
report (`OnlyNodesReport`) and that calls on their way have the targets they need
(`SendHasTarget`).

The other four need each other and are one invariant, `CloseInv`. Its parts:

- `AdmissionInv`: only admitted agents are listed, run or get mail, and a spawn's
  caller is at the parent's path;
- `TaskInv`: what a close works on is closed, and is idle when its rollout and
  resources are touched; a run's own close goes on only while the run waits for it;
- `HoldersCounted`: the count `closing` of an agent is the number of closes that hold
  its subtree, so that an agent which is being closed admits no child until the last
  of them is over, and a close that ends takes away what it added;
- `StoppedForGood`: an agent that was stopped is idle, and something keeps it so: it is
  closed, the tree is shut down, or its spawn was refused;
- `ShutInv`, `ResourcesInv`: what the shutdown is past is settled, and what a spawn
  prepared is held by a listed agent or released.

### The tool batch

`ToolBatchProofs`, for any number of calls, resources and slots, from
`CallsAssumption`, `ResourcesAssumption`, `SlotsAssumption` and `NoneAssumption` ("none"
is not a result, a failure or a recovery):

| Theorem | States |
|---|---|
| `LocksNeverDeadlock` | `Spec => []NoLockDeadlock` |
| `AnswersAllOrNone` | `Spec => []AllOrNothing` |
| `ReportsTheWorst` | `Spec => []WorstFailureReported` |
| `LeavesNothingBehind` | `Spec => []NothingDetached` |

*The argument.* `GateInv` says that only calls being admitted or running hold locks
(`HoldersRun`), that a call waits only for the lock it asks for, and once, and that a
call which holds a lock holds every earlier one it needs (`LockOrder`). Then of the
locks somebody waits for take the last: whoever holds it waits for no later one, and so
for none. If every holder waits, that lock has no holder, and its first waiter can have
it. `BatchInv` keeps the account: a result is there exactly when its task is over (`PhaseInv`), the failure kept outranks
every failure joined so far, and once a batch leaves its loop early there is one or the
turn was cancelled (`FailureInv`), and what was returned agrees (`ReturnInv`). An
error that carries a run counts with its own class throughout. `NothingDetached`, that
a batch which returned left no task and no lock behind, is proved only: no run checks
it.

### The rollout recorder

`RolloutRecorderProofs`, for any set of items, contents and usage, any number of
calls, failing writes, crashes and restarts, and any checkpoint interval, from
`ItemsAssumption` (items, calls and the words a line may otherwise carry are distinct,
and usage is a number), `IntervalAssumption` and `BoundsAssumption`:

| Theorem | States |
|---|---|
| `RecoversExactly` | `Spec => []RecoveryExact` |
| `WriterFollowsFile` | `Spec => []WriterKnowsItsFile` |
| `RecorderIsDurable` | `Spec => ImplementsDurableLog`, the refinement |

*The argument.* `RecorderInv` says what any failure or crash can leave:

- `FileInv`, `Sound`: lines are numbered as they stand, only the last may be
  unfinished, every checkpoint carries the totals of the lines before it, and the
  metadata is nowhere but at the top. A sound file passes every scan
  (`SoundAccepted`), and stays sound when it is repaired (`RepairsSound`), appended to
  or torn (`ExtendedSound`);
- `WriterInv`, `Follows`: the writer counts all lines, or all but the last, which it
  can only miss in the middle of a write or when its checkpoint failed half way, and
  then it is poisoned;
- `OutcomeInv`, `Uncertain`: a write of unknown outcome was of the front of the queue,
  and its line, if there, is the last; the task settles it before it writes again;
- `MetaInv`, `HostInv`: the metadata waits at the front until it is known to be in the
  file, and whatever waits or is stored was recorded.

Recovery from any checkpoint adds up to the same totals because two scans that agree
at a line go on agreeing (`TotalsAgree`), and the writer's record of a file is
determined by the file (`KnowsOne`).

For the refinement every action has a lemma that maps it to a step of `DurableLog` or
to none. A record is stored when its line first parses, whether or not the writer ever
learns of it: `FrontFact` says that the front of the queue is stored exactly when the
last line is its own and parses (`Present`), so that the append which makes it parse is
`Store`, and that opening the file, settling and acknowledging the write are not seen
(`LogRepairs`, `LogWrites`). A barrier that is answered has nothing before it because
the task's queue is empty by then (`DrainedAnswers`).

### The thread store

`ThreadDirectoryProofs`, for any number of processes, sessions, lock files and crashes,
from `NobodyAssumption` and `CrashesAssumption`:

| Theorem | States |
|---|---|
| `TypeCorrect` | `Spec => []TypeOK` |
| `LocksExclude` | `Spec => []OneWriter` |
| `InOnePlace` | `Spec => []OnePlace` |
| `RecorderUndisturbed` | `Spec => []RecorderKeepsItsFile` |

*The argument.* `OneWriter` alone says nothing of files. `LockInv` says that a
writer's lock is on the file its session's name stands for (`OwnedLockIsNamed`,
`WriterHasFile`), from which two writers of one session have locked the same file.
To keep it, whoever touches names has the coordination lock (`Coordinated`), what
was opened under it is still named when it is locked (`OpenedIsNamed`), and a name
that is removed has no writer (`RemovedIsUnowned`). The properties of the rollouts
follow relative to `OneWriter`: a recorder that has still to create its file has
its session to itself (`NewIsNowhere`), an operation that has not got so far has
made none (`NotYetMade`), and a moved file is not where it came from.

### The app server

`AppServerProofs`, for any number of requests, keys, connections, threads and signals,
from `KeysAssumption`, `ProfilesAssumption` and the bounds:

| Theorem | States |
|---|---|
| `RequestsAreSerialized` | `Spec => []Serialized` |
| `CleanedStaysQuiet` | `Spec => []CleanedIsQuiet` |
| `DrainStopsQuiet` | `Spec => []DrainedIsQuiet` |

*The argument.* `QueueInv` says that a queue holds exactly the queued requests of its
key (`QueueHolds`), that a key has at most one task, and only while it has a queue
(`OneTask`: two tasks, one left over from a queue that was removed and one of the queue
opened after it, are how exclusive requests could meet), that what is being served is
in its task's batch, and that a batch of several is of reads. `CleanupInv` adds that a
connection past the discard has nothing queued, which its closed gate keeps so.
`DrainInv` says what the loop may still rely on when it acts on a count it read a step
earlier: admission is closed by then, so a count of zero stays zero.

### Only model-checked

Liveness under fairness, which is out of the prover's reach: `InterruptedTurnEnds`,
`WaitingSubmissionAnswered`, `ShutdownReturns`, `FollowupIsRead`, `ShutdownFinishes`,
`CloseFinishes`, `CallAnswered`, `DrainEnds`, `RequestsSettle` and `TeardownReturns`.

## 5. Disagreements

Places where the code does something else than a comment of its own says. All of
it is in the models; the properties of section 3 state what the code does keep.

- *An interrupt can leave a run spinning.* `continue_for_late_pending_input`
  (`ra-runtime/src/runner.rs:5740`) loops until the queue closes empty, and takes
  nothing from it once the scope is cancelled. An interrupt that lands there, with
  input in the queue, leaves a loop without an `await`; an interrupted turn is said
  to report its end (`thread.rs:960`).
- *A resumed segment may conclude without a last look.* A run about to finish is
  said to refuse input it will not read (`pending_input.rs:57`). A segment resumed
  from an approval that concludes at once does not look for late input
  (`runner.rs:2421`): what is pushed during its stop hook is accepted and not read
  by the run, though the thread keeps it in the history.
- *A deadline may lose input.* Input the run never read is said to stay in the
  history of a turn that was not aborted (`thread.rs:1530`). A deadline that passes
  while prompt hooks judge input already taken from the queue (`runner.rs:5633`)
  loses it, and the turn completes.
- *A tree resumes from any checkpoint of the run.* A checkpoint of another pause is
  said to be refused (`agent/control.rs:497`); only the run's id is compared
  (`:498`), which all its pauses share. The thread's `resume_turn` compares the pause.
- *A dropped spawn keeps its resources.* The tree is said to release what the
  factory prepared (`agent/control.rs:321`); a spawn dropped while it awaits its
  rollout (`:922`) leaves its resources in nobody's hands. `ShutdownQuiesces`
  therefore speaks of the agents the tree knows.
- *Capacity is not reserved.* It is checked when a spawn or a send is accepted and
  counted when the run starts, so calls made together may overrun `max_threads`: the
  constructor's comment (`control.rs:214`) promises a ceiling, the limiter's
  (`control.rs:2090`) says it is not reserved.
- *A report may follow a close.* `run_finished` checks once that its agent is open
  (`control.rs:807`), so a close right after the check does not stop the report that
  `control.rs:532` rules out.
- *A drain may not end.* The docs of the server's shutdown (`ra-protocol/src/server.rs:420`)
  promise an end once running turns are over. Unloading removes a thread's listener
  before it shuts the thread down (`thread_listener.rs:513`). A turn that starts in
  between ends without anyone to hear of it: the draining loop saw it running and
  sleeps until a watch changes (`server.rs:512`), and none does.
- *A drain may disconnect before an end is sent.* The listener's comment
  (`thread_listener.rs:402`) says that a turn counts as active until its end has been
  sent. The count falls back on the threads themselves when the listeners know of no
  turn (`running_turn_count`, `server.rs:671`), and a turn whose start has not been
  heard yet may already be over: the server stops without its events.

Beside these, a crash that tears the first line of a new rollout leaves a file
without session metadata: `resume_thread` opens it, recovery cuts the torn line, and
nothing writes the metadata again. No comment says otherwise.

## 6. What is left out

*Thread.* Item, delta and settings-applied events, the lane of hook
context and the continuation message of a stop hook, agent mail read by a
thread's run, the race of the input guardrail, the session a run may be attached
to, errors while a sandbox settles, and the recording of settings snapshots.

*Tree.* Event sequence numbers, where a run came from, the reminders of the shared
budget, `record_approval`, the histories agents run on, `wait_for_mailbox`, a
status asked of an agent that was never there, and a tree dropped while tasks
hold weak references to it.

*Tool batch.* Handoffs, the answers to tools that are not found, what hooks and
guardrails decide and say, the details of a record, and the configuration error of
a concurrency of zero.

*Rollout.* The initial items of `create_with_history`, the filter of what is
persisted, and the contexts of `persist`. A usage total stands for all a checkpoint
carries. A failed call may be made again; a call after the recorder stopped fails
without a step. A crash is the death of the process: nothing the file system has
accepted is lost, so `fsync` does not matter. Whether a sidecar is refreshed is a
choice, since the code ignores its failure.

*Thread files.* The sidecar matters only as a step that may fail and move the rollout
back. A move back that fails, the index of session names, the patch of a live
recorder and operations on several sessions at once are left out, and a process does
one operation at a time.

*App server.* Initialization, subscriptions and routing, approvals and their answers,
loading a thread, and what other handlers do. The loop's reading of the counts is
skipped while no shutdown was requested, since it decides nothing then. Admitting a
request and queueing it is one step of the loop. The permit of the recheck inside
`turn/start` is seen only as a change of the watch; a permit is held while the
request's future exists. Whether a thread has subscribers is a choice when it is
unloaded. The process ends when `run` returns.

Parts without a model are listed in `PROJECT.json` with the reason. In short:
model clients and HTTP are wire formats; execution policy, patches and paths are
parsers over text; the coding host and the command line are configuration; the
sandbox needs a provider that is not part of the repository; command sessions
are operating-system processes. The rest is planned.

## 7. Plan

1. `ExecutorRpc`: requests, responses and a connection that drops and is taken up
   again, with an abstract specification of what a caller may see.
2. Thresholds of budgets, the streaks of the circuit breaker and what a session
   appends, as functions against reference definitions.
3. With a deadline, what does hold of accepted input: it is in the history, was denied,
   or was in the hands of the prompt hooks when the deadline passed.
