----------------------------- MODULE AgentThread -----------------------------
(***************************************************************************)
(* A thread of turns (ra-runtime/src/thread.rs) and the part of the agent  *)
(* loop (ra-runtime/src/runner.rs) that decides when a run reads steered   *)
(* input, pauses, and ends.                                                *)
(*                                                                         *)
(* Three kinds of process share ThreadState behind one mutex:              *)
(*   - host tasks that submit a request (start_or_steer_turn, steer_turn), *)
(*     interrupt, change settings, answer an approval, or shut down;       *)
(*   - the task run_turn spawned for the active turn, whose place in the   *)
(*     code is "pc";                                                       *)
(*   - the timer of the run's wall-clock budget.                           *)
(* An action is one critical section, or one stretch of the turn's task up *)
(* to the next point at which another process could come in between.       *)
(*                                                                         *)
(* A message is the request that carries it, and a turn is named by the    *)
(* request that started it (a fresh uuid in the code).  What the model     *)
(* says is one item, Reply, for each step; an interrupted run leaves one   *)
(* Marker.                                                                 *)
(***************************************************************************)
EXTENDS PendingInput, LiveRunSettings, Selection, Naturals, Functions

CONSTANTS
    Requests,        \* TurnInputRequests, each submitted once
    WithMessage,     \* the ones whose content is not empty
    SchemaOf,        \* the final-answer schema each one asks for
    NoSchema,
    SettingsOf,      \* the thread settings each one carries, or NoConfig
    Configs,         \* run configurations
    InitialConfig,
    Published,       \* configurations hosts publish to a running turn
    Closers,         \* host tasks that call shutdown
    NoRequest,
    WallClock,       \* whether the run has a wall-clock budget
    MaxSteps,        \* the run's max_turns budget
    MaxPauses        \* bound on approval pauses, over the thread's life

ASSUME RequestsAssumption ==
    /\ WithMessage \subseteq Requests
    /\ NoRequest \notin Requests
    /\ SettingsOf \in [Requests -> Configs \cup {NoConfig}]
    /\ InitialConfig \in Configs
    /\ NoConfig \notin Configs
    /\ Published \subseteq Configs

ASSUME BoundsAssumption ==
    /\ WallClock \in BOOLEAN
    /\ MaxSteps \in Nat
    /\ MaxPauses \in Nat

Reply == "reply"
Marker == "marker"
Items == Requests \cup {Reply, Marker}

\* What the rollout log holds: history items, and the records around them.
Records == Items \cup {"RunStarted", "Approval", "RunPaused", "RunEnded"}

\* The kind of an item or a record tells it from a message.
ASSUME KindsAssumption ==
    Requests \cap {Reply, Marker, "RunStarted", "Approval", "RunPaused", "RunEnded"} = {}

EventKinds == {"TurnStarted", "AwaitingApproval", "Error", "TurnAborted", "TurnComplete"}
Ends == {"Completed", "Cancelled", "Failed"}
Results == {"final", "budget", "interrupted", "cancelled", "failed"}

VARIABLES
    \* ThreadState, behind the thread's mutex
    history, config, shutDown, sessionStart, sessionEnded,
    active,          \* the active turn, NoRequest when there is none
    schema, interrupted, ending,
    paused,          \* the pause whose checkpoint waits, 0 when none does
    \* shared with the turn's task under locks of their own
    queue, live, cancelled, expired,
    oneshot,         \* the channel an answered checkpoint comes back on
    \* locals of the turn's task
    pc, hist, taken, kept, ret,
    first,           \* the segment's first model call takes no steered input
    steps, stopped,  \* progress: the turns spent and stop_processing
    resumed,         \* the pause this segment answers, 0 in a fresh segment
    result, end, stepConfig,
    aborting,        \* run_turn's frozen copy of "interrupted"
    \* ThreadRecorder's withheld RunEnded, and the rollout store
    deferred, rollout,
    \* the event channel, one sequence per turn
    events,
    \* host tasks: what became of each request and of each shutdown call, and
    \* a turn-settings update between its two critical sections
    status, turnOf, closer, updating,
    owed,            \* ended turns whose notify_waiters call is still to come
    \* history variables; offered[t] is the settings turn t started with and
    \* those published for its steps
    pauses, approved, denied, acked, sessionEnds, offered

sessionVars == <<shutDown, sessionStart, sessionEnded>>
turnVars == <<active, schema, interrupted, ending>>
stateVars == <<history, config, sessionVars, turnVars, paused>>
scopeVars == <<cancelled, expired>>
sharedVars == <<queue, live, scopeVars, oneshot>>
deliveryVars == <<taken, kept, ret>>
progressVars == <<first, steps, stopped, resumed>>
outcomeVars == <<result, end, stepConfig, aborting>>
taskVars == <<pc, hist, deliveryVars, progressVars, outcomeVars>>
recordVars == <<deferred, rollout>>
callVars == <<status, turnOf>>
hostVars == <<callVars, closer, updating, owed>>
ghostVars == <<pauses, approved, denied, acked, sessionEnds, offered>>
vars == <<stateVars, sharedVars, taskVars, recordVars, events, hostVars, ghostVars>>

SegmentPCs == {"top", "deliver", "promptHook", "model", "conclude", "stopHook", "late",
               "lateClose", "settle", "finish", "resume"}
PausePCs == {"pausing", "announce", "awaiting", "woke"}
ClosingPCs == {"leftover", "record", "end"}
PCs == {"idle", "prepare", "close", "drain", "freeze"}
         \cup SegmentPCs \cup PausePCs \cup ClosingPCs

MaybeTurn == Requests \cup {NoRequest}

FlagTypeOK ==
    /\ shutDown \in BOOLEAN
    /\ sessionStart \in BOOLEAN
    /\ sessionEnded \in BOOLEAN
    /\ interrupted \in BOOLEAN
    /\ ending \in BOOLEAN
    /\ cancelled \in BOOLEAN
    /\ expired \in BOOLEAN
    /\ first \in BOOLEAN
    /\ stopped \in BOOLEAN
    /\ aborting \in BOOLEAN
    /\ deferred \in BOOLEAN

StateTypeOK ==
    /\ history \in Seq(Items)
    /\ config \in Configs
    /\ active \in MaybeTurn
    /\ paused \in Nat

SharedTypeOK ==
    /\ queue \in PendingInputType(Requests)
    /\ live \in LiveSettingsType(Configs)
    /\ oneshot \in {"open", "sent", "dropped"}

TaskTypeOK ==
    /\ pc \in PCs
    /\ hist \in Seq(Items)
    /\ taken \in Seq(Requests)
    /\ kept \in Seq(Requests)
    /\ ret \in {"deliver", "conclude", "late", "settle"}
    /\ steps \in Nat
    /\ resumed \in Nat
    /\ result \in Results
    /\ end \in Ends
    /\ stepConfig \in Configs

LogTypeOK ==
    /\ rollout \in Seq(Records)
    /\ events \in [Requests -> Seq(EventKinds)]

HostTypeOK ==
    /\ status \in [Requests -> {"new", "waiting", "woken", "started", "steered", "refused"}]
    /\ turnOf \in [Requests -> MaybeTurn]
    /\ closer \in [Closers -> {"new", "waiting", "woken", "down", "hook", "flush", "done"}]
    /\ updating \in [turn : MaybeTurn, value : Configs \cup {NoConfig}]
    /\ owed \in Nat
    /\ pauses \in Nat
    /\ sessionEnds \in Nat
    /\ approved \in SUBSET Nat
    /\ denied \in SUBSET Requests
    /\ acked \in SUBSET Requests
    /\ offered \in [Requests -> SUBSET Configs]

DataTypeOK == StateTypeOK /\ SharedTypeOK /\ TaskTypeOK /\ LogTypeOK /\ HostTypeOK

TypeOK == FlagTypeOK /\ DataTypeOK

NoUpdate == [turn |-> NoRequest, value |-> NoConfig]

Init ==
    /\ history = <<>>
    /\ config = InitialConfig
    /\ shutDown = FALSE
    /\ sessionStart = TRUE
    /\ sessionEnded = FALSE
    /\ active = NoRequest
    /\ schema = NoSchema
    /\ interrupted = FALSE
    /\ ending = FALSE
    /\ paused = 0
    /\ queue = Close(NewPendingInput)
    /\ live = ClosedSettings
    /\ cancelled = FALSE
    /\ expired = FALSE
    /\ oneshot = "dropped"
    /\ pc = "idle"
    /\ hist = <<>>
    /\ taken = <<>>
    /\ kept = <<>>
    /\ ret = "deliver"
    /\ first = FALSE
    /\ steps = 0
    /\ stopped = FALSE
    /\ resumed = 0
    /\ result = "final"
    /\ end = "Completed"
    /\ stepConfig = InitialConfig
    /\ aborting = FALSE
    /\ deferred = FALSE
    /\ rollout = <<>>
    /\ events = [t \in Requests |-> <<>>]
    /\ status = [r \in Requests |-> "new"]
    /\ turnOf = [r \in Requests |-> NoRequest]
    /\ closer = [c \in Closers |-> "new"]
    /\ updating = NoUpdate
    /\ owed = 0
    /\ pauses = 0
    /\ approved = {}
    /\ denied = {}
    /\ acked = {}
    /\ sessionEnds = 0
    /\ offered = [t \in Requests |-> {}]

-----------------------------------------------------------------------------
(* Submitting input: start_or_steer_turn and steer_turn.                   *)

Emit(t, kinds) == events' = [events EXCEPT ![t] = @ \o kinds]

Offer(t, value) == offered' = [offered EXCEPT ![t] = @ \cup {value}]

Answer(r, s) == status' = [status EXCEPT ![r] = s]

ApplySettings_Unchecked(r) == config' = SettingsOf[r]
ApplySettings(r) == config' = IF SettingsOf[r] = NoConfig THEN config ELSE SettingsOf[r]

\* fits_output_schema_of: a request without a schema fits every turn.
FitsOutputSchema(r) == SchemaOf[r] \in {NoSchema, schema}

\* start_turn, under the lock of the submission that found the thread idle.
StartTurn(r) ==
    /\ ApplySettings(r)
    /\ active' = r
    /\ schema' = SchemaOf[r]
    /\ queue' = NewPendingInput
    /\ live' = NewLiveSettings(config')
    /\ Offer(r, config')
    /\ cancelled' = FALSE
    /\ expired' = FALSE
    /\ interrupted' = FALSE
    /\ ending' = FALSE
    /\ paused' = 0
    /\ Emit(r, <<"TurnStarted">>)
    /\ pc' = "prepare"
    /\ hist' = history
    /\ stepConfig' = config'
    /\ steps' = 0
    /\ stopped' = FALSE
    /\ resumed' = 0
    /\ deferred' = FALSE
    /\ Answer(r, "started")
    /\ turnOf' = [turnOf EXCEPT ![r] = r]
    /\ UNCHANGED <<history, sessionVars, oneshot, deliveryVars, first, result, end, aborting,
                   rollout, closer, updating, owed, pauses, approved, denied, acked,
                   sessionEnds>>

\* A push the active turn's queue accepts.
SteerInto(r) ==
    /\ queue' = Push(queue, r)
    /\ ApplySettings(r)
    /\ Answer(r, "steered")
    /\ turnOf' = [turnOf EXCEPT ![r] = active]
    /\ UNCHANGED <<history, sessionVars, turnVars, paused, live, scopeVars, oneshot, taskVars,
                   recordVars, events, closer, updating, owed, ghostVars>>

\* The call returns, or waits, and the thread is as it was.
OnlyAnswer(r, s) ==
    /\ Answer(r, s)
    /\ UNCHANGED <<stateVars, sharedVars, taskVars, recordVars, events, turnOf, closer,
                   updating, owed, ghostVars>>

Steerable(r) == r \in WithMessage /\ FitsOutputSchema(r)

TakesInput_Always == TRUE
TakesInput == ~ shutDown

\* One pass of start_or_steer_turn's loop: the first, or one after a wake-up.
\* A closed queue registers the caller for the turn's end under the lock.
StartOrSteerTurn(r) ==
    /\ status[r] \in {"new", "woken"}
    /\ \/ ~ TakesInput /\ OnlyAnswer(r, "refused")
       \/ TakesInput /\ active = NoRequest /\ StartTurn(r)
       \/ TakesInput /\ active # NoRequest /\ ~ Steerable(r) /\ OnlyAnswer(r, "refused")
       \/ /\ TakesInput /\ active # NoRequest /\ Steerable(r)
          /\ IF PushAccepts(queue) THEN SteerInto(r) ELSE OnlyAnswer(r, "waiting")

\* steer_turn names the turn it is for, and never waits.
SteerTurn(r, expected) ==
    /\ status[r] = "new"
    /\ IF /\ TakesInput
          /\ active # NoRequest
          /\ active = expected
          /\ Steerable(r)
          /\ PushAccepts(queue)
       THEN SteerInto(r)
       ELSE OnlyAnswer(r, "refused")

\* turn_ended.notify_waiters(), after run_turn has let the lock go: every task
\* registered by then is woken, whatever the thread has done meanwhile.
NotifyWaiters ==
    /\ owed > 0
    /\ owed' = owed - 1
    /\ status' = [r \in Requests |-> IF status[r] = "waiting" THEN "woken" ELSE status[r]]
    /\ closer' = [c \in Closers |-> IF closer[c] = "waiting" THEN "woken" ELSE closer[c]]
    /\ UNCHANGED <<stateVars, sharedVars, taskVars, recordVars, events, turnOf, updating,
                   ghostVars>>

-----------------------------------------------------------------------------
(* Interrupting, settings, approvals and shutting down.                    *)

CancelTurn ==
    /\ interrupted' = TRUE
    /\ cancelled' = TRUE
    /\ acked' = acked \cup {active}

Interruptible_UntilIdle == active # NoRequest
Interruptible == active # NoRequest /\ ~ ending

\* interrupt, when it returns true.
Interrupt ==
    /\ Interruptible
    /\ CancelTurn
    /\ UNCHANGED <<history, config, sessionVars, active, schema, ending, paused, queue, live,
                   expired, oneshot, taskVars, recordVars, events, hostVars, pauses, approved,
                   denied, sessionEnds, offered>>

\* update_settings: later turns start with them; the running one keeps its own.
UpdateSettings(value) ==
    /\ config' = value
    /\ UNCHANGED <<history, sessionVars, turnVars, paused, sharedVars, taskVars, recordVars,
                   events, hostVars, ghostVars>>

LiveTarget(t) == active = t /\ ~ cancelled /\ ~ queue.closed

\* update_turn_settings checks its target, lets the lock go to resolve the
\* model, which may fail, and checks again.
BeginTurnSettings(t, value) ==
    /\ updating = NoUpdate
    /\ LiveTarget(t)
    /\ updating' = [turn |-> t, value |-> value]
    /\ Offer(t, value)
    /\ UNCHANGED <<stateVars, sharedVars, taskVars, recordVars, events, callVars, closer, owed,
                   pauses, approved, denied, acked, sessionEnds>>

StillLive_AnyTurn(t) == active # NoRequest /\ ~ cancelled /\ ~ queue.closed /\ ~ ending
StillLive(t) == LiveTarget(t) /\ ~ ending

FinishTurnSettings ==
    /\ updating # NoUpdate
    /\ updating' = NoUpdate
    /\ \/ /\ StillLive(updating.turn) /\ UpdateApplies(live)
          /\ live' = Update(live, updating.value)
       \/ UNCHANGED live
    /\ UNCHANGED <<stateVars, queue, scopeVars, oneshot, taskVars, recordVars, events,
                   callVars, closer, owed, ghostVars>>

\* same_approval_pause: the host holds the checkpoint of any earlier pause.
SameApprovalPause_SameRun(p) == paused # 0
SameApprovalPause(p) == paused # 0 /\ paused = p

\* record_approval, when it succeeds.
RecordApproval(p) ==
    /\ active # NoRequest
    /\ ~ cancelled
    /\ ~ ending
    /\ SameApprovalPause(p)
    /\ p \notin approved                          \* one answer recorded per pause
    /\ rollout' = Append(rollout, "Approval")
    /\ approved' = approved \cup {p}
    /\ UNCHANGED <<stateVars, sharedVars, taskVars, deferred, events, hostVars, pauses, denied,
                   acked, sessionEnds, offered>>

\* resume_turn, from the checkpoint of pause p.  The channel is gone if the
\* turn's task has already stopped waiting; the pause is taken all the same.
ResumeTurn(p) ==
    /\ active # NoRequest
    /\ SameApprovalPause(p)
    /\ paused' = 0
    /\ IF oneshot = "open"
       THEN oneshot' = "sent" /\ resumed' = p
       ELSE UNCHANGED <<oneshot, resumed>>
    /\ UNCHANGED <<history, config, sessionVars, turnVars, queue, live, scopeVars, pc, hist,
                   deliveryVars, first, steps, stopped, outcomeVars, recordVars, events,
                   hostVars, ghostVars>>

SetCloser(c, s) == closer' = [closer EXCEPT ![c] = s]

\* One pass of shutdown's loop, under the lock.
Shutdown(c) ==
    /\ closer[c] \in {"new", "woken"}
    /\ shutDown' = TRUE
    /\ SetCloser(c, IF active = NoRequest THEN "down" ELSE "waiting")
    /\ IF Interruptible /\ ~ interrupted
       THEN CancelTurn
       ELSE UNCHANGED <<interrupted, cancelled, acked>>
    /\ UNCHANGED <<history, config, sessionStart, sessionEnded, active, schema, ending, paused,
                   queue, live, expired, oneshot, taskVars, recordVars, events, callVars,
                   updating, owed, pauses, approved, denied, sessionEnds, offered>>

\* The first task to get here claims the SessionEnd hook.
ClaimsHook_Always == TRUE
ClaimsHook == ~ sessionEnded

ClaimSessionEnd(c) ==
    /\ closer[c] = "down"
    /\ sessionEnded' = TRUE
    /\ SetCloser(c, IF ClaimsHook THEN "hook" ELSE "flush")
    /\ UNCHANGED <<history, config, shutDown, sessionStart, turnVars, paused, sharedVars,
                   taskVars, recordVars, events, callVars, updating, owed, ghostVars>>

DispatchSessionEnd(c) ==
    /\ closer[c] = "hook"
    /\ SetCloser(c, "flush")
    /\ sessionEnds' = sessionEnds + 1
    /\ UNCHANGED <<stateVars, sharedVars, taskVars, recordVars, events, callVars, updating,
                   owed, pauses, approved, denied, acked, offered>>

\* The agent tree is shut down and the rollout flushed; then shutdown returns.
FinishShutdown(c) ==
    /\ closer[c] = "flush"
    /\ SetCloser(c, "done")
    /\ UNCHANGED <<stateVars, sharedVars, taskVars, recordVars, events, callVars, updating,
                   owed, ghostVars>>

-----------------------------------------------------------------------------
(* The turn's task, run_turn: preparing the host's input.                  *)

\* The messages the request that started the turn brings.
Submitted == IF active \in WithMessage THEN <<active>> ELSE <<>>

\* The run's own scope is cancelled with the thread's, or by its deadline.
ScopeCancelled == cancelled \/ expired

\* A run stopped by its scope reports a spent budget if the deadline came
\* first (is_wall_clock_expiry), and a cancellation otherwise.
StoppedByScope == IF expired THEN "budget" ELSE "cancelled"

Log(records) == rollout' = rollout \o records

\* The hooks let the turn's input through: the first segment starts on it.
AcceptHostInput ==
    /\ pc = "prepare"
    /\ sessionStart' = FALSE
    /\ hist' = hist \o Submitted
    /\ Log(<<"RunStarted">> \o Submitted)
    /\ first' = (hist' # <<>>)
    /\ pc' = "top"
    /\ UNCHANGED <<history, config, shutDown, sessionEnded, turnVars, paused, sharedVars,
                   deliveryVars, steps, stopped, resumed, outcomeVars, deferred, events,
                   hostVars, ghostVars>>

\* A hook denies it, or the turn is cancelled while the hooks run: there is no
\* run, and the record of one is written for the rollout's reader.
StopHostInput ==
    /\ pc = "prepare"
    /\ sessionStart \/ active \in WithMessage
    /\ sessionStart' = FALSE
    /\ Log(<<"RunStarted">>)
    /\ deferred' = TRUE
    /\ denied' = denied \cup {active}
    /\ end' = IF cancelled THEN "Cancelled" ELSE "Completed"
    /\ pc' = "close"
    /\ UNCHANGED <<history, config, shutDown, sessionEnded, turnVars, paused, sharedVars, hist,
                   deliveryVars, progressVars, result, stepConfig, aborting, events, hostVars,
                   pauses, approved, acked, sessionEnds, offered>>

-----------------------------------------------------------------------------
(* The agent loop: run_turns, run_one_turn and the deliveries between them. *)

Goto(place) == pc' = place
EndSegment(res) == result' = res /\ Goto("settle")

\* What a step leaves alone whatever it does to the places named.
TaskUnchanged ==
    UNCHANGED <<stateVars, scopeVars, oneshot, end, stepConfig, aborting, deferred, events,
                hostVars, pauses, approved, acked, sessionEnds, offered>>

\* The top of run_turns' loop: cancellation outranks the budget, and the
\* budget a new step.  run_one_turn captures the step's settings first.
BeginStep ==
    /\ pc = "top"
    /\ resumed' = 0
    /\ \/ ScopeCancelled /\ EndSegment(StoppedByScope) /\ UNCHANGED <<live, steps>>
       \/ /\ ~ ScopeCancelled /\ steps >= MaxSteps
          /\ EndSegment("budget")
          /\ UNCHANGED <<live, steps>>
       \/ /\ ~ ScopeCancelled /\ steps < MaxSteps
          /\ steps' = steps + 1
          /\ live' = CaptureStep(live)
          /\ Goto("deliver")
          /\ UNCHANGED result
    /\ UNCHANGED <<queue, hist, deliveryVars, first, stopped, rollout, denied>>
    /\ TaskUnchanged

\* deliver_pending_input takes nothing on a segment's first step (unless the
\* request brought no input), nor once the scope is cancelled.
NoInput == [deliver |-> "model", conclude |-> "stopHook", late |-> "lateClose",
            settle |-> "finish"]

DeliverNothing(at, q) ==
    /\ queue' = q
    /\ Goto(NoInput[at])
    /\ UNCHANGED <<live, hist, deliveryVars, steps, stopped, resumed, result, rollout, denied>>
    /\ TaskUnchanged

TakePendingInput(at, q) ==
    /\ queue' = Take(q)
    /\ taken' = queue.messages
    /\ kept' = <<>>
    /\ ret' = at
    /\ Goto("promptHook")
    /\ UNCHANGED <<live, hist, steps, stopped, resumed, result, rollout, denied>>
    /\ TaskUnchanged

DeliverPendingInput(at, q, skip) ==
    IF skip \/ ScopeCancelled \/ queue.messages = <<>>
    THEN DeliverNothing(at, q)
    ELSE TakePendingInput(at, q)

DeliverAtStep ==
    /\ pc = "deliver"
    /\ first' = FALSE
    /\ DeliverPendingInput("deliver", queue, first)

\* continue_for_pending_input, as the run is about to conclude ...
DeliverAtConclusion ==
    /\ pc = "conclude"
    /\ UNCHANGED first
    /\ DeliverPendingInput("conclude", queue, FALSE)

\* ... and again in continue_for_late_pending_input's loop.
DeliverLate ==
    /\ pc = "late"
    /\ UNCHANGED first
    /\ DeliverPendingInput("late", queue, FALSE)

\* After a stop that ends processing, the queue is sealed and what it had
\* accepted is settled.  Any other segment goes on to its end.
Settle ==
    /\ pc = "settle"
    /\ UNCHANGED first
    /\ IF stopped
       THEN DeliverPendingInput("settle", Seal(queue), FALSE)
       ELSE /\ Goto("finish")
            /\ UNCHANGED <<queue, live, hist, deliveryVars, steps, stopped, resumed, result,
                           rollout, denied>>
            /\ TaskUnchanged

\* UserPromptSubmit, one message at a time.
JudgePrompt ==
    /\ pc = "promptHook"
    /\ taken # <<>>
    /\ taken' = Tail(taken)
    /\ \/ kept' = Append(kept, Head(taken)) /\ UNCHANGED denied
       \/ denied' = denied \cup {Head(taken)} /\ UNCHANGED kept
    /\ UNCHANGED <<queue, live, pc, hist, ret, progressVars, result, rollout>>
    /\ TaskUnchanged

\* A dispatch that finds the scope cancelled fails, and with it go the
\* messages already taken from the queue.
PromptHookCancelled ==
    /\ pc = "promptHook"
    /\ taken # <<>>
    /\ ScopeCancelled
    /\ taken' = <<>>
    /\ kept' = <<>>
    /\ result' = StoppedByScope
    /\ Goto(IF ret = "settle" THEN "finish" ELSE "settle")
    /\ UNCHANGED <<queue, live, hist, ret, progressVars, rollout, denied>>
    /\ TaskUnchanged

\* Accepted input joins the history and the rollout, and overrules a
\* conclusion; a delivery of which nothing was accepted stops processing.
InputKept == [deliver |-> "model", conclude |-> "top", late |-> "top", settle |-> "finish"]
InputDenied == [deliver |-> "settle", conclude |-> "settle", late |-> "lateClose",
                settle |-> "finish"]

CommitDelivery ==
    /\ pc = "promptHook"
    /\ taken = <<>>
    /\ hist' = hist \o kept
    /\ Log(kept)
    /\ kept' = <<>>
    /\ stopped' = (stopped \/ kept = <<>>)
    /\ result' = IF ret = "deliver" /\ kept = <<>> THEN "final" ELSE result
    /\ Goto(IF kept = <<>> THEN InputDenied[ret] ELSE InputKept[ret])
    /\ UNCHANGED <<queue, live, taken, ret, first, steps, resumed, denied>>
    /\ TaskUnchanged

\* The model call and the turn's settlement: the run goes on, concludes, stops
\* for approval, or has spent the budget it shares with its agent tree.
CallModel ==
    /\ pc = "model"
    /\ hist' = Append(hist, Reply)
    /\ Log(<<Reply>>)
    /\ \/ Goto("top") /\ UNCHANGED result
       \/ Goto(IF stopped THEN "settle" ELSE "conclude") /\ result' = "final"
       \/ EndSegment("budget")
       \/ pauses < MaxPauses /\ EndSegment("interrupted")
    /\ UNCHANGED <<queue, live, deliveryVars, progressVars, denied>>
    /\ TaskUnchanged

\* Preparing the step, the call or its settlement fails, or is cancelled.
StepFails ==
    /\ pc \in {"deliver", "model", "resume"}
    /\ \/ EndSegment("failed")
       \/ ScopeCancelled /\ EndSegment(StoppedByScope)
    /\ UNCHANGED <<queue, live, hist, deliveryVars, progressVars, rollout, denied>>
    /\ TaskUnchanged

\* continue_from_stop_hook.  A resumed segment that concludes without another
\* step ends here; a conclusion of run_turns looks for late input first.
StopHook ==
    /\ pc = "stopHook"
    /\ \/ Goto(IF resumed # 0 THEN "settle" ELSE "late") /\ UNCHANGED <<stopped, result>>
       \/ stopped' = TRUE /\ Goto("settle") /\ UNCHANGED result
       \/ Goto("top") /\ UNCHANGED <<stopped, result>>
       \/ ScopeCancelled /\ EndSegment(StoppedByScope) /\ UNCHANGED stopped
    /\ UNCHANGED <<queue, live, hist, deliveryVars, first, steps, resumed, rollout, denied>>
    /\ TaskUnchanged

\* The run may end only on a queue it closed with nothing in it.
CloseLate ==
    /\ pc = "lateClose"
    /\ queue' = CloseIfEmpty(queue)
    /\ Goto(IF queue'.closed THEN "settle" ELSE "late")
    /\ UNCHANGED <<live, hist, deliveryVars, progressVars, result, rollout, denied>>
    /\ TaskUnchanged

\* resolve_interrupted_turn: the answered calls of the pause are settled.
ResumeSegment ==
    /\ pc = "resume"
    /\ \/ Goto("top") /\ UNCHANGED result
       \/ Goto("conclude") /\ result' = "final"
       \/ EndSegment("budget")
       \/ pauses < MaxPauses /\ EndSegment("interrupted")
    /\ UNCHANGED <<queue, live, hist, deliveryVars, progressVars, rollout, denied>>
    /\ TaskUnchanged

\* The timer arm_deadline starts; a scope keeps its first cancel reason.
WallClockExpires ==
    /\ WallClock
    /\ pc \in SegmentPCs
    /\ ~ ScopeCancelled
    /\ expired' = TRUE
    /\ UNCHANGED <<stateVars, queue, live, cancelled, oneshot, taskVars, recordVars, events,
                   hostVars, ghostVars>>

-----------------------------------------------------------------------------
(* The end of a segment, the pause for approval, and the end of the turn.  *)

\* Output checks or the budget closeout may still fail a completed run.
SegmentResults ==
    {result} \cup (IF result \in {"final", "budget"} THEN {"failed"} ELSE {})
             \cup (IF result = "final" /\ ScopeCancelled THEN {"cancelled"} ELSE {})

\* The marker of an interrupted run follows whatever the run produced.
LeaveMarker_NotRecorded(marked, records) ==
    hist' = hist \o (IF marked THEN <<Marker>> ELSE <<>>) /\ Log(records)

LeaveMarker(marked, records) ==
    LET marker == IF marked THEN <<Marker>> ELSE <<>>
    IN  hist' = hist \o marker /\ Log(marker \o records)

\* A run stopped for approval records its end at once; the end of any other is
\* withheld by ThreadRecorder until the turn has saved what it did not read.
EndRecord_AtOnce(res) == IF res = "interrupted" THEN <<"RunPaused">> ELSE <<"RunEnded">>
EndRecord(res) == IF res = "interrupted" THEN <<"RunPaused">> ELSE <<>>

FinishSegment(res) ==
    /\ pc = "finish"
    /\ res \in SegmentResults
    /\ result' = res
    /\ LeaveMarker(res = "cancelled" /\ cancelled, EndRecord(res))
    /\ deferred' = (res # "interrupted")
    /\ end' = IF res \in {"cancelled", "failed"}
              THEN IF cancelled THEN "Cancelled" ELSE "Failed"
              ELSE "Completed"
    /\ Goto(IF res = "interrupted" THEN "pausing" ELSE "close")
    /\ UNCHANGED <<stateVars, sharedVars, deliveryVars, progressVars, stepConfig, aborting,
                   events, hostVars, ghostVars>>

\* Outstanding calls keep the settings of the step that issued them.
IssuingSettings_Latest == live.next
IssuingSettings == live.captured

PauseForApproval ==
    /\ pc = "pausing"
    /\ pauses' = pauses + 1
    /\ paused' = pauses'
    /\ oneshot' = "open"
    /\ stepConfig' = IF IssuingSettings = NoConfig THEN stepConfig ELSE IssuingSettings
    /\ Goto("announce")
    /\ UNCHANGED <<history, config, sessionVars, turnVars, queue, live, scopeVars, hist,
                   deliveryVars, progressVars, result, end, aborting, recordVars, events,
                   hostVars, approved, denied, acked, sessionEnds, offered>>

\* TurnAwaitingApproval is sent after the lock is let go.
AnnouncePause ==
    /\ pc = "announce"
    /\ Emit(active, <<"AwaitingApproval">>)
    /\ Goto("awaiting")
    /\ UNCHANGED <<stateVars, sharedVars, hist, deliveryVars, progressVars, outcomeVars,
                   recordVars, hostVars, ghostVars>>

\* The select over the answer and the cancellation takes either when both are
\* there.  Not taking the answer drops the channel.
CancelEndsPause_Never == FALSE
CancelEndsPause == cancelled

WaitForAnswer ==
    /\ pc = "awaiting"
    /\ \/ oneshot = "sent" /\ UNCHANGED oneshot
       \/ CancelEndsPause /\ oneshot' = "dropped"
    /\ Goto("woke")
    /\ UNCHANGED <<stateVars, queue, live, scopeVars, hist, deliveryVars, progressVars,
                   outcomeVars, recordVars, events, hostVars, ghostVars>>

\* The pause is cleared; an answered run continues in a new segment, which
\* takes steered input at its first step, and an unanswered one is cancelled.
LeavePause ==
    /\ pc = "woke"
    /\ paused' = 0
    /\ oneshot' = "dropped"
    /\ IF oneshot = "sent"
       THEN /\ Goto("resume")
            /\ stopped' = FALSE
            /\ first' = FALSE
            /\ expired' = FALSE
            /\ Log(<<"RunStarted">>)
            /\ UNCHANGED <<hist, end, deferred>>
       ELSE /\ Goto("close")
            /\ LeaveMarker(TRUE, <<>>)
            /\ end' = "Cancelled"
            /\ deferred' = TRUE
            /\ UNCHANGED <<expired, first, stopped>>
    /\ UNCHANGED <<history, config, sessionVars, turnVars, queue, live, cancelled,
                   deliveryVars, steps, resumed, result, stepConfig, aborting, events,
                   hostVars, ghostVars>>

\* settings.close(), then pending.close(): what the run never read.
CloseSettings ==
    /\ pc = "close"
    /\ live' = ClosedSettings
    /\ Goto("drain")
    /\ UNCHANGED <<stateVars, queue, scopeVars, oneshot, hist, deliveryVars, progressVars,
                   outcomeVars, recordVars, events, hostVars, ghostVars>>

ClosePending ==
    /\ pc = "drain"
    /\ taken' = queue.messages
    /\ queue' = Close(queue)
    /\ Goto("freeze")
    /\ UNCHANGED <<stateVars, live, scopeVars, oneshot, hist, kept, ret, progressVars,
                   outcomeVars, recordVars, events, hostVars, ghostVars>>

\* The terminal decision is taken under the lock, and no interrupt after it
\* is acknowledged.
FreezeOutcome ==
    /\ pc = "freeze"
    /\ aborting' = interrupted
    /\ ending' = TRUE
    /\ Goto("leftover")
    /\ UNCHANGED <<history, config, sessionVars, active, schema, interrupted, paused,
                   sharedVars, hist, deliveryVars, progressVars, result, end, stepConfig,
                   recordVars, events, hostVars, ghostVars>>

\* Input the run never read is dropped with an aborted turn, and otherwise kept.
Leftover_Dropped == <<>>
Leftover == IF aborting THEN <<>> ELSE taken

KeepLeftover ==
    /\ pc = "leftover"
    /\ hist' = hist \o Leftover
    /\ Log(Leftover)
    /\ taken' = <<>>
    /\ Goto("record")
    /\ UNCHANGED <<stateVars, sharedVars, kept, ret, progressVars, outcomeVars, deferred,
                   events, hostVars, ghostVars>>

\* ThreadRecorder::finish writes the withheld end and flushes the store.
FinishRecording ==
    /\ pc = "record"
    /\ Log(IF deferred THEN <<"RunEnded">> ELSE <<>>)
    /\ deferred' = FALSE
    /\ Goto("end")
    /\ UNCHANGED <<stateVars, sharedVars, hist, deliveryVars, progressVars, outcomeVars,
                   events, hostVars, ghostVars>>

TerminalEvents_Always ==
    (IF aborting THEN <<"TurnAborted">> ELSE <<>>) \o <<"TurnComplete">>

TerminalEvents ==
    IF aborting THEN <<"TurnAborted">>
    ELSE (IF end = "Failed" THEN <<"Error">> ELSE <<>>) \o <<"TurnComplete">>

OweWakeUp_Forgotten == owed' = owed
OweWakeUp == owed' = owed + 1

\* The thread is idle again and its end reported under one lock; the waiters
\* are notified after it.
EndTurn ==
    /\ pc = "end"
    /\ history' = hist
    /\ active' = NoRequest
    /\ interrupted' = FALSE
    /\ ending' = FALSE
    /\ Emit(active, TerminalEvents)
    /\ OweWakeUp
    /\ Goto("idle")
    /\ UNCHANGED <<config, sessionVars, schema, paused, sharedVars, hist, deliveryVars,
                   progressVars, outcomeVars, recordVars, callVars, closer, updating, ghostVars>>

-----------------------------------------------------------------------------

Segment ==
    \/ BeginStep \/ DeliverAtStep \/ DeliverAtConclusion \/ DeliverLate \/ Settle
    \/ JudgePrompt \/ PromptHookCancelled \/ CommitDelivery
    \/ CallModel \/ StepFails \/ StopHook \/ CloseLate \/ ResumeSegment
    \/ \E res \in Results : FinishSegment(res)

TurnTask ==
    \/ AcceptHostInput \/ StopHostInput
    \/ Segment
    \/ PauseForApproval \/ AnnouncePause \/ WaitForAnswer \/ LeavePause
    \/ CloseSettings \/ ClosePending \/ FreezeOutcome \/ KeepLeftover \/ FinishRecording
    \/ EndTurn

ShutdownTask(c) ==
    \/ Shutdown(c) \/ ClaimSessionEnd(c) \/ DispatchSessionEnd(c) \/ FinishShutdown(c)

Host ==
    \/ \E r \in Requests : StartOrSteerTurn(r)
    \/ \E r, t \in Requests : SteerTurn(r, t)
    \/ Interrupt
    \/ \E value \in Published : UpdateSettings(value)
    \/ \E t \in Requests, value \in Published : BeginTurnSettings(t, value)
    \/ FinishTurnSettings
    \/ \E p \in 1 .. pauses : RecordApproval(p) \/ ResumeTurn(p)

Next ==
    \/ TurnTask
    \/ Host
    \/ \E c \in Closers : ShutdownTask(c)
    \/ NotifyWaiters
    \/ WallClockExpires

\* The runtime polls a task that can go on: the turn's, a woken submission,
\* a shutdown already called.  Nothing makes a host call, answer an approval,
\* or a deadline pass.
Fairness ==
    /\ WF_vars(TurnTask)
    /\ WF_vars(NotifyWaiters)
    /\ \A r \in Requests : WF_vars(status[r] = "woken" /\ StartOrSteerTurn(r))
    /\ \A c \in Closers : WF_vars(closer[c] # "new" /\ ShutdownTask(c))

Spec == Init /\ [][Next]_vars
FairSpec == Spec /\ Fairness

-----------------------------------------------------------------------------
(* Properties.                                                             *)

Terminal == {"TurnAborted", "TurnComplete"}
Kinds(t) == Range(events[t])
HasEnded(t) == Kinds(t) \cap Terminal # {}

\* An interrupt the thread acknowledged, and only such an interrupt, ends the
\* turn aborted: the decision run_turn froze under the lock is the one the host
\* was told about, however late the interrupt came.
InterruptDecidesOutcome ==
    \A t \in Requests :
        /\ "TurnAborted" \in Kinds(t) => t \in acked
        /\ "TurnComplete" \in Kinds(t) => t \notin acked

\* A turn reports its start first and exactly one end, last; no turn but the
\* active one is without its end.
TurnEventsWellFormed ==
    \A t \in Requests : events[t] # <<>> =>
        /\ events[t][1] = "TurnStarted"
        /\ \A i \in DOMAIN events[t] :
              /\ events[t][i] = "TurnStarted" => i = 1
              /\ events[t][i] \in Terminal => i = Len(events[t])
        /\ (t = active) <=> ~ HasEnded(t)

\* Input a turn accepted is never lost: once the turn is over it is in the
\* thread's history, or a hook denied it, or the turn was aborted.
AcceptedInputSurvives ==
    \A r \in WithMessage :
        /\ turnOf[r] # NoRequest
        /\ HasEnded(turnOf[r])
        => \/ r \in Range(history)
           \/ r \in denied
           \/ turnOf[r] \in acked

\* No message enters the history twice, across steps, pauses and leftovers.
InputDeliveredOnce ==
    \A i, j \in DOMAIN hist : hist[i] \in Requests /\ hist[i] = hist[j] => i = j

\* A run that concludes in its loop has read all the input its turn accepted: what
\* is left when the queue is closed was left by a turn that was stopped, by a host,
\* a hook or its deadline, not by one that finished (pending_input.rs: input pushed
\* after a run has finished is refused).
FinishedRunLeavesNoInput ==
    /\ pc = "freeze" /\ steps > 0 /\ resumed = 0
    /\ result = "final" /\ ~ stopped /\ ~ ScopeCancelled
    => taken = <<>>

\* Between turns the rollout replays to the history the thread holds, so a
\* thread resumed from its rollout starts from what this one ended with.
RolloutReplaysHistory ==
    active = NoRequest => Selected(rollout, Items) = history

\* Within a turn nothing of its history follows the record of its end.
RunEndIsLast ==
    \A i \in DOMAIN rollout :
        rollout[i] = "RunEnded" /\ i < Len(rollout) => rollout[i + 1] = "RunStarted"

\* A continued run continues from the pause it is in: the answer to an earlier
\* checkpoint of the same run is never taken for an answer to this one.
ResumesItsOwnPause == pc = "resume" => resumed = pauses

\* A paused run keeps the settings of the step that issued its calls, and they
\* are its own turn's: those the turn started with or some published for it,
\* never an update whose own turn ended while its model was being resolved.
PauseKeepsStepSettings ==
    pc \in {"announce", "awaiting", "woke", "resume"} =>
        stepConfig = live.captured /\ stepConfig \in offered[active]

\* A shutdown that has gone past its loop left no turn running, and none starts
\* afterwards: a submission the last turn's end woke finds the thread closed.
ShutdownIsFinal ==
    (\E c \in Closers : closer[c] \in {"down", "hook", "flush", "done"})
        => shutDown /\ active = NoRequest

\* However many tasks shut the thread down at once, the SessionEnd hook runs
\* once, after the last turn.
SessionEndOnce == sessionEnds <= 1 /\ (sessionEnds = 1 => active = NoRequest)

\* The run is concluding, its scope is cancelled, and its queue holds input.
SpinsOnCancelledInput ==
    pc \in {"late", "lateClose"} /\ ScopeCancelled /\ queue.messages # <<>>

\* An interrupted turn ends, unless it spins on input it may no longer read.
InterruptedTurnEnds ==
    (active # NoRequest /\ interrupted) ~> (active = NoRequest \/ SpinsOnCancelledInput)

\* A submission waiting for a finishing turn is woken and answered: the wake-up
\* it registered for under the lock is never missed.
WaitingSubmissionAnswered ==
    \A r \in Requests : (status[r] = "waiting") ~> (status[r] \in {"started", "steered", "refused"})

\* A shutdown returns, unless the turn it aborts spins.
ShutdownReturns ==
    \A c \in Closers :
        (closer[c] = "waiting") ~> (closer[c] = "done" \/ SpinsOnCancelledInput)
=============================================================================
