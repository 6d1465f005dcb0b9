-------------------------- MODULE AgentThreadProofs --------------------------
(***************************************************************************)
(* What TLAPS proves of AgentThread for every set of requests, closers and *)
(* configurations, any number of steps and pauses, with or without a       *)
(* wall-clock budget.                                                      *)
(***************************************************************************)
EXTENDS AgentThread, TLAPS

\* The places of the turn's task, and the items and records it writes, are
\* what the type invariant says they may be.
LEMMA Places ==
    /\ {"idle", "prepare", "close", "drain", "freeze", "leftover", "record", "end"} \subseteq PCs
    /\ {"pausing", "announce", "awaiting", "woke"} \subseteq PCs
    /\ {"top", "deliver", "promptHook", "model", "conclude", "stopHook"} \subseteq PCs
    /\ {"late", "lateClose", "settle", "finish", "resume"} \subseteq PCs
BY DEF PCs, SegmentPCs, PausePCs, ClosingPCs

\* What the task writes to the history and to the rollout are items and records.
LEMMA Writable ==
    /\ Requests \subseteq Items
    /\ Items \subseteq Records
    /\ Reply \in Items
    /\ Marker \in Items
    /\ {"RunStarted", "Approval", "RunPaused", "RunEnded"} \subseteq Records
BY DEF Items, Records, Reply, Marker

\* Facts about sequences the typing of the logs rests on.
LEMMA Singleton == ASSUME NEW S, NEW x \in S PROVE <<x>> \in Seq(S)
OBVIOUS

\* A sequence over a set is one over any larger set.
LEMMA SequenceOver ==
    ASSUME NEW S, NEW T, S \subseteq T, NEW s \in Seq(S)
    PROVE  s \in Seq(T)
OBVIOUS

\* Taking the first message of a delivery leaves a sequence of messages.
LEMMA HeadTail ==
    ASSUME NEW S, NEW s \in Seq(S), s # <<>>
    PROVE  Head(s) \in S /\ Tail(s) \in Seq(S)
OBVIOUS

\* Appending to the reports of one turn leaves a sequence for every turn.
LEMMA Extended ==
    ASSUME NEW D, NEW S, NEW f \in [D -> Seq(S)], NEW t, NEW s \in Seq(S)
    PROVE  [f EXCEPT ![t] = @ \o s] \in [D -> Seq(S)]
<1>1. CASE t \in D
  BY <1>1
<1>2. CASE t \notin D
  BY <1>2
<1> QED BY <1>1, <1>2

\* Settings offered to one turn leave a set of settings for every turn.
LEMMA OfferTypes ==
    ASSUME NEW C, NEW D, NEW f \in [D -> SUBSET C], NEW t, NEW x \in C
    PROVE  [f EXCEPT ![t] = @ \cup {x}] \in [D -> SUBSET C]
OBVIOUS

\* The thread has an active turn exactly while a turn's task runs.
ActiveWhileRunning == active = NoRequest <=> pc = "idle"

USE DEF MaybeTurn, Results, Ends, EventKinds, PendingInputType, LiveSettingsType,
        NewPendingInput, NewLiveSettings, ClosedSettings
USE DEF sessionVars, turnVars, stateVars, scopeVars, sharedVars, deliveryVars, progressVars,
        outcomeVars, taskVars, recordVars, callVars, hostVars, ghostVars

\* The variables that are not flags keep their types: the calls of host tasks.
LEMMA HostTypes == DataTypeOK /\ Host => DataTypeOK'
<1> SUFFICES ASSUME DataTypeOK, Host PROVE DataTypeOK'
  OBVIOUS
<1> USE RequestsAssumption, Places, Writable
<1> USE DEF DataTypeOK, StateTypeOK, SharedTypeOK, TaskTypeOK, LogTypeOK, HostTypeOK
<1>1. ASSUME NEW r \in Requests, StartTurn(r) PROVE DataTypeOK'
  <2>1. config' \in Configs
    BY <1>1 DEF StartTurn, ApplySettings
  <2>2. StateTypeOK'
    BY <1>1, <2>1 DEF StartTurn
  <2>3. SharedTypeOK' /\ TaskTypeOK'
    BY <1>1, <2>1 DEF StartTurn
  <2>4. LogTypeOK'
    BY <1>1 DEF StartTurn, Emit
  <2>5. HostTypeOK'
    BY <1>1, <2>1, OfferTypes DEF StartTurn, Answer, Offer
  <2> QED BY <2>2, <2>3, <2>4, <2>5
<1>2. ASSUME NEW r \in Requests, SteerInto(r) PROVE DataTypeOK'
  BY <1>2 DEF SteerInto, ApplySettings, Answer, Push
<1>3. ASSUME NEW r \in Requests, NEW s \in {"waiting", "refused"}, OnlyAnswer(r, s)
      PROVE  DataTypeOK'
  BY <1>3 DEF OnlyAnswer, Answer
<1>4. ASSUME NEW r \in Requests, StartOrSteerTurn(r) PROVE DataTypeOK'
  BY <1>1, <1>2, <1>3, <1>4 DEF StartOrSteerTurn
<1>5. ASSUME NEW r \in Requests, NEW t \in Requests, SteerTurn(r, t) PROVE DataTypeOK'
  BY <1>2, <1>3, <1>5 DEF SteerTurn
<1>6. CASE Interrupt
  BY <1>6 DEF Interrupt, Interruptible, CancelTurn
<1>7. ASSUME NEW v \in Published, UpdateSettings(v) PROVE DataTypeOK'
  BY <1>7 DEF UpdateSettings
<1>8. ASSUME NEW t \in Requests, NEW v \in Published, BeginTurnSettings(t, v) PROVE DataTypeOK'
  <2>1. v \in Configs
    OBVIOUS
  <2>2. HostTypeOK'
    BY <1>8, <2>1, OfferTypes DEF BeginTurnSettings, Offer
  <2> QED BY <1>8, <2>2 DEF BeginTurnSettings
<1>9. CASE FinishTurnSettings
  BY <1>9 DEF FinishTurnSettings, StillLive, LiveTarget, UpdateApplies, Update, NoUpdate
<1>10. ASSUME NEW p \in 1 .. pauses, RecordApproval(p) PROVE DataTypeOK'
  <2>1. LogTypeOK'
    BY <1>10 DEF RecordApproval
  <2>2. p \in Nat
    OBVIOUS
  <2>3. HostTypeOK'
    BY <1>10, <2>2 DEF RecordApproval
  <2>4. StateTypeOK' /\ SharedTypeOK' /\ TaskTypeOK'
    BY <1>10 DEF RecordApproval
  <2> QED BY <2>1, <2>3, <2>4
<1>11. ASSUME NEW p \in 1 .. pauses, ResumeTurn(p) PROVE DataTypeOK'
  BY <1>11 DEF ResumeTurn
<1> QED BY <1>4, <1>5, <1>6, <1>7, <1>8, <1>9, <1>10, <1>11 DEF Host

\* ... shutdowns, wake-ups and the wall clock ...
LEMMA ShutdownTypes ==
    ASSUME DataTypeOK
    PROVE  /\ \A c \in Closers : ShutdownTask(c) => DataTypeOK'
           /\ NotifyWaiters => DataTypeOK'
           /\ WallClockExpires => DataTypeOK'
<1> USE DEF DataTypeOK, StateTypeOK, SharedTypeOK, TaskTypeOK, LogTypeOK, HostTypeOK
<1>1. ASSUME NEW c \in Closers, Shutdown(c) PROVE DataTypeOK'
  BY <1>1 DEF Shutdown, SetCloser, Interruptible, CancelTurn
<1>2. ASSUME NEW c \in Closers, ClaimSessionEnd(c) PROVE DataTypeOK'
  BY <1>2 DEF ClaimSessionEnd, SetCloser
<1>3. ASSUME NEW c \in Closers, DispatchSessionEnd(c) PROVE DataTypeOK'
  BY <1>3 DEF DispatchSessionEnd, SetCloser
<1>4. ASSUME NEW c \in Closers, FinishShutdown(c) PROVE DataTypeOK'
  BY <1>4 DEF FinishShutdown, SetCloser
<1>5. ASSUME NotifyWaiters PROVE DataTypeOK'
  BY <1>5 DEF NotifyWaiters
<1>6. ASSUME WallClockExpires PROVE DataTypeOK'
  BY <1>6 DEF WallClockExpires
<1> QED BY <1>1, <1>2, <1>3, <1>4, <1>5, <1>6 DEF ShutdownTask

\* ... the agent loop ...
LEMMA SegmentTypes == DataTypeOK /\ Segment => DataTypeOK'
<1> SUFFICES ASSUME DataTypeOK, Segment PROVE DataTypeOK'
  OBVIOUS
<1> USE Places, Writable
<1> USE DEF DataTypeOK, StateTypeOK, SharedTypeOK, TaskTypeOK, LogTypeOK, HostTypeOK
<1> USE DEF TaskUnchanged, Goto, EndSegment, Log, StoppedByScope
<1>1. CASE BeginStep
  BY <1>1 DEF BeginStep, CaptureStep
<1>2. ASSUME NEW at \in {"deliver", "conclude", "late", "settle"},
             NEW q \in PendingInputType(Requests), NEW skip,
             DeliverPendingInput(at, q, skip)
      PROVE  DataTypeOK'
  <2>1. CASE DeliverNothing(at, q)
    <3>1. NoInput[at] \in PCs
      BY DEF NoInput
    <3> QED BY <2>1, <3>1 DEF DeliverNothing
  <2>2. CASE TakePendingInput(at, q)
    <3>1. Take(q) \in PendingInputType(Requests)
      BY DEF Take
    <3>2. queue.messages \in Seq(Requests)
      OBVIOUS
    <3> QED BY <2>2, <3>1, <3>2 DEF TakePendingInput
  <2> QED BY <1>2, <2>1, <2>2 DEF DeliverPendingInput
<1>3. CASE DeliverAtStep
  BY <1>2, <1>3, Zenon DEF DeliverAtStep
<1>4. CASE DeliverAtConclusion
  BY <1>2, <1>4 DEF DeliverAtConclusion
<1>5. CASE DeliverLate
  BY <1>2, <1>5 DEF DeliverLate
<1>6. CASE Settle
  <2>1. Seal(queue) \in PendingInputType(Requests)
    BY DEF Seal
  <2>2. CASE stopped
    BY <1>2, <1>6, <2>1, <2>2 DEF Settle
  <2>3. CASE ~ stopped
    BY <1>6, <2>3 DEF Settle
  <2> QED BY <2>2, <2>3
<1>7. CASE JudgePrompt
  <2>1. Head(taken) \in Requests /\ Tail(taken) \in Seq(Requests)
    BY <1>7, HeadTail DEF JudgePrompt
  <2>2. kept' \in Seq(Requests)
    <3>1. Append(kept, Head(taken)) \in Seq(Requests)
      BY <2>1
    <3>2. kept \in Seq(Requests)
      OBVIOUS
    <3>3. kept' = kept \/ kept' = Append(kept, Head(taken))
      BY <1>7, Zenon DEF JudgePrompt
    <3> QED BY <3>1, <3>2, <3>3, Zenon
  <2>3. HostTypeOK'
    BY <1>7, <2>1 DEF JudgePrompt
  <2>4. StateTypeOK' /\ SharedTypeOK' /\ TaskTypeOK' /\ LogTypeOK'
    BY <1>7, <2>1, <2>2 DEF JudgePrompt
  <2> QED BY <2>3, <2>4
<1>8. CASE PromptHookCancelled
  BY <1>8 DEF PromptHookCancelled
<1>9. CASE CommitDelivery
  <2>1. InputKept[ret] \in PCs /\ InputDenied[ret] \in PCs
    BY DEF InputKept, InputDenied
  <2>2. hist' \in Seq(Items)
    BY <1>9 DEF CommitDelivery
  <2>3. LogTypeOK'
    BY <1>9 DEF CommitDelivery
  <2>4. TaskTypeOK'
    BY <1>9, <2>1, <2>2 DEF CommitDelivery
  <2>5. StateTypeOK' /\ SharedTypeOK' /\ HostTypeOK'
    BY <1>9 DEF CommitDelivery
  <2> QED BY <2>3, <2>4, <2>5
<1>10. CASE CallModel
  <2>1. StateTypeOK' /\ SharedTypeOK' /\ HostTypeOK'
    BY <1>10 DEF CallModel
  <2>2. TaskTypeOK' /\ LogTypeOK'
    BY <1>10 DEF CallModel
  <2> QED BY <2>1, <2>2
<1>11. CASE StepFails
  BY <1>11 DEF StepFails
<1>12. CASE StopHook
  BY <1>12 DEF StopHook
<1>13. CASE CloseLate
  BY <1>13 DEF CloseLate, CloseIfEmpty
<1>14. CASE ResumeSegment
  BY <1>14 DEF ResumeSegment
<1>15. ASSUME NEW res \in Results, FinishSegment(res) PROVE DataTypeOK'
  <2>1. hist' \in Seq(Items)
    BY <1>15 DEF FinishSegment, LeaveMarker
  <2>2. LogTypeOK'
    BY <1>15 DEF FinishSegment, LeaveMarker, EndRecord
  <2>3. TaskTypeOK'
    BY <1>15, <2>1 DEF FinishSegment
  <2>4. StateTypeOK' /\ SharedTypeOK' /\ HostTypeOK'
    BY <1>15 DEF FinishSegment
  <2> QED BY <2>2, <2>3, <2>4
<1> QED BY <1>1, <1>3, <1>4, <1>5, <1>6, <1>7, <1>8, <1>9, <1>10, <1>11, <1>12, <1>13, <1>14,
           <1>15 DEF Segment

\* ... and the rest of the turn's task.
LEMMA TaskTypes == DataTypeOK /\ ActiveWhileRunning /\ TurnTask => DataTypeOK'
<1> SUFFICES ASSUME DataTypeOK, ActiveWhileRunning, TurnTask
             PROVE  DataTypeOK'
  OBVIOUS
<1> USE Places, Writable
<1> USE DEF DataTypeOK, StateTypeOK, SharedTypeOK, TaskTypeOK, LogTypeOK, HostTypeOK, Goto, Log
<1>1. CASE AcceptHostInput
  <2>1. Submitted \in Seq(Requests)
    <3>1. CASE active \in WithMessage
      BY <3>1, RequestsAssumption, Singleton DEF Submitted
    <3>2. CASE active \notin WithMessage
      BY <3>2 DEF Submitted
    <3> QED BY <3>1, <3>2
  <2>2. hist' \in Seq(Items)
    BY <1>1, <2>1 DEF AcceptHostInput
  <2>3. LogTypeOK'
    BY <1>1, <2>1 DEF AcceptHostInput
  <2>4. TaskTypeOK'
    BY <1>1, <2>2 DEF AcceptHostInput
  <2>5. StateTypeOK' /\ SharedTypeOK' /\ HostTypeOK'
    BY <1>1 DEF AcceptHostInput
  <2> QED BY <2>3, <2>4, <2>5
<1>2. CASE StopHostInput
  <2>1. LogTypeOK'
    BY <1>2 DEF StopHostInput
  <2>2. HostTypeOK'
    BY <1>2 DEF StopHostInput, ActiveWhileRunning
  <2>3. StateTypeOK' /\ SharedTypeOK' /\ TaskTypeOK'
    BY <1>2 DEF StopHostInput
  <2> QED BY <2>1, <2>2, <2>3
<1>3. CASE PauseForApproval
  BY <1>3 DEF PauseForApproval, IssuingSettings
<1>4. CASE AnnouncePause
  <2>1. LogTypeOK'
    <3>1. <<"AwaitingApproval">> \in Seq(EventKinds)
      OBVIOUS
    <3> QED BY <1>4, <3>1, Extended DEF AnnouncePause, Emit
  <2>2. StateTypeOK' /\ SharedTypeOK' /\ TaskTypeOK' /\ HostTypeOK'
    BY <1>4 DEF AnnouncePause
  <2> QED BY <2>1, <2>2
<1>5. CASE WaitForAnswer
  BY <1>5 DEF WaitForAnswer
<1>6. CASE LeavePause
  <2>1. hist' \in Seq(Items) /\ LogTypeOK'
    <3>1. <<Marker>> \in Seq(Items) /\ <<Marker>> \o <<>> = <<Marker>>
      OBVIOUS
    <3>2. \/ hist' = hist /\ rollout' = rollout \o <<"RunStarted">>
          \/ hist' = hist \o <<Marker>> /\ rollout' = rollout \o <<Marker>>
      BY <1>6, <3>1, Zenon DEF LeavePause, LeaveMarker
    <3>3. events' = events
      BY <1>6 DEF LeavePause
    <3>4. /\ hist \o <<Marker>> \in Seq(Items)
          /\ rollout \o <<Marker>> \in Seq(Records)
          /\ rollout \o <<"RunStarted">> \in Seq(Records)
      BY <3>1
    <3> QED BY <3>2, <3>3, <3>4
  <2>2. TaskTypeOK'
    BY <1>6, <2>1 DEF LeavePause
  <2>3. StateTypeOK' /\ SharedTypeOK' /\ HostTypeOK'
    BY <1>6 DEF LeavePause
  <2> QED BY <2>1, <2>2, <2>3
<1>7. CASE CloseSettings
  BY <1>7 DEF CloseSettings
<1>8. CASE ClosePending
  BY <1>8 DEF ClosePending, Close
<1>9. CASE FreezeOutcome
  BY <1>9 DEF FreezeOutcome
<1>10. CASE KeepLeftover
  BY <1>10 DEF KeepLeftover, Leftover
<1>11. CASE FinishRecording
  BY <1>11 DEF FinishRecording
<1>12. CASE EndTurn
  <2>1. TerminalEvents \in Seq(EventKinds)
    <3>1. /\ <<"TurnAborted">> \in Seq(EventKinds)
          /\ <<"TurnComplete">> \in Seq(EventKinds)
          /\ <<"Error">> \o <<"TurnComplete">> \in Seq(EventKinds)
          /\ <<>> \o <<"TurnComplete">> \in Seq(EventKinds)
      OBVIOUS
    <3> QED BY <3>1, Zenon DEF TerminalEvents
  <2>2. LogTypeOK'
    BY <1>12, <2>1, Extended DEF EndTurn, Emit
  <2>3. StateTypeOK' /\ SharedTypeOK' /\ TaskTypeOK'
    BY <1>12 DEF EndTurn
  <2>4. HostTypeOK'
    BY <1>12 DEF EndTurn, OweWakeUp
  <2> QED BY <2>2, <2>3, <2>4
<1> QED BY <1>1, <1>2, <1>3, <1>4, <1>5, <1>6, <1>7, <1>8, <1>9, <1>10, <1>11, <1>12,
           SegmentTypes DEF TurnTask

-----------------------------------------------------------------------------
(* The flags, and the turn that is active while its task runs.             *)

\* The flags stay flags.
LEMMA FlagTypes == FlagTypeOK /\ Next => FlagTypeOK'
<1> SUFFICES ASSUME FlagTypeOK, Next PROVE FlagTypeOK'
  OBVIOUS
<1> USE DEF FlagTypeOK
<1>1. ASSUME NEW r \in Requests, StartOrSteerTurn(r) \/ \E t \in Requests : SteerTurn(r, t)
      PROVE  FlagTypeOK'
  <2>1. StartTurn(r) \/ SteerInto(r) \/ OnlyAnswer(r, "refused") \/ OnlyAnswer(r, "waiting")
    BY <1>1, Zenon DEF StartOrSteerTurn, SteerTurn
  <2>2. CASE StartTurn(r)
    BY <2>2 DEF StartTurn
  <2>3. CASE SteerInto(r)
    BY <2>3 DEF SteerInto
  <2>4. CASE OnlyAnswer(r, "refused") \/ OnlyAnswer(r, "waiting")
    BY <2>4 DEF OnlyAnswer
  <2> QED BY <2>1, <2>2, <2>3, <2>4
<1>2. CASE Host
  <2>1. CASE Interrupt
    BY <2>1 DEF Interrupt, CancelTurn
  <2>2. ASSUME NEW v \in Published, UpdateSettings(v) PROVE FlagTypeOK'
    BY <2>2 DEF UpdateSettings
  <2>3. ASSUME NEW t \in Requests, NEW v \in Published, BeginTurnSettings(t, v)
        PROVE  FlagTypeOK'
    BY <2>3 DEF BeginTurnSettings
  <2>4. CASE FinishTurnSettings
    BY <2>4 DEF FinishTurnSettings
  <2>5. ASSUME NEW p \in 1 .. pauses, RecordApproval(p) \/ ResumeTurn(p) PROVE FlagTypeOK'
    BY <2>5 DEF RecordApproval, ResumeTurn
  <2> QED BY <1>1, <1>2, <2>1, <2>2, <2>3, <2>4, <2>5 DEF Host
<1>3. ASSUME NEW c \in Closers, ShutdownTask(c) PROVE FlagTypeOK'
  <2>1. CASE Shutdown(c)
    BY <2>1 DEF Shutdown, CancelTurn
  <2>2. CASE ClaimSessionEnd(c) \/ DispatchSessionEnd(c) \/ FinishShutdown(c)
    <3>1. CASE ClaimSessionEnd(c)
      BY <3>1 DEF ClaimSessionEnd
    <3>2. CASE DispatchSessionEnd(c)
      BY <3>2 DEF DispatchSessionEnd
    <3>3. CASE FinishShutdown(c)
      BY <3>3 DEF FinishShutdown
    <3> QED BY <2>2, <3>1, <3>2, <3>3
  <2> QED BY <1>3, <2>1, <2>2 DEF ShutdownTask
<1>4. CASE NotifyWaiters \/ WallClockExpires
  <2>1. CASE NotifyWaiters
    BY <2>1 DEF NotifyWaiters
  <2>2. CASE WallClockExpires
    BY <2>2 DEF WallClockExpires
  <2> QED BY <1>4, <2>1, <2>2
<1>5. CASE Segment
  <2> USE DEF TaskUnchanged
  <2>1. CASE BeginStep
    BY <2>1 DEF BeginStep
  <2>2. ASSUME NEW at, NEW q, NEW skip, DeliverPendingInput(at, q, skip), first' \in BOOLEAN
        PROVE  FlagTypeOK'
    BY <2>2 DEF DeliverPendingInput, DeliverNothing, TakePendingInput
  <2>3. CASE DeliverAtStep \/ DeliverAtConclusion \/ DeliverLate
    BY <2>2, <2>3 DEF DeliverAtStep, DeliverAtConclusion, DeliverLate
  <2>4. CASE Settle
    BY <2>2, <2>4 DEF Settle
  <2>5. CASE JudgePrompt \/ PromptHookCancelled \/ CallModel \/ StepFails
    BY <2>5 DEF JudgePrompt, PromptHookCancelled, CallModel, StepFails
  <2>6. CASE CommitDelivery
    BY <2>6 DEF CommitDelivery
  <2>7. CASE StopHook \/ CloseLate \/ ResumeSegment
    <3>1. CASE StopHook
      BY <3>1 DEF StopHook
    <3>2. CASE CloseLate
      BY <3>2 DEF CloseLate
    <3>3. CASE ResumeSegment
      BY <3>3 DEF ResumeSegment
    <3> QED BY <2>7, <3>1, <3>2, <3>3
  <2>8. ASSUME NEW res \in Results, FinishSegment(res) PROVE FlagTypeOK'
    BY <2>8 DEF FinishSegment
  <2> QED BY <1>5, <2>1, <2>3, <2>4, <2>5, <2>6, <2>7, <2>8 DEF Segment
<1>6. CASE TurnTask
  <2>1. CASE AcceptHostInput \/ StopHostInput
    <3>1. CASE AcceptHostInput
      BY <3>1 DEF AcceptHostInput
    <3>2. CASE StopHostInput
      BY <3>2 DEF StopHostInput
    <3> QED BY <2>1, <3>1, <3>2
  <2>2. CASE PauseForApproval \/ AnnouncePause \/ WaitForAnswer
    BY <2>2 DEF PauseForApproval, AnnouncePause, WaitForAnswer
  <2>3. CASE LeavePause
    BY <2>3 DEF LeavePause
  <2>4. CASE CloseSettings \/ ClosePending \/ FreezeOutcome
    <3>1. CASE CloseSettings
      BY <3>1 DEF CloseSettings
    <3>2. CASE ClosePending
      BY <3>2 DEF ClosePending
    <3>3. CASE FreezeOutcome
      BY <3>3 DEF FreezeOutcome
    <3> QED BY <2>4, <3>1, <3>2, <3>3
  <2>5. CASE KeepLeftover \/ FinishRecording \/ EndTurn
    <3>1. CASE KeepLeftover
      BY <3>1 DEF KeepLeftover
    <3>2. CASE FinishRecording
      BY <3>2 DEF FinishRecording
    <3>3. CASE EndTurn
      BY <3>3 DEF EndTurn
    <3> QED BY <2>5, <3>1, <3>2, <3>3
  <2> QED BY <1>5, <1>6, <2>1, <2>2, <2>3, <2>4, <2>5 DEF TurnTask
<1> QED BY <1>2, <1>3, <1>4, <1>6 DEF Next

\* A step of the agent loop stays inside the loop until the segment is over,
\* and touches neither ThreadState nor anything a host task owns.
LEMMA SegmentFrame ==
    ASSUME DataTypeOK, Segment
    PROVE  /\ pc \in SegmentPCs
           /\ pc' \in (SegmentPCs \ {"resume"}) \cup {"pausing", "close"}
           /\ UNCHANGED <<stateVars, oneshot, aborting, events, hostVars>>
           /\ UNCHANGED <<pauses, acked, sessionEnds>>
<1> DEFINE Frame == /\ pc \in SegmentPCs
                    /\ pc' \in (SegmentPCs \ {"resume"}) \cup {"pausing", "close"}
                    /\ UNCHANGED <<stateVars, oneshot, aborting, events, hostVars>>
                    /\ UNCHANGED <<pauses, acked, sessionEnds>>
<1> USE DEF TaskUnchanged, Goto, EndSegment, SegmentPCs
<1>1. CASE BeginStep
  BY <1>1 DEF BeginStep
<1>2. ASSUME NEW at \in {"deliver", "conclude", "late", "settle"}, NEW q, NEW skip,
             pc = at, DeliverPendingInput(at, q, skip)
      PROVE  Frame
  <2>1. NoInput[at] \in SegmentPCs \ {"resume"}
    BY DEF NoInput
  <2> QED BY <1>2, <2>1 DEF DeliverPendingInput, DeliverNothing, TakePendingInput
<1>3. CASE DeliverAtStep
  BY <1>2, <1>3, Zenon DEF DeliverAtStep
<1>4. CASE DeliverAtConclusion
  BY <1>2, <1>4 DEF DeliverAtConclusion
<1>5. CASE DeliverLate
  BY <1>2, <1>5 DEF DeliverLate
<1>6. CASE Settle
  BY <1>2, <1>6 DEF Settle
<1>7. CASE JudgePrompt
  BY <1>7 DEF JudgePrompt
<1>8. CASE PromptHookCancelled
  BY <1>8 DEF PromptHookCancelled
<1>9. CASE CommitDelivery
  <2>1. ret \in {"deliver", "conclude", "late", "settle"}
    BY DEF DataTypeOK, TaskTypeOK
  <2>2. {InputKept[ret], InputDenied[ret]} \subseteq SegmentPCs \ {"resume"}
    BY <2>1 DEF InputKept, InputDenied
  <2> QED BY <1>9, <2>2 DEF CommitDelivery
<1>10. CASE CallModel
  BY <1>10 DEF CallModel
<1>11. CASE StepFails
  BY <1>11 DEF StepFails
<1>12. CASE StopHook
  BY <1>12 DEF StopHook
<1>13. CASE CloseLate
  BY <1>13 DEF CloseLate
<1>14. CASE ResumeSegment
  BY <1>14 DEF ResumeSegment
<1>15. ASSUME NEW res \in Results, FinishSegment(res) PROVE Frame
  BY <1>15 DEF FinishSegment
<1> QED BY <1>1, <1>3, <1>4, <1>5, <1>6, <1>7, <1>8, <1>9, <1>10, <1>11, <1>12, <1>13, <1>14,
           <1>15 DEF Segment

\* A submission starts the turn of an idle, open thread, joins the running
\* turn, or leaves the thread as it was; its caller had no answer yet.
LEMMA Submission ==
    ASSUME NEW r \in Requests,
           StartOrSteerTurn(r) \/ \E t \in Requests : SteerTurn(r, t)
    PROVE  /\ status[r] \in {"new", "woken"}
           /\ \/ StartTurn(r) /\ ~ shutDown /\ active = NoRequest
              \/ SteerInto(r)
              \/ OnlyAnswer(r, "refused")
              \/ OnlyAnswer(r, "waiting")
BY Zenon DEF StartOrSteerTurn, SteerTurn, TakesInput

\* The thread has an active turn exactly while a turn's task runs.
LEMMA Running == DataTypeOK /\ ActiveWhileRunning /\ Next => ActiveWhileRunning'
<1> SUFFICES ASSUME DataTypeOK, ActiveWhileRunning, Next PROVE ActiveWhileRunning'
  OBVIOUS
<1> USE DEF ActiveWhileRunning
<1>1. CASE Host
  <2>1. ASSUME NEW r \in Requests,
               StartOrSteerTurn(r) \/ \E t \in Requests : SteerTurn(r, t)
        PROVE  ActiveWhileRunning'
    <3>1. CASE StartTurn(r)
      BY <3>1, RequestsAssumption DEF StartTurn
    <3>2. CASE SteerInto(r) \/ OnlyAnswer(r, "refused") \/ OnlyAnswer(r, "waiting")
      BY <3>2 DEF SteerInto, OnlyAnswer
    <3> QED BY <2>1, <3>1, <3>2, Submission
  <2>2. CASE Interrupt \/ FinishTurnSettings
    BY <2>2 DEF Interrupt, FinishTurnSettings
  <2>3. ASSUME NEW v \in Published, \/ UpdateSettings(v)
                                    \/ \E t \in Requests : BeginTurnSettings(t, v)
        PROVE  ActiveWhileRunning'
    BY <2>3 DEF UpdateSettings, BeginTurnSettings
  <2>4. ASSUME NEW p \in 1 .. pauses, RecordApproval(p) \/ ResumeTurn(p)
        PROVE  ActiveWhileRunning'
    BY <2>4 DEF RecordApproval, ResumeTurn
  <2> QED BY <1>1, <2>1, <2>2, <2>3, <2>4 DEF Host
<1>2. ASSUME NEW c \in Closers, ShutdownTask(c) PROVE ActiveWhileRunning'
  BY <1>2 DEF ShutdownTask, Shutdown, ClaimSessionEnd, DispatchSessionEnd, FinishShutdown
<1>3. CASE NotifyWaiters \/ WallClockExpires
  BY <1>3 DEF NotifyWaiters, WallClockExpires
<1>4. CASE Segment
  BY <1>4, SegmentFrame DEF SegmentPCs
<1>5. CASE TurnTask
  <2> USE DEF Goto
  <2>1. CASE AcceptHostInput \/ StopHostInput
    BY <2>1 DEF AcceptHostInput, StopHostInput
  <2>2. CASE PauseForApproval \/ AnnouncePause \/ WaitForAnswer
    BY <2>2 DEF PauseForApproval, AnnouncePause, WaitForAnswer
  <2>3. CASE LeavePause
    BY <2>3 DEF LeavePause
  <2>4. CASE CloseSettings \/ ClosePending \/ FreezeOutcome
    BY <2>4 DEF CloseSettings, ClosePending, FreezeOutcome
  <2>5. CASE KeepLeftover \/ FinishRecording \/ EndTurn
    BY <2>5 DEF KeepLeftover, FinishRecording, EndTurn
  <2> QED BY <1>4, <1>5, <2>1, <2>2, <2>3, <2>4, <2>5 DEF TurnTask
<1> QED BY <1>1, <1>2, <1>3, <1>5 DEF Next

\* The type invariant is inductive together with ActiveWhileRunning: a denied
\* prompt is charged to the active turn, which the types alone do not say exists.
TypeInv == TypeOK /\ ActiveWhileRunning

\* A thread just built is idle and well typed.
LEMMA TypeInvInit == Init => TypeInv
<1> SUFFICES ASSUME Init PROVE TypeInv
  OBVIOUS
<1>1. FlagTypeOK
  BY DEF Init, FlagTypeOK
<1>2. StateTypeOK /\ ActiveWhileRunning
  BY RequestsAssumption DEF Init, StateTypeOK, ActiveWhileRunning
<1>3. SharedTypeOK
  BY DEF Init, SharedTypeOK, Close
<1>4. TaskTypeOK
  BY RequestsAssumption, Places DEF Init, TaskTypeOK
<1>5. LogTypeOK
  BY DEF Init, LogTypeOK
<1>6. HostTypeOK
  BY DEF Init, HostTypeOK, NoUpdate
<1> QED BY <1>1, <1>2, <1>3, <1>4, <1>5, <1>6 DEF TypeInv, TypeOK, DataTypeOK

\* Every step keeps it so: TypeOK alone is not inductive, since the end of a
\* turn reports for the active turn, which must be one.
LEMMA TypeInvStep == TypeInv /\ [Next]_vars => TypeInv'
<1> SUFFICES ASSUME TypeInv, [Next]_vars PROVE TypeInv'
  OBVIOUS
<1>1. CASE Next
  <2>1. FlagTypeOK' /\ ActiveWhileRunning'
    BY <1>1, FlagTypes, Running DEF TypeInv, TypeOK
  <2>2. DataTypeOK'
    BY <1>1, HostTypes, ShutdownTypes, TaskTypes DEF Next, TypeInv, TypeOK
  <2> QED BY <2>1, <2>2 DEF TypeInv, TypeOK
<1>2. CASE UNCHANGED vars
  <2>1. FlagTypeOK'
    BY <1>2 DEF vars, TypeInv, TypeOK, FlagTypeOK
  <2>2. DataTypeOK' /\ ActiveWhileRunning'
    BY <1>2 DEF vars, TypeInv, TypeOK, DataTypeOK, StateTypeOK, SharedTypeOK, TaskTypeOK,
                LogTypeOK, HostTypeOK, ActiveWhileRunning
  <2> QED BY <2>1, <2>2 DEF TypeInv, TypeOK
<1> QED BY <1>1, <1>2

\* The invariant every other proof starts from.
LEMMA TypeInvariant == Spec => []TypeInv
BY TypeInvInit, TypeInvStep, PTL DEF Spec

\* Every state of a thread is well typed, whatever its hosts do and whenever
\* its turns pause, fail or are cancelled.
THEOREM TypeCorrect == Spec => []TypeOK
<1>1. TypeInv => TypeOK
  BY DEF TypeInv
<1> QED BY <1>1, TypeInvariant, PTL

-----------------------------------------------------------------------------
(* The outcome of an interrupted turn.                                     *)

\* The terminal decision is frozen from "interrupted", which no acknowledged
\* interrupt can change once "ending" is set; "interrupted" and the interrupts
\* acknowledged agree about the active turn, which has not ended yet; and a
\* turn that never started has neither been interrupted nor reported anything.
OutcomeFrozen == pc \in ClosingPCs => ending /\ (aborting <=> interrupted)

InterruptAcknowledged == active # NoRequest => (interrupted <=> active \in acked)

ActiveHasNotEnded ==
    active # NoRequest => status[active] = "started" /\ Kinds(active) \cap Terminal = {}

UnstartedIsSilent ==
    \A t \in Requests : status[t] # "started" => t \notin acked /\ Kinds(t) = {}

OutcomeInv ==
    /\ OutcomeFrozen
    /\ InterruptAcknowledged
    /\ ActiveHasNotEnded
    /\ UnstartedIsSilent
    /\ InterruptDecidesOutcome

\* What a sequence holds after another is appended to it.
LEMMA RangeOfConcat ==
    ASSUME NEW S, NEW s \in Seq(S), NEW k \in Seq(S)
    PROVE  Range(s \o k) = Range(s) \cup Range(k)
<1>1. /\ Range(s \o k) = {(s \o k)[i] : i \in 1 .. (Len(s) + Len(k))}
      /\ Range(s) = {s[i] : i \in 1 .. Len(s)}
      /\ Range(k) = {k[i] : i \in 1 .. Len(k)}
  BY DEF Range
<1>2. ASSUME NEW i \in 1 .. (Len(s) + Len(k)) PROVE (s \o k)[i] \in Range(s) \cup Range(k)
  <2>1. CASE i <= Len(s)
    BY <1>1, <2>1
  <2>2. CASE i > Len(s)
    <3>1. (s \o k)[i] = k[i - Len(s)] /\ i - Len(s) \in 1 .. Len(k)
      BY <2>2
    <3> QED BY <1>1, <3>1
  <2> QED BY <2>1, <2>2
<1>3. ASSUME NEW i \in 1 .. Len(s) PROVE s[i] \in Range(s \o k)
  <2>1. (s \o k)[i] = s[i] /\ i \in 1 .. (Len(s) + Len(k))
    OBVIOUS
  <2> QED BY <1>1, <2>1
<1>4. ASSUME NEW i \in 1 .. Len(k) PROVE k[i] \in Range(s \o k)
  <2>1. (s \o k)[Len(s) + i] = k[i] /\ Len(s) + i \in 1 .. (Len(s) + Len(k))
    OBVIOUS
  <2> QED BY <1>1, <2>1
<1> QED BY <1>1, <1>2, <1>3, <1>4

\* What a turn has reported after another report.
LEMMA EmitKinds ==
    ASSUME LogTypeOK, NEW t \in Requests, NEW k \in Seq(EventKinds), Emit(t, k)
    PROVE  /\ Kinds(t)' = Kinds(t) \cup Range(k)
           /\ \A u \in Requests \ {t} : Kinds(u)' = Kinds(u)
<1>1. events[t] \in Seq(EventKinds) /\ events'[t] = events[t] \o k
  BY DEF LogTypeOK, Emit
<1>2. Range(events[t] \o k) = Range(events[t]) \cup Range(k)
  BY <1>1, RangeOfConcat
<1>3. \A u \in Requests \ {t} : events'[u] = events[u]
  BY DEF LogTypeOK, Emit
<1>4. \A u : Kinds(u)' = Range(events'[u])
  BY DEF Kinds, Range
<1> QED BY <1>1, <1>2, <1>3, <1>4 DEF Kinds

\* What the reports of an end hold.
LEMMA TerminalKinds ==
    ASSUME aborting \in BOOLEAN
    PROVE  /\ TerminalEvents \in Seq(EventKinds)
           /\ aborting => Range(TerminalEvents) = {"TurnAborted"}
           /\ ~ aborting => /\ "TurnComplete" \in Range(TerminalEvents)
                            /\ "TurnAborted" \notin Range(TerminalEvents)
<1>1. CASE aborting
  BY <1>1 DEF TerminalEvents, Range
<1>2. CASE ~ aborting /\ end = "Failed"
  BY <1>2 DEF TerminalEvents, Range
<1>3. CASE ~ aborting /\ end # "Failed"
  BY <1>3 DEF TerminalEvents, Range
<1> QED BY <1>1, <1>2, <1>3

\* A step that touches nothing OutcomeInv speaks of but the places of the task.
LEMMA OutcomeKept ==
    ASSUME OutcomeInv, UNCHANGED <<active, interrupted, acked, status, events>>, OutcomeFrozen'
    PROVE  OutcomeInv'
<1>1. \A t : Kinds(t)' = Kinds(t)
  BY DEF Kinds, Range
<1>2. InterruptAcknowledged' /\ ActiveHasNotEnded'
  BY <1>1 DEF OutcomeInv, InterruptAcknowledged, ActiveHasNotEnded
<1>3. UnstartedIsSilent' /\ InterruptDecidesOutcome'
  BY <1>1 DEF OutcomeInv, UnstartedIsSilent, InterruptDecidesOutcome
<1> QED BY <1>2, <1>3 DEF OutcomeInv

\* An answer to a submission that does not start a turn.
LEMMA OutcomeAnswered ==
    ASSUME TypeInv, OutcomeInv, NEW r \in Requests, NEW s,
           status[r] # "started", s # "started", Answer(r, s),
           UNCHANGED <<active, interrupted, ending, aborting, pc, acked, events>>
    PROVE  OutcomeInv'
<1>1. \A t : Kinds(t)' = Kinds(t)
  BY DEF Kinds, Range
<1>2. \A t \in Requests : status'[t] = IF t = r THEN s ELSE status[t]
  BY DEF Answer, TypeInv, TypeOK, DataTypeOK, HostTypeOK
<1>3. OutcomeFrozen'
  BY DEF OutcomeInv, OutcomeFrozen
<1>4. InterruptAcknowledged'
  BY DEF OutcomeInv, InterruptAcknowledged
<1>5. ActiveHasNotEnded'
  <2>1. active \in Requests \cup {NoRequest}
    BY DEF TypeInv, TypeOK, DataTypeOK, StateTypeOK
  <2> QED BY <1>1, <1>2, <2>1 DEF OutcomeInv, ActiveHasNotEnded
<1>6. UnstartedIsSilent' /\ InterruptDecidesOutcome'
  BY <1>1, <1>2 DEF OutcomeInv, UnstartedIsSilent, InterruptDecidesOutcome
<1> QED BY <1>3, <1>4, <1>5, <1>6 DEF OutcomeInv

\* An interrupt is acknowledged before the outcome is frozen, and never of a
\* turn that has ended.
LEMMA OutcomeInterrupted ==
    ASSUME TypeInv, OutcomeInv, Interruptible, CancelTurn,
           UNCHANGED <<active, ending, aborting, pc, status, events>>
    PROVE  OutcomeInv'
<1>1. \A t : Kinds(t)' = Kinds(t)
  BY DEF Kinds, Range
<1>2. active \in Requests
  BY DEF TypeInv, TypeOK, DataTypeOK, StateTypeOK, Interruptible
<1>3. OutcomeFrozen'
  BY DEF OutcomeInv, OutcomeFrozen, Interruptible
<1>4. InterruptAcknowledged' /\ ActiveHasNotEnded'
  BY <1>1, <1>2 DEF OutcomeInv, InterruptAcknowledged, ActiveHasNotEnded, CancelTurn
<1>5. UnstartedIsSilent'
  BY <1>1, <1>2 DEF OutcomeInv, UnstartedIsSilent, CancelTurn, ActiveHasNotEnded, Interruptible
<1>6. InterruptDecidesOutcome'
  <2>1. "TurnComplete" \notin Kinds(active)
    BY DEF OutcomeInv, ActiveHasNotEnded, Terminal, Interruptible
  <2> QED BY <1>1, <2>1 DEF OutcomeInv, InterruptDecidesOutcome, CancelTurn
<1> QED BY <1>3, <1>4, <1>5, <1>6 DEF OutcomeInv

\* A turn starts with nothing reported and no interrupt acknowledged.
LEMMA OutcomeStarted ==
    ASSUME TypeInv, OutcomeInv, NEW r \in Requests, status[r] # "started", StartTurn(r)
    PROVE  OutcomeInv'
<1>1. <<"TurnStarted">> \in Seq(EventKinds) /\ Range(<<"TurnStarted">>) = {"TurnStarted"}
  BY DEF Range
<1>2. LogTypeOK /\ Emit(r, <<"TurnStarted">>)
  BY DEF TypeInv, TypeOK, DataTypeOK, StartTurn
<1>3. /\ Kinds(r)' = Kinds(r) \cup {"TurnStarted"}
      /\ \A t \in Requests \ {r} : Kinds(t)' = Kinds(t)
  BY <1>1, <1>2, EmitKinds
<1>4. r \notin acked /\ Kinds(r) = {}
  BY DEF OutcomeInv, UnstartedIsSilent
<1>5. /\ \A t \in Requests : status'[t] = IF t = r THEN "started" ELSE status[t]
      /\ active' = r /\ interrupted' = FALSE /\ pc' = "prepare" /\ acked' = acked
  BY DEF StartTurn, Answer, TypeInv, TypeOK, DataTypeOK, HostTypeOK
<1>6. OutcomeFrozen'
  BY <1>5 DEF OutcomeFrozen, ClosingPCs
<1>7. InterruptAcknowledged' /\ ActiveHasNotEnded'
  BY <1>3, <1>4, <1>5 DEF InterruptAcknowledged, ActiveHasNotEnded, Terminal
<1>8. UnstartedIsSilent' /\ InterruptDecidesOutcome'
  BY <1>3, <1>4, <1>5 DEF OutcomeInv, UnstartedIsSilent, InterruptDecidesOutcome
<1> QED BY <1>6, <1>7, <1>8 DEF OutcomeInv

\* The end that is reported is the one that was frozen.
LEMMA OutcomeEnded == TypeInv /\ OutcomeInv /\ EndTurn => OutcomeInv'
<1> SUFFICES ASSUME TypeInv, OutcomeInv, EndTurn PROVE OutcomeInv'
  OBVIOUS
<1>1. PICK e \in Requests : e = active
  BY DEF TypeInv, TypeOK, DataTypeOK, StateTypeOK, ActiveWhileRunning, EndTurn
<1>2. aborting \in BOOLEAN /\ interrupted \in BOOLEAN
  BY DEF TypeInv, TypeOK, FlagTypeOK
<1>3. aborting <=> e \in acked
  BY <1>1, <1>2, RequestsAssumption
     DEF OutcomeInv, OutcomeFrozen, InterruptAcknowledged, EndTurn, ClosingPCs
<1>4. LogTypeOK /\ Emit(e, TerminalEvents)
  BY <1>1 DEF TypeInv, TypeOK, DataTypeOK, EndTurn
<1>5. /\ Kinds(e)' = Kinds(e) \cup Range(TerminalEvents)
      /\ \A t \in Requests \ {e} : Kinds(t)' = Kinds(t)
  <2>1. TerminalEvents \in Seq(EventKinds)
    BY <1>2, TerminalKinds
  <2> HIDE DEF EventKinds
  <2> QED BY <1>4, <2>1, EmitKinds
<1>6. active' = NoRequest /\ pc' = "idle" /\ acked' = acked /\ status' = status
  BY DEF EndTurn, Goto
<1>7. OutcomeFrozen' /\ InterruptAcknowledged' /\ ActiveHasNotEnded'
  BY <1>6 DEF OutcomeFrozen, InterruptAcknowledged, ActiveHasNotEnded, ClosingPCs
<1>8. UnstartedIsSilent'
  BY <1>1, <1>5, <1>6, RequestsAssumption
     DEF OutcomeInv, UnstartedIsSilent, ActiveHasNotEnded
<1>9. InterruptDecidesOutcome'
  <2>1. "TurnAborted" \notin Kinds(e) /\ "TurnComplete" \notin Kinds(e)
    BY <1>1, RequestsAssumption DEF OutcomeInv, ActiveHasNotEnded, Terminal
  <2>2. /\ "TurnAborted" \in Range(TerminalEvents) => e \in acked
        /\ "TurnComplete" \in Range(TerminalEvents) => e \notin acked
    BY <1>2, <1>3, TerminalKinds
  <2> QED BY <1>5, <1>6, <2>1, <2>2 DEF OutcomeInv, InterruptDecidesOutcome
<1> QED BY <1>7, <1>8, <1>9 DEF OutcomeInv

\* A pause is reported of a turn that goes on.
LEMMA OutcomeAnnounced == TypeInv /\ OutcomeInv /\ AnnouncePause => OutcomeInv'
<1> SUFFICES ASSUME TypeInv, OutcomeInv, AnnouncePause PROVE OutcomeInv'
  OBVIOUS
<1>1. PICK e \in Requests : e = active
  BY DEF TypeInv, TypeOK, DataTypeOK, StateTypeOK, ActiveWhileRunning, AnnouncePause
<1>2. LogTypeOK /\ Emit(e, <<"AwaitingApproval">>)
  BY <1>1 DEF TypeInv, TypeOK, DataTypeOK, AnnouncePause
<1>3. <<"AwaitingApproval">> \in Seq(EventKinds)
      /\ Range(<<"AwaitingApproval">>) = {"AwaitingApproval"}
  BY DEF Range
<1>4. /\ Kinds(e)' = Kinds(e) \cup {"AwaitingApproval"}
      /\ \A t \in Requests \ {e} : Kinds(t)' = Kinds(t)
  BY <1>2, <1>3, EmitKinds
<1>5. /\ UNCHANGED <<active, interrupted, acked, status>>
      /\ pc' = "awaiting"
  BY DEF AnnouncePause, Goto
<1>6. OutcomeFrozen' /\ InterruptAcknowledged'
  BY <1>5 DEF OutcomeInv, OutcomeFrozen, InterruptAcknowledged, ClosingPCs
<1>7. ActiveHasNotEnded' /\ UnstartedIsSilent'
  <2>1. status[e] = "started" /\ Kinds(e) \cap Terminal = {}
    BY <1>1, RequestsAssumption DEF OutcomeInv, ActiveHasNotEnded
  <2>2. Kinds(active)' = Kinds(e)'
    BY <1>1, <1>5 DEF Kinds
  <2> QED BY <1>1, <1>4, <1>5, <2>1, <2>2
          DEF OutcomeInv, ActiveHasNotEnded, UnstartedIsSilent, Terminal
<1>8. InterruptDecidesOutcome'
  BY <1>4, <1>5 DEF OutcomeInv, InterruptDecidesOutcome
<1> QED BY <1>6, <1>7, <1>8 DEF OutcomeInv

\* Every action, of the thread, its turn or a host task, preserves OutcomeInv.
LEMMA OutcomeStep == TypeInv /\ OutcomeInv /\ [Next]_vars => OutcomeInv'
<1> SUFFICES ASSUME TypeInv, OutcomeInv, [Next]_vars PROVE OutcomeInv'
  OBVIOUS
<1>0. OutcomeFrozen
  BY DEF OutcomeInv
<1>1. CASE Host
  <2>1. ASSUME NEW r \in Requests,
               StartOrSteerTurn(r) \/ \E t \in Requests : SteerTurn(r, t)
        PROVE  OutcomeInv'
    <3>1. status[r] # "started"
      BY <2>1, Submission
    <3>2. CASE StartTurn(r)
      BY <3>1, <3>2, OutcomeStarted
    <3>3. CASE SteerInto(r)
      BY <3>1, <3>3, OutcomeAnswered DEF SteerInto
    <3>4. ASSUME NEW s \in {"refused", "waiting"}, OnlyAnswer(r, s) PROVE OutcomeInv'
      BY <3>1, <3>4, OutcomeAnswered DEF OnlyAnswer
    <3> QED BY <2>1, <3>2, <3>3, <3>4, Submission
  <2>2. CASE Interrupt
    BY <2>2, OutcomeInterrupted DEF Interrupt
  <2>3. CASE FinishTurnSettings
    BY <1>0, <2>3, OutcomeKept DEF FinishTurnSettings, OutcomeFrozen
  <2>4. ASSUME NEW v \in Published, \/ UpdateSettings(v)
                                    \/ \E t \in Requests : BeginTurnSettings(t, v)
        PROVE  OutcomeInv'
    BY <1>0, <2>4, OutcomeKept DEF UpdateSettings, BeginTurnSettings, OutcomeFrozen
  <2>5. ASSUME NEW p \in 1 .. pauses, RecordApproval(p) \/ ResumeTurn(p) PROVE OutcomeInv'
    BY <1>0, <2>5, OutcomeKept DEF RecordApproval, ResumeTurn, OutcomeFrozen
  <2> QED BY <1>1, <2>1, <2>2, <2>3, <2>4, <2>5 DEF Host
<1>2. ASSUME NEW c \in Closers, ShutdownTask(c) PROVE OutcomeInv'
  <2>1. CASE Shutdown(c)
    <3>1. CASE Interruptible /\ ~ interrupted
      BY <2>1, <3>1, OutcomeInterrupted DEF Shutdown
    <3>2. CASE ~ (Interruptible /\ ~ interrupted)
      BY <1>0, <2>1, <3>2, OutcomeKept DEF Shutdown, OutcomeFrozen
    <3> QED BY <3>1, <3>2
  <2>2. CASE ClaimSessionEnd(c) \/ DispatchSessionEnd(c) \/ FinishShutdown(c)
    BY <1>0, <2>2, OutcomeKept
       DEF ClaimSessionEnd, DispatchSessionEnd, FinishShutdown, OutcomeFrozen
  <2> QED BY <1>2, <2>1, <2>2 DEF ShutdownTask
<1>3. CASE NotifyWaiters
  <2>1. /\ UNCHANGED <<active, interrupted, ending, aborting, pc, acked, events>>
        /\ \A t \in Requests : status'[t] = "started" <=> status[t] = "started"
    BY <1>3 DEF NotifyWaiters
  <2>2. \A t : Kinds(t)' = Kinds(t)
    BY <2>1 DEF Kinds, Range
  <2>3. OutcomeFrozen' /\ InterruptAcknowledged' /\ InterruptDecidesOutcome'
    BY <2>1, <2>2 DEF OutcomeInv, OutcomeFrozen, InterruptAcknowledged, InterruptDecidesOutcome
  <2>4. active \in Requests \cup {NoRequest}
    BY DEF TypeInv, TypeOK, DataTypeOK, StateTypeOK
  <2>5. ActiveHasNotEnded' /\ UnstartedIsSilent'
    BY <2>1, <2>2, <2>4 DEF OutcomeInv, ActiveHasNotEnded, UnstartedIsSilent
  <2> QED BY <2>3, <2>5 DEF OutcomeInv
<1>4. CASE WallClockExpires
  BY <1>0, <1>4, OutcomeKept DEF WallClockExpires, OutcomeFrozen
<1>5. CASE Segment
  <2>1. /\ UNCHANGED <<active, interrupted, acked, status, events>>
        /\ pc' \notin ClosingPCs
    BY <1>5, SegmentFrame DEF TypeInv, TypeOK, SegmentPCs, ClosingPCs
  <2> QED BY <2>1, OutcomeKept DEF OutcomeFrozen
<1>6. CASE TurnTask
  <2> USE DEF Goto, ClosingPCs, OutcomeFrozen
  <2>1. CASE AcceptHostInput \/ StopHostInput
    BY <2>1, OutcomeKept DEF AcceptHostInput, StopHostInput
  <2>2. CASE PauseForApproval \/ WaitForAnswer
    BY <2>2, OutcomeKept DEF PauseForApproval, WaitForAnswer
  <2>3. CASE AnnouncePause
    BY <2>3, OutcomeAnnounced
  <2>4. CASE LeavePause
    BY <2>4, OutcomeKept DEF LeavePause
  <2>5. CASE CloseSettings \/ ClosePending
    BY <2>5, OutcomeKept DEF CloseSettings, ClosePending
  <2>6. CASE FreezeOutcome
    BY <2>6, OutcomeKept DEF FreezeOutcome
  <2>7. CASE KeepLeftover \/ FinishRecording
    BY <1>0, <2>7, OutcomeKept DEF KeepLeftover, FinishRecording
  <2>8. CASE EndTurn
    BY <2>8, OutcomeEnded
  <2> QED BY <1>5, <1>6, <2>1, <2>2, <2>3, <2>4, <2>5, <2>6, <2>7, <2>8 DEF TurnTask
<1>7. CASE UNCHANGED vars
  BY <1>0, <1>7, OutcomeKept DEF vars, OutcomeFrozen
<1> QED BY <1>1, <1>2, <1>3, <1>4, <1>6, <1>7 DEF Next

\* The invariant behind the outcome of every turn.
LEMMA OutcomeInvariant == Spec => []OutcomeInv
<1>1. Init => OutcomeInv
  <2> SUFFICES ASSUME Init PROVE OutcomeInv
    OBVIOUS
  <2>1. \A t \in Requests : Kinds(t) = {}
    BY DEF Init, Kinds, Range
  <2> QED BY <2>1 DEF Init, OutcomeInv, OutcomeFrozen, ClosingPCs, InterruptAcknowledged,
                      ActiveHasNotEnded, UnstartedIsSilent, InterruptDecidesOutcome
<1> QED BY <1>1, TypeInvariant, OutcomeStep, PTL DEF Spec

\* An interrupt the thread acknowledged, and only such an interrupt, ends a turn
\* aborted, for any number of requests, shutdowns, pauses and steps.
THEOREM InterruptOutcome == Spec => []InterruptDecidesOutcome
<1>1. OutcomeInv => InterruptDecidesOutcome
  BY DEF OutcomeInv
<1> QED BY <1>1, OutcomeInvariant, PTL

-----------------------------------------------------------------------------
(* Answers and pauses.                                                     *)

PausedPCs == {"announce", "awaiting", "woke"}

\* Only the current pause has a checkpoint that can be answered, and an answer
\* on its way to the turn's task is one to that pause.
PauseInv ==
    /\ paused # 0 => paused = pauses /\ pc \in PausedPCs
    /\ oneshot # "dropped" => pc \in PausedPCs
    /\ oneshot = "sent" => resumed = pauses
    /\ ResumesItsOwnPause

\* No action lets an answer to one pause reach the segment of another.
LEMMA PauseStep == TypeInv /\ PauseInv /\ [Next]_vars => PauseInv'
<1> SUFFICES ASSUME TypeInv, PauseInv, [Next]_vars PROVE PauseInv'
  OBVIOUS
<1> USE DEF PauseInv, PausedPCs, ResumesItsOwnPause
<1>0. ActiveWhileRunning /\ pauses \in Nat /\ paused \in Nat
  BY DEF TypeInv, TypeOK, DataTypeOK, StateTypeOK, HostTypeOK
<1>1. CASE Host
  <2>1. ASSUME NEW r \in Requests,
               StartOrSteerTurn(r) \/ \E t \in Requests : SteerTurn(r, t)
        PROVE  PauseInv'
    <3>1. CASE StartTurn(r) /\ active = NoRequest
      BY <1>0, <3>1 DEF StartTurn, ActiveWhileRunning
    <3>2. CASE SteerInto(r) \/ OnlyAnswer(r, "refused") \/ OnlyAnswer(r, "waiting")
      BY <3>2 DEF SteerInto, OnlyAnswer
    <3> QED BY <2>1, <3>1, <3>2, Submission
  <2>2. CASE Interrupt \/ FinishTurnSettings
    BY <2>2 DEF Interrupt, FinishTurnSettings
  <2>3. ASSUME NEW v \in Published, \/ UpdateSettings(v)
                                    \/ \E t \in Requests : BeginTurnSettings(t, v)
        PROVE  PauseInv'
    BY <2>3 DEF UpdateSettings, BeginTurnSettings
  <2>4. ASSUME NEW p \in 1 .. pauses, RecordApproval(p) PROVE PauseInv'
    BY <2>4 DEF RecordApproval
  <2>5. ASSUME NEW p \in 1 .. pauses, ResumeTurn(p) PROVE PauseInv'
    BY <2>5 DEF ResumeTurn, SameApprovalPause
  <2> QED BY <1>1, <2>1, <2>2, <2>3, <2>4, <2>5 DEF Host
<1>2. ASSUME NEW c \in Closers, ShutdownTask(c) PROVE PauseInv'
  BY <1>2 DEF ShutdownTask, Shutdown, ClaimSessionEnd, DispatchSessionEnd, FinishShutdown
<1>3. CASE NotifyWaiters \/ WallClockExpires
  BY <1>3 DEF NotifyWaiters, WallClockExpires
<1>4. CASE Segment
  <2>1. /\ pc \in SegmentPCs
        /\ pc' \in (SegmentPCs \ {"resume"}) \cup {"pausing", "close"}
        /\ UNCHANGED <<paused, oneshot>>
    BY <1>4, SegmentFrame DEF TypeInv, TypeOK
  <2> QED BY <2>1 DEF SegmentPCs
<1>5. CASE TurnTask
  <2> USE DEF Goto
  <2>1. CASE AcceptHostInput \/ StopHostInput
    BY <2>1 DEF AcceptHostInput, StopHostInput
  <2>2. CASE PauseForApproval
    BY <1>0, <2>2 DEF PauseForApproval
  <2>3. CASE AnnouncePause \/ WaitForAnswer
    BY <2>3 DEF AnnouncePause, WaitForAnswer
  <2>4. CASE LeavePause
    BY <2>4 DEF LeavePause
  <2>5. CASE CloseSettings \/ ClosePending \/ FreezeOutcome
    BY <2>5 DEF CloseSettings, ClosePending, FreezeOutcome
  <2>6. CASE KeepLeftover \/ FinishRecording \/ EndTurn
    BY <2>6 DEF KeepLeftover, FinishRecording, EndTurn
  <2> QED BY <1>4, <1>5, <2>1, <2>2, <2>3, <2>4, <2>5, <2>6 DEF TurnTask
<1>6. CASE UNCHANGED vars
  BY <1>6 DEF vars
<1> QED BY <1>1, <1>2, <1>3, <1>5, <1>6 DEF Next

\* The invariant behind the pauses.
LEMMA PauseInvariant == Spec => []PauseInv
<1>1. Init => PauseInv
  BY DEF Init, PauseInv, PausedPCs, ResumesItsOwnPause
<1> QED BY <1>1, TypeInvariant, PauseStep, PTL DEF Spec

\* A run continues only from the checkpoint of the pause it is in, however many
\* pauses the thread has seen and however late an earlier checkpoint comes back.
THEOREM ResumeOwnPause == Spec => []ResumesItsOwnPause
<1>1. PauseInv => ResumesItsOwnPause
  BY DEF PauseInv
<1> QED BY <1>1, PauseInvariant, PTL

-----------------------------------------------------------------------------
(* Shutting down.                                                          *)

Past == {"down", "hook", "flush", "done"}

\* A shutdown past its loop has closed the thread and found it idle; at most
\* one of them holds the claim to the SessionEnd hook, and only until it runs.
ClosedWhenPast ==
    /\ \A c \in Closers : closer[c] \in Past \cup {"waiting", "woken"} => shutDown
    /\ \A c \in Closers : closer[c] \in Past => active = NoRequest

HookClaimedOnce ==
    /\ sessionEnds > 0 => \E c \in Closers : closer[c] \in Past
    /\ ~ sessionEnded => sessionEnds = 0 /\ \A c \in Closers : closer[c] # "hook"
    /\ \A c \in Closers : closer[c] = "hook" => sessionEnds = 0
    /\ \A c, d \in Closers : closer[c] = "hook" /\ closer[d] = "hook" => c = d
    /\ sessionEnds <= 1

ShutdownInv == ClosedWhenPast /\ HookClaimedOnce

\* A step that moves no closer and starts no turn preserves ShutdownInv.
LEMMA ShutdownKept ==
    ASSUME ShutdownInv, UNCHANGED <<shutDown, sessionEnded, closer, sessionEnds>>,
           active' = active \/ active' = NoRequest
    PROVE  ShutdownInv'
BY DEF ShutdownInv, ClosedWhenPast, HookClaimedOnce

\* So does every other action: a turn starts only on a thread not shut down.
LEMMA ShutdownStep == TypeInv /\ ShutdownInv /\ [Next]_vars => ShutdownInv'
<1> SUFFICES ASSUME TypeInv, ShutdownInv, [Next]_vars PROVE ShutdownInv'
  OBVIOUS
<1>0. /\ closer \in [Closers -> {"new", "waiting", "woken", "down", "hook", "flush", "done"}]
      /\ sessionEnds \in Nat
  BY DEF TypeInv, TypeOK, DataTypeOK, HostTypeOK
<1>1. CASE Host
  <2>1. ASSUME NEW r \in Requests,
               StartOrSteerTurn(r) \/ \E t \in Requests : SteerTurn(r, t)
        PROVE  ShutdownInv'
    <3>1. CASE StartTurn(r) /\ ~ shutDown
      BY <3>1 DEF StartTurn, ShutdownInv, ClosedWhenPast, HookClaimedOnce
    <3>2. CASE SteerInto(r) \/ OnlyAnswer(r, "refused") \/ OnlyAnswer(r, "waiting")
      BY <3>2, ShutdownKept DEF SteerInto, OnlyAnswer
    <3> QED BY <2>1, <3>1, <3>2, Submission
  <2>2. CASE Interrupt \/ FinishTurnSettings
    BY <2>2, ShutdownKept DEF Interrupt, FinishTurnSettings
  <2>3. ASSUME NEW v \in Published, \/ UpdateSettings(v)
                                    \/ \E t \in Requests : BeginTurnSettings(t, v)
        PROVE  ShutdownInv'
    BY <2>3, ShutdownKept DEF UpdateSettings, BeginTurnSettings
  <2>4. ASSUME NEW p \in 1 .. pauses, RecordApproval(p) \/ ResumeTurn(p) PROVE ShutdownInv'
    BY <2>4, ShutdownKept DEF RecordApproval, ResumeTurn
  <2> QED BY <1>1, <2>1, <2>2, <2>3, <2>4 DEF Host
<1>2. ASSUME NEW c \in Closers, ShutdownTask(c) PROVE ShutdownInv'
  <2> USE DEF SetCloser
  <2>1. CASE Shutdown(c)
    <3>1. ClosedWhenPast'
      BY <1>0, <2>1 DEF Shutdown, ShutdownInv, ClosedWhenPast, Past
    <3>2. HookClaimedOnce'
      BY <1>0, <2>1 DEF Shutdown, ShutdownInv, HookClaimedOnce, Past
    <3> QED BY <3>1, <3>2 DEF ShutdownInv
  <2>2. CASE ClaimSessionEnd(c)
    <3>1. ClosedWhenPast'
      BY <1>0, <2>2 DEF ClaimSessionEnd, ShutdownInv, ClosedWhenPast, Past
    <3>2. HookClaimedOnce'
      BY <1>0, <2>2 DEF ClaimSessionEnd, ClaimsHook, ShutdownInv, HookClaimedOnce, Past
    <3> QED BY <3>1, <3>2 DEF ShutdownInv
  <2>3. CASE DispatchSessionEnd(c)
    <3>1. ClosedWhenPast'
      BY <1>0, <2>3 DEF DispatchSessionEnd, ShutdownInv, ClosedWhenPast, Past
    <3>2. HookClaimedOnce'
      BY <1>0, <2>3 DEF DispatchSessionEnd, ShutdownInv, HookClaimedOnce, Past
    <3> QED BY <3>1, <3>2 DEF ShutdownInv
  <2>4. CASE FinishShutdown(c)
    <3>1. ClosedWhenPast'
      BY <1>0, <2>4 DEF FinishShutdown, ShutdownInv, ClosedWhenPast, Past
    <3>2. HookClaimedOnce'
      BY <1>0, <2>4 DEF FinishShutdown, ShutdownInv, HookClaimedOnce, Past
    <3> QED BY <3>1, <3>2 DEF ShutdownInv
  <2> QED BY <1>2, <2>1, <2>2, <2>3, <2>4 DEF ShutdownTask
<1>3. CASE NotifyWaiters
  <2>1. ClosedWhenPast'
    BY <1>0, <1>3 DEF NotifyWaiters, ShutdownInv, ClosedWhenPast, Past
  <2>2. HookClaimedOnce'
    BY <1>0, <1>3 DEF NotifyWaiters, ShutdownInv, HookClaimedOnce, Past
  <2> QED BY <2>1, <2>2 DEF ShutdownInv
<1>4. CASE WallClockExpires
  BY <1>4, ShutdownKept DEF WallClockExpires
<1>5. CASE Segment
  <2>1. UNCHANGED <<shutDown, sessionEnded, closer, sessionEnds, active>>
    BY <1>5, SegmentFrame DEF TypeInv, TypeOK
  <2> QED BY <2>1, ShutdownKept
<1>6. CASE TurnTask
  <2>1. CASE AcceptHostInput \/ StopHostInput
    BY <2>1, ShutdownKept DEF AcceptHostInput, StopHostInput
  <2>2. CASE PauseForApproval \/ AnnouncePause \/ WaitForAnswer \/ LeavePause
    BY <2>2, ShutdownKept DEF PauseForApproval, AnnouncePause, WaitForAnswer, LeavePause
  <2>3. CASE CloseSettings \/ ClosePending \/ FreezeOutcome
    BY <2>3, ShutdownKept DEF CloseSettings, ClosePending, FreezeOutcome
  <2>4. CASE KeepLeftover \/ FinishRecording \/ EndTurn
    BY <2>4, ShutdownKept DEF KeepLeftover, FinishRecording, EndTurn
  <2> QED BY <1>5, <1>6, <2>1, <2>2, <2>3, <2>4 DEF TurnTask
<1>7. CASE UNCHANGED vars
  BY <1>7, ShutdownKept DEF vars
<1> QED BY <1>1, <1>2, <1>3, <1>4, <1>6, <1>7 DEF Next

\* The invariant behind both theorems about shutting down.
LEMMA ShutdownInvariant == Spec => []ShutdownInv
<1>1. Init => ShutdownInv
  BY DEF Init, ShutdownInv, ClosedWhenPast, HookClaimedOnce, Past
<1> QED BY <1>1, TypeInvariant, ShutdownStep, PTL DEF Spec

\* Once any shutdown is past its loop no turn runs and none ever starts.
THEOREM ShutdownFinal == Spec => []ShutdownIsFinal
<1>1. ShutdownInv => ShutdownIsFinal
  BY DEF ShutdownInv, ClosedWhenPast, ShutdownIsFinal, Past
<1> QED BY <1>1, ShutdownInvariant, PTL

\* However many tasks shut the thread down at once, the SessionEnd hook is run
\* at most once, and with no turn running.
THEOREM SessionEndsOnce == Spec => []SessionEndOnce
<1>1. TypeInv /\ ShutdownInv => SessionEndOnce
  BY DEF ShutdownInv, ClosedWhenPast, HookClaimedOnce, SessionEndOnce
<1> QED BY <1>1, TypeInvariant, ShutdownInvariant, PTL
=============================================================================
