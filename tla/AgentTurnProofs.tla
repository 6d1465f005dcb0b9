--------------------------- MODULE AgentTurnProofs ---------------------------
(***************************************************************************)
(* What TLAPS proves of the things a turn of AgentThread leaves behind: its *)
(* reports, its record in the rollout, the input steered into it, and the   *)
(* settings of the step a pause waits for.                                  *)
(***************************************************************************)
EXTENDS AgentThreadProofs, OrderLemmas

USE DEF MaybeTurn, Results, Ends, EventKinds, PendingInputType, LiveSettingsType,
        NewPendingInput, NewLiveSettings, ClosedSettings
USE DEF sessionVars, turnVars, stateVars, scopeVars, sharedVars, deliveryVars, progressVars,
        outcomeVars, taskVars, recordVars, callVars, hostVars, ghostVars

-----------------------------------------------------------------------------
(* The invariants.                                                         *)

LivePCs == {"prepare", "close"} \cup SegmentPCs \cup PausePCs

\* How far a turn has come: a step has been taken wherever one is needed to get
\* to, input that stops processing was denied at a step, and only a run stopped
\* for approval is in a pause.
ProgressInv ==
    /\ pc = "prepare" => steps = 0
    /\ pc \in (SegmentPCs \ {"top", "settle", "finish"}) \cup PausePCs => steps > 0
    /\ pc \in {"settle", "finish"} /\ result = "interrupted" => steps > 0
    /\ stopped => steps > 0
    /\ pc = "promptHook" /\ ret = "settle" => stopped
    /\ pc \in PausePCs => result = "interrupted"

\* A turn that runs has settings for its next step, and once it has taken one,
\* the settings that step captured.
SettingsInv ==
    /\ updating # NoUpdate => updating.value \in Configs
    /\ pc \in LivePCs => live.next \in Configs
    /\ pc \in SegmentPCs \cup PausePCs /\ steps > 0 => live.captured \in Configs
    /\ pc \in {"announce", "awaiting", "woke", "resume"} => stepConfig = live.captured

\* An update in flight is one published for the turn it names, and a turn's own
\* settings are among those it started with or had published for it.
OfferInv ==
    /\ updating # NoUpdate =>
         updating.turn \in Requests /\ updating.value \in offered[updating.turn]
    /\ active # NoRequest => /\ live.next \in offered[active] \cup {NoConfig}
                             /\ live.captured \in offered[active] \cup {NoConfig}

\* The run concluded in its loop, and nothing stopped it.
Concluded ==
    steps > 0 /\ resumed = 0 /\ result = "final" /\ ~ stopped /\ ~ ScopeCancelled

\* A queue found closed while the run looks for late input holds none, and one
\* on which the run concluded stays closed and empty to the end.
ConclusionInv ==
    /\ pc = "lateClose" /\ queue.closed /\ ~ stopped /\ ~ ScopeCancelled
         => queue.messages = <<>>
    /\ pc \in {"settle", "finish", "close", "drain"} /\ Concluded
         => queue.closed /\ queue.messages = <<>>
    /\ FinishedRunLeavesNoInput

\* A turn that runs has reported its start.
EventInv ==
    /\ active # NoRequest => events[active] # <<>>
    /\ TurnEventsWellFormed

\* The rollout ends in the record of a run's end only until the next turn.
RecordInv ==
    /\ rollout # <<>> /\ rollout[Len(rollout)] = "RunEnded" => pc \in {"end", "idle", "prepare"}
    /\ RunEndIsLast

\* What the turn's task holds is what the rollout replays to, and between turns
\* what the thread holds.
HistoryInv ==
    /\ Selected(rollout, Items) = hist
    /\ active = NoRequest => hist = history

Distinct(s) == \A i, j \in DOMAIN s : s[i] \in Requests /\ s[i] = s[j] => i = j

\* The messages of a thread, in the order they were accepted: the history, those a
\* hook let through, those taken from the queue, and the queue.
Line == hist \o (kept \o (taken \o queue.messages))

\* The places that are empty wherever their contents would be overwritten.
EmptyPlaces ==
    /\ pc # "promptHook" => kept = <<>>
    /\ pc \notin {"promptHook", "freeze", "leftover"} => taken = <<>>
    /\ pc \in {"freeze", "leftover", "record", "end", "idle"}
         => queue.closed /\ queue.messages = <<>>

\* No message is in the line twice; only submitted messages are in it, and the
\* one that started the turn is not until the hooks have let it through.
DeliveryInv ==
    /\ EmptyPlaces
    /\ Distinct(Line)
    /\ \A r \in Range(Line) \cap Requests : status[r] \in {"started", "steered"}
    /\ pc = "prepare" => active \notin Range(Line)

\* Every message a turn accepted is accounted for: while the turn runs, it is in
\* the line, or was denied, or the turn was interrupted; afterwards, in the history.
AccountInv ==
    /\ expired => WallClock
    /\ active # NoRequest /\ cancelled => active \in acked
    /\ Range(history) \subseteq Range(hist)
    /\ \A r \in Requests : turnOf[r] # NoRequest =>
          turnOf[r] \in Requests /\ status[turnOf[r]] = "started"
    /\ \A r \in WithMessage : turnOf[r] # NoRequest =>
          \/ r \in denied
          \/ turnOf[r] \in acked
          \/ turnOf[r] # active /\ r \in Range(history)
          \/ turnOf[r] = active /\ r \in Range(Line)
          \/ turnOf[r] = active /\ r = active /\ pc = "prepare"

-----------------------------------------------------------------------------
(* The steps, as these invariants see them.                                *)

\* A step of a host task, a shutdown, a wake-up or the wall clock that neither
\* starts a turn nor steers one.
QuietStep ==
    /\ UNCHANGED <<history, active, queue, pc, hist, taken, kept, ret, first, steps, stopped>>
    /\ UNCHANGED <<result, stepConfig, deferred, events, turnOf, denied, pauses>>
    /\ \/ UNCHANGED <<live, offered>> /\ updating' \in {updating, NoUpdate}
       \/ /\ updating'.value \in Published
          /\ updating'.turn \in Requests
          /\ Offer(updating'.turn, updating'.value)
          /\ live' = live
       \/ /\ live.next # NoConfig /\ updating # NoUpdate /\ active = updating.turn
          /\ live' = Update(live, updating.value)
          /\ updating' = NoUpdate
          /\ UNCHANGED offered
    /\ \A r \in Requests : \/ status'[r] = status[r]
                           \/ /\ status[r] \notin {"started", "steered"}
                              /\ status'[r] \notin {"started", "steered"}
    /\ acked \subseteq acked'
    /\ \/ cancelled' = cancelled
       \/ cancelled' = TRUE /\ active \in acked'
    /\ \/ expired' = expired
       \/ expired' = TRUE /\ WallClock = TRUE
    /\ \/ resumed' = resumed
       \/ pc \in PausedPCs
    /\ \/ rollout' = rollout
       \/ pc \in PausedPCs /\ rollout' = rollout \o <<"Approval">>

\* What the invariants know of the state before a step.
LEMMA Typed ==
    ASSUME TypeInv
    PROVE  /\ active \in Requests \cup {NoRequest} /\ (active = NoRequest <=> pc = "idle")
           /\ pc \in PCs /\ steps \in Nat /\ pauses \in Nat
           /\ history \in Seq(Items) /\ hist \in Seq(Items) /\ rollout \in Seq(Records)
           /\ taken \in Seq(Requests) /\ kept \in Seq(Requests)
           /\ queue.messages \in Seq(Requests) /\ queue.closed \in BOOLEAN
           /\ stopped \in BOOLEAN /\ cancelled \in BOOLEAN /\ expired \in BOOLEAN
           /\ ret \in {"deliver", "conclude", "late", "settle"}
           /\ result \in Results
           /\ live \in LiveSettingsType(Configs)
           /\ events \in [Requests -> Seq(EventKinds)]
           /\ turnOf \in [Requests -> Requests \cup {NoRequest}]
           /\ offered \in [Requests -> SUBSET Configs]
BY DEF TypeInv, TypeOK, FlagTypeOK, DataTypeOK, StateTypeOK, SharedTypeOK, TaskTypeOK,
       LogTypeOK, HostTypeOK, ActiveWhileRunning

\* A step starts a turn of an idle thread, steers the active one, is quiet, or is
\* one of the turn's task.
LEMMA Steps ==
    ASSUME TypeInv, PauseInv, [Next]_vars
    PROVE  \/ \E r \in Requests : /\ status[r] \in {"new", "woken"}
                                  /\ active = NoRequest
                                  /\ StartTurn(r)
           \/ \E r \in Requests : /\ status[r] \in {"new", "woken"}
                                  /\ active # NoRequest /\ ~ queue.closed
                                  /\ SteerInto(r)
           \/ QuietStep
           \/ TurnTask
<1> USE DEF QuietStep
<1>0. /\ status \in [Requests -> {"new", "waiting", "woken", "started", "steered", "refused"}]
      /\ cancelled \in BOOLEAN /\ expired \in BOOLEAN
  BY DEF TypeInv, TypeOK, FlagTypeOK, DataTypeOK, HostTypeOK
<1>1. ASSUME NEW r \in Requests, NEW s \in {"refused", "waiting"},
             status[r] \in {"new", "woken"}, OnlyAnswer(r, s)
      PROVE  QuietStep
  BY <1>0, <1>1 DEF OnlyAnswer, Answer
<1>2. ASSUME NEW r \in Requests, StartOrSteerTurn(r) \/ \E t \in Requests : SteerTurn(r, t)
      PROVE  \/ /\ status[r] \in {"new", "woken"}
                /\ active = NoRequest
                /\ StartTurn(r)
             \/ /\ status[r] \in {"new", "woken"}
                /\ active # NoRequest /\ ~ queue.closed
                /\ SteerInto(r)
             \/ QuietStep
  <2>1. \/ /\ status[r] \in {"new", "woken"}
           /\ \/ StartTurn(r) /\ active = NoRequest
              \/ SteerInto(r) /\ active # NoRequest /\ ~ queue.closed
              \/ OnlyAnswer(r, "refused")
              \/ OnlyAnswer(r, "waiting")
    BY <1>2, Zenon DEF StartOrSteerTurn, SteerTurn, PushAccepts
  <2> QED BY <1>1, <2>1
<1>3. CASE Interrupt
  BY <1>0, <1>3 DEF Interrupt, CancelTurn
<1>4. ASSUME NEW v \in Published, UpdateSettings(v) PROVE QuietStep
  BY <1>4 DEF UpdateSettings
<1>5. ASSUME NEW t \in Requests, NEW v \in Published, BeginTurnSettings(t, v) PROVE QuietStep
  <2>1. updating' = [turn |-> t, value |-> v]
    BY <1>5 DEF BeginTurnSettings
  <2>2. updating'.value = v /\ updating'.turn = t
    BY <2>1
  <2> QED BY <1>5, <2>2 DEF BeginTurnSettings
<1>6. CASE FinishTurnSettings
  <2>1. UNCHANGED <<stateVars, queue, scopeVars, oneshot, taskVars, recordVars, events,
                    callVars, closer, owed, ghostVars>>
    BY <1>6 DEF FinishTurnSettings
  <2>2. \/ live' = live /\ updating' = NoUpdate
        \/ /\ live.next # NoConfig /\ updating # NoUpdate /\ active = updating.turn
           /\ live' = Update(live, updating.value)
           /\ updating' = NoUpdate
    BY <1>6 DEF FinishTurnSettings, StillLive, LiveTarget, UpdateApplies
  <2> QED BY <2>1, <2>2
<1>7. ASSUME NEW p \in 1 .. pauses, RecordApproval(p) PROVE QuietStep
  <2>1. pc \in PausedPCs
    BY <1>7 DEF RecordApproval, SameApprovalPause, PauseInv
  <2>2. rollout' = rollout \o <<"Approval">>
    <3>1. rollout \in Seq(Records) /\ "Approval" \in Records
      BY Writable DEF TypeInv, TypeOK, DataTypeOK, LogTypeOK
    <3> QED BY <1>7, <3>1, AppendIsConcat DEF RecordApproval
  <2> QED BY <1>7, <2>1, <2>2 DEF RecordApproval
<1>8. ASSUME NEW p \in 1 .. pauses, ResumeTurn(p) PROVE QuietStep
  <2>1. pc \in PausedPCs
    BY <1>8 DEF ResumeTurn, SameApprovalPause, PauseInv
  <2> QED BY <1>8, <2>1 DEF ResumeTurn
<1>9. ASSUME NEW c \in Closers, ShutdownTask(c) PROVE QuietStep
  <2>1. CASE Shutdown(c)
    <3>1. CASE Interruptible /\ ~ interrupted
      BY <1>0, <2>1, <3>1 DEF Shutdown, CancelTurn
    <3>2. CASE ~ (Interruptible /\ ~ interrupted)
      BY <1>0, <2>1, <3>2 DEF Shutdown
    <3> QED BY <3>1, <3>2
  <2>2. CASE ClaimSessionEnd(c) \/ DispatchSessionEnd(c) \/ FinishShutdown(c)
    BY <2>2 DEF ClaimSessionEnd, DispatchSessionEnd, FinishShutdown
  <2> QED BY <1>9, <2>1, <2>2 DEF ShutdownTask
<1>10. CASE NotifyWaiters
  BY <1>10 DEF NotifyWaiters
<1>11. CASE WallClockExpires
  BY <1>11, BoundsAssumption DEF WallClockExpires
<1>12. CASE UNCHANGED vars
  BY <1>12 DEF vars
<1> QED BY <1>2, <1>3, <1>4, <1>5, <1>6, <1>7, <1>8, <1>9, <1>10, <1>11, <1>12
        DEF Next, Host

-----------------------------------------------------------------------------
(* Progress, settings, and the conclusion of a run.                        *)

\* A delivery, wherever in the loop it is made.
LEMMA Deliveries ==
    ASSUME NEW at, NEW q, NEW skip, DeliverPendingInput(at, q, skip)
    PROVE  /\ \/ /\ skip \/ ScopeCancelled \/ queue.messages = <<>>
                 /\ queue' = q /\ pc' = NoInput[at] /\ UNCHANGED deliveryVars
              \/ /\ ~ ScopeCancelled /\ queue.messages # <<>>
                 /\ queue' = Take(q) /\ pc' = "promptHook"
                 /\ taken' = queue.messages /\ kept' = <<>> /\ ret' = at
           /\ UNCHANGED <<live, hist, steps, stopped, resumed, result, rollout, denied>>
           /\ TaskUnchanged
BY DEF DeliverPendingInput, DeliverNothing, TakePendingInput, Goto

\* The deliveries, and the places they lead to.
LEMMA DeliveryPlaces ==
    ASSUME DeliverAtStep \/ DeliverAtConclusion \/ DeliverLate \/ Settle
    PROVE  \E at \in {"deliver", "conclude", "late", "settle"} :
             /\ pc = at
             /\ \/ at = "settle" /\ ~ stopped
                \/ queue.messages = <<>>
                \/ at = "deliver" /\ first
                \/ ScopeCancelled
                \/ pc' = "promptHook"
             /\ \/ /\ pc' = NoInput[at]
                   /\ UNCHANGED <<deliveryVars>>
                   /\ queue' \in {queue, Seal(queue)}
                   /\ at # "settle" => queue' = queue
                \/ /\ pc' = "promptHook"
                   /\ queue.messages # <<>> /\ ~ ScopeCancelled
                   /\ at = "settle" => stopped
                   /\ queue' \in {Take(queue), Take(Seal(queue))}
                   /\ taken' = queue.messages /\ kept' = <<>> /\ ret' = at
             /\ UNCHANGED <<live, hist, steps, stopped, resumed, result, rollout, denied>>
             /\ TaskUnchanged
<1>1. CASE DeliverAtStep
  BY <1>1, Deliveries DEF DeliverAtStep
<1>2. CASE DeliverAtConclusion
  BY <1>2, Deliveries DEF DeliverAtConclusion
<1>3. CASE DeliverLate
  BY <1>3, Deliveries DEF DeliverLate
<1>4. CASE Settle
  BY <1>4, Deliveries DEF Settle, NoInput, Goto
<1> QED BY <1>1, <1>2, <1>3, <1>4

\* How far a turn has come is kept by every step.
LEMMA ProgressStep == TypeInv /\ PauseInv /\ ProgressInv /\ [Next]_vars => ProgressInv'
<1> SUFFICES ASSUME TypeInv, PauseInv, ProgressInv, [Next]_vars PROVE ProgressInv'
  OBVIOUS
<1> USE DEF ProgressInv
<1>0. steps \in Nat /\ stopped \in BOOLEAN /\ ret \in {"deliver", "conclude", "late", "settle"}
  BY Typed
<1>1. ASSUME NEW r \in Requests, StartTurn(r) PROVE ProgressInv'
  BY <1>1 DEF StartTurn, SegmentPCs, PausePCs
<1>2. ASSUME NEW r \in Requests, SteerInto(r) PROVE ProgressInv'
  BY <1>2 DEF SteerInto
<1>3. CASE QuietStep
  BY <1>3 DEF QuietStep
<1>4. CASE Segment
  <2> USE DEF TaskUnchanged, Goto, EndSegment, StoppedByScope, SegmentPCs, PausePCs
  <2>1. CASE BeginStep
    BY <1>0, <2>1 DEF BeginStep
  <2>2. CASE DeliverAtStep \/ DeliverAtConclusion \/ DeliverLate \/ Settle
    <3>1. PICK at \in {"deliver", "conclude", "late", "settle"} :
             /\ pc = at
             /\ \/ pc' = NoInput[at] /\ UNCHANGED deliveryVars
                \/ pc' = "promptHook" /\ ret' = at /\ (at = "settle" => stopped)
             /\ UNCHANGED <<steps, stopped, result>>
      BY <2>2, DeliveryPlaces
    <3> QED BY <1>0, <3>1 DEF NoInput
  <2>3. CASE JudgePrompt
    BY <2>3 DEF JudgePrompt
  <2>4. CASE PromptHookCancelled
    BY <2>4 DEF PromptHookCancelled
  <2>5. CASE CommitDelivery
    BY <1>0, <2>5 DEF CommitDelivery, InputKept, InputDenied
  <2>6. CASE CallModel
    BY <2>6 DEF CallModel
  <2>7. CASE StepFails
    BY <2>7 DEF StepFails
  <2>8. CASE StopHook
    BY <2>8 DEF StopHook
  <2>9. CASE CloseLate
    BY <2>9 DEF CloseLate
  <2>10. CASE ResumeSegment
    BY <2>10 DEF ResumeSegment
  <2>11. ASSUME NEW res \in Results, FinishSegment(res) PROVE ProgressInv'
    BY <2>11 DEF FinishSegment, SegmentResults
  <2> QED BY <1>4, <2>1, <2>2, <2>3, <2>4, <2>5, <2>6, <2>7, <2>8, <2>9, <2>10, <2>11
          DEF Segment
<1>5. CASE TurnTask
  <2> USE DEF Goto, SegmentPCs, PausePCs
  <2>1. CASE AcceptHostInput \/ StopHostInput
    BY <2>1 DEF AcceptHostInput, StopHostInput
  <2>2. CASE PauseForApproval \/ AnnouncePause \/ WaitForAnswer
    BY <2>2 DEF PauseForApproval, AnnouncePause, WaitForAnswer
  <2>3. CASE LeavePause
    BY <2>3 DEF LeavePause
  <2>4. CASE CloseSettings \/ ClosePending \/ FreezeOutcome
    BY <2>4 DEF CloseSettings, ClosePending, FreezeOutcome
  <2>5. CASE KeepLeftover \/ FinishRecording \/ EndTurn
    BY <2>5 DEF KeepLeftover, FinishRecording, EndTurn
  <2> QED BY <1>4, <1>5, <2>1, <2>2, <2>3, <2>4, <2>5 DEF TurnTask
<1> QED BY <1>1, <1>2, <1>3, <1>5, Steps

\* The settings of a turn are kept by every step: only BeginStep captures, and
\* it finds settings to capture.
LEMMA SettingsStep ==
    TypeInv /\ PauseInv /\ ProgressInv /\ SettingsInv /\ [Next]_vars => SettingsInv'
<1> SUFFICES ASSUME TypeInv, PauseInv, ProgressInv, SettingsInv, [Next]_vars
             PROVE  SettingsInv'
  OBVIOUS
<1> USE RequestsAssumption DEF SettingsInv, LivePCs
<1>0. steps \in Nat /\ live \in LiveSettingsType(Configs)
  BY Typed
<1>1. ASSUME NEW r \in Requests, StartTurn(r) PROVE SettingsInv'
  <2>1. config \in Configs
    BY DEF TypeInv, TypeOK, DataTypeOK, StateTypeOK
  <2>2. config' \in Configs
    BY <1>1, <2>1 DEF StartTurn, ApplySettings
  <2> QED BY <1>1, <2>2 DEF StartTurn, SegmentPCs, PausePCs
<1>2. ASSUME NEW r \in Requests, SteerInto(r) PROVE SettingsInv'
  BY <1>2 DEF SteerInto
<1>3. CASE QuietStep
  <2>1. UNCHANGED <<pc, steps, stepConfig>>
    BY <1>3 DEF QuietStep
  <2>2. /\ updating' # NoUpdate => updating'.value \in Configs
        /\ live'.captured = live.captured
        /\ live.next \in Configs => live'.next \in Configs
    BY <1>3 DEF QuietStep, Update
  <2> QED BY <2>1, <2>2
<1>4. CASE Segment
  <2> USE DEF TaskUnchanged, Goto, EndSegment, SegmentPCs, PausePCs
  <2>1. CASE BeginStep
    <3>1. UNCHANGED updating
      BY <2>1 DEF BeginStep
    <3>2. \/ UNCHANGED <<live, steps>> /\ pc' = "settle"
          \/ live' = CaptureStep(live) /\ steps' = steps + 1 /\ pc' = "deliver"
      BY <2>1 DEF BeginStep
    <3>3. live.next \in Configs
      BY <2>1 DEF BeginStep
    <3> QED BY <1>0, <2>1, <3>1, <3>2, <3>3 DEF BeginStep, CaptureStep
  <2>2. ASSUME UNCHANGED <<live, steps, updating>>, pc \in SegmentPCs,
               pc' \in (SegmentPCs \ {"resume"}) \cup {"pausing", "close"}
        PROVE  SettingsInv'
    BY <2>2 DEF ProgressInv
  <2>3. pc \in SegmentPCs /\ pc' \in (SegmentPCs \ {"resume"}) \cup {"pausing", "close"}
    BY <1>4, SegmentFrame DEF TypeInv, TypeOK
  <2>4. CASE DeliverAtStep \/ DeliverAtConclusion \/ DeliverLate \/ Settle
    <3>1. UNCHANGED <<live, steps, updating>>
      BY <2>4, DeliveryPlaces
    <3> QED BY <2>2, <2>3, <3>1
  <2>5. CASE JudgePrompt \/ PromptHookCancelled \/ CommitDelivery
    BY <2>2, <2>3, <2>5 DEF JudgePrompt, PromptHookCancelled, CommitDelivery
  <2>6. CASE CallModel \/ StepFails \/ StopHook
    BY <2>2, <2>3, <2>6 DEF CallModel, StepFails, StopHook
  <2>7. CASE CloseLate \/ ResumeSegment
    BY <2>2, <2>3, <2>7 DEF CloseLate, ResumeSegment
  <2>8. ASSUME NEW res \in Results, FinishSegment(res) PROVE SettingsInv'
    BY <2>2, <2>3, <2>8 DEF FinishSegment
  <2> QED BY <1>4, <2>1, <2>4, <2>5, <2>6, <2>7, <2>8 DEF Segment
<1>5. CASE TurnTask
  <2> USE DEF Goto, SegmentPCs, PausePCs
  <2>1. CASE AcceptHostInput \/ StopHostInput
    BY <2>1 DEF AcceptHostInput, StopHostInput, ProgressInv
  <2>2. CASE PauseForApproval
    <3>1. live.captured \in Configs
      BY <2>2 DEF PauseForApproval, ProgressInv
    <3>2. /\ UNCHANGED <<live, steps, updating>> /\ pc = "pausing" /\ pc' = "announce"
          /\ stepConfig' = live.captured
      BY <2>2, <3>1 DEF PauseForApproval, IssuingSettings
    <3> QED BY <3>1, <3>2
  <2>3. CASE AnnouncePause \/ WaitForAnswer
    BY <2>3 DEF AnnouncePause, WaitForAnswer
  <2>4. CASE LeavePause
    BY <2>4 DEF LeavePause
  <2>5. CASE CloseSettings \/ ClosePending \/ FreezeOutcome
    BY <2>5 DEF CloseSettings, ClosePending, FreezeOutcome
  <2>6. CASE KeepLeftover \/ FinishRecording \/ EndTurn
    BY <2>6 DEF KeepLeftover, FinishRecording, EndTurn
  <2> QED BY <1>4, <1>5, <2>1, <2>2, <2>3, <2>4, <2>5, <2>6 DEF TurnTask
<1> QED BY <1>1, <1>2, <1>3, <1>5, Steps

\* A turn's settings are its own: an update is published for the turn it names
\* and lands in that turn or nowhere.
LEMMA OfferStep == TypeInv /\ PauseInv /\ OfferInv /\ [Next]_vars => OfferInv'
<1> SUFFICES ASSUME TypeInv, PauseInv, OfferInv, [Next]_vars PROVE OfferInv'
  OBVIOUS
<1> USE RequestsAssumption DEF OfferInv
<1>0. /\ active \in Requests \cup {NoRequest}
      /\ offered \in [Requests -> SUBSET Configs]
      /\ config \in Configs
  BY DEF TypeInv, TypeOK, DataTypeOK, StateTypeOK, HostTypeOK
<1>1. ASSUME NEW r \in Requests, StartTurn(r) PROVE OfferInv'
  <2>1. config' \in offered'[r] /\ active' = r /\ UNCHANGED updating
    BY <1>0, <1>1 DEF StartTurn, Offer
  <2>2. live'.next = config' /\ live'.captured = NoConfig
    BY <1>1 DEF StartTurn
  <2>3. \A t \in Requests : offered[t] \subseteq offered'[t]
    BY <1>0, <1>1 DEF StartTurn, Offer
  <2> QED BY <2>1, <2>2, <2>3
<1>2. ASSUME NEW r \in Requests, SteerInto(r) PROVE OfferInv'
  BY <1>2 DEF SteerInto
<1>3. CASE QuietStep
  <2>0. active' = active
    BY <1>3 DEF QuietStep
  <2>1. CASE UNCHANGED <<live, offered>> /\ updating' \in {updating, NoUpdate}
    BY <2>0, <2>1
  <2>2. CASE /\ updating'.value \in Published
             /\ updating'.turn \in Requests
             /\ Offer(updating'.turn, updating'.value)
             /\ live' = live
    <3>1. /\ updating'.value \in offered'[updating'.turn]
          /\ \A t \in Requests : offered[t] \subseteq offered'[t]
      BY <1>0, <2>2 DEF Offer
    <3> QED BY <1>0, <2>0, <2>2, <3>1
  <2>3. CASE /\ updating # NoUpdate /\ active = updating.turn
             /\ live' = Update(live, updating.value)
             /\ updating' = NoUpdate
             /\ UNCHANGED offered
    <3>1. live'.next = updating.value /\ live'.captured = live.captured
      BY <2>3 DEF Update
    <3> QED BY <2>0, <2>3, <3>1
  <2> QED BY <1>3, <2>1, <2>2, <2>3 DEF QuietStep
<1>4. CASE TurnTask
  <2>1. /\ UNCHANGED <<offered, updating>>
        /\ live' \in {live, CaptureStep(live), ClosedSettings}
        /\ active' \in {active, NoRequest}
    <3>1. CASE Segment
      <4> USE DEF TaskUnchanged
      <4>1. CASE BeginStep
        BY <4>1 DEF BeginStep
      <4>2. CASE DeliverAtStep \/ DeliverAtConclusion \/ DeliverLate \/ Settle
        BY <4>2, Deliveries
           DEF DeliverAtStep, DeliverAtConclusion, DeliverLate, Settle
      <4>3. CASE JudgePrompt \/ PromptHookCancelled \/ CommitDelivery
        BY <4>3 DEF JudgePrompt, PromptHookCancelled, CommitDelivery
      <4>4. CASE CallModel \/ StepFails \/ StopHook \/ CloseLate \/ ResumeSegment
        BY <4>4 DEF CallModel, StepFails, StopHook, CloseLate, ResumeSegment
      <4>5. ASSUME NEW res \in Results, FinishSegment(res)
            PROVE  UNCHANGED <<offered, updating, live, active>>
        BY <4>5 DEF FinishSegment
      <4> QED BY <3>1, <4>1, <4>2, <4>3, <4>4, <4>5 DEF Segment
    <3>2. CASE AcceptHostInput \/ StopHostInput
      BY <3>2 DEF AcceptHostInput, StopHostInput
    <3>3. CASE PauseForApproval \/ AnnouncePause \/ WaitForAnswer \/ LeavePause
      BY <3>3 DEF PauseForApproval, AnnouncePause, WaitForAnswer, LeavePause
    <3>4. CASE CloseSettings \/ ClosePending \/ FreezeOutcome
      BY <3>4 DEF CloseSettings, ClosePending, FreezeOutcome
    <3>5. CASE KeepLeftover \/ FinishRecording \/ EndTurn
      BY <3>5 DEF KeepLeftover, FinishRecording, EndTurn
    <3> QED BY <1>4, <3>1, <3>2, <3>3, <3>4, <3>5 DEF TurnTask
  <2>2. {live'.next, live'.captured} \subseteq {live.next, live.captured, NoConfig}
    BY <2>1 DEF CaptureStep
  <2> QED BY <2>1, <2>2
<1> QED BY <1>1, <1>2, <1>3, <1>4, Steps

\* What the run that concludes leaves in its queue.
LEMMA ConclusionStep ==
    TypeInv /\ PauseInv /\ ProgressInv /\ ConclusionInv /\ [Next]_vars => ConclusionInv'
<1> SUFFICES ASSUME TypeInv, PauseInv, ProgressInv, ConclusionInv, [Next]_vars
             PROVE  ConclusionInv'
  OBVIOUS
<1> USE DEF ConclusionInv, Concluded, FinishedRunLeavesNoInput, ScopeCancelled
<1>0. /\ steps \in Nat /\ stopped \in BOOLEAN /\ cancelled \in BOOLEAN /\ expired \in BOOLEAN
      /\ ret \in {"deliver", "conclude", "late", "settle"}
      /\ queue \in PendingInputType(Requests)
  BY Typed DEF TypeInv, TypeOK, DataTypeOK, SharedTypeOK
<1>1. ASSUME NEW r \in Requests, StartTurn(r) PROVE ConclusionInv'
  BY <1>1 DEF StartTurn
<1>2. ASSUME NEW r \in Requests, ~ queue.closed, SteerInto(r) PROVE ConclusionInv'
  BY <1>0, <1>2 DEF SteerInto, Push
<1>3. CASE QuietStep
  <2>1. /\ UNCHANGED <<pc, queue, taken, steps, stopped, result>>
        /\ resumed' = resumed \/ pc \in PausedPCs
        /\ ~ cancelled' => ~ cancelled
        /\ ~ expired' => ~ expired
    BY <1>3 DEF QuietStep
  <2> QED BY <2>1 DEF PausedPCs
<1>4. CASE Segment
  <2> USE DEF TaskUnchanged, Goto, EndSegment, StoppedByScope
  <2>1. CASE BeginStep
    BY <2>1 DEF BeginStep
  <2>2. CASE DeliverAtStep \/ DeliverAtConclusion \/ DeliverLate \/ Settle
    <3>1. PICK at \in {"deliver", "conclude", "late", "settle"} :
             /\ pc = at
             /\ \/ at = "settle" /\ ~ stopped
                \/ queue.messages = <<>>
                \/ at = "deliver" /\ first
                \/ ScopeCancelled
                \/ pc' = "promptHook"
             /\ \/ pc' = NoInput[at] /\ queue' \in {queue, Seal(queue)}
                \/ pc' = "promptHook"
             /\ UNCHANGED <<steps, stopped, resumed, result, cancelled, expired>>
      BY <2>2, DeliveryPlaces
    <3>2. CASE pc' = "promptHook"
      BY <3>2
    <3>3. CASE pc' = NoInput[at] /\ queue' \in {queue, Seal(queue)} /\ pc' # "promptHook"
      <4>1. queue'.messages = queue.messages /\ (queue.closed => queue'.closed)
        BY <3>3 DEF Seal
      <4>2. CASE at = "late"
        <5>1. pc' = "lateClose"
          BY <3>3, <4>2 DEF NoInput
        <5> QED BY <3>1, <3>3, <4>1, <4>2, <5>1
      <4>3. CASE at = "settle"
        <5>1. pc' = "finish"
          BY <3>3, <4>3 DEF NoInput
        <5> QED BY <3>1, <3>3, <4>1, <4>3, <5>1
      <4>4. CASE at \in {"deliver", "conclude"}
        <5>1. pc' \in {"model", "stopHook"}
          BY <3>3, <4>4 DEF NoInput
        <5> QED BY <5>1
      <4> QED BY <4>2, <4>3, <4>4
    <3> QED BY <3>1, <3>2, <3>3
  <2>3. CASE JudgePrompt
    BY <2>3 DEF JudgePrompt
  <2>4. CASE PromptHookCancelled
    BY <2>4 DEF PromptHookCancelled
  <2>5. CASE CommitDelivery
    <3>0. /\ stopped' <=> stopped \/ kept = <<>>
          /\ pc' = IF kept = <<>> THEN InputDenied[ret] ELSE InputKept[ret]
          /\ ret = "settle" => stopped
      BY <1>0, <2>5, Zenon DEF CommitDelivery, ProgressInv
    <3>1. CASE kept = <<>>
      <4>1. pc' \in {"settle", "lateClose", "finish"}
        BY <1>0, <3>0, <3>1 DEF InputDenied
      <4> QED BY <3>0, <3>1, <4>1
    <3>2. CASE kept # <<>>
      <4>1. \/ pc' \in {"model", "top"}
            \/ pc' = "finish" /\ ret = "settle"
        BY <1>0, <3>0, <3>2 DEF InputKept
      <4> QED BY <3>0, <4>1
    <3> QED BY <3>1, <3>2
  <2>6. CASE CallModel
    BY <2>6 DEF CallModel
  <2>7. CASE StepFails
    BY <2>7 DEF StepFails
  <2>8. CASE StopHook
    BY <2>8 DEF StopHook
  <2>9. CASE CloseLate
    BY <1>0, <2>9 DEF CloseLate, CloseIfEmpty
  <2>10. CASE ResumeSegment
    BY <2>10 DEF ResumeSegment
  <2>11. ASSUME NEW res \in Results, FinishSegment(res) PROVE ConclusionInv'
    BY <2>11 DEF FinishSegment, SegmentResults
  <2> QED BY <1>4, <2>1, <2>2, <2>3, <2>4, <2>5, <2>6, <2>7, <2>8, <2>9, <2>10, <2>11
          DEF Segment
<1>5. CASE TurnTask
  <2> USE DEF Goto
  <2>1. CASE AcceptHostInput \/ StopHostInput
    BY <2>1 DEF AcceptHostInput, StopHostInput, ProgressInv
  <2>2. CASE PauseForApproval \/ AnnouncePause \/ WaitForAnswer
    BY <2>2 DEF PauseForApproval, AnnouncePause, WaitForAnswer
  <2>3. CASE LeavePause
    BY <2>3 DEF LeavePause, ProgressInv, PausePCs
  <2>4. CASE CloseSettings \/ ClosePending \/ FreezeOutcome
    BY <2>4 DEF CloseSettings, ClosePending, FreezeOutcome
  <2>5. CASE KeepLeftover \/ FinishRecording \/ EndTurn
    BY <2>5 DEF KeepLeftover, FinishRecording, EndTurn
  <2> QED BY <1>4, <1>5, <2>1, <2>2, <2>3, <2>4, <2>5 DEF TurnTask
<1> QED BY <1>1, <1>2, <1>3, <1>5, Steps

\* The invariant of a turn's progress, with those that rest on it.
LEMMA ProgressInvariant == Spec => [](ProgressInv /\ SettingsInv /\ OfferInv /\ ConclusionInv)
<1>1. Init => ProgressInv /\ SettingsInv /\ OfferInv /\ ConclusionInv
  BY DEF Init, ProgressInv, SettingsInv, OfferInv, ConclusionInv, FinishedRunLeavesNoInput,
         Concluded, LivePCs, SegmentPCs, PausePCs
<1> QED BY <1>1, TypeInvariant, PauseInvariant, ProgressStep, SettingsStep, OfferStep,
           ConclusionStep, PTL DEF Spec

\* A paused run keeps the settings of the step that issued the calls it waits
\* for, whatever hosts publish to the turn meanwhile and however often it pauses,
\* and an update published for one turn never reaches the calls of another.
THEOREM PauseKeepsSettings == Spec => []PauseKeepsStepSettings
<1>1. TypeInv /\ ProgressInv /\ SettingsInv /\ OfferInv => PauseKeepsStepSettings
  <2> SUFFICES ASSUME TypeInv, ProgressInv, SettingsInv, OfferInv,
                      pc \in {"announce", "awaiting", "woke", "resume"}
               PROVE  stepConfig = live.captured /\ stepConfig \in offered[active]
    BY DEF PauseKeepsStepSettings
  <2>1. active # NoRequest
    BY Typed
  <2>2. steps > 0 /\ pc \in SegmentPCs \cup PausePCs
    BY DEF ProgressInv, SegmentPCs, PausePCs
  <2>3. live.captured \in Configs /\ stepConfig = live.captured
    BY <2>2 DEF SettingsInv
  <2> QED BY <2>1, <2>3, RequestsAssumption DEF OfferInv
<1> QED BY <1>1, TypeInvariant, ProgressInvariant, PTL

\* A run that concludes in its loop leaves no input its turn accepted, whenever
\* hosts steer it, with any number of pauses and with or without a deadline.
THEOREM FinishedRunReadAll == Spec => []FinishedRunLeavesNoInput
<1>1. ConclusionInv => FinishedRunLeavesNoInput
  BY DEF ConclusionInv
<1> QED BY <1>1, ProgressInvariant, PTL

-----------------------------------------------------------------------------
(* The reports of a turn.                                                  *)

\* Reports that follow a start, with no end among them but the last.
LEMMA ReportsFollow ==
    ASSUME NEW s \in Seq(EventKinds), s # <<>>, s[1] = "TurnStarted",
           \A i \in 1 .. Len(s) : (s[i] = "TurnStarted" => i = 1) /\ s[i] \notin Terminal,
           NEW k \in Seq(EventKinds),
           \A i \in 1 .. Len(k) : k[i] # "TurnStarted" /\ (k[i] \in Terminal => i = Len(k))
    PROVE  /\ s \o k # <<>>
           /\ (s \o k)[1] = "TurnStarted"
           /\ \A i \in DOMAIN (s \o k) :
                 /\ (s \o k)[i] = "TurnStarted" => i = 1
                 /\ (s \o k)[i] \in Terminal => i = Len(s \o k)
<1>1. Len(s) \in Nat \ {0} /\ Len(k) \in Nat
  OBVIOUS
<1>2. /\ s \o k \in Seq(EventKinds)
      /\ Len(s \o k) = Len(s) + Len(k)
      /\ DOMAIN (s \o k) = 1 .. (Len(s) + Len(k))
      /\ \A i \in 1 .. Len(s) : (s \o k)[i] = s[i]
      /\ \A i \in 1 .. (Len(s) + Len(k)) : i > Len(s) => (s \o k)[i] = k[i - Len(s)]
  OBVIOUS
<1>3. s \o k # <<>> /\ (s \o k)[1] = "TurnStarted"
  BY <1>1, <1>2
<1>4. ASSUME NEW i \in 1 .. (Len(s) + Len(k))
      PROVE  /\ (s \o k)[i] = "TurnStarted" => i = 1
             /\ (s \o k)[i] \in Terminal => i = Len(s \o k)
  <2>1. CASE i <= Len(s)
    <3>1. i \in 1 .. Len(s) /\ (s \o k)[i] = s[i]
      BY <1>1, <1>2, <2>1
    <3> QED BY <3>1
  <2>2. CASE i > Len(s)
    <3>1. i - Len(s) \in 1 .. Len(k) /\ (s \o k)[i] = k[i - Len(s)]
      BY <1>1, <1>2, <2>2
    <3>2. k[i - Len(s)] \in Terminal => i - Len(s) = Len(k)
      BY <3>1
    <3> QED BY <1>1, <1>2, <3>1, <3>2
  <2> QED BY <1>1, <2>1, <2>2
<1> QED BY <1>2, <1>3, <1>4

\* The reports of an end: one end, at the end.
LEMMA EndsOnce ==
    ASSUME aborting \in BOOLEAN
    PROVE  /\ TerminalEvents \in Seq(EventKinds)
           /\ Range(TerminalEvents) \cap Terminal # {}
           /\ \A i \in 1 .. Len(TerminalEvents) :
                 /\ TerminalEvents[i] # "TurnStarted"
                 /\ TerminalEvents[i] \in Terminal => i = Len(TerminalEvents)
<1>1. CASE aborting
  BY <1>1 DEF TerminalEvents, Range, Terminal
<1>2. CASE ~ aborting /\ end = "Failed"
  BY <1>2 DEF TerminalEvents, Range, Terminal
<1>3. CASE ~ aborting /\ end # "Failed"
  BY <1>3 DEF TerminalEvents, Range, Terminal
<1> QED BY <1>1, <1>2, <1>3

\* What TurnEventsWellFormed says of one turn, given whether it is active.
ReportsWellFormed(s, isActive) ==
    s # <<>> =>
        /\ s[1] = "TurnStarted"
        /\ \A i \in DOMAIN s :
              /\ s[i] = "TurnStarted" => i = 1
              /\ s[i] \in Terminal => i = Len(s)
        /\ isActive <=> Range(s) \cap Terminal = {}

\* ... which is what it says of all of them.
LEMMA WellFormedEach ==
    /\ TurnEventsWellFormed <=> \A t \in Requests : ReportsWellFormed(events[t], t = active)
    /\ TurnEventsWellFormed' <=> \A t \in Requests : ReportsWellFormed(events'[t], t = active')
<1>1. TurnEventsWellFormed <=> \A t \in Requests : ReportsWellFormed(events[t], t = active)
  BY DEF TurnEventsWellFormed, ReportsWellFormed, HasEnded, Kinds
<1>2. \A t : HasEnded(t)' <=> Range(events'[t]) \cap Terminal # {}
  BY DEF HasEnded, Kinds, Range, Terminal
<1>3. TurnEventsWellFormed' <=> \A t \in Requests : ReportsWellFormed(events'[t], t = active')
  BY <1>2 DEF TurnEventsWellFormed, ReportsWellFormed, Terminal
<1> QED BY <1>1, <1>3

\* A turn that goes on reports something that is not an end, or its end.
LEMMA EventsReported ==
    ASSUME TypeInv, OutcomeInv, EventInv, NEW e \in Requests, e = active,
           NEW k \in Seq(EventKinds), Emit(e, k),
           \A i \in 1 .. Len(k) : k[i] # "TurnStarted" /\ (k[i] \in Terminal => i = Len(k)),
           \/ active' = active /\ Range(k) \cap Terminal = {}
           \/ active' = NoRequest /\ Range(k) \cap Terminal # {}
    PROVE  EventInv'
<1>0. NoRequest \notin Requests
  BY RequestsAssumption
<1>1. \A u \in Requests : events'[u] = IF u = e THEN events[e] \o k ELSE events[u]
  BY Typed DEF Emit
<1>2. events[e] \in Seq(EventKinds) /\ events[e] # <<>> /\ Range(events[e]) \cap Terminal = {}
  BY <1>0, Typed DEF EventInv, OutcomeInv, ActiveHasNotEnded, Kinds
<1>3. PICK s \in Seq(EventKinds) : s = events[e]
  BY <1>2
<1>4. /\ s # <<>> /\ s[1] = "TurnStarted" /\ Len(s) \in Nat
      /\ \A i \in 1 .. Len(s) : (s[i] = "TurnStarted" => i = 1) /\ s[i] \notin Terminal
  <2>1. ReportsWellFormed(s, TRUE)
    BY <1>3, WellFormedEach DEF EventInv
  <2>2. \A i \in 1 .. Len(s) : s[i] \in Range(s)
    BY DEF Range
  <2> QED BY <1>2, <1>3, <2>1, <2>2 DEF ReportsWellFormed
<1>5. Range(s \o k) = Range(s) \cup Range(k)
  BY RangeOfConcat
<1>6. ReportsWellFormed(s \o k, Range(k) \cap Terminal = {})
  BY <1>2, <1>3, <1>4, <1>5, ReportsFollow DEF ReportsWellFormed
<1>7. ASSUME NEW t \in Requests PROVE ReportsWellFormed(events'[t], t = active')
  <2>1. CASE t = e
    <3>1. events'[t] = s \o k
      BY <1>1, <1>3, <2>1
    <3>2. (t = active') <=> Range(k) \cap Terminal = {}
      BY <1>0, <2>1
    <3> QED BY <1>6, <3>1, <3>2 DEF ReportsWellFormed
  <2>2. CASE t # e
    <3>1. events'[t] = events[t] /\ t # active /\ t # active'
      BY <1>0, <1>1, <2>2
    <3>2. ReportsWellFormed(events[t], t = active)
      BY WellFormedEach DEF EventInv
    <3> QED BY <3>1, <3>2 DEF ReportsWellFormed
  <2> QED BY <2>1, <2>2
<1>8. active' # NoRequest => events'[active'] # <<>>
  <2>1. s \o k # <<>>
    BY <1>4
  <2> QED BY <1>1, <1>3, <2>1
<1> QED BY <1>7, <1>8, WellFormedEach DEF EventInv

\* No step reports out of order.
LEMMA EventStep ==
    TypeInv /\ PauseInv /\ OutcomeInv /\ EventInv /\ [Next]_vars => EventInv'
<1> SUFFICES ASSUME TypeInv, PauseInv, OutcomeInv, EventInv, [Next]_vars PROVE EventInv'
  OBVIOUS
<1>1. ASSUME UNCHANGED <<active, events>> PROVE EventInv'
  BY <1>1, WellFormedEach DEF EventInv
<1>2. ASSUME NEW r \in Requests, status[r] \in {"new", "woken"}, active = NoRequest, StartTurn(r)
      PROVE  EventInv'
  <2>1. active' = r /\ Emit(r, <<"TurnStarted">>)
    BY <1>2 DEF StartTurn
  <2>2. events[r] = <<>>
    <3>1. Range(events[r]) = {} /\ events[r] \in Seq(EventKinds)
      BY <1>2, Typed DEF OutcomeInv, UnstartedIsSilent, Kinds
    <3>2. PICK s \in Seq(EventKinds) : s = events[r]
      BY <3>1
    <3>3. \A i \in 1 .. Len(s) : s[i] \in Range(s)
      BY DEF Range
    <3>4. Len(s) \in Nat /\ (Len(s) > 0 => 1 \in 1 .. Len(s))
      OBVIOUS
    <3>5. Len(s) = 0
      BY <3>1, <3>2, <3>3, <3>4
    <3> QED BY <3>2, <3>5
  <2>3. \A u \in Requests : events'[u] = IF u = r THEN <<"TurnStarted">> ELSE events[u]
    <3>1. <<>> \o <<"TurnStarted">> = <<"TurnStarted">>
      OBVIOUS
    <3>2. \A u \in Requests : events'[u] = IF u = r THEN events[r] \o <<"TurnStarted">> ELSE events[u]
      BY <2>1, Typed DEF Emit
    <3> QED BY <2>2, <3>1, <3>2
  <2>4. ReportsWellFormed(<<"TurnStarted">>, TRUE)
    BY DEF ReportsWellFormed, Range, Terminal
  <2>5. ASSUME NEW t \in Requests PROVE ReportsWellFormed(events'[t], t = active')
    <3>1. CASE t = r
      BY <2>1, <2>3, <2>4, <3>1
    <3>2. CASE t # r
      <4>1. ReportsWellFormed(events[t], t = active)
        BY WellFormedEach DEF EventInv
      <4>2. t # active /\ t # active' /\ events'[t] = events[t]
        BY <1>2, <2>1, <2>3, <3>2, RequestsAssumption
      <4> QED BY <4>1, <4>2 DEF ReportsWellFormed
    <3> QED BY <3>1, <3>2
  <2>6. events'[active'] # <<>>
    BY <2>1, <2>3
  <2> QED BY <2>5, <2>6, WellFormedEach DEF EventInv
<1>3. ASSUME NEW r \in Requests, SteerInto(r) PROVE EventInv'
  BY <1>1, <1>3 DEF SteerInto
<1>4. CASE QuietStep
  BY <1>1, <1>4 DEF QuietStep
<1>5. CASE AnnouncePause
  <2>1. PICK e \in Requests : e = active
    BY <1>5, Typed DEF AnnouncePause
  <2>2. Emit(e, <<"AwaitingApproval">>) /\ active' = active
    BY <1>5, <2>1 DEF AnnouncePause
  <2>3. PICK k \in Seq(EventKinds) : k = <<"AwaitingApproval">>
    <3>1. <<"AwaitingApproval">> \in Seq(EventKinds)
      OBVIOUS
    <3> QED BY <3>1, Zenon
  <2>4. /\ \A i \in 1 .. Len(k) : k[i] # "TurnStarted" /\ (k[i] \in Terminal => i = Len(k))
        /\ Range(k) \cap Terminal = {}
    BY <2>3 DEF Terminal, Range
  <2> QED BY <2>1, <2>2, <2>3, <2>4, EventsReported
<1>6. CASE EndTurn
  <2>1. PICK e \in Requests : e = active
    BY <1>6, Typed DEF EndTurn
  <2>2. Emit(e, TerminalEvents) /\ active' = NoRequest
    BY <1>6, <2>1 DEF EndTurn
  <2>3. aborting \in BOOLEAN
    BY DEF TypeInv, TypeOK, FlagTypeOK
  <2> HIDE DEF EventKinds
  <2>4. PICK k \in Seq(EventKinds) : k = TerminalEvents
    BY <2>3, EndsOnce
  <2>5. /\ \A i \in 1 .. Len(k) : k[i] # "TurnStarted" /\ (k[i] \in Terminal => i = Len(k))
        /\ Range(k) \cap Terminal # {}
    BY <2>3, <2>4, EndsOnce
  <2> QED BY <2>1, <2>2, <2>4, <2>5, EventsReported
<1>7. CASE Segment
  <2>1. UNCHANGED <<active, events>>
    BY <1>7, SegmentFrame DEF TypeInv, TypeOK
  <2> QED BY <1>1, <2>1
<1>8. CASE TurnTask
  <2>1. CASE AcceptHostInput \/ StopHostInput
    BY <1>1, <2>1 DEF AcceptHostInput, StopHostInput
  <2>2. CASE PauseForApproval \/ WaitForAnswer \/ LeavePause
    BY <1>1, <2>2 DEF PauseForApproval, WaitForAnswer, LeavePause
  <2>3. CASE CloseSettings \/ ClosePending \/ FreezeOutcome
    BY <1>1, <2>3 DEF CloseSettings, ClosePending, FreezeOutcome
  <2>4. CASE KeepLeftover \/ FinishRecording
    BY <1>1, <2>4 DEF KeepLeftover, FinishRecording
  <2> QED BY <1>5, <1>6, <1>7, <1>8, <2>1, <2>2, <2>3, <2>4 DEF TurnTask
<1> QED BY <1>2, <1>3, <1>4, <1>8, Steps

\* Every turn reports its start first and exactly one end, last, and every turn
\* but the active one has reported it.
THEOREM TurnsReported == Spec => []TurnEventsWellFormed
<1>1. Init => EventInv
  BY DEF Init, EventInv, TurnEventsWellFormed
<1>2. EventInv => TurnEventsWellFormed
  BY DEF EventInv
<1> QED BY <1>1, <1>2, TypeInvariant, PauseInvariant, OutcomeInvariant, EventStep, PTL DEF Spec

-----------------------------------------------------------------------------
(* The record of a turn in the rollout.                                    *)

\* What a step of the turn's task adds to its history and to the rollout.
LEMMA TaskWrites ==
    ASSUME TypeInv, TurnTask
    PROVE  /\ active' = NoRequest => history' = hist'
           /\ \/ /\ UNCHANGED <<hist, rollout>>
                 /\ pc \notin {"prepare", "idle"} /\ (pc = "end" => pc' = "idle")
              \/ /\ pc \notin {"prepare", "idle", "end"}
                 /\ \E s \in Seq(Items) : hist' = hist \o s /\ rollout' = rollout \o s
              \/ /\ pc = "prepare" /\ pc' # "prepare"
                 /\ \E s \in Seq(Items) : /\ hist' = hist \o s
                                          /\ rollout' = rollout \o (<<"RunStarted">> \o s)
              \/ /\ pc \in {"finish", "woke"} /\ hist' = hist
                 /\ \E x \in {"RunPaused", "RunStarted"} : rollout' = rollout \o <<x>>
              \/ /\ pc = "record" /\ pc' = "end" /\ hist' = hist
                 /\ rollout' = rollout \o <<"RunEnded">>
<1> USE DEF Log, Goto
<1>0. /\ hist \in Seq(Items) /\ rollout \in Seq(Records)
      /\ taken \in Seq(Requests) /\ kept \in Seq(Requests)
      /\ active = NoRequest <=> pc = "idle"
  BY Typed
<1>1. Requests \subseteq Items /\ Reply \in Items /\ Marker \in Items
  BY DEF Items
<1>2. kept \in Seq(Items) /\ taken \in Seq(Items) /\ <<>> \in Seq(Items)
  BY <1>0, <1>1, SequenceOver
<1>3. <<Reply>> \in Seq(Items) /\ <<Marker>> \in Seq(Items)
  BY <1>1, Singleton
<1>4. hist \o <<>> = hist /\ rollout \o <<>> = rollout
  BY <1>0
<1>5. CASE Segment
  <2> USE DEF TaskUnchanged
  <2>0. pc \in SegmentPCs /\ UNCHANGED active
    BY <1>5, SegmentFrame DEF TypeInv, TypeOK
  <2>1. pc \notin {"prepare", "idle", "end"} /\ active' # NoRequest
    BY <1>0, <2>0 DEF SegmentPCs
  <2>2. CASE BeginStep
    BY <2>1, <2>2 DEF BeginStep
  <2>3. CASE DeliverAtStep \/ DeliverAtConclusion \/ DeliverLate \/ Settle
    <3>1. UNCHANGED <<hist, rollout>>
      BY <2>3, DeliveryPlaces
    <3> QED BY <2>1, <3>1
  <2>4. CASE JudgePrompt \/ PromptHookCancelled
    BY <2>1, <2>4 DEF JudgePrompt, PromptHookCancelled
  <2>5. CASE CommitDelivery
    BY <1>2, <2>1, <2>5 DEF CommitDelivery
  <2>6. CASE CallModel
    <3>1. hist' = hist \o <<Reply>>
      BY <1>0, <1>1, <2>6, AppendIsConcat DEF CallModel
    <3>2. rollout' = rollout \o <<Reply>>
      BY <2>6 DEF CallModel
    <3> QED BY <1>3, <2>1, <3>1, <3>2
  <2>7. CASE StepFails \/ StopHook \/ CloseLate \/ ResumeSegment
    BY <2>1, <2>7 DEF StepFails, StopHook, CloseLate, ResumeSegment
  <2>8. ASSUME NEW res \in Results, FinishSegment(res)
        PROVE  \/ UNCHANGED <<hist, rollout>>
               \/ hist' = hist \o <<Marker>> /\ rollout' = rollout \o <<Marker>>
               \/ /\ pc = "finish" /\ hist' = hist
                  /\ rollout' = rollout \o <<"RunPaused">>
    <3>1. CASE res = "interrupted"
      <4>1. <<>> \o <<"RunPaused">> = <<"RunPaused">>
        OBVIOUS
      <4> QED BY <1>4, <2>8, <3>1, <4>1 DEF FinishSegment, LeaveMarker, EndRecord
    <3>2. CASE res = "cancelled" /\ cancelled
      <4>1. <<Marker>> \o <<>> = <<Marker>>
        BY <1>3
      <4> QED BY <2>8, <3>2, <4>1 DEF FinishSegment, LeaveMarker, EndRecord
    <3>3. CASE res # "interrupted" /\ ~ (res = "cancelled" /\ cancelled)
      <4>1. <<>> \o <<>> = <<>>
        OBVIOUS
      <4> QED BY <1>4, <2>8, <3>3, <4>1 DEF FinishSegment, LeaveMarker, EndRecord
    <3> QED BY <3>1, <3>2, <3>3
  <2> QED BY <1>3, <1>5, <2>1, <2>2, <2>3, <2>4, <2>5, <2>6, <2>7, <2>8 DEF Segment
<1>6. CASE AcceptHostInput
  <2>1. Submitted \in Seq(Items)
    BY <1>1, <1>2, Singleton, RequestsAssumption DEF Submitted
  <2> QED BY <1>0, <1>6, <2>1 DEF AcceptHostInput
<1>7. CASE StopHostInput
  <2>1. <<"RunStarted">> \o <<>> = <<"RunStarted">>
    OBVIOUS
  <2> QED BY <1>0, <1>2, <1>4, <1>7, <2>1 DEF StopHostInput
<1>8. CASE PauseForApproval \/ AnnouncePause \/ WaitForAnswer
  BY <1>0, <1>8 DEF PauseForApproval, AnnouncePause, WaitForAnswer
<1>9. CASE LeavePause
  <2>1. <<Marker>> \o <<>> = <<Marker>>
    BY <1>3
  <2> QED BY <1>0, <1>3, <1>9, <2>1 DEF LeavePause, LeaveMarker
<1>10. CASE CloseSettings \/ ClosePending \/ FreezeOutcome
  BY <1>0, <1>10 DEF CloseSettings, ClosePending, FreezeOutcome
<1>11. CASE KeepLeftover
  <2>1. Leftover \in Seq(Items)
    BY <1>2 DEF Leftover
  <2> QED BY <1>0, <1>11, <2>1 DEF KeepLeftover
<1>12. CASE FinishRecording
  BY <1>0, <1>4, <1>12 DEF FinishRecording
<1>13. CASE EndTurn
  BY <1>13 DEF EndTurn
<1> QED BY <1>5, <1>6, <1>7, <1>8, <1>9, <1>10, <1>11, <1>12, <1>13 DEF TurnTask

EndIsLast(r) == \A i \in 1 .. Len(r) : r[i] = "RunEnded" /\ i < Len(r) => r[i + 1] = "RunStarted"
EndsInEnd(r) == r # <<>> /\ r[Len(r)] = "RunEnded"

\* Records with no end among them can follow a rollout that does not end in one,
\* and after one that does, those of a run's start.
LEMMA RecordsFollow ==
    ASSUME NEW r \in Seq(Records), EndIsLast(r), NEW s \in Seq(Records),
           \A i \in 1 .. Len(s) : s[i] # "RunEnded",
           EndsInEnd(r) /\ s # <<>> => s[1] = "RunStarted"
    PROVE  EndIsLast(r \o s) /\ (EndsInEnd(r \o s) => s = <<>> /\ EndsInEnd(r))
<1>1. /\ Len(r \o s) = Len(r) + Len(s) /\ Len(r) \in Nat /\ Len(s) \in Nat
      /\ \A i \in 1 .. Len(r) : (r \o s)[i] = r[i]
      /\ \A i \in 1 .. (Len(r) + Len(s)) : i > Len(r) => (r \o s)[i] = s[i - Len(r)]
  OBVIOUS
<1>2. CASE s = <<>>
  <2>1. r \o s = r
    BY <1>2
  <2> QED BY <1>2, <2>1
<1>3. CASE s # <<>>
  <2>0. Len(s) > 0
    BY <1>1, <1>3
  <2>1. ASSUME NEW i \in 1 .. (Len(r) + Len(s)), (r \o s)[i] = "RunEnded", i < Len(r \o s)
        PROVE  (r \o s)[i + 1] = "RunStarted"
    <3>1. CASE i < Len(r)
      <4>1. i \in 1 .. Len(r) /\ i + 1 \in 1 .. Len(r)
        BY <1>1, <3>1
      <4>2. r[i] = "RunEnded"
        BY <1>1, <2>1, <4>1
      <4>3. r[i + 1] = "RunStarted"
        BY <3>1, <4>1, <4>2 DEF EndIsLast
      <4> QED BY <1>1, <4>1, <4>3
    <3>2. CASE i = Len(r)
      <4>1. EndsInEnd(r)
        BY <1>1, <2>1, <3>2 DEF EndsInEnd
      <4>2. (r \o s)[Len(r) + 1] = s[1]
        BY <1>1, <2>0
      <4> QED BY <1>3, <3>2, <4>1, <4>2
    <3>3. CASE i > Len(r)
      <4>1. i - Len(r) \in 1 .. Len(s) /\ (r \o s)[i] = s[i - Len(r)]
        BY <1>1, <3>3
      <4> QED BY <2>1, <4>1
    <3>4. i < Len(r) \/ i = Len(r) \/ i > Len(r)
      BY <1>1
    <3> QED BY <3>1, <3>2, <3>3, <3>4, Zenon
  <2>2. (r \o s)[Len(r \o s)] = s[Len(s)] /\ Len(s) \in 1 .. Len(s)
    BY <1>1, <2>0
  <2> QED BY <1>1, <2>1, <2>2 DEF EndIsLast, EndsInEnd
<1> QED BY <1>2, <1>3

\* The end itself can follow one that does not end in an end.
LEMMA EndFollows ==
    ASSUME NEW r \in Seq(Records), EndIsLast(r), ~ EndsInEnd(r)
    PROVE  EndIsLast(r \o <<"RunEnded">>)
<1>1. /\ Len(r \o <<"RunEnded">>) = Len(r) + 1 /\ Len(r) \in Nat
      /\ \A i \in 1 .. Len(r) : (r \o <<"RunEnded">>)[i] = r[i]
  OBVIOUS
<1>2. \A i \in 1 .. Len(r) : i = Len(r) => r # <<>> /\ r[i] # "RunEnded"
  BY <1>1 DEF EndsInEnd
<1>3. ASSUME NEW i \in 1 .. (Len(r) + 1), i < Len(r) + 1, (r \o <<"RunEnded">>)[i] = "RunEnded"
      PROVE  (r \o <<"RunEnded">>)[i + 1] = "RunStarted"
  <2>1. i \in 1 .. Len(r) /\ r[i] = "RunEnded"
    BY <1>1, <1>3
  <2>2. i < Len(r) /\ i + 1 \in 1 .. Len(r)
    BY <1>1, <1>2, <2>1
  <2> QED BY <1>1, <2>1, <2>2 DEF EndIsLast
<1> QED BY <1>1, <1>3 DEF EndIsLast

\* A record is not an item of the history.
LEMMA RecordKinds ==
    /\ "RunStarted" \notin Items /\ "Approval" \notin Items
    /\ "RunPaused" \notin Items /\ "RunEnded" \notin Items
BY KindsAssumption DEF Items, Reply, Marker

\* No step writes anything after a run's end but the start of the next.
LEMMA RecordStep == TypeInv /\ PauseInv /\ RecordInv /\ [Next]_vars => RecordInv'
<1> SUFFICES ASSUME TypeInv, PauseInv, RecordInv, [Next]_vars PROVE RecordInv'
  OBVIOUS
<1>0. PICK r \in Seq(Records) : r = rollout
  BY Typed
<1>1. EndIsLast(r) /\ (EndsInEnd(r) => pc \in {"end", "idle", "prepare"})
  BY <1>0 DEF RecordInv, RunEndIsLast, EndIsLast, EndsInEnd
<1>2. ASSUME NEW w \in Seq(Records), rollout' = w, EndIsLast(w),
             EndsInEnd(w) => pc' \in {"end", "idle", "prepare"}
      PROVE  RecordInv'
  BY <1>2 DEF RecordInv, RunEndIsLast, EndIsLast, EndsInEnd
<1>3. ASSUME UNCHANGED rollout, pc \in {"end", "idle", "prepare"} => pc' \in {"end", "idle", "prepare"}
      PROVE  RecordInv'
  BY <1>0, <1>1, <1>2, <1>3
<1>4. ASSUME NEW s \in Seq(Records), rollout' = rollout \o s,
             \A i \in 1 .. Len(s) : s[i] # "RunEnded",
             \/ pc \notin {"end", "idle", "prepare"}
             \/ s # <<>> /\ s[1] = "RunStarted"
      PROVE  RecordInv'
  <2>1. EndsInEnd(r) /\ s # <<>> => s[1] = "RunStarted"
    BY <1>1, <1>4
  <2>2. EndIsLast(r \o s) /\ (EndsInEnd(r \o s) => s = <<>> /\ EndsInEnd(r))
    BY <1>1, <1>4, <2>1, RecordsFollow
  <2>3. r \o s \in Seq(Records) /\ ~ EndsInEnd(r \o s)
    BY <1>1, <1>4, <2>2
  <2> QED BY <1>0, <1>2, <1>4, <2>2, <2>3
<1>5. ASSUME NEW x \in {"RunPaused", "RunStarted", "Approval"}, rollout' = rollout \o <<x>>,
             pc \notin {"end", "idle", "prepare"}
      PROVE  RecordInv'
  <2>1. PICK s \in Seq(Records) : s = <<x>>
    <3>1. <<x>> \in Seq(Records)
      BY RecordKinds, Writable, Singleton
    <3> QED BY <3>1, Zenon
  <2>2. \A i \in 1 .. Len(s) : s[i] # "RunEnded"
    BY <2>1
  <2> QED BY <1>4, <1>5, <2>1, <2>2
<1>6. ASSUME NEW s \in Seq(Items)
      PROVE  /\ s \in Seq(Records) /\ \A i \in 1 .. Len(s) : s[i] # "RunEnded"
             /\ \A i \in 1 .. Len(<<"RunStarted">> \o s) : (<<"RunStarted">> \o s)[i] # "RunEnded"
             /\ <<"RunStarted">> \o s \in Seq(Records)
             /\ <<"RunStarted">> \o s # <<>> /\ (<<"RunStarted">> \o s)[1] = "RunStarted"
  <2>1. s \in Seq(Records) /\ <<"RunStarted">> \in Seq(Records)
    BY RecordKinds, Writable, SequenceOver, Singleton
  <2>2. \A i \in 1 .. Len(s) : s[i] # "RunEnded"
    BY RecordKinds, Writable
  <2>3. /\ Len(<<"RunStarted">> \o s) = 1 + Len(s) /\ Len(s) \in Nat
        /\ (<<"RunStarted">> \o s)[1] = "RunStarted"
        /\ \A i \in 1 .. (1 + Len(s)) : i > 1 => (<<"RunStarted">> \o s)[i] = s[i - 1]
    BY <2>1
  <2>4. ASSUME NEW i \in 1 .. (1 + Len(s)) PROVE (<<"RunStarted">> \o s)[i] # "RunEnded"
    <3>1. CASE i = 1
      BY <2>3, <3>1
    <3>2. CASE i # 1
      <4>1. i > 1 /\ i - 1 \in 1 .. Len(s)
        BY <2>3, <3>2
      <4> QED BY <2>2, <2>3, <4>1
    <3> QED BY <3>1, <3>2
  <2> QED BY <2>1, <2>2, <2>3, <2>4
<1>7. ASSUME NEW q \in Requests, active = NoRequest, StartTurn(q) PROVE RecordInv'
  BY <1>3, <1>7 DEF StartTurn
<1>8. ASSUME NEW q \in Requests, SteerInto(q) PROVE RecordInv'
  BY <1>3, <1>8 DEF SteerInto
<1>9. CASE QuietStep
  <2>1. \/ rollout' = rollout /\ pc' = pc
        \/ pc \notin {"end", "idle", "prepare"} /\ rollout' = rollout \o <<"Approval">>
    BY <1>9 DEF QuietStep, PausedPCs
  <2> QED BY <1>3, <1>5, <2>1
<1>10. CASE TurnTask
  <2>1. CASE /\ UNCHANGED rollout
             /\ pc \notin {"prepare", "idle"} /\ (pc = "end" => pc' = "idle")
    BY <1>3, <2>1
  <2>2. CASE /\ pc \notin {"prepare", "idle", "end"}
             /\ \E s \in Seq(Items) : rollout' = rollout \o s
    BY <1>4, <1>6, <2>2
  <2>3. CASE \E s \in Seq(Items) : rollout' = rollout \o (<<"RunStarted">> \o s)
    <3>1. PICK s \in Seq(Items) : rollout' = rollout \o (<<"RunStarted">> \o s)
      BY <2>3
    <3> QED BY <1>4, <1>6, <3>1
  <2>4. CASE /\ pc \in {"finish", "woke"}
             /\ \E x \in {"RunPaused", "RunStarted"} : rollout' = rollout \o <<x>>
    BY <1>5, <2>4
  <2>5. CASE pc = "record" /\ pc' = "end" /\ rollout' = rollout \o <<"RunEnded">>
    <3>1. r \o <<"RunEnded">> \in Seq(Records)
      BY RecordKinds, Writable, Singleton
    <3>2. EndIsLast(r \o <<"RunEnded">>)
      BY <1>1, <2>5, EndFollows
    <3> QED BY <1>0, <1>2, <2>5, <3>1, <3>2
  <2> QED BY <1>10, <2>1, <2>2, <2>3, <2>4, <2>5, TaskWrites
<1> QED BY <1>7, <1>8, <1>9, <1>10, Steps

\* Within a turn nothing of its history follows the record of its end, whichever
\* way the turn ends and whatever a host records meanwhile.
THEOREM RunEndsLast == Spec => []RunEndIsLast
<1>1. Init => RecordInv
  BY DEF Init, RecordInv, RunEndIsLast
<1>2. RecordInv => RunEndIsLast
  BY DEF RecordInv
<1> QED BY <1>1, <1>2, TypeInvariant, PauseInvariant, RecordStep, PTL DEF Spec

\* The rollout replays to what the turn's task holds.
LEMMA HistoryStep == TypeInv /\ PauseInv /\ HistoryInv /\ [Next]_vars => HistoryInv'
<1> SUFFICES ASSUME TypeInv, PauseInv, HistoryInv, [Next]_vars PROVE HistoryInv'
  OBVIOUS
<1>0. PICK r \in Seq(Records), h \in Seq(Items) : r = rollout /\ h = hist /\ Selected(r, Items) = h
  BY Typed DEF HistoryInv
<1>1. ASSUME NEW x \in {"RunStarted", "Approval", "RunPaused", "RunEnded"}
      PROVE  Selected(r \o <<x>>, Items) = h
  BY <1>0, RecordKinds, Writable, SelectedAppend
<1>2. ASSUME NEW s \in Seq(Items)
      PROVE  /\ Selected(r \o s, Items) = h \o s
             /\ Selected(r \o (<<"RunStarted">> \o s), Items) = h \o s
  <2>1. Selected(r \o s, Items) = h \o s
    <3>1. Items \subseteq Records
      BY RecordKinds, Writable
    <3>2. Selected(r \o s, Items) = Selected(r, Items) \o s
      BY <3>1, SelectedConcat
    <3> QED BY <1>0, <3>2
  <2>2. /\ <<"RunStarted">> \in Seq(Records) /\ s \in Seq(Records)
        /\ r \o <<"RunStarted">> \in Seq(Records)
    BY RecordKinds, Writable, Singleton, SequenceOver
  <2>3. r \o (<<"RunStarted">> \o s) = (r \o <<"RunStarted">>) \o s
    BY <2>2, ConcatAssociative
  <2>4. Selected((r \o <<"RunStarted">>) \o s, Items) = Selected(r \o <<"RunStarted">>, Items) \o s
    BY <2>2, RecordKinds, Writable, SelectedConcat
  <2> QED BY <1>1, <2>1, <2>3, <2>4
<1>3. ASSUME NEW q \in Requests, active = NoRequest, StartTurn(q) PROVE HistoryInv'
  BY <1>3, RequestsAssumption DEF StartTurn, HistoryInv
<1>4. ASSUME NEW q \in Requests, SteerInto(q) PROVE HistoryInv'
  BY <1>4 DEF SteerInto, HistoryInv
<1>5. CASE QuietStep
  <2>1. /\ UNCHANGED <<history, active, hist>>
        /\ rollout' = rollout \/ rollout' = rollout \o <<"Approval">>
    BY <1>5 DEF QuietStep
  <2> QED BY <1>0, <1>1, <2>1 DEF HistoryInv
<1>6. CASE TurnTask
  <2>1. Selected(rollout', Items) = hist'
    <3>1. CASE UNCHANGED <<hist, rollout>>
      BY <1>0, <3>1
    <3>2. CASE \E s \in Seq(Items) : hist' = hist \o s /\ rollout' = rollout \o s
      BY <1>0, <1>2, <3>2
    <3>3. CASE \E s \in Seq(Items) : /\ hist' = hist \o s
                                     /\ rollout' = rollout \o (<<"RunStarted">> \o s)
      BY <1>0, <1>2, <3>3
    <3>4. CASE /\ hist' = hist
               /\ \E x \in {"RunPaused", "RunStarted", "RunEnded"} : rollout' = rollout \o <<x>>
      BY <1>0, <1>1, <3>4
    <3> QED BY <1>6, <3>1, <3>2, <3>3, <3>4, TaskWrites
  <2> QED BY <1>6, <2>1, TaskWrites DEF HistoryInv
<1> QED BY <1>3, <1>4, <1>5, <1>6, Steps

\* What the turn's task holds is what the rollout replays to.
LEMMA HistoryInvariant == Spec => []HistoryInv
<1>1. Selected(<<>>, Items) = <<>>
  <2>1. <<>> \in Seq(Items) /\ Len(<<>>) = 0
    OBVIOUS
  <2>2. \E g : Reads(g, Items, <<>>, 0) /\ Selected(<<>>, Items) = g[0]
    BY <2>1, SelectedReads, Zenon
  <2> QED BY <2>2 DEF Reads
<1>2. Init => HistoryInv
  BY <1>1 DEF Init, HistoryInv
<1> QED BY <1>2, TypeInvariant, PauseInvariant, HistoryStep, PTL DEF Spec

\* Between turns the rollout replays to the history the thread holds, after any
\* number of turns, pauses, denials, interruptions and leftovers.
THEOREM RolloutReplays == Spec => []RolloutReplaysHistory
<1>1. HistoryInv => RolloutReplaysHistory
  BY DEF HistoryInv, RolloutReplaysHistory
<1> QED BY <1>1, HistoryInvariant, PTL

-----------------------------------------------------------------------------
(* The line of messages.                                                   *)

\* What is in a sequence, and that nothing is in it twice, part by part.
LEMMA DistinctConcat ==
    ASSUME NEW a \in Seq(Items), NEW b \in Seq(Items)
    PROVE  /\ Distinct(a \o b) <=> /\ Distinct(a) /\ Distinct(b)
                                   /\ Range(a) \cap Range(b) \cap Requests = {}
<1>1. /\ DOMAIN (a \o b) = 1 .. (Len(a) + Len(b))
      /\ DOMAIN a = 1 .. Len(a) /\ DOMAIN b = 1 .. Len(b)
      /\ Len(a) \in Nat /\ Len(b) \in Nat
      /\ \A i \in 1 .. Len(a) : (a \o b)[i] = a[i]
      /\ \A i \in 1 .. Len(b) : (a \o b)[Len(a) + i] = b[i]
  OBVIOUS
<1>2. PICK n \in Nat, m \in Nat : n = Len(a) /\ m = Len(b)
  BY <1>1
<1>3. ASSUME NEW i \in 1 .. (n + m), i > n PROVE i - n \in 1 .. m /\ i = n + (i - n)
  BY <1>3
<1>4. ASSUME Distinct(a), Distinct(b), Range(a) \cap Range(b) \cap Requests = {}
      PROVE  Distinct(a \o b)
  <2>1. ASSUME NEW i \in 1 .. (n + m), NEW j \in 1 .. (n + m),
               (a \o b)[i] \in Requests, (a \o b)[i] = (a \o b)[j]
        PROVE  i = j
    <3>1. CASE i <= n /\ j <= n
      <4>1. i \in 1 .. n /\ j \in 1 .. n
        BY <3>1
      <4> QED BY <1>1, <1>2, <1>4, <2>1, <4>1 DEF Distinct
    <3>2. CASE i > n /\ j > n
      <4>1. (a \o b)[i] = b[i - n] /\ (a \o b)[j] = b[j - n]
        BY <1>1, <1>2, <1>3, <3>2
      <4>2. i - n \in DOMAIN b /\ j - n \in DOMAIN b
        BY <1>1, <1>2, <1>3, <3>2
      <4>3. b[i - n] \in Requests /\ b[i - n] = b[j - n]
        BY <2>1, <4>1
      <4>4. i - n = j - n
        BY <1>4, <4>2, <4>3, Zenon DEF Distinct
      <4> QED BY <4>4
    <3>3. ASSUME NEW u \in 1 .. (n + m), NEW v \in 1 .. (n + m), u <= n, v > n,
                 (a \o b)[u] \in Requests
          PROVE  (a \o b)[u] # (a \o b)[v]
      <4>1. u \in 1 .. n
        BY <3>3
      <4>2. (a \o b)[u] \in Range(a)
        BY <1>1, <1>2, <4>1 DEF Range
      <4>3. (a \o b)[v] = b[v - n] /\ v - n \in 1 .. m
        BY <1>1, <1>2, <1>3, <3>3
      <4>4. (a \o b)[v] \in Range(b)
        BY <1>1, <1>2, <4>3 DEF Range
      <4> QED BY <1>4, <3>3, <4>2, <4>4
    <3>4. (i <= n \/ i > n) /\ (j <= n \/ j > n)
      OBVIOUS
    <3> QED BY <2>1, <3>1, <3>2, <3>3, <3>4
  <2> QED BY <1>1, <1>2, <2>1 DEF Distinct
<1>5. ASSUME Distinct(a \o b)
      PROVE  Distinct(a) /\ Distinct(b) /\ Range(a) \cap Range(b) \cap Requests = {}
  <2>1. \A i \in 1 .. n : i \in 1 .. (n + m) /\ (a \o b)[i] = a[i]
    BY <1>1, <1>2
  <2>2. \A i \in 1 .. m : n + i \in 1 .. (n + m) /\ (a \o b)[n + i] = b[i]
    BY <1>1, <1>2
  <2>3. \A i, j \in 1 .. (n + m) :
           (a \o b)[i] \in Requests /\ (a \o b)[i] = (a \o b)[j] => i = j
    BY <1>1, <1>2, <1>5 DEF Distinct
  <2>4. Distinct(a)
    BY <1>1, <1>2, <2>1, <2>3 DEF Distinct
  <2>5. ASSUME NEW i \in 1 .. m, NEW j \in 1 .. m, b[i] \in Requests, b[i] = b[j] PROVE i = j
    <3>1. n + i = n + j
      BY <2>2, <2>3, <2>5
    <3> QED BY <3>1
  <2>6. ASSUME NEW i \in 1 .. n, NEW j \in 1 .. m, a[i] \in Requests PROVE a[i] # b[j]
    <3>1. i # n + j
      OBVIOUS
    <3> QED BY <2>1, <2>2, <2>3, <2>6, <3>1
  <2>7. Range(a) = {a[i] : i \in 1 .. n} /\ Range(b) = {b[i] : i \in 1 .. m}
    BY <1>1, <1>2 DEF Range
  <2> QED BY <1>1, <1>2, <2>4, <2>5, <2>6, <2>7 DEF Distinct
<1> QED BY <1>4, <1>5

\* Dropping a part of the line, or putting one new thing into it.
LEMMA LineChanges ==
    ASSUME NEW a \in Seq(Items), NEW c \in Seq(Items)
    PROVE  /\ Range(a \o c) = Range(a) \cup Range(c)
           /\ \A b \in Seq(Items) :
                 /\ Range(a \o (b \o c)) = Range(a \o c) \cup Range(b)
                 /\ Distinct(a \o (b \o c)) => Distinct(a \o c)
           /\ \A x \in Items :
                 /\ Range(a \o (<<x>> \o c)) = Range(a \o c) \cup {x}
                 /\ Distinct(a \o c) /\ (x \notin Requests \/ x \notin Range(a \o c))
                      => Distinct(a \o (<<x>> \o c))
<1>1. Range(a \o c) = Range(a) \cup Range(c)
  BY RangeOfConcat
<1>2. ASSUME NEW b \in Seq(Items)
      PROVE  /\ b \o c \in Seq(Items)
             /\ Range(b \o c) = Range(b) \cup Range(c)
             /\ Range(a \o (b \o c)) = Range(a \o c) \cup Range(b)
             /\ Distinct(a \o (b \o c)) <=>
                   /\ Distinct(a) /\ Distinct(b) /\ Distinct(c)
                   /\ Range(b) \cap Range(c) \cap Requests = {}
                   /\ Range(a) \cap Range(b) \cap Requests = {}
                   /\ Range(a) \cap Range(c) \cap Requests = {}
  <2>1. b \o c \in Seq(Items)
    OBVIOUS
  <2>2. Range(b \o c) = Range(b) \cup Range(c)
    BY RangeOfConcat
  <2>3. Range(a \o (b \o c)) = Range(a) \cup Range(b \o c)
    <3>1. \A d \in Seq(Items) : Range(a \o d) = Range(a) \cup Range(d)
      BY RangeOfConcat
    <3> QED BY <2>1, <3>1, Zenon
  <2>4. Distinct(a \o (b \o c)) <=> /\ Distinct(a) /\ Distinct(b \o c)
                                    /\ Range(a) \cap Range(b \o c) \cap Requests = {}
    BY <2>1, DistinctConcat
  <2>5. Distinct(b \o c) <=> /\ Distinct(b) /\ Distinct(c)
                             /\ Range(b) \cap Range(c) \cap Requests = {}
    BY DistinctConcat
  <2>6. Range(a) \cap Range(b \o c) \cap Requests = {} <=>
           /\ Range(a) \cap Range(b) \cap Requests = {}
           /\ Range(a) \cap Range(c) \cap Requests = {}
    BY <2>2
  <2> QED BY <1>1, <2>1, <2>2, <2>3, <2>4, <2>5, <2>6
<1>3. ASSUME NEW b \in Seq(Items), Distinct(a \o (b \o c)) PROVE Distinct(a \o c)
  BY <1>2, <1>3, DistinctConcat
<1>4. ASSUME NEW x \in Items
      PROVE  /\ Range(a \o (<<x>> \o c)) = Range(a \o c) \cup {x}
             /\ Distinct(a \o c) /\ (x \notin Requests \/ x \notin Range(a \o c))
                  => Distinct(a \o (<<x>> \o c))
  <2>1. PICK b \in Seq(Items) : b = <<x>>
    <3>1. <<x>> \in Seq(Items)
      BY Singleton
    <3> QED BY <3>1, Zenon
  <2>2. Range(b) = {x} /\ Distinct(b)
    <3>1. Len(b) = 1 /\ DOMAIN b = 1 .. 1 /\ b[1] = x
      BY <2>1
    <3> QED BY <3>1 DEF Range, Distinct
  <2>3. Distinct(a \o c) <=> /\ Distinct(a) /\ Distinct(c)
                             /\ Range(a) \cap Range(c) \cap Requests = {}
    BY DistinctConcat
  <2>4. Distinct(a \o c) /\ (x \notin Requests \/ x \notin Range(a \o c))
           => Distinct(a \o (b \o c))
    BY <1>1, <1>2, <2>2, <2>3
  <2> QED BY <1>2, <2>1, <2>2, <2>4
<1> QED BY <1>1, <1>2, <1>3, <1>4

\* A part of the line is dropped, with the reason for it ...
Drops(a, b, c) ==
    /\ Line = a \o (b \o c) /\ Line' = a \o c
    /\ \A x \in Range(b) : x \in denied' \/ ScopeCancelled \/ (pc = "leftover" /\ aborting)

\* ... or one thing joins it that is no message, or is the one that started the turn.
Joins(a, x, c) ==
    /\ Line = a \o c /\ Line' = a \o (<<x>> \o c)
    /\ x \notin Requests \/ (x = active /\ pc = "prepare")

\* Three sequences read the same, whichever two are put together first.
Regroups(a, b, c) == (a \o b) \o c = a \o (b \o c)

\* Every three sequences do.
LEMMA Regrouped ==
    ASSUME NEW a \in Seq(Items), NEW b \in Seq(Items), NEW c \in Seq(Items)
    PROVE  Regroups(a, b, c)
BY DEF Regroups

\* How the places of the line read when some of them are empty.
LEMMA LineReads ==
    ASSUME NEW h \in Seq(Items), NEW k \in Seq(Items), NEW t \in Seq(Items), NEW q \in Seq(Items)
    PROVE  /\ h \o <<>> = h /\ <<>> \o h = h
           /\ h \o (<<>> \o (<<>> \o q)) = h \o q
           /\ h \o (<<>> \o (q \o <<>>)) = h \o q
           /\ h \o (k \o (<<>> \o q)) = (h \o k) \o q
           /\ h \o (k \o (t \o q)) = h \o ((k \o t) \o q)
           /\ h \o (k \o (t \o q)) = (h \o k) \o (t \o q)
           /\ k \o t \in Seq(Items) /\ h \o k \in Seq(Items) /\ t \o q \in Seq(Items)
<1>1. /\ \A s \in Seq(Items) : s \o <<>> = s /\ <<>> \o s = s
      /\ k \o t \in Seq(Items) /\ h \o k \in Seq(Items) /\ t \o q \in Seq(Items)
  OBVIOUS
<1>2. PICK w \in Seq(Items) : w = t \o q
  BY <1>1, Zenon
<1>3. h \o (k \o q) = (h \o k) \o q
  OBVIOUS
<1>4. k \o (t \o q) = (k \o t) \o q
  OBVIOUS
<1>5. h \o (k \o w) = (h \o k) \o w
  OBVIOUS
<1> QED BY <1>1, <1>2, <1>3, <1>4, <1>5, Zenon

\* One message dropped from between the others.
DropsOut(h, k, b, w) ==
    \E v \in Seq(Items) : /\ h \o (k \o w) = v \o w
                          /\ h \o (k \o (b \o w)) = v \o (b \o w)

\* ... leaves what was before it and what was after it.
LEMMA DroppedFrom ==
    ASSUME NEW h \in Seq(Items), NEW k \in Seq(Items), NEW b \in Seq(Items), NEW w \in Seq(Items)
    PROVE  DropsOut(h, k, b, w)
<1>1. PICK v \in Seq(Items) : v = h \o k
  <2>1. h \o k \in Seq(Items)
    OBVIOUS
  <2> QED BY <2>1, Zenon
<1>2. PICK z \in Seq(Items) : z = b \o w
  <2>1. b \o w \in Seq(Items)
    OBVIOUS
  <2> QED BY <2>1, Zenon
<1>3. Regroups(h, k, w) /\ Regroups(h, k, z)
  BY Regrouped, Zenon
<1>4. h \o (k \o w) = v \o w /\ h \o (k \o z) = v \o z
  BY <1>1, <1>3, Zenon DEF Regroups
<1> QED BY <1>2, <1>4, Zenon DEF DropsOut

\* What a step of the turn's task does to the line.
LEMMA LineMoves ==
    ASSUME TypeInv, EmptyPlaces, TurnTask
    PROVE  /\ \/ \E a, b, c \in Seq(Items) : Drops(a, b, c)
              \/ \E a, c \in Seq(Items), x \in Items : Joins(a, x, c)
           /\ pc = "prepare" /\ active \in WithMessage => active \in Range(Line') \cup denied'
<1> DEFINE Moves == \/ \E a, b, c \in Seq(Items) : Drops(a, b, c)
                    \/ \E a, c \in Seq(Items), x \in Items : Joins(a, x, c)
<1> SUFFICES Moves /\ (pc = "prepare" /\ active \in WithMessage
                          => active \in Range(Line') \cup denied')
  OBVIOUS
<1>0. /\ hist \in Seq(Items) /\ taken \in Seq(Requests) /\ kept \in Seq(Requests)
      /\ queue.messages \in Seq(Requests)
      /\ ret \in {"deliver", "conclude", "late", "settle"}
  BY Typed
<1>1. Requests \subseteq Items /\ Reply \in Items /\ Marker \in Items
  BY Writable
<1>2. PICK h \in Seq(Items), k \in Seq(Items), t \in Seq(Items), q \in Seq(Items) :
          h = hist /\ k = kept /\ t = taken /\ q = queue.messages
  BY <1>0, <1>1, SequenceOver, Zenon
<1>3. Line = h \o (k \o (t \o q))
  BY <1>2 DEF Line
<1>4. PICK e \in Seq(Items) : e = <<>> /\ Range(e) = {}
  <2>1. <<>> \in Seq(Items) /\ Range(<<>>) = {}
    BY DEF Range
  <2> QED BY <2>1, Zenon
<1>5. ASSUME Line' = Line PROVE Moves
  <2>1. k \o (t \o q) \in Seq(Items) /\ e \o (k \o (t \o q)) = k \o (t \o q)
    BY <1>4, LineReads
  <2>2. Drops(h, e, k \o (t \o q))
    BY <1>3, <1>4, <1>5, <2>1, Zenon DEF Drops
  <2> QED BY <2>1, <2>2
<1>6. ASSUME NEW x \in Items, hist' = hist \o <<x>>, UNCHANGED <<kept, taken>>,
             queue'.messages = queue.messages, x \notin Requests \/ (x = active /\ pc = "prepare")
      PROVE  Moves /\ x \in Range(Line')
  <2>1. k \o (t \o q) \in Seq(Items)
    BY LineReads
  <2>2. Line' = (h \o <<x>>) \o (k \o (t \o q))
    BY <1>2, <1>6 DEF Line
  <2>3. (h \o <<x>>) \o (k \o (t \o q)) = h \o (<<x>> \o (k \o (t \o q)))
    <3>1. <<x>> \in Seq(Items)
      BY Singleton
    <3>2. PICK b \in Seq(Items), z \in Seq(Items) : b = <<x>> /\ z = k \o (t \o q)
      BY <2>1, <3>1, Zenon
    <3>3. Regroups(h, b, z)
      BY Regrouped, Zenon
    <3> QED BY <3>2, <3>3, Zenon DEF Regroups
  <2>4. Joins(h, x, k \o (t \o q))
    BY <1>3, <1>6, <2>2, <2>3, Zenon DEF Joins
  <2>5. \A a, c \in Seq(Items) : x \in Range(a \o (<<x>> \o c))
    BY LineChanges
  <2>6. x \in Range(Line')
    BY <2>1, <2>2, <2>3, <2>5, Zenon
  <2> QED BY <2>1, <2>4, <2>6
<1>7. ASSUME UNCHANGED <<hist, kept, taken>>, queue'.messages = queue.messages PROVE Line' = Line
  BY <1>7 DEF Line
<1>8. ASSUME kept = <<>>, taken = <<>>, UNCHANGED hist, kept' = <<>>, taken' = queue.messages,
             queue'.messages = <<>>
      PROVE  Line' = Line
  <2>1. Line = h \o (<<>> \o (<<>> \o q))
    BY <1>2, <1>3, <1>8, Zenon
  <2>2. Line' = h \o (<<>> \o (q \o <<>>))
    BY <1>2, <1>8, Zenon DEF Line
  <2> QED BY <2>1, <2>2, LineReads
<1>9. ASSUME NEW a \in Seq(Items), NEW b \in Seq(Items), NEW c \in Seq(Items), Drops(a, b, c)
      PROVE  Moves
  BY <1>9
<1> HIDE DEF Moves
<1> USE DEF Goto, TaskUnchanged
<1>10. CASE Segment
  <2>0. pc # "prepare"
    BY <1>10, SegmentFrame DEF TypeInv, TypeOK, SegmentPCs
  <2> SUFFICES Moves
    BY <2>0
  <2>1. CASE BeginStep
    BY <1>5, <1>7, <2>1 DEF BeginStep
  <2>2. CASE DeliverAtStep \/ DeliverAtConclusion \/ DeliverLate \/ Settle
    <3>1. \/ UNCHANGED <<hist, kept, taken>> /\ queue' \in {queue, Seal(queue)}
          \/ /\ pc \in {"deliver", "conclude", "late", "settle"}
             /\ UNCHANGED hist /\ taken' = queue.messages /\ kept' = <<>>
             /\ queue' \in {Take(queue), Take(Seal(queue))}
      BY <2>2, DeliveryPlaces
    <3>2. CASE UNCHANGED <<hist, kept, taken>> /\ queue' \in {queue, Seal(queue)}
      <4>1. queue'.messages = queue.messages
        BY <3>2 DEF Seal
      <4> QED BY <1>5, <1>7, <3>2, <4>1
    <3>3. CASE /\ pc \in {"deliver", "conclude", "late", "settle"}
               /\ UNCHANGED hist /\ taken' = queue.messages /\ kept' = <<>>
               /\ queue' \in {Take(queue), Take(Seal(queue))}
      <4>1. queue'.messages = <<>>
        BY <3>3 DEF Take
      <4>2. kept = <<>> /\ taken = <<>>
        BY <3>3 DEF EmptyPlaces
      <4> QED BY <1>5, <1>8, <3>3, <4>1, <4>2
    <3> QED BY <3>1, <3>2, <3>3
  <2>3. CASE JudgePrompt
    <3>1. PICK x \in Items, u \in Seq(Items) : x = Head(taken) /\ u = Tail(taken)
      BY <1>0, <1>1, <2>3, HeadTail, SequenceOver, Zenon DEF JudgePrompt
    <3>2. <<x>> \in Seq(Items) /\ t = <<x>> \o u
      <4>1. <<x>> \in Seq(Items)
        BY Singleton
      <4>2. t # <<>> /\ x = Head(t) /\ u = Tail(t)
        BY <1>2, <2>3, <3>1 DEF JudgePrompt
      <4> QED BY <4>1, <4>2
    <3>3. PICK b \in Seq(Items) : b = <<x>>
      BY <3>2, Zenon
    <3>4. PICK w \in Seq(Items) : w = u \o q
      <4>1. u \o q \in Seq(Items)
        OBVIOUS
      <4> QED BY <4>1, Zenon
    <3>5. t \o q = b \o w
      <4>1. Regroups(b, u, q)
        BY Regrouped, Zenon
      <4> QED BY <3>2, <3>3, <3>4, <4>1, Zenon DEF Regroups
    <3>6. Line = h \o (k \o (b \o w))
      BY <1>3, <3>5, Zenon
    <3>7. CASE kept' = Append(kept, Head(taken))
      <4>1. kept' = k \o b
        BY <1>2, <3>1, <3>3, <3>7, AppendIsConcat
      <4>2. Line' = h \o ((k \o b) \o w)
        BY <1>2, <2>3, <3>1, <3>4, <4>1 DEF JudgePrompt, Line
      <4>3. (k \o b) \o w = k \o (b \o w)
        OBVIOUS
      <4>4. Line' = Line
        BY <3>6, <4>2, <4>3, Zenon
      <4> QED BY <1>5, <4>4
    <3>8. CASE denied' = denied \cup {Head(taken)} /\ UNCHANGED kept
      <4>1. Line' = h \o (k \o w)
        BY <1>2, <2>3, <3>1, <3>4, <3>8 DEF JudgePrompt, Line
      <4>2. PICK v \in Seq(Items) : Line' = v \o w /\ Line = v \o (b \o w)
        <5>1. DropsOut(h, k, b, w)
          BY DroppedFrom, Zenon
        <5> QED BY <3>6, <4>1, <5>1, Zenon DEF DropsOut
      <4>3. Range(b) = {x}
        BY <3>3 DEF Range
      <4>4. Drops(v, b, w)
        BY <3>1, <3>8, <4>2, <4>3 DEF Drops
      <4> QED BY <1>9, <4>4
    <3> QED BY <2>3, <3>7, <3>8 DEF JudgePrompt
  <2>4. CASE PromptHookCancelled
    <3>1. Line' = h \o (<<>> \o (<<>> \o q))
      BY <1>2, <2>4 DEF PromptHookCancelled, Line
    <3>2. Line' = h \o q
      BY <3>1, LineReads
    <3>3. Line = h \o ((k \o t) \o q)
      <4>1. k \o (t \o q) = (k \o t) \o q
        OBVIOUS
      <4> QED BY <1>3, <4>1, Zenon
    <3>4. Drops(h, k \o t, q)
      BY <2>4, <3>2, <3>3 DEF Drops, PromptHookCancelled
    <3> QED BY <1>9, <3>4, LineReads
  <2>5. CASE CommitDelivery
    <3>1. Line = h \o (k \o (<<>> \o q)) /\ Line' = (h \o k) \o (<<>> \o (<<>> \o q))
      BY <1>2, <1>3, <2>5 DEF CommitDelivery, Line
    <3>2. Line' = Line
      <4>1. <<>> \o (<<>> \o q) = q /\ <<>> \o q = q /\ h \o (k \o q) = (h \o k) \o q
        OBVIOUS
      <4> QED BY <3>1, <4>1, Zenon
    <3> QED BY <1>5, <3>2
  <2>6. CASE CallModel
    <3>1. hist' = hist \o <<Reply>>
      BY <1>0, <1>1, <2>6, AppendIsConcat DEF CallModel
    <3>2. Reply \notin Requests
      BY KindsAssumption
    <3> QED BY <1>1, <1>6, <2>6, <3>1, <3>2 DEF CallModel
  <2>7. CASE StepFails \/ StopHook \/ ResumeSegment
    BY <1>5, <1>7, <2>7 DEF StepFails, StopHook, ResumeSegment
  <2>8. CASE CloseLate
    BY <1>5, <1>7, <2>8 DEF CloseLate, CloseIfEmpty
  <2>9. ASSUME NEW res \in Results, FinishSegment(res) PROVE Moves
    <3>1. UNCHANGED <<kept, taken, queue>>
      BY <2>9 DEF FinishSegment
    <3>2. hist' = hist \o <<Marker>> \/ hist' = hist \o <<>>
      BY <2>9 DEF FinishSegment, LeaveMarker
    <3>3. hist \o <<>> = hist /\ Marker \notin Requests
      BY <1>0, KindsAssumption
    <3> QED BY <1>1, <1>5, <1>6, <1>7, <3>1, <3>2, <3>3
  <2> QED BY <1>10, <2>1, <2>2, <2>3, <2>4, <2>5, <2>6, <2>7, <2>8, <2>9 DEF Segment
<1>11. CASE AcceptHostInput
  <2>1. UNCHANGED <<kept, taken, queue>> /\ hist' = hist \o Submitted
    BY <1>11 DEF AcceptHostInput
  <2>2. CASE active \in WithMessage
    <3>1. active \in Items /\ hist' = hist \o <<active>>
      BY <1>1, <2>1, <2>2, RequestsAssumption DEF Submitted
    <3> QED BY <1>6, <1>11, <2>1, <3>1 DEF AcceptHostInput
  <2>3. CASE active \notin WithMessage
    <3>1. hist' = hist
      BY <1>0, <2>1, <2>3 DEF Submitted
    <3> QED BY <1>5, <1>7, <2>1, <2>3, <3>1
  <2> QED BY <2>2, <2>3
<1>12. CASE StopHostInput
  BY <1>5, <1>7, <1>12 DEF StopHostInput
<1>13. CASE PauseForApproval \/ AnnouncePause \/ WaitForAnswer
  BY <1>5, <1>7, <1>13 DEF PauseForApproval, AnnouncePause, WaitForAnswer
<1>14. CASE LeavePause
  <2>1. UNCHANGED <<kept, taken, queue>> /\ pc = "woke"
    BY <1>14 DEF LeavePause
  <2>2. hist' = hist \o <<Marker>> \/ hist' = hist
    BY <1>14 DEF LeavePause, LeaveMarker
  <2>3. Marker \notin Requests
    BY KindsAssumption
  <2> QED BY <1>1, <1>5, <1>6, <1>7, <2>1, <2>2, <2>3
<1>15. CASE ClosePending
  <2>1. kept = <<>> /\ taken = <<>> /\ pc = "drain"
    BY <1>15 DEF ClosePending, EmptyPlaces
  <2>2. UNCHANGED <<hist, kept>> /\ taken' = queue.messages /\ queue'.messages = <<>>
    BY <1>15 DEF ClosePending, Close
  <2> QED BY <1>5, <1>8, <2>1, <2>2
<1>16. CASE KeepLeftover
  <2>1. kept = <<>> /\ queue.messages = <<>> /\ pc = "leftover"
    BY <1>16 DEF KeepLeftover, EmptyPlaces
  <2>2. /\ hist' = hist \o Leftover /\ taken' = <<>> /\ kept' = <<>> /\ queue'.messages = <<>>
    BY <1>16, <2>1 DEF KeepLeftover
  <2>3. Line = h \o (<<>> \o (t \o <<>>))
    BY <1>2, <1>3, <2>1, Zenon
  <2>4. Line = h \o t
    BY <2>3, LineReads
  <2>5. CASE aborting
    <3>1. Line' = (h \o <<>>) \o (<<>> \o (<<>> \o <<>>))
      BY <1>2, <2>2, <2>5 DEF Line, Leftover
    <3>2. Line' = h \o e
      BY <1>4, <3>1, LineReads
    <3>3. t \o e = t
      BY <1>4, LineReads
    <3>4. Drops(h, t, e)
      BY <2>1, <2>4, <2>5, <3>2, <3>3 DEF Drops
    <3> QED BY <1>9, <2>1, <3>4
  <2>6. CASE ~ aborting
    <3>1. Line' = (h \o t) \o (<<>> \o (<<>> \o <<>>))
      BY <1>2, <2>2, <2>6 DEF Line, Leftover
    <3>2. h \o t \in Seq(Items) /\ <<>> \o (<<>> \o <<>>) = <<>>
      BY <1>4, LineReads
    <3>3. Line' = Line
      BY <2>4, <3>1, <3>2, LineReads
    <3> QED BY <1>5, <2>1, <3>3
  <2> QED BY <2>5, <2>6
<1>17. CASE CloseSettings \/ FreezeOutcome \/ FinishRecording \/ EndTurn
  BY <1>5, <1>7, <1>17 DEF CloseSettings, FreezeOutcome, FinishRecording, EndTurn
<1> QED BY <1>10, <1>11, <1>12, <1>13, <1>14, <1>15, <1>16, <1>17 DEF TurnTask

\* The places stay empty where they must be.
LEMMA EmptyStep == TypeInv /\ PauseInv /\ EmptyPlaces /\ [Next]_vars => EmptyPlaces'
<1> SUFFICES ASSUME TypeInv, PauseInv, EmptyPlaces, [Next]_vars PROVE EmptyPlaces'
  OBVIOUS
<1> USE DEF EmptyPlaces
<1>0. ret \in {"deliver", "conclude", "late", "settle"} /\ pc \in PCs
  BY Typed
<1>1. ASSUME NEW r \in Requests, active = NoRequest, StartTurn(r) PROVE EmptyPlaces'
  <2>1. pc = "idle"
    BY <1>1, Typed
  <2> QED BY <1>1, <2>1 DEF StartTurn
<1>2. ASSUME NEW r \in Requests, ~ queue.closed, SteerInto(r) PROVE EmptyPlaces'
  BY <1>2 DEF SteerInto
<1>3. CASE QuietStep
  BY <1>3 DEF QuietStep
<1>4. CASE Segment
  <2> USE DEF TaskUnchanged, Goto, EndSegment
  <2>0. pc' \in (SegmentPCs \ {"resume"}) \cup {"pausing", "close"} /\ pc \in SegmentPCs
    BY <1>4, SegmentFrame DEF TypeInv, TypeOK
  <2>1. pc' \notin {"freeze", "leftover", "record", "end", "idle"}
    BY <2>0 DEF SegmentPCs
  <2>2. CASE BeginStep
    BY <2>1, <2>2 DEF BeginStep
  <2>3. CASE DeliverAtStep \/ DeliverAtConclusion \/ DeliverLate \/ Settle
    <3>1. /\ pc \in {"deliver", "conclude", "late", "settle"}
          /\ UNCHANGED <<kept, taken>> \/ pc' = "promptHook"
      BY <2>3, DeliveryPlaces
    <3> QED BY <2>1, <3>1
  <2>4. CASE JudgePrompt
    BY <2>4 DEF JudgePrompt
  <2>5. CASE PromptHookCancelled
    BY <2>1, <2>5 DEF PromptHookCancelled
  <2>6. CASE CommitDelivery
    BY <2>1, <2>6 DEF CommitDelivery
  <2>7. CASE CallModel \/ StepFails \/ StopHook
    BY <2>1, <2>7 DEF CallModel, StepFails, StopHook
  <2>8. CASE CloseLate \/ ResumeSegment
    BY <2>1, <2>8 DEF CloseLate, ResumeSegment
  <2>9. ASSUME NEW res \in Results, FinishSegment(res) PROVE EmptyPlaces'
    BY <2>1, <2>9 DEF FinishSegment
  <2> QED BY <1>4, <2>2, <2>3, <2>4, <2>5, <2>6, <2>7, <2>8, <2>9 DEF Segment
<1>5. CASE TurnTask
  <2> USE DEF Goto
  <2>1. CASE AcceptHostInput \/ StopHostInput
    BY <2>1 DEF AcceptHostInput, StopHostInput
  <2>2. CASE PauseForApproval \/ AnnouncePause \/ WaitForAnswer
    BY <2>2 DEF PauseForApproval, AnnouncePause, WaitForAnswer
  <2>3. CASE LeavePause
    BY <2>3 DEF LeavePause
  <2>4. CASE CloseSettings \/ FreezeOutcome
    BY <2>4 DEF CloseSettings, FreezeOutcome
  <2>5. CASE ClosePending
    BY <2>5 DEF ClosePending, Close
  <2>6. CASE KeepLeftover \/ FinishRecording \/ EndTurn
    BY <2>6 DEF KeepLeftover, FinishRecording, EndTurn
  <2> QED BY <1>4, <1>5, <2>1, <2>2, <2>3, <2>4, <2>5, <2>6 DEF TurnTask
<1> QED BY <1>1, <1>2, <1>3, <1>5, Steps

\* What a step of the turn's task leaves alone.
LEMMA TaskFrame ==
    ASSUME TypeInv, TurnTask
    PROVE  /\ UNCHANGED <<status, turnOf, acked, cancelled>>
           /\ expired' = expired \/ expired' = FALSE
           /\ denied \subseteq denied'
           /\ pc' # "prepare"
           /\ EndTurn \/ UNCHANGED <<active, history>>
<1>1. CASE Segment
  <2>1. UNCHANGED <<status, turnOf, acked, active, history>> /\ pc' # "prepare"
    BY <1>1, SegmentFrame DEF TypeInv, TypeOK, SegmentPCs
  <2>2. UNCHANGED <<cancelled, expired>>
    <3> USE DEF TaskUnchanged
    <3>1. CASE DeliverAtStep \/ DeliverAtConclusion \/ DeliverLate \/ Settle
      BY <3>1, DeliveryPlaces
    <3>2. CASE BeginStep \/ JudgePrompt \/ PromptHookCancelled \/ CommitDelivery
      BY <3>2 DEF BeginStep, JudgePrompt, PromptHookCancelled, CommitDelivery
    <3>3. CASE CallModel \/ StepFails \/ StopHook \/ CloseLate \/ ResumeSegment
      BY <3>3 DEF CallModel, StepFails, StopHook, CloseLate, ResumeSegment
    <3>4. ASSUME NEW res \in Results, FinishSegment(res) PROVE UNCHANGED <<cancelled, expired>>
      BY <3>4 DEF FinishSegment
    <3> QED BY <1>1, <3>1, <3>2, <3>3, <3>4 DEF Segment
  <2>3. denied \subseteq denied'
    <3> USE DEF TaskUnchanged
    <3>1. CASE DeliverAtStep \/ DeliverAtConclusion \/ DeliverLate \/ Settle
      BY <3>1, DeliveryPlaces
    <3>2. CASE BeginStep \/ JudgePrompt \/ PromptHookCancelled \/ CommitDelivery
      BY <3>2 DEF BeginStep, JudgePrompt, PromptHookCancelled, CommitDelivery
    <3>3. CASE CallModel \/ StepFails \/ StopHook \/ CloseLate \/ ResumeSegment
      BY <3>3 DEF CallModel, StepFails, StopHook, CloseLate, ResumeSegment
    <3>4. ASSUME NEW res \in Results, FinishSegment(res) PROVE denied \subseteq denied'
      BY <3>4 DEF FinishSegment
    <3> QED BY <1>1, <3>1, <3>2, <3>3, <3>4 DEF Segment
  <2> QED BY <2>1, <2>2, <2>3
<1> USE DEF Goto
<1>2. CASE AcceptHostInput \/ StopHostInput
  BY <1>2 DEF AcceptHostInput, StopHostInput
<1>3. CASE PauseForApproval \/ AnnouncePause \/ WaitForAnswer
  BY <1>3 DEF PauseForApproval, AnnouncePause, WaitForAnswer
<1>4. CASE LeavePause
  BY <1>4 DEF LeavePause
<1>5. CASE CloseSettings \/ ClosePending \/ FreezeOutcome
  BY <1>5 DEF CloseSettings, ClosePending, FreezeOutcome
<1>6. CASE KeepLeftover \/ FinishRecording \/ EndTurn
  BY <1>6 DEF KeepLeftover, FinishRecording, EndTurn
<1> QED BY <1>1, <1>2, <1>3, <1>4, <1>5, <1>6 DEF TurnTask

\* What the line holds after a step of the turn's task.
LEMMA LineAfterTask ==
    ASSUME TypeInv, EmptyPlaces, TurnTask, Distinct(Line),
           pc = "prepare" => active \notin Range(Line)
    PROVE  /\ Distinct(Line')
           /\ \A r \in Range(Line') \cap Requests :
                 r \in Range(Line) \/ (r = active /\ pc = "prepare")
           /\ \A r \in Range(Line) \ Range(Line') :
                 r \in denied' \/ ScopeCancelled \/ (pc = "leftover" /\ aborting)
<1>1. ASSUME NEW a \in Seq(Items), NEW b \in Seq(Items), NEW c \in Seq(Items), Drops(a, b, c)
      PROVE  /\ Distinct(Line') /\ Range(Line') \subseteq Range(Line)
             /\ \A r \in Range(Line) \ Range(Line') :
                   r \in denied' \/ ScopeCancelled \/ (pc = "leftover" /\ aborting)
  <2>1. Range(Line) = Range(Line') \cup Range(b) /\ (Distinct(Line) => Distinct(Line'))
    <3>1. /\ Range(a \o (b \o c)) = Range(a \o c) \cup Range(b)
          /\ Distinct(a \o (b \o c)) => Distinct(a \o c)
      BY LineChanges
    <3> QED BY <1>1, <3>1, Zenon DEF Drops
  <2> QED BY <1>1, <2>1 DEF Drops
<1>2. ASSUME NEW a \in Seq(Items), NEW x \in Items, NEW c \in Seq(Items), Joins(a, x, c)
      PROVE  /\ Distinct(Line') /\ Range(Line') = Range(Line) \cup {x}
             /\ x \notin Requests \/ (x = active /\ pc = "prepare")
  <2>1. /\ Range(Line') = Range(Line) \cup {x}
        /\ Distinct(Line) /\ (x \notin Requests \/ x \notin Range(Line)) => Distinct(Line')
    <3>1. /\ Range(a \o (<<x>> \o c)) = Range(a \o c) \cup {x}
          /\ Distinct(a \o c) /\ (x \notin Requests \/ x \notin Range(a \o c))
               => Distinct(a \o (<<x>> \o c))
      BY LineChanges
    <3> QED BY <1>2, <3>1, Zenon DEF Joins
  <2> QED BY <1>2, <2>1 DEF Joins
<1>3. CASE \E a, b, c \in Seq(Items) : Drops(a, b, c)
  BY <1>1, <1>3
<1>4. CASE \E a, c \in Seq(Items), x \in Items : Joins(a, x, c)
  BY <1>2, <1>4
<1> QED BY <1>3, <1>4, LineMoves

\* A message steered into the turn goes to the end of the line.
LEMMA LineAfterSteer ==
    ASSUME TypeInv, NEW r \in Requests, SteerInto(r), Distinct(Line), r \notin Range(Line)
    PROVE  Distinct(Line') /\ Range(Line') = Range(Line) \cup {r}
<1>0. /\ hist \in Seq(Items) /\ taken \in Seq(Requests) /\ kept \in Seq(Requests)
      /\ queue.messages \in Seq(Requests) /\ Requests \subseteq Items
  BY Typed, Writable
<1>1. PICK h \in Seq(Items), k \in Seq(Items), t \in Seq(Items), q \in Seq(Items) :
          h = hist /\ k = kept /\ t = taken /\ q = queue.messages
  BY <1>0, SequenceOver, Zenon
<1>2. PICK b \in Seq(Items) : b = <<r>>
  BY <1>0, Singleton, Zenon
<1>3. queue'.messages = q \o b /\ UNCHANGED <<hist, kept, taken>>
  <2>1. queue'.messages = Append(q, r)
    BY <1>1 DEF SteerInto, Push
  <2> QED BY <1>0, <1>2, <2>1, AppendIsConcat DEF SteerInto
<1>4. PICK u \in Seq(Items) : u = t \o q
  <2>1. t \o q \in Seq(Items)
    OBVIOUS
  <2> QED BY <2>1, Zenon
<1>5. PICK v \in Seq(Items) : v = k \o u
  <2>1. k \o u \in Seq(Items)
    OBVIOUS
  <2> QED BY <2>1, Zenon
<1>6. PICK w \in Seq(Items) : w = h \o v
  <2>1. h \o v \in Seq(Items)
    OBVIOUS
  <2> QED BY <2>1, Zenon
<1>7. Line = w
  BY <1>1, <1>4, <1>5, <1>6, Zenon DEF Line
<1>8. Line' = h \o (k \o (t \o (q \o b)))
  BY <1>1, <1>3, Zenon DEF Line
<1>9. Regroups(t, q, b) /\ Regroups(k, u, b) /\ Regroups(h, v, b)
  BY Regrouped, Zenon
<1>10. t \o (q \o b) = u \o b
  BY <1>4, <1>9, Zenon DEF Regroups
<1>11. k \o (u \o b) = v \o b /\ h \o (v \o b) = w \o b
  BY <1>5, <1>6, <1>9, Zenon DEF Regroups
<1>12. Line' = w \o b
  BY <1>8, <1>10, <1>11, Zenon
<1>13. Range(b) = {r} /\ Distinct(b)
  <2>1. Len(b) = 1 /\ DOMAIN b = 1 .. 1 /\ b[1] = r
    BY <1>2
  <2> QED BY <2>1 DEF Range, Distinct
<1>14. Range(w \o b) = Range(w) \cup Range(b)
  BY RangeOfConcat
<1>15. Distinct(w \o b)
  BY <1>7, <1>13, DistinctConcat
<1> QED BY <1>7, <1>12, <1>13, <1>14, <1>15

\* No step puts a message into the line again.
LEMMA DeliveryStep ==
    TypeInv /\ PauseInv /\ OutcomeInv /\ HistoryInv /\ DeliveryInv /\ [Next]_vars
        => DeliveryInv'
<1> SUFFICES ASSUME TypeInv, PauseInv, OutcomeInv, HistoryInv, DeliveryInv, [Next]_vars
             PROVE  DeliveryInv'
  OBVIOUS
<1>0. /\ EmptyPlaces' /\ EmptyPlaces
      /\ status \in [Requests -> {"new", "waiting", "woken", "started", "steered", "refused"}]
      /\ active \in Requests \cup {NoRequest} /\ (active = NoRequest <=> pc = "idle")
  BY Typed, EmptyStep DEF DeliveryInv, TypeInv, TypeOK, DataTypeOK, HostTypeOK
<1>1. ASSUME Distinct(Line'),
             \A r \in Range(Line') \cap Requests : status'[r] \in {"started", "steered"},
             pc' = "prepare" => active' \notin Range(Line')
      PROVE  DeliveryInv'
  <2>1. Distinct(Line)'
    BY <1>1 DEF Distinct
  <2>2. (\A r \in Range(Line) \cap Requests : status[r] \in {"started", "steered"})'
    BY <1>1 DEF Range
  <2>3. (pc = "prepare" => active \notin Range(Line))'
    BY <1>1 DEF Range
  <2> QED BY <1>0, <2>1, <2>2, <2>3 DEF DeliveryInv
<1>2. ASSUME NEW r \in Requests, status[r] \in {"new", "woken"}, active = NoRequest, StartTurn(r)
      PROVE  DeliveryInv'
  <2>1. hist' = hist /\ kept' = kept /\ taken' = taken /\ queue'.messages = queue.messages
    BY <1>0, <1>2 DEF StartTurn, HistoryInv, EmptyPlaces
  <2>2. Line' = Line
    BY <2>1 DEF Line
  <2>3. active' = r /\ \A u \in Requests : status'[u] = IF u = r THEN "started" ELSE status[u]
    BY <1>0, <1>2 DEF StartTurn, Answer
  <2>4. r \notin Range(Line)
    BY <1>2 DEF DeliveryInv
  <2> QED BY <1>1, <2>2, <2>3, <2>4 DEF DeliveryInv
<1>3. ASSUME NEW r \in Requests, status[r] \in {"new", "woken"}, active # NoRequest, SteerInto(r)
      PROVE  DeliveryInv'
  <2>1. r \notin Range(Line)
    BY <1>3 DEF DeliveryInv
  <2>2. Distinct(Line') /\ Range(Line') = Range(Line) \cup {r}
    BY <1>3, <2>1, LineAfterSteer DEF DeliveryInv
  <2>3. UNCHANGED <<pc, active>>
        /\ \A u \in Requests : status'[u] = IF u = r THEN "steered" ELSE status[u]
    BY <1>0, <1>3 DEF SteerInto, Answer
  <2>4. pc = "prepare" => active # r
    BY <1>3 DEF OutcomeInv, ActiveHasNotEnded
  <2> QED BY <1>1, <2>2, <2>3, <2>4 DEF DeliveryInv
<1>4. CASE QuietStep
  <2>1. Line' = Line /\ UNCHANGED <<pc, active>>
    BY <1>4 DEF QuietStep, Line
  <2>2. \A r \in Requests : status[r] \in {"started", "steered"} => status'[r] = status[r]
    BY <1>4 DEF QuietStep
  <2> QED BY <1>1, <2>1, <2>2 DEF DeliveryInv
<1>5. CASE TurnTask
  <2>1. UNCHANGED status /\ pc' # "prepare"
    BY <1>5, TaskFrame
  <2>2. /\ Distinct(Line')
        /\ \A r \in Range(Line') \cap Requests :
              r \in Range(Line) \/ (r = active /\ pc = "prepare")
    BY <1>0, <1>5, LineAfterTask DEF DeliveryInv
  <2>3. active # NoRequest => status[active] = "started"
    BY DEF OutcomeInv, ActiveHasNotEnded
  <2> QED BY <1>0, <1>1, <2>1, <2>2, <2>3, RequestsAssumption DEF DeliveryInv
<1> QED BY <1>2, <1>3, <1>4, <1>5, Steps

\* Where the messages of a thread are.
LEMMA DeliveryInvariant == Spec => []DeliveryInv
<1>1. Init => DeliveryInv
  <2>1. <<>> \o (<<>> \o (<<>> \o <<>>)) = <<>>
    OBVIOUS
  <2>2. Range(<<>>) = {} /\ Distinct(<<>>)
    BY DEF Range, Distinct
  <2>3. Init => EmptyPlaces /\ Line = <<>> /\ pc # "prepare"
    BY <2>1 DEF Init, EmptyPlaces, Line, Close
  <2> QED BY <2>2, <2>3, Zenon DEF DeliveryInv
<1> QED BY <1>1, TypeInvariant, PauseInvariant, OutcomeInvariant, HistoryInvariant,
           DeliveryStep, PTL DEF Spec

\* No message enters the history twice, whatever the interleaving of submissions,
\* deliveries, hooks, pauses and leftovers.
THEOREM DeliveredOnce == Spec => []InputDeliveredOnce
<1>1. TypeInv /\ DeliveryInv => InputDeliveredOnce
  <2> SUFFICES ASSUME TypeInv, DeliveryInv PROVE Distinct(hist)
    BY DEF InputDeliveredOnce, Distinct
  <2>0. /\ hist \in Seq(Items) /\ taken \in Seq(Requests) /\ kept \in Seq(Requests)
        /\ queue.messages \in Seq(Requests) /\ Requests \subseteq Items
    BY Typed, Writable
  <2>1. kept \in Seq(Items) /\ taken \in Seq(Items) /\ queue.messages \in Seq(Items)
    BY <2>0, SequenceOver
  <2>2. PICK rest \in Seq(Items) : rest = kept \o (taken \o queue.messages)
    <3>1. kept \o (taken \o queue.messages) \in Seq(Items)
      BY <2>1
    <3> QED BY <3>1, Zenon
  <2>3. Distinct(hist \o rest)
    BY <2>2, Zenon DEF DeliveryInv, Line
  <2> QED BY <2>0, <2>3, DistinctConcat
<1> QED BY <1>1, TypeInvariant, DeliveryInvariant, PTL

\* Every message a turn accepted stays accounted for.
LEMMA AccountStep ==
    ASSUME WallClock = FALSE
    PROVE  /\ TypeInv /\ PauseInv /\ OutcomeInv /\ HistoryInv /\ DeliveryInv /\ AccountInv
           /\ [Next]_vars
           => AccountInv'
<1> SUFFICES ASSUME TypeInv, PauseInv, OutcomeInv, HistoryInv, DeliveryInv, AccountInv, [Next]_vars
             PROVE  AccountInv'
  OBVIOUS
<1>0. /\ status \in [Requests -> {"new", "waiting", "woken", "started", "steered", "refused"}]
      /\ turnOf \in [Requests -> Requests \cup {NoRequest}]
      /\ active \in Requests \cup {NoRequest} /\ NoRequest \notin Requests
      /\ WithMessage \subseteq Requests
      /\ active # NoRequest => status[active] = "started"
      /\ cancelled \in BOOLEAN /\ expired = FALSE
  BY Typed, RequestsAssumption
     DEF TypeInv, TypeOK, FlagTypeOK, DataTypeOK, HostTypeOK, OutcomeInv, ActiveHasNotEnded, AccountInv
<1>1. ASSUME NEW r \in Requests, status[r] \in {"new", "woken"}, active = NoRequest, StartTurn(r)
      PROVE  AccountInv'
  <2>1. /\ active' = r /\ pc' = "prepare" /\ hist' = history /\ history' = history
        /\ expired' = FALSE /\ cancelled' = FALSE /\ denied' = denied /\ acked' = acked
    BY <1>1 DEF StartTurn
  <2>2. /\ \A u \in Requests : status'[u] = IF u = r THEN "started" ELSE status[u]
        /\ \A u \in Requests : turnOf'[u] = IF u = r THEN r ELSE turnOf[u]
    BY <1>0, <1>1 DEF StartTurn, Answer
  <2>3. \A u \in Requests : turnOf'[u] # NoRequest =>
           turnOf'[u] \in Requests /\ status'[turnOf'[u]] = "started"
    BY <2>2 DEF AccountInv
  <2>4. \A u \in WithMessage : u # r /\ turnOf[u] # NoRequest =>
           /\ turnOf'[u] = turnOf[u] /\ turnOf[u] # active'
           /\ u \in denied \/ turnOf[u] \in acked \/ u \in Range(history)
    BY <1>0, <1>1, <2>1, <2>2 DEF AccountInv
  <2>5. \A u \in WithMessage : turnOf'[u] # NoRequest =>
           \/ u \in denied'
           \/ turnOf'[u] \in acked'
           \/ turnOf'[u] # active' /\ u \in Range(history')
           \/ turnOf'[u] = active' /\ u = active' /\ pc' = "prepare"
    BY <1>0, <2>1, <2>2, <2>4
  <2>6. Range(history)' = Range(hist)'
    BY <2>1 DEF Range
  <2> QED BY <2>1, <2>3, <2>5, <2>6 DEF AccountInv
<1>2. ASSUME NEW r \in Requests, status[r] \in {"new", "woken"}, active # NoRequest, SteerInto(r)
      PROVE  AccountInv'
  <2>1. /\ UNCHANGED <<active, pc, hist, history, expired, cancelled, denied, acked>>
        /\ \A u \in Requests : status'[u] = IF u = r THEN "steered" ELSE status[u]
        /\ \A u \in Requests : turnOf'[u] = IF u = r THEN active ELSE turnOf[u]
    BY <1>0, <1>2 DEF SteerInto, Answer
  <2>2. Range(Line') = Range(Line) \cup {r}
    <3>1. r \notin Range(Line)
      BY <1>2 DEF DeliveryInv
    <3> QED BY <1>2, <3>1, LineAfterSteer DEF DeliveryInv
  <2>3. \A u \in Requests : turnOf'[u] # NoRequest =>
           turnOf'[u] \in Requests /\ status'[turnOf'[u]] = "started"
    BY <1>0, <1>2, <2>1 DEF AccountInv
  <2>4. \A u \in WithMessage : turnOf'[u] # NoRequest =>
           \/ u \in denied'
           \/ turnOf'[u] \in acked'
           \/ turnOf'[u] # active' /\ u \in Range(history)
           \/ turnOf'[u] = active' /\ u \in Range(Line')
           \/ turnOf'[u] = active' /\ u = active' /\ pc' = "prepare"
    BY <1>0, <2>1, <2>2 DEF AccountInv
  <2> QED BY <2>1, <2>3, <2>4 DEF AccountInv
<1>3. CASE QuietStep
  <2>1. /\ UNCHANGED <<active, pc, hist, history, denied, turnOf>> /\ acked \subseteq acked'
        /\ Line' = Line
        /\ cancelled' = cancelled \/ active \in acked'
        /\ expired' = expired
    BY <1>3 DEF QuietStep, Line
  <2>2. \A u \in Requests : status[u] = "started" => status'[u] = "started"
    BY <1>3 DEF QuietStep
  <2> QED BY <1>0, <2>1, <2>2 DEF AccountInv
<1>4. CASE TurnTask
  <2>1. /\ UNCHANGED <<status, turnOf, acked, cancelled>> /\ denied \subseteq denied'
        /\ expired' = FALSE
        /\ EndTurn \/ UNCHANGED <<active, history>>
    BY <1>0, <1>4, TaskFrame
  <2>2. ScopeCancelled \/ (pc = "leftover" /\ aborting) => active \in acked
    <3>1. active # NoRequest
      BY <1>0, <1>4, Typed, TaskWrites
    <3> QED BY <1>0, <3>1
            DEF AccountInv, ScopeCancelled, OutcomeInv, OutcomeFrozen, InterruptAcknowledged, ClosingPCs
  <2>3. \A u \in Range(Line) \ Range(Line') : u \in denied' \/ active \in acked
    BY <1>4, <2>2, LineAfterTask DEF DeliveryInv
  <2>4. pc = "prepare" /\ active \in WithMessage => active \in Range(Line') \cup denied'
    BY <1>4, LineMoves DEF DeliveryInv
  <2>5. CASE UNCHANGED <<active, history>>
    <3>1. Range(hist) \subseteq Range(hist')
      <4>1. \E s \in Seq(Items) : hist' = hist \o s
        <5>1. hist \o <<>> = hist /\ <<>> \in Seq(Items)
          BY Typed
        <5> QED BY <1>4, <5>1, TaskWrites
      <4>2. PICK h \in Seq(Items), s \in Seq(Items) : h = hist /\ hist' = h \o s
        BY <4>1, Typed
      <4> QED BY <4>2, RangeOfConcat
    <3>2. \A u \in WithMessage : turnOf'[u] # NoRequest =>
             \/ u \in denied'
             \/ turnOf'[u] \in acked'
             \/ turnOf'[u] # active' /\ u \in Range(history)
             \/ turnOf'[u] = active' /\ u \in Range(Line')
      BY <2>1, <2>3, <2>4, <2>5 DEF AccountInv
    <3>3. (Range(history) \subseteq Range(hist))'
      BY <2>5, <3>1 DEF AccountInv, Range
    <3> QED BY <2>1, <2>5, <3>2, <3>3 DEF AccountInv
  <2>6. CASE EndTurn
    <3>1. active' = NoRequest /\ history' = hist /\ hist' = hist /\ pc = "end"
      BY <2>6 DEF EndTurn, Goto
    <3>2. active # NoRequest
      BY <1>0, <3>1, Typed
    <3>3. Line = hist
      <4>1. kept = <<>> /\ taken = <<>> /\ queue.messages = <<>>
        BY <3>1 DEF DeliveryInv, EmptyPlaces
      <4>2. hist \o (<<>> \o (<<>> \o <<>>)) = hist
        BY Typed
      <4> QED BY <4>1, <4>2, Zenon DEF Line
    <3>4. Range(history)' = Range(hist) /\ Range(hist)' = Range(hist)
      BY <3>1 DEF Range
    <3>5. \A u \in WithMessage : turnOf'[u] # NoRequest =>
             \/ u \in denied'
             \/ turnOf'[u] \in acked'
             \/ turnOf'[u] # active' /\ u \in Range(hist)
      BY <2>1, <3>1, <3>2, <3>3 DEF AccountInv
    <3> QED BY <2>1, <3>1, <3>4, <3>5 DEF AccountInv
  <2> QED BY <2>1, <2>5, <2>6
<1> QED BY <1>1, <1>2, <1>3, <1>4, Steps

\* Input a turn accepted is in the thread's history once the turn is over, or a
\* hook denied it, or the turn was aborted: for runs without a wall-clock budget,
\* as a run its deadline stops at a hook drops what it had taken.
THEOREM AcceptedSurvives ==
    ASSUME WallClock = FALSE
    PROVE  Spec => []AcceptedInputSurvives
<1>1. Init => AccountInv
  <2>1. Init => Range(history) = Range(hist)
    BY DEF Init
  <2> QED BY <2>1, RequestsAssumption DEF Init, AccountInv
<1>2. TypeInv /\ OutcomeInv /\ AccountInv => AcceptedInputSurvives
  BY DEF AccountInv, AcceptedInputSurvives, OutcomeInv, ActiveHasNotEnded, HasEnded
<1> QED BY <1>1, <1>2, AccountStep, TypeInvariant, PauseInvariant, OutcomeInvariant,
           HistoryInvariant, DeliveryInvariant, PTL DEF Spec
=============================================================================
