------------------------------ MODULE ToolBatch ------------------------------
(***************************************************************************)
(* One batch of function-tool calls: the tasks that run them under the     *)
(* batch's slots and its resource locks (ResourceAdmissionGate and         *)
(* spawn_dispatch_task of turn/batch.rs, run_chain of tool/dispatch.rs),   *)
(* calls started from the model's stream before the response is complete   *)
(* (StreamedFunctionDispatches), and the supervisor that collects them,    *)
(* tears the batch down when one fails or the turn is cancelled, and       *)
(* settles it (execute_actions, collect_dispatches, drain_dispatches).     *)
(*                                                                         *)
(* Calls are numbered in model order.  What a hook, a guardrail or a tool  *)
(* decides is a choice; what it says is left out.                          *)
(***************************************************************************)
EXTENDS Naturals, Sequences, FiniteSets

CONSTANTS NCalls,      \* the calls of the response
          Exclusive,   \* those whose tool runs alone
          Claims,      \* the resources each claims, in the order its tool names them
          Writes,      \* the resources each claims exclusively
          NResources,  \* the resources, numbered in the order of ResourceId
          Slots,       \* max_function_tool_concurrency
          Deferred,    \* calls of tools with a repeat limit
          Stubborn,    \* calls that do not heed a cancellation
          Agents,      \* calls whose tool runs an agent
          Fates,       \* the errors the hooks, guardrails and tool of each may end in
          None

Calls     == 1..NCalls
Resources == 1..NResources
Global    == 0
Locks     == {Global} \cup Resources

ASSUME CallsAssumption ==
    /\ NCalls \in Nat /\ None \notin Calls
    /\ {Exclusive, Deferred, Stubborn, Agents} \subseteq SUBSET Calls
    /\ Fates \in [Calls -> SUBSET {"cancelled", "user", "guardrail", "timeout", "other", "panicked"}]
ASSUME ResourcesAssumption ==
    /\ NResources \in Nat
    /\ Claims \in [Calls -> Seq(Resources)]
    /\ Writes \in [Calls -> SUBSET Resources]
ASSUME SlotsAssumption == Slots \in Nat \ {0}

VARIABLES
    \* the tasks
    task,      \* where each call's task is
    result,    \* what it ended with
    committed, \* the calls whose output their task committed
    carried,   \* the calls whose error carries the run of their agent
    \* the ResourceAdmissionGate
    holders,   \* who holds each lock
    waiting,   \* who waits for each lock, in turn
    \* the supervisor
    phase, ending,
    streamed,  \* calls started from the stream
    missing,   \* the response also names a tool the turn never advertised
    cancelled, \* the turn's scope is cancelled
    torn,      \* the tool scopes are cancelled: PeerFailure
    \* CollectedDispatches
    completed, failure, nested, postFailure,
    \* what execute_actions leaves
    outcome, records, recovery

gateVars      == <<holders, waiting>>
taskVars      == <<task, result, committed, carried>>
collectedVars == <<completed, failure, nested, postFailure>>
returnVars    == <<outcome, records, recovery>>
vars == <<taskVars, gateVars, phase, ending, streamed, missing, cancelled, torn,
          collectedVars, returnVars>>

\* FailurePriority
Priority == [cancelled |-> 5, user |-> 4, guardrail |-> 3, timeout |-> 2, other |-> 1]

Failures == DOMAIN Priority

\* How a task ends: a dispatch, an error of some class, or no result, when it
\* panics or is aborted.
Results == Failures \cup {"dispatch", "panicked", "aborted"}

Recoveries == [records : SUBSET Calls, nested : SUBSET Calls, post : BOOLEAN]

ASSUME NoneAssumption ==
    None \notin Results \cup [kind : Failures, order : Calls] \cup Recoveries

Places == {"unspawned", "slot", "chain", "admission", "calling", "after", "ended", "joined"}

TypeOK ==
    /\ task \in [Calls -> Places]
    /\ result \in [Calls -> Results \cup {None}]
    /\ committed \subseteq Calls /\ carried \subseteq Calls
    /\ holders \in [Locks -> SUBSET Calls]
    /\ waiting \in [Locks -> Seq(Calls)]
    /\ phase \in {"stream", "collect", "sweep", "drain", "abort", "returned"}
    /\ ending \in {"batch", "preflight", "stream", "cancelled"}
    /\ streamed \subseteq Calls
    /\ missing \in BOOLEAN /\ cancelled \in BOOLEAN /\ torn \in BOOLEAN
    /\ completed \subseteq Calls /\ nested \subseteq Calls
    /\ failure \in [kind : Failures, order : Calls] \cup {None}
    /\ postFailure \in BOOLEAN
    /\ outcome \in Failures \cup {"settled", "preflight", "stream", "unexplained", None}
    /\ records \subseteq Calls
    /\ recovery \in Recoveries \cup {None}

Init ==
    /\ task = [c \in Calls |-> "unspawned"]
    /\ result = [c \in Calls |-> None]
    /\ committed = {} /\ carried = {}
    /\ holders = [l \in Locks |-> {}]
    /\ waiting = [l \in Locks |-> << >>]
    /\ phase = "stream" /\ ending = "batch"
    /\ streamed = {}
    /\ missing = FALSE /\ cancelled = FALSE /\ torn = FALSE
    /\ completed = {} /\ failure = None /\ nested = {} /\ postFailure = FALSE
    /\ outcome = None /\ records = {} /\ recovery = None

\* A tool scope is a child of the turn's.
Cancelled == cancelled \/ torn

Active == {c \in Calls : task[c] \in {"slot", "chain", "admission", "calling", "after"}}

Unjoined == {c \in Calls : task[c] \notin {"unspawned", "joined"}}

Goto(c, place) == task' = [task EXCEPT ![c] = place]
------------------------------------------------------------------------------
(* The resource locks                                                       *)

\* Whether a call wants a lock to itself.
WantsAlone(c, l) == IF l = Global THEN c \in Exclusive ELSE l \in Writes[c]

\* Whether a lock can be given to a call beside those that hold it.
Free(c, l) ==
    \/ holders[l] = {}
    \/ ~WantsAlone(c, l) /\ \A h \in holders[l] : ~WantsAlone(h, l)

\* The locks a call needs: the global one, and an exclusive tool no other.
Needed(c) ==
    {Global} \cup (IF c \in Exclusive THEN {} ELSE {Claims[c][i] : i \in DOMAIN Claims[c]})

\* Those it does not have yet.
Wanted(c) == {l \in Needed(c) : c \notin holders[l]}

\* Claims locked in the order the tool names them.
NextLock_AsNamed(c) ==
    IF Global \in Wanted(c) THEN Global
    ELSE LET i == CHOOSE j \in DOMAIN Claims[c] :
                     /\ Claims[c][j] \in Wanted(c)
                     /\ \A h \in 1..(j - 1) : Claims[c][h] \notin Wanted(c)
         IN  Claims[c][i]

\* ResourceClaim::deduplicate sorts the claims, and they are locked in that order.
NextLock(c) == CHOOSE l \in Wanted(c) : \A m \in Wanted(c) : l <= m

\* The calls that wait for a lock.
Queued == {c \in Calls : \E l \in Locks : \E i \in DOMAIN waiting[l] : waiting[l][i] = c}

\* A queue without its i-th waiter.
DropAt(q, i) == [j \in 1..(Len(q) - 1) |-> IF j < i THEN q[j] ELSE q[j + 1]]

\* A queue that a call leaves: it waits once at most.
LeaveQueue(q, c) ==
    IF \E i \in DOMAIN q : q[i] = c
      THEN DropAt(q, CHOOSE i \in DOMAIN q : q[i] = c)
      ELSE q

\* The task is over: its guards, and its place in a queue, are dropped.
Release(c) ==
    /\ holders' = [l \in Locks |-> holders[l] \ {c}]
    /\ waiting' = [l \in Locks |-> LeaveQueue(waiting[l], c)]
------------------------------------------------------------------------------
(* The task of one call                                                     *)

\* A task ends, and lets go of everything.
End(c, r) ==
    /\ Goto(c, "ended")
    /\ result' = [result EXCEPT ![c] = r]
    /\ Release(c)

supervisorVars == <<phase, ending, streamed, missing, cancelled, torn, collectedVars,
                    returnVars>>

\* cancel.run(slots.acquire_owned()); the slot is held to the end of the dispatch.
TakeSlot(c) ==
    /\ task[c] = "slot"
    /\ Cardinality(Active \ {d \in Calls : task[d] = "slot"}) < Slots
    /\ Goto(c, "chain")
    /\ UNCHANGED <<result, committed, carried, gateVars, supervisorVars>>

\* The chain up to admission: hooks, permission and guardrails let the call
\* through, answer it (a refusal, an approval to ask for), or fail.
RunChain(c) ==
    /\ task[c] = "chain"
    /\ \/ /\ Goto(c, "admission")
          /\ UNCHANGED <<result, gateVars>>
       \/ \E r \in {"dispatch"} \cup Fates[c] : End(c, r)
    /\ UNCHANGED <<committed, carried, supervisorVars>>

\* acquire_permits asks for the next lock.  Locks are fair: a call gets one at
\* once only if nobody waits for it, and else waits its turn.
AskLock(c) ==
    /\ task[c] = "admission" /\ Wanted(c) # {} /\ c \notin Queued
    /\ LET l == NextLock(c)
       IN  IF waiting[l] = << >> /\ Free(c, l)
             THEN holders' = [holders EXCEPT ![l] = @ \cup {c}] /\ UNCHANGED waiting
             ELSE waiting' = [waiting EXCEPT ![l] = Append(@, c)] /\ UNCHANGED holders
    /\ UNCHANGED <<taskVars, supervisorVars>>

\* The first in line gets the lock.
GetLock(c, l) ==
    /\ waiting[l] # << >> /\ Head(waiting[l]) = c
    /\ Free(c, l)
    /\ holders' = [holders EXCEPT ![l] = @ \cup {c}]
    /\ waiting' = [waiting EXCEPT ![l] = Tail(@)]
    /\ UNCHANGED <<taskVars, supervisorVars>>

\* Every permit is there: the tool is called, unless the scope has been
\* cancelled meanwhile.
StartCall(c) ==
    /\ task[c] = "admission" /\ Wanted(c) = {}
    /\ IF Cancelled THEN End(c, "cancelled")
                    ELSE Goto(c, "calling") /\ UNCHANGED <<result, gateVars>>
    /\ UNCHANGED <<committed, carried, supervisorVars>>

\* The tool returns, with an output, with a failure that is its answer or an
\* approval to ask for, or with an error, or it panics; the permits are dropped.
\* The error of an agent's tool may carry the agent's run, when what that run did
\* could not be saved.
CallReturns(c) ==
    /\ task[c] = "calling"
    /\ \/ Goto(c, "after") /\ Release(c) /\ UNCHANGED <<result, carried>>
       \/ \E r \in {"dispatch"} \cup Fates[c] : End(c, r) /\ UNCHANGED carried
       \/ \E r \in Failures \cap Fates[c] :
             c \in Agents /\ End(c, r) /\ carried' = carried \cup {c}
    /\ UNCHANGED <<committed, supervisorVars>>

\* The hooks and the guardrails after the call, or what becomes of a deadline
\* (shape_deadline), fail it; the tool's extractor may do so after the commit.
AfterCallFails(c) == \E r \in Fates[c] : End(c, r)

\* finish_output commits the output before it runs the tool's extractor.
FinishOutput(c) ==
    /\ task[c] = "after"
    /\ \/ /\ c \notin committed
          /\ committed' = committed \cup {c}
          /\ UNCHANGED <<task, result, gateVars>>
       \/ c \in committed /\ End(c, "dispatch") /\ UNCHANGED committed
       \/ AfterCallFails(c) /\ UNCHANGED committed
    /\ UNCHANGED <<carried, supervisorVars>>

\* CancelScope::run gives up what it waits for: a slot or a lock always, a hook, a
\* guardrail or a tool when it comes to an await point.
HeedCancel(c) ==
    /\ Cancelled
    /\ task[c] \in {"slot", "admission"} \/ (c \in Active /\ c \notin Stubborn)
    /\ End(c, "cancelled")
    /\ UNCHANGED <<committed, carried, supervisorVars>>

\* abort_all lands at an await point.
Abort(c) ==
    /\ phase = "abort"
    /\ c \in Active
    /\ End(c, "aborted")
    /\ UNCHANGED <<committed, carried, supervisorVars>>

Admission(c) == AskLock(c) \/ (\E l \in Locks : GetLock(c, l)) \/ StartCall(c)
------------------------------------------------------------------------------
(* The supervisor                                                           *)

\* A completed item of the stream starts its call.
StreamCall(c) ==
    /\ phase = "stream" /\ ~Cancelled
    /\ task[c] = "unspawned" /\ c \notin Deferred
    /\ Goto(c, "slot")
    /\ streamed' = streamed \cup {c}
    /\ UNCHANGED <<result, committed, carried, gateVars, phase, ending, missing, cancelled, torn,
                   collectedVars, returnVars>>

Spawn(calls) ==
    task' = [c \in Calls |-> IF c \in calls /\ task[c] = "unspawned" THEN "slot" ELSE task[c]]

TearDown(why) ==
    /\ phase' = "drain"
    /\ ending' = why
    /\ torn' = TRUE

\* The response is complete, and the calls it makes are spawned.
Respond ==
    /\ phase = "stream"
    /\ IF cancelled THEN TearDown("cancelled") /\ UNCHANGED <<task, missing>>
                    ELSE /\ Spawn(Calls)
                         /\ missing' \in BOOLEAN
                         /\ phase' = "collect"
                         /\ UNCHANGED <<ending, torn>>
    /\ UNCHANGED <<result, committed, carried, gateVars, streamed, cancelled, collectedVars, returnVars>>

\* The response changed a call the stream had completed, or left it out.
Contradict ==
    /\ phase = "stream" /\ ~cancelled
    /\ \E c \in streamed : Spawn(1..(c - 1)) \/ Spawn(Calls)
    /\ TearDown("preflight")
    /\ UNCHANGED <<result, committed, carried, gateVars, streamed, missing, cancelled, collectedVars,
                   returnVars>>

\* The stream ends without a response: cancel_and_drain.
StreamFails ==
    /\ phase = "stream"
    /\ TearDown("stream")
    /\ UNCHANGED <<taskVars, gateVars, streamed, missing, cancelled, collectedVars, returnVars>>

\* The turn is cancelled, for a reason of its own.
CancelTurn ==
    /\ phase # "returned" /\ ~cancelled
    /\ cancelled' = TRUE
    /\ UNCHANGED <<taskVars, gateVars, phase, ending, streamed, missing, torn, collectedVars,
                   returnVars>>

\* The failure that is seen first.
Merge_First(current, incoming) == IF current = None THEN incoming ELSE current

\* merge_failure: the higher class wins, then the earlier call.
Merge(current, incoming) ==
    IF current = None THEN incoming
    ELSE IF \/ Priority[incoming.kind] > Priority[current.kind]
            \/ /\ Priority[incoming.kind] = Priority[current.kind]
               /\ incoming.order < current.order
         THEN incoming ELSE current

\* An error that carries a run ranked as a failure of no class of its own.
KindOf_Carried(c) ==
    IF result[c] \in {"panicked", "aborted"} \/ c \in carried THEN "other" ELSE result[c]

\* failure_priority: a task that gave no result failed in no class of its own, and
\* the run an error carries does not change what failed.
KindOf(c) == IF result[c] \in {"panicked", "aborted"} THEN "other" ELSE result[c]

\* record_task_result.  During a teardown a cancellation only acknowledges it.
Record(c, teardown) ==
    LET r == result[c]
        kept == c \in committed /\ r \notin {"dispatch", "panicked", "aborted"}
    IN  /\ completed' = IF r = "dispatch" \/ kept THEN completed \cup {c} ELSE completed
        /\ postFailure' = (postFailure \/ kept)
        /\ nested' = nested \cup ({c} \cap carried)
        /\ failure' = IF r = "dispatch" \/ (teardown /\ r \in {"cancelled", "aborted"})
                        THEN failure
                        ELSE Merge(failure, [kind |-> KindOf(c), order |-> c])

\* One task is joined; in collect_dispatches those that are ready follow.
Join(c) ==
    /\ phase \in {"collect", "sweep", "drain", "abort"}
    /\ task[c] = "ended"
    /\ Goto(c, "joined")
    /\ Record(c, phase \in {"drain", "abort"})
    /\ phase' = IF phase = "collect" THEN "sweep" ELSE phase
    /\ UNCHANGED <<result, committed, carried, gateVars, ending, streamed, missing, cancelled, torn,
                   returnVars>>

\* No other task is ready: a failure tears the batch down.
SweepDone ==
    /\ phase = "sweep"
    /\ \A c \in Calls : task[c] # "ended"
    /\ IF failure # None THEN TearDown(ending)
                         ELSE phase' = "collect" /\ UNCHANGED <<ending, torn>>
    /\ UNCHANGED <<taskVars, gateVars, streamed, missing, cancelled, collectedVars, returnVars>>

\* The turn was cancelled while its calls ran.
CollectCancelled ==
    /\ phase = "collect" /\ cancelled
    /\ phase' = "drain"
    /\ UNCHANGED <<taskVars, gateVars, ending, streamed, missing, cancelled, torn,
                   collectedVars, returnVars>>

\* A grace period that only a cancelled turn gets.
GraceOver_Cancelled ==
    /\ phase = "drain" /\ Unjoined # {} /\ cancelled
    /\ phase' = "abort"
    /\ UNCHANGED <<taskVars, gateVars, ending, streamed, missing, cancelled, torn,
                   collectedVars, returnVars>>

\* DRAIN_GRACE passes with tasks left.
GraceOver ==
    /\ phase = "drain" /\ Unjoined # {}
    /\ phase' = "abort"
    /\ UNCHANGED <<taskVars, gateVars, ending, streamed, missing, cancelled, torn,
                   collectedVars, returnVars>>

\* A checkpoint kept whatever the other calls came to.
Kept_Any == postFailure

\* every_call_settled decides whether a failed batch is worth keeping.
Kept == postFailure /\ ~missing /\ Calls \subseteq completed \cup nested

\* Every task has been joined.
Drained == phase \in {"collect", "drain", "abort"} /\ Unjoined = {}

\* The end of execute_actions.  A cancellation outranks everything; a failed batch
\* leaves a recovery when a nested run or a committed output is worth it.
Return ==
    /\ Drained
    /\ phase' = "returned"
    /\ LET error == IF failure = None THEN "unexplained" ELSE failure.kind
       IN  CASE ending # "batch" ->
                  /\ outcome' = IF cancelled THEN "cancelled" ELSE ending
                  /\ UNCHANGED <<records, recovery>>
             [] ending = "batch" /\ (nested # {} \/ Kept) ->
                  /\ outcome' = IF cancelled THEN "cancelled" ELSE error
                  /\ recovery' = [records |-> completed, nested |-> nested, post |-> Kept]
                  /\ UNCHANGED records
             [] ending = "batch" /\ ~(nested # {} \/ Kept) ->
                  /\ outcome' = IF cancelled THEN "cancelled"
                                ELSE IF failure = None THEN "settled" ELSE error
                  /\ records' = IF ~cancelled /\ failure = None THEN completed ELSE records
                  /\ UNCHANGED recovery
    /\ UNCHANGED <<taskVars, gateVars, ending, streamed, missing, cancelled, torn,
                   collectedVars>>

Supervisor ==
    \/ Respond \/ (\E c \in Calls : Join(c))
    \/ SweepDone \/ CollectCancelled \/ GraceOver \/ Return

Next ==
    \/ \E c \in Calls : \/ StreamCall(c) \/ TakeSlot(c) \/ RunChain(c) \/ Admission(c)
                        \/ CallReturns(c) \/ FinishOutput(c) \/ HeedCancel(c) \/ Abort(c)
    \/ Contradict \/ StreamFails \/ CancelTurn
    \/ Supervisor

\* The runtime polls the supervisor and the tasks, and wakes those that wait on a
\* slot, a lock or a cancelled scope; nothing makes a tool return.
Fairness ==
    /\ WF_vars(Supervisor)
    /\ \A c \in Calls : /\ WF_vars(TakeSlot(c))
                        /\ WF_vars(RunChain(c))
                        /\ WF_vars(Admission(c))
                        /\ WF_vars(FinishOutput(c))
                        /\ WF_vars(HeedCancel(c))
                        /\ WF_vars(Abort(c))

Spec == Init /\ [][Next]_vars /\ Fairness
------------------------------------------------------------------------------
(* Properties                                                               *)

\* Calls that wait for locks never wait for one another: some lock can be given,
\* or one of those that hold them is on its way to let go.
NoLockDeadlock ==
    Queued # {} =>
        \/ \E l \in Locks : waiting[l] # << >> /\ Free(Head(waiting[l]), l)
        \/ \E l \in Locks : \E h \in holders[l] : h \notin Queued

\* When execute_actions returns, none of its tasks is left: no tool runs on, and
\* no slot or lock is held, although tools are cancelled, ignore it and are
\* aborted (drain_dispatches).
NothingDetached ==
    phase = "returned" =>
        /\ \A c \in Calls : task[c] \in {"unspawned", "joined"}
        /\ \A l \in Locks : holders[l] = {} /\ waiting[l] = << >>

\* A batch answers every call or none, and a failed batch is kept for resumption
\* because of a committed output only when every one of its calls was answered
\* or carries a nested run, so that no call is replayed without an answer.
AllOrNothing ==
    phase = "returned" =>
        /\ outcome = "settled" => records = Calls
        /\ outcome # "settled" => records = {}
        /\ recovery # None /\ recovery.post =>
              Calls \subseteq recovery.records \cup recovery.nested /\ ~missing

\* The failure a batch reports is the first of the highest class among all that
\* its tasks ended with before the teardown, or in spite of it, whatever order
\* they were joined in and whether or not they carry a run; and there always is one
\* (merge_failure, and the "batch failure that produced it" of execute_actions).
WorstFailureReported ==
    phase = "returned" /\ ending = "batch" /\ ~cancelled =>
        /\ outcome # "unexplained"
        /\ \A c \in Calls :
              result[c] \in (Failures \ {"cancelled"}) \cup {"panicked"} =>
                  /\ failure # None
                  /\ outcome = failure.kind
                  /\ LET own == IF result[c] = "panicked" THEN "other" ELSE result[c]
                     IN  \/ Priority[failure.kind] > Priority[own]
                         \/ failure.kind = own /\ failure.order <= c

\* A batch whose turn is cancelled, or that failed, returns, although a tool may
\* never do so by itself and may not heed its cancellation.
TeardownReturns == (phase # "stream" /\ Cancelled) ~> phase = "returned"
==============================================================================
