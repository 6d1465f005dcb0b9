------------------------------ MODULE AgentTree ------------------------------
(***************************************************************************)
(* The tree of spawned agents (ra-runtime/src/agent/control.rs): spawning, *)
(* mail and follow-ups, the driver that runs an agent while its mailbox    *)
(* asks for it, pauses for approval, closing a subtree, and shutting the   *)
(* tree down.                                                              *)
(*                                                                         *)
(* A node is one incarnation of an agent: its path never changes, and a    *)
(* path may be used again once its agent was closed.  The root's runs are  *)
(* the host's.  The processes are the spawn calls (one for each node), the *)
(* send calls (one for each message), the drivers (one for each running    *)
(* node), the close tasks and the tree's shutdown task.  An action is one  *)
(* critical section, or the stretch between two points at which another    *)
(* process could come in between.                                          *)
(*                                                                         *)
(* The tree has a rollout store and a spawned-agent factory; both are      *)
(* outside it and may fail.  A mailbox is the set of what waits in it: a   *)
(* message, the node's own name for the mail its spawn left, and the name  *)
(* of a child for that child's final answer.                               *)
(***************************************************************************)
EXTENDS Naturals, FiniteSets, SequencesExt, Selection

CONSTANTS
    Nodes, Root, None,
    PathOf,          \* the path of every node; the root's is <<>>
    DepthFirst,      \* the paths other than the root's, in depth-first order
    Messages,        \* send calls, each made once
    Followups,       \* the ones that ask for a run of their target
    Closers,         \* the host's close calls
    Stoppers,        \* the host's shutdown calls
    MaxThreads,      \* the concurrency ceiling
    MaxDepth,        \* the deepest an agent may be
    CloseBelow,      \* close_descendants_on_cancel
    MaxPauses,       \* bound on the approval pauses of one run
    MaxFailures      \* bound on the rollout shutdowns that fail

All == Nodes \cup {Root}
Tasks == All \cup Closers        \* a run's own close, or the host's
Paths == {PathOf[n] : n \in All}

ASSUME NodesAssumption ==
    /\ Root \notin Nodes /\ None \notin All
    /\ Closers \cap All = {}
    /\ Messages \cap All = {}
    /\ PathOf[Root] = <<>>
    /\ \A n \in All : PathOf[n] \in Seq(STRING)
    /\ \A n \in Nodes : PathOf[n] # <<>> /\ Front(PathOf[n]) \in Paths
    /\ DepthFirst \in Seq(Paths) /\ Range(DepthFirst) = Paths \ {<<>>}
    /\ \A i, j \in DOMAIN DepthFirst : IsStrictPrefix(DepthFirst[i], DepthFirst[j]) => i < j

ASSUME LimitsAssumption ==
    /\ Followups \subseteq Messages
    /\ MaxThreads \in Nat /\ MaxDepth \in Nat /\ MaxPauses \in Nat /\ MaxFailures \in Nat
    /\ CloseBelow \in BOOLEAN

VARIABLES
    agents,          \* Tree.agents, behind its mutex
    shutDown, treeCancelled,
    \* AgentNode
    status, closed, closing, mail, rolloutDown, resources,
    \* ChildRuntime; "run" is the driver's place, and current_run is set, and
    \* idle cleared, exactly while it is not "idle"
    scopeCancelled, runCancelled, run, result,
    pauses, paused, answer,
    \* a spawn call for each node, made by a run of its caller
    spawn, caller,
    \* a send call for each message
    send, target,
    \* close_subtree
    task,
    \* the shutdown calls, and the task they share
    stopper, shut,
    failures

treeVars == <<agents, shutDown, treeCancelled>>
nodeVars == <<status, closed, closing, mail, rolloutDown, resources>>
pauseVars == <<pauses, paused, answer>>
runVars == <<scopeCancelled, runCancelled, run, result, pauseVars>>
callVars == <<spawn, caller, send, target>>
shutVars == <<stopper, shut>>
vars == <<treeVars, nodeVars, runVars, callVars, task, shutVars, failures>>

\* "Ended" stands for Completed, Errored and Interrupted.
Statuses == {"PendingInit", "Running", "Ended", "Shutdown"}
Results == {"none", "final", "cancelled"}
EndedPCs == {"ending", "report", "ended", "closeBelow"}
ActivePCs == {"running", "paused"} \cup EndedPCs
RunPCs == {"idle", "claimed", "start", "handBack"} \cup ActivePCs
SpawnPending == {"prepare", "rollout", "admit", "undo", "release", "post", "start"}
SpawnPCs == {"new", "done", "refused", "dropped"} \cup SpawnPending
TaskPCs == {"idle", "found", "marked", "stop", "rollout", "remove", "finish", "done"}
ShutPCs == {"none", "marked", "tasks", "nodes", "rollout", "release", "done"}

TypeOK ==
    /\ agents \in [Paths -> All \cup {None}]
    /\ shutDown \in BOOLEAN /\ treeCancelled \in BOOLEAN
    /\ status \in [All -> Statuses]
    /\ closed \in [All -> BOOLEAN]
    /\ closing \in [All -> Nat]
    /\ mail \in [All -> SUBSET (Messages \cup Nodes)]
    /\ rolloutDown \in [All -> BOOLEAN]
    /\ resources \in [All -> {"none", "held", "released"}]
    /\ scopeCancelled \in [All -> BOOLEAN] /\ runCancelled \in [All -> BOOLEAN]
    /\ run \in [All -> RunPCs]
    /\ result \in [All -> Results]
    /\ {pauses, paused, answer} \subseteq [All -> Nat]
    /\ spawn \in [Nodes -> SpawnPCs]
    /\ caller \in [Nodes -> All \cup {None}]
    /\ send \in [Messages -> {"new", "push", "start", "done"}]
    /\ target \in [Messages -> All \cup {None}]
    /\ task \in [Tasks -> [pc : TaskPCs, node : All \cup {None}, todo : Seq(Nodes)]]
    /\ stopper \in [Stoppers -> {"new", "waiting", "done"}]
    /\ shut \in [pc : ShutPCs, todo : Seq(Nodes), complete : BOOLEAN]
    /\ failures \in Nat

Init ==
    /\ agents = [p \in Paths |-> IF p = <<>> THEN Root ELSE None]
    /\ shutDown = FALSE /\ treeCancelled = FALSE
    /\ status = [n \in All |-> "PendingInit"]
    /\ closed = [n \in All |-> FALSE]
    /\ closing = [n \in All |-> 0]
    /\ mail = [n \in All |-> {}]
    /\ rolloutDown = [n \in All |-> FALSE]
    /\ resources = [n \in All |-> "none"]
    /\ scopeCancelled = [n \in All |-> FALSE]
    /\ runCancelled = [n \in All |-> FALSE]
    /\ run = [n \in All |-> "idle"]
    /\ result = [n \in All |-> "none"]
    /\ pauses = [n \in All |-> 0]
    /\ paused = [n \in All |-> 0]
    /\ answer = [n \in All |-> 0]
    /\ spawn = [n \in Nodes |-> "new"]
    /\ caller = [n \in Nodes |-> None]
    /\ send = [m \in Messages |-> "new"]
    /\ target = [m \in Messages |-> None]
    /\ task = [t \in Tasks |-> [pc |-> "idle", node |-> None, todo |-> <<>>]]
    /\ stopper = [s \in Stoppers |-> "new"]
    /\ shut = [pc |-> "none", todo |-> <<>>, complete |-> FALSE]
    /\ failures = 0

-----------------------------------------------------------------------------

InTree(n) == agents[PathOf[n]] = n
HasTrigger(n) == mail[n] \cap (Followups \cup {n}) # {}
Running == {n \in Nodes : run[n] \in ActivePCs}
HasCapacity == Cardinality(Running) < MaxThreads

\* A spawned agent's scope is below the tree's; the root's run is the host's.
Cancelled(n) == runCancelled[n] \/ scopeCancelled[n] \/ (n # Root /\ treeCancelled)

Drive(n, place) == run' = [run EXCEPT ![n] = place]
Task(t, place) == task' = [task EXCEPT ![t].pc = place]
Publish(n, s) == status' = [status EXCEPT ![n] = s]
Deliver(n, x) == mail' = [mail EXCEPT ![n] = @ \cup {x}]

\* ensure_running, under the lock of the node's state: a closed agent, or one
\* of a tree shut down, claims no run.
Claims_EvenClosed(n) == ~ shutDown /\ run[n] = "idle" /\ HasTrigger(n)
Claims(n) == ~ shutDown /\ run[n] = "idle" /\ ~ closed[n] /\ HasTrigger(n)

EnsureRunning(n) ==
    IF n \in Nodes /\ Claims(n)
    THEN Drive(n, "claimed") /\ runCancelled' = [runCancelled EXCEPT ![n] = FALSE]
    ELSE UNCHANGED <<run, runCancelled>>

-----------------------------------------------------------------------------
(* Spawning.                                                               *)

Spawn(n, place) == spawn' = [spawn EXCEPT ![n] = place]

\* What a call checks before it prepares anything; a refused call leaves no
\* trace.
BeginSpawn(n, c) ==
    /\ spawn[n] = "new"
    /\ run[c] = "running"
    /\ PathOf[c] = Front(PathOf[n])
    /\ ~ shutDown /\ ~ closed[c] /\ closing[c] = 0
    /\ Len(PathOf[n]) <= MaxDepth
    /\ HasCapacity
    /\ agents[PathOf[n]] = None
    /\ Spawn(n, "prepare")
    /\ caller' = [caller EXCEPT ![n] = c]
    /\ UNCHANGED <<treeVars, nodeVars, runVars, send, target, task, shutVars, failures>>

PrepareSpawned(n) ==
    /\ spawn[n] = "prepare"
    /\ \/ Spawn(n, "rollout") /\ resources' = [resources EXCEPT ![n] = "held"]
       \/ Spawn(n, "refused") /\ UNCHANGED resources
    /\ UNCHANGED <<treeVars, status, closed, closing, mail, rolloutDown, runVars, caller, send,
                   target, task, shutVars, failures>>

CreateRollout(n) ==
    /\ spawn[n] = "rollout"
    /\ Spawn(n, "admit") \/ Spawn(n, "release")
    /\ UNCHANGED <<treeVars, nodeVars, runVars, caller, send, target, task, shutVars, failures>>

\* admit asks again, under the lock a close marks its subtree under.
Admits_AfterShutdown(n) ==
    ~ closed[caller[n]] /\ closing[caller[n]] = 0 /\ agents[PathOf[n]] = None

Admits_WhileClosing(n) == ~ shutDown /\ agents[PathOf[n]] = None
Admits(n) ==
    /\ ~ shutDown
    /\ ~ closed[caller[n]]
    /\ closing[caller[n]] = 0
    /\ agents[PathOf[n]] = None

Admit(n) ==
    /\ spawn[n] = "admit"
    /\ IF Admits(n)
       THEN agents' = [agents EXCEPT ![PathOf[n]] = n] /\ Spawn(n, "post")
       ELSE Spawn(n, "undo") /\ UNCHANGED agents
    /\ UNCHANGED <<shutDown, treeCancelled, nodeVars, runVars, caller, send, target, task,
                   shutVars, failures>>

\* A spawn refused after it was prepared lets go of what it holds; a failure
\* to shut its rollout down is only logged.
UndoRollout(n) ==
    /\ spawn[n] = "undo"
    /\ Spawn(n, "release")
    /\ \E down \in BOOLEAN : rolloutDown' = [rolloutDown EXCEPT ![n] = down]
    /\ UNCHANGED <<treeVars, status, closed, closing, mail, resources, runVars, caller, send,
                   target, task, shutVars, failures>>

ReleaseRefused(n) ==
    /\ spawn[n] = "release"
    /\ resources' = [resources EXCEPT ![n] = "released"]
    /\ Spawn(n, "refused")
    /\ UNCHANGED <<treeVars, status, closed, closing, mail, rolloutDown, runVars, caller, send,
                   target, task, shutVars, failures>>

\* The tool call that spawns is dropped where it waits, when its run is
\* cancelled, a call beside it fails or it takes too long.
DropSpawn(n) ==
    /\ spawn[n] \in {"prepare", "rollout", "undo", "release"}
    /\ Spawn(n, "dropped")
    /\ UNCHANGED <<treeVars, nodeVars, runVars, caller, send, target, task, shutVars, failures>>

PostTask(n) ==
    /\ spawn[n] = "post"
    /\ Deliver(n, n)
    /\ Spawn(n, "start")
    /\ UNCHANGED <<treeVars, status, closed, closing, rolloutDown, resources, runVars, caller,
                   send, target, task, shutVars, failures>>

StartSpawned(n) ==
    /\ spawn[n] = "start"
    /\ EnsureRunning(n)
    /\ Spawn(n, "done")
    /\ UNCHANGED <<treeVars, nodeVars, scopeCancelled, result, pauseVars, caller, send, target,
                   task, shutVars, failures>>

-----------------------------------------------------------------------------
(* Sending mail, and interrupting.                                         *)

BeginSend(m, n) ==
    /\ send[m] = "new"
    /\ InTree(n)
    /\ status[n] # "Shutdown" /\ ~ closed[n] /\ ~ shutDown
    /\ m \in Followups => n # Root /\ (run[n] # "idle" \/ HasCapacity)
    /\ send' = [send EXCEPT ![m] = "push"]
    /\ target' = [target EXCEPT ![m] = n]
    /\ UNCHANGED <<treeVars, nodeVars, runVars, spawn, caller, task, shutVars, failures>>

PushMail(m) ==
    /\ send[m] = "push"
    /\ Deliver(target[m], m)
    /\ send' = [send EXCEPT ![m] = IF m \in Followups THEN "start" ELSE "done"]
    /\ UNCHANGED <<treeVars, status, closed, closing, rolloutDown, resources, runVars, spawn,
                   caller, target, task, shutVars, failures>>

StartForMail(m) ==
    /\ send[m] = "start"
    /\ EnsureRunning(target[m])
    /\ send' = [send EXCEPT ![m] = "done"]
    /\ UNCHANGED <<treeVars, nodeVars, scopeCancelled, result, pauseVars, spawn, caller, target,
                   task, shutVars, failures>>

\* interrupt of a spawned agent, or the host cancelling its own run.
Interrupt(n) ==
    /\ InTree(n)
    /\ run[n] # "idle"
    /\ runCancelled' = [runCancelled EXCEPT ![n] = TRUE]
    /\ UNCHANGED <<treeVars, nodeVars, scopeCancelled, run, result, pauseVars, callVars, task,
                   shutVars, failures>>

-----------------------------------------------------------------------------
(* Drivers: drive, run_to_end, and the status a run leaves.                *)

\* ensure_running spawns the driver it claimed a run for, and keeps its handle.
StartDriver(n) ==
    /\ run[n] = "claimed"
    /\ Drive(n, "start")
    /\ UNCHANGED <<treeVars, nodeVars, scopeCancelled, runCancelled, result, pauseVars, callVars,
                   task, shutVars, failures>>

\* The run is counted, takes the mail it starts on, and reports itself running.
StartRun(n) ==
    /\ run[n] = "start"
    /\ Drive(n, "running")
    /\ mail' = [mail EXCEPT ![n] = {}]
    /\ Publish(n, "Running")
    /\ UNCHANGED <<treeVars, closed, closing, rolloutDown, resources, scopeCancelled,
                   runCancelled, result, pauseVars, callVars, task, shutVars, failures>>

\* The host starts a run on the root.
StartHostRun ==
    /\ run[Root] = "idle"
    /\ Drive(Root, "running")
    /\ runCancelled' = [runCancelled EXCEPT ![Root] = FALSE]
    /\ Publish(Root, "Running")
    /\ UNCHANGED <<treeVars, closed, closing, mail, rolloutDown, resources, scopeCancelled,
                   result, pauseVars, callVars, task, shutVars, failures>>

\* take_mail, at a model-call boundary.
TakeMail(n) ==
    /\ run[n] = "running"
    /\ mail[n] # {}
    /\ mail' = [mail EXCEPT ![n] = {}]
    /\ UNCHANGED <<treeVars, status, closed, closing, rolloutDown, resources, runVars, callVars,
                   task, shutVars, failures>>

\* A run waits for the tool calls it made, or drops them.
NoCallPending(c) == \A n \in Nodes : spawn[n] \in SpawnPending => caller[n] # c

\* run_finished tells nobody of a spawned agent that is being stopped.
Silenced(n) == n # Root /\ (shutDown \/ closed[n])

\* The run stops for approval: its checkpoint waits for the host.  The root's
\* pauses are the host's own business.
Pause(n) ==
    /\ n \in Nodes
    /\ run[n] = "running" /\ NoCallPending(n)
    /\ pauses[n] < MaxPauses
    /\ Drive(n, "paused")
    /\ Publish(n, IF Silenced(n) THEN "Shutdown" ELSE "Running")
    /\ pauses' = [pauses EXCEPT ![n] = @ + 1]
    /\ paused' = [paused EXCEPT ![n] = pauses'[n]]
    /\ UNCHANGED <<treeVars, closed, closing, mail, rolloutDown, resources, scopeCancelled,
                   runCancelled, result, answer, callVars, task, shutVars, failures>>

\* resume, from the checkpoint of pause p of this run: only the run's id is
\* compared.
Resume(n, p) ==
    /\ InTree(n)
    /\ paused[n] # 0
    /\ p \in 1 .. pauses[n]
    /\ paused' = [paused EXCEPT ![n] = 0]
    /\ answer' = [answer EXCEPT ![n] = p]
    /\ UNCHANGED <<treeVars, nodeVars, scopeCancelled, runCancelled, run, result, pauses,
                   callVars, task, shutVars, failures>>

\* The select over the answer and the cancellation takes either.
CancelEndsPause_Never(n) == FALSE
CancelEndsPause(n) == Cancelled(n)

LeavePause(n) ==
    /\ run[n] = "paused"
    /\ \/ /\ answer[n] # 0
          /\ Drive(n, "running")
          /\ Publish(n, "Running")
          /\ UNCHANGED result
       \/ /\ CancelEndsPause(n)
          /\ Drive(n, "ending")
          /\ result' = [result EXCEPT ![n] = "cancelled"]
          /\ status' = status
    /\ paused' = [paused EXCEPT ![n] = 0]
    /\ answer' = [answer EXCEPT ![n] = 0]
    /\ UNCHANGED <<treeVars, closed, closing, mail, rolloutDown, resources, scopeCancelled,
                   runCancelled, pauses, callVars, task, shutVars, failures>>

EndRun(n) ==
    /\ run[n] = "running" /\ NoCallPending(n)
    /\ \/ result' = [result EXCEPT ![n] = "final"]
       \/ Cancelled(n) /\ result' = [result EXCEPT ![n] = "cancelled"]
    /\ Drive(n, "ending")
    /\ UNCHANGED <<treeVars, nodeVars, scopeCancelled, runCancelled, pauseVars, callVars, task,
                   shutVars, failures>>

\* run_finished publishes the status before it looks for the parent.
RunFinished(n) ==
    /\ run[n] = "ending"
    /\ Publish(n, IF Silenced(n) THEN "Shutdown" ELSE "Ended")
    /\ Drive(n, IF Silenced(n) \/ n = Root \/ result[n] = "cancelled" THEN "ended"
                ELSE "report")
    /\ UNCHANGED <<treeVars, closed, closing, mail, rolloutDown, resources, scopeCancelled,
                   runCancelled, result, pauseVars, callVars, task, shutVars, failures>>

\* The final answer goes to whoever is at the parent's path by then.
ReportToParent(n) ==
    LET parent == agents[Front(PathOf[n])]
    IN  /\ run[n] = "report"
        /\ IF parent = None THEN UNCHANGED mail ELSE Deliver(parent, n)
        /\ Drive(n, "ended")
        /\ UNCHANGED <<treeVars, status, closed, closing, rolloutDown, resources, scopeCancelled,
                       runCancelled, result, pauseVars, callVars, task, shutVars, failures>>

\* run_ended: where the tree asks for it, a cancelled run closes what is below
\* its agent before it returns.
AfterRun(n) ==
    /\ run[n] = "ended"
    /\ IF result[n] = "cancelled" /\ CloseBelow /\ ~ shutDown /\ ~ closed[n]
       THEN Drive(n, "closeBelow") /\ task' = [task EXCEPT ![n].pc = "found", ![n].node = n]
       ELSE Drive(n, "handBack") /\ UNCHANGED task
    /\ UNCHANGED <<treeVars, nodeVars, scopeCancelled, runCancelled, result, pauseVars, callVars,
                   shutVars, failures>>

ClosedBelow(n) ==
    /\ run[n] = "closeBelow"
    /\ task[n].pc = "done"
    /\ Task(n, "idle")
    /\ Drive(n, "handBack")
    /\ UNCHANGED <<treeVars, nodeVars, scopeCancelled, runCancelled, result, pauseVars, callVars,
                   shutVars, failures>>

\* The driver hands its run back under the lock ensure_running claims it under,
\* or goes on with the mail that asks for another.
HandsBack_AfterOneRun(n) == TRUE
HandsBack(n) == n = Root \/ shutDown \/ closed[n] \/ ~ HasTrigger(n)

HandBack(n) ==
    /\ run[n] = "handBack"
    /\ Drive(n, IF HandsBack(n) THEN "idle" ELSE "start")
    /\ runCancelled' = [runCancelled EXCEPT ![n] = FALSE]
    /\ result' = [result EXCEPT ![n] = "none"]
    /\ pauses' = [pauses EXCEPT ![n] = 0]
    /\ UNCHANGED <<treeVars, nodeVars, scopeCancelled, paused, answer, callVars, task, shutVars,
                   failures>>

-----------------------------------------------------------------------------
(* Closing a subtree: close_subtree and stop.                              *)

\* The host's close, which finds the agent before it takes the lock again.
BeginClose(k, n) ==
    /\ k \in Closers
    /\ task[k].pc = "idle"
    /\ InTree(n)
    /\ task' = [task EXCEPT ![k].pc = "found", ![k].node = n]
    /\ UNCHANGED <<treeVars, nodeVars, runVars, callVars, shutVars, failures>>

\* The agents at some paths, in depth-first order.
AgentsAt(paths) ==
    LET order == Selected(DepthFirst, paths) IN [i \in DOMAIN order |-> agents[order[i]]]

\* The paths in use at or below one; the root has no place among them.
Below(top) == {p \in Paths \ {<<>>} : agents[p] # None /\ IsPrefix(top, p)}

\* Only the host's close takes the agent itself down; a run that closed its own
\* agent would wait for itself.
Doomed_WithItself(t) == AgentsAt(Below(PathOf[task[t].node]))

Doomed(t) ==
    LET top == PathOf[task[t].node]
    IN  AgentsAt(Below(top) \ (IF t \in Closers THEN {} ELSE {top}))

HoldSubtree(n) == closing' = [closing EXCEPT ![n] = @ + 1]

\* Every target is marked, and the agent refuses spawns, under one lock.
MarkSubtree(t) ==
    /\ task[t].pc = "found"
    /\ task' = [task EXCEPT ![t].pc = "marked", ![t].todo = Doomed(t)]
    /\ closed' = [n \in All |-> closed[n] \/ n \in Range(Doomed(t))]
    /\ HoldSubtree(task[t].node)
    /\ UNCHANGED <<treeVars, status, mail, rolloutDown, resources, runVars, callVars, shutVars,
                   failures>>

\* Their scopes are cancelled, and the rest is a task of the tree's own.
CancelDoomed(t) ==
    /\ task[t].pc = "marked"
    /\ scopeCancelled' = [n \in All |-> scopeCancelled[n] \/ n \in Range(task[t].todo)]
    /\ Task(t, "stop")
    /\ UNCHANGED <<treeVars, nodeVars, runCancelled, run, result, pauseVars, callVars, shutVars,
                   failures>>

Stopping(t) == Head(task[t].todo)

AwaitIdle(t) ==
    /\ task[t].pc = "stop" /\ task[t].todo # <<>>
    /\ run[Stopping(t)] = "idle"
    /\ Task(t, "rollout")
    /\ UNCHANGED <<treeVars, nodeVars, runVars, callVars, shutVars, failures>>

\* A failure ends the close there, except that of the agent it is for.
AfterFailure(t) ==
    IF t \in Closers /\ PathOf[Stopping(t)] = PathOf[task[t].node]
    THEN [task[t] EXCEPT !.pc = "stop", !.todo = Tail(@)]
    ELSE [task[t] EXCEPT !.pc = "finish"]

StopRollout(t) ==
    /\ task[t].pc = "rollout"
    /\ \/ /\ Task(t, "remove")
          /\ rolloutDown' = [rolloutDown EXCEPT ![Stopping(t)] = TRUE]
          /\ UNCHANGED failures
       \/ /\ ~ rolloutDown[Stopping(t)]
          /\ failures < MaxFailures
          /\ failures' = failures + 1
          /\ task' = [task EXCEPT ![t] = AfterFailure(t)]
          /\ UNCHANGED rolloutDown
    /\ UNCHANGED <<treeVars, status, closed, closing, mail, resources, runVars, callVars,
                   shutVars>>

\* Only the node itself is removed, not another at its path.
Without_Path(n) == [agents EXCEPT ![PathOf[n]] = None]
Without(n) == IF InTree(n) THEN [agents EXCEPT ![PathOf[n]] = None] ELSE agents

RemoveStopped(t) ==
    /\ task[t].pc = "remove"
    /\ resources' = [resources EXCEPT ![Stopping(t)] = "released"]
    /\ Publish(Stopping(t), "Shutdown")
    /\ agents' = Without(Stopping(t))
    /\ task' = [task EXCEPT ![t].pc = "stop", ![t].todo = Tail(@)]
    /\ UNCHANGED <<shutDown, treeCancelled, closed, closing, mail, rolloutDown, runVars, callVars,
                   shutVars, failures>>

\* Dropping ClosingSubtree lets the agent spawn again.
FinishClose(t) ==
    /\ task[t].pc = "finish" \/ (task[t].pc = "stop" /\ task[t].todo = <<>>)
    /\ closing' = [closing EXCEPT ![task[t].node] = @ - 1]
    /\ task' = [task EXCEPT ![t] = [pc |-> "done", node |-> None, todo |-> <<>>]]
    /\ UNCHANGED <<treeVars, status, closed, mail, rolloutDown, resources, runVars, callVars,
                   shutVars, failures>>

-----------------------------------------------------------------------------
(* Shutting the tree down: shutdown and finish_shutdown.                   *)

\* The first call, and one after an attempt that could not shut every rollout
\* down, start an attempt; the others wait for the one there is.
ShutdownTree(s) ==
    /\ stopper[s] = "new"
    /\ stopper' = [stopper EXCEPT ![s] = "waiting"]
    /\ shut.pc = "none" \/ (shut.pc = "done" /\ ~ shut.complete)
    /\ shutDown' = TRUE
    /\ shut' = [shut EXCEPT !.pc = "marked"]
    /\ UNCHANGED <<agents, treeCancelled, nodeVars, runVars, callVars, task, failures>>

JoinShutdown(s) ==
    /\ stopper[s] = "new"
    /\ shut.pc \notin {"none", "marked"} /\ (shut.pc = "done" => shut.complete)
    /\ stopper' = [stopper EXCEPT ![s] = IF shut.pc = "done" THEN "done" ELSE "waiting"]
    /\ UNCHANGED <<treeVars, nodeVars, runVars, callVars, task, shut, failures>>

CancelTree ==
    /\ shut.pc = "marked"
    /\ treeCancelled' = TRUE
    /\ shut' = [shut EXCEPT !.pc = "tasks"]
    /\ UNCHANGED <<agents, shutDown, nodeVars, runVars, callVars, task, stopper, failures>>

\* The handles of drivers and closes: a driver just claimed, and a close that
\* has only marked its subtree, have none yet.
TaskRegistered ==
    \/ \E n \in Nodes : run[n] \notin {"idle", "claimed"}
    \/ \E t \in Tasks : task[t].pc \in {"stop", "rollout", "remove", "finish"}

\* No task is left to wait for: the agents there are, are taken down one by
\* one.
SnapshotAgents ==
    /\ shut.pc = "tasks"
    /\ ~ TaskRegistered
    /\ shut' = [pc |-> "nodes", todo |-> AgentsAt(Below(<<>>)), complete |-> TRUE]
    /\ UNCHANGED <<treeVars, nodeVars, runVars, callVars, task, stopper, failures>>

ShutAwaitIdle ==
    /\ shut.pc = "nodes" /\ shut.todo # <<>>
    /\ run[Head(shut.todo)] = "idle"
    /\ shut' = [shut EXCEPT !.pc = "rollout"]
    /\ UNCHANGED <<treeVars, nodeVars, runVars, callVars, task, stopper, failures>>

ShutRollout ==
    LET n == Head(shut.todo)
    IN  /\ shut.pc = "rollout"
        /\ \/ /\ shut' = [shut EXCEPT !.pc = "release"]
              /\ rolloutDown' = [rolloutDown EXCEPT ![n] = TRUE]
              /\ UNCHANGED failures
           \/ /\ ~ rolloutDown[n]
              /\ failures < MaxFailures
              /\ failures' = failures + 1
              /\ shut' = [shut EXCEPT !.pc = "release", !.complete = FALSE]
              /\ UNCHANGED rolloutDown
        /\ UNCHANGED <<treeVars, status, closed, closing, mail, resources, runVars, callVars, task,
                       stopper>>

ShutRelease ==
    LET n == Head(shut.todo)
    IN  /\ shut.pc = "release"
        /\ resources' = [resources EXCEPT ![n] = "released"]
        /\ Publish(n, "Shutdown")
        /\ shut' = [shut EXCEPT !.pc = "nodes", !.todo = Tail(@)]
        /\ UNCHANGED <<treeVars, closed, closing, mail, rolloutDown, runVars, callVars, task,
                       stopper, failures>>

FinishShutdown ==
    /\ shut.pc = "nodes" /\ shut.todo = <<>>
    /\ shut' = [shut EXCEPT !.pc = "done"]
    /\ stopper' = [s \in Stoppers |-> IF stopper[s] = "waiting" THEN "done" ELSE stopper[s]]
    /\ UNCHANGED <<treeVars, nodeVars, runVars, callVars, task, failures>>

-----------------------------------------------------------------------------

SpawnStep(n) ==
    \/ PrepareSpawned(n) \/ CreateRollout(n) \/ Admit(n) \/ UndoRollout(n) \/ ReleaseRefused(n)
    \/ PostTask(n) \/ StartSpawned(n)

SendStep(m) == PushMail(m) \/ StartForMail(m)

DriverStep(n) ==
    \/ StartDriver(n) \/ StartRun(n) \/ LeavePause(n) \/ RunFinished(n) \/ ReportToParent(n)
    \/ AfterRun(n) \/ ClosedBelow(n) \/ HandBack(n)

CloseStep(t) ==
    \/ MarkSubtree(t) \/ CancelDoomed(t) \/ AwaitIdle(t) \/ StopRollout(t) \/ RemoveStopped(t)
    \/ FinishClose(t)

ShutStep ==
    CancelTree \/ SnapshotAgents \/ ShutAwaitIdle \/ ShutRollout \/ ShutRelease \/ FinishShutdown

Next ==
    \/ \E n \in Nodes, c \in All : BeginSpawn(n, c)
    \/ \E n \in Nodes : SpawnStep(n) \/ DropSpawn(n)
    \/ \E m \in Messages : SendStep(m) \/ \E n \in All : BeginSend(m, n)
    \/ StartHostRun
    \/ \E n \in All : Interrupt(n) \/ DriverStep(n) \/ TakeMail(n) \/ Pause(n) \/ EndRun(n)
    \/ \E n \in Nodes : \E p \in 1 .. pauses[n] : Resume(n, p)
    \/ \E k \in Closers, n \in All : BeginClose(k, n)
    \/ \E t \in Tasks : CloseStep(t)
    \/ \E s \in Stoppers : ShutdownTree(s) \/ JoinShutdown(s)
    \/ ShutStep

\* Tasks that can go on are polled; a run reads its mail at its next model call
\* and a cancelled one ends.  Nothing makes the host call, or answer a pause.
Fairness ==
    /\ \A n \in Nodes : WF_vars(SpawnStep(n))
    /\ \A m \in Messages : WF_vars(SendStep(m))
    /\ \A n \in All : WF_vars(DriverStep(n)) /\ WF_vars(TakeMail(n))
    /\ \A n \in All : WF_vars(Cancelled(n) /\ EndRun(n))
    /\ \A t \in Tasks : WF_vars(CloseStep(t))
    /\ WF_vars(ShutStep)

Spec == Init /\ [][Next]_vars
FairSpec == Spec /\ Fairness

-----------------------------------------------------------------------------
(* Properties.                                                             *)

\* Mail that asks for a run is never left with an agent nobody will start: an
\* idle open agent with trigger mail has a sender that is about to start it.
\* (drive: a follow-up that arrives while a driver is finishing is either seen
\* by it or starts a new one.)
NoTriggerStranded ==
    \A n \in Nodes :
        /\ run[n] = "idle" /\ HasTrigger(n)
        /\ ~ closed[n] /\ ~ shutDown
        => \/ spawn[n] = "start"
           \/ \E m \in Messages : send[m] = "start" /\ target[m] = n

\* An agent whose rollout was shut down, or whose resources were released, has
\* no run and gets none: stop and finish_shutdown pass the state lock before
\* they wait for it to go idle, and ensure_running looks again under that lock.
StoppedAgentIsQuiet ==
    \A n \in Nodes :
        rolloutDown[n] \/ resources[n] = "released" => run[n] = "idle"

\* The subtree of a close cannot grow: no open agent is below one that is
\* closed, or whose subtree is being closed, however a spawn races the close.
OpenUnderOpen ==
    \A n \in Nodes : InTree(n) /\ ~ closed[n] => ~ closed[caller[n]] /\ closing[caller[n]] = 0

\* An agent nobody closed stays in the tree: a close still working on an
\* earlier agent at its path does not remove it (stop compares the node).
OpenAgentStaysListed ==
    \A n \in Nodes : spawn[n] \in {"post", "start", "done"} /\ ~ closed[n] => InTree(n)

\* Once a shutdown has returned, every agent in the tree is idle and reported
\* Shutdown, and what any finished spawn prepared has been released.
ShutdownQuiesces ==
    (\E s \in Stoppers : stopper[s] = "done") =>
        \A n \in Nodes :
            /\ InTree(n) => run[n] = "idle" /\ status[n] = "Shutdown"
            /\ spawn[n] \in {"done", "refused"} => resources[n] # "held"

\* A close finishes, the host's and the one a cancelled run makes before it returns
\* (run_ended), though runs it waits for are paused or make closes of their own,
\* agents spawn, and other closes or a shutdown work on the same agents.
CloseFinishes ==
    \A t \in Closers \cup (IF CloseBelow THEN All ELSE {}) :
        (task[t].pc \notin {"idle", "done"}) ~> (task[t].pc = "done")

\* So does a shutdown.
ShutdownFinishes == \A s \in Stoppers : (stopper[s] = "waiting") ~> (stopper[s] = "done")

\* A follow-up is read by a run of its agent, unless the agent is closed, the
\* tree shut down, or its run waits for the host to answer an approval.
FollowupIsRead ==
    \A n \in Nodes :
        HasTrigger(n) ~> (~ HasTrigger(n) \/ closed[n] \/ shutDown \/ run[n] = "paused")
=============================================================================
