--------------------------- MODULE AgentTreeProofs ---------------------------
(***************************************************************************)
(* What TLAPS proves of AgentTree for any tree of agents and any number of *)
(* messages, closes and shutdowns: that no mail is stranded, and what      *)
(* closes and the shutdown leave behind.                                   *)
(***************************************************************************)
EXTENDS AgentTree, OrderLemmas, FiniteSetTheorems, TLAPS

\* The types the proof rests on: of the map, the mailboxes and the drivers, and
\* of the calls that start them.
StartTypes ==
    /\ agents \in [Paths -> All \cup {None}]
    /\ mail \in [All -> SUBSET (Messages \cup Nodes)]
    /\ run \in [All -> RunPCs]
    /\ spawn \in [Nodes -> SpawnPCs]
    /\ send \in [Messages -> {"new", "push", "start", "done"}]
    /\ target \in [Messages -> All \cup {None}]

\* An entry of the map is an agent of that path.
ListedAtPath == \A p \in Paths : agents[p] # None => PathOf[agents[p]] = p

\* A call on its way has an agent it is for, and a follow-up a spawned one.
SendHasTarget ==
    \A m \in Messages : send[m] \in {"push", "start"} =>
        target[m] \in All /\ (m \in Followups => target[m] \in Nodes)

\* Only a spawned agent reports.
OnlyNodesReport == run[Root] # "report"

StartInv ==
    /\ StartTypes
    /\ ListedAtPath
    /\ SendHasTarget
    /\ OnlyNodesReport
    /\ NoTriggerStranded

\* NoTriggerStranded, of one agent.
Served(n) ==
    /\ run[n] = "idle" /\ HasTrigger(n)
    /\ ~ closed[n] /\ ~ shutDown
    => \/ spawn[n] = "start"
       \/ \E m \in Messages : send[m] = "start" /\ target[m] = n

USE DEF treeVars, nodeVars, pauseVars, runVars, callVars, shutVars, vars

\* The parent's path is another path.
LEMMA ParentIsAnother ==
    ASSUME NEW n \in Nodes
    PROVE  Front(PathOf[n]) \in Paths /\ Front(PathOf[n]) # PathOf[n]
<1>1. PathOf[n] \in Seq(STRING) /\ PathOf[n] # <<>> /\ Front(PathOf[n]) \in Paths
  BY NodesAssumption DEF All
<1>2. Len(Front(PathOf[n])) = Len(PathOf[n]) - 1
  BY <1>1 DEF Front
<1> QED BY <1>1, <1>2

\* Nothing is pending at the start.
LEMMA StartInit == Init => StartInv
<1> SUFFICES ASSUME Init PROVE StartInv
  OBVIOUS
<1> USE DEF Init
<1>1. StartTypes
  BY DEF StartTypes, All, Paths, RunPCs, SpawnPCs
<1>2. ListedAtPath
  BY NodesAssumption DEF ListedAtPath
<1>3. SendHasTarget /\ OnlyNodesReport
  BY DEF SendHasTarget, OnlyNodesReport, All
<1>4. NoTriggerStranded
  BY DEF NoTriggerStranded, HasTrigger, All
<1> QED BY <1>1, <1>2, <1>3, <1>4 DEF StartInv

\* Whoever reports to a parent is a spawned agent, and the parent another.
LEMMA ReportsToAnother ==
    ASSUME StartTypes, ListedAtPath, OnlyNodesReport, NEW n \in All, ReportToParent(n)
    PROVE  /\ n \in Nodes
           /\ \/ mail' = mail
              \/ \E q \in All \ {n} : mail' = [mail EXCEPT ![q] = @ \cup {n}]
<1>1. n \in Nodes
  BY DEF OnlyNodesReport, ReportToParent, All
<1>2. Front(PathOf[n]) \in Paths /\ Front(PathOf[n]) # PathOf[n]
  BY <1>1, ParentIsAnother
<1>3. CASE agents[Front(PathOf[n])] = None
  BY <1>1, <1>3 DEF ReportToParent
<1>4. CASE agents[Front(PathOf[n])] # None
  <2>1. agents[Front(PathOf[n])] \in All \ {n}
    BY <1>2, <1>4 DEF StartTypes, ListedAtPath
  <2>2. Deliver(agents[Front(PathOf[n])], n)
    BY <1>4 DEF ReportToParent
  <2> QED BY <1>1, <2>1, <2>2 DEF Deliver
<1> QED BY <1>3, <1>4

\* A step keeps the types.
LEMMA TypesStep == StartInv /\ [Next]_vars => StartTypes'
<1> SUFFICES ASSUME StartInv, [Next]_vars PROVE StartTypes'
  OBVIOUS
<1> USE DEF StartInv, StartTypes, SendHasTarget, All, Paths, RunPCs, ActivePCs, EndedPCs, SpawnPCs,
            SpawnPending
<1>1. CASE UNCHANGED vars
  BY <1>1
<1>2. ASSUME NEW n \in Nodes, NEW c \in All, BeginSpawn(n, c) PROVE StartTypes'
  BY <1>2 DEF BeginSpawn, Spawn
<1>3. ASSUME NEW n \in Nodes, PrepareSpawned(n) PROVE StartTypes'
  BY <1>3 DEF PrepareSpawned, Spawn
<1>4. ASSUME NEW n \in Nodes, CreateRollout(n) PROVE StartTypes'
  BY <1>4 DEF CreateRollout, Spawn
<1>5. ASSUME NEW n \in Nodes, Admit(n) PROVE StartTypes'
  BY <1>5 DEF Admit, Spawn
<1>6. ASSUME NEW n \in Nodes, UndoRollout(n) \/ ReleaseRefused(n) PROVE StartTypes'
  BY <1>6 DEF UndoRollout, ReleaseRefused, Spawn
<1>7. ASSUME NEW n \in Nodes, DropSpawn(n) PROVE StartTypes'
  BY <1>7 DEF DropSpawn, Spawn
<1>8. ASSUME NEW n \in Nodes, PostTask(n) PROVE StartTypes'
  BY <1>8 DEF PostTask, Deliver, Spawn
<1>9. ASSUME NEW n \in Nodes, StartSpawned(n) PROVE StartTypes'
  BY <1>9 DEF StartSpawned, EnsureRunning, Claims, Drive, Spawn
<1>10. ASSUME NEW m \in Messages, NEW n \in All, BeginSend(m, n) PROVE StartTypes'
  BY <1>10 DEF BeginSend
<1>11. ASSUME NEW m \in Messages, PushMail(m) PROVE StartTypes'
  BY <1>11 DEF PushMail, Deliver
<1>12. ASSUME NEW m \in Messages, StartForMail(m) PROVE StartTypes'
  BY <1>12 DEF StartForMail, EnsureRunning, Claims, Drive
<1>13. ASSUME NEW n \in All, Interrupt(n) PROVE StartTypes'
  BY <1>13 DEF Interrupt
<1>14. ASSUME NEW n \in All, StartDriver(n) PROVE StartTypes'
  BY <1>14 DEF StartDriver, Drive
<1>15. ASSUME NEW n \in All, StartRun(n) PROVE StartTypes'
  BY <1>15 DEF StartRun, Drive
<1>16. ASSUME StartHostRun PROVE StartTypes'
  BY <1>16 DEF StartHostRun, Drive
<1>17. ASSUME NEW n \in All, TakeMail(n) PROVE StartTypes'
  BY <1>17 DEF TakeMail
<1>18. ASSUME NEW n \in All, Pause(n) \/ EndRun(n) PROVE StartTypes'
  BY <1>18 DEF Pause, EndRun, Drive
<1>19. ASSUME NEW n \in Nodes, NEW p \in 1 .. pauses[n], Resume(n, p) PROVE StartTypes'
  BY <1>19 DEF Resume
<1>20. ASSUME NEW n \in All, LeavePause(n) PROVE StartTypes'
  BY <1>20 DEF LeavePause, Drive
<1>21. ASSUME NEW n \in All, RunFinished(n) PROVE StartTypes'
  BY <1>21 DEF RunFinished, Silenced, Drive
<1>22. ASSUME NEW n \in All, ReportToParent(n) PROVE StartTypes'
  <2>1. n \in Nodes /\ mail' \in [All -> SUBSET (Messages \cup Nodes)]
    BY <1>22, ReportsToAnother
  <2> QED BY <1>22, <2>1 DEF ReportToParent, Drive
<1>23. ASSUME NEW n \in All, AfterRun(n) \/ ClosedBelow(n) PROVE StartTypes'
  BY <1>23 DEF AfterRun, ClosedBelow, Drive
<1>24. ASSUME NEW n \in All, HandBack(n) PROVE StartTypes'
  BY <1>24 DEF HandBack, HandsBack, Drive
<1>25. ASSUME NEW k \in Closers, NEW n \in All, BeginClose(k, n) PROVE StartTypes'
  BY <1>25 DEF BeginClose
<1>26. ASSUME NEW t \in Tasks, MarkSubtree(t) PROVE StartTypes'
  BY <1>26 DEF MarkSubtree
<1>27. ASSUME NEW t \in Tasks, CancelDoomed(t) \/ AwaitIdle(t) PROVE StartTypes'
  BY <1>27 DEF CancelDoomed, AwaitIdle
<1>28. ASSUME NEW t \in Tasks, StopRollout(t) \/ FinishClose(t) PROVE StartTypes'
  BY <1>28 DEF StopRollout, FinishClose
<1>29. ASSUME NEW t \in Tasks, RemoveStopped(t) PROVE StartTypes'
  BY <1>29 DEF RemoveStopped, Without, InTree
<1>30. ASSUME NEW s \in Stoppers, ShutdownTree(s) \/ JoinShutdown(s) PROVE StartTypes'
  BY <1>30 DEF ShutdownTree, JoinShutdown
<1>31. ASSUME ShutStep PROVE StartTypes'
  BY <1>31 DEF ShutStep, CancelTree, SnapshotAgents, ShutAwaitIdle,
        ShutRollout, ShutRelease, FinishShutdown
<1> QED
  BY <1>1, <1>2, <1>3, <1>4, <1>5, <1>6, <1>7, <1>8, <1>9, <1>10, <1>11, <1>12, <1>13, <1>14,
     <1>15, <1>16, <1>17, <1>18, <1>19, <1>20, <1>21, <1>22, <1>23, <1>24, <1>25, <1>26, <1>27,
     <1>28, <1>29, <1>30, <1>31
  DEF Next, SpawnStep, SendStep, DriverStep, CloseStep

\* A step keeps the map in order.
LEMMA ListedStep == StartInv /\ [Next]_vars => ListedAtPath'
<1> SUFFICES ASSUME StartInv, [Next]_vars PROVE ListedAtPath'
  OBVIOUS
<1> USE DEF StartInv, ListedAtPath
<1>1. CASE UNCHANGED vars
  BY <1>1
<1>2. ASSUME NEW n \in Nodes, NEW c \in All, BeginSpawn(n, c) PROVE ListedAtPath'
  BY <1>2 DEF BeginSpawn, Spawn
<1>3. ASSUME NEW n \in Nodes, PrepareSpawned(n) PROVE ListedAtPath'
  BY <1>3 DEF PrepareSpawned, Spawn
<1>4. ASSUME NEW n \in Nodes, CreateRollout(n) PROVE ListedAtPath'
  BY <1>4 DEF CreateRollout, Spawn
<1>5. ASSUME NEW n \in Nodes, Admit(n) PROVE ListedAtPath'
  <2>1. PathOf[n] \in Paths
    BY DEF Paths, All
  <2>2. agents' = agents \/ agents' = [agents EXCEPT ![PathOf[n]] = n]
    BY <1>5 DEF Admit
  <2> QED BY <2>1, <2>2 DEF StartTypes
<1>6. ASSUME NEW n \in Nodes, UndoRollout(n) \/ ReleaseRefused(n) PROVE ListedAtPath'
  BY <1>6 DEF UndoRollout, ReleaseRefused, Spawn
<1>7. ASSUME NEW n \in Nodes, DropSpawn(n) PROVE ListedAtPath'
  BY <1>7 DEF DropSpawn, Spawn
<1>8. ASSUME NEW n \in Nodes, PostTask(n) PROVE ListedAtPath'
  BY <1>8 DEF PostTask, Deliver, Spawn
<1>9. ASSUME NEW n \in Nodes, StartSpawned(n) PROVE ListedAtPath'
  BY <1>9 DEF StartSpawned, EnsureRunning, Claims, Drive, Spawn
<1>10. ASSUME NEW m \in Messages, NEW n \in All, BeginSend(m, n) PROVE ListedAtPath'
  BY <1>10 DEF BeginSend
<1>11. ASSUME NEW m \in Messages, PushMail(m) PROVE ListedAtPath'
  BY <1>11 DEF PushMail, Deliver
<1>12. ASSUME NEW m \in Messages, StartForMail(m) PROVE ListedAtPath'
  BY <1>12 DEF StartForMail, EnsureRunning, Claims, Drive
<1>13. ASSUME NEW n \in All, Interrupt(n) PROVE ListedAtPath'
  BY <1>13 DEF Interrupt
<1>14. ASSUME NEW n \in All, StartDriver(n) PROVE ListedAtPath'
  BY <1>14 DEF StartDriver, Drive
<1>15. ASSUME NEW n \in All, StartRun(n) PROVE ListedAtPath'
  BY <1>15 DEF StartRun, Drive
<1>16. ASSUME StartHostRun PROVE ListedAtPath'
  BY <1>16 DEF StartHostRun, Drive
<1>17. ASSUME NEW n \in All, TakeMail(n) PROVE ListedAtPath'
  BY <1>17 DEF TakeMail
<1>18. ASSUME NEW n \in All, Pause(n) \/ EndRun(n) PROVE ListedAtPath'
  BY <1>18 DEF Pause, EndRun, Drive
<1>19. ASSUME NEW n \in Nodes, NEW p \in 1 .. pauses[n], Resume(n, p) PROVE ListedAtPath'
  BY <1>19 DEF Resume
<1>20. ASSUME NEW n \in All, LeavePause(n) PROVE ListedAtPath'
  BY <1>20 DEF LeavePause, Drive
<1>21. ASSUME NEW n \in All, RunFinished(n) PROVE ListedAtPath'
  BY <1>21 DEF RunFinished, Silenced, Drive
<1>22. ASSUME NEW n \in All, ReportToParent(n) PROVE ListedAtPath'
  BY <1>22 DEF ReportToParent, Deliver, Drive
<1>23. ASSUME NEW n \in All, AfterRun(n) \/ ClosedBelow(n) PROVE ListedAtPath'
  BY <1>23 DEF AfterRun, ClosedBelow, Drive
<1>24. ASSUME NEW n \in All, HandBack(n) PROVE ListedAtPath'
  BY <1>24 DEF HandBack, HandsBack, Drive
<1>25. ASSUME NEW k \in Closers, NEW n \in All, BeginClose(k, n) PROVE ListedAtPath'
  BY <1>25 DEF BeginClose
<1>26. ASSUME NEW t \in Tasks, MarkSubtree(t) PROVE ListedAtPath'
  BY <1>26 DEF MarkSubtree
<1>27. ASSUME NEW t \in Tasks, CancelDoomed(t) \/ AwaitIdle(t) PROVE ListedAtPath'
  BY <1>27 DEF CancelDoomed, AwaitIdle
<1>28. ASSUME NEW t \in Tasks, StopRollout(t) \/ FinishClose(t) PROVE ListedAtPath'
  BY <1>28 DEF StopRollout, FinishClose
<1>29. ASSUME NEW t \in Tasks, RemoveStopped(t) PROVE ListedAtPath'
  BY <1>29 DEF RemoveStopped, Without, StartTypes
<1>30. ASSUME NEW s \in Stoppers, ShutdownTree(s) \/ JoinShutdown(s) PROVE ListedAtPath'
  BY <1>30 DEF ShutdownTree, JoinShutdown
<1>31. ASSUME ShutStep PROVE ListedAtPath'
  BY <1>31 DEF ShutStep, CancelTree, SnapshotAgents, ShutAwaitIdle,
        ShutRollout, ShutRelease, FinishShutdown
<1> QED
  BY <1>1, <1>2, <1>3, <1>4, <1>5, <1>6, <1>7, <1>8, <1>9, <1>10, <1>11, <1>12, <1>13, <1>14,
     <1>15, <1>16, <1>17, <1>18, <1>19, <1>20, <1>21, <1>22, <1>23, <1>24, <1>25, <1>26, <1>27,
     <1>28, <1>29, <1>30, <1>31
  DEF Next, SpawnStep, SendStep, DriverStep, CloseStep

\* A step keeps the targets of the calls on their way.
LEMMA TargetStep == StartInv /\ [Next]_vars => SendHasTarget'
<1> SUFFICES ASSUME StartInv, [Next]_vars PROVE SendHasTarget'
  OBVIOUS
<1> USE DEF StartInv, SendHasTarget
<1>1. CASE UNCHANGED vars
  BY <1>1
<1>2. ASSUME NEW n \in Nodes, NEW c \in All, BeginSpawn(n, c) PROVE SendHasTarget'
  BY <1>2 DEF BeginSpawn, Spawn
<1>3. ASSUME NEW n \in Nodes, PrepareSpawned(n) PROVE SendHasTarget'
  BY <1>3 DEF PrepareSpawned, Spawn
<1>4. ASSUME NEW n \in Nodes, CreateRollout(n) PROVE SendHasTarget'
  BY <1>4 DEF CreateRollout, Spawn
<1>5. ASSUME NEW n \in Nodes, Admit(n) PROVE SendHasTarget'
  BY <1>5 DEF Admit, Spawn
<1>6. ASSUME NEW n \in Nodes, UndoRollout(n) \/ ReleaseRefused(n) PROVE SendHasTarget'
  BY <1>6 DEF UndoRollout, ReleaseRefused, Spawn
<1>7. ASSUME NEW n \in Nodes, DropSpawn(n) PROVE SendHasTarget'
  BY <1>7 DEF DropSpawn, Spawn
<1>8. ASSUME NEW n \in Nodes, PostTask(n) PROVE SendHasTarget'
  BY <1>8 DEF PostTask, Deliver, Spawn
<1>9. ASSUME NEW n \in Nodes, StartSpawned(n) PROVE SendHasTarget'
  BY <1>9 DEF StartSpawned, EnsureRunning, Claims, Drive, Spawn
<1>10. ASSUME NEW m \in Messages, NEW n \in All, BeginSend(m, n) PROVE SendHasTarget'
  BY <1>10 DEF BeginSend, StartTypes, All
<1>11. ASSUME NEW m \in Messages, PushMail(m) PROVE SendHasTarget'
  BY <1>11 DEF PushMail, StartTypes
<1>12. ASSUME NEW m \in Messages, StartForMail(m) PROVE SendHasTarget'
  BY <1>12 DEF StartForMail, StartTypes
<1>13. ASSUME NEW n \in All, Interrupt(n) PROVE SendHasTarget'
  BY <1>13 DEF Interrupt
<1>14. ASSUME NEW n \in All, StartDriver(n) PROVE SendHasTarget'
  BY <1>14 DEF StartDriver, Drive
<1>15. ASSUME NEW n \in All, StartRun(n) PROVE SendHasTarget'
  BY <1>15 DEF StartRun, Drive
<1>16. ASSUME StartHostRun PROVE SendHasTarget'
  BY <1>16 DEF StartHostRun, Drive
<1>17. ASSUME NEW n \in All, TakeMail(n) PROVE SendHasTarget'
  BY <1>17 DEF TakeMail
<1>18. ASSUME NEW n \in All, Pause(n) \/ EndRun(n) PROVE SendHasTarget'
  BY <1>18 DEF Pause, EndRun, Drive
<1>19. ASSUME NEW n \in Nodes, NEW p \in 1 .. pauses[n], Resume(n, p) PROVE SendHasTarget'
  BY <1>19 DEF Resume
<1>20. ASSUME NEW n \in All, LeavePause(n) PROVE SendHasTarget'
  BY <1>20 DEF LeavePause, Drive
<1>21. ASSUME NEW n \in All, RunFinished(n) PROVE SendHasTarget'
  BY <1>21 DEF RunFinished, Silenced, Drive
<1>22. ASSUME NEW n \in All, ReportToParent(n) PROVE SendHasTarget'
  BY <1>22 DEF ReportToParent, Deliver, Drive
<1>23. ASSUME NEW n \in All, AfterRun(n) \/ ClosedBelow(n) PROVE SendHasTarget'
  BY <1>23 DEF AfterRun, ClosedBelow, Drive
<1>24. ASSUME NEW n \in All, HandBack(n) PROVE SendHasTarget'
  BY <1>24 DEF HandBack, HandsBack, Drive
<1>25. ASSUME NEW k \in Closers, NEW n \in All, BeginClose(k, n) PROVE SendHasTarget'
  BY <1>25 DEF BeginClose
<1>26. ASSUME NEW t \in Tasks, MarkSubtree(t) PROVE SendHasTarget'
  BY <1>26 DEF MarkSubtree
<1>27. ASSUME NEW t \in Tasks, CancelDoomed(t) \/ AwaitIdle(t) PROVE SendHasTarget'
  BY <1>27 DEF CancelDoomed, AwaitIdle
<1>28. ASSUME NEW t \in Tasks, StopRollout(t) \/ FinishClose(t) PROVE SendHasTarget'
  BY <1>28 DEF StopRollout, FinishClose
<1>29. ASSUME NEW t \in Tasks, RemoveStopped(t) PROVE SendHasTarget'
  BY <1>29 DEF RemoveStopped, Without, InTree
<1>30. ASSUME NEW s \in Stoppers, ShutdownTree(s) \/ JoinShutdown(s) PROVE SendHasTarget'
  BY <1>30 DEF ShutdownTree, JoinShutdown
<1>31. ASSUME ShutStep PROVE SendHasTarget'
  BY <1>31 DEF ShutStep, CancelTree, SnapshotAgents, ShutAwaitIdle,
        ShutRollout, ShutRelease, FinishShutdown
<1> QED
  BY <1>1, <1>2, <1>3, <1>4, <1>5, <1>6, <1>7, <1>8, <1>9, <1>10, <1>11, <1>12, <1>13, <1>14,
     <1>15, <1>16, <1>17, <1>18, <1>19, <1>20, <1>21, <1>22, <1>23, <1>24, <1>25, <1>26, <1>27,
     <1>28, <1>29, <1>30, <1>31
  DEF Next, SpawnStep, SendStep, DriverStep, CloseStep

\* A step of the root is never a report.
LEMMA ReportStep == StartInv /\ [Next]_vars => OnlyNodesReport'
<1> SUFFICES ASSUME StartInv, [Next]_vars PROVE OnlyNodesReport'
  OBVIOUS
<1> USE NodesAssumption
<1> USE DEF StartInv, StartTypes, OnlyNodesReport, All
<1>1. CASE UNCHANGED vars
  BY <1>1
<1>2. ASSUME NEW n \in Nodes, NEW c \in All, BeginSpawn(n, c) PROVE OnlyNodesReport'
  BY <1>2 DEF BeginSpawn, Spawn
<1>3. ASSUME NEW n \in Nodes, PrepareSpawned(n) PROVE OnlyNodesReport'
  BY <1>3 DEF PrepareSpawned, Spawn
<1>4. ASSUME NEW n \in Nodes, CreateRollout(n) PROVE OnlyNodesReport'
  BY <1>4 DEF CreateRollout, Spawn
<1>5. ASSUME NEW n \in Nodes, Admit(n) PROVE OnlyNodesReport'
  BY <1>5 DEF Admit, Spawn
<1>6. ASSUME NEW n \in Nodes, UndoRollout(n) \/ ReleaseRefused(n) PROVE OnlyNodesReport'
  BY <1>6 DEF UndoRollout, ReleaseRefused, Spawn
<1>7. ASSUME NEW n \in Nodes, DropSpawn(n) PROVE OnlyNodesReport'
  BY <1>7 DEF DropSpawn, Spawn
<1>8. ASSUME NEW n \in Nodes, PostTask(n) PROVE OnlyNodesReport'
  BY <1>8 DEF PostTask, Deliver, Spawn
<1>9. ASSUME NEW n \in Nodes, StartSpawned(n) PROVE OnlyNodesReport'
  BY <1>9 DEF StartSpawned, EnsureRunning, Claims, Drive, Spawn
<1>10. ASSUME NEW m \in Messages, NEW n \in All, BeginSend(m, n) PROVE OnlyNodesReport'
  BY <1>10 DEF BeginSend
<1>11. ASSUME NEW m \in Messages, PushMail(m) PROVE OnlyNodesReport'
  BY <1>11 DEF PushMail, Deliver
<1>12. ASSUME NEW m \in Messages, StartForMail(m) PROVE OnlyNodesReport'
  BY <1>12 DEF StartForMail, EnsureRunning, Claims, Drive
<1>13. ASSUME NEW n \in All, Interrupt(n) PROVE OnlyNodesReport'
  BY <1>13 DEF Interrupt
<1>14. ASSUME NEW n \in All, StartDriver(n) PROVE OnlyNodesReport'
  BY <1>14 DEF StartDriver, Drive
<1>15. ASSUME NEW n \in All, StartRun(n) PROVE OnlyNodesReport'
  BY <1>15 DEF StartRun, Drive
<1>16. ASSUME StartHostRun PROVE OnlyNodesReport'
  BY <1>16 DEF StartHostRun, Drive
<1>17. ASSUME NEW n \in All, TakeMail(n) PROVE OnlyNodesReport'
  BY <1>17 DEF TakeMail
<1>18. ASSUME NEW n \in All, Pause(n) \/ EndRun(n) PROVE OnlyNodesReport'
  BY <1>18 DEF Pause, EndRun, Drive
<1>19. ASSUME NEW n \in Nodes, NEW p \in 1 .. pauses[n], Resume(n, p) PROVE OnlyNodesReport'
  BY <1>19 DEF Resume
<1>20. ASSUME NEW n \in All, LeavePause(n) PROVE OnlyNodesReport'
  BY <1>20 DEF LeavePause, Drive
<1>21. ASSUME NEW n \in All, RunFinished(n) PROVE OnlyNodesReport'
  BY <1>21 DEF RunFinished, Silenced, Drive
<1>22. ASSUME NEW n \in All, ReportToParent(n) PROVE OnlyNodesReport'
  BY <1>22 DEF ReportToParent, Deliver, Drive
<1>23. ASSUME NEW n \in All, AfterRun(n) \/ ClosedBelow(n) PROVE OnlyNodesReport'
  BY <1>23 DEF AfterRun, ClosedBelow, Drive
<1>24. ASSUME NEW n \in All, HandBack(n) PROVE OnlyNodesReport'
  BY <1>24 DEF HandBack, HandsBack, Drive
<1>25. ASSUME NEW k \in Closers, NEW n \in All, BeginClose(k, n) PROVE OnlyNodesReport'
  BY <1>25 DEF BeginClose
<1>26. ASSUME NEW t \in Tasks, MarkSubtree(t) PROVE OnlyNodesReport'
  BY <1>26 DEF MarkSubtree
<1>27. ASSUME NEW t \in Tasks, CancelDoomed(t) \/ AwaitIdle(t) PROVE OnlyNodesReport'
  BY <1>27 DEF CancelDoomed, AwaitIdle
<1>28. ASSUME NEW t \in Tasks, StopRollout(t) \/ FinishClose(t) PROVE OnlyNodesReport'
  BY <1>28 DEF StopRollout, FinishClose
<1>29. ASSUME NEW t \in Tasks, RemoveStopped(t) PROVE OnlyNodesReport'
  BY <1>29 DEF RemoveStopped, Without, InTree
<1>30. ASSUME NEW s \in Stoppers, ShutdownTree(s) \/ JoinShutdown(s) PROVE OnlyNodesReport'
  BY <1>30 DEF ShutdownTree, JoinShutdown
<1>31. ASSUME ShutStep PROVE OnlyNodesReport'
  BY <1>31 DEF ShutStep, CancelTree, SnapshotAgents, ShutAwaitIdle,
        ShutRollout, ShutRelease, FinishShutdown
<1> QED
  BY <1>1, <1>2, <1>3, <1>4, <1>5, <1>6, <1>7, <1>8, <1>9, <1>10, <1>11, <1>12, <1>13, <1>14,
     <1>15, <1>16, <1>17, <1>18, <1>19, <1>20, <1>21, <1>22, <1>23, <1>24, <1>25, <1>26, <1>27,
     <1>28, <1>29, <1>30, <1>31
  DEF Next, SpawnStep, SendStep, DriverStep, CloseStep

\* What a step may do to an agent without stranding mail: the driver does not go
\* idle, nothing is delivered, nobody who is about to start the agent gives up, and
\* what is closed stays closed.
Undisturbed(n) ==
    /\ run'[n] = "idle" => run[n] = "idle"
    /\ mail'[n] \subseteq mail[n]
    /\ closed[n] => closed'[n]
    /\ spawn[n] = "start" => spawn'[n] = "start"

\* An agent that is not disturbed, by a step that no call gives up in, keeps
\* somebody to start it.
LEMMA UndisturbedIsServed ==
    ASSUME StartInv, NEW n \in Nodes, Undisturbed(n), shutDown => shutDown',
           \A m \in Messages : send[m] = "start" /\ target[m] = n =>
                send'[m] = "start" /\ target'[m] = n
    PROVE  Served(n)'
BY DEF StartInv, NoTriggerStranded, Served, HasTrigger, Undisturbed

\* Mail that asks for a run comes with somebody who starts it, a call that was to
\* start an agent leaves it claimed, and a driver goes idle only without such mail.
LEMMA ServedStep == StartInv /\ [Next]_vars => NoTriggerStranded'
<1> SUFFICES ASSUME StartInv, [Next]_vars PROVE NoTriggerStranded'
  OBVIOUS
<1> SUFFICES \A q \in Nodes : Served(q)'
  BY DEF NoTriggerStranded, Served
<1> USE DEF StartInv, StartTypes, NoTriggerStranded, All
<1>1. CASE UNCHANGED vars
  BY <1>1, UndisturbedIsServed DEF Undisturbed
<1>2. ASSUME NEW n \in Nodes, NEW c \in All, BeginSpawn(n, c) PROVE \A q \in Nodes : Served(q)'
  BY <1>2, UndisturbedIsServed DEF Undisturbed, BeginSpawn, Spawn
<1>3. ASSUME NEW n \in Nodes, PrepareSpawned(n) PROVE \A q \in Nodes : Served(q)'
  BY <1>3, UndisturbedIsServed DEF Undisturbed, PrepareSpawned, Spawn
<1>4. ASSUME NEW n \in Nodes, CreateRollout(n) PROVE \A q \in Nodes : Served(q)'
  BY <1>4, UndisturbedIsServed DEF Undisturbed, CreateRollout, Spawn
<1>5. ASSUME NEW n \in Nodes, Admit(n) PROVE \A q \in Nodes : Served(q)'
  BY <1>5, UndisturbedIsServed DEF Undisturbed, Admit, Spawn
<1>6. ASSUME NEW n \in Nodes, UndoRollout(n) \/ ReleaseRefused(n)
      PROVE  \A q \in Nodes : Served(q)'
  BY <1>6, UndisturbedIsServed DEF Undisturbed, UndoRollout, ReleaseRefused, Spawn
<1>7. ASSUME NEW n \in Nodes, DropSpawn(n) PROVE \A q \in Nodes : Served(q)'
  BY <1>7, UndisturbedIsServed DEF Undisturbed, DropSpawn, Spawn
<1>8. ASSUME NEW n \in Nodes, PostTask(n) PROVE \A q \in Nodes : Served(q)'
  <2>1. spawn' = [spawn EXCEPT ![n] = "start"] /\ mail' = [mail EXCEPT ![n] = @ \cup {n}]
    BY <1>8 DEF PostTask, Spawn, Deliver
  <2>2. \A q \in Nodes : q # n => mail'[q] = mail[q] /\ (spawn'[q] = spawn[q])
    BY <2>1
  <2>3. spawn'[n] = "start"
    BY <2>1
  <2> QED BY <1>8, <2>2, <2>3 DEF PostTask, Served, HasTrigger
<1>9. ASSUME NEW n \in Nodes, StartSpawned(n) PROVE \A q \in Nodes : Served(q)'
  <2>1. \A q \in Nodes : run'[q] = "idle" => run[q] = "idle"
    BY <1>9 DEF StartSpawned, EnsureRunning, Claims, Drive, Spawn
  <2>2. run'[n] = "idle" => ~ HasTrigger(n) \/ closed[n] \/ shutDown
    BY <1>9 DEF StartSpawned, EnsureRunning, Claims, Drive, Spawn
  <2>3. UNCHANGED <<mail, closed, shutDown, target, send>>
    BY <1>9 DEF StartSpawned, EnsureRunning, Claims, Drive, Spawn
  <2>4. \A q \in Nodes : HasTrigger(q)' = HasTrigger(q)
    BY <2>3 DEF HasTrigger
  <2>5. \A q \in Nodes : q # n => spawn'[q] = spawn[q]
    BY <1>9 DEF StartSpawned, EnsureRunning, Claims, Drive, Spawn
  <2> QED BY <2>1, <2>2, <2>3, <2>4, <2>5 DEF Served
<1>10. ASSUME NEW m \in Messages, NEW n \in All, BeginSend(m, n)
      PROVE  \A q \in Nodes : Served(q)'
  BY <1>10, UndisturbedIsServed DEF Undisturbed, BeginSend
<1>11. ASSUME NEW m \in Messages, PushMail(m) PROVE \A q \in Nodes : Served(q)'
  <2>1. target[m] \in All /\ mail' = [mail EXCEPT ![target[m]] = @ \cup {m}]
    BY <1>11 DEF PushMail, Deliver, SendHasTarget
  <2>2. send' = [send EXCEPT ![m] = IF m \in Followups THEN "start" ELSE "done"]
    BY <1>11 DEF PushMail
  <2>3. \A q \in Nodes : HasTrigger(q)' => HasTrigger(q) \/ (m \in Followups /\ target[m] = q)
    BY <2>1, NodesAssumption DEF HasTrigger, All
  <2>4. \A x \in Messages : send[x] = "start" => send'[x] = "start"
    BY <1>11, <2>2 DEF PushMail
  <2>5. m \in Followups => send'[m] = "start"
    BY <2>2
  <2>6. target' = target /\ run' = run /\ closed' = closed /\ shutDown' = shutDown /\ spawn' = spawn
    BY <1>11 DEF PushMail
  <2> QED BY <2>3, <2>4, <2>5, <2>6 DEF Served
<1>12. ASSUME NEW m \in Messages, StartForMail(m) PROVE \A q \in Nodes : Served(q)'
  <2>1. \A q \in Nodes : run'[q] = "idle" => run[q] = "idle"
    BY <1>12 DEF StartForMail, EnsureRunning, Claims, Drive
  <2>2. target[m] \in Nodes /\ run'[target[m]] = "idle" =>
          ~ HasTrigger(target[m]) \/ closed[target[m]] \/ shutDown
    BY <1>12 DEF StartForMail, EnsureRunning, Claims, Drive
  <2>3. UNCHANGED <<mail, closed, shutDown, target, spawn>>
    BY <1>12 DEF StartForMail, EnsureRunning, Claims, Drive
  <2>4. \A q \in Nodes : HasTrigger(q)' = HasTrigger(q)
    BY <2>3 DEF HasTrigger
  <2>5. \A x \in Messages : x # m => send'[x] = send[x]
    BY <1>12 DEF StartForMail, EnsureRunning, Claims, Drive
  <2> QED BY <2>1, <2>2, <2>3, <2>4, <2>5 DEF Served
<1>13. ASSUME NEW n \in All, Interrupt(n) PROVE \A q \in Nodes : Served(q)'
  BY <1>13, UndisturbedIsServed DEF Undisturbed, Interrupt
<1>14. ASSUME NEW n \in All, StartDriver(n) PROVE \A q \in Nodes : Served(q)'
  BY <1>14, UndisturbedIsServed DEF Undisturbed, StartDriver, Drive
<1>15. ASSUME NEW n \in All, StartRun(n) PROVE \A q \in Nodes : Served(q)'
  BY <1>15, UndisturbedIsServed DEF Undisturbed, StartRun, Drive
<1>16. ASSUME StartHostRun PROVE \A q \in Nodes : Served(q)'
  BY <1>16, UndisturbedIsServed DEF Undisturbed, StartHostRun, Drive
<1>17. ASSUME NEW n \in All, TakeMail(n) PROVE \A q \in Nodes : Served(q)'
  BY <1>17, UndisturbedIsServed DEF Undisturbed, TakeMail
<1>18. ASSUME NEW n \in All, Pause(n) \/ EndRun(n) PROVE \A q \in Nodes : Served(q)'
  BY <1>18, UndisturbedIsServed DEF Undisturbed, Pause, EndRun, Drive
<1>19. ASSUME NEW n \in Nodes, NEW p \in 1 .. pauses[n], Resume(n, p)
      PROVE  \A q \in Nodes : Served(q)'
  BY <1>19, UndisturbedIsServed DEF Undisturbed, Resume
<1>20. ASSUME NEW n \in All, LeavePause(n) PROVE \A q \in Nodes : Served(q)'
  BY <1>20, UndisturbedIsServed DEF Undisturbed, LeavePause, Drive
<1>21. ASSUME NEW n \in All, RunFinished(n) PROVE \A q \in Nodes : Served(q)'
  BY <1>21, UndisturbedIsServed DEF Undisturbed, RunFinished, Silenced, Drive
<1>22. ASSUME NEW n \in All, ReportToParent(n) PROVE \A q \in Nodes : Served(q)'
  <2>1. n \in Nodes /\ (\/ mail' = mail
                        \/ \E q \in All \ {n} : mail' = [mail EXCEPT ![q] = @ \cup {n}])
    BY <1>22, ReportsToAnother DEF StartInv
  <2>2. \A q \in Nodes : HasTrigger(q)' => HasTrigger(q)
    <3>1. n \notin Followups
      BY <2>1, NodesAssumption, LimitsAssumption DEF All
    <3>2. CASE mail' = mail
      BY <3>2 DEF HasTrigger
    <3>3. ASSUME NEW q \in All \ {n}, mail' = [mail EXCEPT ![q] = @ \cup {n}]
          PROVE  \A x \in Nodes : HasTrigger(x)' => HasTrigger(x)
      BY <3>1, <3>3 DEF HasTrigger
    <3> QED BY <2>1, <3>2, <3>3
  <2> QED BY <1>22, <2>2 DEF ReportToParent, Drive, Served
<1>23. ASSUME NEW n \in All, AfterRun(n) \/ ClosedBelow(n) PROVE \A q \in Nodes : Served(q)'
  BY <1>23, UndisturbedIsServed DEF Undisturbed, AfterRun, ClosedBelow, Drive
<1>24. ASSUME NEW n \in All, HandBack(n) PROVE \A q \in Nodes : Served(q)'
  <2>1. UNCHANGED <<mail, closed, shutDown, target, spawn, send>>
    BY <1>24 DEF HandBack
  <2>2. \A q \in All : q # n => run'[q] = run[q]
    BY <1>24 DEF HandBack, Drive
  <2>3. n \in Nodes /\ run'[n] = "idle" => closed[n] \/ shutDown \/ ~ HasTrigger(n)
    <3>1. n \in Nodes => n # Root
      BY NodesAssumption
    <3>2. run'[n] = "idle" => HandsBack(n)
      BY <1>24 DEF HandBack, Drive
    <3> QED BY <3>1, <3>2 DEF HandsBack
  <2>4. \A q \in Nodes : HasTrigger(q)' = HasTrigger(q)
    BY <2>1 DEF HasTrigger
  <2> QED BY <2>1, <2>2, <2>3, <2>4 DEF Served, All
<1>25. ASSUME NEW k \in Closers, NEW n \in All, BeginClose(k, n)
      PROVE  \A q \in Nodes : Served(q)'
  BY <1>25, UndisturbedIsServed DEF Undisturbed, BeginClose
<1>26. ASSUME NEW t \in Tasks, MarkSubtree(t) PROVE \A q \in Nodes : Served(q)'
  BY <1>26, UndisturbedIsServed DEF Undisturbed, MarkSubtree
<1>27. ASSUME NEW t \in Tasks, CancelDoomed(t) \/ AwaitIdle(t) PROVE \A q \in Nodes : Served(q)'
  BY <1>27, UndisturbedIsServed DEF Undisturbed, CancelDoomed, AwaitIdle
<1>28. ASSUME NEW t \in Tasks, StopRollout(t) \/ FinishClose(t)
      PROVE  \A q \in Nodes : Served(q)'
  BY <1>28, UndisturbedIsServed DEF Undisturbed, StopRollout, FinishClose
<1>29. ASSUME NEW t \in Tasks, RemoveStopped(t) PROVE \A q \in Nodes : Served(q)'
  BY <1>29, UndisturbedIsServed DEF Undisturbed, RemoveStopped, Without, InTree
<1>30. ASSUME NEW s \in Stoppers, ShutdownTree(s) \/ JoinShutdown(s)
      PROVE  \A q \in Nodes : Served(q)'
  BY <1>30, UndisturbedIsServed DEF Undisturbed, ShutdownTree, JoinShutdown
<1>31. ASSUME ShutStep PROVE \A q \in Nodes : Served(q)'
  <2>1. UNCHANGED <<mail, run, closed, shutDown, spawn, send, target>>
    BY <1>31 DEF ShutStep, CancelTree, SnapshotAgents, ShutAwaitIdle,
        ShutRollout, ShutRelease, FinishShutdown
  <2> QED BY <2>1, UndisturbedIsServed DEF Undisturbed
<1> QED
  BY <1>1, <1>2, <1>3, <1>4, <1>5, <1>6, <1>7, <1>8, <1>9, <1>10, <1>11, <1>12, <1>13, <1>14,
     <1>15, <1>16, <1>17, <1>18, <1>19, <1>20, <1>21, <1>22, <1>23, <1>24, <1>25, <1>26, <1>27,
     <1>28, <1>29, <1>30, <1>31
  DEF Next, SpawnStep, SendStep, DriverStep, CloseStep

\* An agent with mail that asks for a run is never left to itself: however sends,
\* spawns, drivers, closes and shutdowns interleave, an idle open agent with such mail
\* has a call that is about to start it.
THEOREM NoneStranded == Spec => []NoTriggerStranded
<1>1. StartInv /\ [Next]_vars => StartInv'
  BY TypesStep, ListedStep, TargetStep, ReportStep, ServedStep DEF StartInv
<1>2. StartInv => NoTriggerStranded
  BY DEF StartInv
<1> QED BY StartInit, <1>1, <1>2, PTL DEF Spec

-----------------------------------------------------------------------------
(* Closes and the shutdown.                                                *)

AdmittedPCs == {"post", "start", "done"}
HoldingPCs == {"marked", "stop", "rollout", "remove", "finish"}

TaskType == [pc : TaskPCs, node : All \cup {None}, todo : Seq(Nodes)]
ShutType == [pc : ShutPCs, todo : Seq(Nodes), complete : BOOLEAN]

\* The types of what closes and the shutdown work on.
CloseTypes ==
    /\ shutDown \in BOOLEAN
    /\ status \in [All -> Statuses]
    /\ closed \in [All -> BOOLEAN]
    /\ rolloutDown \in [All -> BOOLEAN]
    /\ resources \in [All -> {"none", "held", "released"}]
    /\ caller \in [Nodes -> All \cup {None}]
    /\ task \in [Tasks -> TaskType]
    /\ stopper \in [Stoppers -> {"new", "waiting", "done"}]
    /\ shut \in ShutType

\* An agent in the map, with a run or addressed by a message was admitted, and a
\* spawn's caller is an agent at the parent's path.
AdmissionInv ==
    /\ \A n \in Nodes : InTree(n) => spawn[n] \in AdmittedPCs
    /\ \A n \in Nodes : run[n] # "idle" => spawn[n] \in AdmittedPCs
    /\ \A m \in Messages : target[m] \in Nodes => spawn[target[m]] \in AdmittedPCs
    /\ \A n \in Nodes : spawn[n] # "new" =>
           caller[n] \in All /\ PathOf[caller[n]] = Front(PathOf[n])

\* What a close works on is closed, and it works on an agent's rollout and
\* resources only while the agent is idle.
TaskSound(t) ==
    /\ task[t].pc \in HoldingPCs \cup {"found"} => task[t].node \in All
    /\ \A x \in Range(task[t].todo) : closed[x]
    /\ task[t].pc \in {"rollout", "remove"} =>
           task[t].todo # <<>> /\ run[Head(task[t].todo)] = "idle"

\* A run's own close goes on only while the run waits for it.
OwnCloseAwaited == \A n \in All : task[n].pc # "idle" => run[n] = "closeBelow"

TaskInv == (\A t \in Tasks : TaskSound(t)) /\ OwnCloseAwaited

\* The closes that hold an agent's subtree, and how closing counts them.
Holders(n) == {t \in Tasks : task[t].pc \in HoldingPCs /\ task[t].node = n}
HoldersCounted ==
    /\ closing \in [All -> Nat]
    /\ \A n \in All : IsFiniteSet(Holders(n)) /\ closing[n] = Cardinality(Holders(n))

\* An agent whose rollout is down, or whose resources are released, is idle and
\* will never be claimed: it is closed, the tree is shut down or its spawn failed.
StoppedForGood ==
    \A n \in Nodes : rolloutDown[n] \/ resources[n] = "released" =>
        /\ run[n] = "idle"
        /\ closed[n] \/ shutDown \/ spawn[n] \in {"release", "refused", "dropped"}

\* What an agent has come to when the shutdown is through with it.
Settled(n) == run[n] = "idle" /\ status[n] = "Shutdown" /\ resources[n] = "released"

\* Before the shutdown does anything the tree is marked; it works on an agent's
\* rollout and resources only while the agent is idle; what it is past is settled;
\* and once it was through with all of them, they stay so.
ShutMarked == shut.pc # "none" \/ (\E s \in Stoppers : stopper[s] # "new") => shutDown
ShutAtIdle ==
    shut.pc \in {"rollout", "release"} => shut.todo # <<>> /\ run[Head(shut.todo)] = "idle"
ShutSettles ==
    shut.pc \in {"nodes", "rollout", "release"} =>
        \A n \in Nodes : InTree(n) => Settled(n) \/ n \in Range(shut.todo)
ShutDone ==
    shut.pc = "done" \/ (\E s \in Stoppers : stopper[s] = "done") =>
        \A n \in Nodes : InTree(n) => Settled(n)

ShutInv == ShutMarked /\ ShutAtIdle /\ ShutSettles /\ ShutDone

\* What a spawn prepared is let go of before the spawn is refused, or its agent
\* taken out of the map.
ResourcesInv ==
    \A n \in Nodes :
        /\ spawn[n] \in {"new", "prepare", "refused"} => resources[n] # "held"
        /\ spawn[n] \in AdmittedPCs => InTree(n) \/ resources[n] = "released"

CloseInv ==
    /\ StartInv
    /\ CloseTypes /\ AdmissionInv /\ TaskInv /\ HoldersCounted
    /\ OpenAgentStaysListed /\ OpenUnderOpen
    /\ StoppedForGood /\ ShutInv /\ ResourcesInv

-----------------------------------------------------------------------------
(* What a close and the shutdown find in the map.                          *)

\* The agents at some paths in use are spawned agents, and none is left out.
LEMMA AgentsFound ==
    ASSUME StartTypes, ListedAtPath, NEW P, P \subseteq Paths \ {<<>>},
           \A p \in P : agents[p] # None
    PROVE  AgentsAt(P) \in Seq(Nodes) /\ \A p \in P : agents[p] \in Range(AgentsAt(P))
<1>1. PICK order : order = Selected(DepthFirst, P)
  OBVIOUS
<1>2. order \in Seq(P)
  <2>1. PICK g : Reads(g, P, DepthFirst, Len(DepthFirst))
    BY NodesAssumption, SelectedReads
  <2> QED BY <1>1, <2>1, NodesAssumption, SelectedIs
<1>3. AgentsAt(P) = [i \in DOMAIN order |-> agents[order[i]]]
  BY <1>1 DEF AgentsAt
<1>4. \A p \in P : agents[p] \in Nodes
  BY NodesAssumption DEF StartTypes, ListedAtPath, All
<1>5. AgentsAt(P) \in Seq(Nodes)
  <2>1. /\ DOMAIN order = 1 .. Len(order) /\ Len(order) \in Nat
        /\ \A i \in DOMAIN order : order[i] \in P
    BY <1>2
  <2>2. AgentsAt(P) \in [1 .. Len(order) -> Nodes]
    BY <1>3, <1>4, <2>1
  <2> QED BY <2>1, <2>2, FunctionIsSeq
<1>6. ASSUME NEW p \in P PROVE agents[p] \in Range(AgentsAt(P))
  <2>1. PICK j \in DOMAIN DepthFirst : DepthFirst[j] = p
    BY NodesAssumption DEF Range
  <2>2. PICK i \in DOMAIN order : order[i] = p
    BY <1>1, <2>1, NodesAssumption, SelectedHas
  <2> QED BY <1>3, <2>2 DEF Range
<1> QED BY <1>5, <1>6

\* What is above an agent is above those it spawned, and so is the agent itself.
LEMMA AboveSpawned ==
    ASSUME NEW n \in Nodes, NEW c \in All, PathOf[c] = Front(PathOf[n]),
           NEW top \in Seq(STRING), IsPrefix(top, PathOf[c])
    PROVE  IsPrefix(top, PathOf[n]) /\ top # PathOf[n]
<1>1. PICK u \in Seq(STRING) : u = PathOf[n] /\ u # <<>>
  BY NodesAssumption DEF All
<1>2. PICK v \in Seq(STRING) : v = PathOf[c]
  BY NodesAssumption
<1>3. v = SubSeq(u, 1, Len(u) - 1) /\ Len(v) = Len(u) - 1
  BY <1>1, <1>2 DEF Front
<1>4. Len(top) <= Len(v) /\ SubSeq(top, 1, Len(top)) = SubSeq(v, 1, Len(top))
  BY <1>2 DEF IsPrefix
<1>5. SubSeq(v, 1, Len(top)) = SubSeq(u, 1, Len(top))
  <2>1. \A i \in 1 .. Len(top) : v[i] = u[i]
    BY <1>3, <1>4
  <2>2. \A i \in 1 .. Len(top) :
          SubSeq(v, 1, Len(top))[i] = v[i] /\ SubSeq(u, 1, Len(top))[i] = u[i]
    BY <1>3, <1>4
  <2>3. /\ SubSeq(v, 1, Len(top)) \in Seq(STRING) /\ Len(SubSeq(v, 1, Len(top))) = Len(top)
        /\ SubSeq(u, 1, Len(top)) \in Seq(STRING) /\ Len(SubSeq(u, 1, Len(top))) = Len(top)
    BY <1>3, <1>4
  <2> QED BY <2>1, <2>2, <2>3, SeqEqual
<1>6. Len(top) < Len(u)
  <2>1. Len(v) = Len(u) - 1 /\ Len(top) <= Len(v)
    BY <1>3, <1>4
  <2>2. Len(u) \in Nat /\ Len(v) \in Nat /\ Len(top) \in Nat
    BY LenProperties
  <2> QED BY <2>1, <2>2
<1> QED BY <1>1, <1>4, <1>5, <1>6 DEF IsPrefix

\* Every path is at or below itself, and below the root's.
LEMMA AboveItself ==
    ASSUME NEW n \in All
    PROVE  IsPrefix(PathOf[n], PathOf[n]) /\ IsPrefix(<<>>, PathOf[n])
<1>1. PICK u \in Seq(STRING) : u = PathOf[n]
  BY NodesAssumption
<1>2. SubSeq(<<>>, 1, 0) = SubSeq(u, 1, 0)
  OBVIOUS
<1> QED BY <1>1, <1>2 DEF IsPrefix

\* A close marks spawned agents: those in the map below its own, and below each it marks.
LEMMA DoomedFound ==
    ASSUME StartTypes, ListedAtPath, NEW t \in Tasks, task[t].node \in All
    PROVE  /\ Doomed(t) \in Seq(Nodes)
           /\ \A n \in Nodes, c \in All :
                  /\ InTree(n) /\ PathOf[c] = Front(PathOf[n])
                  /\ c = task[t].node \/ c \in Range(Doomed(t))
                  => n \in Range(Doomed(t))
<1>1. PICK top \in Seq(STRING) : top = PathOf[task[t].node]
  BY NodesAssumption
<1>2. PICK P : P = Below(top) \ (IF t \in Closers THEN {} ELSE {top})
  OBVIOUS
<1>3. Doomed(t) = AgentsAt(P) /\ P \subseteq Paths \ {<<>>} /\ \A p \in P : agents[p] # None
  BY <1>1, <1>2 DEF Doomed, Below
<1>4. Doomed(t) \in Seq(Nodes) /\ \A p \in P : agents[p] \in Range(Doomed(t))
  BY <1>3, AgentsFound
<1>5. ASSUME NEW x \in Range(Doomed(t)) PROVE x \in Nodes /\ IsPrefix(top, PathOf[x])
  <2>1. PICK i \in DOMAIN Doomed(t) : x = Doomed(t)[i]
    BY DEF Range
  <2>2. PICK order \in Seq(P) : Doomed(t) = [j \in DOMAIN order |-> agents[order[j]]]
    <3>1. PICK g : Reads(g, P, DepthFirst, Len(DepthFirst))
      BY NodesAssumption, SelectedReads
    <3>2. Selected(DepthFirst, P) \in Seq(P)
      BY <3>1, NodesAssumption, SelectedIs
    <3> QED BY <1>3, <3>2 DEF AgentsAt
  <2>3. i \in DOMAIN order /\ order[i] \in P /\ x = agents[order[i]]
    BY <2>1, <2>2
  <2>4. x \in Nodes
    BY <1>4, <2>1
  <2>5. PathOf[x] = order[i]
    BY <1>3, <2>3 DEF ListedAtPath
  <2> QED BY <1>2, <2>3, <2>4, <2>5 DEF Below
<1>6. ASSUME NEW n \in Nodes, NEW c \in All, InTree(n), PathOf[c] = Front(PathOf[n]),
             c = task[t].node \/ c \in Range(Doomed(t))
      PROVE  n \in Range(Doomed(t))
  <2>1. IsPrefix(top, PathOf[c])
    BY <1>1, <1>5, <1>6, AboveItself
  <2>2. IsPrefix(top, PathOf[n]) /\ top # PathOf[n]
    BY <1>6, <2>1, AboveSpawned
  <2>3. PathOf[n] \in Paths /\ PathOf[n] # <<>> /\ agents[PathOf[n]] = n /\ n # None
    BY <1>6, NodesAssumption DEF Paths, All, InTree
  <2>4. PathOf[n] \in P
    BY <1>2, <2>2, <2>3 DEF Below
  <2> QED BY <1>4, <2>3, <2>4
<1> QED BY <1>4, <1>6

\* The shutdown takes down every spawned agent in the map.
LEMMA SnapshotFound ==
    ASSUME StartTypes, ListedAtPath
    PROVE  /\ AgentsAt(Below(<<>>)) \in Seq(Nodes)
           /\ \A n \in Nodes : InTree(n) => n \in Range(AgentsAt(Below(<<>>)))
<1>1. PICK P : P = Below(<<>>)
  OBVIOUS
<1>2. P \subseteq Paths \ {<<>>} /\ \A p \in P : agents[p] # None
  BY <1>1 DEF Below
<1>3. AgentsAt(P) \in Seq(Nodes) /\ \A p \in P : agents[p] \in Range(AgentsAt(P))
  BY <1>2, AgentsFound
<1>4. ASSUME NEW n \in Nodes, InTree(n) PROVE n \in Range(AgentsAt(P))
  <2>1. PathOf[n] \in Paths /\ PathOf[n] # <<>> /\ agents[PathOf[n]] = n /\ n # None
    BY <1>4, NodesAssumption DEF Paths, All, InTree
  <2>2. IsPrefix(<<>>, PathOf[n])
    BY AboveItself DEF All
  <2>3. PathOf[n] \in P
    BY <1>1, <2>1, <2>2 DEF Below
  <2> QED BY <1>3, <2>1, <2>3
<1> QED BY <1>1, <1>3, <1>4

-----------------------------------------------------------------------------
(* The steps that closes and the shutdown need not look into.              *)

\* What a step of a run, a call or a message leaves alone: only an open, admitted
\* agent of a tree that goes on gets a run, and an idle one reports nothing.
RunsOn ==
    /\ UNCHANGED <<agents, shutDown, closed, closing, rolloutDown, resources, caller, task,
                   stopper, shut>>
    /\ \A n \in Nodes : spawn'[n] = spawn[n] \/ {spawn[n], spawn'[n]} \subseteq AdmittedPCs
    /\ \A n \in Nodes : run[n] = "idle" =>
           /\ status'[n] = status[n]
           /\ run'[n] = "idle" \/ (~ closed[n] /\ ~ shutDown /\ spawn[n] \in AdmittedPCs)
    /\ \A n \in All : run[n] = "closeBelow" => run'[n] = "closeBelow"
    /\ \A m \in Messages : target'[m] = target[m] \/ InTree(target'[m])
    /\ status' \in [All -> Statuses]

\* What a spawn of n does before it is admitted, or once it is refused.
Unadmitted(n) ==
    /\ UNCHANGED <<agents, shutDown, closed, closing, run, status, target, task, stopper, shut>>
    /\ \E place \in SpawnPCs \ AdmittedPCs : spawn' = [spawn EXCEPT ![n] = place]
    /\ \/ caller' = caller /\ spawn[n] # "new"
       \/ /\ spawn[n] = "new"
          /\ \E c \in All : PathOf[c] = Front(PathOf[n]) /\ caller' = [caller EXCEPT ![n] = c]
    /\ \/ rolloutDown' = rolloutDown
       \/ /\ spawn[n] = "undo" /\ spawn'[n] = "release"
          /\ \E down \in BOOLEAN : rolloutDown' = [rolloutDown EXCEPT ![n] = down]
    /\ \/ resources' = resources /\ (spawn'[n] = "refused" => spawn[n] = "prepare")
       \/ resources' = [resources EXCEPT ![n] = "held"] /\ spawn[n] = "prepare"
              /\ spawn'[n] = "rollout"
       \/ resources' = [resources EXCEPT ![n] = "released"] /\ spawn[n] = "release"
              /\ spawn'[n] = "refused"
    /\ spawn'[n] = "prepare" => spawn[n] = "new"
    /\ spawn'[n] # "new" /\ spawn[n] \notin AdmittedPCs
    /\ spawn[n] \in {"release", "refused", "dropped"} =>
           spawn'[n] \in {"release", "refused", "dropped"}

\* The steps of runs, calls and messages are of that kind.
LEMMA RunSteps ==
    ASSUME StartInv, CloseTypes, AdmissionInv,
           \/ UNCHANGED vars
           \/ \E n \in Nodes : PostTask(n) \/ StartSpawned(n)
           \/ \E m \in Messages : SendStep(m) \/ \E n \in All : BeginSend(m, n)
           \/ StartHostRun
           \/ \E n \in All : Interrupt(n) \/ TakeMail(n) \/ Pause(n) \/ EndRun(n)
           \/ \E n \in All : StartDriver(n) \/ StartRun(n) \/ LeavePause(n) \/ RunFinished(n)
           \/ \E n \in All : ReportToParent(n) \/ HandBack(n)
           \/ \E n \in Nodes : \E p \in 1 .. pauses[n] : Resume(n, p)
    PROVE  RunsOn
<1> USE DEF StartInv, StartTypes, CloseTypes, All, Statuses, RunPCs, ActivePCs, EndedPCs,
            SpawnPCs, SpawnPending, AdmittedPCs
<1>0. Root \notin Nodes
  BY NodesAssumption
<1>1. CASE UNCHANGED vars
  BY <1>1 DEF RunsOn
<1>2. ASSUME NEW n \in Nodes, PostTask(n) PROVE RunsOn
  BY <1>2 DEF RunsOn, PostTask, Spawn
<1>3. ASSUME NEW n \in Nodes, StartSpawned(n) PROVE RunsOn
  BY <1>3 DEF RunsOn, StartSpawned, EnsureRunning, Claims, Drive, Spawn
<1>4. ASSUME NEW m \in Messages, NEW n \in All, BeginSend(m, n) PROVE RunsOn
  BY <1>4 DEF RunsOn, BeginSend
<1>5. ASSUME NEW m \in Messages, PushMail(m) PROVE RunsOn
  BY <1>5 DEF RunsOn, PushMail
<1>6. ASSUME NEW m \in Messages, StartForMail(m) PROVE RunsOn
  BY <1>6 DEF RunsOn, StartForMail, EnsureRunning, Claims, Drive, AdmissionInv
<1>7. CASE StartHostRun
  BY <1>0, <1>7 DEF RunsOn, StartHostRun, Drive, Publish
<1>8. ASSUME NEW n \in All, Interrupt(n) \/ TakeMail(n) PROVE RunsOn
  BY <1>8 DEF RunsOn, Interrupt, TakeMail
<1>9. ASSUME NEW n \in All, Pause(n) PROVE RunsOn
  BY <1>9 DEF RunsOn, Pause, Drive, Publish
<1>10. ASSUME NEW n \in All, EndRun(n) PROVE RunsOn
  BY <1>10 DEF RunsOn, EndRun, Drive
<1>11. ASSUME NEW n \in All, StartDriver(n) PROVE RunsOn
  BY <1>11 DEF RunsOn, StartDriver, Drive
<1>12. ASSUME NEW n \in All, StartRun(n) PROVE RunsOn
  BY <1>12 DEF RunsOn, StartRun, Drive, Publish
<1>13. ASSUME NEW n \in All, LeavePause(n) PROVE RunsOn
  BY <1>13 DEF RunsOn, LeavePause, Drive, Publish
<1>14. ASSUME NEW n \in All, RunFinished(n) PROVE RunsOn
  BY <1>14 DEF RunsOn, RunFinished, Drive, Publish
<1>15. ASSUME NEW n \in All, ReportToParent(n) PROVE RunsOn
  BY <1>15 DEF RunsOn, ReportToParent, Drive
<1>16. ASSUME NEW n \in All, HandBack(n) PROVE RunsOn
  BY <1>16 DEF RunsOn, HandBack, Drive
<1>17. ASSUME NEW n \in Nodes, NEW p \in 1 .. pauses[n], Resume(n, p) PROVE RunsOn
  BY <1>17 DEF RunsOn, Resume
<1> QED
  BY <1>1, <1>2, <1>3, <1>4, <1>5, <1>6, <1>7, <1>8, <1>9, <1>10, <1>11, <1>12, <1>13, <1>14,
     <1>15, <1>16, <1>17 DEF SendStep

\* A spawn touches nothing but its own agent until it is admitted.
LEMMA SpawnSteps ==
    ASSUME StartInv, CloseTypes, NEW n \in Nodes,
           \/ \E c \in All : BeginSpawn(n, c)
           \/ PrepareSpawned(n) \/ CreateRollout(n) \/ UndoRollout(n) \/ ReleaseRefused(n)
           \/ DropSpawn(n)
    PROVE  Unadmitted(n)
<1> USE DEF StartInv, StartTypes, CloseTypes, SpawnPCs, SpawnPending, AdmittedPCs, Spawn
<1>1. ASSUME NEW c \in All, BeginSpawn(n, c) PROVE Unadmitted(n)
  BY <1>1 DEF Unadmitted, BeginSpawn
<1>2. CASE PrepareSpawned(n)
  BY <1>2 DEF Unadmitted, PrepareSpawned
<1>3. CASE CreateRollout(n)
  BY <1>3 DEF Unadmitted, CreateRollout
<1>4. CASE UndoRollout(n)
  BY <1>4 DEF Unadmitted, UndoRollout
<1>5. CASE ReleaseRefused(n)
  BY <1>5 DEF Unadmitted, ReleaseRefused
<1>6. CASE DropSpawn(n)
  BY <1>6 DEF Unadmitted, DropSpawn
<1> QED BY <1>1, <1>2, <1>3, <1>4, <1>5, <1>6

\* What is left are the steps that closes and the shutdown are made of.
StepKinds ==
    \/ RunsOn
    \/ \E n \in Nodes : Unadmitted(n) \/ Admit(n)
    \/ \E n \in All : AfterRun(n) \/ ClosedBelow(n)
    \/ \E k \in Closers, n \in All : BeginClose(k, n)
    \/ \E t \in Tasks : CloseStep(t)
    \/ \E s \in Stoppers : ShutdownTree(s) \/ JoinShutdown(s)
    \/ ShutStep

\* Every step is of one of these kinds.
LEMMA StepsAre ==
    ASSUME StartInv, CloseTypes, AdmissionInv, [Next]_vars
    PROVE  StepKinds
BY RunSteps, SpawnSteps DEF StepKinds, Next, SpawnStep, DriverStep

\* A step of the close t leaves it at a place, for an agent and with these to stop.
Moves(t, place, node, todo) ==
    /\ task' \in [Tasks -> TaskType]
    /\ task'[t].pc = place /\ task'[t].node = node /\ task'[t].todo = todo
    /\ \A x \in Tasks : x # t => task'[x] = task[x]

\* A step of the shutdown does the same.
ShutMoves(place, todo) == shut' \in ShutType /\ shut'.pc = place /\ shut'.todo = todo

\* The first of a list and the rest are the list.
LEMMA TodoRest ==
    ASSUME NEW s \in Seq(Nodes), s # <<>>
    PROVE  /\ Head(s) \in Nodes /\ Tail(s) \in Seq(Nodes)
           /\ Range(s) = {Head(s)} \cup Range(Tail(s))
<1>1. Head(s) \in Nodes /\ Tail(s) \in Seq(Nodes) /\ Head(s) = s[1] /\ Len(s) \in Nat \ {0}
  OBVIOUS
<1>2. DOMAIN s = 1 .. Len(s) /\ DOMAIN Tail(s) = 1 .. Len(s) - 1
  OBVIOUS
<1>3. \A i \in 1 .. Len(s) - 1 : Tail(s)[i] = s[i + 1]
  OBVIOUS
<1>4. ASSUME NEW i \in 1 .. Len(s) PROVE s[i] \in {Head(s)} \cup Range(Tail(s))
  <2>1. CASE i = 1
    BY <1>1, <2>1
  <2>2. CASE i # 1
    <3>1. i - 1 \in 1 .. Len(s) - 1 /\ (i - 1) + 1 = i
      BY <1>1, <2>2
    <3> QED BY <1>2, <1>3, <3>1 DEF Range
  <2> QED BY <2>1, <2>2
<1>5. ASSUME NEW i \in 1 .. Len(s) - 1 PROVE Tail(s)[i] \in Range(s)
  <2>1. i + 1 \in 1 .. Len(s)
    BY <1>1
  <2> QED BY <1>2, <1>3, <2>1 DEF Range
<1>6. Head(s) \in Range(s)
  BY <1>1, <1>2 DEF Range
<1> QED BY <1>1, <1>2, <1>4, <1>5, <1>6 DEF Range

\* How a close's place, agent and list are changed one by one.
LEMMA MovesBy ==
    ASSUME task \in [Tasks -> TaskType], NEW t \in Tasks, NEW r \in TaskType,
           task' = [task EXCEPT ![t] = r]
    PROVE  Moves(t, r.pc, r.node, r.todo)
BY DEF Moves

\* What each step of a close, or of the run that waits for one, does to it.
LEMMA CloseMoves ==
    ASSUME CloseTypes, StartInv, TaskInv
    PROVE  /\ \A n \in All : AfterRun(n) =>
                  task' = task \/ Moves(n, "found", n, task[n].todo)
           /\ \A n \in All : ClosedBelow(n) => Moves(n, "idle", task[n].node, task[n].todo)
           /\ \A k \in Closers, n \in All : BeginClose(k, n) => Moves(k, "found", n, task[k].todo)
           /\ \A t \in Tasks :
                /\ MarkSubtree(t) =>
                     task[t].node \in All /\ Moves(t, "marked", task[t].node, Doomed(t))
                /\ CancelDoomed(t) => Moves(t, "stop", task[t].node, task[t].todo)
                /\ AwaitIdle(t) => Moves(t, "rollout", task[t].node, task[t].todo)
                /\ StopRollout(t) => \/ Moves(t, "remove", task[t].node, task[t].todo)
                                     \/ Moves(t, "stop", task[t].node, Tail(task[t].todo))
                                     \/ Moves(t, "finish", task[t].node, task[t].todo)
                /\ RemoveStopped(t) => Moves(t, "stop", task[t].node, Tail(task[t].todo))
                /\ FinishClose(t) => Moves(t, "done", None, <<>>)
<1>1. task \in [Tasks -> TaskType] /\ \A t \in Tasks : task[t] \in TaskType
  BY DEF CloseTypes
<1>2. ASSUME NEW t \in Tasks, NEW place \in TaskPCs, task' = [task EXCEPT ![t].pc = place]
      PROVE  Moves(t, place, task[t].node, task[t].todo)
  <2>1. PICK r \in TaskType : r = [task[t] EXCEPT !.pc = place]
    BY <1>1 DEF TaskType
  <2>2. task' = [task EXCEPT ![t] = r]
    BY <1>1, <1>2, <2>1
  <2>3. r.pc = place /\ r.node = task[t].node /\ r.todo = task[t].todo
    BY <1>1, <2>1 DEF TaskType
  <2> QED BY <1>1, <2>2, <2>3, MovesBy
<1>3. ASSUME NEW t \in Tasks, NEW node \in All,
             task' = [task EXCEPT ![t].pc = "found", ![t].node = node]
      PROVE  Moves(t, "found", node, task[t].todo)
  <2>1. PICK r \in TaskType : r = [task[t] EXCEPT !.pc = "found", !.node = node]
    BY <1>1 DEF TaskType, TaskPCs
  <2>2. task' = [task EXCEPT ![t] = r]
    BY <1>1, <1>3, <2>1
  <2>3. r.pc = "found" /\ r.node = node /\ r.todo = task[t].todo
    BY <1>1, <2>1 DEF TaskType
  <2> QED BY <1>1, <2>2, <2>3, MovesBy
<1>4. ASSUME NEW t \in Tasks, NEW place \in TaskPCs, NEW todo \in Seq(Nodes),
             task' = [task EXCEPT ![t].pc = place, ![t].todo = todo]
      PROVE  Moves(t, place, task[t].node, todo)
  <2>1. PICK r \in TaskType : r = [task[t] EXCEPT !.pc = place, !.todo = todo]
    BY <1>1 DEF TaskType
  <2>2. task' = [task EXCEPT ![t] = r]
    BY <1>1, <1>4, <2>1
  <2>3. r.pc = place /\ r.node = task[t].node /\ r.todo = todo
    BY <1>1, <2>1 DEF TaskType
  <2> QED BY <1>1, <2>2, <2>3, MovesBy
<1>5. {"idle", "found", "marked", "stop", "rollout", "remove", "finish", "done"} \subseteq TaskPCs
  BY DEF TaskPCs
<1>6. All \subseteq Tasks /\ Closers \subseteq Tasks
  BY DEF Tasks
<1>7. ASSUME NEW t \in Tasks, task[t].pc \in {"rollout", "remove"}
      PROVE  task[t].todo # <<>> /\ task[t].todo \in Seq(Nodes) /\ Tail(task[t].todo) \in Seq(Nodes)
  <2>1. task[t].todo # <<>> /\ task[t].todo \in Seq(Nodes)
    BY <1>1, <1>7 DEF TaskInv, TaskSound, TaskType
  <2> QED BY <2>1, TodoRest
<1>8. ASSUME NEW n \in All, AfterRun(n)
      PROVE  task' = task \/ Moves(n, "found", n, task[n].todo)
  BY <1>3, <1>6, <1>8 DEF AfterRun
<1>9. ASSUME NEW n \in All, ClosedBelow(n) PROVE Moves(n, "idle", task[n].node, task[n].todo)
  BY <1>2, <1>5, <1>6, <1>9 DEF ClosedBelow, Task
<1>10. ASSUME NEW k \in Closers, NEW n \in All, BeginClose(k, n)
       PROVE  Moves(k, "found", n, task[k].todo)
  BY <1>3, <1>6, <1>10 DEF BeginClose
<1>11. ASSUME NEW t \in Tasks, MarkSubtree(t)
       PROVE  task[t].node \in All /\ Moves(t, "marked", task[t].node, Doomed(t))
  <2>1. task[t].node \in All
    BY <1>11 DEF MarkSubtree, TaskInv, TaskSound
  <2>2. Doomed(t) \in Seq(Nodes)
    BY <2>1, DoomedFound DEF StartInv
  <2> QED BY <1>4, <1>5, <1>11, <2>1, <2>2 DEF MarkSubtree
<1>12. ASSUME NEW t \in Tasks, CancelDoomed(t) PROVE Moves(t, "stop", task[t].node, task[t].todo)
  BY <1>2, <1>5, <1>12 DEF CancelDoomed, Task
<1>13. ASSUME NEW t \in Tasks, AwaitIdle(t) PROVE Moves(t, "rollout", task[t].node, task[t].todo)
  BY <1>2, <1>5, <1>13 DEF AwaitIdle, Task
<1>14. ASSUME NEW t \in Tasks, StopRollout(t)
       PROVE  \/ Moves(t, "remove", task[t].node, task[t].todo)
              \/ Moves(t, "stop", task[t].node, Tail(task[t].todo))
              \/ Moves(t, "finish", task[t].node, task[t].todo)
  <2>1. CASE Task(t, "remove")
    BY <1>2, <1>5, <2>1 DEF Task
  <2>2. CASE task' = [task EXCEPT ![t] = AfterFailure(t)]
    <3>1. CASE AfterFailure(t) = [task[t] EXCEPT !.pc = "stop", !.todo = Tail(@)]
      <4>1. PICK r \in TaskType : r = [task[t] EXCEPT !.pc = "stop", !.todo = Tail(task[t].todo)]
        BY <1>1, <1>5, <1>7, <1>14 DEF TaskType, StopRollout
      <4>2. r.pc = "stop" /\ r.node = task[t].node /\ r.todo = Tail(task[t].todo)
        BY <1>1, <4>1 DEF TaskType
      <4>3. task' = [task EXCEPT ![t] = r]
        BY <2>2, <3>1, <4>1
      <4> QED BY <1>1, <4>2, <4>3, MovesBy
    <3>2. CASE AfterFailure(t) = [task[t] EXCEPT !.pc = "finish"]
      <4>1. task' = [task EXCEPT ![t].pc = "finish"]
        BY <2>2, <3>2
      <4> QED BY <1>2, <1>5, <4>1
    <3> QED BY <3>1, <3>2 DEF AfterFailure
  <2> QED BY <1>14, <2>1, <2>2 DEF StopRollout
<1>15. ASSUME NEW t \in Tasks, RemoveStopped(t)
       PROVE  Moves(t, "stop", task[t].node, Tail(task[t].todo))
  <2>1. task' = [task EXCEPT ![t].pc = "stop", ![t].todo = Tail(task[t].todo)]
    BY <1>15 DEF RemoveStopped
  <2>2. Tail(task[t].todo) \in Seq(Nodes)
    BY <1>7, <1>15 DEF RemoveStopped
  <2> QED BY <1>4, <1>5, <2>1, <2>2
<1>16. ASSUME NEW t \in Tasks, FinishClose(t) PROVE Moves(t, "done", None, <<>>)
  <2>1. PICK r \in TaskType : r = [pc |-> "done", node |-> None, todo |-> <<>>]
    <3>1. [pc |-> "done", node |-> None, todo |-> <<>>] \in TaskType
      BY DEF TaskType, TaskPCs
    <3> QED BY <3>1, Zenon
  <2>2. task' = [task EXCEPT ![t] = r] /\ r.pc = "done" /\ r.node = None /\ r.todo = <<>>
    BY <1>16, <2>1 DEF FinishClose
  <2> QED BY <1>1, <2>2, MovesBy
<1> QED BY <1>8, <1>9, <1>10, <1>11, <1>12, <1>13, <1>14, <1>15, <1>16

\* What each step of the shutdown does to it.
LEMMA ShutdownMoves ==
    ASSUME CloseTypes, StartInv, ShutInv
    PROVE  /\ \A s \in Stoppers : ShutdownTree(s) => ShutMoves("marked", shut.todo)
           /\ CancelTree => ShutMoves("tasks", shut.todo)
           /\ SnapshotAgents => ShutMoves("nodes", AgentsAt(Below(<<>>)))
           /\ ShutAwaitIdle => ShutMoves("rollout", shut.todo)
           /\ ShutRollout => ShutMoves("release", shut.todo)
           /\ ShutRelease => ShutMoves("nodes", Tail(shut.todo))
           /\ FinishShutdown => ShutMoves("done", shut.todo)
<1> USE DEF ShutMoves, ShutType, ShutPCs
<1>1. shut \in ShutType
  BY DEF CloseTypes
<1>2. ASSUME NEW s \in Stoppers, ShutdownTree(s) PROVE ShutMoves("marked", shut.todo)
  BY <1>1, <1>2 DEF ShutdownTree
<1>3. CancelTree => ShutMoves("tasks", shut.todo)
  BY <1>1 DEF CancelTree
<1>4. SnapshotAgents => ShutMoves("nodes", AgentsAt(Below(<<>>)))
  <2>1. AgentsAt(Below(<<>>)) \in Seq(Nodes)
    BY SnapshotFound DEF StartInv
  <2> QED BY <2>1 DEF SnapshotAgents
<1>5. ShutAwaitIdle => ShutMoves("rollout", shut.todo)
  BY <1>1 DEF ShutAwaitIdle
<1>6. ShutRollout => ShutMoves("release", shut.todo)
  BY <1>1 DEF ShutRollout
<1>7. ShutRelease => ShutMoves("nodes", Tail(shut.todo))
  <2>1. ShutRelease => Tail(shut.todo) \in Seq(Nodes)
    BY <1>1, TodoRest DEF ShutRelease, ShutInv, ShutMarked, ShutAtIdle
  <2> QED BY <1>1, <2>1 DEF ShutRelease
<1>8. FinishShutdown => ShutMoves("done", shut.todo)
  BY <1>1 DEF FinishShutdown
<1> QED BY <1>2, <1>3, <1>4, <1>5, <1>6, <1>7, <1>8

-----------------------------------------------------------------------------
(* Every kind of step keeps the invariant.                                  *)

\* A step keeps the types.
LEMMA CloseTypesStep == ASSUME CloseInv, StepKinds PROVE CloseTypes'
<1> USE DEF CloseInv, CloseTypes
<1>1. CASE RunsOn
  BY <1>1 DEF RunsOn
<1>2. ASSUME NEW n \in Nodes, Unadmitted(n) PROVE CloseTypes'
  BY <1>2 DEF Unadmitted, StartInv, StartTypes
<1>3. ASSUME NEW n \in Nodes, Admit(n) PROVE CloseTypes'
  BY <1>3 DEF Admit
<1>4. ASSUME NEW n \in All, AfterRun(n) PROVE CloseTypes'
  <2>1. task' \in [Tasks -> TaskType]
    BY <1>4, CloseMoves DEF Moves
  <2> QED BY <1>4, <2>1 DEF AfterRun
<1>5. ASSUME NEW n \in All, ClosedBelow(n) PROVE CloseTypes'
  <2>1. task' \in [Tasks -> TaskType]
    BY <1>5, CloseMoves DEF Moves
  <2> QED BY <1>5, <2>1 DEF ClosedBelow
<1>6. ASSUME NEW k \in Closers, NEW n \in All, BeginClose(k, n) PROVE CloseTypes'
  <2>1. task' \in [Tasks -> TaskType]
    BY <1>6, CloseMoves DEF Moves
  <2> QED BY <1>6, <2>1 DEF BeginClose
<1>7. ASSUME NEW t \in Tasks, MarkSubtree(t) PROVE CloseTypes'
  <2>1. task' \in [Tasks -> TaskType]
    BY <1>7, CloseMoves DEF Moves
  <2> QED BY <1>7, <2>1 DEF MarkSubtree
<1>8. ASSUME NEW t \in Tasks, CancelDoomed(t) PROVE CloseTypes'
  <2>1. task' \in [Tasks -> TaskType]
    BY <1>8, CloseMoves DEF Moves
  <2> QED BY <1>8, <2>1 DEF CancelDoomed
<1>9. ASSUME NEW t \in Tasks, AwaitIdle(t) PROVE CloseTypes'
  <2>1. task' \in [Tasks -> TaskType]
    BY <1>9, CloseMoves DEF Moves
  <2> QED BY <1>9, <2>1 DEF AwaitIdle
<1>10. ASSUME NEW t \in Tasks, StopRollout(t) PROVE CloseTypes'
  <2>1. task' \in [Tasks -> TaskType]
    BY <1>10, CloseMoves DEF Moves
  <2> QED BY <1>10, <2>1 DEF StopRollout
<1>11. ASSUME NEW t \in Tasks, RemoveStopped(t) PROVE CloseTypes'
  <2>1. task' \in [Tasks -> TaskType]
    BY <1>11, CloseMoves DEF Moves
  <2> QED BY <1>11, <2>1 DEF RemoveStopped, Publish, Statuses
<1>12. ASSUME NEW t \in Tasks, FinishClose(t) PROVE CloseTypes'
  <2>1. task' \in [Tasks -> TaskType]
    BY <1>12, CloseMoves DEF Moves
  <2> QED BY <1>12, <2>1 DEF FinishClose
<1>13. ASSUME NEW s \in Stoppers, ShutdownTree(s) PROVE CloseTypes'
  <2>1. shut' \in ShutType
    BY <1>13, ShutdownMoves DEF ShutMoves
  <2> QED BY <1>13, <2>1 DEF ShutdownTree
<1>14. ASSUME NEW s \in Stoppers, JoinShutdown(s) PROVE CloseTypes'
  BY <1>14 DEF JoinShutdown
<1>15. CASE CancelTree
  <2>1. shut' \in ShutType
    BY <1>15, ShutdownMoves DEF ShutMoves
  <2> QED BY <1>15, <2>1 DEF CancelTree
<1>16. CASE SnapshotAgents
  <2>1. shut' \in ShutType
    BY <1>16, ShutdownMoves DEF ShutMoves
  <2> QED BY <1>16, <2>1 DEF SnapshotAgents
<1>17. CASE ShutAwaitIdle
  <2>1. shut' \in ShutType
    BY <1>17, ShutdownMoves DEF ShutMoves
  <2> QED BY <1>17, <2>1 DEF ShutAwaitIdle
<1>18. CASE ShutRollout
  <2>1. shut' \in ShutType
    BY <1>18, ShutdownMoves DEF ShutMoves
  <2> QED BY <1>18, <2>1 DEF ShutRollout
<1>19. CASE ShutRelease
  <2>1. shut' \in ShutType
    BY <1>19, ShutdownMoves DEF ShutMoves
  <2> QED BY <1>19, <2>1 DEF ShutRelease, Publish, Statuses
<1>20. CASE FinishShutdown
  <2>1. shut' \in ShutType
    BY <1>20, ShutdownMoves DEF ShutMoves
  <2> QED BY <1>20, <2>1 DEF FinishShutdown
<1> QED
  BY <1>1, <1>2, <1>3, <1>4, <1>5, <1>6, <1>7, <1>8, <1>9, <1>10, <1>11, <1>12, <1>13, <1>14,
     <1>15, <1>16, <1>17, <1>18, <1>19, <1>20 DEF StepKinds, CloseStep, ShutStep

\* An admitted agent takes a free place in the map, and nobody else loses theirs.
LEMMA AdmitsInto ==
    ASSUME StartTypes, NEW n \in Nodes, Admit(n)
    PROVE  \/ /\ Admits(n)
              /\ InTree(n)' /\ spawn' = [spawn EXCEPT ![n] = "post"]
              /\ \A q \in Nodes : q # n => (InTree(q)' <=> InTree(q))
           \/ agents' = agents /\ spawn' = [spawn EXCEPT ![n] = "undo"]
<1>1. PathOf[n] \in Paths
  BY DEF Paths, All
<1>2. CASE Admits(n)
  <2>1. agents' = [agents EXCEPT ![PathOf[n]] = n] /\ spawn' = [spawn EXCEPT ![n] = "post"]
    BY <1>2 DEF Admit, Spawn
  <2>2. agents[PathOf[n]] = None
    BY <1>2 DEF Admits
  <2>3. \A q \in Nodes : q # None
    BY NodesAssumption DEF All
  <2>4. InTree(n)'
    BY <1>1, <2>1 DEF InTree, StartTypes
  <2>5. \A q \in Nodes : q # n => (InTree(q)' <=> InTree(q))
    BY <1>1, <2>1, <2>2, <2>3 DEF InTree, StartTypes
  <2> QED BY <1>2, <2>1, <2>4, <2>5
<1>3. CASE ~ Admits(n)
  BY <1>3 DEF Admit, Spawn
<1> QED BY <1>2, <1>3

\* Taking an agent out of the map takes nobody else out.
LEMMA RemovesOnly ==
    ASSUME StartTypes, NEW x \in Nodes, agents' = Without(x)
    PROVE  \A n \in Nodes : (InTree(n)' => InTree(n)) /\ (InTree(n) => InTree(n)' \/ n = x)
<1>1. PathOf[x] \in Paths
  BY DEF Paths, All
<1>2. \A q \in Nodes : q # None /\ PathOf[q] \in Paths
  BY NodesAssumption DEF All, Paths
<1>3. CASE InTree(x)
  <2>1. agents' = [agents EXCEPT ![PathOf[x]] = None] /\ agents[PathOf[x]] = x
    BY <1>3 DEF Without, InTree
  <2> QED BY <1>1, <1>2, <2>1 DEF InTree, StartTypes
<1>4. CASE ~ InTree(x)
  BY <1>4 DEF Without, InTree
<1> QED BY <1>3, <1>4

\* The agent a close or the shutdown is at.
LEMMA AtItsFirst ==
    ASSUME CloseTypes, TaskInv, ShutInv
    PROVE  /\ \A t \in Tasks : task[t].pc \in {"rollout", "remove"} =>
                  /\ Stopping(t) \in Nodes /\ closed[Stopping(t)] /\ run[Stopping(t)] = "idle"
                  /\ Tail(task[t].todo) \in Seq(Nodes)
                  /\ Range(task[t].todo) = {Stopping(t)} \cup Range(Tail(task[t].todo))
           /\ shut.pc \in {"rollout", "release"} =>
                  /\ Head(shut.todo) \in Nodes /\ shutDown /\ run[Head(shut.todo)] = "idle"
                  /\ Range(shut.todo) = {Head(shut.todo)} \cup Range(Tail(shut.todo))
<1>1. ASSUME NEW t \in Tasks, task[t].pc \in {"rollout", "remove"}
      PROVE  /\ Stopping(t) \in Nodes /\ closed[Stopping(t)] /\ run[Stopping(t)] = "idle"
             /\ Tail(task[t].todo) \in Seq(Nodes)
             /\ Range(task[t].todo) = {Stopping(t)} \cup Range(Tail(task[t].todo))
  <2>1. task[t].todo \in Seq(Nodes) /\ task[t].todo # <<>>
    BY <1>1 DEF CloseTypes, TaskType, TaskInv, TaskSound
  <2>2. /\ Stopping(t) \in Nodes /\ Tail(task[t].todo) \in Seq(Nodes)
        /\ Range(task[t].todo) = {Stopping(t)} \cup Range(Tail(task[t].todo))
    BY <2>1, TodoRest DEF Stopping
  <2>3. closed[Stopping(t)] /\ run[Stopping(t)] = "idle"
    BY <1>1, <2>2 DEF TaskInv, TaskSound, Stopping
  <2> QED BY <2>2, <2>3
<1>2. ASSUME shut.pc \in {"rollout", "release"}
      PROVE  /\ Head(shut.todo) \in Nodes /\ shutDown /\ run[Head(shut.todo)] = "idle"
             /\ Range(shut.todo) = {Head(shut.todo)} \cup Range(Tail(shut.todo))
  <2>1. shut.todo \in Seq(Nodes) /\ shut.todo # <<>> /\ run[Head(shut.todo)] = "idle" /\ shutDown
    BY <1>2 DEF CloseTypes, ShutType, ShutInv, ShutMarked, ShutAtIdle
  <2> QED BY <2>1, TodoRest
<1> QED BY <1>1, <1>2

\* A step keeps track of who was admitted.
LEMMA AdmissionStep == ASSUME CloseInv, StepKinds PROVE AdmissionInv'
<1> USE DEF CloseInv, StartInv, StartTypes, AdmissionInv, AdmittedPCs
<1>1. CASE RunsOn
  <2>1. \A q \in Nodes : InTree(q)' <=> InTree(q)
    BY <1>1 DEF RunsOn, InTree
  <2>2. \A q \in Nodes : spawn[q] \in AdmittedPCs => spawn'[q] \in AdmittedPCs
    BY <1>1 DEF RunsOn
  <2>3. \A q \in Nodes : run'[q] # "idle" => spawn[q] \in AdmittedPCs
    BY <1>1 DEF RunsOn
  <2>4. \A m \in Messages : target'[m] \in Nodes => spawn[target'[m]] \in AdmittedPCs
    BY <1>1 DEF RunsOn
  <2>5. caller' = caller /\ \A q \in Nodes : spawn'[q] # "new" => spawn[q] # "new"
    BY <1>1 DEF RunsOn
  <2> QED BY <2>1, <2>2, <2>3, <2>4, <2>5
<1>2. ASSUME NEW n \in Nodes, Unadmitted(n) PROVE AdmissionInv'
  <2>1. spawn[n] \notin AdmittedPCs /\ \A q \in Nodes : q # n => spawn'[q] = spawn[q]
    BY <1>2 DEF Unadmitted
  <2>2. \A q \in Nodes : InTree(q)' <=> InTree(q)
    BY <1>2 DEF Unadmitted, InTree
  <2>3. UNCHANGED <<run, target>>
    BY <1>2 DEF Unadmitted
  <2>4. caller'[n] \in All /\ PathOf[caller'[n]] = Front(PathOf[n])
    BY <1>2 DEF Unadmitted, CloseTypes
  <2>5. \A q \in Nodes : q # n => caller'[q] = caller[q]
    BY <1>2 DEF Unadmitted, CloseTypes
  <2> QED BY <2>1, <2>2, <2>3, <2>4, <2>5
<1>3. ASSUME NEW n \in Nodes, Admit(n) PROVE AdmissionInv'
  <2>1. UNCHANGED <<run, target, caller>> /\ spawn[n] = "admit"
    BY <1>3 DEF Admit
  <2>2. CASE /\ Admits(n)
             /\ InTree(n)' /\ spawn' = [spawn EXCEPT ![n] = "post"]
             /\ \A q \in Nodes : q # n => (InTree(q)' <=> InTree(q))
    BY <2>1, <2>2
  <2>3. CASE agents' = agents /\ spawn' = [spawn EXCEPT ![n] = "undo"]
    <3>1. \A q \in Nodes : InTree(q)' <=> InTree(q)
      BY <2>3 DEF InTree
    <3> QED BY <2>1, <2>3, <3>1
  <2> QED BY <1>3, <2>2, <2>3, AdmitsInto
<1>4. ASSUME NEW n \in All, AfterRun(n) PROVE AdmissionInv'
  <2>1. UNCHANGED <<agents, target, spawn, caller>> /\ run[n] = "ended"
    BY <1>4 DEF AfterRun
  <2>2. \A q \in Nodes : run'[q] # "idle" => run[q] # "idle"
    <3>1. \E place \in RunPCs : run' = [run EXCEPT ![n] = place]
      BY <1>4 DEF AfterRun, Drive, RunPCs, ActivePCs, EndedPCs
    <3> QED BY <2>1, <3>1 DEF All
  <2> QED BY <2>1, <2>2 DEF InTree
<1>5. ASSUME NEW n \in All, ClosedBelow(n) PROVE AdmissionInv'
  <2>1. UNCHANGED <<agents, target, spawn, caller>>
    BY <1>5 DEF ClosedBelow
  <2>2. \A q \in Nodes : run'[q] # "idle" => run[q] # "idle"
    BY <1>5 DEF ClosedBelow, Drive
  <2> QED BY <2>1, <2>2 DEF InTree
<1>6. ASSUME NEW k \in Closers, NEW n \in All, BeginClose(k, n) PROVE AdmissionInv'
  BY <1>6 DEF BeginClose, InTree
<1>7. ASSUME NEW t \in Tasks, MarkSubtree(t) PROVE AdmissionInv'
  BY <1>7 DEF MarkSubtree, InTree
<1>8. ASSUME NEW t \in Tasks, CancelDoomed(t) PROVE AdmissionInv'
  BY <1>8 DEF CancelDoomed, Task, InTree
<1>9. ASSUME NEW t \in Tasks, AwaitIdle(t) PROVE AdmissionInv'
  BY <1>9 DEF AwaitIdle, Task, InTree
<1>10. ASSUME NEW t \in Tasks, StopRollout(t) PROVE AdmissionInv'
  BY <1>10 DEF StopRollout, InTree
<1>11. ASSUME NEW t \in Tasks, RemoveStopped(t) PROVE AdmissionInv'
  <2>1. UNCHANGED <<run, target, caller, spawn>> /\ agents' = Without(Stopping(t))
    BY <1>11 DEF RemoveStopped
  <2>2. Stopping(t) \in Nodes
    BY <1>11, AtItsFirst DEF RemoveStopped
  <2>3. \A q \in Nodes : InTree(q)' => InTree(q)
    BY <2>1, <2>2, RemovesOnly
  <2> QED BY <2>1, <2>3
<1>12. ASSUME NEW t \in Tasks, FinishClose(t) PROVE AdmissionInv'
  BY <1>12 DEF FinishClose, InTree
<1>13. ASSUME NEW s \in Stoppers, ShutdownTree(s) PROVE AdmissionInv'
  BY <1>13 DEF ShutdownTree, InTree
<1>14. ASSUME NEW s \in Stoppers, JoinShutdown(s) PROVE AdmissionInv'
  BY <1>14 DEF JoinShutdown, InTree
<1>15. CASE CancelTree
  BY <1>15 DEF CancelTree, InTree
<1>16. CASE SnapshotAgents
  BY <1>16 DEF SnapshotAgents, InTree
<1>17. CASE ShutAwaitIdle
  BY <1>17 DEF ShutAwaitIdle, InTree
<1>18. CASE ShutRollout
  BY <1>18 DEF ShutRollout, InTree
<1>19. CASE ShutRelease
  BY <1>19 DEF ShutRelease, Publish, InTree
<1>20. CASE FinishShutdown
  BY <1>20 DEF FinishShutdown, InTree
<1> QED
  BY <1>1, <1>2, <1>3, <1>4, <1>5, <1>6, <1>7, <1>8, <1>9, <1>10, <1>11, <1>12, <1>13, <1>14,
     <1>15, <1>16, <1>17, <1>18, <1>19, <1>20 DEF StepKinds, CloseStep, ShutStep

\* A close stays sound while others work: what is closed stays closed, and stays idle.
LEMMA CloseKept ==
    ASSUME CloseTypes, TaskInv, NEW x \in Tasks, task'[x] = task[x],
           \A n \in Nodes : closed[n] => closed'[n],
           \A n \in Nodes : closed[n] /\ run[n] = "idle" => run'[n] = "idle"
    PROVE  TaskSound(x)'
<1>1. TaskSound(x) /\ task[x].todo \in Seq(Nodes)
  BY DEF TaskInv, CloseTypes, TaskType
<1>2. \A y \in Range(task[x].todo) : y \in Nodes
  BY <1>1 DEF Range
<1>3. task[x].todo # <<>> => Head(task[x].todo) \in Range(task[x].todo)
  BY <1>1, TodoRest
<1> QED BY <1>1, <1>2, <1>3 DEF TaskSound

\* A step keeps the closes sound.
LEMMA TaskStep == ASSUME CloseInv, StepKinds PROVE TaskInv'
<1> USE DEF CloseInv
<1>1. CASE RunsOn
  <2>1. UNCHANGED <<task, closed>>
    BY <1>1 DEF RunsOn
  <2>2. \A n \in Nodes : closed[n] /\ run[n] = "idle" => run'[n] = "idle"
    BY <1>1 DEF RunsOn
  <2>3. \A x \in Tasks : TaskSound(x)'
    BY <2>1, <2>2, CloseKept
  <2>4. OwnCloseAwaited'
    BY <1>1 DEF RunsOn, TaskInv, OwnCloseAwaited
  <2> QED BY <2>3, <2>4 DEF TaskInv
<1>2. ASSUME NEW n \in Nodes, Unadmitted(n) PROVE TaskInv'
  <2>1. UNCHANGED <<task, closed, run>>
    BY <1>2 DEF Unadmitted
  <2>2. \A x \in Tasks : TaskSound(x)'
    BY <2>1, CloseKept
  <2> QED BY <2>1, <2>2 DEF TaskInv, OwnCloseAwaited
<1>3. ASSUME NEW n \in Nodes, Admit(n) PROVE TaskInv'
  <2>1. UNCHANGED <<task, closed, run>>
    BY <1>3 DEF Admit
  <2>2. \A x \in Tasks : TaskSound(x)'
    BY <2>1, CloseKept
  <2> QED BY <2>1, <2>2 DEF TaskInv, OwnCloseAwaited
<1>4. ASSUME NEW n \in All, AfterRun(n) PROVE TaskInv'
  <2>1. closed' = closed /\ run[n] = "ended" /\ n \in Tasks /\ run \in [All -> RunPCs]
    BY <1>4 DEF AfterRun, Tasks, StartInv, StartTypes
  <2>2. task[n].pc = "idle"
    BY <2>1 DEF TaskInv, OwnCloseAwaited
  <2>3. CASE UNCHANGED task
    <3>1. \E place \in RunPCs : run' = [run EXCEPT ![n] = place]
      BY <1>4 DEF AfterRun, Drive, RunPCs, ActivePCs, EndedPCs
    <3>2. \A x \in Tasks : TaskSound(x)'
      BY <2>1, <2>3, <3>1, CloseKept DEF All
    <3>3. OwnCloseAwaited'
      BY <2>1, <2>2, <2>3, <3>1 DEF TaskInv, OwnCloseAwaited
    <3> QED BY <3>2, <3>3 DEF TaskInv
  <2>4. CASE Moves(n, "found", n, task[n].todo) /\ task' # task
    <3>1. run' = [run EXCEPT ![n] = "closeBelow"]
      BY <1>4, <2>4 DEF AfterRun, Drive
    <3>2. \A x \in Tasks : x # n => TaskSound(x)'
      BY <2>1, <2>4, <3>1, CloseKept DEF Moves, All
    <3>3. TaskSound(n)'
      BY <2>1, <2>4 DEF Moves, TaskInv, TaskSound
    <3>4. OwnCloseAwaited'
      BY <2>1, <2>4, <3>1 DEF TaskInv, OwnCloseAwaited, Moves, Tasks
    <3> QED BY <3>2, <3>3, <3>4 DEF TaskInv
  <2> QED BY <1>4, <2>3, <2>4, CloseMoves
<1>5. ASSUME NEW n \in All, ClosedBelow(n) PROVE TaskInv'
  <2>1. /\ closed' = closed /\ run[n] = "closeBelow" /\ n \in Tasks /\ run \in [All -> RunPCs]
        /\ run' = [run EXCEPT ![n] = "handBack"]
    BY <1>5 DEF ClosedBelow, Drive, Tasks, StartInv, StartTypes
  <2>2. Moves(n, "idle", task[n].node, task[n].todo)
    BY <1>5, CloseMoves
  <2>3. \A x \in Tasks : x # n => TaskSound(x)'
    BY <2>1, <2>2, CloseKept DEF Moves, All
  <2>4. TaskSound(n)'
    BY <2>1, <2>2 DEF Moves, TaskInv, TaskSound, HoldingPCs
  <2>5. OwnCloseAwaited'
    BY <2>1, <2>2 DEF TaskInv, OwnCloseAwaited, Moves, Tasks
  <2> QED BY <2>3, <2>4, <2>5 DEF TaskInv
<1>6. ASSUME NEW k \in Closers, NEW n \in All, BeginClose(k, n) PROVE TaskInv'
  <2>1. UNCHANGED <<closed, run>> /\ k \in Tasks /\ k \notin All
    BY <1>6, NodesAssumption DEF BeginClose, Tasks
  <2>2. Moves(k, "found", n, task[k].todo)
    BY <1>6, CloseMoves
  <2>3. \A x \in Tasks : x # k => TaskSound(x)'
    BY <2>1, <2>2, CloseKept DEF Moves
  <2>4. TaskSound(k)'
    BY <2>1, <2>2 DEF Moves, TaskInv, TaskSound
  <2>5. OwnCloseAwaited'
    BY <2>1, <2>2 DEF TaskInv, OwnCloseAwaited, Moves, Tasks
  <2> QED BY <2>3, <2>4, <2>5 DEF TaskInv
<1>7. ASSUME NEW t \in Tasks, MarkSubtree(t) PROVE TaskInv'
  <2>1. /\ run' = run /\ closed' = [n \in All |-> closed[n] \/ n \in Range(Doomed(t))]
        /\ task[t].pc = "found"
    BY <1>7 DEF MarkSubtree
  <2>2. task[t].node \in All /\ Moves(t, "marked", task[t].node, Doomed(t))
    BY <1>7, CloseMoves
  <2>3. Doomed(t) \in Seq(Nodes)
    BY <2>2, DoomedFound DEF StartInv
  <2>4. \A n \in All : closed[n] => closed'[n]
    BY <2>1
  <2>5. \A x \in Tasks : x # t => TaskSound(x)'
    BY <2>1, <2>2, <2>4, CloseKept DEF Moves, All
  <2>6. \A y \in Range(Doomed(t)) : closed'[y]
    <3>1. \A y \in Range(Doomed(t)) : y \in All
      BY <2>3 DEF Range, All
    <3> QED BY <2>1, <3>1
  <2>7. TaskSound(t)'
    BY <2>2, <2>6 DEF Moves, TaskSound
  <2>8. OwnCloseAwaited'
    BY <2>1, <2>2 DEF TaskInv, OwnCloseAwaited, Moves, Tasks
  <2> QED BY <2>5, <2>7, <2>8 DEF TaskInv
<1>8. ASSUME NEW t \in Tasks, CancelDoomed(t) PROVE TaskInv'
  <2>1. UNCHANGED <<closed, run>> /\ task[t].pc = "marked"
    BY <1>8 DEF CancelDoomed
  <2>2. Moves(t, "stop", task[t].node, task[t].todo)
    BY <1>8, CloseMoves
  <2>3. \A x \in Tasks : x # t => TaskSound(x)'
    BY <2>1, <2>2, CloseKept DEF Moves
  <2>4. TaskSound(t)'
    BY <2>1, <2>2 DEF Moves, TaskInv, TaskSound, HoldingPCs
  <2>5. OwnCloseAwaited'
    BY <2>1, <2>2 DEF TaskInv, OwnCloseAwaited, Moves, Tasks
  <2> QED BY <2>3, <2>4, <2>5 DEF TaskInv
<1>9. ASSUME NEW t \in Tasks, AwaitIdle(t) PROVE TaskInv'
  <2>1. UNCHANGED <<closed, run>> 
      /\ task[t].pc = "stop" /\ task[t].todo # <<>> /\ run[Head(task[t].todo)] = "idle"
    BY <1>9 DEF AwaitIdle, Stopping
  <2>2. Moves(t, "rollout", task[t].node, task[t].todo)
    BY <1>9, CloseMoves
  <2>3. \A x \in Tasks : x # t => TaskSound(x)'
    BY <2>1, <2>2, CloseKept DEF Moves
  <2>4. TaskSound(t)'
    BY <2>1, <2>2 DEF Moves, TaskInv, TaskSound, HoldingPCs
  <2>5. OwnCloseAwaited'
    BY <2>1, <2>2 DEF TaskInv, OwnCloseAwaited, Moves, Tasks
  <2> QED BY <2>3, <2>4, <2>5 DEF TaskInv
<1>10. ASSUME NEW t \in Tasks, StopRollout(t) PROVE TaskInv'
  <2>1. UNCHANGED <<closed, run>> /\ task[t].pc = "rollout"
    BY <1>10 DEF StopRollout
  <2>2. Range(task[t].todo) = {Stopping(t)} \cup Range(Tail(task[t].todo))
    BY <2>1, AtItsFirst
  <2>3. \/ Moves(t, "remove", task[t].node, task[t].todo)
        \/ Moves(t, "stop", task[t].node, Tail(task[t].todo))
        \/ Moves(t, "finish", task[t].node, task[t].todo)
    BY <1>10, CloseMoves
  <2>4. \A x \in Tasks : x # t => TaskSound(x)'
    BY <2>1, <2>3, CloseKept DEF Moves
  <2>5. TaskSound(t)'
    BY <2>1, <2>2, <2>3 DEF Moves, TaskInv, TaskSound, HoldingPCs
  <2>6. OwnCloseAwaited'
    BY <2>1, <2>3 DEF TaskInv, OwnCloseAwaited, Moves, Tasks
  <2> QED BY <2>4, <2>5, <2>6 DEF TaskInv
<1>11. ASSUME NEW t \in Tasks, RemoveStopped(t) PROVE TaskInv'
  <2>1. UNCHANGED <<closed, run>> /\ task[t].pc = "remove"
    BY <1>11 DEF RemoveStopped
  <2>2. Range(task[t].todo) = {Stopping(t)} \cup Range(Tail(task[t].todo))
    BY <2>1, AtItsFirst
  <2>3. Moves(t, "stop", task[t].node, Tail(task[t].todo))
    BY <1>11, CloseMoves
  <2>4. \A x \in Tasks : x # t => TaskSound(x)'
    BY <2>1, <2>3, CloseKept DEF Moves
  <2>5. TaskSound(t)'
    BY <2>1, <2>2, <2>3 DEF Moves, TaskInv, TaskSound, HoldingPCs
  <2>6. OwnCloseAwaited'
    BY <2>1, <2>3 DEF TaskInv, OwnCloseAwaited, Moves, Tasks
  <2> QED BY <2>4, <2>5, <2>6 DEF TaskInv
<1>12. ASSUME NEW t \in Tasks, FinishClose(t) PROVE TaskInv'
  <2>1. UNCHANGED <<closed, run>> /\ task[t].pc \in {"finish", "stop"}
    BY <1>12 DEF FinishClose
  <2>2. Moves(t, "done", None, <<>>)
    BY <1>12, CloseMoves
  <2>3. \A x \in Tasks : x # t => TaskSound(x)'
    BY <2>1, <2>2, CloseKept DEF Moves
  <2>4. TaskSound(t)'
    BY <2>1, <2>2 DEF Moves, TaskSound, HoldingPCs, Range
  <2>5. OwnCloseAwaited'
    BY <2>1, <2>2 DEF TaskInv, OwnCloseAwaited, Moves, Tasks
  <2> QED BY <2>3, <2>4, <2>5 DEF TaskInv
<1>13. ASSUME NEW s \in Stoppers, ShutdownTree(s) PROVE TaskInv'
  <2>1. UNCHANGED <<task, closed, run>>
    BY <1>13 DEF ShutdownTree
  <2>2. \A x \in Tasks : TaskSound(x)'
    BY <2>1, CloseKept
  <2> QED BY <2>1, <2>2 DEF TaskInv, OwnCloseAwaited
<1>14. ASSUME NEW s \in Stoppers, JoinShutdown(s) PROVE TaskInv'
  <2>1. UNCHANGED <<task, closed, run>>
    BY <1>14 DEF JoinShutdown
  <2>2. \A x \in Tasks : TaskSound(x)'
    BY <2>1, CloseKept
  <2> QED BY <2>1, <2>2 DEF TaskInv, OwnCloseAwaited
<1>15. CASE CancelTree
  <2>1. UNCHANGED <<task, closed, run>>
    BY <1>15 DEF CancelTree
  <2>2. \A x \in Tasks : TaskSound(x)'
    BY <2>1, CloseKept
  <2> QED BY <2>1, <2>2 DEF TaskInv, OwnCloseAwaited
<1>16. CASE SnapshotAgents
  <2>1. UNCHANGED <<task, closed, run>>
    BY <1>16 DEF SnapshotAgents
  <2>2. \A x \in Tasks : TaskSound(x)'
    BY <2>1, CloseKept
  <2> QED BY <2>1, <2>2 DEF TaskInv, OwnCloseAwaited
<1>17. CASE ShutAwaitIdle
  <2>1. UNCHANGED <<task, closed, run>>
    BY <1>17 DEF ShutAwaitIdle
  <2>2. \A x \in Tasks : TaskSound(x)'
    BY <2>1, CloseKept
  <2> QED BY <2>1, <2>2 DEF TaskInv, OwnCloseAwaited
<1>18. CASE ShutRollout
  <2>1. UNCHANGED <<task, closed, run>>
    BY <1>18 DEF ShutRollout
  <2>2. \A x \in Tasks : TaskSound(x)'
    BY <2>1, CloseKept
  <2> QED BY <2>1, <2>2 DEF TaskInv, OwnCloseAwaited
<1>19. CASE ShutRelease
  <2>1. UNCHANGED <<task, closed, run>>
    BY <1>19 DEF ShutRelease
  <2>2. \A x \in Tasks : TaskSound(x)'
    BY <2>1, CloseKept
  <2> QED BY <2>1, <2>2 DEF TaskInv, OwnCloseAwaited
<1>20. CASE FinishShutdown
  <2>1. UNCHANGED <<task, closed, run>>
    BY <1>20 DEF FinishShutdown
  <2>2. \A x \in Tasks : TaskSound(x)'
    BY <2>1, CloseKept
  <2> QED BY <2>1, <2>2 DEF TaskInv, OwnCloseAwaited
<1> QED
  BY <1>1, <1>2, <1>3, <1>4, <1>5, <1>6, <1>7, <1>8, <1>9, <1>10, <1>11, <1>12, <1>13, <1>14,
     <1>15, <1>16, <1>17, <1>18, <1>19, <1>20 DEF StepKinds, CloseStep, ShutStep

\* A step in which no close takes hold of a subtree, or lets go of one, keeps the count.
LEMMA HoldKept ==
    ASSUME CloseInv, closing' = closing,
           \A t \in Tasks :
               /\ task'[t].pc \in HoldingPCs <=> task[t].pc \in HoldingPCs
               /\ task[t].pc \in HoldingPCs => task'[t].node = task[t].node
    PROVE  HoldersCounted'
<1>1. \A n \in All : Holders(n)' = Holders(n)
  BY DEF Holders
<1> QED BY <1>1 DEF CloseInv, HoldersCounted

\* A step keeps the count of the closes that hold a subtree.
LEMMA HoldStep == ASSUME CloseInv, StepKinds PROVE HoldersCounted'
<1>1. CASE RunsOn
  <2>1. UNCHANGED <<task, closing>>
    BY <1>1 DEF RunsOn
  <2> QED BY <2>1, HoldKept
<1>2. ASSUME NEW n \in Nodes, Unadmitted(n) PROVE HoldersCounted'
  <2>1. UNCHANGED <<task, closing>>
    BY <1>2 DEF Unadmitted
  <2> QED BY <2>1, HoldKept
<1>3. ASSUME NEW n \in Nodes, Admit(n) PROVE HoldersCounted'
  <2>1. UNCHANGED <<task, closing>>
    BY <1>3 DEF Admit
  <2> QED BY <2>1, HoldKept
<1>4. ASSUME NEW n \in All, AfterRun(n) PROVE HoldersCounted'
  <2>1. closing' = closing /\ run[n] = "ended" /\ n \in Tasks
    BY <1>4 DEF AfterRun, Tasks
  <2>2. task[n].pc = "idle"
    BY <2>1 DEF CloseInv, TaskInv, OwnCloseAwaited
  <2>3. task' = task \/ Moves(n, "found", n, task[n].todo)
    BY <1>4, CloseMoves DEF CloseInv
  <2> QED BY <2>1, <2>2, <2>3, HoldKept DEF Moves, HoldingPCs
<1>5. ASSUME NEW n \in All, ClosedBelow(n) PROVE HoldersCounted'
  <2>1. closing' = closing /\ task[n].pc = "done"
    BY <1>5 DEF ClosedBelow
  <2>2. Moves(n, "idle", task[n].node, task[n].todo)
    BY <1>5, CloseMoves DEF CloseInv
  <2> QED BY <2>1, <2>2, HoldKept DEF Moves, HoldingPCs
<1>6. ASSUME NEW k \in Closers, NEW n \in All, BeginClose(k, n) PROVE HoldersCounted'
  <2>1. closing' = closing /\ task[k].pc = "idle"
    BY <1>6 DEF BeginClose
  <2>2. Moves(k, "found", n, task[k].todo)
    BY <1>6, CloseMoves DEF CloseInv
  <2> QED BY <2>1, <2>2, HoldKept DEF Moves, HoldingPCs
<1>7. ASSUME NEW t \in Tasks, MarkSubtree(t) PROVE HoldersCounted'
  <2>1. task[t].pc = "found" /\ closing' = [closing EXCEPT ![task[t].node] = @ + 1]
    BY <1>7 DEF MarkSubtree, HoldSubtree
  <2>2. task[t].node \in All /\ Moves(t, "marked", task[t].node, Doomed(t))
    BY <1>7, CloseMoves DEF CloseInv
  <2>3. PICK h \in All : h = task[t].node
    BY <2>2
  <2>4. closing' = [closing EXCEPT ![h] = @ + 1]
    BY <2>1, <2>3
  <2>5. \A n \in All : n # h => Holders(n)' = Holders(n)
    BY <2>1, <2>2, <2>3 DEF Holders, Moves, HoldingPCs
  <2>6. Holders(h)' = Holders(h) \cup {t} /\ t \notin Holders(h)
    BY <2>1, <2>2, <2>3 DEF Holders, Moves, HoldingPCs
  <2>7. IsFiniteSet(Holders(h)) /\ closing[h] = Cardinality(Holders(h)) /\ closing \in [All -> Nat]
    BY DEF CloseInv, HoldersCounted
  <2>8. IsFiniteSet(Holders(h) \cup {t}) /\ Cardinality(Holders(h) \cup {t}) = closing[h] + 1
    BY <2>6, <2>7, FS_AddElement
  <2>9. closing' \in [All -> Nat] /\ closing'[h] = closing[h] + 1
    BY <2>4, <2>7
  <2>10. \A n \in All : n # h => closing'[n] = closing[n]
    BY <2>4, <2>7
  <2> QED BY <2>5, <2>6, <2>7, <2>8, <2>9, <2>10 DEF CloseInv, HoldersCounted
<1>8. ASSUME NEW t \in Tasks, CancelDoomed(t) PROVE HoldersCounted'
  <2>1. closing' = closing /\ task[t].pc = "marked"
    BY <1>8 DEF CancelDoomed
  <2>2. Moves(t, "stop", task[t].node, task[t].todo)
    BY <1>8, CloseMoves DEF CloseInv
  <2> QED BY <2>1, <2>2, HoldKept DEF Moves, HoldingPCs
<1>9. ASSUME NEW t \in Tasks, AwaitIdle(t) PROVE HoldersCounted'
  <2>1. closing' = closing /\ task[t].pc = "stop"
    BY <1>9 DEF AwaitIdle
  <2>2. Moves(t, "rollout", task[t].node, task[t].todo)
    BY <1>9, CloseMoves DEF CloseInv
  <2> QED BY <2>1, <2>2, HoldKept DEF Moves, HoldingPCs
<1>10. ASSUME NEW t \in Tasks, StopRollout(t) PROVE HoldersCounted'
  <2>1. closing' = closing /\ task[t].pc = "rollout"
    BY <1>10 DEF StopRollout
  <2>2. \/ Moves(t, "remove", task[t].node, task[t].todo)
        \/ Moves(t, "stop", task[t].node, Tail(task[t].todo))
        \/ Moves(t, "finish", task[t].node, task[t].todo)
    BY <1>10, CloseMoves DEF CloseInv
  <2> QED BY <2>1, <2>2, HoldKept DEF Moves, HoldingPCs
<1>11. ASSUME NEW t \in Tasks, RemoveStopped(t) PROVE HoldersCounted'
  <2>1. closing' = closing /\ task[t].pc = "remove"
    BY <1>11 DEF RemoveStopped
  <2>2. Moves(t, "stop", task[t].node, Tail(task[t].todo))
    BY <1>11, CloseMoves DEF CloseInv
  <2> QED BY <2>1, <2>2, HoldKept DEF Moves, HoldingPCs
<1>12. ASSUME NEW t \in Tasks, FinishClose(t) PROVE HoldersCounted'
  <2>1. /\ task[t].pc \in {"finish", "stop"}
        /\ closing' = [closing EXCEPT ![task[t].node] = @ - 1]
    BY <1>12 DEF FinishClose
  <2>2. task[t].node \in All /\ Moves(t, "done", None, <<>>)
    BY <1>12, <2>1, CloseMoves DEF CloseInv, TaskInv, TaskSound, HoldingPCs
  <2>3. PICK h \in All : h = task[t].node
    BY <2>2
  <2>4. closing' = [closing EXCEPT ![h] = @ - 1]
    BY <2>1, <2>3
  <2>5. \A n \in All : n # h => Holders(n)' = Holders(n)
    BY <2>1, <2>2, <2>3 DEF Holders, Moves, HoldingPCs
  <2>6. Holders(h)' = Holders(h) \ {t} /\ t \in Holders(h)
    BY <2>1, <2>2, <2>3 DEF Holders, Moves, HoldingPCs
  <2>7. IsFiniteSet(Holders(h)) /\ closing[h] = Cardinality(Holders(h)) /\ closing \in [All -> Nat]
    BY DEF CloseInv, HoldersCounted
  <2>8. /\ IsFiniteSet(Holders(h) \ {t}) /\ Cardinality(Holders(h) \ {t}) = closing[h] - 1
        /\ Cardinality(Holders(h) \ {t}) \in Nat
    BY <2>6, <2>7, FS_RemoveElement, FS_CardinalityType
  <2>9. closing' \in [All -> Nat] /\ closing'[h] = closing[h] - 1
    BY <2>4, <2>7, <2>8
  <2>10. \A n \in All : n # h => closing'[n] = closing[n]
    BY <2>4, <2>7
  <2> QED BY <2>5, <2>6, <2>7, <2>8, <2>9, <2>10 DEF CloseInv, HoldersCounted
<1>13. ASSUME NEW s \in Stoppers, ShutdownTree(s) PROVE HoldersCounted'
  <2>1. UNCHANGED <<task, closing>>
    BY <1>13 DEF ShutdownTree
  <2> QED BY <2>1, HoldKept
<1>14. ASSUME NEW s \in Stoppers, JoinShutdown(s) PROVE HoldersCounted'
  <2>1. UNCHANGED <<task, closing>>
    BY <1>14 DEF JoinShutdown
  <2> QED BY <2>1, HoldKept
<1>15. CASE CancelTree
  <2>1. UNCHANGED <<task, closing>>
    BY <1>15 DEF CancelTree
  <2> QED BY <2>1, HoldKept
<1>16. CASE SnapshotAgents
  <2>1. UNCHANGED <<task, closing>>
    BY <1>16 DEF SnapshotAgents
  <2> QED BY <2>1, HoldKept
<1>17. CASE ShutAwaitIdle
  <2>1. UNCHANGED <<task, closing>>
    BY <1>17 DEF ShutAwaitIdle
  <2> QED BY <2>1, HoldKept
<1>18. CASE ShutRollout
  <2>1. UNCHANGED <<task, closing>>
    BY <1>18 DEF ShutRollout
  <2> QED BY <2>1, HoldKept
<1>19. CASE ShutRelease
  <2>1. UNCHANGED <<task, closing>>
    BY <1>19 DEF ShutRelease
  <2> QED BY <2>1, HoldKept
<1>20. CASE FinishShutdown
  <2>1. UNCHANGED <<task, closing>>
    BY <1>20 DEF FinishShutdown
  <2> QED BY <2>1, HoldKept
<1> QED
  BY <1>1, <1>2, <1>3, <1>4, <1>5, <1>6, <1>7, <1>8, <1>9, <1>10, <1>11, <1>12, <1>13, <1>14,
     <1>15, <1>16, <1>17, <1>18, <1>19, <1>20 DEF StepKinds, CloseStep, ShutStep

\* Only a closed agent is taken out of the map.
LEMMA OpenListedStep == ASSUME CloseInv, StepKinds PROVE OpenAgentStaysListed'
<1>1. CASE RunsOn
  <2>1. UNCHANGED <<agents, closed>>
    BY <1>1 DEF RunsOn
  <2>2. \A q \in Nodes : spawn'[q] \in AdmittedPCs => spawn[q] \in AdmittedPCs
    BY <1>1 DEF RunsOn
  <2> QED BY <2>1, <2>2 DEF CloseInv, OpenAgentStaysListed, InTree, AdmittedPCs
<1>2. ASSUME NEW n \in Nodes, Unadmitted(n) PROVE OpenAgentStaysListed'
  <2>1. UNCHANGED <<agents, closed>> /\ spawn \in [Nodes -> SpawnPCs]
    BY <1>2 DEF Unadmitted, CloseInv, StartInv, StartTypes
  <2>2. \A q \in Nodes : spawn'[q] \in AdmittedPCs => spawn[q] \in AdmittedPCs
    BY <1>2, <2>1 DEF Unadmitted
  <2> QED BY <2>1, <2>2 DEF CloseInv, OpenAgentStaysListed, InTree, AdmittedPCs
<1>3. ASSUME NEW n \in Nodes, Admit(n) PROVE OpenAgentStaysListed'
  <2>1. closed' = closed /\ spawn \in [Nodes -> SpawnPCs]
    BY <1>3 DEF Admit, CloseInv, StartInv, StartTypes
  <2>2. CASE /\ InTree(n)' /\ spawn' = [spawn EXCEPT ![n] = "post"]
             /\ \A q \in Nodes : q # n => (InTree(q)' <=> InTree(q))
    BY <2>1, <2>2 DEF CloseInv, OpenAgentStaysListed
  <2>3. CASE agents' = agents /\ spawn' = [spawn EXCEPT ![n] = "undo"]
    BY <2>1, <2>3 DEF CloseInv, OpenAgentStaysListed, InTree
  <2> QED BY <1>3, <2>2, <2>3, AdmitsInto DEF CloseInv, StartInv
<1>4. ASSUME NEW n \in All, AfterRun(n) PROVE OpenAgentStaysListed'
  <2>1. UNCHANGED <<agents, spawn, closed>>
    BY <1>4 DEF AfterRun
  <2> QED BY <2>1 DEF CloseInv, OpenAgentStaysListed, InTree
<1>5. ASSUME NEW n \in All, ClosedBelow(n) PROVE OpenAgentStaysListed'
  <2>1. UNCHANGED <<agents, spawn, closed>>
    BY <1>5 DEF ClosedBelow
  <2> QED BY <2>1 DEF CloseInv, OpenAgentStaysListed, InTree
<1>6. ASSUME NEW k \in Closers, NEW n \in All, BeginClose(k, n) PROVE OpenAgentStaysListed'
  <2>1. UNCHANGED <<agents, spawn, closed>>
    BY <1>6 DEF BeginClose
  <2> QED BY <2>1 DEF CloseInv, OpenAgentStaysListed, InTree
<1>7. ASSUME NEW t \in Tasks, MarkSubtree(t) PROVE OpenAgentStaysListed'
  <2>1. UNCHANGED <<agents, spawn>> /\ \A q \in Nodes : closed[q] => closed'[q]
    BY <1>7 DEF MarkSubtree, All
  <2> QED BY <2>1 DEF CloseInv, OpenAgentStaysListed, InTree
<1>8. ASSUME NEW t \in Tasks, CancelDoomed(t) PROVE OpenAgentStaysListed'
  <2>1. UNCHANGED <<agents, spawn, closed>>
    BY <1>8 DEF CancelDoomed
  <2> QED BY <2>1 DEF CloseInv, OpenAgentStaysListed, InTree
<1>9. ASSUME NEW t \in Tasks, AwaitIdle(t) PROVE OpenAgentStaysListed'
  <2>1. UNCHANGED <<agents, spawn, closed>>
    BY <1>9 DEF AwaitIdle
  <2> QED BY <2>1 DEF CloseInv, OpenAgentStaysListed, InTree
<1>10. ASSUME NEW t \in Tasks, StopRollout(t) PROVE OpenAgentStaysListed'
  <2>1. UNCHANGED <<agents, spawn, closed>>
    BY <1>10 DEF StopRollout
  <2> QED BY <2>1 DEF CloseInv, OpenAgentStaysListed, InTree
<1>11. ASSUME NEW t \in Tasks, RemoveStopped(t) PROVE OpenAgentStaysListed'
  <2>1. UNCHANGED <<closed, spawn>> /\ agents' = Without(Stopping(t))
    BY <1>11 DEF RemoveStopped
  <2>2. Stopping(t) \in Nodes /\ closed[Stopping(t)]
    BY <1>11, AtItsFirst DEF RemoveStopped, CloseInv
  <2>3. \A q \in Nodes : InTree(q) => InTree(q)' \/ q = Stopping(t)
    BY <2>1, <2>2, RemovesOnly DEF CloseInv, StartInv
  <2> QED BY <2>1, <2>2, <2>3 DEF CloseInv, OpenAgentStaysListed
<1>12. ASSUME NEW t \in Tasks, FinishClose(t) PROVE OpenAgentStaysListed'
  <2>1. UNCHANGED <<agents, spawn, closed>>
    BY <1>12 DEF FinishClose
  <2> QED BY <2>1 DEF CloseInv, OpenAgentStaysListed, InTree
<1>13. ASSUME NEW s \in Stoppers, ShutdownTree(s) PROVE OpenAgentStaysListed'
  <2>1. UNCHANGED <<agents, spawn, closed>>
    BY <1>13 DEF ShutdownTree
  <2> QED BY <2>1 DEF CloseInv, OpenAgentStaysListed, InTree
<1>14. ASSUME NEW s \in Stoppers, JoinShutdown(s) PROVE OpenAgentStaysListed'
  <2>1. UNCHANGED <<agents, spawn, closed>>
    BY <1>14 DEF JoinShutdown
  <2> QED BY <2>1 DEF CloseInv, OpenAgentStaysListed, InTree
<1>15. CASE CancelTree
  <2>1. UNCHANGED <<agents, spawn, closed>>
    BY <1>15 DEF CancelTree
  <2> QED BY <2>1 DEF CloseInv, OpenAgentStaysListed, InTree
<1>16. CASE SnapshotAgents
  <2>1. UNCHANGED <<agents, spawn, closed>>
    BY <1>16 DEF SnapshotAgents
  <2> QED BY <2>1 DEF CloseInv, OpenAgentStaysListed, InTree
<1>17. CASE ShutAwaitIdle
  <2>1. UNCHANGED <<agents, spawn, closed>>
    BY <1>17 DEF ShutAwaitIdle
  <2> QED BY <2>1 DEF CloseInv, OpenAgentStaysListed, InTree
<1>18. CASE ShutRollout
  <2>1. UNCHANGED <<agents, spawn, closed>>
    BY <1>18 DEF ShutRollout
  <2> QED BY <2>1 DEF CloseInv, OpenAgentStaysListed, InTree
<1>19. CASE ShutRelease
  <2>1. UNCHANGED <<agents, spawn, closed>>
    BY <1>19 DEF ShutRelease
  <2> QED BY <2>1 DEF CloseInv, OpenAgentStaysListed, InTree
<1>20. CASE FinishShutdown
  <2>1. UNCHANGED <<agents, spawn, closed>>
    BY <1>20 DEF FinishShutdown
  <2> QED BY <2>1 DEF CloseInv, OpenAgentStaysListed, InTree
<1> QED
  BY <1>1, <1>2, <1>3, <1>4, <1>5, <1>6, <1>7, <1>8, <1>9, <1>10, <1>11, <1>12, <1>13, <1>14,
     <1>15, <1>16, <1>17, <1>18, <1>19, <1>20 DEF StepKinds, CloseStep, ShutStep

\* No agent is admitted under one that is closed or being closed, and a close marks
\* all that is below what it marks.
LEMMA UnderOpenStep == ASSUME CloseInv, StepKinds PROVE OpenUnderOpen'
<1>1. CASE RunsOn
  <2>1. UNCHANGED <<agents, closed, closing, caller>>
    BY <1>1 DEF RunsOn
  <2> QED BY <2>1 DEF CloseInv, OpenUnderOpen, InTree
<1>2. ASSUME NEW n \in Nodes, Unadmitted(n) PROVE OpenUnderOpen'
  <2>1. UNCHANGED <<agents, closed, closing>> /\ spawn[n] \notin AdmittedPCs
    BY <1>2 DEF Unadmitted
  <2>2. \A q \in Nodes : q # n => caller'[q] = caller[q]
    BY <1>2 DEF Unadmitted, CloseInv, CloseTypes
  <2>3. ~ InTree(n)
    BY <2>1 DEF CloseInv, AdmissionInv
  <2> QED BY <2>1, <2>2, <2>3 DEF CloseInv, OpenUnderOpen, InTree
<1>3. ASSUME NEW n \in Nodes, Admit(n) PROVE OpenUnderOpen'
  <2>1. UNCHANGED <<closed, closing, caller>>
    BY <1>3 DEF Admit
  <2>2. CASE Admits(n) /\ \A q \in Nodes : q # n => (InTree(q)' <=> InTree(q))
    BY <2>1, <2>2 DEF CloseInv, OpenUnderOpen, Admits
  <2>3. CASE agents' = agents
    BY <2>1, <2>3 DEF CloseInv, OpenUnderOpen, InTree
  <2> QED BY <1>3, <2>2, <2>3, AdmitsInto DEF CloseInv, StartInv
<1>4. ASSUME NEW n \in All, AfterRun(n) PROVE OpenUnderOpen'
  <2>1. UNCHANGED <<agents, closed, closing, caller>>
    BY <1>4 DEF AfterRun
  <2> QED BY <2>1 DEF CloseInv, OpenUnderOpen, InTree
<1>5. ASSUME NEW n \in All, ClosedBelow(n) PROVE OpenUnderOpen'
  <2>1. UNCHANGED <<agents, closed, closing, caller>>
    BY <1>5 DEF ClosedBelow
  <2> QED BY <2>1 DEF CloseInv, OpenUnderOpen, InTree
<1>6. ASSUME NEW k \in Closers, NEW n \in All, BeginClose(k, n) PROVE OpenUnderOpen'
  <2>1. UNCHANGED <<agents, closed, closing, caller>>
    BY <1>6 DEF BeginClose
  <2> QED BY <2>1 DEF CloseInv, OpenUnderOpen, InTree
<1>7. ASSUME NEW t \in Tasks, MarkSubtree(t) PROVE OpenUnderOpen'
  <2>1. /\ UNCHANGED <<agents, caller>>
        /\ closed' = [n \in All |-> closed[n] \/ n \in Range(Doomed(t))]
        /\ closing' = [closing EXCEPT ![task[t].node] = @ + 1]
    BY <1>7 DEF MarkSubtree, HoldSubtree
  <2>2. task[t].node \in All /\ closing \in [All -> Nat]
    BY <1>7, CloseMoves DEF CloseInv, HoldersCounted
  <2>3. SUFFICES ASSUME NEW n \in Nodes, InTree(n), ~ closed'[n]
                 PROVE  ~ closed'[caller[n]] /\ closing'[caller[n]] = 0
    BY <2>1 DEF OpenUnderOpen, InTree
  <2>4. ~ closed[n] /\ n \notin Range(Doomed(t))
    BY <2>1, <2>3 DEF All
  <2>5. caller[n] \in All /\ PathOf[caller[n]] = Front(PathOf[n])
    BY <2>3 DEF CloseInv, AdmissionInv, AdmittedPCs
  <2>6. caller[n] # task[t].node /\ caller[n] \notin Range(Doomed(t))
    BY <2>2, <2>3, <2>4, <2>5, DoomedFound DEF CloseInv, StartInv
  <2>7. ~ closed[caller[n]] /\ closing[caller[n]] = 0
    BY <2>3, <2>4 DEF CloseInv, OpenUnderOpen
  <2> QED BY <2>1, <2>2, <2>5, <2>6, <2>7
<1>8. ASSUME NEW t \in Tasks, CancelDoomed(t) PROVE OpenUnderOpen'
  <2>1. UNCHANGED <<agents, closed, closing, caller>>
    BY <1>8 DEF CancelDoomed
  <2> QED BY <2>1 DEF CloseInv, OpenUnderOpen, InTree
<1>9. ASSUME NEW t \in Tasks, AwaitIdle(t) PROVE OpenUnderOpen'
  <2>1. UNCHANGED <<agents, closed, closing, caller>>
    BY <1>9 DEF AwaitIdle
  <2> QED BY <2>1 DEF CloseInv, OpenUnderOpen, InTree
<1>10. ASSUME NEW t \in Tasks, StopRollout(t) PROVE OpenUnderOpen'
  <2>1. UNCHANGED <<agents, closed, closing, caller>>
    BY <1>10 DEF StopRollout
  <2> QED BY <2>1 DEF CloseInv, OpenUnderOpen, InTree
<1>11. ASSUME NEW t \in Tasks, RemoveStopped(t) PROVE OpenUnderOpen'
  <2>1. UNCHANGED <<closed, closing, caller>> /\ agents' = Without(Stopping(t))
    BY <1>11 DEF RemoveStopped
  <2>2. Stopping(t) \in Nodes
    BY <1>11, AtItsFirst DEF RemoveStopped, CloseInv
  <2>3. \A q \in Nodes : InTree(q)' => InTree(q)
    BY <2>1, <2>2, RemovesOnly DEF CloseInv, StartInv
  <2> QED BY <2>1, <2>3 DEF CloseInv, OpenUnderOpen
<1>12. ASSUME NEW t \in Tasks, FinishClose(t) PROVE OpenUnderOpen'
  <2>1. /\ UNCHANGED <<agents, closed, caller>> /\ task[t].pc \in {"finish", "stop"}
        /\ closing' = [closing EXCEPT ![task[t].node] = @ - 1]
    BY <1>12 DEF FinishClose
  <2>2. task[t].node \in All /\ closing \in [All -> Nat]
    BY <2>1 DEF CloseInv, TaskInv, TaskSound, HoldingPCs, HoldersCounted
  <2>3. t \in Holders(task[t].node)
    BY <2>1 DEF Holders, HoldingPCs
  <2>4. closing[task[t].node] # 0
    BY <2>2, <2>3, FS_EmptySet DEF CloseInv, HoldersCounted
  <2>5. SUFFICES ASSUME NEW n \in Nodes, InTree(n), ~ closed[n]
                 PROVE  ~ closed[caller[n]] /\ closing'[caller[n]] = 0
    BY <2>1 DEF OpenUnderOpen, InTree
  <2>6. ~ closed[caller[n]] /\ closing[caller[n]] = 0
    BY <2>5 DEF CloseInv, OpenUnderOpen
  <2>7. caller[n] \in All /\ caller[n] # task[t].node
    BY <2>4, <2>5, <2>6 DEF CloseInv, AdmissionInv, AdmittedPCs
  <2> QED BY <2>1, <2>2, <2>6, <2>7
<1>13. ASSUME NEW s \in Stoppers, ShutdownTree(s) PROVE OpenUnderOpen'
  <2>1. UNCHANGED <<agents, closed, closing, caller>>
    BY <1>13 DEF ShutdownTree
  <2> QED BY <2>1 DEF CloseInv, OpenUnderOpen, InTree
<1>14. ASSUME NEW s \in Stoppers, JoinShutdown(s) PROVE OpenUnderOpen'
  <2>1. UNCHANGED <<agents, closed, closing, caller>>
    BY <1>14 DEF JoinShutdown
  <2> QED BY <2>1 DEF CloseInv, OpenUnderOpen, InTree
<1>15. CASE CancelTree
  <2>1. UNCHANGED <<agents, closed, closing, caller>>
    BY <1>15 DEF CancelTree
  <2> QED BY <2>1 DEF CloseInv, OpenUnderOpen, InTree
<1>16. CASE SnapshotAgents
  <2>1. UNCHANGED <<agents, closed, closing, caller>>
    BY <1>16 DEF SnapshotAgents
  <2> QED BY <2>1 DEF CloseInv, OpenUnderOpen, InTree
<1>17. CASE ShutAwaitIdle
  <2>1. UNCHANGED <<agents, closed, closing, caller>>
    BY <1>17 DEF ShutAwaitIdle
  <2> QED BY <2>1 DEF CloseInv, OpenUnderOpen, InTree
<1>18. CASE ShutRollout
  <2>1. UNCHANGED <<agents, closed, closing, caller>>
    BY <1>18 DEF ShutRollout
  <2> QED BY <2>1 DEF CloseInv, OpenUnderOpen, InTree
<1>19. CASE ShutRelease
  <2>1. UNCHANGED <<agents, closed, closing, caller>>
    BY <1>19 DEF ShutRelease
  <2> QED BY <2>1 DEF CloseInv, OpenUnderOpen, InTree
<1>20. CASE FinishShutdown
  <2>1. UNCHANGED <<agents, closed, closing, caller>>
    BY <1>20 DEF FinishShutdown
  <2> QED BY <2>1 DEF CloseInv, OpenUnderOpen, InTree
<1> QED
  BY <1>1, <1>2, <1>3, <1>4, <1>5, <1>6, <1>7, <1>8, <1>9, <1>10, <1>11, <1>12, <1>13, <1>14,
     <1>15, <1>16, <1>17, <1>18, <1>19, <1>20 DEF StepKinds, CloseStep, ShutStep

\* An agent is stopped only while it is idle and cannot be claimed again.
LEMMA StoppedStep == ASSUME CloseInv, StepKinds PROVE StoppedForGood'
<1>1. CASE RunsOn
  <2>1. UNCHANGED <<rolloutDown, resources, closed, shutDown>>
    BY <1>1 DEF RunsOn
  <2>2. \A q \in Nodes : spawn[q] \notin AdmittedPCs => spawn'[q] = spawn[q]
    BY <1>1 DEF RunsOn
  <2>3. \A q \in Nodes : run[q] = "idle" =>
          run'[q] = "idle" \/ (~ closed[q] /\ ~ shutDown /\ spawn[q] \in AdmittedPCs)
    BY <1>1 DEF RunsOn
  <2> QED BY <2>1, <2>2, <2>3 DEF CloseInv, StoppedForGood, AdmittedPCs
<1>2. ASSUME NEW n \in Nodes, Unadmitted(n) PROVE StoppedForGood'
  <2>1. UNCHANGED <<run, closed, shutDown>> /\ run[n] = "idle"
    BY <1>2 DEF Unadmitted, CloseInv, AdmissionInv
  <2>2. \A q \in Nodes : q # n => /\ rolloutDown'[q] = rolloutDown[q]
                                 /\ resources'[q] = resources[q] /\ spawn'[q] = spawn[q]
    <3>1. /\ rolloutDown' = rolloutDown \/ \E down : rolloutDown' = [rolloutDown EXCEPT ![n] = down]
          /\ resources' = resources \/ \E held : resources' = [resources EXCEPT ![n] = held]
          /\ \E place : spawn' = [spawn EXCEPT ![n] = place]
      BY <1>2 DEF Unadmitted
    <3>2. \A q \in Nodes : q # n => rolloutDown'[q] = rolloutDown[q]
      BY <3>1 DEF CloseInv, CloseTypes, All
    <3>3. \A q \in Nodes : q # n => resources'[q] = resources[q]
      BY <3>1 DEF CloseInv, CloseTypes, All
    <3>4. \A q \in Nodes : q # n => spawn'[q] = spawn[q]
      BY <3>1 DEF CloseInv, StartInv, StartTypes
    <3> QED BY <3>2, <3>3, <3>4
  <2>3. \/ rolloutDown'[n] = rolloutDown[n] \/ spawn'[n] \in {"release", "refused", "dropped"}
    BY <1>2 DEF Unadmitted
  <2>4. \/ resources'[n] = resources[n] \/ resources'[n] = "held"
        \/ spawn'[n] \in {"release", "refused", "dropped"}
    BY <1>2 DEF Unadmitted, CloseInv, CloseTypes, All
  <2>5. spawn[n] \in {"release", "refused", "dropped"} =>
          spawn'[n] \in {"release", "refused", "dropped"}
    BY <1>2 DEF Unadmitted
  <2> QED BY <2>1, <2>2, <2>3, <2>4, <2>5 DEF CloseInv, StoppedForGood
<1>3. ASSUME NEW n \in Nodes, Admit(n) PROVE StoppedForGood'
  <2>1. UNCHANGED <<rolloutDown, resources, run, closed, shutDown>> /\ spawn[n] = "admit"
    BY <1>3 DEF Admit
  <2>2. \A q \in Nodes : q # n => spawn'[q] = spawn[q]
    BY <1>3 DEF Admit, Spawn, CloseInv, StartInv, StartTypes
  <2> QED BY <2>1, <2>2 DEF CloseInv, StoppedForGood
<1>4. ASSUME NEW n \in All, AfterRun(n) PROVE StoppedForGood'
  <2>1. UNCHANGED <<rolloutDown, resources, closed, shutDown, spawn>> /\ run[n] # "idle"
    BY <1>4 DEF AfterRun
  <2>2. \A q \in Nodes : q # n => run'[q] = run[q]
    <3>1. \E place \in RunPCs : run' = [run EXCEPT ![n] = place]
      BY <1>4 DEF AfterRun, Drive, RunPCs, ActivePCs, EndedPCs
    <3> QED BY <3>1 DEF CloseInv, StartInv, StartTypes, All
  <2> QED BY <2>1, <2>2 DEF CloseInv, StoppedForGood
<1>5. ASSUME NEW n \in All, ClosedBelow(n) PROVE StoppedForGood'
  <2>1. UNCHANGED <<rolloutDown, resources, closed, shutDown, spawn>> /\ run[n] # "idle"
    BY <1>5 DEF ClosedBelow
  <2>2. \A q \in Nodes : q # n => run'[q] = run[q]
    <3>1. \E place \in RunPCs : run' = [run EXCEPT ![n] = place]
      BY <1>5 DEF ClosedBelow, Drive, RunPCs, ActivePCs, EndedPCs
    <3> QED BY <3>1 DEF CloseInv, StartInv, StartTypes, All
  <2> QED BY <2>1, <2>2 DEF CloseInv, StoppedForGood
<1>6. ASSUME NEW k \in Closers, NEW n \in All, BeginClose(k, n) PROVE StoppedForGood'
  <2>1. UNCHANGED <<rolloutDown, resources, run, closed, shutDown, spawn>>
    BY <1>6 DEF BeginClose
  <2> QED BY <2>1 DEF CloseInv, StoppedForGood
<1>7. ASSUME NEW t \in Tasks, MarkSubtree(t) PROVE StoppedForGood'
  <2>1. /\ UNCHANGED <<rolloutDown, resources, run, shutDown, spawn>>
        /\ \A q \in Nodes : closed[q] => closed'[q]
    BY <1>7 DEF MarkSubtree, All
  <2> QED BY <2>1 DEF CloseInv, StoppedForGood
<1>8. ASSUME NEW t \in Tasks, CancelDoomed(t) PROVE StoppedForGood'
  <2>1. UNCHANGED <<rolloutDown, resources, run, closed, shutDown, spawn>>
    BY <1>8 DEF CancelDoomed
  <2> QED BY <2>1 DEF CloseInv, StoppedForGood
<1>9. ASSUME NEW t \in Tasks, AwaitIdle(t) PROVE StoppedForGood'
  <2>1. UNCHANGED <<rolloutDown, resources, run, closed, shutDown, spawn>>
    BY <1>9 DEF AwaitIdle
  <2> QED BY <2>1 DEF CloseInv, StoppedForGood
<1>10. ASSUME NEW t \in Tasks, StopRollout(t) PROVE StoppedForGood'
  <2>1. UNCHANGED <<resources, run, closed, shutDown, spawn>> /\ task[t].pc = "rollout"
    BY <1>10 DEF StopRollout
  <2>2. Stopping(t) \in Nodes /\ closed[Stopping(t)] /\ run[Stopping(t)] = "idle"
    BY <2>1, AtItsFirst DEF CloseInv
  <2>3. \A q \in Nodes : q # Stopping(t) => rolloutDown'[q] = rolloutDown[q]
    <3>1. rolloutDown' = rolloutDown \/ rolloutDown' = [rolloutDown EXCEPT ![Stopping(t)] = TRUE]
      BY <1>10 DEF StopRollout
    <3> QED BY <3>1 DEF CloseInv, CloseTypes, All
  <2> QED BY <2>1, <2>2, <2>3 DEF CloseInv, StoppedForGood
<1>11. ASSUME NEW t \in Tasks, RemoveStopped(t) PROVE StoppedForGood'
  <2>1. UNCHANGED <<rolloutDown, run, closed, shutDown, spawn>> /\ task[t].pc = "remove"
    BY <1>11 DEF RemoveStopped
  <2>2. Stopping(t) \in Nodes /\ closed[Stopping(t)] /\ run[Stopping(t)] = "idle"
    BY <2>1, AtItsFirst DEF CloseInv
  <2>3. \A q \in Nodes : q # Stopping(t) => resources'[q] = resources[q]
    BY <1>11 DEF RemoveStopped, CloseInv, CloseTypes
  <2> QED BY <2>1, <2>2, <2>3 DEF CloseInv, StoppedForGood
<1>12. ASSUME NEW t \in Tasks, FinishClose(t) PROVE StoppedForGood'
  <2>1. UNCHANGED <<rolloutDown, resources, run, closed, shutDown, spawn>>
    BY <1>12 DEF FinishClose
  <2> QED BY <2>1 DEF CloseInv, StoppedForGood
<1>13. ASSUME NEW s \in Stoppers, ShutdownTree(s) PROVE StoppedForGood'
  <2>1. UNCHANGED <<rolloutDown, resources, run, closed, spawn>> /\ shutDown'
    BY <1>13 DEF ShutdownTree
  <2> QED BY <2>1 DEF CloseInv, StoppedForGood
<1>14. ASSUME NEW s \in Stoppers, JoinShutdown(s) PROVE StoppedForGood'
  <2>1. UNCHANGED <<rolloutDown, resources, run, closed, shutDown, spawn>>
    BY <1>14 DEF JoinShutdown
  <2> QED BY <2>1 DEF CloseInv, StoppedForGood
<1>15. CASE CancelTree
  <2>1. UNCHANGED <<rolloutDown, resources, run, closed, shutDown, spawn>>
    BY <1>15 DEF CancelTree
  <2> QED BY <2>1 DEF CloseInv, StoppedForGood
<1>16. CASE SnapshotAgents
  <2>1. UNCHANGED <<rolloutDown, resources, run, closed, shutDown, spawn>>
    BY <1>16 DEF SnapshotAgents
  <2> QED BY <2>1 DEF CloseInv, StoppedForGood
<1>17. CASE ShutAwaitIdle
  <2>1. UNCHANGED <<rolloutDown, resources, run, closed, shutDown, spawn>>
    BY <1>17 DEF ShutAwaitIdle
  <2> QED BY <2>1 DEF CloseInv, StoppedForGood
<1>18. CASE ShutRollout
  <2>1. UNCHANGED <<resources, run, closed, shutDown, spawn>> /\ shut.pc = "rollout"
    BY <1>18 DEF ShutRollout
  <2>2. Head(shut.todo) \in Nodes /\ shutDown /\ run[Head(shut.todo)] = "idle"
    BY <2>1, AtItsFirst DEF CloseInv
  <2>3. \A q \in Nodes : q # Head(shut.todo) => rolloutDown'[q] = rolloutDown[q]
    <3>1. \/ rolloutDown' = rolloutDown
          \/ rolloutDown' = [rolloutDown EXCEPT ![Head(shut.todo)] = TRUE]
      BY <1>18 DEF ShutRollout
    <3> QED BY <3>1 DEF CloseInv, CloseTypes, All
  <2> QED BY <2>1, <2>2, <2>3 DEF CloseInv, StoppedForGood
<1>19. CASE ShutRelease
  <2>1. UNCHANGED <<rolloutDown, run, closed, shutDown, spawn>> /\ shut.pc = "release"
    BY <1>19 DEF ShutRelease
  <2>2. Head(shut.todo) \in Nodes /\ shutDown /\ run[Head(shut.todo)] = "idle"
    BY <2>1, AtItsFirst DEF CloseInv
  <2>3. \A q \in Nodes : q # Head(shut.todo) => resources'[q] = resources[q]
    BY <1>19 DEF ShutRelease, CloseInv, CloseTypes
  <2> QED BY <2>1, <2>2, <2>3 DEF CloseInv, StoppedForGood
<1>20. CASE FinishShutdown
  <2>1. UNCHANGED <<rolloutDown, resources, run, closed, shutDown, spawn>>
    BY <1>20 DEF FinishShutdown
  <2> QED BY <2>1 DEF CloseInv, StoppedForGood
<1> QED
  BY <1>1, <1>2, <1>3, <1>4, <1>5, <1>6, <1>7, <1>8, <1>9, <1>10, <1>11, <1>12, <1>13, <1>14,
     <1>15, <1>16, <1>17, <1>18, <1>19, <1>20 DEF StepKinds, CloseStep, ShutStep

\* The shutdown's work stands while the tree goes on: nobody new comes into a tree
\* that is marked, and an agent that is settled stays so.
LEMMA ShutKept ==
    ASSUME CloseInv, UNCHANGED <<shut, stopper>>, shutDown => shutDown',
           \A n \in Nodes : shutDown /\ InTree(n)' => InTree(n),
           \A n \in Nodes : shutDown /\ run[n] = "idle" => run'[n] = "idle",
           \A n \in Nodes : shutDown /\ InTree(n) /\ Settled(n) => Settled(n)'
    PROVE  ShutInv'
<1>1. ShutMarked'
  BY DEF CloseInv, ShutInv, ShutMarked
<1>2. ShutAtIdle'
  BY AtItsFirst DEF CloseInv, ShutInv, ShutMarked, ShutAtIdle
<1>3. ShutSettles'
  BY DEF CloseInv, ShutInv, ShutMarked, ShutSettles
<1>4. ShutDone'
  BY DEF CloseInv, ShutInv, ShutMarked, ShutDone
<1> QED BY <1>1, <1>2, <1>3, <1>4 DEF ShutInv

\* A step keeps what the shutdown has done.
LEMMA ShutStepKeeps == ASSUME CloseInv, StepKinds PROVE ShutInv'
<1>1. CASE RunsOn
  <2>1. UNCHANGED <<shut, stopper, shutDown, agents, resources>>
    BY <1>1 DEF RunsOn
  <2>2. \A n \in Nodes : shutDown /\ run[n] = "idle" => run'[n] = "idle" /\ status'[n] = status[n]
    BY <1>1 DEF RunsOn
  <2> QED BY <2>1, <2>2, ShutKept DEF InTree, Settled
<1>2. ASSUME NEW n \in Nodes, Unadmitted(n) PROVE ShutInv'
  <2>1. UNCHANGED <<shut, stopper, shutDown, agents, run, status>> /\ spawn[n] \notin AdmittedPCs
    BY <1>2 DEF Unadmitted
  <2>2. ~ InTree(n)
    BY <2>1 DEF CloseInv, AdmissionInv
  <2>3. \A q \in Nodes : q # n => resources'[q] = resources[q]
    <3>1. resources' = resources \/ \E held : resources' = [resources EXCEPT ![n] = held]
      BY <1>2 DEF Unadmitted
    <3> QED BY <3>1 DEF CloseInv, CloseTypes, All
  <2> QED BY <2>1, <2>2, <2>3, ShutKept DEF InTree, Settled
<1>3. ASSUME NEW n \in Nodes, Admit(n) PROVE ShutInv'
  <2>1. UNCHANGED <<shut, stopper, shutDown, run, status, resources>>
    BY <1>3 DEF Admit
  <2>2. shutDown => agents' = agents
    BY <1>3 DEF Admit, Admits
  <2> QED BY <2>1, <2>2, ShutKept DEF InTree, Settled
<1>4. ASSUME NEW n \in All, AfterRun(n) PROVE ShutInv'
  <2>1. UNCHANGED <<shut, stopper, shutDown, agents, status, resources>> /\ run[n] # "idle"
    BY <1>4 DEF AfterRun
  <2>2. \A q \in Nodes : q # n => run'[q] = run[q]
    <3>1. \E place \in RunPCs : run' = [run EXCEPT ![n] = place]
      BY <1>4 DEF AfterRun, Drive, RunPCs, ActivePCs, EndedPCs
    <3> QED BY <3>1 DEF CloseInv, StartInv, StartTypes, All
  <2> QED BY <2>1, <2>2, ShutKept DEF InTree, Settled
<1>5. ASSUME NEW n \in All, ClosedBelow(n) PROVE ShutInv'
  <2>1. UNCHANGED <<shut, stopper, shutDown, agents, status, resources>> /\ run[n] # "idle"
    BY <1>5 DEF ClosedBelow
  <2>2. \A q \in Nodes : q # n => run'[q] = run[q]
    <3>1. \E place \in RunPCs : run' = [run EXCEPT ![n] = place]
      BY <1>5 DEF ClosedBelow, Drive, RunPCs, ActivePCs, EndedPCs
    <3> QED BY <3>1 DEF CloseInv, StartInv, StartTypes, All
  <2> QED BY <2>1, <2>2, ShutKept DEF InTree, Settled
<1>6. ASSUME NEW k \in Closers, NEW n \in All, BeginClose(k, n) PROVE ShutInv'
  <2>1. UNCHANGED <<shut, stopper, shutDown, agents, run, status, resources>>
    BY <1>6 DEF BeginClose
  <2> QED BY <2>1, ShutKept DEF InTree, Settled
<1>7. ASSUME NEW t \in Tasks, MarkSubtree(t) PROVE ShutInv'
  <2>1. UNCHANGED <<shut, stopper, shutDown, agents, run, status, resources>>
    BY <1>7 DEF MarkSubtree
  <2> QED BY <2>1, ShutKept DEF InTree, Settled
<1>8. ASSUME NEW t \in Tasks, CancelDoomed(t) PROVE ShutInv'
  <2>1. UNCHANGED <<shut, stopper, shutDown, agents, run, status, resources>>
    BY <1>8 DEF CancelDoomed
  <2> QED BY <2>1, ShutKept DEF InTree, Settled
<1>9. ASSUME NEW t \in Tasks, AwaitIdle(t) PROVE ShutInv'
  <2>1. UNCHANGED <<shut, stopper, shutDown, agents, run, status, resources>>
    BY <1>9 DEF AwaitIdle
  <2> QED BY <2>1, ShutKept DEF InTree, Settled
<1>10. ASSUME NEW t \in Tasks, StopRollout(t) PROVE ShutInv'
  <2>1. UNCHANGED <<shut, stopper, shutDown, agents, run, status, resources>>
    BY <1>10 DEF StopRollout
  <2> QED BY <2>1, ShutKept DEF InTree, Settled
<1>11. ASSUME NEW t \in Tasks, RemoveStopped(t) PROVE ShutInv'
  <2>1. /\ UNCHANGED <<shut, stopper, shutDown, run>> /\ agents' = Without(Stopping(t))
        /\ status' = [status EXCEPT ![Stopping(t)] = "Shutdown"]
        /\ resources' = [resources EXCEPT ![Stopping(t)] = "released"]
    BY <1>11 DEF RemoveStopped, Publish
  <2>2. Stopping(t) \in Nodes
    BY <1>11, AtItsFirst DEF RemoveStopped, CloseInv
  <2>3. \A q \in Nodes : InTree(q)' => InTree(q)
    BY <2>1, <2>2, RemovesOnly DEF CloseInv, StartInv
  <2>4. \A q \in Nodes : Settled(q) => Settled(q)'
    BY <2>1, <2>2 DEF CloseInv, CloseTypes, All, Settled
  <2> QED BY <2>1, <2>3, <2>4, ShutKept
<1>12. ASSUME NEW t \in Tasks, FinishClose(t) PROVE ShutInv'
  <2>1. UNCHANGED <<shut, stopper, shutDown, agents, run, status, resources>>
    BY <1>12 DEF FinishClose
  <2> QED BY <2>1, ShutKept DEF InTree, Settled
<1>13. ASSUME NEW s \in Stoppers, ShutdownTree(s) PROVE ShutInv'
  <2>1. UNCHANGED <<agents, run, status, resources>> /\ shutDown'
    BY <1>13 DEF ShutdownTree
  <2>2. /\ ShutMoves("marked", shut.todo)
        /\ \A x \in Stoppers : stopper'[x] = "done" => stopper[x] = "done"
    BY <1>13, ShutdownMoves DEF ShutdownTree, CloseInv, CloseTypes
  <2>3. \A n \in Nodes : (InTree(n)' <=> InTree(n)) /\ (Settled(n)' <=> Settled(n))
    BY <2>1 DEF InTree, Settled
  <2> QED BY <2>1, <2>2, <2>3 DEF CloseInv, ShutInv, ShutMarked, ShutAtIdle, ShutSettles,
               ShutDone, ShutMoves
<1>14. ASSUME NEW s \in Stoppers, JoinShutdown(s) PROVE ShutInv'
  <2>1. UNCHANGED <<agents, run, status, resources, shut, shutDown>> /\ shut.pc # "none"
    BY <1>14 DEF JoinShutdown
  <2>2. \A x \in Stoppers : stopper'[x] = "done" => stopper[x] = "done" \/ shut.pc = "done"
    BY <1>14 DEF JoinShutdown, CloseInv, CloseTypes
  <2>3. \A n \in Nodes : (InTree(n)' <=> InTree(n)) /\ (Settled(n)' <=> Settled(n))
    BY <2>1 DEF InTree, Settled
  <2> QED BY <2>1, <2>2, <2>3 DEF CloseInv, ShutInv, ShutMarked, ShutAtIdle, ShutSettles, ShutDone
<1>15. CASE CancelTree
  <2>1. UNCHANGED <<agents, run, status, resources, shutDown, stopper>> /\ shut.pc = "marked"
    BY <1>15 DEF CancelTree
  <2>2. ShutMoves("tasks", shut.todo)
    BY <1>15, ShutdownMoves DEF CloseInv
  <2>3. \A n \in Nodes : (InTree(n)' <=> InTree(n)) /\ (Settled(n)' <=> Settled(n))
    BY <2>1 DEF InTree, Settled
  <2> QED BY <2>1, <2>2, <2>3 DEF CloseInv, ShutInv, ShutMarked, ShutAtIdle, ShutSettles,
               ShutDone, ShutMoves
<1>16. CASE SnapshotAgents
  <2>1. UNCHANGED <<agents, run, status, resources, shutDown, stopper>> /\ shut.pc = "tasks"
    BY <1>16 DEF SnapshotAgents
  <2>2. ShutMoves("nodes", AgentsAt(Below(<<>>)))
    BY <1>16, ShutdownMoves DEF CloseInv
  <2>3. \A n \in Nodes : (InTree(n)' <=> InTree(n)) /\ (Settled(n)' <=> Settled(n))
    BY <2>1 DEF InTree, Settled
  <2>4. \A n \in Nodes : InTree(n) => n \in Range(AgentsAt(Below(<<>>)))
    BY SnapshotFound DEF CloseInv, StartInv
  <2> QED BY <2>1, <2>2, <2>3, <2>4 DEF CloseInv, ShutInv, ShutMarked, ShutAtIdle, ShutSettles,
               ShutDone, ShutMoves
<1>17. CASE ShutAwaitIdle
  <2>1. UNCHANGED <<agents, run, status, resources, shutDown, stopper>> /\ shut.pc = "nodes"
    BY <1>17 DEF ShutAwaitIdle
  <2>2. shut.todo # <<>> /\ run[Head(shut.todo)] = "idle"
    BY <1>17 DEF ShutAwaitIdle
  <2>3. ShutMoves("rollout", shut.todo)
    BY <1>17, ShutdownMoves DEF CloseInv
  <2>4. \A n \in Nodes : (InTree(n)' <=> InTree(n)) /\ (Settled(n)' <=> Settled(n))
    BY <2>1 DEF InTree, Settled
  <2> QED BY <2>1, <2>2, <2>3, <2>4 DEF CloseInv, ShutInv, ShutMarked, ShutAtIdle, ShutSettles,
               ShutDone, ShutMoves
<1>18. CASE ShutRollout
  <2>1. UNCHANGED <<agents, run, status, resources, shutDown, stopper>> /\ shut.pc = "rollout"
    BY <1>18 DEF ShutRollout
  <2>2. ShutMoves("release", shut.todo)
    BY <1>18, ShutdownMoves DEF CloseInv
  <2>3. \A n \in Nodes : (InTree(n)' <=> InTree(n)) /\ (Settled(n)' <=> Settled(n))
    BY <2>1 DEF InTree, Settled
  <2> QED BY <2>1, <2>2, <2>3 DEF CloseInv, ShutInv, ShutMarked, ShutAtIdle, ShutSettles,
               ShutDone, ShutMoves
<1>19. CASE ShutRelease
  <2>1. UNCHANGED <<agents, run, shutDown, stopper>> /\ shut.pc = "release"
    BY <1>19 DEF ShutRelease
  <2>2. ShutMoves("nodes", Tail(shut.todo))
    BY <1>19, ShutdownMoves DEF CloseInv
  <2>3. PICK h \in Nodes : /\ h = Head(shut.todo) /\ run[h] = "idle"
                          /\ Range(shut.todo) = {h} \cup Range(Tail(shut.todo))
    BY <2>1, AtItsFirst DEF CloseInv
  <2>4. /\ status' = [status EXCEPT ![h] = "Shutdown"]
        /\ resources' = [resources EXCEPT ![h] = "released"]
    BY <1>19, <2>3 DEF ShutRelease, Publish
  <2>5. Settled(h)' /\ \A n \in Nodes : (InTree(n)' <=> InTree(n)) /\ (Settled(n) => Settled(n)')
    BY <2>1, <2>3, <2>4 DEF InTree, Settled, CloseInv, CloseTypes, All
  <2> QED BY <2>1, <2>2, <2>3, <2>5 DEF CloseInv, ShutInv, ShutMarked, ShutAtIdle, ShutSettles,
               ShutDone, ShutMoves
<1>20. CASE FinishShutdown
  <2>1. UNCHANGED <<agents, run, status, resources, shutDown>> /\ shut.pc = "nodes"
    BY <1>20 DEF FinishShutdown
  <2>2. ShutMoves("done", shut.todo)
    BY <1>20, ShutdownMoves DEF CloseInv
  <2>3. Range(shut.todo) = {}
    BY <1>20 DEF FinishShutdown, Range
  <2>4. \A n \in Nodes : (InTree(n)' <=> InTree(n)) /\ (Settled(n)' <=> Settled(n))
    BY <2>1 DEF InTree, Settled
  <2>5. shutDown /\ \A n \in Nodes : InTree(n) => Settled(n)
    BY <2>1, <2>3 DEF CloseInv, ShutInv, ShutMarked, ShutSettles
  <2> QED BY <2>1, <2>2, <2>4, <2>5 DEF ShutInv, ShutMarked, ShutAtIdle, ShutSettles,
               ShutDone, ShutMoves
<1> QED
  BY <1>1, <1>2, <1>3, <1>4, <1>5, <1>6, <1>7, <1>8, <1>9, <1>10, <1>11, <1>12, <1>13, <1>14,
     <1>15, <1>16, <1>17, <1>18, <1>19, <1>20 DEF StepKinds, CloseStep, ShutStep

\* A step keeps track of what spawns have prepared.
LEMMA ResourcesStep == ASSUME CloseInv, StepKinds PROVE ResourcesInv'
<1>1. CASE RunsOn
  <2>1. UNCHANGED <<resources, agents>>
    BY <1>1 DEF RunsOn
  <2>2. \A q \in Nodes : spawn'[q] = spawn[q] \/ {spawn[q], spawn'[q]} \subseteq AdmittedPCs
    BY <1>1 DEF RunsOn
  <2> QED BY <2>1, <2>2 DEF CloseInv, ResourcesInv, InTree, AdmittedPCs
<1>2. ASSUME NEW n \in Nodes, Unadmitted(n) PROVE ResourcesInv'
  <2>1. agents' = agents /\ spawn'[n] \notin AdmittedPCs \cup {"new"}
    BY <1>2 DEF Unadmitted, CloseInv, StartInv, StartTypes
  <2>2. \A q \in Nodes : q # n => resources'[q] = resources[q] /\ spawn'[q] = spawn[q]
    <3>1. /\ resources' = resources \/ \E held : resources' = [resources EXCEPT ![n] = held]
          /\ \E place : spawn' = [spawn EXCEPT ![n] = place]
      BY <1>2 DEF Unadmitted
    <3>2. \A q \in Nodes : q # n => resources'[q] = resources[q]
      BY <3>1 DEF CloseInv, CloseTypes, All
    <3>3. \A q \in Nodes : q # n => spawn'[q] = spawn[q]
      BY <3>1 DEF CloseInv, StartInv, StartTypes
    <3> QED BY <3>2, <3>3
  <2>3. spawn'[n] \in {"prepare", "refused"} => resources'[n] # "held"
    <3>1. resources \in [All -> {"none", "held", "released"}] /\ n \in All
      BY DEF CloseInv, CloseTypes, All
    <3> QED BY <1>2, <3>1 DEF Unadmitted, CloseInv, ResourcesInv
  <2> QED BY <2>1, <2>2, <2>3 DEF CloseInv, ResourcesInv, InTree
<1>3. ASSUME NEW n \in Nodes, Admit(n) PROVE ResourcesInv'
  <2>1. resources' = resources /\ spawn[n] = "admit" /\ spawn \in [Nodes -> SpawnPCs]
    BY <1>3 DEF Admit, CloseInv, StartInv, StartTypes
  <2>2. CASE /\ InTree(n)' /\ spawn' = [spawn EXCEPT ![n] = "post"]
             /\ \A q \in Nodes : q # n => (InTree(q)' <=> InTree(q))
    BY <2>1, <2>2 DEF CloseInv, ResourcesInv
  <2>3. CASE agents' = agents /\ spawn' = [spawn EXCEPT ![n] = "undo"]
    BY <2>1, <2>3 DEF CloseInv, ResourcesInv, InTree, AdmittedPCs
  <2> QED BY <1>3, <2>2, <2>3, AdmitsInto DEF CloseInv, StartInv
<1>4. ASSUME NEW n \in All, AfterRun(n) PROVE ResourcesInv'
  <2>1. UNCHANGED <<spawn, resources, agents>>
    BY <1>4 DEF AfterRun
  <2> QED BY <2>1 DEF CloseInv, ResourcesInv, InTree
<1>5. ASSUME NEW n \in All, ClosedBelow(n) PROVE ResourcesInv'
  <2>1. UNCHANGED <<spawn, resources, agents>>
    BY <1>5 DEF ClosedBelow
  <2> QED BY <2>1 DEF CloseInv, ResourcesInv, InTree
<1>6. ASSUME NEW k \in Closers, NEW n \in All, BeginClose(k, n) PROVE ResourcesInv'
  <2>1. UNCHANGED <<spawn, resources, agents>>
    BY <1>6 DEF BeginClose
  <2> QED BY <2>1 DEF CloseInv, ResourcesInv, InTree
<1>7. ASSUME NEW t \in Tasks, MarkSubtree(t) PROVE ResourcesInv'
  <2>1. UNCHANGED <<spawn, resources, agents>>
    BY <1>7 DEF MarkSubtree
  <2> QED BY <2>1 DEF CloseInv, ResourcesInv, InTree
<1>8. ASSUME NEW t \in Tasks, CancelDoomed(t) PROVE ResourcesInv'
  <2>1. UNCHANGED <<spawn, resources, agents>>
    BY <1>8 DEF CancelDoomed
  <2> QED BY <2>1 DEF CloseInv, ResourcesInv, InTree
<1>9. ASSUME NEW t \in Tasks, AwaitIdle(t) PROVE ResourcesInv'
  <2>1. UNCHANGED <<spawn, resources, agents>>
    BY <1>9 DEF AwaitIdle
  <2> QED BY <2>1 DEF CloseInv, ResourcesInv, InTree
<1>10. ASSUME NEW t \in Tasks, StopRollout(t) PROVE ResourcesInv'
  <2>1. UNCHANGED <<spawn, resources, agents>>
    BY <1>10 DEF StopRollout
  <2> QED BY <2>1 DEF CloseInv, ResourcesInv, InTree
<1>11. ASSUME NEW t \in Tasks, RemoveStopped(t) PROVE ResourcesInv'
  <2>1. /\ spawn' = spawn /\ agents' = Without(Stopping(t))
        /\ resources' = [resources EXCEPT ![Stopping(t)] = "released"]
    BY <1>11 DEF RemoveStopped
  <2>2. Stopping(t) \in Nodes /\ closed[Stopping(t)]
    BY <1>11, AtItsFirst DEF RemoveStopped, CloseInv
  <2>3. \A q \in Nodes : InTree(q) => InTree(q)' \/ q = Stopping(t)
    BY <2>1, <2>2, RemovesOnly DEF CloseInv, StartInv
  <2>4. resources'[Stopping(t)] = "released"
    BY <2>1, <2>2 DEF CloseInv, CloseTypes, All
  <2>5. \A q \in Nodes : q # Stopping(t) => resources'[q] = resources[q]
    BY <2>1 DEF CloseInv, CloseTypes, All
  <2> QED BY <2>1, <2>2, <2>3, <2>4, <2>5 DEF CloseInv, ResourcesInv
<1>12. ASSUME NEW t \in Tasks, FinishClose(t) PROVE ResourcesInv'
  <2>1. UNCHANGED <<spawn, resources, agents>>
    BY <1>12 DEF FinishClose
  <2> QED BY <2>1 DEF CloseInv, ResourcesInv, InTree
<1>13. ASSUME NEW s \in Stoppers, ShutdownTree(s) PROVE ResourcesInv'
  <2>1. UNCHANGED <<spawn, resources, agents>>
    BY <1>13 DEF ShutdownTree
  <2> QED BY <2>1 DEF CloseInv, ResourcesInv, InTree
<1>14. ASSUME NEW s \in Stoppers, JoinShutdown(s) PROVE ResourcesInv'
  <2>1. UNCHANGED <<spawn, resources, agents>>
    BY <1>14 DEF JoinShutdown
  <2> QED BY <2>1 DEF CloseInv, ResourcesInv, InTree
<1>15. CASE CancelTree
  <2>1. UNCHANGED <<spawn, resources, agents>>
    BY <1>15 DEF CancelTree
  <2> QED BY <2>1 DEF CloseInv, ResourcesInv, InTree
<1>16. CASE SnapshotAgents
  <2>1. UNCHANGED <<spawn, resources, agents>>
    BY <1>16 DEF SnapshotAgents
  <2> QED BY <2>1 DEF CloseInv, ResourcesInv, InTree
<1>17. CASE ShutAwaitIdle
  <2>1. UNCHANGED <<spawn, resources, agents>>
    BY <1>17 DEF ShutAwaitIdle
  <2> QED BY <2>1 DEF CloseInv, ResourcesInv, InTree
<1>18. CASE ShutRollout
  <2>1. UNCHANGED <<spawn, resources, agents>>
    BY <1>18 DEF ShutRollout
  <2> QED BY <2>1 DEF CloseInv, ResourcesInv, InTree
<1>19. CASE ShutRelease
  <2>1. UNCHANGED <<spawn, agents>> /\ shut.pc = "release"
    BY <1>19 DEF ShutRelease
  <2>2. \A q \in Nodes : resources'[q] = resources[q] \/ resources'[q] = "released"
    BY <1>19 DEF ShutRelease, CloseInv, CloseTypes, All
  <2> QED BY <2>1, <2>2 DEF CloseInv, ResourcesInv, InTree
<1>20. CASE FinishShutdown
  <2>1. UNCHANGED <<spawn, resources, agents>>
    BY <1>20 DEF FinishShutdown
  <2> QED BY <2>1 DEF CloseInv, ResourcesInv, InTree
<1> QED
  BY <1>1, <1>2, <1>3, <1>4, <1>5, <1>6, <1>7, <1>8, <1>9, <1>10, <1>11, <1>12, <1>13, <1>14,
     <1>15, <1>16, <1>17, <1>18, <1>19, <1>20 DEF StepKinds, CloseStep, ShutStep

\* At the start no agent was spawned, and nothing is closed or shut down.
LEMMA CloseInit == Init => CloseInv
<1> SUFFICES ASSUME Init PROVE CloseInv
  OBVIOUS
<1>1. StartInv
  BY StartInit
<1> USE DEF Init
<1>2. CloseTypes
  <2>1. [pc |-> "idle", node |-> None, todo |-> <<>>] \in TaskType
    BY DEF TaskType, TaskPCs
  <2>2. shut \in ShutType
    BY DEF ShutType, ShutPCs
  <2>3. task \in [Tasks -> TaskType]
    BY <2>1
  <2> QED BY <2>2, <2>3 DEF CloseTypes, Statuses
<1>3. \A n \in Nodes : ~ InTree(n)
  <2>1. \A n \in Nodes : PathOf[n] \in Paths /\ PathOf[n] # <<>> /\ n # None
    BY NodesAssumption DEF Paths, All
  <2> QED BY <2>1 DEF InTree
<1>4. AdmissionInv
  BY <1>3, NodesAssumption DEF AdmissionInv, All
<1>5. TaskInv
  BY DEF TaskInv, TaskSound, OwnCloseAwaited, HoldingPCs, Tasks, Range
<1>6. HoldersCounted
  <2>1. \A n \in All : Holders(n) = {}
    BY DEF Holders, HoldingPCs
  <2> QED BY <2>1, FS_EmptySet DEF HoldersCounted
<1>7. OpenAgentStaysListed /\ OpenUnderOpen
  BY <1>3 DEF OpenAgentStaysListed, OpenUnderOpen
<1>8. StoppedForGood
  BY DEF StoppedForGood, All
<1>9. ShutInv
  BY DEF ShutInv, ShutMarked, ShutAtIdle, ShutSettles, ShutDone
<1>10. ResourcesInv
  BY DEF ResourcesInv, AdmittedPCs, All
<1> QED BY <1>1, <1>2, <1>4, <1>5, <1>6, <1>7, <1>8, <1>9, <1>10 DEF CloseInv

\* The invariant holds throughout.
LEMMA ClosesAreSound == Spec => []CloseInv
<1>1. CloseInv /\ [Next]_vars => CloseInv'
  <2> SUFFICES ASSUME CloseInv, [Next]_vars PROVE CloseInv'
    OBVIOUS
  <2>1. StartInv'
    BY TypesStep, ListedStep, TargetStep, ReportStep, ServedStep DEF CloseInv, StartInv
  <2>2. StepKinds
    BY StepsAre DEF CloseInv
  <2> QED BY <2>1, <2>2, CloseTypesStep, AdmissionStep, TaskStep, HoldStep, OpenListedStep,
             UnderOpenStep, StoppedStep, ShutStepKeeps, ResourcesStep DEF CloseInv
<1> QED BY CloseInit, <1>1, PTL DEF Spec

-----------------------------------------------------------------------------
(* The theorems.                                                           *)

\* An agent nobody closed stays in the tree (stop compares the node before it removes
\* an entry): however many closes still work on earlier agents at its path, none of
\* them takes it out, for what a close takes out is closed.
THEOREM OpenAgentsStay == Spec => []OpenAgentStaysListed
<1>1. CloseInv => OpenAgentStaysListed
  BY DEF CloseInv
<1> QED BY ClosesAreSound, <1>1, PTL

\* The subtree of a close cannot grow: a spawn that races it (admit asks again under
\* the lock the close marks under) is admitted before the mark and marked with the
\* rest, or refused, and the hold is let go of only by the last close that has it.
THEOREM ClosedSubtreesStayClosed == Spec => []OpenUnderOpen
<1>1. CloseInv => OpenUnderOpen
  BY DEF CloseInv
<1> QED BY ClosesAreSound, <1>1, PTL

\* An agent whose rollout was shut down, or whose resources were released, has no run
\* and gets none, whichever of its spawn, a close and the shutdown stopped it.
THEOREM StoppedAgentsAreQuiet == Spec => []StoppedAgentIsQuiet
<1>1. CloseInv => StoppedAgentIsQuiet
  BY DEF CloseInv, StoppedForGood, StoppedAgentIsQuiet
<1> QED BY ClosesAreSound, <1>1, PTL

\* Once a shutdown has returned, every agent in the tree is idle, reported Shutdown and
\* let go of, though spawns and closes were under way when it came, a rollout could
\* not be shut down or another attempt is being made.
THEOREM ShutdownLeavesQuiet == Spec => []ShutdownQuiesces
<1>1. CloseInv => ShutdownQuiesces
  <2> SUFFICES ASSUME CloseInv, NEW s \in Stoppers, stopper[s] = "done", NEW n \in Nodes
               PROVE  /\ InTree(n) => run[n] = "idle" /\ status[n] = "Shutdown"
                      /\ spawn[n] \in {"done", "refused"} => resources[n] # "held"
    BY DEF ShutdownQuiesces
  <2>1. InTree(n) => Settled(n)
    BY DEF CloseInv, ShutInv, ShutDone
  <2>2. spawn[n] \in {"done", "refused"} => resources[n] # "held"
    BY <2>1 DEF CloseInv, ResourcesInv, AdmittedPCs, Settled
  <2> QED BY <2>1, <2>2 DEF Settled
<1> QED BY ClosesAreSound, <1>1, PTL
==============================================================================
