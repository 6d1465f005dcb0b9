--------------------------- MODULE ToolBatchProofs ---------------------------
(***************************************************************************)
(* What every batch of calls promises, whatever its size, the resources    *)
(* its tools name and the way its calls end.                               *)
(*                                                                         *)
(* GateInv is about the locks: a call waits for the first lock it lacks,   *)
(* and holds every earlier one it needs, so that whoever holds the last    *)
(* lock that is waited for waits for none.  BatchInv is the supervisor's   *)
(* account: every joined call is answered or outranked by the failure of   *)
(* the batch, and a teardown without a failure is a cancelled turn's.      *)
(***************************************************************************)
EXTENDS ToolBatch, OrderLemmas, TLAPS

\* The classes of failure are ranked, and no two alike (failure_priority).
LEMMA Ranks ==
    /\ \A k \in Failures : Priority[k] \in Nat
    /\ \A j, k \in Failures : Priority[j] = Priority[k] => j = k
    /\ Failures = {"cancelled", "user", "guardrail", "timeout", "other"}
<1>1. Failures = {"cancelled", "user", "guardrail", "timeout", "other"}
  BY DEF Failures, Priority
<1>2. /\ Priority["cancelled"] = 5 /\ Priority["user"] = 4 /\ Priority["guardrail"] = 3
      /\ Priority["timeout"] = 2 /\ Priority["other"] = 1
  BY DEF Priority
<1> QED BY <1>1, <1>2

\* Whatever a call's stages may fail with is a result, and not that of an aborted
\* task (the errors and panics record_task_result is given).
LEMMA FatesAreResults ==
    \A c \in Calls : Fates[c] \subseteq Failures \cup {"panicked"} /\ Fates[c] \subseteq Results
BY CallsAssumption, Ranks DEF Results

\* The queue a call leaves keeps its other waiters, in their order, and only them
\* (the drop of a task that waits for a lock).
LEMMA LeaveQueueKeeps ==
    ASSUME NEW q \in Seq(Calls), NEW c \in Calls,
           \A i, j \in DOMAIN q : q[i] = q[j] => i = j
    PROVE  /\ LeaveQueue(q, c) \in Seq(Calls)
           /\ \A i \in DOMAIN LeaveQueue(q, c) :
                /\ LeaveQueue(q, c)[i] # c
                /\ \E j \in DOMAIN q : LeaveQueue(q, c)[i] = q[j]
           /\ \A i, j \in DOMAIN LeaveQueue(q, c) :
                LeaveQueue(q, c)[i] = LeaveQueue(q, c)[j] => i = j
<1>1. CASE \E i \in DOMAIN q : q[i] = c
  <2> DEFINE k == CHOOSE i \in DOMAIN q : q[i] = c
             r == [j \in 1..(Len(q) - 1) |-> IF j < k THEN q[j] ELSE q[j + 1]]
  <2>1. k \in DOMAIN q /\ q[k] = c
    BY <1>1
  <2>2. LeaveQueue(q, c) = r
    BY <1>1 DEF LeaveQueue, DropAt
  <2> HIDE DEF k
  <2>3. Len(q) \in Nat /\ DOMAIN q = 1..Len(q) /\ \A i \in 1..Len(q) : q[i] \in Calls
    OBVIOUS
  <2>4. \A j \in 1..(Len(q) - 1) : j \in 1..Len(q) /\ j + 1 \in 1..Len(q)
    BY <2>3
  <2>5. r \in [1..(Len(q) - 1) -> Calls]
    BY <2>3, <2>4
  <2>6. Len(q) - 1 \in Nat
    BY <2>1, <2>3
  <2>7. r \in Seq(Calls) /\ DOMAIN r = 1..(Len(q) - 1)
    BY <2>5, <2>6
  <2>8. \A j \in 1..(Len(q) - 1) :
          /\ j < k => r[j] = q[j] /\ j \in DOMAIN q /\ j # k
          /\ ~(j < k) => r[j] = q[j + 1] /\ j + 1 \in DOMAIN q /\ j + 1 # k
    BY <2>1, <2>3, <2>4
  <2> HIDE DEF r
  <2>9. \A j \in DOMAIN r : r[j] # c /\ \E i \in DOMAIN q : r[j] = q[i]
    <3>1. TAKE j \in DOMAIN r
    <3>2. CASE j < k
      BY <2>1, <2>7, <2>8, <3>2
    <3>3. CASE ~(j < k)
      BY <2>1, <2>7, <2>8, <3>3
    <3> QED BY <3>2, <3>3
  <2>10. \A i, j \in DOMAIN r : r[i] = r[j] => i = j
    <3>1. TAKE i, j \in DOMAIN r
    <3>2. i \in Nat /\ j \in Nat /\ k \in Nat
      BY <2>1, <2>3, <2>7
    <3> QED BY <2>7, <2>8, <3>2
  <2> QED BY <2>2, <2>7, <2>9, <2>10
<1>2. CASE ~\E i \in DOMAIN q : q[i] = c
  BY <1>2 DEF LeaveQueue
<1> QED BY <1>1, <1>2

------------------------------------------------------------------------------
(* Types                                                                    *)

\* The types the arguments below use.
TaskTypes == task \in [Calls -> Places] /\ result \in [Calls -> Results \cup {None}]

GateTypes == holders \in [Locks -> SUBSET Calls] /\ waiting \in [Locks -> Seq(Calls)]

\* Every step of a batch, one case each.
StepCases ==
    \/ \E c \in Calls : StreamCall(c) \/ TakeSlot(c) \/ RunChain(c) \/ AskLock(c)
    \/ \E c \in Calls : \E l \in Locks : GetLock(c, l)
    \/ \E c \in Calls : StartCall(c) \/ CallReturns(c) \/ FinishOutput(c) \/ HeedCancel(c)
    \/ \E c \in Calls : Abort(c) \/ Join(c)
    \/ Contradict \/ StreamFails \/ CancelTurn \/ Respond
    \/ SweepDone \/ CollectCancelled \/ GraceOver \/ Return

\* The disjuncts of Next, laid out flat.
LEMMA NextIsACase == Next <=> StepCases
BY DEF Next, StepCases, Supervisor, Admission

\* Tasks and results keep their types.
LEMMA TaskTypesStep ==
    ASSUME TaskTypes, [Next]_vars
    PROVE  TaskTypes'
<1>1. ASSUME NEW c \in Calls, StreamCall(c) PROVE TaskTypes'
  BY <1>1 DEF TaskTypes, StreamCall, Goto, Places
<1>2. ASSUME NEW c \in Calls, TakeSlot(c) PROVE TaskTypes'
  BY <1>2 DEF TaskTypes, TakeSlot, Goto, Places
<1>3. ASSUME NEW c \in Calls, RunChain(c) PROVE TaskTypes'
  BY <1>3, Ranks, FatesAreResults DEF TaskTypes, RunChain, End, Goto, Places, Results
<1>4. ASSUME NEW c \in Calls, AskLock(c) PROVE TaskTypes'
  BY <1>4 DEF TaskTypes, AskLock, taskVars
<1>5. ASSUME NEW c \in Calls, NEW l \in Locks, GetLock(c, l) PROVE TaskTypes'
  BY <1>5 DEF TaskTypes, GetLock, taskVars
<1>6. ASSUME NEW c \in Calls, StartCall(c) PROVE TaskTypes'
  BY <1>6, Ranks DEF TaskTypes, StartCall, End, Goto, Places, Results
<1>7. ASSUME NEW c \in Calls, CallReturns(c) PROVE TaskTypes'
  BY <1>7, Ranks, FatesAreResults DEF TaskTypes, CallReturns, End, Goto, Places, Results
<1>8. ASSUME NEW c \in Calls, FinishOutput(c) PROVE TaskTypes'
  BY <1>8, Ranks, FatesAreResults DEF TaskTypes, FinishOutput, AfterCallFails, End, Goto, Places, Results
<1>9. ASSUME NEW c \in Calls, HeedCancel(c) PROVE TaskTypes'
  BY <1>9, Ranks DEF TaskTypes, HeedCancel, End, Goto, Places, Results
<1>10. ASSUME NEW c \in Calls, Abort(c) PROVE TaskTypes'
  BY <1>10, Ranks DEF TaskTypes, Abort, End, Goto, Places, Results
<1>11. ASSUME NEW c \in Calls, Join(c) PROVE TaskTypes'
  BY <1>11 DEF TaskTypes, Join, Goto, Places
<1>12. ASSUME Contradict PROVE TaskTypes'
  BY <1>12 DEF TaskTypes, Contradict, Spawn, Places
<1>13. ASSUME StreamFails PROVE TaskTypes'
  BY <1>13 DEF TaskTypes, StreamFails, taskVars
<1>14. ASSUME CancelTurn PROVE TaskTypes'
  BY <1>14 DEF TaskTypes, CancelTurn, taskVars
<1>15. ASSUME Respond PROVE TaskTypes'
  BY <1>15 DEF TaskTypes, Respond, Spawn, Places
<1>16. ASSUME SweepDone PROVE TaskTypes'
  BY <1>16 DEF TaskTypes, SweepDone, taskVars
<1>17. ASSUME CollectCancelled PROVE TaskTypes'
  BY <1>17 DEF TaskTypes, CollectCancelled, taskVars
<1>18. ASSUME GraceOver PROVE TaskTypes'
  BY <1>18 DEF TaskTypes, GraceOver, taskVars
<1>19. ASSUME Return PROVE TaskTypes'
  BY <1>19 DEF TaskTypes, Return, taskVars
<1>20. ASSUME UNCHANGED vars PROVE TaskTypes'
  BY <1>20 DEF TaskTypes, vars, taskVars
<1> QED
  BY <1>1, <1>2, <1>3, <1>4, <1>5, <1>6, <1>7, <1>8, <1>9, <1>10, <1>11, <1>12,
     <1>13, <1>14, <1>15, <1>16, <1>17, <1>18, <1>19, <1>20, NextIsACase DEF
     StepCases
------------------------------------------------------------------------------
(* The locks                                                                *)

\* Only a call that is being admitted, or runs, holds a lock.
HoldersRun ==
    \A l \in Locks : \A c \in holders[l] : task[c] \in {"admission", "calling"}

\* A call waits for the first of the locks it still wants.
WaitsFor(c, l) ==
    /\ task[c] = "admission"
    /\ l \in Wanted(c)
    /\ \A m \in Wanted(c) : l <= m

WaitersAsk == \A l \in Locks : \A i \in DOMAIN waiting[l] : WaitsFor(waiting[l][i], l)

\* No call is twice in a queue.
WaitsOnce ==
    \A l \in Locks : \A i, j \in DOMAIN waiting[l] : waiting[l][i] = waiting[l][j] => i = j

\* A call that holds a lock holds every earlier one it needs.
LockOrder ==
    \A l \in Locks : \A c \in holders[l] : \A m \in Needed(c) : m < l => c \in holders[m]

GateInv == GateTypes /\ HoldersRun /\ WaitersAsk /\ WaitsOnce /\ LockOrder

\* The locks a call needs are locks of the gate, and numbers.
LEMMA NeededAreLocks ==
    ASSUME NEW c \in Calls
    PROVE  Needed(c) \subseteq Locks /\ Locks \subseteq Nat /\ Locks \subseteq 0..NResources
<1>1. Locks \subseteq 0..NResources /\ Locks \subseteq Nat /\ 0 \in Locks
  BY ResourcesAssumption DEF Locks, Resources, Global
<1>2. Claims[c] \in Seq(Resources)
  BY ResourcesAssumption
<1>3. \A i \in DOMAIN Claims[c] : Claims[c][i] \in Resources
  BY <1>2
<1> QED BY <1>1, <1>3 DEF Needed, Locks

\* The next lock is the least of those a call wants.
LEMMA NextLockIsLeast ==
    ASSUME NEW c \in Calls, Wanted(c) # {}
    PROVE  NextLock(c) \in Wanted(c) /\ \A m \in Wanted(c) : NextLock(c) <= m
<1>1. Wanted(c) \subseteq Nat
  BY NeededAreLocks DEF Wanted
<1>2. \E l \in Wanted(c) : \A m \in Wanted(c) : l <= m
  BY <1>1, LeastNatural
<1> QED BY <1>2 DEF NextLock

\* A step that leaves the gate alone, and the calls that are admitted or run.
LEMMA GateSame ==
    ASSUME GateInv, UNCHANGED gateVars,
           \A c \in Calls : task[c] \in {"admission", "calling"} => task'[c] = task[c]
    PROVE  GateInv'
<1>1. GateTypes' /\ WaitsOnce' /\ LockOrder'
  BY DEF GateInv, GateTypes, WaitsOnce, LockOrder, gateVars
<1>2. HoldersRun'
  BY DEF GateInv, GateTypes, HoldersRun, gateVars
<1>3. WaitersAsk'
  BY DEF GateInv, GateTypes, WaitersAsk, WaitsFor, Wanted, gateVars
<1> QED BY <1>1, <1>2, <1>3 DEF GateInv

\* A call that lets go of everything, and changes no other.
LEMMA GateRelease ==
    ASSUME GateInv, NEW c \in Calls, Release(c),
           \A d \in Calls : d # c => task'[d] = task[d]
    PROVE  GateInv'
<1> USE DEF GateInv
<1>1. \A l \in Locks : /\ waiting[l] \in Seq(Calls)
                       /\ \A i, j \in DOMAIN waiting[l] : waiting[l][i] = waiting[l][j] => i = j
  BY DEF GateTypes, WaitsOnce
<1>2. \A l \in Locks : holders'[l] = holders[l] \ {c} /\ holders[l] \subseteq Calls
  BY DEF Release, GateTypes
<1>3. \A l \in Locks : waiting'[l] = LeaveQueue(waiting[l], c)
  BY DEF Release
<1>4. \A l \in Locks :
        /\ waiting'[l] \in Seq(Calls)
        /\ \A i \in DOMAIN waiting'[l] :
             waiting'[l][i] # c /\ \E j \in DOMAIN waiting[l] : waiting'[l][i] = waiting[l][j]
        /\ \A i, j \in DOMAIN waiting'[l] : waiting'[l][i] = waiting'[l][j] => i = j
  BY <1>1, <1>3, LeaveQueueKeeps
<1>5. GateTypes'
  BY <1>2, <1>4 DEF GateTypes, Release
<1>6. HoldersRun'
  BY <1>2 DEF HoldersRun
<1>7. WaitsOnce'
  BY <1>4 DEF WaitsOnce
<1>8. LockOrder'
  <2>1. ASSUME NEW l \in Locks, NEW d \in holders'[l], NEW m \in Needed(d), m < l
        PROVE  d \in holders'[m]
    <3>1. d \in Calls /\ d # c /\ d \in holders[l]
      BY <1>2, <2>1
    <3>2. m \in Locks
      BY <3>1, NeededAreLocks
    <3> QED BY <1>2, <2>1, <3>1, <3>2 DEF LockOrder
  <2> QED BY <2>1 DEF LockOrder, Needed
<1>9. WaitersAsk'
  <2>1. ASSUME NEW l \in Locks, NEW i \in DOMAIN waiting'[l]
        PROVE  WaitsFor(waiting[l][i], l)'
    <3>1. PICK d \in Calls : d = waiting'[l][i] /\ d # c /\ WaitsFor(d, l)
      BY <1>1, <1>4 DEF WaitersAsk
    <3>2. task[d] = "admission" /\ l \in Wanted(d) /\ \A m \in Wanted(d) : l <= m
      BY <3>1 DEF WaitsFor
    <3>3. \A m \in Needed(d) : d \in holders'[m] <=> d \in holders[m]
      BY <1>2, <3>1, NeededAreLocks
    <3>4. Wanted(d)' = Wanted(d)
      BY <3>3 DEF Wanted, Needed
    <3>5. WaitsFor(d, l)'
      BY <3>1, <3>2, <3>4 DEF WaitsFor
    <3> QED BY <3>1, <3>5 DEF WaitsFor, Wanted
  <2> QED BY <2>1 DEF WaitersAsk
<1> QED BY <1>5, <1>6, <1>7, <1>8, <1>9

\* A call that asks for its next lock gets it, or joins its queue.
LEMMA GateAsk ==
    ASSUME GateInv, NEW c \in Calls, AskLock(c)
    PROVE  GateInv'
<1> DEFINE l == NextLock(c)
<1>1. task[c] = "admission" /\ c \notin Queued /\ task' = task
  BY DEF AskLock, taskVars
<1>2. l \in Wanted(c) /\ \A m \in Wanted(c) : l <= m
  BY NextLockIsLeast DEF AskLock
<1>3. l \in Locks /\ c \notin holders[l]
  BY <1>2, NeededAreLocks DEF Wanted
<1>4. CASE /\ holders' = [holders EXCEPT ![l] = @ \cup {c}]
           /\ UNCHANGED waiting
           /\ waiting[l] = << >>
  <2>1. \A m \in Locks : holders'[m] = IF m = l THEN holders[l] \cup {c} ELSE holders[m]
    BY <1>3, <1>4 DEF GateInv, GateTypes
  <2> HIDE DEF l
  <2>2. GateTypes' /\ WaitsOnce' /\ HoldersRun'
    BY <1>1, <1>3, <1>4, <2>1 DEF GateInv, GateTypes, WaitsOnce, HoldersRun
  <2>3. LockOrder'
    <3>1. ASSUME NEW k \in Locks, NEW d \in holders'[k], NEW m \in Needed(d), m < k
          PROVE  d \in holders'[m]
      <4>1. d \in Calls
        BY <1>3, <2>1, <3>1 DEF GateInv, GateTypes
      <4>2. m \in Locks /\ m \in Nat /\ k \in Nat /\ l \in Nat
        BY <1>3, <4>1, NeededAreLocks
      <4>3. CASE d \in holders[k]
        BY <2>1, <3>1, <4>2, <4>3 DEF GateInv, LockOrder
      <4>4. CASE d \notin holders[k]
        <5>1. d = c /\ k = l
          BY <2>1, <4>4
        <5>2. m \notin Wanted(c)
          BY <1>2, <3>1, <4>2, <5>1
        <5> QED BY <2>1, <3>1, <4>2, <5>1, <5>2 DEF Wanted
      <4> QED BY <4>3, <4>4
    <3> QED BY <3>1 DEF LockOrder, Needed
  <2>4. WaitersAsk'
    <3>1. ASSUME NEW k \in Locks, NEW i \in DOMAIN waiting'[k]
          PROVE  WaitsFor(waiting[k][i], k)'
      <4>1. PICK d \in Calls : d = waiting'[k][i] /\ WaitsFor(d, k)
        BY <1>4, <3>1 DEF GateInv, GateTypes, WaitersAsk
      <4>2. d # c
        BY <1>1, <1>4, <3>1, <4>1 DEF Queued
      <4>3. \A m \in Needed(d) : d \in holders'[m] <=> d \in holders[m]
        BY <2>1, <4>2, NeededAreLocks
      <4>4. Wanted(d)' = Wanted(d)
        BY <4>3 DEF Wanted, Needed
      <4>5. WaitsFor(d, k)'
        BY <1>1, <4>1, <4>4 DEF WaitsFor
      <4> QED BY <4>1, <4>5 DEF WaitsFor, Wanted
    <3> QED BY <3>1 DEF WaitersAsk
  <2> QED BY <2>2, <2>3, <2>4 DEF GateInv
<1>5. CASE /\ waiting' = [waiting EXCEPT ![l] = Append(@, c)]
           /\ UNCHANGED holders
  <2> HIDE DEF l
  <2>1. \A m \in Locks : waiting[m] \in Seq(Calls)
    BY DEF GateInv, GateTypes
  <2>2. \A m \in Locks : waiting'[m] = IF m = l THEN Append(waiting[l], c) ELSE waiting[m]
    BY <1>3, <1>5 DEF GateInv, GateTypes
  <2>3. GateTypes' /\ HoldersRun' /\ LockOrder'
    BY <1>1, <1>3, <1>5, <2>1, <2>2 DEF GateInv, GateTypes, HoldersRun, LockOrder, Needed
  <2>4. \A m \in Locks : \A i \in DOMAIN waiting[m] : waiting[m][i] # c
    BY <1>1 DEF Queued
  <2>5. PICK n \in Nat : /\ DOMAIN waiting[l] = 1..n
                        /\ DOMAIN waiting'[l] = 1..(n + 1)
                        /\ waiting'[l][n + 1] = c
                        /\ \A i \in 1..n : waiting'[l][i] = waiting[l][i]
    <3>1. waiting[l] \in Seq(Calls) /\ waiting'[l] = Append(waiting[l], c)
      BY <1>3, <2>1, <2>2
    <3>2. /\ Len(waiting[l]) \in Nat /\ DOMAIN waiting[l] = 1..Len(waiting[l])
          /\ DOMAIN Append(waiting[l], c) = 1..(Len(waiting[l]) + 1)
          /\ Append(waiting[l], c)[Len(waiting[l]) + 1] = c
          /\ \A i \in 1..Len(waiting[l]) : Append(waiting[l], c)[i] = waiting[l][i]
      BY <3>1
    <3> QED BY <3>1, <3>2
  <2>6. \A i \in 1..(n + 1) : i \in 1..n \/ i = n + 1
    OBVIOUS
  <2>7. WaitsOnce'
    <3>1. ASSUME NEW k \in Locks, NEW i \in DOMAIN waiting'[k], NEW j \in DOMAIN waiting'[k],
                 waiting'[k][i] = waiting'[k][j]
          PROVE  i = j
      <4>1. CASE k # l
        BY <2>2, <3>1, <4>1 DEF GateInv, WaitsOnce
      <4>2. CASE k = l
        BY <2>4, <2>5, <2>6, <3>1, <4>2 DEF GateInv, WaitsOnce
      <4> QED BY <4>1, <4>2
    <3> QED BY <3>1 DEF WaitsOnce
  <2>8. WaitersAsk'
    <3>1. ASSUME NEW k \in Locks, NEW i \in DOMAIN waiting'[k]
          PROVE  WaitsFor(waiting[k][i], k)'
      <4>1. \/ waiting'[k][i] = c /\ k = l
            \/ i \in DOMAIN waiting[k] /\ waiting'[k][i] = waiting[k][i]
        BY <2>2, <2>5, <2>6, <3>1
      <4>2. PICK d : d = waiting'[k][i]
        OBVIOUS
      <4>3. WaitsFor(d, k)
        BY <1>1, <1>2, <4>1, <4>2 DEF GateInv, WaitersAsk, WaitsFor
      <4>4. Wanted(d)' = Wanted(d)
        BY <1>5 DEF Wanted, Needed
      <4>5. WaitsFor(d, k)'
        BY <1>1, <4>3, <4>4 DEF WaitsFor
      <4> QED BY <4>2, <4>5 DEF WaitsFor, Wanted
    <3> QED BY <3>1 DEF WaitersAsk
  <2> QED BY <2>3, <2>7, <2>8 DEF GateInv
<1> QED BY <1>4, <1>5 DEF AskLock

\* The first in line gets its lock, and waits no more.
LEMMA GateGet ==
    ASSUME GateInv, NEW c \in Calls, NEW l \in Locks, GetLock(c, l)
    PROVE  GateInv'
<1>1. task' = task /\ waiting[l] \in Seq(Calls) /\ waiting[l] # << >> /\ waiting[l][1] = c
  BY DEF GetLock, GateInv, GateTypes, taskVars
<1>2. 1 \in DOMAIN waiting[l] /\ Len(waiting[l]) \in Nat /\ Len(waiting[l]) > 0
  BY <1>1
<1>3. task[c] = "admission" /\ l \in Wanted(c) /\ \A m \in Wanted(c) : l <= m
  BY <1>1, <1>2 DEF GateInv, WaitersAsk, WaitsFor
<1>4. \A m \in Locks : holders'[m] = IF m = l THEN holders[l] \cup {c} ELSE holders[m]
  BY DEF GetLock, GateInv, GateTypes
<1>5. \A m \in Locks : waiting'[m] = IF m = l THEN Tail(waiting[l]) ELSE waiting[m]
  BY DEF GetLock, GateInv, GateTypes
<1>6. /\ Tail(waiting[l]) \in Seq(Calls)
      /\ DOMAIN Tail(waiting[l]) = 1..(Len(waiting[l]) - 1)
      /\ \A i \in 1..(Len(waiting[l]) - 1) : /\ Tail(waiting[l])[i] = waiting[l][i + 1]
                                             /\ i + 1 \in DOMAIN waiting[l]
  BY <1>1, <1>2
<1>7. GateTypes' /\ HoldersRun'
  BY <1>1, <1>3, <1>4, <1>5, <1>6 DEF GetLock, GateInv, GateTypes, HoldersRun
<1>8. WaitsOnce'
  <2>1. \A i, j \in DOMAIN Tail(waiting[l]) : Tail(waiting[l])[i] = Tail(waiting[l])[j] => i = j
    <3>1. TAKE i, j \in DOMAIN Tail(waiting[l])
    <3>2. waiting[l][i + 1] = waiting[l][j + 1] => i + 1 = j + 1
      BY <1>6 DEF GateInv, WaitsOnce
    <3> QED BY <1>6, <3>2
  <2> QED BY <1>5, <2>1 DEF GateInv, WaitsOnce
<1>9. LockOrder'
  <2>1. ASSUME NEW k \in Locks, NEW d \in holders'[k], NEW m \in Needed(d), m < k
        PROVE  d \in holders'[m]
    <3>1. d \in Calls
      BY <1>4, <2>1 DEF GateInv, GateTypes
    <3>2. m \in Locks /\ m \in Nat /\ k \in Nat /\ l \in Nat
      BY <3>1, NeededAreLocks
    <3>3. CASE d \in holders[k]
      BY <1>4, <2>1, <3>2, <3>3 DEF GateInv, LockOrder
    <3>4. CASE d \notin holders[k]
      <4>1. d = c /\ k = l
        BY <1>4, <3>4
      <4>2. m \notin Wanted(c)
        BY <1>3, <2>1, <3>2, <4>1
      <4> QED BY <1>4, <2>1, <3>2, <4>1, <4>2 DEF Wanted
    <3> QED BY <3>3, <3>4
  <2> QED BY <2>1 DEF LockOrder, Needed
<1>10. WaitersAsk'
  <2>1. ASSUME NEW k \in Locks, NEW i \in DOMAIN waiting'[k]
        PROVE  WaitsFor(waiting[k][i], k)'
    <3>1. \E j \in DOMAIN waiting[k] : waiting'[k][i] = waiting[k][j] /\ (k = l => j # 1)
      <4>1. CASE k = l
        <5>1. i \in 1..(Len(waiting[l]) - 1) /\ waiting'[k][i] = waiting[l][i + 1]
          BY <1>5, <1>6, <2>1, <4>1
        <5>2. i + 1 \in DOMAIN waiting[l] /\ i + 1 # 1
          BY <5>1, <1>6
        <5> QED BY <4>1, <5>1, <5>2
      <4>2. CASE k # l
        BY <1>5, <2>1, <4>2
      <4> QED BY <4>1, <4>2
    <3>2. PICK j \in DOMAIN waiting[k] : waiting'[k][i] = waiting[k][j] /\ (k = l => j # 1)
      BY <3>1
    <3>3. waiting[k] \in Seq(Calls)
      BY DEF GateInv, GateTypes
    <3>4. PICK d \in Calls : d = waiting'[k][i] /\ d = waiting[k][j] /\ WaitsFor(d, k)
      BY <3>2, <3>3 DEF GateInv, WaitersAsk
    <3>5. d # c
      <4>1. SUFFICES ASSUME d = c PROVE FALSE
        OBVIOUS
      <4>2. k \in Nat /\ l \in Nat
        BY NeededAreLocks
      <4>3. k = l
        BY <1>3, <3>4, <4>1, <4>2 DEF WaitsFor
      <4> QED BY <1>1, <1>2, <3>2, <3>4, <4>1, <4>3 DEF GateInv, WaitsOnce
    <3>6. \A m \in Needed(d) : d \in holders'[m] <=> d \in holders[m]
      BY <1>4, <3>5, NeededAreLocks
    <3>7. Wanted(d)' = Wanted(d)
      BY <3>6 DEF Wanted, Needed
    <3>8. WaitsFor(d, k)'
      BY <1>1, <3>4, <3>7 DEF WaitsFor
    <3> QED BY <3>4, <3>8 DEF WaitsFor, Wanted
  <2> QED BY <2>1 DEF WaitersAsk
<1> QED BY <1>7, <1>8, <1>9, <1>10 DEF GateInv

\* A call that has every lock it needs waits for none, and runs.
LEMMA GateStart ==
    ASSUME TaskTypes, GateInv, NEW c \in Calls, StartCall(c), Goto(c, "calling"),
           UNCHANGED gateVars
    PROVE  GateInv'
<1>1. Wanted(c) = {} /\ task[c] = "admission"
  BY DEF StartCall
<1>2. \A d \in Calls : task'[d] = IF d = c THEN "calling" ELSE task[d]
  BY DEF Goto, TaskTypes
<1>3. GateTypes' /\ WaitsOnce' /\ LockOrder'
  BY DEF GateInv, GateTypes, WaitsOnce, LockOrder, gateVars
<1>4. HoldersRun'
  BY <1>2 DEF GateInv, GateTypes, HoldersRun, gateVars
<1>5. WaitersAsk'
  BY <1>1, <1>2 DEF GateInv, GateTypes, WaitersAsk, WaitsFor, Wanted, gateVars
<1> QED BY <1>3, <1>4, <1>5 DEF GateInv

\* No step disturbs the order in which locks are taken.
LEMMA GateStep ==
    ASSUME TaskTypes, GateInv, [Next]_vars
    PROVE  GateInv'
<1>1. ASSUME NEW c \in Calls, StreamCall(c) PROVE GateInv'
  BY <1>1, GateSame DEF TaskTypes, StreamCall, Goto
<1>2. ASSUME NEW c \in Calls, TakeSlot(c) PROVE GateInv'
  BY <1>2, GateSame DEF TaskTypes, TakeSlot, Goto
<1>3. ASSUME NEW c \in Calls, RunChain(c) PROVE GateInv'
  <2>1. CASE Goto(c, "admission") /\ UNCHANGED gateVars
    BY <1>3, <2>1, GateSame DEF TaskTypes, RunChain, Goto
  <2>2. ASSUME NEW r, End(c, r) PROVE GateInv'
    BY <2>2, GateRelease DEF TaskTypes, End, Goto
  <2> QED BY <1>3, <2>1, <2>2 DEF RunChain
<1>4. ASSUME NEW c \in Calls, AskLock(c) PROVE GateInv'
  BY <1>4, GateAsk
<1>5. ASSUME NEW c \in Calls, NEW l \in Locks, GetLock(c, l) PROVE GateInv'
  BY <1>5, GateGet
<1>6. ASSUME NEW c \in Calls, StartCall(c) PROVE GateInv'
  <2>1. CASE End(c, "cancelled")
    BY <2>1, GateRelease DEF TaskTypes, End, Goto
  <2>2. CASE Goto(c, "calling") /\ UNCHANGED gateVars
    BY <1>6, <2>2, GateStart
  <2> QED BY <1>6, <2>1, <2>2 DEF StartCall
<1>7. ASSUME NEW c \in Calls, CallReturns(c) PROVE GateInv'
  <2>1. CASE Goto(c, "after") /\ Release(c)
    BY <2>1, GateRelease DEF TaskTypes, Goto
  <2>2. ASSUME NEW r, End(c, r) PROVE GateInv'
    BY <2>2, GateRelease DEF TaskTypes, End, Goto
  <2> QED BY <1>7, <2>1, <2>2 DEF CallReturns
<1>8. ASSUME NEW c \in Calls, FinishOutput(c) PROVE GateInv'
  <2>1. CASE UNCHANGED <<task, gateVars>>
    BY <2>1, GateSame
  <2>2. ASSUME NEW r, End(c, r) PROVE GateInv'
    BY <2>2, GateRelease DEF TaskTypes, End, Goto
  <2> QED BY <1>8, <2>1, <2>2 DEF FinishOutput, AfterCallFails
<1>9. ASSUME NEW c \in Calls, HeedCancel(c) PROVE GateInv'
  BY <1>9, GateRelease DEF TaskTypes, HeedCancel, End, Goto
<1>10. ASSUME NEW c \in Calls, Abort(c) PROVE GateInv'
  BY <1>10, GateRelease DEF TaskTypes, Abort, End, Goto
<1>11. ASSUME NEW c \in Calls, Join(c) PROVE GateInv'
  BY <1>11, GateSame DEF TaskTypes, Join, Goto
<1>12. ASSUME Contradict PROVE GateInv'
  BY <1>12, GateSame DEF TaskTypes, Contradict, Spawn
<1>13. ASSUME StreamFails PROVE GateInv'
  BY <1>13, GateSame DEF TaskTypes, StreamFails, taskVars
<1>14. ASSUME CancelTurn PROVE GateInv'
  BY <1>14, GateSame DEF TaskTypes, CancelTurn, taskVars
<1>15. ASSUME Respond PROVE GateInv'
  BY <1>15, GateSame DEF TaskTypes, Respond, Spawn
<1>16. ASSUME SweepDone PROVE GateInv'
  BY <1>16, GateSame DEF TaskTypes, SweepDone, taskVars
<1>17. ASSUME CollectCancelled PROVE GateInv'
  BY <1>17, GateSame DEF TaskTypes, CollectCancelled, taskVars
<1>18. ASSUME GraceOver PROVE GateInv'
  BY <1>18, GateSame DEF TaskTypes, GraceOver, taskVars
<1>19. ASSUME Return PROVE GateInv'
  BY <1>19, GateSame DEF TaskTypes, Return, taskVars
<1>20. ASSUME UNCHANGED vars PROVE GateInv'
  BY <1>20, GateSame DEF TaskTypes, vars, taskVars
<1> QED
  BY <1>1, <1>2, <1>3, <1>4, <1>5, <1>6, <1>7, <1>8, <1>9, <1>10, <1>11, <1>12,
     <1>13, <1>14, <1>15, <1>16, <1>17, <1>18, <1>19, <1>20, NextIsACase DEF
     StepCases

\* The gate keeps to its order from the first call on.
LEMMA GateHolds == Spec => []GateInv
<1>1. Init => TaskTypes /\ GateInv
  <2>1. SUFFICES ASSUME Init PROVE TaskTypes /\ GateInv
    OBVIOUS
  <2>2. TaskTypes
    BY <2>1 DEF Init, TaskTypes, Places, Results
  <2>3. holders = [l \in Locks |-> {}] /\ waiting = [l \in Locks |-> << >>]
    BY <2>1 DEF Init
  <2>4. \A l \in Locks : holders[l] = {} /\ waiting[l] = << >> /\ DOMAIN waiting[l] = {}
    BY <2>3
  <2>5. << >> \in Seq(Calls)
    OBVIOUS
  <2>6. GateTypes
    BY <2>3, <2>5 DEF GateTypes
  <2> QED BY <2>2, <2>4, <2>6 DEF GateInv, HoldersRun, WaitersAsk, WaitsOnce, LockOrder
<1>2. TaskTypes /\ GateInv /\ [Next]_vars => (TaskTypes /\ GateInv)'
  BY TaskTypesStep, GateStep
<1> QED BY <1>1, <1>2, PTL DEF Spec

\* Calls that wait for locks never wait for one another, whatever resources they
\* name and in whatever order: of the locks that are waited for, take the last.
\* Whoever holds it waits for no later one, and so for none.
THEOREM LocksNeverDeadlock == Spec => []NoLockDeadlock
<1>1. GateInv => NoLockDeadlock
  <2>1. SUFFICES ASSUME GateInv, Queued # {},
                        \A l \in Locks : \A h \in holders[l] : h \in Queued
                 PROVE  \E l \in Locks : waiting[l] # << >> /\ Free(Head(waiting[l]), l)
    BY DEF NoLockDeadlock
  <2> DEFINE T == {l \in Locks : \E i \in DOMAIN waiting[l] : TRUE}
  <2>2. T # {} /\ \A l \in T : l \in Locks
    BY <2>1 DEF Queued
  <2>3. T \subseteq 0..NResources
    BY <2>1, NeededAreLocks DEF Queued
  <2>4. PICK l \in T : \A m \in T : m <= l
    BY <2>2, <2>3, ResourcesAssumption, GreatestNatural
  <2>5. l \in Locks /\ waiting[l] # << >>
    BY <2>4
  <2>6. holders[l] = {}
    <3>1. SUFFICES ASSUME NEW h \in holders[l] PROVE FALSE
      OBVIOUS
    <3>2. PICK m \in Locks : \E i \in DOMAIN waiting[m] : waiting[m][i] = h
      BY <2>1, <2>5 DEF Queued
    <3>3. m \in T /\ m <= l
      BY <2>4, <3>2
    <3>4. h \in Calls /\ WaitsFor(h, m)
      BY <2>1, <2>5, <3>2 DEF GateInv, GateTypes, WaitersAsk
    <3>5. m \in Needed(h) /\ h \notin holders[m]
      BY <3>4 DEF WaitsFor, Wanted
    <3>6. m # l /\ m \in Nat /\ l \in Nat
      BY <2>5, <3>4, <3>5, NeededAreLocks
    <3>7. m < l
      BY <3>3, <3>6
    <3> QED BY <2>1, <2>5, <3>5, <3>7 DEF GateInv, LockOrder
  <2> QED BY <2>5, <2>6 DEF Free
<1> QED BY <1>1, GateHolds, PTL
------------------------------------------------------------------------------
(* The supervisor                                                           *)

\* How far the batch is, beside its tasks.
PhaseInv ==
    /\ phase \in {"stream", "collect", "sweep", "drain", "abort", "returned"}
    /\ ending \in {"batch", "preflight", "stream", "cancelled"}
    /\ \A c \in Calls : result[c] = None <=> task[c] \notin {"ended", "joined"}
    /\ \A c \in Calls : result[c] = "aborted" => phase \in {"abort", "returned"}
    /\ \A c \in Calls : c \in carried => result[c] \in Failures
    /\ phase = "returned" => \A c \in Calls : task[c] \in {"unspawned", "joined"}
    /\ ending = "batch" /\ phase # "stream" => \A c \in Calls : task[c] # "unspawned"

\* The failure of the batch outranks what a call came to.
Outranks(c) ==
    /\ failure # None
    /\ \/ Priority[failure.kind] > Priority[KindOf(c)]
       \/ failure.kind = KindOf(c) /\ failure.order <= c

\* The results that fail a batch whatever its phase.
Fails(c) == result[c] \in (Failures \ {"cancelled"}) \cup {"panicked"}

\* What the results joined so far have come to.
FailureInv ==
    /\ failure \in [kind : Failures, order : Calls] \cup {None}
    /\ completed \subseteq Calls
    /\ phase \in {"drain", "abort"} /\ ending = "batch" => failure # None \/ cancelled
    /\ nested # {} /\ ending = "batch" => failure # None \/ cancelled
    /\ postFailure /\ ending = "batch" => failure # None \/ cancelled
    /\ \A c \in Calls : task[c] = "joined" /\ ending = "batch"
                            => c \in completed \/ failure # None \/ cancelled
    /\ \A c \in Calls : task[c] = "joined" /\ Fails(c) => Outranks(c)

\* What execute_actions has returned, if it has.
ReturnInv ==
    /\ phase # "returned" => records = {} /\ recovery = None
    /\ AllOrNothing
    /\ phase = "returned" /\ ending = "batch" /\ ~cancelled =>
          IF failure = None THEN outcome = "settled" ELSE outcome = failure.kind

\* The step of a task: the supervisor has no part in it, and a call that has been
\* joined, or not been spawned, none either.
OnlyTasks ==
    /\ UNCHANGED supervisorVars
    /\ \A c \in Calls : /\ task'[c] = "joined" <=> task[c] = "joined"
                        /\ task'[c] = "unspawned" <=> task[c] = "unspawned"
                        /\ task[c] = "joined" => result'[c] = result[c]
    /\ \A c \in Calls : (result'[c] = None <=> task'[c] \notin {"ended", "joined"})
    /\ \A c \in Calls : result'[c] = "aborted" => result[c] = "aborted" \/ phase = "abort"
    /\ \A c \in Calls : c \in carried' => result'[c] \in Failures
    /\ \E c \in Calls : task[c] \notin {"unspawned", "joined"}

TaskStep(c) ==
    \/ TakeSlot(c) \/ RunChain(c) \/ StartCall(c) \/ CallReturns(c) \/ FinishOutput(c)
    \/ HeedCancel(c) \/ Abort(c)

\* A task that ends, ends with a result.
LEMMA EndStep ==
    ASSUME TaskTypes, PhaseInv, NEW c \in Calls, NEW r \in Results, End(c, r),
           task[c] \notin {"unspawned", "ended", "joined"},
           r = "aborted" => phase = "abort", UNCHANGED supervisorVars,
           carried' = carried \/ (r \in Failures /\ carried' = carried \cup {c})
    PROVE  OnlyTasks
<1>1. r # None
  BY NoneAssumption
<1>2. \A d \in Calls : /\ task'[d] = IF d = c THEN "ended" ELSE task[d]
                       /\ result'[d] = IF d = c THEN r ELSE result[d]
  BY DEF End, Goto, TaskTypes
<1>3. result[c] = None /\ None \notin Failures
  BY NoneAssumption DEF PhaseInv, Results
<1>4. \A d \in Calls : d \in carried' => result'[d] \in Failures
  BY <1>2, <1>3 DEF PhaseInv
<1> QED BY <1>1, <1>2, <1>4 DEF OnlyTasks, PhaseInv

\* A task that goes on has none yet.
LEMMA GotoStep ==
    ASSUME TaskTypes, PhaseInv, NEW c \in Calls, NEW p \in Places, Goto(c, p),
           task[c] \notin {"unspawned", "ended", "joined"},
           p \notin {"unspawned", "ended", "joined"}, UNCHANGED <<result, carried, supervisorVars>>
    PROVE  OnlyTasks
<1>1. \A d \in Calls : /\ task'[d] = IF d = c THEN p ELSE task[d]
                       /\ result'[d] = result[d]
  BY DEF Goto, TaskTypes
<1> QED BY <1>1 DEF OnlyTasks, PhaseInv

\* Every step of a task is one of these.
LEMMA TaskStepIsOnlyTasks ==
    ASSUME TaskTypes, PhaseInv, NEW c \in Calls, TaskStep(c)
    PROVE  OnlyTasks
<1> DEFINE R == Failures \cup {"dispatch", "panicked"}
<1>1. R \subseteq Results /\ "aborted" \notin R /\ "aborted" \in Results
  BY Ranks DEF Results
<1>0. {"dispatch", "cancelled"} \cup Fates[c] \subseteq R
  BY FatesAreResults, Ranks
<1>2. \A p \in {"chain", "admission", "calling", "after"} :
        p \in Places /\ p \notin {"unspawned", "ended", "joined"}
  BY DEF Places
<1> HIDE DEF R
<1>3. CASE TakeSlot(c)
  BY <1>2, <1>3, GotoStep DEF TakeSlot
<1>4. CASE RunChain(c)
  <2>1. CASE Goto(c, "admission") /\ UNCHANGED result
    BY <1>2, <1>4, <2>1, GotoStep DEF RunChain
  <2>2. ASSUME NEW r \in {"dispatch"} \cup Fates[c], End(c, r)
        PROVE  OnlyTasks
    <3>1. r \in R
      BY <1>0, <2>2
    <3> QED BY <1>1, <1>4, <2>2, <3>1, EndStep DEF RunChain
  <2> QED BY <1>4, <2>1, <2>2 DEF RunChain
<1>5. CASE StartCall(c)
  <2>1. CASE Goto(c, "calling") /\ UNCHANGED result
    BY <1>2, <1>5, <2>1, GotoStep DEF StartCall
  <2>2. CASE End(c, "cancelled")
    <3>1. "cancelled" \in R
      BY <1>0
    <3> QED BY <1>1, <1>5, <2>2, <3>1, EndStep DEF StartCall
  <2> QED BY <1>5, <2>1, <2>2 DEF StartCall
<1>6. CASE CallReturns(c)
  <2>1. CASE Goto(c, "after") /\ UNCHANGED <<result, carried>>
    BY <1>2, <1>6, <2>1, GotoStep DEF CallReturns
  <2>2. ASSUME NEW r \in {"dispatch"} \cup Fates[c], End(c, r),
               carried' = carried \/ (r \in Failures /\ carried' = carried \cup {c})
        PROVE  OnlyTasks
    <3>1. r \in R
      BY <1>0, <2>2
    <3> QED BY <1>1, <1>6, <2>2, <3>1, EndStep DEF CallReturns
  <2> QED BY <1>6, <2>1, <2>2 DEF CallReturns
<1>7. CASE FinishOutput(c)
  <2>1. CASE UNCHANGED <<task, result>>
    BY <1>7, <2>1 DEF FinishOutput, AfterCallFails, OnlyTasks, PhaseInv
  <2>2. ASSUME NEW r \in {"dispatch"} \cup Fates[c], End(c, r)
        PROVE  OnlyTasks
    <3>1. r \in R
      BY <1>0, <2>2
    <3> QED BY <1>1, <1>7, <2>2, <3>1, EndStep DEF FinishOutput, AfterCallFails
  <2> QED BY <1>7, <2>1, <2>2 DEF FinishOutput, AfterCallFails
<1>8. CASE HeedCancel(c)
  <2>1. "cancelled" \in R
    BY <1>0
  <2> QED BY <1>1, <1>8, <2>1, EndStep DEF HeedCancel, Active
<1>9. CASE Abort(c)
  BY <1>1, <1>9, EndStep DEF Abort, Active
<1> QED BY <1>3, <1>4, <1>5, <1>6, <1>7, <1>8, <1>9 DEF TaskStep

\* No step breaks the order of the phases, or loses a task's result.
LEMMA PhaseStep ==
    ASSUME TaskTypes, PhaseInv, [Next]_vars
    PROVE  PhaseInv'
<1>1. ASSUME NEW c \in Calls, TaskStep(c) PROVE PhaseInv'
  <2>1. OnlyTasks
    BY <1>1, TaskStepIsOnlyTasks
  <2> QED BY <2>1 DEF OnlyTasks, PhaseInv, supervisorVars
<1>2. ASSUME NEW c \in Calls, AskLock(c) PROVE PhaseInv'
  BY <1>2 DEF PhaseInv, AskLock, taskVars, supervisorVars
<1>3. ASSUME NEW c \in Calls, NEW l \in Locks, GetLock(c, l) PROVE PhaseInv'
  BY <1>3 DEF PhaseInv, GetLock, taskVars, supervisorVars
<1>4. ASSUME NEW c \in Calls, StreamCall(c) PROVE PhaseInv'
  <2>1. \A d \in Calls : task'[d] = IF d = c THEN "slot" ELSE task[d]
    BY <1>4 DEF StreamCall, Goto, TaskTypes
  <2> QED BY <1>4, <2>1 DEF PhaseInv, StreamCall
<1>5. ASSUME NEW c \in Calls, Join(c) PROVE PhaseInv'
  <2>1. \A d \in Calls : task'[d] = IF d = c THEN "joined" ELSE task[d]
    BY <1>5 DEF Join, Goto, TaskTypes
  <2> QED BY <1>5, <2>1 DEF PhaseInv, Join
<1>6. ASSUME Respond PROVE PhaseInv'
  <2>1. CASE cancelled
    BY <1>6, <2>1 DEF PhaseInv, Respond, TearDown
  <2>2. CASE ~cancelled
    <3>1. \A c \in Calls : task'[c] = IF task[c] = "unspawned" THEN "slot" ELSE task[c]
      BY <1>6, <2>2 DEF Respond, Spawn
    <3> QED BY <1>6, <2>2, <3>1 DEF PhaseInv, Respond
  <2> QED BY <2>1, <2>2
<1>7. ASSUME Contradict PROVE PhaseInv'
  <2>1. \A c \in Calls : \/ task'[c] = task[c]
                         \/ task[c] = "unspawned" /\ task'[c] = "slot"
    BY <1>7 DEF Contradict, Spawn
  <2> QED BY <1>7, <2>1 DEF PhaseInv, Contradict, TearDown
<1>8. ASSUME StreamFails PROVE PhaseInv'
  BY <1>8 DEF PhaseInv, StreamFails, TearDown, taskVars
<1>9. ASSUME CancelTurn PROVE PhaseInv'
  BY <1>9 DEF PhaseInv, CancelTurn, taskVars
<1>10. ASSUME SweepDone PROVE PhaseInv'
  BY <1>10 DEF PhaseInv, SweepDone, TearDown, taskVars
<1>11. ASSUME CollectCancelled PROVE PhaseInv'
  BY <1>11 DEF PhaseInv, CollectCancelled, taskVars
<1>12. ASSUME GraceOver PROVE PhaseInv'
  BY <1>12 DEF PhaseInv, GraceOver, taskVars
<1>13. ASSUME Return PROVE PhaseInv'
  <2>1. phase' = "returned" /\ UNCHANGED <<task, result, carried, ending>> /\ Drained
    BY <1>13 DEF Return, taskVars
  <2> QED BY <2>1 DEF PhaseInv, Drained, Unjoined
<1>14. ASSUME UNCHANGED vars PROVE PhaseInv'
  BY <1>14 DEF PhaseInv, vars, taskVars
<1> QED
  BY <1>1, <1>2, <1>3, <1>4, <1>5, <1>6, <1>7, <1>8, <1>9, <1>10, <1>11, <1>12, <1>13,
     <1>14, NextIsACase DEF StepCases, TaskStep

\* What is merged outranks both: merge_failure forgets nothing worse.
LEMMA MergeOutranks ==
    ASSUME NEW old \in [kind : Failures, order : Calls] \cup {None},
           NEW new \in [kind : Failures, order : Calls]
    PROVE  /\ Merge(old, new) \in [kind : Failures, order : Calls]
           /\ Merge(old, new) # None
           /\ \A k \in Failures, c \in Calls :
                \/ k = new.kind /\ c = new.order
                \/ old # None /\ Priority[old.kind] > Priority[k]
                \/ old # None /\ old.kind = k /\ old.order <= c
                => \/ Priority[Merge(old, new).kind] > Priority[k]
                   \/ Merge(old, new).kind = k /\ Merge(old, new).order <= c
<1>1. \A k \in Failures : Priority[k] \in Nat
  BY Ranks
<1>2. \A j, k \in Failures : Priority[j] = Priority[k] => j = k
  BY Ranks
<1>3. \A r \in [kind : Failures, order : Calls] : r.kind \in Failures /\ r.order \in Nat /\ r # None
  BY NoneAssumption DEF Calls
<1>4. Calls \subseteq Nat
  BY DEF Calls
<1>5. CASE Merge(old, new) = new
  <2>1. \/ old = None
        \/ Priority[new.kind] > Priority[old.kind]
        \/ Priority[new.kind] = Priority[old.kind] /\ new.order <= old.order
    <3>1. CASE old = new
      BY <1>1, <1>3, <3>1
    <3>2. CASE old # new /\ old # None
      <4>1. \/ Priority[new.kind] > Priority[old.kind]
            \/ Priority[new.kind] = Priority[old.kind] /\ new.order < old.order
        BY <1>5, <3>2 DEF Merge
      <4> QED BY <1>3, <3>2, <4>1
    <3> QED BY <3>1, <3>2
  <2> QED BY <1>1, <1>2, <1>3, <1>4, <1>5, <2>1
<1>6. CASE old # None /\ Merge(old, new) = old
  <2>1. \/ old = new
        \/ /\ ~(Priority[new.kind] > Priority[old.kind])
           /\ ~(Priority[new.kind] = Priority[old.kind] /\ new.order < old.order)
    BY <1>1, <1>3, <1>6 DEF Merge
  <2> QED BY <1>1, <1>2, <1>3, <1>4, <1>6, <2>1
<1> QED BY <1>5, <1>6 DEF Merge

\* Joining a task keeps the account of failures (record_task_result).
LEMMA FailureJoin ==
    ASSUME TaskTypes, PhaseInv, FailureInv, NEW c \in Calls, Join(c)
    PROVE  FailureInv'
<1> DEFINE teardown == phase \in {"drain", "abort"}
           new == [kind |-> KindOf(c), order |-> c]
           skip == result[c] = "dispatch" \/ (teardown /\ result[c] \in {"cancelled", "aborted"})
<1>1. \A d \in Calls : task'[d] = IF d = c THEN "joined" ELSE task[d]
  BY DEF Join, Goto, TaskTypes
<1>2. UNCHANGED <<result, ending, cancelled>> /\ task[c] = "ended"
  BY DEF Join
<1>3. result[c] \in Results /\ (result[c] = "aborted" => teardown)
  BY <1>2 DEF PhaseInv, TaskTypes, Join
<1>4. ~skip => KindOf(c) \in Failures
  BY <1>3, Ranks DEF Results, KindOf
<1>5. ~skip => new \in [kind : Failures, order : Calls]
  BY <1>4
<1>6. failure' = IF skip THEN failure ELSE Merge(failure, new)
  BY DEF Join, Record
<1>7. ~skip => /\ failure' \in [kind : Failures, order : Calls]
               /\ failure' # None
  BY <1>5, <1>6, MergeOutranks DEF FailureInv
<1>8. failure # None => failure' # None
  BY <1>6, <1>7
<1>9. teardown /\ ending = "batch" => failure # None \/ cancelled
  BY DEF FailureInv
<1>10. failure' \in [kind : Failures, order : Calls] \cup {None}
  BY <1>6, <1>7 DEF FailureInv
<1>11. completed' \subseteq Calls
  BY DEF FailureInv, Join, Record
<1>12. phase' \in {"drain", "abort"} => teardown
  BY DEF Join
<1>13. nested' # {} /\ ending = "batch" => failure' # None \/ cancelled
  <2>1. CASE skip
    <3>1. ~teardown => c \notin carried
      BY <2>1, Ranks DEF PhaseInv
    <3> QED BY <1>8, <1>9, <2>1, <3>1 DEF FailureInv, Join, Record
  <2>2. CASE ~skip
    BY <1>7, <2>2
  <2> QED BY <2>1, <2>2
<1>14. postFailure' /\ ending = "batch" => failure' # None \/ cancelled
  <2>1. CASE skip
    BY <1>8, <1>9, <2>1 DEF FailureInv, Join, Record
  <2>2. CASE ~skip
    BY <1>7, <2>2
  <2> QED BY <2>1, <2>2
<1>15. \A d \in Calls : task'[d] = "joined" /\ ending = "batch"
                          => d \in completed' \/ failure' # None \/ cancelled
  <2>1. completed \subseteq completed' /\ (result[c] = "dispatch" => c \in completed')
    BY DEF Join, Record
  <2> QED BY <1>1, <1>7, <1>8, <1>9, <2>1 DEF FailureInv
<1>16. ASSUME NEW d \in Calls, task'[d] = "joined", Fails(d)
       PROVE  Outranks(d)'
  <2>1. KindOf(d) \in Failures /\ KindOf(d)' = KindOf(d)
    BY <1>2, <1>16, Ranks DEF Fails, KindOf
  <2>2. CASE d = c
    <3>1. ~skip
      BY <1>16, <2>2, Ranks DEF Fails
    <3>2. new.kind = KindOf(d) /\ new.order = d
      BY <2>2
    <3> QED BY <1>5, <1>6, <2>1, <3>1, <3>2, MergeOutranks DEF FailureInv, Outranks
  <2>3. CASE d # c
    <3>1. Outranks(d)
      BY <1>1, <1>16, <2>3 DEF FailureInv
    <3>2. CASE skip
      BY <1>6, <2>1, <3>1, <3>2 DEF Outranks
    <3>3. CASE ~skip
      BY <1>5, <1>6, <2>1, <3>1, <3>3, MergeOutranks DEF FailureInv, Outranks
    <3> QED BY <3>2, <3>3
  <2> QED BY <2>2, <2>3
<1>17. \A d \in Calls : Fails(d)' <=> Fails(d)
  BY <1>2 DEF Fails
<1> HIDE DEF skip, new
<1> QED BY <1>2, <1>8, <1>9, <1>10, <1>11, <1>12, <1>13, <1>14, <1>15, <1>16, <1>17
        DEF FailureInv

\* No step breaks the account of failures.
LEMMA FailureStep ==
    ASSUME TaskTypes, PhaseInv, FailureInv, [Next]_vars
    PROVE  FailureInv'
<1> USE DEF FailureInv, Fails, Outranks, KindOf
<1>1. ASSUME NEW c \in Calls, TaskStep(c) PROVE FailureInv'
  <2>1. OnlyTasks
    BY <1>1, TaskStepIsOnlyTasks
  <2> QED BY <2>1 DEF OnlyTasks, supervisorVars, collectedVars
<1>2. ASSUME NEW c \in Calls, AskLock(c) PROVE FailureInv'
  BY <1>2 DEF AskLock, taskVars, supervisorVars, collectedVars
<1>3. ASSUME NEW c \in Calls, NEW l \in Locks, GetLock(c, l) PROVE FailureInv'
  BY <1>3 DEF GetLock, taskVars, supervisorVars, collectedVars
<1>4. ASSUME NEW c \in Calls, StreamCall(c) PROVE FailureInv'
  <2>1. \A d \in Calls : task'[d] = IF d = c THEN "slot" ELSE task[d]
    BY <1>4 DEF StreamCall, Goto, TaskTypes
  <2> QED BY <1>4, <2>1 DEF StreamCall, collectedVars
<1>5. ASSUME NEW c \in Calls, Join(c) PROVE FailureInv'
  BY <1>5, FailureJoin
<1>6. ASSUME Respond PROVE FailureInv'
  <2>1. \A c \in Calls : task'[c] = "joined" => task[c] = "joined"
    BY <1>6 DEF Respond, Spawn
  <2> QED BY <1>6, <2>1 DEF Respond, TearDown, collectedVars
<1>7. ASSUME Contradict PROVE FailureInv'
  <2>1. \A c \in Calls : task'[c] = "joined" => task[c] = "joined"
    BY <1>7 DEF Contradict, Spawn
  <2> QED BY <1>7, <2>1 DEF Contradict, TearDown, collectedVars
<1>8. ASSUME StreamFails PROVE FailureInv'
  BY <1>8 DEF StreamFails, TearDown, taskVars, collectedVars
<1>9. ASSUME CancelTurn PROVE FailureInv'
  BY <1>9 DEF CancelTurn, taskVars, collectedVars
<1>10. ASSUME SweepDone PROVE FailureInv'
  BY <1>10 DEF SweepDone, TearDown, taskVars, collectedVars
<1>11. ASSUME CollectCancelled PROVE FailureInv'
  BY <1>11 DEF CollectCancelled, taskVars, collectedVars
<1>12. ASSUME GraceOver PROVE FailureInv'
  BY <1>12 DEF GraceOver, taskVars, collectedVars
<1>13. ASSUME Return PROVE FailureInv'
  <2>1. phase' = "returned" /\ UNCHANGED <<task, result, ending, cancelled, collectedVars>>
    BY <1>13 DEF Return, taskVars
  <2> QED BY <2>1 DEF collectedVars
<1>14. ASSUME UNCHANGED vars PROVE FailureInv'
  BY <1>14 DEF vars, taskVars, collectedVars
<1> QED
  BY <1>1, <1>2, <1>3, <1>4, <1>5, <1>6, <1>7, <1>8, <1>9, <1>10, <1>11, <1>12, <1>13,
     <1>14, NextIsACase DEF StepCases, TaskStep

\* A batch returns what its account says (settle_dispatches).
LEMMA ReturnReturns ==
    ASSUME TaskTypes, PhaseInv, FailureInv, ReturnInv, Return
    PROVE  ReturnInv'
<1>1. phase' = "returned" /\ Drained /\ UNCHANGED <<task, ending, missing, cancelled, collectedVars>>
  BY DEF Return, taskVars
<1>2. UNCHANGED <<failure, completed, nested>>
  BY <1>1 DEF collectedVars
<1>3. records = {} /\ recovery = None
  BY <1>1 DEF ReturnInv, Drained
<1>4. failure # None => failure.kind \in Failures
  BY DEF FailureInv
<1>5. "settled" \notin Failures /\ "cancelled" # "settled"
  BY Ranks
<1>6. ending = "batch" => \A c \in Calls : c \in completed \/ failure # None \/ cancelled
  <2>1. ending = "batch" => \A c \in Calls : task[c] = "joined"
    BY <1>1 DEF PhaseInv, Drained, Unjoined
  <2> QED BY <2>1 DEF FailureInv
<1> DEFINE error == IF failure = None THEN "unexplained" ELSE failure.kind
<1>7. CASE ending # "batch"
  <2>1. outcome' = (IF cancelled THEN "cancelled" ELSE ending) /\ UNCHANGED <<records, recovery>>
    BY <1>7 DEF Return
  <2>2. ending # "settled"
    BY DEF PhaseInv
  <2> QED BY <1>1, <1>3, <1>7, <2>1, <2>2 DEF ReturnInv, AllOrNothing
<1>8. CASE ending = "batch" /\ (nested # {} \/ Kept)
  <2>1. /\ outcome' = IF cancelled THEN "cancelled" ELSE error
        /\ recovery' = [records |-> completed, nested |-> nested, post |-> Kept]
        /\ UNCHANGED records
    BY <1>8 DEF Return
  <2>2. failure # None \/ cancelled
    BY <1>8 DEF FailureInv, Kept
  <2>3. outcome' # "settled" /\ (~cancelled => outcome' = failure.kind /\ failure # None)
    BY <1>4, <1>5, <2>1, <2>2
  <2>4. recovery'.post => Calls \subseteq recovery'.records \cup recovery'.nested /\ ~missing
    BY <2>1 DEF Kept
  <2> QED BY <1>1, <1>2, <1>3, <2>1, <2>2, <2>3, <2>4 DEF ReturnInv, AllOrNothing
<1>9. CASE ending = "batch" /\ ~(nested # {} \/ Kept)
  <2>1. /\ outcome' = IF cancelled THEN "cancelled"
                      ELSE IF failure = None THEN "settled" ELSE error
        /\ records' = IF ~cancelled /\ failure = None THEN completed ELSE records
        /\ UNCHANGED recovery
    BY <1>9 DEF Return
  <2>2. outcome' = "settled" <=> ~cancelled /\ failure = None
    BY <1>4, <1>5, <2>1
  <2>3. ~cancelled /\ failure = None => completed = Calls
    BY <1>6, <1>9 DEF FailureInv
  <2> QED BY <1>1, <1>2, <1>3, <2>1, <2>2, <2>3 DEF ReturnInv, AllOrNothing
<1> QED BY <1>7, <1>8, <1>9

\* Nothing changes what a batch has returned, and nothing returns it early.
LEMMA ReturnStep ==
    ASSUME TaskTypes, PhaseInv, FailureInv, ReturnInv, [Next]_vars
    PROVE  ReturnInv'
<1> USE DEF ReturnInv, AllOrNothing
<1>1. ASSUME NEW c \in Calls, TaskStep(c) PROVE ReturnInv'
  <2>1. OnlyTasks
    BY <1>1, TaskStepIsOnlyTasks
  <2> QED BY <2>1 DEF OnlyTasks, supervisorVars, collectedVars, returnVars
<1>2. ASSUME NEW c \in Calls, AskLock(c) PROVE ReturnInv'
  BY <1>2 DEF AskLock, supervisorVars, collectedVars, returnVars
<1>3. ASSUME NEW c \in Calls, NEW l \in Locks, GetLock(c, l) PROVE ReturnInv'
  BY <1>3 DEF GetLock, supervisorVars, collectedVars, returnVars
<1>4. ASSUME NEW c \in Calls, StreamCall(c) PROVE ReturnInv'
  BY <1>4 DEF StreamCall, returnVars
<1>5. ASSUME NEW c \in Calls, Join(c) PROVE ReturnInv'
  BY <1>5 DEF Join, returnVars
<1>6. ASSUME Respond PROVE ReturnInv'
  BY <1>6 DEF Respond, TearDown, returnVars
<1>7. ASSUME Contradict PROVE ReturnInv'
  BY <1>7 DEF Contradict, TearDown, returnVars
<1>8. ASSUME StreamFails PROVE ReturnInv'
  BY <1>8 DEF StreamFails, TearDown, returnVars
<1>9. ASSUME CancelTurn PROVE ReturnInv'
  BY <1>9 DEF CancelTurn, returnVars
<1>10. ASSUME SweepDone PROVE ReturnInv'
  BY <1>10 DEF SweepDone, TearDown, returnVars
<1>11. ASSUME CollectCancelled PROVE ReturnInv'
  BY <1>11 DEF CollectCancelled, returnVars
<1>12. ASSUME GraceOver PROVE ReturnInv'
  BY <1>12 DEF GraceOver, returnVars
<1>13. ASSUME Return PROVE ReturnInv'
  BY <1>13, ReturnReturns
<1>14. ASSUME UNCHANGED vars PROVE ReturnInv'
  BY <1>14 DEF vars, collectedVars, returnVars
<1> QED
  BY <1>1, <1>2, <1>3, <1>4, <1>5, <1>6, <1>7, <1>8, <1>9, <1>10, <1>11, <1>12, <1>13,
     <1>14, NextIsACase DEF StepCases, TaskStep

\* The account of a batch.
BatchInv == TaskTypes /\ PhaseInv /\ FailureInv /\ ReturnInv

\* It holds from the first call to what is returned.
LEMMA BatchAccount == Spec => []BatchInv
<1>1. Init => BatchInv
  <2>1. SUFFICES ASSUME Init PROVE BatchInv
    OBVIOUS
  <2>2. \A c \in Calls : task[c] = "unspawned" /\ result[c] = None
    BY <2>1 DEF Init
  <2>3. TaskTypes
    BY <2>1 DEF Init, TaskTypes, Places, Results
  <2>4. None # "aborted"
    BY NoneAssumption DEF Results
  <2>5. PhaseInv /\ FailureInv /\ ReturnInv
    BY <2>1, <2>2, <2>4 DEF Init, PhaseInv, FailureInv, ReturnInv, AllOrNothing
  <2> QED BY <2>3, <2>5 DEF BatchInv
<1>2. BatchInv /\ [Next]_vars => BatchInv'
  BY TaskTypesStep, PhaseStep, FailureStep, ReturnStep DEF BatchInv
<1> QED BY <1>1, <1>2, PTL DEF Spec

\* A batch answers every call or none, and keeps for resumption only what can be
\* replayed, however many calls it has and however they end.
THEOREM AnswersAllOrNone == Spec => []AllOrNothing
<1>1. BatchInv => AllOrNothing
  BY DEF BatchInv, ReturnInv
<1> QED BY <1>1, BatchAccount, PTL

\* The failure a batch reports is the worst of its calls', in whatever order they
\* were joined, and a batch that fails always has one to report.
THEOREM ReportsTheWorst == Spec => []WorstFailureReported
<1>1. BatchInv => WorstFailureReported
  <2>1. SUFFICES ASSUME BatchInv, phase = "returned", ending = "batch", ~cancelled
                 PROVE  /\ outcome # "unexplained"
                        /\ \A c \in Calls : Fails(c) =>
                             /\ outcome = failure.kind
                             /\ Outranks(c)
    <3>1. \A c \in Calls :
             Fails(c) => KindOf(c) = IF result[c] = "panicked" THEN "other" ELSE result[c]
      BY Ranks DEF Fails, KindOf
    <3> QED BY <3>1 DEF WorstFailureReported, Fails, Outranks
  <2>2. IF failure = None THEN outcome = "settled" ELSE outcome = failure.kind
    BY <2>1 DEF BatchInv, ReturnInv
  <2>3. outcome # "unexplained"
    BY <2>1, <2>2, Ranks DEF BatchInv, FailureInv
  <2>4. ASSUME NEW c \in Calls, Fails(c)
        PROVE  outcome = failure.kind /\ Outranks(c)
    <3>1. result[c] # None
      BY <2>4, NoneAssumption DEF Fails, Results
    <3>2. task[c] = "joined"
      BY <2>1, <3>1 DEF BatchInv, PhaseInv
    <3>3. Outranks(c)
      BY <2>1, <2>4, <3>2 DEF BatchInv, FailureInv
    <3> QED BY <2>2, <3>3 DEF Outranks
  <2> QED BY <2>3, <2>4
<1> QED BY <1>1, BatchAccount, PTL

\* When a batch has returned, none of its tasks runs on, and no lock is held or
\* waited for, although tools may ignore their cancellation and be aborted.
THEOREM LeavesNothingBehind == Spec => []NothingDetached
<1>1. BatchInv /\ GateInv => NothingDetached
  <2>1. SUFFICES ASSUME BatchInv, GateInv, phase = "returned"
                 PROVE  /\ \A c \in Calls : task[c] \in {"unspawned", "joined"}
                        /\ \A l \in Locks : holders[l] = {} /\ waiting[l] = << >>
    BY DEF NothingDetached
  <2>2. \A c \in Calls : task[c] \in {"unspawned", "joined"}
    BY <2>1 DEF BatchInv, PhaseInv
  <2>3. ASSUME NEW l \in Locks PROVE holders[l] = {} /\ waiting[l] = << >>
    <3>1. holders[l] \subseteq Calls /\ waiting[l] \in Seq(Calls)
      BY <2>1 DEF GateInv, GateTypes
    <3>2. holders[l] = {}
      BY <2>1, <2>2, <3>1 DEF GateInv, HoldersRun
    <3>3. ASSUME waiting[l] # << >> PROVE FALSE
      <4>1. 1 \in DOMAIN waiting[l] /\ waiting[l][1] \in Calls
        BY <3>1, <3>3
      <4>2. task[waiting[l][1]] = "admission"
        BY <2>1, <4>1 DEF GateInv, WaitersAsk, WaitsFor
      <4> QED BY <2>2, <4>1, <4>2
    <3> QED BY <3>2, <3>3
  <2> QED BY <2>2, <2>3
<1> QED BY <1>1, BatchAccount, GateHolds, PTL
==============================================================================
