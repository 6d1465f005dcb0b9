--------------------------- MODULE AppServerProofs ---------------------------
(***************************************************************************)
(* What the app server promises, whatever its connections, threads and     *)
(* requests.                                                               *)
(*                                                                         *)
(* QueueInv is about the queues: a key has one task at most, every request *)
(* that is served is in the batch of its key's task, and a batch that      *)
(* others may join holds reads.  CleanupInv is about a connection that has *)
(* gone: its gate is closed before its queued requests are discarded, and  *)
(* stays so.  DrainInv is about the loop that drains: what it has read of  *)
(* the permits stays true, since admission is closed, and without a permit *)
(* no turn starts.                                                         *)
(***************************************************************************)
EXTENDS AppServer, OrderLemmas, FiniteSetTheorems, TLAPS

------------------------------------------------------------------------------
(* Types and steps                                                          *)

TaskRecords == [pc : {"none", "serving", "joining", "ended"}, access : {"exclusive", "read"},
                batch : SUBSET Nat]

\* The types the arguments below use.
QueueTypes ==
    /\ request \in Seq(Profiles)
    /\ status \in [DOMAIN request -> Statuses]
    /\ task \in [DOMAIN request -> TaskRecords]
    /\ queue \in [Keys -> SUBSET (DOMAIN request)]
    /\ exists \subseteq Keys

\* A request that its batch runs.
Held == {"taken", "entered", "handling", "handled"}

\* The handler of a request moves it on, and out of its batch when it is over.
HandlerStep(n, s) ==
    /\ \/ status[n] \in {"taken", "spawned"} /\ s \in {"entered", "dropped"}
       \/ status[n] = "entered" /\ s \in {"handling", "done"}
       \/ status[n] = "handling" /\ s \in {"handled", "done", "detached"}
       \/ status[n] \in {"handled", "detached"} /\ s = "done"
    /\ SetStatus(n, s)
    /\ \/ Leave(n) /\ s \notin Held
       \/ UNCHANGED task /\ (s \in Held \/ status[n] = "detached")
    /\ UNCHANGED <<request, queue, exists>>

\* What a step may do to the requests and their queues.
QueueStep ==
    \/ UNCHANGED <<request, status, queue, exists, task>>
    \/ \E p \in Profiles : Enqueue(p) \/ Refuse(p)
    \/ \E n \in DOMAIN request : NextBatch(n) \/ EndDrain(n) \/ HearChange(n) \/ JoinReads(n)
    \/ \E c \in Connections : DiscardClosed(c)
    \/ \E n \in DOMAIN request, s \in Statuses : HandlerStep(n, s)

\* Every step of the server is one of those.
LEMMA NextIsAQueueStep ==
    ASSUME [Next]_vars
    PROVE  QueueStep
<1> USE DEF QueueStep, requestVars, queueVars, gateVars
<1>1. CASE \E p \in Profiles : Incoming(p)
  BY <1>1 DEF Incoming
<1>2. CASE \E c \in Connections : ConnectionClosed(c)
  BY <1>2 DEF ConnectionClosed
<1>3. CASE \E forceable \in BOOLEAN : OnSignal(forceable)
  BY <1>3 DEF OnSignal
<1>4. CASE TransportsGone
  BY <1>4 DEF TransportsGone
<1>5. CASE ServerLoop
  BY <1>5 DEF ServerLoop, WatchChanged, ReapCleanup, ReadActive, ReadHeard, Update,
              ShutdownThreads, Exit
<1>6. CASE Queues
  BY <1>6 DEF Queues, DrainTask
<1>7. CASE Cleanups
  BY <1>7 DEF Cleanups, CleanupTask, CloseGate, HandlersGone, GiveUpWaiting
<1>8. ASSUME NEW n \in DOMAIN request, Handler(n) PROVE QueueStep
  <2> USE <1>8 DEF HandlerStep, Held, Statuses, SetStatus
  <2>1. CASE Begin(n)
    BY <2>1 DEF Begin
  <2>2. CASE HandleTurn(n)
    BY <2>2 DEF HandleTurn
  <2>3. CASE Enter(n)
    BY <2>3 DEF Enter
  <2>4. CASE Finish(n)
    BY <2>4 DEF Finish
  <2>5. CASE Detach(n)
    BY <2>5 DEF Detach
  <2>6. CASE FinishDetached(n)
    BY <2>6 DEF FinishDetached
  <2> QED BY <2>1, <2>2, <2>3, <2>4, <2>5, <2>6 DEF Handler, FinishRequest
<1>9. CASE \E t \in Threads : EndTurn(t) \/ HandleEvent(t) \/ BeginUnload(t) \/ Unload(t)
  BY <1>9 DEF EndTurn, HandleEvent, BeginUnload, Unload, ForgetThread, ShutThread, RemoveThread
<1>10. CASE UNCHANGED vars
  BY <1>10 DEF vars
<1> QED BY <1>1, <1>2, <1>3, <1>4, <1>5, <1>6, <1>7, <1>8, <1>9, <1>10 DEF Next

\* A request that arrives comes after all the others, and changes none.
LEMMA Arrives ==
    ASSUME QueueTypes, NEW p \in Profiles, NEW s \in Statuses, NEW r \in TaskRecords,
           request' = Append(request, p), status' = Append(status, s), task' = Append(task, r)
    PROVE  /\ NewRequest \notin DOMAIN request /\ NewRequest \in Nat
           /\ DOMAIN request' = DOMAIN request \cup {NewRequest}
           /\ request' \in Seq(Profiles)
           /\ status' \in [DOMAIN request' -> Statuses]
           /\ task' \in [DOMAIN request' -> TaskRecords]
           /\ request'[NewRequest] = p /\ status'[NewRequest] = s /\ task'[NewRequest] = r
           /\ \A n \in DOMAIN request :
                /\ n \in Nat /\ n < NewRequest
                /\ request'[n] = request[n] /\ status'[n] = status[n] /\ task'[n] = task[n]
<1>1. Len(request) \in Nat /\ DOMAIN request = 1..Len(request)
  BY DEF QueueTypes
<1>2. status \in Seq(Statuses) /\ Len(status) = Len(request)
  BY <1>1, FunctionIsSeq DEF QueueTypes
<1>3. task \in Seq(TaskRecords) /\ Len(task) = Len(request)
  BY <1>1, FunctionIsSeq DEF QueueTypes
<1>4. request' \in Seq(Profiles) /\ Len(request') = Len(request) + 1
      /\ request'[Len(request) + 1] = p
      /\ \A n \in 1..Len(request) : request'[n] = request[n]
  BY <1>1 DEF QueueTypes
<1>5. status' \in Seq(Statuses) /\ Len(status') = Len(request) + 1
      /\ status'[Len(request) + 1] = s
      /\ \A n \in 1..Len(request) : status'[n] = status[n]
  BY <1>1, <1>2
<1>6. task' \in Seq(TaskRecords) /\ Len(task') = Len(request) + 1
      /\ task'[Len(request) + 1] = r
      /\ \A n \in 1..Len(request) : task'[n] = task[n]
  BY <1>1, <1>3
<1>7. DOMAIN request' = DOMAIN request \cup {Len(request) + 1}
  BY <1>1, <1>4
<1>8. status' \in [DOMAIN request' -> Statuses] /\ task' \in [DOMAIN request' -> TaskRecords]
  <2>1. DOMAIN request' = 1..(Len(request) + 1)
    BY <1>4
  <2> QED BY <1>1, <1>5, <1>6, <2>1, LenProperties
<1> QED BY <1>1, <1>4, <1>5, <1>6, <1>7, <1>8 DEF NewRequest
------------------------------------------------------------------------------
(* The queues                                                               *)

Live(t) == task[t].pc \in {"serving", "joining"}

\* A queue holds the requests of its key that are queued, and all of them.
QueueHolds ==
    /\ \A k \in Keys : \A n \in queue[k] : KeyOf(n) = k /\ status[n] = "queued"
    /\ \A n \in DOMAIN request :
         status[n] = "queued" => KeyOf(n) \in Keys /\ n \in queue[KeyOf(n)]

\* A key has one task at most, and has one only while it has a queue.
OneTask ==
    /\ \A t \in DOMAIN request : Live(t) => KeyOf(t) \in exists
    /\ \A t, u \in DOMAIN request : Live(t) /\ Live(u) /\ KeyOf(t) = KeyOf(u) => t = u

\* A request that is served is in the batch of its key's task.
InBatch(n) ==
    \E t \in DOMAIN request : Live(t) /\ n \in task[t].batch /\ KeyOf(t) = KeyOf(n)

ServedInBatch ==
    /\ \A n \in DOMAIN request : KeyOf(n) # NoKey /\ status[n] \in Held => InBatch(n)
    /\ \A n \in DOMAIN request : status[n] = "spawned" => KeyOf(n) = NoKey

\* A batch that reads join holds reads.
ReadBatch(t) ==
    /\ task[t].batch \subseteq DOMAIN request
    /\ task[t].access = "read" => \A n \in task[t].batch : request[n].access = "read"
    /\ task[t].pc = "joining" => task[t].access = "read"

ReadBatches == \A t \in DOMAIN request : ReadBatch(t)

QueueInv == QueueTypes /\ QueueHolds /\ OneTask /\ ServedInBatch /\ ReadBatches /\ Serialized

\* The request at the front of a queue is its first.
LEMMA FrontIsFirst ==
    ASSUME NEW q, q \subseteq Nat, q # {}
    PROVE  Front(q) \in q /\ \A m \in q : Front(q) <= m
<1>1. \E n \in q : \A m \in q : n <= m
  BY LeastNatural
<1> QED BY <1>1 DEF Front

\* A request that joins its key's queue, or opens it and spawns its task.
LEMMA EnqueueStep ==
    ASSUME QueueInv, NEW p \in Profiles, Enqueue(p)
    PROVE  QueueInv'
<1> DEFINE s == IF p.key = NoKey THEN "spawned" ELSE "queued"
           r == IF p.key = NoKey \/ p.key \in exists THEN NoTask
                ELSE [NoTask EXCEPT !.pc = "serving"]
<1>1. s \in Statuses /\ r \in TaskRecords /\ r.batch = {} /\ r.access = "exclusive"
      /\ r.pc = IF p.key = NoKey \/ p.key \in exists THEN "none" ELSE "serving"
  BY DEF Statuses, TaskRecords, NoTask
<1>2. request' = Append(request, p) /\ status' = Append(status, s) /\ task' = Append(task, r)
  BY DEF Enqueue
<1> HIDE DEF s, r
<1>3. PICK N \in Nat :
      /\ N = NewRequest /\ N \notin DOMAIN request
      /\ DOMAIN request' = DOMAIN request \cup {N}
      /\ request' \in Seq(Profiles)
      /\ status' \in [DOMAIN request' -> Statuses]
      /\ task' \in [DOMAIN request' -> TaskRecords]
      /\ request'[N] = p /\ status'[N] = s /\ task'[N] = r
      /\ \A n \in DOMAIN request :
           /\ n \in Nat /\ n < N
           /\ request'[n] = request[n] /\ status'[n] = status[n] /\ task'[n] = task[n]
  BY <1>1, <1>2, Arrives DEF QueueInv
<1>4. p.key \in Keys \cup {NoKey} /\ NoKey \notin Keys
  BY ProfilesAssumption, KeysAssumption DEF Keys
<1>5. /\ exists' = IF p.key = NoKey THEN exists ELSE exists \cup {p.key}
      /\ p.key # NoKey => queue' = [queue EXCEPT ![p.key] = @ \cup {N}]
      /\ p.key = NoKey => queue' = queue
  BY <1>3 DEF Enqueue
<1>6. \A k \in Keys : queue'[k] = IF k = p.key THEN queue[k] \cup {N} ELSE queue[k]
  BY <1>4, <1>5 DEF QueueInv, QueueTypes
<1>7. QueueTypes'
  <2>1. queue \in [Keys -> SUBSET (DOMAIN request)]
    BY DEF QueueInv, QueueTypes
  <2>2. queue' \in [Keys -> SUBSET (DOMAIN request')]
    BY <1>3, <1>4, <1>5, <2>1
  <2> QED BY <1>3, <1>4, <1>5, <2>2 DEF QueueInv, QueueTypes
<1>8. (\A n \in DOMAIN request : KeyOf(n)' = KeyOf(n)) /\ KeyOf(N)' = p.key
  BY <1>3 DEF KeyOf
<1>9. QueueHolds'
  <2>1. \A k \in Keys : \A n \in queue'[k] : KeyOf(n)' = k /\ status'[n] = "queued"
    <3>1. TAKE k \in Keys
    <3>2. TAKE n \in queue'[k]
    <3>3. CASE n \in queue[k]
      <4>1. n \in DOMAIN request /\ KeyOf(n) = k /\ status[n] = "queued"
        BY <3>3 DEF QueueInv, QueueTypes, QueueHolds
      <4> QED BY <1>3, <4>1 DEF KeyOf
    <3>4. CASE n \notin queue[k]
      <4>1. n = N /\ k = p.key
        BY <1>6, <3>4
      <4>2. s = "queued"
        BY <1>4, <4>1 DEF s
      <4> QED BY <1>3, <1>8, <4>1, <4>2
    <3> QED BY <3>3, <3>4
  <2>2. ASSUME NEW n \in DOMAIN request', status'[n] = "queued"
        PROVE  KeyOf(n)' \in Keys /\ n \in queue'[KeyOf(n)']
    <3>1. CASE n = N
      BY <1>3, <1>4, <1>6, <2>2, <3>1 DEF KeyOf, s
    <3>2. CASE n # N
      <4>1. n \in DOMAIN request /\ status[n] = "queued" /\ request'[n] = request[n]
        BY <1>3, <2>2, <3>2
      <4>2. KeyOf(n) \in Keys /\ n \in queue[KeyOf(n)] /\ KeyOf(n)' = KeyOf(n)
        BY <4>1 DEF QueueInv, QueueHolds, KeyOf
      <4> QED BY <1>6, <4>2
    <3> QED BY <3>1, <3>2
  <2> QED BY <2>1, <2>2 DEF QueueHolds
<1>10. OneTask'
  <2>1. \A t \in DOMAIN request' :
          Live(t)' => \/ t \in DOMAIN request /\ Live(t)
                      \/ t = N /\ p.key \notin exists /\ p.key # NoKey
    BY <1>1, <1>3 DEF Live
  <2> QED BY <1>3, <1>5, <1>8, <2>1 DEF QueueInv, OneTask
<1>11. ServedInBatch'
  <2>1. ASSUME NEW n \in DOMAIN request', KeyOf(n)' # NoKey, status'[n] \in Held
        PROVE  InBatch(n)'
    <3>1. n \in DOMAIN request
      BY <1>3, <2>1 DEF s, Held
    <3>2. KeyOf(n) # NoKey /\ status[n] \in Held
      BY <1>3, <2>1, <3>1 DEF KeyOf, Held
    <3>3. PICK t \in DOMAIN request : Live(t) /\ n \in task[t].batch /\ KeyOf(t) = KeyOf(n)
      BY <3>1, <3>2 DEF QueueInv, ServedInBatch, InBatch
    <3> QED BY <1>3, <3>1, <3>3 DEF InBatch, Live, KeyOf
  <2>2. ASSUME NEW n \in DOMAIN request', status'[n] = "spawned" PROVE KeyOf(n)' = NoKey
    BY <1>3, <2>2 DEF QueueInv, ServedInBatch, KeyOf, s
  <2> QED BY <2>1, <2>2 DEF ServedInBatch
<1>12. ReadBatches'
  <2>1. ASSUME NEW t \in DOMAIN request' PROVE ReadBatch(t)'
    BY <1>1, <1>3 DEF QueueInv, ReadBatches, ReadBatch
  <2> QED BY <2>1 DEF ReadBatches
<1>13. Serialized'
  <2>1. ASSUME NEW n \in DOMAIN request', NEW m \in DOMAIN request', m < n,
               KeyOf(m)' = KeyOf(n)', KeyOf(n)' # NoKey,
               ~(request'[m].access = "read" /\ request'[n].access = "read"),
               status'[n] \in Running \cup {"taken", "done"}
        PROVE  status'[m] \in Settled \cup {"detached"}
    <3>1. n # N
      BY <1>3, <2>1 DEF s, Running, KeyOf
    <3>2. n \in DOMAIN request /\ m \in DOMAIN request
      BY <1>3, <2>1, <3>1
    <3> QED BY <1>3, <2>1, <3>2 DEF QueueInv, Serialized, KeyOf
  <2> QED BY <2>1 DEF Serialized
<1> QED BY <1>7, <1>9, <1>10, <1>11, <1>12, <1>13 DEF QueueInv

\* A request that is refused changes no queue.
LEMMA RefuseStep ==
    ASSUME QueueInv, NEW p \in Profiles, Refuse(p)
    PROVE  QueueInv'
<1>1. "refused" \in Statuses /\ NoTask \in TaskRecords /\ NoTask.pc = "none"
      /\ NoTask.batch = {} /\ NoTask.access = "exclusive"
  BY DEF Statuses, TaskRecords, NoTask
<1>2. /\ request' = Append(request, p) /\ status' = Append(status, "refused")
      /\ task' = Append(task, NoTask) /\ UNCHANGED <<queue, exists>>
  BY DEF Refuse
<1>3. PICK N \in Nat :
      /\ N = NewRequest /\ N \notin DOMAIN request
      /\ DOMAIN request' = DOMAIN request \cup {N}
      /\ request' \in Seq(Profiles)
      /\ status' \in [DOMAIN request' -> Statuses]
      /\ task' \in [DOMAIN request' -> TaskRecords]
      /\ status'[N] = "refused" /\ task'[N] = NoTask
      /\ \A n \in DOMAIN request :
           /\ n \in Nat /\ n < N
           /\ request'[n] = request[n] /\ status'[n] = status[n] /\ task'[n] = task[n]
  BY <1>1, <1>2, Arrives DEF QueueInv
<1>4. \A n \in DOMAIN request : KeyOf(n)' = KeyOf(n)
  BY <1>3 DEF KeyOf
<1>5. QueueTypes'
  <2>1. queue' \in [Keys -> SUBSET (DOMAIN request')]
    BY <1>2, <1>3 DEF QueueInv, QueueTypes
  <2> QED BY <1>2, <1>3, <2>1 DEF QueueInv, QueueTypes
<1>6. QueueHolds'
  <2>1. ASSUME NEW k \in Keys, NEW n \in queue'[k]
        PROVE  KeyOf(n)' = k /\ status'[n] = "queued"
    <3>1. n \in DOMAIN request /\ n \in queue[k]
      BY <1>2, <2>1 DEF QueueInv, QueueTypes
    <3> QED BY <1>3, <1>4, <3>1 DEF QueueInv, QueueHolds
  <2>2. ASSUME NEW n \in DOMAIN request', status'[n] = "queued"
        PROVE  KeyOf(n)' \in Keys /\ n \in queue'[KeyOf(n)']
    <3>1. n \in DOMAIN request /\ status[n] = "queued"
      BY <1>3, <2>2
    <3> QED BY <1>2, <1>4, <3>1 DEF QueueInv, QueueHolds
  <2> QED BY <2>1, <2>2 DEF QueueHolds
<1>7. OneTask'
  <2>1. \A t \in DOMAIN request' : Live(t)' => t \in DOMAIN request /\ Live(t)
    BY <1>1, <1>3 DEF Live
  <2> QED BY <1>2, <1>4, <2>1 DEF QueueInv, OneTask
<1>8. ServedInBatch'
  <2>1. ASSUME NEW n \in DOMAIN request', KeyOf(n)' # NoKey, status'[n] \in Held
        PROVE  InBatch(n)'
    <3>1. n \in DOMAIN request /\ KeyOf(n) # NoKey /\ status[n] \in Held
      BY <1>3, <1>4, <2>1 DEF Held
    <3>2. PICK t \in DOMAIN request : Live(t) /\ n \in task[t].batch /\ KeyOf(t) = KeyOf(n)
      BY <3>1 DEF QueueInv, ServedInBatch, InBatch
    <3> QED BY <1>3, <3>1, <3>2 DEF InBatch, Live, KeyOf
  <2>2. ASSUME NEW n \in DOMAIN request', status'[n] = "spawned" PROVE KeyOf(n)' = NoKey
    BY <1>3, <1>4, <2>2 DEF QueueInv, ServedInBatch
  <2> QED BY <2>1, <2>2 DEF ServedInBatch
<1>9. ReadBatches'
  <2>1. ASSUME NEW t \in DOMAIN request' PROVE ReadBatch(t)'
    BY <1>1, <1>3 DEF QueueInv, ReadBatches, ReadBatch
  <2> QED BY <2>1 DEF ReadBatches
<1>10. Serialized'
  <2>1. ASSUME NEW n \in DOMAIN request', NEW m \in DOMAIN request', m < n,
               KeyOf(m)' = KeyOf(n)', KeyOf(n)' # NoKey,
               ~(request'[m].access = "read" /\ request'[n].access = "read"),
               status'[n] \in Running \cup {"taken", "done"}
        PROVE  status'[m] \in Settled \cup {"detached"}
    <3>1. n \in DOMAIN request /\ m \in DOMAIN request
      BY <1>3, <2>1 DEF Running
    <3> QED BY <1>3, <1>4, <2>1, <3>1 DEF QueueInv, Serialized
  <2> QED BY <2>1 DEF Serialized
<1> QED BY <1>5, <1>6, <1>7, <1>8, <1>9, <1>10 DEF QueueInv

\* What a task may take from its queue: nothing that would overtake a request or
\* run beside one, unless both are reads.
MayTake(n, taken, access) ==
    /\ taken \subseteq queue[KeyOf(n)]
    /\ access = "read" => \A b \in task[n].batch \cup taken : request[b].access = "read"
    /\ \A b \in taken, m \in queue[KeyOf(n)] \cup task[n].batch :
         m < b => request[m].access = "read" /\ request[b].access = "read"

\* A task takes requests.
LEMMA TakeStep ==
    ASSUME QueueInv, NEW n \in DOMAIN request, Live(n), UNCHANGED <<request, exists>>,
           NEW taken, NEW access \in {"exclusive", "read"}, MayTake(n, taken, access),
           Take(n, taken, access)
    PROVE  QueueInv'
<1>1. /\ KeyOf(n) \in Keys /\ DOMAIN request \subseteq Nat
      /\ task[n] \in TaskRecords /\ task[n].batch \subseteq DOMAIN request
      /\ queue[KeyOf(n)] \subseteq DOMAIN request
  BY DEF QueueInv, QueueTypes, OneTask, ReadBatches, ReadBatch
<1>2. taken \subseteq DOMAIN request
      /\ \A b \in taken : KeyOf(b) = KeyOf(n) /\ status[b] = "queued"
  BY <1>1 DEF MayTake, QueueInv, QueueHolds
<1>3. \A k \in Keys : queue'[k] = IF k = KeyOf(n) THEN queue[k] \ taken ELSE queue[k]
  BY <1>1 DEF Take, QueueInv, QueueTypes
<1>4. \A r \in DOMAIN request : status'[r] = IF r \in taken THEN "taken" ELSE status[r]
  BY DEF Take, QueueInv, QueueTypes
<1>5. \A t \in DOMAIN request :
        task'[t] = IF t = n THEN [pc |-> "serving", access |-> access,
                                  batch |-> task[n].batch \cup taken]
                            ELSE task[t]
  BY DEF Take, QueueInv, QueueTypes
<1>6. /\ task'[n].pc = "serving" /\ task'[n].access = access
      /\ task'[n].batch = task[n].batch \cup taken
  BY <1>5
<1>7. \A t \in DOMAIN request : KeyOf(t)' = KeyOf(t)
  BY DEF KeyOf
<1>8. \A t \in DOMAIN request : Live(t)' <=> Live(t)
  BY <1>5, <1>6 DEF Live
<1>9. QueueTypes'
  <2>1. queue' \in [Keys -> SUBSET (DOMAIN request)]
    BY <1>3 DEF Take, QueueInv, QueueTypes
  <2>2. status' \in [DOMAIN request -> Statuses]
    BY DEF Take, QueueInv, QueueTypes, Statuses
  <2>3. [pc |-> "serving", access |-> access, batch |-> task[n].batch \cup taken] \in TaskRecords
    BY <1>1, <1>2 DEF TaskRecords
  <2>4. task' \in [DOMAIN request -> TaskRecords]
    BY <2>3 DEF Take, QueueInv, QueueTypes
  <2> QED BY <2>1, <2>2, <2>4 DEF QueueInv, QueueTypes
<1>10. QueueHolds'
  <2>1. ASSUME NEW k \in Keys, NEW b \in queue'[k]
        PROVE  KeyOf(b)' = k /\ status'[b] = "queued"
    <3>1. b \in DOMAIN request /\ b \in queue[k] /\ KeyOf(b) = k /\ status[b] = "queued"
      BY <1>3, <2>1 DEF QueueInv, QueueTypes, QueueHolds
    <3>2. b \notin taken
      BY <1>2, <1>3, <2>1, <3>1
    <3> QED BY <1>4, <1>7, <3>1, <3>2
  <2>2. ASSUME NEW b \in DOMAIN request, status'[b] = "queued"
        PROVE  KeyOf(b)' \in Keys /\ b \in queue'[KeyOf(b)']
    <3>1. b \notin taken /\ status[b] = "queued"
      BY <1>4, <2>2
    <3>2. KeyOf(b) \in Keys /\ b \in queue[KeyOf(b)]
      BY <3>1 DEF QueueInv, QueueHolds
    <3>3. b \in queue'[KeyOf(b)]
      BY <1>3, <3>1, <3>2
    <3> QED BY <1>7, <3>2, <3>3
  <2> QED BY <2>1, <2>2 DEF QueueHolds
<1>11. OneTask'
  BY <1>7, <1>8 DEF QueueInv, OneTask
<1>12. ServedInBatch'
  <2>1. ASSUME NEW b \in DOMAIN request, KeyOf(b) # NoKey, status'[b] \in Held
        PROVE  InBatch(b)'
    <3>1. CASE b \in taken
      BY <1>2, <1>6, <1>7, <1>8, <3>1 DEF InBatch
    <3>2. CASE b \notin taken
      <4>1. PICK t \in DOMAIN request : Live(t) /\ b \in task[t].batch /\ KeyOf(t) = KeyOf(b)
        BY <1>4, <2>1, <3>2 DEF QueueInv, ServedInBatch, InBatch
      <4>2. b \in task'[t].batch
        BY <1>5, <1>6, <4>1
      <4> QED BY <1>7, <1>8, <4>1, <4>2 DEF InBatch
    <3> QED BY <3>1, <3>2
  <2>2. ASSUME NEW b \in DOMAIN request, status'[b] = "spawned" PROVE KeyOf(b) = NoKey
    BY <1>4, <2>2 DEF QueueInv, ServedInBatch
  <2> QED BY <1>7, <2>1, <2>2 DEF ServedInBatch
<1>13. ReadBatches'
  <2>1. ASSUME NEW t \in DOMAIN request PROVE ReadBatch(t)'
    <3>1. CASE t = n
      BY <1>1, <1>2, <1>6, <3>1 DEF MayTake, ReadBatch
    <3>2. CASE t # n
      BY <1>5, <3>2 DEF QueueInv, ReadBatches, ReadBatch
    <3> QED BY <3>1, <3>2
  <2> QED BY <2>1 DEF ReadBatches
<1>14. Serialized'
  <2>1. ASSUME NEW b \in DOMAIN request, NEW m \in DOMAIN request, m < b,
               KeyOf(m) = KeyOf(b), KeyOf(b) # NoKey,
               ~(request[m].access = "read" /\ request[b].access = "read"),
               status'[b] \in Running \cup {"taken", "done"}
        PROVE  status'[m] \in Settled \cup {"detached"}
    <3>1. CASE b \in taken
      <4>1. m \notin queue[KeyOf(n)] /\ m \notin task[n].batch
        BY <2>1, <3>1 DEF MayTake
      <4>2. status[m] # "queued"
        BY <1>2, <2>1, <3>1, <4>1 DEF QueueInv, QueueHolds
      <4>3. status[m] \notin Held
        BY <1>2, <2>1, <3>1, <4>1 DEF QueueInv, ServedInBatch, InBatch, OneTask
      <4>4. status[m] # "spawned" /\ status[m] \in Statuses
        BY <2>1 DEF QueueInv, QueueTypes, ServedInBatch
      <4>5. status'[m] = status[m]
        BY <1>2, <1>4, <4>2
      <4> QED BY <4>2, <4>3, <4>4, <4>5 DEF Statuses, Held, Settled
    <3>2. CASE b \notin taken
      <4>1. status[m] \in Settled \cup {"detached"}
        BY <1>4, <2>1, <3>2 DEF QueueInv, Serialized
      <4>2. m \notin taken
        BY <1>2, <4>1 DEF Settled
      <4> QED BY <1>4, <4>1, <4>2
    <3> QED BY <3>1, <3>2
  <2> QED BY <1>7, <2>1 DEF Serialized
<1> QED BY <1>9, <1>10, <1>11, <1>12, <1>13, <1>14 DEF QueueInv

\* The reads at the front are reads, with nothing else before them.
LEMMA FrontReadsAreFirst ==
    ASSUME NEW q, q \subseteq Nat
    PROVE  /\ FrontReads(q) \subseteq q
           /\ \A b \in FrontReads(q) : \A m \in q :
                m <= b => request[m].access = "read" /\ request[b].access = "read"
<1>1. \A b \in q : b <= b
  OBVIOUS
<1> QED BY <1>1 DEF FrontReads

\* A task that has served its batch takes the next.
LEMMA NextBatchStep ==
    ASSUME QueueInv, NEW n \in DOMAIN request, NextBatch(n)
    PROVE  QueueInv'
<1> DEFINE q == queue[KeyOf(n)]
           first == request[Front(q)].access
           taken == IF first = "read" THEN FrontReads(q) ELSE {Front(q)}
<1>1. /\ Live(n) /\ UNCHANGED <<request, exists>> /\ task[n].batch = {}
      /\ q # {} /\ Take(n, taken, first)
  BY DEF NextBatch, Live
<1>2. q \subseteq DOMAIN request /\ DOMAIN request \subseteq Nat
  BY <1>1 DEF QueueInv, QueueTypes, OneTask
<1>3. Front(q) \in q /\ \A m \in q : Front(q) <= m
  BY <1>1, <1>2, FrontIsFirst
<1>4. request[Front(q)] \in Profiles
  BY <1>2, <1>3 DEF QueueInv, QueueTypes
<1>5. first \in {"exclusive", "read"}
  BY <1>4, ProfilesAssumption
<1> HIDE DEF first
<1>6. CASE first = "read"
  <2>1. /\ FrontReads(q) \subseteq q
        /\ \A b \in FrontReads(q) : \A m \in q :
             m <= b => request[m].access = "read" /\ request[b].access = "read"
    BY <1>2, FrontReadsAreFirst
  <2>2. \A b \in FrontReads(q) : b <= b /\ b \in Nat
    BY <1>2, <2>1
  <2>3. MayTake(n, taken, first)
    BY <1>1, <1>2, <1>6, <2>1, <2>2 DEF MayTake
  <2> QED BY <1>1, <1>5, <2>3, TakeStep
<1>7. CASE first # "read"
  <2>1. \A m \in q : ~(m < Front(q))
    BY <1>2, <1>3
  <2>2. MayTake(n, taken, first)
    BY <1>1, <1>3, <1>7, <2>1 DEF MayTake
  <2> QED BY <1>1, <1>5, <2>2, TakeStep
<1> QED BY <1>6, <1>7

\* A task that serves reads takes those that have come to the front.
LEMMA JoinReadsStep ==
    ASSUME QueueInv, NEW n \in DOMAIN request, JoinReads(n)
    PROVE  QueueInv'
<1> DEFINE q == queue[KeyOf(n)]
<1>1. /\ Live(n) /\ UNCHANGED <<request, exists>> /\ Take(n, FrontReads(q), "read")
  BY DEF JoinReads, Live
<1>2. q \subseteq DOMAIN request /\ DOMAIN request \subseteq Nat
  BY <1>1 DEF QueueInv, QueueTypes, OneTask
<1>3. /\ FrontReads(q) \subseteq q
      /\ \A b \in FrontReads(q) : \A m \in q :
           m <= b => request[m].access = "read" /\ request[b].access = "read"
  BY <1>2, FrontReadsAreFirst
<1>4. \A b \in task[n].batch : request[b].access = "read" /\ b \in DOMAIN request
  BY DEF JoinReads, QueueInv, ReadBatches, ReadBatch
<1>5. \A b \in FrontReads(q) : b <= b /\ b \in Nat /\ request[b].access = "read"
  BY <1>2, <1>3
<1>6. MayTake(n, FrontReads(q), "read")
  BY <1>2, <1>3, <1>4, <1>5 DEF MayTake
<1> QED BY <1>1, <1>6, TakeStep

\* A task that ends takes its key's queue with it.
LEMMA EndDrainStep ==
    ASSUME QueueInv, NEW n \in DOMAIN request, EndDrain(n)
    PROVE  QueueInv'
<1>1. /\ UNCHANGED <<request, status, queue>> /\ exists' = exists \ {KeyOf(n)}
      /\ Live(n) /\ task[n].batch = {}
  BY DEF EndDrain, Live
<1>2. \A t \in DOMAIN request : task'[t] = IF t = n THEN [NoTask EXCEPT !.pc = "ended"] ELSE task[t]
  BY DEF EndDrain, QueueInv, QueueTypes
<1>3. /\ [NoTask EXCEPT !.pc = "ended"] \in TaskRecords
      /\ task'[n].pc = "ended" /\ task'[n].batch = {} /\ task'[n].access = "exclusive"
  BY <1>2 DEF NoTask, TaskRecords
<1>4. task' \in [DOMAIN request -> TaskRecords]
  BY <1>3 DEF EndDrain, QueueInv, QueueTypes
<1>5. QueueTypes' /\ QueueHolds'
  BY <1>1, <1>4 DEF QueueInv, QueueTypes, QueueHolds, KeyOf
<1>6. \A t \in DOMAIN request : Live(t)' <=> Live(t) /\ t # n
  BY <1>2, <1>3 DEF Live
<1>7. OneTask'
  BY <1>1, <1>6 DEF QueueInv, OneTask, KeyOf
<1>8. ServedInBatch'
  <2>1. ASSUME NEW b \in DOMAIN request, InBatch(b) PROVE InBatch(b)'
    <3>1. PICK t \in DOMAIN request : Live(t) /\ b \in task[t].batch /\ KeyOf(t) = KeyOf(b)
      BY <2>1 DEF InBatch
    <3>2. t # n /\ task'[t] = task[t]
      BY <1>1, <1>2, <3>1
    <3> QED BY <1>1, <1>6, <3>1, <3>2 DEF InBatch, KeyOf
  <2> QED BY <1>1, <2>1 DEF QueueInv, ServedInBatch, KeyOf
<1>9. ReadBatches'
  BY <1>1, <1>2, <1>3 DEF QueueInv, ReadBatches, ReadBatch
<1>10. Serialized'
  BY <1>1 DEF QueueInv, Serialized, KeyOf
<1> QED BY <1>5, <1>7, <1>8, <1>9, <1>10 DEF QueueInv

\* A task that is told of a change looks at its queue next.
LEMMA HearChangeStep ==
    ASSUME QueueInv, NEW n \in DOMAIN request, HearChange(n)
    PROVE  QueueInv'
<1>1. UNCHANGED <<request, status, queue, exists>> /\ Live(n) /\ task[n].access = "read"
  BY DEF HearChange, Live
<1>2. task[n] \in TaskRecords
  BY DEF QueueInv, QueueTypes
<1>3. \A t \in DOMAIN request :
        task'[t] = IF t = n THEN [task[n] EXCEPT !.pc = "joining"] ELSE task[t]
  BY DEF HearChange, QueueInv, QueueTypes
<1>4. /\ [task[n] EXCEPT !.pc = "joining"] \in TaskRecords
      /\ task'[n].pc = "joining" /\ task'[n].batch = task[n].batch
      /\ task'[n].access = task[n].access
  BY <1>2, <1>3 DEF TaskRecords
<1>5. task' \in [DOMAIN request -> TaskRecords]
  BY <1>4 DEF HearChange, QueueInv, QueueTypes
<1>6. QueueTypes' /\ QueueHolds' /\ Serialized'
  BY <1>1, <1>5 DEF QueueInv, QueueTypes, QueueHolds, Serialized, KeyOf
<1>7. \A t \in DOMAIN request : (Live(t)' <=> Live(t)) /\ task'[t].batch = task[t].batch
  BY <1>1, <1>3, <1>4 DEF Live
<1>8. OneTask'
  BY <1>1, <1>7 DEF QueueInv, OneTask, KeyOf
<1>9. ServedInBatch'
  <2>1. \A b \in DOMAIN request : InBatch(b) => InBatch(b)'
    BY <1>1, <1>7 DEF InBatch, KeyOf
  <2> QED BY <1>1, <2>1 DEF QueueInv, ServedInBatch, KeyOf
<1>10. ReadBatches'
  BY <1>1, <1>3, <1>4 DEF QueueInv, ReadBatches, ReadBatch
<1> QED BY <1>6, <1>8, <1>9, <1>10 DEF QueueInv

\* The requests of connections that have gone leave the queues.
LEMMA DiscardStep ==
    ASSUME QueueInv, NEW c \in Connections, DiscardClosed(c)
    PROVE  QueueInv'
<1> DEFINE gone == {n \in DOMAIN request : status[n] = "queued" /\ IsClosed(ConnOf(n))}
<1>1. /\ UNCHANGED <<request, exists, task>>
      /\ queue' = [k \in Keys |-> queue[k] \ gone]
      /\ status' = [n \in DOMAIN status |-> IF n \in gone THEN "dropped" ELSE status[n]]
  BY DEF DiscardClosed
<1>2. \A n \in gone : n \in DOMAIN request /\ status[n] = "queued"
  OBVIOUS
<1> HIDE DEF gone
<1>3. \A n \in DOMAIN request : status'[n] = IF n \in gone THEN "dropped" ELSE status[n]
  BY <1>1 DEF QueueInv, QueueTypes
<1>4. QueueTypes'
  BY <1>1 DEF QueueInv, QueueTypes, Statuses
<1>5. QueueHolds'
  BY <1>1, <1>3 DEF QueueInv, QueueTypes, QueueHolds, KeyOf
<1>6. OneTask' /\ ReadBatches'
  BY <1>1 DEF QueueInv, OneTask, ReadBatches, ReadBatch, Live, KeyOf
<1>7. ServedInBatch'
  BY <1>1, <1>3 DEF QueueInv, ServedInBatch, InBatch, Live, KeyOf, Held
<1>8. Serialized'
  BY <1>1, <1>2, <1>3 DEF QueueInv, Serialized, Running, Settled, KeyOf
<1> QED BY <1>4, <1>5, <1>6, <1>7, <1>8 DEF QueueInv

\* A handler moves its request on.
LEMMA HandlerMoves ==
    ASSUME QueueInv, NEW n \in DOMAIN request, NEW s \in Statuses, HandlerStep(n, s)
    PROVE  QueueInv'
<1>1. UNCHANGED <<request, queue, exists>>
  BY DEF HandlerStep
<1>2. \A m \in DOMAIN request : status'[m] = IF m = n THEN s ELSE status[m]
  BY DEF HandlerStep, SetStatus, QueueInv, QueueTypes
<1>3. \A t \in DOMAIN request : task[t] \in TaskRecords
  BY DEF QueueInv, QueueTypes
<1>4. /\ task' \in [DOMAIN request -> TaskRecords]
      /\ \A t \in DOMAIN request :
           /\ task'[t].pc = task[t].pc /\ task'[t].access = task[t].access
           /\ task'[t].batch \subseteq task[t].batch
           /\ \A m \in task[t].batch : m # n => m \in task'[t].batch
           /\ s \in Held => task'[t].batch = task[t].batch
  <2>1. CASE UNCHANGED task
    BY <2>1 DEF QueueInv, QueueTypes
  <2>2. CASE Leave(n) /\ s \notin Held
    <3>1. task' = [t \in DOMAIN request |-> [task[t] EXCEPT !.batch = @ \ {n}]]
      BY <2>2 DEF Leave, QueueInv, QueueTypes
    <3>2. \A t \in DOMAIN request :
            /\ [task[t] EXCEPT !.batch = @ \ {n}] \in TaskRecords
            /\ [task[t] EXCEPT !.batch = @ \ {n}].pc = task[t].pc
            /\ [task[t] EXCEPT !.batch = @ \ {n}].access = task[t].access
            /\ [task[t] EXCEPT !.batch = @ \ {n}].batch = task[t].batch \ {n}
      BY <1>3 DEF TaskRecords
    <3> QED BY <2>2, <3>1, <3>2
  <2> QED BY <2>1, <2>2 DEF HandlerStep
<1>5. QueueTypes'
  BY <1>1, <1>4 DEF HandlerStep, SetStatus, QueueInv, QueueTypes
<1>6. status[n] # "queued" /\ s \notin {"queued", "spawned", "taken"}
  BY DEF HandlerStep
<1>7. QueueHolds'
  BY <1>1, <1>2, <1>6 DEF QueueInv, QueueTypes, QueueHolds, KeyOf
<1>8. OneTask' /\ ReadBatches'
  BY <1>1, <1>4 DEF QueueInv, OneTask, ReadBatches, ReadBatch, Live, KeyOf
<1>9. ServedInBatch'
  <2>1. ASSUME NEW m \in DOMAIN request, KeyOf(m) # NoKey, status'[m] \in Held
        PROVE  InBatch(m)'
    <3>1. status[m] \in Held
      <4>1. CASE m # n
        BY <1>2, <2>1, <4>1
      <4>2. CASE m = n
        BY <1>2, <2>1, <4>2 DEF HandlerStep, Held, QueueInv, ServedInBatch
      <4> QED BY <4>1, <4>2
    <3>2. PICK t \in DOMAIN request : Live(t) /\ m \in task[t].batch /\ KeyOf(t) = KeyOf(m)
      BY <2>1, <3>1 DEF QueueInv, ServedInBatch, InBatch
    <3>3. m \in task'[t].batch
      BY <1>2, <1>4, <2>1, <3>2
    <3> QED BY <1>1, <1>4, <3>2, <3>3 DEF InBatch, Live, KeyOf
  <2> QED BY <1>1, <1>2, <1>6, <2>1 DEF QueueInv, ServedInBatch, KeyOf
<1>10. Serialized'
  <2>1. ASSUME NEW m \in DOMAIN request, status[m] \in Settled \cup {"detached"}
        PROVE  status'[m] \in Settled \cup {"detached"}
    BY <1>2, <2>1 DEF HandlerStep, Settled
  <2>2. ASSUME NEW m \in DOMAIN request, KeyOf(m) # NoKey,
               status'[m] \in Running \cup {"taken", "done"}
        PROVE  status[m] \in Running \cup {"taken", "done"}
    BY <1>2, <2>2 DEF HandlerStep, Running, QueueInv, ServedInBatch
  <2> QED BY <1>1, <2>1, <2>2 DEF QueueInv, Serialized, KeyOf
<1> QED BY <1>5, <1>7, <1>8, <1>9, <1>10 DEF QueueInv

\* The queues keep their order through every step of the server.
LEMMA QueuesHold == Spec => []QueueInv
<1>1. Init => QueueInv
  <2>1. SUFFICES ASSUME Init PROVE QueueInv
    OBVIOUS
  <2>2. /\ request = << >> /\ status = << >> /\ task = << >> /\ exists = {}
        /\ queue = [k \in Keys |-> {}]
    BY <2>1 DEF Init, RequestInit
  <2>3. DOMAIN request = {} /\ \A k \in Keys : queue[k] = {}
    BY <2>2
  <2>4. request \in Seq(Profiles)
    BY <2>2
  <2>5. status \in [DOMAIN request -> Statuses] /\ task \in [DOMAIN request -> TaskRecords]
    BY <2>2, <2>3
  <2>6. QueueTypes
    BY <2>2, <2>4, <2>5 DEF QueueTypes
  <2>7. QueueHolds
    BY <2>3 DEF QueueHolds
  <2>8. OneTask /\ ServedInBatch /\ ReadBatches /\ Serialized
    BY <2>3 DEF OneTask, ServedInBatch, ReadBatches, Serialized
  <2> QED BY <2>6, <2>7, <2>8 DEF QueueInv
<1>2. QueueInv /\ [Next]_vars => QueueInv'
  <2>1. SUFFICES ASSUME QueueInv, [Next]_vars PROVE QueueInv'
    OBVIOUS
  <2>2. CASE UNCHANGED <<request, status, queue, exists, task>>
    BY <2>1, <2>2 DEF QueueInv, QueueTypes, QueueHolds, OneTask, ServedInBatch, InBatch,
                      ReadBatches, ReadBatch, Serialized, Live, KeyOf
  <2> QED
    BY <2>1, <2>2, NextIsAQueueStep, EnqueueStep, RefuseStep, NextBatchStep, JoinReadsStep,
       EndDrainStep, HearChangeStep, DiscardStep, HandlerMoves DEF QueueStep
<1> QED BY <1>1, <1>2, PTL DEF Spec

\* Requests of one key are served in the order they arrived, and a write never
\* beside another, however many keys, connections and requests there are.
THEOREM RequestsAreSerialized == Spec => []Serialized
<1>1. QueueInv => Serialized
  BY DEF QueueInv
<1> QED BY <1>1, QueuesHold, PTL
------------------------------------------------------------------------------
(* The cleanup of a connection                                              *)

\* How far the cleanup of each connection is, beside its requests.
CleanupInv ==
    /\ cleanup \in [Connections ->
                      {"none", "closing", "closed", "waiting", "cleaned", "abandoned", "over"}]
    /\ \A c \in Connections : cleanup[c] \notin {"none", "closing"} => IsClosed(c)
    /\ \A c \in Connections, n \in DOMAIN request :
         cleanup[c] \in {"waiting", "cleaned"} /\ ConnOf(n) = c => status[n] # "queued"
    /\ CleanedIsQuiet

\* A step that leaves the gates alone, and brings no request of a connection that
\* is being cleaned up back to a queue or to its handler.
LEMMA CleanupKeeps ==
    ASSUME CleanupInv, UNCHANGED <<gate, cleanup>>,
           \A n \in DOMAIN request' :
              \/ /\ n \in DOMAIN request /\ ConnOf(n)' = ConnOf(n)
                 /\ status'[n] = "queued" => status[n] = "queued"
                 /\ status'[n] \in Running => status[n] \in Running \/ ~IsClosed(ConnOf(n))
              \/ cleanup[ConnOf(n)'] = "none"
    PROVE  CleanupInv'
<1>1. \A c \in Connections, n \in DOMAIN request' :
        cleanup'[c] \in {"waiting", "cleaned"} /\ ConnOf(n)' = c => status'[n] # "queued"
  BY DEF CleanupInv
<1>2. \A c \in Connections, n \in DOMAIN request' :
        cleanup'[c] = "cleaned" /\ ConnOf(n)' = c => status'[n] \notin Running \cup {"queued"}
  BY <1>1 DEF CleanupInv, CleanedIsQuiet
<1>3. \A c \in Connections : cleanup'[c] \notin {"none", "closing"} => IsClosed(c)'
  BY DEF CleanupInv, IsClosed
<1> QED BY <1>1, <1>2, <1>3 DEF CleanupInv, CleanedIsQuiet

\* A step that leaves the requests alone, and cleans up no connection.
LEMMA CleanupMoves ==
    ASSUME CleanupInv, UNCHANGED <<request, status>>, gate \subseteq gate',
           cleanup' \in [Connections ->
                      {"none", "closing", "closed", "waiting", "cleaned", "abandoned", "over"}],
           \A c \in Connections :
              \/ cleanup'[c] = cleanup[c]
              \/ cleanup'[c] \in {"closing"}
              \/ cleanup'[c] \in {"closed", "abandoned", "over"} /\ c \in gate'
    PROVE  CleanupInv'
<1>1. \A n \in DOMAIN request : ConnOf(n)' = ConnOf(n)
  BY DEF ConnOf
<1>2. \A c \in Connections : cleanup'[c] \notin {"none", "closing"} => IsClosed(c)'
  BY DEF CleanupInv, IsClosed
<1>3. \A c \in Connections : cleanup'[c] \in {"waiting", "cleaned"} => cleanup'[c] = cleanup[c]
  OBVIOUS
<1> QED BY <1>1, <1>2, <1>3 DEF CleanupInv, CleanedIsQuiet

\* No step of a cleanup, of the loop or of a handler breaks it.
LEMMA CleanupStep ==
    ASSUME QueueInv, CleanupInv, [Next]_vars
    PROVE  CleanupInv'
<1> USE DEF requestVars, queueVars, gateVars
<1>1. ASSUME NEW p \in Profiles, Incoming(p) PROVE CleanupInv'
  <2>1. UNCHANGED <<gate, cleanup>> /\ cleanup[p.conn] = "none"
    BY <1>1 DEF Incoming, Enqueue, Refuse
  <2>2. PICK s \in Statuses, r \in TaskRecords :
          request' = Append(request, p) /\ status' = Append(status, s) /\ task' = Append(task, r)
    <3>1. CASE Refuse(p)
      BY <3>1 DEF Refuse, Statuses, NoTask, TaskRecords
    <3>2. CASE Enqueue(p)
      <4>1. [NoTask EXCEPT !.pc = "serving"] \in TaskRecords /\ NoTask \in TaskRecords
        BY DEF NoTask, TaskRecords
      <4> QED BY <3>2, <4>1 DEF Enqueue, Statuses
    <3> QED BY <1>1, <3>1, <3>2 DEF Incoming
  <2>3. PICK N \in Nat :
          /\ N = NewRequest /\ DOMAIN request' = DOMAIN request \cup {N} /\ request'[N] = p
          /\ \A n \in DOMAIN request : request'[n] = request[n] /\ status'[n] = status[n]
    BY <2>2, Arrives DEF QueueInv
  <2> QED BY <2>1, <2>3, CleanupKeeps DEF ConnOf
<1>2. ASSUME NEW c \in Connections, ConnectionClosed(c) PROVE CleanupInv'
  BY <1>2, CleanupMoves DEF ConnectionClosed, CleanupInv
<1>3. CASE \E forceable \in BOOLEAN : OnSignal(forceable)
  BY <1>3, CleanupMoves DEF OnSignal, CleanupInv
<1>4. CASE TransportsGone
  BY <1>4, CleanupMoves DEF TransportsGone, CleanupInv
<1>5. CASE ServerLoop
  <2>1. ASSUME NEW c \in Connections, ReapCleanup(c) PROVE CleanupInv'
    <3>1. c \in gate
      BY <2>1 DEF ReapCleanup, CleanupInv, IsClosed
    <3> QED BY <2>1, <3>1, CleanupMoves DEF ReapCleanup, CleanupInv
  <2>2. CASE Update
    <3>1. CASE forced
      <4>1. /\ UNCHANGED <<request, status, gate>>
            /\ cleanup' = [c \in Connections |->
                             IF cleanup[c] \in {"closed", "waiting"} THEN "over" ELSE cleanup[c]]
        BY <2>2, <3>1 DEF Update
      <4> QED BY <4>1, CleanupMoves DEF CleanupInv, IsClosed
    <3>2. CASE ~forced
      <4>1. /\ UNCHANGED <<request, status, gate>>
            /\ \/ cleanup' = [c \in Connections |->
                                IF cleanup[c] = "none" THEN "closing" ELSE cleanup[c]]
               \/ UNCHANGED cleanup
        BY <2>2, <3>2 DEF Update
      <4> QED BY <4>1, CleanupMoves DEF CleanupInv
    <3> QED BY <3>1, <3>2
  <2>3. CASE UNCHANGED requestVars
    BY <2>3, CleanupMoves DEF CleanupInv
  <2> QED BY <1>5, <2>1, <2>2, <2>3
          DEF ServerLoop, WatchChanged, ReadActive, ReadHeard, ShutdownThreads, Exit
<1>6. CASE Queues
  <2>1. PICK n \in DOMAIN request : NextBatch(n) \/ EndDrain(n) \/ HearChange(n) \/ JoinReads(n)
    BY <1>6 DEF Queues, DrainTask
  <2>2. /\ UNCHANGED <<request, gate, cleanup>>
        /\ \A m \in DOMAIN request : status'[m] = status[m] \/ status'[m] = "taken"
    BY <2>1 DEF NextBatch, EndDrain, HearChange, JoinReads, Take, QueueInv, QueueTypes
  <2> QED BY <2>2, CleanupKeeps DEF ConnOf, Running
<1>7. CASE Cleanups
  <2>1. PICK c \in Connections :
          CloseGate(c) \/ DiscardClosed(c) \/ HandlersGone(c) \/ GiveUpWaiting(c)
    BY <1>7 DEF Cleanups, CleanupTask
  <2>2. CASE CloseGate(c)
    BY <2>2, CleanupMoves DEF CloseGate, CleanupInv
  <2>3. CASE GiveUpWaiting(c)
    <3>1. c \in gate
      BY <2>3 DEF GiveUpWaiting, CleanupInv, IsClosed
    <3> QED BY <2>3, <3>1, CleanupMoves DEF GiveUpWaiting, CleanupInv
  <2>4. CASE HandlersGone(c)
    <3>1. /\ UNCHANGED <<request, status, gate>> /\ cleanup[c] = "waiting"
          /\ cleanup' = [cleanup EXCEPT ![c] = "cleaned"]
          /\ \A n \in DOMAIN request : ConnOf(n) = c => status[n] \notin Running
      BY <2>4 DEF HandlersGone
    <3>2. \A n \in DOMAIN request : ConnOf(n)' = ConnOf(n)
      BY <3>1 DEF ConnOf
    <3> QED BY <3>1, <3>2 DEF CleanupInv, CleanedIsQuiet, IsClosed
  <2>5. CASE DiscardClosed(c)
    <3>1. /\ UNCHANGED <<request, gate>> /\ cleanup[c] = "closed"
          /\ cleanup' = [cleanup EXCEPT ![c] = "waiting"]
          /\ \A n \in DOMAIN request :
               status'[n] = IF status[n] = "queued" /\ IsClosed(ConnOf(n)) THEN "dropped"
                            ELSE status[n]
      BY <2>5 DEF DiscardClosed, QueueInv, QueueTypes
    <3>2. \A n \in DOMAIN request : ConnOf(n)' = ConnOf(n)
      BY <3>1 DEF ConnOf
    <3>3. IsClosed(c)
      BY <3>1 DEF CleanupInv
    <3> QED BY <3>1, <3>2, <3>3 DEF CleanupInv, CleanedIsQuiet, IsClosed, Running
  <2> QED BY <2>1, <2>2, <2>3, <2>4, <2>5
<1>8. ASSUME NEW n \in DOMAIN request, Handler(n) PROVE CleanupInv'
  <2>1. ASSUME NEW s, SetStatus(n, s), UNCHANGED <<request, gate, cleanup>>, s # "queued",
               s \in Running => status[n] \in Running \/ ~IsClosed(ConnOf(n))
        PROVE  CleanupInv'
    <3>1. \A m \in DOMAIN request : status'[m] = IF m = n THEN s ELSE status[m]
      BY <2>1 DEF SetStatus, QueueInv, QueueTypes
    <3> QED BY <2>1, <3>1, CleanupKeeps DEF ConnOf
  <2>2. CASE Begin(n)
    BY <2>1, <2>2 DEF Begin, Running
  <2>3. CASE HandleTurn(n)
    BY <2>1, <2>3 DEF HandleTurn, Running
  <2>4. CASE Enter(n)
    BY <2>1, <2>4 DEF Enter, Running
  <2>5. CASE Finish(n)
    BY <2>1, <2>5 DEF Finish, Running
  <2>6. CASE Detach(n)
    BY <2>1, <2>6 DEF Detach, Running
  <2>7. CASE FinishDetached(n)
    BY <2>1, <2>7 DEF FinishDetached, Running
  <2> QED BY <1>8, <2>2, <2>3, <2>4, <2>5, <2>6, <2>7 DEF Handler, FinishRequest
<1>9. CASE \E t \in Threads : EndTurn(t) \/ HandleEvent(t) \/ BeginUnload(t) \/ Unload(t)
  <2>1. UNCHANGED requestVars
    BY <1>9 DEF EndTurn, HandleEvent, BeginUnload, Unload, ForgetThread, ShutThread, RemoveThread
  <2> QED BY <2>1, CleanupMoves DEF CleanupInv
<1>10. CASE UNCHANGED vars
  BY <1>10, CleanupMoves DEF CleanupInv, vars
<1> QED BY <1>1, <1>2, <1>3, <1>4, <1>5, <1>6, <1>7, <1>8, <1>9, <1>10 DEF Next

\* Once a connection has been cleaned up, none of its requests runs or will.
THEOREM CleanedStaysQuiet == Spec => []CleanedIsQuiet
<1>1. Init => CleanupInv
  <2>1. SUFFICES ASSUME Init PROVE CleanupInv
    OBVIOUS
  <2>2. cleanup = [c \in Connections |-> "none"] /\ DOMAIN request = {}
    BY <2>1 DEF Init, RequestInit
  <2> QED BY <2>2 DEF CleanupInv, CleanedIsQuiet
<1>2. QueueInv /\ CleanupInv /\ [Next]_vars => CleanupInv'
  BY CleanupStep
<1>3. CleanupInv => CleanedIsQuiet
  BY DEF CleanupInv
<1> QED BY <1>1, <1>2, <1>3, QueuesHold, PTL DEF Spec
------------------------------------------------------------------------------
(* The drain                                                                *)

\* What the loop knows while it drains.
DrainInv ==
    /\ requested => closed
    /\ loop \in {"active", "turns", "update"} => requested
    /\ loop \in {"turns", "update"} /\ seenActive = 0 => Admitted = {}
    /\ exit = "drained" => requested /\ loop \notin {"select", "active", "turns", "update"}
    /\ DrainedIsQuiet

\* Requests come from the transports alone.
LEMMA OnlyIncomingAdds ==
    ASSUME [Next]_vars, request' # request
    PROVE  \E p \in Profiles : Incoming(p)
<1> USE DEF requestVars
<1>1. ~(\E c \in Connections : ConnectionClosed(c))
  BY DEF ConnectionClosed
<1>2. ~(\E forceable \in BOOLEAN : OnSignal(forceable)) /\ ~TransportsGone
  BY DEF OnSignal, TransportsGone
<1>3. ~ServerLoop
  BY DEF ServerLoop, WatchChanged, ReapCleanup, ReadActive, ReadHeard, Update,
         ShutdownThreads, Exit
<1>4. ~Queues
  BY DEF Queues, DrainTask, NextBatch, EndDrain, HearChange, JoinReads
<1>5. ~Cleanups
  BY DEF Cleanups, CleanupTask, CloseGate, DiscardClosed, HandlersGone, GiveUpWaiting
<1>6. ~(\E n \in DOMAIN request : Handler(n))
  BY DEF Handler, Begin, HandleTurn, FinishRequest, Enter, Finish, Detach, FinishDetached
<1>7. ~(\E t \in Threads : EndTurn(t) \/ HandleEvent(t) \/ BeginUnload(t) \/ Unload(t))
  BY DEF EndTurn, HandleEvent, BeginUnload, Unload, ForgetThread, ShutThread, RemoveThread
<1>8. ~UNCHANGED vars
  BY DEF vars
<1> QED BY <1>1, <1>2, <1>3, <1>4, <1>5, <1>6, <1>7, <1>8 DEF Next

\* A request that is settled stays so, and while admission is closed no other
\* comes to hold a permit.
LEMMA AdmittedShrinks ==
    ASSUME QueueInv, [Next]_vars, closed
    PROVE  Admitted' \subseteq Admitted
<1>1. ASSUME UNCHANGED request,
             \A n \in DOMAIN request : status[n] \in Settled => status'[n] \in Settled
      PROVE  Admitted' \subseteq Admitted
  BY <1>1 DEF Admitted, KindOf
<1>2. CASE UNCHANGED <<request, status, queue, exists, task>>
  BY <1>1, <1>2
<1>3. ASSUME NEW p \in Profiles, Enqueue(p) \/ Refuse(p)
      PROVE  Admitted' \subseteq Admitted
  <2>1. PICK s \in Statuses, r \in TaskRecords :
          /\ request' = Append(request, p) /\ status' = Append(status, s)
          /\ task' = Append(task, r)
          /\ Refuse(p) => s = "refused"
    <3>1. CASE Refuse(p)
      BY <3>1 DEF Refuse, Statuses, NoTask, TaskRecords
    <3>2. CASE Enqueue(p) /\ ~Refuse(p)
      <4>1. [NoTask EXCEPT !.pc = "serving"] \in TaskRecords /\ NoTask \in TaskRecords
        BY DEF NoTask, TaskRecords
      <4> QED BY <3>2, <4>1 DEF Enqueue, Statuses
    <3> QED BY <1>3, <3>1, <3>2
  <2>2. PICK N \in Nat :
          /\ N = NewRequest /\ DOMAIN request' = DOMAIN request \cup {N}
          /\ request'[N] = p /\ status'[N] = s
          /\ \A n \in DOMAIN request : request'[n] = request[n] /\ status'[n] = status[n]
    BY <2>1, Arrives DEF QueueInv
  <2>3. p.kind \in {"turn", "settings"} => s = "refused"
    <3>1. request' # request
      BY <2>1 DEF QueueInv, QueueTypes
    <3>2. \E q \in Profiles : Incoming(q)
      BY <3>1, OnlyIncomingAdds
    <3>3. PICK q \in Profiles : Incoming(q)
      BY <3>2
    <3>4. request' = Append(request, q)
      BY <3>3 DEF Incoming, Enqueue, Refuse
    <3>5. q = p
      <4>1. request \in Seq(Profiles) /\ Len(request) \in Nat
        BY DEF QueueInv, QueueTypes
      <4>2. /\ Append(request, p)[Len(request) + 1] = p
            /\ Append(request, q)[Len(request) + 1] = q
        BY <4>1
      <4> QED BY <2>1, <3>4, <4>2
    <3> QED BY <2>1, <3>3, <3>5 DEF Incoming
  <2> QED BY <2>2, <2>3 DEF Admitted, KindOf, Settled
<1>4. ASSUME NEW n \in DOMAIN request,
             NextBatch(n) \/ EndDrain(n) \/ HearChange(n) \/ JoinReads(n)
      PROVE  Admitted' \subseteq Admitted
  <2>1. CASE EndDrain(n) \/ HearChange(n)
    BY <1>1, <2>1 DEF EndDrain, HearChange
  <2>2. ASSUME NEW taken, NEW access, Take(n, taken, access), UNCHANGED request,
               \A b \in taken : status[b] = "queued"
        PROVE  Admitted' \subseteq Admitted
    <3>1. \A r \in DOMAIN request : status'[r] = IF r \in taken THEN "taken" ELSE status[r]
      BY <2>2 DEF Take, QueueInv, QueueTypes
    <3> QED BY <1>1, <2>2, <3>1 DEF Settled
  <2> DEFINE q == queue[KeyOf(n)]
  <2>3. Live(n) => q \subseteq Nat /\ \A b \in q : status[b] = "queued"
    BY DEF QueueInv, QueueTypes, OneTask, QueueHolds
  <2>4. CASE JoinReads(n)
    <3>1. Take(n, FrontReads(q), "read") /\ UNCHANGED request /\ Live(n)
      BY <2>4 DEF JoinReads, Live
    <3> QED BY <2>2, <2>3, <3>1 DEF FrontReads
  <2>5. CASE NextBatch(n)
    <3>1. /\ Take(n, IF request[Front(q)].access = "read" THEN FrontReads(q) ELSE {Front(q)},
                  request[Front(q)].access)
          /\ UNCHANGED request /\ Live(n) /\ q # {}
      BY <2>5 DEF NextBatch, Live
    <3>2. Front(q) \in q /\ FrontReads(q) \subseteq q
      BY <2>3, <3>1, FrontIsFirst DEF FrontReads
    <3>3. \A b \in (IF request[Front(q)].access = "read" THEN FrontReads(q) ELSE {Front(q)}) :
            status[b] = "queued"
      BY <2>3, <3>1, <3>2
    <3> QED BY <2>2, <3>1, <3>3
  <2> QED BY <1>4, <2>1, <2>4, <2>5
<1>5. ASSUME NEW c \in Connections, DiscardClosed(c) PROVE Admitted' \subseteq Admitted
  <2>1. /\ UNCHANGED request
        /\ \A n \in DOMAIN request : status'[n] = status[n] \/ status'[n] = "dropped"
    BY <1>5 DEF DiscardClosed, QueueInv, QueueTypes
  <2> QED BY <1>1, <2>1 DEF Settled
<1>6. ASSUME NEW n \in DOMAIN request, NEW s \in Statuses, HandlerStep(n, s)
      PROVE  Admitted' \subseteq Admitted
  <2>1. /\ UNCHANGED request /\ status[n] \notin Settled
        /\ \A m \in DOMAIN request : status'[m] = IF m = n THEN s ELSE status[m]
    BY <1>6 DEF HandlerStep, SetStatus, Settled, QueueInv, QueueTypes
  <2> QED BY <1>1, <2>1
<1> QED BY <1>2, <1>3, <1>4, <1>5, <1>6, NextIsAQueueStep DEF QueueStep

\* A count of no permits is a count of none.
LEMMA CountIsNone ==
    ASSUME QueueInv, Cardinality(Admitted) = 0
    PROVE  Admitted = {}
<1>1. DOMAIN request = 1..Len(request) /\ Len(request) \in Nat
  BY DEF QueueInv, QueueTypes
<1>2. IsFiniteSet(1..Len(request))
  BY <1>1, FS_Interval
<1>3. Admitted \subseteq 1..Len(request)
  BY <1>1 DEF Admitted
<1>4. IsFiniteSet(Admitted)
  BY <1>2, <1>3, FS_Subset
<1> QED BY <1>4, FS_EmptySet

\* While no request holds a permit, no turn starts.
LEMMA NoTurnStarts ==
    ASSUME [Next]_vars, Admitted = {}
    PROVE  running' \subseteq running
<1>1. CASE \E n \in DOMAIN request : Handler(n)
  <2>1. PICK n \in DOMAIN request : Handler(n)
    BY <1>1
  <2>2. ~HandleTurn(n)
    BY DEF HandleTurn, Admitted, Settled
  <2> QED BY <2>1, <2>2 DEF Handler, Begin, FinishRequest, threadVars
<1>2. CASE ServerLoop
  BY <1>2 DEF ServerLoop, WatchChanged, ReapCleanup, ReadActive, ReadHeard, Update,
              ShutdownThreads, Exit, threadVars
<1>3. CASE \E t \in Threads : EndTurn(t) \/ HandleEvent(t) \/ BeginUnload(t) \/ Unload(t)
  BY <1>3 DEF EndTurn, HandleEvent, BeginUnload, Unload, ForgetThread, ShutThread,
              RemoveThread
<1>4. CASE Next /\ ~(\E n \in DOMAIN request : Handler(n)) /\ ~ServerLoop
           /\ ~(\E t \in Threads : EndTurn(t) \/ HandleEvent(t) \/ BeginUnload(t) \/ Unload(t))
  BY <1>4 DEF Next, Incoming, ConnectionClosed, OnSignal, TransportsGone, Queues, Cleanups,
              threadVars
<1>5. CASE UNCHANGED vars
  BY <1>5 DEF vars, threadVars
<1> QED BY <1>1, <1>2, <1>3, <1>4, <1>5

\* No step lets a draining loop believe what is not so.
LEMMA DrainStep ==
    ASSUME QueueInv, DrainInv, [Next]_vars
    PROVE  DrainInv'
<1> USE DEF DrainInv, DrainedIsQuiet
<1>1. closed => Admitted' \subseteq Admitted
  BY AdmittedShrinks
<1>2. Admitted = {} => running' \subseteq running
  BY NoTurnStarts
<1>3. ASSUME UNCHANGED <<closed, requested, loop, exit, seenActive>>
      PROVE  DrainInv'
  BY <1>1, <1>2, <1>3
<1>4. ASSUME InSelect, UNCHANGED <<exit, seenActive>>, loop' \in {"select", "active"},
             loop' = "active" => requested', requested' => closed', requested => requested'
      PROVE  DrainInv'
  BY <1>4 DEF InSelect
<1>5. CASE \E p \in Profiles : Incoming(p)
  BY <1>4, <1>5 DEF Incoming, GoRound, signalVars
<1>6. CASE \E c \in Connections : ConnectionClosed(c)
  BY <1>4, <1>6 DEF ConnectionClosed, GoRound, signalVars
<1>7. CASE \E forceable \in BOOLEAN : OnSignal(forceable)
  BY <1>4, <1>7 DEF OnSignal, GoRound
<1>8. CASE TransportsGone
  BY <1>8 DEF TransportsGone, InSelect, signalVars
<1>9. CASE ServerLoop
  <2>1. CASE WatchChanged \/ \E c \in Connections : ReapCleanup(c)
    BY <1>4, <2>1 DEF WatchChanged, ReapCleanup, GoRound, signalVars
  <2>2. CASE ReadActive
    <3>1. seenActive' = 0 => Admitted = {}
      BY <2>2, CountIsNone DEF ReadActive
    <3> QED BY <1>1, <2>2, <3>1 DEF ReadActive, signalVars
  <2>3. CASE ReadHeard
    BY <1>1, <2>3 DEF ReadHeard, signalVars
  <2>4. CASE Update
    <3>1. UNCHANGED <<closed, requested>> /\ requested /\ loop = "update"
      BY <2>4 DEF Update, signalVars
    <3>2. CASE forced
      BY <2>4, <3>1, <3>2 DEF Update
    <3>3. CASE ~forced /\ TurnCount = 0 /\ seenActive = 0
      <4>1. running = {}
        BY <3>3 DEF TurnCount, AnyRunning
      <4>2. Admitted' = {} /\ running' = {}
        BY <1>1, <1>2, <3>1, <3>3, <4>1
      <4> QED BY <2>4, <3>1, <3>3, <4>2 DEF Update
    <3>4. CASE ~forced /\ ~(TurnCount = 0 /\ seenActive = 0)
      BY <2>4, <3>1, <3>4 DEF Update
    <3> QED BY <3>2, <3>3, <3>4
  <2>5. CASE ShutdownThreads \/ Exit
    BY <1>1, <1>2, <2>5 DEF ShutdownThreads, Exit, signalVars
  <2> QED BY <1>9, <2>1, <2>2, <2>3, <2>4, <2>5 DEF ServerLoop
<1>10. CASE Queues \/ Cleanups
  BY <1>3, <1>10 DEF Queues, Cleanups, signalVars, loopVars
<1>11. CASE \E n \in DOMAIN request : Handler(n)
  BY <1>3, <1>11 DEF Handler, Begin, HandleTurn, FinishRequest, signalVars, loopVars
<1>12. CASE \E t \in Threads : EndTurn(t) \/ HandleEvent(t) \/ BeginUnload(t) \/ Unload(t)
  BY <1>3, <1>12 DEF EndTurn, HandleEvent, BeginUnload, Unload, ForgetThread, ShutThread,
                     RemoveThread, signalVars, loopVars
<1>13. CASE UNCHANGED vars
  BY <1>3, <1>13 DEF vars, signalVars, loopVars
<1> QED BY <1>5, <1>6, <1>7, <1>8, <1>9, <1>10, <1>11, <1>12, <1>13 DEF Next

\* A drain that was not forced stops a quiet server: no turn runs, and no admitted
\* request is left, however the counters it reads change between two reads.
THEOREM DrainStopsQuiet == Spec => []DrainedIsQuiet
<1>1. Init => DrainInv
  BY DEF Init, DrainInv, DrainedIsQuiet
<1>2. QueueInv /\ DrainInv /\ [Next]_vars => DrainInv'
  BY DrainStep
<1>3. DrainInv => DrainedIsQuiet
  BY DEF DrainInv
<1> QED BY <1>1, <1>2, <1>3, QueuesHold, PTL DEF Spec
==============================================================================
