---------------------------- MODULE RequestQueues ----------------------------
(***************************************************************************)
(* The requests of an app server on their way to their handlers: the       *)
(* queues that serialize the requests of one thread or one global resource *)
(* (server/request_serialization.rs) and the gate of each connection       *)
(* (server/connection_rpc_gate.rs), with the cleanup of a connection that  *)
(* has gone (MessageProcessor::connection_closed).  AppServer composes it  *)
(* with the reading loop and the turns.                                    *)
(*                                                                         *)
(* Requests are numbered as they arrive, and only ever join a queue at its *)
(* end, so that a queue is the set of the numbers that wait in it.  A      *)
(* queue exists while a task drains it; the task is named after the        *)
(* request whose arrival spawned it, so that nothing here keeps a key from *)
(* having two.                                                             *)
(***************************************************************************)
EXTENDS Naturals, Sequences, FiniteSets

CONSTANTS Connections,
          Threads,     \* thread ids, each the key of its thread's requests
          Resources,   \* the names of global queues
          NoKey,       \* of a request that is not serialized
          Profiles,    \* what a request may be: its key, access, connection and kind
          MaxRequests  \* bound on the requests that arrive

Keys == Threads \cup Resources

Kinds == {"turn", "settings", "inventory", "other"}

ASSUME KeysAssumption ==
    Threads \cap Resources = {} /\ NoKey \notin Threads \cup Resources

ASSUME ProfilesAssumption ==
    /\ Profiles \subseteq [key : Keys \cup {NoKey}, access : {"exclusive", "read"},
                           conn : Connections, kind : Kinds]
    /\ \A p \in Profiles : /\ p.access = "read" => p.key \in Resources
                           /\ p.kind \in {"turn", "settings"} => p.key \in Threads
                           /\ p.kind = "inventory" => p.key \in Resources

ASSUME RequestsAssumption == MaxRequests \in Nat

VARIABLES
    request,  \* what each request is
    status,   \* where each request is
    queue,    \* the requests waiting under each key, in the order they arrived
    exists,   \* the keys that have a queue
    changed,  \* the queues whose Notify holds a permit
    task,     \* the drain task each request spawned
    gate,     \* the connections whose gate is closed
    cleanup   \* how far connection_closed has got

queueVars == <<queue, exists, changed, task>>
gateVars  == <<gate, cleanup>>
requestVars == <<request, status, queueVars, gateVars>>

Statuses == {"refused", "queued", "spawned", "taken", "entered", "handling", "handled",
             "detached", "done", "dropped"}

\* A handler that counts at its connection's gate.
Running == {"entered", "handling", "handled", "detached"}

\* Requests nothing more happens to.
Settled == {"refused", "done", "dropped"}

Tasks == [pc : {"none", "serving", "joining", "ended"}, access : {"exclusive", "read"},
          batch : SUBSET (1..MaxRequests)]

NoTask == [pc |-> "none", access |-> "exclusive", batch |-> {}]

RequestTypeOK ==
    /\ request \in Seq(Profiles) /\ Len(request) <= MaxRequests
    /\ status \in [DOMAIN request -> Statuses]
    /\ queue \in [Keys -> SUBSET DOMAIN request]
    /\ exists \subseteq Keys
    /\ changed \subseteq Keys
    /\ task \in [DOMAIN request -> Tasks]
    /\ gate \subseteq Connections
    /\ cleanup \in [Connections ->
                      {"none", "closing", "closed", "waiting", "cleaned", "abandoned", "over"}]

RequestInit ==
    /\ request = << >>
    /\ status = << >>
    /\ queue = [k \in Keys |-> {}]
    /\ exists = {}
    /\ changed = {}
    /\ task = << >>
    /\ gate = {}
    /\ cleanup = [c \in Connections |-> "none"]

KeyOf(n)  == request[n].key
ConnOf(n) == request[n].conn
KindOf(n) == request[n].kind

IsClosed(c) == c \in gate

SetStatus(n, s) == status' = [status EXCEPT ![n] = s]
------------------------------------------------------------------------------
(* The queues                                                               *)

\* The request that has arrived, by its place among them all.
NewRequest == Len(request) + 1

\* QueuedInitializedRequest::new and enqueue: the n-th request joins its key's
\* queue, or opens one and spawns its task; without a key it has a task of its
\* own.
Enqueue(p) ==
    LET n == NewRequest
        k == p.key
    IN  /\ request' = Append(request, p)
        /\ status' = Append(status, IF k = NoKey THEN "spawned" ELSE "queued")
        /\ IF k = NoKey
             THEN task' = Append(task, NoTask) /\ UNCHANGED <<queue, exists, changed>>
             ELSE /\ queue' = [queue EXCEPT ![k] = @ \cup {n}]
                  /\ exists' = exists \cup {k}
                  /\ changed' = IF k \in exists THEN changed \cup {k} ELSE changed \ {k}
                  /\ task' = Append(task, IF k \in exists
                                            THEN NoTask
                                            ELSE [NoTask EXCEPT !.pc = "serving"])
        /\ UNCHANGED gateVars

\* A request refused before it is queued.
Refuse(p) ==
    /\ request' = Append(request, p)
    /\ status' = Append(status, "refused")
    /\ task' = Append(task, NoTask)
    /\ UNCHANGED <<queue, exists, changed, gateVars>>

\* The request at the front of a queue.
Front(q) == CHOOSE n \in q : \A m \in q : n <= m

\* A task that takes whatever is at the front.
FrontReads_Any(q) == q

\* The reads at the front of a queue.
FrontReads(q) == {n \in q : \A m \in q : m <= n => request[m].access = "read"}

Take(n, taken, access) ==
    LET k == KeyOf(n)
    IN  /\ queue' = [queue EXCEPT ![k] = @ \ taken]
        /\ task' = [task EXCEPT ![n] = [pc |-> "serving", access |-> access,
                                        batch |-> @.batch \cup taken]]
        /\ status' = [r \in DOMAIN status |-> IF r \in taken THEN "taken" ELSE status[r]]

\* The top of drain's loop: the batch is over, and the task takes the request at
\* the front, with the reads behind it if it is one.
NextBatch(n) ==
    LET k == KeyOf(n)
        q == queue[k]
        first == request[Front(q)].access
    IN  /\ task[n].pc = "serving" /\ task[n].batch = {}
        /\ k \in exists /\ q # {}
        /\ Take(n, IF first = "read" THEN FrontReads(q) ELSE {Front(q)}, first)
        /\ UNCHANGED <<request, exists, changed, gateVars>>

\* A task that leaves its empty queue in the map.
EndDrain_KeepsQueue(n) ==
    LET k == KeyOf(n)
    IN  /\ task[n].pc = "serving" /\ task[n].batch = {}
        /\ queue[k] = {} \/ k \notin exists
        /\ task' = [task EXCEPT ![n] = [NoTask EXCEPT !.pc = "ended"]]
        /\ UNCHANGED <<request, status, queue, exists, changed, gateVars>>

\* ... or finds its queue empty, or gone, and ends.
EndDrain(n) ==
    LET k == KeyOf(n)
    IN  /\ task[n].pc = "serving" /\ task[n].batch = {}
        /\ queue[k] = {} \/ k \notin exists
        /\ exists' = exists \ {k}
        /\ changed' = changed \ {k}
        /\ task' = [task EXCEPT ![n] = [NoTask EXCEPT !.pc = "ended"]]
        /\ UNCHANGED <<request, status, queue, gateVars>>

\* changed.notified() while reads run: the permit is used up before the queue is
\* looked at.
HearChange(n) ==
    /\ task[n].pc = "serving" /\ task[n].access = "read" /\ task[n].batch # {}
    /\ KeyOf(n) \in changed
    /\ changed' = changed \ {KeyOf(n)}
    /\ task' = [task EXCEPT ![n].pc = "joining"]
    /\ UNCHANGED <<request, status, queue, exists, gateVars>>

\* The reads that have come to the front run with the batch.
JoinReads(n) ==
    /\ task[n].pc = "joining"
    /\ Take(n, FrontReads(queue[KeyOf(n)]), "read")
    /\ UNCHANGED <<request, exists, changed, gateVars>>

DrainTask ==
    \E n \in DOMAIN request :
        NextBatch(n) \/ EndDrain(n) \/ HearChange(n) \/ JoinReads(n)
------------------------------------------------------------------------------
(* The handlers                                                             *)

\* A future that ends, or is dropped, leaves the batch it ran in.
Leave(n) ==
    task' = [t \in DOMAIN task |-> [task[t] EXCEPT !.batch = @ \ {n}]]

\* A gate that lets everyone through.
Enter_Always(n) ==
    /\ status[n] \in {"taken", "spawned"}
    /\ SetStatus(n, "entered") /\ task' = task
    /\ UNCHANGED <<request, queue, exists, changed, gateVars>>

\* ConnectionRpcGate::run: a closed gate drops the request unpolled.
Enter(n) ==
    /\ status[n] \in {"taken", "spawned"}
    /\ IF IsClosed(ConnOf(n))
         THEN SetStatus(n, "dropped") /\ Leave(n)
         ELSE SetStatus(n, "entered") /\ task' = task
    /\ UNCHANGED <<request, queue, exists, changed, gateVars>>

\* The handler returns, and the request with it.
Finish(n) ==
    /\ \/ status[n] = "handled"
       \/ status[n] = "handling" /\ KindOf(n) # "turn"
    /\ SetStatus(n, "done")
    /\ Leave(n)
    /\ UNCHANGED <<request, queue, exists, changed, gateVars>>

\* mcpServerStatus/list: spawn_admitted moves the rest of the work to a task of
\* its own, which still counts at the gate.
Detach(n) ==
    /\ status[n] = "handling" /\ KindOf(n) = "inventory"
    /\ SetStatus(n, "detached")
    /\ Leave(n)
    /\ UNCHANGED <<request, queue, exists, changed, gateVars>>

FinishDetached(n) ==
    /\ status[n] = "detached"
    /\ SetStatus(n, "done")
    /\ UNCHANGED <<request, queueVars, gateVars>>
------------------------------------------------------------------------------
(* connection_closed                                                        *)

\* session.rpc_gate.close()
CloseGate(c) ==
    /\ cleanup[c] = "closing"
    /\ gate' = gate \cup {c}
    /\ cleanup' = [cleanup EXCEPT ![c] = "closed"]
    /\ UNCHANGED <<request, status, queueVars>>

\* discard_closed: the waiting requests of every closed connection go, and the
\* tasks of the queues they leave are told.
DiscardClosed(c) ==
    LET gone == {n \in DOMAIN request : status[n] = "queued" /\ IsClosed(ConnOf(n))}
    IN  /\ cleanup[c] = "closed"
        /\ queue' = [k \in Keys |-> queue[k] \ gone]
        /\ changed' = changed \cup {KeyOf(n) : n \in gone}
        /\ status' = [n \in DOMAIN status |-> IF n \in gone THEN "dropped" ELSE status[n]]
        /\ cleanup' = [cleanup EXCEPT ![c] = "waiting"]
        /\ UNCHANGED <<request, exists, task, gate>>

\* rpc_gate.shutdown() returns once nothing counts at the closed gate ...
HandlersGone(c) ==
    /\ cleanup[c] = "waiting"
    /\ \A n \in DOMAIN request : ConnOf(n) = c => status[n] \notin Running
    /\ cleanup' = [cleanup EXCEPT ![c] = "cleaned"]
    /\ UNCHANGED <<request, status, queueVars, gate>>

\* ... or CONNECTION_RPC_DRAIN_TIMEOUT passes.
GiveUpWaiting(c) ==
    /\ cleanup[c] = "waiting"
    /\ cleanup' = [cleanup EXCEPT ![c] = "abandoned"]
    /\ UNCHANGED <<request, status, queueVars, gate>>

CleanupTask ==
    \E c \in Connections :
        CloseGate(c) \/ DiscardClosed(c) \/ HandlersGone(c) \/ GiveUpWaiting(c)
------------------------------------------------------------------------------
(* Properties                                                               *)

\* A request is served only when every earlier request of its key has been
\* answered, dropped or moved to a task of its own, unless both are reads: a
\* write is never overtaken and never runs beside anything, although reads join
\* a running batch, requests are discarded from the middle of a queue, and a
\* queue is removed and opened again (drain, enqueue, discard_closed).
Serialized ==
    \A n \in DOMAIN request, m \in DOMAIN request :
        /\ m < n /\ KeyOf(m) = KeyOf(n) /\ KeyOf(n) # NoKey
        /\ ~(request[m].access = "read" /\ request[n].access = "read")
        /\ status[n] \in Running \cup {"taken", "done"}
        => status[m] \in Settled \cup {"detached"}

\* Once connection_closed has waited for a connection's handlers, none of its
\* requests runs or waits in a queue, nor ever will: its subscriptions are
\* removed after the last handler that could add one.
CleanedIsQuiet ==
    \A c \in Connections, n \in DOMAIN request :
        cleanup[c] = "cleaned" /\ ConnOf(n) = c
            => status[n] \notin Running \cup {"queued"}
==============================================================================
