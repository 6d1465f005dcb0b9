------------------------------ MODULE AppServer ------------------------------
(***************************************************************************)
(* The app server's reading loop and its graceful restart (server.rs),     *)
(* over the requests of RequestQueues: the admission of turn work          *)
(* (server/turn_admission.rs, dispatch_initialized_client_request), the    *)
(* turns that turn/start begins, the listener that hears of them           *)
(* (server/thread_listener.rs) and the unloading of idle threads.          *)
(*                                                                         *)
(* A drain stops the server once no admitted request is left and no turn   *)
(* runs.  It learns of both through counters that other tasks change while *)
(* the loop reads them one after the other.                                *)
(***************************************************************************)
EXTENDS RequestQueues

CONSTANT MaxSignals \* bound on shutdown signals

ASSUME SignalsAssumption == MaxSignals \in Nat

VARIABLES
    \* TurnAdmission and ShutdownState
    closed, requested, forced, signals,
    \* the reading loop
    loop,          \* where it is
    exit,          \* why it ended
    seenActive,    \* active_admissions, as it was read
    seenTurns,     \* the count of turns heard of, as it was read
    activeChanged, \* the permits changed since they were read
    turnsChanged,  \* the count of turns heard of changed since it was read
    \* the threads
    life,          \* whether each is loaded
    running,       \* the threads with an active turn
    events,        \* the events of its turns that no listener has handled
    heard          \* the threads whose listener counts a turn as active

loopVars   == <<loop, exit, seenActive, seenTurns, activeChanged, turnsChanged>>
signalVars == <<closed, requested, forced, signals>>
threadVars == <<life, running, events, heard>>
vars == <<requestVars, signalVars, loopVars, threadVars>>

TypeOK ==
    /\ RequestTypeOK
    /\ <<closed, requested, forced>> \in BOOLEAN \X BOOLEAN \X BOOLEAN
    /\ signals \in 0..MaxSignals
    /\ loop \in {"select", "active", "turns", "update", "cleaning", "threads", "exited"}
    /\ exit \in {"none", "drained", "forced", "gone"}
    /\ seenActive \in 0..MaxRequests
    /\ seenTurns \in 0..Cardinality(Threads)
    /\ activeChanged \in BOOLEAN /\ turnsChanged \in BOOLEAN
    /\ life \in [Threads -> {"loaded", "unloading", "forgotten", "shut", "gone", "down"}]
    /\ running \subseteq Threads
    /\ events \in [Threads -> Seq({"start", "end"})]
    /\ heard \subseteq Threads

Init ==
    /\ RequestInit
    /\ closed = FALSE /\ requested = FALSE /\ forced = FALSE /\ signals = 0
    /\ loop = "select" /\ exit = "none"
    /\ seenActive = 0 /\ seenTurns = 0
    /\ activeChanged = FALSE /\ turnsChanged = FALSE
    /\ life = [t \in Threads |-> "loaded"]
    /\ running = {} /\ heard = {}
    /\ events = [t \in Threads |-> << >>]

\* Requests that hold a TurnPermit: their future owns it, and is not gone.
Admitted ==
    {n \in DOMAIN request : KindOf(n) \in {"turn", "settings"} /\ status[n] \notin Settled}

\* While the loop drains, what it has not heard of wakes it.
Draining == requested /\ exit = "none"

\* A permit that is let go without a word.
NotePermits_Silent ==
    activeChanged' = (Draining /\ (activeChanged \/ Cardinality(Admitted') > Cardinality(Admitted)))

\* Whether a step gave or took a permit, which marks the watch changed.
NotePermits ==
    activeChanged' = (Draining /\ (activeChanged \/ Admitted' # Admitted))

\* publish_running_turns: the watch changes when the count does.
NoteHeard ==
    turnsChanged' = (Draining /\ (turnsChanged \/ Cardinality(heard') # Cardinality(heard)))

\* The process lives until run returns.
Alive == loop # "exited"

\* The loop goes round.  Before a shutdown is requested what it reads at the top
\* decides nothing, and it is back in select!.
GoRound ==
    loop' = IF requested' THEN "active" ELSE "select"
------------------------------------------------------------------------------
(* The reading loop                                                         *)

InSelect == loop = "select"

\* IncomingMessage: turn work and settings changes are admitted as they arrive.
Incoming(p) ==
    /\ InSelect
    /\ cleanup[p.conn] = "none"
    /\ Len(request) < MaxRequests
    /\ IF p.kind \in {"turn", "settings"} /\ closed THEN Refuse(p) ELSE Enqueue(p)
    /\ UNCHANGED <<signalVars, exit, seenActive, seenTurns, turnsChanged, threadVars>>
    /\ GoRound
    /\ NotePermits

\* ConnectionClosed: the gate closes before the cleanup task is spawned.
ConnectionClosed(c) ==
    /\ InSelect
    /\ cleanup[c] = "none"
    /\ gate' = gate \cup {c}
    /\ cleanup' = [cleanup EXCEPT ![c] = "closed"]
    /\ UNCHANGED <<request, status, queueVars, signalVars, exit, seenActive,
                   seenTurns, activeChanged, turnsChanged, threadVars>>
    /\ GoRound

\* A signal, or DaemonShutdown.  The first begins the drain; a later forceable
\* one forces the stop.
OnSignal(forceable) ==
    /\ InSelect
    /\ signals < MaxSignals
    /\ signals' = signals + 1
    /\ closed' = TRUE
    /\ requested' = TRUE
    /\ forced' = (requested /\ forceable)
    /\ UNCHANGED <<requestVars, exit, seenActive, seenTurns, activeChanged, turnsChanged,
                   threadVars>>
    /\ GoRound

\* A watch changed, and wakes a loop that drains.
WatchChanged ==
    /\ InSelect
    /\ requested
    /\ \/ turnsChanged /\ turnsChanged' = FALSE /\ activeChanged' = activeChanged
       \/ activeChanged /\ activeChanged' = FALSE /\ turnsChanged' = turnsChanged
    /\ UNCHANGED <<requestVars, signalVars, exit, seenActive, seenTurns, threadVars>>
    /\ GoRound

\* reap_next
ReapCleanup(c) ==
    /\ InSelect
    /\ cleanup[c] \in {"cleaned", "abandoned"}
    /\ cleanup' = [cleanup EXCEPT ![c] = "over"]
    /\ UNCHANGED <<request, status, queueVars, gate, signalVars, exit, seenActive,
                   seenTurns, activeChanged, turnsChanged, threadVars>>
    /\ GoRound

\* active_admissions_rx.borrow_and_update()
ReadActive ==
    /\ loop = "active"
    /\ seenActive' = Cardinality(Admitted)
    /\ activeChanged' = FALSE
    /\ loop' = "turns"
    /\ UNCHANGED <<requestVars, signalVars, exit, seenTurns, turnsChanged, threadVars>>

\* running_turn_count_rx.borrow_and_update()
ReadHeard ==
    /\ loop = "turns"
    /\ seenTurns' = Cardinality(heard)
    /\ turnsChanged' = FALSE
    /\ loop' = "update"
    /\ UNCHANGED <<requestVars, signalVars, exit, seenActive, activeChanged, threadVars>>

\* ThreadManager::any_running; a thread is removed only once it is idle.
AnyRunning == running # {}

\* A count of the turns heard of alone.
TurnCount_Heard == seenTurns

\* running_turn_count: the turns no listener has heard of count when none else
\* does.
TurnCount == IF seenTurns = 0 /\ AnyRunning THEN 1 ELSE seenTurns

\* ShutdownState::update.  When it stops, the cleanup of the connections left
\* begins, or the cleanup tasks are aborted if the stop was forced.
Update ==
    /\ loop = "update"
    /\ IF forced
         THEN /\ loop' = "exited" /\ exit' = "forced"
              /\ cleanup' = [c \in Connections |->
                               IF cleanup[c] \in {"closed", "waiting"} THEN "over"
                                                                       ELSE cleanup[c]]
         ELSE IF TurnCount = 0 /\ seenActive = 0
         THEN /\ loop' = "cleaning" /\ exit' = "drained"
              /\ cleanup' = [c \in Connections |->
                               IF cleanup[c] = "none" THEN "closing" ELSE cleanup[c]]
         ELSE loop' = "select" /\ UNCHANGED <<exit, cleanup>>
    /\ seenActive' = 0 /\ seenTurns' = 0
    /\ UNCHANGED <<request, status, queueVars, gate, signalVars, activeChanged, turnsChanged,
                   threadVars>>

\* The transports have gone, or the stdio connection closed: the loop ends
\* without a drain.
TransportsGone ==
    /\ InSelect
    /\ loop' = "cleaning" /\ exit' = "gone"
    /\ cleanup' = [c \in Connections |->
                     IF cleanup[c] = "none" THEN "closing" ELSE cleanup[c]]
    /\ UNCHANGED <<request, status, queueVars, gate, signalVars, seenActive,
                   seenTurns, activeChanged, turnsChanged, threadVars>>

\* Every connection is cleaned up, and shutdown_threads begins.
ShutdownThreads ==
    /\ loop = "cleaning"
    /\ \A c \in Connections : cleanup[c] \in {"cleaned", "abandoned", "over"}
    /\ loop' = "threads"
    /\ life' = [t \in Threads |-> IF life[t] \in {"shut", "gone"} THEN life[t] ELSE "down"]
    /\ UNCHANGED <<requestVars, signalVars, exit, seenActive, seenTurns, activeChanged,
                   turnsChanged, running, events, heard>>

\* The threads are down, or SHUTDOWN_THREADS_TIMEOUT has passed.
Exit ==
    /\ loop = "threads"
    /\ loop' = "exited"
    /\ UNCHANGED <<requestVars, signalVars, exit, seenActive, seenTurns, activeChanged,
                   turnsChanged, threadVars>>

ServerLoop ==
    \/ WatchChanged
    \/ \E c \in Connections : ReapCleanup(c)
    \/ ReadActive \/ ReadHeard \/ Update
    \/ ShutdownThreads \/ Exit
------------------------------------------------------------------------------
(* The handlers of admitted requests                                        *)

\* turn/start and turn/steer that have waited ask for admission again: the permit
\* they get is let go at once, and one that is refused lets its own go.
Begin(n) ==
    /\ status[n] = "entered"
    /\ IF KindOf(n) = "turn" /\ closed
         THEN SetStatus(n, "done") /\ Leave(n)
         ELSE SetStatus(n, "handling") /\ task' = task
    /\ UNCHANGED <<request, queue, exists, changed, gateVars, signalVars, threadVars,
                   loop, exit, seenActive, seenTurns, turnsChanged>>
    /\ activeChanged' = (Draining /\ (activeChanged \/ KindOf(n) = "turn"))

\* Whether a thread still takes turns: it is loaded, and not shut down.
TakesTurns(t) == life[t] \in {"loaded", "unloading", "forgotten"}

\* start_or_steer_turn, which starts a turn only in an idle thread; or the
\* request turns out to be invalid, and is answered with an error.
HandleTurn(n) ==
    LET t == KeyOf(n)
    IN  /\ status[n] = "handling" /\ KindOf(n) = "turn"
        /\ SetStatus(n, "handled")
        /\ \/ /\ TakesTurns(t) /\ t \notin running
              /\ running' = running \cup {t}
              /\ events' = [events EXCEPT ![t] = Append(@, "start")]
           \/ UNCHANGED <<running, events>>
        /\ UNCHANGED <<request, queueVars, gateVars, signalVars, loopVars, life, heard>>

FinishRequest(n) ==
    /\ Enter(n) \/ Finish(n) \/ Detach(n) \/ FinishDetached(n)
    /\ UNCHANGED <<signalVars, threadVars, loop, exit, seenActive, seenTurns, turnsChanged>>
    /\ NotePermits

Handler(n) == Alive /\ (Begin(n) \/ HandleTurn(n) \/ FinishRequest(n))
------------------------------------------------------------------------------
(* The threads                                                              *)

\* The turn ends: the thread is idle before its end is reported.
EndTurn(t) ==
    /\ Alive
    /\ t \in running
    /\ running' = running \ {t}
    /\ events' = [events EXCEPT ![t] = Append(@, "end")]
    /\ UNCHANGED <<requestVars, signalVars, loopVars, life, heard>>

\* handle_event: a turn counts from its start until its end has been sent.
HandleEvent(t) ==
    /\ Alive
    /\ life[t] = "loaded"
    /\ events[t] # << >>
    /\ heard' = IF Head(events[t]) = "start" THEN heard \cup {t} ELSE heard \ {t}
    /\ events' = [events EXCEPT ![t] = Tail(@)]
    /\ UNCHANGED <<requestVars, signalVars, loop, exit, seenActive, seenTurns, activeChanged,
                   life, running>>
    /\ NoteHeard

\* The listener finds its thread idle and without subscribers for long enough.
BeginUnload(t) ==
    /\ Alive
    /\ life[t] = "loaded"
    /\ events[t] = << >> /\ t \notin heard /\ t \notin running
    /\ life' = [life EXCEPT ![t] = "unloading"]
    /\ UNCHANGED <<requestVars, signalVars, loopVars, running, events, heard>>

\* remove_thread_state: nobody listens to the thread any more.
ForgetThread(t) ==
    /\ life[t] = "unloading"
    /\ life' = [life EXCEPT ![t] = "forgotten"]
    /\ heard' = heard \ {t}
    /\ UNCHANGED <<requestVars, signalVars, loop, exit, seenActive, seenTurns, activeChanged,
                   running, events>>
    /\ NoteHeard

\* AgentThread::shutdown: no more turns start, and the running one is interrupted.
ShutThread(t) ==
    /\ life[t] = "forgotten"
    /\ life' = [life EXCEPT ![t] = "shut"]
    /\ UNCHANGED <<requestVars, signalVars, loopVars, running, events, heard>>

\* The thread is down: remove_thread_if_matches.
RemoveThread(t) ==
    /\ life[t] = "shut" /\ t \notin running
    /\ life' = [life EXCEPT ![t] = "gone"]
    /\ UNCHANGED <<requestVars, signalVars, loopVars, running, events, heard>>

Unload(t) == Alive /\ (ForgetThread(t) \/ ShutThread(t) \/ RemoveThread(t))
------------------------------------------------------------------------------
Queues == Alive /\ DrainTask /\ UNCHANGED <<signalVars, loopVars, threadVars>>

Cleanups ==
    /\ Alive
    /\ CleanupTask
    /\ UNCHANGED <<signalVars, threadVars, loop, exit, seenActive, seenTurns, turnsChanged>>
    /\ NotePermits

Next ==
    \/ \E p \in Profiles : Incoming(p)
    \/ \E c \in Connections : ConnectionClosed(c)
    \/ \E forceable \in BOOLEAN : OnSignal(forceable)
    \/ TransportsGone
    \/ ServerLoop
    \/ Queues
    \/ Cleanups
    \/ \E n \in DOMAIN request : Handler(n)
    \/ \E t \in Threads : EndTurn(t) \/ HandleEvent(t) \/ BeginUnload(t) \/ Unload(t)

\* Tasks the runtime keeps polling: the loop, the drain and cleanup tasks, the
\* handlers, the listeners; and turns that end.
Fairness ==
    /\ WF_vars(ServerLoop)
    /\ WF_vars(Queues)
    /\ WF_vars(Cleanups)
    /\ \A n \in 1..MaxRequests : WF_vars(n \in DOMAIN request /\ Handler(n))
    /\ \A t \in Threads : /\ WF_vars(EndTurn(t))
                          /\ WF_vars(HandleEvent(t))
                          /\ WF_vars(Unload(t))

Spec == Init /\ [][Next]_vars /\ Fairness
------------------------------------------------------------------------------
(* Properties                                                               *)

\* A drain that was not forced stops the server only when no turn runs and no
\* admitted request is left that could still start one, although the permits,
\* the turns heard of and the turns running are read one after the other while
\* handlers start turns and let their permits go (the loop of Server::run).
DrainedIsQuiet ==
    exit = "drained" => running = {} /\ Admitted = {}

\* Every request that is queued is answered or dropped, however its connection,
\* the drain and the other requests of its key fare (drain, enqueue,
\* discard_closed).
RequestsSettle ==
    \A n \in 1..MaxRequests :
        (n \in DOMAIN request /\ status[n] = "queued")
            ~> (loop = "exited" \/ (n \in DOMAIN request /\ status[n] \in Settled))

\* While its threads stay loaded, a server asked to shut down comes to its end:
\* the loop, which sleeps until a watch changes, is never left asleep once the
\* last turn has ended and the last permit is gone.
DrainEnds ==
    requested ~> (loop = "exited" \/ \E t \in Threads : life[t] # "loaded")

==============================================================================
