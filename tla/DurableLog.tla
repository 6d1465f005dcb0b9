----------------------------- MODULE DurableLog -----------------------------
(***************************************************************************)
(* What a rollout recorder promises the threads that record through it: a  *)
(* log that only grows, fed from one queue in the order of the calls.      *)
(* A barrier (a flush, a persist or a shutdown) waits in the same queue    *)
(* and is answered when it comes to the front, that is, when everything    *)
(* recorded before it is in the log.  What waits may be lost, all of it at *)
(* once, when the recorder stops; what is in the log may not.  The module  *)
(* is a property of the recorder, never run by itself.                     *)
(***************************************************************************)
EXTENDS Sequences, SequencesExt

CONSTANTS Items, \* what is recorded, each once
          Calls  \* the calls that wait for an answer

VARIABLES log,    \* what is stored, in order
          queue,  \* items and calls that wait
          result  \* the answer of each call

vars == <<log, queue, result>>

Init ==
    /\ log = <<>>
    /\ queue = <<>>
    /\ result = [c \in Calls |-> "none"]

\* An item is recorded.
Accept(i) ==
    /\ i \notin Range(queue) \cup Range(log)
    /\ queue' = Append(queue, i)
    /\ UNCHANGED <<log, result>>

\* A call is made, or made again after it failed, and waits its turn.
Ask(c) ==
    /\ result[c] \in {"none", "failed"}
    /\ queue' = Append(queue, c)
    /\ result' = [result EXCEPT ![c] = "waiting"]
    /\ log' = log

\* The oldest item that waits is stored.
Store ==
    /\ queue # <<>>
    /\ Head(queue) \in Items
    /\ log' = Append(log, Head(queue))
    /\ queue' = Tail(queue)
    /\ result' = result

\* A barrier is answered: everything before it has been stored.
Answer ==
    /\ queue # <<>>
    /\ Head(queue) \in Calls
    /\ result' = [result EXCEPT ![Head(queue)] = "ok"]
    /\ queue' = Tail(queue)
    /\ log' = log

\* A barrier is told that it failed; what waits keeps waiting.
Refuse(c) ==
    /\ \E n \in 1..Len(queue) : queue[n] = c /\ queue' = RemoveAt(queue, n)
    /\ result' = [result EXCEPT ![c] = "failed"]
    /\ log' = log

\* The recorder gives up what waits before the call, which asked for that.
Discard(c) ==
    /\ \E n \in 1..Len(queue) :
          /\ queue[n] = c
          /\ queue' = SubSeq(queue, n + 1, Len(queue))
          /\ \A m \in 1..(n - 1) : queue[m] \in Items
    /\ result' = [result EXCEPT ![c] = "discarded"]
    /\ log' = log

\* The recorder stops, or its process dies: what waits is lost.
Lose ==
    /\ queue' = <<>>
    /\ \A c \in Calls : IF result[c] = "waiting"
                        THEN result'[c] \in {"failed", "discarded"}
                        ELSE result'[c] = result[c]
    /\ log' = log

Next ==
    \/ \E i \in Items : Accept(i)
    \/ \E c \in Calls : Ask(c) \/ Refuse(c) \/ Discard(c)
    \/ Store
    \/ Answer
    \/ Lose

Spec == Init /\ [][Next]_vars
=============================================================================
