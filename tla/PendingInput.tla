---------------------------- MODULE PendingInput ----------------------------
(***************************************************************************)
(* Input steered into one run while it runs (runner/pending_input.rs).     *)
(* The queue is shared between the host, which pushes, and the run, which  *)
(* takes; every method holds the queue's own lock for its whole body, so   *)
(* each is one operator on the queue's state.  The activity watch, which   *)
(* only wakes a waiting tool, is left out.                                 *)
(***************************************************************************)
EXTENDS Sequences

PendingInputType(Message) == [messages : Seq(Message), closed : BOOLEAN]

NewPendingInput == [messages |-> <<>>, closed |-> FALSE]

\* push returns Err once the queue is closed, which leaves it as it was.
PushAccepts(q) == ~ q.closed
Push(q, m) == [messages |-> Append(q.messages, m), closed |-> q.closed]

\* take leaves the queue as open or as closed as it was.
Take_KeepsMessages(q) == q
Take(q) == [messages |-> <<>>, closed |-> q.closed]

\* What close returns is the caller's to keep.
Close(q) == [messages |-> <<>>, closed |-> TRUE]

Seal(q) == [messages |-> q.messages, closed |-> TRUE]

\* The run may finish when the result is closed.
CloseIfEmpty_EvenIfNot(q) == [messages |-> q.messages, closed |-> TRUE]
CloseIfEmpty(q) == [messages |-> q.messages, closed |-> q.closed \/ q.messages = <<>>]
=============================================================================
