----------------------------- MODULE WorkQueue ------------------------------
(***************************************************************************)
(* What the users of a BlockingQueue rely on: every call takes effect in   *)
(* one step between its beginning and its return, items leave in the order *)
(* in which they entered, the queue refuses items once it is closed and is *)
(* emptied nevertheless, and a call that can be completed is completed.    *)
(***************************************************************************)
EXTENDS Integers, Sequences

CONSTANTS
  Threads,   \* the threads that call the queue
  Items,     \* what can be queued
  Nothing,   \* no item
  Capacity   \* 0 when unbounded

VARIABLES
  queue,   \* the items, first in first out
  closed,
  call,    \* call[t]: the operation that t is executing, or "none"
  value    \* value[t]: the item given to push(), or returned by a pop

vars == <<queue, closed, call, value>>

Pops == {"pop", "pop_for", "try_pop"}

Init ==
  /\ queue = <<>> /\ closed = FALSE
  /\ call = [t \in Threads |-> "none"]
  /\ value = [t \in Threads |-> Nothing]

Begin(t, op, v) ==
  /\ call[t] = "none"
  /\ call' = [call EXCEPT ![t] = op]
  /\ value' = [value EXCEPT ![t] = v]
  /\ UNCHANGED <<queue, closed>>

Return(t, v) ==
  /\ call' = [call EXCEPT ![t] = "none"]
  /\ value' = [value EXCEPT ![t] = v]

Put(t) ==
  /\ call[t] = "push" /\ ~closed
  /\ Capacity = 0 \/ Len(queue) < Capacity
  /\ queue' = Append(queue, value[t])
  /\ Return(t, value[t])
  /\ UNCHANGED closed

Refuse(t) ==
  /\ call[t] = "push" /\ closed
  /\ Return(t, Nothing)
  /\ UNCHANGED <<queue, closed>>

Take(t) ==
  /\ call[t] \in Pops /\ queue # <<>>
  /\ queue' = Tail(queue)
  /\ Return(t, Head(queue))
  /\ UNCHANGED closed

\* Only pop() waits for as long as the queue is open.
GiveUp(t) ==
  /\ call[t] \in Pops /\ queue = <<>>
  /\ call[t] = "pop" => closed
  /\ Return(t, Nothing)
  /\ UNCHANGED <<queue, closed>>

Close ==
  /\ closed' = TRUE
  /\ UNCHANGED <<queue, call, value>>

Finish(t) == Put(t) \/ Refuse(t) \/ Take(t) \/ GiveUp(t)

Next ==
  \/ \E t \in Threads, v \in Items : Begin(t, "push", v)
  \/ \E t \in Threads, op \in Pops : Begin(t, op, Nothing)
  \/ \E t \in Threads : Finish(t)
  \/ Close

Spec == Init /\ [][Next]_vars

FairSpec == Spec /\ \A t \in Threads : WF_vars(Finish(t))
=============================================================================
