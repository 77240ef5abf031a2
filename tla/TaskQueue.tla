----------------------------- MODULE TaskQueue ------------------------------
(***************************************************************************)
(* BlockingQueue of include/common/BlockingQueue.hpp with its mutex and    *)
(* its two condition variables.                                            *)
(*                                                                         *)
(* mtx_ is held from the beginning of a call to its return or to a wait,   *)
(* so what a thread does in between is one step.  A thread that waits is   *)
(* asleep until it is notified, until its time is up or until it wakes for *)
(* no reason, and then needs the mutex to evaluate the predicate again.    *)
(* shutdown() notifies after it has unlocked the mutex.                    *)
(***************************************************************************)
EXTENDS Integers, Sequences, FiniteSets

CONSTANTS
  Producers,    \* threads that push
  Consumers,    \* threads that pop
  Nothing,      \* no item
  Capacity,     \* capacity_, 0 when unbounded
  MaxCalls,     \* calls of each thread (bounds the model)
  MaxSpurious   \* wakeups for no reason (bounds the model)

ASSUME QueueAssumption ==
  /\ Producers \cap Consumers = {} /\ IsFiniteSet(Producers \cup Consumers)
  /\ Capacity \in Nat /\ MaxCalls \in Nat /\ MaxSpurious \in Nat
  /\ Nothing \notin Producers \X (1..MaxCalls)

VARIABLES
  queue,    \* queue_
  closed,   \* isshutdown_
  call,     \* call[t]: the operation that t is executing, or "none"
  value,    \* value[t]: the item given to push(), or returned by a pop
  phase,    \* phase[t]: how far the operation has come
  closer,   \* where the thread that calls shutdown() stands
  calls,    \* the calls each thread has begun
  spurious  \* the wakeups for no reason so far

vars == <<queue, closed, call, value, phase, closer, calls, spurious>>

Threads == Producers \cup Consumers
Items   == Producers \X (1..MaxCalls)
Pops    == {"pop", "pop_for", "try_pop"}

Sleeping(T) == {t \in T : phase[t] = "asleep"}

\* The threads that are about to evaluate the predicate: newly called, woken,
\* or out of time.
Checking(T) == {t \in T : phase[t] \in {"called", "woken", "expired"}}

TypeOK ==
  /\ queue \in Seq(Items) /\ (Capacity > 0 => Len(queue) <= Capacity)
  /\ closed \in BOOLEAN
  /\ call \in [Threads -> {"none", "push"} \cup Pops]
  /\ value \in [Threads -> Items \cup {Nothing}]
  /\ phase \in [Threads -> {"out", "called", "asleep", "woken", "expired"}]
  /\ \A t \in Threads : phase[t] = "out" <=> call[t] = "none"
  /\ closer \in {"open", "notifyConsumers", "notifyProducers", "done"}
  /\ calls \in [Threads -> 0..MaxCalls] /\ spurious \in 0..MaxSpurious

Init ==
  /\ queue = <<>> /\ closed = FALSE
  /\ call = [t \in Threads |-> "none"]
  /\ value = [t \in Threads |-> Nothing]
  /\ phase = [t \in Threads |-> "out"]
  /\ closer = "open"
  /\ calls = [t \in Threads |-> 0] /\ spurious = 0

Call(t, op, v) ==
  /\ call[t] = "none" /\ calls[t] < MaxCalls
  /\ calls' = [calls EXCEPT ![t] = @ + 1]
  /\ call' = [call EXCEPT ![t] = op]
  /\ value' = [value EXCEPT ![t] = v]
  /\ phase' = [phase EXCEPT ![t] = "called"]
  /\ UNCHANGED <<queue, closed, closer, spurious>>

\* t returns and wakes a thread of T that waits, if there is one.
ReturnNotifying(t, v, T) ==
  /\ call' = [call EXCEPT ![t] = "none"]
  /\ value' = [value EXCEPT ![t] = v]
  /\ IF Sleeping(T) = {} THEN phase' = [phase EXCEPT ![t] = "out"]
     ELSE \E s \in Sleeping(T) :
            phase' = [phase EXCEPT ![t] = "out", ![s] = "woken"]
  /\ UNCHANGED <<closed, closer, calls, spurious>>

Sleep(t) ==
  /\ phase' = [phase EXCEPT ![t] = "asleep"]
  /\ UNCHANGED <<queue, closed, call, value, closer, calls, spurious>>
-----------------------------------------------------------------------------
(* push().                                                                 *)

HasRoom(p) == Capacity = 0 \/ Len(queue) < Capacity

Push(p) ==
  /\ p \in Checking(Producers) /\ ~closed /\ HasRoom(p)
  /\ queue' = Append(queue, value[p])
  /\ ReturnNotifying(p, value[p], Consumers)

PushRefused(p) ==
  /\ p \in Checking(Producers) /\ closed
  /\ ReturnNotifying(p, Nothing, {})
  /\ UNCHANGED queue

PushSleeps(p) ==
  /\ p \in Checking(Producers) /\ ~closed /\ ~HasRoom(p)
  /\ Sleep(p)
-----------------------------------------------------------------------------
(* pop(), pop_for() and try_pop().                                         *)

\* Faulty variant: no producer hears of the place that has become free.
PopSilently(c) ==
  /\ c \in Checking(Consumers) /\ queue # <<>>
  /\ queue' = Tail(queue)
  /\ ReturnNotifying(c, Head(queue), {})

Pop(c) ==
  /\ c \in Checking(Consumers) /\ queue # <<>>
  /\ queue' = Tail(queue)
  /\ ReturnNotifying(c, Head(queue), Producers)

\* The queue is empty, and the call does not wait or must not wait any longer.
MustGiveUp(c) ==
  /\ queue = <<>>
  /\ closed \/ phase[c] = "expired" \/ call[c] = "try_pop"

PopNothing(c) ==
  /\ c \in Checking(Consumers) /\ MustGiveUp(c)
  /\ ReturnNotifying(c, Nothing, {})
  /\ UNCHANGED queue

PopSleeps(c) ==
  /\ c \in Checking(Consumers) /\ queue = <<>> /\ ~MustGiveUp(c)
  /\ Sleep(c)

\* Faulty variant: a timeout starts the wait again.
TimeoutRestarts(c) ==
  /\ phase[c] = "asleep" /\ call[c] = "pop_for"
  /\ phase' = [phase EXCEPT ![c] = "woken"]
  /\ UNCHANGED <<queue, closed, call, value, closer, calls, spurious>>

\* wait_for() runs out of time; the predicate is evaluated once more.
Timeout(c) ==
  /\ phase[c] = "asleep" /\ call[c] = "pop_for"
  /\ phase' = [phase EXCEPT ![c] = "expired"]
  /\ UNCHANGED <<queue, closed, call, value, closer, calls, spurious>>
-----------------------------------------------------------------------------
(* shutdown(), and wakeups for no reason.                                  *)

NotifyAll(T) ==
  phase' = [t \in Threads |-> IF t \in Sleeping(T) THEN "woken" ELSE phase[t]]

RaiseFlag ==
  /\ closer = "open" /\ closer' = "notifyConsumers"
  /\ closed' = TRUE
  /\ UNCHANGED <<queue, call, value, phase, calls, spurious>>

NotifyConsumers ==
  /\ closer = "notifyConsumers" /\ closer' = "notifyProducers"
  /\ NotifyAll(Consumers)
  /\ UNCHANGED <<queue, closed, call, value, calls, spurious>>

NotifyProducers ==
  /\ closer = "notifyProducers" /\ closer' = "done"
  /\ NotifyAll(Producers)
  /\ UNCHANGED <<queue, closed, call, value, calls, spurious>>

SpuriousWake(t) ==
  /\ phase[t] = "asleep" /\ spurious < MaxSpurious
  /\ spurious' = spurious + 1
  /\ phase' = [phase EXCEPT ![t] = "woken"]
  /\ UNCHANGED <<queue, closed, call, value, closer, calls>>
-----------------------------------------------------------------------------
Producer(p) == Push(p) \/ PushRefused(p) \/ PushSleeps(p)
Consumer(c) == Pop(c) \/ PopNothing(c) \/ PopSleeps(c) \/ Timeout(c)
Closer      == NotifyConsumers \/ NotifyProducers

\* Nobody is in a call that could still be completed, or only with the help of
\* a call that nobody has to make.
Resting ==
  /\ \A t \in Threads : phase[t] \in {"out", "asleep"} /\ call[t] # "pop_for"
  /\ closer \in {"open", "done"}
  /\ UNCHANGED vars

Next ==
  \/ \E p \in Producers : Call(p, "push", <<p, calls[p] + 1>>) \/ Producer(p)
  \/ \E c \in Consumers : Consumer(c) \/ \E op \in Pops : Call(c, op, Nothing)
  \/ \E t \in Threads : SpuriousWake(t)
  \/ RaiseFlag \/ Closer \/ Resting

Spec == Init /\ [][Next]_vars

\* Every thread that is not asleep gets the mutex, and timed waits end.
Fairness ==
  /\ \A p \in Producers : WF_vars(Producer(p))
  /\ \A c \in Consumers : WF_vars(Consumer(c))
  /\ WF_vars(Closer)

FairSpec == Spec /\ Fairness
-----------------------------------------------------------------------------
(* Properties.                                                             *)

\* Nobody sleeps through what he waits for: as long as a consumer sleeps there
\* are no more items than threads on their way to take one, as long as a
\* producer sleeps no more free places than threads on their way to fill one,
\* and whoever sleeps after the shutdown is still going to be notified (push
\* lines 43-50, pop lines 60-70, shutdown lines 110-118).
NoLostWakeup ==
  /\ Sleeping(Consumers) # {} =>
       \/ closer = "notifyConsumers"
       \/ ~closed /\ Len(queue) <= Cardinality(Checking(Consumers))
  /\ Sleeping(Producers) # {} =>
       \/ closer \in {"notifyConsumers", "notifyProducers"}
       \/ ~closed /\ Capacity - Len(queue) <= Cardinality(Checking(Producers))

Abstract == INSTANCE WorkQueue

\* The queue with its two condition variables is the queue that its users rely
\* on: each call takes effect at once and in order, and every call that can be
\* completed is completed, the timed ones in any case and all of them after the
\* shutdown.
ImplementsWorkQueue == Abstract!FairSpec
=============================================================================
