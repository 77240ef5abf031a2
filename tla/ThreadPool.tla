----------------------------- MODULE ThreadPool -----------------------------
(***************************************************************************)
(* The elastic thread pool of include/pool/ThreadPool.hpp.                 *)
(*                                                                         *)
(* Four kinds of threads run here: callers of submit(), the worker         *)
(* threads, the manager thread that grows the pool and reaps retired       *)
(* workers, and the owner, which constructs the pool and shuts it down.    *)
(* One step is one atomic access to shared data: an operation on a         *)
(* std::atomic, or a critical section of the task queue, of exited_mtx_,   *)
(* or of workers_mtx_ up to the next call that may block.                  *)
(*                                                                         *)
(* Time is abstracted: every wait with a timeout may time out as soon as   *)
(* what it waits for is absent, and an idle worker may find that it has    *)
(* been idle for less or for more than idle_timeout_.                      *)
(***************************************************************************)
EXTENDS Integers, Sequences, FiniteSets

CONSTANTS
  Tasks,          \* the calls of submit(), one task each (bounds the model)
  Threads,        \* the std::thread identities a worker can have
  NoTask,         \* what a worker that has popped nothing holds
  CoreThreads,    \* core_threads_
  MaxThreads,     \* max_threads_
  QueueCapacity,  \* capacity_ of task_queue_, 0 when unbounded
  CounterModulus  \* 2^w for the w bits of the size_t counters

\* The constructor throws unless 0 < core_threads <= max_threads (lines 64-67).
ASSUME ConfigAssumption ==
  /\ CoreThreads \in Nat \ {0}
  /\ MaxThreads \in Nat /\ CoreThreads <= MaxThreads
  /\ QueueCapacity \in Nat
  /\ CounterModulus \in Nat /\ MaxThreads < CounterModulus

ASSUME IdentityAssumption ==
  /\ NoTask \notin Tasks
  /\ IsFiniteSet(Threads)

ASSUME KindsAssumption == Tasks \cap Threads = {}

VARIABLES
  running,    \* running_
  accepting,  \* accepting_tasks_
  queue,      \* the pending tasks in task_queue_, first in first out
  queueShut,  \* isshutdown_ of task_queue_
  live,       \* live_threads_
  busy,       \* busy_threads_
  task,       \* task[t]: how far submission t has come
  thread,     \* thread[w]: where worker w stands in worker_loop
  job,        \* job[w]: the task worker w popped last and has not finished
  curr,       \* curr[w]: the local curr_live of worker w
  workers,    \* the threads that have an entry in workers_
  exited,     \* exited_thread_ids_
  workersMtx, \* the holder of workers_mtx_
  manager,    \* where the manager stands in manager_loop
  pending,    \* its local copy of the queue length
  seen,       \* its local copy of live_threads_
  toCreate,   \* create_worker calls left in the loop being executed
  reaping,    \* its local ids_to_reap
  owner,      \* where the owner stands: constructor, in use, shutdown()
  early       \* history: the tasks queued while running_ was still true

taskVars    == <<queue, queueShut, task, early>>
flagVars    == <<running, accepting>>
workerVars  == <<thread, job, curr>>
managerVars == <<manager, pending, seen, reaping>>
vars == <<taskVars, flagVars, live, busy, workerVars, workers, exited,
          workersMtx, managerVars, toCreate, owner>>

TaskStates == {"new", "submitting", "queued", "taken", "done", "refused"}

\* A worker that executes popped code, and one that waits or decides.
Working  == {"got", "executing", "tally"}
Deciding == {"wait", "check", "drained", "idle", "load", "cas"}
\* "leave" has broken out of the loop, "bury" has given up its place in
\* live_threads_, "returning" has queued its id, and the last two have ended.
Active   == Working \cup Deciding \cup {"leave"}
Finished == {"retired", "left"}
ThreadStates == {"none"} \cup Active \cup {"bury", "returning"} \cup Finished

ManagerStates == {"none", "sleep", "pending", "live", "busy", "create",
                  "count", "swap", "lock", "reap", "gone"}
OwnerStates == {"ctor", "ctorCount", "up", "refuse", "closeQueue",
                "joinManager", "lockWorkers", "joinWorkers", "down"}

TypeOK ==
  /\ running \in BOOLEAN /\ accepting \in BOOLEAN /\ queueShut \in BOOLEAN
  /\ queue \in Seq(Tasks)
  /\ live \in 0..(CounterModulus - 1)
  /\ busy \in Nat
  /\ task \in [Tasks -> TaskStates]
  /\ thread \in [Threads -> ThreadStates]
  /\ job \in [Threads -> Tasks \cup {NoTask}]
  /\ curr \in [Threads -> 0..(CounterModulus - 1)]
  /\ workers \subseteq Threads /\ exited \subseteq Threads
  /\ reaping \subseteq Threads
  /\ workersMtx \in {"free", "owner", "manager"}
  /\ manager \in ManagerStates /\ owner \in OwnerStates
  /\ pending \in Nat /\ seen \in 0..(CounterModulus - 1)
  /\ toCreate \in Nat
  /\ early \subseteq Tasks

\* The constructor has initialised the members and enters its loop.
Init ==
  /\ running = TRUE /\ accepting = TRUE
  /\ queue = <<>> /\ queueShut = FALSE
  /\ live = 0 /\ busy = 0
  /\ task = [t \in Tasks |-> "new"]
  /\ thread = [w \in Threads |-> "none"]
  /\ job = [w \in Threads |-> NoTask]
  /\ curr = [w \in Threads |-> 0]
  /\ workers = {} /\ exited = {} /\ reaping = {}
  /\ workersMtx = "free"
  /\ manager = "none" /\ pending = 0 /\ seen = 0
  /\ toCreate = CoreThreads
  /\ owner = "ctor"
  /\ early = {}

\* size_t arithmetic for a change by one.
Wrap(n) == IF n < 0 THEN n + CounterModulus
           ELSE IF n >= CounterModulus THEN n - CounterModulus ELSE n

Min2(a, b) == IF a <= b THEN a ELSE b

Goto(w, from, to) == thread[w] = from /\ thread' = [thread EXCEPT ![w] = to]
-----------------------------------------------------------------------------
(* submit(): the flag is read first, the queue is entered later.           *)

Submit(t) ==
  /\ owner \notin {"ctor", "ctorCount"}
  /\ task[t] = "new"
  /\ task' = [task EXCEPT ![t] = IF accepting THEN "submitting" ELSE "refused"]
  /\ UNCHANGED <<queue, queueShut, early, flagVars, live, busy, workerVars,
                 workers, exited, workersMtx, managerVars, toCreate, owner>>

\* push() blocks while the queue is open and full, and fails once it is shut.
Push(t) ==
  /\ task[t] = "submitting"
  /\ \/ /\ queueShut
        /\ task' = [task EXCEPT ![t] = "refused"]
        /\ UNCHANGED <<queue, early>>
     \/ /\ ~queueShut
        /\ QueueCapacity = 0 \/ Len(queue) < QueueCapacity
        /\ queue' = Append(queue, t)
        /\ task' = [task EXCEPT ![t] = "queued"]
        /\ early' = IF running THEN early \cup {t} ELSE early
  /\ UNCHANGED <<queueShut, flagVars, live, busy, workerVars, workers, exited,
                 workersMtx, managerVars, toCreate, owner>>
-----------------------------------------------------------------------------
(* create_worker(), called by the constructor and by the manager: the      *)
(* thread runs as soon as it is emplaced, and is counted afterwards.       *)

Spawn(w, who) ==
  /\ workersMtx = "free"
  /\ thread[w] = "none"
  /\ workersMtx' = who
  /\ thread' = [thread EXCEPT ![w] = "wait"]
  /\ workers' = workers \cup {w}

Count(who) ==
  /\ workersMtx = who
  /\ workersMtx' = "free"
  /\ live' = Wrap(live + 1)
  /\ toCreate' = toCreate - 1
-----------------------------------------------------------------------------
(* worker_loop() and execute_task().                                       *)

workerRest == <<flagVars, workers, workersMtx, managerVars, toCreate, owner>>

\* Faulty variant: the task is read and executed, and removed only when it ends.
PopTaskUnremoved(w) ==
  /\ queue # <<>>
  /\ Goto(w, "wait", "got")
  /\ job' = [job EXCEPT ![w] = Head(queue)]
  /\ task' = [task EXCEPT ![Head(queue)] = "taken"]
  /\ UNCHANGED <<queue, queueShut, early, curr, live, busy, exited, workerRest>>

\* pop_for(): succeeds if and only if there is a task, shut down or not.
PopTask(w) ==
  /\ queue # <<>>
  /\ Goto(w, "wait", "got")
  /\ job' = [job EXCEPT ![w] = Head(queue)]
  /\ task' = [task EXCEPT ![Head(queue)] = "taken"]
  /\ queue' = Tail(queue)
  /\ UNCHANGED <<queueShut, early, curr, live, busy, exited, workerRest>>

\* pop_for() returns false: the timeout passed, or the queue is shut down.
PopNothing(w) ==
  /\ queue = <<>>
  /\ Goto(w, "wait", "check")
  /\ UNCHANGED <<taskVars, job, curr, live, busy, exited, workerRest>>

BeginTask(w) ==
  /\ Goto(w, "got", "executing")
  /\ busy' = busy + 1
  /\ UNCHANGED <<taskVars, job, curr, live, exited, workerRest>>

\* The task returned or threw; execute_task() catches everything.
EndTask(w) ==
  /\ Goto(w, "executing", "tally")
  /\ busy' = busy - 1
  /\ UNCHANGED <<taskVars, job, curr, live, exited, workerRest>>

\* completed_tasks_ counts the tasks in state "done".
Tally(w) ==
  /\ Goto(w, "tally", "wait")
  /\ task' = [task EXCEPT ![job[w]] = "done"]
  /\ job' = [job EXCEPT ![w] = NoTask]
  /\ UNCHANGED <<queue, queueShut, early, curr, live, busy, exited, workerRest>>

\* Faulty variant: a worker leaves as soon as the pool is stopped.
CheckRunningOnly(w) ==
  /\ Goto(w, "check", IF running THEN "idle" ELSE "leave")
  /\ UNCHANGED <<taskVars, job, curr, live, busy, exited, workerRest>>

CheckRunning(w) ==
  /\ Goto(w, "check", IF running THEN "idle" ELSE "drained")
  /\ UNCHANGED <<taskVars, job, curr, live, busy, exited, workerRest>>

CheckDrained(w) ==
  /\ Goto(w, "drained", IF queue = <<>> THEN "leave" ELSE "idle")
  /\ UNCHANGED <<taskVars, job, curr, live, busy, exited, workerRest>>

Leave(w) ==
  /\ Goto(w, "leave", "left")
  /\ live' = Wrap(live - 1)
  /\ UNCHANGED <<taskVars, job, curr, busy, exited, workerRest>>

\* Core workers stay; another one stays while idle_duration < idle_timeout_.
CheckIdle(w) ==
  /\ \/ Goto(w, "idle", "wait")
     \/ live > CoreThreads /\ Goto(w, "idle", "load")
  /\ UNCHANGED <<taskVars, job, curr, live, busy, exited, workerRest>>

LoadLive(w) ==
  /\ Goto(w, "load", "cas")
  /\ curr' = [curr EXCEPT ![w] = live]
  /\ UNCHANGED <<taskVars, job, live, busy, exited, workerRest>>

\* The compare-and-exchange succeeds.
Retire(w) ==
  /\ curr[w] > CoreThreads
  /\ live = curr[w]
  /\ live' = curr[w] - 1
  /\ Goto(w, "cas", "bury")
  /\ curr' = [curr EXCEPT ![w] = 0]
  /\ UNCHANGED <<taskVars, job, busy, exited, workerRest>>

\* It fails because another thread changed the counter, which is reloaded.
RetryRetire(w) ==
  /\ thread[w] = "cas"
  /\ curr[w] > CoreThreads
  /\ live # curr[w]
  /\ curr' = [curr EXCEPT ![w] = live]
  /\ UNCHANGED <<taskVars, thread, job, live, busy, exited, workerRest>>

\* The others retired first: back to the loop.
StayCore(w) ==
  /\ curr[w] <= CoreThreads
  /\ Goto(w, "cas", "wait")
  /\ curr' = [curr EXCEPT ![w] = 0]
  /\ UNCHANGED <<taskVars, job, live, busy, exited, workerRest>>

\* Faulty variant: the retired worker ends without leaving its id.
BuryUnrecorded(w) ==
  /\ Goto(w, "bury", "returning")
  /\ UNCHANGED <<taskVars, job, curr, live, busy, exited, workerRest>>

Bury(w) ==
  /\ Goto(w, "bury", "returning")
  /\ exited' = exited \cup {w}
  /\ UNCHANGED <<taskVars, job, curr, live, busy, workerRest>>

Return(w) ==
  /\ Goto(w, "returning", "retired")
  /\ UNCHANGED <<taskVars, job, curr, live, busy, exited, workerRest>>

Worker(w) ==
  \/ PopTask(w) \/ PopNothing(w) \/ BeginTask(w) \/ EndTask(w) \/ Tally(w)
  \/ CheckRunning(w) \/ CheckDrained(w) \/ Leave(w)
  \/ CheckIdle(w) \/ LoadLive(w)
  \/ Retire(w) \/ RetryRetire(w) \/ StayCore(w) \/ Bury(w) \/ Return(w)
-----------------------------------------------------------------------------
(* manager_loop(): the three samples are taken at three different times.   *)

managerRest == <<taskVars, flagVars, busy, job, curr, owner>>

\* Faulty variant: running_ is not looked at again after the sleep.
WakeUnchecked ==
  /\ manager = "sleep"
  /\ manager' = "pending"
  /\ UNCHANGED <<managerRest, live, thread, workers, exited, workersMtx,
                 pending, seen, toCreate, reaping>>

\* The loop test before the sleep and the test after it.
Wake ==
  /\ manager = "sleep"
  /\ manager' = IF running THEN "pending" ELSE "gone"
  /\ UNCHANGED <<managerRest, live, thread, workers, exited, workersMtx,
                 pending, seen, toCreate, reaping>>

SamplePending ==
  /\ manager = "pending" /\ manager' = "live"
  /\ pending' = Len(queue)
  /\ UNCHANGED <<managerRest, live, thread, workers, exited, workersMtx, seen,
                 toCreate, reaping>>

SampleLive ==
  /\ manager = "live" /\ manager' = "busy"
  /\ seen' = live
  /\ UNCHANGED <<managerRest, live, thread, workers, exited, workersMtx,
                 pending, toCreate, reaping>>

NeedExpand ==
  \/ seen > 0 /\ busy >= seen /\ pending > 0
  \/ pending > seen

\* Faulty variant: the room left below max_threads_ is not looked at.
GrowCountUncapped ==
  IF NeedExpand
  THEN IF pending > seen THEN Min2(2, pending - seen) ELSE 1
  ELSE 0

\* One worker more, or up to two for a burst, but never beyond max_threads_.
GrowCount ==
  IF NeedExpand /\ seen < MaxThreads
  THEN Min2(IF pending > seen THEN Min2(2, pending - seen) ELSE 1,
            MaxThreads - seen)
  ELSE 0

\* busy_threads_ is the last sample; the decision uses only local copies.
Decide ==
  /\ manager = "busy"
  /\ toCreate' = GrowCount
  /\ manager' = IF GrowCount > 0 THEN "create" ELSE "swap"
  /\ pending' = 0 /\ seen' = 0
  /\ UNCHANGED <<managerRest, live, thread, workers, exited, workersMtx,
                 reaping>>

ManagerSpawn(w) ==
  /\ manager = "create" /\ manager' = "count"
  /\ Spawn(w, "manager")
  /\ UNCHANGED <<managerRest, live, exited, pending, seen, toCreate, reaping>>

ManagerCount ==
  /\ manager = "count"
  /\ Count("manager")
  /\ manager' = IF toCreate' > 0 THEN "create" ELSE "swap"
  /\ UNCHANGED <<managerRest, thread, workers, exited, pending, seen, reaping>>

\* The swap under exited_mtx_; nothing to reap ends the round.
SwapExited ==
  /\ manager = "swap"
  /\ manager' = IF exited = {} THEN "sleep" ELSE "lock"
  /\ reaping' = exited
  /\ exited' = {}
  /\ UNCHANGED <<managerRest, live, thread, workers, workersMtx, pending, seen,
                 toCreate>>

LockToReap ==
  /\ manager = "lock" /\ manager' = "reap"
  /\ workersMtx = "free" /\ workersMtx' = "manager"
  /\ UNCHANGED <<managerRest, live, thread, workers, exited, pending, seen,
                 toCreate, reaping>>

\* join() blocks until the thread has ended; then its entry is erased.
Reap(w) ==
  /\ manager = "reap"
  /\ w \in reaping
  /\ reaping' = reaping \ {w}
  /\ IF w \in workers
     THEN /\ thread[w] \in Finished
          /\ thread' = [thread EXCEPT ![w] = "none"]
          /\ workers' = workers \ {w}
     ELSE UNCHANGED <<thread, workers>>
  /\ UNCHANGED <<managerRest, live, exited, workersMtx, manager, pending, seen,
                 toCreate>>

EndReaping ==
  /\ manager = "reap" /\ reaping = {}
  /\ manager' = "sleep"
  /\ workersMtx' = "free"
  /\ UNCHANGED <<managerRest, live, thread, workers, exited, pending, seen,
                 toCreate, reaping>>

Manager ==
  \/ Wake \/ SamplePending \/ SampleLive \/ Decide \/ ManagerCount
  \/ SwapExited \/ LockToReap \/ EndReaping
  \/ \E w \in Threads : ManagerSpawn(w) \/ Reap(w)
-----------------------------------------------------------------------------
(* The owner: constructor, then shutdown(), which only the first caller    *)
(* executes.                                                               *)

ConstructorSpawn(w) ==
  /\ owner = "ctor" /\ toCreate > 0
  /\ owner' = "ctorCount"
  /\ Spawn(w, "owner")
  /\ UNCHANGED <<taskVars, flagVars, live, busy, job, curr, exited,
                 managerVars, toCreate>>

ConstructorCount ==
  /\ owner = "ctorCount" /\ owner' = "ctor"
  /\ Count("owner")
  /\ UNCHANGED <<taskVars, flagVars, busy, workerVars, workers, exited,
                 managerVars>>

\* The manager thread is started last.
Constructed ==
  /\ owner = "ctor" /\ toCreate = 0
  /\ owner' = "up"
  /\ manager' = "sleep"
  /\ UNCHANGED <<taskVars, flagVars, live, busy, workerVars, workers, exited,
                 workersMtx, pending, seen, toCreate, reaping>>

ownerRest == <<queue, task, early, live, busy, job, curr, exited, managerVars,
               toCreate>>

StopRunning ==
  /\ owner = "up" /\ owner' = "refuse"
  /\ running' = FALSE
  /\ UNCHANGED <<ownerRest, accepting, queueShut, thread, workers, workersMtx>>

RefuseTasks ==
  /\ owner = "refuse" /\ owner' = "closeQueue"
  /\ accepting' = FALSE
  /\ UNCHANGED <<ownerRest, running, queueShut, thread, workers, workersMtx>>

CloseQueue ==
  /\ owner = "closeQueue" /\ owner' = "joinManager"
  /\ queueShut' = TRUE
  /\ UNCHANGED <<ownerRest, flagVars, thread, workers, workersMtx>>

JoinManager ==
  /\ owner = "joinManager" /\ owner' = "lockWorkers"
  /\ manager = "gone"
  /\ UNCHANGED <<ownerRest, flagVars, queueShut, thread, workers, workersMtx>>

LockWorkers ==
  /\ owner = "lockWorkers" /\ owner' = "joinWorkers"
  /\ workersMtx = "free" /\ workersMtx' = "owner"
  /\ UNCHANGED <<ownerRest, flagVars, queueShut, thread, workers>>

\* The joins of the loop, the last of which completes when all have ended.
JoinWorkers ==
  /\ owner = "joinWorkers" /\ owner' = "down"
  /\ \A w \in workers : thread[w] \in Finished
  /\ thread' = [w \in Threads |-> IF w \in workers THEN "none" ELSE thread[w]]
  /\ workers' = {}
  /\ workersMtx' = "free"
  /\ UNCHANGED <<ownerRest, flagVars, queueShut>>

Construct ==
  \/ \E w \in Threads : ConstructorSpawn(w)
  \/ ConstructorCount
  \/ Constructed

\* shutdown() once it has been entered.
Shutdown ==
  \/ RefuseTasks \/ CloseQueue \/ JoinManager \/ LockWorkers \/ JoinWorkers

\* After shutdown() nothing runs any more.
Stopped == owner = "down" /\ UNCHANGED vars
-----------------------------------------------------------------------------
Next ==
  \/ \E t \in Tasks : Submit(t) \/ Push(t)
  \/ \E w \in Threads : Worker(w)
  \/ Manager
  \/ Construct
  \/ StopRunning
  \/ Shutdown
  \/ Stopped

Spec == Init /\ [][Next]_vars

(***************************************************************************)
(* Every thread that can take a step takes one eventually: the operating   *)
(* system schedules all of them, the timed waits end, and tasks return.    *)
(* Nobody is obliged to call submit() or shutdown().                       *)
(***************************************************************************)
Fairness ==
  /\ \A w \in Threads : WF_vars(Worker(w))
  /\ \A t \in Tasks : WF_vars(Push(t))
  /\ WF_vars(Manager)
  /\ WF_vars(Construct)
  /\ WF_vars(Shutdown)

FairSpec == Spec /\ Fairness
-----------------------------------------------------------------------------
(* Properties.                                                             *)

\* While the pool is in use the counter of live workers stays between
\* core_threads_ and max_threads_, although the manager grows the pool from a
\* sample that is stale by the time it creates a worker, and idle workers
\* retire concurrently (worker_loop lines 191-203, manager_loop lines 240-265).
LiveWithinLimits ==
  owner = "up" => CoreThreads <= live /\ live <= MaxThreads

\* A task that entered the queue before shutdown() began has been executed by
\* the time shutdown() returns: a worker leaves only when it finds the queue
\* empty, and retirement never takes the last worker (lines 174-206, 297-325).
NoEarlyTaskLost ==
  owner = "down" => \A t \in early : task[t] = "done"

\* A thread that exists has its std::thread in workers_, so that no joinable
\* std::thread is destroyed and shutdown() joins every thread (lines 146-150,
\* 279-293, 317-323).
ThreadsTracked ==
  \A w \in Threads : thread[w] # "none" => w \in workers

\* While the pool is in use, a worker that retired and ended is known to the
\* manager until it is joined (lines 199-200 and 270-275).
NoZombie ==
  owner = "up" =>
    \A w \in Threads : thread[w] = "retired" => w \in exited \cup reaping

\* Every submission and every worker is a caller of the queue.
QueueCall ==
  [c \in Tasks \cup Threads |->
     IF c \in Tasks
     THEN IF task[c] = "submitting" THEN "push" ELSE "none"
     ELSE IF thread[c] = "wait" THEN "pop_for" ELSE "none"]

\* What it gives to the queue, or has got from it.
QueueValue ==
  [c \in Tasks \cup Threads |->
     IF c \in Tasks
     THEN IF task[c] \in {"new", "refused"} THEN NoTask ELSE c
     ELSE job[c]]

PoolQueue == INSTANCE WorkQueue WITH
  Threads <- Tasks \cup Threads, Items <- Tasks, Nothing <- NoTask,
  Capacity <- QueueCapacity, closed <- queueShut,
  call <- QueueCall, value <- QueueValue

\* The pool relies on no more of its queue than WorkQueue promises and TaskQueue
\* implements: submit() pushes, workers pop, shutdown() closes, and a worker holds
\* what its pop returned until it has executed it (lines 119-141, 162-172, 309).
UsesWorkQueue == PoolQueue!Spec

\* When shutdown() has stopped the intake and joined the workers, no task that
\* submit() accepted is left in the queue (comments on lines 174 and 305).
ShutdownLeavesNoTask == owner = "down" => queue = <<>>

\* A call of shutdown() returns: the joins end (lines 297-325).
ShutdownReturns == owner = "refuse" ~> owner = "down"

\* A task queued before shutdown() began is executed, whether or not the pool
\* is shut down meanwhile, and however workers retire (lines 162-204).
EarlyTaskRuns == \A t \in Tasks : t \in early ~> task[t] = "done"
=============================================================================
