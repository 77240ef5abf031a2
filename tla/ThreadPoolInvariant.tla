------------------------ MODULE ThreadPoolInvariant ------------------------
(***************************************************************************)
(* The inductive invariant behind the theorems about ThreadPool.  It is a  *)
(* module of its own so that TLC can check what the proofs assume to be    *)
(* inductive.                                                              *)
(***************************************************************************)
EXTENDS ThreadPool

\* Who is where: the constructor runs before there is a manager, the owner
\* passes joinManager only after the manager has ended, and workers_mtx_ is
\* held exactly by the one that creates or joins.
Roles ==
  /\ manager = "none" <=> owner \in {"ctor", "ctorCount"}
  /\ owner \in {"lockWorkers", "joinWorkers", "down"} => manager = "gone"
  /\ workersMtx = "owner" <=> owner \in {"ctorCount", "joinWorkers"}
  /\ workersMtx = "manager" <=> manager \in {"count", "reap"}
  /\ running <=> owner \in {"ctor", "ctorCount", "up"}
  /\ manager = "gone" => ~running
  /\ owner = "ctorCount" => toCreate > 0
  /\ manager \in {"create", "count"} => toCreate > 0
  /\ owner # "down" \/ \A w \in Threads : thread[w] = "none"

Executing == {w \in Threads : thread[w] = "executing"}

\* busy_threads_ counts the workers inside task().
BusyIsExact == busy = Cardinality(Executing)

\* Where the std::thread and the id of a worker are kept.
Tracking ==
  /\ \A w \in Threads : thread[w] # "none" <=> w \in workers
  /\ owner # "down" =>
        \A w \in exited \cup reaping : thread[w] \in {"returning", "retired"}
  /\ \A w \in Threads :
        thread[w] \in {"returning", "retired"} => w \in exited \cup reaping
  /\ manager \notin {"lock", "reap"} => reaping = {}
  /\ exited \cap reaping = {}

\* Workers get beyond the test of running_ only during the shutdown.
LeavingMeansStopped ==
  \A w \in Threads : thread[w] \in {"drained", "leave", "left"} => ~running

NobodyLeft == \A w \in Threads : thread[w] # "left"

\* Until the first worker leaves, the counter of live workers is kept between
\* the limits: the constructor counts up to core_threads_; afterwards only the
\* manager increases the counter, by no more than its sample allows.
Limits ==
  NobodyLeft =>
    /\ owner \in {"ctor", "ctorCount"} => live + toCreate = CoreThreads
    /\ owner \notin {"ctor", "ctorCount", "down"} =>
         CoreThreads <= live /\ live <= MaxThreads
    /\ manager = "busy" /\ owner # "down" => live <= seen
    /\ manager \in {"create", "count"} => live + toCreate <= MaxThreads

ActiveWorkers == {w \in Threads : thread[w] \in Active}

\* 1 between the start of a worker and its being counted.
Uncounted == IF owner = "ctorCount" \/ manager = "count" THEN 1 ELSE 0

\* Until the first worker leaves, the counter is the number of workers that
\* have not given up their place.
Census ==
  NobodyLeft /\ owner # "down" =>
    live + Uncounted = Cardinality(ActiveWorkers)

\* Where an early task is, and that nobody leaves before the queue is free of
\* early tasks.
Custody ==
  /\ \A t \in early : task[t] \in {"queued", "taken", "done"}
  /\ \A t \in Tasks : task[t] = "queued" =>
        \E i \in 1..Len(queue) : queue[i] = t
  /\ \A t \in Tasks : task[t] = "taken" =>
        \E w \in Threads : job[w] = t /\ thread[w] \in Working
  /\ (\E w \in Threads : thread[w] \in {"leave", "left"}) =>
        \A t \in early : task[t] # "queued"
  /\ NoEarlyTaskLost

IndInv ==
  TypeOK /\ Roles /\ BusyIsExact /\ Tracking /\ LeavingMeansStopped /\ Limits
    /\ Census /\ Custody

\* A task is in one place: once in the queue, or in the hands of one worker, so
\* that none is executed twice (submit lines 119-141, worker_loop lines 162-172).
OnePlace ==
  /\ \A i \in 1..Len(queue) : task[queue[i]] = "queued"
  /\ \A i, j \in 1..Len(queue) : queue[i] = queue[j] => i = j
  /\ \A w \in Threads :
       IF thread[w] \in Working
       THEN job[w] \in Tasks /\ task[job[w]] = "taken"
       ELSE job[w] = NoTask
  /\ \A v, w \in Threads : job[v] = job[w] /\ job[w] # NoTask => v = w
=============================================================================
