-------------------------- MODULE ThreadPoolProofs --------------------------
(***************************************************************************)
(* Proofs, for every value of the constants, that ThreadPool keeps its     *)
(* types, never leaves its size limits, keeps track of every thread and    *)
(* executes every task that was queued before the shutdown.                *)
(***************************************************************************)
EXTENDS ThreadPoolInvariant, FiniteSetTheorems, TLAPS

-----------------------------------------------------------------------------
(* Counting workers.                                                       *)

LEMMA CountOneMore ==
  ASSUME NEW S \in SUBSET Threads, NEW w \in Threads \ S
  PROVE  /\ Cardinality(S \cup {w}) = Cardinality(S) + 1
         /\ Cardinality(S) \in Nat
<1>1. IsFiniteSet(S)
  BY IdentityAssumption, FS_Subset
<1> QED
  BY <1>1, FS_AddElement, FS_CardinalityType

LEMMA CountOneLess ==
  ASSUME NEW S \in SUBSET Threads, NEW w \in S
  PROVE  /\ Cardinality(S \ {w}) = Cardinality(S) - 1
         /\ Cardinality(S) \in Nat
<1>1. IsFiniteSet(S)
  BY IdentityAssumption, FS_Subset
<1> QED
  BY <1>1, FS_RemoveElement, FS_CardinalityType

\* What a step of one worker does to the set of those executing a task.
LEMMA ExecutingChange ==
  ASSUME BusyIsExact,
         thread \in [Threads -> ThreadStates],
         thread' \in [Threads -> ThreadStates],
         NEW w \in Threads,
         \A v \in Threads \ {w} : thread'[v] = thread[v],
         \/ /\ busy' = busy
            /\ thread[w] = "executing" <=> thread'[w] = "executing"
         \/ /\ busy' = busy + 1
            /\ thread[w] # "executing" /\ thread'[w] = "executing"
         \/ /\ busy' = busy - 1
            /\ thread[w] = "executing" /\ thread'[w] # "executing"
  PROVE  BusyIsExact'
<1>1. CASE thread[w] = "executing" <=> thread'[w] = "executing"
  <2>1. Executing' = Executing
    BY <1>1 DEF Executing
  <2> QED
    BY <2>1, <1>1 DEF BusyIsExact
<1>2. CASE thread[w] # "executing" /\ thread'[w] = "executing"
  <2>1. Executing' = Executing \cup {w}
    BY <1>2 DEF Executing
  <2>2. Executing \in SUBSET Threads /\ w \in Threads \ Executing
    BY <1>2 DEF Executing
  <2> QED
    BY <2>1, <2>2, <1>2, CountOneMore DEF BusyIsExact
<1>3. CASE thread[w] = "executing" /\ thread'[w] # "executing"
  <2>1. Executing' = Executing \ {w}
    BY <1>3 DEF Executing
  <2>2. Executing \in SUBSET Threads /\ w \in Executing
    BY <1>3 DEF Executing
  <2> QED
    BY <2>1, <2>2, <1>3, CountOneLess DEF BusyIsExact
<1> QED
  BY <1>1, <1>2, <1>3

\* What a step of one worker does to the number of active ones.
LEMMA ActiveChange ==
  ASSUME thread \in [Threads -> ThreadStates],
         thread' \in [Threads -> ThreadStates],
         NEW w \in Threads,
         \A v \in Threads \ {w} : thread'[v] = thread[v]
  PROVE  /\ Cardinality(ActiveWorkers) \in Nat
         /\ (thread[w] \in Active <=> thread'[w] \in Active) =>
              Cardinality(ActiveWorkers') = Cardinality(ActiveWorkers)
         /\ thread[w] \notin Active /\ thread'[w] \in Active =>
              Cardinality(ActiveWorkers') = Cardinality(ActiveWorkers) + 1
         /\ thread[w] \in Active /\ thread'[w] \notin Active =>
              Cardinality(ActiveWorkers') = Cardinality(ActiveWorkers) - 1
<1>1. Cardinality(ActiveWorkers) \in Nat
  BY IdentityAssumption, FS_Subset, FS_CardinalityType DEF ActiveWorkers
<1>2. CASE thread[w] \in Active <=> thread'[w] \in Active
  <2>1. ActiveWorkers' = ActiveWorkers
    BY <1>2 DEF ActiveWorkers
  <2> QED
    BY <2>1, <1>1, <1>2
<1>3. CASE thread[w] \notin Active /\ thread'[w] \in Active
  <2>1. ActiveWorkers' = ActiveWorkers \cup {w}
    BY <1>3 DEF ActiveWorkers
  <2>2. ActiveWorkers \in SUBSET Threads /\ w \in Threads \ ActiveWorkers
    BY <1>3 DEF ActiveWorkers
  <2> QED
    BY <2>1, <2>2, <1>3, CountOneMore
<1>4. CASE thread[w] \in Active /\ thread'[w] \notin Active
  <2>1. ActiveWorkers' = ActiveWorkers \ {w}
    BY <1>4 DEF ActiveWorkers
  <2>2. ActiveWorkers \in SUBSET Threads /\ w \in ActiveWorkers
    BY <1>4 DEF ActiveWorkers
  <2> QED
    BY <2>1, <2>2, <1>4, CountOneLess
<1> QED
  BY <1>1, <1>2, <1>3, <1>4

LEMMA BusyPositive ==
  ASSUME BusyIsExact, NEW w \in Threads, thread[w] = "executing"
  PROVE  busy > 0
<1>1. IsFiniteSet(Executing) /\ Executing # {}
  BY IdentityAssumption, FS_Subset DEF Executing
<1> QED
  BY <1>1, FS_EmptySet, FS_CardinalityType DEF BusyIsExact
-----------------------------------------------------------------------------
(* Every step preserves every part of the invariant.                       *)

\* The types, given that the counters are decremented only when positive.
LEMMA TypeStep ==
  ASSUME TypeOK, Roles, BusyIsExact, [Next]_vars
  PROVE  TypeOK'
<1> USE ConfigAssumption, IdentityAssumption DEF taskVars, flagVars,
   workerVars, managerVars, workerRest, managerRest, ownerRest, Goto,
   TypeOK, TaskStates, ThreadStates, Active, Working, Deciding, Finished,
   ManagerStates, OwnerStates, Roles
<1>1. ASSUME NEW t \in Tasks, Submit(t) \/ Push(t) PROVE TypeOK'
  <2>1. ASSUME Submit(t) PROVE TypeOK'
    BY <2>1 DEF Submit
  <2>2. ASSUME Push(t) PROVE TypeOK'
    <3>1. CASE queueShut
      BY <2>2, <3>1 DEF Push
    <3>2. CASE ~queueShut
      <4>1. queue' = Append(queue, t) /\ queue' \in Seq(Tasks)
        BY <2>2, <3>2 DEF Push
      <4>2. task' \in [Tasks -> TaskStates] /\ early' \subseteq Tasks
        BY <2>2, <3>2 DEF Push
      <4> QED
        BY <2>2, <4>1, <4>2 DEF Push
    <3> QED
      BY <3>1, <3>2
  <2> QED
    BY <1>1, <2>1, <2>2
<1>2. ASSUME NEW w \in Threads, Worker(w) PROVE TypeOK'
  <2>1. ASSUME PopTask(w) PROVE TypeOK'
    BY <2>1 DEF PopTask
  <2>2. ASSUME PopNothing(w) PROVE TypeOK'
    BY <2>2 DEF PopNothing
  <2>3. ASSUME BeginTask(w) PROVE TypeOK'
    BY <2>3 DEF BeginTask
  <2>4. ASSUME EndTask(w) PROVE TypeOK'
    BY <2>4, BusyPositive DEF EndTask
  <2>5. ASSUME Tally(w) PROVE TypeOK'
    BY <2>5 DEF Tally
  <2>6. ASSUME CheckRunning(w) PROVE TypeOK'
    BY <2>6 DEF CheckRunning
  <2>7. ASSUME CheckDrained(w) PROVE TypeOK'
    BY <2>7 DEF CheckDrained
  <2>8. ASSUME Leave(w) PROVE TypeOK'
    BY <2>8 DEF Leave, Wrap
  <2>9. ASSUME CheckIdle(w) PROVE TypeOK'
    BY <2>9 DEF CheckIdle
  <2>10. ASSUME LoadLive(w) PROVE TypeOK'
    BY <2>10 DEF LoadLive
  <2>11. ASSUME Retire(w) PROVE TypeOK'
    BY <2>11 DEF Retire
  <2>12. ASSUME RetryRetire(w) PROVE TypeOK'
    BY <2>12 DEF RetryRetire
  <2>13. ASSUME StayCore(w) PROVE TypeOK'
    BY <2>13 DEF StayCore
  <2>14. ASSUME Bury(w) PROVE TypeOK'
    BY <2>14 DEF Bury
  <2>15. ASSUME Return(w) PROVE TypeOK'
    BY <2>15 DEF Return
  <2> QED
    BY <1>2, <2>1, <2>2, <2>3, <2>4, <2>5, <2>6, <2>7, <2>8, <2>9, <2>10,
       <2>11, <2>12, <2>13, <2>14, <2>15 DEF Worker
<1>3. ASSUME Manager PROVE TypeOK'
  <2>1. ASSUME Wake PROVE TypeOK'
    BY <2>1 DEF Wake
  <2>2. ASSUME SamplePending PROVE TypeOK'
    BY <2>2 DEF SamplePending
  <2>3. ASSUME SampleLive PROVE TypeOK'
    BY <2>3 DEF SampleLive
  <2>4. ASSUME Decide PROVE TypeOK'
    BY <2>4 DEF Decide, GrowCount, Min2, NeedExpand
  <2>5. ASSUME ManagerCount PROVE TypeOK'
    BY <2>5 DEF ManagerCount, Count, Wrap
  <2>6. ASSUME SwapExited PROVE TypeOK'
    BY <2>6 DEF SwapExited
  <2>7. ASSUME LockToReap PROVE TypeOK'
    BY <2>7 DEF LockToReap
  <2>8. ASSUME EndReaping PROVE TypeOK'
    BY <2>8 DEF EndReaping
  <2>9. ASSUME NEW w \in Threads, ManagerSpawn(w) PROVE TypeOK'
    BY <2>9 DEF ManagerSpawn, Spawn
  <2>10. ASSUME NEW w \in Threads, Reap(w) PROVE TypeOK'
    BY <2>10 DEF Reap
  <2> QED
    BY <1>3, <2>1, <2>2, <2>3, <2>4, <2>5, <2>6, <2>7, <2>8, <2>9, <2>10 DEF
       Manager
<1>4. ASSUME Construct PROVE TypeOK'
  <2>1. ASSUME NEW w \in Threads, ConstructorSpawn(w) PROVE TypeOK'
    BY <2>1 DEF ConstructorSpawn, Spawn
  <2>2. ASSUME ConstructorCount PROVE TypeOK'
    BY <2>2 DEF ConstructorCount, Count, Wrap
  <2>3. ASSUME Constructed PROVE TypeOK'
    BY <2>3 DEF Constructed
  <2> QED
    BY <1>4, <2>1, <2>2, <2>3 DEF Construct
<1>5. ASSUME StopRunning \/ Shutdown PROVE TypeOK'
  BY <1>5 DEF Shutdown, StopRunning, RefuseTasks, CloseQueue, JoinManager,
     LockWorkers, JoinWorkers
<1>6. ASSUME UNCHANGED vars PROVE TypeOK'
  BY <1>6 DEF vars
<1> QED
  BY <1>1, <1>2, <1>3, <1>4, <1>5, <1>6 DEF Next, Stopped

LEMMA RolesStep ==
  ASSUME TypeOK, Roles, Tracking, [Next]_vars
  PROVE  Roles'
<1> USE ConfigAssumption, IdentityAssumption DEF taskVars, flagVars,
   workerVars, managerVars, workerRest, managerRest, ownerRest, Goto,
   TypeOK, TaskStates, ThreadStates, Active, Working, Deciding, Finished,
   ManagerStates, OwnerStates, Roles, Tracking
<1>1. ASSUME NEW t \in Tasks, Submit(t) \/ Push(t) PROVE Roles'
  BY <1>1 DEF Submit, Push
<1>2. ASSUME NEW w \in Threads, Worker(w) PROVE Roles'
  BY <1>2 DEF Worker, PopTask, PopNothing, BeginTask, EndTask, Tally,
     CheckRunning, CheckDrained, Leave, CheckIdle, LoadLive, Retire,
     RetryRetire, StayCore, Bury, Return, Wrap
<1>3. ASSUME Manager PROVE Roles'
  BY <1>3 DEF Manager, Wake, SamplePending, SampleLive, Decide,
     ManagerCount, SwapExited, LockToReap, EndReaping, ManagerSpawn, Reap,
     Spawn, Count, Wrap, GrowCount, Min2, NeedExpand
<1>4. ASSUME Construct PROVE Roles'
  BY <1>4 DEF Construct, ConstructorSpawn, ConstructorCount, Constructed,
     Spawn, Count, Wrap
<1>5. ASSUME StopRunning \/ Shutdown PROVE Roles'
  BY <1>5 DEF Shutdown, StopRunning, RefuseTasks, CloseQueue, JoinManager,
     LockWorkers, JoinWorkers
<1>6. ASSUME UNCHANGED vars PROVE Roles'
  BY <1>6 DEF vars
<1> QED
  BY <1>1, <1>2, <1>3, <1>4, <1>5, <1>6 DEF Next, Stopped

LEMMA TrackingStep ==
  ASSUME TypeOK, Roles, Tracking, [Next]_vars
  PROVE  Tracking'
<1> USE ConfigAssumption, IdentityAssumption DEF taskVars, flagVars,
   workerVars, managerVars, workerRest, managerRest, ownerRest, Goto,
   TypeOK, TaskStates, ThreadStates, Active, Working, Deciding, Finished,
   ManagerStates, OwnerStates, Roles, Tracking
<1>1. ASSUME NEW t \in Tasks, Submit(t) \/ Push(t) PROVE Tracking'
  BY <1>1 DEF Submit, Push
<1>2. ASSUME NEW w \in Threads, Worker(w) PROVE Tracking'
  <2>1. ASSUME PopTask(w) PROVE Tracking'
    BY <2>1 DEF PopTask
  <2>2. ASSUME PopNothing(w) PROVE Tracking'
    BY <2>2 DEF PopNothing
  <2>3. ASSUME BeginTask(w) PROVE Tracking'
    BY <2>3 DEF BeginTask
  <2>4. ASSUME EndTask(w) PROVE Tracking'
    BY <2>4 DEF EndTask
  <2>5. ASSUME Tally(w) PROVE Tracking'
    BY <2>5 DEF Tally
  <2>6. ASSUME CheckRunning(w) PROVE Tracking'
    BY <2>6 DEF CheckRunning
  <2>7. ASSUME CheckDrained(w) PROVE Tracking'
    BY <2>7 DEF CheckDrained
  <2>8. ASSUME Leave(w) PROVE Tracking'
    BY <2>8 DEF Leave, Wrap
  <2>9. ASSUME CheckIdle(w) PROVE Tracking'
    BY <2>9 DEF CheckIdle
  <2>10. ASSUME LoadLive(w) PROVE Tracking'
    BY <2>10 DEF LoadLive
  <2>11. ASSUME Retire(w) PROVE Tracking'
    BY <2>11 DEF Retire
  <2>12. ASSUME RetryRetire(w) PROVE Tracking'
    BY <2>12 DEF RetryRetire
  <2>13. ASSUME StayCore(w) PROVE Tracking'
    BY <2>13 DEF StayCore
  <2>14. ASSUME Bury(w) PROVE Tracking'
    BY <2>14 DEF Bury
  <2>15. ASSUME Return(w) PROVE Tracking'
    BY <2>15 DEF Return
  <2> QED
    BY <1>2, <2>1, <2>2, <2>3, <2>4, <2>5, <2>6, <2>7, <2>8, <2>9, <2>10,
       <2>11, <2>12, <2>13, <2>14, <2>15 DEF Worker
<1>3. ASSUME Manager PROVE Tracking'
  <2>1. ASSUME Wake PROVE Tracking'
    BY <2>1 DEF Wake
  <2>2. ASSUME SamplePending PROVE Tracking'
    BY <2>2 DEF SamplePending
  <2>3. ASSUME SampleLive PROVE Tracking'
    BY <2>3 DEF SampleLive
  <2>4. ASSUME Decide PROVE Tracking'
    BY <2>4 DEF Decide, GrowCount, Min2, NeedExpand
  <2>5. ASSUME ManagerCount PROVE Tracking'
    BY <2>5 DEF ManagerCount, Count, Wrap
  <2>6. ASSUME SwapExited PROVE Tracking'
    BY <2>6 DEF SwapExited
  <2>7. ASSUME LockToReap PROVE Tracking'
    BY <2>7 DEF LockToReap
  <2>8. ASSUME EndReaping PROVE Tracking'
    BY <2>8 DEF EndReaping
  <2>9. ASSUME NEW w \in Threads, ManagerSpawn(w) PROVE Tracking'
    BY <2>9 DEF ManagerSpawn, Spawn
  <2>10. ASSUME NEW w \in Threads, Reap(w) PROVE Tracking'
    <3>1. w \in workers /\ owner # "down"
      BY <2>10 DEF Reap
    <3>2. /\ thread' = [thread EXCEPT ![w] = "none"]
          /\ workers' = workers \ {w} /\ reaping' = reaping \ {w}
          /\ exited' = exited /\ manager' = manager /\ manager = "reap"
          /\ owner' = owner
      BY <2>10, <3>1 DEF Reap
    <3> HIDE DEF Roles
    <3>3. w \notin exited'
      BY <2>10, <3>2 DEF Reap
    <3> QED
      BY <3>1, <3>2, <3>3
  <2> QED
    BY <1>3, <2>1, <2>2, <2>3, <2>4, <2>5, <2>6, <2>7, <2>8, <2>9, <2>10 DEF
       Manager
<1>4. ASSUME Construct PROVE Tracking'
  BY <1>4 DEF Construct, ConstructorSpawn, ConstructorCount, Constructed,
     Spawn, Count, Wrap
<1>5. ASSUME StopRunning \/ Shutdown PROVE Tracking'
  BY <1>5 DEF Shutdown, StopRunning, RefuseTasks, CloseQueue, JoinManager,
     LockWorkers, JoinWorkers
<1>6. ASSUME UNCHANGED vars PROVE Tracking'
  BY <1>6 DEF vars
<1> QED
  BY <1>1, <1>2, <1>3, <1>4, <1>5, <1>6 DEF Next, Stopped

LEMMA LeavingStep ==
  ASSUME TypeOK, Roles, LeavingMeansStopped, [Next]_vars
  PROVE  LeavingMeansStopped'
<1> USE ConfigAssumption, IdentityAssumption DEF taskVars, flagVars,
   workerVars, managerVars, workerRest, managerRest, ownerRest, Goto,
   TypeOK, TaskStates, ThreadStates, Active, Working, Deciding, Finished,
   ManagerStates, OwnerStates, Roles, LeavingMeansStopped
<1>1. ASSUME NEW t \in Tasks, Submit(t) \/ Push(t) PROVE LeavingMeansStopped'
  BY <1>1 DEF Submit, Push
<1>2. ASSUME NEW w \in Threads, Worker(w) PROVE LeavingMeansStopped'
  <2>1. ASSUME PopTask(w) PROVE LeavingMeansStopped'
    BY <2>1 DEF PopTask
  <2>2. ASSUME PopNothing(w) PROVE LeavingMeansStopped'
    BY <2>2 DEF PopNothing
  <2>3. ASSUME BeginTask(w) PROVE LeavingMeansStopped'
    BY <2>3 DEF BeginTask
  <2>4. ASSUME EndTask(w) PROVE LeavingMeansStopped'
    BY <2>4 DEF EndTask
  <2>5. ASSUME Tally(w) PROVE LeavingMeansStopped'
    BY <2>5 DEF Tally
  <2>6. ASSUME CheckRunning(w) PROVE LeavingMeansStopped'
    BY <2>6 DEF CheckRunning
  <2>7. ASSUME CheckDrained(w) PROVE LeavingMeansStopped'
    BY <2>7 DEF CheckDrained
  <2>8. ASSUME Leave(w) PROVE LeavingMeansStopped'
    BY <2>8 DEF Leave, Wrap
  <2>9. ASSUME CheckIdle(w) PROVE LeavingMeansStopped'
    BY <2>9 DEF CheckIdle
  <2>10. ASSUME LoadLive(w) PROVE LeavingMeansStopped'
    BY <2>10 DEF LoadLive
  <2>11. ASSUME Retire(w) PROVE LeavingMeansStopped'
    BY <2>11 DEF Retire
  <2>12. ASSUME RetryRetire(w) PROVE LeavingMeansStopped'
    BY <2>12 DEF RetryRetire
  <2>13. ASSUME StayCore(w) PROVE LeavingMeansStopped'
    BY <2>13 DEF StayCore
  <2>14. ASSUME Bury(w) PROVE LeavingMeansStopped'
    BY <2>14 DEF Bury
  <2>15. ASSUME Return(w) PROVE LeavingMeansStopped'
    BY <2>15 DEF Return
  <2> QED
    BY <1>2, <2>1, <2>2, <2>3, <2>4, <2>5, <2>6, <2>7, <2>8, <2>9, <2>10,
       <2>11, <2>12, <2>13, <2>14, <2>15 DEF Worker
<1>3. ASSUME Manager PROVE LeavingMeansStopped'
  BY <1>3 DEF Manager, Wake, SamplePending, SampleLive, Decide,
     ManagerCount, SwapExited, LockToReap, EndReaping, ManagerSpawn, Reap,
     Spawn, Count, Wrap, GrowCount, Min2, NeedExpand
<1>4. ASSUME Construct PROVE LeavingMeansStopped'
  BY <1>4 DEF Construct, ConstructorSpawn, ConstructorCount, Constructed,
     Spawn, Count, Wrap
<1>5. ASSUME StopRunning \/ Shutdown PROVE LeavingMeansStopped'
  BY <1>5 DEF Shutdown, StopRunning, RefuseTasks, CloseQueue, JoinManager,
     LockWorkers, JoinWorkers
<1>6. ASSUME UNCHANGED vars PROVE LeavingMeansStopped'
  BY <1>6 DEF vars
<1> QED
  BY <1>1, <1>2, <1>3, <1>4, <1>5, <1>6 DEF Next, Stopped

LEMMA LimitsStep ==
  ASSUME TypeOK, Roles, Tracking, LeavingMeansStopped, Limits, [Next]_vars
  PROVE  Limits'
<1> USE ConfigAssumption, IdentityAssumption DEF taskVars, flagVars,
   workerVars, managerVars, workerRest, managerRest, ownerRest, Goto,
   TypeOK, TaskStates, ThreadStates, Active, Working, Deciding, Finished,
   ManagerStates, OwnerStates, Limits, NobodyLeft, Roles,
   LeavingMeansStopped, Tracking
<1>1. ASSUME NEW t \in Tasks, Submit(t) \/ Push(t) PROVE Limits'
  BY <1>1 DEF Submit, Push
<1>2. ASSUME NEW w \in Threads, Worker(w) PROVE Limits'
  <2>1. ASSUME PopTask(w) PROVE Limits'
    BY <2>1 DEF PopTask
  <2>2. ASSUME PopNothing(w) PROVE Limits'
    BY <2>2 DEF PopNothing
  <2>3. ASSUME BeginTask(w) PROVE Limits'
    BY <2>3 DEF BeginTask
  <2>4. ASSUME EndTask(w) PROVE Limits'
    BY <2>4 DEF EndTask
  <2>5. ASSUME Tally(w) PROVE Limits'
    BY <2>5 DEF Tally
  <2>6. ASSUME CheckRunning(w) PROVE Limits'
    BY <2>6 DEF CheckRunning
  <2>7. ASSUME CheckDrained(w) PROVE Limits'
    BY <2>7 DEF CheckDrained
  <2>8. ASSUME Leave(w) PROVE Limits'
    BY <2>8 DEF Leave, Wrap
  <2>9. ASSUME CheckIdle(w) PROVE Limits'
    BY <2>9 DEF CheckIdle
  <2>10. ASSUME LoadLive(w) PROVE Limits'
    BY <2>10 DEF LoadLive
  <2>11. ASSUME Retire(w) PROVE Limits'
    BY <2>11 DEF Retire
  <2>12. ASSUME RetryRetire(w) PROVE Limits'
    BY <2>12 DEF RetryRetire
  <2>13. ASSUME StayCore(w) PROVE Limits'
    BY <2>13 DEF StayCore
  <2>14. ASSUME Bury(w) PROVE Limits'
    BY <2>14 DEF Bury
  <2>15. ASSUME Return(w) PROVE Limits'
    BY <2>15 DEF Return
  <2> QED
    BY <1>2, <2>1, <2>2, <2>3, <2>4, <2>5, <2>6, <2>7, <2>8, <2>9, <2>10,
       <2>11, <2>12, <2>13, <2>14, <2>15 DEF Worker
<1>3. ASSUME Manager PROVE Limits'
  <2>1. ASSUME Wake PROVE Limits'
    BY <2>1 DEF Wake
  <2>2. ASSUME SamplePending PROVE Limits'
    BY <2>2 DEF SamplePending
  <2>3. ASSUME SampleLive PROVE Limits'
    BY <2>3 DEF SampleLive
  <2>4. ASSUME Decide PROVE Limits'
    BY <2>4 DEF Decide, GrowCount, Min2, NeedExpand
  <2>5. ASSUME ManagerCount PROVE Limits'
    BY <2>5 DEF ManagerCount, Count, Wrap
  <2>6. ASSUME SwapExited PROVE Limits'
    BY <2>6 DEF SwapExited
  <2>7. ASSUME LockToReap PROVE Limits'
    BY <2>7 DEF LockToReap
  <2>8. ASSUME EndReaping PROVE Limits'
    BY <2>8 DEF EndReaping
  <2>9. ASSUME NEW w \in Threads, ManagerSpawn(w) PROVE Limits'
    BY <2>9 DEF ManagerSpawn, Spawn
  <2>10. ASSUME NEW w \in Threads, Reap(w) PROVE Limits'
    BY <2>10 DEF Reap
  <2> QED
    BY <1>3, <2>1, <2>2, <2>3, <2>4, <2>5, <2>6, <2>7, <2>8, <2>9, <2>10 DEF
       Manager
<1>4. ASSUME Construct PROVE Limits'
  <2>1. ASSUME NEW w \in Threads, ConstructorSpawn(w) PROVE Limits'
    BY <2>1 DEF ConstructorSpawn, Spawn
  <2>2. ASSUME ConstructorCount PROVE Limits'
    BY <2>2 DEF ConstructorCount, Count, Wrap
  <2>3. ASSUME Constructed PROVE Limits'
    BY <2>3 DEF Constructed
  <2> QED
    BY <1>4, <2>1, <2>2, <2>3 DEF Construct
<1>5. ASSUME StopRunning \/ Shutdown PROVE Limits'
  BY <1>5 DEF Shutdown, StopRunning, RefuseTasks, CloseQueue, JoinManager,
     LockWorkers, JoinWorkers
<1>6. ASSUME UNCHANGED vars PROVE Limits'
  BY <1>6 DEF vars
<1> QED
  BY <1>1, <1>2, <1>3, <1>4, <1>5, <1>6 DEF Next, Stopped

LEMMA BusyStep ==
  ASSUME TypeOK, TypeOK', Tracking, BusyIsExact, [Next]_vars
  PROVE  BusyIsExact'
<1> USE ConfigAssumption, IdentityAssumption DEF taskVars, flagVars,
   workerVars, managerVars, workerRest, managerRest, ownerRest, Goto,
   TypeOK, TaskStates, ThreadStates, Active, Working, Deciding, Finished,
   ManagerStates, OwnerStates, BusyIsExact, Executing
<1>1. ASSUME NEW t \in Tasks, Submit(t) \/ Push(t) PROVE BusyIsExact'
  BY <1>1 DEF Submit, Push
<1>2. ASSUME NEW w \in Threads, Worker(w) PROVE BusyIsExact'
  <2>1. ASSUME PopTask(w) PROVE BusyIsExact'
    BY <2>1, ExecutingChange DEF PopTask
  <2>2. ASSUME PopNothing(w) PROVE BusyIsExact'
    BY <2>2, ExecutingChange DEF PopNothing
  <2>3. ASSUME BeginTask(w) PROVE BusyIsExact'
    BY <2>3, ExecutingChange DEF BeginTask
  <2>4. ASSUME EndTask(w) PROVE BusyIsExact'
    BY <2>4, ExecutingChange DEF EndTask
  <2>5. ASSUME Tally(w) PROVE BusyIsExact'
    BY <2>5, ExecutingChange DEF Tally
  <2>6. ASSUME CheckRunning(w) PROVE BusyIsExact'
    BY <2>6, ExecutingChange DEF CheckRunning
  <2>7. ASSUME CheckDrained(w) PROVE BusyIsExact'
    BY <2>7, ExecutingChange DEF CheckDrained
  <2>8. ASSUME Leave(w) PROVE BusyIsExact'
    BY <2>8, ExecutingChange DEF Leave, Wrap
  <2>9. ASSUME CheckIdle(w) PROVE BusyIsExact'
    BY <2>9, ExecutingChange DEF CheckIdle
  <2>10. ASSUME LoadLive(w) PROVE BusyIsExact'
    BY <2>10, ExecutingChange DEF LoadLive
  <2>11. ASSUME Retire(w) PROVE BusyIsExact'
    BY <2>11, ExecutingChange DEF Retire
  <2>12. ASSUME RetryRetire(w) PROVE BusyIsExact'
    BY <2>12, ExecutingChange DEF RetryRetire
  <2>13. ASSUME StayCore(w) PROVE BusyIsExact'
    BY <2>13, ExecutingChange DEF StayCore
  <2>14. ASSUME Bury(w) PROVE BusyIsExact'
    BY <2>14, ExecutingChange DEF Bury
  <2>15. ASSUME Return(w) PROVE BusyIsExact'
    BY <2>15, ExecutingChange DEF Return
  <2> QED
    BY <1>2, <2>1, <2>2, <2>3, <2>4, <2>5, <2>6, <2>7, <2>8, <2>9, <2>10,
       <2>11, <2>12, <2>13, <2>14, <2>15 DEF Worker
<1>3. ASSUME Manager PROVE BusyIsExact'
  <2>1. ASSUME Wake PROVE BusyIsExact'
    BY <2>1 DEF Wake
  <2>2. ASSUME SamplePending PROVE BusyIsExact'
    BY <2>2 DEF SamplePending
  <2>3. ASSUME SampleLive PROVE BusyIsExact'
    BY <2>3 DEF SampleLive
  <2>4. ASSUME Decide PROVE BusyIsExact'
    BY <2>4 DEF Decide, GrowCount, Min2, NeedExpand
  <2>5. ASSUME ManagerCount PROVE BusyIsExact'
    BY <2>5 DEF ManagerCount, Count, Wrap
  <2>6. ASSUME SwapExited PROVE BusyIsExact'
    BY <2>6 DEF SwapExited
  <2>7. ASSUME LockToReap PROVE BusyIsExact'
    BY <2>7 DEF LockToReap
  <2>8. ASSUME EndReaping PROVE BusyIsExact'
    BY <2>8 DEF EndReaping
  <2>9. ASSUME NEW w \in Threads, ManagerSpawn(w) PROVE BusyIsExact'
    BY <2>9, ExecutingChange DEF ManagerSpawn, Spawn
  <2>10. ASSUME NEW w \in Threads, Reap(w) PROVE BusyIsExact'
    BY <2>10, ExecutingChange DEF Reap
  <2> QED
    BY <1>3, <2>1, <2>2, <2>3, <2>4, <2>5, <2>6, <2>7, <2>8, <2>9, <2>10 DEF
       Manager
<1>4. ASSUME Construct PROVE BusyIsExact'
  <2>1. ASSUME NEW w \in Threads, ConstructorSpawn(w) PROVE BusyIsExact'
    BY <2>1, ExecutingChange DEF ConstructorSpawn, Spawn
  <2>2. ASSUME ConstructorCount PROVE BusyIsExact'
    BY <2>2 DEF ConstructorCount, Count, Wrap
  <2>3. ASSUME Constructed PROVE BusyIsExact'
    BY <2>3 DEF Constructed
  <2> QED
    BY <1>4, <2>1, <2>2, <2>3 DEF Construct
<1>5. ASSUME StopRunning \/ Shutdown PROVE BusyIsExact'
  <2>1. ASSUME StopRunning PROVE BusyIsExact'
    BY <2>1 DEF StopRunning
  <2>2. ASSUME RefuseTasks PROVE BusyIsExact'
    BY <2>2 DEF RefuseTasks
  <2>3. ASSUME CloseQueue PROVE BusyIsExact'
    BY <2>3 DEF CloseQueue
  <2>4. ASSUME JoinManager PROVE BusyIsExact'
    BY <2>4 DEF JoinManager
  <2>5. ASSUME LockWorkers PROVE BusyIsExact'
    BY <2>5 DEF LockWorkers
  <2>6. ASSUME JoinWorkers PROVE BusyIsExact'
    <3>1. \A w \in Threads : thread[w] # "executing" /\ thread'[w] # "executing"
      BY <2>6 DEF JoinWorkers, Tracking
    <3>2. Executing' = Executing
      BY <3>1
    <3> QED
      BY <2>6, <3>2 DEF JoinWorkers
  <2> QED
    BY <1>5, <2>1, <2>2, <2>3, <2>4, <2>5, <2>6 DEF Shutdown
<1>6. ASSUME UNCHANGED vars PROVE BusyIsExact'
  BY <1>6 DEF vars
<1> QED
  BY <1>1, <1>2, <1>3, <1>4, <1>5, <1>6 DEF Next, Stopped

LEMMA CensusStep ==
  ASSUME TypeOK, TypeOK', Roles, Tracking, LeavingMeansStopped, Limits,
         Census, [Next]_vars
  PROVE  Census'
<1> USE ConfigAssumption, IdentityAssumption DEF taskVars, flagVars,
   workerVars, managerVars, workerRest, managerRest, ownerRest, Goto,
   TypeOK, TaskStates, ThreadStates, Active, Working, Deciding, Finished,
   ManagerStates, OwnerStates, Census, Limits, Uncounted, NobodyLeft, Roles,
   Tracking, LeavingMeansStopped
<1>1. ASSUME NEW t \in Tasks, Submit(t) \/ Push(t) PROVE Census'
  <2>1. ASSUME Submit(t) PROVE Census'
    BY <2>1 DEF Submit, ActiveWorkers
  <2>2. ASSUME Push(t) PROVE Census'
    BY <2>2 DEF Push, ActiveWorkers
  <2> QED
    BY <1>1, <2>1, <2>2
<1>2. ASSUME NEW w \in Threads, Worker(w) PROVE Census'
  <2>1. ASSUME PopTask(w) PROVE Census'
    BY <2>1, ActiveChange DEF PopTask
  <2>2. ASSUME PopNothing(w) PROVE Census'
    BY <2>2, ActiveChange DEF PopNothing
  <2>3. ASSUME BeginTask(w) PROVE Census'
    BY <2>3, ActiveChange DEF BeginTask
  <2>4. ASSUME EndTask(w) PROVE Census'
    BY <2>4, ActiveChange DEF EndTask
  <2>5. ASSUME Tally(w) PROVE Census'
    BY <2>5, ActiveChange DEF Tally
  <2>6. ASSUME CheckRunning(w) PROVE Census'
    BY <2>6, ActiveChange DEF CheckRunning
  <2>7. ASSUME CheckDrained(w) PROVE Census'
    BY <2>7, ActiveChange DEF CheckDrained
  <2>8. ASSUME Leave(w) PROVE Census'
    BY <2>8, ActiveChange DEF Leave, Wrap
  <2>9. ASSUME CheckIdle(w) PROVE Census'
    BY <2>9, ActiveChange DEF CheckIdle
  <2>10. ASSUME LoadLive(w) PROVE Census'
    BY <2>10, ActiveChange DEF LoadLive
  <2>11. ASSUME Retire(w) PROVE Census'
    BY <2>11, ActiveChange DEF Retire
  <2>12. ASSUME RetryRetire(w) PROVE Census'
    BY <2>12, ActiveChange DEF RetryRetire
  <2>13. ASSUME StayCore(w) PROVE Census'
    BY <2>13, ActiveChange DEF StayCore
  <2>14. ASSUME Bury(w) PROVE Census'
    BY <2>14, ActiveChange DEF Bury
  <2>15. ASSUME Return(w) PROVE Census'
    BY <2>15, ActiveChange DEF Return
  <2> QED
    BY <1>2, <2>1, <2>2, <2>3, <2>4, <2>5, <2>6, <2>7, <2>8, <2>9, <2>10,
       <2>11, <2>12, <2>13, <2>14, <2>15 DEF Worker
<1>3. ASSUME Manager PROVE Census'
  <2>1. ASSUME Wake PROVE Census'
    BY <2>1 DEF Wake, ActiveWorkers
  <2>2. ASSUME SamplePending PROVE Census'
    BY <2>2 DEF SamplePending, ActiveWorkers
  <2>3. ASSUME SampleLive PROVE Census'
    BY <2>3 DEF SampleLive, ActiveWorkers
  <2>4. ASSUME Decide PROVE Census'
    BY <2>4 DEF Decide, GrowCount, Min2, NeedExpand, ActiveWorkers
  <2>5. ASSUME ManagerCount PROVE Census'
    BY <2>5 DEF ManagerCount, Count, Wrap, ActiveWorkers
  <2>6. ASSUME SwapExited PROVE Census'
    BY <2>6 DEF SwapExited, ActiveWorkers
  <2>7. ASSUME LockToReap PROVE Census'
    BY <2>7 DEF LockToReap, ActiveWorkers
  <2>8. ASSUME EndReaping PROVE Census'
    BY <2>8 DEF EndReaping, ActiveWorkers
  <2>9. ASSUME NEW w \in Threads, ManagerSpawn(w) PROVE Census'
    <3>1. Cardinality(ActiveWorkers') = Cardinality(ActiveWorkers) + 1
      BY <2>9, ActiveChange DEF ManagerSpawn, Spawn
    <3>2. Uncounted = 0 /\ Uncounted' = 1 /\ live' = live /\ owner # "down"
      BY <2>9 DEF ManagerSpawn, Spawn
    <3>3. NobodyLeft' => NobodyLeft
      BY <2>9 DEF ManagerSpawn, Spawn
    <3>4. Cardinality(ActiveWorkers) \in Nat
      BY <2>9, ActiveChange DEF ManagerSpawn, Spawn
    <3> QED
      BY <3>1, <3>2, <3>3, <3>4 DEF Census
  <2>10. ASSUME NEW w \in Threads, Reap(w) PROVE Census'
    <3>1. /\ thread[w] \in {"returning", "retired"}
          /\ thread' = [thread EXCEPT ![w] = "none"]
      BY <2>10 DEF Reap
    <3>2. Cardinality(ActiveWorkers') = Cardinality(ActiveWorkers)
      <4>1. thread[w] \notin Active /\ thread'[w] \notin Active
        BY <2>10, <3>1
      <4>2. \A v \in Threads \ {w} : thread'[v] = thread[v]
        BY <3>1
      <4>3. ActiveWorkers' = ActiveWorkers
        BY <4>1, <4>2 DEF ActiveWorkers
      <4> QED
        BY <4>3
    <3>3. NobodyLeft' => NobodyLeft
      BY <2>10, <3>1
    <3>4. Uncounted' = Uncounted /\ live' = live /\ owner' = owner
      BY <2>10 DEF Reap
    <3> QED
      BY <3>2, <3>3, <3>4 DEF Census
  <2> QED
    BY <1>3, <2>1, <2>2, <2>3, <2>4, <2>5, <2>6, <2>7, <2>8, <2>9, <2>10 DEF
       Manager
<1>4. ASSUME Construct PROVE Census'
  <2>1. ASSUME NEW w \in Threads, ConstructorSpawn(w) PROVE Census'
    <3>1. Cardinality(ActiveWorkers') = Cardinality(ActiveWorkers) + 1
      BY <2>1, ActiveChange DEF ConstructorSpawn, Spawn
    <3>2. Uncounted = 0 /\ Uncounted' = 1 /\ live' = live /\ owner # "down"
      BY <2>1 DEF ConstructorSpawn, Spawn
    <3>3. NobodyLeft' => NobodyLeft
      BY <2>1 DEF ConstructorSpawn, Spawn
    <3>4. Cardinality(ActiveWorkers) \in Nat
      BY <2>1, ActiveChange DEF ConstructorSpawn, Spawn
    <3> QED
      BY <3>1, <3>2, <3>3, <3>4 DEF Census
  <2>2. ASSUME ConstructorCount PROVE Census'
    BY <2>2 DEF ConstructorCount, Count, Wrap, ActiveWorkers
  <2>3. ASSUME Constructed PROVE Census'
    BY <2>3 DEF Constructed, ActiveWorkers
  <2> QED
    BY <1>4, <2>1, <2>2, <2>3 DEF Construct
<1>5. ASSUME StopRunning \/ Shutdown PROVE Census'
  <2>1. ASSUME StopRunning PROVE Census'
    BY <2>1 DEF StopRunning, ActiveWorkers
  <2>2. ASSUME RefuseTasks PROVE Census'
    BY <2>2 DEF RefuseTasks, ActiveWorkers
  <2>3. ASSUME CloseQueue PROVE Census'
    BY <2>3 DEF CloseQueue, ActiveWorkers
  <2>4. ASSUME JoinManager PROVE Census'
    BY <2>4 DEF JoinManager, ActiveWorkers
  <2>5. ASSUME LockWorkers PROVE Census'
    BY <2>5 DEF LockWorkers, ActiveWorkers
  <2>6. ASSUME JoinWorkers PROVE Census'
    BY <2>6 DEF JoinWorkers, ActiveWorkers
  <2> QED
    BY <1>5, <2>1, <2>2, <2>3, <2>4, <2>5, <2>6 DEF Shutdown
<1>6. ASSUME UNCHANGED vars PROVE Census'
  BY <1>6 DEF vars, ActiveWorkers
<1> QED
  BY <1>1, <1>2, <1>3, <1>4, <1>5, <1>6 DEF Next, Stopped

\* When shutdown() has joined every worker, one of them has left through the
\* end of worker_loop: the others cannot have brought the counter below
\* core_threads_.  It left when the queue held no early task.
LEMMA EarlyDone ==
  ASSUME IndInv, owner = "joinWorkers",
         \A w \in workers : thread[w] \in Finished
  PROVE  \A t \in early : task[t] = "done"
<1> USE ConfigAssumption, IdentityAssumption DEF IndInv
<1>1. \A w \in Threads : thread[w] = "none" \/ thread[w] \in Finished
  BY DEF Tracking, TypeOK
<1>2. ActiveWorkers = {}
  BY <1>1 DEF ActiveWorkers, Active, Working, Deciding, Finished
<1>3. ~NobodyLeft
  BY <1>2, FS_EmptySet DEF Census, Limits, Uncounted, Roles, TypeOK
<1>4. \A t \in early : task[t] # "queued"
  BY <1>3 DEF Custody, NobodyLeft
<1>5. \A t \in early : task[t] # "taken"
  BY <1>1 DEF Custody, Working, Finished, TypeOK
<1> QED
  BY <1>4, <1>5 DEF Custody

\* A worker that moves without touching the tasks.
LEMMA CustodyMove ==
  ASSUME TypeOK, TypeOK', Custody, owner # "down" \/ UNCHANGED owner,
         UNCHANGED <<queue, task, early, job>>, owner' # "down",
         NEW w \in Threads,
         \A v \in Threads \ {w} : thread'[v] = thread[v],
         thread[w] \in Working => thread'[w] \in Working,
         thread'[w] \in {"leave", "left"} =>
           thread[w] \in {"leave", "left"} \/ queue = <<>>
  PROVE  Custody'
<1>1. /\ \A t \in early' : task'[t] \in {"queued", "taken", "done"}
      /\ \A t \in Tasks : task'[t] = "queued" =>
            \E i \in 1..Len(queue') : queue'[i] = t
  BY DEF Custody
<1>2. \A t \in Tasks : task'[t] = "taken" =>
         \E v \in Threads : job'[v] = t /\ thread'[v] \in Working
  BY DEF Custody
<1>3. (\E v \in Threads : thread'[v] \in {"leave", "left"}) =>
         \A t \in early' : task'[t] # "queued"
  BY DEF Custody, TypeOK
<1> QED
  BY <1>1, <1>2, <1>3 DEF Custody, NoEarlyTaskLost

LEMMA CustodyStep ==
  ASSUME IndInv, TypeOK', [Next]_vars
  PROVE  Custody'
<1> USE ConfigAssumption, IdentityAssumption DEF taskVars, flagVars,
   workerVars, managerVars, workerRest, managerRest, ownerRest, Goto,
   TypeOK, TaskStates, ThreadStates, Active, Working, Deciding, Finished,
   ManagerStates, OwnerStates, IndInv, Roles, LeavingMeansStopped
<1>1. ASSUME NEW t \in Tasks, Submit(t) \/ Push(t) PROVE Custody'
  <2>1. ASSUME Submit(t) PROVE Custody'
    BY <2>1 DEF Submit, Custody, NoEarlyTaskLost
  <2>2. ASSUME Push(t) PROVE Custody'
    <3>1. CASE queueShut
      <4>1. /\ task' = [task EXCEPT ![t] = "refused"]
            /\ UNCHANGED <<queue, early, job, thread, owner>>
        BY <2>2, <3>1 DEF Push
      <4>2. t \notin early
        BY <2>2 DEF Push, Custody
      <4> QED
        BY <4>1, <4>2 DEF Custody, NoEarlyTaskLost
    <3>2. CASE ~queueShut
      <4>1. /\ queue' = Append(queue, t)
            /\ task' = [task EXCEPT ![t] = "queued"]
            /\ early' = early \/ (running /\ early' = early \cup {t})
            /\ UNCHANGED <<job, thread, owner, running>>
        BY <2>2, <3>2 DEF Push
      <4>2. t \notin early
        BY <2>2 DEF Push, Custody
      <4>3. Len(queue') = Len(queue) + 1 /\ queue'[Len(queue) + 1] = t
        BY <4>1
      <4>4. \A i \in 1..Len(queue) : queue'[i] = queue[i]
        BY <4>1
      <4>5. \A s \in Tasks : task'[s] = "queued" =>
               \E i \in 1..Len(queue') : queue'[i] = s
        <5> TAKE s \in Tasks
        <5>1. CASE s = t
          BY <4>3, <5>1
        <5>2. CASE s # t
          BY <4>1, <4>3, <4>4, <5>2 DEF Custody
        <5> QED
          BY <5>1, <5>2
      <4>6. \A s \in early' : task'[s] \in {"queued", "taken", "done"}
        BY <4>1 DEF Custody
      <4>7. \A s \in Tasks : task'[s] = "taken" =>
               \E w \in Threads : job'[w] = s /\ thread'[w] \in Working
        BY <4>1 DEF Custody
      <4>8. ASSUME NEW w \in Threads, thread'[w] \in {"leave", "left"}
            PROVE  \A s \in early' : task'[s] # "queued"
        <5>1. early' = early /\ \A s \in early : task[s] # "queued"
          BY <4>1, <4>8 DEF Custody
        <5> QED
          BY <5>1, <4>1, <4>2
      <4>9. NoEarlyTaskLost'
        BY <4>1, <4>2 DEF Custody, NoEarlyTaskLost
      <4> QED
        BY <4>5, <4>6, <4>7, <4>8, <4>9 DEF Custody
    <3> QED
      BY <3>1, <3>2
  <2> QED
    BY <1>1, <2>1, <2>2
<1>2. ASSUME NEW w \in Threads, Worker(w) PROVE Custody'
  <2>1. ASSUME PopTask(w) PROVE Custody'
    <3> DEFINE h == Head(queue)
    <3>1. /\ queue # <<>> /\ queue' = Tail(queue)
          /\ task' = [task EXCEPT ![h] = "taken"]
          /\ job' = [job EXCEPT ![w] = h]
          /\ thread[w] = "wait" /\ thread' = [thread EXCEPT ![w] = "got"]
          /\ UNCHANGED <<early, owner, running>>
      BY <2>1 DEF PopTask
    <3>2. h \in Tasks /\ h = queue[1] /\ Len(queue) \in Nat \ {0}
      BY <3>1
    <3>3. /\ Len(queue') = Len(queue) - 1
          /\ \A i \in 2..Len(queue) : queue'[i - 1] = queue[i]
      BY <3>1, <3>2
    <3> HIDE DEF h
    <3>4. \A t \in Tasks : task'[t] = "queued" =>
             \E i \in 1..Len(queue') : queue'[i] = t
      <4> SUFFICES ASSUME NEW t \in Tasks, task'[t] = "queued"
                   PROVE  \E i \in 1..Len(queue') : queue'[i] = t
        OBVIOUS
      <4>1. task[t] = "queued" /\ t # h
        BY <3>1, <3>2
      <4>2. PICK i \in 1..Len(queue) : queue[i] = t
        BY <4>1 DEF Custody
      <4>3. i \in 2..Len(queue)
        BY <4>1, <4>2, <3>2
      <4>4. i - 1 \in 1..Len(queue') /\ queue'[i - 1] = t
        BY <4>2, <4>3, <3>2, <3>3
      <4> QED
        BY <4>4
    <3>5. \A t \in Tasks : task'[t] = "taken" =>
             \E v \in Threads : job'[v] = t /\ thread'[v] \in Working
      <4> SUFFICES ASSUME NEW t \in Tasks, task'[t] = "taken"
                   PROVE  \E v \in Threads : job'[v] = t /\ thread'[v] \in Working
        OBVIOUS
      <4>1. CASE t = h
        <5>1. job'[w] = t /\ thread'[w] \in Working
          BY <2>1, <3>1, <4>1
        <5> QED
          BY <5>1
      <4>2. CASE t # h
        <5>1. task[t] = "taken"
          BY <3>1, <4>2
        <5>2. PICK v \in Threads : job[v] = t /\ thread[v] \in Working
          BY <5>1 DEF Custody
        <5>3. job'[v] = t /\ thread'[v] \in Working
          BY <2>1, <3>1, <5>2
        <5> QED
          BY <5>3
      <4> QED
        BY <4>1, <4>2
    <3> QED
      BY <3>1, <3>2, <3>4, <3>5 DEF Custody, NoEarlyTaskLost
  <2>2. ASSUME PopNothing(w) PROVE Custody'
    BY <2>2, CustodyMove DEF PopNothing
  <2>3. ASSUME BeginTask(w) PROVE Custody'
    BY <2>3, CustodyMove DEF BeginTask
  <2>4. ASSUME EndTask(w) PROVE Custody'
    BY <2>4, CustodyMove DEF EndTask
  <2>5. ASSUME Tally(w) PROVE Custody'
    BY <2>5 DEF Tally, Custody, NoEarlyTaskLost
  <2>6. ASSUME CheckRunning(w) PROVE Custody'
    BY <2>6, CustodyMove DEF CheckRunning
  <2>7. ASSUME CheckDrained(w) PROVE Custody'
    BY <2>7, CustodyMove DEF CheckDrained
  <2>8. ASSUME Leave(w) PROVE Custody'
    BY <2>8, CustodyMove DEF Leave, Wrap
  <2>9. ASSUME CheckIdle(w) PROVE Custody'
    BY <2>9, CustodyMove DEF CheckIdle
  <2>10. ASSUME LoadLive(w) PROVE Custody'
    BY <2>10, CustodyMove DEF LoadLive
  <2>11. ASSUME Retire(w) PROVE Custody'
    BY <2>11, CustodyMove DEF Retire
  <2>12. ASSUME RetryRetire(w) PROVE Custody'
    BY <2>12, CustodyMove DEF RetryRetire
  <2>13. ASSUME StayCore(w) PROVE Custody'
    BY <2>13, CustodyMove DEF StayCore
  <2>14. ASSUME Bury(w) PROVE Custody'
    BY <2>14, CustodyMove DEF Bury
  <2>15. ASSUME Return(w) PROVE Custody'
    BY <2>15, CustodyMove DEF Return
  <2> QED
    BY <1>2, <2>1, <2>2, <2>3, <2>4, <2>5, <2>6, <2>7, <2>8, <2>9, <2>10,
       <2>11, <2>12, <2>13, <2>14, <2>15 DEF Worker
<1>3. ASSUME Manager PROVE Custody'
  <2>1. ASSUME Wake PROVE Custody'
    BY <2>1 DEF Wake, Custody, NoEarlyTaskLost
  <2>2. ASSUME SamplePending PROVE Custody'
    BY <2>2 DEF SamplePending, Custody, NoEarlyTaskLost
  <2>3. ASSUME SampleLive PROVE Custody'
    BY <2>3 DEF SampleLive, Custody, NoEarlyTaskLost
  <2>4. ASSUME Decide PROVE Custody'
    BY <2>4 DEF Decide, GrowCount, Min2, NeedExpand, Custody,
       NoEarlyTaskLost
  <2>5. ASSUME ManagerCount PROVE Custody'
    BY <2>5 DEF ManagerCount, Count, Wrap, Custody, NoEarlyTaskLost
  <2>6. ASSUME SwapExited PROVE Custody'
    BY <2>6 DEF SwapExited, Custody, NoEarlyTaskLost
  <2>7. ASSUME LockToReap PROVE Custody'
    BY <2>7 DEF LockToReap, Custody, NoEarlyTaskLost
  <2>8. ASSUME EndReaping PROVE Custody'
    BY <2>8 DEF EndReaping, Custody, NoEarlyTaskLost
  <2>9. ASSUME NEW w \in Threads, ManagerSpawn(w) PROVE Custody'
    BY <2>9, CustodyMove DEF ManagerSpawn, Spawn
  <2>10. ASSUME NEW w \in Threads, Reap(w) PROVE Custody'
    BY <2>10, CustodyMove DEF Reap, Tracking
  <2> QED
    BY <1>3, <2>1, <2>2, <2>3, <2>4, <2>5, <2>6, <2>7, <2>8, <2>9, <2>10 DEF
       Manager
<1>4. ASSUME Construct PROVE Custody'
  <2>1. ASSUME NEW w \in Threads, ConstructorSpawn(w) PROVE Custody'
    BY <2>1, CustodyMove DEF ConstructorSpawn, Spawn
  <2>2. ASSUME ConstructorCount PROVE Custody'
    BY <2>2 DEF ConstructorCount, Count, Wrap, Custody, NoEarlyTaskLost
  <2>3. ASSUME Constructed PROVE Custody'
    BY <2>3 DEF Constructed, Custody, NoEarlyTaskLost
  <2> QED
    BY <1>4, <2>1, <2>2, <2>3 DEF Construct
<1>5. ASSUME StopRunning \/ Shutdown PROVE Custody'
  <2>1. ASSUME StopRunning PROVE Custody'
    BY <2>1 DEF StopRunning, Custody, NoEarlyTaskLost
  <2>2. ASSUME RefuseTasks PROVE Custody'
    BY <2>2 DEF RefuseTasks, Custody, NoEarlyTaskLost
  <2>3. ASSUME CloseQueue PROVE Custody'
    BY <2>3 DEF CloseQueue, Custody, NoEarlyTaskLost
  <2>4. ASSUME JoinManager PROVE Custody'
    BY <2>4 DEF JoinManager, Custody, NoEarlyTaskLost
  <2>5. ASSUME LockWorkers PROVE Custody'
    BY <2>5 DEF LockWorkers, Custody, NoEarlyTaskLost
  <2>6. ASSUME JoinWorkers PROVE Custody'
    <3>1. owner = "joinWorkers" /\ \A w \in workers : thread[w] \in Finished
      BY <2>6 DEF JoinWorkers
    <3>2. \A t \in early : task[t] = "done"
      BY <3>1, EarlyDone
    <3>3. /\ UNCHANGED <<queue, task, early, job>>
          /\ \A w \in Threads : thread'[w] = "none"
          /\ \A w \in Threads : thread[w] \notin Working
      BY <2>6 DEF JoinWorkers, Tracking
    <3>4. Custody
      OBVIOUS
    <3> HIDE DEF IndInv, TypeOK, Roles
    <3> QED
      BY <3>2, <3>3, <3>4 DEF Custody, NoEarlyTaskLost
  <2> QED
    BY <1>5, <2>1, <2>2, <2>3, <2>4, <2>5, <2>6 DEF Shutdown
<1>6. ASSUME UNCHANGED vars PROVE Custody'
  BY <1>6 DEF vars, Custody, NoEarlyTaskLost
<1> QED
  BY <1>1, <1>2, <1>3, <1>4, <1>5, <1>6 DEF Next, Stopped

-----------------------------------------------------------------------------
LEMMA InitIndInv == Init => IndInv
<1> SUFFICES ASSUME Init PROVE IndInv
  OBVIOUS
<1> USE ConfigAssumption, IdentityAssumption DEF Init
<1>1. TypeOK
  <2>1. /\ live \in 0..(CounterModulus - 1) /\ seen \in 0..(CounterModulus - 1)
        /\ curr \in [Threads -> 0..(CounterModulus - 1)]
    OBVIOUS
  <2>2. queue \in Seq(Tasks)
    OBVIOUS
  <2> QED
    BY <2>1, <2>2 DEF TypeOK, TaskStates, ThreadStates, ManagerStates,
                      OwnerStates
<1>2. Roles /\ Tracking /\ LeavingMeansStopped /\ Limits
  BY DEF Roles, Tracking, LeavingMeansStopped, Limits, NobodyLeft
<1>3. Executing = {} /\ ActiveWorkers = {}
  BY DEF Executing, ActiveWorkers, Active, Working, Deciding
<1>4. BusyIsExact /\ Census
  BY <1>3, FS_EmptySet DEF BusyIsExact, Census, Uncounted
<1>5. Custody
  BY DEF Custody, NoEarlyTaskLost
<1> QED
  BY <1>1, <1>2, <1>4, <1>5 DEF IndInv

LEMMA NextIndInv == IndInv /\ [Next]_vars => IndInv'
<1> SUFFICES ASSUME IndInv, [Next]_vars PROVE IndInv'
  OBVIOUS
<1>1. TypeOK'
  BY TypeStep DEF IndInv
<1>2. Roles' /\ Tracking' /\ LeavingMeansStopped' /\ Limits'
  BY RolesStep, TrackingStep, LeavingStep, LimitsStep DEF IndInv
<1>3. BusyIsExact' /\ Census'
  BY <1>1, BusyStep, CensusStep DEF IndInv
<1>4. Custody'
  BY <1>1, CustodyStep
<1> QED
  BY <1>1, <1>2, <1>3, <1>4 DEF IndInv

\* Every reachable state satisfies the inductive invariant.
THEOREM Invariance == Spec => []IndInv
  BY InitIndInv, NextIndInv, PTL DEF Spec

\* The variables keep their types; in particular no counter passes below
\* zero, although all of them are decremented without a test.
THEOREM TypeCorrect == Spec => []TypeOK
<1>1. IndInv => TypeOK
  BY DEF IndInv
<1> QED
  BY <1>1, Invariance, PTL

\* Between the constructor and shutdown() the number of live workers is
\* between core_threads_ and max_threads_ (lines 191-203 and 240-265).
THEOREM LiveStaysWithinLimits == Spec => []LiveWithinLimits
<1>1. IndInv => LiveWithinLimits
  BY DEF IndInv, LiveWithinLimits, Limits, NobodyLeft, LeavingMeansStopped,
         Roles
<1> QED
  BY <1>1, Invariance, PTL

\* shutdown() returns only after every task has been executed that was queued
\* before it was called (lines 174-206 and 297-325).
THEOREM EarlyTasksAreDone == Spec => []NoEarlyTaskLost
<1>1. IndInv => NoEarlyTaskLost
  BY DEF IndInv, Custody
<1> QED
  BY <1>1, Invariance, PTL

\* No thread exists that workers_ does not know (lines 146-150, 279-293).
THEOREM EveryThreadTracked == Spec => []ThreadsTracked
<1>1. IndInv => ThreadsTracked
  BY DEF IndInv, Tracking, ThreadsTracked
<1> QED
  BY <1>1, Invariance, PTL

\* A retired worker is waiting to be joined by the manager (lines 199-200 and
\* 270-275).
THEOREM RetiredIsKnown == Spec => []NoZombie
<1>1. IndInv => NoZombie
  BY DEF IndInv, Tracking, NoZombie
<1> QED
  BY <1>1, Invariance, PTL

-----------------------------------------------------------------------------
(* The tasks and the queue.                                                *)

\* Nothing happens to the tasks and the callers of the queue.
Quiet ==
  /\ UNCHANGED <<queue, queueShut, task, job>>
  /\ \A v \in Threads :
       /\ thread'[v] = "wait" <=> thread[v] = "wait"
       /\ thread'[v] \in Working <=> thread[v] \in Working

\* A worker without a task calls pop_for().
Awaits(w) ==
  /\ UNCHANGED <<queue, queueShut, task, job>>
  /\ thread[w] \notin Working /\ thread[w] # "wait"
  /\ thread' = [thread EXCEPT ![w] = "wait"]

TouchesQueue ==
  \/ \E t \in Tasks : Submit(t) \/ Push(t)
  \/ \E w \in Threads : PopTask(w) \/ PopNothing(w) \/ Tally(w) \/ Awaits(w)
  \/ CloseQueue

\* What a step may do to the tasks and the queue.
LEMMA StepKinds ==
  ASSUME TypeOK, [Next]_vars
  PROVE  Quiet \/ TouchesQueue
<1> USE DEF taskVars, flagVars, workerVars, managerVars, workerRest, managerRest,
   ownerRest, Goto, TypeOK, Working, Finished, Quiet
<1>1. ASSUME NEW w \in Threads, Worker(w)
      PROVE  Quiet \/ TouchesQueue
  <2>1. CASE BeginTask(w) \/ EndTask(w) \/ CheckRunning(w) \/ CheckDrained(w) \/ Leave(w)
    BY <2>1 DEF BeginTask, EndTask, CheckRunning, CheckDrained, Leave
  <2>2. CASE LoadLive(w) \/ Retire(w) \/ RetryRetire(w) \/ Bury(w) \/ Return(w)
    BY <2>2 DEF LoadLive, Retire, RetryRetire, Bury, Return
  <2>3. CASE CheckIdle(w) \/ StayCore(w)
    <3>1. Awaits(w) \/ Quiet
      BY <2>3 DEF CheckIdle, StayCore, Awaits
    <3> QED
      BY <3>1 DEF TouchesQueue
  <2>4. CASE PopTask(w) \/ PopNothing(w) \/ Tally(w)
    BY <2>4 DEF TouchesQueue
  <2> QED
    BY <1>1, <2>1, <2>2, <2>3, <2>4 DEF Worker
<1>2. CASE Manager
  <2>1. ASSUME NEW w \in Threads, ManagerSpawn(w)
        PROVE  Awaits(w)
    BY <2>1 DEF ManagerSpawn, Spawn, Awaits
  <2>2. ASSUME NEW w \in Threads, Reap(w)
        PROVE  Quiet
    BY <2>2 DEF Reap
  <2>3. CASE Wake \/ SamplePending \/ SampleLive \/ Decide \/ ManagerCount
    BY <2>3 DEF Wake, SamplePending, SampleLive, Decide, ManagerCount, Count
  <2>4. CASE SwapExited \/ LockToReap \/ EndReaping
    BY <2>4 DEF SwapExited, LockToReap, EndReaping
  <2> HIDE DEF Quiet
  <2> QED
    BY <1>2, <2>1, <2>2, <2>3, <2>4 DEF Manager, TouchesQueue
<1>3. CASE Construct
  <2>1. ASSUME NEW w \in Threads, ConstructorSpawn(w)
        PROVE  Awaits(w)
    BY <2>1 DEF ConstructorSpawn, Spawn, Awaits
  <2>2. CASE ConstructorCount \/ Constructed
    BY <2>2 DEF ConstructorCount, Count, Constructed
  <2> HIDE DEF Quiet
  <2> QED
    BY <1>3, <2>1, <2>2 DEF Construct, TouchesQueue
<1>4. CASE StopRunning \/ Shutdown
  <2>1. CASE StopRunning \/ RefuseTasks \/ JoinManager \/ LockWorkers
    BY <2>1 DEF StopRunning, RefuseTasks, JoinManager, LockWorkers
  <2>2. CASE JoinWorkers
    BY <2>2 DEF JoinWorkers
  <2> QED
    BY <1>4, <2>1, <2>2 DEF Shutdown, TouchesQueue
<1>5. CASE UNCHANGED vars
  BY <1>5 DEF vars
<1> HIDE DEF Quiet
<1> QED
  BY <1>1, <1>2, <1>3, <1>4, <1>5 DEF Next, Stopped, TouchesQueue

\* A step that leaves queue, tasks and hands alone leaves each task in its place.
LEMMA PlacesKept ==
  ASSUME OnePlace, UNCHANGED <<queue, task, job>>,
         \A v \in Threads : thread'[v] \in Working <=> thread[v] \in Working
  PROVE  OnePlace'
BY DEF OnePlace

LEMMA OnePlaceStep ==
  ASSUME TypeOK, OnePlace, [Next]_vars
  PROVE  OnePlace'
<1> USE IdentityAssumption DEF TypeOK, Goto
<1>1. CASE Quiet
  BY <1>1, PlacesKept DEF Quiet
<1>2. ASSUME NEW w \in Threads, PopNothing(w) \/ Awaits(w)
      PROVE  OnePlace'
  BY <1>2, PlacesKept DEF PopNothing, Awaits, Working, taskVars
<1>3. ASSUME NEW t \in Tasks, Submit(t)
      PROVE  OnePlace'
  <2>1. /\ task[t] = "new" /\ task'[t] \in {"submitting", "refused"}
        /\ \A s \in Tasks \ {t} : task'[s] = task[s]
        /\ UNCHANGED <<queue, job, thread>>
    BY <1>3 DEF Submit, workerVars
  <2>2. \A i \in 1..Len(queue) : queue[i] \in Tasks
    OBVIOUS
  <2>3. \A i \in 1..Len(queue) : task'[queue[i]] = "queued"
    BY <2>1, <2>2 DEF OnePlace
  <2>4. \A v \in Threads :
          IF thread[v] \in Working
          THEN job[v] \in Tasks /\ task'[job[v]] = "taken"
          ELSE job[v] = NoTask
    BY <2>1 DEF OnePlace
  <2> QED
    BY <2>1, <2>3, <2>4 DEF OnePlace
<1>4. ASSUME NEW t \in Tasks, Push(t)
      PROVE  OnePlace'
  <2>1. task[t] = "submitting" /\ UNCHANGED <<job, thread>>
    BY <1>4 DEF Push, workerVars
  <2>2. /\ \A i \in 1..Len(queue) : queue[i] \in Tasks \ {t}
        /\ \A w \in Threads : thread[w] \in Working => job[w] \in Tasks \ {t}
    <3>1. \A i \in 1..Len(queue) : queue[i] \in Tasks
      OBVIOUS
    <3>2. \A i \in 1..Len(queue) : queue[i] # t
      BY <2>1 DEF OnePlace
    <3>3. \A w \in Threads : thread[w] \in Working => job[w] \in Tasks \ {t}
      BY <2>1 DEF OnePlace
    <3> QED
      BY <3>1, <3>2, <3>3
  <2>3. \A s \in Tasks \ {t} : task'[s] = task[s]
    BY <1>4 DEF Push
  <2>4. /\ \A w \in Threads :
             IF thread'[w] \in Working
             THEN job'[w] \in Tasks /\ task'[job'[w]] = "taken"
             ELSE job'[w] = NoTask
        /\ \A v, w \in Threads : job'[v] = job'[w] /\ job'[w] # NoTask => v = w
    BY <2>1, <2>2, <2>3 DEF OnePlace
  <2>5. CASE queueShut
    <3>1. queue' = queue
      BY <1>4, <2>5 DEF Push
    <3> QED
      BY <2>2, <2>3, <2>4, <3>1 DEF OnePlace
  <2>6. CASE ~queueShut
    <3>1. queue' = Append(queue, t) /\ task'[t] = "queued"
      BY <1>4, <2>6 DEF Push
    <3>2. /\ Len(queue') = Len(queue) + 1 /\ queue'[Len(queue) + 1] = t /\ Len(queue) \in Nat
          /\ \A i \in 1..Len(queue) : queue'[i] = queue[i]
      BY <3>1
    <3>3. \A i \in 1..Len(queue') : i \in 1..Len(queue) \/ i = Len(queue) + 1
      BY <3>2
    <3>4. ASSUME NEW i \in 1..Len(queue')
          PROVE  task'[queue'[i]] = "queued"
      <4>1. CASE i \in 1..Len(queue)
        BY <4>1, <2>2, <2>3, <3>2 DEF OnePlace
      <4>2. CASE i = Len(queue) + 1
        BY <4>2, <3>1, <3>2
      <4> QED
        BY <3>3, <4>1, <4>2
    <3>5. ASSUME NEW i \in 1..Len(queue'), NEW j \in 1..Len(queue'), queue'[i] = queue'[j]
          PROVE  i = j
      <4>1. CASE i \in 1..Len(queue) /\ j \in 1..Len(queue)
        BY <3>2, <3>5, <4>1 DEF OnePlace
      <4>2. CASE i = Len(queue) + 1 \/ j = Len(queue) + 1
        BY <2>2, <3>2, <3>3, <3>5, <4>2
      <4> QED
        BY <3>3, <4>1, <4>2
    <3> QED
      BY <2>4, <3>4, <3>5 DEF OnePlace
  <2> QED
    BY <2>5, <2>6
<1>5. ASSUME NEW w \in Threads, PopTask(w)
      PROVE  OnePlace'
  <2> DEFINE h == Head(queue)
  <2>1. /\ queue # <<>> /\ queue' = Tail(queue) /\ h = queue[1] /\ h \in Tasks
        /\ task' = [task EXCEPT ![h] = "taken"] /\ job' = [job EXCEPT ![w] = h]
        /\ thread[w] = "wait" /\ thread' = [thread EXCEPT ![w] = "got"]
    BY <1>5 DEF PopTask
  <2>2. /\ Len(queue) \in Nat \ {0} /\ Len(queue') = Len(queue) - 1
        /\ \A i \in 1..(Len(queue) - 1) : queue'[i] = queue[i + 1]
    BY <2>1
  <2> HIDE DEF h
  <2>3. /\ task[h] = "queued" /\ task'[h] = "taken"
        /\ \A s \in Tasks \ {h} : task'[s] = task[s]
        /\ \A i \in 2..Len(queue) : queue[i] \in Tasks \ {h}
    BY <2>1, <2>2 DEF OnePlace
  <2>4. \A v \in Threads : job[v] # h
    BY <2>1, <2>3 DEF OnePlace
  <2>5. \A i \in 1..Len(queue') : task'[queue'[i]] = "queued"
    <3> TAKE i \in 1..Len(queue')
    <3>1. i + 1 \in 2..Len(queue) /\ queue'[i] = queue[i + 1]
      BY <2>2
    <3> QED
      BY <2>3, <3>1 DEF OnePlace
  <2>6. \A i, j \in 1..Len(queue') : queue'[i] = queue'[j] => i = j
    <3> TAKE i, j \in 1..Len(queue')
    <3>1. /\ i + 1 \in 1..Len(queue) /\ queue'[i] = queue[i + 1]
          /\ j + 1 \in 1..Len(queue) /\ queue'[j] = queue[j + 1]
          /\ i + 1 = j + 1 => i = j
      BY <2>2
    <3> QED
      BY <3>1 DEF OnePlace
  <2>7. \A v \in Threads :
          IF thread'[v] \in Working
          THEN job'[v] \in Tasks /\ task'[job'[v]] = "taken"
          ELSE job'[v] = NoTask
    BY <2>1, <2>3, <2>4 DEF OnePlace, Working
  <2>8. \A v, u \in Threads : job'[v] = job'[u] /\ job'[u] # NoTask => v = u
    BY <2>1, <2>4 DEF OnePlace
  <2> QED
    BY <2>5, <2>6, <2>7, <2>8 DEF OnePlace
<1>6. ASSUME NEW w \in Threads, Tally(w)
      PROVE  OnePlace'
  <2> DEFINE d == job[w]
  <2>1. /\ thread[w] = "tally" /\ thread' = [thread EXCEPT ![w] = "wait"] /\ queue' = queue
        /\ task' = [task EXCEPT ![d] = "done"] /\ job' = [job EXCEPT ![w] = NoTask]
    BY <1>6 DEF Tally
  <2>2. d \in Tasks /\ task[d] = "taken" /\ thread[w] \in Working
    BY <2>1 DEF OnePlace, Working
  <2> HIDE DEF d
  <2>3. \A i \in 1..Len(queue) : task'[queue[i]] = "queued"
    BY <2>1, <2>2 DEF OnePlace
  <2>4. \A v \in Threads \ {w} : thread[v] \in Working => job[v] # d
    BY <2>2 DEF OnePlace, d
  <2>5. \A v \in Threads :
          IF thread'[v] \in Working
          THEN job'[v] \in Tasks /\ task'[job'[v]] = "taken"
          ELSE job'[v] = NoTask
    BY <2>1, <2>4 DEF OnePlace, Working
  <2>6. \A v, u \in Threads : job'[v] = job'[u] /\ job'[u] # NoTask => v = u
    BY <2>1 DEF OnePlace
  <2> QED
    BY <2>1, <2>3, <2>5, <2>6 DEF OnePlace
<1>7. CASE CloseQueue
  BY <1>7, PlacesKept DEF CloseQueue, ownerRest
<1> QED
  BY <1>1, <1>2, <1>3, <1>4, <1>5, <1>6, <1>7, StepKinds DEF TouchesQueue

\* A task is queued once and taken by one worker, which executes it: no task is
\* executed twice, whatever happens during growth, retirement and shutdown (submit
\* lines 119-141, worker_loop lines 162-172).
THEOREM TasksInOnePlace == Spec => []OnePlace
<1>1. Init => OnePlace
  BY DEF Init, OnePlace, Working
<1>2. IndInv => TypeOK
  BY DEF IndInv
<1>3. TypeOK /\ OnePlace /\ [Next]_vars => OnePlace'
  BY OnePlaceStep
<1> QED
  BY <1>1, <1>2, <1>3, Invariance, PTL DEF Spec

-----------------------------------------------------------------------------
(* The pool as the user of a queue.                                        *)

LEMMA InitUses ==
  ASSUME Init
  PROVE  PoolQueue!Init
<1>1. /\ QueueCall = [c \in Tasks \cup Threads |-> "none"]
      /\ QueueValue = [c \in Tasks \cup Threads |-> NoTask]
  BY DEF Init, QueueCall, QueueValue
<1> QED
  BY <1>1 DEF PoolQueue!Init, Init

\* What a submission or a worker sees of the queue.
LEMMA Callers ==
  /\ \A t \in Tasks :
       /\ QueueCall[t] = IF task[t] = "submitting" THEN "push" ELSE "none"
       /\ QueueValue[t] = IF task[t] \in {"new", "refused"} THEN NoTask ELSE t
  /\ \A w \in Threads :
       /\ QueueCall[w] = IF thread[w] = "wait" THEN "pop_for" ELSE "none"
       /\ QueueValue[w] = job[w]
BY KindsAssumption DEF QueueCall, QueueValue

\* A step in which only submission t calls the queue.
LEMMA SubmissionCalls ==
  ASSUME TypeOK, NEW t \in Tasks, NEW op, NEW v,
         UNCHANGED <<thread, job>>, \A s \in Tasks \ {t} : task'[s] = task[s],
         op = IF task'[t] = "submitting" THEN "push" ELSE "none",
         v = IF task'[t] \in {"new", "refused"} THEN NoTask ELSE t
  PROVE  /\ QueueCall' = [QueueCall EXCEPT ![t] = op]
         /\ QueueValue' = [QueueValue EXCEPT ![t] = v]
BY KindsAssumption DEF QueueCall, QueueValue

\* A step in which only worker w calls the queue.
LEMMA WorkerCalls ==
  ASSUME TypeOK, NEW w \in Threads, NEW op, NEW v,
         \A t \in Tasks :
           /\ task'[t] = "submitting" <=> task[t] = "submitting"
           /\ task'[t] \in {"new", "refused"} <=> task[t] \in {"new", "refused"},
         \A u \in Threads \ {w} :
           (thread'[u] = "wait" <=> thread[u] = "wait") /\ job'[u] = job[u],
         op = IF thread'[w] = "wait" THEN "pop_for" ELSE "none",
         v = job'[w]
  PROVE  /\ QueueCall' = [QueueCall EXCEPT ![w] = op]
         /\ QueueValue' = [QueueValue EXCEPT ![w] = v]
<1>1. w \notin Tasks /\ \A t \in Tasks : t \notin Threads
  BY KindsAssumption
<1>2. QueueCall' = [QueueCall EXCEPT ![w] = op]
  BY <1>1 DEF QueueCall
<1>3. QueueValue' = [QueueValue EXCEPT ![w] = v]
  BY <1>1 DEF QueueValue
<1> QED
  BY <1>2, <1>3

LEMMA SubmitUses ==
  ASSUME TypeOK, NEW t \in Tasks, Submit(t)
  PROVE  [PoolQueue!Next]_(PoolQueue!vars)
<1>1. /\ task[t] = "new" /\ \A s \in Tasks \ {t} : task'[s] = task[s]
      /\ UNCHANGED <<thread, job, queue, queueShut>>
  BY DEF Submit, TypeOK, workerVars
<1>2. QueueCall[t] = "none" /\ QueueValue[t] = NoTask
  BY <1>1, Callers
<1>3. CASE accepting
  <2>1. task'[t] = "submitting"
    BY <1>3 DEF Submit, TypeOK
  <2>2. /\ QueueCall' = [QueueCall EXCEPT ![t] = "push"]
        /\ QueueValue' = [QueueValue EXCEPT ![t] = t]
    BY <1>1, <2>1, SubmissionCalls
  <2>3. PoolQueue!Begin(t, "push", t)
    BY <1>1, <1>2, <2>2 DEF PoolQueue!Begin
  <2> QED
    BY <2>3 DEF PoolQueue!Next
<1>4. CASE ~accepting
  <2>1. task'[t] = "refused"
    BY <1>4 DEF Submit, TypeOK
  <2>2. /\ QueueCall' = [QueueCall EXCEPT ![t] = "none"]
        /\ QueueValue' = [QueueValue EXCEPT ![t] = NoTask]
    BY <1>1, <2>1, SubmissionCalls
  <2>3. QueueCall' = QueueCall /\ QueueValue' = QueueValue
    BY <1>2, <2>2 DEF QueueCall, QueueValue
  <2> QED
    BY <1>1, <2>3 DEF PoolQueue!vars
<1> QED
  BY <1>3, <1>4

LEMMA PushUses ==
  ASSUME TypeOK, NEW t \in Tasks, Push(t)
  PROVE  PoolQueue!Next
<1>1. /\ task[t] = "submitting" /\ \A s \in Tasks \ {t} : task'[s] = task[s]
      /\ UNCHANGED <<thread, job, queueShut>>
  BY DEF Push, TypeOK, workerVars
<1>2. QueueCall[t] = "push" /\ QueueValue[t] = t
  BY <1>1, Callers
<1>3. CASE queueShut
  <2>1. task'[t] = "refused" /\ queue' = queue
    BY <1>3 DEF Push, TypeOK
  <2>2. /\ QueueCall' = [QueueCall EXCEPT ![t] = "none"]
        /\ QueueValue' = [QueueValue EXCEPT ![t] = NoTask]
    BY <1>1, <2>1, SubmissionCalls
  <2>3. PoolQueue!Refuse(t)
    BY <1>1, <1>2, <1>3, <2>1, <2>2 DEF PoolQueue!Refuse, PoolQueue!Return
  <2> QED
    BY <2>3 DEF PoolQueue!Next, PoolQueue!Finish
<1>4. CASE ~queueShut
  <2>1. /\ task'[t] = "queued" /\ queue' = Append(queue, t)
        /\ QueueCapacity = 0 \/ Len(queue) < QueueCapacity
    BY <1>4 DEF Push, TypeOK
  <2>2. /\ QueueCall' = [QueueCall EXCEPT ![t] = "none"]
        /\ QueueValue' = [QueueValue EXCEPT ![t] = t]
    BY <1>1, <2>1, SubmissionCalls
  <2>3. PoolQueue!Put(t)
    BY <1>1, <1>2, <1>4, <2>1, <2>2 DEF PoolQueue!Put, PoolQueue!Return
  <2> QED
    BY <2>3 DEF PoolQueue!Next, PoolQueue!Finish
<1> QED
  BY <1>3, <1>4

\* The result of pop_for() is in the hands of the worker.
LEMMA PopUses ==
  ASSUME TypeOK, OnePlace, NEW w \in Threads, PopTask(w) \/ PopNothing(w)
  PROVE  PoolQueue!Next
<1>1. CASE PopTask(w)
  <2> DEFINE h == Head(queue)
  <2>1. /\ queue # <<>> /\ queue' = Tail(queue) /\ h = queue[1] /\ h \in Tasks
        /\ task' = [task EXCEPT ![h] = "taken"] /\ job' = [job EXCEPT ![w] = h]
        /\ thread[w] = "wait" /\ thread' = [thread EXCEPT ![w] = "got"]
        /\ queueShut' = queueShut /\ 1 \in 1..Len(queue)
    BY <1>1 DEF PopTask, TypeOK, Goto
  <2> HIDE DEF h
  <2>2. task[h] = "queued"
    BY <2>1 DEF OnePlace
  <2>3. \A t \in Tasks :
          /\ task'[t] = "submitting" <=> task[t] = "submitting"
          /\ task'[t] \in {"new", "refused"} <=> task[t] \in {"new", "refused"}
    BY <2>1, <2>2 DEF TypeOK
  <2>4. /\ thread'[w] = "got" /\ job'[w] = h
        /\ \A u \in Threads \ {w} :
             (thread'[u] = "wait" <=> thread[u] = "wait") /\ job'[u] = job[u]
    BY <2>1 DEF TypeOK
  <2>5. /\ QueueCall' = [QueueCall EXCEPT ![w] = "none"]
        /\ QueueValue' = [QueueValue EXCEPT ![w] = h]
    BY <2>3, <2>4, WorkerCalls
  <2>6. QueueCall[w] = "pop_for"
    BY <2>1, Callers
  <2>7. PoolQueue!Take(w)
    BY <2>1, <2>5, <2>6 DEF PoolQueue!Take, PoolQueue!Return, PoolQueue!Pops, h
  <2> QED
    BY <2>7 DEF PoolQueue!Next, PoolQueue!Finish
<1>2. CASE PopNothing(w)
  <2>1. /\ queue = <<>> /\ UNCHANGED <<queue, queueShut, task, job>>
        /\ thread[w] = "wait" /\ thread' = [thread EXCEPT ![w] = "check"]
    BY <1>2 DEF PopNothing, Goto, taskVars
  <2>2. job'[w] = NoTask
    BY <2>1 DEF OnePlace, Working
  <2>3. /\ thread'[w] = "check"
        /\ \A u \in Threads \ {w} :
             (thread'[u] = "wait" <=> thread[u] = "wait") /\ job'[u] = job[u]
    BY <2>1 DEF TypeOK
  <2>4. /\ QueueCall' = [QueueCall EXCEPT ![w] = "none"]
        /\ QueueValue' = [QueueValue EXCEPT ![w] = NoTask]
    BY <2>1, <2>2, <2>3, WorkerCalls
  <2>5. QueueCall[w] = "pop_for"
    BY <2>1, Callers
  <2>6. PoolQueue!GiveUp(w)
    BY <2>1, <2>4, <2>5 DEF PoolQueue!GiveUp, PoolQueue!Return, PoolQueue!Pops
  <2> QED
    BY <2>6 DEF PoolQueue!Next, PoolQueue!Finish
<1> QED
  BY <1>1, <1>2

\* A worker calls pop_for() again, with empty hands.
LEMMA AwaitUses ==
  ASSUME TypeOK, OnePlace, NEW w \in Threads, Tally(w) \/ Awaits(w)
  PROVE  PoolQueue!Next
<1>1. /\ UNCHANGED <<queue, queueShut>> /\ thread[w] # "wait"
      /\ thread' = [thread EXCEPT ![w] = "wait"] /\ job'[w] = NoTask
      /\ \A u \in Threads \ {w} : job'[u] = job[u]
  BY DEF Tally, Awaits, Goto, TypeOK, OnePlace
<1>2. \A t \in Tasks :
        /\ task'[t] = "submitting" <=> task[t] = "submitting"
        /\ task'[t] \in {"new", "refused"} <=> task[t] \in {"new", "refused"}
  <2>1. CASE Tally(w)
    <3>1. job[w] \in Tasks /\ task[job[w]] = "taken"
      BY <2>1 DEF Tally, Goto, OnePlace, Working
    <3>2. task' = [task EXCEPT ![job[w]] = "done"]
      BY <2>1 DEF Tally
    <3> QED
      BY <3>1, <3>2 DEF TypeOK
  <2>2. CASE Awaits(w)
    BY <2>2 DEF Awaits
  <2> QED
    BY <2>1, <2>2
<1>3. /\ thread'[w] = "wait"
      /\ \A u \in Threads \ {w} : thread'[u] = "wait" <=> thread[u] = "wait"
  BY <1>1 DEF TypeOK
<1>4. /\ QueueCall' = [QueueCall EXCEPT ![w] = "pop_for"]
      /\ QueueValue' = [QueueValue EXCEPT ![w] = NoTask]
  BY <1>1, <1>2, <1>3, WorkerCalls
<1>5. QueueCall[w] = "none"
  BY <1>1, Callers
<1>6. PoolQueue!Begin(w, "pop_for", NoTask)
  BY <1>1, <1>4, <1>5 DEF PoolQueue!Begin
<1> QED
  BY <1>6 DEF PoolQueue!Next, PoolQueue!Pops

LEMMA StepUses ==
  ASSUME TypeOK, OnePlace, [Next]_vars
  PROVE  [PoolQueue!Next]_(PoolQueue!vars)
<1>1. CASE Quiet
  BY <1>1 DEF Quiet, PoolQueue!vars, QueueCall, QueueValue
<1>2. CASE CloseQueue
  <2>1. UNCHANGED <<queue, task, job, thread>> /\ queueShut' = TRUE
    BY <1>2 DEF CloseQueue, ownerRest
  <2>2. PoolQueue!Close
    BY <2>1 DEF PoolQueue!Close, QueueCall, QueueValue
  <2> QED
    BY <2>2 DEF PoolQueue!Next
<1> QED
  BY <1>1, <1>2, StepKinds, SubmitUses, PushUses, PopUses, AwaitUses DEF TouchesQueue

\* Whatever the pool does, it is a user of the queue that WorkQueue describes and
\* TaskQueue implements: nothing else is relied on (submit lines 119-141,
\* worker_loop lines 162-172, shutdown line 309).
THEOREM PoolUsesWorkQueue == Spec => UsesWorkQueue
<1>1. Init => PoolQueue!Init
  BY InitUses
<1>2. IndInv => TypeOK
  BY DEF IndInv
<1>3. TypeOK /\ OnePlace /\ [Next]_vars => [PoolQueue!Next]_(PoolQueue!vars)
  BY StepUses
<1> QED
  BY <1>1, <1>2, <1>3, Invariance, TasksInOnePlace, PTL
     DEF Spec, UsesWorkQueue, PoolQueue!Spec
=============================================================================
