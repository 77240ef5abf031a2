-------------------------- MODULE TaskQueueProofs ---------------------------
(***************************************************************************)
(* Proofs, for all sets of threads and every capacity, that TaskQueue      *)
(* keeps its types, that nobody sleeps through what he waits for, and that *)
(* every step is one of WorkQueue.                                         *)
(***************************************************************************)
EXTENDS TaskQueue, FiniteSetTheorems, TLAPS

-----------------------------------------------------------------------------
(* The inductive invariant.                                                *)

\* Who executes which operation, and that only a timed wait runs out of time.
Kinds ==
  /\ \A p \in Producers : call[p] \in {"none", "push"} /\ (call[p] = "push" => value[p] \in Items)
  /\ \A c \in Consumers : call[c] \in {"none"} \cup Pops
  /\ \A t \in Threads : phase[t] = "expired" => call[t] = "pop_for"

\* The flag is raised before anybody is notified.
ClosedFirst == closed <=> closer # "open"

IndInv == TypeOK /\ Kinds /\ ClosedFirst /\ NoLostWakeup

-----------------------------------------------------------------------------
(* Types.                                                                  *)

\* What a returning thread leaves behind.
LEMMA Returned ==
  ASSUME TypeOK, NEW t \in Threads, NEW v \in Items \cup {Nothing},
         NEW T \in SUBSET Threads, ReturnNotifying(t, v, T), phase[t] # "asleep"
  PROVE  /\ call' = [call EXCEPT ![t] = "none"] /\ value' = [value EXCEPT ![t] = v]
         /\ UNCHANGED <<closed, closer, calls, spurious>>
         /\ \/ Sleeping(T) = {} /\ phase' = [phase EXCEPT ![t] = "out"]
            \/ \E s \in Sleeping(T) :
                 s # t /\ phase' = [phase EXCEPT ![t] = "out", ![s] = "woken"]
         /\ phase' \in [Threads -> {"out", "called", "asleep", "woken", "expired"}]
         /\ \A s \in Threads : phase'[s] = "out" <=> call'[s] = "none"
         /\ \A s \in Threads : phase'[s] = "expired" => phase[s] = "expired" /\ call'[s] = call[s]
<1>1. /\ call' = [call EXCEPT ![t] = "none"] /\ value' = [value EXCEPT ![t] = v]
      /\ UNCHANGED <<closed, closer, calls, spurious>>
  BY DEF ReturnNotifying
<1>2. \/ Sleeping(T) = {} /\ phase' = [phase EXCEPT ![t] = "out"]
      \/ \E s \in Sleeping(T) :
           s # t /\ phase' = [phase EXCEPT ![t] = "out", ![s] = "woken"]
  BY DEF ReturnNotifying, Sleeping
<1>3. CASE phase' = [phase EXCEPT ![t] = "out"]
  BY <1>1, <1>2, <1>3 DEF TypeOK
<1>4. ASSUME NEW s \in Sleeping(T), s # t, phase' = [phase EXCEPT ![t] = "out", ![s] = "woken"]
      PROVE  /\ phase' \in [Threads -> {"out", "called", "asleep", "woken", "expired"}]
             /\ \A r \in Threads : phase'[r] = "out" <=> call'[r] = "none"
             /\ \A r \in Threads :
                  phase'[r] = "expired" => phase[r] = "expired" /\ call'[r] = call[r]
  BY <1>1, <1>4 DEF TypeOK, Sleeping
<1> QED
  BY <1>1, <1>2, <1>3, <1>4

LEMMA ReturnKeepsTypes ==
  ASSUME TypeOK, NEW t \in Threads, NEW v \in Items \cup {Nothing},
         NEW T \in SUBSET Threads, ReturnNotifying(t, v, T), phase[t] # "asleep",
         queue' \in Seq(Items), Capacity > 0 => Len(queue') <= Capacity
  PROVE  TypeOK'
<1>1. /\ phase' \in [Threads -> {"out", "called", "asleep", "woken", "expired"}]
      /\ \A s \in Threads : phase'[s] = "out" <=> call'[s] = "none"
  BY Returned
<1>2. /\ call' = [call EXCEPT ![t] = "none"] /\ value' = [value EXCEPT ![t] = v]
      /\ UNCHANGED <<closed, closer, calls, spurious>>
  BY DEF ReturnNotifying
<1> QED
  BY <1>1, <1>2 DEF TypeOK

LEMMA TypeStep ==
  ASSUME TypeOK, Kinds, [Next]_vars
  PROVE  TypeOK'
<1> USE QueueAssumption DEF Threads
<1>1. ASSUME NEW p \in Producers, Call(p, "push", <<p, calls[p] + 1>>)
      PROVE  TypeOK'
  <2>1. <<p, calls[p] + 1>> \in Items /\ calls[p] + 1 \in 0..MaxCalls
    BY <1>1 DEF Call, TypeOK, Items
  <2> QED
    BY <2>1, <1>1 DEF Call, TypeOK
<1>2. ASSUME NEW c \in Consumers, NEW op \in Pops, Call(c, op, Nothing)
      PROVE  TypeOK'
  <2>1. calls[c] + 1 \in 0..MaxCalls
    BY <1>2 DEF Call, TypeOK
  <2> QED
    BY <2>1, <1>2 DEF Call, TypeOK, Pops
<1>3. ASSUME NEW p \in Producers, Push(p)
      PROVE  TypeOK'
  <2>1. phase[p] \in {"called", "woken", "expired"} /\ value[p] \in Items
    BY <1>3 DEF Push, Checking, TypeOK, Kinds
  <2>2. queue' \in Seq(Items) /\ (Capacity > 0 => Len(queue') <= Capacity)
    BY <2>1, <1>3 DEF Push, HasRoom, TypeOK
  <2>3. ReturnNotifying(p, value[p], Consumers) /\ Consumers \in SUBSET Threads
    BY <1>3 DEF Push
  <2> QED
    BY <2>1, <2>2, <2>3, ReturnKeepsTypes
<1>4. ASSUME NEW p \in Producers, PushRefused(p)
      PROVE  TypeOK'
  <2>1. phase[p] \in {"called", "woken", "expired"}
    BY <1>4 DEF PushRefused, Checking
  <2>2. ReturnNotifying(p, Nothing, {}) /\ queue' = queue
    BY <1>4 DEF PushRefused
  <2>3. queue \in Seq(Items) /\ (Capacity > 0 => Len(queue) <= Capacity)
    BY DEF TypeOK
  <2> QED
    BY <2>1, <2>2, <2>3, ReturnKeepsTypes
<1>5. ASSUME NEW c \in Consumers, Pop(c)
      PROVE  TypeOK'
  <2>1. phase[c] \in {"called", "woken", "expired"} /\ Head(queue) \in Items
    BY <1>5 DEF Pop, Checking, TypeOK
  <2>2. queue' \in Seq(Items) /\ (Capacity > 0 => Len(queue') <= Capacity)
    BY <1>5 DEF Pop, TypeOK
  <2>3. ReturnNotifying(c, Head(queue), Producers) /\ Producers \in SUBSET Threads
    BY <1>5 DEF Pop
  <2> QED
    BY <2>1, <2>2, <2>3, ReturnKeepsTypes
<1>6. ASSUME NEW c \in Consumers, PopNothing(c)
      PROVE  TypeOK'
  <2>1. phase[c] \in {"called", "woken", "expired"}
    BY <1>6 DEF PopNothing, Checking
  <2>2. ReturnNotifying(c, Nothing, {}) /\ queue' = queue
    BY <1>6 DEF PopNothing
  <2>3. queue \in Seq(Items) /\ (Capacity > 0 => Len(queue) <= Capacity)
    BY DEF TypeOK
  <2> QED
    BY <2>1, <2>2, <2>3, ReturnKeepsTypes
<1>7. ASSUME NEW t \in Threads, PushSleeps(t) \/ PopSleeps(t) \/ Timeout(t), phase[t] # "out"
      PROVE  TypeOK'
  BY <1>7 DEF PushSleeps, PopSleeps, Timeout, Sleep, TypeOK
<1>8. ASSUME NEW t \in Threads, SpuriousWake(t)
      PROVE  TypeOK'
  BY <1>8 DEF SpuriousWake, TypeOK
<1>9. CASE RaiseFlag \/ UNCHANGED vars
  BY <1>9 DEF RaiseFlag, vars, TypeOK
<1>10. CASE NotifyConsumers \/ NotifyProducers
  BY <1>10 DEF NotifyConsumers, NotifyProducers, NotifyAll, Sleeping, TypeOK
<1> QED
  BY <1>1, <1>2, <1>3, <1>4, <1>5, <1>6, <1>7, <1>8, <1>9, <1>10
     DEF Next, Producer, Consumer, Closer, Resting, PushSleeps, PopSleeps, Timeout, Checking

\* A return that leaves the other calls as they are.
LEMMA ReturnKeepsKinds ==
  ASSUME TypeOK, Kinds, NEW t \in Threads, NEW v \in Items \cup {Nothing},
         NEW T \in SUBSET Threads, ReturnNotifying(t, v, T), phase[t] # "asleep"
  PROVE  Kinds'
<1>1. /\ call' = [call EXCEPT ![t] = "none"] /\ value' = [value EXCEPT ![t] = v]
      /\ \A s \in Threads : phase'[s] = "expired" => phase[s] = "expired" /\ call'[s] = call[s]
  BY Returned
<1>2. \A p \in Producers : call'[p] \in {"none", "push"} /\ (call'[p] = "push" => value'[p] \in Items)
  BY <1>1 DEF Kinds, TypeOK, Threads
<1>3. \A c \in Consumers : call'[c] \in {"none"} \cup Pops
  BY <1>1 DEF Kinds, TypeOK, Threads
<1>4. \A s \in Threads : phase'[s] = "expired" => call'[s] = "pop_for"
  BY <1>1 DEF Kinds
<1> QED
  BY <1>2, <1>3, <1>4 DEF Kinds

LEMMA KindsStep ==
  ASSUME TypeOK, Kinds, [Next]_vars
  PROVE  Kinds'
<1>1. ASSUME NEW p \in Producers, Call(p, "push", <<p, calls[p] + 1>>)
      PROVE  Kinds'
  <2>1. <<p, calls[p] + 1>> \in Items
    BY <1>1, QueueAssumption DEF Call, TypeOK, Items, Threads
  <2> QED
    BY <2>1, <1>1, QueueAssumption DEF Call, TypeOK, Kinds, Threads
<1>2. ASSUME NEW c \in Consumers, NEW op \in Pops, Call(c, op, Nothing)
      PROVE  Kinds'
  BY <1>2, QueueAssumption DEF Call, TypeOK, Kinds, Threads
<1>3. ASSUME NEW p \in Producers, Push(p)
      PROVE  Kinds'
  <2>1. /\ phase[p] # "asleep" /\ value[p] \in Items \cup {Nothing} /\ p \in Threads
        /\ ReturnNotifying(p, value[p], Consumers) /\ Consumers \in SUBSET Threads
    BY <1>3 DEF Push, Checking, TypeOK, Threads
  <2> QED
    BY <2>1, ReturnKeepsKinds
<1>4. ASSUME NEW p \in Producers, PushRefused(p)
      PROVE  Kinds'
  <2>1. phase[p] # "asleep" /\ p \in Threads /\ ReturnNotifying(p, Nothing, {})
    BY <1>4 DEF PushRefused, Checking, Threads
  <2> QED
    BY <2>1, ReturnKeepsKinds
<1>5. ASSUME NEW c \in Consumers, Pop(c)
      PROVE  Kinds'
  <2>1. /\ phase[c] # "asleep" /\ Head(queue) \in Items /\ c \in Threads
        /\ ReturnNotifying(c, Head(queue), Producers) /\ Producers \in SUBSET Threads
    BY <1>5 DEF Pop, Checking, TypeOK, Threads
  <2> QED
    BY <2>1, ReturnKeepsKinds
<1>6. ASSUME NEW c \in Consumers, PopNothing(c)
      PROVE  Kinds'
  <2>1. phase[c] # "asleep" /\ c \in Threads /\ ReturnNotifying(c, Nothing, {})
    BY <1>6 DEF PopNothing, Checking, Threads
  <2> QED
    BY <2>1, ReturnKeepsKinds
<1>7. ASSUME NEW t \in Threads, PushSleeps(t) \/ PopSleeps(t) \/ SpuriousWake(t) \/ Timeout(t)
      PROVE  Kinds'
  BY <1>7 DEF PushSleeps, PopSleeps, SpuriousWake, Timeout, Sleep, TypeOK, Kinds
<1>8. CASE RaiseFlag \/ NotifyConsumers \/ NotifyProducers \/ UNCHANGED vars
  BY <1>8 DEF RaiseFlag, NotifyConsumers, NotifyProducers, NotifyAll, vars, Kinds
<1> QED
  BY <1>1, <1>2, <1>3, <1>4, <1>5, <1>6, <1>7, <1>8
     DEF Next, Producer, Consumer, Closer, Resting, Threads

LEMMA ClosedFirstStep ==
  ASSUME ClosedFirst, [Next]_vars
  PROVE  ClosedFirst'
BY DEF ClosedFirst, Next, Producer, Consumer, Closer, Resting, Call, Push, PushRefused,
   PushSleeps, Pop, PopNothing, PopSleeps, Timeout, SpuriousWake, ReturnNotifying, Sleep,
   RaiseFlag, NotifyConsumers, NotifyProducers, vars

-----------------------------------------------------------------------------
(* Nobody sleeps through what he waits for.                                *)

\* The ways in which a step may change the threads of U that are checking, and
\* the amount of what they wait for.
LEMMA Balance ==
  ASSUME NEW U \in SUBSET Threads, IsFiniteSet(Threads), NEW n \in Int, NEW m \in Int,
         Sleeping(U)' # {} => Sleeping(U) # {} \/ m <= 0,
         Sleeping(U) # {} => n <= Cardinality(Checking(U)),
         \/ m <= 0 \/ Sleeping(U)' = {}
         \/ Checking(U)' = Checking(U) /\ m <= n
         \/ \E t \in U : /\ t \notin Checking(U) /\ Checking(U)' = Checking(U) \cup {t}
                         /\ m <= n + 1
         \/ \E t \in U : /\ t \in Checking(U) /\ Checking(U)' = Checking(U) \ {t}
                         /\ m <= n - 1
  PROVE  Sleeping(U)' # {} => m <= Cardinality(Checking(U)')
<1>1. /\ IsFiniteSet(U) /\ Checking(U) \in SUBSET U /\ Checking(U)' \in SUBSET U
  BY FS_Subset DEF Checking
<1>2. Cardinality(Checking(U)) \in Nat /\ Cardinality(Checking(U)') \in Nat
  BY <1>1, FS_Subset, FS_CardinalityType
<1>3. CASE m <= 0 \/ Sleeping(U)' = {}
  BY <1>2, <1>3
<1>4. CASE Checking(U)' = Checking(U) /\ m <= n /\ ~(m <= 0)
  BY <1>2, <1>4
<1>5. ASSUME NEW t \in U, t \notin Checking(U), Checking(U)' = Checking(U) \cup {t}, m <= n + 1,
             ~(m <= 0)
      PROVE  Sleeping(U)' # {} => m <= Cardinality(Checking(U)')
  <2>1. IsFiniteSet(Checking(U))
    BY <1>1, FS_Subset
  <2>2. Cardinality(Checking(U)') = Cardinality(Checking(U)) + 1
    BY <1>5, <2>1, FS_AddElement
  <2> QED
    BY <1>2, <1>5, <2>2
<1>6. ASSUME NEW t \in U, t \in Checking(U), Checking(U)' = Checking(U) \ {t}, m <= n - 1,
             ~(m <= 0)
      PROVE  Sleeping(U)' # {} => m <= Cardinality(Checking(U)')
  <2>1. IsFiniteSet(Checking(U))
    BY <1>1, FS_Subset
  <2>2. Cardinality(Checking(U)') = Cardinality(Checking(U)) - 1
    BY <1>6, <2>1, FS_RemoveElement
  <2> QED
    BY <1>2, <1>6, <2>2
<1> QED
  BY <1>3, <1>4, <1>5, <1>6

\* A step of one thread of U, after which the others wait for m.
Step(U, n, m) ==
  /\ closed => Sleeping(U)' \subseteq Sleeping(U)
  /\ ~closed =>
       /\ Sleeping(U)' # {} => Sleeping(U) # {} \/ m <= 0
       /\ \/ m <= 0 \/ Sleeping(U)' = {}
          \/ Checking(U)' = Checking(U) /\ m <= n
          \/ \E t \in U : /\ t \notin Checking(U) /\ Checking(U)' = Checking(U) \cup {t}
                          /\ m <= n + 1
          \/ \E t \in U : /\ t \in Checking(U) /\ Checking(U)' = Checking(U) \ {t}
                          /\ m <= n - 1

LEMMA BothSides ==
  ASSUME TypeOK, TypeOK', NoLostWakeup, ClosedFirst, UNCHANGED <<closed, closer>>,
         Step(Consumers, Len(queue), Len(queue')),
         Step(Producers, Capacity - Len(queue), Capacity - Len(queue'))
  PROVE  NoLostWakeup'
<1>1. /\ Len(queue) \in Int /\ Len(queue') \in Int /\ IsFiniteSet(Threads)
      /\ Capacity - Len(queue) \in Int /\ Capacity - Len(queue') \in Int
      /\ Consumers \in SUBSET Threads /\ Producers \in SUBSET Threads
  BY QueueAssumption DEF TypeOK, Threads
<1>2. CASE ~closed
  <2>1. Sleeping(Consumers) # {} => Len(queue) <= Cardinality(Checking(Consumers))
    BY <1>2 DEF NoLostWakeup, ClosedFirst
  <2>2. Sleeping(Consumers)' # {} => Len(queue') <= Cardinality(Checking(Consumers)')
    <3> DEFINE n == Len(queue)
               m == Len(queue')
    <3>1. n \in Int /\ m \in Int
      BY <1>1
    <3>2. /\ Sleeping(Consumers)' # {} => Sleeping(Consumers) # {} \/ m <= 0
          /\ \/ m <= 0 \/ Sleeping(Consumers)' = {}
             \/ Checking(Consumers)' = Checking(Consumers) /\ m <= n
             \/ \E t \in Consumers : /\ t \notin Checking(Consumers)
                                     /\ Checking(Consumers)' = Checking(Consumers) \cup {t}
                                     /\ m <= n + 1
             \/ \E t \in Consumers : /\ t \in Checking(Consumers)
                                     /\ Checking(Consumers)' = Checking(Consumers) \ {t}
                                     /\ m <= n - 1
      BY <1>2 DEF Step
    <3>3. Sleeping(Consumers) # {} => n <= Cardinality(Checking(Consumers))
      BY <2>1
    <3> HIDE DEF n, m
    <3>4. Sleeping(Consumers)' # {} => m <= Cardinality(Checking(Consumers)')
      BY <1>1, <3>1, <3>2, <3>3, Balance
    <3> QED
      BY <3>4 DEF m
  <2>3. Sleeping(Producers) # {} => Capacity - Len(queue) <= Cardinality(Checking(Producers))
    BY <1>2 DEF NoLostWakeup, ClosedFirst
  <2>4. Sleeping(Producers)' # {} => Capacity - Len(queue') <= Cardinality(Checking(Producers)')
    <3> DEFINE n == Capacity - Len(queue)
               m == Capacity - Len(queue')
    <3>1. n \in Int /\ m \in Int
      BY <1>1
    <3>2. /\ Sleeping(Producers)' # {} => Sleeping(Producers) # {} \/ m <= 0
          /\ \/ m <= 0 \/ Sleeping(Producers)' = {}
             \/ Checking(Producers)' = Checking(Producers) /\ m <= n
             \/ \E t \in Producers : /\ t \notin Checking(Producers)
                                     /\ Checking(Producers)' = Checking(Producers) \cup {t}
                                     /\ m <= n + 1
             \/ \E t \in Producers : /\ t \in Checking(Producers)
                                     /\ Checking(Producers)' = Checking(Producers) \ {t}
                                     /\ m <= n - 1
      BY <1>2 DEF Step
    <3>3. Sleeping(Producers) # {} => n <= Cardinality(Checking(Producers))
      BY <2>3
    <3> HIDE DEF n, m
    <3>4. Sleeping(Producers)' # {} => m <= Cardinality(Checking(Producers)')
      BY <1>1, <3>1, <3>2, <3>3, Balance
    <3> QED
      BY <3>4 DEF m
  <2> QED
    BY <1>2, <2>2, <2>4 DEF NoLostWakeup
<1>3. CASE closed
  BY <1>3 DEF NoLostWakeup, Step
<1> QED
  BY <1>2, <1>3

\* A thread of U returns: it is not checking any more, and it may have woken a
\* thread of the other side W.
LEMMA ReturnChanges ==
  ASSUME TypeOK, NEW U \in SUBSET Threads, NEW W \in SUBSET Threads, U \cap W = {},
         NEW t \in Checking(U), NEW v, NEW T \in {W, {}}, ReturnNotifying(t, v, T)
  PROVE  /\ Sleeping(U)' = Sleeping(U) /\ Checking(U)' = Checking(U) \ {t}
         /\ Sleeping(W)' \subseteq Sleeping(W)
         /\ \/ Checking(W)' = Checking(W) /\ (T = W => Sleeping(W)' = {})
            \/ T = W /\ \E s \in W : s \notin Checking(W) /\ Checking(W)' = Checking(W) \cup {s}
<1>1. t \in U /\ t \in Threads /\ t \notin W /\ phase[t] \in {"called", "woken", "expired"}
  BY DEF Checking
<1>2. CASE phase' = [phase EXCEPT ![t] = "out"] /\ Sleeping(T) = {}
  <2>1. \A r \in Threads : phase'[r] = IF r = t THEN "out" ELSE phase[r]
    BY <1>1, <1>2 DEF TypeOK
  <2>2. Sleeping(U)' = Sleeping(U) /\ Checking(U)' = Checking(U) \ {t}
    BY <1>1, <2>1 DEF Sleeping, Checking
  <2>3. Sleeping(W)' = Sleeping(W) /\ Checking(W)' = Checking(W)
    BY <1>1, <2>1 DEF Sleeping, Checking
  <2> QED
    BY <1>2, <2>2, <2>3
<1>3. ASSUME NEW s \in Sleeping(T), phase' = [phase EXCEPT ![t] = "out", ![s] = "woken"]
      PROVE  /\ Sleeping(U)' = Sleeping(U) /\ Checking(U)' = Checking(U) \ {t}
             /\ Sleeping(W)' \subseteq Sleeping(W) /\ T = W
             /\ s \in W /\ s \notin Checking(W) /\ Checking(W)' = Checking(W) \cup {s}
  <2>1. T = W /\ s \in W /\ s \notin U /\ s # t /\ phase[s] = "asleep"
    BY <1>1, <1>3 DEF Sleeping
  <2>2. \A r \in Threads : phase'[r] = IF r = t THEN "out" ELSE IF r = s THEN "woken" ELSE phase[r]
    BY <1>1, <1>3, <2>1 DEF TypeOK
  <2>3. Sleeping(U)' = Sleeping(U) /\ Checking(U)' = Checking(U) \ {t}
    BY <1>1, <2>1, <2>2 DEF Sleeping, Checking
  <2>4. /\ Sleeping(W)' \subseteq Sleeping(W)
        /\ s \notin Checking(W) /\ Checking(W)' = Checking(W) \cup {s}
    BY <1>1, <2>1, <2>2 DEF Sleeping, Checking
  <2> QED
    BY <2>1, <2>3, <2>4
<1> QED
  BY <1>2, <1>3 DEF ReturnNotifying

\* One thread changes its phase.
LEMMA PhaseChange ==
  ASSUME TypeOK, NEW U \in SUBSET Threads, NEW W \in SUBSET Threads, U \cap W = {},
         NEW t \in U, NEW to \in {"called", "asleep", "woken", "expired"},
         phase' = [phase EXCEPT ![t] = to]
  PROVE  /\ Sleeping(W)' = Sleeping(W) /\ Checking(W)' = Checking(W)
         /\ to = "asleep" => Checking(U)' = Checking(U) \ {t}
         /\ to # "asleep" => Sleeping(U)' \subseteq Sleeping(U) /\ Checking(U)' = Checking(U) \cup {t}
<1>1. /\ t \notin W /\ t \in Threads
      /\ \A r \in Threads : phase'[r] = IF r = t THEN to ELSE phase[r]
  BY DEF TypeOK
<1>2. Sleeping(W)' = Sleeping(W) /\ Checking(W)' = Checking(W)
  BY <1>1 DEF Sleeping, Checking
<1>3. CASE to = "asleep"
  BY <1>1, <1>2, <1>3 DEF Checking
<1>4. CASE to # "asleep"
  BY <1>1, <1>2, <1>4 DEF Sleeping, Checking
<1> QED
  BY <1>2, <1>3, <1>4

LEMMA WakeupStep ==
  ASSUME TypeOK, ClosedFirst, NoLostWakeup, TypeOK', [Next]_vars
  PROVE  NoLostWakeup'
<1>1. /\ Len(queue) \in Nat /\ Len(queue') \in Nat /\ Capacity \in Nat
      /\ queue = <<>> => Len(queue) = 0
  BY QueueAssumption DEF TypeOK
<1>2. /\ Producers \in SUBSET Threads /\ Consumers \in SUBSET Threads
      /\ Producers \cap Consumers = {} /\ Consumers \cap Producers = {}
  BY QueueAssumption DEF Threads
<1>3. ASSUME NEW t \in Threads, NEW to \in {"called", "woken", "expired"},
             phase' = [phase EXCEPT ![t] = to], phase[t] \in {"out", "asleep"},
             UNCHANGED <<queue, closed, closer>>
      PROVE  NoLostWakeup'
  <2>1. t \notin Checking(Producers) /\ t \notin Checking(Consumers)
    BY <1>3 DEF Checking
  <2>2. CASE t \in Producers
    <3>1. /\ Sleeping(Consumers)' = Sleeping(Consumers) /\ Checking(Consumers)' = Checking(Consumers)
          /\ Sleeping(Producers)' \subseteq Sleeping(Producers)
          /\ Checking(Producers)' = Checking(Producers) \cup {t}
      BY <1>2, <1>3, <2>2, PhaseChange
    <3>2. Step(Consumers, Len(queue), Len(queue'))
      BY <1>1, <1>3, <3>1 DEF Step
    <3>3. Step(Producers, Capacity - Len(queue), Capacity - Len(queue'))
      BY <1>1, <1>3, <2>1, <2>2, <3>1 DEF Step
    <3> QED
      BY <1>3, <3>2, <3>3, BothSides
  <2>3. CASE t \in Consumers
    <3>1. /\ Sleeping(Producers)' = Sleeping(Producers) /\ Checking(Producers)' = Checking(Producers)
          /\ Sleeping(Consumers)' \subseteq Sleeping(Consumers)
          /\ Checking(Consumers)' = Checking(Consumers) \cup {t}
      BY <1>2, <1>3, <2>3, PhaseChange
    <3>2. Step(Consumers, Len(queue), Len(queue'))
      BY <1>1, <1>3, <2>1, <2>3, <3>1 DEF Step
    <3>3. Step(Producers, Capacity - Len(queue), Capacity - Len(queue'))
      BY <1>1, <1>3, <3>1 DEF Step
    <3> QED
      BY <1>3, <3>2, <3>3, BothSides
  <2> QED
    BY <2>2, <2>3 DEF Threads
<1>4. ASSUME NEW t \in Threads, NEW op, NEW v, Call(t, op, v)
      PROVE  NoLostWakeup'
  <2>1. phase[t] = "out" /\ phase' = [phase EXCEPT ![t] = "called"] /\ UNCHANGED <<queue, closed, closer>>
    BY <1>4 DEF Call, TypeOK
  <2> QED
    BY <1>3, <2>1
<1>5. ASSUME NEW t \in Threads, SpuriousWake(t) \/ Timeout(t)
      PROVE  NoLostWakeup'
  BY <1>3, <1>5 DEF SpuriousWake, Timeout
<1>6. ASSUME NEW p \in Producers, Push(p)
      PROVE  NoLostWakeup'
  <2>1. /\ p \in Checking(Producers) /\ ~closed /\ ReturnNotifying(p, value[p], Consumers)
        /\ UNCHANGED <<closed, closer>> /\ Len(queue') = Len(queue) + 1
    BY <1>6 DEF Push, ReturnNotifying, TypeOK
  <2>2. /\ Sleeping(Producers)' = Sleeping(Producers)
        /\ Checking(Producers)' = Checking(Producers) \ {p}
        /\ Sleeping(Consumers)' \subseteq Sleeping(Consumers)
        /\ \/ Sleeping(Consumers)' = {}
           \/ \E s \in Consumers : /\ s \notin Checking(Consumers)
                                   /\ Checking(Consumers)' = Checking(Consumers) \cup {s}
    BY <1>2, <2>1, ReturnChanges
  <2>3. Step(Consumers, Len(queue), Len(queue'))
    BY <1>1, <2>1, <2>2 DEF Step
  <2>4. Step(Producers, Capacity - Len(queue), Capacity - Len(queue'))
    BY <1>1, <1>6, <2>1, <2>2 DEF Step
  <2> QED
    BY <2>1, <2>3, <2>4, BothSides
<1>7. ASSUME NEW c \in Consumers, Pop(c)
      PROVE  NoLostWakeup'
  <2>1. /\ c \in Checking(Consumers) /\ ReturnNotifying(c, Head(queue), Producers)
        /\ UNCHANGED <<closed, closer>> /\ Len(queue') = Len(queue) - 1
    BY <1>7 DEF Pop, ReturnNotifying, TypeOK
  <2>2. /\ Sleeping(Consumers)' = Sleeping(Consumers)
        /\ Checking(Consumers)' = Checking(Consumers) \ {c}
        /\ Sleeping(Producers)' \subseteq Sleeping(Producers)
        /\ \/ Sleeping(Producers)' = {}
           \/ \E s \in Producers : /\ s \notin Checking(Producers)
                                   /\ Checking(Producers)' = Checking(Producers) \cup {s}
    BY <1>2, <2>1, ReturnChanges
  <2>3. Step(Consumers, Len(queue), Len(queue'))
    BY <1>1, <1>7, <2>1, <2>2 DEF Step
  <2>4. Step(Producers, Capacity - Len(queue), Capacity - Len(queue'))
    BY <1>1, <2>1, <2>2 DEF Step
  <2> QED
    BY <2>1, <2>3, <2>4, BothSides
<1>8. ASSUME NEW p \in Producers, PushRefused(p)
      PROVE  NoLostWakeup'
  <2>1. /\ p \in Checking(Producers) /\ closed /\ ReturnNotifying(p, Nothing, {})
        /\ UNCHANGED <<queue, closed, closer>>
    BY <1>8 DEF PushRefused, ReturnNotifying
  <2>2. Sleeping(Producers)' = Sleeping(Producers) /\ Sleeping(Consumers)' \subseteq Sleeping(Consumers)
    BY <1>2, <2>1, ReturnChanges
  <2> QED
    BY <2>1, <2>2, BothSides DEF Step
<1>9. ASSUME NEW c \in Consumers, PopNothing(c)
      PROVE  NoLostWakeup'
  <2>1. /\ c \in Checking(Consumers) /\ queue = <<>> /\ ReturnNotifying(c, Nothing, {})
        /\ UNCHANGED <<queue, closed, closer>>
    BY <1>9 DEF PopNothing, MustGiveUp, ReturnNotifying
  <2>2. /\ Sleeping(Consumers)' = Sleeping(Consumers)
        /\ Sleeping(Producers)' \subseteq Sleeping(Producers)
        /\ Checking(Producers)' = Checking(Producers) \/ ({} = Producers /\ Checking(Producers)' = {})
    BY <1>2, <2>1, ReturnChanges
  <2>3. Checking(Producers)' = Checking(Producers)
    BY <2>2 DEF Checking
  <2>4. Step(Consumers, Len(queue), Len(queue'))
    BY <1>1, <2>1, <2>2 DEF Step
  <2>5. Step(Producers, Capacity - Len(queue), Capacity - Len(queue'))
    BY <1>1, <2>1, <2>2, <2>3 DEF Step
  <2> QED
    BY <2>1, <2>4, <2>5, BothSides
<1>10. ASSUME NEW p \in Producers, PushSleeps(p)
       PROVE  NoLostWakeup'
  <2>1. /\ ~closed /\ Capacity - Len(queue) <= 0 /\ phase' = [phase EXCEPT ![p] = "asleep"]
        /\ UNCHANGED <<queue, closed, closer>>
    BY <1>1, <1>10 DEF PushSleeps, HasRoom, Sleep
  <2>2. Sleeping(Consumers)' = Sleeping(Consumers) /\ Checking(Consumers)' = Checking(Consumers)
    BY <1>2, <2>1, PhaseChange
  <2>3. Step(Consumers, Len(queue), Len(queue'))
    BY <1>1, <2>1, <2>2 DEF Step
  <2>4. Step(Producers, Capacity - Len(queue), Capacity - Len(queue'))
    BY <2>1 DEF Step
  <2> QED
    BY <2>1, <2>3, <2>4, BothSides
<1>11. ASSUME NEW c \in Consumers, PopSleeps(c)
       PROVE  NoLostWakeup'
  <2>1. /\ ~closed /\ queue = <<>> /\ phase' = [phase EXCEPT ![c] = "asleep"]
        /\ UNCHANGED <<queue, closed, closer>>
    BY <1>11 DEF PopSleeps, MustGiveUp, Sleep
  <2>2. Sleeping(Producers)' = Sleeping(Producers) /\ Checking(Producers)' = Checking(Producers)
    BY <1>2, <2>1, PhaseChange
  <2>3. Step(Consumers, Len(queue), Len(queue'))
    BY <1>1, <2>1 DEF Step
  <2>4. Step(Producers, Capacity - Len(queue), Capacity - Len(queue'))
    BY <1>1, <2>1, <2>2 DEF Step
  <2> QED
    BY <2>1, <2>3, <2>4, BothSides
<1>12. CASE RaiseFlag
  BY <1>12 DEF RaiseFlag, NoLostWakeup
<1>13. CASE NotifyConsumers
  <2>1. /\ Sleeping(Consumers)' = {} /\ closer' = "notifyProducers"
    BY <1>2, <1>13 DEF NotifyConsumers, NotifyAll, Sleeping
  <2> QED
    BY <2>1 DEF NoLostWakeup
<1>14. CASE NotifyProducers
  <2>1. /\ Sleeping(Producers)' = {} /\ Sleeping(Consumers)' \subseteq Sleeping(Consumers)
        /\ UNCHANGED <<closed>> /\ closed
    BY <1>2, <1>14 DEF NotifyProducers, NotifyAll, Sleeping, ClosedFirst
  <2> QED
    BY <1>14, <2>1 DEF NoLostWakeup, NotifyProducers
<1>15. CASE UNCHANGED vars
  BY <1>15 DEF vars, NoLostWakeup, Sleeping, Checking
<1> QED
  BY <1>4, <1>5, <1>6, <1>7, <1>8, <1>9, <1>10, <1>11, <1>12, <1>13, <1>14, <1>15
     DEF Next, Producer, Consumer, Closer, Resting, Threads

LEMMA InitIndInv == Init => IndInv
<1> SUFFICES ASSUME Init PROVE IndInv
  OBVIOUS
<1>1. TypeOK
  <2>1. queue = <<>> /\ Len(queue) = 0 /\ queue \in Seq(Items)
    BY DEF Init
  <2>2. /\ call \in [Threads -> {"none", "push"} \cup Pops]
        /\ value \in [Threads -> Items \cup {Nothing}]
        /\ phase \in [Threads -> {"out", "called", "asleep", "woken", "expired"}]
        /\ \A t \in Threads : phase[t] = "out" <=> call[t] = "none"
    BY DEF Init
  <2>3. calls \in [Threads -> 0..MaxCalls] /\ spurious \in 0..MaxSpurious
    BY QueueAssumption DEF Init
  <2>4. closed \in BOOLEAN /\ closer \in {"open", "notifyConsumers", "notifyProducers", "done"}
    BY Zenon DEF Init
  <2>5. Capacity > 0 => Len(queue) <= Capacity
    BY <2>1, QueueAssumption
  <2> QED
    BY <2>1, <2>2, <2>3, <2>4, <2>5 DEF TypeOK
<1>2. Kinds /\ ClosedFirst
  BY QueueAssumption DEF Init, Kinds, ClosedFirst, Threads
<1>3. Sleeping(Consumers) = {} /\ Sleeping(Producers) = {}
  BY DEF Init, Sleeping, Threads
<1> QED
  BY <1>1, <1>2, <1>3 DEF IndInv, NoLostWakeup

LEMMA NextIndInv == IndInv /\ [Next]_vars => IndInv'
BY TypeStep, KindsStep, ClosedFirstStep, WakeupStep DEF IndInv

\* Every reachable state satisfies the inductive invariant.
THEOREM Invariance == Spec => []IndInv
BY InitIndInv, NextIndInv, PTL DEF Spec

\* Every variable keeps its type, and a bounded queue never holds more than
\* capacity_ items (push lines 40-52).
THEOREM TypeCorrect == Spec => []TypeOK
<1>1. IndInv => TypeOK
  BY DEF IndInv
<1> QED
  BY <1>1, Invariance, PTL

\* Nobody sleeps through what he waits for (push lines 43-50, pop lines 60-70,
\* shutdown lines 110-118).
THEOREM NoWakeupLost == Spec => []NoLostWakeup
<1>1. IndInv => NoLostWakeup
  BY DEF IndInv
<1> QED
  BY <1>1, Invariance, PTL

-----------------------------------------------------------------------------
(* The steps of the queue are steps of WorkQueue.                          *)

LEMMA StepImplements ==
  ASSUME TypeOK, Kinds, [Next]_vars
  PROVE  [Abstract!Next]_(Abstract!vars)
<1> USE QueueAssumption DEF Threads
<1>1. ASSUME NEW p \in Producers, Call(p, "push", <<p, calls[p] + 1>>)
      PROVE  Abstract!Next
  <2>1. <<p, calls[p] + 1>> \in Items
    BY <1>1 DEF Call, TypeOK, Items
  <2>2. Abstract!Begin(p, "push", <<p, calls[p] + 1>>)
    BY <1>1 DEF Call, Abstract!Begin
  <2> QED
    BY <2>1, <2>2 DEF Abstract!Next
<1>2. ASSUME NEW c \in Consumers, NEW op \in Pops, Call(c, op, Nothing)
      PROVE  Abstract!Next
  <2>1. Abstract!Begin(c, op, Nothing)
    BY <1>2 DEF Call, Abstract!Begin
  <2> QED
    BY <2>1 DEF Abstract!Next, Abstract!Pops, Pops
<1>3. ASSUME NEW p \in Producers, Push(p)
      PROVE  Abstract!Put(p)
  <2>1. call[p] = "push"
    BY <1>3 DEF Push, Checking, TypeOK, Kinds
  <2> QED
    BY <1>3, <2>1 DEF Push, HasRoom, ReturnNotifying, Abstract!Put, Abstract!Return
<1>4. ASSUME NEW p \in Producers, PushRefused(p)
      PROVE  Abstract!Refuse(p)
  <2>1. call[p] = "push"
    BY <1>4 DEF PushRefused, Checking, TypeOK, Kinds
  <2> QED
    BY <1>4, <2>1 DEF PushRefused, ReturnNotifying, Abstract!Refuse, Abstract!Return
<1>5. ASSUME NEW c \in Consumers, Pop(c)
      PROVE  Abstract!Take(c)
  <2>1. call[c] \in Abstract!Pops
    BY <1>5 DEF Pop, Checking, TypeOK, Kinds, Pops, Abstract!Pops
  <2> QED
    BY <1>5, <2>1 DEF Pop, ReturnNotifying, Abstract!Take, Abstract!Return
<1>6. ASSUME NEW c \in Consumers, PopNothing(c)
      PROVE  Abstract!GiveUp(c)
  <2>1. call[c] \in Abstract!Pops /\ (call[c] = "pop" => closed)
    BY <1>6 DEF PopNothing, MustGiveUp, Checking, TypeOK, Kinds, Pops, Abstract!Pops
  <2> QED
    BY <1>6, <2>1 DEF PopNothing, MustGiveUp, ReturnNotifying, Abstract!GiveUp, Abstract!Return
<1>7. CASE RaiseFlag
  BY <1>7 DEF RaiseFlag, Abstract!Close, Abstract!Next
<1>8. CASE UNCHANGED vars \/ Closer
  BY <1>8 DEF vars, Closer, NotifyConsumers, NotifyProducers, Abstract!vars
<1>9. ASSUME NEW t \in Threads, PushSleeps(t) \/ PopSleeps(t) \/ Timeout(t) \/ SpuriousWake(t)
      PROVE  UNCHANGED Abstract!vars
  BY <1>9 DEF PushSleeps, PopSleeps, Timeout, SpuriousWake, Sleep, Abstract!vars
<1>10. ASSUME NEW t \in Threads,
              Abstract!Put(t) \/ Abstract!Refuse(t) \/ Abstract!Take(t) \/ Abstract!GiveUp(t)
       PROVE  Abstract!Next
  BY <1>10 DEF Abstract!Next, Abstract!Finish
<1> QED
  BY <1>1, <1>2, <1>3, <1>4, <1>5, <1>6, <1>7, <1>8, <1>9, <1>10
     DEF Next, Producer, Consumer, Resting

\* Every call takes effect in one step between its beginning and its return:
\* items leave in the order in which they entered, none is lost or taken twice,
\* a closed queue refuses items and is emptied nevertheless, and only pop()
\* waits while the queue is open (push, pop, pop_for and try_pop, lines 40-108).
THEOREM QueueImplementsWorkQueue == Spec => Abstract!Spec
<1>1. Init => Abstract!Init
  BY DEF Init, Abstract!Init
<1>2. IndInv /\ [Next]_vars => [Abstract!Next]_(Abstract!vars)
  BY StepImplements DEF IndInv
<1> QED
  BY <1>1, <1>2, Invariance, PTL DEF Spec, Abstract!Spec
=============================================================================
