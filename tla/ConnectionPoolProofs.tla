------------------------ MODULE ConnectionPoolProofs ------------------------
(***************************************************************************)
(* Proofs, for all sets of users and connections and all limits, that      *)
(* ConnectionPool keeps its types, lends a connection to one user at a     *)
(* time, loses no wakeup, loses a connection only when it is disconnected, *)
(* never takes the reply to another command, and implements LendingPool.   *)
(***************************************************************************)
EXTENDS ConnectionPool, FiniteSetTheorems, TLAPS

-----------------------------------------------------------------------------
(* The inductive invariant.                                                *)

\* Who has a local connection, who holds mutex_, and that nobody has entered
\* before init() has returned.
Roles ==
  /\ \A u \in Users :
       /\ conn[u] # NoConn <=> pc[u] \in {"ping", "reconnect", "using"}
       /\ mutex = u <=> pc[u] \in Inside
       /\ conn[u] \in made \cup {NoConn}
  /\ phase \in {"new", "failed"} => \A u \in Users : pc[u] = "away"

\* Every connection is in one place only.
Apart ==
  /\ InIdle \subseteq made
  /\ \A u, v \in Users : u # v /\ conn[u] = conn[v] => conn[u] = NoConn
  /\ \A u \in Users : conn[u] \notin InIdle
  /\ \A i, j \in 1..Len(idle) : idle[i] = idle[j] => i = j

\* A transport with a reply that nobody has waited for belongs to a connection
\* that is known to be broken.
Settled ==
  /\ ~crossed
  /\ \A c \in Conns : link[c] = "late" => ~connected[c] /\ driver # "mysql"

\* Without an outage or a timeout a connection is only found disconnected by
\* the user that is going to connect it again.
Calm ==
  outages = 0 =>
    /\ made # {} => Reachable
    /\ \A c \in Conns : link[c] \in {"none", "good"}
    /\ \A c \in made : link[c] = "good"
    /\ \A c \in made : connected[c] \/ \E u \in Users : conn[u] = c /\ pc[u] = "reconnect"

IndInv ==
  /\ TypeOK /\ Roles /\ Apart /\ NoLostWakeup /\ Settled /\ Calm
  /\ LostIsDisconnected
-----------------------------------------------------------------------------
(* Counting, and what a connection makes of a reply.                       *)

LEMMA OneMore ==
  ASSUME NEW T, IsFiniteSet(T), NEW S \in SUBSET T, NEW x \in T \ S
  PROVE  /\ Cardinality(S \cup {x}) = Cardinality(S) + 1
         /\ Cardinality(S) \in Nat
<1>1. IsFiniteSet(S)
  BY FS_Subset
<1> QED
  BY <1>1, FS_AddElement, FS_CardinalityType

LEMMA OneLess ==
  ASSUME NEW T, IsFiniteSet(T), NEW S \in SUBSET T, NEW x \in S
  PROVE  /\ Cardinality(S \ {x}) = Cardinality(S) - 1
         /\ Cardinality(S) \in Nat
<1>1. IsFiniteSet(S)
  BY FS_Subset
<1> QED
  BY <1>1, FS_RemoveElement, FS_CardinalityType

LEMMA PingEnds ==
  ASSUME NEW reply \in Replies, NEW end \in {MySQLPing(reply), RedisPing(reply)}
  PROVE  /\ end.ok \in BOOLEAN /\ end.up \in BOOLEAN
         /\ end.ok => end.up
         /\ reply = "none" => ~end.ok /\ ~end.up
<1>1. CASE end = MySQLPing(reply)
  <2>1. end.ok = (reply = "OK") /\ end.up = (reply = "OK")
    BY <1>1 DEF MySQLPing, End
  <2> QED
    BY <2>1
<1>2. CASE end = RedisPing(reply)
  <2>1. end.ok = (reply = "PONG") /\ end.up = (reply \notin {"none", "error"})
    BY <1>2 DEF RedisPing, End
  <2> QED
    BY <2>1
<1> QED
  BY <1>1, <1>2

LEMMA CommandEnds ==
  ASSUME NEW reply \in Replies,
         NEW end \in RedisCommands(reply) \cup MySQLCommands(reply)
  PROVE  /\ end.ok \in BOOLEAN /\ end.up \in BOOLEAN
         /\ reply = "none" => ~end.ok
         /\ reply # "none" => end.up
         /\ reply = "none" /\ end \in RedisCommands(reply) => ~end.up
<1>1. ASSUME NEW good, "none" \notin good, end = Answered(reply, good)
      PROVE  /\ end.ok \in BOOLEAN /\ end.up \in BOOLEAN
             /\ reply = "none" => ~end.ok
             /\ reply # "none" <=> end.up
  <2>1. (reply \in good) \in BOOLEAN
    OBVIOUS
  <2>2. end.ok = (reply \in good) /\ end.up = (reply # "none")
    BY <1>1 DEF Answered, End
  <2>3. end.ok \in BOOLEAN /\ end.up \in BOOLEAN
    BY <2>1, <2>2, Zenon
  <2> QED
    BY <1>1, <2>2, <2>3
<1>2. CASE end \in RedisCommands(reply)
  <2>1. \/ end = Answered(reply, {"OK"}) \/ end = Answered(reply, {"string"})
        \/ end = Answered(reply, {"1"}) \/ end = Answered(reply, Numbers)
        \/ end = Answered(reply, Replies \ {"none"})
    <3>1. \/ end = Set(reply) \/ end = Get(reply) \/ end = Del(reply)
          \/ end = Exists(reply) \/ end = Expire(reply) \/ end = HSet(reply)
          \/ end = HGet(reply) \/ end = Command(reply)
      BY <1>2 DEF RedisCommands
    <3> QED
      BY <3>1, Zenon DEF Set, Get, Del, Exists, Expire, HSet, HGet, Command
  <2>2. "none" \notin {"OK"} /\ "none" \notin {"string"} /\ "none" \notin {"1"}
        /\ "none" \notin Numbers /\ "none" \notin Replies \ {"none"}
    BY DEF Numbers
  <2> QED
    BY <1>1, <2>1, <2>2
<1>3. CASE end \in MySQLCommands(reply) /\ end \notin RedisCommands(reply)
  <2>1. \E good \in {"OK", "string"} : end = End(reply = good, TRUE)
    BY <1>3 DEF MySQLCommands, ExecuteInsert, ExecuteUpdate, ExecuteQuery
  <2>2. PICK good \in {"OK", "string"} : end.ok = (reply = good) /\ end.up = TRUE
    BY <2>1 DEF End
  <2> QED
    BY <1>3, <2>2
<1> QED
  BY <1>2, <1>3

\* What a command on the connection of u leaves behind.
Effect(u) ==
  /\ UNCHANGED <<driver, server, made, idle, phase, conn, requests, spurious>>
  /\ link' \in [Conns -> {"none", "good", "late", "dead"}]
  /\ connected' \in [Conns -> BOOLEAN]
  /\ crossed' = FALSE
  /\ \A d \in Conns \ {conn[u]} : link'[d] = link[d] /\ connected'[d] = connected[d]
  /\ link'[conn[u]] = "late" => ~connected'[conn[u]] /\ driver # "mysql"
  /\ \/ outages' = outages /\ link' = link
     \/ outages < MaxOutages /\ outages' = outages + 1

LEMMA PingEffect ==
  ASSUME TypeOK, Settled, NEW u \in Users, conn[u] \in Conns, Ping(u)
  PROVE  /\ Effect(u)
         /\ \/ /\ pc' = [pc EXCEPT ![u] = "using"] /\ mutex = u /\ mutex' = Nobody
               /\ connected'[conn[u]]
            \/ pc' = [pc EXCEPT ![u] = "reconnect"] /\ mutex' = mutex
<1> DEFINE c == conn[u]
<1>1. PICK reply \in Replies :
        LET end == IF ~connected[c] THEN NotConnected
                   ELSE IF driver = "mysql" THEN MySQLPing(reply) ELSE RedisPing(reply)
        IN  /\ IF connected[c] THEN Ask(c, {"PONG", "OK"}, reply)
               ELSE UNCHANGED <<link, outages>>
            /\ Conclude(c, end)
            /\ IF end.ok THEN pc' = [pc EXCEPT ![u] = "using"] /\ Unlock(u)
               ELSE pc' = [pc EXCEPT ![u] = "reconnect"] /\ UNCHANGED mutex
  BY DEF Ping
<1> DEFINE end == IF ~connected[c] THEN NotConnected
                  ELSE IF driver = "mysql" THEN MySQLPing(reply) ELSE RedisPing(reply)
<1>2. /\ end.ok \in BOOLEAN /\ end.up \in BOOLEAN
      /\ end.ok => end.up
      /\ reply = "none" \/ ~connected[c] => ~end.ok /\ ~end.up
  <2>1. CASE ~connected[c]
    <3>1. end = NotConnected
      BY <2>1
    <3>2. NotConnected.ok = FALSE /\ NotConnected.up = FALSE
      BY DEF NotConnected, End
    <3> QED
      BY <3>1, <3>2
  <2>2. CASE connected[c]
    <3>1. end \in {MySQLPing(reply), RedisPing(reply)}
      BY <2>2
    <3> QED
      BY <3>1, <2>2, PingEnds
  <2> QED
    BY <2>1, <2>2
<1>3. /\ connected' = [connected EXCEPT ![c] = end.up]
      /\ crossed' = (crossed \/ (end.ok /\ link[c] = "late"))
      /\ UNCHANGED <<driver, server, made, idle, phase, conn, requests, spurious>>
      /\ IF end.ok THEN pc' = [pc EXCEPT ![u] = "using"] /\ Unlock(u)
         ELSE pc' = [pc EXCEPT ![u] = "reconnect"] /\ UNCHANGED mutex
  BY <1>1 DEF Conclude, Ping, counters
<1>4. IF connected[c] THEN Ask(c, {"PONG", "OK"}, reply) ELSE UNCHANGED <<link, outages>>
  BY <1>1
<1> HIDE DEF end
<1>5. Effect(u)
  BY <1>2, <1>3, <1>4 DEF Effect, Ask, TimesOut, TypeOK, Settled
<1>6. end.ok => connected'[c]
  BY <1>2, <1>3 DEF TypeOK
<1> QED
  BY <1>3, <1>5, <1>6 DEF Unlock

LEMMA UseEffect ==
  ASSUME TypeOK, Settled, NEW u \in Users, conn[u] \in Conns, Use(u)
  PROVE  /\ Effect(u)
         /\ UNCHANGED poolVars
         /\ outages' = outages /\ link[conn[u]] = "good" => connected'[conn[u]]
<1> DEFINE c == conn[u]
<1>1. PICK reply \in Replies :
        /\ Ask(c, Replies \ {"none", "PONG"}, reply)
        /\ \E end \in IF driver = "mysql" THEN MySQLCommands(reply)
                     ELSE RedisCommands(reply) : Conclude(c, end)
  BY DEF Use
<1>2. PICK end \in RedisCommands(reply) \cup MySQLCommands(reply) :
        Conclude(c, end) /\ (driver # "mysql" => end \in RedisCommands(reply))
  BY <1>1
<1>3. /\ end.ok \in BOOLEAN /\ end.up \in BOOLEAN
      /\ reply = "none" => ~end.ok
      /\ reply # "none" => end.up
      /\ reply = "none" /\ driver # "mysql" => ~end.up
  BY <1>2, CommandEnds
<1>4. /\ connected' = [connected EXCEPT ![c] = end.up]
      /\ crossed' = (crossed \/ (end.ok /\ link[c] = "late"))
      /\ UNCHANGED <<driver, server, poolVars>> /\ connected[c]
  BY <1>2 DEF Conclude, Use
<1>5. Ask(c, Replies \ {"none", "PONG"}, reply)
  BY <1>1
<1>6. Effect(u)
  BY <1>3, <1>4, <1>5 DEF Effect, Ask, TimesOut, TypeOK, Settled, poolVars, counters
<1>7. outages' = outages /\ link[c] = "good" => reply # "none"
  BY <1>5 DEF Ask, TimesOut, TypeOK
<1> QED
  BY <1>3, <1>4, <1>6, <1>7 DEF TypeOK

\* What connect() leaves behind when it fails.
LEMMA ConnectFailsEffect ==
  ASSUME TypeOK, NEW c \in Conns, ConnectFails(c)
  PROVE  /\ UNCHANGED <<driver, server, crossed>>
         /\ link' = [link EXCEPT ![c] = "none"]
         /\ connected' = [connected EXCEPT ![c] = FALSE]
         /\ link' \in [Conns -> {"none", "good", "late", "dead"}]
         /\ connected' \in [Conns -> BOOLEAN]
         /\ outages' \in 0..MaxOutages
         /\ outages' = 0 => outages = 0 /\ ~Reachable
BY PoolAssumption DEF ConnectFails, TimesOut, TypeOK

LEMMA EffectKeepsTypes ==
  ASSUME TypeOK, NEW u \in Users, Effect(u)
  PROVE  /\ driver' \in {"redis", "redisWithAuth", "mysql"} /\ server' \in {"up", "refusing", "down"}
         /\ link' \in [Conns -> {"none", "good", "late", "dead"}]
         /\ connected' \in [Conns -> BOOLEAN] /\ crossed' \in BOOLEAN
         /\ outages' \in 0..MaxOutages
<1>1. outages' \in 0..MaxOutages
  BY PoolAssumption DEF Effect, TypeOK
<1>2. UNCHANGED <<driver, server>> /\ crossed' = FALSE
      /\ link' \in [Conns -> {"none", "good", "late", "dead"}]
      /\ connected' \in [Conns -> BOOLEAN]
  BY DEF Effect
<1> QED
  BY <1>1, <1>2 DEF TypeOK

LEMMA TypeStep ==
  ASSUME TypeOK, Roles, Settled, [Next]_vars
  PROVE  TypeOK'
<1>1. CASE GoDown \/ Refuse \/ GoUp
  BY <1>1, PoolAssumption DEF GoDown, Refuse, GoUp, TypeOK, poolVars, counters
<1>2. ASSUME NEW c \in Conns, InitConnect(c)
      PROVE  TypeOK'
  <2>1. Cardinality(made') <= MaxConns
    BY <1>2, OneMore, PoolAssumption, NamesAssumption DEF InitConnect, TypeOK
  <2> QED
    BY <2>1, <1>2 DEF InitConnect, Connect, TypeOK, counters
<1>3. CASE InitFails
  BY <1>3, PoolAssumption DEF InitFails, ConnectFails, TimesOut, TypeOK, counters
<1>4. CASE InitDone
  BY <1>4 DEF InitDone, TypeOK, serverVars, counters
<1>5. CASE Destroy
  <2>1. Cardinality(made') <= MaxConns
    BY <1>5, FS_EmptySet, PoolAssumption DEF Destroy
  <2> QED
    BY <2>1, <1>5 DEF Destroy, serverVars, TypeOK, counters
<1>6. ASSUME NEW u \in Users, Enter(u)
      PROVE  TypeOK'
  BY <1>6, PoolAssumption DEF Enter, TypeOK, UserStates, serverVars
<1>7. ASSUME NEW u \in Users, TakeIdle(u)
      PROVE  TypeOK'
  BY <1>7 DEF TakeIdle, TypeOK, UserStates, serverVars, counters
<1>8. ASSUME NEW u \in Users, Ping(u)
      PROVE  TypeOK'
  <2>1. conn[u] \in Conns
    BY <1>8 DEF Ping, Roles, TypeOK
  <2> QED
    <3>1. pc' \in [Users -> UserStates] /\ mutex' \in Users \cup {Nobody}
      BY <2>1, <1>8, PingEffect DEF TypeOK, UserStates
    <3>2. Effect(u)
      BY <2>1, <1>8, PingEffect
    <3>3. UNCHANGED <<made, idle, phase, conn, requests, spurious>>
      BY <3>2 DEF Effect
    <3> QED
      BY <3>1, <3>2, <3>3, EffectKeepsTypes DEF TypeOK
<1>9. ASSUME NEW u \in Users, ReconnectSucceeds(u)
      PROVE  TypeOK'
  BY <1>9 DEF ReconnectSucceeds, Connect, Unlock, TypeOK, UserStates, counters
<1>10. ASSUME NEW u \in Users, ReconnectFails(u)
      PROVE  TypeOK'
  <2>1. conn[u] \in Conns /\ ConnectFails(conn[u])
    BY <1>10 DEF ReconnectFails, Roles, TypeOK
  <2> QED
    BY <2>1, <1>10, ConnectFailsEffect DEF ReconnectFails, TypeOK, UserStates, counters
<1>11. ASSUME NEW u \in Users, Grow(u)
      PROVE  TypeOK'
  <2>1. Cardinality(made') <= MaxConns
    BY <1>11, OneMore, PoolAssumption, NamesAssumption DEF Grow, TypeOK
  <2> QED
    BY <2>1, <1>11 DEF Grow, Connect, Unlock, TypeOK, UserStates, counters
<1>12. ASSUME NEW u \in Users, Sleep(u)
      PROVE  TypeOK'
  <2>1. CASE UNCHANGED <<serverVars, connected, crossed>>
    BY <2>1, <1>12 DEF Sleep, Unlock, TypeOK, UserStates, counters, serverVars
  <2>2. ASSUME NEW c \in Conns, ConnectFails(c)
        PROVE  TypeOK'
    BY <2>2, <1>12, ConnectFailsEffect DEF Sleep, Unlock, TypeOK, UserStates, counters
  <2> QED
    BY <2>1, <2>2, <1>12 DEF Sleep
<1>13. ASSUME NEW u \in Users, Relock(u)
      PROVE  TypeOK'
  BY <1>13 DEF Relock, TypeOK, UserStates, serverVars, counters
<1>14. ASSUME NEW u \in Users, Release(u)
      PROVE  TypeOK'
  <2>1. conn[u] \in Conns
    BY <1>14 DEF Release, Roles, TypeOK
  <2>2. idle' \in Seq(Conns)
    BY <2>1, <1>14 DEF Release, TypeOK
  <2>3. pc' \in [Users -> UserStates]
    BY <1>14 DEF Release, TypeOK, UserStates, Sleepers
  <2> QED
    BY <2>2, <2>3, <1>14 DEF Release, TypeOK, serverVars, counters
<1>15. ASSUME NEW u \in Users, Use(u)
      PROVE  TypeOK'
  <2>1. conn[u] \in Conns
    BY <1>15 DEF Use, Roles, TypeOK
  <2> QED
    <3>1. Effect(u) /\ UNCHANGED <<made, idle, phase, mutex, pc, conn, requests, spurious>>
      BY <2>1, <1>15, UseEffect DEF poolVars, counters
    <3> QED
      BY <3>1, EffectKeepsTypes DEF TypeOK
<1>16. ASSUME NEW u \in Users, SpuriousWake(u)
      PROVE  TypeOK'
  BY <1>16, PoolAssumption DEF SpuriousWake, TypeOK, UserStates, serverVars
<1>17. CASE UNCHANGED vars
  BY <1>17 DEF vars, poolVars, serverVars, counters, TypeOK
<1> QED
  BY <1>1, <1>2, <1>3, <1>4, <1>5, <1>6, <1>7, <1>8, <1>9, <1>10, <1>11, <1>12, <1>13, <1>14, <1>15, <1>16, <1>17 DEF Next, Proceed, Quiet

\* What is taken from the queue leaves it, and what is put into it was not there.
LEMMA Taken ==
  ASSUME TypeOK, Apart, idle # <<>>, idle' = Tail(idle)
  PROVE  /\ Head(idle) \in InIdle /\ Head(idle) \in Conns
         /\ InIdle' = InIdle \ {Head(idle)}
         /\ \A i, j \in 1..Len(idle') : idle'[i] = idle'[j] => i = j
<1>1. /\ idle \in Seq(Conns) /\ Len(idle) \in Nat /\ Len(idle) > 0
      /\ Head(idle) = idle[1] /\ Len(idle') = Len(idle) - 1
      /\ \A i \in 1..Len(idle') : idle'[i] = idle[i + 1]
  BY DEF TypeOK
<1>2. \A i, j \in 1..Len(idle) : idle[i] = idle[j] => i = j
  BY DEF Apart
<1>3. InIdle' \subseteq InIdle \ {Head(idle)}
  BY <1>1, <1>2 DEF InIdle
<1>4. InIdle \ {Head(idle)} \subseteq InIdle'
  <2>1. SUFFICES ASSUME NEW i \in 2..Len(idle)
                 PROVE  idle[i] \in InIdle'
    BY <1>1 DEF InIdle
  <2>2. i - 1 \in 1..Len(idle') /\ idle'[i - 1] = idle[i]
    BY <1>1
  <2> QED
    BY <2>2 DEF InIdle
<1>5. Head(idle) \in InIdle /\ Head(idle) \in Conns
  BY <1>1 DEF InIdle
<1>6. \A i, j \in 1..Len(idle') : idle'[i] = idle'[j] => i = j
  BY <1>1, <1>2
<1> QED
  BY <1>3, <1>4, <1>5, <1>6

LEMMA Put ==
  ASSUME TypeOK, Apart, NEW c \in Conns, c \notin InIdle, idle' = Append(idle, c)
  PROVE  /\ InIdle' = InIdle \cup {c} /\ Len(idle') = Len(idle) + 1
         /\ \A i, j \in 1..Len(idle') : idle'[i] = idle'[j] => i = j
<1>1. /\ idle \in Seq(Conns) /\ Len(idle) \in Nat
      /\ Len(idle') = Len(idle) + 1 /\ idle'[Len(idle) + 1] = c
      /\ \A i \in 1..Len(idle) : idle'[i] = idle[i]
  BY DEF TypeOK
<1>2. \A i, j \in 1..Len(idle) : idle[i] = idle[j] => i = j
  BY DEF Apart
<1>3. InIdle' \subseteq InIdle \cup {c}
  BY <1>1 DEF InIdle
<1>4. InIdle \subseteq InIdle' /\ c \in InIdle'
  BY <1>1 DEF InIdle
<1>5. \A i \in 1..Len(idle) : idle[i] # c
  BY DEF InIdle
<1> QED
  BY <1>1, <1>2, <1>3, <1>4, <1>5

LEMMA Emptied ==
  ASSUME idle' = <<>>
  PROVE  InIdle' = {} /\ \A i, j \in 1..Len(idle') : idle'[i] = idle'[j] => i = j
BY DEF InIdle

LEMMA RolesStep ==
  ASSUME TypeOK, Roles, Apart, Settled, TypeOK', [Next]_vars
  PROVE  Roles'
<1>1. CASE GoDown \/ Refuse \/ GoUp
  BY <1>1 DEF GoDown, Refuse, GoUp, poolVars, Roles
<1>2. ASSUME NEW c \in Conns, InitConnect(c)
      PROVE  Roles'
  BY <1>2 DEF InitConnect, Roles
<1>3. CASE InitFails
  BY <1>3 DEF InitFails, Roles
<1>4. CASE InitDone
  BY <1>4 DEF InitDone, Roles
<1>5. CASE Destroy
  BY <1>5 DEF Destroy, Roles
<1>6. ASSUME NEW u \in Users, Enter(u)
      PROVE  Roles'
  BY <1>6, NamesAssumption DEF Enter, Roles, TypeOK, Inside
<1>7. ASSUME NEW u \in Users, TakeIdle(u)
      PROVE  Roles'
  <2>1. Head(idle) \in made /\ Head(idle) # NoConn
    BY <1>7, Taken, NamesAssumption DEF TakeIdle, Apart
  <2> QED
    BY <2>1, <1>7, NamesAssumption DEF TakeIdle, Roles, TypeOK, Inside
<1>8. ASSUME NEW u \in Users, Ping(u)
      PROVE  Roles'
  <2>1. conn[u] \in Conns /\ pc[u] = "ping"
    BY <1>8 DEF Ping, Roles, TypeOK
  <2>2. UNCHANGED <<made, phase, conn>>
    BY <1>8 DEF Ping
  <2>3. \/ pc' = [pc EXCEPT ![u] = "using"] /\ mutex = u /\ mutex' = Nobody
        \/ pc' = [pc EXCEPT ![u] = "reconnect"] /\ mutex' = mutex
    BY <2>1, <1>8, PingEffect
  <2> QED
    BY <2>1, <2>2, <2>3, NamesAssumption DEF Roles, TypeOK, Inside
<1>9. ASSUME NEW u \in Users, ReconnectSucceeds(u)
      PROVE  Roles'
  BY <1>9, NamesAssumption DEF ReconnectSucceeds, Unlock, Roles, TypeOK, Inside
<1>10. ASSUME NEW u \in Users, ReconnectFails(u)
      PROVE  Roles'
  BY <1>10, NamesAssumption DEF ReconnectFails, Roles, TypeOK, Inside
<1>11. ASSUME NEW u \in Users, Grow(u)
      PROVE  Roles'
  BY <1>11, NamesAssumption DEF Grow, Unlock, Roles, TypeOK, Inside
<1>12. ASSUME NEW u \in Users, Sleep(u)
      PROVE  Roles'
  BY <1>12, NamesAssumption DEF Sleep, Unlock, Roles, TypeOK, Inside
<1>13. ASSUME NEW u \in Users, Relock(u)
      PROVE  Roles'
  BY <1>13, NamesAssumption DEF Relock, Roles, TypeOK, Inside
<1>14. ASSUME NEW u \in Users, Release(u)
      PROVE  Roles'
  BY <1>14, NamesAssumption DEF Release, Sleepers, Roles, TypeOK, Inside
<1>15. ASSUME NEW u \in Users, Use(u)
      PROVE  Roles'
  BY <1>15 DEF Use, poolVars, Roles
<1>16. ASSUME NEW u \in Users, SpuriousWake(u)
      PROVE  Roles'
  BY <1>16, NamesAssumption DEF SpuriousWake, Roles, TypeOK, Inside
<1>17. CASE UNCHANGED vars
  BY <1>17 DEF vars, poolVars, Roles
<1> QED
  BY <1>1, <1>2, <1>3, <1>4, <1>5, <1>6, <1>7, <1>8, <1>9, <1>10, <1>11, <1>12, <1>13, <1>14, <1>15, <1>16, <1>17 DEF Next, Proceed, Quiet

LEMMA ApartStep ==
  ASSUME TypeOK, Roles, Apart, Settled, TypeOK', [Next]_vars
  PROVE  Apart'
<1>1. CASE GoDown \/ Refuse \/ GoUp
  BY <1>1 DEF GoDown, Refuse, GoUp, poolVars, Apart, InIdle
<1>2. ASSUME NEW c \in Conns, InitConnect(c)
      PROVE  Apart'
  <2>1. c \notin InIdle /\ idle' = Append(idle, c)
    BY <1>2 DEF InitConnect, Apart
  <2>2. /\ InIdle' = InIdle \cup {c}
        /\ \A i, j \in 1..Len(idle') : idle'[i] = idle'[j] => i = j
    BY <2>1, Put
  <2>3. \A u \in Users : conn'[u] = NoConn
    BY <1>2 DEF InitConnect, Roles
  <2>4. made' = made \cup {c}
    BY <1>2 DEF InitConnect
  <2> QED
    BY <2>2, <2>3, <2>4, NamesAssumption DEF Apart, TypeOK
<1>3. CASE InitFails
  BY <1>3 DEF InitFails, Apart, InIdle
<1>4. CASE InitDone
  BY <1>4 DEF InitDone, Apart, InIdle
<1>5. CASE Destroy
  <2>1. \A u \in Users : conn'[u] = NoConn
    BY <1>5 DEF Destroy, Roles
  <2> QED
    BY <1>5, <2>1, Emptied DEF Destroy, Apart
<1>6. ASSUME NEW u \in Users, Enter(u)
      PROVE  Apart'
  BY <1>6 DEF Enter, Apart, InIdle
<1>7. ASSUME NEW u \in Users, TakeIdle(u)
      PROVE  Apart'
  <2>1. /\ Head(idle) \in InIdle /\ InIdle' = InIdle \ {Head(idle)}
        /\ \A i, j \in 1..Len(idle') : idle'[i] = idle'[j] => i = j
    BY <1>7, Taken DEF TakeIdle
  <2>2. conn' = [conn EXCEPT ![u] = Head(idle)] /\ made' = made
    BY <1>7 DEF TakeIdle
  <2> QED
    BY <2>1, <2>2 DEF Apart, TypeOK
<1>8. ASSUME NEW u \in Users, Ping(u)
      PROVE  Apart'
  BY <1>8 DEF Ping, Apart, InIdle
<1>9. ASSUME NEW u \in Users, ReconnectSucceeds(u)
      PROVE  Apart'
  BY <1>9 DEF ReconnectSucceeds, Apart, InIdle
<1>10. ASSUME NEW u \in Users, ReconnectFails(u)
      PROVE  Apart'
  <2>1. InIdle' = InIdle /\ made' = made /\ idle' = idle /\ conn' = [conn EXCEPT ![u] = NoConn]
    BY <1>10 DEF ReconnectFails, InIdle
  <2>2. NoConn \notin InIdle
    BY NamesAssumption DEF Apart, TypeOK
  <2> QED
    BY <2>1, <2>2 DEF Apart, TypeOK
<1>11. ASSUME NEW u \in Users, Grow(u)
      PROVE  Apart'
  <2>1. PICK c \in Conns \ made : made' = made \cup {c} /\ conn' = [conn EXCEPT ![u] = c]
    BY <1>11 DEF Grow
  <2>2. InIdle' = InIdle /\ idle' = idle
    BY <1>11 DEF Grow, InIdle
  <2>3. \A v \in Users : conn[v] # c
    BY NamesAssumption DEF Roles
  <2> QED
    BY <2>1, <2>2, <2>3, NamesAssumption DEF Apart, TypeOK
<1>12. ASSUME NEW u \in Users, Sleep(u)
      PROVE  Apart'
  BY <1>12 DEF Sleep, Apart, InIdle
<1>13. ASSUME NEW u \in Users, Relock(u)
      PROVE  Apart'
  BY <1>13 DEF Relock, Apart, InIdle
<1>14. ASSUME NEW u \in Users, Release(u)
      PROVE  Apart'
  <2>1. conn[u] \in made /\ conn[u] \notin InIdle /\ conn[u] \in Conns
    BY <1>14 DEF Release, Roles, Apart, TypeOK
  <2>2. conn' = [conn EXCEPT ![u] = NoConn] /\ made' = made
    BY <1>14 DEF Release
  <2>3. NoConn \notin InIdle /\ NoConn # conn[u]
    BY <2>1, NamesAssumption DEF Apart, TypeOK
  <2>4. CASE idle' = idle
    <3>1. InIdle' = InIdle
      BY <2>4 DEF InIdle
    <3> QED
      BY <3>1, <2>2, <2>3, <2>4 DEF Apart, TypeOK
  <2>5. CASE idle' = Append(idle, conn[u])
    <3>1. /\ InIdle' = InIdle \cup {conn[u]}
          /\ \A i, j \in 1..Len(idle') : idle'[i] = idle'[j] => i = j
      BY <2>1, <2>5, Put
    <3> QED
      BY <3>1, <2>1, <2>2, <2>3, NamesAssumption DEF Apart, TypeOK
  <2> QED
    BY <2>4, <2>5, <1>14 DEF Release
<1>15. ASSUME NEW u \in Users, Use(u)
      PROVE  Apart'
  BY <1>15 DEF Use, poolVars, Apart, InIdle
<1>16. ASSUME NEW u \in Users, SpuriousWake(u)
      PROVE  Apart'
  BY <1>16 DEF SpuriousWake, Apart, InIdle
<1>17. CASE UNCHANGED vars
  BY <1>17 DEF vars, poolVars, Apart, InIdle
<1> QED
  BY <1>1, <1>2, <1>3, <1>4, <1>5, <1>6, <1>7, <1>8, <1>9, <1>10, <1>11, <1>12, <1>13, <1>14, <1>15, <1>16, <1>17 DEF Next, Proceed, Quiet

LEMMA SettledStep ==
  ASSUME TypeOK, Roles, Settled, [Next]_vars
  PROVE  Settled'
<1>1. CASE GoDown \/ Refuse \/ GoUp
  BY <1>1 DEF GoDown, Refuse, GoUp, poolVars, TypeOK, Settled
<1>2. ASSUME NEW c \in Conns, InitConnect(c)
      PROVE  Settled'
  BY <1>2 DEF InitConnect, Connect, Settled, TypeOK
<1>3. CASE InitFails
  BY <1>3, ConnectFailsEffect DEF InitFails, Settled, TypeOK
<1>4. CASE InitDone
  BY <1>4 DEF InitDone, serverVars, Settled
<1>5. CASE Destroy
  BY <1>5 DEF Destroy, serverVars, Settled
<1>6. ASSUME NEW u \in Users, Enter(u)
      PROVE  Settled'
  BY <1>6 DEF Enter, serverVars, Settled
<1>7. ASSUME NEW u \in Users, TakeIdle(u)
      PROVE  Settled'
  BY <1>7 DEF TakeIdle, serverVars, Settled
<1>8. ASSUME NEW u \in Users, Ping(u)
      PROVE  Settled'
  <2>1. conn[u] \in Conns
    BY <1>8 DEF Ping, Roles, TypeOK
  <2>2. Effect(u)
    BY <2>1, <1>8, PingEffect
  <2> QED
    BY <2>1, <2>2 DEF Effect, Settled
<1>9. ASSUME NEW u \in Users, ReconnectSucceeds(u)
      PROVE  Settled'
  BY <1>9 DEF ReconnectSucceeds, Connect, Settled, TypeOK
<1>10. ASSUME NEW u \in Users, ReconnectFails(u)
      PROVE  Settled'
  <2>1. conn[u] \in Conns /\ ConnectFails(conn[u])
    BY <1>10 DEF ReconnectFails, Roles, TypeOK
  <2> QED
    BY <2>1, ConnectFailsEffect DEF Settled, TypeOK
<1>11. ASSUME NEW u \in Users, Grow(u)
      PROVE  Settled'
  BY <1>11 DEF Grow, Connect, Settled, TypeOK
<1>12. ASSUME NEW u \in Users, Sleep(u)
      PROVE  Settled'
  <2>1. ASSUME NEW c \in Conns, ConnectFails(c)
        PROVE  Settled'
    BY <2>1, ConnectFailsEffect DEF Settled, TypeOK
  <2> QED
    BY <2>1, <1>12 DEF Sleep, serverVars, Settled
<1>13. ASSUME NEW u \in Users, Relock(u)
      PROVE  Settled'
  BY <1>13 DEF Relock, serverVars, Settled
<1>14. ASSUME NEW u \in Users, Release(u)
      PROVE  Settled'
  BY <1>14 DEF Release, serverVars, Settled
<1>15. ASSUME NEW u \in Users, Use(u)
      PROVE  Settled'
  <2>1. conn[u] \in Conns
    BY <1>15 DEF Use, Roles, TypeOK
  <2>2. Effect(u)
    BY <2>1, <1>15, UseEffect
  <2> QED
    BY <2>1, <2>2 DEF Effect, Settled
<1>16. ASSUME NEW u \in Users, SpuriousWake(u)
      PROVE  Settled'
  BY <1>16 DEF SpuriousWake, serverVars, Settled
<1>17. CASE UNCHANGED vars
  BY <1>17 DEF vars, serverVars, Settled
<1> QED
  BY <1>1, <1>2, <1>3, <1>4, <1>5, <1>6, <1>7, <1>8, <1>9, <1>10, <1>11, <1>12, <1>13, <1>14, <1>15, <1>16, <1>17 DEF Next, Proceed, Quiet

Seekers == {u \in Users : pc[u] \in {"woken", "look"}}

\* The three ways in which a step may change both sides of NoLostWakeup.
LEMMA Balance ==
  ASSUME TypeOK, TypeOK', NoLostWakeup, NEW u \in Users,
         Sleepers' # {} => Sleepers # {} \/ idle' = <<>>,
         \/ idle' = <<>>
         \/ Seekers' = Seekers /\ Len(idle') = Len(idle)
         \/ /\ u \notin Seekers /\ Seekers' = Seekers \cup {u}
            /\ Len(idle') \in {Len(idle), Len(idle) + 1}
         \/ /\ u \in Seekers /\ Seekers' = Seekers \ {u}
            /\ Len(idle') = Len(idle) - 1
  PROVE  NoLostWakeup'
<1>1. /\ Seekers \in SUBSET Users /\ Seekers' \in SUBSET Users /\ IsFiniteSet(Users)
      /\ Len(idle) \in Nat /\ Len(idle') \in Nat
  BY NamesAssumption DEF Seekers, TypeOK
<1>2. Cardinality(Seekers) \in Nat /\ Cardinality(Seekers') \in Nat
  BY <1>1, FS_Subset, FS_CardinalityType
<1>3. Sleepers # {} => Len(idle) <= Cardinality(Seekers)
  BY DEF NoLostWakeup, Seekers
<1>4. Sleepers' # {} => Len(idle') <= Cardinality(Seekers')
  <2>1. CASE idle' = <<>>
    BY <2>1, <1>2
  <2>2. CASE idle' # <<>> /\ Seekers' = Seekers /\ Len(idle') = Len(idle)
    BY <2>2, <1>3
  <2>3. CASE /\ idle' # <<>> /\ u \notin Seekers /\ Seekers' = Seekers \cup {u}
             /\ Len(idle') \in {Len(idle), Len(idle) + 1}
    <3>1. Cardinality(Seekers') = Cardinality(Seekers) + 1
      BY <2>3, <1>1, OneMore
    <3> QED
      BY <2>3, <3>1, <1>1, <1>2, <1>3
  <2>4. CASE /\ idle' # <<>> /\ u \in Seekers /\ Seekers' = Seekers \ {u}
             /\ Len(idle') = Len(idle) - 1
    <3>1. Cardinality(Seekers') = Cardinality(Seekers) - 1
      BY <2>4, <1>1, OneLess
    <3> QED
      BY <2>4, <3>1, <1>1, <1>2, <1>3
  <2> QED
    BY <2>1, <2>2, <2>3, <2>4
<1> QED
  BY <1>4 DEF NoLostWakeup, Seekers

LEMMA WakeupStep ==
  ASSUME TypeOK, Roles, Apart, Settled, NoLostWakeup, TypeOK', [Next]_vars
  PROVE  NoLostWakeup'
<1>1. CASE GoDown \/ Refuse \/ GoUp \/ InitFails \/ InitDone
  BY <1>1 DEF GoDown, Refuse, GoUp, InitFails, InitDone, poolVars, NoLostWakeup, Sleepers
<1>2. ASSUME NEW c \in Conns, InitConnect(c)
      PROVE  NoLostWakeup'
  <2>1. Sleepers' = {}
    BY <1>2 DEF InitConnect, Roles, Sleepers
  <2> QED
    BY <2>1 DEF NoLostWakeup
<1>3. CASE Destroy
  <2>1. Sleepers' = {}
    BY <1>3 DEF Destroy, Sleepers
  <2> QED
    BY <2>1 DEF NoLostWakeup
<1>4. ASSUME NEW u \in Users, Enter(u)
      PROVE  NoLostWakeup'
  <2>1. u \notin Seekers /\ Seekers' = Seekers \cup {u} /\ Sleepers' \subseteq Sleepers
        /\ idle' = idle
    BY <1>4 DEF Enter, Sleepers, Seekers, TypeOK
  <2> QED
    BY <2>1, Balance
<1>5. ASSUME NEW u \in Users, TakeIdle(u)
      PROVE  NoLostWakeup'
  <2>1. u \in Seekers /\ Seekers' = Seekers \ {u} /\ Sleepers' = Sleepers
    BY <1>5 DEF TakeIdle, Sleepers, Seekers, TypeOK
  <2>2. Len(idle') = Len(idle) - 1
    BY <1>5 DEF TakeIdle, TypeOK
  <2> QED
    BY <2>1, <2>2, Balance
<1>6. ASSUME NEW u \in Users, Ping(u)
      PROVE  NoLostWakeup'
  <2>1. conn[u] \in Conns /\ pc[u] = "ping" /\ idle' = idle
    BY <1>6 DEF Ping, Roles, TypeOK
  <2>2. pc' = [pc EXCEPT ![u] = "using"] \/ pc' = [pc EXCEPT ![u] = "reconnect"]
    BY <2>1, <1>6, PingEffect
  <2>3. Sleepers' = Sleepers /\ Seekers' = Seekers
    BY <2>1, <2>2 DEF Sleepers, Seekers, TypeOK
  <2> QED
    BY <2>1, <2>3, Balance
<1>7. ASSUME NEW u \in Users, ReconnectSucceeds(u)
      PROVE  NoLostWakeup'
  <2>1. Sleepers' = Sleepers /\ Seekers' = Seekers /\ idle' = idle
    BY <1>7 DEF ReconnectSucceeds, Sleepers, Seekers, TypeOK
  <2> QED
    BY <2>1, Balance
<1>8. ASSUME NEW u \in Users, ReconnectFails(u)
      PROVE  NoLostWakeup'
  <2>1. u \notin Seekers /\ Seekers' = Seekers \cup {u} /\ Sleepers' \subseteq Sleepers
        /\ idle' = idle
    BY <1>8 DEF ReconnectFails, Sleepers, Seekers, TypeOK
  <2> QED
    BY <2>1, Balance
<1>9. ASSUME NEW u \in Users, Grow(u)
      PROVE  NoLostWakeup'
  <2>1. idle' = <<>>
    BY <1>9 DEF Grow
  <2> QED
    BY <2>1, Balance
<1>10. ASSUME NEW u \in Users, Sleep(u)
      PROVE  NoLostWakeup'
  <2>1. idle' = <<>>
    BY <1>10 DEF Sleep
  <2> QED
    BY <2>1, Balance
<1>11. ASSUME NEW u \in Users, Relock(u)
      PROVE  NoLostWakeup'
  <2>1. Sleepers' = Sleepers /\ Seekers' = Seekers /\ idle' = idle
    BY <1>11 DEF Relock, Sleepers, Seekers, TypeOK
  <2> QED
    BY <2>1, Balance
<1>12. ASSUME NEW u \in Users, Release(u)
      PROVE  NoLostWakeup'
  <2>1. pc[u] = "using" /\ Len(idle') \in {Len(idle), Len(idle) + 1}
    BY <1>12 DEF Release, TypeOK
  <2>2. CASE pc' = [pc EXCEPT ![u] = "away"]
    <3>1. Sleepers' = Sleepers /\ Seekers' = Seekers
      BY <2>1, <2>2 DEF Sleepers, Seekers, TypeOK
    <3>2. idle' = idle \/ Sleepers = {}
      BY <2>2, <1>12 DEF Release, Sleepers, TypeOK
    <3>3. CASE idle' = idle
      BY <3>1, <3>3, Balance
    <3>4. CASE Sleepers = {}
      BY <3>1, <3>4 DEF NoLostWakeup
    <3> QED
      BY <3>2, <3>3, <3>4
  <2>3. ASSUME NEW v \in Sleepers, pc' = [pc EXCEPT ![u] = "away", ![v] = "woken"]
        PROVE  NoLostWakeup'
    <3>1. /\ v \in Users /\ v \notin Seekers /\ Seekers' = Seekers \cup {v}
          /\ Sleepers' \subseteq Sleepers
      BY <2>1, <2>3 DEF Sleepers, Seekers, TypeOK
    <3> QED
      BY <3>1, <2>1, Balance
  <2> QED
    BY <2>2, <2>3, <1>12 DEF Release
<1>13. ASSUME NEW u \in Users, Use(u)
      PROVE  NoLostWakeup'
  <2>1. Sleepers' = Sleepers /\ Seekers' = Seekers /\ idle' = idle
    BY <1>13 DEF Use, poolVars, Sleepers, Seekers, TypeOK
  <2> QED
    BY <2>1, Balance
<1>14. ASSUME NEW u \in Users, SpuriousWake(u)
      PROVE  NoLostWakeup'
  <2>1. u \notin Seekers /\ Seekers' = Seekers \cup {u} /\ Sleepers' \subseteq Sleepers
        /\ idle' = idle
    BY <1>14 DEF SpuriousWake, Sleepers, Seekers, TypeOK
  <2> QED
    BY <2>1, Balance
<1>15. CASE UNCHANGED vars
  BY <1>15 DEF vars, poolVars, NoLostWakeup, Sleepers
<1> QED
  BY <1>1, <1>2, <1>3, <1>4, <1>5, <1>6, <1>7, <1>8, <1>9, <1>10, <1>11, <1>12, <1>13, <1>14, <1>15 DEF Next, Proceed, Quiet

\* As long as there is no outage, a server that can be reached stays so.
LEMMA StaysReachable ==
  ASSUME Reachable, UNCHANGED driver, server' = server \/ server' = "up"
  PROVE  Reachable'
BY DEF Reachable, MySQLConnect, RedisConnect, AuthIfNeeded, SelectDBIfNeeded

\* Steps that change neither the server nor a connection, and that leave alone
\* whoever is connecting again.
LEMMA StillCalm ==
  ASSUME Calm, UNCHANGED <<serverVars, connected, made>>,
         \A v \in Users : pc[v] = "reconnect" => pc'[v] = "reconnect" /\ conn'[v] = conn[v]
  PROVE  Calm'
<1>1. UNCHANGED <<driver, server, link, outages, connected, made>>
  BY DEF serverVars
<1>2. Reachable => Reachable'
  BY <1>1, StaysReachable
<1> QED
  BY <1>1, <1>2 DEF Calm

\* A connection that is not in the pool yet cannot be opened.
LEMMA FailureElsewhere ==
  ASSUME TypeOK, Calm, NEW c \in Conns \ made, ConnectFails(c), UNCHANGED <<made, conn>>,
         \A v \in Users : pc[v] = "reconnect" => pc'[v] = "reconnect"
  PROVE  Calm'
<1>1. /\ UNCHANGED <<driver, server>>
      /\ link' = [link EXCEPT ![c] = "none"]
      /\ connected' = [connected EXCEPT ![c] = FALSE]
      /\ outages' = 0 => outages = 0
  BY ConnectFailsEffect
<1>2. Reachable => Reachable'
  BY <1>1, StaysReachable
<1> QED
  BY <1>1, <1>2 DEF Calm, TypeOK

LEMMA CalmStep ==
  ASSUME TypeOK, Roles, Apart, Settled, Calm, TypeOK', [Next]_vars
  PROVE  Calm'
<1>1. CASE GoDown
  BY <1>1 DEF GoDown, Calm, TypeOK
<1>2. CASE Refuse
  BY <1>2 DEF Refuse, Calm, TypeOK
<1>3. CASE GoUp
  <2>1. UNCHANGED <<driver, link, outages, connected, made, conn, pc>> /\ server' = "up"
    BY <1>3 DEF GoUp, poolVars
  <2> QED
    BY <2>1, StaysReachable DEF Calm
<1>4. ASSUME NEW c \in Conns, InitConnect(c)
      PROVE  Calm'
  <2>1. /\ UNCHANGED <<driver, server, outages, conn, pc>> /\ made' = made \cup {c}
        /\ link' = [link EXCEPT ![c] = "good"]
        /\ connected' = [connected EXCEPT ![c] = TRUE] /\ Reachable
    BY <1>4 DEF InitConnect, Connect
  <2>2. Reachable'
    BY <2>1, StaysReachable
  <2> QED
    BY <2>1, <2>2 DEF Calm, TypeOK
<1>5. CASE InitFails
  <2>1. PICK c \in Conns \ made : ConnectFails(c)
    BY <1>5 DEF InitFails
  <2>2. UNCHANGED <<made, conn, pc>>
    BY <1>5 DEF InitFails
  <2> QED
    BY <2>1, <2>2, FailureElsewhere
<1>6. CASE InitDone
  BY <1>6 DEF InitDone, serverVars, Calm, Reachable
<1>7. CASE Destroy
  BY <1>7 DEF Destroy, serverVars, Calm
<1>8. ASSUME NEW u \in Users, Enter(u)
      PROVE  Calm'
  <2>1. UNCHANGED <<serverVars, connected, made, conn>> /\ pc[u] = "away"
        /\ pc' = [pc EXCEPT ![u] = "look"]
    BY <1>8 DEF Enter
  <2> QED
    BY <2>1, StillCalm DEF TypeOK
<1>9. ASSUME NEW u \in Users, TakeIdle(u)
      PROVE  Calm'
  <2>1. UNCHANGED <<serverVars, connected, made>> /\ pc[u] = "look"
        /\ pc' = [pc EXCEPT ![u] = "ping"]
        /\ \A v \in Users \ {u} : conn'[v] = conn[v]
    BY <1>9 DEF TakeIdle, TypeOK
  <2> QED
    BY <2>1, StillCalm DEF TypeOK
<1>10. ASSUME NEW u \in Users, Ping(u)
      PROVE  Calm'
  <2>1. conn[u] \in Conns /\ pc[u] = "ping" /\ UNCHANGED <<made, conn>>
    BY <1>10 DEF Ping, Roles, TypeOK
  <2>2. Effect(u)
    BY <2>1, <1>10, PingEffect
  <2>3. \/ pc' = [pc EXCEPT ![u] = "using"] /\ connected'[conn[u]]
        \/ pc' = [pc EXCEPT ![u] = "reconnect"]
    BY <2>1, <1>10, PingEffect
  <2>4. outages' = 0 => outages = 0 /\ link' = link
    BY <2>2 DEF Effect, TypeOK
  <2>5. SUFFICES ASSUME outages' = 0, NEW d \in made
                 PROVE  connected'[d] \/ \E v \in Users : conn[v] = d /\ pc'[v] = "reconnect"
    BY <2>1, <2>2, <2>4, StaysReachable DEF Effect, Calm
  <2>6. CASE d = conn[u]
    BY <2>3, <2>6 DEF TypeOK
  <2>7. CASE d # conn[u]
    <3>1. connected'[d] = connected[d]
      BY <2>2, <2>7 DEF Effect, TypeOK
    <3>2. \A v \in Users : conn[v] = d => pc'[v] = pc[v]
      BY <2>3, <2>7 DEF TypeOK
    <3> QED
      BY <3>1, <3>2, <2>4, <2>5 DEF Calm
  <2> QED
    BY <2>6, <2>7
<1>11. ASSUME NEW u \in Users, ReconnectSucceeds(u)
      PROVE  Calm'
  <2>1. /\ UNCHANGED <<driver, server, outages, conn, made>> /\ conn[u] \in Conns
        /\ link' = [link EXCEPT ![conn[u]] = "good"]
        /\ connected' = [connected EXCEPT ![conn[u]] = TRUE] /\ Reachable
        /\ pc' = [pc EXCEPT ![u] = "using"]
    BY <1>11 DEF ReconnectSucceeds, Connect, Roles, TypeOK
  <2>2. Reachable'
    BY <2>1, StaysReachable
  <2>3. \A d \in made : d # conn[u] => \A v \in Users : conn[v] = d => pc'[v] = pc[v]
    BY <2>1 DEF TypeOK
  <2> QED
    BY <2>1, <2>2, <2>3 DEF Calm, TypeOK
<1>12. ASSUME NEW u \in Users, ReconnectFails(u)
      PROVE  Calm'
  <2>1. conn[u] \in Conns /\ conn[u] \in made /\ ConnectFails(conn[u])
    BY <1>12 DEF ReconnectFails, Roles, TypeOK
  <2>2. outages' # 0
    BY <2>1, ConnectFailsEffect DEF Calm
  <2> QED
    BY <2>2 DEF Calm
<1>13. ASSUME NEW u \in Users, Grow(u)
      PROVE  Calm'
  <2>1. PICK c \in Conns \ made : /\ Connect(c) /\ made' = made \cup {c}
                                   /\ conn' = [conn EXCEPT ![u] = c]
    BY <1>13 DEF Grow
  <2>2. /\ UNCHANGED <<driver, server, outages>> /\ pc' = [pc EXCEPT ![u] = "using"]
        /\ link' = [link EXCEPT ![c] = "good"] /\ pc[u] = "look"
        /\ connected' = [connected EXCEPT ![c] = TRUE] /\ Reachable
    BY <2>1, <1>13 DEF Connect, Grow
  <2>3. Reachable'
    BY <2>2, StaysReachable
  <2>4. \A v \in Users : pc[v] = "reconnect" => pc'[v] = "reconnect" /\ conn'[v] = conn[v]
    BY <2>1, <2>2 DEF TypeOK
  <2> QED
    BY <2>1, <2>2, <2>3, <2>4 DEF Calm, TypeOK
<1>14. ASSUME NEW u \in Users, Sleep(u)
      PROVE  Calm'
  <2>1. UNCHANGED <<made, conn>> /\ pc[u] = "look" /\ pc' = [pc EXCEPT ![u] = "asleep"]
    BY <1>14 DEF Sleep
  <2>2. CASE UNCHANGED <<serverVars, connected>>
    BY <2>1, <2>2, StillCalm DEF TypeOK
  <2>3. ASSUME NEW c \in Conns \ made, ConnectFails(c)
        PROVE  Calm'
    <3>1. \A v \in Users : pc[v] = "reconnect" => pc'[v] = "reconnect"
      BY <2>1 DEF TypeOK
    <3> QED
      BY <2>1, <2>3, <3>1, FailureElsewhere
  <2> QED
    BY <2>2, <2>3, <1>14 DEF Sleep
<1>15. ASSUME NEW u \in Users, Relock(u)
      PROVE  Calm'
  <2>1. UNCHANGED <<serverVars, connected, made, conn>> /\ pc[u] = "woken"
        /\ pc' = [pc EXCEPT ![u] = "look"]
    BY <1>15 DEF Relock
  <2> QED
    BY <2>1, StillCalm DEF TypeOK
<1>16. ASSUME NEW u \in Users, Release(u)
      PROVE  Calm'
  <2>1. UNCHANGED <<serverVars, connected, made>> /\ pc[u] = "using"
        /\ conn' = [conn EXCEPT ![u] = NoConn]
    BY <1>16 DEF Release
  <2>2. \A v \in Users : pc[v] = "reconnect" => pc'[v] = "reconnect" /\ conn'[v] = conn[v]
    BY <1>16, <2>1 DEF Release, Sleepers, TypeOK
  <2> QED
    BY <2>1, <2>2, StillCalm
<1>17. ASSUME NEW u \in Users, Use(u)
      PROVE  Calm'
  <2>1. conn[u] \in Conns /\ conn[u] \in made
    BY <1>17, NamesAssumption DEF Use, Roles, TypeOK
  <2>2. /\ Effect(u) /\ UNCHANGED <<made, conn, pc>>
        /\ outages' = outages /\ link[conn[u]] = "good" => connected'[conn[u]]
    BY <2>1, <1>17, UseEffect DEF poolVars
  <2>3. outages' = 0 => outages = 0 /\ link' = link
    BY <2>2 DEF Effect, TypeOK
  <2>4. SUFFICES ASSUME outages' = 0, NEW d \in made
                 PROVE  connected'[d] \/ \E v \in Users : conn[v] = d /\ pc[v] = "reconnect"
    BY <2>2, <2>3, StaysReachable DEF Effect, Calm
  <2> QED
    BY <2>1, <2>2, <2>3, <2>4 DEF Effect, Calm, TypeOK
<1>18. ASSUME NEW u \in Users, SpuriousWake(u)
      PROVE  Calm'
  <2>1. UNCHANGED <<serverVars, connected, made, conn>> /\ pc[u] = "asleep"
        /\ pc' = [pc EXCEPT ![u] = "woken"]
    BY <1>18 DEF SpuriousWake
  <2> QED
    BY <2>1, StillCalm DEF TypeOK
<1>19. CASE UNCHANGED vars
  BY <1>19 DEF vars, serverVars, poolVars, Calm, Reachable
<1> QED
  BY <1>1, <1>2, <1>3, <1>4, <1>5, <1>6, <1>7, <1>8, <1>9, <1>10, <1>11, <1>12, <1>13, <1>14, <1>15, <1>16, <1>17, <1>18, <1>19 DEF Next, Proceed, Quiet

\* A step that loses only what is disconnected.
LEMMA StillLost ==
  ASSUME LostIsDisconnected, Calm',
         \A d \in Lost' : \/ d \in Lost /\ connected'[d] = connected[d]
                         \/ ~connected'[d]
  PROVE  LostIsDisconnected'
<1>1. \A d \in Lost' : ~connected'[d]
  BY DEF LostIsDisconnected
<1>2. outages' = 0 => Lost' = {}
  BY <1>1 DEF Calm, Lost
<1> QED
  BY <1>1, <1>2 DEF LostIsDisconnected

LEMMA LostStep ==
  ASSUME TypeOK, Roles, Apart, Settled, LostIsDisconnected, TypeOK', Calm', [Next]_vars
  PROVE  LostIsDisconnected'
<1>1. CASE GoDown \/ Refuse \/ GoUp
  BY <1>1, StillLost DEF GoDown, Refuse, GoUp, poolVars, Lost, InIdle
<1>2. ASSUME NEW c \in Conns, InitConnect(c)
      PROVE  LostIsDisconnected'
  <2>1. InIdle' = InIdle \cup {c}
    BY <1>2, Put DEF InitConnect, Apart
  <2>2. Lost' \subseteq Lost \ {c}
    BY <2>1, <1>2 DEF InitConnect, Lost
  <2>3. connected' = [connected EXCEPT ![c] = TRUE]
    BY <1>2 DEF InitConnect, Connect
  <2> QED
    BY <2>2, <2>3, StillLost DEF TypeOK, Lost
<1>3. CASE InitFails
  <2>1. PICK c \in Conns \ made : connected' = [connected EXCEPT ![c] = FALSE]
    BY <1>3 DEF InitFails, ConnectFails
  <2>2. Lost' = Lost
    BY <1>3 DEF InitFails, Lost, InIdle
  <2> QED
    BY <2>1, <2>2, StillLost DEF Lost, TypeOK
<1>4. CASE InitDone
  BY <1>4, StillLost DEF InitDone, Lost, InIdle
<1>5. CASE Destroy
  <2>1. Lost' = {}
    BY <1>5 DEF Destroy, Lost
  <2> QED
    BY <2>1, StillLost
<1>6. ASSUME NEW u \in Users, Enter(u)
      PROVE  LostIsDisconnected'
  BY <1>6, StillLost DEF Enter, Lost, InIdle
<1>7. ASSUME NEW u \in Users, TakeIdle(u)
      PROVE  LostIsDisconnected'
  <2>1. Head(idle) \in InIdle /\ InIdle' = InIdle \ {Head(idle)}
    BY <1>7, Taken DEF TakeIdle
  <2>2. conn' = [conn EXCEPT ![u] = Head(idle)] /\ UNCHANGED <<made, connected>> /\ pc[u] = "look"
    BY <1>7 DEF TakeIdle
  <2>3. Lost' \subseteq Lost
    <3>1. SUFFICES ASSUME NEW d \in made, d \notin InIdle', \A v \in Users : conn'[v] # d
                   PROVE  d \notin InIdle /\ \A v \in Users : conn[v] # d
      BY <2>2 DEF Lost
    <3>2. d # Head(idle)
      BY <2>2, <3>1 DEF TypeOK
    <3>3. conn[u] = NoConn
      BY <2>2 DEF Roles
    <3> QED
      BY <2>1, <2>2, <3>1, <3>2, <3>3, NamesAssumption DEF TypeOK
  <2> QED
    BY <2>2, <2>3, StillLost
<1>8. ASSUME NEW u \in Users, Ping(u)
      PROVE  LostIsDisconnected'
  <2>1. conn[u] \in Conns
    BY <1>8 DEF Ping, Roles, TypeOK
  <2>2. Effect(u)
    BY <2>1, <1>8, PingEffect
  <2>3. Lost' = Lost /\ conn[u] \notin Lost
    BY <2>2 DEF Effect, Lost, InIdle
  <2> QED
    BY <2>2, <2>3, StillLost DEF Effect, Lost, TypeOK
<1>9. ASSUME NEW u \in Users, ReconnectSucceeds(u)
      PROVE  LostIsDisconnected'
  <2>1. Lost' = Lost /\ conn[u] \notin Lost
    BY <1>9 DEF ReconnectSucceeds, Lost, InIdle
  <2>2. connected' = [connected EXCEPT ![conn[u]] = TRUE]
    BY <1>9 DEF ReconnectSucceeds, Connect
  <2> QED
    BY <2>1, <2>2, StillLost DEF Lost, TypeOK
<1>10. ASSUME NEW u \in Users, ReconnectFails(u)
      PROVE  LostIsDisconnected'
  <2>1. /\ UNCHANGED <<made, idle>> /\ conn' = [conn EXCEPT ![u] = NoConn]
        /\ connected' = [connected EXCEPT ![conn[u]] = FALSE]
    BY <1>10 DEF ReconnectFails, ConnectFails
  <2>2. InIdle' = InIdle
    BY <2>1 DEF InIdle
  <2>3. Lost' \subseteq Lost \cup {conn[u]}
    BY <2>1, <2>2 DEF Lost, TypeOK
  <2>4. \A d \in Lost' : d \in Conns /\ (d = conn[u] => ~connected'[d])
                        /\ (d # conn[u] => connected'[d] = connected[d])
    BY <2>1 DEF Lost, TypeOK
  <2> QED
    BY <2>3, <2>4, StillLost
<1>11. ASSUME NEW u \in Users, Grow(u)
      PROVE  LostIsDisconnected'
  <2>1. PICK c \in Conns \ made : /\ connected' = [connected EXCEPT ![c] = TRUE]
                                   /\ made' = made \cup {c}
                                   /\ conn' = [conn EXCEPT ![u] = c]
    BY <1>11 DEF Grow, Connect
  <2>2. idle' = idle /\ InIdle' = InIdle /\ conn[u] = NoConn
    BY <1>11 DEF Grow, InIdle, Roles
  <2>3. Lost' \subseteq Lost /\ c \notin Lost
    <3>1. \A d \in made : (\A v \in Users : conn'[v] # d) => \A v \in Users : conn[v] # d
      BY <2>1, <2>2, NamesAssumption DEF TypeOK
    <3>2. conn'[u] = c
      BY <2>1 DEF TypeOK
    <3> QED
      BY <2>1, <2>2, <3>1, <3>2 DEF Lost
  <2> QED
    <3>1. \A d \in Lost' : d \in Lost /\ d \in Conns /\ d # c
      BY <2>3 DEF Lost, TypeOK
    <3>2. \A d \in Lost' : d \in Lost /\ connected'[d] = connected[d]
      BY <2>1, <3>1 DEF TypeOK
    <3> QED
      BY <3>2, StillLost
<1>12. ASSUME NEW u \in Users, Sleep(u)
      PROVE  LostIsDisconnected'
  <2>1. Lost' = Lost
    BY <1>12 DEF Sleep, Lost, InIdle
  <2>2. connected' = connected \/ \E c \in Conns \ made : connected' = [connected EXCEPT ![c] = FALSE]
    BY <1>12 DEF Sleep, ConnectFails
  <2> QED
    BY <2>1, <2>2, StillLost DEF Lost, TypeOK
<1>13. ASSUME NEW u \in Users, Relock(u)
      PROVE  LostIsDisconnected'
  BY <1>13, StillLost DEF Relock, Lost, InIdle
<1>14. ASSUME NEW u \in Users, Release(u)
      PROVE  LostIsDisconnected'
  <2>1. conn[u] \in made /\ conn[u] \notin InIdle /\ conn[u] \in Conns
    BY <1>14 DEF Release, Roles, Apart, TypeOK
  <2>2. conn' = [conn EXCEPT ![u] = NoConn] /\ UNCHANGED <<made, connected>>
    BY <1>14 DEF Release
  <2>3. \A d \in Lost' : d = conn[u] \/ (d \notin InIdle' /\ d \in made /\ \A v \in Users : conn[v] # d)
    BY <2>2 DEF Lost, TypeOK
  <2>4. CASE ~connected[conn[u]] /\ idle' = idle
    <3>1. InIdle' = InIdle
      BY <2>4 DEF InIdle
    <3> QED
      BY <2>2, <2>3, <2>4, <3>1, StillLost DEF Lost
  <2>5. CASE idle' = Append(idle, conn[u])
    <3>1. InIdle' = InIdle \cup {conn[u]}
      BY <2>1, <2>5, Put
    <3>2. conn[u] \notin Lost'
      BY <3>1 DEF Lost
    <3> QED
      BY <2>2, <2>3, <3>1, <3>2, StillLost DEF Lost
  <2> QED
    BY <2>4, <2>5, <1>14 DEF Release
<1>15. ASSUME NEW u \in Users, Use(u)
      PROVE  LostIsDisconnected'
  <2>1. conn[u] \in Conns
    BY <1>15 DEF Use, Roles, TypeOK
  <2>2. Effect(u)
    BY <2>1, <1>15, UseEffect
  <2>3. Lost' = Lost /\ conn[u] \notin Lost
    BY <2>2 DEF Effect, Lost, InIdle
  <2> QED
    BY <2>2, <2>3, StillLost DEF Effect, Lost, TypeOK
<1>16. ASSUME NEW u \in Users, SpuriousWake(u)
      PROVE  LostIsDisconnected'
  BY <1>16, StillLost DEF SpuriousWake, Lost, InIdle
<1>17. CASE UNCHANGED vars
  BY <1>17, StillLost DEF vars, poolVars, Lost, InIdle
<1> QED
  BY <1>1, <1>2, <1>3, <1>4, <1>5, <1>6, <1>7, <1>8, <1>9, <1>10, <1>11, <1>12, <1>13, <1>14, <1>15, <1>16, <1>17 DEF Next, Proceed, Quiet

-----------------------------------------------------------------------------
(* The invariance theorems.                                                *)

LEMMA InitIndInv ==
  ASSUME Init
  PROVE  IndInv
<1>1. TypeOK
  <2>1. Cardinality(made) = 0
    BY FS_EmptySet DEF Init
  <2>2. idle \in Seq(Conns)
    BY DEF Init
  <2>3. 0 \in 0..MaxRequests /\ 0 \in 0..MaxOutages /\ 0 \in 0..MaxSpurious /\ 0 <= MaxConns
    BY PoolAssumption
  <2>4. link \in [Conns -> {"none", "good", "late", "dead"}] /\ connected \in [Conns -> BOOLEAN]
    BY DEF Init
  <2>5. pc \in [Users -> UserStates] /\ conn \in [Users -> Conns \cup {NoConn}]
    BY DEF Init, UserStates
  <2> QED
    BY <2>1, <2>2, <2>3, <2>4, <2>5 DEF Init, TypeOK
<1>2. Roles
  BY NamesAssumption DEF Init, Roles, Inside
<1>3. InIdle = {}
  BY DEF Init, InIdle
<1>4. Apart /\ Settled /\ Calm
  BY <1>3 DEF Init, Apart, Settled, Calm
<1>5. NoLostWakeup
  BY DEF Init, NoLostWakeup, Sleepers
<1>6. LostIsDisconnected
  BY DEF Init, LostIsDisconnected, Lost
<1> QED
  BY <1>1, <1>2, <1>4, <1>5, <1>6 DEF IndInv

LEMMA NextIndInv ==
  ASSUME IndInv, [Next]_vars
  PROVE  IndInv'
<1>1. TypeOK'
  BY TypeStep DEF IndInv
<1>2. Calm'
  BY <1>1, CalmStep DEF IndInv
<1> QED
  BY <1>1, <1>2, RolesStep, ApartStep, SettledStep, WakeupStep, LostStep DEF IndInv

\* The invariant of the pool holds in every reachable state.
THEOREM Invariance == Spec => []IndInv
<1>1. Init => IndInv
  BY InitIndInv
<1>2. IndInv /\ [Next]_vars => IndInv'
  BY NextIndInv
<1> QED
  BY <1>1, <1>2, PTL DEF Spec

\* The pool never makes more than max_connections, and every variable keeps its
\* type (acquire line 156, init lines 97-102).
THEOREM TypeCorrect == Spec => []TypeOK
<1>1. IndInv => TypeOK
  BY DEF IndInv
<1> QED
  BY <1>1, Invariance, PTL

LEMMA DistinctIsCounted ==
  ASSUME TypeOK, Apart
  PROVE  Cardinality(InIdle) = Len(idle)
<1>1. idle \in [1..Len(idle) -> InIdle] /\ Len(idle) \in Nat
  BY DEF TypeOK, InIdle
<1>2. idle \in Bijection(1..Len(idle), InIdle)
  BY <1>1 DEF Apart, InIdle, Bijection, Injection, Surjection, IsInjective
<1>3. ExistsBijection(1..Len(idle), InIdle)
  BY <1>2 DEF ExistsBijection
<1> QED
  BY <1>1, <1>3, FS_CountingElements

\* Each connection is in the hands of one user or once in the queue (acquire
\* lines 141-151, releaseConnection lines 181-185).
THEOREM ConnectionsExclusive == Spec => []Exclusive
<1>1. IndInv => Exclusive
  BY DistinctIsCounted DEF IndInv, Exclusive, Apart
<1> QED
  BY <1>1, Invariance, PTL

\* No wakeup of an acquire() is lost (acquire lines 125-169, releaseConnection
\* lines 183-184).
THEOREM NoWakeupLost == Spec => []NoLostWakeup
<1>1. IndInv => NoLostWakeup
  BY DEF IndInv
<1> QED
  BY <1>1, Invariance, PTL

\* The pool loses only disconnected connections, and none without an outage or a
\* timeout (acquire lines 141-166, releaseConnection line 181).
THEOREM LostAreDisconnected == Spec => []LostIsDisconnected
<1>1. IndInv => LostIsDisconnected
  BY DEF IndInv
<1> QED
  BY <1>1, Invariance, PTL

\* No command takes the reply to an earlier one for its own (RedisConnection.cpp
\* lines 402-407, 320; releaseConnection line 181).
THEOREM RepliesAreOwn == Spec => []OwnReply
<1>1. IndInv => OwnReply
  BY DEF IndInv, Settled, OwnReply
<1> QED
  BY <1>1, Invariance, PTL

-----------------------------------------------------------------------------
(* The pool implements LendingPool.                                        *)

Holder(u) == IF u \in Using THEN conn[u] ELSE NoConn

\* The steps that move no connection.
LEMMA NothingMoves ==
  ASSUME TypeOK, UNCHANGED <<made, idle, conn>>, Using' = Using
  PROVE  UNCHANGED Abstract!vars
<1>1. InIdle' = InIdle
  BY DEF InIdle
<1>2. Lost' = Lost
  BY <1>1 DEF Lost
<1>3. \A c \in Conns : Place(c)' = Place(c)
  BY <1>2 DEF Place
<1>4. \A u \in Users : Holder(u)' = Holder(u)
  BY DEF Holder
<1> QED
  BY <1>3, <1>4 DEF Abstract!vars, Holder

\* The steps that move one connection.
LEMMA OneMoves ==
  ASSUME NEW c \in Conns, NEW to,
         \A d \in Conns : Place(d)' = IF d = c THEN to ELSE Place(d)
  PROVE  [d \in Conns |-> Place(d)]' = [[d \in Conns |-> Place(d)] EXCEPT ![c] = to]
OBVIOUS

LEMMA OneHolds ==
  ASSUME NEW u \in Users, NEW c,
         \A v \in Users : Holder(v)' = IF v = u THEN c ELSE Holder(v)
  PROVE  [v \in Users |-> IF v \in Using THEN conn[v] ELSE NoConn]' =
           [[v \in Users |-> IF v \in Using THEN conn[v] ELSE NoConn] EXCEPT ![u] = c]
BY DEF Holder

LEMMA SameHolders ==
  ASSUME \A v \in Users : Holder(v)' = Holder(v)
  PROVE  UNCHANGED [v \in Users |-> IF v \in Using THEN conn[v] ELSE NoConn]
BY DEF Holder

\* init() makes a connection.
LEMMA StockStep ==
  ASSUME IndInv, NEW c \in Conns, InitConnect(c)
  PROVE  Abstract!Stock(c)
<1>1. InIdle' = InIdle \cup {c}
  BY Put DEF InitConnect, Apart, IndInv
<1>2. /\ c \notin made /\ made' = made \cup {c} /\ UNCHANGED <<pc, conn>>
      /\ \A u \in Users : conn[u] = NoConn /\ pc[u] = "away"
  BY DEF InitConnect, Roles, IndInv
<1>3. \A d \in Conns : Place(d)' = IF d = c THEN "pooled" ELSE Place(d)
  BY <1>1, <1>2, NamesAssumption DEF Place, Lost, Using
<1>4. Place(c) = "absent"
  BY <1>2 DEF Place
<1>5. \A v \in Users : Holder(v)' = Holder(v)
  BY <1>2 DEF Holder, Using
<1> QED
  BY <1>3, <1>4, <1>5, OneMoves, SameHolders DEF Abstract!Stock

\* A connection that a user has found in the queue is still pooled.
LEMMA InHandIsPooled ==
  ASSUME IndInv, NEW u \in Users, conn[u] # NoConn, u \notin Using
  PROVE  conn[u] \in made /\ conn[u] \in Conns /\ Place(conn[u]) = "pooled"
<1>1. conn[u] \in made /\ conn[u] \in Conns
  BY DEF IndInv, Roles, TypeOK
<1>2. \A v \in Using : conn[v] # conn[u]
  BY <1>1, NamesAssumption DEF IndInv, Apart, Using
<1> QED
  BY <1>1, <1>2 DEF Place, Lost

\* A user in acquire() gets the connection c, which it has in hand already.
LEMMA LendInHand ==
  ASSUME IndInv, NEW u \in Users, conn[u] # NoConn, pc[u] \in Inside,
         UNCHANGED <<made, idle, conn>>, pc' = [pc EXCEPT ![u] = "using"]
  PROVE  \E c \in Conns : Abstract!Lend(u, c)
<1> PICK c : c = conn[u]
  OBVIOUS
<1>1. u \notin Using /\ Using' = Using \cup {u}
  BY DEF Using, Inside, IndInv, TypeOK
<1>2. c \in made /\ c \in Conns /\ Place(c) = "pooled"
  BY <1>1, InHandIsPooled
<1>3. Lost' = Lost
  BY DEF Lost, InIdle
<1>4. \A d \in Conns : Place(d)' = IF d = c THEN "lent" ELSE Place(d)
  <2>1. {conn'[v] : v \in Using'} = {conn[v] : v \in Using} \cup {c}
    BY <1>1
  <2> QED
    BY <1>2, <1>3, <2>1 DEF Place
<1>5. \A v \in Users : Holder(v)' = IF v = u THEN c ELSE Holder(v)
  BY <1>1 DEF Holder
<1>6. Holder(u) = NoConn
  BY <1>1 DEF Holder
<1>7. Abstract!Lend(u, c)
  BY <1>2, <1>4, <1>5, <1>6, OneMoves, OneHolds DEF Abstract!Lend, Holder
<1> QED
  BY <1>2, <1>7

\* A new connection goes to the user that has made it.
LEMMA GrowStep ==
  ASSUME IndInv, NEW u \in Users, Grow(u)
  PROVE  \E c \in Conns : Abstract!Lend(u, c)
<1>1. PICK c \in Conns \ made : made' = made \cup {c} /\ conn' = [conn EXCEPT ![u] = c]
  BY DEF Grow
<1>2. pc[u] = "look" /\ pc' = [pc EXCEPT ![u] = "using"] /\ InIdle' = InIdle
  BY DEF Grow, InIdle
<1>3. u \notin Using /\ Using' = Using \cup {u} /\ conn[u] = NoConn
  BY <1>2 DEF Using, IndInv, TypeOK, Roles
<1>4. conn'[u] = c /\ \A v \in Users \ {u} : conn'[v] = conn[v]
  BY <1>1 DEF IndInv, TypeOK
<1>5. {conn'[v] : v \in Using'} = {conn[v] : v \in Using} \cup {c}
  BY <1>3, <1>4 DEF Using
<1>6. Lost' = Lost
  <2>1. {conn'[v] : v \in Users} \cup {NoConn} = {conn[v] : v \in Users} \cup {NoConn, c}
    BY <1>3, <1>4
  <2> QED
    BY <1>1, <1>2, <2>1, NamesAssumption DEF Lost, IndInv, TypeOK
<1>7. \A d \in Conns : Place(d)' = IF d = c THEN "lent" ELSE Place(d)
  BY <1>1, <1>5, <1>6 DEF Place
<1>8. Place(c) = "absent"
  BY <1>1 DEF Place
<1>9. \A v \in Users : Holder(v)' = IF v = u THEN c ELSE Holder(v)
  BY <1>3, <1>4 DEF Holder
<1>10. Holder(u) = NoConn
  BY <1>3 DEF Holder
<1>11. Abstract!Lend(u, c)
  BY <1>7, <1>8, <1>9, <1>10, OneMoves, OneHolds DEF Abstract!Lend, Holder
<1> QED
  BY <1>11

\* A connection that cannot be revived is given up.
LEMMA GiveUpStep ==
  ASSUME IndInv, NEW u \in Users, ReconnectFails(u)
  PROVE  conn[u] \in Conns /\ Abstract!GiveUp(conn[u])
<1>1. /\ pc[u] = "reconnect" /\ conn' = [conn EXCEPT ![u] = NoConn]
      /\ UNCHANGED <<made, idle>> /\ pc' = [pc EXCEPT ![u] = "look"]
  BY DEF ReconnectFails
<1>2. u \notin Using /\ Using' = Using /\ conn[u] # NoConn
  BY <1>1 DEF Using, IndInv, TypeOK, Roles
<1>3. conn[u] \in made /\ conn[u] \in Conns /\ Place(conn[u]) = "pooled"
  BY <1>2, InHandIsPooled
<1>4. conn[u] \notin InIdle /\ InIdle' = InIdle
      /\ \A v \in Users \ {u} : conn[v] # conn[u] /\ conn'[v] = conn[v]
  BY <1>1, <1>3, NamesAssumption DEF IndInv, Apart, InIdle, TypeOK
<1>5. conn'[u] = NoConn
  BY <1>1 DEF IndInv, TypeOK
<1>6. Lost' = Lost \cup {conn[u]}
  <2>1. \A d \in Conns \ {conn[u]} : d \in {conn'[v] : v \in Users} <=> d \in {conn[v] : v \in Users}
    BY <1>4, <1>5, NamesAssumption
  <2>2. conn[u] \notin {conn'[v] : v \in Users}
    BY <1>3, <1>4, <1>5, NamesAssumption
  <2> QED
    BY <1>1, <1>3, <1>4, <2>1, <2>2 DEF Lost, IndInv, TypeOK
<1>7. {conn'[v] : v \in Using'} = {conn[v] : v \in Using} /\ conn[u] \notin {conn[v] : v \in Using}
  BY <1>2, <1>4 DEF Using
<1>8. \A d \in Conns : Place(d)' = IF d = conn[u] THEN "lost" ELSE Place(d)
  BY <1>1, <1>3, <1>6, <1>7 DEF Place
<1>9. \A v \in Users : Holder(v)' = Holder(v)
  BY <1>2, <1>4 DEF Holder
<1> QED
  BY <1>3, <1>8, <1>9, OneMoves, SameHolders DEF Abstract!GiveUp

\* A user gives its connection back, to the pool or for good.
LEMMA GiveBackStep ==
  ASSUME IndInv, NEW u \in Users, Release(u)
  PROVE  \E to \in {"pooled", "lost"} : Abstract!GiveBack(u, to)
<1>1. /\ pc[u] = "using" /\ conn' = [conn EXCEPT ![u] = NoConn] /\ made' = made
      /\ \/ ~connected[conn[u]] /\ idle' = idle
         \/ connected[conn[u]] /\ idle' = Append(idle, conn[u])
  BY DEF Release
<1> PICK c : c = conn[u]
  OBVIOUS
<1>2. /\ c \in made /\ c \in Conns /\ c \notin InIdle /\ c # NoConn
      /\ \A v \in Users \ {u} : conn[v] # c /\ conn'[v] = conn[v]
      /\ conn'[u] = NoConn
  BY <1>1, NamesAssumption DEF IndInv, Roles, Apart, TypeOK
<1>3. u \in Using /\ Using' = Using \ {u}
  BY <1>1 DEF Release, Using, Sleepers, IndInv, TypeOK
<1>4. PICK to \in {"pooled", "lost"} :
        InIdle' = IF to = "pooled" THEN InIdle \cup {c} ELSE InIdle
  <2>1. CASE idle' = idle
    BY <2>1 DEF InIdle
  <2>2. CASE idle' = Append(idle, c)
    BY <2>2, <1>2, Put DEF IndInv
  <2> QED
    BY <1>1, <2>1, <2>2
<1>5. \A d \in Conns \ {c} :
        /\ d \in {conn'[v] : v \in Users} <=> d \in {conn[v] : v \in Users}
        /\ d \in {conn'[v] : v \in Using'} <=> d \in {conn[v] : v \in Using}
  BY <1>2, <1>3, NamesAssumption DEF Using
<1>6. c \notin {conn'[v] : v \in Users} /\ c \in {conn[v] : v \in Using}
  BY <1>2, <1>3, NamesAssumption
<1>7. \A d \in Conns : Place(d)' = IF d = c THEN to ELSE Place(d)
  <2>1. ASSUME NEW d \in Conns, d # c
        PROVE  Place(d)' = Place(d)
    BY <2>1, <1>1, <1>4, <1>5 DEF Place, Lost
  <2>2. Place(c)' = to
    <3>1. c \in made' /\ c \notin {conn'[v] : v \in Using'}
      BY <1>1, <1>2, <1>6 DEF Using
    <3>2. c \in InIdle' <=> to = "pooled"
      BY <1>2, <1>4
    <3>3. c \in Lost' <=> to # "pooled"
      BY <1>1, <1>2, <1>6, <3>2 DEF Lost
    <3> QED
      BY <3>1, <3>3 DEF Place
  <2> QED
    BY <2>1, <2>2
<1>8. \A v \in Users : Holder(v)' = IF v = u THEN NoConn ELSE Holder(v)
  BY <1>2, <1>3 DEF Holder
<1>9. Holder(u) = c
  BY <1>3 DEF Holder
<1>10. Abstract!GiveBack(u, to)
  BY <1>2, <1>7, <1>8, <1>9, OneMoves, OneHolds DEF Abstract!GiveBack, Holder
<1> QED
  BY <1>10

\* The pool is closed while nobody has a connection.
LEMMA CloseStep ==
  ASSUME IndInv, Destroy
  PROVE  Abstract!Close
<1>1. Using = {} /\ Using' = {} /\ made' = {}
  BY DEF Destroy, Using
<1>2. \A d \in Conns : Place(d)' = "absent"
  BY <1>1 DEF Place
<1>3. \A v \in Users : Holder(v) = NoConn /\ Holder(v)' = NoConn
  BY <1>1 DEF Holder
<1> QED
  BY <1>2, <1>3 DEF Abstract!Close, Holder

\* Taking a connection out of the queue changes neither place nor holder.
LEMMA TakeStep ==
  ASSUME IndInv, NEW u \in Users, TakeIdle(u)
  PROVE  UNCHANGED Abstract!vars
<1>1. /\ pc[u] = "look" /\ pc' = [pc EXCEPT ![u] = "ping"] /\ made' = made
      /\ conn' = [conn EXCEPT ![u] = Head(idle)]
  BY DEF TakeIdle
<1>2. Head(idle) \in InIdle /\ Head(idle) \in Conns /\ InIdle' = InIdle \ {Head(idle)}
  BY Taken DEF TakeIdle, IndInv
<1>3. Using' = Using /\ u \notin Using /\ conn[u] = NoConn
  BY <1>1 DEF Using, IndInv, TypeOK, Roles
<1>4. conn'[u] = Head(idle) /\ \A v \in Users \ {u} : conn'[v] = conn[v]
  BY <1>1 DEF IndInv, TypeOK
<1>5. Lost' = Lost
  <2>1. {conn'[v] : v \in Users} \cup {NoConn} =
          {conn[v] : v \in Users} \cup {NoConn, Head(idle)}
    BY <1>3, <1>4
  <2> QED
    BY <1>1, <1>2, <2>1, NamesAssumption DEF Lost, IndInv, TypeOK
<1>6. \A d \in Conns : Place(d)' = Place(d)
  <2>1. {conn'[v] : v \in Using'} = {conn[v] : v \in Using}
    BY <1>3, <1>4 DEF Using
  <2> QED
    BY <1>1, <1>5, <2>1 DEF Place
<1>7. \A v \in Users : Holder(v)' = Holder(v)
  BY <1>3, <1>4 DEF Holder
<1> QED
  BY <1>6, <1>7, SameHolders DEF Abstract!vars

LEMMA InitImplements ==
  ASSUME Init
  PROVE  Abstract!Init
BY DEF Init, Abstract!Init, Place, Using

LEMMA StepImplements ==
  ASSUME IndInv, [Next]_vars
  PROVE  [Abstract!Next]_(Abstract!vars)
<1> USE DEF IndInv
<1>1. CASE GoDown \/ Refuse \/ GoUp \/ InitFails \/ InitDone \/ UNCHANGED vars
  <2>1. UNCHANGED <<made, idle, conn, pc>>
    BY <1>1 DEF GoDown, Refuse, GoUp, InitFails, InitDone, vars, poolVars
  <2> QED
    BY <2>1, NothingMoves DEF Using
<1>2. ASSUME NEW c \in Conns, InitConnect(c)
      PROVE  Abstract!Next
  BY <1>2, StockStep DEF Abstract!Next
<1>3. CASE Destroy
  BY <1>3, CloseStep DEF Abstract!Next
<1>4. ASSUME NEW u \in Users, Enter(u) \/ Sleep(u) \/ Relock(u) \/ SpuriousWake(u) \/ Use(u)
      PROVE  UNCHANGED Abstract!vars
  <2>1. UNCHANGED <<made, idle, conn>> /\ Using' = Using
    BY <1>4 DEF Enter, Sleep, Relock, SpuriousWake, Use, poolVars, Using, TypeOK
  <2> QED
    BY <2>1, NothingMoves
<1>5. ASSUME NEW u \in Users, TakeIdle(u)
      PROVE  UNCHANGED Abstract!vars
  BY <1>5, TakeStep
<1>6. ASSUME NEW u \in Users, Ping(u)
      PROVE  [Abstract!Next]_(Abstract!vars)
  <2>1. pc[u] = "ping" /\ conn[u] \in Conns /\ conn[u] # NoConn /\ UNCHANGED <<made, idle, conn>>
    BY <1>6, NamesAssumption DEF Ping, Roles, TypeOK
  <2>2. CASE pc' = [pc EXCEPT ![u] = "using"]
    BY <2>1, <2>2, LendInHand DEF Inside, Abstract!Next
  <2>3. CASE pc' = [pc EXCEPT ![u] = "reconnect"]
    BY <2>1, <2>3, NothingMoves DEF Using, TypeOK
  <2> QED
    BY <2>1, <2>2, <2>3, <1>6, PingEffect
<1>7. ASSUME NEW u \in Users, ReconnectSucceeds(u)
      PROVE  Abstract!Next
  <2>1. /\ pc[u] = "reconnect" /\ pc' = [pc EXCEPT ![u] = "using"] /\ conn[u] # NoConn
        /\ conn[u] \in Conns /\ UNCHANGED <<made, idle, conn>>
    BY <1>7 DEF ReconnectSucceeds, Roles, TypeOK
  <2> QED
    BY <2>1, LendInHand DEF Inside, Abstract!Next
<1>8. ASSUME NEW u \in Users, ReconnectFails(u)
      PROVE  Abstract!Next
  BY <1>8, GiveUpStep DEF Abstract!Next
<1>9. ASSUME NEW u \in Users, Grow(u)
      PROVE  Abstract!Next
  BY <1>9, GrowStep DEF Abstract!Next
<1>10. ASSUME NEW u \in Users, Release(u)
       PROVE  Abstract!Next
  BY <1>10, GiveBackStep DEF Abstract!Next
<1> QED
  BY <1>1, <1>2, <1>3, <1>4, <1>5, <1>6, <1>7, <1>8, <1>9, <1>10 DEF Next, Proceed, Quiet

\* The pool lends a connection to one user at a time and never lends again one it
\* has given up (acquire lines 139-166, releaseConnection).
THEOREM PoolImplementsLending == Spec => ImplementsLending
<1>1. Init => Abstract!Init
  BY InitImplements
<1>2. IndInv /\ [Next]_vars => [Abstract!Next]_(Abstract!vars)
  BY StepImplements
<1> QED
  BY <1>1, <1>2, Invariance, PTL DEF Spec, ImplementsLending, Abstract!Spec
=============================================================================
