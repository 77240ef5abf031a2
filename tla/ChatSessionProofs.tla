------------------------- MODULE ChatSessionProofs --------------------------
(***************************************************************************)
(* Proofs about ChatSession.  For any number of clients, accounts, workers *)
(* and Redis connections: the types, that a session has a name, and,       *)
(* whether or not keys expire and Redis fails, that each request has one   *)
(* answer.  While no key expires and no command fails, and the logins of   *)
(* an account do not overlap: that it has at most one session, and that    *)
(* each session is marked in Redis.  With a single worker: that chats      *)
(* arrive in order, and only at clients that have been greeted.            *)
(***************************************************************************)
EXTENDS ChatSession, FiniteSetTheorems, TLAPS

-----------------------------------------------------------------------------
(* The inductive invariant.                                                *)

\* The states of a worker inside handleLogin().
LoginStates == {"profile", "flag", "database", "fill", "fillFlag", "decide", "admit", "mark",
                "answer", "announce"}

\* A worker that is not idle has a task, and handleLogin() that of a login.
Roles ==
  \A w \in Workers :
    /\ pc[w] # "idle" => task[w] \in TaskSet
    /\ pc[w] \in LoginStates => Body(w).kind = "login"

\* The workers that keep a Redis connection between two commands.
Holders == {w \in Workers : pc[w] \in {"flag", "fillFlag"}}

\* Every Redis connection is free or with one of them.
Census == slots + Cardinality(Holders) = PoolSize

\* The reactor has a connection to close, and a name if there is a session.
Closing ==
  /\ reactor # "poll" => closing \in Conns /\ ~connected[closing]
  /\ reactor \in {"markOff", "farewell"} => leaver \in Names

\* The name is written before the flag.
Named ==
  /\ \A c \in Conns : loggedIn[c] => username[c] # None
  /\ \A w \in Workers : pc[w] = "admit" => username[Client(w)] # None

IndInv == TypeOK /\ Roles /\ Census /\ Closing /\ Named

-----------------------------------------------------------------------------
(* Logins of one account, one after the other.                             *)

Undisturbed == ~MayExpire /\ ~RedisMayFail

OneWorker == (\A v, w \in Workers : v = w) /\ Undisturbed

\* From the first look at the account until it is marked online.
Deciding == {"profile", "flag", "database", "fill", "fillFlag", "decide", "admit", "mark"}

\* No two workers are deciding about the same account.
NoOverlap ==
  \A v, w \in Workers :
    pc[v] \in Deciding /\ pc[w] \in Deciding /\ Body(v).name = Body(w).name => v = w

\* A connection that has not been accepted is unknown to everybody.
Unknown ==
  \A c \in fresh :
    /\ ~connected[c] /\ ~loggedIn[c]
    /\ \A w \in Workers : task[w].conn # c
    /\ \A i \in 1..Len(tasks) : tasks[i].conn # c

\* c is connected, or the reactor has not yet looked whether it has a session.
Alive(c) == connected[c] \/ (reactor = "closed" /\ closing = c)

\* c has the session of n, or had it until the reactor began to close it and has
\* not marked n offline yet.
Owns(c, n) ==
  \/ Alive(c) /\ loggedIn[c] /\ username[c] = n
  \/ reactor = "markOff" /\ closing = c /\ leaver = n

\* w is logging c in as n and has not marked n online yet.
Marking(w, c, n) == pc[w] \in {"admit", "mark"} /\ Client(w) = c /\ Body(w).name = n

\* w has found n offline.
FoundOffline(w) ==
  \/ pc[w] \in {"database", "fill", "fillFlag", "admit", "mark"}
  \/ pc[w] = "decide" /\ ~sawOnline[w]

Unique == \A c, d \in Conns, n \in Names : Owns(c, n) /\ Owns(d, n) => c = d

Marked ==
  \A c \in Conns, n \in Names :
    Owns(c, n) => online[n] = "1" \/ \E w \in Workers : Marking(w, c, n)

\* Whom a worker is about to let in nobody else is.
Alone ==
  \A w \in Workers, c \in Conns :
    FoundOffline(w) /\ Owns(c, Body(w).name) => c = Client(w)

\* The cache knows who is online; while it is being filled the user is not.
Cached ==
  /\ \A n \in Names : online[n] = "1" => profile[n]
  /\ \A w \in Workers :
       /\ pc[w] \in {"database", "fill", "fillFlag"} => online[Body(w).name] # "1"
       /\ pc[w] \in {"flag", "fillFlag", "decide", "admit", "mark"} => profile[Body(w).name]

\* Some worker has written the name of c and is about to set its flag.
Entering(c) ==
  \E v \in Workers : pc[v] = "admit" /\ Client(v) = c /\ Body(v).name = username[c]

\* The name of a connection that is being let in belongs to a session or to one
\* that is about to begin, also when two workers log it in under two names.
Admitted ==
  \A w \in Workers :
    pc[w] \in {"admit", "mark"} /\ Alive(Client(w)) =>
      loggedIn[Client(w)] \/ (pc[w] = "admit" /\ Entering(Client(w)))

\* What needs that logins of one account do not overlap.
Exclusion == Unique /\ Marked /\ Alone /\ Cached /\ Admitted

-----------------------------------------------------------------------------
(* Types, roles and the census, for any number of workers.                 *)

\* What a worker has at hand.
LEMMA AtWork ==
  ASSUME TypeOK, Roles, NEW w \in Workers, pc[w] # "idle"
  PROVE  /\ task[w] \in TaskSet /\ Client(w) \in Conns /\ Body(w) \in Requests
         /\ task[w].id \in 0..MaxRequests
         /\ pc[w] \in LoginStates => Body(w).name \in Names
<1>1. task[w] \in TaskSet
  BY DEF Roles
<1>2. Client(w) \in Conns /\ Body(w) \in Requests /\ task[w].id \in 0..MaxRequests
  BY <1>1, SessionAssumption DEF TaskSet, Client, Body
<1>3. ASSUME Body(w).kind = "login"
      PROVE  Body(w).name \in Names
  BY <1>2, <1>3 DEF Requests
<1> QED
  BY <1>1, <1>2, <1>3 DEF Roles

PacketSet == [kind : PacketKinds, about : 0..MaxRequests]
Outboxes  == [Conns -> Seq(PacketSet)]

\* What is sent are packets.
LEMMA SendType ==
  ASSUME TypeOK, NEW c \in Conns, NEW k \in PacketKinds, NEW i \in 0..MaxRequests,
         Send(c, Packet(k, i)) \/ SendIfSession(c, Packet(k, i))
  PROVE  outbox' \in Outboxes
<1>1. Packet(k, i) \in PacketSet
  BY DEF Packet, PacketSet
<1>2. outbox \in Outboxes
  BY DEF TypeOK, Outboxes, PacketSet
<1>3. ASSUME NEW p \in PacketSet
      PROVE  [outbox EXCEPT ![c] = Append(@, p)] \in Outboxes
  BY <1>2 DEF Outboxes
<1> QED
  BY <1>1, <1>2, <1>3 DEF Send, SendIfSession

\* A worker that holds a Redis connection keeps the pool from being full.
LEMMA CensusBounds ==
  ASSUME TypeOK, Census
  PROVE  /\ IsFiniteSet(Holders) /\ Cardinality(Holders) \in Nat
         /\ Holders # {} => slots < PoolSize
<1>1. Holders \in SUBSET Workers
  BY DEF Holders
<1>2. IsFiniteSet(Holders)
  BY <1>1, FS_Subset, SessionAssumption
<1>3. Cardinality(Holders) \in Nat /\ (Holders # {} => Cardinality(Holders) # 0)
  BY <1>2, FS_CardinalityType, FS_EmptySet
<1> QED
  BY <1>2, <1>3, SessionAssumption DEF Census, TypeOK

\* The steps that leave the types of most variables alone, by what they change.
LEMMA WorkTypes ==
  ASSUME TypeOK, UNCHANGED workRest,
         loggedIn' \in [Conns -> BOOLEAN], username' \in [Conns -> Names \cup {None}],
         outbox' \in Outboxes, profile' \in [Names -> BOOLEAN],
         online' \in [Names -> {"nil", "0", "1"}], slots' \in 0..PoolSize,
         tasks' \in Seq(TaskSet), pc' \in [Workers -> WorkerStates],
         task' \in [Workers -> TaskSet \cup {NoTask}], sawOnline' \in [Workers -> BOOLEAN],
         todo' \in [Workers -> SUBSET Conns]
  PROVE  TypeOK'
BY DEF TypeOK, workRest, closeVars, Outboxes, PacketSet

\* What the end of a handler does to the variables of its worker.
LEMMA FinishTypes ==
  ASSUME TypeOK, NEW w \in Workers, NEW from, Finish(w, from)
  PROVE  /\ pc' = [pc EXCEPT ![w] = "idle"] /\ pc' \in [Workers -> WorkerStates]
         /\ task' = [task EXCEPT ![w] = NoTask] /\ task' \in [Workers -> TaskSet \cup {NoTask}]
         /\ sawOnline' = [sawOnline EXCEPT ![w] = FALSE] /\ sawOnline' \in [Workers -> BOOLEAN]
         /\ todo' = todo /\ pc[w] = from
BY DEF TypeOK, Finish, Goto, WorkerStates

\* Who holds a Redis connection after a worker has moved on.
LEMMA GotoHolders ==
  ASSUME TypeOK, NEW w \in Workers, NEW from, NEW to, Goto(w, from, to)
  PROVE  /\ w \in Holders <=> from \in {"flag", "fillFlag"}
         /\ to \in {"flag", "fillFlag"} => Holders' = Holders \cup {w}
         /\ to \notin {"flag", "fillFlag"} => Holders' = Holders \ {w}
<1>1. pc[w] = from /\ \A v \in Workers : pc'[v] = IF v = w THEN to ELSE pc[v]
  BY DEF Goto, TypeOK
<1> QED
  BY <1>1 DEF Holders

\* A worker that goes on without a Redis connection in its hands.
LEMMA GoOn ==
  ASSUME TypeOK, Census, NEW w \in Workers, NEW from, NEW to, Goto(w, from, to),
         from \notin {"flag", "fillFlag"}, to \notin {"flag", "fillFlag"}, UNCHANGED slots
  PROVE  Census'
<1>1. Holders' = Holders
  BY GotoHolders
<1> QED
  BY <1>1 DEF Census

\* No step loses or duplicates a Redis connection.
LEMMA CensusStep ==
  ASSUME TypeOK, Census, [Next]_vars
  PROVE  Census'
<1>1. slots \in Int /\ IsFiniteSet(Holders) /\ Cardinality(Holders) \in Int
  <2>1. slots \in Int
    BY SessionAssumption DEF TypeOK
  <2> QED
    BY <2>1, CensusBounds
<1>2. ASSUME NEW w \in Workers, NEW from, NEW to, Goto(w, from, to), slots' = slots - 1,
             from \notin {"flag", "fillFlag"}, to \in {"flag", "fillFlag"}
      PROVE  Census'
  <2>1. w \notin Holders /\ Holders' = Holders \cup {w}
    BY <1>2, GotoHolders
  <2>2. Cardinality(Holders') = Cardinality(Holders) + 1
    BY <1>1, <2>1, FS_AddElement
  <2> QED
    BY <1>1, <1>2, <2>2 DEF Census
<1>3. ASSUME NEW w \in Workers, NEW from, NEW to, Goto(w, from, to), slots' = slots + 1,
             from \in {"flag", "fillFlag"}, to \notin {"flag", "fillFlag"}
      PROVE  Census'
  <2>1. w \in Holders /\ Holders' = Holders \ {w}
    BY <1>3, GotoHolders
  <2>2. Cardinality(Holders') = Cardinality(Holders) - 1
    BY <1>1, <2>1, FS_RemoveElement
  <2> QED
    BY <1>1, <1>3, <2>2 DEF Census
<1>4. ASSUME UNCHANGED <<pc, slots>>
      PROVE  Census'
  <2>1. Holders' = Holders
    BY <1>4 DEF Holders
  <2> QED
    BY <1>4, <2>1 DEF Census
<1>5. ASSUME NEW c \in Conns, Accept(c) \/ Hangup(c) \/ \E r \in Requests : Receive(c, r)
      PROVE  Census'
  BY <1>4, <1>5 DEF Accept, Hangup, Receive, redisVars, localVars
<1>6. CASE Close
  BY <1>4, <1>6 DEF Close, SeeSession, MarkOff, Logout, Remove, Farewell, closeRest, redisVars, localVars
<1>7. ASSUME NEW n \in Names, Expire(n)
      PROVE  Census'
  BY <1>4, <1>7 DEF Expire, localVars
<1>8. CASE UNCHANGED vars
  BY <1>4, <1>8 DEF vars, redisVars, localVars
<1>9. ASSUME NEW w \in Workers, Work(w)
      PROVE  Census'
  <2>1. CASE LoadProfile(w)
    BY <1>2, <2>1, GoOn DEF LoadProfile
  <2>2. CASE LoadFlag(w) \/ FillFlag(w)
    BY <1>3, <2>2 DEF LoadFlag, FillFlag
  <2>3. CASE FillProfile(w)
    BY <1>2, <2>3, GoOn DEF FillProfile
  <2>4. CASE Begin(w)
    BY <2>4, GoOn DEF Begin, beginRest, redisVars, Finish, Reply
  <2>5. CASE \E c \in Conns : SpreadTo(w, c)
    BY <1>4, <2>5 DEF SpreadTo, redisVars
  <2>6. CASE Take(w) \/ LoadFromTable(w) \/ SetUserInfo(w) \/ Admit(w) \/ Grant(w) \/ Record(w)
    BY <2>6, GoOn DEF Take, LoadFromTable, SetUserInfo, Admit, Grant, Record, redisVars
  <2>7. CASE MarkOnline(w)
    BY <2>7, GoOn DEF MarkOnline
  <2>8. CASE RefuseUnknown(w) \/ Refuse(w) \/ SpreadDone(w)
    BY <2>8, GoOn DEF RefuseUnknown, Refuse, SpreadDone, Reply, Finish, beginRest, redisVars
  <2> QED
    BY <1>9, <2>1, <2>2, <2>3, <2>4, <2>5, <2>6, <2>7, <2>8 DEF Work
<1> QED
  BY <1>5, <1>6, <1>7, <1>8, <1>9 DEF Next, AllGone

\* A worker moves on with its task, or ends it.
LEMMA RolesKept ==
  ASSUME TypeOK, Roles, NEW w \in Workers, NEW from, NEW to, Goto(w, from, to), from # "idle",
         \/ UNCHANGED task /\ (to \in LoginStates => Body(w).kind = "login")
         \/ to = "idle" /\ task' = [task EXCEPT ![w] = NoTask]
  PROVE  Roles'
<1>1. pc[w] = from /\ \A v \in Workers : pc'[v] = IF v = w THEN to ELSE pc[v]
  BY DEF Goto, TypeOK
<1>2. \A v \in Workers : v # w => task'[v] = task[v]
  BY DEF TypeOK
<1>3. ASSUME NEW v \in Workers
      PROVE  /\ pc'[v] # "idle" => task'[v] \in TaskSet
             /\ pc'[v] \in LoginStates => task'[v].body.kind = "login"
  BY <1>1, <1>2 DEF Roles, Body, LoginStates
<1> QED
  BY <1>3 DEF Roles, Body

\* Every step leaves the workers that are busy with a task.
LEMMA RolesStep ==
  ASSUME TypeOK, Roles, [Next]_vars
  PROVE  Roles'
<1>1. CASE UNCHANGED <<pc, task>>
  BY <1>1 DEF Roles, Body
<1>2. ASSUME NEW c \in Conns, Accept(c) \/ Hangup(c) \/ \E r \in Requests : Receive(c, r)
      PROVE  Roles'
  BY <1>1, <1>2 DEF Accept, Hangup, Receive, localVars
<1>3. CASE Close
  BY <1>1, <1>3 DEF Close, SeeSession, MarkOff, Logout, Remove, Farewell, closeRest, localVars
<1>4. ASSUME NEW n \in Names, Expire(n)
      PROVE  Roles'
  BY <1>1, <1>4 DEF Expire, localVars
<1>5. CASE UNCHANGED vars
  BY <1>1, <1>5 DEF vars, localVars
<1>6. ASSUME NEW w \in Workers, Work(w)
      PROVE  Roles'
  <2>1. CASE Take(w)
    <3>1. /\ \A v \in Workers : pc'[v] = IF v = w THEN "begin" ELSE pc[v]
          /\ \A v \in Workers : task'[v] = IF v = w THEN Head(tasks) ELSE task[v]
          /\ Head(tasks) \in TaskSet
      BY <2>1 DEF Take, Goto, TypeOK
    <3> QED
      BY <3>1 DEF Roles, Body, LoginStates
  <2>2. CASE Begin(w)
    BY <2>2, RolesKept DEF Begin, Finish, Reply, LoginStates, Goto
  <2>3. CASE \E c \in Conns : SpreadTo(w, c)
    BY <1>1, <2>3 DEF SpreadTo
  <2>4. CASE \/ LoadProfile(w) \/ LoadFlag(w) \/ LoadFromTable(w) \/ FillProfile(w) \/ FillFlag(w)
             \/ MarkOnline(w)
    <3>1. pc[w] \in LoginStates /\ UNCHANGED task
      BY <2>4 DEF LoadProfile, LoadFlag, LoadFromTable, FillProfile, FillFlag, MarkOnline, Goto,
         dataRest, LoginStates
    <3>2. Body(w).kind = "login"
      BY <3>1 DEF Roles
    <3>3. \E from, to : from # "idle" /\ Goto(w, from, to)
      BY <2>4 DEF LoadProfile, LoadFlag, LoadFromTable, FillProfile, FillFlag, MarkOnline
    <3> QED
      BY <3>1, <3>2, <3>3, RolesKept
  <2>5. CASE SetUserInfo(w) \/ Admit(w) \/ Grant(w)
    <3>1. pc[w] \in LoginStates /\ UNCHANGED task
      BY <2>5 DEF SetUserInfo, Admit, Grant, Goto, LoginStates
    <3>2. Body(w).kind = "login"
      BY <3>1 DEF Roles
    <3>3. \E from, to : from # "idle" /\ Goto(w, from, to)
      BY <2>5 DEF SetUserInfo, Admit, Grant
    <3> QED
      BY <3>1, <3>2, <3>3, RolesKept
  <2>6. CASE Record(w)
    BY <2>6, RolesKept DEF Record, LoginStates
  <2>7. CASE RefuseUnknown(w) \/ Refuse(w) \/ SpreadDone(w)
    BY <2>7, RolesKept DEF RefuseUnknown, Refuse, SpreadDone, Reply, Finish
  <2> QED
    BY <1>6, <2>1, <2>2, <2>3, <2>4, <2>5, <2>6, <2>7 DEF Work
<1> QED
  BY <1>2, <1>3, <1>4, <1>5, <1>6 DEF Next, AllGone

\* Every step keeps Closing: the connection being closed stays closed.
LEMMA ClosingStep ==
  ASSUME TypeOK, Closing, Named, [Next]_vars
  PROVE  Closing'
<1>1. CASE UNCHANGED <<connected, closeVars>>
  BY <1>1 DEF Closing, closeVars
<1>2. ASSUME NEW c \in Conns, Accept(c) \/ \E r \in Requests : Receive(c, r)
      PROVE  Closing'
  BY <1>1, <1>2 DEF Accept, Receive, connVars, closeVars, Closing
<1>3. ASSUME NEW c \in Conns, Hangup(c)
      PROVE  Closing'
  BY <1>3 DEF Hangup, Closing, TypeOK
<1>4. CASE SeeSession
  <2>1. closing \in Conns /\ ~connected[closing]
    BY <1>4 DEF SeeSession, Closing
  <2>2. loggedIn[closing] => username[closing] \in Names
    BY <2>1 DEF Named, TypeOK
  <2> QED
    BY <1>4, <2>1, <2>2 DEF SeeSession, Closing, closeRest
<1>5. CASE MarkOff \/ Logout \/ Remove \/ \E c \in Conns : Farewell(c)
  BY <1>5 DEF MarkOff, Logout, Remove, Farewell, Closing, closeRest
<1>6. ASSUME NEW n \in Names, Expire(n)
      PROVE  Closing'
  BY <1>1, <1>6 DEF Expire, connVars
<1>7. CASE UNCHANGED vars
  BY <1>1, <1>7 DEF vars, connVars
<1>8. ASSUME NEW w \in Workers, Work(w)
      PROVE  Closing'
  BY <1>1, <1>8 DEF Work, Take, Begin, LoadProfile, LoadFlag, LoadFromTable, RefuseUnknown,
     FillProfile, FillFlag, Refuse, SetUserInfo, Admit, MarkOnline, Grant, Record, SpreadDone,
     SpreadTo, dataRest, beginRest, workRest, Reply, Finish
<1> QED
  BY <1>2, <1>3, <1>4, <1>5, <1>6, <1>7, <1>8 DEF Next, AllGone, Close

\* Every step keeps Named: a name is never erased, and the flag comes after it.
LEMMA NamedStep ==
  ASSUME TypeOK, Roles, Named, [Next]_vars
  PROVE  Named'
<1>1. CASE UNCHANGED <<loggedIn, username, pc, task>>
  BY <1>1 DEF Named, Client
<1>2. ASSUME NEW c \in Conns, Accept(c) \/ Hangup(c) \/ \E r \in Requests : Receive(c, r)
      PROVE  Named'
  BY <1>1, <1>2 DEF Accept, Hangup, Receive, connVars, localVars
<1>3. CASE SeeSession \/ MarkOff \/ Remove \/ \E c \in Conns : Farewell(c)
  BY <1>1, <1>3 DEF SeeSession, MarkOff, Remove, Farewell, closeRest, localVars
<1>4. CASE Logout
  <2>1. \A c \in Conns : loggedIn'[c] => loggedIn[c]
    BY <1>4 DEF Logout, TypeOK
  <2> QED
    BY <1>4, <2>1 DEF Logout, Named, Client, closeRest, localVars
<1>5. ASSUME NEW n \in Names, Expire(n)
      PROVE  Named'
  BY <1>1, <1>5 DEF Expire, connVars, localVars
<1>6. CASE UNCHANGED vars
  BY <1>1, <1>6 DEF vars, connVars, localVars
<1>7. ASSUME NEW w \in Workers, Work(w)
      PROVE  Named'
  <2>1. ASSUME NEW from, NEW to, Goto(w, from, to), to # "admit", UNCHANGED <<loggedIn, username>>,
               \A v \in Workers : v # w => task'[v] = task[v]
        PROVE  Named'
    <3>1. \A v \in Workers : pc'[v] = "admit" => v # w /\ pc[v] = "admit" /\ task'[v] = task[v]
      BY <2>1 DEF Goto, TypeOK
    <3> QED
      BY <2>1, <3>1 DEF Named, Client
  <2>2. CASE SetUserInfo(w)
    <3>1. Client(w) \in Conns /\ Body(w).name \in Names /\ Body(w).name # None
      BY <2>2, AtWork, SessionAssumption DEF SetUserInfo, Goto, LoginStates
    <3>2. /\ \A c \in Conns : username'[c] = IF c = Client(w) THEN Body(w).name ELSE username[c]
          /\ \A v \in Workers : pc'[v] = "admit" => v = w \/ pc[v] = "admit"
          /\ UNCHANGED <<loggedIn, task>>
      BY <2>2, <3>1 DEF SetUserInfo, Goto, TypeOK
    <3>3. \A v \in Workers : pc[v] = "admit" => Client(v) \in Conns
      BY AtWork
    <3> QED
      BY <3>1, <3>2, <3>3 DEF Named, Client
  <2>3. CASE Admit(w)
    <3>1. Client(w) \in Conns /\ username[Client(w)] # None
      BY <2>3, AtWork DEF Admit, Goto, Named
    <3>2. /\ \A c \in Conns : loggedIn'[c] => loggedIn[c] \/ c = Client(w)
          /\ UNCHANGED <<username, task>>
      BY <2>3, <3>1 DEF Admit, TypeOK
    <3>3. \A v \in Workers : pc'[v] = "admit" => pc[v] = "admit"
      BY <2>3 DEF Admit, Goto, TypeOK
    <3> QED
      BY <3>1, <3>2, <3>3 DEF Named, Client
  <2>4. CASE Take(w)
    <3>1. \A v \in Workers : v # w => task'[v] = task[v]
      BY <2>4 DEF Take, TypeOK
    <3> QED
      BY <2>1, <2>4, <3>1 DEF Take
  <2>5. CASE LoadProfile(w) \/ LoadFlag(w) \/ LoadFromTable(w) \/ FillProfile(w) \/ FillFlag(w)
             \/ MarkOnline(w)
    <3>1. /\ \E from, to : to # "admit" /\ Goto(w, from, to)
          /\ UNCHANGED <<loggedIn, username, task>>
      BY <2>5 DEF LoadProfile, LoadFlag, LoadFromTable, FillProfile, FillFlag, MarkOnline, dataRest
    <3> QED
      BY <2>1, <3>1
  <2>6. CASE Grant(w) \/ Record(w)
    BY <2>1, <2>6 DEF Grant, Record
  <2>7. ASSUME NEW from, Finish(w, from), UNCHANGED <<loggedIn, username>>
        PROVE  Named'
    <3>1. \A v \in Workers : v # w => task'[v] = task[v]
      BY <2>7 DEF Finish, TypeOK
    <3> QED
      BY <2>1, <2>7, <3>1 DEF Finish
  <2>8. CASE Begin(w) \/ RefuseUnknown(w) \/ Refuse(w) \/ SpreadDone(w)
    <3>1. UNCHANGED <<loggedIn, username>>
      BY <2>8 DEF Begin, RefuseUnknown, Refuse, SpreadDone, beginRest
    <3>2. CASE RefuseUnknown(w) \/ Refuse(w) \/ SpreadDone(w)
      BY <2>7, <3>1, <3>2 DEF RefuseUnknown, Refuse, SpreadDone, Reply
    <3>3. CASE Begin(w) /\ pc'[w] = "idle"
      <4>1. Finish(w, "begin")
        BY <3>3 DEF Begin, Reply, Goto, TypeOK
      <4> QED
        BY <2>7, <3>1, <4>1
    <3>4. CASE Begin(w) /\ pc'[w] # "idle"
      <4>1. /\ Goto(w, "begin", "profile") \/ Goto(w, "begin", "record")
            /\ UNCHANGED task
        BY <3>4 DEF Begin, Reply, Finish, Goto, TypeOK
      <4> QED
        BY <2>1, <3>1, <4>1
    <3> QED
      BY <2>8, <3>2, <3>3, <3>4
  <2>9. CASE \E c \in Conns : SpreadTo(w, c)
    BY <1>1, <2>9 DEF SpreadTo
  <2> QED
    BY <1>7, <2>2, <2>3, <2>4, <2>5, <2>6, <2>8, <2>9 DEF Work
<1> QED
  BY <1>2, <1>3, <1>4, <1>5, <1>6, <1>7 DEF Next, AllGone, Close

\* Every step keeps the types.
LEMMA TypeStep ==
  ASSUME TypeOK, Roles, Census, Closing, Named, [Next]_vars
  PROVE  TypeOK'
<1> USE DEF WorkerStates, ReactorStates
<1>1. ASSUME NEW c \in Conns, Accept(c)
      PROVE  TypeOK'
  BY <1>1 DEF Accept, TypeOK, redisVars, queueVars, localVars, closeVars
<1>2. ASSUME NEW c \in Conns, NEW r \in Requests, Receive(c, r)
      PROVE  TypeOK'
  <2>1. [conn |-> c, id |-> Len(asked) + 1, body |-> r] \in TaskSet
    BY <1>2, SessionAssumption DEF Receive, TypeOK, TaskSet
  <2>2. tasks' \in Seq(TaskSet) /\ asked' \in Seq(Conns)
    BY <1>2, <2>1 DEF Receive, TypeOK
  <2> QED
    BY <1>2, <2>2 DEF Receive, TypeOK, connVars, redisVars, localVars, closeVars
<1>3. ASSUME NEW c \in Conns, Hangup(c)
      PROVE  TypeOK'
  BY <1>3 DEF Hangup, TypeOK, redisVars, queueVars, localVars
<1>4. CASE SeeSession
  BY <1>4 DEF SeeSession, TypeOK, Closing, closeRest, redisVars, queueVars, localVars
<1>5. CASE MarkOff
  BY <1>5 DEF MarkOff, TypeOK, Closing, closeRest, queueVars, localVars
<1>6. ASSUME NEW c \in Conns, Farewell(c)
      PROVE  TypeOK'
  <2>1. outbox' \in Outboxes
    BY <1>6, SendType, SessionAssumption DEF Farewell, PacketKinds
  <2> QED
    BY <1>6, <2>1 DEF Farewell, TypeOK, Outboxes, PacketSet, closeRest, redisVars, queueVars, localVars
<1>7. CASE Logout \/ Remove
  BY <1>7 DEF Logout, Remove, TypeOK, closeRest, redisVars, queueVars, localVars
<1>8. ASSUME NEW n \in Names, Expire(n)
      PROVE  TypeOK'
  BY <1>8 DEF Expire, TypeOK, connVars, queueVars, localVars, closeVars
<1>9. CASE UNCHANGED vars
  BY <1>9 DEF vars, TypeOK, connVars, redisVars, queueVars, localVars, closeVars
<1>10. ASSUME NEW w \in Workers, Work(w)
       PROVE  TypeOK'
  <2>1. /\ loggedIn \in [Conns -> BOOLEAN] /\ username \in [Conns -> Names \cup {None}]
        /\ outbox \in Outboxes /\ profile \in [Names -> BOOLEAN]
        /\ online \in [Names -> {"nil", "0", "1"}] /\ slots \in 0..PoolSize
        /\ tasks \in Seq(TaskSet) /\ pc \in [Workers -> WorkerStates]
        /\ task \in [Workers -> TaskSet \cup {NoTask}] /\ sawOnline \in [Workers -> BOOLEAN]
        /\ todo \in [Workers -> SUBSET Conns] /\ connections \in SUBSET Conns
        /\ slots \in Int /\ PoolSize \in Int
    <3>1. slots \in 0..PoolSize /\ slots \in Int /\ PoolSize \in Int
      BY SessionAssumption DEF TypeOK
    <3> QED
      BY <3>1 DEF TypeOK, Outboxes, PacketSet
  <2>2. pc[w] # "idle" =>
          /\ Client(w) \in Conns /\ task[w].id \in 0..MaxRequests
          /\ pc[w] \in LoginStates => Body(w).name \in Names
    BY AtWork
  <2>3. pc[w] \in {"flag", "fillFlag"} => slots + 1 \in 0..PoolSize
    <3>1. ASSUME pc[w] \in {"flag", "fillFlag"}
          PROVE  slots < PoolSize
      BY <3>1, CensusBounds DEF Holders
    <3> QED
      BY <2>1, <3>1
  <2>4. ASSUME NEW from, NEW k \in PacketKinds, from # "idle", Reply(w, from, k)
        PROVE  outbox' \in Outboxes
    BY <2>2, <2>4, SendType DEF Reply, Finish, Goto
  <2>5. CASE Take(w)
    <3>1. Head(tasks) \in TaskSet /\ Tail(tasks) \in Seq(TaskSet)
      BY <2>1, <2>5 DEF Take
    <3> QED
      BY <2>1, <2>5, <3>1, WorkTypes DEF Take, Goto, redisVars
  <2>6. CASE Begin(w)
    <3>1. CASE pc'[w] = "idle"
      <4>1. Finish(w, "begin") /\ UNCHANGED beginRest /\ (UNCHANGED outbox \/ Reply(w, "begin", "error"))
        BY <2>6, <3>1 DEF Begin, Reply, Goto, TypeOK
      <4>2. outbox' \in Outboxes
        BY <2>1, <2>4, <4>1 DEF PacketKinds
      <4> QED
        BY <2>1, <4>1, <4>2, FinishTypes, WorkTypes DEF beginRest, redisVars
    <3>2. CASE pc'[w] # "idle"
      <4>1. /\ Goto(w, "begin", "profile") \/ Goto(w, "begin", "record")
            /\ UNCHANGED <<beginRest, outbox, task, sawOnline, todo>>
        BY <2>6, <3>2 DEF Begin, Reply, Finish, Goto, TypeOK
      <4> QED
        BY <2>1, <4>1, WorkTypes DEF beginRest, redisVars, Goto
    <3> QED
      BY <3>1, <3>2
  <2>7. CASE LoadProfile(w)
    <3>1. slots' \in 0..PoolSize /\ pc' \in [Workers -> WorkerStates]
      BY <2>1, <2>7 DEF LoadProfile, Goto
    <3> QED
      BY <2>1, <2>7, <3>1, WorkTypes DEF LoadProfile, dataRest
  <2>8. CASE LoadFlag(w)
    <3>1. slots' \in 0..PoolSize /\ pc' \in [Workers -> WorkerStates]
      BY <2>1, <2>3, <2>8 DEF LoadFlag, Goto
    <3>2. sawOnline' \in [Workers -> BOOLEAN]
      BY <2>1, <2>8 DEF LoadFlag
    <3> QED
      BY <2>1, <2>8, <3>1, <3>2, WorkTypes DEF LoadFlag, dataRest
  <2>9. CASE LoadFromTable(w)
    BY <2>1, <2>9, WorkTypes DEF LoadFromTable, Goto, dataRest, redisVars
  <2>10. CASE FillProfile(w)
    <3>1. slots' \in 0..PoolSize
      BY <2>1, <2>10 DEF FillProfile
    <3>2. pc' \in [Workers -> WorkerStates] /\ profile' \in [Names -> BOOLEAN]
      BY <2>1, <2>10 DEF FillProfile, Goto
    <3> QED
      BY <2>1, <2>10, <3>1, <3>2, WorkTypes DEF FillProfile, dataRest
  <2>11. CASE FillFlag(w)
    <3>1. slots' \in 0..PoolSize /\ pc' \in [Workers -> WorkerStates]
          /\ online' \in [Names -> {"nil", "0", "1"}]
      BY <2>1, <2>3, <2>11 DEF FillFlag, Goto
    <3> QED
      BY <2>1, <2>11, <3>1, WorkTypes DEF FillFlag, dataRest
  <2>12. CASE MarkOnline(w)
    <3>1. pc' \in [Workers -> WorkerStates] /\ online' \in [Names -> {"nil", "0", "1"}]
      BY <2>1, <2>12 DEF MarkOnline, Goto
    <3> QED
      BY <2>1, <2>12, <3>1, WorkTypes DEF MarkOnline, dataRest
  <2>13. CASE SetUserInfo(w)
    <3>1. username' \in [Conns -> Names \cup {None}]
      BY <2>1, <2>2, <2>13 DEF SetUserInfo, Goto, LoginStates
    <3> QED
      BY <2>1, <2>13, <3>1, WorkTypes DEF SetUserInfo, Goto, redisVars
  <2>14. CASE Admit(w)
    BY <2>1, <2>2, <2>14, WorkTypes DEF Admit, Goto, redisVars
  <2>15. CASE Grant(w)
    <3>1. outbox' \in Outboxes
      BY <2>2, <2>15, SendType DEF Grant, Goto, PacketKinds
    <3> QED
      BY <2>1, <2>15, <3>1, WorkTypes DEF Grant, Goto, redisVars
  <2>16. CASE Record(w)
    BY <2>1, <2>16, WorkTypes DEF Record, Goto, redisVars
  <2>17. CASE RefuseUnknown(w) \/ Refuse(w)
    <3>1. PICK from : from # "idle" /\ Reply(w, from, "refused")
      BY <2>17 DEF RefuseUnknown, Refuse
    <3>2. outbox' \in Outboxes
      BY <2>4, <3>1 DEF PacketKinds
    <3>3. Finish(w, from) /\ UNCHANGED beginRest
      BY <2>17, <3>1 DEF RefuseUnknown, Refuse, Reply
    <3> QED
      BY <2>1, <3>2, <3>3, FinishTypes, WorkTypes DEF beginRest, redisVars
  <2>18. CASE SpreadDone(w)
    <3>1. PICK from : Finish(w, from)
      BY <2>18 DEF SpreadDone
    <3>2. UNCHANGED <<beginRest, outbox>>
      BY <2>18 DEF SpreadDone
    <3> QED
      BY <2>1, <3>1, <3>2, FinishTypes, WorkTypes DEF beginRest, redisVars
  <2>19. ASSUME NEW c \in Conns, SpreadTo(w, c)
         PROVE  TypeOK'
    <3>1. outbox' \in Outboxes
      BY <2>2, <2>19, SendType DEF SpreadTo, PacketKinds
    <3> QED
      BY <2>1, <2>19, <3>1, WorkTypes DEF SpreadTo, redisVars
  <2> QED
    BY <1>10, <2>5, <2>6, <2>7, <2>8, <2>9, <2>10, <2>11, <2>12, <2>13, <2>14, <2>15, <2>16,
       <2>17, <2>18, <2>19 DEF Work
<1> QED
  BY <1>1, <1>2, <1>3, <1>4, <1>5, <1>6, <1>7, <1>8, <1>9, <1>10 DEF Next, AllGone, Close

\* The invariant holds at the start.
LEMMA InitIndInv == Init => IndInv
<1> SUFFICES ASSUME Init PROVE IndInv
  OBVIOUS
<1>1. TypeOK
  <2>1. slots \in 0..PoolSize
    BY SessionAssumption DEF Init
  <2>2. /\ connected \in [Conns -> BOOLEAN] /\ loggedIn \in [Conns -> BOOLEAN]
        /\ username \in [Conns -> Names \cup {None}]
        /\ connections \subseteq Conns /\ fresh \subseteq Conns
        /\ outbox \in [Conns -> Seq([kind : PacketKinds, about : 0..MaxRequests])]
        /\ profile \in [Names -> BOOLEAN] /\ online \in [Names -> {"nil", "0", "1"}]
    BY DEF Init
  <2>3. /\ tasks \in Seq(TaskSet) /\ asked \in Seq(Conns)
        /\ pc \in [Workers -> WorkerStates] /\ task \in [Workers -> TaskSet \cup {NoTask}]
        /\ sawOnline \in [Workers -> BOOLEAN] /\ todo \in [Workers -> SUBSET Conns]
        /\ reactor \in ReactorStates /\ closing \in Conns \cup {None}
        /\ leaver \in Names \cup {None} /\ visiting \subseteq Conns
    BY DEF Init, WorkerStates, ReactorStates
  <2> QED
    BY <2>1, <2>2, <2>3 DEF TypeOK
<1>2. Roles /\ Closing /\ Named
  BY DEF Init, Roles, Closing, Named, LoginStates
<1>3. Census
  <2>1. Holders = {} /\ slots = PoolSize
    BY DEF Init, Holders
  <2>2. Cardinality({}) = 0
    BY FS_EmptySet
  <2> QED
    BY <2>1, <2>2, SessionAssumption DEF Census
<1> QED
  BY <1>1, <1>2, <1>3 DEF IndInv

\* It is inductive.
LEMMA NextIndInv == IndInv /\ [Next]_vars => IndInv'
BY TypeStep, RolesStep, CensusStep, ClosingStep, NamedStep DEF IndInv

\* Every reachable state satisfies the inductive invariant.
THEOREM Invariance == Spec => []IndInv
<1>1. Init => IndInv
  BY InitIndInv
<1>2. IndInv /\ [Next]_vars => IndInv'
  BY NextIndInv
<1> QED
  BY <1>1, <1>2, PTL DEF Spec

\* Every variable keeps its type; in particular no Redis connection is given
\* back twice (loadUserFromRedis and cacheUserToRedis, lines 295-350).
THEOREM TypeCorrect == Spec => []TypeOK
<1>1. IndInv => TypeOK
  BY DEF IndInv
<1> QED
  BY <1>1, Invariance, PTL

\* Whoever sees logged_in_ finds a name as well, with any number of workers that
\* log in the same connection (lines 229-230, 252-255, 238-247).
THEOREM SessionsHaveNames == Spec => []SessionHasName
<1>1. IndInv => SessionHasName
  BY DEF IndInv, Named, SessionHasName
<1> QED
  BY <1>1, Invariance, PTL

-----------------------------------------------------------------------------
(* Logins one after the other: uniqueness and marks of sessions.           *)

\* Nothing reaches a connection before it is accepted.
LEMMA UnknownStep ==
  ASSUME IndInv, Unknown, [Next]_vars
  PROVE  Unknown'
<1> USE DEF IndInv
<1>1. CASE /\ fresh' \subseteq fresh /\ UNCHANGED <<loggedIn, task, tasks>>
           /\ \A c \in fresh' : connected'[c] = connected[c]
  BY <1>1 DEF Unknown
<1>2. ASSUME NEW c \in Conns, Accept(c) \/ Hangup(c)
      PROVE  Unknown'
  <2>1. \A d \in fresh' : connected'[d] => connected[d]
    BY <1>2 DEF Accept, Hangup, TypeOK
  <2> QED
    BY <1>2, <2>1 DEF Accept, Hangup, queueVars, localVars, Unknown
<1>3. ASSUME NEW c \in Conns, NEW r \in Requests, Receive(c, r)
      PROVE  Unknown'
  <2>1. c \notin fresh
    BY <1>3 DEF Receive, Unknown
  <2>2. \A i \in 1..Len(tasks') : tasks'[i].conn = c \/ \E j \in 1..Len(tasks) : tasks'[i] = tasks[j]
    <3>1. DEFINE t == [conn |-> c, id |-> Len(asked) + 1, body |-> r]
    <3>2. tasks' = Append(tasks, t) /\ t.conn = c
      BY <1>3 DEF Receive
    <3>3. ASSUME NEW i \in 1..Len(tasks')
          PROVE  tasks'[i] = t \/ (i \in 1..Len(tasks) /\ tasks'[i] = tasks[i])
      <4> HIDE DEF t
      <4>1. tasks \in Seq(TaskSet) /\ i \in Int /\ i >= 1 /\ Len(tasks) \in Nat
        BY <3>3 DEF TypeOK
      <4>2. Len(tasks') = Len(tasks) + 1 /\ tasks'[Len(tasks) + 1] = t
        BY <3>2, <4>1
      <4>3. ASSUME i <= Len(tasks)
            PROVE  tasks'[i] = tasks[i]
        BY <3>2, <4>1, <4>3
      <4> QED
        BY <3>3, <4>1, <4>2, <4>3
    <3> HIDE DEF t
    <3> QED
      BY <3>2, <3>3
  <2> QED
    BY <1>3, <2>1, <2>2 DEF Receive, Unknown, connVars, localVars
<1>4. CASE Close
  <2>1. \A c \in Conns : loggedIn'[c] => loggedIn[c]
    BY <1>4 DEF Close, SeeSession, MarkOff, Logout, Remove, Farewell, closeRest, TypeOK
  <2>2. UNCHANGED <<connected, fresh, tasks, task>>
    BY <1>4 DEF Close, SeeSession, MarkOff, Logout, Remove, Farewell, closeRest, queueVars, localVars
  <2> QED
    BY <2>1, <2>2 DEF Unknown, TypeOK
<1>5. ASSUME NEW n \in Names, Expire(n)
      PROVE  Unknown'
  BY <1>1, <1>5 DEF Expire, connVars, queueVars, localVars
<1>6. CASE UNCHANGED vars
  BY <1>1, <1>6 DEF vars, connVars, queueVars, localVars
<1>7. ASSUME NEW w \in Workers, Work(w)
      PROVE  Unknown'
  <2>1. UNCHANGED <<connected, fresh>>
    BY <1>7 DEF Work, Take, Begin, LoadProfile, LoadFlag, LoadFromTable, RefuseUnknown, FillProfile,
       FillFlag, Refuse, SetUserInfo, Admit, MarkOnline, Grant, Record, SpreadDone, SpreadTo,
       dataRest, beginRest, workRest
  <2>2. CASE Take(w)
    <3>1. \A i \in 1..Len(tasks') : tasks'[i] = tasks[i + 1] /\ i + 1 \in 1..Len(tasks)
      BY <2>2 DEF Take, TypeOK
    <3>2. Head(tasks) = tasks[1] /\ 1 \in 1..Len(tasks)
      BY <2>2 DEF Take, TypeOK
    <3>3. \A v \in Workers : task'[v] = task[v] \/ task'[v] = tasks[1]
      BY <2>2, <3>2 DEF Take, TypeOK
    <3> QED
      BY <2>1, <2>2, <3>1, <3>2, <3>3 DEF Take, Unknown
  <2>3. CASE Admit(w)
    <3>1. Client(w) \in Conns
      BY <2>3, AtWork DEF Admit, Goto
    <3>2. \A c \in fresh : c # Client(w) /\ c \in Conns
      BY DEF Unknown, Client, TypeOK
    <3>3. \A c \in fresh : loggedIn'[c] = loggedIn[c]
      BY <2>3, <3>2 DEF Admit, TypeOK
    <3> QED
      BY <2>1, <2>3, <3>3 DEF Admit, Unknown
  <2>4. CASE ~Take(w) /\ ~Admit(w)
    <3>1. UNCHANGED <<loggedIn, tasks>>
      BY <1>7, <2>4 DEF Work, Begin, LoadProfile, LoadFlag, LoadFromTable, RefuseUnknown,
         FillProfile, FillFlag, Refuse, SetUserInfo, MarkOnline, Grant, Record, SpreadDone, SpreadTo,
         dataRest, beginRest
    <3>2. UNCHANGED task \/ task' = [task EXCEPT ![w] = NoTask]
      BY <1>7, <2>4 DEF Work, Begin, LoadProfile, LoadFlag, LoadFromTable, RefuseUnknown,
         FillProfile, FillFlag, Refuse, SetUserInfo, MarkOnline, Grant, Record, SpreadDone, SpreadTo,
         dataRest, Reply, Finish
    <3>3. \A v \in Workers : task'[v] = task[v] \/ task'[v] = NoTask
      BY <3>2 DEF TypeOK
    <3>4. \A c \in Conns : NoTask.conn # c
      BY SessionAssumption DEF NoTask
    <3> QED
      BY <2>1, <3>1, <3>3, <3>4 DEF Unknown, TypeOK
  <2> QED
    BY <2>2, <2>3, <2>4
<1> QED
  BY <1>2, <1>3, <1>4, <1>5, <1>6, <1>7 DEF Next, AllGone

\* A worker that found its user offline has a login in hand.
LEMMA Found ==
  ASSUME TypeOK, Roles, NEW w \in Workers, FoundOffline(w)
  PROVE  Body(w).name \in Names /\ Client(w) \in Conns /\ pc[w] \in Deciding
<1>1. pc[w] \in LoginStates /\ pc[w] # "idle" /\ pc[w] \in Deciding
  BY DEF FoundOffline, LoginStates, Deciding
<1> QED
  BY <1>1, AtWork

\* A step of the reactor gives nobody a session, and marks nobody online.
LEMMA ReactorKeeps ==
  ASSUME TypeOK, Roles, Exclusion, UNCHANGED <<pc, task, sawOnline, username, profile>>,
         \A n \in Names : online'[n] = "1" => online[n] = "1",
         \A c \in Conns, n \in Names : Owns(c, n)' => Owns(c, n) /\ online'[n] = online[n],
         \A w \in Workers : pc[w] \in {"admit", "mark"} /\ Alive(Client(w))' =>
           Alive(Client(w)) /\ loggedIn'[Client(w)] = loggedIn[Client(w)]
  PROVE  Exclusion'
<1>1. \A w \in Workers : FoundOffline(w)' <=> FoundOffline(w)
  BY DEF FoundOffline
<1>2. \A w \in Workers : Body(w)' = Body(w) /\ Client(w)' = Client(w)
  BY DEF Body, Client
<1>3. Unique'
  BY DEF Exclusion, Unique
<1>4. Marked'
  BY <1>2 DEF Exclusion, Marked, Marking
<1>5. Alone'
  <2>1. ASSUME NEW w \in Workers, NEW c \in Conns, FoundOffline(w)', Owns(c, Body(w).name)'
        PROVE  c = Client(w)'
    <3>1. FoundOffline(w) /\ Body(w)' = Body(w) /\ Body(w).name \in Names
      BY <1>1, <1>2, <2>1, Found
    <3>2. Owns(c, Body(w).name)
      BY <2>1, <3>1
    <3> QED
      BY <1>2, <3>1, <3>2 DEF Exclusion, Alone
  <2> QED
    BY <2>1 DEF Alone
<1>6. Cached'
  <2>1. ASSUME NEW w \in Workers, pc[w] \in LoginStates
        PROVE  Body(w).name \in Names
    BY <2>1, AtWork DEF LoginStates
  <2> QED
    BY <1>2, <2>1 DEF Exclusion, Cached, LoginStates
<1>7. Admitted'
  <2>1. \A c : Entering(c)' <=> Entering(c)
    BY <1>2 DEF Entering
  <2>2. ASSUME NEW w \in Workers, pc'[w] \in {"admit", "mark"}, Alive(Client(w))'
        PROVE  loggedIn'[Client(w)] \/ (pc[w] = "admit" /\ Entering(Client(w)))
    <3>1. Alive(Client(w)) /\ loggedIn'[Client(w)] = loggedIn[Client(w)]
      BY <1>2, <2>2
    <3> QED
      BY <2>2, <3>1 DEF Exclusion, Admitted
  <2> QED
    BY <1>2, <2>1, <2>2 DEF Admitted
<1> QED
  BY <1>3, <1>4, <1>5, <1>6, <1>7 DEF Exclusion

\* A step of w leaves the other workers alone.
Others(w) ==
  \A v \in Workers \ {w} : pc'[v] = pc[v] /\ task'[v] = task[v] /\ sawOnline'[v] = sawOnline[v]

LEMMA OthersKept ==
  ASSUME TypeOK, NEW w \in Workers, Work(w)
  PROVE  Others(w)
<1>1. \A from, to : Goto(w, from, to) => \A v \in Workers \ {w} : pc'[v] = pc[v]
  BY DEF Goto, TypeOK
<1>2. \A from : Finish(w, from) => Others(w)
  BY <1>1 DEF Finish, Others, TypeOK
<1>3. \A from, k : Reply(w, from, k) => Others(w)
  BY <1>2 DEF Reply
<1>4. CASE Take(w)
  BY <1>1, <1>4 DEF Take, Others, TypeOK
<1>5. CASE Begin(w)
  BY <1>1, <1>2, <1>3, <1>5 DEF Begin, Others
<1>6. CASE LoadProfile(w) \/ FillProfile(w) \/ FillFlag(w) \/ MarkOnline(w)
  BY <1>1, <1>6 DEF LoadProfile, FillProfile, FillFlag, MarkOnline, Others, dataRest
<1>7. CASE LoadFlag(w) \/ LoadFromTable(w)
  BY <1>1, <1>7 DEF LoadFlag, LoadFromTable, Others, dataRest, TypeOK
<1>8. CASE RefuseUnknown(w) \/ Refuse(w) \/ SpreadDone(w)
  BY <1>2, <1>3, <1>8 DEF RefuseUnknown, Refuse, SpreadDone
<1>9. CASE SetUserInfo(w) \/ Admit(w) \/ Grant(w) \/ Record(w)
  BY <1>1, <1>9 DEF SetUserInfo, Admit, Grant, Record, Others
<1>10. CASE \E c \in Conns : SpreadTo(w, c)
  BY <1>10 DEF SpreadTo, Others
<1> QED
  BY <1>4, <1>5, <1>6, <1>7, <1>8, <1>9, <1>10 DEF Work

\* What the others have in hand.
LEMMA OthersAsBefore ==
  ASSUME NEW w \in Workers, Others(w), NEW v \in Workers, v # w
  PROVE  /\ pc'[v] = pc[v] /\ Body(v)' = Body(v) /\ Client(v)' = Client(v)
         /\ FoundOffline(v)' <=> FoundOffline(v)
BY DEF Others, Body, Client, FoundOffline

\* A worker does something else than to look up or let in a user.
LEMMA WorkerElsewhere ==
  ASSUME TypeOK, Roles, Exclusion, NEW w \in Workers, Others(w),
         UNCHANGED <<connected, loggedIn, username, closeVars, online, profile>>,
         pc[w] \notin {"admit", "mark"}, pc'[w] \notin {"admit", "mark"}, ~FoundOffline(w)',
         pc'[w] \in {"flag", "decide"} => profile[Body(w).name] /\ task'[w] = task[w]
  PROVE  Exclusion'
<1>1. \A c, n : Owns(c, n)' <=> Owns(c, n)
  BY DEF Owns, Alive, closeVars
<1>2. \A c : Alive(c)' <=> Alive(c)
  BY DEF Alive, closeVars
<1>3. Unique'
  BY <1>1 DEF Exclusion, Unique
<1>4. Marked'
  <2>1. \A v \in Workers, c \in Conns, n \in Names : Marking(v, c, n) => Marking(v, c, n)'
    BY OthersAsBefore DEF Marking
  <2> QED
    BY <1>1, <2>1 DEF Exclusion, Marked
<1>5. Alone'
  BY <1>1, OthersAsBefore DEF Exclusion, Alone
<1>6. Cached'
  <2>1. pc'[w] \notin {"database", "fill", "fillFlag"}
    BY DEF FoundOffline
  <2>2. pc'[w] \in {"flag", "decide"} => profile'[Body(w)'.name]
    BY DEF Body
  <2> QED
    BY <2>1, <2>2, OthersAsBefore DEF Exclusion, Cached
<1>7. Admitted'
  <2>1. \A c \in Conns : Entering(c) => Entering(c)'
    BY OthersAsBefore DEF Entering
  <2>2. \A v \in Workers : pc[v] # "idle" => Client(v) \in Conns
    BY AtWork
  <2> QED
    BY <1>2, <2>1, <2>2, OthersAsBefore DEF Exclusion, Admitted
<1> QED
  BY <1>3, <1>4, <1>5, <1>6, <1>7 DEF Exclusion

\* A worker has found its user offline, in the cache or by its absence.
LEMMA WorkerFindsOffline ==
  ASSUME TypeOK, Roles, NoOverlap, Exclusion, NEW w \in Workers, Others(w),
         NEW n \in Names, n = Body(w).name,
         UNCHANGED <<connected, loggedIn, username, closeVars, task>>,
         pc[w] \in Deciding \ {"admit", "mark"},
         pc'[w] \in {"database", "fill", "fillFlag", "decide"},
         online[n] # "1",
         UNCHANGED online \/ online' = [online EXCEPT ![n] = "0"],
         UNCHANGED profile \/ profile' = [profile EXCEPT ![n] = TRUE],
         pc'[w] \in {"fillFlag", "decide"} => profile'[n]
  PROVE  Exclusion'
<1>1. \A c, m : Owns(c, m)' <=> Owns(c, m)
  BY DEF Owns, Alive, closeVars
<1>2. \A c : Alive(c)' <=> Alive(c)
  BY DEF Alive, closeVars
<1>3. \A c \in Conns : ~Owns(c, n)
  <2>1. \A v \in Workers, c \in Conns : ~Marking(v, c, n)
    BY DEF Marking, NoOverlap, Deciding
  <2> QED
    BY <2>1 DEF Exclusion, Marked
<1>4. Body(w)' = Body(w)
  BY DEF Body
<1>5. \A m \in Names : IF m = n THEN online'[m] # "1" ELSE online'[m] = online[m]
  BY DEF TypeOK
<1>6. \A m \in Names : profile[m] => profile'[m]
  BY DEF TypeOK
<1>7. Unique'
  BY <1>1 DEF Exclusion, Unique
<1>8. Marked'
  <2>1. \A v \in Workers, c \in Conns, m \in Names : Marking(v, c, m) => Marking(v, c, m)'
    BY OthersAsBefore DEF Marking
  <2> QED
    BY <1>1, <1>3, <1>5, <2>1 DEF Exclusion, Marked
<1>9. Alone'
  BY <1>1, <1>3, <1>4, OthersAsBefore DEF Exclusion, Alone
<1>10. Cached'
  <2>1. \A v \in Workers : pc[v] \in Deciding => Body(v).name \in Names
    BY AtWork DEF Deciding, LoginStates
  <2>2. \A m \in Names : online'[m] = "1" => online[m] = "1" /\ profile'[m]
    BY <1>5, <1>6 DEF Exclusion, Cached
  <2>3. ASSUME NEW v \in Workers
        PROVE  /\ pc'[v] \in {"database", "fill", "fillFlag"} => online'[Body(v)'.name] # "1"
               /\ pc'[v] \in {"flag", "fillFlag", "decide", "admit", "mark"}
                    => profile'[Body(v)'.name]
    <3>1. CASE v = w
      BY <1>4, <1>5, <3>1
    <3>2. CASE v # w
      <4>1. pc'[v] = pc[v] /\ Body(v)' = Body(v)
        BY <3>2, OthersAsBefore
      <4> QED
        BY <1>6, <2>1, <2>2, <4>1 DEF Exclusion, Cached, Deciding
    <3> QED
      BY <3>1, <3>2
  <2> QED
    BY <2>2, <2>3 DEF Cached
<1>11. Admitted'
  <2>1. \A c \in Conns : Entering(c) => Entering(c)'
    BY OthersAsBefore DEF Entering
  <2>2. \A v \in Workers : pc[v] # "idle" => Client(v) \in Conns
    BY AtWork
  <2> QED
    BY <1>2, <2>1, <2>2, OthersAsBefore DEF Exclusion, Admitted
<1> QED
  BY <1>7, <1>8, <1>9, <1>10, <1>11 DEF Exclusion

\* A worker lets its user in: whoever gets a session now is being let in.
LEMMA WorkerLetsIn ==
  ASSUME TypeOK, Roles, NoOverlap, Exclusion, NEW w \in Workers, Others(w),
         UNCHANGED <<online, profile, task>>,
         FoundOffline(w), pc[w] \in {"decide", "admit"}, pc'[w] \in {"admit", "mark"},
         \A c \in Conns, m \in Names : Owns(c, m)' =>
           Owns(c, m) \/ \E v \in Workers : Marking(v, c, m)' /\ FoundOffline(v),
         Admitted'
  PROVE  Exclusion'
<1>1. \A v \in Workers : Body(v)' = Body(v) /\ Client(v)' = Client(v)
  BY DEF Body, Client
<1>2. \A v \in Workers : FoundOffline(v)' => FoundOffline(v)
  BY OthersAsBefore
<1>3. \A v \in Workers, c \in Conns, m \in Names : Marking(v, c, m) => Marking(v, c, m)'
  BY <1>1, OthersAsBefore DEF Marking
<1>4. \A u, v \in Workers : FoundOffline(u) /\ FoundOffline(v) /\ Body(u).name = Body(v).name
        => u = v
  BY Found DEF NoOverlap
<1>5. ASSUME NEW u \in Workers, FoundOffline(u), NEW c \in Conns, NEW m \in Names,
             Body(u).name = m, Owns(c, m)'
      PROVE  c = Client(u)
  <2>1. CASE Owns(c, m)
    BY <1>5, <2>1 DEF Exclusion, Alone
  <2>2. CASE \E v \in Workers : Marking(v, c, m)' /\ FoundOffline(v)
    <3>1. PICK v \in Workers : Marking(v, c, m)' /\ FoundOffline(v)
      BY <2>2
    <3>2. Client(v) = c /\ Body(v).name = m
      BY <1>1, <3>1 DEF Marking
    <3> QED
      BY <1>4, <1>5, <3>1, <3>2
  <2> QED
    BY <1>5, <2>1, <2>2
<1>6. Unique'
  <2>1. ASSUME NEW c \in Conns, NEW d \in Conns, NEW m \in Names, Owns(c, m)', Owns(d, m)'
        PROVE  c = d
    <3>1. CASE Owns(c, m) /\ Owns(d, m)
      BY <3>1 DEF Exclusion, Unique
    <3>2. CASE \E v \in Workers : FoundOffline(v) /\ Body(v).name = m
      BY <1>5, <2>1, <3>2
    <3> QED
      BY <1>1, <2>1, <3>1, <3>2 DEF Marking
  <2> QED
    BY <2>1 DEF Unique
<1>7. Marked'
  BY <1>3 DEF Exclusion, Marked
<1>8. Alone'
  <2>1. \A u \in Workers : FoundOffline(u) => Body(u).name \in Names
    BY Found
  <2> QED
    BY <1>1, <1>2, <1>5, <2>1 DEF Alone
<1>9. Cached'
  <2>1. profile[Body(w).name]
    BY DEF Exclusion, Cached
  <2> QED
    BY <1>1, <2>1, OthersAsBefore DEF Exclusion, Cached
<1> QED
  BY <1>6, <1>7, <1>8, <1>9 DEF Exclusion

\* The steps of the reactor.
LEMMA ReactorExclusion ==
  ASSUME IndInv, Undisturbed, Unknown, Exclusion,
         \/ \E c \in Conns : Accept(c) \/ Hangup(c) \/ \E r \in Requests : Receive(c, r)
         \/ Close \/ UNCHANGED vars
  PROVE  Exclusion'
<1> USE DEF IndInv
<1>0. ASSUME NEW w \in Workers, pc[w] \in {"admit", "mark"}
      PROVE  Client(w) \in Conns /\ Client(w) \notin fresh
  BY <1>0, AtWork DEF Unknown, Client
<1>1. ASSUME UNCHANGED <<localVars, username, profile, online>>,
             \A c \in Conns, n \in Names : Owns(c, n)' => Owns(c, n),
             \A c \in Conns \ fresh : Alive(c)' => Alive(c) /\ loggedIn'[c] = loggedIn[c]
      PROVE  Exclusion'
  <2>1. UNCHANGED <<pc, task, sawOnline, username, profile, online>>
    BY <1>1 DEF localVars
  <2>2. \A w \in Workers : pc[w] \in {"admit", "mark"} /\ Alive(Client(w))' =>
           Alive(Client(w)) /\ loggedIn'[Client(w)] = loggedIn[Client(w)]
    BY <1>0, <1>1, <2>1 DEF Client
  <2> QED
    BY <1>1, <2>1, <2>2, ReactorKeeps
<1>2. ASSUME NEW c \in Conns, Accept(c)
      PROVE  Exclusion'
  <2>1. ~loggedIn[c] /\ c \in fresh
    BY <1>2 DEF Accept, Unknown
  <2>2. \A d \in Conns : d # c => connected'[d] = connected[d]
    BY <1>2 DEF Accept, TypeOK
  <2>3. \A d \in Conns, n \in Names : Owns(d, n)' => Owns(d, n)
    BY <1>2, <2>1, <2>2 DEF Accept, closeVars, Owns, Alive
  <2>4. \A d \in Conns \ fresh : Alive(d)' => Alive(d) /\ loggedIn'[d] = loggedIn[d]
    BY <1>2, <2>1, <2>2 DEF Accept, closeVars, Alive
  <2> QED
    BY <1>1, <1>2, <2>3, <2>4 DEF Accept, redisVars
<1>3. ASSUME NEW c \in Conns, NEW r \in Requests, Receive(c, r)
      PROVE  Exclusion'
  <2>1. UNCHANGED <<connected, loggedIn, username, reactor, closing, leaver>>
    BY <1>3 DEF Receive, connVars, closeVars
  <2>2. \A d \in Conns, n \in Names : Owns(d, n)' => Owns(d, n)
    BY <2>1 DEF Owns, Alive
  <2>3. \A d \in Conns : Alive(d)' => Alive(d) /\ loggedIn'[d] = loggedIn[d]
    BY <2>1 DEF Alive
  <2> QED
    BY <1>1, <1>3, <2>2, <2>3 DEF Receive, connVars, redisVars
<1>4. ASSUME NEW c \in Conns, Hangup(c)
      PROVE  Exclusion'
  <2>1. \A d \in Conns : connected'[d] = IF d = c THEN FALSE ELSE connected[d]
    BY <1>4 DEF Hangup, TypeOK
  <2>2. connected[c] /\ reactor' = "closed" /\ closing' = c /\ UNCHANGED <<loggedIn, username>>
    BY <1>4 DEF Hangup
  <2>3. \A d \in Conns : Alive(d)' => Alive(d) /\ loggedIn'[d] = loggedIn[d]
    BY <2>1, <2>2 DEF Alive
  <2>4. \A d \in Conns, n \in Names : Owns(d, n)' => Owns(d, n)
    BY <2>2, <2>3 DEF Owns
  <2> QED
    BY <1>1, <1>4, <2>3, <2>4 DEF Hangup, redisVars
<1>5. CASE SeeSession
  <2>1. \A d \in Conns, n \in Names : Owns(d, n)' => Owns(d, n)
    BY <1>5 DEF SeeSession, closeRest, Owns, Alive
  <2>2. \A d \in Conns : Alive(d)' => Alive(d) /\ loggedIn'[d] = loggedIn[d]
    BY <1>5 DEF SeeSession, closeRest, Alive
  <2> QED
    BY <1>1, <1>5, <2>1, <2>2 DEF SeeSession, closeRest, redisVars
<1>6. CASE MarkOff
  <2>1. closing \in Conns /\ leaver \in Names /\ ~connected[closing] /\ Owns(closing, leaver)
    BY <1>6 DEF MarkOff, Closing, Owns
  <2>2. online' = [online EXCEPT ![leaver] = "0"]
    BY <1>6 DEF MarkOff, Undisturbed
  <2>3. \A n \in Names : online'[n] = IF n = leaver THEN "0" ELSE online[n]
    BY <2>2 DEF TypeOK
  <2>4. ASSUME NEW d \in Conns, NEW n \in Names, Owns(d, n)'
        PROVE  Owns(d, n) /\ n # leaver
    <3>1. Owns(d, n) /\ connected[d]
      BY <1>6, <2>4 DEF MarkOff, closeRest, Owns, Alive
    <3>2. d # closing
      BY <2>1, <3>1
    <3> QED
      BY <2>1, <3>1, <3>2 DEF Exclusion, Unique
  <2>5. UNCHANGED <<pc, task, sawOnline, username, profile>>
    BY <1>6 DEF MarkOff, closeRest, localVars
  <2>6. \A n \in Names : online'[n] = "1" => online[n] = "1"
    BY <2>3
  <2>7. \A d \in Conns, n \in Names : Owns(d, n)' => Owns(d, n) /\ online'[n] = online[n]
    BY <2>3, <2>4
  <2>8. \A w \in Workers : pc[w] \in {"admit", "mark"} /\ Alive(Client(w))' =>
          Alive(Client(w)) /\ loggedIn'[Client(w)] = loggedIn[Client(w)]
    BY <1>6, <2>5 DEF MarkOff, closeRest, Alive, Client
  <2> QED
    BY <2>5, <2>6, <2>7, <2>8, ReactorKeeps
<1>7. CASE Logout
  <2>1. \A d \in Conns : loggedIn'[d] => loggedIn[d]
    BY <1>7 DEF Logout, TypeOK
  <2>2. \A d \in Conns, n \in Names : Owns(d, n)' => Owns(d, n)
    BY <1>7, <2>1 DEF Logout, closeRest, Owns, Alive
  <2>3. \A d \in Conns : d # closing => loggedIn'[d] = loggedIn[d]
    BY <1>7 DEF Logout, TypeOK
  <2>4. ~connected[closing]
    BY <1>7 DEF Logout, Closing
  <2>5. \A d \in Conns : Alive(d)' => Alive(d) /\ loggedIn'[d] = loggedIn[d]
    BY <1>7, <2>3, <2>4 DEF Logout, closeRest, Alive
  <2> QED
    BY <1>1, <1>7, <2>2, <2>5 DEF Logout, closeRest, redisVars
<1>8. CASE Remove \/ \E c \in Conns : Farewell(c)
  <2>1. UNCHANGED <<connected, loggedIn, username>> /\ reactor \in {"remove", "farewell"}
        /\ reactor' \in {"poll", "farewell"}
    BY <1>8 DEF Remove, Farewell, closeRest
  <2>2. \A d \in Conns, n \in Names : Owns(d, n)' => Owns(d, n)
    BY <2>1 DEF Owns, Alive
  <2>3. \A d \in Conns : Alive(d)' => Alive(d) /\ loggedIn'[d] = loggedIn[d]
    BY <2>1 DEF Alive
  <2> QED
    BY <1>1, <1>8, <2>2, <2>3 DEF Remove, Farewell, closeRest, redisVars
<1>9. CASE UNCHANGED vars
  <2>1. UNCHANGED <<connected, loggedIn, username, reactor, closing, leaver>>
    BY <1>9 DEF vars, connVars, closeVars
  <2>2. \A d \in Conns, n \in Names : Owns(d, n)' => Owns(d, n)
    BY <2>1 DEF Owns, Alive
  <2>3. \A d \in Conns : Alive(d)' => Alive(d) /\ loggedIn'[d] = loggedIn[d]
    BY <2>1 DEF Alive
  <2> QED
    BY <1>1, <1>9, <2>2, <2>3 DEF vars, connVars, redisVars
<1> QED
  BY <1>2, <1>3, <1>4, <1>5, <1>6, <1>7, <1>8, <1>9 DEF Close

\* The steps of the workers.
LEMMA WorkerExclusion ==
  ASSUME IndInv, Undisturbed, NoOverlap, Exclusion, NEW w \in Workers, Work(w)
  PROVE  Exclusion'
<1> USE DEF IndInv
<1> DEFINE n == Body(w).name
<1>1. \A from, to : Goto(w, from, to) => pc[w] = from /\ pc'[w] = to
  BY DEF Goto, TypeOK
<1>2. \A from, to : Goto(w, from, to) /\ from \in LoginStates => n \in Names /\ Client(w) \in Conns
  BY <1>1, AtWork DEF LoginStates
<1>3. Others(w)
  BY OthersKept
<1>4. CASE Take(w)
  BY <1>1, <1>3, <1>4, WorkerElsewhere DEF Take, workRest, redisVars, FoundOffline
<1>5. CASE Begin(w)
  BY <1>1, <1>3, <1>5, WorkerElsewhere
     DEF Begin, Finish, Reply, beginRest, workRest, redisVars, FoundOffline
<1>6. CASE RefuseUnknown(w) \/ Refuse(w) \/ SpreadDone(w)
  BY <1>1, <1>3, <1>6, WorkerElsewhere
     DEF RefuseUnknown, Refuse, SpreadDone, Finish, Reply, beginRest, workRest, redisVars,
         FoundOffline
<1>7. CASE Grant(w) \/ Record(w)
  BY <1>1, <1>3, <1>7, WorkerElsewhere DEF Grant, Record, workRest, redisVars, FoundOffline
<1>8. CASE \E c \in Conns : SpreadTo(w, c)
  BY <1>3, <1>8, WorkerElsewhere DEF SpreadTo, workRest, redisVars, FoundOffline
<1>9. CASE LoadProfile(w)
  <2>1. n \in Names /\ UNCHANGED <<connected, loggedIn, username, closeVars, online, profile, task>>
    BY <1>2, <1>9 DEF LoadProfile, dataRest, workRest, LoginStates
  <2>2. CASE Goto(w, "profile", "flag") /\ profile[n]
    BY <1>1, <1>3, <2>1, <2>2, WorkerElsewhere DEF FoundOffline
  <2>3. CASE Goto(w, "profile", "database") /\ ~profile[n]
    <3>1. online[n] # "1"
      BY <2>1, <2>3 DEF Exclusion, Cached
    <3> QED
      BY <1>1, <1>3, <2>1, <2>3, <3>1, WorkerFindsOffline DEF Deciding
  <2> QED
    BY <1>9, <2>2, <2>3 DEF LoadProfile, Undisturbed
<1>10. CASE LoadFlag(w)
  <2>1. n \in Names /\ UNCHANGED <<connected, loggedIn, username, closeVars, online, profile, task>>
    BY <1>2, <1>10 DEF LoadFlag, dataRest, workRest, LoginStates
  <2>2. pc[w] = "flag" /\ pc'[w] = "decide" /\ profile[n]
    BY <1>1, <1>10 DEF LoadFlag, Exclusion, Cached
  <2>3. sawOnline' = [sawOnline EXCEPT ![w] = online[n] = "1"]
    BY <1>10 DEF LoadFlag, Undisturbed
  <2>4. sawOnline'[w] <=> online[n] = "1"
    BY <2>3 DEF TypeOK
  <2>5. CASE online[n] = "1"
    BY <1>3, <2>1, <2>2, <2>4, <2>5, WorkerElsewhere DEF FoundOffline
  <2>6. CASE online[n] # "1"
    BY <1>3, <2>1, <2>2, <2>6, WorkerFindsOffline DEF Deciding
  <2> QED
    BY <2>5, <2>6
<1>11. CASE LoadFromTable(w)
  <2>1. n \in Names /\ UNCHANGED <<connected, loggedIn, username, closeVars, online, profile, task>>
    BY <1>2, <1>11 DEF LoadFromTable, dataRest, workRest, redisVars, LoginStates
  <2>2. pc[w] = "database" /\ pc'[w] = "fill"
    BY <1>1, <1>11 DEF LoadFromTable
  <2>3. online[n] # "1"
    BY <2>2 DEF Exclusion, Cached
  <2> QED
    BY <1>3, <2>1, <2>2, <2>3, WorkerFindsOffline DEF Deciding
<1>12. CASE FillProfile(w)
  <2>1. n \in Names /\ UNCHANGED <<connected, loggedIn, username, closeVars, online, task>>
    BY <1>2, <1>12 DEF FillProfile, dataRest, workRest, LoginStates
  <2>2. pc[w] = "fill" /\ pc'[w] = "fillFlag" /\ profile' = [profile EXCEPT ![n] = TRUE]
    BY <1>1, <1>12 DEF FillProfile, Undisturbed
  <2>3. online[n] # "1" /\ profile'[n]
    BY <2>1, <2>2 DEF Exclusion, Cached, TypeOK
  <2> QED
    BY <1>3, <2>1, <2>2, <2>3, WorkerFindsOffline DEF Deciding
<1>13. CASE FillFlag(w)
  <2>1. n \in Names /\ UNCHANGED <<connected, loggedIn, username, closeVars, profile, task>>
    BY <1>2, <1>13 DEF FillFlag, dataRest, workRest, LoginStates
  <2>2. pc[w] = "fillFlag" /\ pc'[w] = "decide" /\ online' = [online EXCEPT ![n] = "0"]
    BY <1>1, <1>13 DEF FillFlag, Undisturbed
  <2>3. online[n] # "1" /\ profile[n]
    BY <2>2 DEF Exclusion, Cached
  <2> QED
    BY <1>3, <2>1, <2>2, <2>3, WorkerFindsOffline DEF Deciding
<1>14. CASE SetUserInfo(w)
  <2>1. n \in Names /\ Client(w) \in Conns
    BY <1>2, <1>14 DEF SetUserInfo, LoginStates
  <2>2. pc[w] = "decide" /\ pc'[w] = "admit" /\ FoundOffline(w)
    BY <1>1, <1>14 DEF SetUserInfo, FoundOffline
  <2>3. \A c \in Conns : username'[c] = IF c = Client(w) THEN n ELSE username[c]
    BY <1>14 DEF SetUserInfo, TypeOK
  <2>4. UNCHANGED <<connected, loggedIn, closeVars, online, profile, task>>
    BY <1>14 DEF SetUserInfo, workRest, redisVars
  <2>5. \A v \in Workers : Body(v)' = Body(v) /\ Client(v)' = Client(v)
    BY <2>4 DEF Body, Client
  <2>6. Entering(Client(w))'
    BY <2>2, <2>1, <2>3, <2>5 DEF Entering
  <2>7. ASSUME NEW c \in Conns, NEW m \in Names, Owns(c, m)'
        PROVE  Owns(c, m) \/ \E v \in Workers : Marking(v, c, m)' /\ FoundOffline(v)
    <3>1. CASE c = Client(w) /\ m = n
      BY <2>2, <2>5, <3>1 DEF Marking
    <3>2. CASE ~(c = Client(w) /\ m = n)
      BY <2>3, <2>4, <2>7, <3>2 DEF closeVars, Owns, Alive
    <3> QED
      BY <3>1, <3>2
  <2>8. Admitted'
    <3>1. ASSUME NEW v \in Workers, pc'[v] \in {"admit", "mark"}, Alive(Client(v))',
                 ~loggedIn'[Client(v)]
          PROVE  pc'[v] = "admit" /\ Entering(Client(v))'
      <4>1. CASE v = w
        BY <2>2, <2>6, <4>1
      <4>2. CASE v # w
        <5>1. pc'[v] = pc[v] /\ pc[v] # "idle"
          BY <1>3, <3>1, <4>2, OthersAsBefore
        <5>2. Client(v) \in Conns /\ Alive(Client(v)) /\ ~loggedIn[Client(v)]
          BY <2>4, <2>5, <3>1, <5>1, AtWork DEF Alive, closeVars
        <5>3. pc[v] = "admit" /\ Entering(Client(v))
          BY <3>1, <5>1, <5>2 DEF Exclusion, Admitted
        <5>4. CASE Client(v) = Client(w)
          BY <2>5, <2>6, <5>1, <5>3, <5>4
        <5>5. CASE Client(v) # Client(w)
          <6>1. PICK u \in Workers :
                  pc[u] = "admit" /\ Client(u) = Client(v) /\ Body(u).name = username[Client(v)]
            BY <5>3 DEF Entering
          <6>2. u # w /\ pc'[u] = pc[u]
            BY <1>3, <2>2, <6>1, OthersAsBefore
          <6>3. username'[Client(v)] = username[Client(v)]
            BY <2>3, <5>2, <5>5
          <6> QED
            BY <2>5, <5>1, <5>3, <6>1, <6>2, <6>3 DEF Entering
        <5> QED
          BY <5>4, <5>5
      <4> QED
        BY <4>1, <4>2
    <3> QED
      BY <2>5, <3>1 DEF Admitted
  <2> QED
    BY <1>3, <2>2, <2>4, <2>7, <2>8, WorkerLetsIn
<1>15. CASE Admit(w)
  <2>1. n \in Names /\ Client(w) \in Conns
    BY <1>2, <1>15 DEF Admit, LoginStates
  <2>2. pc[w] = "admit" /\ pc'[w] = "mark" /\ FoundOffline(w)
    BY <1>1, <1>15 DEF Admit, FoundOffline
  <2>3. UNCHANGED <<connected, username, closeVars, online, profile, task>>
    BY <1>15 DEF Admit, workRest, redisVars
  <2>4. \A c \in Conns : loggedIn'[c] = IF c = Client(w) THEN TRUE ELSE loggedIn[c]
    BY <1>15 DEF Admit, TypeOK
  <2>5. \A v \in Workers : Body(v)' = Body(v) /\ Client(v)' = Client(v)
    BY <2>3 DEF Body, Client
  <2>6. \A v \in Workers, c \in Conns, m \in Names : Marking(v, c, m) => Marking(v, c, m)'
    BY <1>3, <2>2, <2>5, OthersAsBefore DEF Marking
  <2>7. ASSUME NEW c \in Conns, NEW m \in Names, Owns(c, m)'
        PROVE  Owns(c, m) \/ \E v \in Workers : Marking(v, c, m)' /\ FoundOffline(v)
    <3>1. CASE c # Client(w) \/ loggedIn[c] \/ ~Alive(c)
      BY <2>3, <2>4, <2>7, <3>1 DEF closeVars, Owns, Alive
    <3>2. CASE c = Client(w) /\ ~loggedIn[c] /\ Alive(c)
      <4>1. Entering(c)
        BY <2>2, <3>2 DEF Exclusion, Admitted
      <4>2. PICK v \in Workers : pc[v] = "admit" /\ Client(v) = c /\ Body(v).name = username[c]
        BY <4>1 DEF Entering
      <4>3. CASE username[c] = m
        BY <2>6, <4>2, <4>3 DEF Marking, FoundOffline
      <4>4. CASE username[c] # m
        BY <2>3, <2>7, <4>4 DEF closeVars, Owns, Alive
      <4> QED
        BY <4>3, <4>4
    <3> QED
      BY <3>1, <3>2
  <2>8. Admitted'
    <3>1. ASSUME NEW v \in Workers, pc'[v] \in {"admit", "mark"}, Alive(Client(v))',
                 ~loggedIn'[Client(v)]
          PROVE  pc'[v] = "admit" /\ Entering(Client(v))'
      <4>1. v # w
        BY <2>1, <2>4, <3>1
      <4>2. pc'[v] = pc[v] /\ pc[v] # "idle"
        BY <1>3, <3>1, <4>1, OthersAsBefore
      <4>3. Client(v) \in Conns /\ Alive(Client(v))
        BY <2>3, <2>5, <3>1, <4>2, AtWork DEF Alive, closeVars
      <4>4. Client(v) # Client(w) /\ ~loggedIn[Client(v)]
        BY <2>4, <3>1, <4>3
      <4>5. pc[v] = "admit" /\ Entering(Client(v))
        BY <3>1, <4>2, <4>3, <4>4 DEF Exclusion, Admitted
      <4>6. PICK u \in Workers :
              pc[u] = "admit" /\ Client(u) = Client(v) /\ Body(u).name = username[Client(v)]
        BY <4>5 DEF Entering
      <4>7. u # w /\ pc'[u] = pc[u]
        BY <1>3, <4>4, <4>6, OthersAsBefore
      <4> QED
        BY <2>3, <2>5, <4>2, <4>5, <4>6, <4>7 DEF Entering
    <3> QED
      BY <2>5, <3>1 DEF Admitted
  <2> QED
    BY <1>3, <2>2, <2>3, <2>7, <2>8, WorkerLetsIn
<1>16. CASE MarkOnline(w)
  <2>1. n \in Names /\ UNCHANGED <<connected, loggedIn, username, closeVars, profile, task>>
    BY <1>2, <1>16 DEF MarkOnline, dataRest, workRest, LoginStates
  <2>2. pc[w] = "mark" /\ pc'[w] = "answer" /\ online' = [online EXCEPT ![n] = "1"]
    BY <1>1, <1>16 DEF MarkOnline, Undisturbed
  <2>3. \A m \in Names : online'[m] = IF m = n THEN "1" ELSE online[m]
    BY <2>2 DEF TypeOK
  <2>4. \A c, m : Owns(c, m)' <=> Owns(c, m)
    BY <2>1 DEF Owns, Alive, closeVars
  <2>5. \A v \in Workers : Body(v)' = Body(v) /\ Client(v)' = Client(v)
    BY <2>1 DEF Body, Client
  <2>6. profile[n]
    BY <2>2 DEF Exclusion, Cached
  <2>7. Unique'
    BY <2>4 DEF Exclusion, Unique
  <2>8. Marked'
    <3>1. \A v \in Workers, c \in Conns, m \in Names :
            Marking(v, c, m) => m = n \/ Marking(v, c, m)'
      BY <1>3, <2>5, OthersAsBefore DEF Marking
    <3> QED
      BY <2>3, <2>4, <3>1 DEF Exclusion, Marked
  <2>9. Alone'
    <3>1. ~FoundOffline(w)'
      BY <2>2 DEF FoundOffline
    <3> QED
      BY <1>3, <2>4, <2>5, <3>1, OthersAsBefore DEF Exclusion, Alone
  <2>10. Cached'
    <3>1. ASSUME NEW v \in Workers
          PROVE  /\ pc'[v] \in {"database", "fill", "fillFlag"} => online'[Body(v).name] # "1"
                 /\ pc'[v] \in {"flag", "fillFlag", "decide", "admit", "mark"}
                      => profile[Body(v).name]
      <4>1. CASE v = w
        BY <2>2, <4>1
      <4>2. CASE v # w
        <5>1. pc'[v] = pc[v]
          BY <1>3, <4>2, OthersAsBefore
        <5>2. pc[v] \in {"database", "fill", "fillFlag"}
                => Body(v).name \in Names /\ Body(v).name # n
          BY <2>2, <4>2, AtWork DEF NoOverlap, Deciding, LoginStates
        <5> QED
          BY <2>3, <5>1, <5>2 DEF Exclusion, Cached
      <4> QED
        BY <4>1, <4>2
    <3>2. \A m \in Names : online'[m] = "1" => profile[m]
      BY <2>3, <2>6 DEF Exclusion, Cached
    <3> QED
      BY <2>1, <2>5, <3>1, <3>2 DEF Cached
  <2>11. Admitted'
    <3>1. \A c : Alive(c)' <=> Alive(c)
      BY <2>1 DEF Alive, closeVars
    <3>2. \A c : Entering(c) => Entering(c)'
      BY <1>3, <2>1, <2>2, <2>5, OthersAsBefore DEF Entering
    <3>3. pc'[w] \notin {"admit", "mark"}
      BY <2>2
    <3> QED
      BY <1>3, <2>1, <2>5, <3>1, <3>2, <3>3, OthersAsBefore DEF Exclusion, Admitted
  <2> QED
    BY <2>7, <2>8, <2>9, <2>10, <2>11 DEF Exclusion
<1> QED
  BY <1>4, <1>5, <1>6, <1>7, <1>8, <1>9, <1>10, <1>11, <1>12, <1>13, <1>14, <1>15, <1>16 DEF Work

\* At the start nobody has a session.
LEMMA InitExclusion == Init => Unknown /\ Exclusion
<1> SUFFICES ASSUME Init
             PROVE  Unknown /\ Exclusion
  OBVIOUS
<1>1. \A c \in Conns, n \in Names : ~Owns(c, n)
  BY DEF Init, Owns, Alive
<1>2. Unknown
  BY SessionAssumption DEF Init, Unknown, NoTask
<1>3. \A w \in Workers : pc[w] = "idle"
  BY DEF Init
<1>4. Cached
  BY <1>3 DEF Init, Cached
<1> QED
  BY <1>1, <1>2, <1>3, <1>4 DEF Exclusion, Unique, Marked, Alone, FoundOffline, Admitted

\* All steps together.
LEMMA NextExclusion ==
  ASSUME IndInv, Undisturbed, NoOverlap, Unknown, Exclusion, [Next]_vars
  PROVE  Unknown' /\ Exclusion'
<1>1. \A n \in Names : ~Expire(n)
  BY DEF Expire, Undisturbed
<1>2. AllGone => UNCHANGED vars
  BY DEF AllGone
<1> QED
  BY <1>1, <1>2, UnknownStep, ReactorExclusion, WorkerExclusion DEF Next

\* As long as the logins of an account do not overlap the whole invariant holds.
LEMMA OneAtATime ==
  ASSUME Undisturbed
  PROVE  Spec /\ []NoOverlap => [](IndInv /\ Unknown /\ Exclusion)
<1>1. Init => IndInv /\ Unknown /\ Exclusion
  BY InitIndInv, InitExclusion
<1>2. IndInv /\ Unknown /\ Exclusion /\ NoOverlap /\ [Next]_vars
        => (IndInv /\ Unknown /\ Exclusion)'
  BY NextIndInv, NextExclusion
<1> QED
  BY <1>1, <1>2, PTL DEF Spec

LEMMA UniqueSessions == IndInv /\ Exclusion => AtMostOneSession
<1> SUFFICES ASSUME IndInv, Exclusion, NEW c \in Conns, NEW d \in Conns, c # d,
                    Session(c), Session(d), username[c] = username[d]
             PROVE  FALSE
  BY DEF AtMostOneSession
<1>1. username[c] \in Names
  BY DEF IndInv, TypeOK, Named, Session
<1>2. Owns(c, username[c]) /\ Owns(d, username[c])
  BY DEF Owns, Alive, Session
<1> QED
  BY <1>1, <1>2 DEF Exclusion, Unique

LEMMA MarkedSessions == IndInv /\ Exclusion => SessionMarked
<1> SUFFICES ASSUME IndInv, Exclusion, Quiescent, NEW c \in Conns, Session(c)
             PROVE  online[username[c]] = "1"
  BY DEF SessionMarked
<1>1. username[c] \in Names
  BY DEF IndInv, TypeOK, Named, Session
<1>2. Owns(c, username[c])
  BY DEF Owns, Alive, Session
<1>3. \A w \in Workers : pc[w] = "idle"
  BY DEF Quiescent
<1> QED
  BY <1>1, <1>2, <1>3 DEF Exclusion, Marked, Marking

\* With any number of workers, while no key expires and no command to Redis
\* fails: as long as the logins of each account are executed one after the other,
\* nobody is logged in on two open connections.  Two sessions of one account
\* begin with two logins at the same time, and with nothing else: neither the
\* closing of connections nor the logins of other accounts, on other connections
\* or on the same one, can cause them (lines 197-233, 252-258, 289-359).
THEOREM OneSessionUnlessOverlap ==
  ASSUME Undisturbed
  PROVE  Spec /\ []NoOverlap => []AtMostOneSession
<1> QED
  BY UniqueSessions, OneAtATime, PTL

\* Under the same conditions, when nothing is in progress the user of a session
\* is marked online in Redis (lines 229-231, 252-258, 352-359).
THEOREM SessionsMarkedUnlessOverlap ==
  ASSUME Undisturbed
  PROVE  Spec /\ []NoOverlap => []SessionMarked
<1> QED
  BY MarkedSessions, OneAtATime, PTL

\* A single worker does not overlap with itself.
LEMMA OneWorkerAtATime ==
  ASSUME OneWorker
  PROVE  Spec => [](IndInv /\ Unknown /\ Exclusion)
<1>1. Undisturbed /\ NoOverlap
  BY DEF OneWorker, NoOverlap
<1>2. Init => IndInv /\ Unknown /\ Exclusion
  BY InitIndInv, InitExclusion
<1>3. IndInv /\ Unknown /\ Exclusion /\ [Next]_vars => (IndInv /\ Unknown /\ Exclusion)'
  BY <1>1, NextIndInv, NextExclusion
<1> QED
  BY <1>2, <1>3, PTL DEF Spec

\* While one worker serves all requests, no key expires and no command to Redis
\* fails, nobody is logged in on two open connections (lines 224-231).
THEOREM OneSessionPerUser == ASSUME OneWorker PROVE Spec => []AtMostOneSession
<1> QED
  BY UniqueSessions, OneWorkerAtATime, PTL

\* Under the same conditions, when nothing is in progress the user of a session
\* is marked online in Redis (lines 229-231, 252-258, 352-359).
THEOREM SessionsAreMarked == ASSUME OneWorker PROVE Spec => []SessionMarked
<1> QED
  BY MarkedSessions, OneWorkerAtATime, PTL

-----------------------------------------------------------------------------
(* Answers and their order: the inductive invariants.                      *)

\* The requests that have left the queue are 1..Taken.
Taken == Len(asked) - Len(tasks)

\* The queue holds the newest requests in their order; every other request that
\* is not finished is with one worker.
Numbered ==
  /\ Len(tasks) <= Len(asked)
  /\ \A j \in 1..Len(tasks) : tasks[j].id = Taken + j /\ tasks[j].conn = asked[Taken + j]
  /\ \A w \in Workers : pc[w] # "idle" =>
       /\ task[w].id \in 1..Taken /\ Client(w) = asked[task[w].id]
       /\ \A v \in Workers : pc[v] # "idle" /\ task[v].id = task[w].id => v = w

\* Who sends requests has been accepted; who is connected is in the table; who
\* chats has a session as long as it is connected.
Present ==
  /\ \A i \in 1..Len(asked) : asked[i] \notin fresh
  /\ \A c \in Conns : connected[c] => c \in connections
  /\ \A w \in Workers :
       pc[w] \in {"record", "broadcast"} /\ connected[Client(w)] => loggedIn[Client(w)]

\* The packets of a client that answer request i: none, or exactly one.
IsAnswerTo(p, i) == p.about = i /\ IsAnswer(p)
NoAnswer(box, i) == \A k \in 1..Len(box) : ~IsAnswerTo(box[k], i)
OneAnswer(box, i) ==
  \E k \in 1..Len(box) :
    IsAnswerTo(box[k], i) /\ \A m \in 1..Len(box) : IsAnswerTo(box[m], i) => m = k

\* w has still to answer its request.
Open(w) ==
  \/ pc[w] \notin {"idle", "announce", "broadcast"}
  \/ pc[w] = "broadcast" /\ Client(w) \in todo[w]

\* Request i has still to be answered.
Pending(i) == i > Taken \/ \E w \in Workers : Open(w) /\ task[w].id = i

\* A request that is not pending has one answer, unless its client is gone.
Answered ==
  \A i \in 1..Len(asked) : connected[asked[i]] =>
    IF Pending(i) THEN NoAnswer(outbox[asked[i]], i) ELSE OneAnswer(outbox[asked[i]], i)

\* No packet is about a request that is still in the queue.
Heard == \A c \in Conns : \A k \in 1..Len(outbox[c]) : outbox[c][k].about <= Taken

\* What is said of requests and answers together.
Replies == Numbered /\ Present /\ Heard /\ Answered

\* The condition of the theorem about the order of the chats.
SingleWorker == \A v, w \in Workers : v = w

\* Of the packets of a client: its login was granted; nothing of the chat room
\* precedes that; all chats are older than request n; they are in order.
Granted(box) == \E k \in 1..Len(box) : box[k].kind = "granted"
GrantedFirst(box) ==
  \A j \in 1..Len(box) : box[j].kind \in {"chat", "joined"} =>
    \E i \in 1..(j - 1) : box[i].kind = "granted"
ChatsBelow(box, n) == \A k \in 1..Len(box) : box[k].kind = "chat" => box[k].about < n
ChatsRise(box) ==
  \A j \in 1..Len(box) : \A i \in 1..(j - 1) :
    box[i].kind = "chat" /\ box[j].kind = "chat" => box[i].about < box[j].about

\* Who has a session was told, or is being told.
Greeted ==
  \A c \in Conns : Session(c) =>
    Granted(outbox[c]) \/ \E w \in Workers : pc[w] \in {"mark", "answer"} /\ Client(w) = c

\* w has not sent c the chat it may be working on.
Owes(w, c) == pc[w] \notin {"idle", "broadcast"} \/ (pc[w] = "broadcast" /\ c \in todo[w])

\* What w has still to send is newer than all that was sent.
Newest == \A w \in Workers, c \in Conns : Owes(w, c) => ChatsBelow(outbox[c], task[w].id)

Ordered == \A c \in Conns : GrantedFirst(outbox[c]) /\ ChatsRise(outbox[c])

\* What is said of the order together.
Order == Greeted /\ Newest /\ Ordered

-----------------------------------------------------------------------------
(* What one more packet changes in a sequence of packets.                  *)

\* What a packet is about is a number.
LEMMA AboutNumbers ==
  ASSUME TypeOK, NEW c \in Conns, NEW k \in 1..Len(outbox[c])
  PROVE  outbox[c][k].about \in Int
<1>1. outbox[c] \in Seq(PacketSet)
  BY DEF TypeOK, PacketSet
<1>2. outbox[c][k] \in PacketSet
  BY <1>1
<1>3. 0..MaxRequests \subseteq Int
  BY SessionAssumption
<1> QED
  BY <1>2, <1>3 DEF PacketSet

\* The places of a sequence after an Append.
LEMMA AppendPlaces ==
  ASSUME NEW S, NEW box \in Seq(S), NEW p
  PROVE  LET new == Append(box, p) IN
         /\ Len(box) \in Nat /\ Len(new) = Len(box) + 1 /\ new[Len(box) + 1] = p
         /\ \A k \in 1..Len(box) : new[k] = box[k]
OBVIOUS

\* A packet that does not answer i changes nothing for i.
LEMMA AppendOther ==
  ASSUME NEW S, NEW box \in Seq(S), NEW p, NEW i, ~IsAnswerTo(p, i)
  PROVE  /\ NoAnswer(box, i) => NoAnswer(Append(box, p), i)
         /\ OneAnswer(box, i) => OneAnswer(Append(box, p), i)
<1> DEFINE new == Append(box, p)
<1>1. /\ Len(box) \in Nat /\ Len(new) = Len(box) + 1 /\ new[Len(box) + 1] = p
      /\ \A k \in 1..Len(box) : new[k] = box[k]
  BY AppendPlaces
<1> HIDE DEF new
<1>2. \A k \in 1..Len(new) : k \in 1..Len(box) \/ k = Len(box) + 1
  BY <1>1
<1>3. \A k \in 1..Len(box) : k \in 1..Len(new)
  BY <1>1
<1>4. NoAnswer(box, i) => NoAnswer(new, i)
  BY <1>1, <1>2 DEF NoAnswer
<1>5. OneAnswer(box, i) => OneAnswer(new, i)
  BY <1>1, <1>2, <1>3 DEF OneAnswer
<1> QED
  BY <1>4, <1>5 DEF new

\* The first answer is the only one.
LEMMA AppendAnswer ==
  ASSUME NEW S, NEW box \in Seq(S), NEW p, NEW i, IsAnswerTo(p, i), NoAnswer(box, i)
  PROVE  OneAnswer(Append(box, p), i)
<1> DEFINE new == Append(box, p)
<1>1. /\ Len(box) \in Nat /\ Len(new) = Len(box) + 1 /\ new[Len(box) + 1] = p
      /\ \A k \in 1..Len(box) : new[k] = box[k]
  BY AppendPlaces
<1> HIDE DEF new
<1>2. \A k \in 1..Len(new) : k \in 1..Len(box) \/ k = Len(box) + 1
  BY <1>1
<1>3. Len(box) + 1 \in 1..Len(new)
  BY <1>1
<1>4. OneAnswer(new, i)
  BY <1>1, <1>2, <1>3 DEF OneAnswer, NoAnswer
<1> QED
  BY <1>4 DEF new

\* The set of the answers has one element.
LEMMA OneAnswerCounts ==
  ASSUME NEW box, NEW i, OneAnswer(box, i)
  PROVE  Cardinality({k \in 1..Len(box) : box[k].about = i /\ IsAnswer(box[k])}) = 1
<1> PICK k \in 1..Len(box) :
      IsAnswerTo(box[k], i) /\ \A m \in 1..Len(box) : IsAnswerTo(box[m], i) => m = k
  BY DEF OneAnswer
<1>1. {m \in 1..Len(box) : box[m].about = i /\ IsAnswer(box[m])} = {k}
  BY DEF IsAnswerTo
<1> QED
  BY <1>1, FS_Singleton

\* The order of the chats in a sequence of packets.
LEMMA AppendOrder ==
  ASSUME NEW S, NEW box \in Seq(S), NEW p
  PROVE  /\ Granted(box) \/ p.kind = "granted" => Granted(Append(box, p))
         /\ GrantedFirst(box) /\ (p.kind \in {"chat", "joined"} => Granted(box))
              => GrantedFirst(Append(box, p))
         /\ ChatsRise(box) /\ (p.kind = "chat" => ChatsBelow(box, p.about))
              => ChatsRise(Append(box, p))
         /\ \A n : ChatsBelow(box, n) /\ (p.kind = "chat" => p.about < n)
              => ChatsBelow(Append(box, p), n)
<1> DEFINE new == Append(box, p)
<1>1. /\ Len(box) \in Nat /\ Len(new) = Len(box) + 1 /\ new[Len(box) + 1] = p
      /\ \A k \in 1..Len(box) : new[k] = box[k]
  BY AppendPlaces
<1> HIDE DEF new
<1>2. \A k \in 1..Len(new) : k \in 1..Len(box) \/ k = Len(box) + 1
  BY <1>1
<1>3. Len(box) + 1 \in 1..Len(new) /\ \A k \in 1..Len(box) : k \in 1..Len(new)
  BY <1>1
<1>4. Granted(box) \/ p.kind = "granted" => Granted(new)
  BY <1>1, <1>3 DEF Granted
<1>5. \A j \in 1..Len(box) : \A i \in 1..(j - 1) : new[i] = box[i] /\ i \in 1..Len(box)
  BY <1>1
<1>6. \A i \in 1..(Len(box) + 1 - 1) : new[i] = box[i] /\ i \in 1..Len(box)
  BY <1>1
<1>7. \A i \in 1..Len(box) : i \in 1..(Len(box) + 1 - 1)
  BY <1>1
<1>8. ASSUME GrantedFirst(box), p.kind \in {"chat", "joined"} => Granted(box)
      PROVE  GrantedFirst(new)
  <2> SUFFICES ASSUME NEW j \in 1..Len(new), new[j].kind \in {"chat", "joined"}
               PROVE  \E i \in 1..(j - 1) : new[i].kind = "granted"
    BY DEF GrantedFirst
  <2>1. CASE j \in 1..Len(box)
    BY <1>1, <1>5, <1>8, <2>1 DEF GrantedFirst
  <2>2. CASE j = Len(box) + 1
    BY <1>1, <1>7, <1>8, <2>2 DEF Granted
  <2> QED
    BY <1>2, <2>1, <2>2
<1>9. ASSUME ChatsRise(box), p.kind = "chat" => ChatsBelow(box, p.about)
      PROVE  ChatsRise(new)
  <2> SUFFICES ASSUME NEW j \in 1..Len(new), NEW i \in 1..(j - 1),
                      new[i].kind = "chat", new[j].kind = "chat"
               PROVE  new[i].about < new[j].about
    BY DEF ChatsRise
  <2>1. CASE j \in 1..Len(box)
    BY <1>1, <1>5, <1>9, <2>1 DEF ChatsRise
  <2>2. CASE j = Len(box) + 1
    BY <1>1, <1>6, <1>9, <2>2 DEF ChatsBelow
  <2> QED
    BY <1>2, <2>1, <2>2
<1>10. \A n : ChatsBelow(box, n) /\ (p.kind = "chat" => p.about < n) => ChatsBelow(new, n)
  BY <1>1, <1>2 DEF ChatsBelow
<1> QED
  BY <1>4, <1>8, <1>9, <1>10 DEF new

-----------------------------------------------------------------------------
(* What the steps of a worker have in common.                              *)

\* w goes on with its task, or ends it; the others are not concerned.
Moves(w) ==
  /\ UNCHANGED <<asked, tasks, connected, connections, fresh>>
  /\ pc[w] # "idle" /\ (pc'[w] # "idle" => task'[w] = task[w])
  /\ \A v \in Workers : v # w =>
       pc'[v] = pc[v] /\ task'[v] = task[v] /\ todo'[v] = todo[v]

\* c gets p, or is found closed.
Gets(c, p) ==
  /\ \A d \in Conns : d # c => outbox'[d] = outbox[d]
  /\ outbox'[c] = IF connected[c] THEN Append(outbox[c], p) ELSE outbox[c]

\* c gets p if it has a session.
Hears(c, p) ==
  /\ \A d \in Conns : d # c => outbox'[d] = outbox[d]
  /\ outbox'[c] = IF Session(c) THEN Append(outbox[c], p) ELSE outbox[c]

\* A worker moves on without a word, with its request still open.
Quiet(w) == Moves(w) /\ UNCHANGED outbox /\ pc'[w] # "idle"

\* It answers its client with a packet of one of the kinds ks.
Answers(w, ks) ==
  /\ Moves(w)
  /\ \E k \in ks : Gets(Client(w), Packet(k, task[w].id))

\* A sequence gets what is appended to it.
LEMMA Sending ==
  ASSUME TypeOK, NEW c \in Conns, NEW p
  PROVE  /\ Send(c, p) => Gets(c, p)
         /\ SendIfSession(c, p) => Hears(c, p)
BY DEF TypeOK, Send, SendIfSession, Gets, Hears, Session

\* A worker goes to another state with the same task.
LEMMA GotoMoves ==
  ASSUME TypeOK, NEW w \in Workers, NEW from, NEW to, Goto(w, from, to), from # "idle",
         UNCHANGED <<asked, tasks, connected, connections, fresh, task>>,
         todo' = todo \/ \E s : todo' = [todo EXCEPT ![w] = s]
  PROVE  Moves(w) /\ pc[w] = from /\ pc'[w] = to
BY DEF TypeOK, Goto, Moves

\* A worker ends its task.
LEMMA FinishMoves ==
  ASSUME TypeOK, NEW w \in Workers, NEW from, Finish(w, from), from # "idle",
         UNCHANGED <<asked, tasks, connected, connections, fresh>>
  PROVE  Moves(w) /\ pc[w] = from /\ pc'[w] = "idle"
BY DEF TypeOK, Finish, Goto, Moves

\* A worker without a task can only take one.
LEMMA IdleTakes ==
  ASSUME NEW w \in Workers, Work(w), pc[w] = "idle"
  PROVE  Take(w)
BY DEF Work, Begin, LoadProfile, LoadFlag, LoadFromTable, RefuseUnknown, FillProfile, FillFlag,
   Refuse, SetUserInfo, Admit, MarkOnline, Grant, Record, SpreadDone, SpreadTo, Reply, Finish, Goto

\* What each step of a busy worker does, as far as requests and packets go.
LEMMA WorkDoes ==
  ASSUME TypeOK, Roles, NEW w \in Workers, Work(w), pc[w] # "idle"
  PROVE  \/ /\ Quiet(w) /\ pc[w] \notin {"announce", "broadcast", "record", "answer"}
            /\ pc'[w] \notin {"announce", "broadcast", "record", "answer", "idle", "begin"}
            /\ UNCHANGED loggedIn /\ pc[w] \notin {"admit", "mark"} /\ pc'[w] # "mark"
         \/ Admit(w) /\ Quiet(w) /\ pc[w] = "admit" /\ pc'[w] = "mark"
         \/ /\ Quiet(w) /\ pc[w] = "mark" /\ pc'[w] = "answer" /\ UNCHANGED loggedIn
         \/ /\ Quiet(w) /\ pc[w] = "begin" /\ pc'[w] = "record" /\ loggedIn[Client(w)]
            /\ UNCHANGED loggedIn
         \/ /\ Quiet(w) /\ pc[w] = "record" /\ pc'[w] = "broadcast" /\ todo'[w] = connections
            /\ UNCHANGED loggedIn
         \/ /\ Moves(w) /\ UNCHANGED outbox /\ ~connected[Client(w)] /\ pc[w] = "begin"
            /\ pc'[w] = "idle" /\ UNCHANGED loggedIn
         \/ /\ Answers(w, {"error", "refused"}) /\ UNCHANGED loggedIn
            /\ pc[w] \in {"begin", "database", "decide"} /\ pc'[w] = "idle"
         \/ /\ Answers(w, {"granted"}) /\ pc[w] = "answer" /\ pc'[w] = "announce"
            /\ UNCHANGED loggedIn
         \/ /\ Moves(w) /\ UNCHANGED <<outbox, loggedIn>> /\ todo[w] = {}
            /\ pc[w] \in {"announce", "broadcast"} /\ pc'[w] = "idle"
         \/ /\ Moves(w) /\ UNCHANGED loggedIn
            /\ pc[w] \in {"announce", "broadcast"} /\ pc'[w] = pc[w]
            /\ \E c \in todo[w] :
                 /\ todo'[w] = todo[w] \ {c}
                 /\ Hears(c, Packet(IF pc[w] = "announce" THEN "joined" ELSE "chat", task[w].id))
<1> USE DEF dataRest, beginRest, workRest
<1>1. CASE \/ LoadProfile(w) \/ LoadFlag(w) \/ LoadFromTable(w) \/ FillProfile(w) \/ FillFlag(w)
           \/ MarkOnline(w)
  <2>1. UNCHANGED <<asked, tasks, connected, connections, fresh, task, todo, outbox, loggedIn>>
    BY <1>1 DEF LoadProfile, LoadFlag, LoadFromTable, FillProfile, FillFlag, MarkOnline
  <2>2. \E from, to : Goto(w, from, to) /\
          \/ /\ from \in {"profile", "flag", "database", "fill", "fillFlag"}
             /\ to \in {"flag", "database", "fill", "fillFlag", "decide"}
          \/ from = "mark" /\ to = "answer"
    BY <1>1 DEF LoadProfile, LoadFlag, LoadFromTable, FillProfile, FillFlag, MarkOnline
  <2> QED
    BY <2>1, <2>2, GotoMoves DEF Quiet
<1>2. CASE SetUserInfo(w)
  BY <1>2, GotoMoves DEF SetUserInfo, Quiet
<1>3. CASE Admit(w)
  BY <1>3, GotoMoves DEF Admit, Quiet
<1>4. CASE Record(w)
  <2>1. todo'[w] = connections
    BY <1>4 DEF Record, TypeOK
  <2>2. Moves(w) /\ pc[w] = "record" /\ pc'[w] = "broadcast"
    BY <1>4, GotoMoves DEF Record
  <2>3. UNCHANGED <<outbox, loggedIn>>
    BY <1>4 DEF Record
  <2>4. Quiet(w)
    BY <2>2, <2>3 DEF Quiet
  <2> QED
    BY <2>1, <2>2, <2>3, <2>4
<1>5. CASE Grant(w)
  <2>1. Client(w) \in Conns
    BY AtWork
  <2>2. Gets(Client(w), Packet("granted", task[w].id))
    BY <1>5, <2>1, Sending DEF Grant
  <2>3. Moves(w) /\ pc[w] = "answer" /\ pc'[w] = "announce"
    BY <1>5, GotoMoves DEF Grant
  <2> QED
    BY <1>5, <2>2, <2>3 DEF Grant, Answers
<1>6. ASSUME NEW from \in {"begin", "database", "decide"}, NEW k \in {"error", "refused"},
             Reply(w, from, k), UNCHANGED beginRest
      PROVE  /\ Answers(w, {"error", "refused"}) /\ UNCHANGED loggedIn
             /\ pc[w] \in {"begin", "database", "decide"} /\ pc'[w] = "idle"
  <2>1. Client(w) \in Conns
    BY AtWork
  <2>2. Gets(Client(w), Packet(k, task[w].id))
    BY <1>6, <2>1, Sending DEF Reply
  <2>3. Moves(w) /\ pc[w] = from /\ pc'[w] = "idle"
    BY <1>6, FinishMoves DEF Reply
  <2> QED
    BY <1>6, <2>2, <2>3 DEF Answers
<1>7. CASE RefuseUnknown(w) \/ Refuse(w)
  BY <1>6, <1>7 DEF RefuseUnknown, Refuse
<1>8. CASE Begin(w)
  <2>1. CASE Reply(w, "begin", "error") /\ UNCHANGED beginRest
    BY <1>6, <2>1
  <2>2. CASE ~connected[Client(w)] /\ Finish(w, "begin") /\ UNCHANGED <<beginRest, outbox>>
    BY <2>2, FinishMoves
  <2>3. CASE /\ \/ Body(w).kind = "login" /\ Goto(w, "begin", "profile")
                \/ /\ Body(w).kind = "chat" /\ loggedIn[Client(w)]
                   /\ Goto(w, "begin", "record")
             /\ UNCHANGED <<beginRest, outbox, task, sawOnline, todo>>
    BY <2>3, GotoMoves DEF Quiet
  <2> QED
    BY <1>8, <2>1, <2>2, <2>3 DEF Begin
<1>9. CASE SpreadDone(w)
  <2>1. PICK from \in {"announce", "broadcast"} : Finish(w, from)
    BY <1>9 DEF SpreadDone
  <2>2. Moves(w) /\ pc[w] = from /\ pc'[w] = "idle"
    BY <1>9, <2>1, FinishMoves DEF SpreadDone
  <2> QED
    BY <1>9, <2>2 DEF SpreadDone
<1>10. ASSUME NEW c \in Conns, SpreadTo(w, c)
       PROVE  /\ Moves(w) /\ UNCHANGED loggedIn
              /\ pc[w] \in {"announce", "broadcast"} /\ pc'[w] = pc[w]
              /\ \E d \in todo[w] :
                   /\ todo'[w] = todo[w] \ {d}
                   /\ Hears(d, Packet(IF pc[w] = "announce" THEN "joined" ELSE "chat", task[w].id))
  <2>1. Hears(c, Packet(IF pc[w] = "announce" THEN "joined" ELSE "chat", task[w].id))
    BY <1>10, Sending DEF SpreadTo
  <2>2. todo'[w] = todo[w] \ {c} /\ \A v \in Workers : v # w => todo'[v] = todo[v]
    BY <1>10 DEF SpreadTo, TypeOK
  <2>3. Moves(w)
    BY <1>10, <2>2 DEF SpreadTo, Moves
  <2> QED
    BY <1>10, <2>1, <2>2, <2>3 DEF SpreadTo
<1>11. ~Take(w)
  BY DEF Take, Goto
<1> QED
  BY <1>1, <1>2, <1>3, <1>4, <1>5, <1>7, <1>8, <1>9, <1>10, <1>11 DEF Work

-----------------------------------------------------------------------------
(* Each request has one answer.                                            *)

\* The steps of a busy worker keep the numbers and the answers.
LEMMA NumberedMoves ==
  ASSUME TypeOK, Numbered, NEW w \in Workers, Moves(w)
  PROVE  Numbered' /\ Taken' = Taken
<1>1. Taken' = Taken
  BY DEF Moves, Taken
<1>2. \A v \in Workers : pc'[v] # "idle" => pc[v] # "idle" /\ task'[v] = task[v]
  BY DEF Moves
<1>3. UNCHANGED <<tasks, asked>>
  BY DEF Moves
<1> QED
  BY <1>1, <1>2, <1>3 DEF Numbered, Client

\* Whatever a busy worker says is about its own request.
LEMMA HeardMoves ==
  ASSUME TypeOK, Numbered, Heard, NEW w \in Workers, Moves(w),
         \A c \in Conns : \/ outbox'[c] = outbox[c]
                          \/ \E k \in PacketKinds : outbox'[c] = Append(outbox[c], Packet(k, task[w].id))
  PROVE  Heard'
<1>1. Taken' = Taken /\ task[w].id <= Taken
  <2>1. Len(asked) \in Nat /\ Len(tasks) \in Nat
    BY DEF TypeOK
  <2> QED
    BY <2>1, NumberedMoves DEF Numbered, Moves, Taken
<1>2. ASSUME NEW c \in Conns, NEW p, p.about = task[w].id, outbox'[c] = Append(outbox[c], p)
      PROVE  \A k \in 1..Len(outbox'[c]) : outbox'[c][k].about <= Taken
  <2> DEFINE old == outbox[c]
             new == outbox'[c]
  <2>1. old \in Seq(PacketSet)
    BY DEF TypeOK, PacketSet
  <2>2. new = Append(old, p)
    BY <1>2
  <2>3. \A k \in 1..Len(old) : old[k].about <= Taken
    BY DEF Heard
  <2> HIDE DEF old, new
  <2>4. \A k \in 1..Len(new) : new[k] = p \/ (k \in 1..Len(old) /\ new[k] = old[k])
    BY <2>1, <2>2, AppendPlaces
  <2>5. \A k \in 1..Len(new) : new[k].about <= Taken
    BY <1>1, <1>2, <2>3, <2>4
  <2> QED
    BY <2>5 DEF new
<1>3. \A k : Packet(k, task[w].id).about = task[w].id
  BY DEF Packet
<1> QED
  BY <1>1, <1>2, <1>3 DEF Heard

\* A busy worker opens and closes no request but its own.
LEMMA PendingMoves ==
  ASSUME TypeOK, Numbered, NEW w \in Workers, Moves(w), NEW i, i = task[w].id
  PROVE  /\ \A j : j # i => (Pending(j)' <=> Pending(j))
         /\ Pending(i) <=> Open(w)
         /\ Pending(i)' <=> Open(w)'
<1>1. Taken' = Taken
  BY NumberedMoves
<1>2. ~(i > Taken)
  <2>1. Len(asked) \in Nat /\ Len(tasks) \in Nat
    BY DEF TypeOK
  <2>2. i \in 1..Taken
    BY DEF Numbered, Moves
  <2> QED
    BY <2>1, <2>2 DEF Taken
<1>3. \A v \in Workers : v # w => /\ Open(v)' <=> Open(v)
                                  /\ Open(v) => task[v].id # i /\ task'[v].id = task[v].id
  BY DEF Moves, Open, Client, Numbered
<1>4. Open(w)' => task'[w].id = i
  BY DEF Open, Moves
<1>5. \A j : Pending(j) <=> j > Taken \/ \E v \in Workers : Open(v) /\ task[v].id = j
  BY DEF Pending
<1>6. \A j : Pending(j)' <=> j > Taken \/ \E v \in Workers : Open(v)' /\ task'[v].id = j
  BY <1>1 DEF Pending
<1>7. \A j : j # i => (Pending(j)' <=> Pending(j))
  <2>1. \A j : j # i => \A v \in Workers :
        Open(v)' /\ task'[v].id = j <=> Open(v) /\ task[v].id = j
    BY <1>3, <1>4
  <2> QED
    BY <1>5, <1>6, <2>1
<1>8. Pending(i) <=> Open(w)
  BY <1>2, <1>3, <1>5
<1>9. Pending(i)' <=> Open(w)'
  BY <1>2, <1>3, <1>4, <1>6
<1> QED
  BY <1>7, <1>8, <1>9

\* The step of a busy worker adds an answer exactly when its request is closed.
LEMMA AnsweredMoves ==
  ASSUME TypeOK, Numbered, Answered, NEW w \in Workers, Moves(w),
         NEW c \in Conns, c = Client(w), NEW i, i = task[w].id,
         \A d \in Conns : \/ outbox'[d] = outbox[d]
                          \/ \E p : p.about = i /\ outbox'[d] = Append(outbox[d], p),
         connected[c] =>
           \/ Open(w) /\ Open(w)' /\ outbox'[c] = outbox[c]
           \/ Open(w) /\ ~Open(w)' /\ \E p : IsAnswerTo(p, i) /\ outbox'[c] = Append(outbox[c], p)
           \/ /\ ~Open(w) /\ ~Open(w)'
              /\ \/ outbox'[c] = outbox[c]
                 \/ \E p : ~IsAnswerTo(p, i) /\ outbox'[c] = Append(outbox[c], p)
  PROVE  Answered'
<1>1. UNCHANGED <<asked, connected>>
  BY DEF Moves
<1>2. i \in 1..Taken /\ c = asked[i]
  BY DEF Numbered, Moves
<1>3. /\ \A j : j # i => (Pending(j)' <=> Pending(j))
      /\ Pending(i) <=> Open(w)
      /\ Pending(i)' <=> Open(w)'
  BY PendingMoves
<1>4. ASSUME NEW j \in 1..Len(asked), connected[asked[j]], j # i
      PROVE  IF Pending(j)' THEN NoAnswer(outbox'[asked[j]], j) ELSE OneAnswer(outbox'[asked[j]], j)
  <2>1. Pending(j)' <=> Pending(j)
    BY <1>3, <1>4
  <2>2. IF Pending(j) THEN NoAnswer(outbox[asked[j]], j) ELSE OneAnswer(outbox[asked[j]], j)
    BY <1>4 DEF Answered
  <2>3. asked[j] \in Conns
    BY DEF TypeOK
  <2>4. CASE outbox'[asked[j]] = outbox[asked[j]]
    BY <2>1, <2>2, <2>4
  <2>5. ASSUME NEW p, p.about = i, outbox'[asked[j]] = Append(outbox[asked[j]], p)
        PROVE  IF Pending(j)' THEN NoAnswer(outbox'[asked[j]], j) ELSE OneAnswer(outbox'[asked[j]], j)
    <3>1. ~IsAnswerTo(p, j)
      BY <1>4, <2>5 DEF IsAnswerTo
    <3>2. outbox[asked[j]] \in Seq(PacketSet)
      BY <2>3 DEF TypeOK, PacketSet
    <3> QED
      BY <2>1, <2>2, <2>5, <3>1, <3>2, AppendOther
  <2> QED
    BY <2>3, <2>4, <2>5
<1>5. ASSUME connected[c]
      PROVE  IF Pending(i)' THEN NoAnswer(outbox'[c], i) ELSE OneAnswer(outbox'[c], i)
  <2>3. IF Open(w) THEN NoAnswer(outbox[c], i) ELSE OneAnswer(outbox[c], i)
    <3>1. i \in 1..Len(asked)
      BY <1>2 DEF Taken, TypeOK
    <3> QED
      BY <1>2, <1>3, <1>5, <3>1 DEF Answered
  <2>4. outbox[c] \in Seq(PacketSet)
    BY DEF TypeOK, PacketSet
  <2>5. CASE Open(w) /\ Open(w)' /\ outbox'[c] = outbox[c]
    BY <1>3, <2>3, <2>5
  <2>6. CASE Open(w) /\ ~Open(w)' /\ \E p : IsAnswerTo(p, i) /\ outbox'[c] = Append(outbox[c], p)
    BY <1>3, <2>3, <2>4, <2>6, AppendAnswer
  <2>7. CASE ~Open(w) /\ ~Open(w)' /\ outbox'[c] = outbox[c]
    BY <1>3, <2>3, <2>7
  <2>8. ASSUME ~Open(w), ~Open(w)', NEW p, ~IsAnswerTo(p, i), outbox'[c] = Append(outbox[c], p)
        PROVE  OneAnswer(outbox'[c], i)
    BY <2>3, <2>4, <2>8, AppendOther
  <2> QED
    BY <1>3, <1>5, <2>5, <2>6, <2>7, <2>8
<1> QED
  BY <1>1, <1>2, <1>4, <1>5 DEF Answered

\* The steps of a busy worker keep everything that is said of the answers.
LEMMA RepliesWork ==
  ASSUME TypeOK, Roles, Unknown, Replies, NEW w \in Workers, Work(w), pc[w] # "idle"
  PROVE  Replies'
<1> DEFINE c == Client(w)
           i == task[w].id
<1>1. c \in Conns
  BY AtWork
<1>2. /\ Numbered /\ Present /\ Heard /\ Answered
      /\ \A k : Packet(k, i).about = i /\ Packet(k, i).kind = k
  BY DEF Replies, Packet
<1>3. ASSUME Moves(w), \A d \in Conns : loggedIn[d] => loggedIn'[d],
             pc'[w] \in {"record", "broadcast"} /\ connected[c] => loggedIn'[c]
      PROVE  Numbered' /\ Present'
  <2>1. Numbered'
    BY <1>2, <1>3, NumberedMoves
  <2>2. ASSUME NEW v \in Workers, pc'[v] \in {"record", "broadcast"}, connected'[task'[v].conn]
        PROVE  loggedIn'[task'[v].conn]
    <3>1. task'[v].conn = Client(v) /\ connected' = connected
      BY <1>3, <2>2 DEF Moves, Client
    <3>2. CASE v = w
      BY <1>3, <2>2, <3>1, <3>2
    <3>3. CASE v # w
      <4>1. pc[v] = pc'[v]
        BY <1>3, <3>3 DEF Moves
      <4>2. loggedIn[Client(v)] /\ Client(v) \in Conns
        BY <1>2, <2>2, <3>1, <4>1, AtWork DEF Present
      <4> QED
        BY <1>3, <3>1, <4>2
    <3> QED
      BY <3>2, <3>3
  <2>3. Present'
    BY <1>2, <1>3, <2>2 DEF Present, Moves, Client
  <2> QED
    BY <2>1, <2>3
<1>4. ASSUME Numbered', Present', Moves(w), UNCHANGED outbox,
             connected[c] => (Open(w)' <=> Open(w))
      PROVE  Replies'
  <2>1. Heard'
    BY <1>2, <1>4, NumberedMoves DEF Heard
  <2>2. Answered'
    BY <1>1, <1>2, <1>4, AnsweredMoves
  <2> QED
    BY <1>4, <2>1, <2>2 DEF Replies
<1>5. ASSUME NEW ks \in SUBSET PacketKinds, \A k \in ks : IsAnswer(Packet(k, i)),
             Numbered', Present', Answers(w, ks), Open(w), ~Open(w)'
      PROVE  Replies'
  <2>1. PICK k \in ks : Gets(c, Packet(k, i))
    BY <1>5 DEF Answers
  <2>2. \A d \in Conns : outbox'[d] = outbox[d] \/ outbox'[d] = Append(outbox[d], Packet(k, i))
    BY <2>1 DEF Gets
  <2>3. connected[c] => outbox'[c] = Append(outbox[c], Packet(k, i))
    BY <2>1 DEF Gets
  <2>4. IsAnswerTo(Packet(k, i), i) /\ k \in PacketKinds
    BY <1>2, <1>5 DEF IsAnswerTo
  <2>5. Heard'
    BY <1>2, <1>5, <2>2, <2>4, HeardMoves DEF Answers
  <2>6. Answered'
    BY <1>1, <1>2, <1>5, <2>2, <2>3, <2>4, AnsweredMoves DEF Answers
  <2> QED
    BY <1>5, <2>5, <2>6 DEF Replies
<1>6. ASSUME NEW d \in Conns, NEW k \in {"joined", "chat"}, Numbered', Present', Moves(w),
             Hears(d, Packet(k, i)),
             connected[c] /\ d = c /\ k = "chat" => Session(c) /\ Open(w) /\ ~Open(w)',
             d # c \/ k = "joined" => (Open(w)' <=> Open(w)),
             k = "joined" => ~Open(w)
      PROVE  Replies'
  <2>1. \A e \in Conns : outbox'[e] = outbox[e] \/ outbox'[e] = Append(outbox[e], Packet(k, i))
    BY <1>6 DEF Hears
  <2>2. IsAnswerTo(Packet(k, i), i) <=> k = "chat"
    BY <1>2, <1>6 DEF IsAnswerTo, IsAnswer
  <2>3. Heard'
    BY <1>2, <1>6, <2>1, HeardMoves DEF PacketKinds
  <2>4. CASE d # c
    <3>1. outbox'[c] = outbox[c]
      BY <1>1, <1>6, <2>4 DEF Hears
    <3>2. Answered'
      BY <1>1, <1>2, <1>6, <2>1, <2>4, <3>1, AnsweredMoves
    <3> QED
      BY <1>6, <2>3, <3>2 DEF Replies
  <2>5. CASE d = c
    <3>1. Session(c) => outbox'[c] = Append(outbox[c], Packet(k, i))
      BY <1>6, <2>5 DEF Hears
    <3>2. ASSUME connected[c]
          PROVE  \/ /\ Open(w) /\ ~Open(w)'
                    /\ \E p : IsAnswerTo(p, i) /\ outbox'[c] = Append(outbox[c], p)
                 \/ /\ ~Open(w) /\ ~Open(w)'
                    /\ \/ outbox'[c] = outbox[c]
                       \/ \E p : ~IsAnswerTo(p, i) /\ outbox'[c] = Append(outbox[c], p)
      <4>1. CASE k = "chat"
        BY <1>6, <2>2, <2>5, <3>1, <3>2, <4>1
      <4>2. CASE k = "joined"
        BY <1>1, <1>6, <2>1, <2>2, <4>2
      <4> QED
        BY <1>6, <4>1, <4>2
    <3>3. \A e \in Conns : \/ outbox'[e] = outbox[e]
                           \/ \E p : p.about = i /\ outbox'[e] = Append(outbox[e], p)
      BY <1>2, <2>1
    <3>4. Moves(w) /\ Numbered /\ Answered
      BY <1>2, <1>6
    <3>5. connected[c] =>
            \/ Open(w) /\ Open(w)' /\ outbox'[c] = outbox[c]
            \/ Open(w) /\ ~Open(w)' /\ \E p : IsAnswerTo(p, i) /\ outbox'[c] = Append(outbox[c], p)
            \/ /\ ~Open(w) /\ ~Open(w)'
               /\ \/ outbox'[c] = outbox[c]
                  \/ \E p : ~IsAnswerTo(p, i) /\ outbox'[c] = Append(outbox[c], p)
      BY <3>2
    <3>6. Answered'
      BY <1>1, <3>3, <3>4, <3>5, AnsweredMoves
    <3> QED
      BY <1>6, <2>3, <3>6 DEF Replies
  <2> QED
    BY <2>4, <2>5
<1>7. CASE /\ Quiet(w) /\ UNCHANGED loggedIn
           /\ pc[w] \notin {"announce", "broadcast", "record", "answer"}
           /\ pc'[w] \notin {"announce", "broadcast", "record"}
  <2>1. Moves(w) /\ UNCHANGED outbox /\ Open(w) /\ Open(w)'
    BY <1>7 DEF Quiet, Open
  <2> QED
    BY <1>3, <1>4, <1>7, <2>1
<1>8. CASE Admit(w) /\ Quiet(w) /\ pc[w] = "admit" /\ pc'[w] = "mark"
  <2>1. Moves(w) /\ UNCHANGED outbox /\ Open(w) /\ Open(w)'
    BY <1>8 DEF Quiet, Open
  <2>2. \A d \in Conns : loggedIn[d] => loggedIn'[d]
    BY <1>1, <1>8 DEF Admit, TypeOK
  <2> QED
    BY <1>3, <1>4, <1>8, <2>1, <2>2
<1>9. CASE /\ Quiet(w) /\ pc[w] = "begin" /\ pc'[w] = "record" /\ loggedIn[c]
           /\ UNCHANGED loggedIn
  <2>1. Moves(w) /\ UNCHANGED outbox /\ Open(w) /\ Open(w)'
    BY <1>9 DEF Quiet, Open
  <2> QED
    BY <1>3, <1>4, <1>9, <2>1
<1>10. CASE /\ Quiet(w) /\ pc[w] = "record" /\ pc'[w] = "broadcast" /\ todo'[w] = connections
            /\ UNCHANGED loggedIn
  <2>1. Moves(w) /\ UNCHANGED outbox /\ Open(w) /\ task'[w] = task[w]
    BY <1>10 DEF Quiet, Open, Moves
  <2>2. connected[c] => loggedIn[c] /\ c \in connections
    BY <1>1, <1>2, <1>10 DEF Present
  <2>3. connected[c] => Open(w)'
    BY <1>10, <2>1, <2>2 DEF Open, Client
  <2> QED
    BY <1>3, <1>4, <1>10, <2>1, <2>2, <2>3
<1>11. CASE /\ Moves(w) /\ UNCHANGED outbox /\ ~connected[c] /\ pc'[w] = "idle"
            /\ UNCHANGED loggedIn
  BY <1>3, <1>4, <1>11
<1>12. CASE /\ Answers(w, {"error", "refused"}) /\ UNCHANGED loggedIn
            /\ pc[w] \in {"begin", "database", "decide"} /\ pc'[w] = "idle"
  <2>1. Moves(w) /\ Open(w) /\ ~Open(w)'
    BY <1>12 DEF Answers, Open
  <2>2. {"error", "refused"} \in SUBSET PacketKinds
        /\ \A k \in {"error", "refused"} : IsAnswer(Packet(k, i))
    BY DEF PacketKinds, IsAnswer, Packet
  <2> QED
    BY <1>3, <1>5, <1>12, <2>1, <2>2
<1>13. CASE /\ Answers(w, {"granted"}) /\ pc[w] = "answer" /\ pc'[w] = "announce"
            /\ UNCHANGED loggedIn
  <2>1. Moves(w) /\ Open(w) /\ ~Open(w)'
    BY <1>13 DEF Answers, Open
  <2>2. {"granted"} \in SUBSET PacketKinds /\ \A k \in {"granted"} : IsAnswer(Packet(k, i))
    BY DEF PacketKinds, IsAnswer, Packet
  <2> QED
    BY <1>3, <1>5, <1>13, <2>1, <2>2
<1>14. CASE /\ Moves(w) /\ UNCHANGED <<outbox, loggedIn>> /\ todo[w] = {}
            /\ pc[w] \in {"announce", "broadcast"} /\ pc'[w] = "idle"
  <2>1. ~Open(w) /\ ~Open(w)'
    BY <1>14 DEF Open
  <2> QED
    BY <1>3, <1>4, <1>14, <2>1
<1>15. ASSUME Moves(w), UNCHANGED loggedIn, pc[w] \in {"announce", "broadcast"}, pc'[w] = pc[w],
              NEW d \in todo[w], todo'[w] = todo[w] \ {d},
              Hears(d, Packet(IF pc[w] = "announce" THEN "joined" ELSE "chat", i))
       PROVE  Replies'
  <2>1. task'[w] = task[w] /\ d \in Conns
    BY <1>15 DEF Moves, TypeOK
  <2>2. pc[w] = "broadcast" /\ connected[c] => loggedIn[c]
    BY <1>2 DEF Present
  <2>3. Numbered' /\ Present'
    BY <1>3, <1>15, <2>2
  <2>4. CASE pc[w] = "announce"
    <3>1. ~Open(w) /\ ~Open(w)'
      BY <1>15, <2>4 DEF Open
    <3> QED
      BY <1>6, <1>15, <2>1, <2>3, <2>4, <3>1
  <2>5. CASE pc[w] = "broadcast"
    <3>1. /\ Open(w) <=> c \in todo[w]
          /\ Open(w)' <=> c \in todo[w] \ {d}
      BY <1>15, <2>1, <2>5 DEF Open, Client
    <3>2. connected[c] => Session(c)
      BY <2>2, <2>5 DEF Session
    <3> QED
      BY <1>6, <1>15, <2>1, <2>3, <2>5, <3>1, <3>2
  <2> QED
    BY <1>15, <2>4, <2>5
<1> QED
  BY <1>7, <1>8, <1>9, <1>10, <1>11, <1>12, <1>13, <1>14, <1>15, WorkDoes

\* Steps that touch no request, no worker and no packet.
LEMMA RepliesQuiet ==
  ASSUME TypeOK, Roles, Replies, UNCHANGED <<asked, tasks, pc, task, todo>>,
         \A c \in Conns : connected'[c] => connected[c] \/ \A i \in 1..Len(asked) : asked[i] # c,
         \A c \in Conns : loggedIn[c] /\ ~loggedIn'[c] => ~connected[c],
         \A i \in 1..Len(asked) : asked[i] \notin fresh',
         \A c \in Conns : connected'[c] => c \in connections',
         \A c \in Conns : outbox'[c] = outbox[c]
                            \/ \E p : p.about = 0 /\ outbox'[c] = Append(outbox[c], p)
  PROVE  Replies'
<1>1. Numbered /\ Present /\ Heard /\ Answered /\ Taken' = Taken
  BY DEF Replies, Taken
<1>2. Numbered'
  BY <1>1 DEF Numbered, Client
<1>3. Present'
  <2>1. ASSUME NEW w \in Workers, pc[w] \in {"record", "broadcast"}, connected'[Client(w)]
        PROVE  loggedIn'[Client(w)]
    <3>1. Client(w) \in Conns /\ task[w].id \in 1..Taken /\ Client(w) = asked[task[w].id]
      BY <1>1, <2>1, AtWork DEF Numbered
    <3>2. task[w].id \in 1..Len(asked)
      <4>1. Len(asked) \in Nat /\ Len(tasks) \in Nat
        BY DEF TypeOK
      <4> QED
        BY <3>1, <4>1 DEF Taken
    <3>3. connected[Client(w)]
      BY <2>1, <3>1, <3>2
    <3> QED
      BY <1>1, <2>1, <3>1, <3>3 DEF Present
  <2> QED
    BY <2>1 DEF Present, Client
<1>4. Heard'
  <2>1. ASSUME NEW c \in Conns, NEW p, p.about = 0, outbox'[c] = Append(outbox[c], p)
        PROVE  \A k \in 1..Len(outbox'[c]) : outbox'[c][k].about <= Taken
    <3> DEFINE old == outbox[c]
               new == outbox'[c]
    <3>1. old \in Seq(PacketSet) /\ new = Append(old, p)
      BY <2>1 DEF TypeOK, PacketSet
    <3>2. \A k \in 1..Len(old) : old[k].about <= Taken
      BY <1>1 DEF Heard
    <3> HIDE DEF old, new
    <3>3. \A k \in 1..Len(new) : new[k] = p \/ (k \in 1..Len(old) /\ new[k] = old[k])
      BY <3>1, AppendPlaces
    <3>4. 0 <= Taken
      BY <1>1 DEF Numbered, Taken, TypeOK
    <3>5. \A k \in 1..Len(new) : new[k].about <= Taken
      BY <2>1, <3>2, <3>3, <3>4
    <3> QED
      BY <3>5 DEF new
  <2> QED
    BY <1>1, <2>1 DEF Heard
<1>5. ASSUME NEW i \in 1..Len(asked), connected'[asked[i]]
      PROVE  IF Pending(i)' THEN NoAnswer(outbox'[asked[i]], i) ELSE OneAnswer(outbox'[asked[i]], i)
  <2>1. asked[i] \in Conns /\ i # 0
    BY DEF TypeOK
  <2>2. IF Pending(i) THEN NoAnswer(outbox[asked[i]], i) ELSE OneAnswer(outbox[asked[i]], i)
    BY <1>1, <1>5, <2>1 DEF Answered
  <2>3. Pending(i)' <=> Pending(i)
    BY <1>1 DEF Pending, Open, Client
  <2>4. ASSUME NEW p, p.about = 0, outbox'[asked[i]] = Append(outbox[asked[i]], p)
        PROVE  IF Pending(i) THEN NoAnswer(outbox'[asked[i]], i) ELSE OneAnswer(outbox'[asked[i]], i)
    <3>1. ~IsAnswerTo(p, i) /\ outbox[asked[i]] \in Seq(PacketSet)
      BY <2>1, <2>4 DEF IsAnswerTo, TypeOK, PacketSet
    <3> QED
      BY <2>2, <2>4, <3>1, AppendOther
  <2> QED
    BY <2>1, <2>2, <2>3, <2>4
<1>6. Answered'
  BY <1>5 DEF Answered
<1> QED
  BY <1>2, <1>3, <1>4, <1>6 DEF Replies

\* A request that has arrived has no answer yet.
LEMMA RepliesReceive ==
  ASSUME TypeOK, Roles, Unknown, Replies, NEW c \in Conns, NEW r \in Requests, Receive(c, r)
  PROVE  Replies'
<1> DEFINE n == Len(asked)
           m == Len(tasks)
           t == [conn |-> c, id |-> n + 1, body |-> r]
<1>1. Numbered /\ Present /\ Heard /\ Answered
  BY DEF Replies
<1>2. n \in Nat /\ m \in Nat /\ m <= n /\ asked \in Seq(Conns) /\ tasks \in Seq(TaskSet)
  BY <1>1 DEF TypeOK, Numbered
<1>3. /\ asked' = Append(asked, c) /\ tasks' = Append(tasks, t)
      /\ t.conn = c /\ t.id = n + 1
      /\ UNCHANGED <<connected, loggedIn, connections, fresh, outbox, pc, task, todo>>
  BY DEF Receive, connVars, localVars
<1> HIDE DEF t
<1>4. /\ Len(asked') = n + 1 /\ asked'[n + 1] = c /\ \A i \in 1..n : asked'[i] = asked[i]
      /\ Len(tasks') = m + 1 /\ tasks'[m + 1] = t /\ \A j \in 1..m : tasks'[j] = tasks[j]
  BY <1>2, <1>3, AppendPlaces
<1>5. Taken' = Taken /\ Taken = n - m /\ Taken \in Nat
  BY <1>2, <1>4 DEF Taken
<1>6. \A i \in 1..Len(asked') : i \in 1..n \/ i = n + 1
  BY <1>2, <1>4
<1>7. Numbered'
  <2>1. Len(tasks') <= Len(asked')
    BY <1>2, <1>4
  <2>2. ASSUME NEW j \in 1..Len(tasks')
        PROVE  tasks'[j].id = Taken + j /\ tasks'[j].conn = asked'[Taken + j]
    <3>1. CASE j \in 1..m
      <4>1. Taken + j \in 1..n
        BY <1>2, <1>5, <3>1
      <4> QED
        BY <1>1, <1>4, <3>1, <4>1 DEF Numbered
    <3>2. CASE j = m + 1
      <4>1. Taken + j = n + 1
        BY <1>2, <1>5, <3>2
      <4> QED
        BY <1>3, <1>4, <3>2, <4>1
    <3> QED
      BY <1>2, <1>4, <3>1, <3>2
  <2>3. \A i \in 1..Taken : i \in 1..n
    BY <1>2, <1>5
  <2>4. ASSUME NEW w \in Workers, pc[w] # "idle"
        PROVE  /\ task[w].id \in 1..Taken /\ Client(w) = asked'[task[w].id]
               /\ \A v \in Workers : pc[v] # "idle" /\ task[v].id = task[w].id => v = w
    BY <1>1, <1>4, <2>3, <2>4 DEF Numbered
  <2> QED
    BY <1>3, <1>5, <2>1, <2>2, <2>4 DEF Numbered, Client
<1>8. Present'
  <2>1. c \notin fresh
    BY DEF Receive, Unknown
  <2>2. \A i \in 1..Len(asked') : asked'[i] \notin fresh
    BY <1>1, <1>4, <1>6, <2>1 DEF Present
  <2> QED
    BY <1>1, <1>3, <2>2 DEF Present, Client
<1>9. Heard'
  BY <1>1, <1>3, <1>5 DEF Heard
<1>10. ASSUME NEW i \in 1..Len(asked'), connected[asked'[i]]
       PROVE  IF Pending(i)' THEN NoAnswer(outbox[asked'[i]], i) ELSE OneAnswer(outbox[asked'[i]], i)
  <2>1. Pending(i)' <=> Pending(i)
    BY <1>3, <1>5 DEF Pending, Open, Client
  <2>2. CASE i \in 1..n
    BY <1>1, <1>4, <1>10, <2>1, <2>2 DEF Answered
  <2>3. CASE i = n + 1
    <3>1. i > Taken
      BY <1>2, <1>5, <2>3
    <3>2. \A k \in 1..Len(outbox[c]) : outbox[c][k].about # i
      <4>2. \A k \in 1..Len(outbox[c]) : outbox[c][k].about \in Int
        BY AboutNumbers
      <4>3. \A k \in 1..Len(outbox[c]) : outbox[c][k].about <= Taken
        BY <1>1 DEF Heard
      <4> QED
        BY <1>5, <2>3, <3>1, <4>2, <4>3
    <3>3. NoAnswer(outbox[c], i)
      BY <3>2 DEF NoAnswer, IsAnswerTo
    <3>4. Pending(i)
      BY <3>1 DEF Pending
    <3> QED
      BY <1>4, <2>1, <2>3, <3>3, <3>4
  <2> QED
    BY <1>6, <2>2, <2>3
<1>11. Answered'
  BY <1>3, <1>10 DEF Answered
<1> QED
  BY <1>7, <1>8, <1>9, <1>11 DEF Replies

\* The oldest request goes from the queue to a worker.
LEMMA RepliesTake ==
  ASSUME TypeOK, Roles, Replies, NEW w \in Workers, Take(w)
  PROVE  Replies'
<1> DEFINE n == Len(asked)
           m == Len(tasks)
           t == tasks[1]
<1>1. Numbered /\ Present /\ Heard /\ Answered
  BY DEF Replies
<1>2. n \in Nat /\ m \in Nat /\ m <= n /\ m >= 1 /\ Taken = n - m
  BY <1>1 DEF TypeOK, Numbered, Take, Taken
<1>3. /\ Len(tasks') = m - 1 /\ \A j \in 1..(m - 1) : tasks'[j] = tasks[j + 1]
      /\ Head(tasks) = t
  BY DEF Take, TypeOK
<1>4. /\ pc[w] = "idle" /\ UNCHANGED <<asked, connected, loggedIn, connections, fresh, outbox, todo>>
      /\ \A v \in Workers : pc'[v] = IF v = w THEN "begin" ELSE pc[v]
      /\ \A v \in Workers : task'[v] = IF v = w THEN t ELSE task[v]
  BY <1>3 DEF Take, Goto, workRest, TypeOK
<1>5. t.id = Taken + 1 /\ t.conn = asked[Taken + 1]
  BY <1>1, <1>2 DEF Numbered
<1>6. Taken' = Taken + 1 /\ Taken \in Nat
  BY <1>2, <1>3, <1>4 DEF Taken
<1> HIDE DEF t
<1>7. Numbered'
  <2>1. Len(tasks') <= Len(asked')
    BY <1>2, <1>3, <1>4
  <2>2. ASSUME NEW j \in 1..Len(tasks')
        PROVE  tasks'[j].id = Taken' + j /\ tasks'[j].conn = asked[Taken' + j]
    <3>1. j + 1 \in 1..m /\ tasks'[j] = tasks[j + 1]
      BY <1>2, <1>3
    <3>2. Taken' + j = Taken + (j + 1)
      BY <1>6
    <3> QED
      BY <1>1, <3>1, <3>2 DEF Numbered
  <2>3. ASSUME NEW v \in Workers, pc'[v] # "idle"
        PROVE  /\ task'[v].id \in 1..Taken' /\ task'[v].conn = asked[task'[v].id]
               /\ \A u \in Workers : pc'[u] # "idle" /\ task'[u].id = task'[v].id => u = v
    <3>1. \A u \in Workers : u # w /\ pc'[u] # "idle" =>
             task'[u] = task[u] /\ task[u].id \in 1..Taken /\ Client(u) = asked[task[u].id]
      BY <1>1, <1>4 DEF Numbered
    <3>2. \A u \in Workers : u # w /\ pc'[u] # "idle" => task'[u].id # Taken + 1
      BY <1>6, <3>1
    <3>3. CASE v = w
      BY <1>4, <1>5, <1>6, <3>2, <3>3
    <3>4. CASE v # w
      <4>1. task'[v].id \in 1..Taken' /\ task'[v].conn = asked[task'[v].id]
        BY <1>6, <2>3, <3>1, <3>4 DEF Client
      <4>2. ASSUME NEW u \in Workers, pc'[u] # "idle", task'[u].id = task'[v].id
            PROVE  u = v
        <5>1. u # w
          BY <1>4, <1>5, <2>3, <3>2, <3>4, <4>2
        <5> QED
          BY <1>1, <1>4, <2>3, <3>4, <4>2, <5>1 DEF Numbered
      <4> QED
        BY <4>1, <4>2
    <3> QED
      BY <3>3, <3>4
  <2> QED
    BY <1>4, <2>1, <2>2, <2>3 DEF Numbered, Client
<1>8. Present'
  BY <1>1, <1>4 DEF Present, Client
<1>9. Heard'
  <2>1. \A c \in Conns : \A k \in 1..Len(outbox[c]) : outbox[c][k].about \in Int
    BY AboutNumbers
  <2> QED
    BY <1>1, <1>4, <1>6, <2>1 DEF Heard
<1>10. ASSUME NEW i \in 1..Len(asked)
       PROVE  Pending(i)' <=> Pending(i)
  <2>1. \A v \in Workers : v # w => (Open(v)' <=> Open(v)) /\ task'[v] = task[v]
    BY <1>4 DEF Open, Client
  <2>2. Open(w)' /\ ~Open(w) /\ task'[w].id = Taken + 1
    BY <1>4, <1>5 DEF Open
  <2>3. i > Taken <=> i > Taken + 1 \/ i = Taken + 1
    BY <1>6
  <2>4. Pending(i) <=> i > Taken \/ \E v \in Workers : Open(v) /\ task[v].id = i
    BY DEF Pending
  <2>5. Pending(i)' <=> i > Taken + 1 \/ \E v \in Workers : Open(v)' /\ task'[v].id = i
    BY <1>6 DEF Pending
  <2> QED
    BY <2>1, <2>2, <2>3, <2>4, <2>5
<1>11. Answered'
  BY <1>1, <1>4, <1>10 DEF Answered
<1> QED
  BY <1>7, <1>8, <1>9, <1>11 DEF Replies

\* Every step keeps what is said of the answers.
LEMMA RepliesStep ==
  ASSUME IndInv, Unknown, Replies, [Next]_vars
  PROVE  Replies'
<1>1. /\ TypeOK /\ Roles /\ Closing /\ Present
      /\ \A i \in 1..Len(asked) : asked[i] \notin fresh
      /\ \A c \in Conns : connected[c] => c \in connections
  BY DEF IndInv, Replies, Present
<1>2. ASSUME NEW c \in Conns, Accept(c)
      PROVE  Replies'
  <2>1. /\ c \in fresh /\ UNCHANGED <<asked, tasks, pc, task, todo, outbox, loggedIn>>
        /\ fresh' \subseteq fresh /\ connections' = connections \cup {c}
        /\ \A d \in Conns : connected'[d] => connected[d] \/ d = c
    BY <1>1, <1>2 DEF Accept, queueVars, localVars, TypeOK
  <2> QED
    BY <1>1, <2>1, RepliesQuiet
<1>3. ASSUME NEW c \in Conns, NEW r \in Requests, Receive(c, r)
      PROVE  Replies'
  BY <1>1, <1>3, RepliesReceive
<1>4. ASSUME NEW c \in Conns, Hangup(c)
      PROVE  Replies'
  <2>1. /\ UNCHANGED <<asked, tasks, pc, task, todo, outbox, loggedIn, fresh, connections>>
        /\ \A d \in Conns : connected'[d] => connected[d]
    BY <1>1, <1>4 DEF Hangup, queueVars, localVars, TypeOK
  <2> QED
    BY <1>1, <2>1, RepliesQuiet
<1>5. CASE Close
  <2>1. UNCHANGED <<asked, tasks, pc, task, todo, fresh, connected>>
    BY <1>5 DEF Close, SeeSession, MarkOff, Logout, Remove, Farewell, closeRest, queueVars, localVars
  <2>2. CASE SeeSession \/ MarkOff
    BY <1>1, <2>1, <2>2, RepliesQuiet DEF SeeSession, MarkOff
  <2>3. CASE Logout
    <3>1. \A d \in Conns : loggedIn[d] /\ ~loggedIn'[d] => ~connected[d]
      BY <1>1, <2>3 DEF Logout, Closing, TypeOK
    <3> QED
      BY <1>1, <2>1, <2>3, <3>1, RepliesQuiet DEF Logout
  <2>4. CASE Remove
    <3>1. \A c \in Conns : connected[c] => c \in connections'
      BY <1>1, <2>4 DEF Remove, Closing
    <3> QED
      BY <1>1, <2>1, <2>4, <3>1, RepliesQuiet DEF Remove
  <2>5. ASSUME NEW c \in Conns, Farewell(c)
        PROVE  Replies'
    <3>1. Hears(c, Packet("left", 0)) /\ Packet("left", 0).about = 0
      BY <1>1, <2>5, Sending DEF Farewell, Packet
    <3>2. \A d \in Conns : outbox'[d] = outbox[d] \/ outbox'[d] = Append(outbox[d], Packet("left", 0))
      BY <3>1 DEF Hears
    <3> QED
      BY <1>1, <2>1, <2>5, <3>1, <3>2, RepliesQuiet DEF Farewell
  <2> QED
    BY <1>5, <2>2, <2>3, <2>4, <2>5 DEF Close
<1>6. ASSUME NEW w \in Workers, Work(w)
      PROVE  Replies'
  <2>1. CASE pc[w] # "idle"
    BY <1>1, <1>6, <2>1, RepliesWork
  <2>2. CASE pc[w] = "idle"
    <3>1. Take(w)
      BY <1>6, <2>2, IdleTakes
    <3> QED
      BY <1>1, <3>1, RepliesTake
  <2> QED
    BY <2>1, <2>2
<1>7. CASE UNCHANGED vars \/ \E n \in Names : Expire(n)
  <2>1. UNCHANGED <<connVars, outbox, queueVars, localVars>>
    BY <1>7 DEF vars, Expire
  <2>2. UNCHANGED <<asked, tasks, pc, task, todo, fresh, connected, connections, loggedIn, outbox>>
    BY <2>1 DEF connVars, queueVars, localVars
  <2> QED
    BY <1>1, <2>2, RepliesQuiet
<1> QED
  BY <1>2, <1>3, <1>4, <1>5, <1>6, <1>7 DEF Next, AllGone

\* At the start there is no request.
LEMMA InitReplies == Init => Replies
<1> SUFFICES ASSUME Init
             PROVE  Replies
  OBVIOUS
<1>1. Len(asked) = 0 /\ Len(tasks) = 0 /\ \A c \in Conns : Len(outbox[c]) = 0
  BY DEF Init
<1>2. Numbered
  BY <1>1 DEF Init, Numbered
<1>3. Present
  BY <1>1 DEF Init, Present
<1>4. Heard
  BY <1>1 DEF Heard
<1>5. Answered
  BY <1>1 DEF Answered
<1> QED
  BY <1>2, <1>3, <1>4, <1>5 DEF Replies

\* The invariant of the answers holds in every reachable state.
LEMMA RepliesInvariance == Spec => [](IndInv /\ Unknown /\ Replies)
<1>1. Init => IndInv /\ Unknown /\ Replies
  BY InitIndInv, InitExclusion, InitReplies
<1>2. IndInv /\ Unknown /\ Replies /\ [Next]_vars => (IndInv /\ Unknown /\ Replies)'
  BY NextIndInv, UnknownStep, RepliesStep
<1> QED
  BY <1>1, <1>2, PTL DEF Spec

\* When nothing is in progress each request of a client that is still connected
\* has had exactly one answer, with any number of clients and workers, and
\* whatever Redis does (lines 192-250, 410-418).
THEOREM RequestsAreAnswered == Spec => []EachRequestAnswered
<1>1. IndInv /\ Replies => EachRequestAnswered
  <2> SUFFICES ASSUME IndInv, Replies, Quiescent, NEW i \in 1..Len(asked), connected[asked[i]]
               PROVE  Cardinality({k \in 1..Len(outbox[asked[i]]) :
                          /\ outbox[asked[i]][k].about = i
                          /\ IsAnswer(outbox[asked[i]][k])}) = 1
    BY DEF EachRequestAnswered
  <2>1. Taken = Len(asked) /\ Len(asked) \in Nat
    BY DEF Quiescent, Taken, IndInv, TypeOK
  <2>2. ~Pending(i)
    BY <2>1 DEF Pending, Quiescent, Open
  <2>3. OneAnswer(outbox[asked[i]], i)
    BY <2>2 DEF Replies, Answered
  <2> QED
    BY <2>3, OneAnswerCounts
<1> QED
  BY <1>1, RepliesInvariance, PTL

-----------------------------------------------------------------------------
(* One worker: the order of the chats.                                     *)

\* A packet of the chat room goes to who has been greeted, and after all older
\* chats.
LEMMA OrderedKept ==
  ASSUME TypeOK, Ordered,
         \A c \in Conns : \/ outbox'[c] = outbox[c]
                          \/ \E p : /\ outbox'[c] = Append(outbox[c], p)
                                    /\ p.kind \in {"chat", "joined"} => Granted(outbox[c])
                                    /\ p.kind = "chat" => ChatsBelow(outbox[c], p.about)
  PROVE  Ordered' /\ \A c \in Conns : Granted(outbox[c]) => Granted(outbox'[c])
<1>1. ASSUME NEW c \in Conns
      PROVE  /\ GrantedFirst(outbox'[c]) /\ ChatsRise(outbox'[c])
             /\ Granted(outbox[c]) => Granted(outbox'[c])
  <2>1. outbox[c] \in Seq(PacketSet) /\ GrantedFirst(outbox[c]) /\ ChatsRise(outbox[c])
    BY DEF TypeOK, PacketSet, Ordered
  <2>2. ASSUME NEW p, outbox'[c] = Append(outbox[c], p),
               p.kind \in {"chat", "joined"} => Granted(outbox[c]),
               p.kind = "chat" => ChatsBelow(outbox[c], p.about)
        PROVE  /\ GrantedFirst(outbox'[c]) /\ ChatsRise(outbox'[c])
               /\ Granted(outbox[c]) => Granted(outbox'[c])
    BY <2>1, <2>2, AppendOrder
  <2> QED
    BY <2>1, <2>2
<1> QED
  BY <1>1 DEF Ordered

\* What the worker owes is newer than what was sent.
LEMMA NewestKept ==
  ASSUME TypeOK, Newest, SingleWorker, NEW w \in Workers, Moves(w),
         \A c \in Conns : Owes(w, c)' =>
           /\ Owes(w, c)
           /\ \/ outbox'[c] = outbox[c]
              \/ \E p : p.kind # "chat" /\ outbox'[c] = Append(outbox[c], p)
  PROVE  Newest'
<1>1. ASSUME NEW c \in Conns, Owes(w, c)'
      PROVE  ChatsBelow(outbox'[c], task'[w].id)
  <2>1. ChatsBelow(outbox[c], task[w].id) /\ task'[w] = task[w]
    BY <1>1 DEF Newest, Owes, Moves
  <2>2. ASSUME NEW p, p.kind # "chat", outbox'[c] = Append(outbox[c], p)
        PROVE  ChatsBelow(outbox'[c], task[w].id)
    <3>1. outbox[c] \in Seq(PacketSet)
      BY DEF TypeOK, PacketSet
    <3> QED
      BY <2>1, <2>2, <3>1, AppendOrder
  <2> QED
    BY <1>1, <2>1, <2>2
<1>2. \A v \in Workers : v = w
  BY DEF SingleWorker
<1> QED
  BY <1>1, <1>2 DEF Newest

\* The steps of the worker with a task.
LEMMA OrderWork ==
  ASSUME TypeOK, Roles, Order, SingleWorker, NEW w \in Workers, Work(w), pc[w] # "idle"
  PROVE  Order'
<1> DEFINE c == Client(w)
           i == task[w].id
<1>1. c \in Conns /\ \A k : Packet(k, i).kind = k /\ Packet(k, i).about = i
  BY AtWork DEF Packet
<1>2. Greeted /\ Newest /\ Ordered /\ \A v \in Workers : v = w
  BY DEF Order, SingleWorker
<1>3. ASSUME Moves(w), UNCHANGED <<outbox, loggedIn>>, pc[w] \in {"mark", "answer"} => pc'[w] = "answer",
             \A d \in Conns : Owes(w, d)' => Owes(w, d)
      PROVE  Order'
  <2>1. Greeted'
    BY <1>2, <1>3 DEF Greeted, Session, Client, Moves
  <2>2. Newest'
    BY <1>2, <1>3, NewestKept
  <2>3. Ordered'
    BY <1>2, <1>3 DEF Ordered
  <2> QED
    BY <2>1, <2>2, <2>3 DEF Order
<1>4. CASE Admit(w) /\ Quiet(w) /\ pc[w] = "admit" /\ pc'[w] = "mark"
  <2>1. Moves(w) /\ UNCHANGED outbox /\ task'[w] = task[w]
    BY <1>4 DEF Quiet, Moves
  <2>2. \A d \in Conns : loggedIn'[d] => loggedIn[d] \/ d = c
    BY <1>1, <1>4 DEF Admit, TypeOK
  <2>3. Greeted'
    <3>1. \A d \in Conns : Session(d)' => Session(d) \/ d = c
      BY <2>1, <2>2 DEF Session, Moves
    <3>2. \A d \in Conns : Session(d) => Granted(outbox[d])
      BY <1>2, <1>4 DEF Greeted
    <3>3. Client(w)' = c
      BY <2>1 DEF Client
    <3> QED
      BY <1>4, <2>1, <3>1, <3>2, <3>3 DEF Greeted
  <2>4. Newest'
    <3>1. \A d \in Conns : Owes(w, d)
      BY <1>4 DEF Owes
    <3> QED
      BY <1>2, <2>1, <3>1, NewestKept
  <2>5. Ordered'
    BY <1>2, <2>1 DEF Ordered
  <2> QED
    BY <2>3, <2>4, <2>5 DEF Order
<1>5. CASE /\ Answers(w, {"error", "refused"}) /\ UNCHANGED loggedIn
           /\ pc[w] \in {"begin", "database", "decide"} /\ pc'[w] = "idle"
  <2>1. PICK k \in {"error", "refused"} : Gets(c, Packet(k, i))
    BY <1>5 DEF Answers
  <2>2. /\ Moves(w)
        /\ \A d \in Conns : outbox'[d] = outbox[d] \/ outbox'[d] = Append(outbox[d], Packet(k, i))
    BY <1>5, <2>1 DEF Gets, Answers
  <2>3. Ordered' /\ \A d \in Conns : Granted(outbox[d]) => Granted(outbox'[d])
    BY <1>1, <1>2, <2>2, OrderedKept
  <2>4. Greeted'
    <3>1. \A d \in Conns : Session(d) => Granted(outbox[d])
      BY <1>2, <1>5 DEF Greeted
    <3> QED
      BY <1>5, <2>2, <2>3, <3>1 DEF Greeted, Session, Moves
  <2>5. Newest'
    <3>1. \A d \in Conns : ~Owes(w, d)'
      BY <1>5 DEF Owes
    <3> QED
      BY <1>2, <2>2, <3>1, NewestKept
  <2> QED
    BY <2>3, <2>4, <2>5 DEF Order
<1>6. CASE /\ Answers(w, {"granted"}) /\ pc[w] = "answer" /\ pc'[w] = "announce"
           /\ UNCHANGED loggedIn
  <2> DEFINE p == Packet("granted", i)
  <2>1. Gets(c, p) /\ Moves(w) /\ p.kind = "granted"
    BY <1>1, <1>6 DEF Answers
  <2> HIDE DEF p
  <2>2. \A d \in Conns : outbox'[d] = outbox[d] \/ outbox'[d] = Append(outbox[d], p)
    BY <2>1 DEF Gets
  <2>3. Ordered' /\ \A d \in Conns : Granted(outbox[d]) => Granted(outbox'[d])
    BY <1>2, <2>1, <2>2, OrderedKept
  <2>4. Session(c) => Granted(outbox'[c])
    <3>1. Session(c) => outbox'[c] = Append(outbox[c], p)
      BY <2>1 DEF Session, Gets
    <3>2. outbox[c] \in Seq(PacketSet)
      BY <1>1 DEF TypeOK, PacketSet
    <3> QED
      BY <2>1, <3>1, <3>2, AppendOrder
  <2>5. Greeted'
    <3>1. \A d \in Conns : Session(d) => Granted(outbox[d]) \/ d = c
      BY <1>2 DEF Greeted
    <3> QED
      BY <1>6, <2>1, <2>3, <2>4, <3>1 DEF Greeted, Session, Moves
  <2>6. Newest'
    <3>1. \A d \in Conns : Owes(w, d)
      BY <1>6 DEF Owes
    <3>2. p.kind # "chat"
      BY <2>1
    <3> QED
      BY <1>2, <2>1, <2>2, <3>1, <3>2, NewestKept
  <2> QED
    BY <2>3, <2>5, <2>6 DEF Order
<1>7. ASSUME Moves(w), UNCHANGED loggedIn, pc[w] \in {"announce", "broadcast"}, pc'[w] = pc[w],
             NEW d \in todo[w], todo'[w] = todo[w] \ {d},
             Hears(d, Packet(IF pc[w] = "announce" THEN "joined" ELSE "chat", i))
      PROVE  Order'
  <2> DEFINE p == Packet(IF pc[w] = "announce" THEN "joined" ELSE "chat", i)
  <2>1. /\ p.kind = IF pc[w] = "announce" THEN "joined" ELSE "chat"
        /\ p.about = i /\ Hears(d, p) /\ d \in Conns
    BY <1>1, <1>7 DEF TypeOK
  <2> HIDE DEF p
  <2>2. \A e \in Conns : \/ outbox'[e] = outbox[e]
                         \/ e = d /\ Session(d) /\ outbox'[e] = Append(outbox[e], p)
    BY <2>1 DEF Hears
  <2>3. \A e \in Conns : Session(e) => Granted(outbox[e])
    BY <1>2, <1>7 DEF Greeted
  <2>4. ChatsBelow(outbox[d], i)
    BY <1>2, <1>7, <2>1 DEF Newest, Owes
  <2>5. Ordered' /\ \A e \in Conns : Granted(outbox[e]) => Granted(outbox'[e])
    BY <1>2, <2>1, <2>2, <2>3, <2>4, OrderedKept
  <2>6. Greeted'
    BY <1>7, <2>3, <2>5 DEF Greeted, Session, Moves
  <2>7. Newest'
    <3>1. \A e \in Conns : Owes(w, e)' => Owes(w, e) /\ (pc[w] = "announce" \/ e # d)
      BY <1>7 DEF Owes
    <3>2. pc[w] = "announce" => p.kind # "chat"
      BY <2>1
    <3> QED
      BY <1>2, <1>7, <2>2, <3>1, <3>2, NewestKept
  <2> QED
    BY <2>5, <2>6, <2>7 DEF Order
<1>8. CASE /\ Quiet(w) /\ pc[w] \notin {"announce", "broadcast", "record", "answer"}
           /\ pc'[w] \notin {"announce", "broadcast", "record", "answer", "idle", "begin"}
           /\ UNCHANGED loggedIn /\ pc[w] \notin {"admit", "mark"} /\ pc'[w] # "mark"
  BY <1>3, <1>8 DEF Quiet, Owes
<1>9. CASE /\ Quiet(w) /\ UNCHANGED loggedIn
           /\ \/ pc[w] = "mark" /\ pc'[w] = "answer"
              \/ pc[w] = "begin" /\ pc'[w] = "record"
              \/ pc[w] = "record" /\ pc'[w] = "broadcast"
  BY <1>3, <1>9 DEF Quiet, Owes
<1>10. CASE /\ Moves(w) /\ UNCHANGED <<outbox, loggedIn>> /\ pc'[w] = "idle"
            /\ pc[w] \in {"begin", "announce", "broadcast"}
  BY <1>3, <1>10 DEF Owes
<1> QED
  BY <1>4, <1>5, <1>6, <1>7, <1>8, <1>9, <1>10, WorkDoes

\* The step of the worker that has no task.
LEMMA OrderTake ==
  ASSUME TypeOK, Replies, Order, SingleWorker, NEW w \in Workers, Take(w)
  PROVE  Order'
<1>1. Greeted /\ Ordered /\ Numbered /\ Heard /\ \A v \in Workers : v = w
  BY DEF Order, Replies, SingleWorker
<1>2. /\ pc[w] = "idle" /\ UNCHANGED <<connected, loggedIn, outbox>>
      /\ pc'[w] = "begin" /\ task'[w] = tasks[1] /\ 1 \in 1..Len(tasks)
  BY DEF Take, Goto, workRest, TypeOK
<1>3. Greeted'
  BY <1>1, <1>2 DEF Greeted, Session
<1>4. Ordered'
  BY <1>1, <1>2 DEF Ordered
<1>5. task'[w].id = Taken + 1 /\ Taken \in Int
  BY <1>1, <1>2 DEF Numbered, Taken, TypeOK
<1>6. \A c \in Conns : ChatsBelow(outbox[c], Taken + 1)
  BY <1>1, <1>5, AboutNumbers DEF ChatsBelow, Heard
<1>7. Newest'
  BY <1>1, <1>2, <1>5, <1>6 DEF Newest
<1> QED
  BY <1>3, <1>4, <1>7 DEF Order

\* Every step keeps the order.
LEMMA OrderStep ==
  ASSUME IndInv, Unknown, Replies, Order, SingleWorker, [Next]_vars
  PROVE  Order'
<1>1. TypeOK /\ Roles /\ Greeted /\ Newest /\ Ordered
  BY DEF IndInv, Order
<1>2. ASSUME UNCHANGED <<pc, task, todo>>, \A c \in Conns : Session(c)' => Session(c),
             \A c \in Conns : outbox'[c] = outbox[c]
                                \/ \E p : p.kind = "left" /\ outbox'[c] = Append(outbox[c], p)
      PROVE  Order'
  <2>1. Ordered' /\ \A c \in Conns : Granted(outbox[c]) => Granted(outbox'[c])
    BY <1>1, <1>2, OrderedKept
  <2>2. Greeted'
    BY <1>1, <1>2, <2>1 DEF Greeted, Client
  <2>3. Newest'
    <3>1. ASSUME NEW w \in Workers, NEW c \in Conns, Owes(w, c)
          PROVE  ChatsBelow(outbox'[c], task[w].id)
      <4>1. ChatsBelow(outbox[c], task[w].id) /\ outbox[c] \in Seq(PacketSet)
        BY <1>1, <3>1 DEF Newest, TypeOK, PacketSet
      <4>2. \A p : p.kind = "left" => ChatsBelow(Append(outbox[c], p), task[w].id)
        BY <4>1, AppendOrder
      <4> QED
        BY <1>2, <4>1, <4>2
    <3> QED
      BY <1>2, <3>1 DEF Newest, Owes
  <2> QED
    BY <2>1, <2>2, <2>3 DEF Order
<1>3. ASSUME NEW c \in Conns, Accept(c)
      PROVE  Order'
  <2>1. ~loggedIn[c] /\ UNCHANGED <<loggedIn, outbox, pc, task, todo>>
    BY <1>3 DEF Accept, Unknown, localVars
  <2>2. \A d \in Conns : d # c => connected'[d] = connected[d]
    BY <1>1, <1>3 DEF Accept, TypeOK
  <2> QED
    BY <1>2, <2>1, <2>2 DEF Session
<1>4. ASSUME NEW c \in Conns, Hangup(c) \/ \E r \in Requests : Receive(c, r)
      PROVE  Order'
  <2>1. UNCHANGED <<loggedIn, outbox, pc, task, todo>> /\ \A d \in Conns : connected'[d] => connected[d]
    BY <1>1, <1>4 DEF Hangup, Receive, connVars, localVars, TypeOK
  <2> QED
    BY <1>2, <2>1 DEF Session
<1>5. CASE SeeSession \/ MarkOff \/ Logout \/ Remove
  <2>1. UNCHANGED <<connected, outbox, pc, task, todo>> /\ \A d \in Conns : loggedIn'[d] => loggedIn[d]
    BY <1>1, <1>5 DEF SeeSession, MarkOff, Logout, Remove, closeRest, localVars, TypeOK
  <2> QED
    BY <1>2, <2>1 DEF Session
<1>6. ASSUME NEW c \in Conns, Farewell(c)
      PROVE  Order'
  <2>1. Hears(c, Packet("left", 0)) /\ Packet("left", 0).kind = "left"
    BY <1>1, <1>6, Sending DEF Farewell, Packet
  <2>2. UNCHANGED <<loggedIn, connected, pc, task, todo>>
    BY <1>6 DEF Farewell, closeRest, localVars
  <2>3. \A d \in Conns : outbox'[d] = outbox[d] \/ outbox'[d] = Append(outbox[d], Packet("left", 0))
    BY <2>1 DEF Hears
  <2> QED
    BY <1>2, <2>1, <2>2, <2>3 DEF Session
<1>7. ASSUME NEW w \in Workers, Work(w)
      PROVE  Order'
  <2>1. CASE pc[w] # "idle"
    BY <1>1, <1>7, <2>1, OrderWork
  <2>2. CASE pc[w] = "idle"
    <3>1. Take(w)
      BY <1>7, <2>2, IdleTakes
    <3> QED
      BY <1>1, <3>1, OrderTake
  <2> QED
    BY <2>1, <2>2
<1>8. CASE UNCHANGED vars \/ \E n \in Names : Expire(n)
  <2>1. UNCHANGED <<connVars, outbox, localVars>>
    BY <1>8 DEF vars, Expire
  <2>2. UNCHANGED <<pc, task, todo, connected, loggedIn, outbox>>
    BY <2>1 DEF connVars, localVars
  <2> QED
    BY <1>2, <2>2 DEF Session
<1> QED
  BY <1>3, <1>4, <1>5, <1>6, <1>7, <1>8 DEF Next, AllGone, Close

\* At the start nobody has received anything.
LEMMA InitOrder == Init => Order
<1> SUFFICES ASSUME Init
             PROVE  Order
  OBVIOUS
<1>1. \A c \in Conns : Len(outbox[c]) = 0
  BY DEF Init
<1>2. Greeted /\ Ordered
  BY <1>1 DEF Init, Greeted, Session, Ordered, GrantedFirst, ChatsRise
<1>3. Newest
  BY DEF Init, Newest, Owes
<1> QED
  BY <1>2, <1>3 DEF Order

\* With a single worker the chats of a client reach every client in the order in
\* which they were sent, and nobody receives a chat or the news of an arrival
\* before its own login was granted, whether or not keys expire and Redis fails
\* (handleRead lines 137-143, onMessage lines 229-233, broadcastChat lines 410-418).
THEOREM ChatsAreInOrder == ASSUME SingleWorker PROVE Spec => []ChatsInOrder
<1>1. Init => Order
  BY InitOrder
<1>2. IndInv /\ Unknown /\ Replies /\ Order /\ [Next]_vars => Order'
  BY OrderStep
<1>3. Order => ChatsInOrder
  BY DEF Order, Ordered, GrantedFirst, ChatsRise, ChatsInOrder
<1> QED
  BY <1>1, <1>2, <1>3, RepliesInvariance, PTL DEF Spec

=============================================================================
