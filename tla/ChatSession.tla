---------------------------- MODULE ChatSession -----------------------------
(***************************************************************************)
(* Sessions of the chat server: ChatService::onMessage on the threads of   *)
(* the pool and Connection::closeAndCleanup on the reactor thread, over    *)
(* the state they share: the flags of the connections, the table of        *)
(* connections, and the hash chat:user:<name> in Redis.                    *)
(*                                                                         *)
(* One step is one command to Redis or MySQL, or one access to the flags   *)
(* of a connection together with the local computation before it.  Of a    *)
(* request only what the handlers branch on is kept; of a packet only its  *)
(* kind and the request it is about.                                       *)
(***************************************************************************)
EXTENDS Integers, Sequences, FiniteSets

CONSTANTS
  Conns,        \* connections; an identity is used once
  Names,        \* the accounts in the table users
  Workers,      \* threads of the pool that execute handlers
  None,
  PoolSize,     \* Redis connections in the pool
  MaxRequests,  \* bound: requests sent by all clients
  MayExpire,    \* whether the key of a user may reach its 24 hours
  RedisMayFail  \* whether a command to Redis may fail

ASSUME SessionAssumption ==
  /\ None \notin Conns \cup Names
  /\ IsFiniteSet(Workers)
  /\ PoolSize \in Nat \ {0} /\ MaxRequests \in Nat
  /\ MayExpire \in BOOLEAN /\ RedisMayFail \in BOOLEAN

\* "malformed" stands for every request that fails parsing or validation; a
\* login that fails validation is answered in another wording.
Requests ==
  [kind : {"login"}, name : Names, good : BOOLEAN]
    \cup {[kind |-> "chat"], [kind |-> "malformed"]}

VARIABLES
  connected,    \* connected_ of each connection
  loggedIn,     \* logged_in_
  username,     \* username_, None while empty
  connections,  \* connections_ of the server
  fresh,        \* connections not accepted yet
  outbox,       \* outbox[c]: the packets appended to write_buffer_
  profile,      \* profile[n]: the hash of n has user_id, username, password
  online,       \* its field online: "nil", "0" or "1"
  slots,        \* Redis connections that are free
  tasks,        \* the queue of the thread pool
  asked,        \* history: who sent request 1, 2, ...
  pc,           \* pc[w]: where worker w stands in onMessage
  task,         \* task[w]: its conn and request
  sawOnline,    \* sawOnline[w]: its local user.online
  todo,         \* todo[w]: the connections its broadcast has still to visit
  reactor,      \* where the reactor stands in closeAndCleanup
  closing,      \* the connection it closes
  leaver,       \* the name it read from that connection
  visiting      \* the connections its broadcast has still to visit

connVars  == <<connected, loggedIn, username, connections, fresh>>
redisVars == <<profile, online, slots>>
queueVars == <<tasks, asked>>
localVars == <<pc, task, sawOnline, todo>>
closeVars == <<reactor, closing, leaver, visiting>>
vars == <<connVars, outbox, redisVars, queueVars, localVars, closeVars>>

WorkerStates == {"idle", "begin", "profile", "flag", "database", "fill",
                 "fillFlag", "decide", "admit", "mark", "answer", "announce",
                 "record", "broadcast"}
ReactorStates == {"poll", "closed", "markOff", "farewell", "logout", "remove"}
PacketKinds == {"granted", "refused", "error", "chat", "joined", "left"}

Packet(k, i) == [kind |-> k, about |-> i]
NoTask == [conn |-> None, id |-> 0, body |-> [kind |-> "malformed"]]
TaskSet == [conn : Conns, id : 1..MaxRequests, body : Requests]

TypeOK ==
  /\ connected \in [Conns -> BOOLEAN] /\ loggedIn \in [Conns -> BOOLEAN]
  /\ username \in [Conns -> Names \cup {None}]
  /\ connections \subseteq Conns /\ fresh \subseteq Conns
  /\ outbox \in [Conns -> Seq([kind : PacketKinds, about : 0..MaxRequests])]
  /\ profile \in [Names -> BOOLEAN] /\ online \in [Names -> {"nil", "0", "1"}]
  /\ slots \in 0..PoolSize
  /\ tasks \in Seq(TaskSet) /\ asked \in Seq(Conns)
  /\ pc \in [Workers -> WorkerStates]
  /\ task \in [Workers -> TaskSet \cup {NoTask}]
  /\ sawOnline \in [Workers -> BOOLEAN] /\ todo \in [Workers -> SUBSET Conns]
  /\ reactor \in ReactorStates /\ closing \in Conns \cup {None}
  /\ leaver \in Names \cup {None} /\ visiting \subseteq Conns

Init ==
  /\ connected = [c \in Conns |-> FALSE] /\ loggedIn = [c \in Conns |-> FALSE]
  /\ username = [c \in Conns |-> None]
  /\ connections = {} /\ fresh = Conns
  /\ outbox = [c \in Conns |-> <<>>]
  /\ profile = [n \in Names |-> FALSE] /\ online = [n \in Names |-> "nil"]
  /\ slots = PoolSize
  /\ tasks = <<>> /\ asked = <<>>
  /\ pc = [w \in Workers |-> "idle"] /\ task = [w \in Workers |-> NoTask]
  /\ sawOnline = [w \in Workers |-> FALSE] /\ todo = [w \in Workers |-> {}]
  /\ reactor = "poll" /\ closing = None /\ leaver = None /\ visiting = {}

\* sendJson(): a packet for a closed connection is dropped.
Send(c, p) ==
  outbox' = IF connected[c] THEN [outbox EXCEPT ![c] = Append(@, p)] ELSE outbox

\* One connection of the loop in broadcastChat and broadcastSystem.
SendIfSession(c, p) ==
  outbox' = IF connected[c] /\ loggedIn[c]
            THEN [outbox EXCEPT ![c] = Append(@, p)] ELSE outbox

Client(w) == task[w].conn
Body(w)   == task[w].body

Goto(w, from, to) == pc[w] = from /\ pc' = [pc EXCEPT ![w] = to]

\* The handler returns.
Finish(w, from) ==
  /\ Goto(w, from, "idle")
  /\ task' = [task EXCEPT ![w] = NoTask]
  /\ sawOnline' = [sawOnline EXCEPT ![w] = FALSE]
  /\ UNCHANGED todo

\* It returns after one packet to its client.
Reply(w, from, k) ==
  /\ Finish(w, from)
  /\ Send(Client(w), Packet(k, task[w].id))
-----------------------------------------------------------------------------
(* The reactor between events.                                             *)

Accept(c) ==
  /\ reactor = "poll" /\ c \in fresh
  /\ fresh' = fresh \ {c}
  /\ connected' = [connected EXCEPT ![c] = TRUE]
  /\ connections' = connections \cup {c}
  /\ UNCHANGED <<loggedIn, username, outbox, redisVars, queueVars, localVars,
                 closeVars>>

\* handleRead() has extracted a frame and submits it.
Receive(c, r) ==
  /\ reactor = "poll" /\ connected[c] /\ Len(asked) < MaxRequests
  /\ asked' = Append(asked, c)
  /\ tasks' = Append(tasks, [conn |-> c, id |-> Len(asked) + 1, body |-> r])
  /\ UNCHANGED <<connVars, outbox, redisVars, localVars, closeVars>>

\* The client hangs up, or sends what makes the server close the connection.
Hangup(c) ==
  /\ reactor = "poll" /\ connected[c]
  /\ connected' = [connected EXCEPT ![c] = FALSE]
  /\ reactor' = "closed" /\ closing' = c
  /\ UNCHANGED <<loggedIn, username, connections, fresh, outbox, redisVars,
                 queueVars, localVars, leaver, visiting>>
-----------------------------------------------------------------------------
(* onConnectionClosed() and the rest of closeAndCleanup().                 *)

closeRest == <<connected, username, fresh, queueVars, localVars>>

SeeSession ==
  /\ reactor = "closed"
  /\ IF loggedIn[closing]
     THEN reactor' = "markOff" /\ leaver' = username[closing]
     ELSE reactor' = "remove" /\ UNCHANGED leaver
  /\ UNCHANGED <<closeRest, loggedIn, connections, outbox, redisVars, closing,
                 visiting>>

\* setUserOnlineStatus(name, false), and the snapshot for the broadcast.
MarkOff ==
  /\ reactor = "markOff" /\ slots > 0
  /\ reactor' = "farewell"
  /\ \/ online' = [online EXCEPT ![leaver] = "0"]
     \/ RedisMayFail /\ UNCHANGED online
  /\ visiting' = connections
  /\ UNCHANGED <<closeRest, loggedIn, connections, outbox, profile, slots,
                 closing, leaver>>

Farewell(c) ==
  /\ reactor = "farewell" /\ c \in visiting
  /\ visiting' = visiting \ {c}
  /\ SendIfSession(c, Packet("left", 0))
  /\ UNCHANGED <<closeRest, loggedIn, connections, redisVars, reactor, closing,
                 leaver>>

Logout ==
  /\ reactor = "farewell" /\ visiting = {} /\ reactor' = "remove"
  /\ loggedIn' = [loggedIn EXCEPT ![closing] = FALSE]
  /\ leaver' = None
  /\ UNCHANGED <<closeRest, connections, outbox, redisVars, closing, visiting>>

Remove ==
  /\ reactor = "remove" /\ reactor' = "poll"
  /\ connections' = connections \ {closing}
  /\ closing' = None
  /\ UNCHANGED <<closeRest, loggedIn, outbox, redisVars, leaver, visiting>>

Close ==
  \/ SeeSession \/ MarkOff \/ Logout \/ Remove
  \/ \E c \in Conns : Farewell(c)
-----------------------------------------------------------------------------
(* onMessage().                                                            *)

workRest == <<connections, connected, fresh, asked, closeVars>>

\* Faulty variant: the newest task is taken first.
TakeNewest(w) ==
  /\ tasks # <<>>
  /\ Goto(w, "idle", "begin")
  /\ task' = [task EXCEPT ![w] = tasks[Len(tasks)]]
  /\ tasks' = SubSeq(tasks, 1, Len(tasks) - 1)
  /\ UNCHANGED <<workRest, loggedIn, username, outbox, redisVars, sawOnline,
                 todo>>

Take(w) ==
  /\ tasks # <<>>
  /\ Goto(w, "idle", "begin")
  /\ task' = [task EXCEPT ![w] = Head(tasks)]
  /\ tasks' = Tail(tasks)
  /\ UNCHANGED <<workRest, loggedIn, username, outbox, redisVars, sawOnline,
                 todo>>

beginRest == <<workRest, loggedIn, username, redisVars, tasks>>

\* Faulty variant: a chat request of a client without session is ignored.
BeginMute(w) ==
  /\ pc[w] = "begin"
  /\ \/ /\ ~connected[Client(w)] \/ (Body(w).kind = "chat" /\ ~loggedIn[Client(w)])
        /\ Finish(w, "begin")
        /\ UNCHANGED <<beginRest, outbox>>
     \/ /\ connected[Client(w)] /\ Body(w).kind = "malformed"
        /\ Reply(w, "begin", "error")
        /\ UNCHANGED beginRest
     \/ /\ connected[Client(w)]
        /\ \/ Body(w).kind = "login" /\ Goto(w, "begin", "profile")
           \/ /\ Body(w).kind = "chat" /\ loggedIn[Client(w)]
              /\ Goto(w, "begin", "record")
        /\ UNCHANGED <<beginRest, outbox, task, sawOnline, todo>>

\* The tests on the connection and on the form of the request.
Begin(w) ==
  /\ pc[w] = "begin"
  /\ \/ /\ ~connected[Client(w)]
        /\ Finish(w, "begin")
        /\ UNCHANGED <<beginRest, outbox>>
     \/ /\ connected[Client(w)]
        /\ Body(w).kind = "malformed" \/
             (Body(w).kind = "chat" /\ ~loggedIn[Client(w)])
        /\ Reply(w, "begin", "error")
        /\ UNCHANGED beginRest
     \/ /\ connected[Client(w)]
        /\ \/ Body(w).kind = "login" /\ Goto(w, "begin", "profile")
           \/ /\ Body(w).kind = "chat" /\ loggedIn[Client(w)]
              /\ Goto(w, "begin", "record")
        /\ UNCHANGED <<beginRest, outbox, task, sawOnline, todo>>

dataRest == <<workRest, loggedIn, username, outbox, tasks, task, todo>>

\* loadUserFromRedis(): the first three HGET.
LoadProfile(w) ==
  /\ slots > 0
  /\ \/ /\ Goto(w, "profile", "flag")
        /\ profile[Body(w).name]
        /\ slots' = slots - 1
     \/ /\ Goto(w, "profile", "database")
        /\ ~profile[Body(w).name] \/ RedisMayFail
        /\ UNCHANGED slots
  /\ UNCHANGED <<dataRest, profile, online, sawOnline>>

\* Its last HGET, whose failure reads as offline.
LoadFlag(w) ==
  /\ Goto(w, "flag", "decide")
  /\ \/ sawOnline' = [sawOnline EXCEPT ![w] = online[Body(w).name] = "1"]
     \/ RedisMayFail /\ sawOnline' = [sawOnline EXCEPT ![w] = FALSE]
  /\ slots' = slots + 1
  /\ UNCHANGED <<dataRest, profile, online>>

\* loadUserFromMySQL(): the table knows nothing of sessions.
LoadFromTable(w) ==
  /\ Goto(w, "database", "fill")
  /\ sawOnline' = [sawOnline EXCEPT ![w] = FALSE]
  /\ UNCHANGED <<dataRest, redisVars>>

\* Faulty variant: the user is looked up again and again.
LookUpAgain(w) ==
  /\ Goto(w, "database", "profile")
  /\ UNCHANGED <<dataRest, redisVars, sawOnline>>

\* There is no such row, or the query failed.
RefuseUnknown(w) ==
  /\ Reply(w, "database", "refused")
  /\ UNCHANGED beginRest

\* cacheUserToRedis(): three HSET, and then the one of the field online, which
\* is skipped when one of them failed.
FillProfile(w) ==
  /\ slots > 0
  /\ \/ /\ Goto(w, "fill", "fillFlag")
        /\ profile' = [profile EXCEPT ![Body(w).name] = TRUE]
        /\ slots' = slots - 1
     \/ /\ RedisMayFail
        /\ Goto(w, "fill", "decide")
        /\ UNCHANGED <<profile, slots>>
  /\ UNCHANGED <<dataRest, online, sawOnline>>

FillFlag(w) ==
  /\ Goto(w, "fillFlag", "decide")
  /\ \/ online' = [online EXCEPT ![Body(w).name] = "0"]
     \/ RedisMayFail /\ UNCHANGED online
  /\ slots' = slots + 1
  /\ UNCHANGED <<dataRest, profile, sawOnline>>

\* Wrong password, user already online, or the session begins.
Refuse(w) ==
  /\ Reply(w, "decide", "refused")
  /\ ~Body(w).good \/ sawOnline[w]
  /\ UNCHANGED beginRest

\* Faulty variant: nobody looks whether the user is online.
SetUserInfoUnasked(w) ==
  /\ Goto(w, "decide", "admit")
  /\ Body(w).good
  /\ username' = [username EXCEPT ![Client(w)] = Body(w).name]
  /\ UNCHANGED <<workRest, loggedIn, outbox, redisVars, tasks, task, sawOnline,
                 todo>>

\* Faulty variant: logged_in_ is set before the name.
SetFlagFirst(w) ==
  /\ Goto(w, "decide", "admit")
  /\ Body(w).good /\ ~sawOnline[w]
  /\ loggedIn' = [loggedIn EXCEPT ![Client(w)] = TRUE]
  /\ UNCHANGED <<workRest, username, outbox, redisVars, tasks, task, sawOnline,
                 todo>>

SetUserInfo(w) ==
  /\ Goto(w, "decide", "admit")
  /\ Body(w).good /\ ~sawOnline[w]
  /\ username' = [username EXCEPT ![Client(w)] = Body(w).name]
  /\ UNCHANGED <<workRest, loggedIn, outbox, redisVars, tasks, task, sawOnline,
                 todo>>

Admit(w) ==
  /\ Goto(w, "admit", "mark")
  /\ loggedIn' = [loggedIn EXCEPT ![Client(w)] = TRUE]
  /\ UNCHANGED <<workRest, username, outbox, redisVars, tasks, task, sawOnline,
                 todo>>

\* Faulty variant: the flag is written only where there is none yet.
MarkOnlineOnce(w) ==
  /\ slots > 0
  /\ Goto(w, "mark", "answer")
  /\ online' = IF online[Body(w).name] = "nil"
               THEN [online EXCEPT ![Body(w).name] = "1"] ELSE online
  /\ UNCHANGED <<dataRest, profile, slots, sawOnline>>

\* setUserOnlineStatus(name, true).
MarkOnline(w) ==
  /\ slots > 0
  /\ Goto(w, "mark", "answer")
  /\ \/ online' = [online EXCEPT ![Body(w).name] = "1"]
     \/ RedisMayFail /\ UNCHANGED online
  /\ UNCHANGED <<dataRest, profile, slots, sawOnline>>

\* sendLoginResp(), and the snapshot for the broadcast.
Grant(w) ==
  /\ Goto(w, "answer", "announce")
  /\ Send(Client(w), Packet("granted", task[w].id))
  /\ todo' = [todo EXCEPT ![w] = connections]
  /\ UNCHANGED <<workRest, loggedIn, username, redisVars, tasks, task,
                 sawOnline>>

\* cacheChatRecord() writes a key of its own; then the snapshot.
Record(w) ==
  /\ slots > 0
  /\ Goto(w, "record", "broadcast")
  /\ todo' = [todo EXCEPT ![w] = connections]
  /\ UNCHANGED <<workRest, loggedIn, username, outbox, redisVars, tasks, task,
                 sawOnline>>

SpreadTo(w, c) ==
  /\ pc[w] \in {"announce", "broadcast"} /\ c \in todo[w]
  /\ todo' = [todo EXCEPT ![w] = @ \ {c}]
  /\ SendIfSession(c, Packet(IF pc[w] = "announce" THEN "joined" ELSE "chat",
                             task[w].id))
  /\ UNCHANGED <<workRest, loggedIn, username, redisVars, tasks, pc, task,
                 sawOnline>>

SpreadDone(w) ==
  /\ todo[w] = {}
  /\ Finish(w, "announce") \/ Finish(w, "broadcast")
  /\ UNCHANGED <<beginRest, outbox>>

Work(w) ==
  \/ Take(w) \/ Begin(w) \/ LoadProfile(w) \/ LoadFlag(w) \/ LoadFromTable(w)
  \/ RefuseUnknown(w) \/ FillProfile(w) \/ FillFlag(w) \/ Refuse(w) \/ SetUserInfo(w) \/ Admit(w)
  \/ MarkOnline(w) \/ Grant(w) \/ Record(w) \/ SpreadDone(w)
  \/ \E c \in Conns : SpreadTo(w, c)
-----------------------------------------------------------------------------
\* EXPIRE has run out: the hash is gone.
Expire(n) ==
  /\ MayExpire /\ (profile[n] \/ online[n] # "nil")
  /\ profile' = [profile EXCEPT ![n] = FALSE]
  /\ online' = [online EXCEPT ![n] = "nil"]
  /\ UNCHANGED <<connVars, outbox, slots, queueVars, localVars, closeVars>>

Quiescent ==
  tasks = <<>> /\ reactor = "poll" /\ \A w \in Workers : pc[w] = "idle"

\* Every client has gone and will not come back.
AllGone ==
  /\ Quiescent /\ fresh = {} /\ \A c \in Conns : ~connected[c]
  /\ UNCHANGED vars

Next ==
  \/ \E c \in Conns :
       Accept(c) \/ Hangup(c) \/ \E r \in Requests : Receive(c, r)
  \/ Close
  \/ \E w \in Workers : Work(w)
  \/ \E n \in Names : Expire(n)
  \/ AllGone

Spec == Init /\ [][Next]_vars

\* The threads are scheduled and every command to a server returns.  Clients
\* are free to do nothing.
Fairness == (\A w \in Workers : WF_vars(Work(w))) /\ WF_vars(Close)

FairSpec == Spec /\ Fairness
-----------------------------------------------------------------------------
(* Properties.                                                             *)

Session(c) == connected[c] /\ loggedIn[c]

\* Nobody is logged in on two open connections: the second login is answered
\* with "user already online" (lines 224-227).
AtMostOneSession ==
  \A c, d \in Conns :
    c # d /\ Session(c) /\ Session(d) => username[c] # username[d]

\* When nothing is in progress, the user of a session is marked online in
\* Redis: the "0" of a connection that closes never hits a newer session of
\* the same user (lines 229-231, 252-258, 352-359).
SessionMarked ==
  Quiescent => \A c \in Conns : Session(c) => online[username[c]] = "1"

\* When nothing is in progress, a user that Redis says is online has a session
\* (README.md lines 208-212).
OnlineMeansSession ==
  Quiescent => \A n \in Names : online[n] = "1" =>
    \E c \in Conns : Session(c) /\ username[c] = n

\* Another worker or the reactor that sees logged_in_ finds a name as well:
\* the name is written first (lines 229-230, 252-255, 238-247).
SessionHasName == \A c \in Conns : loggedIn[c] => username[c] # None

IsAnswer(p) == p.kind \in {"granted", "refused", "error", "chat"}

\* When nothing is in progress, each request of a client that is still there
\* has had exactly one answer; that of an accepted chat is the chat itself
\* (lines 192-250, 410-418).
EachRequestAnswered ==
  Quiescent => \A i \in 1..Len(asked) : connected[asked[i]] =>
    Cardinality({k \in 1..Len(outbox[asked[i]]) :
       /\ outbox[asked[i]][k].about = i
       /\ IsAnswer(outbox[asked[i]][k])}) = 1

\* With a single worker the chats of a client reach every client in the order
\* in which they were sent, and a client learns that its login was granted
\* before it receives anything of the chat room but the news that somebody has
\* left, which the reactor announces (handleRead lines 137-143, onMessage lines
\* 229-233, broadcastChat lines 410-418).
ChatsInOrder ==
  \A c \in Conns : \A j \in 1..Len(outbox[c]) :
    /\ outbox[c][j].kind \in {"chat", "joined"} =>
         \E i \in 1..(j - 1) : outbox[c][i].kind = "granted"
    /\ \A i \in 1..(j - 1) :
         /\ outbox[c][i].kind = "chat" /\ outbox[c][j].kind = "chat"
         /\ asked[outbox[c][i].about] = asked[outbox[c][j].about]
         => outbox[c][i].about < outbox[c][j].about

\* Every request gets through, also when a single Redis connection is shared
\* by the reactor and the workers: nobody waits for a second one while it
\* holds one (lines 295-359).
EverythingEnds == <>[](tasks = <<>> /\ \A w \in Workers : pc[w] = "idle")
=============================================================================
