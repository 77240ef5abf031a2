--------------------------- MODULE ConnectionPool ---------------------------
(***************************************************************************)
(* The connection pools of src/pool/RedisConnectionPool.cpp and            *)
(* src/pool/MySQLConnectionPool.cpp.  The two differ only in the class of  *)
(* the connection, which module Drivers models.                            *)
(*                                                                         *)
(* acquire() holds mutex_ while it talks to the server, so the steps of    *)
(* its loop interleave with the server and with users that already hold a  *)
(* connection, but not with other calls of the pool.                       *)
(***************************************************************************)
EXTENDS Integers, Sequences, FiniteSets, Drivers

CONSTANTS
  Users,             \* the threads that call acquire()
  Conns,             \* identities of RedisConnection or MySQLConnection objects
  NoConn, Nobody,
  MinConns,          \* config_.min_connections
  MaxConns,          \* config_.max_connections
  MaxRequests,       \* bound: calls of acquire()
  MaxOutages,        \* bound: failures of the server, and timeouts
  MaxSpurious        \* bound: spurious wakeups of cv_

\* init() refuses any other configuration (lines 97-102).
ASSUME PoolAssumption ==
  /\ MinConns \in Nat \ {0} /\ MaxConns \in Nat /\ MinConns <= MaxConns
  /\ MaxRequests \in Nat /\ MaxOutages \in Nat /\ MaxSpurious \in Nat

ASSUME NamesAssumption ==
  /\ NoConn \notin Conns /\ Nobody \notin Users
  /\ IsFiniteSet(Users) /\ IsFiniteSet(Conns)

VARIABLES
  driver,    \* the class of the connections, and whether Redis asks for AUTH
  server,    \* whether the database server works, refuses all, or is down
  link,      \* link[c]: the transport under c; "late" when a reply is under way
             \*   for which nobody waits any more
  connected, \* connected[c]: what isConnected() of c returns
  made,      \* all_connections_
  idle,      \* idle_connections_, first in first out
  phase,     \* "new", "ready" (initialized_), "failed", "gone"
  mutex,     \* the holder of mutex_
  pc,        \* pc[u]: where user u stands
  conn,      \* conn[u]: its local conn, or the content of PooledConnection
  requests,  \* calls of acquire() so far
  outages,   \* failures of the server and timeouts so far
  spurious,  \* spurious wakeups so far
  crossed    \* history: a command has taken the reply to another one for its own

serverVars == <<driver, server, link, outages>>
counters == <<requests, spurious>>
poolVars == <<made, idle, phase, mutex, pc, conn, counters>>
vars == <<serverVars, connected, crossed, poolVars>>

UserStates == {"away", "look", "ping", "reconnect", "asleep", "woken", "using"}
\* The states of a user that holds mutex_.
Inside == {"look", "ping", "reconnect"}

TypeOK ==
  /\ driver \in {"redis", "redisWithAuth", "mysql"}
  /\ server \in {"up", "refusing", "down"}
  /\ link \in [Conns -> {"none", "good", "late", "dead"}]
  /\ connected \in [Conns -> BOOLEAN] /\ crossed \in BOOLEAN
  /\ made \subseteq Conns /\ Cardinality(made) <= MaxConns
  /\ idle \in Seq(Conns)
  /\ phase \in {"new", "ready", "failed", "gone"}
  /\ mutex \in Users \cup {Nobody}
  /\ pc \in [Users -> UserStates]
  /\ conn \in [Users -> Conns \cup {NoConn}]
  /\ requests \in 0..MaxRequests /\ outages \in 0..MaxOutages
  /\ spurious \in 0..MaxSpurious

Init ==
  /\ driver \in {"redis", "redisWithAuth", "mysql"}
  /\ server \in {"up", "refusing", "down"} /\ crossed = FALSE
  /\ link = [c \in Conns |-> "none"] /\ connected = [c \in Conns |-> FALSE]
  /\ made = {} /\ idle = <<>>
  /\ phase = "new"
  /\ mutex = Nobody
  /\ pc = [u \in Users |-> "away"]
  /\ conn = [u \in Users |-> NoConn]
  /\ requests = 0 /\ outages = 0 /\ spurious = 0

Sleepers == {u \in Users : pc[u] = "asleep"}
Using    == {u \in Users : pc[u] = "using"}
InIdle   == {idle[i] : i \in 1..Len(idle)}

Unlock(u) == mutex = u /\ mutex' = Nobody
-----------------------------------------------------------------------------
(* The server, and the operations of a connection.                         *)

\* Every transport breaks.
GoDown ==
  /\ server # "down" /\ outages < MaxOutages
  /\ server' = "down" /\ outages' = outages + 1
  /\ link' = [c \in Conns |-> IF link[c] = "none" THEN "none" ELSE "dead"]
  /\ UNCHANGED <<driver, connected, crossed, poolVars>>

\* It answers everything with an error, while it loads its data for instance.
Refuse ==
  /\ server = "up" /\ outages < MaxOutages
  /\ server' = "refusing" /\ outages' = outages + 1
  /\ UNCHANGED <<driver, link, connected, crossed, poolVars>>

GoUp ==
  /\ server # "up" /\ server' = "up"
  /\ UNCHANGED <<driver, link, outages, connected, crossed, poolVars>>

TimesOut == outages < MaxOutages /\ outages' = outages + 1

Reachable ==
  IF driver = "mysql" THEN MySQLConnect(server = "up")
  ELSE RedisConnect(server # "down", driver = "redisWithAuth", 0,
                    IF server = "up" THEN "OK" ELSE "error")

\* connect() of c succeeds: there is a new transport.
Connect(c) ==
  /\ Reachable
  /\ link' = [link EXCEPT ![c] = "good"]
  /\ connected' = [connected EXCEPT ![c] = TRUE]
  /\ UNCHANGED <<driver, server, outages, crossed>>

\* It fails, or does not end in time, and leaves nothing open.
ConnectFails(c) ==
  /\ (~Reachable /\ UNCHANGED outages) \/ (Reachable /\ TimesOut)
  /\ link' = [link EXCEPT ![c] = "none"]
  /\ connected' = [connected EXCEPT ![c] = FALSE]
  /\ UNCHANGED <<driver, server, crossed>>

\* c sends a command and gets reply, which is one of usual if all is well.
Ask(c, usual, reply) ==
  \/ link[c] = "good" /\ server = "up" /\ reply \in usual /\ UNCHANGED <<link, outages>>
  \/ link[c] = "good" /\ server = "refusing" /\ reply = "error"
       /\ UNCHANGED <<link, outages>>
  \/ link[c] = "good" /\ server = "up" /\ reply = "none" /\ TimesOut
       /\ link' = [link EXCEPT ![c] = IF driver = "mysql" THEN "dead" ELSE "late"]
  \/ link[c] \in {"dead", "late"} /\ (link[c] = "dead" => reply = "none")
       /\ UNCHANGED <<link, outages>>

\* What has come of a command is recorded.
Conclude(c, end) ==
  /\ connected' = [connected EXCEPT ![c] = end.up]
  /\ crossed' = (crossed \/ (end.ok /\ link[c] = "late"))
  /\ UNCHANGED <<driver, server>>
-----------------------------------------------------------------------------
(* init() and the destructor.                                              *)

InitConnect(c) ==
  /\ phase = "new" /\ Cardinality(made) < MinConns
  /\ c \notin made
  /\ Connect(c)
  /\ made' = made \cup {c}
  /\ idle' = Append(idle, c)
  /\ UNCHANGED <<phase, mutex, pc, conn, counters>>

\* The first connect() that fails makes init() fail, and then main() returns.
InitFails ==
  /\ phase = "new" /\ Cardinality(made) < MinConns
  /\ \E c \in Conns \ made : ConnectFails(c)
  /\ phase' = "failed"
  /\ UNCHANGED <<made, idle, mutex, pc, conn, counters>>

InitDone ==
  /\ phase = "new" /\ Cardinality(made) >= MinConns
  /\ phase' = "ready"
  /\ UNCHANGED <<serverVars, connected, crossed, made, idle, mutex, pc, conn, counters>>

\* ~Server destroys the pools after stop() has joined the workers.
Destroy ==
  /\ phase = "ready" /\ phase' = "gone"
  /\ \A u \in Users : pc[u] = "away"
  /\ made' = {} /\ idle' = <<>>
  /\ UNCHANGED <<serverVars, connected, crossed, mutex, pc, conn, counters>>
-----------------------------------------------------------------------------
(* acquire().                                                              *)

Enter(u) ==
  /\ pc[u] = "away" /\ phase = "ready" /\ requests < MaxRequests
  /\ mutex = Nobody /\ mutex' = u
  /\ pc' = [pc EXCEPT ![u] = "look"]
  /\ requests' = requests + 1
  /\ UNCHANGED <<serverVars, connected, crossed, made, idle, phase, conn, spurious>>

\* Faulty variant: the connection stays in the queue while it is in use.
TakeIdleUnpopped(u) ==
  /\ pc[u] = "look" /\ idle # <<>>
  /\ pc' = [pc EXCEPT ![u] = "ping"]
  /\ conn' = [conn EXCEPT ![u] = Head(idle)]
  /\ UNCHANGED <<serverVars, connected, crossed, made, idle, phase, mutex, counters>>

TakeIdle(u) ==
  /\ pc[u] = "look" /\ idle # <<>>
  /\ pc' = [pc EXCEPT ![u] = "ping"]
  /\ conn' = [conn EXCEPT ![u] = Head(idle)]
  /\ idle' = Tail(idle)
  /\ UNCHANGED <<serverVars, connected, crossed, made, phase, mutex, counters>>

\* Without connected_ there is nothing to ask.
Ping(u) ==
  LET c == conn[u]
  IN  /\ pc[u] = "ping"
      /\ \E reply \in Replies :
           LET end == IF ~connected[c] THEN NotConnected
                      ELSE IF driver = "mysql" THEN MySQLPing(reply)
                      ELSE RedisPing(reply)
           IN  /\ IF connected[c] THEN Ask(c, {"PONG", "OK"}, reply)
                  ELSE UNCHANGED <<link, outages>>
               /\ Conclude(c, end)
               /\ IF end.ok THEN pc' = [pc EXCEPT ![u] = "using"] /\ Unlock(u)
                  ELSE pc' = [pc EXCEPT ![u] = "reconnect"] /\ UNCHANGED mutex
      /\ UNCHANGED <<made, idle, phase, conn, counters>>

ReconnectSucceeds(u) ==
  /\ pc[u] = "reconnect"
  /\ Connect(conn[u])
  /\ pc' = [pc EXCEPT ![u] = "using"]
  /\ Unlock(u)
  /\ UNCHANGED <<made, idle, phase, conn, counters>>

\* The loop continues without the connection, which nobody refers to any more
\* but all_connections_.
ReconnectFails(u) ==
  /\ pc[u] = "reconnect"
  /\ ConnectFails(conn[u])
  /\ pc' = [pc EXCEPT ![u] = "look"]
  /\ conn' = [conn EXCEPT ![u] = NoConn]
  /\ UNCHANGED <<made, idle, phase, mutex, counters>>

\* Faulty variant: all_connections_.size() is not looked at.
GrowUnlimited(u) ==
  /\ pc[u] = "look" /\ idle = <<>>
  /\ \E c \in Conns \ made :
       /\ Connect(c)
       /\ made' = made \cup {c}
       /\ conn' = [conn EXCEPT ![u] = c]
  /\ pc' = [pc EXCEPT ![u] = "using"]
  /\ Unlock(u)
  /\ UNCHANGED <<idle, phase, counters>>

Grow(u) ==
  /\ pc[u] = "look" /\ idle = <<>> /\ Cardinality(made) < MaxConns
  /\ \E c \in Conns \ made :
       /\ Connect(c)
       /\ made' = made \cup {c}
       /\ conn' = [conn EXCEPT ![u] = c]
  /\ pc' = [pc EXCEPT ![u] = "using"]
  /\ Unlock(u)
  /\ UNCHANGED <<idle, phase, counters>>

\* cv_.wait(): the pool is at its limit, or connect() has just failed.
Sleep(u) ==
  /\ pc[u] = "look" /\ idle = <<>>
  /\ \/ Cardinality(made) >= MaxConns /\ UNCHANGED <<serverVars, connected, crossed>>
     \/ Cardinality(made) < MaxConns /\ \E c \in Conns \ made : ConnectFails(c)
  /\ pc' = [pc EXCEPT ![u] = "asleep"]
  /\ Unlock(u)
  /\ UNCHANGED <<made, idle, phase, conn, counters>>

Relock(u) ==
  /\ pc[u] = "woken" /\ mutex = Nobody
  /\ pc' = [pc EXCEPT ![u] = "look"]
  /\ mutex' = u
  /\ UNCHANGED <<serverVars, connected, crossed, made, idle, phase, conn, counters>>

SpuriousWake(u) ==
  /\ pc[u] = "asleep" /\ spurious < MaxSpurious
  /\ spurious' = spurious + 1
  /\ pc' = [pc EXCEPT ![u] = "woken"]
  /\ UNCHANGED <<serverVars, connected, crossed, made, idle, phase, mutex, conn,
                 requests>>
-----------------------------------------------------------------------------
(* A command on a lent connection, and releaseConnection().                *)

\* The user calls any of the operations.
Use(u) ==
  LET c == conn[u]
  IN  /\ pc[u] = "using" /\ connected[c]
      /\ \E reply \in Replies :
           /\ Ask(c, Replies \ {"none", "PONG"}, reply)
           /\ \E end \in IF driver = "mysql" THEN MySQLCommands(reply)
                        ELSE RedisCommands(reply) : Conclude(c, end)
      /\ UNCHANGED poolVars

\* Faulty variant: nobody is told that a connection is idle again.
ReleaseSilently(u) ==
  /\ pc[u] = "using" /\ mutex = Nobody
  /\ conn' = [conn EXCEPT ![u] = NoConn]
  /\ pc' = [pc EXCEPT ![u] = "away"]
  /\ idle' = IF connected[conn[u]] THEN Append(idle, conn[u]) ELSE idle
  /\ UNCHANGED <<serverVars, connected, crossed, made, phase, mutex, counters>>

\* Faulty variant: with a sleeper there is no push, only the notification.
ReleaseToSleeper(u) ==
  /\ pc[u] = "using" /\ mutex = Nobody
  /\ conn' = [conn EXCEPT ![u] = NoConn]
  /\ \/ /\ Sleepers = {}
        /\ pc' = [pc EXCEPT ![u] = "away"]
        /\ idle' = IF connected[conn[u]] THEN Append(idle, conn[u]) ELSE idle
     \/ \E v \in Sleepers :
          /\ pc' = [pc EXCEPT ![u] = "away", ![v] = "woken"]
          /\ UNCHANGED idle
  /\ UNCHANGED <<serverVars, connected, crossed, made, phase, mutex, counters>>

Release(u) ==
  /\ pc[u] = "using" /\ mutex = Nobody
  /\ conn' = [conn EXCEPT ![u] = NoConn]
  /\ \/ /\ ~connected[conn[u]]
        /\ pc' = [pc EXCEPT ![u] = "away"]
        /\ UNCHANGED idle
     \/ /\ connected[conn[u]]
        /\ idle' = Append(idle, conn[u])
        /\ \/ /\ Sleepers = {}
              /\ pc' = [pc EXCEPT ![u] = "away"]
           \/ \E v \in Sleepers :
                pc' = [pc EXCEPT ![u] = "away", ![v] = "woken"]
  /\ UNCHANGED <<serverVars, connected, crossed, made, phase, mutex, counters>>

\* What a user does without being told to, once it has called acquire().
Proceed(u) ==
  \/ TakeIdle(u) \/ Ping(u)
  \/ ReconnectSucceeds(u) \/ ReconnectFails(u)
  \/ Grow(u) \/ Sleep(u) \/ Relock(u) \/ Release(u)

Quiet ==
  /\ \A u \in Users : pc[u] = "away"
  /\ phase = "failed" \/ phase = "gone" \/ requests = MaxRequests
  /\ UNCHANGED vars

Next ==
  \/ GoDown \/ Refuse \/ GoUp
  \/ \E c \in Conns : InitConnect(c)
  \/ InitFails \/ InitDone \/ Destroy
  \/ \E u \in Users :
       Enter(u) \/ Proceed(u) \/ Use(u) \/ SpuriousWake(u)
  \/ Quiet

Spec == Init /\ [][Next]_vars

\* The threads are scheduled, a user finishes with its connection, and calls to
\* the server end (their timeouts are configured).  Neither an outage nor its
\* end nor a spurious wakeup can be relied on.
Fairness == \A u \in Users : WF_vars(Proceed(u))

FairSpec == Spec /\ Fairness
-----------------------------------------------------------------------------
(* Properties.                                                             *)

\* Connections that the pool counts but that neither it nor a user has.
Lost == made \ (InIdle \cup {conn[u] : u \in Users})

Place(c) ==
  IF c \notin made THEN "absent"
  ELSE IF c \in {conn[u] : u \in Using} THEN "lent"
  ELSE IF c \in Lost THEN "lost" ELSE "pooled"

Abstract == INSTANCE LendingPool WITH
  place  <- [c \in Conns |-> Place(c)],
  holder <- [u \in Users |-> IF u \in Using THEN conn[u] ELSE NoConn]

\* The pool lends each connection to one user at a time and never lends again
\* one it has given up (acquire lines 139-166, releaseConnection).
ImplementsLending == Abstract!Spec

\* A connection is in the hands of one user, and not in the queue meanwhile,
\* and not twice in the queue (lines 141-151, 181-185).
Exclusive ==
  /\ \A u, v \in Users : u # v /\ conn[u] = conn[v] => conn[u] = NoConn
  /\ \A u \in Users : conn[u] \notin InIdle
  /\ Cardinality(InIdle) = Len(idle)

\* While somebody sleeps, every idle connection is matched by a user that has
\* been woken or is just looking for one: no wakeup is lost, although woken
\* users can be overtaken by new ones (lines 125-169, 183-184).
NoLostWakeup ==
  Sleepers # {} =>
    Len(idle) <= Cardinality({u \in Users : pc[u] \in {"woken", "look"}})

\* A connection that the pool has lost is a disconnected one: only failed
\* reconnects and broken connections shrink the pool, and nothing does without
\* an outage or a timeout (acquire lines 141-166, releaseConnection line 181).
LostIsDisconnected ==
  /\ \A c \in Lost : ~connected[c]
  /\ outages = 0 => Lost = {}

\* A command never takes for its own the reply to an earlier one that nobody has
\* waited for, whoever uses the connection then (RedisConnection.cpp: a missing
\* reply clears connected_, lines 402-407 in set() and alike in the others;
\* releaseConnection line 181, ping line 320).
OwnReply == ~crossed

Wants(u) == pc[u] \in Inside \cup {"asleep", "woken"}

\* Every acquire() returns: the number of calls being finite, a user cannot be
\* overtaken for ever (lines 132-169).  It waits for ever only after an outage or
\* a timeout, and then the pool has lost a connection, or has slept below its
\* limit because connect() failed: nothing wakes the sleeper when the server is
\* back (lines 144-168).
AcquireReturns ==
  \A u \in Users :
    Wants(u) ~> \/ ~Wants(u)
                \/ outages > 0 /\ (Lost # {} \/ Cardinality(made) < MaxConns)
=============================================================================
