------------------------------- MODULE Server -------------------------------
(***************************************************************************)
(* The life of the server process: main(), Server::init, Reactor::loop     *)
(* with its table of handlers, handleAccept, the callbacks of a            *)
(* connection, closeAndCleanup, stop() and the destructors, and the file   *)
(* descriptors that they open and close.                                   *)
(*                                                                         *)
(* The main thread is a stack of activations, the running one first.  A    *)
(* signal puts stop() on top of whatever the thread is doing.  The mutexes *)
(* that the main thread holds follow from the labels on its stack; the     *)
(* workers hold a mutex only within a step.                                *)
(***************************************************************************)
EXTENDS Integers, Sequences, FiniteSets, FiniteSetsExt

CONSTANTS
  Conns,       \* the clients, each of which connects once
  Fds,         \* the descriptors that the process may open
  Workers,     \* the threads of the pool
  None,        \* no connection, no descriptor
  MaxTasks     \* frames in the task queue (bounds the model)

\* What else may own a descriptor, hold a mutex or call stop().
Names == {"free", "listen", "db", "table", "redis", "queue",
          "signal", "error", "exit"}

ASSUME ServerAssumption ==
  /\ Fds \subseteq Nat /\ IsFiniteSet(Fds) /\ IsFiniteSet(Conns)
  /\ None \notin Conns \cup Fds
  /\ None \notin Names /\ Conns \cap Names = {}
  /\ MaxTasks \in Nat

VARIABLES
  stack,      \* the activations of the main thread
  running,    \* running_ of the reactor
  stopped,    \* stopped_
  poolDown,   \* the thread pool refuses tasks
  fate,       \* whether the process is running, has exited or was aborted
  owner,      \* owner[f]: who has opened descriptor f
  fdOf,       \* fdOf[c]: fd_ of connection c
  listenFd,   \* listen_fd_
  client,     \* client[c]: has it connected, and has it been accepted
  connected,  \* connected_
  loggedIn,   \* logged_in_
  handlers,   \* handlers_, and what epoll knows
  table,      \* connections_
  backlog,    \* whether a report of the listener is due, or accept() failed
  tasks,      \* the frames in the task queue, by their connection
  worker,     \* worker[w]: what worker w is doing
  hit,        \* history: what the signal that stopped the server interrupted
  stray,      \* history: a descriptor was closed by one who did not own it
  regFailed   \* history: an accepted connection could not be registered

flagVars == <<running, stopped, poolDown, fate>>
fdVars   == <<owner, fdOf, listenFd, stray>>
connVars == <<client, connected, loggedIn>>
regVars  == <<handlers, table, backlog>>
jobVars  == <<tasks, worker>>
histVars == <<hit, regFailed>>
dataVars == <<flagVars, fdVars, connVars, regVars, jobVars, histVars>>
vars     == <<stack, dataVars>>

top == Head(stack)

Frame(l, c) == [at |-> l, c |-> c, todo |-> {}, to |-> None]
Idle        == [at |-> "idle", c |-> None, to |-> None]

MainLabels   == {"initReactor", "initListen", "initAdd", "wait", "dispatch",
                 "thenWrite", "exit", "destroy", "destroyed"}
AcceptLabels == {"accept", "register", "closeAgain", "insert", "inserting"}
ReadLabels   == {"recv", "extract", "submit", "pushing"}
WriteLabels  == {"write", "writing", "written"}
CloseLabels  == {"cas", "del", "logout", "acquiring", "farewell", "snapshot",
                 "sends", "sending", "remove", "removing", "closeFd"}
StopLabels   == {"stop", "copy", "closeAll", "clear", "closeListen", "shutdown",
                 "join"}

TypeOK ==
  /\ stack # <<>> /\ stack[Len(stack)].at \in MainLabels
  /\ \A i \in 1..(Len(stack) - 1) :
       stack[i].at \in AcceptLabels \cup ReadLabels \cup WriteLabels \cup
                       CloseLabels \cup StopLabels
  /\ running \in BOOLEAN /\ stopped \in BOOLEAN /\ poolDown \in BOOLEAN
  /\ fate \in {"running", "exited", "aborted"}
  /\ owner \in [Fds -> Conns \cup {"free", "listen", "db"}]
  /\ fdOf \in [Conns -> Fds \cup {None}] /\ listenFd \in Fds \cup {None}
  /\ client \in [Conns -> {"new", "waiting", "accepted"}]
  /\ connected \in [Conns -> BOOLEAN] /\ loggedIn \in [Conns -> BOOLEAN]
  /\ listenFd # None => owner[listenFd] = "listen"
  /\ handlers \in [Fds -> Conns \cup {"listen", None}]
  /\ table \in [Fds -> Conns \cup {None}] /\ backlog \in {"none", "due", "failed"}
  /\ tasks \in Seq(Conns) /\ Len(tasks) <= MaxTasks
  /\ \A w \in Workers :
       worker[w].at \in {"idle", "acquire", "spread", "send"}

\* main() has constructed the server and installed the signal handlers.
Init ==
  /\ stack = <<Frame("initReactor", None)>>
  /\ running = FALSE /\ stopped = FALSE /\ poolDown = FALSE
  /\ fate = "running"
  /\ owner = [f \in Fds |-> "free"] /\ fdOf = [c \in Conns |-> None]
  /\ listenFd = None
  /\ client = [c \in Conns |-> "new"] /\ connected = [c \in Conns |-> TRUE]
  /\ loggedIn = [c \in Conns |-> FALSE]
  /\ handlers = [f \in Fds |-> None] /\ table = [f \in Fds |-> None]
  /\ backlog = "none"
  /\ tasks = <<>> /\ worker = [w \in Workers |-> Idle]
  /\ hit = "none" /\ stray = FALSE /\ regFailed = FALSE
-----------------------------------------------------------------------------
(* Activations, mutexes and descriptors.                                   *)

At(l) == fate = "running" /\ top.at = l

Become(f)     == stack' = <<f>> \o Tail(stack)
Goto(l)       == Become([top EXCEPT !.at = l])
Call(f, back) == stack' = <<f, back>> \o Tail(stack)
Return        == stack' = Tail(stack)

\* connections_mtx_, mutex_ of the Redis pool, mtx_ of the task queue, and
\* write_mtx_ of a connection, which is named by the connection.
LocksOf(f) ==
  CASE f.at \in {"snapshot", "removing", "inserting"} -> {"table"}
    [] f.at = "acquiring"              -> {"redis"}
    [] f.at = "pushing"                -> {"queue"}
    [] f.at \in {"writing", "written"} -> {f.c}
    [] f.at = "sending"                -> {f.to}
    [] OTHER                           -> {}

Held(frames) == UNION {LocksOf(frames[i]) : i \in 1..Len(frames)}
Free(lock)   == lock \notin Held(stack)

\* The activations that go on with connections_mtx_ locked.
Critical == [insert |-> "inserting", farewell |-> "snapshot",
             remove |-> "removing"]

LockTable ==
  /\ fate = "running" /\ top.at \in DOMAIN Critical /\ Free("table")
  /\ Goto(Critical[top.at])
  /\ UNCHANGED dataVars

InTable == {table[f] : f \in Fds} \ {None}
FreeFds == {f \in Fds : owner[f] = "free"}

\* ::close(f) by one who takes the descriptor for his own.
CloseAs(me, f) ==
  IF f \in Fds
  THEN /\ owner' = [owner EXCEPT ![f] = "free"]
       /\ stray' = (stray \/ owner[f] \notin {me, "free"})
  ELSE UNCHANGED <<owner, stray>>

\* Faulty variant: the connection that is being closed is not left out.
ReceivesWhileClosing(d) == loggedIn[d]

\* What a broadcast sends to.
Receives(d) == connected[d] /\ loggedIn[d]
-----------------------------------------------------------------------------
(* main() and Server::init.                                                *)

\* The reactor is initialised, and the pools; either may fail.
InitReactor ==
  /\ At("initReactor")
  /\ running' = TRUE
  /\ Goto("initListen") \/ Goto("exit")
  /\ UNCHANGED <<stopped, poolDown, fate, fdVars, connVars, regVars, jobVars,
                 histVars>>

\* socket() may fail; bind() or listen() may fail with the descriptor kept.
InitListenSocket ==
  /\ At("initListen")
  /\ \/ /\ FreeFds # {} /\ listenFd' = Min(FreeFds)
        /\ owner' = [owner EXCEPT ![listenFd'] = "listen"]
        /\ Goto("initAdd") \/ Goto("exit")
     \/ UNCHANGED <<listenFd, owner>> /\ Goto("exit")
  /\ UNCHANGED <<flagVars, fdOf, stray, connVars, regVars, jobVars, histVars>>

\* A stop() in between has left no descriptor to register.
AddListener ==
  /\ At("initAdd")
  /\ \/ /\ listenFd # None /\ Goto("wait")
        /\ handlers' = [handlers EXCEPT ![listenFd] = "listen"]
        /\ backlog' = IF \E c \in Conns : client[c] = "waiting" THEN "due" ELSE "none"
     \/ UNCHANGED <<handlers, backlog>> /\ Goto("exit")
  /\ UNCHANGED <<flagVars, fdVars, connVars, table, jobVars, histVars>>

\* start() has returned or init() has failed: ~Server() calls stop().
Exit ==
  /\ At("exit") /\ Call(Frame("stop", "exit"), [top EXCEPT !.at = "destroy"])
  /\ UNCHANGED dataVars

\* The members are destroyed.
Destroy ==
  \/ /\ At("destroy") /\ Goto("destroyed")
     /\ table' = [f \in Fds |-> None]
     /\ UNCHANGED <<flagVars, fdVars, connVars, handlers, backlog, jobVars,
                    histVars>>
  \/ /\ At("destroyed") /\ \A c \in Conns : fdOf[c] = None
     /\ fate' = "exited"
     /\ UNCHANGED <<stack, running, stopped, poolDown, fdVars, connVars,
                    regVars, jobVars, histVars>>

Main == InitReactor \/ InitListenSocket \/ AddListener \/ Exit \/ Destroy
-----------------------------------------------------------------------------
(* Reactor::loop.                                                          *)

\* Faulty variant: running_ is not looked at again.
EpollWaitForever ==
  /\ At("wait")
  /\ Become([top EXCEPT !.at = "dispatch",
                        !.todo = {f \in Fds : handlers[f] # None}])
  /\ UNCHANGED dataVars

\* epoll_wait() returns events of registered descriptors, or fails.
EpollWait ==
  /\ At("wait")
  /\ \/ running /\ Become([top EXCEPT !.at = "dispatch",
                                      !.todo = {f \in Fds : handlers[f] # None}])
     \/ Goto("exit")
  /\ UNCHANGED dataVars

\* What the loop calls for an event, and where it goes on.
Callback(h, ev, rest) ==
  CASE h = "listen" /\ ev = "error" -> <<Frame("stop", "error"), rest>>
    [] h = "listen" /\ ev # "error" -> <<Frame("accept", None), rest>>
    [] h \in Conns /\ ev = "error"  -> <<Frame("cas", h), rest>>
    [] h \in Conns /\ ev = "in"     -> <<Frame("recv", h), rest>>
    [] h \in Conns /\ ev = "out"    -> <<Frame("write", h), rest>>
    [] h \in Conns /\ ev = "inOut"  ->
         <<Frame("recv", h), [rest EXCEPT !.at = "thenWrite", !.to = h]>>

\* An event of any kind may have been reported for any of the descriptors, in any
\* order, but once for each; the listener reads when clients wait.  One whose
\* handler has been erased meanwhile is skipped.
Dispatch ==
  /\ At("dispatch")
  /\ \/ Become([top EXCEPT !.at = "wait", !.todo = {}]) /\ UNCHANGED backlog
     \/ \E f \in top.todo, ev \in {"in", "out", "inOut", "error"} :
          /\ handlers[f] # None /\ owner[f] = handlers[f]
          /\ handlers[f] = "listen" => ev = "error" \/ (ev = "in" /\ backlog = "due")
          /\ stack' = Callback(handlers[f], ev, [top EXCEPT !.todo = @ \ {f}])
          /\ backlog' = IF handlers[f] = "listen" THEN "none" ELSE backlog
  /\ UNCHANGED <<flagVars, fdVars, connVars, handlers, table, jobVars, histVars>>

\* The loop still refers to the handler of before handleRead().  If that has
\* been erased, the write callback is called on freed memory: it does nothing,
\* as for a connection that is gone, or the process is aborted.
ThenWrite ==
  /\ At("thenWrite")
  /\ LET back == [top EXCEPT !.at = "dispatch", !.to = None]
     IN  IF \E f \in Fds : handlers[f] = top.to
         THEN Call(Frame("write", top.to), back) /\ UNCHANGED fate
         ELSE Become(back) /\ fate' \in {"running", "aborted"}
  /\ UNCHANGED <<running, stopped, poolDown, fdVars, connVars, regVars,
                 jobVars, histVars>>

Loop == EpollWait \/ Dispatch \/ ThenWrite
-----------------------------------------------------------------------------
(* handleAccept.                                                           *)

\* The clients are interchangeable: which of them is next does not matter.
NextIn(state) == CHOOSE c \in Conns : client[c] = state

Accept ==
  /\ At("accept") /\ listenFd # None /\ FreeFds # {}
  /\ \E c \in Conns : client[c] = "waiting"
  /\ LET c == NextIn("waiting")
     IN  /\ client' = [client EXCEPT ![c] = "accepted"]
         /\ fdOf' = [fdOf EXCEPT ![c] = Min(FreeFds)]
         /\ owner' = [owner EXCEPT ![Min(FreeFds)] = c]
         /\ Become(Frame("register", c))
  /\ UNCHANGED <<flagVars, listenFd, stray, connected, loggedIn, regVars,
                 jobVars, histVars>>

\* accept() fails: nobody waits, the listener is closed, the process has no
\* descriptor left, or the client has given up.
AcceptFails ==
  /\ At("accept") /\ Return
  /\ backlog' = IF backlog = "none" /\ \E c \in Conns : client[c] = "waiting"
                THEN "failed" ELSE backlog
  /\ UNCHANGED <<flagVars, fdVars, connVars, handlers, table, jobVars, histVars>>

Register ==
  /\ At("register") /\ Goto("insert")
  /\ handlers' = [handlers EXCEPT ![fdOf[top.c]] = top.c]
  /\ UNCHANGED <<flagVars, fdVars, connVars, table, backlog, jobVars, histVars>>

\* registerToReactor() fails: the descriptor is closed by its number ...
RegisterFails ==
  /\ At("register") /\ Goto("closeAgain")
  /\ CloseAs(top.c, fdOf[top.c])
  /\ regFailed' = TRUE
  /\ UNCHANGED <<flagVars, fdOf, listenFd, connVars, regVars, jobVars, hit>>

\* ... and once more by ~Connection().
CloseAgain ==
  /\ At("closeAgain") /\ Become(Frame("accept", None))
  /\ CloseAs(top.c, fdOf[top.c])
  /\ fdOf' = [fdOf EXCEPT ![top.c] = None]
  /\ UNCHANGED <<flagVars, listenFd, connVars, regVars, jobVars, histVars>>

\* Faulty variant: one client is accepted for each report.
InsertAndReturn ==
  /\ At("inserting") /\ Return
  /\ table' = [table EXCEPT ![fdOf[top.c]] = top.c]
  /\ UNCHANGED <<flagVars, fdVars, connVars, handlers, backlog, jobVars, histVars>>

Insert ==
  /\ At("inserting") /\ Become(Frame("accept", None))
  /\ table' = [table EXCEPT ![fdOf[top.c]] = top.c]
  /\ UNCHANGED <<flagVars, fdVars, connVars, handlers, backlog, jobVars, histVars>>

HandleAccept ==
  Accept \/ AcceptFails \/ Register \/ RegisterFails \/ CloseAgain \/ Insert
-----------------------------------------------------------------------------
(* handleRead and handleWrite.                                             *)

\* Everything is read, or the stream has ended, failed or become invalid; then
\* any number of frames is submitted.
Read ==
  /\ \/ At("recv") /\ ~connected[top.c] /\ Return
     \/ At("recv") /\ connected[top.c]
          /\ (Goto("extract") \/ Become(Frame("cas", top.c)))
     \/ At("extract") /\ (Return \/ (Len(tasks) < MaxTasks /\ Goto("submit")))
  /\ UNCHANGED dataVars

\* An exception of submit() leaves main().
Submit ==
  /\ At("submit")
  /\ IF poolDown THEN fate' = "aborted" /\ UNCHANGED stack
     ELSE Goto("pushing") /\ UNCHANGED fate
  /\ UNCHANGED <<running, stopped, poolDown, fdVars, connVars, regVars,
                 jobVars, histVars>>

PushTask ==
  /\ At("pushing") /\ Goto("extract")
  /\ tasks' = Append(tasks, top.c)
  /\ UNCHANGED <<flagVars, fdVars, connVars, regVars, worker, histVars>>

\* A failing send() closes the connection with write_mtx_ held.
Write ==
  /\ \/ At("write") /\ ~connected[top.c] /\ Return
     \/ At("write") /\ connected[top.c] /\ Free(top.c) /\ Goto("writing")
     \/ At("writing") /\ Call(Frame("cas", top.c), [top EXCEPT !.at = "written"])
     \/ (At("writing") \/ At("written")) /\ Return
  /\ UNCHANGED dataVars

Callbacks == Read \/ Submit \/ PushTask \/ Write
-----------------------------------------------------------------------------
(* closeAndCleanup and onConnectionClosed.                                 *)

Cas ==
  /\ At("cas")
  /\ IF connected[top.c] THEN Goto("del") ELSE Return
  /\ connected' = [connected EXCEPT ![top.c] = FALSE]
  /\ UNCHANGED <<flagVars, fdVars, client, loggedIn, regVars, jobVars, histVars>>

\* Faulty variant: the descriptor leaves epoll and its handler stays.
DelFdOnly ==
  /\ At("del") /\ Goto("logout")
  /\ UNCHANGED dataVars

DelFd ==
  /\ At("del") /\ Goto("logout")
  /\ handlers' = [handlers EXCEPT ![fdOf[top.c]] = None]
  /\ UNCHANGED <<flagVars, fdVars, connVars, table, backlog, jobVars, histVars>>

\* A session is marked as ended in Redis, and a farewell is sent to those in a
\* snapshot of the table.
Logout ==
  /\ \/ At("logout") /\ ~loggedIn[top.c] /\ Goto("remove")
     \/ At("logout") /\ loggedIn[top.c] /\ Free("redis") /\ Goto("acquiring")
     \/ At("acquiring") /\ Goto("farewell")
     \/ At("snapshot") /\ Become([top EXCEPT !.at = "sends", !.todo = InTable])
  /\ UNCHANGED dataVars

FarewellTo(d) ==
  /\ At("sends") /\ d \in top.todo
  /\ IF Receives(d)
     THEN Free(d) /\ Become([top EXCEPT !.at = "sending", !.to = d])
     ELSE Become([top EXCEPT !.todo = @ \ {d}])
  /\ UNCHANGED dataVars

FarewellSent ==
  \/ /\ At("sending")
     /\ Become([top EXCEPT !.at = "sends", !.to = None, !.todo = @ \ {top.to}])
     /\ UNCHANGED dataVars
  \/ /\ At("sends") /\ top.todo = {} /\ Goto("remove")
     /\ loggedIn' = [loggedIn EXCEPT ![top.c] = FALSE]
     /\ UNCHANGED <<flagVars, fdVars, client, connected, regVars, jobVars, histVars>>

RemoveConnection ==
  /\ At("removing") /\ Goto("closeFd")
  /\ table' = [table EXCEPT ![fdOf[top.c]] = None]
  /\ UNCHANGED <<flagVars, fdVars, connVars, handlers, backlog, jobVars, histVars>>

\* Faulty variant: fd_ keeps the number.
CloseFdOnly ==
  /\ At("closeFd") /\ Return
  /\ CloseAs(top.c, fdOf[top.c])
  /\ UNCHANGED <<flagVars, fdOf, listenFd, connVars, regVars, jobVars, histVars>>

CloseFd ==
  /\ At("closeFd") /\ Return
  /\ CloseAs(top.c, fdOf[top.c])
  /\ fdOf' = [fdOf EXCEPT ![top.c] = None]
  /\ UNCHANGED <<flagVars, listenFd, connVars, regVars, jobVars, histVars>>

CloseAndCleanup ==
  \/ Cas \/ DelFd \/ Logout \/ FarewellSent \/ RemoveConnection \/ CloseFd
  \/ \E d \in Conns : FarewellTo(d)

\* Somebody still holds a shared_ptr to c.
Referenced(c) ==
  \/ c \in InTable
  \/ \E i \in 1..Len(stack) : c = stack[i].c \/ c \in stack[i].todo
  \/ \E i \in 1..Len(tasks) : tasks[i] = c
  \/ \E w \in Workers : c \in {worker[w].c, worker[w].to}

\* ~Connection() closes what is still open.
DestroyConnection(c) ==
  /\ fdOf[c] # None /\ ~Referenced(c)
  /\ CloseAs(c, fdOf[c])
  /\ fdOf' = [fdOf EXCEPT ![c] = None]
  /\ UNCHANGED <<stack, flagVars, listenFd, connVars, regVars, jobVars, histVars>>
-----------------------------------------------------------------------------
(* stop().                                                                 *)

\* The test of stopped_ and its setting are one step.
StopBegin ==
  /\ At("stop")
  /\ IF stopped THEN Return /\ UNCHANGED <<stopped, running>>
     ELSE Goto("copy") /\ stopped' = TRUE /\ running' = FALSE
  /\ UNCHANGED <<poolDown, fate, fdVars, connVars, regVars, jobVars, histVars>>

Copy ==
  /\ At("copy") /\ Free("table")
  /\ Become([top EXCEPT !.at = "closeAll", !.todo = InTable])
  /\ UNCHANGED dataVars

\* Faulty variant: the table is only cleared.
CloseNone ==
  /\ At("closeAll") /\ Become([top EXCEPT !.at = "clear", !.todo = {}])
  /\ UNCHANGED dataVars

CloseAll ==
  /\ At("closeAll")
  /\ \/ top.todo = {} /\ Goto("clear")
     \/ \E c \in top.todo : Call(Frame("cas", c), [top EXCEPT !.todo = @ \ {c}])
  /\ UNCHANGED dataVars

Clear ==
  /\ At("clear") /\ Free("table") /\ Goto("closeListen")
  /\ table' = [f \in Fds |-> None]
  /\ UNCHANGED <<flagVars, fdVars, connVars, handlers, backlog, jobVars, histVars>>

\* Faulty variant: listen_fd_ keeps the number.
CloseListenerOnly ==
  /\ At("closeListen") /\ Goto("shutdown")
  /\ handlers' = [f \in Fds |-> IF f = listenFd THEN None ELSE handlers[f]]
  /\ CloseAs("listen", listenFd)
  /\ UNCHANGED <<flagVars, fdOf, listenFd, connVars, table, backlog, jobVars,
                 histVars>>

CloseListener ==
  /\ At("closeListen") /\ Goto("shutdown")
  /\ handlers' = [f \in Fds |-> IF f = listenFd THEN None ELSE handlers[f]]
  /\ CloseAs("listen", listenFd) /\ listenFd' = None
  /\ UNCHANGED <<flagVars, fdOf, connVars, table, backlog, jobVars, histVars>>

\* The thread pool is shut down, by the first call only: the workers execute
\* what is in the queue and end.
ShutPool ==
  \/ /\ At("shutdown") /\ Free("queue")
     /\ IF poolDown THEN Return ELSE Goto("join")
     /\ poolDown' = TRUE
     /\ UNCHANGED <<running, stopped, fate, fdVars, connVars, regVars, jobVars,
                    histVars>>
  \/ /\ At("join") /\ Return
     /\ tasks = <<>> /\ \A w \in Workers : worker[w] = Idle
     /\ UNCHANGED dataVars

Stop == StopBegin \/ Copy \/ CloseAll \/ Clear \/ CloseListener \/ ShutPool
-----------------------------------------------------------------------------
(* The workers: a task logs its client in, or broadcasts.  Whose task it is *)
(* does not matter for the broadcast.                                      *)

Do(w, job) == worker' = [worker EXCEPT ![w] = job]

\* onMessage() drops the frame of a connection that is closed.
TakeTask(w) ==
  /\ worker[w] = Idle /\ tasks # <<>> /\ Free("queue")
  /\ tasks' = Tail(tasks)
  /\ IF connected[Head(tasks)]
     THEN \/ Do(w, [Idle EXCEPT !.at = "acquire", !.c = Head(tasks)])
          \/ Do(w, [Idle EXCEPT !.at = "spread"])
     ELSE Do(w, Idle)
  /\ UNCHANGED loggedIn

Login(w) ==
  /\ worker[w].at = "acquire" /\ Free("redis")
  /\ LET c == worker[w].c
     IN  loggedIn' = [loggedIn EXCEPT ![c] = @ \/ connected[c]]
  /\ Do(w, [Idle EXCEPT !.at = "spread"])
  /\ UNCHANGED tasks

\* Of the packets of a broadcast one is as good as all: it waits for write_mtx_.
Broadcast(w) ==
  /\ \/ /\ worker[w].at = "spread" /\ Free("table")
        /\ \/ Do(w, Idle)
           \/ \E d \in InTable :
                Receives(d) /\ Do(w, [worker[w] EXCEPT !.at = "send", !.to = d])
     \/ /\ worker[w].at = "send" /\ (Receives(worker[w].to) => Free(worker[w].to))
        /\ Do(w, Idle)
  /\ UNCHANGED <<loggedIn, tasks>>

Worker(w) ==
  /\ fate = "running"
  /\ TakeTask(w) \/ Login(w) \/ Broadcast(w)
  /\ UNCHANGED <<stack, flagVars, fdVars, client, connected, regVars, histVars>>

\* A database connection is opened or closed inside acquire().
Redial ==
  /\ \/ At("acquiring")
     \/ Free("redis") /\ \E w \in Workers : worker[w].at = "acquire"
  /\ IF \E f \in Fds : owner[f] = "db"
     THEN owner' = [f \in Fds |-> IF owner[f] = "db" THEN "free" ELSE owner[f]]
     ELSE FreeFds # {} /\ owner' = [owner EXCEPT ![Min(FreeFds)] = "db"]
  /\ UNCHANGED <<stack, flagVars, fdOf, listenFd, stray, connVars, regVars,
                 jobVars, histVars>>
-----------------------------------------------------------------------------
(* The environment.                                                        *)

ClientConnects ==
  /\ fate = "running" /\ listenFd # None
  /\ \E c \in Conns : client[c] = "new"
  /\ client' = [client EXCEPT ![NextIn("new")] = "waiting"]
  /\ backlog' = "due"
  /\ UNCHANGED <<stack, flagVars, fdVars, connected, loggedIn, handlers, table,
                 jobVars, histVars>>

\* The places that the properties tell apart.
Telling == {"initReactor", "initListen", "extract", "submit"}

\* The main thread is interrupted by SIGINT or SIGTERM.  Once the server is
\* stopped a signal has no effect.
Signal ==
  /\ fate = "running" /\ ~stopped /\ top.at # "stop"
  /\ stack' = <<Frame("stop", "signal")>> \o stack
  /\ hit' = IF top.at \in Telling THEN top.at ELSE "other"
  /\ UNCHANGED <<flagVars, fdVars, connVars, regVars, jobVars, regFailed>>

\* What the running activation cannot go on without.
Wanted ==
  CASE top.at \in DOMAIN Critical \cup {"copy", "clear"}    -> {"table"}
    [] top.at = "logout" /\ loggedIn[top.c]                 -> {"redis"}
    [] top.at = "shutdown"                                  -> {"queue"}
    [] top.at = "write" /\ connected[top.c]                 -> {top.c}
    [] top.at = "sends" /\ \A d \in top.todo : Receives(d)  -> top.todo
    [] OTHER                                                -> {}

BlockedWorker(w) ==
  \/ worker[w].at = "acquire" /\ ~Free("redis")
  \/ worker[w].at = "spread" /\ ~Free("table")
  \/ worker[w].at = "send" /\ Receives(worker[w].to) /\ ~Free(worker[w].to)

\* The main thread waits for a mutex of its own, or for a worker that waits for
\* one.
Stuck ==
  /\ fate = "running"
  /\ \/ Wanted # {} /\ Wanted \subseteq Held(Tail(stack))
     \/ top.at = "join" /\ \E w \in Workers : BlockedWorker(w)

Over == (Stuck \/ fate # "running") /\ UNCHANGED vars

MainThread ==
  Main \/ Loop \/ HandleAccept \/ Callbacks \/ CloseAndCleanup \/ Stop \/ LockTable

Next ==
  \/ MainThread
  \/ \E w \in Workers : Worker(w)
  \/ \E c \in Conns : DestroyConnection(c)
  \/ ClientConnects \/ Redial \/ Signal \/ Over

Spec == Init /\ [][Next]_vars

\* The threads are scheduled.  Nobody has to connect or to send a signal.
FairSpec ==
  /\ Spec
  /\ WF_vars(MainThread)
  /\ \A w \in Workers : WF_vars(Worker(w))
  /\ \A c \in Conns : WF_vars(DestroyConnection(c))
-----------------------------------------------------------------------------
(* Properties.                                                             *)

\* Nobody closes a descriptor that has been given to somebody else meanwhile,
\* unless the registration of a connection has failed: only then is a number
\* closed twice (closeAndCleanup lines 185-188, ~Connection lines 22-27 of
\* Connection.hpp, handleAccept lines 542-546, stop lines 518-522).
OnlyOwnClosed == stray => regFailed

\* Whenever the loop waits, the table of connections, the table of handlers and
\* the descriptors agree on which connections are open (handleAccept lines
\* 542-549, closeAndCleanup lines 173-189).
TablesAgree ==
  top.at = "wait" =>
    \A f \in Fds, c \in Conns :
      /\ (table[f] = c) = (handlers[f] = c)
      /\ table[f] = c => connected[c] /\ fdOf[c] = f /\ owner[f] = c

\* In edge-triggered mode, whenever the loop waits, waiting clients are still
\* going to be reported, or the last accept() has failed although they waited
\* (handleAccept lines 526-540).
BacklogIsNoticed ==
  top.at = "wait" /\ ~stopped /\ (\E c \in Conns : client[c] = "waiting") =>
    backlog # "none"

\* A thread that no signal has interrupted never waits for a mutex of its own:
\* whenever the main thread is stuck, a signal has started stop() on top of what
\* holds the mutex (handleWrite lines 150-163, broadcastSystem lines 420-428).
StuckBySignalOnly ==
  Stuck => "signal" \in {stack[i].c : i \in 1..Len(stack)}

\* The process is aborted in two ways only: by a write callback whose handler is
\* gone, or by a frame that is submitted after a signal has stopped the server
\* between the two steps of handleRead() or before init() (loop lines 117-123,
\* handleRead lines 137-143, submit line 124, Reactor::init).
AbortExplained ==
  fate = "aborted" =>
    \/ top.at = "dispatch"
    \/ top.at = "submit" /\ hit \in {"extract", "submit", "initReactor"}

\* When the process exits in order, every session and connection has been closed,
\* no task is left, and of the descriptors only those of the databases remain,
\* which their pools close.  A stop() that has come before the listening socket
\* does not close it (stop lines 496-524, closeAndCleanup lines 173-189).
ReleasedAtExit ==
  fate = "exited" =>
    /\ \A c \in Conns : ~loggedIn[c] /\ fdOf[c] = None
    /\ tasks = <<>>
    /\ \A f \in Fds : owner[f] \in {"free", "db"} \/
         (owner[f] = "listen" /\ hit \in {"initReactor", "initListen"})

\* stop() ends the process, unless the signal has caught the main thread with a
\* mutex that it needs, or comes before init(), which starts the reactor again
\* (stop lines 496-524, Reactor::loop line 85, Reactor::init line 73).
StopTakesEffect ==
  stopped ~> fate # "running" \/ Stuck \/ hit = "initReactor"
=============================================================================
