------------------------------ MODULE Drivers ------------------------------
(***************************************************************************)
(* The connections to the databases, src/pool/RedisConnection.cpp and      *)
(* src/pool/MySQLConnection.cpp: what each operation makes of the answer   *)
(* of the server.  An operation ends with what it returns, and with the    *)
(* value of connected_, which decides whether the pool keeps the           *)
(* connection.                                                             *)
(***************************************************************************)
EXTENDS Integers

\* What redisCommand() returns: no reply at all when the transport fails or a
\* timeout passes, or a reply of one of the kinds that are told apart.
Replies == {"none", "error", "nil", "OK", "PONG", "string", "0", "1"}
Numbers == {"0", "1"}

End(ok, up) == [ok |-> ok, up |-> up]

\* Without a connection nothing is asked.
NotConnected == End(FALSE, FALSE)

\* Faulty variant: a missing reply is an error like any other.
AnsweredOrNot(reply, good) == End(reply \in good, TRUE)

\* A missing reply clears connected_, an unwelcome one only fails.
Answered(reply, good) == End(reply \in good, reply # "none")

RedisPing(reply) == End(reply = "PONG", reply \notin {"none", "error"})
Set(reply)       == Answered(reply, {"OK"})
Get(reply)       == Answered(reply, {"string"})
Del(reply)       == Answered(reply, Numbers)
Exists(reply)    == Answered(reply, Numbers)
Expire(reply)    == Answered(reply, {"1"})
HSet(reply)      == Answered(reply, Numbers)
HGet(reply)      == Answered(reply, {"string"})
Command(reply)   == Answered(reply, Replies \ {"none"})

RedisCommands(reply) ==
  {Set(reply), Get(reply), Del(reply), Exists(reply), Expire(reply),
   HSet(reply), HGet(reply), Command(reply)}

AuthIfNeeded(password, reply) == password => reply = "OK"
SelectDBIfNeeded(db, reply)   == db > 0 => reply = "OK"

\* Whether connect() succeeds; otherwise it closes what it has opened.
RedisConnect(opened, password, db, reply) ==
  opened /\ AuthIfNeeded(password, reply) /\ SelectDBIfNeeded(db, reply)

\* mysql_init() and mysql_options() are taken to succeed.
MySQLConnect(accepted) == accepted

MySQLPing(reply) == End(reply = "OK", reply = "OK")

\* executeUpdate() is also executeDelete() and executeModify().  A failure of
\* the transport is not told from one of the statement.
ExecuteInsert(reply) == End(reply = "OK", TRUE)
ExecuteUpdate(reply) == End(reply = "OK", TRUE)
ExecuteQuery(reply)  == End(reply = "string", TRUE)

MySQLCommands(reply) ==
  {ExecuteInsert(reply), ExecuteUpdate(reply), ExecuteQuery(reply)}
=============================================================================
