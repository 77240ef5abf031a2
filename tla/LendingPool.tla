---------------------------- MODULE LendingPool -----------------------------
(***************************************************************************)
(* What the users of a connection pool rely on: a connection is lent to    *)
(* one user at a time, comes back or is given up, and one that was given   *)
(* up is never lent again.                                                 *)
(***************************************************************************)
CONSTANTS Conns, Users, NoConn

VARIABLES
  place,  \* place[c]: "absent", "pooled", "lent" or "lost"
  holder  \* holder[u]: the connection lent to user u, or NoConn

vars == <<place, holder>>

Init ==
  /\ place = [c \in Conns |-> "absent"]
  /\ holder = [u \in Users |-> NoConn]

\* A connection is established before anyone asks for it.
Stock(c) ==
  /\ place[c] = "absent"
  /\ place' = [place EXCEPT ![c] = "pooled"]
  /\ UNCHANGED holder

Lend(u, c) ==
  /\ holder[u] = NoConn
  /\ place[c] \in {"absent", "pooled"}
  /\ place' = [place EXCEPT ![c] = "lent"]
  /\ holder' = [holder EXCEPT ![u] = c]

GiveBack(u, to) ==
  /\ holder[u] # NoConn
  /\ place' = [place EXCEPT ![holder[u]] = to]
  /\ holder' = [holder EXCEPT ![u] = NoConn]

\* A pooled connection turns out to be dead and cannot be revived.
GiveUp(c) ==
  /\ place[c] = "pooled"
  /\ place' = [place EXCEPT ![c] = "lost"]
  /\ UNCHANGED holder

\* The pool is closed when nothing is lent.
Close ==
  /\ \A u \in Users : holder[u] = NoConn
  /\ place' = [c \in Conns |-> "absent"]
  /\ UNCHANGED holder

Next ==
  \/ \E c \in Conns : Stock(c) \/ GiveUp(c) \/ \E u \in Users : Lend(u, c)
  \/ \E u \in Users, to \in {"pooled", "lost"} : GiveBack(u, to)
  \/ Close

Spec == Init /\ [][Next]_vars
=============================================================================
