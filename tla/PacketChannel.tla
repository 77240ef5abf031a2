--------------------------- MODULE PacketChannel ---------------------------
(***************************************************************************)
(* What the senders of packets rely on: while the connection is open, its  *)
(* socket takes what was promised, whole packet after whole packet, each   *)
(* once; a closed connection takes nothing, and its successor on the same  *)
(* descriptor begins with an empty stream.                                 *)
(***************************************************************************)
EXTENDS Integers, Sequences

CONSTANTS
  Packets,      \* the packets that are sent, once each
  PacketLength  \* units of a packet

VARIABLES
  open,      \* whether the connection is open
  settled,   \* the packets whose fate is decided
  promised,  \* the units accepted from senders, in their order
  carried    \* the units that the socket has taken

Units(p) == [i \in 1..PacketLength |-> <<p, i>>]

vars == <<open, settled, promised, carried>>

Init ==
  /\ open = TRUE /\ settled = {}
  /\ promised = <<>> /\ carried = <<>>

\* A packet is queued as a whole; if the connection closes meanwhile, in vain.
Accept(p) ==
  /\ p \notin settled
  /\ settled' = settled \cup {p}
  /\ promised' = promised \o Units(p)
  /\ UNCHANGED <<open, carried>>

Refuse(p) ==
  /\ p \notin settled /\ ~open
  /\ settled' = settled \cup {p}
  /\ UNCHANGED <<open, promised, carried>>

Carry(n) ==
  /\ open /\ Len(carried) + n <= Len(promised)
  /\ carried' = SubSeq(promised, 1, Len(carried) + n)
  /\ UNCHANGED <<open, settled, promised>>

Close ==
  /\ open /\ open' = FALSE
  /\ UNCHANGED <<settled, promised, carried>>

\* Senders that were on their way to the old connection do not reach the new one.
Reopen(late) ==
  /\ ~open /\ open' = TRUE
  /\ settled' = settled \cup late
  /\ promised' = <<>> /\ carried' = <<>>

Next ==
  \/ \E p \in Packets : Accept(p) \/ Refuse(p)
  \/ \E n \in 1..Len(promised) : Carry(n)
  \/ \E late \in SUBSET Packets : Reopen(late)
  \/ Close

Spec == Init /\ [][Next]_vars
=============================================================================
