------------------------------ MODULE Delivery ------------------------------
(***************************************************************************)
(* The way of a packet to the socket of one connection:                    *)
(* Connection::sendPacket on any thread, Connection::handleWrite on the    *)
(* reactor thread, and between them write_buffer_ and the events that the  *)
(* descriptor is registered for.                                           *)
(*                                                                         *)
(* A packet is a sequence of PacketLength units, each of which is sent or  *)
(* not.  The kernel is modelled from how Reactor.hpp uses epoll: changing  *)
(* the registration reports the descriptor again if it is writable; in     *)
(* edge-triggered mode it is reported otherwise only when room appears.    *)
(***************************************************************************)
EXTENDS Integers, Sequences, FiniteSets

CONSTANTS
  Packets,       \* the calls of sendPacket, each on a thread of its own
  PacketLength,  \* units of a framed packet
  SocketRoom,    \* units that the send buffer of the kernel holds
  EdgeTriggered  \* config_.use_et

ASSUME DeliveryAssumption ==
  /\ PacketLength \in Nat \ {0} /\ SocketRoom \in Nat \ {0}
  /\ EdgeTriggered \in BOOLEAN

VARIABLES
  connected,  \* connected_
  buffer,     \* write_buffer_
  writeMtx,   \* whether somebody holds write_mtx_
  wantOut,    \* whether the descriptor is registered for EPOLLOUT
  report,     \* edge-triggered mode: a report of EPOLLOUT is due
  sender,     \* sender[p]: where the call for packet p stands
  reactor,    \* where the reactor stands in loop() and handleWrite()
  sent,       \* history: the units that send() has taken
  room,       \* free units in the send buffer of the kernel
  appended,   \* history: the packets in the order in which they were appended
  reused      \* whether a later connection has got the same descriptor

vars == <<connected, buffer, writeMtx, wantOut, report, sender, reactor, sent,
          room, appended, reused>>

Units(p) == [i \in 1..PacketLength |-> <<p, i>>]

TypeOK ==
  /\ connected \in BOOLEAN /\ writeMtx \in BOOLEAN
  /\ wantOut \in BOOLEAN /\ report \in BOOLEAN
  /\ buffer \in Seq(Packets \X (1..PacketLength))
  /\ sent \in Seq(Packets \X (1..PacketLength))
  /\ sender \in [Packets -> {"new", "append", "arm", "stale", "returned"}]
  /\ reactor \in {"poll", "dispatched", "writing", "disarm"}
  /\ room \in 0..SocketRoom
  /\ appended \in Seq(Packets) /\ reused \in BOOLEAN

Init ==
  /\ connected = TRUE /\ writeMtx = FALSE
  /\ buffer = <<>> /\ sent = <<>> /\ appended = <<>>
  /\ wantOut = FALSE /\ report = FALSE
  /\ sender = [p \in Packets |-> "new"]
  /\ reactor = "poll"
  /\ room = SocketRoom /\ reused = FALSE

\* mod_fd(): a closed descriptor is no longer registered.
ModFd(out) ==
  /\ wantOut' = (connected /\ out)
  /\ report'  = (connected /\ out /\ room > 0)
-----------------------------------------------------------------------------
(* sendPacket().                                                           *)

StartSend(p) ==
  /\ sender[p] = "new"
  /\ sender' = [sender EXCEPT ![p] = IF connected THEN "append" ELSE "returned"]
  /\ UNCHANGED <<connected, buffer, writeMtx, wantOut, report, reactor, sent,
                 room, appended, reused>>

AppendPacket(p) ==
  /\ sender[p] = "append" /\ ~writeMtx
  /\ buffer' = buffer \o Units(p)
  /\ appended' = Append(appended, p)
  /\ sender' = [sender EXCEPT ![p] = "arm"]
  /\ UNCHANGED <<connected, writeMtx, wantOut, report, reactor, sent, room, reused>>

\* Faulty variant: the packet is only appended, the registration stays as it is.
ArmNever(p) ==
  /\ sender[p] = "arm"
  /\ sender' = [sender EXCEPT ![p] = "returned"]
  /\ UNCHANGED <<connected, buffer, writeMtx, wantOut, report, reactor, sent,
                 room, appended, reused>>

Arm(p) ==
  /\ sender[p] = "arm"
  /\ ModFd(TRUE)
  /\ sender' = [sender EXCEPT ![p] = "returned"]
  /\ UNCHANGED <<connected, buffer, writeMtx, reactor, sent, room, appended, reused>>

\* The connection has ended since the test of connected_: the packet goes to
\* its own buffer, and mod_fd() finds no descriptor or that of the successor.
ArmStale(p) ==
  /\ sender[p] = "stale"
  /\ ModFd(TRUE) \/ UNCHANGED <<wantOut, report>>
  /\ sender' = [sender EXCEPT ![p] = "returned"]
  /\ UNCHANGED <<connected, buffer, writeMtx, reactor, sent, room, appended, reused>>

SendPacket(p) == StartSend(p) \/ AppendPacket(p) \/ Arm(p) \/ ArmStale(p)
-----------------------------------------------------------------------------
(* The reactor: loop(), handleWrite() and closeAndCleanup().               *)

\* epoll_wait() reports EPOLLOUT and the callback is called.
Dispatch ==
  /\ reactor = "poll" /\ reactor' = "dispatched"
  /\ wantOut /\ IF EdgeTriggered THEN report ELSE room > 0
  /\ report' = FALSE
  /\ UNCHANGED <<connected, buffer, writeMtx, wantOut, sender, sent, room,
                 appended, reused>>

LockBuffer ==
  /\ reactor = "dispatched" /\ connected /\ reactor' = "writing"
  /\ ~writeMtx /\ writeMtx' = TRUE
  /\ UNCHANGED <<connected, buffer, wantOut, report, sender, sent, room,
                 appended, reused>>

\* Faulty variant: the whole buffer is dropped after a partial send().
TransmitAndClear(n) ==
  /\ reactor = "writing" /\ n \in 1..Len(buffer) /\ n <= room
  /\ sent' = sent \o SubSeq(buffer, 1, n)
  /\ buffer' = <<>>
  /\ room' = room - n
  /\ UNCHANGED <<connected, writeMtx, wantOut, report, sender, reactor,
                 appended, reused>>

\* Faulty variant: one unit too few is erased.
TransmitOffByOne(n) ==
  /\ reactor = "writing" /\ n \in 1..Len(buffer) /\ n <= room
  /\ sent' = sent \o SubSeq(buffer, 1, n)
  /\ buffer' = SubSeq(buffer, n, Len(buffer))
  /\ room' = room - n
  /\ UNCHANGED <<connected, writeMtx, wantOut, report, sender, reactor,
                 appended, reused>>

\* send() takes a part of the buffer, and that part is erased.
Transmit(n) ==
  /\ reactor = "writing" /\ n \in 1..Len(buffer) /\ n <= room
  /\ sent' = sent \o SubSeq(buffer, 1, n)
  /\ buffer' = SubSeq(buffer, n + 1, Len(buffer))
  /\ room' = room - n
  /\ UNCHANGED <<connected, writeMtx, wantOut, report, sender, reactor,
                 appended, reused>>

\* EAGAIN: the registration stays as it is.
WouldBlock ==
  /\ reactor = "writing" /\ reactor' = "poll"
  /\ buffer # <<>> /\ room = 0
  /\ writeMtx' = FALSE
  /\ UNCHANGED <<connected, buffer, wantOut, report, sender, sent, room,
                 appended, reused>>

\* Faulty variant: the buffer is unlocked before the registration is changed.
SeeEmptyUnlocking ==
  /\ reactor = "writing" /\ reactor' = "disarm"
  /\ buffer = <<>>
  /\ writeMtx' = FALSE
  /\ UNCHANGED <<connected, buffer, wantOut, report, sender, sent, room,
                 appended, reused>>

SeeEmpty ==
  /\ reactor = "writing" /\ reactor' = "disarm"
  /\ buffer = <<>>
  /\ UNCHANGED <<connected, buffer, writeMtx, wantOut, report, sender, sent,
                 room, appended, reused>>

Disarm ==
  /\ reactor = "disarm" /\ reactor' = "poll"
  /\ ModFd(FALSE)
  /\ writeMtx' = FALSE
  /\ UNCHANGED <<connected, buffer, sender, sent, room, appended, reused>>

\* closeAndCleanup() of this connection, from handleRead() or because send()
\* failed in handleWrite(), which still holds write_mtx_ then.
CloseAndCleanup ==
  /\ connected /\ connected' = FALSE
  /\ reactor \in {"poll", "writing"} /\ reactor' = "poll"
  /\ wantOut' = FALSE /\ report' = FALSE
  /\ writeMtx' = IF reactor = "writing" THEN FALSE ELSE writeMtx
  /\ UNCHANGED <<buffer, sender, sent, room, appended, reused>>

\* A client is accepted on the descriptor of the connection that has ended, once
\* in the model.  From here on the variables are those of the new connection.
Accept ==
  /\ ~connected /\ ~reused /\ reactor = "poll"
  /\ connected' = TRUE /\ reused' = TRUE
  /\ buffer' = <<>> /\ sent' = <<>> /\ appended' = <<>>
  /\ writeMtx' = FALSE /\ wantOut' = FALSE /\ report' = FALSE
  /\ room' = SocketRoom
  /\ sender' = [p \in Packets |->
                  IF sender[p] \in {"append", "arm"} THEN "stale" ELSE sender[p]]
  /\ UNCHANGED reactor

HandleWrite ==
  \/ Dispatch \/ LockBuffer \/ WouldBlock \/ SeeEmpty \/ Disarm
  \/ \E n \in 1..SocketRoom : Transmit(n)

\* The peer acknowledges data: there is room again.
PeerReads ==
  /\ room < SocketRoom
  /\ room' = SocketRoom
  /\ report' = (report \/ wantOut)
  /\ UNCHANGED <<connected, buffer, writeMtx, wantOut, sender, reactor, sent,
                 appended, reused>>

\* Nothing is left to send, or nowhere to send it.
AtRest ==
  /\ reactor = "poll" /\ \A p \in Packets : sender[p] = "returned"
  /\ ~connected \/ buffer = <<>>
  /\ UNCHANGED vars

Next ==
  \/ \E p \in Packets : SendPacket(p)
  \/ HandleWrite \/ CloseAndCleanup \/ Accept \/ PeerReads \/ AtRest

Spec == Init /\ [][Next]_vars

\* A sender that has begun finishes, the reactor thread is scheduled, and the
\* peer keeps reading.
Fairness ==
  /\ \A p \in Packets : WF_vars(AppendPacket(p) \/ Arm(p) \/ ArmStale(p))
  /\ WF_vars(HandleWrite)
  /\ WF_vars(PeerReads)

FairSpec == Spec /\ Fairness
-----------------------------------------------------------------------------
(* Properties.                                                             *)

\* What has been sent and what is still to be sent is exactly the packets in
\* the order of their appending, none torn by another one (sendPacket lines
\* 63-66, handleWrite lines 150-154).
FramesIntact ==
  LET stream == sent \o buffer
  IN  /\ Len(stream) = PacketLength * Len(appended)
      /\ \A k \in 1..Len(appended), i \in 1..PacketLength :
           stream[PacketLength * (k - 1) + i] = <<appended[k], i>>

Channel == INSTANCE PacketChannel WITH
  open     <- connected,
  settled  <- {p \in Packets : sender[p] \notin {"new", "append"}},
  promised <- sent \o buffer,
  carried  <- sent

\* The connection is a channel that carries whole packets, each once and in the
\* order of their acceptance; nothing goes to the socket once it is closed, and
\* no sender that was late for it reaches its successor (sendPacket lines 59-69,
\* handleWrite lines 150-154, closeAndCleanup).
ImplementsChannel == Channel!Spec

\* Data that waits in the buffer is always going to be noticed: a sender has
\* still to register the descriptor, or it is registered and will be reported,
\* at once or when the peer has read (sendPacket lines 63-69, handleWrite lines
\* 150-168, mod_fd).
OutputIsNoticed ==
  connected /\ buffer # <<>> /\ reactor = "poll" =>
    \/ \E p \in Packets : sender[p] = "arm"
    \/ wantOut /\ (room = 0 \/ report \/ ~EdgeTriggered)

\* As long as the connection is open and the peer reads, every packet is sent.
AllIsSent ==
  \A p \in Packets : sender[p] = "append" ~>
    ~connected \/ <<p, PacketLength>> \in {sent[i] : i \in 1..Len(sent)}
=============================================================================
