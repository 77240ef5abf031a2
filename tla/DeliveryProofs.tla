--------------------------- MODULE DeliveryProofs ---------------------------
(***************************************************************************)
(* Proofs, for any set of senders, any packet length, any room in the      *)
(* socket and both trigger modes, that Delivery keeps its types, that      *)
(* output that waits in the buffer is always going to be noticed, and that *)
(* packets arrive whole and in the order of their appending.               *)
(***************************************************************************)
EXTENDS Delivery, SequenceTheorems, TLAPS

-----------------------------------------------------------------------------
(* The inductive invariant.                                                *)

\* write_mtx_ is held by the reactor alone between two steps, from the lock in
\* handleWrite() to its return.
LockedByReactor == writeMtx <=> reactor \in {"writing", "disarm"}

\* The registration is taken back only while the buffer is empty and locked.
DisarmsEmpty == reactor = "disarm" => buffer = <<>>

\* The reactor writes to an open connection only: nobody else closes it.
OpenWhileWriting == reactor = "writing" => connected

\* While there is output, the descriptor is registered, or a sender is about to
\* register it.
Armed ==
  connected /\ buffer # <<>> => wantOut \/ \E p \in Packets : sender[p] = "arm"

IndInv ==
  /\ TypeOK /\ LockedByReactor /\ DisarmsEmpty /\ OpenWhileWriting
  /\ Armed /\ OutputIsNoticed

-----------------------------------------------------------------------------

LEMMA UnitsType == \A p \in Packets : Units(p) \in Seq(Packets \X (1..PacketLength))
BY DeliveryAssumption DEF Units

LEMMA TypeStep ==
  ASSUME TypeOK, [Next]_vars
  PROVE  TypeOK'
<1> USE DeliveryAssumption
<1>1. ASSUME NEW p \in Packets, StartSend(p)
      PROVE  TypeOK'
  BY <1>1 DEF StartSend, TypeOK
<1>2. ASSUME NEW p \in Packets, AppendPacket(p)
      PROVE  TypeOK'
  BY <1>2, UnitsType DEF AppendPacket, TypeOK
<1>3. ASSUME NEW p \in Packets, Arm(p)
      PROVE  TypeOK'
  BY <1>3 DEF Arm, ModFd, TypeOK
<1>4. ASSUME NEW p \in Packets, ArmStale(p)
      PROVE  TypeOK'
  BY <1>4 DEF ArmStale, ModFd, TypeOK
<1>5. ASSUME NEW n \in 1..SocketRoom, Transmit(n)
      PROVE  TypeOK'
  <2>1. /\ SubSeq(buffer, 1, n) \in Seq(Packets \X (1..PacketLength))
        /\ SubSeq(buffer, n + 1, Len(buffer)) \in Seq(Packets \X (1..PacketLength))
        /\ room - n \in 0..SocketRoom
    BY <1>5 DEF Transmit, TypeOK
  <2> QED
    BY <1>5, <2>1 DEF Transmit, TypeOK
<1>6. CASE Dispatch \/ LockBuffer \/ WouldBlock \/ SeeEmpty
  BY <1>6 DEF Dispatch, LockBuffer, WouldBlock, SeeEmpty, TypeOK
<1>7. CASE Disarm
  BY <1>7 DEF Disarm, ModFd, TypeOK
<1>8. CASE CloseAndCleanup
  BY <1>8 DEF CloseAndCleanup, TypeOK
<1>9. CASE Accept
  <2>1. /\ sender' \in [Packets -> {"new", "append", "arm", "stale", "returned"}]
        /\ room' \in 0..SocketRoom /\ reactor' \in {"poll", "dispatched", "writing", "disarm"}
    BY <1>9 DEF Accept, TypeOK
  <2>2. /\ buffer' \in Seq(Packets \X (1..PacketLength)) /\ appended' \in Seq(Packets)
        /\ sent' \in Seq(Packets \X (1..PacketLength))
    BY <1>9 DEF Accept
  <2>3. /\ connected' \in BOOLEAN /\ writeMtx' \in BOOLEAN /\ wantOut' \in BOOLEAN
        /\ report' \in BOOLEAN /\ reused' \in BOOLEAN
    BY <1>9, Zenon DEF Accept
  <2> QED
    BY <2>1, <2>2, <2>3 DEF TypeOK
<1>10. CASE PeerReads
  BY <1>10 DEF PeerReads, TypeOK
<1>11. CASE UNCHANGED vars
  BY <1>11 DEF vars, TypeOK
<1> QED
  BY <1>1, <1>2, <1>3, <1>4, <1>5, <1>6, <1>7, <1>8, <1>9, <1>10, <1>11
     DEF Next, SendPacket, HandleWrite, AtRest

LEMMA LockStep ==
  ASSUME TypeOK, LockedByReactor, DisarmsEmpty, [Next]_vars
  PROVE  LockedByReactor' /\ DisarmsEmpty'
<1>1. ASSUME NEW p \in Packets, SendPacket(p)
      PROVE  LockedByReactor' /\ DisarmsEmpty'
  BY <1>1 DEF SendPacket, StartSend, AppendPacket, Arm, ArmStale, LockedByReactor, DisarmsEmpty
<1>2. CASE HandleWrite
  <2>1. CASE Dispatch \/ LockBuffer \/ WouldBlock
    BY <2>1 DEF Dispatch, LockBuffer, WouldBlock, LockedByReactor, DisarmsEmpty
  <2>2. CASE SeeEmpty \/ Disarm
    BY <2>2 DEF SeeEmpty, Disarm, LockedByReactor, DisarmsEmpty
  <2>3. ASSUME NEW n \in 1..SocketRoom, Transmit(n)
        PROVE  LockedByReactor' /\ DisarmsEmpty'
    BY <2>3 DEF Transmit, LockedByReactor, DisarmsEmpty
  <2> QED
    BY <1>2, <2>1, <2>2, <2>3 DEF HandleWrite
<1>3. CASE CloseAndCleanup \/ Accept \/ PeerReads \/ UNCHANGED vars
  BY <1>3 DEF CloseAndCleanup, Accept, PeerReads, vars, LockedByReactor, DisarmsEmpty
<1> QED
  BY <1>1, <1>2, <1>3 DEF Next, AtRest

LEMMA OpenStep ==
  ASSUME OpenWhileWriting, [Next]_vars
  PROVE  OpenWhileWriting'
<1> USE DEF OpenWhileWriting
<1>1. ASSUME NEW p \in Packets, SendPacket(p)
      PROVE  OpenWhileWriting'
  BY <1>1 DEF SendPacket, StartSend, AppendPacket, Arm, ArmStale
<1>2. ASSUME NEW n \in 1..SocketRoom, Transmit(n)
      PROVE  OpenWhileWriting'
  BY <1>2 DEF Transmit
<1>3. CASE Dispatch \/ LockBuffer \/ WouldBlock \/ SeeEmpty \/ Disarm
  BY <1>3 DEF Dispatch, LockBuffer, WouldBlock, SeeEmpty, Disarm
<1>4. CASE CloseAndCleanup \/ Accept \/ PeerReads \/ UNCHANGED vars
  BY <1>4 DEF CloseAndCleanup, Accept, PeerReads, vars
<1> QED
  BY <1>1, <1>2, <1>3, <1>4 DEF Next, HandleWrite, AtRest

LEMMA ArmedStep ==
  ASSUME TypeOK, LockedByReactor, DisarmsEmpty, Armed, [Next]_vars
  PROVE  Armed'
<1> USE DEF Armed, TypeOK
<1>1. ASSUME NEW p \in Packets, StartSend(p) \/ ArmStale(p)
      PROVE  Armed'
  BY <1>1 DEF StartSend, ArmStale, ModFd
<1>2. ASSUME NEW p \in Packets, AppendPacket(p)
      PROVE  Armed'
  <2>1. sender'[p] = "arm"
    BY <1>2 DEF AppendPacket
  <2> QED
    BY <2>1
<1>3. ASSUME NEW p \in Packets, Arm(p)
      PROVE  Armed'
  BY <1>3 DEF Arm, ModFd
<1>4. ASSUME NEW n \in 1..SocketRoom, Transmit(n)
      PROVE  Armed'
  BY <1>4 DEF Transmit
<1>5. CASE Dispatch \/ LockBuffer \/ WouldBlock \/ SeeEmpty
  BY <1>5 DEF Dispatch, LockBuffer, WouldBlock, SeeEmpty
<1>6. CASE Disarm
  BY <1>6 DEF Disarm, DisarmsEmpty
<1>7. CASE CloseAndCleanup \/ Accept \/ PeerReads \/ UNCHANGED vars
  BY <1>7 DEF CloseAndCleanup, Accept, PeerReads, vars
<1> QED
  BY <1>1, <1>2, <1>3, <1>4, <1>5, <1>6, <1>7 DEF Next, SendPacket, HandleWrite, AtRest

LEMMA NoticeStep ==
  ASSUME IndInv, [Next]_vars
  PROVE  OutputIsNoticed'
<1> USE DEF IndInv, OutputIsNoticed, TypeOK
<1>1. ASSUME NEW p \in Packets, StartSend(p)
      PROVE  OutputIsNoticed'
  BY <1>1 DEF StartSend
<1>2. ASSUME NEW p \in Packets, AppendPacket(p)
      PROVE  OutputIsNoticed'
  <2>1. sender'[p] = "arm"
    BY <1>2 DEF AppendPacket
  <2> QED
    BY <2>1
<1>3. ASSUME NEW p \in Packets, Arm(p)
      PROVE  OutputIsNoticed'
  <2>1. wantOut' = connected /\ report' = (connected /\ room > 0)
    BY <1>3 DEF Arm, ModFd
  <2>2. UNCHANGED <<connected, room>> /\ room \in 0..SocketRoom
    BY <1>3 DEF Arm
  <2>3. room = 0 \/ room > 0
    BY <2>2, DeliveryAssumption
  <2> QED
    BY <2>1, <2>2, <2>3
<1>4. ASSUME NEW p \in Packets, ArmStale(p)
      PROVE  OutputIsNoticed'
  BY <1>4, DeliveryAssumption DEF ArmStale, ModFd
<1>5. ASSUME NEW n \in 1..SocketRoom, Transmit(n)
      PROVE  OutputIsNoticed'
  BY <1>5 DEF Transmit
<1>6. CASE Dispatch \/ LockBuffer \/ SeeEmpty
  BY <1>6 DEF Dispatch, LockBuffer, SeeEmpty
<1>7. CASE WouldBlock
  BY <1>7 DEF WouldBlock, Armed
<1>8. CASE Disarm
  BY <1>8 DEF Disarm, DisarmsEmpty
<1>9. CASE CloseAndCleanup \/ Accept \/ UNCHANGED vars
  BY <1>9 DEF CloseAndCleanup, Accept, vars
<1>10. CASE PeerReads
  BY <1>10, DeliveryAssumption DEF PeerReads
<1> QED
  BY <1>1, <1>2, <1>3, <1>4, <1>5, <1>6, <1>7, <1>8, <1>9, <1>10
     DEF Next, SendPacket, HandleWrite, AtRest

\* Every reachable state satisfies the inductive invariant.
THEOREM Invariance == Spec => []IndInv
<1>1. Init => IndInv
  <2> SUFFICES ASSUME Init PROVE IndInv
    OBVIOUS
  <2>1. /\ connected \in BOOLEAN /\ writeMtx \in BOOLEAN /\ wantOut \in BOOLEAN
        /\ report \in BOOLEAN /\ reused \in BOOLEAN
    BY Zenon DEF Init
  <2>2. /\ sender \in [Packets -> {"new", "append", "arm", "stale", "returned"}]
        /\ room \in 0..SocketRoom /\ reactor \in {"poll", "dispatched", "writing", "disarm"}
    BY DeliveryAssumption DEF Init
  <2>3. /\ buffer \in Seq(Packets \X (1..PacketLength)) /\ appended \in Seq(Packets)
        /\ sent \in Seq(Packets \X (1..PacketLength))
    BY DEF Init
  <2>4. LockedByReactor /\ DisarmsEmpty /\ OpenWhileWriting /\ Armed /\ OutputIsNoticed
    BY DEF Init, LockedByReactor, DisarmsEmpty, OpenWhileWriting, Armed, OutputIsNoticed
  <2> QED
    BY <2>1, <2>2, <2>3, <2>4 DEF IndInv, TypeOK
<1>2. IndInv /\ [Next]_vars => IndInv'
  BY TypeStep, LockStep, OpenStep, ArmedStep, NoticeStep DEF IndInv
<1> QED
  BY <1>1, <1>2, PTL DEF Spec

\* Every variable keeps its type (sendPacket lines 59-70, handleWrite lines
\* 146-170).
THEOREM TypeCorrect == Spec => []TypeOK
<1>1. IndInv => TypeOK
  BY DEF IndInv
<1> QED
  BY <1>1, Invariance, PTL

\* Output that waits while the reactor polls is going to be noticed, also when a
\* late sender changes the registration of a successor on the same descriptor
\* (sendPacket lines 63-69, handleWrite lines 150-168, mod_fd).
THEOREM WaitingOutputIsNoticed == Spec => []OutputIsNoticed
<1>1. IndInv => OutputIsNoticed
  BY DEF IndInv
<1> QED
  BY <1>1, Invariance, PTL

-----------------------------------------------------------------------------
(* The packets stay whole and in order.                                    *)

\* The place of unit i of packet k in the stream.
Place(k, i) == PacketLength * (k - 1) + i

\* The first m packets fill the first PacketLength * m places.
LEMMA PlacesWithin ==
  ASSUME NEW m \in Nat, NEW k \in 1..m, NEW i \in 1..PacketLength
  PROVE  Place(k, i) \in 1..(PacketLength * m)
<1> DEFINE l == k - 1
           d == m - k
<1>1. l \in Nat /\ d \in Nat /\ m = l + d + 1 /\ PacketLength \in Nat /\ i \in Nat
  BY DeliveryAssumption
<1> HIDE DEF l, d
<1>2. PacketLength * m = PacketLength * l + PacketLength * d + PacketLength
  BY <1>1
<1>3. PacketLength * l \in Nat /\ PacketLength * d \in Nat
  BY <1>1
<1>4. Place(k, i) = PacketLength * l + i
  BY DEF Place, l
<1> DEFINE a == PacketLength * l
           b == PacketLength * d
           c == PacketLength * m
<1>5. a \in Nat /\ b \in Nat /\ c = a + b + PacketLength /\ Place(k, i) = a + i
  BY <1>2, <1>3, <1>4
<1> HIDE DEF a, b, c
<1>6. Place(k, i) \in 1..c
  BY <1>1, <1>5
<1> QED
  BY <1>6 DEF c

\* Cutting a sequence in two and joining the second part to what precedes it
\* changes nothing.
LEMMA CutAndJoin ==
  ASSUME NEW S, NEW s \in Seq(S), NEW b \in Seq(S), NEW n \in 1..Len(b)
  PROVE  (s \o SubSeq(b, 1, n)) \o SubSeq(b, n + 1, Len(b)) = s \o b
<1>1. SubSeq(b, 1, n) \in Seq(S) /\ SubSeq(b, n + 1, Len(b)) \in Seq(S)
  OBVIOUS
<1>2. SubSeq(b, 1, n) \o SubSeq(b, n + 1, Len(b)) = b
  <2>1. 1 \in 1..(Len(b) + 1) /\ n \in (1 - 1)..Len(b) /\ Len(b) \in n..Len(b)
    OBVIOUS
  <2>2. SubSeq(b, 1, n) \o SubSeq(b, n + 1, Len(b)) = SubSeq(b, 1, Len(b))
    BY <2>1, ConcatAdjacentSubSeq
  <2> QED
    BY <2>2, SubSeqFull
<1> DEFINE x == SubSeq(b, 1, n)
           y == SubSeq(b, n + 1, Len(b))
<1>3. x \in Seq(S) /\ y \in Seq(S)
  BY <1>1
<1>4. x \o y = b
  BY <1>2
<1> HIDE DEF x, y
<1>5. (s \o x) \o y = s \o (x \o y)
  BY <1>3, ConcatAssociative, SMTT(60)
<1>6. (s \o x) \o y = s \o b
  BY <1>4, <1>5
<1> QED
  BY <1>6 DEF x, y

\* Appending the units of a packet continues the stream.
LEMMA FramesGrow ==
  ASSUME TypeOK, FramesIntact, NEW p \in Packets, AppendPacket(p)
  PROVE  FramesIntact'
<1> DEFINE S == Packets \X (1..PacketLength)
           stream == sent \o buffer
           L == Len(appended)
           used == PacketLength * L
<1> USE DeliveryAssumption
<1>1. /\ sent \in Seq(S) /\ buffer \in Seq(S) /\ Units(p) \in Seq(S)
      /\ Len(Units(p)) = PacketLength /\ stream \in Seq(S)
      /\ \A i \in 1..PacketLength : Units(p)[i] = <<p, i>>
  BY UnitsType DEF TypeOK, Units
<1>2. /\ sent' = sent /\ buffer' = buffer \o Units(p)
      /\ appended' = Append(appended, p) /\ appended \in Seq(Packets)
  BY DEF AppendPacket, TypeOK
<1>3. sent' \o buffer' = stream \o Units(p)
  <2> HIDE DEF S
  <2>1. (sent \o buffer) \o Units(p) = sent \o (buffer \o Units(p))
    BY <1>1, ConcatAssociative
  <2> QED
    BY <1>2, <2>1
<1>4. /\ L \in Nat /\ Len(appended') = L + 1 /\ appended'[L + 1] = p
      /\ \A k \in 1..L : appended'[k] = appended[k]
  BY <1>2
<1>5. /\ used \in Nat /\ PacketLength * (L + 1) = used + PacketLength
      /\ PacketLength * ((L + 1) - 1) = used
  <2>1. ASSUME NEW a \in Nat, NEW b \in Nat
        PROVE  a * b \in Nat /\ a * (b + 1) = a * b + a /\ (b + 1) - 1 = b
    OBVIOUS
  <2>2. PacketLength \in Nat /\ L \in Nat
    BY <1>4
  <2> HIDE DEF L
  <2> QED
    BY <2>1, <2>2
<1>6. /\ Len(stream) = used
      /\ \A k \in 1..L, i \in 1..PacketLength : stream[Place(k, i)] = <<appended[k], i>>
  BY DEF FramesIntact, Place
<1>7. \A k \in 1..L, i \in 1..PacketLength : Place(k, i) \in 1..used
  BY <1>4, PlacesWithin
<1>8. \A i \in 1..PacketLength : Place(L + 1, i) = used + i
  BY <1>5 DEF Place
<1> HIDE DEF used, L, stream, S
<1> DEFINE all == stream \o Units(p)
<1>9. /\ Len(all) = used + PacketLength
      /\ \A j \in 1..used : all[j] = stream[j]
      /\ \A i \in 1..PacketLength : all[used + i] = Units(p)[i]
  BY <1>1, <1>5, <1>6
<1> HIDE DEF all
<1>10. ASSUME NEW k \in 1..(L + 1), NEW i \in 1..PacketLength
       PROVE  all[Place(k, i)] = <<appended'[k], i>>
  <2>1. CASE k = L + 1
    BY <2>1, <1>1, <1>4, <1>8, <1>9
  <2>2. CASE k # L + 1
    <3>1. k \in 1..L
      BY <2>2, <1>4
    <3> QED
      BY <3>1, <1>4, <1>6, <1>7, <1>9
  <2> QED
    BY <2>1, <2>2
<1>11. Len(all) = PacketLength * Len(appended')
  BY <1>4, <1>5, <1>9
<1>12. all = sent' \o buffer'
  BY <1>3 DEF all
<1> QED
  BY <1>4, <1>10, <1>11, <1>12 DEF FramesIntact, Place

\* No other step changes the stream, but for a successor, which begins anew.
LEMMA FramesStep ==
  ASSUME TypeOK, FramesIntact, [Next]_vars
  PROVE  FramesIntact'
<1>1. ASSUME NEW p \in Packets, AppendPacket(p)
      PROVE  FramesIntact'
  BY <1>1, FramesGrow
<1>2. ASSUME NEW n \in 1..SocketRoom, Transmit(n)
      PROVE  FramesIntact'
  <2>1. sent' \o buffer' = sent \o buffer
    BY <1>2, CutAndJoin DEF Transmit, TypeOK
  <2>2. appended' = appended
    BY <1>2 DEF Transmit
  <2> QED
    BY <2>1, <2>2 DEF FramesIntact
<1>3. CASE Accept
  <2>1. Len(appended') = 0 /\ Len(sent' \o buffer') = 0
    BY <1>3 DEF Accept
  <2> QED
    BY <2>1, DeliveryAssumption DEF FramesIntact
<1>4. CASE UNCHANGED <<sent, buffer, appended>>
  BY <1>4 DEF FramesIntact
<1>5. ASSUME NEW p \in Packets, StartSend(p) \/ Arm(p) \/ ArmStale(p)
      PROVE  UNCHANGED <<sent, buffer, appended>>
  BY <1>5 DEF StartSend, Arm, ArmStale
<1>6. CASE Dispatch \/ LockBuffer \/ WouldBlock \/ SeeEmpty \/ Disarm
  BY <1>4, <1>6 DEF Dispatch, LockBuffer, WouldBlock, SeeEmpty, Disarm
<1>7. CASE CloseAndCleanup \/ PeerReads \/ UNCHANGED vars
  BY <1>4, <1>7 DEF CloseAndCleanup, PeerReads, vars
<1> QED
  BY <1>1, <1>2, <1>3, <1>4, <1>5, <1>6, <1>7 DEF Next, SendPacket, HandleWrite, AtRest

\* On the way to the socket no packet is torn, lost, doubled or overtaken by one
\* appended later, whoever sends and wherever send() stops (sendPacket lines
\* 63-66, handleWrite lines 150-154).
THEOREM PacketsStayWhole == Spec => []FramesIntact
<1>1. Init => FramesIntact
  <2> SUFFICES ASSUME Init PROVE FramesIntact
    OBVIOUS
  <2>1. Len(appended) = 0 /\ Len(sent \o buffer) = 0
    BY DEF Init
  <2> QED
    BY <2>1, DeliveryAssumption DEF FramesIntact
<1>2. TypeOK /\ FramesIntact /\ [Next]_vars => FramesIntact'
  BY FramesStep
<1> QED
  BY <1>1, <1>2, TypeCorrect, PTL DEF Spec

-----------------------------------------------------------------------------
(* The connection is a channel.                                            *)

\* The packets whose fate is decided.
Settled == {p \in Packets : sender[p] \notin {"new", "append"}}

LEMMA InitImplements ==
  ASSUME Init
  PROVE  Channel!Init
<1>1. Settled = {} /\ sent \o buffer = <<>> /\ connected = TRUE /\ sent = <<>>
  BY DEF Init, Settled
<1> QED
  BY <1>1 DEF Channel!Init, Settled

\* A call of sendPacket() starts, is refused, or queues its packet.
LEMMA SendImplements ==
  ASSUME TypeOK, NEW p \in Packets, SendPacket(p)
  PROVE  [Channel!Next]_(Channel!vars)
<1> DEFINE now == Settled
           all == sent \o buffer
<1>1. CASE StartSend(p) /\ connected
  <2>1. Settled' = Settled /\ UNCHANGED <<connected, sent, buffer>>
    BY <1>1 DEF StartSend, Settled, TypeOK
  <2> QED
    BY <2>1 DEF Channel!vars, Settled
<1>2. CASE StartSend(p) /\ ~connected
  <2>1. p \notin Settled /\ Settled' = Settled \cup {p} /\ UNCHANGED <<connected, sent, buffer>>
    BY <1>2 DEF StartSend, Settled, TypeOK
  <2>2. Channel!Refuse(p)
    BY <1>2, <2>1 DEF Channel!Refuse, Settled
  <2> QED
    BY <2>2 DEF Channel!Next
<1>3. CASE AppendPacket(p)
  <2>1. p \notin Settled /\ Settled' = Settled \cup {p} /\ UNCHANGED <<connected, sent>>
    BY <1>3 DEF AppendPacket, Settled, TypeOK
  <2>2. (sent \o buffer)' = (sent \o buffer) \o Units(p)
    <3> DEFINE S == Packets \X (1..PacketLength)
    <3>1. sent \in Seq(S) /\ buffer \in Seq(S) /\ Units(p) \in Seq(S)
      BY UnitsType DEF TypeOK
    <3> HIDE DEF S
    <3>2. (sent \o buffer) \o Units(p) = sent \o (buffer \o Units(p))
      BY <3>1, ConcatAssociative
    <3> QED
      BY <1>3, <3>2 DEF AppendPacket
  <2>3. Units(p) = Channel!Units(p)
    BY DEF Units, Channel!Units
  <2>4. Channel!Accept(p)
    BY <2>1, <2>2, <2>3 DEF Channel!Accept, Settled
  <2> QED
    BY <2>4 DEF Channel!Next
<1>4. CASE Arm(p) \/ ArmStale(p)
  <2>1. Settled' = Settled /\ UNCHANGED <<connected, sent, buffer>>
    BY <1>4 DEF Arm, ArmStale, Settled, TypeOK
  <2> QED
    BY <2>1 DEF Channel!vars, Settled
<1> QED
  BY <1>1, <1>2, <1>3, <1>4 DEF SendPacket

\* What send() takes are the next units of what was promised.
LEMMA TransmitImplements ==
  ASSUME TypeOK, OpenWhileWriting, NEW n \in 1..SocketRoom, Transmit(n)
  PROVE  Channel!Next
<1> DEFINE S == Packets \X (1..PacketLength)
           all == sent \o buffer
<1>1. /\ sent \in Seq(S) /\ buffer \in Seq(S) /\ all \in Seq(S) /\ n \in 1..Len(buffer)
      /\ sent' = sent \o SubSeq(buffer, 1, n) /\ connected
      /\ Settled' = Settled /\ connected' = connected
  BY DEF Transmit, TypeOK, OpenWhileWriting, Settled
<1>2. all' = all
  BY <1>1, CutAndJoin DEF Transmit
<1>3. Len(all) = Len(sent) + Len(buffer) /\ Len(sent) \in Nat /\ Len(buffer) \in Nat
  BY <1>1
<1>4. n \in 1..Len(all) /\ Len(sent) + n <= Len(all)
  BY <1>1, <1>3
<1>5. sent' = SubSeq(all, 1, Len(sent) + n)
  <2> HIDE DEF S, all
  <2> DEFINE front == SubSeq(all, 1, Len(sent) + n)
             part  == SubSeq(buffer, 1, n)
  <2>1. /\ part \in Seq(S) /\ Len(part) = n
        /\ \A i \in 1..n : part[i] = buffer[i]
    BY <1>1, <1>3
  <2>2. /\ front \in Seq(S) /\ Len(front) = Len(sent) + n
        /\ \A i \in 1..(Len(sent) + n) : front[i] = all[i]
    BY <1>1, <1>3, <1>4
  <2>3. /\ \A i \in 1..Len(sent) : all[i] = sent[i]
        /\ \A i \in 1..Len(buffer) : all[Len(sent) + i] = buffer[i]
    BY <1>1 DEF all
  <2> HIDE DEF front, part
  <2>4. /\ sent \o part \in Seq(S) /\ Len(sent \o part) = Len(sent) + n
        /\ \A i \in 1..Len(sent) : (sent \o part)[i] = sent[i]
        /\ \A i \in 1..n : (sent \o part)[Len(sent) + i] = part[i]
    <3>1. sent \in Seq(S) /\ part \in Seq(S) /\ Len(part) = n /\ n \in Nat
      BY <1>1, <1>3, <2>1
    <3> QED
      BY <3>1
  <2>5. ASSUME NEW i \in 1..(Len(sent) + n)
        PROVE  (sent \o part)[i] = front[i]
    <3>1. CASE i \in 1..Len(sent)
      BY <3>1, <2>2, <2>3, <2>4
    <3>2. CASE i \notin 1..Len(sent)
      <4> DEFINE j == i - Len(sent)
      <4>1. j \in 1..n /\ j \in 1..Len(buffer) /\ i = Len(sent) + j
        BY <1>1, <1>3, <3>2
      <4> HIDE DEF j
      <4> QED
        BY <4>1, <2>1, <2>2, <2>3, <2>4
    <3> QED
      BY <3>1, <3>2
  <2>6. sent \o part = front
    BY <2>2, <2>4, <2>5, SeqEqual
  <2> QED
    BY <1>1, <2>6 DEF front, part
<1>6. Channel!Carry(n)
  BY <1>1, <1>2, <1>4, <1>5 DEF Channel!Carry, Settled
<1> QED
  BY <1>4, <1>6 DEF Channel!Next

\* The connection is closed, and its descriptor goes to a successor.
LEMMA CloseImplements ==
  ASSUME TypeOK, CloseAndCleanup \/ Accept
  PROVE  Channel!Next
<1>1. CASE CloseAndCleanup
  <2>1. Settled' = Settled /\ connected /\ connected' = FALSE /\ UNCHANGED <<sent, buffer>>
    BY <1>1 DEF CloseAndCleanup, Settled
  <2>2. Channel!Close
    BY <2>1 DEF Channel!Close, Settled
  <2> QED
    BY <2>2 DEF Channel!Next
<1>2. CASE Accept
  <2>0. PICK late \in SUBSET Packets : late = {p \in Packets : sender[p] = "append"}
    OBVIOUS
  <2>1. Settled' = Settled \cup late
    BY <1>2, <2>0 DEF Accept, Settled, TypeOK
  <2>2. ~connected /\ connected' = TRUE /\ sent' = <<>> /\ (sent \o buffer)' = <<>>
    BY <1>2 DEF Accept
  <2>3. Channel!Reopen(late)
    BY <2>1, <2>2 DEF Channel!Reopen, Settled
  <2> QED
    BY <2>3 DEF Channel!Next
<1> QED
  BY <1>1, <1>2

LEMMA StepImplements ==
  ASSUME TypeOK, OpenWhileWriting, [Next]_vars
  PROVE  [Channel!Next]_(Channel!vars)
<1>1. ASSUME UNCHANGED <<connected, sender, sent, buffer>>
      PROVE  UNCHANGED Channel!vars
  BY <1>1 DEF Channel!vars
<1>2. CASE Dispatch \/ LockBuffer \/ WouldBlock \/ SeeEmpty \/ Disarm
  BY <1>1, <1>2 DEF Dispatch, LockBuffer, WouldBlock, SeeEmpty, Disarm
<1>3. CASE PeerReads \/ UNCHANGED vars
  BY <1>1, <1>3 DEF PeerReads, vars
<1> QED
  BY <1>2, <1>3, SendImplements, TransmitImplements, CloseImplements
     DEF Next, HandleWrite, AtRest

\* Whoever sends and whenever the connection ends, it is a channel: each packet is
\* carried whole, once, in the order of acceptance, and only while the connection
\* is open (sendPacket lines 59-69, handleWrite lines 150-154, closeAndCleanup).
THEOREM DeliveryImplementsChannel == Spec => ImplementsChannel
<1>1. Init => Channel!Init
  BY InitImplements
<1>2. IndInv /\ [Next]_vars => [Channel!Next]_(Channel!vars)
  BY StepImplements DEF IndInv
<1> QED
  BY <1>1, <1>2, Invariance, PTL DEF Spec, ImplementsChannel, Channel!Spec
=============================================================================
