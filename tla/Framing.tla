------------------------------ MODULE Framing -------------------------------
(***************************************************************************)
(* The way of a byte stream to the thread pool: Connection::handleRead     *)
(* with the two functions of Protocol.hpp that find frames in the read     *)
(* buffer, called from Reactor::loop.                                      *)
(*                                                                         *)
(* The peer sends frames, each of the length its header declares, valid or *)
(* not.  A unit of the stream is a pair of the frame it belongs to and its *)
(* position there; the first HeaderLen units are the header.  Units arrive *)
(* one at a time, so every way to cut the stream into reads occurs.  The   *)
(* peer may end the stream or reset it anywhere.                           *)
(***************************************************************************)
EXTENDS Integers, Sequences

CONSTANTS
  HeaderLen,   \* kHeaderLen
  MaxBodyLen,  \* kMaxBodyLen
  RecvMax,     \* the size of the buffer given to recv()
  Lengths,     \* the lengths that the headers of the peer declare
  MaxFrames    \* frames that the peer sends (bounds the model)

ASSUME FramingAssumption ==
  /\ HeaderLen \in Nat \ {0} /\ MaxBodyLen \in Nat \ {0}
  /\ RecvMax \in Nat \ {0} /\ MaxFrames \in Nat
  /\ Lengths \subseteq Nat

VARIABLES
  useET,      \* use_ET_ of the reactor
  script,     \* the declared lengths of the frames that the peer has begun
  ends,       \* history: where in the stream each of these frames ends
  stream,     \* the units that have reached the socket
  ended,      \* whether the stream is open, finished or reset
  taken,      \* how many units recv() has returned
  report,     \* edge-triggered mode: a report of the descriptor is due
  connected,  \* connected_
  buffer,     \* read_buffer_
  reactor,    \* where the reactor stands in loop() and handleRead()
  submitted,  \* history: the bodies given to the thread pool
  settled     \* history: taken when handleRead() last ran to its end

vars == <<useET, script, ends, stream, ended, taken, report, connected, buffer,
          reactor, submitted, settled>>

peerVars == <<useET, script, ends, stream, ended>>

ValidLen(n) == n \in 1..MaxBodyLen

Unit        == (Nat \ {0}) \X (Nat \ {0})
FrameLen(k) == HeaderLen + script[k]
Body(k)     == [i \in 1..script[k] |-> <<k, HeaderLen + i>>]

\* The end of frame k, where frame k + 1 begins.
EndOf(k) == IF k = 0 THEN 0 ELSE ends[k]

TypeOK ==
  /\ useET \in BOOLEAN /\ connected \in BOOLEAN /\ report \in BOOLEAN
  /\ script \in Seq(Lengths) /\ Len(script) <= MaxFrames
  /\ ends \in Seq(Nat) /\ Len(ends) = Len(script)
  /\ stream \in Seq(Unit) /\ Len(stream) <= EndOf(Len(script))
  /\ taken \in 0..Len(stream) /\ settled \in 0..taken
  /\ ended \in {"open", "finished", "reset"}
  /\ buffer \in Seq(Unit)
  /\ reactor \in {"poll", "read", "check", "extract"}
  /\ submitted \in Seq(Seq(Unit))

Init ==
  /\ useET \in BOOLEAN
  /\ script = <<>> /\ ends = <<>> /\ stream = <<>>
  /\ taken = 0 /\ settled = 0
  /\ ended = "open" /\ report = FALSE
  /\ connected = TRUE
  /\ buffer = <<>> /\ submitted = <<>>
  /\ reactor = "poll"
-----------------------------------------------------------------------------
(* The peer.                                                               *)

StartFrame(n) ==
  /\ ended = "open" /\ Len(script) < MaxFrames
  /\ Len(stream) = EndOf(Len(script))
  /\ script' = Append(script, n)
  /\ ends' = Append(ends, Len(stream) + HeaderLen + n)
  /\ stream' = Append(stream, <<Len(script) + 1, 1>>)
  /\ report' = TRUE
  /\ UNCHANGED <<useET, ended, taken, connected, buffer, reactor, submitted,
                 settled>>

ContinueFrame ==
  /\ ended = "open" /\ Len(stream) < EndOf(Len(script))
  /\ LET k == Len(script)
     IN  stream' = Append(stream, <<k, Len(stream) + 1 - EndOf(k - 1)>>)
  /\ report' = TRUE
  /\ UNCHANGED <<useET, script, ends, ended, taken, connected, buffer, reactor,
                 submitted, settled>>

PeerEnds ==
  /\ ended = "open" /\ ended' \in {"finished", "reset"}
  /\ report' = TRUE
  /\ UNCHANGED <<useET, script, ends, stream, taken, connected, buffer, reactor,
                 submitted, settled>>

Peer == (\E n \in Lengths : StartFrame(n)) \/ ContinueFrame \/ PeerEnds
-----------------------------------------------------------------------------
(* Protocol.hpp.                                                           *)

DeclaredLen(b) == script[b[1][1]]

HasInvalidFrameLength(b) == Len(b) >= HeaderLen /\ ~ValidLen(DeclaredLen(b))

\* Faulty variant: the length limits are left to hasInvalidFrameLength().
HasFrameOfAnyLength(b) ==
  Len(b) >= HeaderLen /\ Len(b) >= HeaderLen + DeclaredLen(b)

\* Faulty variant: a frame is found only when something follows it.
HasMoreThanFrame(b) ==
  /\ Len(b) >= HeaderLen /\ ValidLen(DeclaredLen(b))
  /\ Len(b) > HeaderLen + DeclaredLen(b)

\* Whether tryExtractFrame() succeeds.
HasFrame(b) ==
  /\ Len(b) >= HeaderLen /\ ValidLen(DeclaredLen(b))
  /\ Len(b) >= HeaderLen + DeclaredLen(b)
-----------------------------------------------------------------------------
(* The reactor.                                                            *)

Close ==
  /\ connected' = FALSE /\ report' = FALSE
  /\ reactor' = "poll"

\* epoll_wait() returns the descriptor.  A reset is reported as an error, and
\* the error callback closes without reading.
Poll ==
  /\ connected /\ reactor = "poll"
  /\ IF useET THEN report ELSE taken < Len(stream) \/ ended # "open"
  /\ IF ended = "reset" THEN Close
     ELSE reactor' = "read" /\ report' = FALSE /\ UNCHANGED connected
  /\ UNCHANGED <<peerVars, taken, buffer, submitted, settled>>

\* How far one call of recv() reads.
ReadUpTo == IF taken + RecvMax < Len(stream) THEN taken + RecvMax ELSE Len(stream)

\* Faulty variant: recv() is called once for each report.
RecvOnce ==
  /\ reactor = "read" /\ taken < Len(stream)
  /\ taken' = ReadUpTo
  /\ buffer' = buffer \o SubSeq(stream, taken + 1, ReadUpTo)
  /\ reactor' = "check"
  /\ UNCHANGED <<peerVars, report, connected, submitted, settled>>

\* Faulty variant: the return value of recv() is not looked at.
RecvFull ==
  /\ reactor = "read" /\ taken < Len(stream)
  /\ taken' = taken + RecvMax
  /\ buffer' = buffer \o SubSeq(stream, taken + 1, Len(stream))
  /\ UNCHANGED <<peerVars, report, connected, reactor, submitted, settled>>

Recv ==
  /\ reactor = "read" /\ taken < Len(stream)
  /\ taken' = ReadUpTo
  /\ buffer' = buffer \o SubSeq(stream, taken + 1, ReadUpTo)
  /\ UNCHANGED <<peerVars, report, connected, reactor, submitted, settled>>

\* recv() returns 0 or an error: what is in the buffer is left there.
RecvEnds ==
  /\ reactor = "read" /\ taken = Len(stream) /\ ended # "open"
  /\ Close
  /\ UNCHANGED <<peerVars, taken, buffer, submitted, settled>>

WouldBlock ==
  /\ reactor = "read" /\ taken = Len(stream) /\ ended = "open"
  /\ reactor' = "check"
  /\ UNCHANGED <<peerVars, taken, report, connected, buffer, submitted,
                 settled>>

CheckHeader ==
  /\ reactor = "check"
  /\ IF HasInvalidFrameLength(buffer) THEN Close
     ELSE reactor' = "extract" /\ UNCHANGED <<connected, report>>
  /\ UNCHANGED <<peerVars, taken, buffer, submitted, settled>>

\* Faulty variant: one frame is taken from the buffer in each read.
ExtractOne ==
  /\ reactor = "extract" /\ HasFrame(buffer)
  /\ LET n == HeaderLen + DeclaredLen(buffer)
     IN  /\ submitted' = Append(submitted, SubSeq(buffer, HeaderLen + 1, n))
         /\ buffer' = SubSeq(buffer, n + 1, Len(buffer))
  /\ reactor' = "poll" /\ settled' = taken
  /\ UNCHANGED <<peerVars, taken, report, connected>>

Extract ==
  /\ reactor = "extract" /\ HasFrame(buffer)
  /\ LET n == HeaderLen + DeclaredLen(buffer)
     IN  /\ submitted' = Append(submitted, SubSeq(buffer, HeaderLen + 1, n))
         /\ buffer' = SubSeq(buffer, n + 1, Len(buffer))
  /\ UNCHANGED <<peerVars, taken, report, connected, reactor, settled>>

NoMoreFrames ==
  /\ reactor = "extract" /\ ~HasFrame(buffer)
  /\ reactor' = "poll" /\ settled' = taken
  /\ UNCHANGED <<peerVars, taken, report, connected, buffer, submitted>>

HandleRead ==
  \/ Recv \/ RecvEnds \/ WouldBlock \/ CheckHeader \/ Extract \/ NoMoreFrames

\* The connection is closed between two reads, because send() failed.
CloseElsewhere ==
  /\ connected /\ reactor = "poll"
  /\ Close
  /\ UNCHANGED <<peerVars, taken, buffer, submitted, settled>>

\* The connection is closed, or everything that arrived has been looked at.
AtRest ==
  /\ reactor = "poll"
  /\ connected => ended = "open" /\ taken = Len(stream)
  /\ UNCHANGED vars

Next ==
  \/ Peer
  \/ Poll \/ HandleRead \/ CloseElsewhere \/ AtRest

Spec == Init /\ [][Next]_vars

\* The reactor thread is scheduled.  The peer may stop at any point.
FairSpec == Spec /\ WF_vars(Poll \/ HandleRead)
-----------------------------------------------------------------------------
(* Properties.                                                             *)

\* The frames before the first one with an invalid length.
ValidPrefix ==
  {k \in 1..Len(script) : \A j \in 1..k : ValidLen(script[j])}

FramesWithin(n) == {k \in ValidPrefix : EndOf(k) <= n}

\* However the stream is cut into reads, the bodies submitted are those of the
\* first frames of the stream, each whole, in order, and none from an invalid
\* header on (handleRead lines 113-143, tryExtractFrame lines 36-52).
FramesExact ==
  /\ 1..Len(submitted) \subseteq ValidPrefix
  /\ \A k \in 1..Len(submitted) : submitted[k] = Body(k)

\* A frame is lost only together with the end of the stream: every frame that
\* was complete when handleRead() last ran to its end has been submitted
\* (handleRead lines 119-122 and 137-143).
NoneLeftBehind == FramesWithin(settled) \subseteq 1..Len(submitted)

\* Between two reads the buffer of an open connection is shorter than a frame,
\* unless an invalid header followed a valid frame in the last read, which is
\* found by the next one (handleRead lines 132-143).
BufferBounded ==
  connected /\ reactor = "poll" =>
    HasInvalidFrameLength(buffer) \/ Len(buffer) < HeaderLen + MaxBodyLen

\* On a connection that stays open a frame that has arrived whole is submitted,
\* also in edge-triggered mode, where nothing is reported twice, and an invalid
\* header at the front of the buffer closes the connection as soon as more
\* arrives (handleRead lines 111-143, hasInvalidFrameLength lines 54-62,
\* Reactor::loop lines 83-125).
EveryFrameHandled ==
  /\ \A k \in 1..MaxFrames :
       (k <= Len(script) /\ k \in FramesWithin(Len(stream))) ~>
         (Len(submitted) >= k \/ ended # "open" \/ ~connected)
  /\ (HasInvalidFrameLength(buffer) /\ taken < Len(stream)) ~> ~connected
=============================================================================
