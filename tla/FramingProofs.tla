--------------------------- MODULE FramingProofs ----------------------------
(***************************************************************************)
(* Proofs, for any lengths that a peer may declare, any limits and both    *)
(* trigger modes, that handleRead() finds exactly the valid frames of a    *)
(* stream, however it is cut into reads, that it leaves none behind, and   *)
(* that its buffer stays bounded.                                          *)
(***************************************************************************)
EXTENDS Framing, SequenceTheorems, TLAPS

-----------------------------------------------------------------------------
(* The inductive invariant.                                                *)

\* Where the frames of the peer lie in the stream: one after the other, all but
\* the last one whole, each unit in its place.
Layout ==
  /\ \A k \in 1..Len(script) : ends[k] = EndOf(k - 1) + FrameLen(k)
  /\ \A j, k \in 0..Len(script) : j <= k => EndOf(j) <= EndOf(k)
  /\ \A k \in 1..Len(script) : EndOf(k - 1) <= Len(stream)
  /\ \A k \in 1..Len(script), i \in Nat \ {0} :
       i <= FrameLen(k) /\ EndOf(k - 1) + i <= Len(stream) =>
         stream[EndOf(k - 1) + i] = <<k, i>>

\* What the reactor has read beyond the last frame that it submitted is what it
\* has in its buffer, so a header is looked for where the peer has put one.
Aligned ==
  LET begin == EndOf(Len(submitted))
  IN  /\ Len(submitted) <= Len(script)
      /\ taken = begin + Len(buffer)
      /\ \A i \in 1..Len(buffer) : buffer[i] = stream[begin + i]

\* Between two reads of an open connection there is no frame in the buffer.
Drained == connected /\ reactor = "poll" => ~HasFrame(buffer)

IndInv == TypeOK /\ Layout /\ Aligned /\ FramesExact /\ NoneLeftBehind /\ Drained

-----------------------------------------------------------------------------
(* Facts about the stream.                                                 *)

LEMMA FrameLenType ==
  ASSUME TypeOK, NEW k \in 1..Len(script)
  PROVE  script[k] \in Nat /\ FrameLen(k) \in Nat \ {0}
<1>1. script \in Seq(Lengths) /\ Lengths \subseteq Nat /\ HeaderLen \in Nat \ {0}
  BY FramingAssumption DEF TypeOK
<1>2. script[k] \in Lengths
  BY <1>1
<1>3. script[k] \in Nat
  BY <1>1, <1>2, Zenon
<1> QED
  BY <1>1, <1>3 DEF FrameLen

LEMMA EndOfType ==
  ASSUME TypeOK, NEW k \in 0..Len(script)
  PROVE  EndOf(k) \in Nat
BY DEF TypeOK, EndOf

\* The buffer begins with a header: that of the first frame not yet submitted.
LEMMA FrontIsHeader ==
  ASSUME TypeOK, Layout, Aligned, Len(buffer) >= 1
  PROVE  /\ Len(submitted) + 1 \in 1..Len(script)
         /\ buffer[1] = <<Len(submitted) + 1, 1>>
         /\ DeclaredLen(buffer) = script[Len(submitted) + 1]
<1> DEFINE m == Len(submitted)
           e == EndOf(m)
           c == Len(buffer)
           l == Len(stream)
           K == Len(script)
<1>1. m \in 0..K /\ K \in Nat /\ e \in Nat /\ c \in Nat \ {0} /\ l \in Nat
  BY EndOfType DEF TypeOK, Aligned
<1>2. taken = e + c /\ taken <= l /\ l <= EndOf(K)
  BY DEF TypeOK, Aligned
<1>3. m # K
  BY <1>1, <1>2
<1>4. m + 1 \in 1..K /\ (m + 1) - 1 = m
  BY <1>1, <1>3
<1>5. 1 <= FrameLen(m + 1)
  BY <1>4, FrameLenType
<1>6. e + 1 <= l
  BY <1>1, <1>2
<1>7. stream[e + 1] = <<m + 1, 1>>
  BY <1>4, <1>5, <1>6 DEF Layout
<1>8. buffer[1] = stream[e + 1]
  BY <1>1 DEF Aligned
<1> QED
  BY <1>4, <1>7, <1>8 DEF DeclaredLen

\* If the peer has only added to its frames, every declared length that could be
\* looked at before is what it was.
LEMMA PeerKeepsFront ==
  ASSUME TypeOK, Layout, Aligned, UNCHANGED <<buffer, submitted>>,
         \A k \in 1..Len(script) : script'[k] = script[k]
  PROVE  HasFrame(buffer)' = HasFrame(buffer)
<1>1. CASE Len(buffer) >= 1
  <2>1. /\ Len(submitted) + 1 \in 1..Len(script)
        /\ buffer[1] = <<Len(submitted) + 1, 1>>
    BY <1>1, FrontIsHeader
  <2>2. DeclaredLen(buffer)' = DeclaredLen(buffer)
    BY <2>1 DEF DeclaredLen
  <2> QED
    BY <2>2 DEF HasFrame
<1>2. CASE ~(Len(buffer) >= 1)
  <2>1. Len(buffer) \in Nat
    BY DEF TypeOK
  <2>2. ~(Len(buffer) >= HeaderLen)
    BY <1>2, <2>1, FramingAssumption
  <2> QED
    BY <2>2 DEF HasFrame
<1> QED
  BY <1>1, <1>2

-----------------------------------------------------------------------------
(* Types.                                                                  *)

LEMMA TypeStep ==
  ASSUME TypeOK, Layout, Aligned, [Next]_vars
  PROVE  TypeOK'
<1> DEFINE K == Len(script)
<1>0. /\ script \in Seq(Lengths) /\ ends \in Seq(Nat) /\ stream \in Seq(Unit)
      /\ buffer \in Seq(Unit) /\ submitted \in Seq(Seq(Unit))
      /\ K \in Nat /\ Len(ends) = K /\ Len(stream) \in Nat /\ taken \in Nat
      /\ EndOf(K) \in Nat /\ HeaderLen \in Nat \ {0} /\ Lengths \subseteq Nat
  BY EndOfType, FramingAssumption DEF TypeOK
<1>1. ASSUME NEW n \in Lengths, StartFrame(n)
      PROVE  TypeOK'
  <2>1. /\ script' = Append(script, n) /\ ends' = Append(ends, Len(stream) + HeaderLen + n)
        /\ stream' = Append(stream, <<K + 1, 1>>)
    BY <1>1 DEF StartFrame
  <2>2. n \in Nat /\ Len(stream) + HeaderLen + n \in Nat /\ <<K + 1, 1>> \in Unit
    BY <1>0 DEF Unit
  <2>3. /\ script' \in Seq(Lengths) /\ ends' \in Seq(Nat) /\ stream' \in Seq(Unit)
        /\ Len(script') = K + 1 /\ Len(ends') = K + 1 /\ Len(stream') = Len(stream) + 1
        /\ ends'[K + 1] = Len(stream) + HeaderLen + n
    <3>1. script' \in Seq(Lengths) /\ Len(script') = K + 1
      BY <1>0, <2>1
    <3>2. ends' \in Seq(Nat) /\ Len(ends') = K + 1 /\ ends'[K + 1] = Len(stream) + HeaderLen + n
      <4> DEFINE e == Len(stream) + HeaderLen + n
      <4>1. ends' = Append(ends, e) /\ e \in Nat
        BY <2>1, <2>2
      <4> HIDE DEF e
      <4>2. ends' \in Seq(Nat) /\ Len(ends') = K + 1 /\ ends'[K + 1] = e
        BY <1>0, <4>1
      <4> QED
        BY <4>2 DEF e
    <3>3. stream' \in Seq(Unit) /\ Len(stream') = Len(stream) + 1
      BY <1>0, <2>1, <2>2
    <3> QED
      BY <3>1, <3>2, <3>3
  <2>4. EndOf(Len(script))' = Len(stream) + HeaderLen + n
    BY <1>0, <2>3 DEF EndOf
  <2>5. Len(stream') <= EndOf(Len(script))' /\ Len(stream) <= Len(stream')
    BY <1>0, <2>2, <2>3, <2>4
  <2>6. Len(script') <= MaxFrames
    BY <1>0, <1>1, <2>3, FramingAssumption DEF StartFrame
  <2>7. taken' \in 0..Len(stream')
    BY <1>0, <1>1, <2>3, <2>5 DEF StartFrame, TypeOK
  <2> QED
    BY <1>1, <2>3, <2>5, <2>6, <2>7 DEF StartFrame, TypeOK
<1>2. CASE ContinueFrame
  <2> DEFINE i == Len(stream) + 1 - EndOf(K - 1)
  <2>1. K \in 1..Len(script) /\ K - 1 \in 0..Len(script)
    BY <1>0, <1>2 DEF ContinueFrame, EndOf
  <2>2. stream' = Append(stream, <<K, i>>) /\ UNCHANGED <<script, ends>>
    BY <1>2 DEF ContinueFrame
  <2>3. Len(stream) >= EndOf(K - 1)
    BY <2>1 DEF Layout
  <2>4. <<K, i>> \in Unit
    <3>1. EndOf(K - 1) \in Nat
      BY <2>1, EndOfType
    <3>2. K \in Nat \ {0} /\ i \in Nat \ {0}
      BY <1>0, <2>1, <2>3, <3>1
    <3> QED
      BY <3>2 DEF Unit
  <2>5. stream' \in Seq(Unit) /\ Len(stream') = Len(stream) + 1
    BY <1>0, <2>2, <2>4
  <2>6. Len(stream') <= EndOf(Len(script))'
    BY <1>0, <1>2, <2>2, <2>5 DEF ContinueFrame, EndOf
  <2>7. taken' \in 0..Len(stream')
    BY <1>0, <1>2, <2>5 DEF ContinueFrame, TypeOK
  <2> QED
    BY <1>2, <2>2, <2>5, <2>6, <2>7 DEF ContinueFrame, TypeOK
<1>3. CASE PeerEnds
  BY <1>3 DEF PeerEnds, TypeOK, EndOf
<1>4. CASE Poll
  BY <1>4 DEF Poll, Close, peerVars, TypeOK, EndOf
<1>5. CASE Recv
  <2>1. ReadUpTo \in taken..Len(stream) /\ ReadUpTo \in Nat
    BY <1>0, <1>5, FramingAssumption DEF Recv, ReadUpTo
  <2>2. SubSeq(stream, taken + 1, ReadUpTo) \in Seq(Unit)
    BY <1>0, <2>1
  <2>3. buffer' \in Seq(Unit)
    BY <1>0, <1>5, <2>2 DEF Recv
  <2>4. taken' \in 0..Len(stream') /\ settled' \in 0..taken'
    BY <1>0, <1>5, <2>1 DEF Recv, TypeOK, peerVars
  <2> QED
    BY <1>5, <2>3, <2>4 DEF Recv, TypeOK, EndOf, peerVars
<1>6. CASE RecvEnds \/ WouldBlock \/ CheckHeader \/ CloseElsewhere
  BY <1>6 DEF RecvEnds, WouldBlock, CheckHeader, CloseElsewhere, Close, TypeOK, EndOf, peerVars
<1>7. CASE Extract
  <2> DEFINE n == HeaderLen + DeclaredLen(buffer)
  <2>1. n \in Nat /\ n <= Len(buffer)
    BY <1>0, <1>7, FramingAssumption DEF Extract, HasFrame, ValidLen
  <2>2. SubSeq(buffer, HeaderLen + 1, n) \in Seq(Unit) /\ SubSeq(buffer, n + 1, Len(buffer)) \in Seq(Unit)
    BY <1>0, <2>1
  <2>3. submitted' \in Seq(Seq(Unit)) /\ buffer' \in Seq(Unit)
    BY <1>0, <1>7, <2>2 DEF Extract
  <2> QED
    BY <1>7, <2>3 DEF Extract, TypeOK, EndOf, peerVars
<1>8. CASE NoMoreFrames
  BY <1>8 DEF NoMoreFrames, TypeOK, EndOf, peerVars
<1>9. CASE UNCHANGED vars
  BY <1>9 DEF vars, TypeOK, EndOf
<1> QED
  BY <1>1, <1>2, <1>3, <1>4, <1>5, <1>6, <1>7, <1>8, <1>9
     DEF Next, Peer, HandleRead, AtRest

-----------------------------------------------------------------------------
(* Steps of the peer.                                                      *)

\* The peer only adds to the stream and to its frames, and a frame that it begins
\* ends beyond what has been read.
Extended ==
  /\ Len(script) <= Len(script') /\ Len(stream) <= Len(stream')
  /\ \A k \in 1..Len(script) : script'[k] = script[k] /\ ends'[k] = ends[k]
  /\ \A k \in 1..Len(script') : k > Len(script) => ends'[k] \in Nat /\ ends'[k] > settled
  /\ \A i \in 1..Len(stream) : stream'[i] = stream[i]
  /\ UNCHANGED <<taken, connected, buffer, reactor, submitted, settled>>

LEMMA StartExtends ==
  ASSUME TypeOK, Layout, NEW n \in Lengths, StartFrame(n)
  PROVE  Extended /\ Layout'
<1> SUFFICES ASSUME NEW K, NEW L, K = Len(script), L = Len(stream)
             PROVE  Extended /\ Layout'
  OBVIOUS
<1> DEFINE e == L + HeaderLen + n
           u == <<K + 1, 1>>
<1>1. /\ script \in Seq(Lengths) /\ ends \in Seq(Nat) /\ stream \in Seq(Unit)
      /\ Len(ends) = K
  BY DEF TypeOK
<1>2. K \in Nat /\ L \in Nat /\ settled \in Nat /\ settled <= L /\ HeaderLen \in Nat \ {0}
  BY FramingAssumption DEF TypeOK
<1>3. n \in Nat
  BY FramingAssumption, Zenon
<1>4. e \in Nat /\ e > L
  BY <1>2, <1>3
<1>5. /\ script' = Append(script, n) /\ ends' = Append(ends, e)
      /\ stream' = Append(stream, u) /\ L = EndOf(K)
      /\ UNCHANGED <<taken, connected, buffer, reactor, submitted, settled>>
  BY DEF StartFrame
<1> HIDE DEF e, u
<1>6. Len(script') = K + 1 /\ script'[K + 1] = n /\ \A k \in 1..K : script'[k] = script[k]
  BY <1>1, <1>5
<1>7. ends'[K + 1] = e /\ \A k \in 1..K : ends'[k] = ends[k]
  BY <1>1, <1>4, <1>5
<1>8. /\ Len(stream') = L + 1 /\ stream'[L + 1] = u
      /\ \A i \in 1..L : stream'[i] = stream[i]
  <2>1. stream \in Seq(Unit) /\ stream' = Append(stream, u)
    BY <1>1, <1>5
  <2> QED
    BY <2>1
<1>9. Extended
  <2>1. \A k \in 1..(K + 1) : k > K => ends'[k] \in Nat /\ ends'[k] > settled
    BY <1>2, <1>4, <1>7
  <2>2. K <= K + 1 /\ L <= L + 1
    BY <1>2
  <2> QED
    BY <1>5, <1>6, <1>7, <1>8, <2>1, <2>2 DEF Extended
<1>10. /\ EndOf(K + 1)' = e /\ EndOf(K)' = L
       /\ \A k \in 0..K : EndOf(k)' = EndOf(k)
  <2>1. EndOf(K + 1)' = e
    BY <1>2, <1>7 DEF EndOf
  <2>2. \A k \in 0..K : k # 0 => k \in 1..K
    BY <1>2
  <2>3. \A k \in 0..K : EndOf(k)' = EndOf(k)
    BY <1>7, <2>2 DEF EndOf
  <2> QED
    BY <1>2, <1>5, <2>1, <2>3
<1>11. \A k \in 0..K : EndOf(k) \in Nat /\ EndOf(k) <= L
  <2>1. \A k \in 0..K : EndOf(k) \in Nat
    BY EndOfType
  <2>2. \A k \in 0..K : k <= K => EndOf(k) <= EndOf(K)
    BY <1>2 DEF Layout
  <2> QED
    BY <1>2, <1>5, <2>1, <2>2
<1>12. FrameLen(K + 1)' = HeaderLen + n
  BY <1>6 DEF FrameLen
<1>13. \A k \in 1..K : FrameLen(k)' = FrameLen(k) /\ FrameLen(k) \in Nat
  BY <1>6, FrameLenType DEF FrameLen
<1>14. ASSUME NEW k \in 1..K
       PROVE  /\ ends[k] = EndOf(k - 1) + FrameLen(k) /\ EndOf(k - 1) <= L
              /\ ends[k] = EndOf(k) /\ k \in Nat /\ k \in 0..K /\ k - 1 \in 0..K
  <2>1. k \in 0..K /\ k - 1 \in 0..K /\ k # 0
    BY <1>2
  <2> QED
    BY <1>11, <2>1 DEF Layout, EndOf
<1>15. ASSUME NEW k \in 1..(K + 1)
       PROVE  ends'[k] = EndOf(k - 1)' + FrameLen(k)' /\ EndOf(k - 1)' <= L + 1
  <2>1. CASE k = K + 1
    <3>1. EndOf(k - 1)' = L
      <4>1. k - 1 = K
        BY <1>2, <2>1
      <4> QED
        BY <1>10, <4>1
    <3>2. ends'[k] = e /\ FrameLen(k)' = HeaderLen + n
      BY <1>7, <1>12, <2>1
    <3> QED
      BY <1>2, <1>3, <3>1, <3>2 DEF e
  <2>2. CASE k # K + 1
    <3>1. k \in 1..K
      BY <1>2, <2>2
    <3>2. ends'[k] = ends[k] /\ EndOf(k - 1)' = EndOf(k - 1) /\ FrameLen(k)' = FrameLen(k)
      BY <1>7, <1>10, <1>13, <1>14, <3>1
    <3> QED
      BY <1>2, <1>11, <1>14, <3>1, <3>2
  <2> QED
    BY <2>1, <2>2
<1>16. ASSUME NEW j \in 0..(K + 1), NEW k \in 0..(K + 1), j <= k
       PROVE  EndOf(j)' <= EndOf(k)'
  <2>1. CASE j = K + 1
    <3>1. k = K + 1
      BY <1>2, <1>16, <2>1
    <3> QED
      BY <1>4, <1>10, <2>1, <3>1
  <2>2. CASE j # K + 1 /\ k = K + 1
    <3>1. j \in 0..K
      BY <1>2, <2>2
    <3>2. EndOf(j)' \in Nat /\ EndOf(j)' <= L /\ EndOf(k)' = e
      BY <1>10, <1>11, <2>2, <3>1
    <3> QED
      BY <1>2, <1>4, <3>2
  <2>3. CASE k # K + 1
    <3>1. j \in 0..K /\ k \in 0..K
      BY <1>2, <1>16, <2>3
    <3>2. EndOf(j) <= EndOf(k)
      BY <1>16, <3>1 DEF Layout
    <3> QED
      BY <1>10, <3>1, <3>2
  <2> QED
    BY <2>1, <2>2, <2>3
<1>17. ASSUME NEW k \in 1..(K + 1), NEW i \in Nat \ {0},
              i <= FrameLen(k)', EndOf(k - 1)' + i <= L + 1
       PROVE  stream'[EndOf(k - 1)' + i] = <<k, i>>
  <2>1. CASE k = K + 1
    <3>1. k - 1 = K
      BY <1>2, <2>1
    <3>2. EndOf(k - 1)' = L
      BY <1>10, <3>1
    <3>3. i = 1 /\ EndOf(k - 1)' + i = L + 1
      BY <1>2, <1>17, <3>2
    <3>4. <<k, i>> = u
      BY <2>1, <3>3 DEF u
    <3> QED
      BY <1>8, <3>3, <3>4
  <2>2. CASE k # K + 1
    <3>1. k \in 1..K
      BY <1>2, <2>2
    <3>2. EndOf(k - 1)' = EndOf(k - 1) /\ FrameLen(k)' = FrameLen(k) /\ FrameLen(k) \in Nat
      BY <1>10, <1>13, <1>14, <3>1
    <3>3. EndOf(k - 1) \in Nat /\ EndOf(k - 1) + FrameLen(k) <= L
      BY <1>11, <1>14, <3>1
    <3>4. i <= FrameLen(k) /\ EndOf(k - 1) + i <= L /\ EndOf(k - 1) + i \in 1..L
      BY <1>2, <1>17, <3>2, <3>3
    <3>5. stream[EndOf(k - 1) + i] = <<k, i>>
      BY <3>1, <3>4 DEF Layout
    <3> QED
      BY <1>8, <3>2, <3>4, <3>5
  <2> QED
    BY <2>1, <2>2
<1> QED
  BY <1>6, <1>8, <1>9, <1>15, <1>16, <1>17 DEF Layout

LEMMA ContinueExtends ==
  ASSUME TypeOK, Layout, ContinueFrame
  PROVE  Extended /\ Layout'
<1> DEFINE K == Len(script)
           L == Len(stream)
           p == L + 1 - EndOf(K - 1)
           u == <<K, p>>
<1>1. stream \in Seq(Unit) /\ K \in Nat /\ L \in Nat /\ EndOf(K) \in Nat
  BY EndOfType DEF TypeOK
<1>2. /\ L < EndOf(K) /\ stream' = Append(stream, u)
      /\ UNCHANGED <<script, ends, taken, connected, buffer, reactor, submitted, settled>>
  BY DEF ContinueFrame
<1>3. K # 0
  BY <1>1, <1>2 DEF EndOf
<1>4. K \in 1..K /\ K - 1 \in 0..K /\ EndOf(K - 1) \in Nat /\ EndOf(K - 1) <= L
  <2>1. K \in 1..K /\ K - 1 \in 0..K
    BY <1>1, <1>3
  <2> QED
    BY <2>1, EndOfType DEF Layout
<1> HIDE DEF u
<1>5. Len(stream') = L + 1 /\ stream'[L + 1] = u /\ \A i \in 1..L : stream'[i] = stream[i]
  BY <1>1, <1>2
<1>6. \A k \in 0..K : EndOf(k)' = EndOf(k) /\ EndOf(k) \in Nat
  BY <1>2, EndOfType DEF EndOf
<1>7. \A k \in 1..K : FrameLen(k)' = FrameLen(k) /\ FrameLen(k) \in Nat
  BY <1>2, FrameLenType DEF FrameLen
<1>8. Extended
  BY <1>1, <1>2, <1>5 DEF Extended
<1>9. ASSUME NEW k \in 1..K
      PROVE  (ends[k] = EndOf(k - 1) + FrameLen(k))' /\ (EndOf(k - 1) <= Len(stream))'
  <2>1. k - 1 \in 0..K /\ ends[k] = EndOf(k - 1) + FrameLen(k) /\ EndOf(k - 1) <= L
    BY DEF Layout
  <2>2. ends'[k] = ends[k] /\ FrameLen(k)' = FrameLen(k)
    BY <1>2, <1>7
  <2>3. EndOf(k - 1)' = EndOf(k - 1) /\ EndOf(k - 1) \in Nat
    BY <1>6, <2>1
  <2>4. (ends[k] = EndOf(k - 1) + FrameLen(k))'
    BY <2>1, <2>2, <2>3
  <2>5. (EndOf(k - 1) <= Len(stream))'
    BY <1>1, <1>5, <2>1, <2>3
  <2> QED
    BY <2>4, <2>5
<1>10. \A j, k \in 0..K : j <= k => EndOf(j)' <= EndOf(k)'
  BY <1>6 DEF Layout
<1>11. ASSUME NEW k \in 1..K, NEW i \in Nat \ {0}, i <= FrameLen(k), EndOf(k - 1) + i <= L + 1
       PROVE  stream'[EndOf(k - 1) + i] = <<k, i>>
  <2>1. k - 1 \in 0..K /\ EndOf(k - 1) \in Nat /\ k \in Nat
    BY <1>6
  <2>2. CASE EndOf(k - 1) + i <= L
    BY <1>1, <1>5, <1>11, <2>1, <2>2 DEF Layout
  <2>3. CASE EndOf(k - 1) + i = L + 1
    <3>1. k = K
      <4> SUFFICES ASSUME k # K PROVE FALSE
        OBVIOUS
      <4>1. k \in 0..K /\ k <= K - 1
        BY <1>1
      <4>2. EndOf(k) <= EndOf(K - 1)
        BY <1>4, <4>1 DEF Layout
      <4>3. EndOf(k) = EndOf(k - 1) + FrameLen(k)
        BY <2>1 DEF Layout, EndOf
      <4>4. EndOf(k - 1) + i <= EndOf(k)
        BY <1>7, <1>11, <2>1, <4>3
      <4>5. EndOf(k) \in Nat
        BY <1>6, <4>1
      <4> QED
        BY <1>1, <1>4, <2>3, <4>2, <4>4, <4>5
    <3>2. i = p
      BY <1>1, <1>4, <2>1, <2>3, <3>1
    <3> QED
      BY <1>5, <2>3, <3>1, <3>2 DEF u
  <2> QED
    BY <1>1, <1>11, <2>1, <2>2, <2>3
<1>12. Layout'
  <2>1. Len(script') = K
    BY <1>2
  <2>2. \A k \in 1..K : EndOf(k - 1)' = EndOf(k - 1)
    BY <1>6
  <2> QED
    BY <1>5, <1>7, <1>9, <1>10, <1>11, <2>1, <2>2 DEF Layout
<1> QED
  BY <1>8, <1>12

\* What the peer adds does not concern what has been read.
LEMMA ExtendedKeeps ==
  ASSUME IndInv, Extended
  PROVE  Aligned' /\ FramesExact' /\ NoneLeftBehind' /\ Drained'
<1> SUFFICES ASSUME NEW m, NEW K, m = Len(submitted), K = Len(script)
             PROVE  Aligned' /\ FramesExact' /\ NoneLeftBehind' /\ Drained'
  OBVIOUS
<1>1. /\ m \in Nat /\ K \in Nat /\ m <= K /\ Len(stream) \in Nat /\ Len(script') \in Nat
      /\ taken \in Nat /\ taken <= Len(stream) /\ settled \in Nat
  BY DEF IndInv, TypeOK, Aligned, Extended
<1>2. /\ UNCHANGED <<taken, connected, buffer, reactor, submitted, settled>>
      /\ Len(submitted') = m /\ K <= Len(script')
      /\ \A k \in 1..K : script'[k] = script[k] /\ ends'[k] = ends[k]
      /\ \A k \in 1..Len(script') : k > K => ends'[k] \in Nat /\ ends'[k] > settled
      /\ \A i \in 1..Len(stream) : stream'[i] = stream[i]
  BY DEF Extended
<1>3. \A k \in 1..m : k \in 1..K
  BY <1>1
<1>4. \A k \in 0..K : EndOf(k)' = EndOf(k) /\ EndOf(k) \in Nat
  <2>1. \A k \in 0..K : k # 0 => k \in 1..K
    BY <1>1
  <2> QED
    BY <1>2, <2>1, EndOfType DEF EndOf, IndInv
<1>5. EndOf(m)' = EndOf(m) /\ EndOf(m) \in Nat
  BY <1>1, <1>4
<1>6. ASSUME NEW k \in 1..K
      PROVE  k \in ValidPrefix' <=> k \in ValidPrefix
  <2>1. k \in 1..Len(script') /\ k \in 1..Len(script) /\ \A j \in 1..k : j \in 1..K
    BY <1>1, <1>2
  <2> QED
    BY <1>2, <2>1 DEF ValidPrefix
<1>7. Aligned'
  <2>1. Len(buffer) \in Nat /\ taken = EndOf(m) + Len(buffer)
    BY DEF IndInv, TypeOK, Aligned
  <2>2. ASSUME NEW i \in 1..Len(buffer)
        PROVE  buffer[i] = stream'[EndOf(m) + i]
    <3>1. EndOf(m) + i \in 1..Len(stream)
      BY <1>1, <1>5, <2>1
    <3>2. buffer[i] = stream[EndOf(m) + i]
      BY DEF IndInv, Aligned
    <3> QED
      BY <1>2, <3>1, <3>2
  <2>3. m <= Len(script')
    BY <1>1, <1>2
  <2> QED
    BY <1>2, <1>5, <2>1, <2>2, <2>3 DEF Aligned
<1>8. FramesExact'
  <2>1. \A k \in 1..m : k \in ValidPrefix /\ submitted[k] = Body(k)
    BY DEF IndInv, FramesExact
  <2>2. \A k \in 1..m : Body(k)' = Body(k)
    BY <1>2, <1>3 DEF Body
  <2> QED
    BY <1>2, <1>3, <1>6, <2>1, <2>2 DEF FramesExact
<1>9. NoneLeftBehind'
  <2> SUFFICES ASSUME NEW k \in ValidPrefix', EndOf(k)' <= settled
               PROVE  k \in 1..m
    BY <1>2 DEF NoneLeftBehind, FramesWithin
  <2>1. k \in 1..Len(script') /\ k \in Nat \ {0}
    BY <1>1 DEF ValidPrefix
  <2>2. CASE k > K
    <3>1. EndOf(k)' = ends'[k]
      BY <2>1 DEF EndOf
    <3> QED
      BY <1>1, <1>2, <2>1, <2>2, <3>1
  <2>3. CASE ~(k > K)
    <3>1. k \in 1..K /\ k \in 0..K
      BY <1>1, <2>1, <2>3
    <3>2. k \in ValidPrefix /\ EndOf(k) <= settled
      BY <1>4, <1>6, <3>1
    <3> QED
      BY <3>2 DEF IndInv, NoneLeftBehind, FramesWithin
  <2> QED
    BY <2>2, <2>3
<1>10. Drained'
  <2>1. HasFrame(buffer)' = HasFrame(buffer)
    BY <1>2, PeerKeepsFront DEF IndInv
  <2> QED
    BY <1>2, <2>1 DEF IndInv, Drained
<1> QED
  BY <1>7, <1>8, <1>9, <1>10

-----------------------------------------------------------------------------
(* Steps of the reactor.                                                   *)

\* The reactor reads the stream and does not write it.
LEMMA LayoutKept ==
  ASSUME Layout, UNCHANGED peerVars
  PROVE  Layout'
BY DEF Layout, EndOf, FrameLen, peerVars

LEMMA RecvKeeps ==
  ASSUME IndInv, Recv
  PROVE  Aligned' /\ FramesExact' /\ NoneLeftBehind' /\ Drained'
<1> DEFINE m == Len(submitted)
           c == Len(buffer)
           u == ReadUpTo
           x == SubSeq(stream, taken + 1, u)
<1>1. /\ buffer \in Seq(Unit) /\ stream \in Seq(Unit) /\ c \in Nat /\ taken \in Nat
      /\ Len(stream) \in Nat /\ EndOf(m) \in Nat /\ taken = EndOf(m) + c
  <2>1. m \in 0..Len(script)
    BY DEF IndInv, TypeOK, Aligned
  <2> QED
    BY <2>1, EndOfType DEF IndInv, TypeOK, Aligned
<1>2. u \in Nat /\ taken <= u /\ u <= Len(stream)
  BY <1>1, FramingAssumption DEF Recv, ReadUpTo
<1>3. /\ taken' = u /\ buffer' = buffer \o x /\ reactor' = reactor /\ reactor # "poll"
      /\ UNCHANGED <<script, ends, stream, connected, submitted, settled>>
  BY DEF Recv, peerVars
<1> HIDE DEF u
<1>4. x \in Seq(Unit) /\ Len(x) = u - taken /\ \A i \in 1..(u - taken) : x[i] = stream[taken + i]
  BY <1>1, <1>2
<1> HIDE DEF x
<1>5. /\ Len(buffer') = c + (u - taken)
      /\ \A i \in 1..c : buffer'[i] = buffer[i]
      /\ \A i \in 1..(u - taken) : buffer'[c + i] = x[i]
  <2>1. buffer \in Seq(Unit) /\ x \in Seq(Unit) /\ buffer' = buffer \o x
    BY <1>1, <1>3, <1>4
  <2>2. /\ Len(buffer') = c + Len(x)
        /\ \A i \in 1..c : buffer'[i] = buffer[i]
        /\ \A i \in 1..Len(x) : buffer'[c + i] = x[i]
    BY <2>1
  <2> QED
    BY <1>4, <2>2
<1>6. Aligned'
  <2>1. ASSUME NEW i \in 1..(c + (u - taken))
        PROVE  buffer'[i] = stream[EndOf(m) + i]
    <3>1. CASE i <= c
      <4>1. i \in 1..c
        BY <1>1, <3>1
      <4> QED
        BY <1>5, <4>1 DEF IndInv, Aligned
    <3>2. CASE ~(i <= c)
      <4> DEFINE j == i - c
      <4>1. j \in 1..(u - taken) /\ i = c + j /\ taken + j = EndOf(m) + i
        BY <1>1, <1>2, <3>2
      <4> QED
        BY <1>4, <1>5, <4>1
    <3> QED
      BY <3>1, <3>2
  <2>2. u = EndOf(m) + (c + (u - taken)) /\ m <= Len(script)
    BY <1>1, <1>2 DEF IndInv, Aligned
  <2>3. EndOf(Len(submitted))' = EndOf(m)
    BY <1>3 DEF EndOf
  <2> QED
    BY <1>3, <1>5, <2>1, <2>2, <2>3 DEF Aligned
<1>7. FramesExact' /\ NoneLeftBehind'
  BY <1>3 DEF IndInv, FramesExact, NoneLeftBehind, FramesWithin, ValidPrefix, Body, EndOf
<1> QED
  BY <1>3, <1>6, <1>7 DEF Drained

\* What is left of a sequence when its first n members are erased.
LEMMA RestOfSeq ==
  ASSUME NEW S, NEW s \in Seq(S), NEW n \in 0..Len(s)
  PROVE  /\ Len(SubSeq(s, n + 1, Len(s))) = Len(s) - n
         /\ \A i \in 1..(Len(s) - n) : SubSeq(s, n + 1, Len(s))[i] = s[n + i]
<1>1. Len(s) \in Nat
  OBVIOUS
<1>2. Len(SubSeq(s, n + 1, Len(s))) = Len(s) - n
  BY <1>1
<1>3. \A i \in 1..(Len(s) - n) : SubSeq(s, n + 1, Len(s))[i] = s[n + i]
  BY <1>1
<1> QED
  BY <1>2, <1>3

LEMMA ExtractKeeps ==
  ASSUME IndInv, Extract
  PROVE  Aligned' /\ FramesExact' /\ NoneLeftBehind' /\ Drained'
<1> SUFFICES ASSUME NEW m, NEW c, NEW l,
                    m = Len(submitted), c = Len(buffer), l = script[m + 1]
             PROVE  Aligned' /\ FramesExact' /\ NoneLeftBehind' /\ Drained'
  OBVIOUS
<1> DEFINE n == HeaderLen + l
<1>1. /\ Len(buffer) >= HeaderLen /\ ValidLen(DeclaredLen(buffer))
      /\ Len(buffer) >= HeaderLen + DeclaredLen(buffer)
  BY DEF Extract, HasFrame
<1>2. /\ buffer \in Seq(Unit) /\ submitted \in Seq(Seq(Unit))
      /\ c \in Nat /\ m \in Nat /\ HeaderLen \in Nat \ {0} /\ Len(script) \in Nat
  BY FramingAssumption DEF IndInv, TypeOK
<1>0. c \in Nat /\ m \in Nat /\ HeaderLen \in Nat \ {0}
  BY <1>2
<1>3. m + 1 \in 1..Len(script) /\ DeclaredLen(buffer) = l
  BY <1>1, <1>2, FrontIsHeader DEF IndInv
<1>4. /\ ValidLen(l) /\ l \in Nat \ {0} /\ n \in Nat /\ n <= c /\ HeaderLen <= n
      /\ FrameLen(m + 1) = n
  BY <1>1, <1>2, <1>3, FramingAssumption DEF ValidLen, FrameLen
<1> DEFINE body == SubSeq(buffer, HeaderLen + 1, n)
           rest == SubSeq(buffer, n + 1, c)
<1>5. /\ submitted' = Append(submitted, body) /\ buffer' = rest
      /\ reactor' = reactor /\ reactor # "poll"
      /\ UNCHANGED <<script, ends, stream, taken, connected, settled>>
  BY <1>3 DEF Extract, peerVars
<1>6. /\ body \in Seq(Unit) /\ Len(body) = l
      /\ \A i \in 1..l : body[i] = buffer[HeaderLen + i]
  BY <1>2, <1>4
<1>7. Len(rest) = c - n /\ \A i \in 1..(c - n) : rest[i] = buffer[n + i]
  <2>1. buffer \in Seq(Unit) /\ n \in 0..Len(buffer) /\ c = Len(buffer)
    BY <1>2, <1>4
  <2> HIDE DEF n
  <2> QED
    BY <2>1, RestOfSeq
<1> HIDE DEF body, rest
<1>8. Len(submitted') = m + 1 /\ submitted'[m + 1] = body /\ \A k \in 1..m : submitted'[k] = submitted[k]
  <2>1. submitted \in Seq(Seq(Unit)) /\ body \in Seq(Unit) /\ submitted' = Append(submitted, body)
    BY <1>2, <1>5, <1>6
  <2> QED
    BY <2>1
<1>9. /\ EndOf(m) \in Nat /\ EndOf(m + 1) = EndOf(m) + n /\ taken = EndOf(m) + c
      /\ \A i \in 1..c : buffer[i] = stream[EndOf(m) + i]
  <2>1. m \in 0..Len(script) /\ (m + 1) - 1 = m /\ m + 1 # 0
    BY <1>2, <1>3
  <2>2. EndOf(m) \in Nat
    BY <2>1, EndOfType DEF IndInv
  <2>3. ends[m + 1] = EndOf((m + 1) - 1) + FrameLen(m + 1)
    BY <1>3 DEF IndInv, Layout
  <2>4. EndOf(m + 1) = EndOf(m) + n
    BY <1>4, <2>1, <2>3 DEF EndOf
  <2> QED
    BY <2>2, <2>4 DEF IndInv, Aligned
<1>10. Aligned'
  <2>1. EndOf(m + 1)' = EndOf(m + 1)
    BY <1>5 DEF EndOf
  <2>2. \A i \in 1..(c - n) : rest[i] = stream[EndOf(m + 1) + i]
    <3>1. ASSUME NEW i \in 1..(c - n)
          PROVE  n + i \in 1..c /\ EndOf(m) + (n + i) = EndOf(m + 1) + i
      <4>1. n + i \in 1..c
        BY <1>0, <1>4
      <4>2. EndOf(m) \in Nat /\ EndOf(m + 1) = EndOf(m) + n /\ n \in Nat /\ i \in Nat
        BY <1>4, <1>9
      <4> QED
        BY <4>1, <4>2
    <3> QED
      BY <1>7, <1>9, <3>1
  <2>3. taken = EndOf(m + 1) + (c - n) /\ m + 1 <= Len(script)
    BY <1>2, <1>3, <1>4, <1>9
  <2> QED
    BY <1>5, <1>7, <1>8, <2>1, <2>2, <2>3 DEF Aligned
<1>11. FramesExact'
  <2>1. \A k \in 1..m : k \in ValidPrefix /\ submitted[k] = Body(k)
    BY DEF IndInv, FramesExact
  <2>2. m + 1 \in ValidPrefix
    <3>1. ASSUME NEW j \in 1..(m + 1)
          PROVE  ValidLen(script[j])
      <4>1. CASE j = m + 1
        BY <1>4, <4>1
      <4>2. CASE j # m + 1
        <5>1. j \in 1..m /\ j \in 1..j
          BY <1>0, <4>2
        <5> QED
          BY <2>1, <5>1 DEF ValidPrefix
      <4> QED
        BY <4>1, <4>2
    <3> QED
      BY <1>3, <3>1 DEF ValidPrefix
  <2>3. body = Body(m + 1)
    <3>1. ASSUME NEW i \in 1..l
          PROVE  body[i] = <<m + 1, HeaderLen + i>>
      <4>1. HeaderLen + i \in 1..c /\ HeaderLen + i <= n /\ HeaderLen + i \in Nat \ {0}
        BY <1>2, <1>4
      <4>2. EndOf(m) + (HeaderLen + i) <= Len(stream)
        BY <1>2, <1>9, <4>1 DEF IndInv, TypeOK
      <4>3. m = (m + 1) - 1
        BY <1>2
      <4>4. stream[EndOf(m) + (HeaderLen + i)] = <<m + 1, HeaderLen + i>>
        BY <1>3, <1>4, <4>1, <4>2, <4>3 DEF IndInv, Layout
      <4> QED
        BY <1>6, <1>9, <4>1, <4>4
    <3>2. body = [i \in 1..l |-> body[i]]
      BY <1>6
    <3> QED
      BY <3>1, <3>2 DEF Body
  <2>4. ValidPrefix' = ValidPrefix /\ \A k \in 1..(m + 1) : Body(k)' = Body(k)
    BY <1>5 DEF ValidPrefix, Body
  <2>5. \A k \in 1..(m + 1) : k # m + 1 => k \in 1..m
    BY <1>0
  <2>6. \A k \in 1..(m + 1) : k \in ValidPrefix /\ submitted'[k] = Body(k)
    BY <1>8, <2>1, <2>2, <2>3, <2>5
  <2> QED
    BY <1>8, <2>4, <2>6 DEF FramesExact
<1>12. NoneLeftBehind'
  <2>1. FramesWithin(settled)' = FramesWithin(settled)
    BY <1>5 DEF FramesWithin, ValidPrefix, EndOf
  <2>2. 1..m \subseteq 1..(m + 1)
    BY <1>2
  <2> QED
    BY <1>8, <2>1, <2>2 DEF IndInv, NoneLeftBehind
<1> QED
  BY <1>5, <1>10, <1>11, <1>12 DEF Drained

\* When tryExtractFrame() fails, no valid frame lies whole in what was read.
LEMMA NothingMissed ==
  ASSUME IndInv, ~HasFrame(buffer)
  PROVE  FramesWithin(taken) \subseteq 1..Len(submitted)
<1> SUFFICES ASSUME NEW m, NEW K, m = Len(submitted), K = Len(script),
                    NEW k \in ValidPrefix, EndOf(k) <= taken, ~(k \in 1..m)
             PROVE  FALSE
  BY DEF FramesWithin
<1> DEFINE c == Len(buffer)
<1>1. /\ m \in Nat /\ K \in Nat /\ m <= K /\ c \in Nat /\ taken \in Nat
      /\ taken = EndOf(m) + c /\ HeaderLen \in Nat \ {0}
  BY FramingAssumption DEF IndInv, TypeOK, Aligned
<1>2. k \in 1..K /\ \A j \in 1..k : ValidLen(script[j])
  BY DEF ValidPrefix
<1>3. m + 1 \in 1..k /\ m + 1 \in 1..K /\ (m + 1) - 1 = m /\ m + 1 # 0
      /\ m + 1 \in 0..K /\ k \in 0..K /\ m + 1 <= k /\ m \in 0..K
  BY <1>1, <1>2
<1>4. EndOf(m + 1) <= EndOf(k) /\ EndOf(m) \in Nat /\ EndOf(m + 1) \in Nat /\ EndOf(k) \in Nat
  BY <1>3, EndOfType DEF IndInv, Layout
<1>5. ends[m + 1] = EndOf((m + 1) - 1) + FrameLen(m + 1)
  BY <1>3 DEF IndInv, Layout
<1>6. EndOf(m + 1) = EndOf(m) + FrameLen(m + 1)
  BY <1>3, <1>5 DEF EndOf
<1>7. script[m + 1] \in Nat /\ FrameLen(m + 1) = HeaderLen + script[m + 1]
  BY <1>3, FrameLenType DEF IndInv, FrameLen
<1>8. c >= HeaderLen + script[m + 1]
  BY <1>1, <1>4, <1>6, <1>7
<1>9. c >= HeaderLen /\ c >= 1
  BY <1>1, <1>7, <1>8
<1>10. DeclaredLen(buffer) = script[m + 1]
  BY <1>9, FrontIsHeader DEF IndInv
<1>11. ValidLen(script[m + 1])
  BY <1>2, <1>3
<1> QED
  BY <1>8, <1>9, <1>10, <1>11 DEF HasFrame

LEMMA SettleKeeps ==
  ASSUME IndInv, NoMoreFrames
  PROVE  Aligned' /\ FramesExact' /\ NoneLeftBehind' /\ Drained'
<1>1. /\ ~HasFrame(buffer) /\ settled' = taken
      /\ UNCHANGED <<script, ends, stream, taken, connected, buffer, submitted>>
  BY DEF NoMoreFrames, peerVars
<1>2. Aligned' /\ FramesExact'
  BY <1>1 DEF IndInv, Aligned, FramesExact, ValidPrefix, Body, EndOf
<1>3. NoneLeftBehind'
  <2>1. FramesWithin(taken) \subseteq 1..Len(submitted)
    BY <1>1, NothingMissed
  <2>2. FramesWithin(settled)' = FramesWithin(taken)
    BY <1>1 DEF FramesWithin, ValidPrefix, EndOf
  <2> QED
    BY <1>1, <2>1, <2>2 DEF NoneLeftBehind
<1>4. HasFrame(buffer)' = HasFrame(buffer)
  BY <1>1 DEF HasFrame, DeclaredLen
<1> QED
  BY <1>1, <1>2, <1>3, <1>4 DEF Drained

\* The other steps take nothing from the socket or the buffer, and they come to
\* poll by closing only.
LEMMA OthersKeep ==
  ASSUME IndInv, UNCHANGED <<peerVars, taken, buffer, submitted, settled>>,
         connected' /\ reactor' = "poll" => connected /\ reactor = "poll"
  PROVE  Aligned' /\ FramesExact' /\ NoneLeftBehind' /\ Drained'
<1>1. UNCHANGED <<script, ends, stream, taken, buffer, submitted, settled>>
  BY DEF peerVars
<1>2. Aligned' /\ FramesExact' /\ NoneLeftBehind'
  BY <1>1 DEF IndInv, Aligned, FramesExact, NoneLeftBehind, FramesWithin, ValidPrefix, Body, EndOf
<1>3. HasFrame(buffer)' = HasFrame(buffer)
  BY <1>1 DEF HasFrame, DeclaredLen
<1> QED
  BY <1>2, <1>3 DEF IndInv, Drained

-----------------------------------------------------------------------------

LEMMA IndStep ==
  ASSUME IndInv, [Next]_vars
  PROVE  IndInv'
<1>1. TypeOK'
  BY TypeStep DEF IndInv
<1> SUFFICES Layout' /\ Aligned' /\ FramesExact' /\ NoneLeftBehind' /\ Drained'
  BY <1>1 DEF IndInv
<1>2. ASSUME NEW n \in Lengths, StartFrame(n)
      PROVE  Layout' /\ Aligned' /\ FramesExact' /\ NoneLeftBehind' /\ Drained'
  BY <1>2, StartExtends, ExtendedKeeps DEF IndInv
<1>3. CASE ContinueFrame
  BY <1>3, ContinueExtends, ExtendedKeeps DEF IndInv
<1>4. CASE Recv
  BY <1>4, LayoutKept, RecvKeeps DEF IndInv, Recv
<1>5. CASE Extract
  BY <1>5, LayoutKept, ExtractKeeps DEF IndInv, Extract
<1>6. CASE NoMoreFrames
  BY <1>6, LayoutKept, SettleKeeps DEF IndInv, NoMoreFrames
<1>7. CASE PeerEnds
  <2>1. Extended /\ Layout'
    <3>1. UNCHANGED <<script, ends, stream, taken, connected, buffer, reactor, submitted, settled>>
      BY <1>7 DEF PeerEnds
    <3>2. Len(script) \in Nat /\ Len(stream) \in Nat
      BY DEF IndInv, TypeOK
    <3>3. Layout'
      BY <3>1 DEF IndInv, Layout, EndOf, FrameLen
    <3>4. \A k \in 1..Len(script') : ~(k > Len(script))
      BY <3>1, <3>2
    <3> QED
      BY <3>1, <3>2, <3>3, <3>4 DEF Extended
  <2> QED
    BY <2>1, ExtendedKeeps
<1>8. CASE Poll \/ RecvEnds \/ WouldBlock \/ CheckHeader \/ CloseElsewhere
  <2>1. /\ UNCHANGED <<peerVars, taken, buffer, submitted, settled>>
        /\ connected' /\ reactor' = "poll" => connected /\ reactor = "poll"
    BY <1>8 DEF Poll, RecvEnds, WouldBlock, CheckHeader, CloseElsewhere, Close
  <2> QED
    BY <2>1, LayoutKept, OthersKeep DEF IndInv
<1>9. CASE UNCHANGED vars
  <2>1. /\ UNCHANGED <<peerVars, taken, buffer, submitted, settled>>
        /\ connected' /\ reactor' = "poll" => connected /\ reactor = "poll"
    BY <1>9 DEF vars, peerVars
  <2> QED
    BY <2>1, LayoutKept, OthersKeep DEF IndInv
<1> QED
  BY <1>2, <1>3, <1>4, <1>5, <1>6, <1>7, <1>8, <1>9
     DEF Next, Peer, HandleRead, AtRest

LEMMA InitHolds ==
  ASSUME Init
  PROVE  IndInv
<1>1. /\ script = <<>> /\ ends = <<>> /\ stream = <<>> /\ buffer = <<>> /\ submitted = <<>>
      /\ taken = 0 /\ settled = 0 /\ Len(script) = 0 /\ Len(buffer) = 0 /\ Len(submitted) = 0
      /\ Len(stream) = 0 /\ Len(ends) = 0
  BY DEF Init
<1>2. EndOf(0) = 0
  BY DEF EndOf
<1>3. TypeOK
  <2>1. useET \in BOOLEAN /\ connected \in BOOLEAN /\ report \in BOOLEAN
    BY Zenon DEF Init
  <2>2. /\ script \in Seq(Lengths) /\ ends \in Seq(Nat) /\ stream \in Seq(Unit)
        /\ buffer \in Seq(Unit) /\ submitted \in Seq(Seq(Unit))
    BY <1>1
  <2>3. /\ Len(script) <= MaxFrames /\ Len(stream) <= EndOf(Len(script))
        /\ taken \in 0..Len(stream) /\ settled \in 0..taken /\ Len(ends) = Len(script)
    BY <1>1, <1>2, FramingAssumption
  <2>4. /\ ended \in {"open", "finished", "reset"}
        /\ reactor \in {"poll", "read", "check", "extract"}
    BY DEF Init
  <2> QED
    BY <2>1, <2>2, <2>3, <2>4 DEF TypeOK
<1>4. Layout
  BY <1>1, <1>2 DEF Layout
<1>5. Aligned
  BY <1>1, <1>2 DEF Aligned
<1>6. FramesExact /\ NoneLeftBehind
  BY <1>1 DEF FramesExact, NoneLeftBehind, FramesWithin, ValidPrefix
<1>7. Drained
  BY <1>1, FramingAssumption DEF Drained, HasFrame
<1> QED
  BY <1>3, <1>4, <1>5, <1>6, <1>7 DEF IndInv

\* Every reachable state satisfies the inductive invariant.
THEOREM Invariance == Spec => []IndInv
<1>1. Init => IndInv
  BY InitHolds
<1>2. IndInv /\ [Next]_vars => IndInv'
  BY IndStep
<1> QED
  BY <1>1, <1>2, PTL DEF Spec

\* Every variable keeps its type; in particular no more is taken from the socket
\* than has arrived there (handleRead lines 107-144).
THEOREM TypeCorrect == Spec => []TypeOK
<1>1. IndInv => TypeOK
  BY DEF IndInv
<1> QED
  BY <1>1, Invariance, PTL

\* However the stream is cut into reads, the bodies submitted are those of the
\* first frames of the stream, each whole, in order, and none from an invalid
\* header on (handleRead lines 113-143, tryExtractFrame lines 36-52).
THEOREM SubmittedAreExact == Spec => []FramesExact
<1>1. IndInv => FramesExact
  BY DEF IndInv
<1> QED
  BY <1>1, Invariance, PTL

\* Whenever handleRead() has run to its end it has submitted every valid frame
\* that had arrived whole (handleRead lines 119-122 and 137-143).
THEOREM NoFrameLeftBehind == Spec => []NoneLeftBehind
<1>1. IndInv => NoneLeftBehind
  BY DEF IndInv
<1> QED
  BY <1>1, Invariance, PTL

\* Between two reads the buffer of an open connection is shorter than the longest
\* frame, or begins with an invalid header (handleRead lines 132-143).
THEOREM BufferStaysBounded == Spec => []BufferBounded
<1>1. IndInv => BufferBounded
  <2> SUFFICES ASSUME IndInv, connected, reactor = "poll", ~HasInvalidFrameLength(buffer)
               PROVE  Len(buffer) < HeaderLen + MaxBodyLen
    BY DEF BufferBounded
  <2>1. /\ Len(buffer) \in Nat /\ HeaderLen \in Nat \ {0} /\ MaxBodyLen \in Nat \ {0}
        /\ ~HasFrame(buffer)
    BY FramingAssumption DEF IndInv, TypeOK, Drained
  <2>2. CASE Len(buffer) < HeaderLen
    BY <2>1, <2>2
  <2>3. CASE Len(buffer) >= HeaderLen
    <3>1. ValidLen(DeclaredLen(buffer))
      BY <2>3 DEF HasInvalidFrameLength
    <3>2. ~(Len(buffer) >= HeaderLen + DeclaredLen(buffer))
      BY <2>1, <2>3, <3>1 DEF HasFrame
    <3> QED
      BY <2>1, <3>1, <3>2 DEF ValidLen
  <2> QED
    BY <2>1, <2>2, <2>3
<1> QED
  BY <1>1, Invariance, PTL
=============================================================================
