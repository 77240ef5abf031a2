--------------------------- MODULE ProtocolProofs ---------------------------
(***************************************************************************)
(* Proofs, for any characters that a user may type and any limits of the   *)
(* lengths, that the server understands a request as it was meant, and     *)
(* that the client is shown what the server has understood.                *)
(*                                                                         *)
(* The loops of the code are recursive functions.  What such a function    *)
(* computes is proved by induction on the positions of the text: the least *)
(* position at which a set of good positions ends would contradict it.     *)
(***************************************************************************)
EXTENDS Protocol, SequenceTheorems, WellFoundedInduction, TLAPS

-----------------------------------------------------------------------------
(* Induction and recursion on numbers, for sets instead of predicates.     *)

\* A set of numbers that is not empty has a least element.
LEMMA Smallest ==
  ASSUME NEW S \in SUBSET Nat, S # {}
  PROVE  \E n \in S : \A m \in S : n <= m
<1> DEFINE R == OpToRel(<, Nat)
<1>1. IsWellFoundedOn(R, Nat)
  BY NatLessThanWellFounded
<1>2. \A x, y \in Nat : ~(<<y, x>> \in R) => x <= y
  BY DEF OpToRel
<1> HIDE DEF R
<1>3. \E x \in S : \A y \in S : ~(<<y, x>> \in R)
  BY <1>1, WFMin
<1> QED
  BY <1>2, <1>3

\* Induction from 0 to n, for a set S of numbers.
LEMMA Induct0 ==
  ASSUME NEW n \in Nat, NEW S, 0 \in S, \A k \in 0..(n - 1) : k \in S => k + 1 \in S
  PROVE  0..n \subseteq S
<1> DEFINE T == (0..n) \ S
<1> SUFFICES ASSUME T # {} PROVE FALSE
  OBVIOUS
<1>1. PICK k \in T : \A m \in T : k <= m
  <2>1. T \in SUBSET Nat
    OBVIOUS
  <2> HIDE DEF T
  <2> QED
    BY <2>1, Smallest
<1>2. k - 1 \in 0..(n - 1) /\ (k - 1) + 1 = k
  OBVIOUS
<1>3. k - 1 \in S
  BY <1>1, <1>2
<1> QED
  BY <1>2, <1>3

\* Induction from one number to another.
LEMMA Induct ==
  ASSUME NEW lo \in Int, NEW hi \in Int, NEW T,
         lo \in T, \A k \in lo..(hi - 1) : k \in T => k + 1 \in T
  PROVE  \A k \in lo..hi : k \in T
<1> SUFFICES ASSUME NEW k \in lo..hi PROVE k \in T
  OBVIOUS
<1> DEFINE n == hi - lo
           S == {i \in 0..n : lo + i \in T}
<1>1. n \in Nat /\ 0 \in S
  OBVIOUS
<1>2. ASSUME NEW i \in 0..(n - 1), i \in S
      PROVE  i + 1 \in S
  <2>1. lo + i \in lo..(hi - 1) /\ (lo + i) + 1 = lo + (i + 1) /\ i + 1 \in 0..n
    OBVIOUS
  <2> QED
    BY <1>2, <2>1
<1>3. k - lo \in S
  <2>1. k - lo \in 0..n
    OBVIOUS
  <2> HIDE DEF S, n
  <2> QED
    BY <1>1, <1>2, <2>1, Induct0
<1>4. lo + (k - lo) = k
  OBVIOUS
<1> QED
  BY <1>3, <1>4

\* A function that is defined step by step exists.
Follows(f, lo, hi, S, a, g) ==
  /\ f \in [lo..hi -> S]
  /\ f[lo] = a
  /\ \A i \in (lo + 1)..hi : f[i] = g[<<i, f[i - 1]>>]

\* It is the only one, so CHOOSE finds it.
LEMMA Recursion ==
  ASSUME NEW lo \in Int, NEW hi \in Int, lo <= hi, NEW S, NEW a \in S,
         NEW g \in [((lo + 1)..hi) \X S -> S]
  PROVE  \E f : Follows(f, lo, hi, S, a, g)
<1> DEFINE Good(k, f) == /\ f \in [lo..(lo + k) -> S]
                         /\ f[lo] = a
                         /\ \A i \in (lo + 1)..(lo + k) : f[i] = g[<<i, f[i - 1]>>]
           n == hi - lo
           T == {k \in 0..n : \E f : Good(k, f)}
<1>1. n \in Nat /\ lo + n = hi
  OBVIOUS
<1>2. 0 \in T
  <2> DEFINE f == [i \in lo..lo |-> a]
  <2>1. Good(0, f)
    OBVIOUS
  <2> QED
    BY <1>1, <2>1
<1>3. ASSUME NEW k \in 0..(n - 1), k \in T
      PROVE  k + 1 \in T
  <2>1. PICK f : Good(k, f)
    BY <1>3
  <2> DEFINE m == lo + (k + 1)
             h == [i \in lo..m |-> IF i = m THEN g[<<i, f[i - 1]>>] ELSE f[i]]
  <2>2. h[lo] = a /\ \A i \in lo..(lo + k) : h[i] = f[i]
    BY <2>1
  <2>3. f[lo + k] \in S /\ m \in (lo + 1)..hi /\ m - 1 = lo + k
    BY <1>1, <2>1
  <2>4. g[<<m, f[lo + k]>>] \in S
    BY <2>3
  <2>5. h \in [lo..m -> S]
    <3>1. ASSUME NEW i \in lo..m
          PROVE  h[i] \in S
      BY <2>1, <2>3, <2>4
    <3>2. h = [i \in lo..m |-> h[i]]
      OBVIOUS
    <3> HIDE DEF h
    <3> QED
      BY <3>1, <3>2
  <2>6. \A i \in (lo + 1)..m : h[i] = g[<<i, h[i - 1]>>]
    BY <2>1
  <2>7. Good(k + 1, h)
    BY <2>2, <2>5, <2>6
  <2>8. k + 1 \in 0..n
    BY <1>1
  <2> HIDE DEF Good, h, m, n
  <2> QED
    BY <2>7, <2>8
<1>4. n \in T
  <2> HIDE DEF T, n
  <2>1. 0..n \subseteq T
    BY <1>1, <1>2, <1>3, Induct0
  <2> QED
    BY <1>1, <2>1
<1> QED
  BY <1>1, <1>4 DEF Follows

-----------------------------------------------------------------------------
(* Texts.                                                                  *)

\* All characters of a message.
Signs ==
  Chars \cup {Q, BS, LF, Wide, "n", "u", "4 digits", "{", "}", ",", ":", " ", "1", "'", "nothing"}
        \cup {"type", "request_id", "timestamp", "data", "username", "password", "text",
              "login_req", "chat_req"}

Text == Seq(Signs)

\* F[k] is what the first k parts of a text make, and the next one lies after it.
Upto(F, k) == Len(F[k])

Layout(F, parts, whole) ==
  /\ F[0] = <<>> /\ F[Len(parts)] = whole
  /\ \A k \in 0..Len(parts) : F[k] \in Text /\ Upto(F, k) \in 0..Len(whole)
  /\ \A k \in 1..Len(parts) :
       /\ F[k] = F[k - 1] \o parts[k]
       /\ Upto(F, k) = Upto(F, k - 1) + Len(parts[k])
       /\ \A j \in 1..Len(parts[k]) : whole[Upto(F, k - 1) + j] = parts[k][j]

\* Where the characters of two texts stand when they are joined.
LEMMA Joined ==
  ASSUME NEW s \in Text, NEW t \in Text, NEW x, x = s \o t
  PROVE  /\ x \in Text /\ Len(s) \in Nat /\ Len(t) \in Nat
         /\ Len(x) = Len(s) + Len(t)
         /\ \A j \in 1..Len(s) : x[j] = s[j]
         /\ \A j \in 1..Len(t) : x[Len(s) + j] = t[j]
BY ConcatProperties DEF Text

\* FlattenSeq() is such a function.
LEMMA FlattenIsRecursion ==
  ASSUME NEW parts \in Seq(Text), Len(parts) # 0
  PROVE  \E f \in [1..Len(parts) -> Text] :
           /\ f[1] = parts[1] /\ f[Len(parts)] = FlattenSeq(parts)
           /\ \A k \in 2..Len(parts) : f[k] = f[k - 1] \o parts[k]
<1> DEFINE n == Len(parts)
           g == [z \in (2..n) \X Text |-> z[2] \o parts[z[1]]]
           Step(f) == [i \in 1..n |-> IF i = 1 THEN parts[i] ELSE f[i - 1] \o parts[i]]
           flatten == CHOOSE f : f = Step(f)
<1>1. n \in Nat \ {0} /\ parts[1] \in Text /\ \A i \in 1..n : parts[i] \in Text
  OBVIOUS
<1>2. \A t \in Text, i \in 2..n : t \o parts[i] \in Text
  BY DEF Text
<1>3. g \in [((1 + 1)..n) \X Text -> Text]
  <2>1. \A z \in (2..n) \X Text : z[2] \o parts[z[1]] \in Text
    BY <1>2
  <2> QED
    BY <2>1
<1>4. \E f : Follows(f, 1, n, Text, parts[1], g)
  <2>1. 1 \in Int /\ n \in Int /\ 1 <= n /\ parts[1] \in Text
    BY <1>1
  <2> HIDE DEF g, n
  <2> QED
    BY <1>3, <2>1, Recursion, Zenon
<1>f. PICK f : Follows(f, 1, n, Text, parts[1], g)
  BY <1>4
<1>5. f \in [1..n -> Text] /\ f[1] = parts[1] /\ \A i \in 2..n : f[i] = g[<<i, f[i - 1]>>]
  <2>1. f \in [1..n -> Text] /\ f[1] = parts[1] /\ \A i \in (1 + 1)..n : f[i] = g[<<i, f[i - 1]>>]
    BY <1>f DEF Follows
  <2>2. (1 + 1)..n = 2..n
    BY <1>1
  <2> HIDE DEF g, n
  <2> QED
    BY <2>1, <2>2
<1>6. \A i \in 2..n : f[i] = f[i - 1] \o parts[i]
  <2> TAKE i \in 2..n
  <2>1. f[i - 1] \in Text
    BY <1>1, <1>5
  <2>2. g[<<i, f[i - 1]>>] = f[i - 1] \o parts[i]
    BY <2>1
  <2> QED
    BY <1>5, <2>2
<1>7. f = Step(f)
  <2>1. \A i \in 1..n : f[i] = IF i = 1 THEN parts[i] ELSE f[i - 1] \o parts[i]
    <3>1. \A i \in 1..n : i = 1 \/ i \in 2..n
      BY <1>1
    <3> HIDE DEF g, n
    <3> QED
      BY <1>5, <1>6, <3>1
  <2> HIDE DEF g
  <2> QED
    BY <1>5, <2>1
<1>8. flatten = Step(flatten)
  BY <1>7
<1>9. FlattenSeq(parts) = flatten[n]
  BY DEF FlattenSeq
<1>10. flatten = f
  <2> DEFINE T == {k \in 0..(n - 1) : flatten[k + 1] = f[k + 1]}
  <2> HIDE DEF flatten, g
  <2>1. \A i \in 1..n : flatten[i] = IF i = 1 THEN parts[i] ELSE flatten[i - 1] \o parts[i]
    BY <1>8
  <2>2. 0 \in T
    BY <1>1, <1>5, <2>1
  <2>3. ASSUME NEW k \in 0..((n - 1) - 1), k \in T
        PROVE  k + 1 \in T
    <3>1. k + 2 \in 2..n /\ k + 2 \in 1..n /\ k + 2 # 1 /\ (k + 2) - 1 = k + 1 /\ k + 1 \in 0..(n - 1) /\ (k + 1) + 1 = k + 2
      BY <1>1
    <3>2. flatten[k + 2] = flatten[k + 1] \o parts[k + 2]
      BY <2>1, <3>1
    <3>3. f[k + 2] = f[k + 1] \o parts[k + 2]
      BY <1>6, <3>1
    <3>4. flatten[k + 2] = f[k + 2]
      BY <2>3, <3>2, <3>3
    <3> QED
      BY <3>1, <3>4
  <2>4. \A k \in 0..(n - 1) : k \in T
    <3>1. n - 1 \in Nat
      BY <1>1
    <3> HIDE DEF T, n
    <3> QED
      BY <3>1, <2>2, <2>3, Induct0
  <2>5. \A i \in 1..n : flatten[i] = f[i]
    <3> TAKE i \in 1..n
    <3>1. i - 1 \in 0..(n - 1) /\ (i - 1) + 1 = i
      BY <1>1
    <3>2. i - 1 \in T
      <4> HIDE DEF T, n
      <4> QED
        BY <3>1, <2>4
    <3> QED
      BY <3>1, <3>2
  <2>6. flatten = [i \in 1..n |-> flatten[i]]
    BY <1>8
  <2> QED
    BY <1>5, <2>5, <2>6
<1> QED
  BY <1>1, <1>5, <1>6, <1>9, <1>10, Zenon

\* What FlattenSeq() returns is laid out as its argument says.
LEMMA FlattenLayout ==
  ASSUME NEW parts \in Seq(Text)
  PROVE  \E F : Layout(F, parts, FlattenSeq(parts))
<1> DEFINE n == Len(parts)
           whole == FlattenSeq(parts)
<1>1. n \in Nat /\ \A k \in 1..n : parts[k] \in Text
  OBVIOUS
<1>2. PICK F : /\ F \in [0..n -> Text] /\ F[0] = <<>> /\ F[n] = whole
               /\ \A k \in 1..n : F[k] = F[k - 1] \o parts[k]
  <2>1. CASE n = 0
    <3> DEFINE F == [k \in 0..0 |-> <<>>]
    <3>1. parts = <<>> /\ whole = <<>>
      BY <2>1 DEF FlattenSeq
    <3>2. <<>> \in Text
      BY DEF Text
    <3>3. /\ F \in [0..n -> Text] /\ F[0] = <<>> /\ F[n] = whole
          /\ \A k \in 1..n : F[k] = F[k - 1] \o parts[k]
      BY <2>1, <3>1, <3>2
    <3> QED
      BY <3>3
  <2>2. CASE n # 0
    <3>1. PICK f \in [1..n -> Text] :
            /\ f[1] = parts[1] /\ f[n] = whole
            /\ \A k \in 2..n : f[k] = f[k - 1] \o parts[k]
      BY <2>2, FlattenIsRecursion
    <3> DEFINE F == [k \in 0..n |-> IF k = 0 THEN <<>> ELSE f[k]]
    <3> HIDE DEF whole
    <3>2. F \in [0..n -> Text] /\ F[0] = <<>> /\ F[n] = whole
      <4>1. <<>> \in Text
        BY DEF Text
      <4>2. \A k \in 0..n : F[k] \in Text
        BY <3>1, <4>1
      <4> QED
        BY <1>1, <2>2, <3>1, <4>2
    <3>3. ASSUME NEW k \in 1..n
          PROVE  F[k] = F[k - 1] \o parts[k]
      <4>1. CASE k = 1
        <5>1. <<>> \o parts[1] = parts[1]
          BY <1>1, <4>1 DEF Text
        <5> QED
          BY <3>1, <4>1, <5>1
      <4>2. CASE k # 1
        <5>1. k \in 2..n /\ k - 1 \in 0..n /\ k - 1 # 0 /\ k # 0 /\ k \in 0..n
          BY <1>1, <4>2
        <5>2. F[k] = f[k] /\ F[k - 1] = f[k - 1]
          BY <5>1
        <5> HIDE DEF F
        <5> QED
          BY <3>1, <5>1, <5>2
      <4> QED
        BY <4>1, <4>2
    <3> QED
      BY <3>2, <3>3
  <2> QED
    BY <2>1, <2>2
<1> HIDE DEF whole
<1> DEFINE size(k) == Len(parts[k])
<1>0. \A k \in 1..n : size(k) \in Nat
  BY <1>1 DEF Text
<1>3. ASSUME NEW k \in 1..n
      PROVE  /\ Upto(F, k) = Upto(F, k - 1) + size(k)
             /\ \A j \in 1..size(k) : F[k][Upto(F, k - 1) + j] = parts[k][j]
             /\ \A j \in 1..Upto(F, k - 1) : F[k][j] = F[k - 1][j]
  <2>1. F[k - 1] \in Text /\ parts[k] \in Text /\ F[k] = F[k - 1] \o parts[k]
    BY <1>1, <1>2
  <2> DEFINE a == F[k - 1]
             b == parts[k]
             c == F[k]
  <2>2. a \in Text /\ b \in Text /\ c = a \o b
    BY <2>1
  <2> HIDE DEF a, b, c
  <2>3. /\ Len(c) = Len(a) + Len(b)
        /\ \A j \in 1..Len(b) : c[Len(a) + j] = b[j]
        /\ \A j \in 1..Len(a) : c[j] = a[j]
    BY <2>2, Joined
  <2> QED
    BY <2>3, Zenon DEF Upto, a, b, c
<1>4. \A m \in 0..n : Upto(F, m) \in Nat
  BY <1>2 DEF Text, Upto
<1> HIDE DEF size
<1>5. ASSUME NEW k \in 0..n
      PROVE  Upto(F, k) <= Upto(F, n) /\ \A j \in 1..Upto(F, k) : F[n][j] = F[k][j]
  <2> DEFINE T == {m \in k..n : Upto(F, k) <= Upto(F, m) /\ \A j \in 1..Upto(F, k) : F[m][j] = F[k][j]}
  <2>1. k \in T /\ k \in Int /\ n \in Int /\ n \in k..n
    BY <1>1, <1>4
  <2>2. ASSUME NEW m \in k..(n - 1), m \in T
        PROVE  m + 1 \in T
    <3>1. m + 1 \in 1..n /\ (m + 1) - 1 = m /\ m + 1 \in k..n /\ m \in 0..n /\ m + 1 \in 0..n
      BY <1>1
    <3>2. Upto(F, m) \in Nat /\ size(m + 1) \in Nat /\ Upto(F, k) \in Nat
      BY <1>0, <1>4, <3>1
    <3>3. /\ Upto(F, m + 1) = Upto(F, m) + size(m + 1)
          /\ \A j \in 1..Upto(F, m) : F[m + 1][j] = F[m][j]
      BY <1>3, <3>1
    <3>4. Upto(F, k) <= Upto(F, m) /\ \A j \in 1..Upto(F, k) : F[m][j] = F[k][j]
      BY <2>2
    <3>5. Upto(F, k) <= Upto(F, m + 1)
      BY <3>2, <3>3, <3>4
    <3>6. \A j \in 1..Upto(F, k) : F[m + 1][j] = F[k][j]
      <4> TAKE j \in 1..Upto(F, k)
      <4>1. j \in 1..Upto(F, m)
        BY <3>2, <3>4
      <4> QED
        BY <3>3, <3>4, <4>1
    <3> QED
      BY <3>1, <3>5, <3>6
  <2>3. n \in T
    <3> HIDE DEF T, n
    <3> QED
      BY <2>1, <2>2, Induct
  <2> QED
    BY <2>3
<1>6. Upto(F, n) = Len(whole)
  BY <1>2 DEF Upto
<1>7. ASSUME NEW k \in 1..n
      PROVE  \A j \in 1..size(k) : whole[Upto(F, k - 1) + j] = parts[k][j]
  <2> TAKE j \in 1..size(k)
  <2>1. k \in 0..n /\ k - 1 \in 0..n
    BY <1>1
  <2>2. Upto(F, k - 1) \in Nat /\ size(k) \in Nat /\ Upto(F, k) = Upto(F, k - 1) + size(k)
    BY <1>0, <1>3, <1>4, <2>1
  <2>3. Upto(F, k - 1) + j \in 1..Upto(F, k)
    BY <2>2
  <2>4. F[n][Upto(F, k - 1) + j] = F[k][Upto(F, k - 1) + j]
    BY <1>5, <2>1, <2>3
  <2> QED
    BY <1>2, <1>3, <2>4
<1>8. \A k \in 0..n : F[k] \in Text /\ Upto(F, k) \in 0..Len(whole)
  <2> TAKE k \in 0..n
  <2>1. Upto(F, k) \in Nat /\ Upto(F, n) \in Nat /\ Upto(F, k) <= Upto(F, n)
    BY <1>1, <1>4, <1>5
  <2> QED
    BY <1>2, <1>6, <2>1
<1>9. Layout(F, parts, whole)
  BY <1>2, <1>3, <1>7, <1>8, Zenon DEF Layout, size
<1> QED
  BY <1>9 DEF whole

-----------------------------------------------------------------------------
(* A loop over a text, and unescapeJson() as one.                          *)

\* What unescapeJson() and a reader of a literal carry along.
Loop == [out : Text, next : Nat]

\* The provers are told once that the characters differ.
LEMMA Characters ==
  /\ Q \in Signs /\ BS \in Signs /\ LF \in Signs /\ Wide \in Signs
  /\ "n" \in Signs /\ "u" \in Signs /\ "4 digits" \in Signs /\ "'" \in Signs /\ "nothing" \in Signs
  /\ Q # BS /\ Q # LF /\ Q # Wide /\ BS # LF /\ BS # Wide /\ LF # Wide
  /\ BS \notin {"n", "u", "4 digits", "'"} /\ Q \notin {"n", "u", "4 digits", "'"}
  /\ Chars \subseteq Signs
BY DEF Q, BS, LF, Wide, Signs

LEMMA EscapesKnown ==
  /\ DOMAIN Escapes = {Q, BS, "n"}
  /\ Escapes[Q] = Q /\ Escapes[BS] = BS /\ Escapes["n"] = LF
  /\ \A c \in DOMAIN Escapes : Escapes[c] \in Signs
BY Characters DEF Escapes

LEMMA StartIsLoop == Start \in Loop /\ Start.out = <<>> /\ Start.next = 1
BY DEF Start, Loop, Text

LEMMA TextIndex ==
  ASSUME NEW s \in Text
  PROVE  Len(s) \in Nat /\ \A i \in 1..Len(s) : s[i] \in Signs
BY DEF Text

LEMMA AppendText ==
  ASSUME NEW s \in Text, NEW c \in Signs
  PROVE  Append(s, c) \in Text
BY DEF Text

LEMMA UnescapeStaysLoop ==
  ASSUME NEW s \in Text, NEW i \in 1..Len(s), NEW b \in Loop
  PROVE  UnescapeAt(s, i, b) \in Loop
<1>1. Len(s) \in Nat /\ s[i] \in Signs /\ b.out \in Text /\ b.next \in Nat
  BY TextIndex DEF Loop
<1>2. CASE i < b.next
  BY <1>1, <1>2 DEF UnescapeAt
<1>3. CASE i >= b.next /\ s[i] = BS /\ i < Len(s) /\ s[i + 1] \in DOMAIN Escapes
  <2>1. Append(b.out, Escapes[s[i + 1]]) \in Text /\ i + 2 \in Nat
    BY <1>1, <1>3, EscapesKnown, AppendText
  <2>2. UnescapeAt(s, i, b) = [out |-> Append(b.out, Escapes[s[i + 1]]), next |-> i + 2]
    BY <1>1, <1>3 DEF UnescapeAt
  <2> QED
    BY <2>1, <2>2 DEF Loop
<1>4. CASE ~(i < b.next) /\ ~(i >= b.next /\ s[i] = BS /\ i < Len(s) /\ s[i + 1] \in DOMAIN Escapes)
  <2>1. Append(b.out, s[i]) \in Text /\ i + 1 \in Nat
    BY <1>1, AppendText
  <2>2. UnescapeAt(s, i, b) = [out |-> Append(b.out, s[i]), next |-> i + 1]
    BY <1>1, <1>4 DEF UnescapeAt
  <2> QED
    BY <2>1, <2>2 DEF Loop
<1> QED
  BY <1>1, <1>2, <1>3, <1>4

\* One step, at a backslash, at any other character, and inside an escape.
LEMMA UnescapeSteps ==
  ASSUME NEW s \in Text, NEW i \in 1..Len(s), NEW g \in Text
  PROVE  /\ s[i] = BS /\ i < Len(s) /\ s[i + 1] \in DOMAIN Escapes =>
              UnescapeAt(s, i, [out |-> g, next |-> i]) =
                [out |-> Append(g, Escapes[s[i + 1]]), next |-> i + 2]
         /\ s[i] # BS \/ s[i + 1] \notin DOMAIN Escapes =>
              UnescapeAt(s, i, [out |-> g, next |-> i]) = [out |-> Append(g, s[i]), next |-> i + 1]
         /\ UnescapeAt(s, i, [out |-> g, next |-> i + 1]) = [out |-> g, next |-> i + 1]
<1>1. Len(s) \in Nat /\ ~(i < i) /\ i >= i /\ i < i + 1
  BY TextIndex
<1> DEFINE b == [out |-> g, next |-> i]
           d == [out |-> g, next |-> i + 1]
<1>2. b.out = g /\ b.next = i /\ d.out = g /\ d.next = i + 1
  OBVIOUS
<1> HIDE DEF b
<1>3. ASSUME s[i] = BS, i < Len(s), s[i + 1] \in DOMAIN Escapes
      PROVE  UnescapeAt(s, i, b) = [out |-> Append(g, Escapes[s[i + 1]]), next |-> i + 2]
  BY <1>1, <1>2, <1>3 DEF UnescapeAt
<1>4. ASSUME s[i] # BS \/ s[i + 1] \notin DOMAIN Escapes
      PROVE  UnescapeAt(s, i, b) = [out |-> Append(g, s[i]), next |-> i + 1]
  BY <1>1, <1>2, <1>4 DEF UnescapeAt
<1>5. UnescapeAt(s, i, d) = d
  <2> HIDE DEF d
  <2> QED
    BY <1>1, <1>2 DEF UnescapeAt
<1> QED
  BY <1>3, <1>4, <1>5 DEF b

LEMMA UnescapePlain ==
  ASSUME NEW s \in Text, NEW i \in 1..Len(s), NEW g \in Text, NEW a, a = i,
         NEW c, s[i] = c, c # BS
  PROVE  UnescapeAt(s, i, [out |-> g, next |-> a]) = [out |-> Append(g, c), next |-> i + 1]
BY UnescapeSteps

\* Unescape() is computed by a function of the positions.
LEMMA UnescapeLoop ==
  ASSUME NEW s \in Text
  PROVE  \E at : /\ at[0] = Start /\ Unescape(s) = at[Len(s)].out
                 /\ \A i \in 0..Len(s) : at[i] \in Loop
                 /\ \A i \in 1..Len(s) : at[i] = UnescapeAt(s, i, at[i - 1])
<1> DEFINE n == Len(s)
           g == [z \in ((0 + 1)..n) \X Loop |-> UnescapeAt(s, z[1], z[2])]
           Step(f) == [i \in 0..n |-> IF i = 0 THEN Start ELSE UnescapeAt(s, i, f[i - 1])]
           at == CHOOSE f : f = Step(f)
<1>1. n \in Nat /\ n \in Int /\ 0 \in Int /\ 0 <= n /\ (0 + 1)..n = 1..n
  BY TextIndex
<1>2. g \in [((0 + 1)..n) \X Loop -> Loop]
  <2>1. \A z \in ((0 + 1)..n) \X Loop : UnescapeAt(s, z[1], z[2]) \in Loop
    BY <1>1, UnescapeStaysLoop
  <2> QED
    BY <2>1
<1>3. \E f : Follows(f, 0, n, Loop, Start, g)
  <2> HIDE DEF g, n
  <2> QED
    BY <1>1, <1>2, StartIsLoop, Recursion, Zenon
<1>4. PICK f : Follows(f, 0, n, Loop, Start, g)
  BY <1>3
<1>5. f \in [0..n -> Loop] /\ f[0] = Start /\ \A i \in (0 + 1)..n : f[i] = g[<<i, f[i - 1]>>]
  BY <1>4 DEF Follows
<1>6. f = Step(f)
  <2>1. ASSUME NEW i \in 1..n
        PROVE  f[i] = UnescapeAt(s, i, f[i - 1])
    <3>1. i \in (0 + 1)..n /\ f[i - 1] \in Loop
      BY <1>1, <1>5
    <3>2. g[<<i, f[i - 1]>>] = UnescapeAt(s, i, f[i - 1])
      BY <3>1
    <3> HIDE DEF g, n
    <3> QED
      BY <1>5, <3>1, <3>2
  <2>2. \A i \in 0..n : i = 0 \/ i \in 1..n
    BY <1>1
  <2> HIDE DEF g, n
  <2> QED
    BY <1>5, <2>1, <2>2
<1>7. at = Step(at)
  BY <1>6
<1>8. Unescape(s) = at[n].out
  BY DEF Unescape
<1> HIDE DEF at, g
<1>9. at[0] = Start /\ \A i \in 1..n : at[i] = UnescapeAt(s, i, at[i - 1])
  <2>1. \A i \in 0..n : at[i] = IF i = 0 THEN Start ELSE UnescapeAt(s, i, at[i - 1])
    BY <1>7
  <2>2. 0 \in 0..n /\ \A i \in 1..n : i \in 0..n /\ i # 0
    BY <1>1
  <2> HIDE DEF n
  <2> QED
    BY <2>1, <2>2, Zenon
<1>10. \A i \in 0..n : at[i] \in Loop
  <2> DEFINE T == {i \in 0..n : at[i] \in Loop}
  <2>1. 0 \in T
    BY <1>1, <1>9, StartIsLoop
  <2>2. ASSUME NEW k \in 0..(n - 1), k \in T
        PROVE  k + 1 \in T
    <3>1. k + 1 \in 1..n /\ (k + 1) - 1 = k /\ k + 1 \in 0..n
      BY <1>1
    <3>2. at[k + 1] = UnescapeAt(s, k + 1, at[k]) /\ at[k] \in Loop
      BY <1>9, <2>2, <3>1
    <3> QED
      BY <3>1, <3>2, UnescapeStaysLoop
  <2>3. \A k \in 0..n : k \in T
    <3> HIDE DEF T, n
    <3> QED
      BY <1>1, <2>1, <2>2, Induct
  <2> QED
    BY <2>3
<1> QED
  BY <1>8, <1>9, <1>10

-----------------------------------------------------------------------------
(* json.dumps() and unescapeJson().                                        *)

\* The inside of the literal that json.dumps() writes.
DumpedParts(s) == [i \in 1..Len(s) |-> DumpChar(s[i])]
Dumped(s) == FlattenSeq(DumpedParts(s))

LEMMA Tuples ==
  /\ \A a \in Signs : <<a>> \in Text /\ Len(<<a>>) = 1 /\ <<a>>[1] = a
  /\ \A a, b \in Signs : <<a, b>> \in Text /\ Len(<<a, b>>) = 2 /\ <<a, b>>[1] = a /\ <<a, b>>[2] = b
  /\ \A a, b, c \in Signs : /\ <<a, b, c>> \in Text /\ Len(<<a, b, c>>) = 3
                            /\ <<a, b, c>>[1] = a /\ <<a, b, c>>[2] = b /\ <<a, b, c>>[3] = c
<1>1. \A a \in Signs : <<a>> \in Text /\ Len(<<a>>) = 1 /\ <<a>>[1] = a
  BY DEF Text
<1>2. \A a, b \in Signs : <<a, b>> \in Text /\ Len(<<a, b>>) = 2 /\ <<a, b>>[1] = a /\ <<a, b>>[2] = b
  BY DEF Text
<1>3. \A a, b, c \in Signs : /\ <<a, b, c>> \in Text /\ Len(<<a, b, c>>) = 3
                             /\ <<a, b, c>>[1] = a /\ <<a, b, c>>[2] = b /\ <<a, b, c>>[3] = c
  BY DEF Text
<1> QED
  BY <1>1, <1>2, <1>3

LEMMA JoinTuple ==
  ASSUME NEW g \in Text, NEW a \in Signs
  PROVE  /\ g \o <<a>> = Append(g, a)
         /\ \A b, c \in Signs : g \o <<a, b, c>> = Append(Append(Append(g, a), b), c)
BY DEF Text

LEMMA DumpCharCases ==
  ASSUME NEW c \in Signs
  PROVE  /\ DumpChar(c) \in Text
         /\ \/ c \in {Q, BS} /\ DumpChar(c) = <<BS, c>>
            \/ c = LF /\ DumpChar(c) = <<BS, "n">>
            \/ c = Wide /\ DumpChar(c) = <<BS, "u", "4 digits">>
            \/ c \notin {Q, BS, LF, Wide} /\ DumpChar(c) = <<c>>
<1>1. Q # LF /\ Q # Wide /\ BS # LF /\ BS # Wide /\ LF # Wide
  BY Characters
<1>2. BS \in Signs /\ "n" \in Signs /\ "u" \in Signs /\ "4 digits" \in Signs
  BY Characters
<1>3. CASE c \in {Q, BS}
  <2>1. c # LF /\ c # Wide
    BY <1>1, <1>3
  <2>2. DumpChar(c) = <<BS, c>>
    BY <1>3, <2>1, Zenon DEF DumpChar
  <2>3. <<BS, c>> \in Text
    BY <1>2, Tuples, Zenon
  <2> QED
    BY <1>3, <2>2, <2>3, Zenon
<1>4. CASE c = LF
  <2>1. c \notin {Q, BS} /\ c # Wide
    BY <1>1, <1>4
  <2>2. DumpChar(c) = <<BS, "n">>
    BY <1>4, <2>1, Zenon DEF DumpChar
  <2>3. <<BS, "n">> \in Text
    BY <1>2, Tuples, Zenon
  <2> QED
    BY <1>4, <2>2, <2>3, Zenon
<1>5. CASE c = Wide
  <2>1. c \notin {Q, BS} /\ c # LF
    BY <1>1, <1>5
  <2>2. DumpChar(c) = <<BS, "u", "4 digits">>
    BY <1>5, <2>1, Zenon DEF DumpChar
  <2>3. <<BS, "u", "4 digits">> \in Text
    BY <1>2, Tuples, Zenon
  <2> QED
    BY <1>5, <2>2, <2>3, Zenon
<1>6. CASE c \notin {Q, BS, LF, Wide}
  <2>1. DumpChar(c) = <<c>>
    BY <1>6, Zenon DEF DumpChar
  <2> QED
    BY <1>6, <2>1, Tuples
<1> QED
  BY <1>3, <1>4, <1>5, <1>6

\* The literal is laid out character by character.
LEMMA DumpedLayout ==
  ASSUME NEW s \in Text
  PROVE  /\ Dumped(s) \in Text
         /\ \E F : Layout(F, DumpedParts(s), Dumped(s))
         /\ Len(DumpedParts(s)) = Len(s)
         /\ \A i \in 1..Len(s) : DumpedParts(s)[i] = DumpChar(s[i])
<1> DEFINE parts == DumpedParts(s)
<1>1. Len(s) \in Nat /\ \A i \in 1..Len(s) : s[i] \in Signs
  BY TextIndex
<1>2. \A i \in 1..Len(s) : DumpChar(s[i]) \in Text
  BY <1>1, DumpCharCases
<1>3. parts \in Seq(Text) /\ Len(parts) = Len(s) /\ \A i \in 1..Len(s) : parts[i] = DumpChar(s[i])
  BY <1>1, <1>2 DEF DumpedParts
<1> HIDE DEF parts
<1>4. PICK F : Layout(F, parts, FlattenSeq(parts))
  BY <1>3, FlattenLayout
<1>5. FlattenSeq(parts) \in Text
  BY <1>1, <1>3, <1>4 DEF Layout
<1> QED
  BY <1>3, <1>4, <1>5 DEF parts, Dumped

\* What the server takes a typed character for.
SpeltChar(c) == IF c = Wide THEN DumpChar(Wide) ELSE <<c>>
SpeltParts(s) == [i \in 1..Len(s) |-> IF s[i] = Wide THEN DumpChar(Wide) ELSE <<s[i]>>]

\* And so is what the server takes it for.
LEMMA SpeltLayout ==
  ASSUME NEW s \in Text
  PROVE  /\ Spelt(s) \in Text
         /\ \E G : Layout(G, SpeltParts(s), Spelt(s))
         /\ Len(SpeltParts(s)) = Len(s)
         /\ \A i \in 1..Len(s) : SpeltParts(s)[i] = SpeltChar(s[i])
<1> DEFINE parts == SpeltParts(s)
<1>1. Len(s) \in Nat /\ \A i \in 1..Len(s) : s[i] \in Signs
  BY TextIndex
<1>2. \A c \in Signs : SpeltChar(c) \in Text
  BY DumpCharCases, Characters, Tuples DEF SpeltChar
<1>3. parts \in Seq(Text) /\ Len(parts) = Len(s) /\ \A i \in 1..Len(s) : parts[i] = SpeltChar(s[i])
  BY <1>1, <1>2 DEF SpeltParts, SpeltChar
<1> HIDE DEF parts
<1>4. PICK G : Layout(G, parts, FlattenSeq(parts))
  BY <1>3, FlattenLayout
<1>5. FlattenSeq(parts) \in Text
  BY <1>1, <1>3, <1>4 DEF Layout
<1>6. Spelt(s) = FlattenSeq(parts)
  BY DEF parts, Spelt, SpeltParts
<1> QED
  BY <1>3, <1>4, <1>5, <1>6 DEF parts

\* unescapeJson() undoes json.dumps(), but for characters outside ASCII.
LEMMA UnescapeDumped ==
  ASSUME NEW s \in Text
  PROVE  Unescape(Dumped(s)) = Spelt(s)
<1> DEFINE n == Len(s)
           x == Dumped(s)
           p == DumpedParts(s)
           q == SpeltParts(s)
<1>1. PICK F : Layout(F, p, x)
  BY DumpedLayout
<1>2. PICK G : Layout(G, q, Spelt(s))
  BY SpeltLayout
<1>3. /\ x \in Text /\ Len(p) = n /\ Len(q) = n /\ n \in Nat
      /\ \A i \in 1..n : p[i] = DumpChar(s[i]) /\ q[i] = SpeltChar(s[i]) /\ s[i] \in Signs
  BY DumpedLayout, SpeltLayout, TextIndex
<1> HIDE DEF x, p, q
<1>4. PICK at : /\ at[0] = Start /\ Unescape(x) = at[Len(x)].out
                /\ \A i \in 0..Len(x) : at[i] \in Loop
                /\ \A i \in 1..Len(x) : at[i] = UnescapeAt(x, i, at[i - 1])
  BY <1>3, UnescapeLoop
<1> DEFINE Done(k) == [out |-> G[k], next |-> Upto(F, k) + 1]
           T == {k \in 0..n : at[Upto(F, k)] = Done(k)}
<1>5. /\ F[0] = <<>> /\ F[n] = x /\ G[0] = <<>> /\ G[n] = Spelt(s)
      /\ \A k \in 0..n : Upto(F, k) \in 0..Len(x) /\ G[k] \in Text
      /\ Len(x) \in Nat
  BY <1>1, <1>2, <1>3, TextIndex DEF Layout
<1>6. Upto(F, 0) = 0 /\ Upto(F, n) = Len(x)
  BY <1>5 DEF Upto
<1>7. 0 \in T
  BY <1>3, <1>4, <1>5, <1>6 DEF Start
<1>8. ASSUME NEW k \in 0..(n - 1), k \in T
      PROVE  k + 1 \in T
  <2> DEFINE c == s[k + 1]
             e == Upto(F, k)
             d == Upto(F, k + 1)
             g == G[k]
             L == Len(x)
  <2>1. k + 1 \in 1..n /\ k + 1 \in 0..n /\ k \in 0..n /\ (k + 1) - 1 = k
    BY <1>3
  <2>2. /\ c \in Signs /\ p[k + 1] = DumpChar(c) /\ q[k + 1] = SpeltChar(c)
        /\ e \in 0..L /\ d \in 0..L /\ L \in Nat /\ g \in Text
    BY <1>3, <1>5, <2>1
  <2>3. /\ d = e + Len(DumpChar(c))
        /\ \A j \in 1..Len(DumpChar(c)) : x[e + j] = DumpChar(c)[j]
    <3>1. /\ Upto(F, k + 1) = Upto(F, (k + 1) - 1) + Len(p[k + 1])
          /\ \A j \in 1..Len(p[k + 1]) : x[Upto(F, (k + 1) - 1) + j] = p[k + 1][j]
      BY <1>1, <1>3, <2>1, Zenon DEF Layout
    <3> QED
      BY <2>1, <2>2, <3>1, Zenon
  <2>4. G[k + 1] = g \o SpeltChar(c)
    <3>1. G[k + 1] = G[(k + 1) - 1] \o q[k + 1]
      BY <1>2, <1>3, <2>1, Zenon DEF Layout
    <3> QED
      BY <2>1, <2>2, <3>1, Zenon
  <2>5. at[e] = [out |-> g, next |-> e + 1]
    BY <1>8
  <2>6. \A i \in 1..L : at[i] = UnescapeAt(x, i, at[i - 1])
    BY <1>4
  <2> HIDE DEF c, e, d, g, L
  <2>7. \A y \in Signs : g \o <<y>> = Append(g, y)
    BY <2>2, JoinTuple
  <2>8. at[d] = [out |-> G[k + 1], next |-> d + 1]
    <3>1. CASE c \in {Q, BS, LF}
      <4> DEFINE y == IF c = LF THEN "n" ELSE c
      <4>1. y \in {Q, BS, "n"} /\ Escapes[y] = c /\ DumpChar(c) = <<BS, y>>
        BY <2>2, <3>1, Characters, DumpCharCases, EscapesKnown
      <4> HIDE DEF y
      <4>2. d = e + 2 /\ x[e + 1] = BS /\ x[e + 2] = y
        BY <2>2, <2>3, <4>1
      <4>3. /\ e + 1 \in 1..L /\ e + 1 < L /\ e + 2 \in 1..L
            /\ (e + 1) - 1 = e /\ (e + 1) + 1 = e + 2 /\ (e + 2) - 1 = e + 1
        BY <2>2, <4>2
      <4>4. at[e + 1] = [out |-> Append(g, c), next |-> (e + 2) + 1]
        <5>1. at[e + 1] = UnescapeAt(x, e + 1, [out |-> g, next |-> e + 1])
          BY <2>5, <2>6, <4>3
        <5>2. (e + 1) + 2 = (e + 2) + 1
          BY <2>2
        <5> DEFINE h == e + 1
        <5>3. x \in Text /\ h \in 1..Len(x) /\ h < Len(x) /\ x[h] = BS /\ x[h + 1] = y
          BY <1>3, <4>2, <4>3 DEF L
        <5>4. y \in DOMAIN Escapes /\ Escapes[y] = c
          BY <4>1, EscapesKnown
        <5> HIDE DEF h
        <5>5. UnescapeAt(x, h, [out |-> g, next |-> h]) = [out |-> Append(g, c), next |-> h + 2]
          BY <2>2, <5>3, <5>4, UnescapeSteps
        <5> QED
          BY <5>1, <5>2, <5>5 DEF h
      <4>5. at[e + 2] = [out |-> Append(g, c), next |-> (e + 2) + 1]
        <5>1. at[e + 2] = UnescapeAt(x, e + 2, [out |-> Append(g, c), next |-> (e + 2) + 1])
          BY <2>6, <4>3, <4>4
        <5> QED
          BY <2>2, <4>3, <5>1, <1>3, UnescapeSteps, AppendText DEF L
      <4>6. G[k + 1] = Append(g, c)
        <5>1. SpeltChar(c) = <<c>>
          BY <3>1, Characters DEF SpeltChar
        <5> QED
          BY <2>2, <2>4, <2>7, <5>1
      <4> QED
        BY <2>2, <4>2, <4>4, <4>5, <4>6
    <3>2. CASE c = Wide
      <4> DEFINE u == "u"
                 z == "4 digits"
      <4>0. BS \in Signs /\ u \in Signs /\ z \in Signs /\ u # BS /\ z # BS /\ u \notin DOMAIN Escapes
        BY Characters, EscapesKnown
      <4>1. DumpChar(c) = <<BS, u, z>> /\ SpeltChar(c) = DumpChar(c)
        BY <2>2, <3>2, Characters, DumpCharCases DEF SpeltChar
      <4> HIDE DEF u, z
      <4>2. d = e + 3 /\ x[e + 1] = BS /\ x[e + 2] = u /\ x[e + 3] = z
        <5>1. /\ Len(DumpChar(c)) = 3 /\ DumpChar(c)[1] = BS
              /\ DumpChar(c)[2] = u /\ DumpChar(c)[3] = z
          <6> DEFINE t == <<BS, u, z>>
          <6>1. Len(t) = 3 /\ t[1] = BS /\ t[2] = u /\ t[3] = z
            OBVIOUS
          <6> QED
            BY <4>1, <6>1, Zenon
        <5>2. 1 \in 1..3 /\ 2 \in 1..3 /\ 3 \in 1..3
          OBVIOUS
        <5> QED
          BY <2>3, <5>1, <5>2
      <4>3. /\ e + 1 \in 1..L /\ e + 2 \in 1..L /\ e + 3 \in 1..L
            /\ (e + 1) - 1 = e /\ (e + 1) + 1 = e + 2 /\ (e + 2) - 1 = e + 1 /\ (e + 3) - 1 = e + 2
        <5>1. e \in Nat /\ d \in Nat /\ L \in Nat /\ d <= L /\ d = e + 3
          BY <2>2, <4>2
        <5> QED
          BY <5>1
      <4>5. at[e + 1] = [out |-> Append(g, BS), next |-> (e + 1) + 1]
        <5>1. at[e + 1] = UnescapeAt(x, e + 1, [out |-> g, next |-> e + 1])
          BY <2>5, <2>6, <4>3
        <5>2. g \in Text
          BY <2>2, <4>0, AppendText
        <5> QED
          BY <4>2, <4>3, <4>0, <5>1, <5>2, <1>3, UnescapeSteps DEF L
      <4>6. at[e + 2] = [out |-> Append(Append(g, BS), u), next |-> (e + 2) + 1]
        <5>1. at[e + 2] = UnescapeAt(x, e + 2, [out |-> Append(g, BS), next |-> (e + 1) + 1])
          BY <2>5, <2>6, <4>3, <4>5
        <5>2. Append(g, BS) \in Text
          BY <2>2, <4>0, AppendText
        <5>3. x \in Text /\ e + 2 \in 1..Len(x) /\ x[e + 2] = u /\ u # BS
          BY <1>3, <4>0, <4>2, <4>3 DEF L
        <5>4. (e + 1) + 1 = e + 2
          BY <4>3
        <5>5. \A h \in Text, i \in 1..Len(x) : \A a, b : a = i /\ x[i] = b /\ b # BS =>
                UnescapeAt(x, i, [out |-> h, next |-> a]) = [out |-> Append(h, b), next |-> i + 1]
          BY <1>3, UnescapePlain
        <5>6. UnescapeAt(x, e + 2, [out |-> Append(g, BS), next |-> (e + 1) + 1])
                = [out |-> Append(Append(g, BS), u), next |-> (e + 2) + 1]
          <6> DEFINE h == Append(g, BS)
                     i == e + 2
                     a == (e + 1) + 1
          <6>1. h \in Text /\ i \in 1..Len(x) /\ a = i /\ x[i] = u /\ u # BS
            BY <5>2, <5>3, <5>4
          <6> HIDE DEF h, i, a
          <6>2. UnescapeAt(x, i, [out |-> h, next |-> a]) = [out |-> Append(h, u), next |-> i + 1]
            BY <5>5, <6>1
          <6> QED
            BY <6>2 DEF h, i, a
        <5> QED
          BY <5>1, <5>6, Zenon
      <4>7. at[e + 3] = [out |-> Append(Append(Append(g, BS), u), z), next |-> (e + 3) + 1]
        <5>1. at[e + 3] = UnescapeAt(x, e + 3, [out |-> Append(Append(g, BS), u), next |-> (e + 2) + 1])
          BY <2>5, <2>6, <4>3, <4>6
        <5>2. Append(Append(g, BS), u) \in Text
          BY <2>2, <4>0, AppendText
        <5>3. x \in Text /\ e + 3 \in 1..Len(x) /\ x[e + 3] = z /\ z # BS
          BY <1>3, <4>0, <4>2, <4>3 DEF L
        <5>4. (e + 2) + 1 = e + 3
          BY <2>2
        <5>5. \A h \in Text, i \in 1..Len(x) : \A a, b : a = i /\ x[i] = b /\ b # BS =>
                UnescapeAt(x, i, [out |-> h, next |-> a]) = [out |-> Append(h, b), next |-> i + 1]
          BY <1>3, UnescapePlain
        <5>6. UnescapeAt(x, e + 3, [out |-> Append(Append(g, BS), u), next |-> (e + 2) + 1])
                = [out |-> Append(Append(Append(g, BS), u), z), next |-> (e + 3) + 1]
          <6> DEFINE h == Append(Append(g, BS), u)
                     i == e + 3
                     a == (e + 2) + 1
          <6>1. h \in Text /\ i \in 1..Len(x) /\ a = i /\ x[i] = z /\ z # BS
            BY <5>2, <5>3, <5>4
          <6> HIDE DEF h, i, a
          <6>2. UnescapeAt(x, i, [out |-> h, next |-> a]) = [out |-> Append(h, z), next |-> i + 1]
            BY <5>5, <6>1
          <6> QED
            BY <6>2 DEF h, i, a
        <5> QED
          BY <5>1, <5>6, Zenon
      <4>8. G[k + 1] = Append(Append(Append(g, BS), u), z)
        BY <2>2, <2>4, <4>0, <4>1, JoinTuple
      <4> QED
        BY <2>2, <4>2, <4>7, <4>8
    <3>3. CASE c \notin {Q, BS, LF, Wide}
      <4>1. DumpChar(c) = <<c>> /\ SpeltChar(c) = <<c>> /\ c # BS
        BY <2>2, <3>3, DumpCharCases DEF SpeltChar
      <4>2. d = e + 1 /\ x[e + 1] = c
        BY <2>2, <2>3, <4>1
      <4>3. e + 1 \in 1..L /\ (e + 1) - 1 = e
        BY <2>2, <4>2
      <4>4. at[e + 1] = [out |-> Append(g, c), next |-> (e + 1) + 1]
        <5>1. at[e + 1] = UnescapeAt(x, e + 1, [out |-> g, next |-> e + 1])
          BY <2>5, <2>6, <4>3
        <5> QED
          BY <2>2, <4>1, <4>2, <4>3, <5>1, <1>3, UnescapeSteps DEF L
      <4>5. G[k + 1] = Append(g, c)
        BY <2>2, <2>4, <2>7, <4>1
      <4> QED
        BY <2>2, <4>2, <4>4, <4>5
    <3> QED
      BY <3>1, <3>2, <3>3
  <2> QED
    BY <2>1, <2>8 DEF d
<1>9. n \in T
  <2>1. 0 \in Int /\ n \in Int /\ n \in 0..n
    BY <1>3
  <2> HIDE DEF T, n
  <2> QED
    BY <1>7, <1>8, <2>1, Induct
<1>10. at[Len(x)] = [out |-> Spelt(s), next |-> Len(x) + 1]
  BY <1>5, <1>6, <1>9
<1> QED
  BY <1>4, <1>10 DEF x

-----------------------------------------------------------------------------
(* Reading a literal: json.loads(), and MySQL.                             *)

LEMMA ReadStaysLoop ==
  ASSUME NEW s \in Text, NEW bare, NEW meaning, NEW i \in 1..Len(s), NEW b \in Loop,
         \A c \in DOMAIN meaning : meaning[c] \in Signs
  PROVE  ReadAt(s, bare, meaning, i, b) \in Loop
<1>1. Len(s) \in Nat /\ s[i] \in Signs /\ b.out \in Text /\ b.next \in Nat
  BY TextIndex DEF Loop
<1> DEFINE pair == i >= b.next /\ s[i] = BS /\ i < Len(s) /\ s[i + 1] \in DOMAIN meaning
           plain == i >= b.next /\ s[i] # BS /\ s[i] \notin bare
<1>2. CASE i < b.next
  BY <1>1, <1>2 DEF ReadAt
<1>3. CASE pair
  <2>1. Append(b.out, meaning[s[i + 1]]) \in Text /\ i + 2 \in Nat
    BY <1>1, <1>3, AppendText
  <2>2. ReadAt(s, bare, meaning, i, b) = [out |-> Append(b.out, meaning[s[i + 1]]), next |-> i + 2]
    BY <1>1, <1>3 DEF ReadAt
  <2> QED
    BY <2>1, <2>2 DEF Loop
<1>4. CASE plain
  <2>1. Append(b.out, s[i]) \in Text /\ i + 1 \in Nat
    BY <1>1, AppendText
  <2>2. ReadAt(s, bare, meaning, i, b) = [out |-> Append(b.out, s[i]), next |-> i + 1]
    BY <1>1, <1>4 DEF ReadAt
  <2> QED
    BY <2>1, <2>2 DEF Loop
<1>5. CASE ~(i < b.next) /\ ~pair /\ ~plain
  <2>1. None \in Text
    <3>1. "nothing" \in Signs
      BY Characters, Zenon
    <3> QED
      BY <3>1, Tuples, Zenon DEF None
  <2>2. ReadAt(s, bare, meaning, i, b) = [out |-> None, next |-> Len(s) + 1]
    BY <1>1, <1>5 DEF ReadAt
  <2> QED
    BY <1>1, <2>1, <2>2 DEF Loop
<1> QED
  BY <1>1, <1>2, <1>3, <1>4, <1>5

LEMMA ReadPair ==
  ASSUME NEW s \in Text, NEW bare, NEW meaning, NEW i \in 1..Len(s), NEW b, b.next = i,
         s[i] = BS, i < Len(s), s[i + 1] \in DOMAIN meaning
  PROVE  ReadAt(s, bare, meaning, i, b) = [out |-> Append(b.out, meaning[s[i + 1]]), next |-> i + 2]
<1>1. Len(s) \in Nat /\ ~(i < i) /\ i >= i /\ s[i] = BS
  BY TextIndex
<1> QED
  BY <1>1 DEF ReadAt

LEMMA ReadPlain ==
  ASSUME NEW s \in Text, NEW bare, NEW meaning, NEW i \in 1..Len(s), NEW b \in Loop, b.next = i,
         s[i] # BS, s[i] \notin bare
  PROVE  ReadAt(s, bare, meaning, i, b) = [out |-> Append(b.out, s[i]), next |-> i + 1]
<1>1. Len(s) \in Nat /\ s[i] \in Signs /\ b.out \in Text /\ b.next \in Nat
  BY TextIndex DEF Loop
<1>2. i >= b.next /\ s[i] # BS /\ s[i] \notin bare
  BY <1>1
<1> QED
  BY <1>1, <1>2 DEF ReadAt

LEMMA ReadSkips ==
  ASSUME NEW s \in Text, NEW bare, NEW meaning, NEW i \in 1..Len(s), NEW b \in Loop, i < b.next
  PROVE  ReadAt(s, bare, meaning, i, b) = b
<1>1. Len(s) \in Nat /\ b.next \in Nat
  BY TextIndex DEF Loop
<1> QED
  BY <1>1 DEF ReadAt

\* ReadLiteral() is computed by a function of the positions.
LEMMA ReadLoop ==
  ASSUME NEW s \in Text, NEW bare, NEW meaning,
         \A c \in DOMAIN meaning : meaning[c] \in Signs
  PROVE  \E at : /\ at[0] = Start /\ ReadLiteral(s, bare, meaning) = at[Len(s)].out
                 /\ \A i \in 0..Len(s) : at[i] \in Loop
                 /\ \A i \in 1..Len(s) : at[i] = ReadAt(s, bare, meaning, i, at[i - 1])
<1> DEFINE n == Len(s)
           g == [z \in ((0 + 1)..n) \X Loop |-> ReadAt(s, bare, meaning, z[1], z[2])]
           Step(f) == [i \in 0..n |-> IF i = 0 THEN Start ELSE ReadAt(s, bare, meaning, i, f[i - 1])]
           at == CHOOSE f : f = Step(f)
<1>1. n \in Nat /\ n \in Int /\ 0 \in Int /\ 0 <= n /\ (0 + 1)..n = 1..n
  BY TextIndex
<1>2. g \in [((0 + 1)..n) \X Loop -> Loop]
  <2>1. \A z \in ((0 + 1)..n) \X Loop : ReadAt(s, bare, meaning, z[1], z[2]) \in Loop
    BY <1>1, ReadStaysLoop
  <2> QED
    BY <2>1
<1>3. \E f : Follows(f, 0, n, Loop, Start, g)
  <2> HIDE DEF g, n
  <2> QED
    BY <1>1, <1>2, StartIsLoop, Recursion, Zenon
<1>4. PICK f : Follows(f, 0, n, Loop, Start, g)
  BY <1>3
<1>5. f \in [0..n -> Loop] /\ f[0] = Start /\ \A i \in (0 + 1)..n : f[i] = g[<<i, f[i - 1]>>]
  BY <1>4 DEF Follows
<1>6. f = Step(f)
  <2>1. ASSUME NEW i \in 1..n
        PROVE  f[i] = ReadAt(s, bare, meaning, i, f[i - 1])
    <3>1. i \in (0 + 1)..n /\ f[i - 1] \in Loop
      BY <1>1, <1>5
    <3>2. g[<<i, f[i - 1]>>] = ReadAt(s, bare, meaning, i, f[i - 1])
      BY <3>1
    <3> HIDE DEF g, n
    <3> QED
      BY <1>5, <3>1, <3>2
  <2>2. \A i \in 0..n : i = 0 \/ i \in 1..n
    BY <1>1
  <2> HIDE DEF g, n
  <2> QED
    BY <1>5, <2>1, <2>2
<1>7. at = Step(at)
  BY <1>6
<1>8. ReadLiteral(s, bare, meaning) = at[n].out
  BY DEF ReadLiteral
<1> HIDE DEF at, g
<1>9. at[0] = Start /\ \A i \in 1..n : at[i] = ReadAt(s, bare, meaning, i, at[i - 1])
  <2>1. \A i \in 0..n : at[i] = IF i = 0 THEN Start ELSE ReadAt(s, bare, meaning, i, at[i - 1])
    BY <1>7
  <2>2. 0 \in 0..n /\ \A i \in 1..n : i \in 0..n /\ i # 0
    BY <1>1
  <2> HIDE DEF n
  <2> QED
    BY <2>1, <2>2, Zenon
<1>10. \A i \in 0..n : at[i] \in Loop
  <2> DEFINE T == {i \in 0..n : at[i] \in Loop}
  <2>1. 0 \in T
    BY <1>1, <1>9, StartIsLoop
  <2>2. ASSUME NEW k \in 0..(n - 1), k \in T
        PROVE  k + 1 \in T
    <3>1. k + 1 \in 1..n /\ (k + 1) - 1 = k /\ k + 1 \in 0..n
      BY <1>1
    <3>2. at[k + 1] = ReadAt(s, bare, meaning, k + 1, at[k]) /\ at[k] \in Loop
      BY <1>9, <2>2, <3>1
    <3> QED
      BY <3>1, <3>2, ReadStaysLoop
  <2>3. \A k \in 0..n : k \in T
    <3> HIDE DEF T, n
    <3> QED
      BY <1>1, <2>1, <2>2, Induct
  <2> QED
    BY <2>3
<1> QED
  BY <1>8, <1>9, <1>10

\* Whoever reads a literal in which each character stands for itself or is escaped gets
\* what was written.
LEMMA ReadBack ==
  ASSUME NEW s \in Text, NEW x \in Text, NEW bare, NEW meaning, NEW p, NEW F,
         \A c \in DOMAIN meaning : meaning[c] \in Signs,
         Layout(F, p, x), Len(p) = Len(s),
         \A i \in 1..Len(s) :
           \/ s[i] # BS /\ s[i] \notin bare /\ p[i] = <<s[i]>>
           \/ \E y \in DOMAIN meaning \cap Signs : meaning[y] = s[i] /\ p[i] = <<BS, y>>
  PROVE  ReadLiteral(x, bare, meaning) = s
<1> DEFINE n == Len(s)
<1>1. n \in Nat /\ Len(x) \in Nat /\ \A i \in 1..n : s[i] \in Signs
  BY TextIndex
<1>4. PICK at : /\ at[0] = Start /\ ReadLiteral(x, bare, meaning) = at[Len(x)].out
                /\ \A i \in 0..Len(x) : at[i] \in Loop
                /\ \A i \in 1..Len(x) : at[i] = ReadAt(x, bare, meaning, i, at[i - 1])
  BY ReadLoop
<1> DEFINE G(k) == SubSeq(s, 1, k)
           Done(k) == [out |-> G(k), next |-> Upto(F, k) + 1]
           T == {k \in 0..n : at[Upto(F, k)] = Done(k)}
<1>2. G(0) = <<>> /\ G(n) = s /\ \A k \in 0..n : G(k) \in Text
  BY DEF Text
<1>3. \A k \in 0..(n - 1) : G(k + 1) = Append(G(k), s[k + 1])
  BY DEF Text
<1>5. /\ F[0] = <<>> /\ F[n] = x
      /\ \A k \in 0..n : Upto(F, k) \in 0..Len(x)
  BY DEF Layout
<1>6. Upto(F, 0) = 0 /\ Upto(F, n) = Len(x)
  BY <1>5 DEF Upto
<1> HIDE DEF G
<1>7. 0 \in T
  BY <1>1, <1>2, <1>4, <1>5, <1>6 DEF Start
<1>8. ASSUME NEW k \in 0..(n - 1), k \in T
      PROVE  k + 1 \in T
  <2> DEFINE c == s[k + 1]
             e == Upto(F, k)
             d == Upto(F, k + 1)
             g == G(k)
             L == Len(x)
             part == p[k + 1]
  <2>1. k + 1 \in 1..n /\ k + 1 \in 0..n /\ k \in 0..n /\ (k + 1) - 1 = k
    BY <1>1
  <2>2. c \in Signs /\ e \in 0..L /\ d \in 0..L /\ L \in Nat /\ g \in Text
    BY <1>1, <1>2, <1>5, <2>1
  <2>3. /\ d = e + Len(part)
        /\ \A j \in 1..Len(part) : x[e + j] = part[j]
    <3>1. /\ Upto(F, k + 1) = Upto(F, (k + 1) - 1) + Len(p[k + 1])
          /\ \A j \in 1..Len(p[k + 1]) : x[Upto(F, (k + 1) - 1) + j] = p[k + 1][j]
      BY <2>1, Zenon DEF Layout
    <3> QED
      BY <2>1, <3>1, Zenon
  <2>4. G(k + 1) = Append(g, c)
    BY <1>3
  <2>5. at[e] = [out |-> g, next |-> e + 1]
    BY <1>8
  <2>6. \A i \in 1..L : at[i] = ReadAt(x, bare, meaning, i, at[i - 1])
    BY <1>4
  <2>7. \/ c # BS /\ c \notin bare /\ part = <<c>>
        \/ \E y \in DOMAIN meaning \cap Signs : meaning[y] = c /\ part = <<BS, y>>
    BY <2>1
  <2> HIDE DEF c, e, d, g, L, part
  <2>9. at[e] \in Loop
    BY <1>4, <2>2 DEF L
  <2>8. at[d] = [out |-> Append(g, c), next |-> d + 1]
    <3>1. CASE c # BS /\ c \notin bare /\ part = <<c>>
      <4>1. d = e + 1 /\ x[e + 1] = c
        BY <2>2, <2>3, <3>1
      <4>2. e + 1 \in 1..L /\ (e + 1) - 1 = e
        BY <2>2, <4>1
      <4>3. at[e + 1] = ReadAt(x, bare, meaning, e + 1, at[e])
        BY <2>6, <4>2
      <4>4. e + 1 \in 1..Len(x)
        BY <4>2 DEF L
      <4> QED
        <5>1. at[e].next = e + 1 /\ at[e].out = g
          BY <2>5
        <5>2. ReadAt(x, bare, meaning, e + 1, at[e]) = [out |-> Append(at[e].out, x[e + 1]), next |-> (e + 1) + 1]
          <6>1. x[e + 1] # BS /\ x[e + 1] \notin bare
            BY <3>1, <4>1
          <6> DEFINE i == e + 1
                     b == at[e]
          <6>2. i \in 1..Len(x) /\ b \in Loop /\ b.next = i /\ x[i] # BS /\ x[i] \notin bare
            BY <2>9, <4>4, <5>1, <6>1
          <6> HIDE DEF i, b
          <6>3. ReadAt(x, bare, meaning, i, b) = [out |-> Append(b.out, x[i]), next |-> i + 1]
            BY <6>2, ReadPlain
          <6> QED
            BY <6>3 DEF i, b
        <5> QED
          BY <4>1, <4>3, <5>1, <5>2
    <3>2. CASE \E y \in DOMAIN meaning \cap Signs : meaning[y] = c /\ part = <<BS, y>>
      <4>1. PICK y \in DOMAIN meaning \cap Signs : meaning[y] = c /\ part = <<BS, y>>
        BY <3>2
      <4>2. d = e + 2 /\ x[e + 1] = BS /\ x[e + 2] = y
        BY <2>2, <2>3, <4>1
      <4>3. /\ e + 1 \in 1..Len(x) /\ e + 1 < Len(x) /\ e + 2 \in 1..Len(x)
            /\ (e + 1) - 1 = e /\ (e + 1) + 1 = e + 2 /\ (e + 2) - 1 = e + 1
            /\ (e + 1) + 2 = (e + 2) + 1 /\ e + 2 < (e + 2) + 1
        BY <2>2, <4>2 DEF L
      <4>4. at[e + 1] = [out |-> Append(g, c), next |-> (e + 2) + 1]
        <5>1. at[e + 1] = ReadAt(x, bare, meaning, e + 1, at[e])
          BY <2>6, <4>3 DEF L
        <5>4. at[e].next = e + 1 /\ at[e].out = g
          BY <2>5
        <5>2. x[(e + 1) + 1] \in DOMAIN meaning /\ meaning[x[(e + 1) + 1]] = c
          BY <4>1, <4>2, <4>3
        <5>3. ReadAt(x, bare, meaning, e + 1, at[e])
                = [out |-> Append(at[e].out, meaning[x[(e + 1) + 1]]), next |-> (e + 1) + 2]
          <6> DEFINE i == e + 1
                     b == at[e]
          <6>2. /\ i \in 1..Len(x) /\ b.next = i /\ x[i] = BS /\ i < Len(x)
                /\ x[i + 1] \in DOMAIN meaning
            BY <4>2, <4>3, <5>2, <5>4
          <6> HIDE DEF i, b
          <6>3. ReadAt(x, bare, meaning, i, b) = [out |-> Append(b.out, meaning[x[i + 1]]), next |-> i + 2]
            BY <6>2, ReadPair
          <6> QED
            BY <6>3 DEF i, b
        <5> QED
          BY <4>3, <5>1, <5>2, <5>3, <5>4
      <4>5. at[e + 2] = at[e + 1]
        <5>1. at[e + 2] = ReadAt(x, bare, meaning, e + 2, at[e + 1])
          BY <2>6, <4>3 DEF L
        <5>2. e + 2 < at[e + 1].next
          BY <4>3, <4>4
        <5>3. at[e + 1] \in Loop
          BY <1>4, <4>3
        <5> QED
          BY <4>3, <5>1, <5>2, <5>3, ReadSkips
      <4> QED
        BY <4>2, <4>4, <4>5
    <3> QED
      BY <2>7, <3>1, <3>2
  <2> QED
    BY <2>1, <2>4, <2>8 DEF d
<1>9. n \in T
  <2>1. 0 \in Int /\ n \in Int /\ n \in 0..n
    BY <1>1
  <2> HIDE DEF T, n
  <2> QED
    BY <1>7, <1>8, <2>1, Induct
<1>10. at[Len(x)] = [out |-> s, next |-> Len(x) + 1]
  BY <1>2, <1>5, <1>6, <1>9
<1> QED
  BY <1>4, <1>10

LEMMA EscapeCharCases ==
  ASSUME NEW c \in Signs
  PROVE  /\ EscapeChar(c) \in Text
         /\ \/ c \in {Q, BS} /\ EscapeChar(c) = <<BS, c>>
            \/ c = LF /\ EscapeChar(c) = <<BS, "n">>
            \/ c \notin {Q, BS, LF} /\ EscapeChar(c) = <<c>>
<1>1. Q # LF /\ BS # LF /\ BS \in Signs /\ "n" \in Signs
  BY Characters, Zenon
<1>2. CASE c \in {Q, BS}
  <2>1. c # LF
    BY <1>1, <1>2
  <2>2. EscapeChar(c) = <<BS, c>>
    BY <1>2, <2>1, Zenon DEF EscapeChar
  <2>3. <<BS, c>> \in Text
    BY <1>1, Tuples, Zenon
  <2> QED
    BY <1>2, <2>2, <2>3, Zenon
<1>3. CASE c = LF
  <2>1. c \notin {Q, BS}
    BY <1>1, <1>3
  <2>2. EscapeChar(c) = <<BS, "n">>
    BY <1>3, <2>1, Zenon DEF EscapeChar
  <2>3. <<BS, "n">> \in Text
    BY <1>1, Tuples, Zenon
  <2> QED
    BY <1>3, <2>2, <2>3, Zenon
<1>4. CASE c \notin {Q, BS, LF}
  <2>1. EscapeChar(c) = <<c>>
    BY <1>4, Zenon DEF EscapeChar
  <2> QED
    BY <1>4, <2>1, Tuples
<1> QED
  BY <1>2, <1>3, <1>4

\* The client gets back what escapeJson() wrote.
LEMMA LoadsEscapeJson ==
  ASSUME NEW s \in Text
  PROVE  Loads(EscapeJson(s)) = s
<1> DEFINE parts == [i \in 1..Len(s) |-> EscapeChar(s[i])]
           x == EscapeJson(s)
           bare == {Q, LF}
<1>1. Len(s) \in Nat /\ \A i \in 1..Len(s) : s[i] \in Signs
  BY TextIndex
<1>2. \A i \in 1..Len(s) : EscapeChar(s[i]) \in Text
  BY <1>1, EscapeCharCases
<1>3. parts \in Seq(Text) /\ Len(parts) = Len(s) /\ \A i \in 1..Len(s) : parts[i] = EscapeChar(s[i])
  BY <1>1, <1>2
<1>4. x = FlattenSeq(parts)
  BY DEF EscapeJson
<1>5. Loads(x) = ReadLiteral(x, bare, Escapes)
  BY DEF Loads
<1> HIDE DEF parts, x, bare
<1>6. PICK F : Layout(F, parts, x)
  BY <1>3, <1>4, FlattenLayout
<1>7. x \in Text
  BY <1>1, <1>3, <1>6 DEF Layout
<1>8. ASSUME NEW i \in 1..Len(s)
      PROVE  \/ s[i] # BS /\ s[i] \notin bare /\ parts[i] = <<s[i]>>
             \/ \E y \in DOMAIN Escapes \cap Signs : Escapes[y] = s[i] /\ parts[i] = <<BS, y>>
  <2> DEFINE c == s[i]
             m == "n"
  <2>0. c \in Signs /\ parts[i] = EscapeChar(c)
    BY <1>1, <1>3
  <2>1. \/ c \in {Q, BS} /\ EscapeChar(c) = <<BS, c>>
        \/ c = LF /\ EscapeChar(c) = <<BS, m>>
        \/ c \notin {Q, BS, LF} /\ EscapeChar(c) = <<c>>
    BY <2>0, EscapeCharCases, Zenon
  <2>2. /\ DOMAIN Escapes = {Q, BS, m} /\ Escapes[Q] = Q /\ Escapes[BS] = BS /\ Escapes[m] = LF
        /\ m \in Signs
    BY EscapesKnown, Characters, Zenon
  <2> HIDE DEF c, m
  <2>3. \/ c # BS /\ c \notin bare /\ parts[i] = <<c>>
        \/ \E y \in DOMAIN Escapes \cap Signs : Escapes[y] = c /\ parts[i] = <<BS, y>>
    BY <2>0, <2>1, <2>2 DEF bare
  <2> QED
    BY <2>3 DEF c
<1>9. ReadLiteral(x, bare, Escapes) = s
  BY <1>3, <1>6, <1>7, <1>8, EscapesKnown, ReadBack
<1> QED
  BY <1>5, <1>9 DEF x

\* MySQL gets the name that the service looks up.
LEMMA SqlReadsSqlEscape ==
  ASSUME NEW s \in Text
  PROVE  SqlReads(SqlEscape(s)) = s
<1> DEFINE quote == "'"
           m == "n"
           meaning == [c \in DOMAIN Escapes \cup {quote} |-> IF c = m THEN LF ELSE c]
           bare == {quote}
           Part(c) == IF c \in {BS, quote, Q} THEN <<BS, c>> ELSE <<c>>
           parts == [i \in 1..Len(s) |-> IF s[i] \in {BS, quote, Q} THEN <<BS, s[i]>> ELSE <<s[i]>>]
           x == SqlEscape(s)
<1>1. Len(s) \in Nat /\ \A i \in 1..Len(s) : s[i] \in Signs
  BY TextIndex
<1>2. quote \in Signs /\ m \in Signs /\ BS \in Signs /\ Q \in Signs /\ LF \in Signs
      /\ quote # m /\ BS # m /\ Q # m
  BY Characters
<1>4. x = FlattenSeq(parts)
  BY DEF SqlEscape
<1>5. SqlReads(x) = ReadLiteral(x, bare, meaning)
  BY DEF SqlReads
<1>0. DOMAIN Escapes = {Q, BS, m}
  BY EscapesKnown, Zenon
<1> HIDE DEF quote, m
<1>3. parts \in Seq(Text) /\ Len(parts) = Len(s) /\ \A i \in 1..Len(s) : parts[i] = Part(s[i])
  <2>1. \A c \in Signs : Part(c) \in Text
    BY <1>2, Tuples
  <2>2. \A i \in 1..Len(s) : Part(s[i]) \in Text
    <3> HIDE DEF Part
    <3> QED
      BY <1>1, <2>1
  <2>3. parts = [i \in 1..Len(s) |-> Part(s[i])]
    OBVIOUS
  <2> HIDE DEF Part, parts
  <2> QED
    BY <1>1, <2>2, <2>3
<1>a. /\ \A c \in DOMAIN meaning : meaning[c] \in Signs
      /\ \A c \in {BS, quote, Q} : c \in DOMAIN meaning \cap Signs /\ meaning[c] = c
  BY <1>0, <1>2
<1>b. \A c : \/ c \in {BS, quote, Q} /\ Part(c) = <<BS, c>>
             \/ c # BS /\ c \notin bare /\ Part(c) = <<c>>
  OBVIOUS
<1> HIDE DEF parts, x, bare, meaning, Part
<1>6. PICK F : Layout(F, parts, x)
  BY <1>3, <1>4, FlattenLayout
<1>7. x \in Text
  BY <1>1, <1>3, <1>6 DEF Layout
<1>8. ASSUME NEW i \in 1..Len(s)
      PROVE  \/ s[i] # BS /\ s[i] \notin bare /\ parts[i] = <<s[i]>>
             \/ \E y \in DOMAIN meaning \cap Signs : meaning[y] = s[i] /\ parts[i] = <<BS, y>>
  BY <1>3, <1>a, <1>b
<1>9. ReadLiteral(x, bare, meaning) = s
  BY <1>3, <1>6, <1>7, <1>8, <1>a, ReadBack
<1> QED
  BY <1>5, <1>9 DEF x

-----------------------------------------------------------------------------
(* Where a literal ends.                                                   *)

\* First() is the least of some positions.
LEMMA FirstIs ==
  ASSUME NEW S, \A y \in S : y \in Int, NEW m \in S, \A y \in S : m <= y
  PROVE  First(S) = m
<1>1. Min(S) = m
  <2>1. \A x \in S : (\A y \in S : x <= y) => x = m
    OBVIOUS
  <2> QED
    BY <2>1 DEF Min
<1> QED
  BY <1>1 DEF First

\* The positions in D that a backslash escapes: every quote is one of them.
Marked(D, E) ==
  /\ E \subseteq 1..Len(D) /\ 1 \notin E
  /\ \A j \in 1..Len(D) : j + 1 \in E <=> D[j] = BS /\ j \notin E
  /\ \A j \in 1..Len(D) : D[j] = Q => j \in E

\* The positions that a backslash escapes are known for every literal.
LEMMA Marks ==
  ASSUME NEW s \in Text
  PROVE  \E E : Marked(Dumped(s), E)
<1> DEFINE n == Len(s)
           D == Dumped(s)
           L == Len(D)
           p == DumpedParts(s)
<1>1. PICK F : Layout(F, p, D)
  BY DumpedLayout
<1>2. /\ D \in Text /\ L \in Nat /\ Len(p) = n /\ n \in Nat
      /\ \A i \in 1..n : p[i] = DumpChar(s[i]) /\ s[i] \in Signs
  BY DumpedLayout, TextIndex
<1> HIDE DEF D, p
<1> DEFINE g == [z \in ((1 + 1)..(L + 1)) \X {0, 1} |-> IF D[z[1] - 1] = BS /\ z[2] = 0 THEN 1 ELSE 0]
<1>3. PICK f : /\ f[1] = 0
               /\ \A i \in 1..(L + 1) : f[i] \in {0, 1}
               /\ \A i \in 1..L : f[i + 1] = IF D[i] = BS /\ f[i] = 0 THEN 1 ELSE 0
  <2>1. g \in [((1 + 1)..(L + 1)) \X {0, 1} -> {0, 1}]
    OBVIOUS
  <2>2. 1 \in Int /\ L + 1 \in Int /\ 1 <= L + 1 /\ 0 \in {0, 1}
    BY <1>2
  <2>3. \E f : Follows(f, 1, L + 1, {0, 1}, 0, g)
    <3> HIDE DEF g, L
    <3> QED
      BY <2>1, <2>2, Recursion, Zenon
  <2>4. PICK f : Follows(f, 1, L + 1, {0, 1}, 0, g)
    BY <2>3
  <2>5. f \in [1..(L + 1) -> {0, 1}] /\ f[1] = 0 /\ \A i \in (1 + 1)..(L + 1) : f[i] = g[<<i, f[i - 1]>>]
    BY <2>4 DEF Follows
  <2>6. ASSUME NEW i \in 1..L
        PROVE  f[i + 1] = IF D[i] = BS /\ f[i] = 0 THEN 1 ELSE 0
    <3>1. i + 1 \in (1 + 1)..(L + 1) /\ (i + 1) - 1 = i /\ i \in 1..(L + 1)
      BY <1>2
    <3>2. f[i + 1] = g[<<i + 1, f[i]>>] /\ f[i] \in {0, 1}
      BY <2>5, <3>1
    <3> QED
      BY <3>1, <3>2
  <2> HIDE DEF L
  <2> QED
    BY <2>5, <2>6
<1> HIDE DEF g
<1> DEFINE T == {k \in 0..n : f[Upto(F, k) + 1] = 0 /\ \A j \in 1..Upto(F, k) : D[j] = Q => f[j] = 1}
<1>5. /\ F[0] = <<>> /\ F[n] = D
      /\ \A k \in 0..n : Upto(F, k) \in 0..L
  BY <1>1, <1>2 DEF Layout
<1>6. Upto(F, 0) = 0 /\ Upto(F, n) = L
  BY <1>5 DEF Upto
<1> HIDE DEF L
<1>7. 0 \in T
  BY <1>2, <1>3, <1>6
<1>8. ASSUME NEW k \in 0..(n - 1), k \in T
      PROVE  k + 1 \in T
  <2> DEFINE c == s[k + 1]
             e == Upto(F, k)
             d == Upto(F, k + 1)
             part == p[k + 1]
             u == "u"
             z == "4 digits"
             m == "n"
  <2>1. k + 1 \in 1..n /\ k + 1 \in 0..n /\ k \in 0..n /\ (k + 1) - 1 = k
    BY <1>2
  <2>2. c \in Signs /\ part = DumpChar(c) /\ e \in 0..L /\ d \in 0..L
    BY <1>2, <1>5, <2>1
  <2>3. /\ d = e + Len(part)
        /\ \A j \in 1..Len(part) : D[e + j] = part[j]
    <3>1. /\ Upto(F, k + 1) = Upto(F, (k + 1) - 1) + Len(p[k + 1])
          /\ \A j \in 1..Len(p[k + 1]) : D[Upto(F, (k + 1) - 1) + j] = p[k + 1][j]
      BY <1>1, <1>2, <2>1, Zenon DEF Layout
    <3> QED
      BY <2>1, <3>1, Zenon
  <2>4. f[e + 1] = 0 /\ \A j \in 1..e : D[j] = Q => f[j] = 1
    BY <1>8
  <2>5. /\ \A i \in 1..(L + 1) : f[i] \in {0, 1}
        /\ \A i \in 1..L : f[i + 1] = IF D[i] = BS /\ f[i] = 0 THEN 1 ELSE 0
    BY <1>3
  <2>6. \/ c \in {Q, BS} /\ part = <<BS, c>>
        \/ c = LF /\ part = <<BS, m>>
        \/ c = Wide /\ part = <<BS, u, z>>
        \/ c \notin {Q, BS, LF, Wide} /\ part = <<c>>
    BY <2>2, DumpCharCases, Zenon
  <2>7. BS # Q /\ z # Q /\ z # BS /\ u # Q
    BY Characters, Zenon
  <2> HIDE DEF c, e, d, part, u, z, m
  <2>8. f[d + 1] = 0 /\ \A j \in (e + 1)..d : D[j] = Q => f[j] = 1
    <3>1. CASE \E y : part = <<BS, y>>
      <4>1. PICK y : part = <<BS, y>>
        BY <3>1
      <4>2. d = e + 2 /\ D[e + 1] = BS
        BY <2>2, <2>3, <4>1
      <4>3. /\ e + 1 \in 1..L /\ (e + 1) + 1 = e + 2 /\ e + 2 \in 1..L /\ (e + 2) + 1 = d + 1
            /\ \A j \in (e + 1)..d : j = e + 1 \/ j = e + 2
        BY <1>2, <2>2, <4>2
      <4>4. f[e + 2] = 1
        BY <2>4, <2>5, <4>2, <4>3
      <4>5. f[d + 1] = 0
        BY <2>5, <4>3, <4>4
      <4> QED
        BY <2>7, <4>2, <4>3, <4>4, <4>5
    <3>2. CASE part = <<BS, u, z>>
      <4>2. d = e + 3 /\ D[e + 1] = BS /\ D[e + 2] = u /\ D[e + 3] = z
        BY <2>2, <2>3, <3>2
      <4>3. /\ e + 1 \in 1..L /\ (e + 1) + 1 = e + 2 /\ e + 2 \in 1..L /\ (e + 2) + 1 = e + 3
            /\ e + 3 \in 1..L /\ (e + 3) + 1 = d + 1
            /\ \A j \in (e + 1)..d : j = e + 1 \/ j = e + 2 \/ j = e + 3
        BY <1>2, <2>2, <4>2
      <4>4. f[e + 2] = 1
        BY <2>4, <2>5, <4>2, <4>3
      <4>5. f[d + 1] = 0
        BY <2>5, <2>7, <4>2, <4>3
      <4> QED
        BY <2>7, <4>2, <4>3, <4>4, <4>5
    <3>3. CASE c \notin {Q, BS, LF, Wide} /\ part = <<c>>
      <4>2. d = e + 1 /\ D[e + 1] = c
        BY <2>2, <2>3, <3>3
      <4>3. e + 1 \in 1..L /\ (e + 1) + 1 = d + 1 /\ \A j \in (e + 1)..d : j = e + 1
        BY <1>2, <2>2, <4>2
      <4>5. f[d + 1] = 0
        BY <2>5, <3>3, <4>2, <4>3
      <4> QED
        BY <3>3, <4>2, <4>3, <4>5
    <3> QED
      BY <2>6, <3>1, <3>2, <3>3
  <2>9. \A j \in 1..d : j \in 1..e \/ j \in (e + 1)..d
    BY <2>2
  <2>10. f[d + 1] = 0 /\ \A j \in 1..d : D[j] = Q => f[j] = 1
    BY <2>4, <2>8, <2>9
  <2> QED
    BY <2>1, <2>10 DEF d
<1>9. n \in T
  <2>1. 0 \in Int /\ n \in Int /\ n \in 0..n
    BY <1>2
  <2> HIDE DEF T, n
  <2> QED
    BY <1>7, <1>8, <2>1, Induct
<1>10. f[L + 1] = 0 /\ \A j \in 1..L : D[j] = Q => f[j] = 1
  BY <1>6, <1>9
<1> DEFINE E == {j \in 1..L : f[j] = 1}
<1>11. E \subseteq 1..L /\ 1 \notin E
  BY <1>3
<1>12. ASSUME NEW j \in 1..L
       PROVE  j + 1 \in E <=> D[j] = BS /\ j \notin E
  <2>1. f[j + 1] = (IF D[j] = BS /\ f[j] = 0 THEN 1 ELSE 0) /\ f[j] \in {0, 1}
    BY <1>2, <1>3
  <2>2. j + 1 \in 1..L \/ j + 1 = L + 1
    BY <1>2
  <2> QED
    BY <1>2, <1>10, <2>1, <2>2
<1>13. \A j \in 1..L : D[j] = Q => j \in E
  BY <1>10
<1>14. Marked(D, E)
  <2> HIDE DEF E
  <2> QED
    BY <1>11, <1>12, <1>13 DEF Marked, L
<1> QED
  BY <1>14 DEF D

\* StringEnd() knows them, too.
LEMMA StringLoop ==
  ASSUME NEW s \in Text, NEW n \in 1..Len(s)
  PROVE  \E e : /\ \A i \in n..Len(s) : e[i] <=> (i > n /\ s[i - 1] = BS /\ ~e[i - 1])
                /\ StringEnd(s, n) = First({i \in n..Len(s) : s[i] = Q /\ ~e[i]})
<1> DEFINE L == Len(s)
           g == [z \in ((n + 1)..L) \X {0, 1} |-> IF s[z[1] - 1] = BS /\ z[2] = 0 THEN 1 ELSE 0]
           Step(f) == [i \in n..L |-> i > n /\ s[i - 1] = BS /\ ~f[i - 1]]
           e == CHOOSE f : f = Step(f)
<1>1. n \in Int /\ L \in Int /\ n <= L /\ 0 \in {0, 1} /\ L \in Nat /\ n \in Nat
  BY TextIndex
<1>2. g \in [((n + 1)..L) \X {0, 1} -> {0, 1}]
  OBVIOUS
<1>3. \E f : Follows(f, n, L, {0, 1}, 0, g)
  <2> HIDE DEF g, L
  <2> QED
    BY <1>1, <1>2, Recursion, Zenon
<1>4. PICK f : Follows(f, n, L, {0, 1}, 0, g)
  BY <1>3
<1>5. f \in [n..L -> {0, 1}] /\ f[n] = 0 /\ \A i \in (n + 1)..L : f[i] = g[<<i, f[i - 1]>>]
  BY <1>4 DEF Follows
<1> DEFINE h == [i \in n..L |-> f[i] = 1]
<1>6. ASSUME NEW i \in n..L
      PROVE  (f[i] = 1) <=> (i > n /\ s[i - 1] = BS /\ ~(f[i - 1] = 1))
  <2>1. CASE i = n
    BY <1>1, <1>5, <2>1
  <2>2. CASE i # n
    <3>1. i \in (n + 1)..L /\ i > n /\ i - 1 \in n..L
      BY <1>1, <2>2
    <3>2. f[i - 1] \in {0, 1}
      BY <1>5, <3>1
    <3>3. g[<<i, f[i - 1]>>] = IF s[i - 1] = BS /\ f[i - 1] = 0 THEN 1 ELSE 0
      BY <3>1, <3>2
    <3> HIDE DEF g, L
    <3> QED
      BY <1>5, <3>1, <3>2, <3>3
  <2> QED
    BY <2>1, <2>2
<1>7. h = Step(h)
  <2>1. ASSUME NEW i \in n..L
        PROVE  (f[i] = 1) = (i > n /\ s[i - 1] = BS /\ ~h[i - 1])
    <3>1. i > n => i - 1 \in n..L
      BY <1>1
    <3>2. i > n => (h[i - 1] <=> (f[i - 1] = 1))
      BY <3>1
    <3> HIDE DEF h, L
    <3> QED
      BY <1>6, <3>2
  <2>2. h = [i \in n..L |-> f[i] = 1]
    OBVIOUS
  <2> HIDE DEF h, L
  <2> QED
    BY <2>1, <2>2
<1>8. e = Step(e)
  <2> HIDE DEF h
  <2> QED
    BY <1>7
<1>9. StringEnd(s, n) = First({i \in n..L : s[i] = Q /\ ~e[i]})
  BY DEF StringEnd
<1> HIDE DEF e, L
<1>10. \A i \in n..L : e[i] <=> (i > n /\ s[i - 1] = BS /\ ~e[i - 1])
  BY <1>8
<1> QED
  BY <1>9, <1>10 DEF L

\* The end of a literal that json.dumps() wrote is the quote after it.
LEMMA StringEndAt ==
  ASSUME NEW x \in Text, NEW D \in Text, NEW E, Marked(D, E), NEW q \in Nat,
         \A j \in 1..Len(D) : x[q + j] = D[j],
         q + Len(D) + 1 \in 1..Len(x), x[q + Len(D) + 1] = Q
  PROVE  StringEnd(x, q + 1) = q + Len(D) + 1
<1> DEFINE L == Len(D)
           M == Len(x)
<1>1. L \in Nat /\ M \in Nat /\ q + 1 \in 1..M /\ q + L + 1 \in (q + 1)..M
  BY TextIndex
<1>2. PICK e : /\ \A i \in (q + 1)..M : e[i] <=> (i > q + 1 /\ x[i - 1] = BS /\ ~e[i - 1])
               /\ StringEnd(x, q + 1) = First({i \in (q + 1)..M : x[i] = Q /\ ~e[i]})
  BY <1>1, StringLoop
<1>3. /\ E \subseteq 1..L /\ 1 \notin E
      /\ \A j \in 1..L : j + 1 \in E <=> D[j] = BS /\ j \notin E
      /\ \A j \in 1..L : D[j] = Q => j \in E
  BY DEF Marked
<1>4. \A j \in 1..L : x[q + j] = D[j]
  OBVIOUS
<1>5. x[q + L + 1] = Q
  OBVIOUS
<1> HIDE DEF L, M
<1> DEFINE T == {j \in 1..(L + 1) : e[q + j] <=> j \in E}
<1>6. 1 \in T
  <2>1. q + 1 \in (q + 1)..M /\ ~(q + 1 > q + 1) /\ 1 \in 1..(L + 1)
    BY <1>1
  <2>2. ~e[q + 1]
    BY <1>2, <2>1
  <2> QED
    BY <1>3, <2>1, <2>2
<1>7. ASSUME NEW j \in 1..((L + 1) - 1), j \in T
      PROVE  j + 1 \in T
  <2>1. /\ q + (j + 1) \in (q + 1)..M /\ q + (j + 1) > q + 1 /\ (q + (j + 1)) - 1 = q + j
        /\ j \in 1..L /\ j + 1 \in 1..(L + 1)
    BY <1>1
  <2>2. e[q + (j + 1)] <=> (x[q + j] = BS /\ ~e[q + j])
    BY <1>2, <2>1
  <2>3. x[q + j] = D[j] /\ (j + 1 \in E <=> D[j] = BS /\ j \notin E)
    BY <1>3, <1>4, <2>1
  <2>4. e[q + j] <=> j \in E
    BY <1>7
  <2>5. e[q + (j + 1)] <=> j + 1 \in E
    BY <2>2, <2>3, <2>4
  <2> QED
    BY <2>1, <2>5
<1>8. \A j \in 1..(L + 1) : e[q + j] <=> j \in E
  <2>1. 1 \in Int /\ L + 1 \in Int
    BY <1>1
  <2>2. \A j \in 1..(L + 1) : j \in T
    <3> HIDE DEF T
    <3> QED
      BY <1>6, <1>7, <2>1, Induct
  <2> QED
    BY <2>2
<1> DEFINE S == {i \in (q + 1)..M : x[i] = Q /\ ~e[i]}
           m == q + L + 1
<1>9. m \in S
  <2>1. m = q + (L + 1) /\ L + 1 \in 1..(L + 1) /\ L + 1 \notin E
    BY <1>1, <1>3
  <2>2. ~e[m]
    BY <1>8, <2>1
  <2> QED
    BY <1>1, <1>5, <2>2
<1>10. \A i \in S : i \in Int /\ m <= i
  <2> SUFFICES ASSUME NEW i \in (q + 1)..M, x[i] = Q, ~e[i], ~(m <= i)
               PROVE  FALSE
    BY <1>1
  <2> DEFINE j == i - q
  <2>1. j \in 1..L /\ j \in 1..(L + 1) /\ i = q + j
    BY <1>1
  <2> HIDE DEF j
  <2>2. j \in E
    BY <1>3, <1>4, <2>1
  <2> QED
    BY <1>8, <2>1, <2>2
<1>11. First(S) = m
  <2> HIDE DEF S, m
  <2> QED
    BY <1>9, <1>10, FirstIs
<1> QED
  BY <1>2, <1>11 DEF L

-----------------------------------------------------------------------------
(* Where the value of a key stands.                                        *)

\* Characters and names, so that the provers need not look into strings.
Colon == ":"
Blank == " "

\* Text t lies in x after position a.
Lies(x, a, t) ==
  /\ a \in Nat /\ a + Len(t) <= Len(x)
  /\ \A j \in 1..Len(t) : x[a + j] = t[j]

LEMMA LiesJoin ==
  ASSUME NEW x \in Text, NEW a, NEW t \in Text, NEW u \in Text, Lies(x, a, t \o u)
  PROVE  Lies(x, a, t) /\ Lies(x, a + Len(t), u)
<1> DEFINE w == t \o u
           m == Len(t)
           n == Len(u)
<1>1. /\ m \in Nat /\ n \in Nat /\ Len(w) = m + n /\ Len(x) \in Nat
      /\ \A j \in 1..m : w[j] = t[j]
      /\ \A j \in 1..n : w[m + j] = u[j]
  BY Joined, TextIndex
<1>2. /\ a \in Nat /\ a + Len(w) <= Len(x) /\ \A j \in 1..Len(w) : x[a + j] = w[j]
  BY DEF Lies
<1> HIDE DEF w
<1>3. a + m <= Len(x) /\ (a + m) + n <= Len(x) /\ a + m \in Nat
  <2> HIDE DEF m, n
  <2> QED
    BY <1>1, <1>2
<1>4. \A j \in 1..m : x[a + j] = t[j]
  <2> HIDE DEF m, n
  <2>1. \A j \in 1..m : j \in 1..Len(w)
    BY <1>1
  <2> QED
    BY <1>1, <1>2, <2>1
<1>5. \A j \in 1..n : x[(a + m) + j] = u[j]
  <2> HIDE DEF m, n
  <2>1. \A j \in 1..n : m + j \in 1..Len(w) /\ (a + m) + j = a + (m + j)
    BY <1>1, <1>2
  <2> QED
    BY <1>1, <1>2, <2>1
<1> QED
  BY <1>2, <1>3, <1>4, <1>5 DEF Lies

LEMMA LiesSubSeq ==
  ASSUME NEW x \in Text, NEW a \in Nat, NEW t \in Text, Lies(x, a, t)
  PROVE  SubSeq(x, a + 1, a + Len(t)) = t
<1> DEFINE n == Len(t)
           y == SubSeq(x, a + 1, a + n)
<1>1. n \in Nat /\ Len(x) \in Nat /\ a + n <= Len(x) /\ \A j \in 1..n : x[a + j] = t[j]
  BY TextIndex DEF Lies
<1>2. Len(y) = n /\ y \in Text /\ \A j \in 1..n : y[j] = x[(a + 1) + j - 1]
  BY <1>1, SubSeqProperties DEF Text
<1>3. \A j \in 1..n : (a + 1) + j - 1 = a + j
  BY <1>1
<1>4. \A j \in 1..n : y[j] = t[j]
  <2> HIDE DEF y, n
  <2> QED
    BY <1>1, <1>2, <1>3
<1> HIDE DEF y
<1>5. y = t
  BY <1>2, <1>4, SeqEqual DEF Text
<1> QED
  BY <1>5 DEF y

\* The string value of a member that stands where the key is found.
LEMMA ExtractString ==
  ASSUME NEW x \in Text, NEW key, NEW s \in Text, NEW v \in Nat \ {0},
         ValueAt(x, key) = v, x[v] = Q, Lies(x, v, Dumped(s)),
         v + Len(Dumped(s)) + 1 \in 1..Len(x), x[v + Len(Dumped(s)) + 1] = Q
  PROVE  ExtractStringValue(x, key) = Spelt(s)
<1> DEFINE D == Dumped(s)
           end == v + Len(D) + 1
<1>1. D \in Text /\ Len(D) \in Nat /\ v # 0 /\ v \in Nat
  BY DumpedLayout, TextIndex
<1>2. PICK E : Marked(D, E)
  BY Marks
<1>3. Unescape(D) = Spelt(s)
  BY UnescapeDumped
<1>4. Lies(x, v, D) /\ end \in 1..Len(x) /\ x[end] = Q
  OBVIOUS
<1> HIDE DEF D
<1>5. StringEnd(x, v + 1) = end
  BY <1>1, <1>2, <1>4, StringEndAt DEF Lies
<1>6. end - 1 = v + Len(D) /\ end # 0
  BY <1>1
<1>7. SubSeq(x, v + 1, end - 1) = D
  BY <1>1, <1>4, <1>6, LiesSubSeq
<1> HIDE DEF end
<1> QED
  BY <1>1, <1>3, <1>5, <1>6, <1>7 DEF ExtractStringValue

\* A string of one character, where a key is looked for.
TokenAt(x, i, key) == x[i] = Q /\ x[i + 1] = key /\ x[i + 2] = Q

\* The server compares three characters at once.
LEMMA TokenIsSubSeq ==
  ASSUME NEW x \in Text, NEW key, NEW i \in 1..(Len(x) - 2)
  PROVE  SubSeq(x, i, i + 2) = <<Q, key, Q>> <=> TokenAt(x, i, key)
<1> DEFINE y == SubSeq(x, i, i + 2)
           z == <<Q, key, Q>>
<1>1. Len(x) \in Nat
  BY TextIndex
<1>2. Len(y) = 3 /\ y \in Text /\ y[1] = x[i] /\ y[2] = x[i + 1] /\ y[3] = x[i + 2]
  <2>1. Len(y) = (i + 2) - i + 1 /\ y \in Text /\ \A j \in 1..((i + 2) - i + 1) : y[j] = x[i + j - 1]
    BY <1>1, SubSeqProperties DEF Text
  <2>2. (i + 2) - i + 1 = 3 /\ i + 1 - 1 = i /\ i + 2 - 1 = i + 1 /\ i + 3 - 1 = i + 2
    BY <1>1
  <2> HIDE DEF y
  <2> QED
    BY <2>1, <2>2
<1>3. Len(z) = 3 /\ z[1] = Q /\ z[2] = key /\ z[3] = Q
  OBVIOUS
<1>4. ASSUME TokenAt(x, i, key)
      PROVE  y = z
  <2>1. y[1] = z[1] /\ y[2] = z[2] /\ y[3] = z[3]
    BY <1>2, <1>3, <1>4 DEF TokenAt
  <2>2. y = <<y[1], y[2], y[3]>>
    <3> HIDE DEF y
    <3> QED
      BY <1>2 DEF Text
  <2> HIDE DEF y
  <2> QED
    BY <1>3, <2>1, <2>2
<1>5. y = z => TokenAt(x, i, key)
  <2> HIDE DEF y, z
  <2> QED
    BY <1>2, <1>3 DEF TokenAt
<1> QED
  BY <1>4, <1>5

\* The value of a key stands after the colon that follows it, and a blank, if what
\* looks like the key before has no colon of its own.
LEMMA ValueIs ==
  ASSUME NEW x \in Text, NEW key, NEW t \in Nat \ {0}, t + 5 <= Len(x),
         TokenAt(x, t, key), x[t + 3] = Colon, x[t + 4] = Blank, x[t + 5] # Blank,
         \A i \in 1..(t - 1) : TokenAt(x, i, key) => \A j \in (i + 3)..(t + 2) : x[j] # Colon
  PROVE  ValueAt(x, key) = t + 5
<1> DEFINE L == Len(x)
           tokens == {i \in 1..(L - 2) : SubSeq(x, i, i + 2) = <<Q, key, Q>>}
           k == First(tokens)
           colons == {i \in (k + 3)..L : x[i] = Colon}
           values == {i \in (t + 4)..L : x[i] # Blank}
<1>1. L \in Nat
  BY TextIndex
<1>2. \A i \in 1..(L - 2) : i \in tokens <=> TokenAt(x, i, key)
  BY TokenIsSubSeq
<1>3. tokens \in SUBSET Nat /\ t \in tokens
  <2>1. t \in 1..(L - 2)
    BY <1>1
  <2>2. tokens \subseteq 1..(L - 2)
    OBVIOUS
  <2>3. TokenAt(x, t, key) /\ \A i \in 1..(L - 2) : i \in Nat
    BY <1>1
  <2> HIDE DEF tokens, L
  <2>4. t \in tokens
    BY <1>2, <2>1, <2>3
  <2>5. tokens \in SUBSET Nat
    BY <2>2, <2>3
  <2> QED
    BY <2>4, <2>5
<1>4. PICK m \in tokens : \A i \in tokens : m <= i
  <2> HIDE DEF tokens
  <2> QED
    BY <1>3, Smallest
<1>5. k = m
  <2> HIDE DEF tokens
  <2>1. \A y \in tokens : y \in Int
    BY <1>3
  <2> QED
    BY <1>4, <2>1, FirstIs
<1>6. m \in 1..(L - 2) /\ m <= t /\ TokenAt(x, m, key)
  <2>1. m \in 1..(L - 2)
    BY <1>4
  <2> HIDE DEF tokens
  <2> QED
    BY <1>2, <1>3, <1>4, <2>1
<1>7. x[t + 3] = Colon /\ x[t + 4] = Blank /\ x[t + 5] # Blank
  OBVIOUS
<1>8. \A i \in 1..(t - 1) : TokenAt(x, i, key) => \A j \in (i + 3)..(t + 2) : x[j] # Colon
  OBVIOUS
<1> HIDE DEF k, L, tokens
<1>9. First(colons) = t + 3
  <2>1. t + 3 \in colons
    BY <1>1, <1>5, <1>6, <1>7 DEF L
  <2>2. \A i \in colons : i \in Int /\ t + 3 <= i
    <3> SUFFICES ASSUME NEW i \in (m + 3)..L, x[i] = Colon, ~(t + 3 <= i)
                 PROVE  FALSE
      BY <1>1, <1>5, <1>6
    <3>1. m \in 1..(t - 1) /\ i \in (m + 3)..(t + 2)
      BY <1>1, <1>6
    <3> QED
      BY <1>6, <1>8, <3>1
  <2> HIDE DEF colons
  <2> QED
    BY <2>1, <2>2, FirstIs
<1>10. First(values) = t + 5
  <2>1. t + 5 \in values
    BY <1>1, <1>7 DEF L
  <2>2. \A i \in values : i \in Int /\ t + 5 <= i
    <3>1. \A i \in (t + 4)..L : i = t + 4 \/ t + 5 <= i
      BY <1>1
    <3> QED
      BY <1>1, <1>7, <3>1
  <2> HIDE DEF values
  <2> QED
    BY <2>1, <2>2, FirstIs
<1>11. k # 0 /\ t + 3 # 0 /\ (t + 3) + 1 = t + 4
  BY <1>5, <1>6
<1>12. ValueAt(x, key) = LET c == IF k = 0 THEN 0 ELSE First(colons)
                         IN  IF c = 0 THEN 0 ELSE First({i \in (c + 1)..L : x[i] # Blank})
  BY Zenon DEF ValueAt, k, tokens, L, Colon, Blank
<1> QED
  BY <1>9, <1>10, <1>11, <1>12

-----------------------------------------------------------------------------
(* A member of an object.                                                  *)

Comma == ","
Open  == "{"
Shut  == "}"

\* The keys that the server looks for.
Keys == {"type", "request_id", "data", "username", "password", "text"}

LEMMA KeysDiffer ==
  \A key \in Keys : /\ key \in Signs
                    /\ key \notin {Q, BS, LF, Wide, "n", "4 digits", Colon, Blank, Comma, Open, Shut}
BY DEF Keys, Signs, Q, BS, LF, Wide, Colon, Blank, Comma, Open, Shut

LEMMA SignsDiffer ==
  /\ Colon # Q /\ Blank # Q /\ Comma # Q /\ Open # Q /\ Shut # Q
  /\ Colon # Open /\ Blank # Open /\ Comma # Open /\ Shut # Open
  /\ Colon # Shut /\ Blank # Shut /\ Comma # Shut
  /\ Colon # Blank /\ Colon # Comma /\ Blank # Comma
  /\ BS \notin {Colon, Blank, Comma, Open, Shut}
  /\ {Colon, Blank, Comma, Open, Shut} \subseteq Signs
BY DEF Signs, Q, BS, Colon, Blank, Comma, Open, Shut

\* How many characters the inside of a literal has.
Size(s) == Len(Dumped(s))

\* The last character of an escape tells which character was escaped.
LEMMA PartEnd ==
  ASSUME NEW s \in Text, NEW F, Layout(F, DumpedParts(s), Dumped(s)), NEW k \in 1..Len(s)
  PROVE  /\ Upto(F, k) \in 1..Size(s)
         /\ \/ /\ s[k] \notin {Q, BS, LF, Wide} /\ Dumped(s)[Upto(F, k)] = s[k]
               /\ Upto(F, k - 1) = Upto(F, k) - 1
            \/ s[k] \in {Q, BS} /\ Dumped(s)[Upto(F, k)] = s[k]
            \/ s[k] = LF /\ Dumped(s)[Upto(F, k)] = "n"
            \/ s[k] = Wide /\ Dumped(s)[Upto(F, k)] = "4 digits"
<1> DEFINE n == Len(s)
           D == Dumped(s)
           p == DumpedParts(s)
           c == s[k]
           e == Upto(F, k - 1)
           d == Upto(F, k)
           part == p[k]
           L == Len(D)
           u == "u"
           z == "4 digits"
           m == "n"
<1>1. /\ D \in Text /\ L \in Nat /\ Len(p) = n /\ n \in Nat /\ k \in 1..n
      /\ \A i \in 1..n : p[i] = DumpChar(s[i]) /\ s[i] \in Signs
  BY DumpedLayout, TextIndex
<1>2. /\ \A i \in 0..Len(p) : Upto(F, i) \in 0..L
      /\ d = e + Len(part) /\ \A j \in 1..Len(part) : D[e + j] = part[j]
  BY <1>1, Zenon DEF Layout
<1>3. k \in 0..n /\ k - 1 \in 0..n
  BY <1>1
<1>4. e \in 0..L /\ d \in 0..L
  BY <1>1, <1>2, <1>3
<1>5. \/ c \in {Q, BS} /\ part = <<BS, c>>
      \/ c = LF /\ part = <<BS, m>>
      \/ c = Wide /\ part = <<BS, u, z>>
      \/ c \notin {Q, BS, LF, Wide} /\ part = <<c>>
  BY <1>1, DumpCharCases, Zenon
<1> HIDE DEF D, L, c, e, d, part, u, z, m
<1>6. ASSUME NEW y, part = <<BS, y>>
      PROVE  d \in 1..L /\ D[d] = y
  <2>1. d = e + 2 /\ D[e + 2] = y
    BY <1>2, <1>4, <1>6
  <2> QED
    BY <1>1, <1>4, <2>1
<1>7. ASSUME part = <<BS, u, z>>
      PROVE  d \in 1..L /\ D[d] = z
  <2>1. d = e + 3 /\ D[e + 3] = z
    BY <1>2, <1>4, <1>7
  <2> QED
    BY <1>1, <1>4, <2>1
<1>8. ASSUME part = <<c>>
      PROVE  d \in 1..L /\ D[d] = c /\ e = d - 1
  <2>1. d = e + 1 /\ D[e + 1] = c
    BY <1>2, <1>4, <1>8
  <2> QED
    BY <1>1, <1>4, <2>1
<1>9. /\ d \in 1..L
      /\ \/ c \notin {Q, BS, LF, Wide} /\ D[d] = c /\ e = d - 1
         \/ c \in {Q, BS} /\ D[d] = c
         \/ c = LF /\ D[d] = m
         \/ c = Wide /\ D[d] = z
  BY <1>5, <1>6, <1>7, <1>8
<1> QED
  BY <1>9, Zenon DEF D, L, c, e, d, u, z, m, Size

\* How a literal ends is how the text ends.
LEMMA LastOf ==
  ASSUME NEW s \in Text, NEW key \in Keys, Size(s) >= 1, Dumped(s)[Size(s)] = key
  PROVE  /\ Len(s) >= 1 /\ s[Len(s)] = key
         /\ Len(s) > 1 => Size(s) > 1 /\ (Dumped(s)[Size(s) - 1] = Q => s[Len(s) - 1] = Q)
<1> DEFINE n == Len(s)
           D == Dumped(s)
           L == Size(s)
           z == "4 digits"
           m == "n"
<1>1. PICK F : Layout(F, DumpedParts(s), D)
  BY DumpedLayout
<1>2. L \in Nat /\ n \in Nat /\ Len(DumpedParts(s)) = n
  BY DumpedLayout, TextIndex DEF Size
<1>3. F[0] = <<>> /\ F[n] = D
  BY <1>1, <1>2, Zenon DEF Layout
<1>4. Upto(F, 0) = 0 /\ Upto(F, n) = L
  BY <1>3 DEF Upto, Size
<1>5. n >= 1
  BY <1>2, <1>4
<1>6. \A k \in 1..n :
        /\ Upto(F, k) \in 1..L
        /\ \/ s[k] \notin {Q, BS, LF, Wide} /\ D[Upto(F, k)] = s[k] /\ Upto(F, k - 1) = Upto(F, k) - 1
           \/ s[k] \in {Q, BS} /\ D[Upto(F, k)] = s[k]
           \/ s[k] = LF /\ D[Upto(F, k)] = m
           \/ s[k] = Wide /\ D[Upto(F, k)] = z
  BY <1>1, PartEnd, Zenon
<1>7. key \notin {Q, BS, LF, Wide, m, z} /\ D[L] = key
  <2>1. key \notin {Q, BS, LF, Wide, m, z}
    BY KeysDiffer, Zenon
  <2> QED
    BY <2>1
<1>8. m # Q /\ z # Q
  BY Characters, Zenon
<1> HIDE DEF n, D, L, m, z
<1>9. s[n] = key /\ Upto(F, n - 1) = L - 1
  <2>1. n \in 1..n
    BY <1>2, <1>5
  <2> QED
    BY <1>4, <1>6, <1>7, <2>1
<1>10. ASSUME n > 1
       PROVE  L > 1 /\ (D[L - 1] = Q => s[n - 1] = Q)
  <2>1. n - 1 \in 1..n
    BY <1>2, <1>10
  <2>2. L - 1 \in 1..L
    BY <1>6, <1>9, <2>1
  <2>3. L > 1
    BY <1>2, <2>2
  <2>4. D[L - 1] = Q => s[n - 1] = Q
    BY <1>6, <1>8, <1>9, <2>1
  <2> QED
    BY <2>3, <2>4
<1> QED
  BY <1>5, <1>9, <1>10 DEF n, D, L

\* A member whose value is a string: it begins after position a.
Field(x, a, key, s) ==
  /\ a \in Nat /\ a + 7 + Size(s) <= Len(x)
  /\ TokenAt(x, a + 1, key)
  /\ x[a + 4] = Colon /\ x[a + 5] = Blank /\ x[a + 6] = Q
  /\ \A j \in 1..Size(s) : x[a + 6 + j] = Dumped(s)[j]
  /\ x[a + 7 + Size(s)] = Q

\* The value is taken for another key only if it ends like one.
LEMMA FieldTokens ==
  ASSUME NEW x \in Text, NEW a, NEW k, NEW s \in Text, Field(x, a, k, s),
         NEW key \in Keys, key # k,
         NEW i \in (a + 1)..(a + 6 + Size(s)), TokenAt(x, i, key)
  PROVE  /\ i = a + 5 + Size(s) /\ Size(s) >= 1 /\ Dumped(s)[Size(s)] = key
         /\ Size(s) > 1 => Dumped(s)[Size(s) - 1] = Q
<1> DEFINE D == Dumped(s)
           L == Size(s)
<1>1. L \in Nat /\ Len(D) = L /\ a \in Nat
  BY DumpedLayout, TextIndex DEF Size, Field
<1>2. PICK E : Marked(D, E)
  BY Marks
<1>3. /\ E \subseteq 1..L /\ 1 \notin E
      /\ \A j \in 1..L : j + 1 \in E <=> D[j] = BS /\ j \notin E
      /\ \A j \in 1..L : D[j] = Q => j \in E
  BY <1>1, <1>2 DEF Marked
<1>4. key \notin {Q, BS, Colon, Blank}
  BY KeysDiffer, Zenon
<1>5. /\ x[a + 2] = k /\ x[a + 3] = Q /\ x[a + 4] = Colon /\ x[a + 5] = Blank /\ x[a + 6] = Q
      /\ \A j \in 1..L : x[a + 6 + j] = D[j]
      /\ x[a + 7 + L] = Q
  <2>1. (a + 1) + 1 = a + 2 /\ (a + 1) + 2 = a + 3
    BY <1>1
  <2> QED
    BY <2>1 DEF Field, TokenAt
<1>6. x[i] = Q /\ x[i + 1] = key /\ x[i + 2] = Q /\ key # k /\ i \in (a + 1)..(a + 6 + L)
  BY DEF TokenAt
<1> HIDE DEF D, L
<1>7. i + 1 # a + 2 /\ i + 1 # a + 3 /\ i + 1 # a + 4 /\ i + 1 # a + 5 /\ i + 1 # a + 6
      /\ i + 1 # a + 7 + L
  BY <1>4, <1>5, <1>6
<1> DEFINE j == i - (a + 5)
<1>8. j \in 1..L /\ i + 1 = a + 6 + j
  BY <1>1, <1>6, <1>7
<1> HIDE DEF j
<1>9. D[j] = key
  BY <1>5, <1>6, <1>8
<1>10. j = L
  <2> SUFFICES ASSUME j # L PROVE FALSE
    OBVIOUS
  <2>1. j + 1 \in 1..L /\ i + 2 = a + 6 + (j + 1)
    BY <1>1, <1>6, <1>8
  <2>2. D[j + 1] = Q
    BY <1>5, <1>6, <2>1
  <2>3. j + 1 \in E
    BY <1>3, <2>1, <2>2
  <2>4. D[j] = BS
    BY <1>3, <1>8, <2>3
  <2> QED
    BY <1>4, <1>9, <2>4
<1>11. ASSUME L > 1
       PROVE  D[L - 1] = Q
  <2>1. L - 1 \in 1..L /\ i = a + 6 + (L - 1)
    BY <1>1, <1>6, <1>8, <1>10, <1>11
  <2> QED
    BY <1>5, <1>6, <2>1
<1>12. i = a + 5 + L /\ L >= 1
  BY <1>1, <1>6, <1>8, <1>10
<1> QED
  BY <1>9, <1>10, <1>11, <1>12 DEF D, L

\* What is read for the key of a member, if nothing before it looks like the key,
\* or what does is followed by no colon of its own.
LEMMA FieldValue ==
  ASSUME NEW x \in Text, NEW a, NEW key, NEW s \in Text, Field(x, a, key, s),
         \A i \in 1..a : TokenAt(x, i, key) => \A j \in (i + 3)..(a + 3) : x[j] # Colon
  PROVE  ExtractStringValue(x, key) = Spelt(s)
<1> DEFINE L == Size(s)
           t == a + 1
           v == a + 6
<1>1. L \in Nat /\ a \in Nat /\ Len(x) \in Nat /\ a + 7 + L <= Len(x)
  BY DumpedLayout, TextIndex DEF Size, Field
<1>2. /\ t \in Nat \ {0} /\ t + 5 <= Len(x) /\ t + 3 = a + 4 /\ t + 4 = a + 5 /\ t + 5 = v
      /\ t - 1 = a /\ t + 2 = a + 3 /\ v \in Nat \ {0}
      /\ v + L + 1 = a + 7 + L /\ v + L + 1 \in 1..Len(x) /\ v + L <= Len(x)
  <2> HIDE DEF L
  <2> QED
    BY <1>1
<1>3. TokenAt(x, t, key) /\ x[t + 3] = Colon /\ x[t + 4] = Blank /\ x[t + 5] = Q /\ Q # Blank
  BY <1>2, SignsDiffer DEF Field
<1>4. \A i \in 1..(t - 1) : TokenAt(x, i, key) => \A j \in (i + 3)..(t + 2) : x[j] # Colon
  BY <1>2
<1>5. x[v] = Q /\ x[v + L + 1] = Q
  BY <1>2 DEF Field
<1>6. Lies(x, v, Dumped(s))
  BY <1>2 DEF Field, Lies, Size
<1> HIDE DEF t, v
<1>7. ValueAt(x, key) = v
  <2>1. ValueAt(x, key) = t + 5
    BY <1>2, <1>3, <1>4, ValueIs
  <2> QED
    BY <1>2, <2>1
<1> QED
  BY <1>2, <1>5, <1>6, <1>7, ExtractString DEF L, Size

-----------------------------------------------------------------------------
(* Brackets.                                                               *)

\* The states of the loop that counts brackets.
Out(d)   == [depth |-> d, string |-> FALSE, escaped |-> FALSE]
In(d, e) == [depth |-> d, string |-> TRUE, escaped |-> e]
Scan     == [depth : Int, string : BOOLEAN, escaped : BOOLEAN]

LEMMA OutIn ==
  ASSUME NEW d \in Int
  PROVE  /\ Out(d) \in Scan /\ Out(d).depth = d /\ ~Out(d).string
         /\ \A e \in BOOLEAN : In(d, e) \in Scan /\ In(d, e).depth = d
BY DEF Out, In, Scan

LEMMA BracketStays ==
  ASSUME NEW c, NEW b \in Scan
  PROVE  BracketAt(c, b) \in Scan
<1>1. b.depth \in Int /\ b.string \in BOOLEAN /\ b.escaped \in BOOLEAN
  BY DEF Scan
<1>2. CASE b.string
  BY <1>1, <1>2 DEF BracketAt, Scan
<1>3. CASE ~b.string
  <2> DEFINE open == "{"
             shut == "}"
             d == CASE c = open -> b.depth + 1 [] c = shut -> b.depth - 1 [] OTHER -> b.depth
  <2>1. BracketAt(c, b) = [b EXCEPT !.string = c = Q, !.depth = d]
    BY <1>3, Zenon DEF BracketAt
  <2>3. open # shut
    OBVIOUS
  <2> HIDE DEF open, shut
  <2>2. d \in Int
    BY <1>1, <2>3
  <2> HIDE DEF d
  <2> QED
    BY <2>1, <2>2 DEF Scan
<1> QED
  BY <1>2, <1>3

\* One step outside a string, and inside.
LEMMA BracketOut ==
  ASSUME NEW d \in Int
  PROVE  /\ BracketAt(Q, Out(d)) = In(d, FALSE)
         /\ BracketAt(Open, Out(d)) = Out(d + 1)
         /\ BracketAt(Shut, Out(d)) = Out(d - 1)
         /\ \A c : c \notin {Q, Open, Shut} => BracketAt(c, Out(d)) = Out(d)
<1> DEFINE b == Out(d)
           depth(c) == CASE c = Open -> d + 1 [] c = Shut -> d - 1 [] OTHER -> d
<1>1. ~b.string /\ b.depth = d
  BY DEF Out
<1>2. \A s \in BOOLEAN, m \in Int :
        [b EXCEPT !.string = s, !.depth = m] = [depth |-> m, string |-> s, escaped |-> FALSE]
  <2> TAKE s \in BOOLEAN, m \in Int
  <2>1. b = [depth |-> d, string |-> FALSE, escaped |-> FALSE]
    BY DEF Out
  <2>2. b \in Scan /\ b.escaped = FALSE
    BY DEF Out, Scan
  <2> HIDE DEF b
  <2> DEFINE c == [b EXCEPT !.string = s, !.depth = m]
  <2>3. c \in Scan /\ c.depth = m /\ c.string = s /\ c.escaped = FALSE
    BY <2>2 DEF Scan
  <2> HIDE DEF c
  <2>4. c = [depth |-> m, string |-> s, escaped |-> FALSE]
    BY <2>3 DEF Scan
  <2> QED
    BY <2>4 DEF c
<1> HIDE DEF b
<1>3. \A c : BracketAt(c, b) = [b EXCEPT !.string = c = Q, !.depth = depth(c)]
  BY <1>1, Zenon DEF BracketAt, Open, Shut
<1>4. Open # Q /\ Shut # Q /\ Shut # Open
  BY SignsDiffer
<1>5. /\ depth(Open) = d + 1 /\ depth(Shut) = d - 1 /\ depth(Q) = d
      /\ \A c : c \notin {Q, Open, Shut} => depth(c) = d
  BY <1>4
<1>6. d \in Int /\ d + 1 \in Int /\ d - 1 \in Int
  OBVIOUS
<1> HIDE DEF depth
<1>7. \A c : \A s \in BOOLEAN : \A m \in Int :
        (c = Q <=> s) /\ depth(c) = m => BracketAt(c, b) = [depth |-> m, string |-> s, escaped |-> FALSE]
  <2> TAKE c
  <2> TAKE s \in BOOLEAN
  <2> TAKE m \in Int
  <2> HAVE (c = Q <=> s) /\ depth(c) = m
  <2>1. (c = Q) = s
    OBVIOUS
  <2> QED
    BY <1>2, <1>3, <2>1
<1>8. BracketAt(Q, b) = [depth |-> d, string |-> TRUE, escaped |-> FALSE]
  BY <1>5, <1>6, <1>7
<1>9. BracketAt(Open, b) = [depth |-> d + 1, string |-> FALSE, escaped |-> FALSE]
  BY <1>4, <1>5, <1>6, <1>7
<1>10. BracketAt(Shut, b) = [depth |-> d - 1, string |-> FALSE, escaped |-> FALSE]
  BY <1>4, <1>5, <1>6, <1>7
<1>11. \A c : c \notin {Q, Open, Shut} =>
        BracketAt(c, b) = [depth |-> d, string |-> FALSE, escaped |-> FALSE]
  BY <1>5, <1>6, <1>7
<1> QED
  BY <1>8, <1>9, <1>10, <1>11 DEF b, Out, In

LEMMA BracketIn ==
  ASSUME NEW d \in Int
  PROVE  /\ BracketAt(Q, In(d, FALSE)) = Out(d)
         /\ \A c : \A e \in BOOLEAN : (c # Q \/ e) => BracketAt(c, In(d, e)) = In(d, ~e /\ c = BS)
<1>1. Q # BS
  BY Characters, Zenon
<1>2. \A e \in BOOLEAN : In(d, e).string /\ (In(d, e).escaped <=> e)
  BY DEF In
<1>3. \A c : \A e \in BOOLEAN : BracketAt(c, In(d, e)) =
        [depth |-> d, string |-> e \/ c # Q, escaped |-> ~e /\ c = BS]
  BY <1>2 DEF BracketAt, In
<1> QED
  BY <1>1, <1>3 DEF In, Out

\* How the brackets of s are counted from the value of the key on.
Brackets(s, key, v, at) ==
  /\ at[v - 1] = Outside
  /\ \A i \in (v - 1)..Len(s) : at[i] \in Scan
  /\ \A i \in v..Len(s) : at[i] = BracketAt(s[i], at[i - 1])
  /\ ExtractObjectValue(s, key) =
       LET end == First({i \in v..Len(s) : s[i] = Shut /\ ~at[i].string /\ at[i].depth = 0})
       IN  IF v = 0 \/ s[v] # Open \/ end = 0 THEN None ELSE SubSeq(s, v, end)

\* ExtractObjectValue() is computed by a function of the positions.
LEMMA ObjectLoop ==
  ASSUME NEW s \in Text, NEW key, NEW v \in 1..Len(s), ValueAt(s, key) = v
  PROVE  \E at : Brackets(s, key, v, at)
<1> DEFINE L == Len(s)
           w == v - 1
           g == [z \in ((w + 1)..L) \X Scan |-> BracketAt(s[z[1]], z[2])]
           Step(f) == [i \in w..L |-> IF i = w THEN Outside ELSE BracketAt(s[i], f[i - 1])]
           at == CHOOSE f : f = Step(f)
<1>1. w \in Int /\ L \in Int /\ w <= L /\ (w + 1)..L = v..L /\ L \in Nat /\ w \in Nat
  BY TextIndex
<1>2. g \in [((w + 1)..L) \X Scan -> Scan]
  <2>1. \A z \in ((w + 1)..L) \X Scan : BracketAt(s[z[1]], z[2]) \in Scan
    BY BracketStays
  <2> QED
    BY <2>1
<1>0. Outside \in Scan
  BY DEF Outside, Scan
<1>3. \E f : Follows(f, w, L, Scan, Outside, g)
  <2> HIDE DEF g, L, w
  <2> QED
    BY <1>0, <1>1, <1>2, Recursion, Zenon
<1>4. PICK f : Follows(f, w, L, Scan, Outside, g)
  BY <1>3
<1>5. f \in [w..L -> Scan] /\ f[w] = Outside /\ \A i \in (w + 1)..L : f[i] = g[<<i, f[i - 1]>>]
  BY <1>4 DEF Follows
<1>6. f = Step(f)
  <2>1. ASSUME NEW i \in (w + 1)..L
        PROVE  f[i] = BracketAt(s[i], f[i - 1])
    <3>1. f[i - 1] \in Scan
      BY <1>1, <1>5
    <3>2. g[<<i, f[i - 1]>>] = BracketAt(s[i], f[i - 1])
      BY <3>1
    <3> HIDE DEF g, L, w
    <3> QED
      BY <1>5, <3>2
  <2>2. \A i \in w..L : i = w \/ i \in (w + 1)..L
    BY <1>1
  <2>3. w \in w..L /\ w \notin (w + 1)..L
    BY <1>1
  <2> HIDE DEF g, L, w
  <2> DEFINE h(i) == IF i = w THEN Outside ELSE BracketAt(s[i], f[i - 1])
  <2>4. \A i \in w..L : f[i] = h(i)
    BY <1>5, <2>1, <2>2, <2>3
  <2> HIDE DEF h
  <2>5. f = [i \in w..L |-> h(i)]
    BY <1>5, <2>4
  <2> QED
    BY <2>5 DEF h
<1>7. at = Step(at)
  <2> HIDE DEF Step
  <2>1. \E h : h = Step(h)
    BY <1>6, Zenon
  <2> QED
    BY <2>1, Zenon
<1>8. ExtractObjectValue(s, key) =
        LET end == First({i \in v..L : s[i] = Shut /\ ~at[i].string /\ at[i].depth = 0})
        IN  IF v = 0 \/ s[v] # Open \/ end = 0 THEN None ELSE SubSeq(s, v, end)
  BY ZenonT(40) DEF ExtractObjectValue, Open, Shut
<1> HIDE DEF at, g
<1>9. at[w] = Outside /\ \A i \in (w + 1)..L : at[i] = BracketAt(s[i], at[i - 1])
  <2>1. \A i \in w..L : at[i] = IF i = w THEN Outside ELSE BracketAt(s[i], at[i - 1])
    BY <1>7
  <2>2. w \in w..L /\ \A i \in (w + 1)..L : i \in w..L /\ i # w
    BY <1>1
  <2> HIDE DEF w, L
  <2> QED
    BY <2>1, <2>2, Zenon
<1>10. \A i \in w..L : at[i] \in Scan
  <2> DEFINE T == {i \in w..L : at[i] \in Scan}
  <2>1. w \in T
    BY <1>0, <1>1, <1>9
  <2>2. ASSUME NEW k \in w..(L - 1), k \in T
        PROVE  k + 1 \in T
    <3>1. k + 1 \in (w + 1)..L /\ (k + 1) - 1 = k /\ k + 1 \in w..L
      BY <1>1
    <3>2. at[k + 1] = BracketAt(s[k + 1], at[k]) /\ at[k] \in Scan
      BY <1>9, <2>2, <3>1
    <3> QED
      BY <3>1, <3>2, BracketStays
  <2>3. \A k \in w..L : k \in T
    <3> HIDE DEF T, L, w
    <3> QED
      BY <1>1, <2>1, <2>2, Induct
  <2> QED
    BY <2>3
<1>11. \A i \in v..L : at[i] = BracketAt(s[i], at[i - 1])
  BY <1>1, <1>9
<1> HIDE DEF L
<1> QED
  BY <1>8, <1>9, <1>10, <1>11, Zenon DEF w, L, Brackets

SizeFact == \A s \in Text : Size(s) \in Nat /\ Dumped(s) \in Text

LEMMA Sizes == SizeFact
BY DumpedLayout, TextIndex DEF Size, SizeFact

\* The characters of a member, one by one.
LEMMA FieldIs ==
  ASSUME NEW x \in Text, NEW a, NEW k, NEW s \in Text, Field(x, a, k, s)
  PROVE  /\ a \in Nat /\ Size(s) \in Nat /\ Len(x) \in Nat /\ a + 7 + Size(s) <= Len(x)
         /\ x[a + 1] = Q /\ x[a + 2] = k /\ x[a + 3] = Q
         /\ x[a + 4] = Colon /\ x[a + 5] = Blank /\ x[a + 6] = Q
         /\ \A j \in 1..Size(s) : x[a + 6 + j] = Dumped(s)[j]
         /\ x[a + 7 + Size(s)] = Q
<1>1. a \in Nat /\ Size(s) \in Nat /\ Len(x) \in Nat
  BY Sizes, TextIndex DEF Field, SizeFact
<1>2. (a + 1) + 1 = a + 2 /\ (a + 1) + 2 = a + 3
  BY <1>1
<1>3. x[a + 1] = Q /\ x[(a + 1) + 1] = k /\ x[(a + 1) + 2] = Q
  BY DEF Field, TokenAt
<1>4. x[a + 2] = k /\ x[a + 3] = Q
  BY <1>2, <1>3
<1> QED
  BY <1>1, <1>3, <1>4 DEF Field

LEMMA SixPlaces ==
  \A a, l \in Nat :
    /\ a + 1 \in (a + 1)..(a + 7 + l) /\ a + 2 \in (a + 1)..(a + 7 + l)
    /\ a + 3 \in (a + 1)..(a + 7 + l) /\ a + 4 \in (a + 1)..(a + 7 + l)
    /\ a + 5 \in (a + 1)..(a + 7 + l) /\ a + 6 \in (a + 1)..(a + 7 + l)
    /\ (a + 1) - 1 = a /\ (a + 2) - 1 = a + 1 /\ (a + 3) - 1 = a + 2
    /\ (a + 4) - 1 = a + 3 /\ (a + 5) - 1 = a + 4 /\ (a + 6) - 1 = a + 5
OBVIOUS

\* The brackets in the key and in the value of a member are not counted.
LEMMA FieldScan ==
  ASSUME NEW x \in Text, NEW a, NEW k \in Keys, NEW s \in Text, Field(x, a, k, s),
         NEW d \in Int, NEW at, at[a] = Out(d),
         \A i \in (a + 1)..(a + 7 + Size(s)) : at[i] = BracketAt(x[i], at[i - 1])
  PROVE  /\ at[a + 7 + Size(s)] = Out(d)
         /\ \A i \in a..(a + 7 + Size(s)) : at[i].depth = d
<1> DEFINE D == Dumped(s)
           L == Size(s)
           in(e) == In(d, e)
           out == Out(d)
<1>1. L \in Nat /\ Len(D) = L /\ a \in Nat
  BY Sizes, FieldIs DEF Size, SizeFact
<1>2. PICK E : Marked(D, E)
  BY Marks
<1>3. /\ E \subseteq 1..L /\ 1 \notin E
      /\ \A j \in 1..L : j + 1 \in E <=> D[j] = BS /\ j \notin E
      /\ \A j \in 1..L : D[j] = Q => j \in E
  BY <1>1, <1>2 DEF Marked
<1>4. k \notin {Q, BS}
  BY KeysDiffer, Zenon
<1>5. /\ x[a + 1] = Q /\ x[a + 2] = k /\ x[a + 3] = Q
      /\ x[a + 4] = Colon /\ x[a + 5] = Blank /\ x[a + 6] = Q
      /\ \A j \in 1..L : x[a + 6 + j] = D[j]
      /\ x[a + 7 + L] = Q
  BY FieldIs
<1>6. /\ BracketAt(Q, out) = in(FALSE) /\ BracketAt(Q, in(FALSE)) = out
      /\ BracketAt(Colon, out) = out /\ BracketAt(Blank, out) = out
  BY BracketOut, BracketIn, SignsDiffer
<1>7. \A c : \A e, f \in BOOLEAN : (c # Q \/ e) /\ (f <=> ~e /\ c = BS) => BracketAt(c, in(e)) = in(f)
  <2> TAKE c
  <2> TAKE e, f \in BOOLEAN
  <2> HAVE (c # Q \/ e) /\ (f <=> ~e /\ c = BS)
  <2>1. BracketAt(c, in(e)) = in(~e /\ c = BS)
    BY BracketIn
  <2>2. (~e /\ c = BS) = f
    OBVIOUS
  <2> QED
    BY <2>1, <2>2
<1>8. out.depth = d /\ \A e \in BOOLEAN : in(e).depth = d
  BY OutIn
<1>9. /\ at[a] = out
      /\ \A i \in (a + 1)..(a + 7 + L) : at[i] = BracketAt(x[i], at[i - 1])
  OBVIOUS
<1> HIDE DEF D, L, in, out
<1>10. /\ at[a + 1] = in(FALSE) /\ at[a + 2] = in(FALSE) /\ at[a + 3] = out
       /\ at[a + 4] = out /\ at[a + 5] = out /\ at[a + 6] = in(FALSE)
  <2>1. /\ a + 1 \in (a + 1)..(a + 7 + L) /\ a + 2 \in (a + 1)..(a + 7 + L)
        /\ a + 3 \in (a + 1)..(a + 7 + L) /\ a + 4 \in (a + 1)..(a + 7 + L)
        /\ a + 5 \in (a + 1)..(a + 7 + L) /\ a + 6 \in (a + 1)..(a + 7 + L)
        /\ (a + 1) - 1 = a /\ (a + 2) - 1 = a + 1 /\ (a + 3) - 1 = a + 2
        /\ (a + 4) - 1 = a + 3 /\ (a + 5) - 1 = a + 4 /\ (a + 6) - 1 = a + 5
    BY <1>1, SixPlaces, Zenon
  <2>2. /\ at[a + 1] = BracketAt(x[a + 1], at[a]) /\ at[a + 2] = BracketAt(x[a + 2], at[a + 1])
        /\ at[a + 3] = BracketAt(x[a + 3], at[a + 2]) /\ at[a + 4] = BracketAt(x[a + 4], at[a + 3])
        /\ at[a + 5] = BracketAt(x[a + 5], at[a + 4]) /\ at[a + 6] = BracketAt(x[a + 6], at[a + 5])
    <3>1. /\ at[a + 1] = BracketAt(x[a + 1], at[(a + 1) - 1])
          /\ at[a + 2] = BracketAt(x[a + 2], at[(a + 2) - 1])
          /\ at[a + 3] = BracketAt(x[a + 3], at[(a + 3) - 1])
          /\ at[a + 4] = BracketAt(x[a + 4], at[(a + 4) - 1])
          /\ at[a + 5] = BracketAt(x[a + 5], at[(a + 5) - 1])
          /\ at[a + 6] = BracketAt(x[a + 6], at[(a + 6) - 1])
      BY <1>9, <2>1, Zenon
    <3> QED
      BY <2>1, <3>1, Zenon
  <2>3. at[a + 1] = in(FALSE)
    BY <1>5, <1>6, <1>9, <2>2, Zenon
  <2>4. at[a + 2] = in(FALSE)
    <3>1. at[a + 2] = BracketAt(k, in(FALSE))
      BY <1>5, <2>2, <2>3, Zenon
    <3> QED
      BY <1>4, <1>7, <3>1
  <2>5. at[a + 3] = out
    BY <1>5, <1>6, <2>2, <2>4, Zenon
  <2>6. at[a + 4] = out
    BY <1>5, <1>6, <2>2, <2>5, Zenon
  <2>7. at[a + 5] = out
    BY <1>5, <1>6, <2>2, <2>6, Zenon
  <2>8. at[a + 6] = in(FALSE)
    BY <1>5, <1>6, <2>2, <2>7, Zenon
  <2> QED
    BY <2>3, <2>4, <2>5, <2>6, <2>7, <2>8
<1> DEFINE T == {j \in 0..L : \E e \in BOOLEAN : (e <=> j + 1 \in E) /\ at[a + 6 + j] = in(e)}
<1>11. 0 \in T
  <2>1. 0 \in 0..L /\ a + 6 + 0 = a + 6 /\ 0 + 1 = 1
    BY <1>1
  <2> QED
    BY <1>3, <1>10, <2>1
<1>12. ASSUME NEW j \in 0..(L - 1), j \in T
       PROVE  j + 1 \in T
  <2>1. PICK e \in BOOLEAN : (e <=> j + 1 \in E) /\ at[a + 6 + j] = in(e)
    BY <1>12
  <2>2. /\ j + 1 \in 1..L /\ j + 1 \in 0..L /\ a + 6 + (j + 1) \in (a + 1)..(a + 7 + L)
        /\ (a + 6 + (j + 1)) - 1 = a + 6 + j
    BY <1>1
  <2>3. at[a + 6 + (j + 1)] = BracketAt(D[j + 1], in(e))
    BY <1>5, <1>9, <2>1, <2>2
  <2>4. D[j + 1] # Q \/ e
    BY <1>3, <2>1, <2>2
  <2> DEFINE f == (j + 1) + 1 \in E
  <2>5. f \in BOOLEAN /\ (f <=> ~e /\ D[j + 1] = BS)
    BY <1>3, <2>1, <2>2
  <2>6. f <=> (j + 1) + 1 \in E
    OBVIOUS
  <2> HIDE DEF f
  <2>7. at[a + 6 + (j + 1)] = in(f)
    BY <1>7, <2>3, <2>4, <2>5
  <2> QED
    BY <2>2, <2>5, <2>6, <2>7
<1>13. \A j \in 0..L : j \in T
  <2>1. 0 \in Int /\ L \in Int
    BY <1>1
  <2> HIDE DEF T
  <2> QED
    BY <1>11, <1>12, <2>1, Induct
<1>14. at[a + 7 + L] = out
  <2>1. PICK e \in BOOLEAN : (e <=> L + 1 \in E) /\ at[a + 6 + L] = in(e)
    BY <1>1, <1>13
  <2>2. L + 1 \notin E /\ (a + 7 + L) - 1 = a + 6 + L /\ a + 7 + L \in (a + 1)..(a + 7 + L)
    BY <1>1, <1>3
  <2>3. e = FALSE
    BY <2>1, <2>2
  <2> QED
    BY <1>5, <1>6, <1>9, <2>1, <2>2, <2>3
<1>15. ASSUME NEW i \in a..(a + 7 + L)
       PROVE  at[i].depth = d
  <2>1. CASE i \in (a + 6)..(a + 6 + L)
    <3> DEFINE j == i - (a + 6)
    <3>1. j \in 0..L /\ i = a + 6 + j
      BY <1>1, <2>1
    <3> HIDE DEF j
    <3>2. \E e \in BOOLEAN : at[i] = in(e)
      BY <1>13, <3>1
    <3> QED
      BY <1>8, <3>2
  <2>2. CASE i \notin (a + 6)..(a + 6 + L)
    <3>1. i = a \/ i = a + 1 \/ i = a + 2 \/ i = a + 3 \/ i = a + 4 \/ i = a + 5 \/ i = a + 7 + L
      BY <1>1, <2>2
    <3>2. FALSE \in BOOLEAN
      OBVIOUS
    <3> QED
      BY <1>8, <1>9, <1>10, <1>14, <3>1, <3>2
  <2> QED
    BY <2>1, <2>2
<1> QED
  BY <1>14, <1>15 DEF out, L

\* The object of a request ends at the bracket that closes it.
LEMMA ObjectEnds ==
  ASSUME NEW x \in Text, NEW v \in 1..Len(x), NEW z \in v..(Len(x) - 1), NEW at,
         x[v] = Open, x[z + 1] = Shut, at[z] = Out(1),
         \A i \in v..z : at[i].depth = 1,
         \A i \in v..Len(x) : at[i] = BracketAt(x[i], at[i - 1])
  PROVE  First({i \in v..Len(x) : x[i] = Shut /\ ~at[i].string /\ at[i].depth = 0}) = z + 1
<1> DEFINE L == Len(x)
           S == {i \in v..L : x[i] = Shut /\ ~at[i].string /\ at[i].depth = 0}
<1>1. L \in Nat
  BY TextIndex
<1>2. z + 1 \in v..L /\ (z + 1) - 1 = z /\ z + 1 \in Int
  BY <1>1
<1>3. at[z + 1] = Out(0)
  <2>1. at[z + 1] = BracketAt(Shut, Out(1))
    BY <1>2
  <2>2. BracketAt(Shut, Out(1)) = Out(1 - 1) /\ 1 - 1 = 0
    <3>1. \A d \in Int : BracketAt(Shut, Out(d)) = Out(d - 1)
      BY BracketOut
    <3>2. 1 \in Int /\ 1 - 1 = 0
      OBVIOUS
    <3>3. BracketAt(Shut, Out(1)) = Out(1 - 1)
      BY <3>1, <3>2, Zenon
    <3> QED
      BY <3>2, <3>3
  <2> QED
    BY <2>1, <2>2
<1>4. ~at[z + 1].string /\ at[z + 1].depth = 0
  <2>1. 0 \in Int
    OBVIOUS
  <2> QED
    BY <1>3, <2>1, OutIn
<1>5. z + 1 \in S
  BY <1>2, <1>4
<1>6. \A i \in S : i \in Int /\ z + 1 <= i
  <2> SUFFICES ASSUME NEW i \in v..L, at[i].depth = 0, ~(z + 1 <= i)
               PROVE  FALSE
    OBVIOUS
  <2>1. i \in v..z
    BY <1>1
  <2>2. at[i].depth = 1
    BY <2>1
  <2> QED
    BY <2>2
<1> HIDE DEF S
<1>7. First(S) = z + 1
  BY <1>5, <1>6, FirstIs
<1> QED
  BY <1>7 DEF S, L

-----------------------------------------------------------------------------
(* What a packed request looks like.                                       *)

One     == "1"
TypeKey == "type"
IdKey   == "request_id"
TimeKey == "timestamp"
DataKey == "data"
UserKey == "username"
PassKey == "password"
TextKey == "text"
Login   == "login_req"
Chat    == "chat_req"

\* The provers are told once that the names differ.
LEMMA NamesDiffer ==
  /\ {TypeKey, IdKey, DataKey, UserKey, PassKey, TextKey} = Keys
  /\ {One, TypeKey, IdKey, TimeKey, DataKey, UserKey, PassKey, TextKey, Login, Chat} \subseteq Signs
  /\ TimeKey \notin Keys /\ One \notin Keys /\ Login \notin Keys /\ Chat \notin Keys /\ Login # Chat
  /\ IdKey # TypeKey /\ DataKey # TypeKey /\ DataKey # IdKey /\ PassKey # UserKey
  /\ One # Q /\ {Login, Chat} \cap {Q, BS, LF, Wide} = {}
  /\ Login # "nothing" /\ Chat # "nothing" /\ Open # "nothing"
BY DEF One, TypeKey, IdKey, TimeKey, DataKey, UserKey, PassKey, TextKey, Login, Chat, Keys, Signs,
       Q, BS, LF, Wide, Open

Prefix(key) == <<Q, key, Q, Colon, Blank>>

LEMMA JoinedLen ==
  \A s, t \in Text : s \o t \in Text /\ Len(s \o t) = Len(s) + Len(t)
BY ConcatProperties DEF Text

LEMMA FiveSigns ==
  \A a, b, c, d, e \in Signs :
    /\ <<a, b, c, d, e>> \in Text /\ Len(<<a, b, c, d, e>>) = 5
    /\ <<a, b, c, d, e>>[1] = a /\ <<a, b, c, d, e>>[2] = b /\ <<a, b, c, d, e>>[3] = c
    /\ <<a, b, c, d, e>>[4] = d /\ <<a, b, c, d, e>>[5] = e
BY DEF Text

LEMMA LiesIs ==
  ASSUME NEW x \in Text, NEW a, NEW t \in Text, Lies(x, a, t)
  PROVE  /\ a \in Nat /\ Len(t) \in Nat /\ Len(x) \in Nat /\ a + Len(t) <= Len(x)
         /\ \A j \in 1..Len(t) : x[a + j] = t[j]
BY TextIndex DEF Lies

LEMMA LiesFive ==
  ASSUME NEW x \in Text, NEW o, NEW a \in Signs, NEW b \in Signs, NEW c \in Signs, NEW d \in Signs,
         NEW e \in Signs, Lies(x, o, <<a, b, c, d, e>>)
  PROVE  /\ o \in Nat /\ o + 5 <= Len(x)
         /\ x[o + 1] = a /\ x[o + 2] = b /\ x[o + 3] = c /\ x[o + 4] = d /\ x[o + 5] = e
<1> DEFINE t == <<a, b, c, d, e>>
<1>1. t \in Text /\ Len(t) = 5 /\ t[1] = a /\ t[2] = b /\ t[3] = c /\ t[4] = d /\ t[5] = e
  BY FiveSigns
<1>2. Lies(x, o, t)
  OBVIOUS
<1> HIDE DEF t
<1>3. o \in Nat /\ o + Len(t) <= Len(x) /\ \A j \in 1..Len(t) : x[o + j] = t[j]
  BY <1>2 DEF Lies
<1> QED
  BY <1>1, <1>3

LEMMA LiesTwo ==
  ASSUME NEW x \in Text, NEW o, NEW a \in Signs, NEW b \in Signs, Lies(x, o, <<a, b>>)
  PROVE  o \in Nat /\ o + 2 <= Len(x) /\ x[o + 1] = a /\ x[o + 2] = b
<1> DEFINE t == <<a, b>>
<1>1. t \in Text /\ Len(t) = 2 /\ t[1] = a /\ t[2] = b
  BY Tuples
<1>2. Lies(x, o, t)
  OBVIOUS
<1> HIDE DEF t
<1>3. o \in Nat /\ o + Len(t) <= Len(x) /\ \A j \in 1..Len(t) : x[o + j] = t[j]
  BY <1>2 DEF Lies
<1> QED
  BY <1>1, <1>3

LEMMA LiesOne ==
  ASSUME NEW x \in Text, NEW o, NEW a \in Signs, Lies(x, o, <<a>>)
  PROVE  o \in Nat /\ o + 1 <= Len(x) /\ x[o + 1] = a
<1> DEFINE t == <<a>>
<1>1. t \in Text /\ Len(t) = 1 /\ t[1] = a
  BY Tuples
<1>2. Lies(x, o, t)
  OBVIOUS
<1> HIDE DEF t
<1>3. o \in Nat /\ o + Len(t) <= Len(x) /\ \A j \in 1..Len(t) : x[o + j] = t[j]
  BY <1>2 DEF Lies
<1> QED
  BY <1>1, <1>3

LEMMA LiesThree ==
  ASSUME NEW x \in Text, NEW o, NEW a \in Signs, NEW b \in Signs, NEW c \in Signs,
         Lies(x, o, <<a, b, c>>)
  PROVE  o \in Nat /\ o + 3 <= Len(x) /\ x[o + 1] = a /\ x[o + 2] = b /\ x[o + 3] = c
<1> DEFINE t == <<a, b, c>>
<1>1. t \in Text /\ Len(t) = 3 /\ t[1] = a /\ t[2] = b /\ t[3] = c
  BY Tuples
<1>2. Lies(x, o, t)
  OBVIOUS
<1> HIDE DEF t
<1>3. o \in Nat /\ o + Len(t) <= Len(x) /\ \A j \in 1..Len(t) : x[o + j] = t[j]
  BY <1>2 DEF Lies
<1> QED
  BY <1>1, <1>3

LEMMA DumpsIs ==
  ASSUME NEW s \in Text
  PROVE  /\ Dumps(s) = (<<Q>> \o Dumped(s)) \o <<Q>>
         /\ Dumps(s) \in Text /\ Len(Dumps(s)) = Size(s) + 2
<1> DEFINE D == Dumped(s)
           q == <<Q>>
           y == q \o D
           z == y \o q
<1>1. Dumps(s) = z
  BY DEF Dumps, Dumped, DumpedParts
<1>2. D \in Text /\ q \in Text /\ Len(q) = 1 /\ Len(D) = Size(s) /\ Size(s) \in Nat
  BY Sizes, Tuples, Characters DEF Size, SizeFact
<1> HIDE DEF D, q
<1>3. y \in Text /\ Len(y) = 1 + Size(s)
  BY <1>2, JoinedLen
<1> HIDE DEF y
<1>4. z \in Text /\ Len(z) = Size(s) + 2
  <2>1. z \in Text /\ Len(z) = Len(y) + Len(q)
    BY <1>2, <1>3, JoinedLen
  <2> HIDE DEF z
  <2> QED
    BY <1>2, <1>3, <2>1
<1> QED
  BY <1>1, <1>4 DEF D, q, y

LEMMA MemberIs ==
  ASSUME NEW key \in Signs, NEW t \in Text
  PROVE  /\ Member(key, t) = Prefix(key) \o t /\ Prefix(key) \in Text /\ Len(Prefix(key)) = 5
         /\ Member(key, t) \in Text /\ Len(Member(key, t)) = 5 + Len(t)
<1>1. Member(key, t) = Prefix(key) \o t
  BY Zenon DEF Member, Prefix, Colon, Blank
<1>2. Prefix(key) \in Text /\ Len(Prefix(key)) = 5
  BY FiveSigns, SignsDiffer, Characters DEF Prefix
<1>3. Prefix(key) \o t \in Text /\ Len(Prefix(key) \o t) = 5 + Len(t)
  BY <1>2, JoinedLen
<1> QED
  BY <1>1, <1>2, <1>3

LEMMA MemberLies ==
  ASSUME NEW x \in Text, NEW o, NEW key \in Signs, NEW t \in Text, Lies(x, o, Member(key, t))
  PROVE  /\ o \in Nat /\ TokenAt(x, o + 1, key) /\ x[o + 4] = Colon /\ x[o + 5] = Blank
         /\ Lies(x, o + 5, t)
<1> DEFINE p == Prefix(key)
<1>1. Lies(x, o, p \o t) /\ p \in Text /\ Len(p) = 5
  BY MemberIs
<1>2. Lies(x, o, p) /\ Lies(x, o + 5, t)
  <2> HIDE DEF p
  <2> QED
    BY <1>1, LiesJoin
<1>3. /\ o \in Nat /\ x[o + 1] = Q /\ x[o + 2] = key /\ x[o + 3] = Q /\ x[o + 4] = Colon /\ x[o + 5] = Blank
  BY <1>2, LiesFive, SignsDiffer, Characters DEF Prefix
<1>4. (o + 1) + 1 = o + 2 /\ (o + 1) + 2 = o + 3
  BY <1>3
<1> QED
  BY <1>2, <1>3, <1>4 DEF TokenAt

LEMMA MemberField ==
  ASSUME NEW x \in Text, NEW o, NEW key \in Signs, NEW s \in Text, Lies(x, o, Member(key, Dumps(s)))
  PROVE  Field(x, o, key, s)
<1> DEFINE D == Dumped(s)
           q == <<Q>>
           L == Size(s)
<1>1. /\ o \in Nat /\ TokenAt(x, o + 1, key) /\ x[o + 4] = Colon /\ x[o + 5] = Blank
      /\ Lies(x, o + 5, Dumps(s)) /\ Dumps(s) = (q \o D) \o q
  BY DumpsIs, MemberLies
<1>2. D \in Text /\ q \in Text /\ Len(q) = 1 /\ Len(D) = L /\ L \in Nat
  BY Sizes, Tuples, Characters DEF Size, SizeFact
<1> HIDE DEF D, L
<1>3. q \o D \in Text /\ Len(q \o D) = 1 + L
  BY <1>2, JoinedLen
<1>4. Lies(x, o + 5, q \o D) /\ Lies(x, (o + 5) + (1 + L), q)
  <2> DEFINE y == q \o D
  <2>1. Lies(x, o + 5, y \o q) /\ y \in Text /\ Len(y) = 1 + L
    BY <1>1, <1>3
  <2> HIDE DEF q, y
  <2>2. Lies(x, o + 5, y) /\ Lies(x, (o + 5) + Len(y), q)
    BY <1>2, <2>1, LiesJoin
  <2> QED
    BY <2>1, <2>2 DEF y
<1>5. Lies(x, o + 5, q) /\ Lies(x, (o + 5) + 1, D)
  <2> HIDE DEF q
  <2> QED
    BY <1>2, <1>4, LiesJoin
<1>6. x[(o + 5) + 1] = Q /\ x[((o + 5) + (1 + L)) + 1] = Q /\ ((o + 5) + (1 + L)) + 1 <= Len(x)
  <2>1. \A i : Lies(x, i, <<Q>>) => i + 1 <= Len(x) /\ x[i + 1] = Q
    BY LiesOne, Characters
  <2> QED
    BY <1>4, <1>5, <2>1, Zenon DEF q
<1>7. \A j \in 1..L : x[((o + 5) + 1) + j] = D[j]
  <2> DEFINE i == (o + 5) + 1
  <2>1. Lies(x, i, D)
    BY <1>5
  <2> HIDE DEF i
  <2>2. \A j \in 1..Len(D) : x[i + j] = D[j]
    BY <2>1 DEF Lies
  <2> QED
    BY <1>2, <2>2 DEF i
<1>8. /\ (o + 5) + 1 = o + 6 /\ ((o + 5) + (1 + L)) + 1 = o + 7 + L
      /\ o + 7 + L <= Len(x)
  BY <1>1, <1>2, <1>6
<1> QED
  BY <1>1, <1>6, <1>7, <1>8 DEF Field, D, L

LEMMA LiesWhole ==
  ASSUME NEW x \in Text
  PROVE  Lies(x, 0, x)
<1>1. Len(x) \in Nat /\ \A j \in 1..Len(x) : 0 + j = j
  BY TextIndex
<1> QED
  BY <1>1 DEF Lies

LEMMA Peel ==
  ASSUME NEW x \in Text, NEW s \in Text, NEW t \in Text, NEW y, y = s \o t, Lies(x, 0, y)
  PROVE  Lies(x, 0, s) /\ Lies(x, Len(s), t)
<1>1. Lies(x, 0, s) /\ Lies(x, 0 + Len(s), t)
  BY LiesJoin
<1>2. 0 + Len(s) = Len(s)
  BY TextIndex
<1> QED
  BY <1>1, <1>2

\* A type is written and read without any change.
LEMMA Single ==
  ASSUME NEW t \in {Login, Chat}
  PROVE  /\ <<t>> \in Text /\ Size(<<t>>) = 1 /\ Dumped(<<t>>) = <<t>> /\ Spelt(<<t>>) = <<t>>
<1> DEFINE s == <<t>>
           p == DumpedParts(s)
           q == SpeltParts(s)
<1>1. t \in Signs /\ t \notin {Q, BS, LF, Wide}
  BY NamesDiffer
<1>2. s \in Text /\ Len(s) = 1 /\ s[1] = t
  BY <1>1, Tuples
<1>3. DumpChar(t) = s /\ SpeltChar(t) = s
  <2>1. DumpChar(t) = <<t>>
    BY <1>1, DumpCharCases
  <2> QED
    BY <1>1, <2>1 DEF SpeltChar
<1>4. <<>> \o s = s
  BY <1>2, ConcatEmptySeq DEF Text
<1> HIDE DEF s, p, q
<1>5. 1 \in 1..1 /\ 1 - 1 = 0
  OBVIOUS
<1>6. Dumped(s) = s
  <2>1. PICK F : Layout(F, p, Dumped(s))
    BY <1>2, DumpedLayout DEF p
  <2>2. Len(p) = 1 /\ p[1] = DumpChar(t)
    BY <1>2, <1>5, DumpedLayout DEF p
  <2>3. F[0] = <<>> /\ F[Len(p)] = Dumped(s) /\ \A k \in 1..Len(p) : F[k] = F[k - 1] \o p[k]
    BY <2>1, Zenon DEF Layout
  <2>4. F[1] = Dumped(s) /\ F[1] = F[0] \o p[1]
    BY <1>5, <2>2, <2>3
  <2> QED
    BY <1>3, <1>4, <2>2, <2>3, <2>4
<1>7. Spelt(s) = s
  <2>1. PICK F : Layout(F, q, Spelt(s))
    BY <1>2, SpeltLayout DEF q
  <2>2. Len(q) = 1 /\ q[1] = SpeltChar(t)
    BY <1>2, <1>5, SpeltLayout DEF q
  <2>3. F[0] = <<>> /\ F[Len(q)] = Spelt(s) /\ \A k \in 1..Len(q) : F[k] = F[k - 1] \o q[k]
    BY <2>1, Zenon DEF Layout
  <2>4. F[1] = Spelt(s) /\ F[1] = F[0] \o q[1]
    BY <1>5, <2>2, <2>3
  <2> QED
    BY <1>3, <1>4, <2>2, <2>3, <2>4
<1> QED
  BY <1>2, <1>6, <1>7 DEF s, Size

\* What a request begins with, up to the object that is its data; m is where the
\* request id ends.
Header(x, t, id, m) ==
  /\ m = 17 + Size(id) /\ m + 17 <= Len(x)
  /\ x[1] = Open /\ Field(x, 1, TypeKey, <<t>>) /\ x[10] = Comma /\ x[11] = Blank
  /\ Field(x, 11, IdKey, id) /\ x[m + 2] = Comma /\ x[m + 3] = Blank
  /\ TokenAt(x, m + 4, TimeKey) /\ x[m + 7] = Colon /\ x[m + 8] = Blank
  /\ x[m + 9] = One /\ x[m + 10] = Comma /\ x[m + 11] = Blank
  /\ TokenAt(x, m + 12, DataKey) /\ x[m + 15] = Colon /\ x[m + 16] = Blank
  /\ x[m + 17] = Open

\* What is packed around the members of a request's data.
Packed(t, id, g) ==
  <<Open>> \o Member(TypeKey, <<Q, t, Q, Comma, Blank>>)
    \o Member(IdKey, Dumps(id)) \o <<Comma, Blank>>
    \o Member(TimeKey, <<One, Comma, Blank>>)
    \o Member(DataKey, <<Open>>) \o g \o <<Shut, Shut>>

\* Where the header and the members lie in it.
Unpacked(x, t, id, g) ==
  /\ x \in Text /\ Header(x, t, id, 17 + Size(id))
  /\ Lies(x, 34 + Size(id), g) /\ Lies(x, 34 + Size(id) + Len(g), <<Shut, Shut>>)
  /\ Len(x) = 36 + Size(id) + Len(g)

\* A packed request has its members where the server will look for them.
LEMMA HeaderPieces ==
  ASSUME NEW t \in {Login, Chat}, NEW id \in Text, NEW g \in Text, NEW x, x = Packed(t, id, g)
  PROVE  Unpacked(x, t, id, g)
<1> DEFINE a == <<Open>>
           v == <<Q, t, Q, Comma, Blank>>
           b == Member(TypeKey, v)
           w == Dumps(id)
           c == Member(IdKey, w)
           d == <<Comma, Blank>>
           y == <<One, Comma, Blank>>
           e == Member(TimeKey, y)
           z == <<Open>>
           f == Member(DataKey, z)
           h == <<Shut, Shut>>
           m == 17 + Size(id)
           n == Size(id)
<1>0. x = ((((((a \o b) \o c) \o d) \o e) \o f) \o g) \o h
  BY DEF Packed
<1>1. /\ Q \in Signs /\ Comma \in Signs /\ Blank \in Signs /\ Open \in Signs /\ Shut \in Signs
      /\ One \in Signs /\ TypeKey \in Signs /\ IdKey \in Signs /\ TimeKey \in Signs
      /\ DataKey \in Signs /\ t \in Signs
  BY NamesDiffer, SignsDiffer, Characters
<1>2. n \in Nat
  BY Sizes DEF SizeFact
<1>3. a \in Text /\ Len(a) = 1 /\ d \in Text /\ Len(d) = 2 /\ h \in Text /\ Len(h) = 2
      /\ y \in Text /\ Len(y) = 3 /\ z \in Text /\ Len(z) = 1
  BY <1>1, Tuples
<1>4. /\ v \in Text /\ Len(v) = 5
      /\ v[1] = Q /\ v[2] = t /\ v[3] = Q /\ v[4] = Comma /\ v[5] = Blank
  BY <1>1, FiveSigns
<1>5. w \in Text /\ Len(w) = n + 2
  BY DumpsIs
<1>6. b \in Text /\ Len(b) = 10
  <2> HIDE DEF v
  <2>1. b \in Text /\ Len(b) = 5 + Len(v)
    BY <1>1, <1>4, MemberIs
  <2> HIDE DEF b
  <2> QED
    BY <1>4, <2>1
<1>7. c \in Text /\ Len(c) = 7 + n
  <2> HIDE DEF w
  <2>1. c \in Text /\ Len(c) = 5 + Len(w)
    BY <1>1, <1>5, MemberIs
  <2> HIDE DEF c, n
  <2> QED
    BY <1>2, <1>5, <2>1
<1>8. e \in Text /\ Len(e) = 8
  <2> HIDE DEF y
  <2>1. e \in Text /\ Len(e) = 5 + Len(y)
    BY <1>1, <1>3, MemberIs
  <2> HIDE DEF e
  <2> QED
    BY <1>3, <2>1
<1>9. f \in Text /\ Len(f) = 6
  <2> HIDE DEF z
  <2>1. f \in Text /\ Len(f) = 5 + Len(z)
    BY <1>1, <1>3, MemberIs
  <2> HIDE DEF f
  <2> QED
    BY <1>3, <2>1
<1> HIDE DEF a, b, c, d, e, f, h, v, w, y, z
<1>10. /\ x \in Text /\ Len(x) = Len(a) + Len(b) + Len(c) + Len(d) + Len(e) + Len(f) + Len(g) + Len(h)
       /\ Lies(x, 0, a) /\ Lies(x, Len(a), b) /\ Lies(x, Len(a) + Len(b), c)
       /\ Lies(x, Len(a) + Len(b) + Len(c), d)
       /\ Lies(x, Len(a) + Len(b) + Len(c) + Len(d), e)
       /\ Lies(x, Len(a) + Len(b) + Len(c) + Len(d) + Len(e), f)
       /\ Lies(x, Len(a) + Len(b) + Len(c) + Len(d) + Len(e) + Len(f), g)
       /\ Lies(x, Len(a) + Len(b) + Len(c) + Len(d) + Len(e) + Len(f) + Len(g), h)
  <2> DEFINE y2 == a \o b
             y3 == y2 \o c
             y4 == y3 \o d
             y5 == y4 \o e
             y6 == y5 \o f
             y7 == y6 \o g
  <2>0. x = y7 \o h
    BY <1>0
<2>2. y2 \in Text /\ Len(y2) = Len(a) + Len(b) /\ y2 = a \o b
    BY <1>3, <1>6, JoinedLen
  <2> HIDE DEF y2
  <2>3. y3 \in Text /\ Len(y3) = Len(y2) + Len(c) /\ y3 = y2 \o c
    BY <1>7, <2>2, JoinedLen
  <2> HIDE DEF y3
  <2>4. y4 \in Text /\ Len(y4) = Len(y3) + Len(d) /\ y4 = y3 \o d
    BY <1>3, <2>3, JoinedLen
  <2> HIDE DEF y4
  <2>5. y5 \in Text /\ Len(y5) = Len(y4) + Len(e) /\ y5 = y4 \o e
    BY <1>8, <2>4, JoinedLen
  <2> HIDE DEF y5
  <2>6. y6 \in Text /\ Len(y6) = Len(y5) + Len(f) /\ y6 = y5 \o f
    BY <1>9, <2>5, JoinedLen
  <2> HIDE DEF y6
  <2>7. y7 \in Text /\ Len(y7) = Len(y6) + Len(g) /\ y7 = y6 \o g
    BY <2>6, JoinedLen
  <2> HIDE DEF y7
  <2>8. x \in Text /\ Len(x) = Len(y7) + Len(h)
    BY <1>3, <2>0, <2>7, JoinedLen
  <2>11. Lies(x, 0, x)
    BY <2>8, LiesWhole
  <2>12. Lies(x, 0, y7) /\ Lies(x, Len(y7), h)
    BY <2>0, <2>7, <2>8, <2>11, <1>3, <1>6, <1>7, <1>8, <1>9, Peel, Zenon
  <2>13. Lies(x, 0, y6) /\ Lies(x, Len(y6), g)
    BY <2>6, <2>7, <2>8, <2>12, <1>3, <1>6, <1>7, <1>8, <1>9, Peel, Zenon
  <2>14. Lies(x, 0, y5) /\ Lies(x, Len(y5), f)
    BY <2>5, <2>6, <2>8, <2>13, <1>3, <1>6, <1>7, <1>8, <1>9, Peel, Zenon
  <2>15. Lies(x, 0, y4) /\ Lies(x, Len(y4), e)
    BY <2>4, <2>5, <2>8, <2>14, <1>3, <1>6, <1>7, <1>8, <1>9, Peel, Zenon
  <2>16. Lies(x, 0, y3) /\ Lies(x, Len(y3), d)
    BY <2>3, <2>4, <2>8, <2>15, <1>3, <1>6, <1>7, <1>8, <1>9, Peel, Zenon
  <2>17. Lies(x, 0, y2) /\ Lies(x, Len(y2), c)
    BY <2>2, <2>3, <2>8, <2>16, <1>3, <1>6, <1>7, <1>8, <1>9, Peel, Zenon
  <2>18. Lies(x, 0, a) /\ Lies(x, Len(a), b)
    BY <2>2, <2>8, <2>17, <1>3, <1>6, <1>7, <1>8, <1>9, Peel, Zenon
  <2> QED
    BY <2>2, <2>3, <2>4, <2>5, <2>6, <2>7, <2>8, <2>12, <2>13, <2>14, <2>15, <2>16, <2>17, <2>18
<1>l. Len(g) \in Nat
  BY TextIndex
<1> HIDE DEF n
<1>11. /\ Len(a) = 1 /\ Len(a) + Len(b) = 11 /\ Len(a) + Len(b) + Len(c) = 18 + n
       /\ Len(a) + Len(b) + Len(c) + Len(d) = 20 + n
       /\ Len(a) + Len(b) + Len(c) + Len(d) + Len(e) = 28 + n
       /\ Len(a) + Len(b) + Len(c) + Len(d) + Len(e) + Len(f) = 34 + n
       /\ Len(a) + Len(b) + Len(c) + Len(d) + Len(e) + Len(f) + Len(g) = 34 + n + Len(g)
       /\ Len(x) = 36 + n + Len(g)
  BY <1>2, <1>3, <1>6, <1>7, <1>8, <1>9, <1>10, <1>l
<1>12. /\ Lies(x, 0, a) /\ Lies(x, 1, b) /\ Lies(x, 11, c) /\ Lies(x, 18 + n, d)
       /\ Lies(x, 20 + n, e) /\ Lies(x, 28 + n, f) /\ Lies(x, 34 + n, g)
       /\ Lies(x, 34 + n + Len(g), h)
  BY <1>10, <1>11, Zenon
<1>13. x[1] = Open
  <2>1. x[0 + 1] = Open
    BY <1>1, <1>10, <1>12, LiesOne DEF a
  <2> QED
    BY <2>1
<1>14. Field(x, 1, TypeKey, <<t>>) /\ x[10] = Comma /\ x[11] = Blank
  <2>1. TokenAt(x, 1 + 1, TypeKey) /\ x[1 + 4] = Colon /\ x[1 + 5] = Blank /\ Lies(x, 1 + 5, v)
    BY <1>1, <1>4, <1>10, <1>12, MemberLies DEF b
  <2>2. 1 + 5 = 6 /\ 6 + 1 = 7 /\ 6 + 2 = 8 /\ 6 + 3 = 9 /\ 6 + 4 = 10 /\ 6 + 5 = 11
        /\ 1 + 6 = 7 /\ 7 + 1 = 8 /\ 1 + 7 = 8 /\ 8 + 1 = 9
    OBVIOUS
  <2>9. Lies(x, 6, v)
    BY <2>1, <2>2
  <2>b. /\ x[6 + 1] = Q /\ x[6 + 2] = t /\ x[6 + 3] = Q
        /\ x[6 + 4] = Comma /\ x[6 + 5] = Blank
    <3> DEFINE o == 6
    <3>1. Lies(x, o, v)
      BY <2>9
    <3> HIDE DEF o
    <3>2. /\ x[o + 1] = Q /\ x[o + 2] = t /\ x[o + 3] = Q
          /\ x[o + 4] = Comma /\ x[o + 5] = Blank
      <4>1. \A j \in 1..Len(v) : x[o + j] = v[j]
        BY <3>1 DEF Lies
      <4>2. \A j \in 1..5 : x[o + j] = v[j]
        BY <1>4, <4>1
      <4>3. 1 \in 1..5 /\ 2 \in 1..5 /\ 3 \in 1..5 /\ 4 \in 1..5 /\ 5 \in 1..5
        OBVIOUS
      <4>4. /\ x[o + 1] = v[1] /\ x[o + 2] = v[2] /\ x[o + 3] = v[3]
            /\ x[o + 4] = v[4] /\ x[o + 5] = v[5]
        BY <4>2, <4>3, Zenon
      <4> QED
        BY <1>4, <4>4, Zenon
    <3> QED
      BY <3>2 DEF o
  <2>3. x[7] = Q /\ x[8] = t /\ x[9] = Q /\ x[10] = Comma /\ x[11] = Blank
    BY <2>2, <2>b
  <2>4. Size(<<t>>) = 1 /\ Dumped(<<t>>) = <<t>> /\ <<t>>[1] = t
    BY Single
  <2> DEFINE s == <<t>>
  <2>5. Size(s) = 1 /\ Dumped(s)[1] = t
    BY <2>4
  <2> HIDE DEF s
  <2>6. \A j \in 1..Size(s) : x[1 + 6 + j] = Dumped(s)[j]
    <3>1. \A j \in 1..1 : (1 + 6) + j = 8 /\ j = 1
      OBVIOUS
    <3> QED
      BY <2>3, <2>5, <3>1
  <2>7. 1 \in Nat /\ 1 + 7 + Size(s) <= Len(x) /\ x[1 + 6] = Q /\ x[1 + 7 + Size(s)] = Q
    <3>1. 1 + 7 + 1 = 9 /\ 1 + 6 = 7 /\ 9 <= 36 + n + Len(g)
      BY <1>2, <1>l
    <3> QED
      BY <1>11, <2>3, <2>5, <3>1
  <2>8. Field(x, 1, TypeKey, s)
    BY <2>1, <2>6, <2>7 DEF Field
  <2> QED
    BY <2>3, <2>8 DEF s
<1>15. Field(x, 11, IdKey, id)
  BY <1>1, <1>10, <1>12, MemberField DEF c, w
<1>16. x[(18 + n) + 1] = Comma /\ x[(18 + n) + 2] = Blank
  BY <1>1, <1>10, <1>12, LiesTwo DEF d
<1>17. /\ TokenAt(x, (20 + n) + 1, TimeKey) /\ x[(20 + n) + 4] = Colon /\ x[(20 + n) + 5] = Blank
       /\ x[((20 + n) + 5) + 1] = One /\ x[((20 + n) + 5) + 2] = Comma /\ x[((20 + n) + 5) + 3] = Blank
  <2>1. /\ TokenAt(x, (20 + n) + 1, TimeKey) /\ x[(20 + n) + 4] = Colon /\ x[(20 + n) + 5] = Blank
        /\ Lies(x, (20 + n) + 5, y)
    BY <1>1, <1>3, <1>10, <1>12, MemberLies DEF e
  <2> DEFINE o == (20 + n) + 5
  <2>2. Lies(x, o, y)
    BY <2>1
  <2> HIDE DEF o
  <2>3. x[o + 1] = One /\ x[o + 2] = Comma /\ x[o + 3] = Blank
    BY <1>1, <1>10, <2>2, LiesThree DEF y
  <2> QED
    BY <2>1, <2>3 DEF o
<1>18. /\ TokenAt(x, (28 + n) + 1, DataKey) /\ x[(28 + n) + 4] = Colon /\ x[(28 + n) + 5] = Blank
       /\ x[((28 + n) + 5) + 1] = Open
  <2>1. /\ TokenAt(x, (28 + n) + 1, DataKey) /\ x[(28 + n) + 4] = Colon /\ x[(28 + n) + 5] = Blank
        /\ Lies(x, (28 + n) + 5, z)
    BY <1>1, <1>3, <1>10, <1>12, MemberLies DEF f
  <2> QED
    BY <1>1, <1>10, <2>1, LiesOne DEF z
<1>19. /\ (18 + n) + 1 = m + 2 /\ (18 + n) + 2 = m + 3 /\ (20 + n) + 1 = m + 4 /\ (20 + n) + 4 = m + 7
       /\ (20 + n) + 5 = m + 8 /\ ((20 + n) + 5) + 1 = m + 9 /\ ((20 + n) + 5) + 2 = m + 10
       /\ ((20 + n) + 5) + 3 = m + 11 /\ (28 + n) + 1 = m + 12 /\ (28 + n) + 4 = m + 15
       /\ (28 + n) + 5 = m + 16 /\ ((28 + n) + 5) + 1 = m + 17 /\ m + 17 <= Len(x) /\ m = 17 + Size(id)
  <2>1. m = 17 + n /\ m = 17 + Size(id)
    BY DEF n
  <2> HIDE DEF m
  <2> QED
    BY <1>2, <1>l, <1>11, <2>1
<1>20. Header(x, t, id, m)
  <2> HIDE DEF m
  <2> QED
    BY <1>13, <1>14, <1>15, <1>16, <1>17, <1>18, <1>19 DEF Header
<1>21. x \in Text /\ Lies(x, 34 + n, g) /\ Lies(x, 34 + n + Len(g), h) /\ Len(x) = 36 + n + Len(g)
  BY <1>10, <1>11, <1>12
<1> QED
  BY <1>20, <1>21 DEF n, h, Unpacked

-----------------------------------------------------------------------------
(* What the server reads of it: the header,                                *)

\* Which request ids are excluded.
LEMMA LooksLike ==
  \A id : LooksLikeData(id) <=>
            /\ Len(id) >= 1 /\ id[Len(id)] = DataKey
            /\ Len(id) > 1 => id[Len(id) - 1] = Q
BY Zenon DEF LooksLikeData, DataKey, Q

LEMMA HeaderIs ==
  ASSUME NEW x \in Text, NEW t \in {Login, Chat}, NEW id \in Text, NEW m, Header(x, t, id, m)
  PROVE  /\ m \in Nat /\ Len(x) \in Nat /\ Size(id) \in Nat /\ m = 17 + Size(id) /\ m + 17 <= Len(x)
         /\ Dumped(<<t>>)[1] = t /\ Size(<<t>>) = 1 /\ t \notin Keys
         /\ \A key \in Keys : key # Q /\ key # Colon /\ key # Comma /\ key # Blank
         /\ Comma # Q /\ Blank # Q /\ Open # Q /\ Comma # Colon /\ Blank # Colon /\ Q # Colon /\ Colon # Q
<1>1. Size(id) \in Nat /\ Len(x) \in Nat
  BY Sizes, TextIndex DEF SizeFact
<1>2. m = 17 + Size(id) /\ m + 17 <= Len(x)
  BY DEF Header
<1>3. Size(<<t>>) = 1 /\ Dumped(<<t>>)[1] = t
  BY Single
<1>4. t \notin Keys
  BY NamesDiffer, Zenon
<1>5. \A key \in Keys : key # Q /\ key # Colon /\ key # Comma /\ key # Blank
  BY KeysDiffer, Zenon
<1>6. Comma # Q /\ Blank # Q /\ Open # Q /\ Comma # Colon /\ Blank # Colon /\ Q # Colon /\ Colon # Q
  BY SignsDiffer, Zenon
<1> QED
  BY <1>1, <1>2, <1>3, <1>4, <1>5, <1>6

\* The type and the request id are what they were in the request.
LEMMA HeaderStrings ==
  ASSUME NEW x \in Text, NEW t \in {Login, Chat}, NEW id \in Text, NEW m, Header(x, t, id, m)
  PROVE  /\ ExtractStringValue(x, TypeKey) = <<t>>
         /\ ExtractStringValue(x, IdKey) = Spelt(id)
<1> DEFINE s == <<t>>
<1>1. /\ Size(s) = 1 /\ Dumped(s)[1] = t /\ t \notin Keys
      /\ \A key \in Keys : key # Q
      /\ Comma # Q /\ Blank # Q /\ Open # Q
  BY HeaderIs, Zenon
<1>2. /\ x[1] = Open /\ Field(x, 1, TypeKey, s) /\ x[10] = Comma /\ x[11] = Blank
      /\ Field(x, 11, IdKey, id)
  BY DEF Header
<1>3. TypeKey \in Keys /\ IdKey \in Keys /\ IdKey # TypeKey
  BY NamesDiffer, Zenon
<1>4. s \in Text /\ Spelt(s) = s
  BY Single
<1> HIDE DEF s
<1>5. ExtractStringValue(x, TypeKey) = s
  <2>1. \A i \in 1..1 : ~TokenAt(x, i, TypeKey)
    BY <1>1, <1>2 DEF TokenAt
  <2> QED
    BY <1>2, <1>4, <2>1, FieldValue
<1>6. ExtractStringValue(x, IdKey) = Spelt(id)
  <2>1. ASSUME NEW i \in 1..11, TokenAt(x, i, IdKey)
        PROVE  FALSE
    <3>1. x[i] = Q /\ x[i + 1] = IdKey /\ x[i + 2] = Q
      BY <2>1 DEF TokenAt
    <3>2. CASE i = 1
      BY <1>1, <1>2, <3>1, <3>2
    <3>3. CASE i \in (1 + 1)..(1 + 6 + Size(s))
      <4>1. Dumped(s)[Size(s)] = IdKey
        BY <1>2, <1>3, <1>4, <2>1, <3>3, FieldTokens
      <4> QED
        BY <1>1, <1>3, <4>1
    <3>4. CASE i \in 9..11
      <4>1. i = 9 \/ i = 10 \/ i = 11
        BY <3>4
      <4>2. x[9 + 1] = Comma /\ x[10 + 1] = Blank /\ x[11] = Blank
        BY <1>2
      <4>3. CASE i = 9
        BY <1>1, <1>2, <3>1, <4>3
      <4>4. CASE i = 10
        BY <1>1, <1>2, <3>1, <4>4
      <4>5. CASE i = 11
        BY <1>1, <1>2, <3>1, <4>5
      <4> QED
        BY <4>1, <4>3, <4>4, <4>5
    <3>5. i = 1 \/ i \in (1 + 1)..(1 + 6 + 1) \/ i \in 9..11
      OBVIOUS
    <3> QED
      BY <1>1, <3>2, <3>3, <3>4, <3>5
  <2> QED
    BY <1>2, <2>1, FieldValue
<1> QED
  BY <1>5, <1>6 DEF s

\* The data is the object at the end of the header, although the server looks for
\* its key as text, anywhere.
LEMMA HeaderData ==
  ASSUME NEW x \in Text, NEW t \in {Login, Chat}, NEW id \in Text, NEW m, Header(x, t, id, m),
         ~LooksLikeData(id)
  PROVE  ValueAt(x, DataKey) = m + 17
<1> DEFINE s == <<t>>
           n == Size(id)
<1>1. /\ Size(s) = 1 /\ Dumped(s)[1] = t /\ t \notin Keys
      /\ \A key \in Keys : key # Q /\ key # Colon /\ key # Comma /\ key # Blank
      /\ Comma # Q /\ Blank # Q /\ Open # Q
  BY HeaderIs, Zenon
<1>2. m \in Nat /\ n \in Nat /\ Len(x) \in Nat /\ m = 17 + n /\ m + 17 <= Len(x)
  BY HeaderIs
<1>3. /\ x[1] = Open /\ Field(x, 1, TypeKey, s) /\ x[10] = Comma /\ x[11] = Blank
      /\ Field(x, 11, IdKey, id)
  BY DEF Header
<1>4. /\ x[m + 2] = Comma /\ x[m + 3] = Blank /\ TokenAt(x, m + 4, TimeKey) /\ x[m + 7] = Colon
      /\ x[m + 8] = Blank /\ x[m + 9] = One /\ x[m + 10] = Comma /\ x[m + 11] = Blank
      /\ TokenAt(x, m + 12, DataKey) /\ x[m + 15] = Colon /\ x[m + 16] = Blank /\ x[m + 17] = Open
  BY DEF Header
<1>5. /\ TypeKey \in Keys /\ IdKey \in Keys /\ DataKey \in Keys /\ DataKey # TypeKey /\ DataKey # IdKey
      /\ TimeKey \notin Keys /\ One \notin Keys
  BY NamesDiffer, Zenon
<1>6. s \in Text
  BY Single
<1>7. Len(id) \in Nat /\ Open # Blank
  BY TextIndex, SignsDiffer
<1> HIDE DEF s, n
<1>8. ASSUME NEW i \in 1..(m + 11), TokenAt(x, i, DataKey)
      PROVE  FALSE
  <2>1. x[i] = Q /\ x[i + 1] = DataKey /\ x[i + 2] = Q
    BY <1>8 DEF TokenAt
  <2>2. DataKey # Open /\ DataKey # t /\ DataKey # Q /\ DataKey # Colon /\ DataKey # Comma
        /\ DataKey # Blank /\ DataKey # TimeKey /\ DataKey # One
    <3>1. DataKey # Open
      BY <1>5, KeysDiffer, Zenon
    <3> QED
      BY <1>1, <1>5, <3>1
  <2>3. CASE i = 1
    BY <1>1, <1>3, <2>1, <2>3
  <2>4. CASE i \in (1 + 1)..(1 + 6 + Size(s))
    <3>1. Dumped(s)[Size(s)] = DataKey
      BY <1>3, <1>5, <1>6, <1>8, <2>4, FieldTokens
    <3> QED
      BY <1>1, <2>2, <3>1
  <2>5. CASE i \in 9..11
    <3>1. x[9 + 1] = Comma /\ x[10 + 1] = Blank /\ x[11] = Blank
      BY <1>3
    <3>2. i = 9 \/ i = 10 \/ i = 11
      BY <2>5
    <3> QED
      BY <1>1, <2>1, <2>2, <3>1, <3>2
  <2>6. CASE i \in (11 + 1)..(11 + 6 + Size(id))
    <3>1. /\ Size(id) >= 1 /\ Dumped(id)[Size(id)] = DataKey
          /\ Size(id) > 1 => Dumped(id)[Size(id) - 1] = Q
      BY <1>3, <1>5, <1>8, <2>6, FieldTokens
    <3>2. /\ Len(id) >= 1 /\ id[Len(id)] = DataKey
          /\ Len(id) > 1 => Size(id) > 1 /\ (Dumped(id)[Size(id) - 1] = Q => id[Len(id) - 1] = Q)
      BY <1>5, <3>1, LastOf
    <3>3. LooksLikeData(id)
      BY <3>1, <3>2, LooksLike, Zenon
    <3> QED
      BY <3>3
  <2>7. CASE i \in (m + 1)..(m + 11)
    <3>1. /\ x[(m + 1) + 1] = Comma /\ x[(m + 2) + 1] = Blank /\ x[(m + 3) + 1] = Q
          /\ x[(m + 4) + 1] = TimeKey /\ x[(m + 5) + 1] = Q /\ x[(m + 6) + 1] = Colon
          /\ x[(m + 7) + 1] = Blank /\ x[(m + 8) + 1] = One /\ x[(m + 9) + 1] = Comma
          /\ x[(m + 10) + 1] = Blank /\ x[(m + 11) + 1] = Q
      <4>1. /\ (m + 1) + 1 = m + 2 /\ (m + 2) + 1 = m + 3 /\ (m + 3) + 1 = m + 4
            /\ (m + 5) + 1 = (m + 4) + 2 /\ (m + 6) + 1 = m + 7
            /\ (m + 7) + 1 = m + 8 /\ (m + 8) + 1 = m + 9 /\ (m + 9) + 1 = m + 10
            /\ (m + 10) + 1 = m + 11 /\ (m + 11) + 1 = m + 12
        BY <1>2
      <4>2. x[m + 4] = Q /\ x[(m + 4) + 1] = TimeKey /\ x[(m + 4) + 2] = Q /\ x[m + 12] = Q
        BY <1>4, Zenon DEF TokenAt
      <4> QED
        BY <1>4, <4>1, <4>2, Zenon
    <3>2. \/ i = m + 1 \/ i = m + 2 \/ i = m + 3 \/ i = m + 4 \/ i = m + 5 \/ i = m + 6
          \/ i = m + 7 \/ i = m + 8 \/ i = m + 9 \/ i = m + 10 \/ i = m + 11
      BY <1>2, <2>7
    <3> QED
      BY <2>1, <2>2, <3>1, <3>2, Zenon
  <2>8. \/ i = 1 \/ i \in (1 + 1)..(1 + 6 + 1) \/ i \in 9..11
        \/ i \in (11 + 1)..(11 + 6 + n) \/ i \in (m + 1)..(m + 11)
    BY <1>2
  <2> QED
    BY <1>1, <2>3, <2>4, <2>5, <2>6, <2>7, <2>8 DEF n
<1> DEFINE o == m + 12
<1>9. /\ o \in Nat \ {0} /\ o + 5 <= Len(x) /\ o - 1 = m + 11 /\ o + 3 = m + 15 /\ o + 4 = m + 16
      /\ o + 5 = m + 17
  BY <1>2
<1> HIDE DEF o
<1>10. TokenAt(x, o, DataKey) /\ x[o + 3] = Colon /\ x[o + 4] = Blank /\ x[o + 5] # Blank
  <2>1. TokenAt(x, o, DataKey)
    BY <1>4 DEF o
  <2> QED
    BY <1>4, <1>7, <1>9, <2>1
<1>11. \A i \in 1..(o - 1) : TokenAt(x, i, DataKey) => \A j \in (i + 3)..(o + 2) : x[j] # Colon
  BY <1>8, <1>9
<1>12. ValueAt(x, DataKey) = o + 5
  BY <1>9, <1>10, <1>11, ValueIs
<1> QED
  BY <1>9, <1>12

-----------------------------------------------------------------------------
(* the data,                                                               *)

\* The part of a text between two positions.
LEMMA SubSeqIs ==
  ASSUME NEW x \in Text, NEW v \in Nat \ {0}, NEW e \in Nat, v <= e, e <= Len(x)
  PROVE  /\ SubSeq(x, v, e) \in Text /\ Len(SubSeq(x, v, e)) = e - v + 1
         /\ \A i \in 1..(e - v + 1) : SubSeq(x, v, e)[i] = x[v + i - 1]
<1>1. Len(x) \in Nat
  BY TextIndex
<1> QED
  BY <1>1, SubSeqProperties DEF Text

\* A member keeps its form in the part of the text that is taken out.
LEMMA FieldShift ==
  ASSUME NEW x \in Text, NEW a, NEW k, NEW s \in Text, Field(x, a, k, s),
         NEW v \in Nat \ {0}, NEW e \in Nat, v <= a + 1, a + 7 + Size(s) <= e, e <= Len(x),
         NEW y, y = SubSeq(x, v, e)
  PROVE  Field(y, a + 1 - v, k, s)
<1> DEFINE L == Size(s)
           b == a + 1 - v
<1>1. a \in Nat /\ L \in Nat /\ Len(x) \in Nat
  BY FieldIs
<1>2. /\ x[a + 1] = Q /\ x[a + 2] = k /\ x[a + 3] = Q
      /\ x[a + 4] = Colon /\ x[a + 5] = Blank /\ x[a + 6] = Q
      /\ \A j \in 1..L : x[a + 6 + j] = Dumped(s)[j]
      /\ x[a + 7 + L] = Q
  BY FieldIs
<1>3. b \in Nat /\ v <= e /\ b + 7 + L <= e - v + 1 /\ v + b - 1 = a
  <2> HIDE DEF L
  <2> QED
    BY <1>1 DEF L
<1>4. y \in Text /\ Len(y) = e - v + 1 /\ \A i \in 1..(e - v + 1) : y[i] = x[v + i - 1]
  BY <1>3, SubSeqIs
<1> HIDE DEF L, b
<1>5. ASSUME NEW j \in 1..(7 + L)
      PROVE  y[b + j] = x[a + j]
  <2>1. b + j \in 1..(e - v + 1) /\ v + (b + j) - 1 = a + j
    BY <1>1, <1>3
  <2> QED
    BY <1>4, <2>1
<1>6. /\ y[b + 1] = Q /\ y[b + 2] = k /\ y[b + 3] = Q
      /\ y[b + 4] = Colon /\ y[b + 5] = Blank /\ y[b + 6] = Q
  <2>1. /\ 1 \in 1..(7 + L) /\ 2 \in 1..(7 + L) /\ 3 \in 1..(7 + L)
        /\ 4 \in 1..(7 + L) /\ 5 \in 1..(7 + L) /\ 6 \in 1..(7 + L)
    BY <1>1
  <2>2. /\ y[b + 1] = x[a + 1] /\ y[b + 2] = x[a + 2] /\ y[b + 3] = x[a + 3]
        /\ y[b + 4] = x[a + 4] /\ y[b + 5] = x[a + 5] /\ y[b + 6] = x[a + 6]
    BY <1>5, <2>1, Zenon
  <2> QED
    BY <1>2, <2>2, Zenon
<1>7. y[b + 7 + L] = Q
  <2>1. 7 + L \in 1..(7 + L) /\ b + 7 + L = b + (7 + L) /\ a + 7 + L = a + (7 + L)
    BY <1>1, <1>3
  <2> QED
    BY <1>2, <1>5, <2>1
<1>8. ASSUME NEW j \in 1..L
      PROVE  y[b + 6 + j] = Dumped(s)[j]
  <2>1. 6 + j \in 1..(7 + L) /\ b + 6 + j = b + (6 + j) /\ a + 6 + j = a + (6 + j)
    BY <1>1, <1>3
  <2> QED
    BY <1>2, <1>5, <2>1
<1>9. TokenAt(y, b + 1, k)
  <2>1. (b + 1) + 1 = b + 2 /\ (b + 1) + 2 = b + 3
    BY <1>3
  <2> QED
    BY <1>6, <2>1 DEF TokenAt
<1> QED
  BY <1>3, <1>4, <1>6, <1>7, <1>8, <1>9 DEF Field, b, L

\* Between the bracket at v and the position z all brackets are in strings.
Closed(x, v, z) ==
  \A at : at[v] = Out(1) /\ (\A i \in (v + 1)..z : at[i] = BracketAt(x[i], at[i - 1])) =>
            at[z] = Out(1) /\ \A i \in v..z : at[i].depth = 1

\* Then the object that begins at v ends behind z.
LEMMA ObjectFound ==
  ASSUME NEW x \in Text, NEW v \in 1..Len(x), NEW z \in v..(Len(x) - 1),
         ValueAt(x, DataKey) = v, x[v] = Open, x[z + 1] = Shut, Closed(x, v, z)
  PROVE  ExtractObjectValue(x, DataKey) = SubSeq(x, v, z + 1)
<1>0. Len(x) \in Nat /\ v \in Nat /\ z \in Nat /\ v # 0 /\ z + 1 # 0
  BY TextIndex
<1>1. PICK at : Brackets(x, DataKey, v, at)
  BY ObjectLoop
<1>b. /\ at[v - 1] = Outside
      /\ \A i \in v..Len(x) : at[i] = BracketAt(x[i], at[i - 1])
      /\ ExtractObjectValue(x, DataKey) =
           LET end == First({i \in v..Len(x) : x[i] = Shut /\ ~at[i].string /\ at[i].depth = 0})
           IN  IF v = 0 \/ x[v] # Open \/ end = 0 THEN None ELSE SubSeq(x, v, end)
  BY <1>1, Zenon DEF Brackets
<1>2. at[v] = Out(1)
  <2>1. Outside = Out(0)
    BY DEF Outside, Out
  <2>2. BracketAt(Open, Out(0)) = Out(1)
    <3>1. 0 \in Int /\ 0 + 1 = 1
      OBVIOUS
    <3>2. BracketAt(Open, Out(0)) = Out(0 + 1)
      BY <3>1, BracketOut, Zenon
    <3> QED
      BY <3>1, <3>2
  <2>3. v \in v..Len(x)
    BY <1>0
  <2> QED
    BY <1>b, <2>1, <2>2, <2>3
<1>3. at[z] = Out(1) /\ \A i \in v..z : at[i].depth = 1
  <2>1. \A i \in (v + 1)..z : at[i] = BracketAt(x[i], at[i - 1])
    <3>1. \A i \in (v + 1)..z : i \in v..Len(x)
      BY <1>0
    <3> QED
      BY <1>b, <3>1, Zenon
  <2> QED
    BY <1>2, <2>1, Zenon DEF Closed
<1>4. First({i \in v..Len(x) : x[i] = Shut /\ ~at[i].string /\ at[i].depth = 0}) = z + 1
  BY <1>b, <1>3, ObjectEnds
<1> QED
  BY <1>0, <1>b, <1>4, Zenon

\* One member, or two.
LEMMA ClosedOne ==
  ASSUME NEW x \in Text, NEW v, NEW k \in Keys, NEW s \in Text, Field(x, v, k, s)
  PROVE  Closed(x, v, v + 7 + Size(s))
<1> SUFFICES ASSUME NEW at, at[v] = Out(1),
                    \A i \in (v + 1)..(v + 7 + Size(s)) : at[i] = BracketAt(x[i], at[i - 1])
             PROVE  /\ at[v + 7 + Size(s)] = Out(1)
                    /\ \A i \in v..(v + 7 + Size(s)) : at[i].depth = 1
  BY Zenon DEF Closed
<1> DEFINE d == 1
<1>1. d \in Int /\ at[v] = Out(d)
  OBVIOUS
<1> HIDE DEF d
<1>2. /\ at[v + 7 + Size(s)] = Out(d)
      /\ \A i \in v..(v + 7 + Size(s)) : at[i].depth = d
  BY <1>1, FieldScan
<1> QED
  BY <1>2 DEF d

LEMMA ClosedTwo ==
  ASSUME NEW x \in Text, NEW v, NEW k \in Keys, NEW s \in Text, Field(x, v, k, s),
         NEW w, w = v + 7 + Size(s), x[w + 1] = Comma, x[w + 2] = Blank,
         NEW h \in Keys, NEW p \in Text, Field(x, w + 2, h, p)
  PROVE  Closed(x, v, w + 9 + Size(p))
<1> DEFINE z == w + 9 + Size(p)
<1>1. /\ v \in Nat /\ w \in Nat /\ v <= w /\ Size(p) \in Nat /\ z \in Nat
      /\ w + 2 + 7 + Size(p) = z /\ (w + 2) + 7 + Size(p) = z
  <2>1. v \in Nat /\ Size(s) \in Nat /\ Size(p) \in Nat
    BY FieldIs
  <2> QED
    BY <2>1
<1> HIDE DEF z
<1> SUFFICES ASSUME NEW at, at[v] = Out(1), \A i \in (v + 1)..z : at[i] = BracketAt(x[i], at[i - 1])
             PROVE  at[z] = Out(1) /\ \A i \in v..z : at[i].depth = 1
  BY Zenon DEF Closed, z
<1>2. at[w] = Out(1) /\ \A i \in v..w : at[i].depth = 1
  <2>1. \A i \in (v + 1)..w : i \in (v + 1)..z
    BY <1>1
  <2>2. Closed(x, v, w)
    BY ClosedOne
  <2> QED
    BY <2>1, <2>2, Zenon DEF Closed
<1>3. at[w + 1] = Out(1) /\ at[w + 2] = Out(1) /\ Out(1).depth = 1
  <2>1. BracketAt(Comma, Out(1)) = Out(1) /\ BracketAt(Blank, Out(1)) = Out(1)
    <3>1. 1 \in Int /\ Comma \notin {Q, Open, Shut} /\ Blank \notin {Q, Open, Shut}
      BY SignsDiffer
    <3>2. \A c : c \notin {Q, Open, Shut} => BracketAt(c, Out(1)) = Out(1)
      BY <3>1, BracketOut, Zenon
    <3> QED
      BY <3>1, <3>2, Zenon
  <2>2. w + 1 \in (v + 1)..z /\ w + 2 \in (v + 1)..z /\ (w + 1) - 1 = w /\ (w + 2) - 1 = w + 1
    BY <1>1
  <2>3. Out(1).depth = 1
    BY OutIn
  <2>4. at[w + 1] = Out(1)
    BY <1>2, <2>1, <2>2
  <2> QED
    BY <2>1, <2>2, <2>3, <2>4
<1>4. at[z] = Out(1) /\ \A i \in (w + 2)..z : at[i].depth = 1
  <2>1. \A i \in ((w + 2) + 1)..z : i \in (v + 1)..z
    BY <1>1
  <2>2. Closed(x, w + 2, z)
    BY <1>1, ClosedOne
  <2> QED
    BY <1>3, <2>1, <2>2, Zenon DEF Closed
<1>5. ASSUME NEW i \in v..z
      PROVE  at[i].depth = 1
  <2>1. i \in v..w \/ i = w + 1 \/ i \in (w + 2)..z
    BY <1>1
  <2> QED
    BY <1>2, <1>3, <1>4, <2>1
<1> QED
  BY <1>4, <1>5

LEMMA NoneIs == None[1] # Open /\ None # <<>>
<1> DEFINE c == "nothing"
<1>1. None = <<c>> /\ c # Open
  BY NamesDiffer, Zenon DEF None
<1> HIDE DEF c
<1>2. <<c>>[1] = c /\ <<c>> # <<>>
  OBVIOUS
<1> QED
  BY <1>1, <1>2

\* The data is found, and in it what the members are read for.
ChatData(x, t) ==
  \E y : /\ ExtractObjectValue(x, DataKey) = y /\ y # None
         /\ ExtractStringValue(y, TextKey) = Spelt(t)

LoginData(x, u, p) ==
  \E y : /\ ExtractObjectValue(x, DataKey) = y /\ y # None
         /\ ExtractStringValue(y, UserKey) = Spelt(u)
         /\ ExtractStringValue(y, PassKey) = Spelt(p)

\* The data of a chat.
LEMMA ChatReads ==
  ASSUME NEW x \in Text, NEW v \in Nat \ {0}, ValueAt(x, DataKey) = v, x[v] = Open,
         NEW t \in Text, Field(x, v, TextKey, t),
         NEW w, w = v + 7 + Size(t), w + 1 <= Len(x), x[w + 1] = Shut
  PROVE  ChatData(x, t)
<1> DEFINE y == SubSeq(x, v, w + 1)
<1>1. /\ Size(t) \in Nat /\ Len(x) \in Nat /\ w \in v..(Len(x) - 1) /\ v \in 1..Len(x)
      /\ w + 1 \in Nat /\ v <= w + 1 /\ v + 1 - v = 1 /\ v + 7 + Size(t) <= w + 1 /\ v <= v + 1
      /\ 1 \in 1..((w + 1) - v + 1) /\ v + 1 - 1 = v
  <2>1. Size(t) \in Nat /\ Len(x) \in Nat
    BY Sizes, TextIndex DEF SizeFact
  <2> QED
    BY <2>1
<1>2. TextKey \in Keys /\ Open # Q
  BY NamesDiffer, SignsDiffer, Zenon
<1>3. Closed(x, v, w)
  BY <1>2, ClosedOne
<1>4. ExtractObjectValue(x, DataKey) = y
  BY <1>1, <1>3, ObjectFound
<1>5. y \in Text /\ y[1] = Open
  <2>0. w + 1 \in Nat /\ v <= w + 1
    BY <1>1
  <2>1. y \in Text /\ \A i \in 1..((w + 1) - v + 1) : y[i] = x[v + i - 1]
    BY <2>0, SubSeqIs
  <2>2. y[1] = x[v + 1 - 1]
    BY <1>1, <2>1, Zenon
  <2> QED
    BY <1>1, <2>1, <2>2, Zenon
<1>6. Field(y, 1, TextKey, t)
  <2>1. Field(y, v + 1 - v, TextKey, t)
    BY <1>1, FieldShift
  <2> QED
    BY <1>1, <2>1
<1> HIDE DEF y
<1>7. ExtractStringValue(y, TextKey) = Spelt(t)
  <2>1. \A i \in 1..1 : ~TokenAt(y, i, TextKey)
    BY <1>2, <1>5 DEF TokenAt
  <2> QED
    BY <1>2, <1>5, <1>6, <2>1, FieldValue
<1>8. y # None
  BY <1>5, NoneIs
<1> QED
  BY <1>4, <1>7, <1>8 DEF ChatData

\* Where the members of a login end: v begins its data, n, q and l are lengths.
Places(v, n, q, l, w, z, b) ==
  /\ v + 7 + n <= z + 1 /\ (w + 2) + 7 + q <= z + 1
  /\ z \in v..(l - 1) /\ v \in 1..l
  /\ z + 1 \in Nat /\ v <= z + 1 /\ v + 1 - v = 1 /\ v <= v + 1 /\ v <= (w + 2) + 1
  /\ (w + 2) + 1 - v = b /\ w + 2 \in Nat
  /\ 1 \in 1..((z + 1) - v + 1) /\ 9 + n \in 1..((z + 1) - v + 1)
  /\ 10 + n \in 1..((z + 1) - v + 1)
  /\ v + 1 - 1 = v /\ v + (9 + n) - 1 = w + 1 /\ v + (10 + n) - 1 = w + 2

LEMMA LoginPlaces ==
  ASSUME NEW v \in Nat \ {0}, NEW n \in Nat, NEW q \in Nat, NEW l \in Nat,
         NEW w, w = v + 7 + n, NEW z, z = w + 9 + q, z + 1 <= l, NEW b, b = 10 + n
  PROVE  Places(v, n, q, l, w, z, b)
<1>1. w \in Nat /\ z \in Nat /\ b \in Nat
  OBVIOUS
<1> QED
  BY <1>1 DEF Places

\* The data of a login: what the username ends with is not taken for the key of
\* the password, for no colon follows before that key itself.
LEMMA LoginReads ==
  ASSUME NEW x \in Text, NEW v \in Nat \ {0}, ValueAt(x, DataKey) = v, x[v] = Open,
         NEW u \in Text, Field(x, v, UserKey, u),
         NEW w, w = v + 7 + Size(u), x[w + 1] = Comma, x[w + 2] = Blank,
         NEW p \in Text, Field(x, w + 2, PassKey, p),
         NEW z, z = w + 9 + Size(p), z + 1 <= Len(x), x[z + 1] = Shut
  PROVE  LoginData(x, u, p)
<1> DEFINE y == SubSeq(x, v, z + 1)
           n == Size(u)
           b == 10 + n
<1>1. n \in Nat /\ Size(p) \in Nat /\ Len(x) \in Nat
  BY Sizes, TextIndex DEF SizeFact
<1>2. w = v + 7 + n /\ b = 10 + n
  OBVIOUS
<1> DEFINE l == Len(x)
           q == Size(p)
<1>3. /\ v + 7 + n <= z + 1 /\ (w + 2) + 7 + q <= z + 1
      /\ z \in v..(l - 1) /\ v \in 1..l
      /\ z + 1 \in Nat /\ v <= z + 1 /\ v + 1 - v = 1 /\ v <= v + 1 /\ v <= (w + 2) + 1
      /\ (w + 2) + 1 - v = b /\ w + 2 \in Nat
      /\ 1 \in 1..((z + 1) - v + 1) /\ 9 + n \in 1..((z + 1) - v + 1)
      /\ 10 + n \in 1..((z + 1) - v + 1)
      /\ v + 1 - 1 = v /\ v + (9 + n) - 1 = w + 1 /\ v + (10 + n) - 1 = w + 2
  <2>1. z = w + 9 + q /\ z + 1 <= l /\ l \in Nat /\ q \in Nat
    BY <1>1
  <2> HIDE DEF n, b, l, q
  <2>2. Places(v, n, q, l, w, z, b)
    BY <1>1, <1>2, <2>1, LoginPlaces
  <2> QED
    BY <2>2, Zenon DEF Places
<1> HIDE DEF b
<1>4. /\ UserKey \in Keys /\ PassKey \in Keys /\ PassKey # UserKey /\ Open # Q
      /\ Comma # Q /\ Blank # Q /\ Comma # Colon /\ Blank # Colon /\ Q # Colon
      /\ PassKey # Comma /\ PassKey # Colon
  BY NamesDiffer, SignsDiffer, KeysDiffer, Zenon
<1>5. Closed(x, v, z)
  BY <1>4, ClosedTwo
<1>6. ExtractObjectValue(x, DataKey) = y
  BY <1>3, <1>5, ObjectFound
<1>7. Field(y, 1, UserKey, u)
  <2>1. Field(y, v + 1 - v, UserKey, u)
    BY <1>2, <1>3, FieldShift
  <2> QED
    BY <1>3, <2>1
<1>8. Field(y, b, PassKey, p)
  <2>1. Field(y, (w + 2) + 1 - v, PassKey, p)
    <3> DEFINE a == w + 2
    <3>1. Field(x, a, PassKey, p) /\ v <= a + 1 /\ a + 7 + Size(p) <= z + 1
      BY <1>2, <1>3
    <3> HIDE DEF a
    <3>2. Field(y, a + 1 - v, PassKey, p)
      BY <1>3, <3>1, FieldShift
    <3> QED
      BY <3>2 DEF a
  <2> QED
    BY <1>3, <2>1
<1>9. y \in Text /\ y[1] = Open /\ y[9 + n] = Comma /\ y[10 + n] = Blank
  <2>0. z + 1 \in Nat /\ v <= z + 1
    BY <1>3
  <2>1. y \in Text /\ \A i \in 1..((z + 1) - v + 1) : y[i] = x[v + i - 1]
    BY <2>0, SubSeqIs
  <2>2. /\ y[1] = x[v + 1 - 1] /\ y[9 + n] = x[v + (9 + n) - 1]
        /\ y[10 + n] = x[v + (10 + n) - 1]
    BY <1>3, <2>1, Zenon
  <2> QED
    BY <1>3, <2>1, <2>2, Zenon
<1> HIDE DEF y
<1>10. ExtractStringValue(y, UserKey) = Spelt(u)
  <2>1. \A i \in 1..1 : ~TokenAt(y, i, UserKey)
    BY <1>4, <1>9 DEF TokenAt
  <2> QED
    BY <1>4, <1>7, <1>9, <2>1, FieldValue
<1>11. ExtractStringValue(y, PassKey) = Spelt(p)
  <2>1. ASSUME NEW i \in 1..b, TokenAt(y, i, PassKey), NEW j \in (i + 3)..(b + 3)
        PROVE  y[j] # Colon
    <3>1. y[i] = Q /\ y[i + 1] = PassKey
      BY <2>1 DEF TokenAt
    <3>2. y[b - 1] = Comma /\ y[b] = Blank /\ y[b + 1] = Q /\ y[b + 2] = PassKey /\ y[b + 3] = Q
      <4>1. b - 1 = 9 + n /\ b = 10 + n
        <5> HIDE DEF n
        <5> QED
          BY <1>1, <1>2
      <4>2. y[b + 1] = Q /\ y[b + 2] = PassKey /\ y[b + 3] = Q
        BY <1>8, <1>9, FieldIs
      <4> QED
        BY <1>9, <4>1, <4>2
    <3>3. CASE i = 1
      BY <1>4, <1>9, <3>1, <3>3
    <3>4. CASE i \in (1 + 1)..(1 + 6 + Size(u))
      <4>1. i = 1 + 5 + Size(u)
        <5> DEFINE o == 1
        <5>1. Field(y, o, UserKey, u) /\ i \in (o + 1)..(o + 6 + Size(u))
          BY <1>7, <3>4
        <5> HIDE DEF o
        <5>2. i = o + 5 + Size(u)
          BY <1>4, <1>9, <2>1, <5>1, FieldTokens
        <5> QED
          BY <5>2 DEF o
      <4>2. \/ j = b - 1 \/ j = b \/ j = b + 1 \/ j = b + 2 \/ j = b + 3
        <5>1. i = 6 + n
          BY <1>1, <4>1
        <5> HIDE DEF n
        <5> QED
          BY <1>1, <1>2, <5>1
      <4> QED
        BY <1>4, <3>2, <4>2
    <3>5. CASE i = 8 + n
      <4>1. i + 1 = 9 + n
        <5>1. n \in Nat /\ i = 8 + n
          BY <1>1, <3>5
        <5> HIDE DEF n
        <5> QED
          BY <5>1
      <4> QED
        BY <1>4, <1>9, <3>1, <4>1
    <3>6. CASE i = 9 + n \/ i = 10 + n
      BY <1>4, <1>9, <3>1, <3>6
    <3>7. \/ i = 1 \/ i \in (1 + 1)..(1 + 6 + n) \/ i = 8 + n \/ i = 9 + n \/ i = 10 + n
      <4> HIDE DEF n
      <4> QED
        BY <1>1, <1>2
    <3> QED
      BY <3>3, <3>4, <3>5, <3>6, <3>7
  <2>2. \A i \in 1..b : TokenAt(y, i, PassKey) => \A j \in (i + 3)..(b + 3) : y[j] # Colon
    BY <2>1, Zenon
  <2> QED
    BY <1>4, <1>8, <1>9, <2>2, FieldValue
<1>12. y # None
  BY <1>9, NoneIs
<1> QED
  BY <1>6, <1>10, <1>11, <1>12 DEF LoginData

-----------------------------------------------------------------------------
(* and the whole.                                                          *)

\* What pack_message() makes of a login and of a chat.
LEMMA LoginPacked ==
  ASSUME NEW r, r.type = Login
  PROVE  PackMessage(r) =
           Packed(Login, r.id, (Member(UserKey, Dumps(r.username)) \o <<Comma, Blank>>)
                                 \o Member(PassKey, Dumps(r.password)))
BY Zenon DEF PackMessage, Packed, Open, TypeKey, Login, Comma, Blank, IdKey, TimeKey, One, DataKey,
             UserKey, PassKey, Shut

LEMMA ChatPacked ==
  ASSUME NEW r, r.type = Chat
  PROVE  PackMessage(r) = Packed(Chat, r.id, Member(TextKey, Dumps(r.text)))
<1>1. r.type # Login
  BY NamesDiffer, Zenon
<1> QED
  BY <1>1, Zenon DEF PackMessage, Packed, Open, TypeKey, Chat, Login, Comma, Blank, IdKey, TimeKey,
                     One, DataKey, TextKey, Shut

\* What the server finds in a login.
LEMMA LoginFound ==
  ASSUME NEW r, r.type = Login, r.id \in Text, r.username \in Text, r.password \in Text,
         ~LooksLikeData(r.id), NEW x, x = PackMessage(r)
  PROVE  /\ ExtractStringValue(x, TypeKey) = <<Login>>
         /\ ExtractStringValue(x, IdKey) = Spelt(r.id)
         /\ LoginData(x, r.username, r.password)
<1> DEFINE t == Login
           id == r.id
           u == r.username
           p == r.password
           du == Dumps(u)
           dp == Dumps(p)
           a == Member(UserKey, du)
           d == <<Comma, Blank>>
           c == a \o d
           b == Member(PassKey, dp)
           g == c \o b
           n == Size(id)
           k == Size(u)
           q == Size(p)
<1>1. id \in Text /\ u \in Text /\ p \in Text /\ t \in {Login, Chat} /\ ~LooksLikeData(id)
  OBVIOUS
<1>2. x = Packed(t, id, g)
  BY LoginPacked
<1> HIDE DEF t, id, u, p
<1>3. /\ UserKey \in Signs /\ PassKey \in Signs /\ Comma \in Signs /\ Blank \in Signs /\ Shut \in Signs
  BY NamesDiffer, SignsDiffer
<1>4. n \in Nat /\ k \in Nat /\ q \in Nat
  BY <1>1, Sizes DEF SizeFact
<1>5. du \in Text /\ dp \in Text /\ Len(du) = k + 2 /\ Len(dp) = q + 2
  BY <1>1, DumpsIs
<1> HIDE DEF du, dp, n, k, q
<1>6. d \in Text /\ Len(d) = 2
  BY <1>3, Tuples
<1>7. a \in Text /\ Len(a) = k + 7
  <2>1. a \in Text /\ Len(a) = 5 + Len(du)
    BY <1>3, <1>5, MemberIs
  <2> HIDE DEF a
  <2> QED
    BY <1>4, <1>5, <2>1
<1>8. b \in Text /\ Len(b) = q + 7
  <2>1. b \in Text /\ Len(b) = 5 + Len(dp)
    BY <1>3, <1>5, MemberIs
  <2> HIDE DEF b
  <2> QED
    BY <1>4, <1>5, <2>1
<1> HIDE DEF a, b, d
<1>9. c \in Text /\ Len(c) = k + 9
  <2>1. c \in Text /\ Len(c) = Len(a) + Len(d)
    BY <1>6, <1>7, JoinedLen
  <2> QED
    BY <1>4, <1>6, <1>7, <2>1
<1>10. g \in Text /\ Len(g) = k + q + 16
  <2>0. c \in Text /\ b \in Text
    BY <1>8, <1>9
  <2> HIDE DEF c
  <2>1. g \in Text /\ Len(g) = Len(c) + Len(b)
    BY <2>0, JoinedLen
  <2> QED
    BY <1>4, <1>8, <1>9, <2>1
<1> DEFINE m == 17 + n
           v == 34 + n
           w == v + 7 + k
           z == w + 9 + q
<1>11. /\ x \in Text /\ Header(x, t, id, m) /\ Lies(x, v, g)
       /\ Lies(x, v + Len(g), <<Shut, Shut>>) /\ Len(x) = 36 + n + Len(g)
  <2> HIDE DEF g
  <2>1. Unpacked(x, t, id, g)
    BY <1>1, <1>2, <1>10, HeaderPieces
  <2> QED
    BY <2>1, Zenon DEF n, Unpacked
<1>12. /\ v \in Nat \ {0} /\ w = v + 7 + k /\ z = w + 9 + q /\ v + Len(g) = z /\ z + 1 <= Len(x)
       /\ m + 17 = v /\ v + Len(c) = w + 2 /\ v + Len(a) = w
  <2> HIDE DEF g, c
  <2> QED
    BY <1>4, <1>7, <1>9, <1>10, <1>11
<1> HIDE DEF m, v, w, z
<1>13. Lies(x, v, c) /\ Lies(x, w + 2, b)
  <2> HIDE DEF c
  <2>1. Lies(x, v, c) /\ Lies(x, v + Len(c), b)
    BY <1>8, <1>9, <1>11, LiesJoin
  <2> QED
    BY <1>12, <2>1
<1>14. Lies(x, v, a) /\ Lies(x, w, d)
  <2>1. Lies(x, v, a) /\ Lies(x, v + Len(a), d)
    BY <1>6, <1>7, <1>11, <1>13, LiesJoin
  <2> QED
    BY <1>12, <2>1
<1>15. x[w + 1] = Comma /\ x[w + 2] = Blank
  BY <1>3, <1>11, <1>14, LiesTwo DEF d
<1>16. Field(x, v, UserKey, u)
  BY <1>1, <1>3, <1>11, <1>14, MemberField DEF a, du
<1>17. Field(x, w + 2, PassKey, p)
  <2> DEFINE o == w + 2
  <2>1. Lies(x, o, Member(PassKey, Dumps(p)))
    BY <1>13 DEF b, dp
  <2> HIDE DEF o
  <2>2. Field(x, o, PassKey, p)
    BY <1>1, <1>3, <1>11, <2>1, MemberField
  <2> QED
    BY <2>2 DEF o
<1>18. x[z + 1] = Shut
  <2>1. Lies(x, z, <<Shut, Shut>>)
    BY <1>11, <1>12
  <2> QED
    BY <1>3, <1>11, <2>1, LiesTwo
<1>19. x[v] = Open
  BY <1>11, <1>12 DEF Header
<1>20. ValueAt(x, DataKey) = v
  <2>1. ValueAt(x, DataKey) = m + 17
    BY <1>1, <1>11, HeaderData
  <2> QED
    BY <1>12, <2>1
<1>21. /\ ExtractStringValue(x, TypeKey) = <<t>>
       /\ ExtractStringValue(x, IdKey) = Spelt(id)
  BY <1>1, <1>11, HeaderStrings
<1>22. LoginData(x, u, p)
  <2>1. w = v + 7 + Size(u) /\ z = w + 9 + Size(p)
    BY <1>12 DEF k, q
  <2> QED
    BY <1>1, <1>11, <1>12, <1>15, <1>16, <1>17, <1>18, <1>19, <1>20, <2>1, LoginReads
<1> QED
  BY <1>21, <1>22 DEF t, id, u, p

\* What the server finds in a chat.
LEMMA ChatFound ==
  ASSUME NEW r, r.type = Chat, r.id \in Text, r.text \in Text,
         ~LooksLikeData(r.id), NEW x, x = PackMessage(r)
  PROVE  /\ ExtractStringValue(x, TypeKey) = <<Chat>>
         /\ ExtractStringValue(x, IdKey) = Spelt(r.id)
         /\ ChatData(x, r.text)
<1> DEFINE t == Chat
           id == r.id
           u == r.text
           du == Dumps(u)
           g == Member(TextKey, du)
           n == Size(id)
           k == Size(u)
<1>1. id \in Text /\ u \in Text /\ t \in {Login, Chat} /\ ~LooksLikeData(id)
  OBVIOUS
<1>2. x = Packed(t, id, g)
  BY ChatPacked
<1> HIDE DEF t, id, u
<1>3. TextKey \in Signs /\ Shut \in Signs
  BY NamesDiffer, SignsDiffer
<1>4. n \in Nat /\ k \in Nat
  BY <1>1, Sizes DEF SizeFact
<1>5. du \in Text /\ Len(du) = k + 2
  BY <1>1, DumpsIs
<1> HIDE DEF du, n, k
<1>6. g \in Text /\ Len(g) = k + 7
  <2>1. g \in Text /\ Len(g) = 5 + Len(du)
    BY <1>3, <1>5, MemberIs
  <2> HIDE DEF g
  <2> QED
    BY <1>4, <1>5, <2>1
<1> HIDE DEF g
<1> DEFINE m == 17 + n
           v == 34 + n
           w == v + 7 + k
<1>7. /\ x \in Text /\ Header(x, t, id, m) /\ Lies(x, v, g)
      /\ Lies(x, v + Len(g), <<Shut, Shut>>) /\ Len(x) = 36 + n + Len(g)
  <2>1. Unpacked(x, t, id, g)
    BY <1>1, <1>2, <1>6, HeaderPieces
  <2> QED
    BY <2>1, Zenon DEF n, Unpacked
<1>8. /\ v \in Nat \ {0} /\ w = v + 7 + k /\ v + Len(g) = w /\ w + 1 <= Len(x) /\ m + 17 = v
  BY <1>4, <1>6, <1>7
<1> HIDE DEF m, v, w
<1>9. Field(x, v, TextKey, u)
  BY <1>1, <1>3, <1>7, MemberField DEF g, du
<1>10. x[w + 1] = Shut
  <2>1. Lies(x, w, <<Shut, Shut>>)
    BY <1>7, <1>8
  <2> QED
    BY <1>3, <1>7, <2>1, LiesTwo
<1>11. x[v] = Open
  BY <1>7, <1>8 DEF Header
<1>12. ValueAt(x, DataKey) = v
  <2>1. ValueAt(x, DataKey) = m + 17
    BY <1>1, <1>7, HeaderData
  <2> QED
    BY <1>8, <2>1
<1>13. /\ ExtractStringValue(x, TypeKey) = <<t>>
       /\ ExtractStringValue(x, IdKey) = Spelt(id)
  BY <1>1, <1>7, HeaderStrings
<1>14. ChatData(x, u)
  <2>1. w = v + 7 + Size(u)
    BY <1>8 DEF k
  <2> QED
    BY <1>1, <1>7, <1>8, <1>9, <1>10, <1>11, <1>12, <2>1, ChatReads
<1> QED
  BY <1>13, <1>14 DEF t, id, u

-----------------------------------------------------------------------------
(* What it makes of it, and what it answers.                               *)

\* What the server takes a request for, as the service sees it.
LoginOf(id, user, pass) == [type |-> "login_req", id |-> id, username |-> user, password |-> pass]
ChatOf(id, text)        == [type |-> "chat_req", id |-> id, text |-> text]
RefusalOf(id)           == [type |-> "refused", id |-> id]

\* Which request it is, from the fields.
ReadAs(type, id, data, user, pass, text) ==
  CASE data # None /\ type = <<Login>> /\ Valid(user, MaxName) /\ Valid(pass, MaxName) ->
         LoginOf(id, user, pass)
    [] data # None /\ type = <<Chat>> /\ Valid(text, MaxText) -> ChatOf(id, text)
    [] OTHER -> RefusalOf(id)

\* parseClientMessage() with the fields as they are read.
LEMMA ParseIs ==
  ASSUME NEW x, NEW data, data = ExtractObjectValue(x, DataKey)
  PROVE  Parse(x) = ReadAs(ExtractStringValue(x, TypeKey), ExtractStringValue(x, IdKey), data,
                          ExtractStringValue(data, UserKey), ExtractStringValue(data, PassKey),
                          ExtractStringValue(data, TextKey))
BY Zenon DEF Parse, ReadAs, TypeKey, IdKey, DataKey, UserKey, PassKey, TextKey, Login, Chat, LoginOf,
             ChatOf, RefusalOf

\* What is expected, in the same form.
LEMMA UnderstoodIs ==
  ASSUME NEW r
  PROVE  Understood(r) =
           CASE r.type = Login /\ Valid(Spelt(r.username), MaxName) /\ Valid(Spelt(r.password), MaxName) ->
                  LoginOf(Spelt(r.id), Spelt(r.username), Spelt(r.password))
             [] r.type = Chat /\ Valid(Spelt(r.text), MaxText) -> ChatOf(Spelt(r.id), Spelt(r.text))
             [] OTHER -> RefusalOf(Spelt(r.id))
BY Zenon DEF Understood, Login, Chat, LoginOf, ChatOf, RefusalOf

LEMMA TypesDiffer == <<Login>> # <<Chat>>
BY NamesDiffer

\* A login is understood, and so is a chat.
LEMMA LoginUnderstood ==
  ASSUME NEW r, r.type = Login, r.id \in Text, r.username \in Text, r.password \in Text,
         ~LooksLikeData(r.id)
  PROVE  /\ Parse(PackMessage(r)) = Understood(r)
         /\ Understood(r) \in {LoginOf(Spelt(r.id), Spelt(r.username), Spelt(r.password)),
                               RefusalOf(Spelt(r.id))}
<1> DEFINE x == PackMessage(r)
           data == ExtractObjectValue(x, DataKey)
           id == Spelt(r.id)
           u == Spelt(r.username)
           p == Spelt(r.password)
           text == ExtractStringValue(data, TextKey)
           type == <<Login>>
           c == Valid(u, MaxName) /\ Valid(p, MaxName)
           d == Valid(text, MaxText)
           e == Valid(Spelt(r.text), MaxText)
<1>1. /\ type = ExtractStringValue(x, TypeKey) /\ id = ExtractStringValue(x, IdKey)
      /\ LoginData(x, r.username, r.password)
  BY LoginFound
<1>2. /\ data # None /\ u = ExtractStringValue(data, UserKey) /\ p = ExtractStringValue(data, PassKey)
  BY <1>1 DEF LoginData
<1>3. Parse(x) = ReadAs(type, id, data, u, p, text)
  <2>1. data = ExtractObjectValue(x, DataKey) /\ text = ExtractStringValue(data, TextKey)
    OBVIOUS
  <2> HIDE DEF x, data, type, id, u, p, text
  <2>2. Parse(x) = ReadAs(ExtractStringValue(x, TypeKey), ExtractStringValue(x, IdKey), data,
                         ExtractStringValue(data, UserKey), ExtractStringValue(data, PassKey),
                         ExtractStringValue(data, TextKey))
    BY <2>1, ParseIs
  <2> QED
    BY <1>1, <1>2, <2>1, <2>2, Zenon
<1>4. Parse(x) = IF c THEN LoginOf(id, u, p) ELSE RefusalOf(id)
  <2>1. type = <<Login>> /\ type # <<Chat>>
    BY TypesDiffer
  <2>2. CASE c
    BY <1>2, <1>3, <2>1, <2>2 DEF ReadAs
  <2>3. CASE ~c
    BY <1>2, <1>3, <2>1, <2>3 DEF ReadAs
  <2> QED
    BY <2>2, <2>3
<1>5. Understood(r) = IF c THEN LoginOf(id, u, p) ELSE RefusalOf(id)
  <2>1. Login # Chat
    BY NamesDiffer
  <2>2. CASE c
    BY <2>1, <2>2, UnderstoodIs
  <2>3. CASE ~c
    BY <2>1, <2>3, UnderstoodIs
  <2> QED
    BY <2>2, <2>3
<1> QED
  BY <1>4, <1>5

LEMMA ChatUnderstood ==
  ASSUME NEW r, r.type = Chat, r.id \in Text, r.text \in Text, ~LooksLikeData(r.id)
  PROVE  /\ Parse(PackMessage(r)) = Understood(r)
         /\ Understood(r) \in {ChatOf(Spelt(r.id), Spelt(r.text)), RefusalOf(Spelt(r.id))}
<1> DEFINE x == PackMessage(r)
           data == ExtractObjectValue(x, DataKey)
           id == Spelt(r.id)
           t == Spelt(r.text)
           u == ExtractStringValue(data, UserKey)
           p == ExtractStringValue(data, PassKey)
           type == <<Chat>>
           c == Valid(t, MaxText)
<1>1. /\ type = ExtractStringValue(x, TypeKey) /\ id = ExtractStringValue(x, IdKey)
      /\ ChatData(x, r.text)
  BY ChatFound
<1>2. data # None /\ t = ExtractStringValue(data, TextKey)
  BY <1>1 DEF ChatData
<1>3. Parse(x) = ReadAs(type, id, data, u, p, t)
  <2>1. data = ExtractObjectValue(x, DataKey) /\ u = ExtractStringValue(data, UserKey) /\ p = ExtractStringValue(data, PassKey)
    OBVIOUS
  <2> HIDE DEF x, data, type, id, u, p, t
  <2>2. Parse(x) = ReadAs(ExtractStringValue(x, TypeKey), ExtractStringValue(x, IdKey), data,
                         ExtractStringValue(data, UserKey), ExtractStringValue(data, PassKey),
                         ExtractStringValue(data, TextKey))
    BY <2>1, ParseIs
  <2> QED
    BY <1>1, <1>2, <2>1, <2>2, Zenon
<1>4. Parse(x) = IF c THEN ChatOf(id, t) ELSE RefusalOf(id)
  <2>1. type = <<Chat>> /\ type # <<Login>>
    BY TypesDiffer
  <2>2. CASE c
    BY <1>2, <1>3, <2>1, <2>2 DEF ReadAs
  <2>3. CASE ~c
    BY <1>2, <1>3, <2>1, <2>3 DEF ReadAs
  <2> QED
    BY <2>2, <2>3
<1>5. Understood(r) = IF c THEN ChatOf(id, t) ELSE RefusalOf(id)
  <2>1. Login # Chat
    BY NamesDiffer
  <2>2. CASE c
    BY <2>1, <2>2, UnderstoodIs
  <2>3. CASE ~c
    BY <2>1, <2>3, UnderstoodIs
  <2> QED
    BY <2>2, <2>3
<1> QED
  BY <1>4, <1>5

\* What a client may type, and which requests there are.
LEMMA TypedIsText ==
  ASSUME NEW n, NEW s \in Texts(n)
  PROVE  s \in Text
<1>1. PICK m \in 0..n : s \in [1..m -> Chars]
  BY DEF Texts, SeqOf
<1>2. m \in Nat
  OBVIOUS
<1>3. \A i \in 1..m : s[i] \in Signs
  BY <1>1, Characters
<1>4. s \in [1..m -> Signs]
  BY <1>1, <1>3
<1> QED
  BY <1>2, <1>4 DEF Text

LEMMA RequestCases ==
  ASSUME NEW r \in Requests
  PROVE  /\ r.id \in Ids
         /\ \/ r.type = Login /\ r.username \in Texts(MaxName + 1) /\ r.password \in Texts(MaxName)
            \/ r.type = Chat /\ r.text \in Texts(MaxText + 1)
BY DEF Requests, Login, Chat

LEMMA IdIsText ==
  ASSUME NEW id \in Ids
  PROVE  id \in Text /\ ~LooksLikeData(id)
<1>1. id \in Seq(Chars) /\ ~LooksLikeData(id)
  BY MessagesAssumption, Zenon
<1>2. Len(id) \in Nat /\ id \in [1..Len(id) -> Chars]
  BY <1>1
<1>3. id \in [1..Len(id) -> Signs]
  BY <1>2, Characters
<1> QED
  BY <1>1, <1>2, <1>3 DEF Text

\* What a field of an answer should show.
Shown(r, f) ==
  CASE f = "request_id" -> r.id
    [] f = "username"   -> r.username
    [] f = "text"       -> r.text

LEMMA ShownIs ==
  \A r : Shown(r, IdKey) = r.id /\ Shown(r, UserKey) = r.username /\ Shown(r, TextKey) = r.text
BY DEF Shown, IdKey, UserKey, TextKey

\* The strings of the answers.
LEMMA LoginAnswer ==
  ASSUME NEW id, NEW u, NEW p, NEW f \in DOMAIN Answer(LoginOf(id, u, p))
  PROVE  \/ f = IdKey /\ Answer(LoginOf(id, u, p))[f] = EscapeJson(id)
         \/ f = UserKey /\ Answer(LoginOf(id, u, p))[f] = EscapeJson(u)
BY DEF Answer, LoginOf, IdKey, UserKey

LEMMA ChatAnswer ==
  ASSUME NEW id, NEW t, NEW f \in DOMAIN Answer(ChatOf(id, t))
  PROVE  f = TextKey /\ Answer(ChatOf(id, t))[f] = EscapeJson(t)
BY DEF Answer, ChatOf, TextKey

LEMMA RefusalAnswer ==
  ASSUME NEW id, NEW f \in DOMAIN Answer(RefusalOf(id))
  PROVE  f = IdKey /\ Answer(RefusalOf(id))[f] = EscapeJson(id)
BY DEF Answer, RefusalOf, IdKey

\* The client reads what the server has understood.
LEMMA ReadAgain ==
  ASSUME NEW s \in Text
  PROVE  Loads(EscapeJson(Spelt(s))) = Spelt(s)
BY SpeltLayout, LoadsEscapeJson

LEMMA RequestTexts ==
  ASSUME NEW r \in Requests
  PROVE  /\ r.id \in Text /\ ~LooksLikeData(r.id)
         /\ \/ r.type = Login /\ r.username \in Text /\ r.password \in Text
            \/ r.type = Chat /\ r.text \in Text
BY RequestCases, IdIsText, TypedIsText

\* A request is understood as it was meant.
LEMMA RequestUnderstoodOnce ==
  ASSUME NEW r \in Requests
  PROVE  /\ Parse(PackMessage(r)) = Understood(r)
         /\ \/ r.username \in Text /\ Understood(r) = LoginOf(Spelt(r.id), Spelt(r.username), Spelt(r.password))
            \/ r.text \in Text /\ Understood(r) = ChatOf(Spelt(r.id), Spelt(r.text))
            \/ Understood(r) = RefusalOf(Spelt(r.id))
<1>1. CASE r.type = Login /\ r.username \in Text /\ r.password \in Text
  BY <1>1, RequestTexts, LoginUnderstood
<1>2. CASE r.type = Chat /\ r.text \in Text
  BY <1>2, RequestTexts, ChatUnderstood
<1> QED
  BY <1>1, <1>2, RequestTexts

LEMMA AllUnderstood == EachUnderstood
<1>1. \A r \in Requests : Parse(PackMessage(r)) = Understood(r)
  BY RequestUnderstoodOnce
<1>2. \A name \in Texts(MaxText) : SqlReads(SqlEscape(name)) = name
  BY TypedIsText, SqlReadsSqlEscape
<1> QED
  BY <1>1, <1>2 DEF EachUnderstood

LEMMA AllArrive == EachArrives
<1> SUFFICES ASSUME NEW r \in Requests, NEW f \in DOMAIN Answer(Parse(PackMessage(r)))
             PROVE  Loads(Answer(Parse(PackMessage(r)))[f]) = Spelt(Shown(r, f))
  BY Zenon DEF EachArrives, Shown
<1> DEFINE m == Parse(PackMessage(r))
<1>1. /\ m = Understood(r)
      /\ \/ r.username \in Text /\ m = LoginOf(Spelt(r.id), Spelt(r.username), Spelt(r.password))
         \/ r.text \in Text /\ m = ChatOf(Spelt(r.id), Spelt(r.text))
         \/ m = RefusalOf(Spelt(r.id))
  BY RequestUnderstoodOnce
<1>2. r.id \in Text
  BY RequestTexts
<1>3. f \in DOMAIN Answer(m)
  OBVIOUS
<1> HIDE DEF m
<1>4. CASE r.username \in Text /\ m = LoginOf(Spelt(r.id), Spelt(r.username), Spelt(r.password))
  <2>1. \/ f = IdKey /\ Answer(m)[f] = EscapeJson(Spelt(r.id))
        \/ f = UserKey /\ Answer(m)[f] = EscapeJson(Spelt(r.username))
    BY <1>3, <1>4, LoginAnswer
  <2> QED
    BY <1>2, <1>4, <2>1, ShownIs, ReadAgain DEF m
<1>5. CASE r.text \in Text /\ m = ChatOf(Spelt(r.id), Spelt(r.text))
  <2>1. f = TextKey /\ Answer(m)[f] = EscapeJson(Spelt(r.text))
    BY <1>3, <1>5, ChatAnswer
  <2> QED
    BY <1>5, <2>1, ShownIs, ReadAgain DEF m
<1>6. CASE m = RefusalOf(Spelt(r.id))
  <2>1. f = IdKey /\ Answer(m)[f] = EscapeJson(Spelt(r.id))
    BY <1>3, <1>6, RefusalAnswer
  <2> QED
    BY <1>2, <2>1, ShownIs, ReadAgain DEF m
<1> QED
  BY <1>1, <1>4, <1>5, <1>6

-----------------------------------------------------------------------------
(* The theorems.                                                           *)

\* unescapeJson() undoes json.dumps() on every text, but for characters outside
\* ASCII, which it leaves as they were written (unescapeJson lines 80-99).
THEOREM UnescapeUndoesDumps == \A s \in Text : Unescape(Dumped(s)) = Spelt(s)
BY UnescapeDumped

\* json.loads() undoes escapeJson(), and MySQL undoes sqlEscape(), on every text,
\* whatever quotes and backslashes it contains (escapeJson lines 64-78, sqlEscape in
\* ChatService.hpp lines 46-56).
THEOREM EscapesAreUndone ==
  \A s \in Text : Loads(EscapeJson(s)) = s /\ SqlReads(SqlEscape(s)) = s
BY LoadsEscapeJson, SqlReadsSqlEscape

\* Whatever is typed, every request is understood as it was meant, unless its id
\* ends in a way that makes the server take it for the key data, and MySQL is asked
\* for the name that was understood (parseClientMessage lines 132-174).
THEOREM RequestsAreUnderstood == Spec => []RequestUnderstood
<1>1. RequestUnderstood
  BY AllUnderstood DEF RequestUnderstood
<1> QED
  BY <1>1, PTL

\* Whatever is typed, the client is shown what the server has understood
\* (buildResponse lines 101-130).
THEOREM TextsArrive == Spec => []TextArrives
<1>1. TextArrives
  BY AllArrive DEF TextArrives
<1> QED
  BY <1>1, PTL
=============================================================================
