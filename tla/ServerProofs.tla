---------------------------- MODULE ServerProofs ----------------------------
(***************************************************************************)
(* Proofs about the life of the server process: every safety property of   *)
(* module Server that TLC checks holds for any number of clients,          *)
(* descriptors and workers and for a queue of any capacity.                *)
(*                                                                         *)
(* The proofs number the activations of the main thread from the bottom:   *)
(* a step changes the running one, ends it or puts another on top of it,   *)
(* and leaves those below as they are.  The invariant says what may lie on *)
(* what, what each activation may rely on, and what becomes of the tables, *)
(* of the descriptors and of the tasks while stop() goes on.               *)
(***************************************************************************)
EXTENDS Server, SequenceTheorems, WellFoundedInduction, TLAPS
-----------------------------------------------------------------------------
(* The inductive invariant.                                                *)

\* How many activations the main thread has.
depth == Len(stack)

\* The activations counted from the bottom: 1 is main() and the loop.
frames == [h \in 1..Len(stack) |-> stack[Len(stack) + 1 - h]]

\* Who calls stop(), and the labels by what an activation does there: a connection
\* that is not yet in the table, one that is being closed, stop() at work.
Reasons   == {"signal", "error", "exit"}
Entering  == {"register", "closeAgain", "insert", "inserting"}
Inserting == {"insert", "inserting"}
Parting   == {"logout", "acquiring", "farewell", "snapshot", "sends", "sending"}
Leaving   == Parting \cup {"remove", "removing"}
Body      == Leaving \cup {"del", "closeFd"}
StopBody  == StopLabels \ {"stop"}
Callees   == AcceptLabels \cup ReadLabels \cup WriteLabels
Labels    == MainLabels \cup Callees \cup CloseLabels \cup StopLabels

\* What activations and the jobs of the workers are made of.
AnyFrame ==
  [at : Labels, c : Conns \cup {None} \cup Reasons,
   todo : SUBSET (Conns \cup Fds), to : Conns \cup {None}]

Jobs == [at : {"idle", "acquire", "spread", "send"}, c : Conns \cup {None},
         to : Conns \cup {None}]

\* What an activation refers to at each label.
FrameOK(f) ==
  /\ f.at \in MainLabels \cup {"accept"} => f.c = None
  /\ f.at \in Entering \cup ReadLabels \cup WriteLabels \cup CloseLabels => f.c \in Conns
  /\ f.at \in StopLabels => f.c \in Reasons
  /\ f.at \in MainLabels => f.todo \subseteq Fds
  /\ f.at \in {"closeAll", "sends", "sending"} => f.todo \subseteq Conns
  /\ f.at \in {"sending", "thenWrite"} => f.to \in Conns
  /\ f.at \in MainLabels \ {"thenWrite"} => f.to = None

\* The types of the variables, but for the stack.
DataOK ==
  /\ running \in BOOLEAN /\ stopped \in BOOLEAN /\ poolDown \in BOOLEAN
  /\ fate \in {"running", "exited", "aborted"}
  /\ owner \in [Fds -> Conns \cup {"free", "listen", "db"}]
  /\ fdOf \in [Conns -> Fds \cup {None}] /\ listenFd \in Fds \cup {None}
  /\ client \in [Conns -> {"new", "waiting", "accepted"}]
  /\ connected \in [Conns -> BOOLEAN] /\ loggedIn \in [Conns -> BOOLEAN]
  /\ handlers \in [Fds -> Conns \cup {"listen", None}]
  /\ table \in [Fds -> Conns \cup {None}] /\ backlog \in {"none", "due", "failed"}
  /\ tasks \in Seq(Conns)
  /\ worker \in [Workers -> Jobs]
  /\ hit \in Telling \cup {"none", "other"}
  /\ stray \in BOOLEAN /\ regFailed \in BOOLEAN

\* main() or the loop lies at the bottom, and nowhere else.
Structure ==
  /\ stack \in Seq(AnyFrame) /\ depth >= 1
  /\ frames[1].at \in MainLabels
  /\ \A h \in 2..depth : frames[h].at \notin MainLabels
  /\ \A h \in 1..depth : FrameOK(frames[h])

\* What a signal that comes now is noted to have interrupted.
Place(f) == IF f.at \in Telling THEN f.at ELSE "other"

\* Activation a lies on b: the callbacks on the loop, a close on its caller, stop()
\* on what has called it or on what the signal has interrupted.
Called(a, b) ==
  /\ a.at \in AcceptLabels \cup WriteLabels => b.at = "dispatch"
  /\ a.at \in ReadLabels => b.at \in {"dispatch", "thenWrite"}
  /\ a.at \in CloseLabels =>
       b.at \in {"dispatch", "thenWrite", "closeAll"} \/ (b.at = "written" /\ b.c = a.c)
  /\ a.at \in StopLabels => \/ a.c = "signal" /\ hit = Place(b)
                            \/ a.c = "exit" /\ b.at = "destroy"
                            \/ a.c = "error" /\ b.at = "dispatch"
  /\ b.at \in StopLabels => b.at = "closeAll" /\ a.at \in CloseLabels

\* Every activation has been called by the one below, stop() is active once at most,
\* and goes on only when stopped_ is set.
Nesting ==
  /\ \A h \in 2..depth : Called(frames[h], frames[h - 1])
  /\ \A h \in 1..depth : frames[h].at \in StopBody => stopped
  /\ \A h, k \in 1..depth :
       frames[h].at \in StopLabels /\ frames[k].at \in StopLabels => h = k

\* Some activation is at one of the labels, with c or for whomever.
On(L, c) == \E h \in 1..depth : frames[h].at \in L /\ frames[h].c = c
Some(L) == \E h \in 1..depth : frames[h].at \in L

\* A frame is submitted only when the queue has room.
Bounded ==
  /\ Len(tasks) <= MaxTasks
  /\ Some({"submit", "pushing"}) => Len(tasks) < MaxTasks

\* A client that has not been accepted is known to nobody.
Fresh ==
  \A c \in Conns : client[c] # "accepted" =>
    /\ fdOf[c] = None /\ connected[c]
    /\ \A h \in 1..depth :
         frames[h].c # c /\ (frames[h].at = "closeAll" => c \notin frames[h].todo)

\* A connection that is being accepted is open, and only its activation knows it.
Newcomers ==
  \A h \in 1..depth : frames[h].at \in Entering =>
    /\ connected[frames[h].c] /\ frames[h].c \notin InTable
    /\ frames[h].at # "closeAgain" => fdOf[frames[h].c] \in Fds
    /\ frames[h].at \in Inserting => handlers[fdOf[frames[h].c]] = frames[h].c
    /\ \A k \in 1..depth :
         /\ k # h => frames[k].c # frames[h].c
         /\ frames[k].at = "closeAll" => frames[h].c \notin frames[k].todo

\* Past the compare-and-swap of connected_ a connection is closed by one activation.
ClosedOnce ==
  \A h \in 1..depth : frames[h].at \in Body =>
    /\ ~connected[frames[h].c]
    /\ \A k \in 1..depth : frames[k].at \in Body /\ frames[k].c = frames[h].c => k = h

\* A registered handler is that of an open connection, in the table or about to be,
\* or of one that is about to be unregistered.
Registered ==
  frames[1].at # "destroyed" => \A f \in Fds, c \in Conns : handlers[f] = c =>
    /\ fdOf[c] = f
    /\ IF connected[c] THEN table[f] = c \/ On(Inserting, c) ELSE On({"del"}, c)

\* A connection in the table is open and registered, or is being closed.
Tabled ==
  \A f \in Fds, c \in Conns : table[f] = c =>
    /\ fdOf[c] = f
    /\ IF connected[c] THEN handlers[f] = c ELSE On({"del"} \cup Leaving, c)

\* A connection owns its descriptor, unless its registration has failed.
Owned ==
  /\ \A c \in Conns : fdOf[c] # None =>
       \/ owner[fdOf[c]] = c
       \/ owner[fdOf[c]] \in {"free", "db"} /\ regFailed /\ On({"closeAgain"}, c)
  /\ \A f \in Fds, c \in Conns : owner[f] = c => fdOf[c] = f

\* Only the listening socket is owned and registered as such.
Listening ==
  /\ \A f \in Fds : handlers[f] = "listen" \/ owner[f] = "listen" => listenFd = f
  /\ listenFd # None => owner[listenFd] = "listen"
  /\ frames[1].at \in {"initReactor", "initListen"} => listenFd = None

\* What stop() has still to close, and that nothing is left in the table after it.
Swept ==
  \A h \in 1..depth :
    /\ frames[h].at = "closeAll" => \A c \in InTable : connected[c] =>
         c \in frames[h].todo \/ (h < depth /\ frames[h + 1].at = "cas" /\ frames[h + 1].c = c)
    /\ frames[h].at = "clear" => \A c \in InTable : ~connected[c]
    /\ frames[h].at \in {"closeListen", "shutdown", "join"} => InTable = {}

\* Whoever reads, has a task or a session is in the table, or is being closed.
Users ==
  /\ \A h \in 1..depth :
       frames[h].at \in ReadLabels /\ connected[frames[h].c] => frames[h].c \in InTable
  /\ \A i \in 1..Len(tasks) : connected[tasks[i]] => tasks[i] \in InTable
  /\ \A w \in Workers : worker[w].at = "acquire" =>
       worker[w].c \in Conns /\ (connected[worker[w].c] => worker[w].c \in InTable)
  /\ \A c \in Conns : loggedIn[c] =>
       IF connected[c] THEN c \in InTable /\ ~poolDown ELSE On(Parting \cup {"del"}, c)

\* stopped_, the activation of stop() and the pool: once the workers are joined
\* nothing is left to do.
Stopping ==
  /\ poolDown => stopped
  /\ stopped /\ ~Some(StopBody) => poolDown
  /\ Some({"join"}) => poolDown
  /\ poolDown => ~Some({"pushing"})
  /\ poolDown /\ ~Some({"join"}) => tasks = <<>> /\ \A w \in Workers : worker[w] = Idle

\* What the signal has interrupted, and how far stop() and main() have come.
Halting ==
  /\ ~stopped => \/ hit = "none"
                 \/ frames[depth].at = "stop" /\ frames[depth].c = "signal"
  /\ stopped /\ hit # "initReactor" => ~running
  /\ stopped /\ listenFd # None =>
       Some({"copy", "closeAll", "clear", "closeListen"}) \/ hit \in {"initReactor", "initListen"}
  /\ stopped /\ frames[1].at = "initReactor" => hit = "initReactor"
  /\ stopped /\ frames[1].at = "initListen" => hit \in {"initReactor", "initListen"}
  /\ stopped /\ hit = "initListen" => frames[1].at \notin {"dispatch", "thenWrite"}
  /\ frames[1].at = "destroy" => stopped \/ frames[depth].at = "stop"
  /\ frames[1].at = "destroyed" => stopped /\ depth = 1

\* While the server runs, the loop has still to dispatch only descriptors of
\* connections that nobody is busy with.
Reported ==
  ~stopped /\ frames[1].at \in {"dispatch", "thenWrite"} => \A g \in frames[1].todo :
    /\ handlers[g] # None /\ owner[g] = handlers[g] /\ frames[1].to # handlers[g]
    /\ \A h \in 1..depth : frames[h].c # handlers[g]

\* An accepted descriptor is not among those that the loop has still to dispatch.
Apart ==
  hit # "initReactor" => \A h \in 1..depth : frames[h].at \in Entering \ {"closeAgain"} =>
    fdOf[frames[h].c] \notin frames[1].todo

\* Once the pool is down no frame is read, but by a call that the signal has
\* interrupted between its two steps.
Refused ==
  poolDown /\ hit # "initReactor" =>
    /\ \A h \in 1..depth : /\ frames[h].at \in {"extract", "submit"} => hit \in {"extract", "submit"}
                           /\ frames[h].at = "recv" => ~connected[frames[h].c]
    /\ frames[1].at \in {"dispatch", "thenWrite"} =>
         \A g \in frames[1].todo : handlers[g] \in Conns => On({"del"}, handlers[g])

\* Waiting clients are going to be reported, or somebody is accepting them.
Noticed ==
  ~stopped /\ backlog = "none" /\ (\E c \in Conns : client[c] = "waiting") =>
    Some(AcceptLabels) \/ On({"stop"}, "error")

\* The process exits from the end of main(), with every connection closed.
Ended ==
  fate = "exited" => frames[depth].at = "destroyed" /\ \A c \in Conns : fdOf[c] = None
-----------------------------------------------------------------------------
(* The stack, seen from the bottom.                                       *)

\* The stack is one of activations, and is not empty.
Shaped == stack \in Seq(AnyFrame) /\ depth >= 1

LEMMA TopFrame ==
  ASSUME Shaped
  PROVE  /\ depth \in Nat /\ 1 \in 1..depth /\ depth \in 1..depth
         /\ frames \in [1..depth -> AnyFrame]
         /\ top = frames[depth] /\ top \in AnyFrame
BY DEF Shaped, depth, frames, top

LEMMA Becoming ==
  ASSUME Shaped, NEW f, Become(f)
  PROVE  /\ depth' = depth /\ frames'[depth] = f
         /\ \A h \in 1..(depth - 1) : frames'[h] = frames[h]
         /\ f \in AnyFrame => Shaped'
<1> DEFINE S == AnyFrame \cup {f}
<1>1. stack \in Seq(S) /\ <<f>> \in Seq(S) /\ Len(stack) \in Nat /\ Len(stack) >= 1
  BY DEF Shaped, depth
<1>2. Tail(stack) \in Seq(S) /\ Len(Tail(stack)) = Len(stack) - 1
      /\ \A i \in 1..(Len(stack) - 1) : Tail(stack)[i] = stack[i + 1]
  BY <1>1
<1>3. stack' = <<f>> \o Tail(stack)
  BY DEF Become
<1>4. Len(stack') = Len(stack) /\ stack'[1] = f
      /\ \A i \in 2..Len(stack) : stack'[i] = stack[i]
  <2> HIDE DEF S
  <2> QED BY <1>1, <1>2, <1>3
<1>5. \A h \in 1..(Len(stack) - 1) : Len(stack) + 1 - h \in 2..Len(stack)
  BY <1>1
<1>6. /\ stack'[Len(stack') + 1 - Len(stack)] = f
      /\ \A h \in 1..(Len(stack) - 1) :
           stack'[Len(stack') + 1 - h] = stack[Len(stack) + 1 - h]
  <2> HIDE DEF S
  <2> QED BY <1>1, <1>4, <1>5
<1>7. Len(stack) \in 1..Len(stack') /\ Len(stack') = Len(stack)
      /\ \A h \in 1..(Len(stack) - 1) : h \in 1..Len(stack) /\ h \in 1..Len(stack')
  BY <1>1, <1>4
<1>8. ASSUME f \in AnyFrame
      PROVE  Shaped'
  <2>1. Tail(stack) \in Seq(AnyFrame) /\ <<f>> \in Seq(AnyFrame)
    BY <1>8 DEF Shaped, depth
  <2>2. stack' \in Seq(AnyFrame)
    BY <2>1, <1>3
  <2> QED BY <2>2, <1>1, <1>4 DEF Shaped, depth
<1> QED BY <1>6, <1>7, <1>8 DEF depth, frames

LEMMA Calling ==
  ASSUME Shaped, NEW f, NEW b, Call(f, b)
  PROVE  /\ depth' = depth + 1 /\ frames'[depth + 1] = f /\ frames'[depth] = b
         /\ \A h \in 1..(depth - 1) : frames'[h] = frames[h]
         /\ f \in AnyFrame /\ b \in AnyFrame => Shaped'
<1> DEFINE S == AnyFrame \cup {f, b}
<1>1. stack \in Seq(S) /\ <<f, b>> \in Seq(S) /\ Len(stack) \in Nat /\ Len(stack) >= 1
  BY DEF Shaped, depth
<1>2. Tail(stack) \in Seq(S) /\ Len(Tail(stack)) = Len(stack) - 1
      /\ \A i \in 1..(Len(stack) - 1) : Tail(stack)[i] = stack[i + 1]
  BY <1>1
<1>3. stack' = <<f, b>> \o Tail(stack)
  BY DEF Call
<1>4. Len(stack') = Len(stack) + 1 /\ stack'[1] = f /\ stack'[2] = b
      /\ \A i \in 3..(Len(stack) + 1) : stack'[i] = stack[i - 1]
  <2> HIDE DEF S
  <2> QED BY <1>1, <1>2, <1>3
<1>5. \A h \in 1..(Len(stack) - 1) :
        /\ Len(stack) + 2 - h \in 3..(Len(stack) + 1)
        /\ (Len(stack) + 2 - h) - 1 = Len(stack) + 1 - h
  BY <1>1
<1>6. /\ stack'[Len(stack') + 1 - (Len(stack) + 1)] = f
      /\ stack'[Len(stack') + 1 - Len(stack)] = b
      /\ \A h \in 1..(Len(stack) - 1) :
           stack'[Len(stack') + 1 - h] = stack[Len(stack) + 1 - h]
  <2> HIDE DEF S
  <2> QED BY <1>1, <1>4, <1>5
<1>7. /\ Len(stack') = Len(stack) + 1
      /\ Len(stack) + 1 \in 1..Len(stack') /\ Len(stack) \in 1..Len(stack')
      /\ \A h \in 1..(Len(stack) - 1) : h \in 1..Len(stack) /\ h \in 1..Len(stack')
  BY <1>1, <1>4
<1>8. ASSUME f \in AnyFrame, b \in AnyFrame
      PROVE  Shaped'
  <2>1. Tail(stack) \in Seq(AnyFrame) /\ <<f, b>> \in Seq(AnyFrame)
    BY <1>8 DEF Shaped, depth
  <2>2. stack' \in Seq(AnyFrame)
    BY <2>1, <1>3
  <2> QED BY <2>2, <1>1, <1>4 DEF Shaped, depth
<1> QED BY <1>6, <1>7, <1>8 DEF depth, frames

LEMMA Returning ==
  ASSUME Shaped, Return
  PROVE  /\ depth' = depth - 1
         /\ \A h \in 1..(depth - 1) : frames'[h] = frames[h]
         /\ depth > 1 => Shaped'
<1>1. Len(stack) \in Nat /\ Len(stack) >= 1 /\ stack \in Seq(AnyFrame)
  BY DEF Shaped, depth
<1>2. Len(stack') = Len(stack) - 1
      /\ \A i \in 1..(Len(stack) - 1) : stack'[i] = stack[i + 1]
  BY <1>1 DEF Return
<1>3. \A h \in 1..(Len(stack) - 1) :
        /\ Len(stack) - h \in 1..(Len(stack) - 1)
        /\ (Len(stack) - h) + 1 = Len(stack) + 1 - h
  BY <1>1
<1>4. depth > 1 => Shaped'
  BY <1>1, <1>2 DEF Return, Shaped, depth
<1> QED BY <1>1, <1>2, <1>3, <1>4 DEF depth, frames

LEMMA Pushing ==
  ASSUME Shaped, NEW f, stack' = <<f>> \o stack
  PROVE  /\ depth' = depth + 1 /\ frames'[depth + 1] = f
         /\ \A h \in 1..depth : frames'[h] = frames[h]
         /\ f \in AnyFrame => Shaped'
<1> DEFINE S == AnyFrame \cup {f}
<1>1. stack \in Seq(S) /\ <<f>> \in Seq(S) /\ Len(stack) \in Nat /\ Len(stack) >= 1
  BY DEF Shaped, depth
<1>4. Len(stack') = Len(stack) + 1 /\ stack'[1] = f
      /\ \A i \in 2..(Len(stack) + 1) : stack'[i] = stack[i - 1]
  <2> HIDE DEF S
  <2> QED BY <1>1
<1>5. f \in AnyFrame => Shaped'
  BY <1>1, <1>4 DEF Shaped, depth
<1> QED BY <1>1, <1>4, <1>5 DEF depth, frames

LEMMA Staying ==
  ASSUME stack' = stack
  PROVE  depth' = depth /\ frames' = frames
BY DEF depth, frames

LEMMA LeastFree ==
  ASSUME FreeFds # {}
  PROVE  Min(FreeFds) \in FreeFds /\ Min(FreeFds) \in Fds /\ owner[Min(FreeFds)] = "free"
<1>1. FreeFds \subseteq Nat
  BY ServerAssumption DEF FreeFds
<1>2. PICK x \in FreeFds : \A y \in FreeFds : ~(<<y, x>> \in OpToRel(<, Nat))
  BY <1>1, NatLessThanWellFounded, WFMin, Zenon
<1>3. \A y \in FreeFds : ~(y < x)
  BY <1>1, <1>2, Zenon DEF OpToRel
<1>4. \A y \in FreeFds : x <= y
  BY <1>1, <1>3
<1> QED BY <1>4 DEF Min, FreeFds

\* An activation of main() or of the loop.
IsMain(f) == f.at \in MainLabels

LEMMA AtTop ==
  ASSUME Structure
  PROVE  /\ Shaped /\ FrameOK(top)
         /\ IsMain(top) <=> depth = 1
         /\ \A h \in 1..depth : frames[h] \in AnyFrame
<1>1. Shaped
  BY DEF Structure, Shaped
<1> QED BY <1>1, TopFrame DEF Structure, IsMain
-----------------------------------------------------------------------------
(* What each step does to the activations.                                *)

\* What a step does to the stack: the activations below the running one stay, and
\* an activation is of given contents.
SameBelow == Shaped' /\ \A h \in 1..(depth - 1) : frames'[h] = frames[h]

\* The fields of the frame of index h of the next state.
Now(h, l, c, s, d) ==
  /\ frames'[h] \in AnyFrame
  /\ frames'[h].at = l /\ frames'[h].c = c /\ frames'[h].todo = s /\ frames'[h].to = d

LEMMA TailOfOne ==
  ASSUME NEW S, NEW s \in Seq(S), Len(s) = 1
  PROVE  Tail(s) = <<>>
<1>1. s # <<>>
  BY EmptySeq
<1>2. Tail(s) \in Seq(S) /\ Len(Tail(s)) = 0
  BY <1>1, HeadTailProperties
<1> QED BY <1>2, EmptySeq

LEMMA TopFields ==
  ASSUME Structure
  PROVE  /\ depth \in Nat /\ depth >= 1 /\ top = frames[depth] /\ top \in AnyFrame
         /\ top.at \in Labels /\ top.c \in Conns \cup {None} \cup Reasons
         /\ top.todo \in SUBSET (Conns \cup Fds) /\ top.to \in Conns \cup {None}
<1>1. top \in AnyFrame /\ depth \in Nat /\ depth >= 1 /\ top = frames[depth]
  BY AtTop, TopFrame
<1> QED BY <1>1 DEF AnyFrame

LEMMA Going ==
  ASSUME Structure, NEW l \in Labels, Goto(l)
  PROVE  depth' = depth /\ SameBelow /\ Now(depth, l, top.c, top.todo, top.to)
<1> DEFINE f == [top EXCEPT !.at = l]
<1>1. f \in AnyFrame /\ f.at = l /\ f.c = top.c /\ f.todo = top.todo /\ f.to = top.to
  BY TopFields DEF AnyFrame
<1>2. Become(f)
  BY DEF Goto
<1> HIDE DEF f
<1> QED BY <1>1, <1>2, AtTop, Becoming DEF SameBelow, Now

LEMMA Turning ==
  ASSUME Structure, NEW l \in Labels, NEW s \in SUBSET (Conns \cup Fds),
         Become([top EXCEPT !.at = l, !.todo = s])
  PROVE  depth' = depth /\ SameBelow /\ Now(depth, l, top.c, s, top.to)
<1> DEFINE f == [top EXCEPT !.at = l, !.todo = s]
<1>1. f \in AnyFrame /\ f.at = l /\ f.c = top.c /\ f.todo = s /\ f.to = top.to
  BY TopFields DEF AnyFrame
<1>2. Become(f)
  OBVIOUS
<1> HIDE DEF f
<1> QED BY <1>1, <1>2, AtTop, Becoming DEF SameBelow, Now

LEMMA Aiming ==
  ASSUME Structure, NEW l \in Labels, NEW d \in Conns \cup {None},
         Become([top EXCEPT !.at = l, !.to = d])
  PROVE  depth' = depth /\ SameBelow /\ Now(depth, l, top.c, top.todo, d)
<1> DEFINE f == [top EXCEPT !.at = l, !.to = d]
<1>1. f \in AnyFrame /\ f.at = l /\ f.c = top.c /\ f.todo = top.todo /\ f.to = d
  BY TopFields DEF AnyFrame
<1>2. Become(f)
  OBVIOUS
<1> HIDE DEF f
<1> QED BY <1>1, <1>2, AtTop, Becoming DEF SameBelow, Now

LEMMA Renewing ==
  ASSUME Structure, NEW l \in Labels \ MainLabels, NEW c \in Conns \cup {None} \cup Reasons,
         Become(Frame(l, c))
  PROVE  depth' = depth /\ SameBelow /\ Now(depth, l, c, {}, None)
<1>1. Frame(l, c) \in AnyFrame
  BY DEF Frame, AnyFrame
<1> QED BY <1>1, AtTop, Becoming DEF SameBelow, Now, Frame

LEMMA LeavingTop ==
  ASSUME Structure, Return, top.at \notin MainLabels
  PROVE  depth > 1 /\ depth' = depth - 1 /\ SameBelow
<1>1. depth > 1
  BY AtTop, TopFields DEF IsMain
<1> QED BY <1>1, AtTop, Returning DEF SameBelow

LEMMA CallingFrame ==
  ASSUME Structure, NEW l \in Labels, NEW c \in Conns \cup {None} \cup Reasons,
         NEW b \in AnyFrame, Call(Frame(l, c), b)
  PROVE  /\ depth' = depth + 1 /\ SameBelow
         /\ Now(depth, b.at, b.c, b.todo, b.to) /\ Now(depth + 1, l, c, {}, None)
<1>1. Frame(l, c) \in AnyFrame
  BY DEF Frame, AnyFrame
<1> QED BY <1>1, AtTop, Calling DEF SameBelow, Now, Frame

LEMMA CallingOn ==
  ASSUME Structure, NEW l \in Labels, NEW c \in Conns \cup {None} \cup Reasons,
         NEW m \in Labels, Call(Frame(l, c), [top EXCEPT !.at = m])
  PROVE  /\ depth' = depth + 1 /\ SameBelow
         /\ Now(depth, m, top.c, top.todo, top.to) /\ Now(depth + 1, l, c, {}, None)
<1> DEFINE b == [top EXCEPT !.at = m]
<1>1. b \in AnyFrame /\ b.at = m /\ b.c = top.c /\ b.todo = top.todo /\ b.to = top.to
  BY TopFields DEF AnyFrame
<1>2. Call(Frame(l, c), b)
  OBVIOUS
<1> HIDE DEF b
<1> QED BY <1>1, <1>2, CallingFrame

LEMMA AtMain ==
  ASSUME Structure, top.at \in MainLabels
  PROVE  /\ depth = 1 /\ top.c = None /\ top.todo \subseteq Fds
         /\ top.at # "thenWrite" => top.to = None
         /\ top.at = "thenWrite" => top.to \in Conns
BY AtTop DEF IsMain, FrameOK

LEMMA Exiting ==
  ASSUME Structure, Exit
  PROVE  /\ depth = 1 /\ depth' = 2 /\ SameBelow /\ top.at = "exit"
         /\ Now(1, "destroy", None, top.todo, None) /\ Now(2, "stop", "exit", {}, None)
<1>1. top.at = "exit" /\ Call(Frame("stop", "exit"), [top EXCEPT !.at = "destroy"])
  BY DEF Exit, At
<1>2. depth = 1 /\ top.c = None /\ top.to = None
  BY <1>1, AtMain DEF MainLabels
<1>3. /\ depth' = depth + 1 /\ SameBelow
      /\ Now(depth, "destroy", top.c, top.todo, top.to) /\ Now(depth + 1, "stop", "exit", {}, None)
  BY <1>1, CallingOn DEF Labels, MainLabels, StopLabels, Reasons
<1> QED BY <1>1, <1>2, <1>3

LEMMA Polling ==
  ASSUME Structure, EpollWait
  PROVE  /\ depth = 1 /\ depth' = 1 /\ Shaped' /\ top.at = "wait"
         /\ \/ Now(1, "exit", None, top.todo, None)
            \/ running /\ Now(1, "dispatch", None, {f \in Fds : handlers[f] # None}, None)
<1>1. top.at = "wait"
  BY DEF EpollWait, At
<1>2. depth = 1 /\ top.c = None /\ top.to = None
  BY <1>1, AtMain DEF MainLabels
<1> DEFINE s == {f \in Fds : handlers[f] # None}
<1>3. CASE Goto("exit")
  BY <1>1, <1>2, <1>3, Going DEF Labels, MainLabels, SameBelow
<1>4. CASE running /\ Become([top EXCEPT !.at = "dispatch", !.todo = s])
  <2>1. s \in SUBSET (Conns \cup Fds)
    OBVIOUS
  <2> HIDE DEF s
  <2>2. depth' = depth /\ Shaped' /\ Now(depth, "dispatch", top.c, s, top.to)
    BY <1>4, <2>1, Turning DEF Labels, MainLabels, SameBelow
  <2> QED BY <1>1, <1>2, <1>4, <2>2 DEF s
<1> QED BY <1>3, <1>4 DEF EpollWait

\* What the loop calls for the event of a connection.
Calls(h) ==
  /\ h \in Conns
  /\ \/ Now(1, "dispatch", None, frames'[1].todo, None) /\ frames'[2].at \in {"cas", "recv", "write"}
     \/ Now(1, "thenWrite", None, frames'[1].todo, h) /\ frames'[2].at = "recv"
  /\ frames'[2] \in AnyFrame /\ frames'[2].c = h

Reports ==
  /\ Now(1, "dispatch", None, frames'[1].todo, None)
  /\ Now(2, "accept", None, {}, None) \/ Now(2, "stop", "error", {}, None)

LEMMA Dispatching ==
  ASSUME DataOK, Structure, Dispatch
  PROVE  /\ depth = 1 /\ top.at = "dispatch" /\ top.todo \subseteq Fds /\ Shaped'
         /\ \/ depth' = 1 /\ Now(1, "wait", None, {}, None) /\ UNCHANGED backlog
            \/ depth' = 2 /\ \E f \in top.todo :
                 /\ handlers[f] # None /\ owner[f] = handlers[f]
                 /\ frames'[1].todo = top.todo \ {f}
                 /\ \/ handlers[f] = "listen" /\ Reports
                    \/ handlers[f] \in Conns /\ Calls(handlers[f]) /\ UNCHANGED backlog
<1>1. top.at = "dispatch"
  BY DEF Dispatch, At
<1>2. depth = 1 /\ top.c = None /\ top.to = None /\ top.todo \subseteq Fds
  BY <1>1, AtMain DEF MainLabels
<1>3. CASE Become([top EXCEPT !.at = "wait", !.todo = {}]) /\ UNCHANGED backlog
  <2>1. depth' = depth /\ Shaped' /\ Now(depth, "wait", top.c, {}, top.to)
    BY <1>3, Turning DEF Labels, MainLabels, SameBelow
  <2> QED BY <1>1, <1>2, <1>3, <2>1
<1>4. ASSUME NEW f \in top.todo, NEW ev \in {"in", "out", "inOut", "error"},
             handlers[f] # None, owner[f] = handlers[f],
             handlers[f] = "listen" => ev \in {"error", "in"},
             NEW rest, rest = [top EXCEPT !.todo = @ \ {f}],
             stack' = Callback(handlers[f], ev, rest),
             backlog' = IF handlers[f] = "listen" THEN "none" ELSE backlog
      PROVE  /\ depth' = 2 /\ Shaped'
             /\ frames'[1].todo = top.todo \ {f}
             /\ \/ handlers[f] = "listen" /\ Reports
                \/ handlers[f] \in Conns /\ Calls(handlers[f]) /\ UNCHANGED backlog
  <2>1. rest \in AnyFrame /\ rest.at = "dispatch" /\ rest.c = None /\ rest.to = None
        /\ rest.todo = top.todo \ {f}
    BY <1>1, <1>2, <1>4, TopFields DEF AnyFrame
  <2>2. handlers[f] \in Conns \cup {"listen"}
    BY <1>2, <1>4 DEF DataOK
  <2>3. "listen" \notin Conns
    BY ServerAssumption DEF Names
  <2>4. ASSUME NEW g \in AnyFrame, NEW b \in AnyFrame, stack' = <<g, b>>
        PROVE  /\ depth' = 2 /\ Shaped' /\ frames'[1] = b /\ frames'[2] = g
    <3>0. stack \in Seq(AnyFrame) /\ Len(stack) = 1
      BY <1>2, AtTop DEF Shaped, depth
    <3>2. Tail(stack) = <<>>
      BY <3>0, TailOfOne
    <3>3. <<g, b>> \o <<>> = <<g, b>>
      OBVIOUS
    <3>1. Call(g, b)
      BY <2>4, <3>2, <3>3 DEF Call
    <3> QED BY <3>1, <1>2, AtTop, Calling
  <2>7. \A l \in Labels, c \in Conns \cup {None} \cup Reasons :
          /\ Frame(l, c) \in AnyFrame
          /\ Frame(l, c).at = l /\ Frame(l, c).c = c
          /\ Frame(l, c).todo = {} /\ Frame(l, c).to = None
    BY DEF Frame, AnyFrame
  <2>5. CASE handlers[f] = "listen"
    <3>1. \/ stack' = <<Frame("stop", "error"), rest>>
          \/ stack' = <<Frame("accept", None), rest>>
      BY <1>4, <2>3, <2>5 DEF Callback
    <3>2. {"stop", "accept"} \subseteq Labels /\ "error" \in Reasons
      BY DEF Labels, Callees, AcceptLabels, StopLabels, Reasons
    <3>3. depth' = 2 /\ Shaped' /\ frames'[1] = rest
          /\ (frames'[2] = Frame("stop", "error") \/ frames'[2] = Frame("accept", None))
      BY <2>1, <2>4, <2>7, <3>1, <3>2
    <3> QED BY <1>4, <2>1, <2>5, <2>7, <3>2, <3>3 DEF Reports, Now
  <2>6. CASE handlers[f] \in Conns
    <3> DEFINE b == [rest EXCEPT !.at = "thenWrite", !.to = handlers[f]]
    <3>1. \/ \E l \in {"cas", "recv", "write"} : stack' = <<Frame(l, handlers[f]), rest>>
          \/ stack' = <<Frame("recv", handlers[f]), b>>
      BY <1>4, <2>3, <2>6 DEF Callback
    <3>2. handlers[f] # "listen"
      BY <2>3, <2>6
    <3>3. CASE stack' = <<Frame("recv", handlers[f]), b>>
      <4>1. b \in AnyFrame /\ b.at = "thenWrite" /\ b.c = None /\ b.todo = top.todo \ {f}
            /\ b.to = handlers[f]
        BY <2>1, <2>6 DEF AnyFrame, Labels, MainLabels
      <4> HIDE DEF b
      <4>2. "recv" \in Labels
        BY DEF Labels, Callees, ReadLabels
      <4>3. depth' = 2 /\ Shaped' /\ frames'[1] = b /\ frames'[2] = Frame("recv", handlers[f])
        BY <2>4, <2>6, <2>7, <3>3, <4>1, <4>2
      <4> QED BY <1>4, <2>6, <2>7, <3>2, <4>1, <4>2, <4>3 DEF Calls, Now
    <3>4. ASSUME NEW l \in {"cas", "recv", "write"}, stack' = <<Frame(l, handlers[f]), rest>>
          PROVE  /\ depth' = 2 /\ Shaped'
                 /\ frames'[1].todo = top.todo \ {f}
                 /\ handlers[f] \in Conns /\ Calls(handlers[f]) /\ UNCHANGED backlog
      <4>1. l \in Labels
        BY DEF Labels, Callees, ReadLabels, WriteLabels, CloseLabels
      <4>2. depth' = 2 /\ Shaped' /\ frames'[1] = rest /\ frames'[2] = Frame(l, handlers[f])
        BY <2>1, <2>4, <2>6, <2>7, <3>4, <4>1
      <4> QED BY <1>4, <2>1, <2>6, <2>7, <3>2, <4>1, <4>2 DEF Calls, Now
    <3> QED BY <3>1, <3>3, <3>4
  <2> QED BY <2>2, <2>5, <2>6
<1>5. ASSUME NEW f \in top.todo, NEW ev \in {"in", "out", "inOut", "error"},
             handlers[f] # None, owner[f] = handlers[f],
             handlers[f] = "listen" => ev = "error" \/ (ev = "in" /\ backlog = "due"),
             stack' = Callback(handlers[f], ev, [top EXCEPT !.todo = @ \ {f}]),
             backlog' = IF handlers[f] = "listen" THEN "none" ELSE backlog
      PROVE  /\ depth' = 2 /\ Shaped'
             /\ frames'[1].todo = top.todo \ {f}
             /\ \/ handlers[f] = "listen" /\ Reports
                \/ handlers[f] \in Conns /\ Calls(handlers[f]) /\ UNCHANGED backlog
  BY <1>4, <1>5
<1>6. CASE \E f \in top.todo, ev \in {"in", "out", "inOut", "error"} :
             /\ handlers[f] # None /\ owner[f] = handlers[f]
             /\ handlers[f] = "listen" => ev = "error" \/ (ev = "in" /\ backlog = "due")
             /\ stack' = Callback(handlers[f], ev, [top EXCEPT !.todo = @ \ {f}])
             /\ backlog' = IF handlers[f] = "listen" THEN "none" ELSE backlog
  BY <1>1, <1>2, <1>5, <1>6
<1> QED BY <1>3, <1>6 DEF Dispatch

LEMMA ThenWriting ==
  ASSUME Structure, ThenWrite
  PROVE  /\ depth = 1 /\ top.at = "thenWrite" /\ top.to \in Conns /\ Shaped'
         /\ Now(1, "dispatch", None, top.todo, None)
         /\ \/ depth' = 2 /\ Now(2, "write", top.to, {}, None) /\ UNCHANGED fate
               /\ \E f \in Fds : handlers[f] = top.to
            \/ depth' = 1
<1>1. top.at = "thenWrite"
  BY DEF ThenWrite, At
<1>2. depth = 1 /\ top.c = None /\ top.to \in Conns
  BY <1>1, AtMain DEF MainLabels
<1> DEFINE b == [top EXCEPT !.at = "dispatch", !.to = None]
<1>3. b \in AnyFrame /\ b.at = "dispatch" /\ b.c = None /\ b.todo = top.todo /\ b.to = None
  BY <1>2, TopFields DEF AnyFrame, Labels, MainLabels
<1>4. CASE Become(b)
  <2> HIDE DEF b
  <2> QED BY <1>1, <1>2, <1>3, <1>4, AtTop, Becoming DEF Now
<1>5. CASE Call(Frame("write", top.to), b) /\ UNCHANGED fate /\ \E f \in Fds : handlers[f] = top.to
  <2> HIDE DEF b
  <2>1. /\ depth' = depth + 1 /\ Shaped' /\ Now(depth, b.at, b.c, b.todo, b.to)
        /\ Now(depth + 1, "write", top.to, {}, None)
    BY <1>2, <1>3, <1>5, CallingFrame DEF Labels, Callees, WriteLabels, SameBelow
  <2> QED BY <1>1, <1>2, <1>3, <1>5, <2>1
<1> QED BY <1>4, <1>5 DEF ThenWrite

LEMMA TablesInRange ==
  ASSUME DataOK
  PROVE  /\ InTable \subseteq Conns
         /\ \A c \in Conns : c \in InTable <=> \E f \in Fds : table[f] = c
BY ServerAssumption DEF DataOK, InTable

LEMMA Accepting ==
  ASSUME DataOK, Structure, Accept
  PROVE  \E c \in Conns, f \in Fds :
           /\ owner[f] = "free" /\ client[c] = "waiting" /\ listenFd # None
           /\ top.at = "accept" /\ depth' = depth /\ SameBelow
           /\ Now(depth, "register", c, {}, None)
           /\ client' = [client EXCEPT ![c] = "accepted"]
           /\ fdOf' = [fdOf EXCEPT ![c] = f]
           /\ owner' = [owner EXCEPT ![f] = c]
           /\ UNCHANGED <<flagVars, listenFd, stray, connected, loggedIn, regVars, jobVars, histVars>>
<1> DEFINE c == NextIn("waiting")
           f == Min(FreeFds)
<1>1. c \in Conns /\ client[c] = "waiting"
  BY DEF Accept, NextIn
<1>2. f \in Fds /\ owner[f] = "free"
  BY LeastFree DEF Accept
<1>3. /\ top.at = "accept" /\ Become(Frame("register", c)) /\ listenFd # None
      /\ client' = [client EXCEPT ![c] = "accepted"]
      /\ fdOf' = [fdOf EXCEPT ![c] = f]
      /\ owner' = [owner EXCEPT ![f] = c]
      /\ UNCHANGED <<flagVars, listenFd, stray, connected, loggedIn, regVars, jobVars, histVars>>
  BY DEF Accept, At
<1> HIDE DEF c, f
<1>4. depth' = depth /\ SameBelow /\ Now(depth, "register", c, {}, None)
  BY <1>1, <1>3, Renewing DEF Labels, Callees, AcceptLabels, MainLabels
<1> QED BY <1>1, <1>2, <1>3, <1>4

LEMMA Reading ==
  ASSUME Structure, Read
  PROVE  /\ top.c \in Conns /\ SameBelow
         /\ \/ top.at = "recv" /\ ~connected[top.c] /\ depth' = depth - 1
            \/ /\ top.at = "recv" /\ connected[top.c] /\ depth' = depth
               /\ frames'[depth] \in AnyFrame /\ frames'[depth].c = top.c
               /\ frames'[depth].at \in {"extract", "cas"}
            \/ top.at = "extract" /\ depth' = depth - 1
            \/ /\ top.at = "extract" /\ depth' = depth
               /\ Now(depth, "submit", top.c, top.todo, top.to)
<1>1. top.at \in {"recv", "extract"} /\ top.c \in Conns
  BY AtTop DEF Read, At, FrameOK, ReadLabels
<1>2. {"extract", "submit"} \subseteq Labels /\ "cas" \in Labels \ MainLabels
  BY DEF Labels, Callees, ReadLabels, CloseLabels, MainLabels
<1>3. CASE Return /\ (top.at = "recv" => ~connected[top.c])
  BY <1>1, <1>3, LeavingTop DEF MainLabels
<1>4. CASE top.at = "recv" /\ connected[top.c] /\ Goto("extract")
  BY <1>1, <1>2, <1>4, Going DEF Now
<1>5. CASE top.at = "recv" /\ connected[top.c] /\ Become(Frame("cas", top.c))
  BY <1>1, <1>2, <1>5, Renewing DEF Now
<1>6. CASE top.at = "extract" /\ Goto("submit")
  BY <1>1, <1>2, <1>6, Going
<1> QED BY <1>1, <1>3, <1>4, <1>5, <1>6 DEF Read, At

LEMMA Writing ==
  ASSUME Structure, Write
  PROVE  /\ top.c \in Conns /\ SameBelow
         /\ \/ top.at \in {"writing", "written"} /\ depth' = depth - 1
            \/ top.at = "write" /\ ~connected[top.c] /\ depth' = depth - 1
            \/ /\ top.at = "write" /\ depth' = depth
               /\ Now(depth, "writing", top.c, top.todo, top.to)
            \/ /\ top.at = "writing" /\ depth' = depth + 1
               /\ Now(depth, "written", top.c, top.todo, top.to)
               /\ Now(depth + 1, "cas", top.c, {}, None)
<1>1. top.at \in {"write", "writing", "written"} /\ top.c \in Conns
  BY AtTop DEF Write, At, FrameOK, WriteLabels
<1>2. {"writing", "written", "cas"} \subseteq Labels
  BY DEF Labels, Callees, WriteLabels, CloseLabels
<1>3. CASE Return /\ (top.at = "write" => ~connected[top.c])
  BY <1>1, <1>3, LeavingTop DEF MainLabels
<1>4. CASE top.at = "write" /\ Goto("writing")
  BY <1>1, <1>2, <1>4, Going
<1>5. CASE top.at = "writing" /\ Call(Frame("cas", top.c), [top EXCEPT !.at = "written"])
  BY <1>1, <1>2, <1>5, CallingOn
<1> QED BY <1>1, <1>3, <1>4, <1>5 DEF Write, At

LEMMA LoggingOut ==
  ASSUME DataOK, Structure, Logout
  PROVE  /\ top.c \in Conns /\ SameBelow /\ depth' = depth
         /\ frames'[depth] \in AnyFrame /\ frames'[depth].c = top.c
         /\ \/ top.at = "logout" /\ ~loggedIn[top.c] /\ frames'[depth].at = "remove"
            \/ top.at = "logout" /\ loggedIn[top.c] /\ frames'[depth].at = "acquiring"
            \/ top.at = "acquiring" /\ frames'[depth].at = "farewell"
            \/ top.at = "snapshot" /\ frames'[depth].at = "sends" /\ frames'[depth].todo = InTable
<1>1. top.at \in {"logout", "acquiring", "snapshot"} /\ top.c \in Conns
  BY AtTop DEF Logout, At, FrameOK, CloseLabels
<1>2. {"remove", "acquiring", "farewell", "sends"} \subseteq Labels
  BY DEF Labels, CloseLabels
<1>3. InTable \in SUBSET (Conns \cup Fds)
  BY TablesInRange
<1>4. CASE top.at = "snapshot" /\ Become([top EXCEPT !.at = "sends", !.todo = InTable])
  BY <1>1, <1>2, <1>3, <1>4, Turning DEF Now
<1>5. CASE top.at = "logout" /\ ~loggedIn[top.c] /\ Goto("remove")
  BY <1>1, <1>2, <1>5, Going DEF Now
<1>6. CASE top.at = "logout" /\ loggedIn[top.c] /\ Goto("acquiring")
  BY <1>1, <1>2, <1>6, Going DEF Now
<1>7. CASE top.at = "acquiring" /\ Goto("farewell")
  BY <1>1, <1>2, <1>7, Going DEF Now
<1> QED BY <1>4, <1>5, <1>6, <1>7 DEF Logout, At

LEMMA Parted ==
  ASSUME DataOK, Structure, NEW d \in Conns, FarewellTo(d)
  PROVE  /\ top.c \in Conns /\ SameBelow /\ depth' = depth /\ top.at = "sends"
         /\ frames'[depth] \in AnyFrame /\ frames'[depth].c = top.c
         /\ frames'[depth].todo \subseteq Conns
         /\ \/ frames'[depth].at = "sends"
            \/ frames'[depth].at = "sending" /\ frames'[depth].to = d
<1>1. top.at = "sends" /\ top.c \in Conns /\ top.todo \subseteq Conns
  BY AtTop DEF FarewellTo, At, FrameOK, CloseLabels
<1>2. {"sends", "sending"} \subseteq Labels
  BY DEF Labels, CloseLabels
<1>3. CASE Become([top EXCEPT !.at = "sending", !.to = d])
  BY <1>1, <1>2, <1>3, Aiming DEF Now
<1>4. CASE Become([top EXCEPT !.todo = @ \ {d}])
  <2> DEFINE f == [top EXCEPT !.todo = @ \ {d}]
  <2>1. f \in AnyFrame /\ f.at = "sends" /\ f.c = top.c /\ f.todo = top.todo \ {d}
    BY <1>1, <1>2, TopFields DEF AnyFrame
  <2>2. Become(f)
    BY <1>4
  <2> HIDE DEF f
  <2> QED BY <1>1, <2>1, <2>2, AtTop, Becoming DEF SameBelow
<1> QED BY <1>3, <1>4 DEF FarewellTo

LEMMA PartedFromAll ==
  ASSUME DataOK, Structure, FarewellSent
  PROVE  /\ top.c \in Conns /\ SameBelow /\ depth' = depth
         /\ frames'[depth] \in AnyFrame /\ frames'[depth].c = top.c
         /\ \/ /\ top.at = "sending" /\ frames'[depth].at = "sends"
               /\ frames'[depth].todo \subseteq Conns /\ UNCHANGED loggedIn
            \/ /\ top.at = "sends" /\ frames'[depth].at = "remove"
               /\ loggedIn' = [loggedIn EXCEPT ![top.c] = FALSE]
         /\ UNCHANGED <<flagVars, fdVars, client, connected, regVars, jobVars, histVars>>
<1>1. top.at \in {"sends", "sending"} /\ top.c \in Conns /\ top.todo \subseteq Conns
  BY AtTop DEF FarewellSent, At, FrameOK, CloseLabels
<1>2. {"sends", "remove"} \subseteq Labels
  BY DEF Labels, CloseLabels
<1>3. CASE top.at = "sending" /\ Become([top EXCEPT !.at = "sends", !.to = None, !.todo = @ \ {top.to}])
  <2> DEFINE f == [top EXCEPT !.at = "sends", !.to = None, !.todo = @ \ {top.to}]
  <2>1. f \in AnyFrame /\ f.at = "sends" /\ f.c = top.c /\ f.todo = top.todo \ {top.to}
    BY <1>1, <1>2, TopFields DEF AnyFrame
  <2>2. Become(f)
    BY <1>3
  <2> HIDE DEF f
  <2>3. SameBelow /\ depth' = depth /\ frames'[depth] = f
    BY <2>1, <2>2, AtTop, Becoming DEF SameBelow
  <2> QED BY <1>1, <1>3, <2>1, <2>3 DEF FarewellSent, At, dataVars, connVars
<1>4. CASE top.at = "sends" /\ Goto("remove")
  <2>1. SameBelow /\ depth' = depth /\ Now(depth, "remove", top.c, top.todo, top.to)
    BY <1>2, <1>4, Going
  <2> QED BY <1>1, <1>4, <2>1 DEF FarewellSent, At, Now
<1> QED BY <1>3, <1>4 DEF FarewellSent, At

LEMMA Copying ==
  ASSUME DataOK, Structure, Copy
  PROVE  /\ top.at = "copy" /\ depth' = depth /\ SameBelow
         /\ Now(depth, "closeAll", top.c, InTable, top.to)
<1>1. InTable \in SUBSET (Conns \cup Fds)
  BY TablesInRange
<1> QED BY <1>1, Turning DEF Copy, At, Labels, StopLabels

LEMMA ClosingAll ==
  ASSUME Structure, CloseAll
  PROVE  /\ top.at = "closeAll" /\ top.todo \subseteq Conns /\ SameBelow
         /\ \/ top.todo = {} /\ depth' = depth /\ Now(depth, "clear", top.c, top.todo, top.to)
            \/ /\ depth' = depth + 1
               /\ \E c \in top.todo : /\ Now(depth, "closeAll", top.c, top.todo \ {c}, top.to)
                                      /\ Now(depth + 1, "cas", c, {}, None)
<1>1. top.at = "closeAll" /\ top.todo \subseteq Conns
  BY AtTop DEF CloseAll, At, FrameOK
<1>2. {"clear", "closeAll", "cas"} \subseteq Labels
  BY DEF Labels, CloseLabels, StopLabels
<1>3. CASE top.todo = {} /\ Goto("clear")
  BY <1>1, <1>2, <1>3, Going
<1>4. ASSUME NEW c \in top.todo, Call(Frame("cas", c), [top EXCEPT !.todo = @ \ {c}])
      PROVE  /\ depth' = depth + 1 /\ SameBelow
             /\ Now(depth, "closeAll", top.c, top.todo \ {c}, top.to)
             /\ Now(depth + 1, "cas", c, {}, None)
  <2> DEFINE b == [top EXCEPT !.todo = @ \ {c}]
  <2>1. b \in AnyFrame /\ b.at = "closeAll" /\ b.c = top.c /\ b.todo = top.todo \ {c} /\ b.to = top.to
    BY <1>1, <1>2, TopFields DEF AnyFrame
  <2>2. Call(Frame("cas", c), b)
    BY <1>4
  <2> HIDE DEF b
  <2> QED BY <1>1, <1>2, <2>1, <2>2, CallingFrame
<1> QED BY <1>1, <1>3, <1>4 DEF CloseAll

LEMMA Signalling ==
  ASSUME Structure, Signal
  PROVE  /\ depth' = depth + 1 /\ Shaped' /\ \A h \in 1..depth : frames'[h] = frames[h]
         /\ Now(depth + 1, "stop", "signal", {}, None)
<1>1. Frame("stop", "signal") \in AnyFrame
  BY DEF Frame, AnyFrame, Labels, StopLabels, Reasons
<1>2. stack' = <<Frame("stop", "signal")>> \o stack
  BY DEF Signal
<1>3. /\ depth' = depth + 1 /\ Shaped' /\ \A h \in 1..depth : frames'[h] = frames[h]
      /\ frames'[depth + 1] = Frame("stop", "signal")
  BY <1>1, <1>2, AtTop, Pushing
<1> QED BY <1>1, <1>3 DEF Now, Frame
-----------------------------------------------------------------------------
(* The activations keep their shape.                                      *)

LEMMA StructureSame ==
  ASSUME Structure, depth' = depth, SameBelow, FrameOK(frames'[depth]),
         frames'[depth].at \in MainLabels <=> top.at \in MainLabels
  PROVE  Structure'
<1>1. depth \in Nat /\ depth >= 1 /\ (top.at \in MainLabels <=> depth = 1)
  BY AtTop, TopFields DEF IsMain
<1>2. \A h \in 1..depth : h = depth \/ h \in 1..(depth - 1)
  BY <1>1
<1> QED BY <1>1, <1>2 DEF Structure, SameBelow, Shaped

LEMMA StructureUp ==
  ASSUME Structure, depth' = depth + 1, SameBelow,
         FrameOK(frames'[depth]), FrameOK(frames'[depth + 1]),
         frames'[depth].at \in MainLabels <=> top.at \in MainLabels,
         frames'[depth + 1].at \notin MainLabels
  PROVE  Structure'
<1>1. depth \in Nat /\ depth >= 1 /\ (top.at \in MainLabels <=> depth = 1)
  BY AtTop, TopFields DEF IsMain
<1>2. \A h \in 1..(depth + 1) : h = depth + 1 \/ h = depth \/ h \in 1..(depth - 1)
  BY <1>1
<1> QED BY <1>1, <1>2 DEF Structure, SameBelow, Shaped

LEMMA StructureDown ==
  ASSUME Structure, depth > 1, depth' = depth - 1, SameBelow
  PROVE  Structure'
<1>1. depth \in Nat
  BY TopFields
<1> QED BY <1>1 DEF Structure, SameBelow, Shaped

LEMMA StructureStay ==
  ASSUME Structure, stack' = stack
  PROVE  Structure'
BY Staying DEF Structure

LEMMA StructureMain ==
  ASSUME DataOK, Structure, Main \/ Loop
  PROVE  Structure'
<1> USE DEF At, FrameOK, Now, Labels, Callees, MainLabels, AcceptLabels, ReadLabels, WriteLabels,
            CloseLabels, StopLabels, Entering, Reasons
<1>0. top = frames[depth] /\ FrameOK(top) /\ depth \in Nat
  BY AtTop, TopFields
<1>1. CASE InitReactor
  BY <1>0, <1>1, Going, StructureSame DEF InitReactor
<1>2. CASE InitListenSocket
  BY <1>0, <1>2, Going, StructureSame DEF InitListenSocket
<1>3. CASE AddListener
  BY <1>0, <1>3, Going, StructureSame DEF AddListener
<1>4. CASE Exit
  BY <1>0, <1>4, Exiting, StructureUp
<1>5. CASE Destroy
  BY <1>0, <1>5, Going, StructureSame, StructureStay DEF Destroy
<1>6. CASE EpollWait
  BY <1>0, <1>6, Polling, StructureSame DEF SameBelow
<1>7. CASE Dispatch
  <2>1. depth = 1 /\ top.todo \subseteq Fds /\ top.at = "dispatch" /\ SameBelow
    BY <1>7, Dispatching DEF SameBelow
  <2>2. CASE depth' = 1 /\ Now(1, "wait", None, {}, None)
    BY <2>1, <2>2, StructureSame
  <2>3. CASE depth' = 2 /\ Reports /\ frames'[1].todo \subseteq Fds
    BY <2>1, <2>3, StructureUp DEF Reports
  <2>4. ASSUME NEW c \in Conns, depth' = 2, Calls(c), frames'[1].todo \subseteq Fds
        PROVE  Structure'
    BY <2>1, <2>4, StructureUp DEF Calls
  <2> QED BY <1>7, <2>1, <2>2, <2>3, <2>4, Dispatching
<1>8. CASE ThenWrite
  <2>1. depth = 1 /\ SameBelow
    BY <1>8, ThenWriting DEF SameBelow
  <2> QED BY <1>0, <1>8, <2>1, ThenWriting, StructureSame, StructureUp
<1> QED BY <1>1, <1>2, <1>3, <1>4, <1>5, <1>6, <1>7, <1>8 DEF Main, Loop

LEMMA StructureCallbacks ==
  ASSUME DataOK, Structure, HandleAccept \/ Callbacks \/ LockTable
  PROVE  Structure'
<1> USE DEF At, FrameOK, Now, Labels, Callees, MainLabels, AcceptLabels, ReadLabels, WriteLabels,
            CloseLabels, StopLabels, Entering, Reasons
<1>0. top = frames[depth] /\ FrameOK(top) /\ depth \in Nat
  BY AtTop, TopFields
<1>1. CASE Accept
  BY <1>0, <1>1, Accepting, StructureSame
<1>2. CASE AcceptFails
  BY <1>0, <1>2, LeavingTop, StructureDown DEF AcceptFails
<1>3. CASE Register \/ RegisterFails
  BY <1>0, <1>3, Going, StructureSame DEF Register, RegisterFails
<1>4. CASE CloseAgain \/ Insert
  BY <1>0, <1>4, Renewing, StructureSame DEF CloseAgain, Insert
<1>10. top.at \notin MainLabels => depth > 1
  BY AtTop, TopFields DEF IsMain
<1>5. CASE Read
  <2>1. depth > 1 /\ top.c \in Conns /\ SameBelow /\ top.at \in {"recv", "extract"}
    BY <1>0, <1>5, <1>10, Reading
  <2>2. CASE depth' = depth - 1
    BY <2>1, <2>2, StructureDown
  <2>3. CASE /\ depth' = depth /\ frames'[depth].c = top.c
             /\ frames'[depth].at \in {"extract", "cas", "submit"}
    BY <1>0, <2>1, <2>3, StructureSame
  <2> QED BY <1>5, <2>2, <2>3, Reading
<1>6. CASE Submit
  BY <1>0, <1>6, Going, StructureSame, StructureStay DEF Submit
<1>7. CASE PushTask
  BY <1>0, <1>7, Going, StructureSame DEF PushTask
<1>8. CASE Write
  <2>1. depth > 1 /\ top.c \in Conns /\ SameBelow /\ top.at \in WriteLabels
    BY <1>0, <1>8, <1>10, Writing
  <2>2. CASE depth' = depth - 1
    BY <2>1, <2>2, StructureDown
  <2>3. CASE depth' = depth /\ Now(depth, "writing", top.c, top.todo, top.to)
    BY <1>0, <2>1, <2>3, StructureSame
  <2>4. CASE /\ depth' = depth + 1 /\ Now(depth, "written", top.c, top.todo, top.to)
             /\ Now(depth + 1, "cas", top.c, {}, None)
    BY <1>0, <2>1, <2>4, StructureUp
  <2> QED BY <1>8, <2>2, <2>3, <2>4, Writing
<1>9. CASE LockTable
  BY <1>0, <1>9, Going, StructureSame DEF LockTable, Critical
<1> QED BY <1>1, <1>2, <1>3, <1>4, <1>5, <1>6, <1>7, <1>8, <1>9 DEF HandleAccept, Callbacks

LEMMA StructureClose ==
  ASSUME DataOK, Structure, CloseAndCleanup
  PROVE  Structure'
<1> USE DEF At, FrameOK, Now, Labels, Callees, MainLabels, AcceptLabels, ReadLabels, WriteLabels,
            CloseLabels, StopLabels, Entering, Reasons
<1>0. top = frames[depth] /\ FrameOK(top) /\ depth \in Nat
  BY AtTop, TopFields
<1>1. CASE Cas
  BY <1>0, <1>1, Going, LeavingTop, StructureSame, StructureDown DEF Cas
<1>2. CASE DelFd
  BY <1>0, <1>2, Going, StructureSame DEF DelFd
<1>3. CASE Logout
  BY <1>0, <1>3, LoggingOut, TablesInRange, StructureSame
<1>4. CASE FarewellSent
  BY <1>0, <1>4, PartedFromAll, StructureSame
<1>5. CASE RemoveConnection
  BY <1>0, <1>5, Going, StructureSame DEF RemoveConnection
<1>6. CASE CloseFd
  BY <1>0, <1>6, LeavingTop, StructureDown DEF CloseFd
<1>7. ASSUME NEW d \in Conns, FarewellTo(d)
      PROVE  Structure'
  BY <1>0, <1>7, Parted, StructureSame
<1> QED BY <1>1, <1>2, <1>3, <1>4, <1>5, <1>6, <1>7 DEF CloseAndCleanup

LEMMA StructureStop ==
  ASSUME DataOK, Structure, Stop \/ Signal
  PROVE  Structure'
<1> USE DEF At, FrameOK, Now, Labels, Callees, MainLabels, AcceptLabels, ReadLabels, WriteLabels,
            CloseLabels, StopLabels, Entering, Reasons
<1>0. top = frames[depth] /\ FrameOK(top) /\ depth \in Nat /\ depth >= 1
  BY AtTop, TopFields
<1>1. CASE StopBegin
  BY <1>0, <1>1, Going, LeavingTop, StructureSame, StructureDown DEF StopBegin
<1>2. CASE Copy
  BY <1>0, <1>2, Copying, TablesInRange, StructureSame
<1>3. CASE CloseAll
  BY <1>0, <1>3, ClosingAll, StructureSame, StructureUp
<1>4. CASE Clear
  BY <1>0, <1>4, Going, StructureSame DEF Clear
<1>5. CASE CloseListener
  BY <1>0, <1>5, Going, StructureSame DEF CloseListener
<1>6. CASE ShutPool
  BY <1>0, <1>6, Going, LeavingTop, StructureSame, StructureDown DEF ShutPool
<1>7. CASE Signal
  <2>1. SameBelow /\ frames'[depth] = top /\ depth' = depth + 1
    BY <1>0, <1>7, Signalling DEF SameBelow
  <2> QED BY <1>0, <1>7, <2>1, Signalling, StructureUp
<1> QED BY <1>1, <1>2, <1>3, <1>4, <1>5, <1>6, <1>7 DEF Stop

LEMMA StructureInvariance ==
  ASSUME DataOK, Structure, [Next]_vars
  PROVE  Structure'
<1>1. CASE MainThread
  BY <1>1, StructureMain, StructureCallbacks, StructureClose, StructureStop DEF MainThread
<1>2. CASE \/ \E w \in Workers : Worker(w)
           \/ \E c \in Conns : DestroyConnection(c)
           \/ ClientConnects \/ Redial \/ Over \/ UNCHANGED vars
  <2>1. stack' = stack
    BY <1>2 DEF Worker, DestroyConnection, ClientConnects, Redial, Over, vars
  <2> QED BY <2>1, StructureStay
<1> QED BY <1>1, <1>2, StructureStop DEF Next
-----------------------------------------------------------------------------
(* The variables keep their types.                                        *)

LEMMA TopConn ==
  ASSUME Structure
  PROVE  top.at \in Entering \cup ReadLabels \cup WriteLabels \cup CloseLabels => top.c \in Conns
BY AtTop DEF FrameOK

\* A step that leaves the variables alone.
LEMMA DataStay ==
  ASSUME DataOK, UNCHANGED dataVars
  PROVE  DataOK'
BY DEF DataOK, dataVars, flagVars, fdVars, connVars, regVars, jobVars, histVars

LEMMA DataMain ==
  ASSUME DataOK, Structure, MainThread
  PROVE  DataOK'
<1> USE DEF flagVars, fdVars, connVars, regVars, jobVars, histVars
<1>0. top.at \in Entering \cup ReadLabels \cup WriteLabels \cup CloseLabels => top.c \in Conns
  BY TopConn
<1>1. CASE InitReactor
  BY <1>1 DEF InitReactor, DataOK
<1>2. CASE InitListenSocket
  BY <1>2, LeastFree DEF InitListenSocket, DataOK
<1>3. CASE AddListener
  BY <1>3 DEF AddListener, DataOK
<1>4. CASE Exit \/ EpollWait \/ Read \/ Write \/ Logout \/ Copy \/ CloseAll \/ LockTable
  BY <1>4, DataStay DEF Exit, EpollWait, Read, Write, Logout, Copy, CloseAll, LockTable
<1>5. CASE \E d \in Conns : FarewellTo(d)
  BY <1>5, DataStay DEF FarewellTo
<1>6. CASE Destroy
  BY <1>6 DEF Destroy, DataOK
<1>7. CASE Dispatch
  BY <1>7 DEF Dispatch, DataOK
<1>8. CASE ThenWrite
  BY <1>8 DEF ThenWrite, DataOK
<1>9. CASE Accept
  BY <1>9, Accepting DEF DataOK
<1>10. CASE AcceptFails
  BY <1>10 DEF AcceptFails, DataOK
<1>11. CASE Register
  BY <1>0, <1>11 DEF Register, DataOK, At, Entering
<1>12. CASE RegisterFails
  BY <1>0, <1>12 DEF RegisterFails, DataOK, At, Entering, CloseAs
<1>13. CASE CloseAgain
  BY <1>0, <1>13 DEF CloseAgain, DataOK, At, Entering, CloseAs
<1>14. CASE Insert
  BY <1>0, <1>14 DEF Insert, DataOK, At, Entering
<1>15. CASE Submit
  BY <1>15 DEF Submit, DataOK
<1>16. CASE PushTask
  BY <1>0, <1>16 DEF PushTask, DataOK, At, ReadLabels
<1>17. CASE Cas
  BY <1>0, <1>17 DEF Cas, DataOK, At, CloseLabels
<1>18. CASE DelFd
  BY <1>0, <1>18 DEF DelFd, DataOK, At, CloseLabels
<1>19. CASE FarewellSent
  BY <1>0, <1>19, PartedFromAll DEF DataOK
<1>20. CASE RemoveConnection
  BY <1>0, <1>20 DEF RemoveConnection, DataOK, At, CloseLabels
<1>21. CASE CloseFd
  BY <1>0, <1>21 DEF CloseFd, DataOK, At, CloseLabels, CloseAs
<1>22. CASE StopBegin
  BY <1>22 DEF StopBegin, DataOK
<1>23. CASE Clear
  BY <1>23 DEF Clear, DataOK
<1>24. CASE CloseListener
  BY <1>24 DEF CloseListener, DataOK, CloseAs
<1>25. CASE ShutPool
  BY <1>25, DataStay DEF ShutPool, DataOK
<1> QED
  BY <1>1, <1>2, <1>3, <1>4, <1>5, <1>6, <1>7, <1>8, <1>9, <1>10, <1>11, <1>12, <1>13, <1>14, <1>15,
     <1>16, <1>17, <1>18, <1>19, <1>20, <1>21, <1>22, <1>23, <1>24, <1>25
  DEF MainThread, Main, Loop, HandleAccept, Callbacks, CloseAndCleanup, Stop
LEMMA DataOthers ==
  ASSUME DataOK, Structure,
         \/ \E w \in Workers : Worker(w)
         \/ \E c \in Conns : DestroyConnection(c)
         \/ ClientConnects \/ Redial \/ Signal
  PROVE  DataOK'
<1> USE DEF flagVars, fdVars, connVars, regVars, jobVars, histVars
<1>1. ASSUME NEW w \in Workers, Worker(w)
      PROVE  DataOK'
  <2>1. /\ worker[w] \in Jobs /\ Idle \in Jobs
        /\ \A x \in Jobs : x.at \in {"idle", "acquire", "spread", "send"}
                           /\ x.c \in Conns \cup {None} /\ x.to \in Conns \cup {None}
    BY DEF DataOK, Jobs, Idle
  <2>2. CASE TakeTask(w)
    <3>1. tasks # <<>> /\ tasks' = Tail(tasks) /\ Head(tasks) \in Conns /\ Tail(tasks) \in Seq(Conns)
      BY <2>2 DEF TakeTask, DataOK
    <3>3. /\ [Idle EXCEPT !.at = "spread"] \in Jobs
          /\ \A c \in Conns : [Idle EXCEPT !.at = "acquire", !.c = c] \in Jobs
      BY DEF Jobs, Idle
    <3>2. PICK j \in Jobs : worker' = [worker EXCEPT ![w] = j]
      BY <2>1, <2>2, <3>1, <3>3 DEF TakeTask, Do
    <3> QED BY <1>1, <2>2, <3>1, <3>2 DEF TakeTask, Worker, DataOK
  <2>3. CASE Login(w)
    <3>1. PICK j \in Jobs : worker' = [worker EXCEPT ![w] = j]
      BY <2>3 DEF Login, Do, Jobs, Idle
    <3>2. loggedIn' \in [Conns -> BOOLEAN]
      BY <2>3 DEF Login, DataOK
    <3> QED BY <1>1, <2>3, <3>1, <3>2 DEF Login, Worker, DataOK
  <2>4. CASE Broadcast(w)
    <3>1. \A d \in InTable : [worker[w] EXCEPT !.at = "send", !.to = d] \in Jobs
      BY <2>1, TablesInRange DEF Jobs
    <3>2. PICK j \in Jobs : worker' = [worker EXCEPT ![w] = j]
      BY <2>1, <2>4, <3>1 DEF Broadcast, Do
    <3> QED BY <1>1, <2>4, <3>2 DEF Broadcast, Worker, DataOK
  <2> QED BY <1>1, <2>2, <2>3, <2>4 DEF Worker
<1>2. ASSUME NEW c \in Conns, DestroyConnection(c)
      PROVE  DataOK'
  BY <1>2 DEF DestroyConnection, DataOK, CloseAs
<1>3. CASE ClientConnects
  BY <1>3 DEF ClientConnects, DataOK
<1>4. CASE Redial
  BY <1>4, LeastFree DEF Redial, DataOK
<1>5. CASE Signal
  BY <1>5 DEF Signal, DataOK
<1> QED BY <1>1, <1>2, <1>3, <1>4, <1>5

LEMMA DataInvariance ==
  ASSUME DataOK, Structure, [Next]_vars
  PROVE  DataOK'
BY DataMain, DataOthers, DataStay DEF Next, Over, vars
-----------------------------------------------------------------------------
(* What lies on what.                                                     *)

\* Two labels of the same activation.
Kin(l, m) ==
  \/ l \in AcceptLabels /\ m \in AcceptLabels
  \/ l \in ReadLabels /\ m \in ReadLabels \cup {"cas"}
  \/ l \in WriteLabels /\ m \in WriteLabels
  \/ l \in CloseLabels /\ m \in CloseLabels
  \/ l \in StopLabels /\ m \in StopLabels
  \/ l \in MainLabels /\ m \in MainLabels

LEMMA NestingSame ==
  ASSUME Structure, Nesting, depth' = depth, SameBelow, hit' = hit, stopped => stopped',
         Kin(top.at, frames'[depth].at),
         frames'[depth].c = top.c \/ top.at \in AcceptLabels,
         frames'[depth].at \in StopBody => stopped'
  PROVE  Nesting'
<1> USE DEF MainLabels, AcceptLabels, ReadLabels, WriteLabels, CloseLabels, StopLabels
<1>1. depth \in Nat /\ depth >= 1 /\ top = frames[depth]
  BY TopFields
<1>2. \A h \in 1..depth : h = depth \/ h \in 1..(depth - 1)
  BY <1>1
<1>3. \A h \in 2..depth : Called(frames[h], frames[h - 1])
  BY DEF Nesting
<1>4. ASSUME NEW h \in 2..depth
      PROVE  Called(frames[h], frames[h - 1])'
  <2>1. frames'[h - 1] = frames[h - 1]
    BY <1>1 DEF SameBelow
  <2>2. CASE h = depth
    BY <1>3, <1>4, <2>1, <2>2, <1>1 DEF Called, Kin
  <2>3. CASE h # depth
    <3>1. frames'[h] = frames[h]
      BY <1>1, <2>3 DEF SameBelow
    <3> QED BY <1>3, <1>4, <2>1, <3>1 DEF Called
  <2> QED BY <2>2, <2>3
<1>5. \A h \in 1..depth : frames'[h].at \in StopBody => stopped'
  BY <1>2 DEF Nesting, SameBelow
<1>6. frames'[depth].at \in StopLabels => top.at \in StopLabels
  BY DEF Kin
<1>7. \A h \in 1..depth : frames'[h].at \in StopLabels => frames[h].at \in StopLabels
  BY <1>1, <1>2, <1>6 DEF SameBelow
<1> QED BY <1>4, <1>5, <1>7 DEF Nesting

LEMMA NestingDown ==
  ASSUME Structure, Nesting, depth' = depth - 1, SameBelow, hit' = hit, stopped => stopped'
  PROVE  Nesting'
<1>1. depth \in Nat /\ depth >= 1 /\ top = frames[depth]
  BY TopFields
<1>2. \A h \in 1..depth' : frames'[h] = frames[h] /\ h \in 1..depth
  BY <1>1 DEF SameBelow
<1>3. ASSUME NEW h \in 2..depth'
      PROVE  Called(frames[h], frames[h - 1])'
  <2>1. frames'[h] = frames[h] /\ frames'[h - 1] = frames[h - 1] /\ h \in 2..depth
    BY <1>1, <1>2
  <2> QED BY <2>1 DEF Called, Nesting
<1> QED BY <1>2, <1>3 DEF Nesting

LEMMA NestingUp ==
  ASSUME Structure, Nesting, depth' = depth + 1, SameBelow, hit' = hit, stopped => stopped',
         frames'[depth].at = top.at \/ Kin(top.at, frames'[depth].at),
         frames'[depth].c = top.c,
         frames'[depth].at \in StopBody => stopped',
         Called(frames'[depth + 1], frames'[depth]),
         frames'[depth + 1].at \notin StopBody,
         frames'[depth + 1].at \in StopLabels => top.at \in MainLabels
  PROVE  Nesting'
<1> USE DEF MainLabels, AcceptLabels, ReadLabels, WriteLabels, CloseLabels, StopLabels
<1>1. depth \in Nat /\ depth >= 1 /\ top = frames[depth]
  BY TopFields
<1>2. \A h \in 1..(depth + 1) : h = depth + 1 \/ h = depth \/ h \in 1..(depth - 1)
  BY <1>1
<1>3. \A h \in 2..depth : Called(frames[h], frames[h - 1])
  BY DEF Nesting
<1>4. ASSUME NEW h \in 2..(depth + 1)
      PROVE  Called(frames[h], frames[h - 1])'
  <2>1. CASE h = depth + 1
    <3>1. h - 1 = depth
      BY <1>1, <2>1
    <3> QED BY <2>1, <3>1 DEF Called
  <2>2. CASE h \in 2..depth
    <3>1. frames'[h - 1] = frames[h - 1]
      BY <1>1, <2>2 DEF SameBelow
    <3>2. CASE h = depth
      BY <1>3, <2>2, <3>1, <3>2, <1>1 DEF Called, Kin
    <3>3. CASE h # depth
      <4>1. frames'[h] = frames[h]
        BY <1>1, <2>2, <3>3 DEF SameBelow
      <4> QED BY <1>3, <2>2, <3>1, <4>1 DEF Called
    <3> QED BY <3>2, <3>3
  <2> QED BY <1>1, <2>1, <2>2
<1>5. ASSUME NEW h \in 1..(depth + 1), frames'[h].at \in StopBody
      PROVE  stopped'
  <2>1. CASE h \in 1..(depth - 1)
    <3>1. frames'[h] = frames[h] /\ h \in 1..depth
      BY <1>1, <2>1 DEF SameBelow
    <3> QED BY <1>5, <3>1 DEF Nesting
  <2> QED BY <1>2, <1>5, <2>1
<1>6. frames'[depth].at \in StopLabels => top.at \in StopLabels
  BY DEF Kin
<1>7. \A h \in 1..depth : frames'[h].at \in StopLabels => frames[h].at \in StopLabels
  BY <1>1, <1>2, <1>6 DEF SameBelow
<1>8. frames'[depth + 1].at \in StopLabels => depth = 1 /\ frames'[1].at \notin StopLabels
  <2>1. top.at \in MainLabels => depth = 1
    BY AtTop DEF IsMain
  <2>2. top.at \in MainLabels => top.at \notin StopLabels
    OBVIOUS
  <2> QED BY <1>1, <1>6, <2>1, <2>2
<1>9. ASSUME NEW h \in 1..(depth + 1), NEW k \in 1..(depth + 1),
             frames'[h].at \in StopLabels, frames'[k].at \in StopLabels
      PROVE  h = k
  BY <1>1, <1>2, <1>7, <1>8, <1>9 DEF Nesting
<1> QED BY <1>1, <1>4, <1>5, <1>9 DEF Nesting

LEMMA NestingStay ==
  ASSUME Nesting, stack' = stack, hit' = hit, stopped => stopped'
  PROVE  Nesting'
<1>1. depth' = depth /\ frames' = frames
  BY Staying
<1> QED BY <1>1 DEF Nesting, Called

LEMMA NestingMain ==
  ASSUME DataOK, Structure, Nesting, Main \/ Loop
  PROVE  Nesting'
<1> USE DEF At, Now, Kin, MainLabels, AcceptLabels, ReadLabels, WriteLabels, CloseLabels,
            StopLabels, StopBody, flagVars, histVars, dataVars
<1>0. top = frames[depth] /\ depth \in Nat /\ MainLabels \subseteq Labels
  BY TopFields DEF Labels
<1>1. CASE InitReactor
  BY <1>0, <1>1, Going, NestingSame DEF InitReactor
<1>2. CASE InitListenSocket
  BY <1>0, <1>2, Going, NestingSame DEF InitListenSocket
<1>3. CASE AddListener
  BY <1>0, <1>3, Going, NestingSame DEF AddListener
<1>4. CASE Exit
  <2>1. /\ depth = 1 /\ depth' = 2 /\ SameBelow /\ top.at = "exit" /\ top.c = None
        /\ Now(1, "destroy", None, top.todo, None) /\ Now(2, "stop", "exit", {}, None)
    BY <1>4, Exiting, AtMain
  <2>2. Called(frames'[2], frames'[1])
    BY <2>1 DEF Called
  <2>3. hit' = hit /\ stopped' = stopped
    BY <1>4 DEF Exit
  <2> QED BY <2>1, <2>2, <2>3, NestingUp
<1>5. CASE Destroy
  BY <1>0, <1>5, Going, NestingSame, NestingStay DEF Destroy
<1>6. CASE EpollWait
  <2>1. hit' = hit /\ stopped' = stopped
    BY <1>6 DEF EpollWait
  <2>2. /\ depth' = depth /\ SameBelow /\ top.at = "wait" /\ frames'[depth].c = top.c
        /\ frames'[depth].at \in {"exit", "dispatch"}
    BY <1>6, Polling, AtMain DEF SameBelow
  <2> QED BY <2>1, <2>2, NestingSame
<1>7. CASE Dispatch
  <2>0. hit' = hit /\ stopped' = stopped
    BY <1>7 DEF Dispatch
  <2>1. depth = 1 /\ top.at = "dispatch" /\ top.c = None /\ SameBelow
    BY <1>7, Dispatching, AtMain DEF SameBelow
  <2>2. CASE depth' = 1 /\ Now(1, "wait", None, {}, None)
    BY <2>0, <2>1, <2>2, NestingSame
  <2>3. CASE depth' = 2 /\ Reports
    <3>1. Called(frames'[2], frames'[1])
      BY <2>3 DEF Reports, Called
    <3> QED BY <2>0, <2>1, <2>3, <3>1, NestingUp DEF Reports
  <2>4. ASSUME NEW c \in Conns, depth' = 2, Calls(c)
        PROVE  Nesting'
    <3>1. Called(frames'[2], frames'[1])
      BY <2>4 DEF Calls, Called
    <3> QED BY <2>0, <2>1, <2>4, <3>1, NestingUp DEF Calls
  <2> QED BY <1>7, <2>1, <2>2, <2>3, <2>4, Dispatching
<1>8. CASE ThenWrite
  <2>0. hit' = hit /\ stopped' = stopped
    BY <1>8 DEF ThenWrite
  <2>1. /\ depth = 1 /\ top.at = "thenWrite" /\ top.c = None /\ SameBelow
        /\ Now(1, "dispatch", None, top.todo, None)
    BY <1>8, ThenWriting, AtMain DEF SameBelow
  <2>2. CASE depth' = 2 /\ Now(2, "write", top.to, {}, None)
    <3>1. Called(frames'[2], frames'[1])
      BY <2>1, <2>2 DEF Called
    <3> QED BY <2>0, <2>1, <2>2, <3>1, NestingUp
  <2>3. CASE depth' = 1
    BY <2>0, <2>1, <2>3, NestingSame
  <2> QED BY <1>8, <2>2, <2>3, ThenWriting
<1> QED BY <1>1, <1>2, <1>3, <1>4, <1>5, <1>6, <1>7, <1>8 DEF Main, Loop

LEMMA NestingCallbacks ==
  ASSUME DataOK, Structure, Nesting, HandleAccept \/ Callbacks \/ LockTable
  PROVE  Nesting'
<1> USE DEF At, Now, Kin, MainLabels, AcceptLabels, ReadLabels, WriteLabels, CloseLabels,
            StopLabels, StopBody, flagVars, histVars, dataVars
<1>0. top = frames[depth] /\ depth \in Nat
      /\ AcceptLabels \cup ReadLabels \cup CloseLabels \subseteq Labels \ MainLabels
  BY TopFields DEF Labels, Callees
<1>1. CASE Accept
  BY <1>0, <1>1, Accepting, NestingSame
<1>2. CASE AcceptFails
  BY <1>0, <1>2, LeavingTop, NestingDown DEF AcceptFails
<1>3. CASE Register \/ RegisterFails
  BY <1>0, <1>3, Going, NestingSame DEF Register, RegisterFails
<1>4. CASE CloseAgain \/ Insert
  BY <1>0, <1>4, Renewing, NestingSame DEF CloseAgain, Insert
<1>5. CASE Read
  <2>1. hit' = hit /\ stopped' = stopped
    BY <1>5 DEF Read
  <2>2. CASE depth' = depth - 1
    BY <1>5, <2>1, <2>2, Reading, NestingDown
  <2>3. CASE depth' # depth - 1
    <3>1. /\ depth' = depth /\ SameBelow /\ frames'[depth].c = top.c
          /\ top.at \in {"recv", "extract"}
          /\ frames'[depth].at \in {"extract", "cas", "submit"}
      BY <1>5, <2>3, Reading
    <3> QED BY <2>1, <3>1, NestingSame
  <2> QED BY <2>2, <2>3
<1>6. CASE Submit
  BY <1>0, <1>6, Going, NestingSame, NestingStay DEF Submit
<1>7. CASE PushTask
  BY <1>0, <1>7, Going, NestingSame DEF PushTask
<1>8. CASE Write
  <2>1. hit' = hit /\ stopped' = stopped
    BY <1>8 DEF Write
  <2>2. CASE depth' = depth - 1
    BY <1>8, <2>1, <2>2, Writing, NestingDown
  <2>3. CASE /\ top.at = "write" /\ depth' = depth /\ SameBelow
             /\ Now(depth, "writing", top.c, top.todo, top.to)
    BY <2>1, <2>3, NestingSame
  <2>4. CASE /\ top.at = "writing" /\ depth' = depth + 1 /\ SameBelow
             /\ Now(depth, "written", top.c, top.todo, top.to)
             /\ Now(depth + 1, "cas", top.c, {}, None)
    <3>1. Called(frames'[depth + 1], frames'[depth])
      BY <2>4 DEF Called
    <3> QED BY <2>1, <2>4, <3>1, NestingUp
  <2> QED BY <1>8, <2>2, <2>3, <2>4, Writing
<1>9. CASE LockTable
  BY <1>0, <1>9, Going, NestingSame DEF LockTable, Critical
<1> QED BY <1>1, <1>2, <1>3, <1>4, <1>5, <1>6, <1>7, <1>8, <1>9 DEF HandleAccept, Callbacks

LEMMA NestingClose ==
  ASSUME DataOK, Structure, Nesting, CloseAndCleanup
  PROVE  Nesting'
<1> USE DEF At, Now, Kin, MainLabels, AcceptLabels, ReadLabels, WriteLabels, CloseLabels,
            StopLabels, StopBody, flagVars, histVars, dataVars
<1>0. top = frames[depth] /\ CloseLabels \subseteq Labels
  BY TopFields DEF Labels
<1>1. CASE Cas
  BY <1>0, <1>1, Going, LeavingTop, NestingSame, NestingDown DEF Cas
<1>2. CASE DelFd
  BY <1>0, <1>2, Going, NestingSame DEF DelFd
<1>3. CASE Logout
  <2>1. hit' = hit /\ stopped' = stopped
    BY <1>3 DEF Logout
  <2> QED BY <1>0, <1>3, <2>1, LoggingOut, NestingSame
<1>4. CASE FarewellSent
  BY <1>0, <1>4, PartedFromAll, NestingSame
<1>5. CASE RemoveConnection
  BY <1>0, <1>5, Going, NestingSame DEF RemoveConnection
<1>6. CASE CloseFd
  BY <1>0, <1>6, LeavingTop, NestingDown DEF CloseFd
<1>7. ASSUME NEW d \in Conns, FarewellTo(d)
      PROVE  Nesting'
  <2>1. hit' = hit /\ stopped' = stopped
    BY <1>7 DEF FarewellTo
  <2> QED BY <1>0, <1>7, <2>1, Parted, NestingSame
<1> QED BY <1>1, <1>2, <1>3, <1>4, <1>5, <1>6, <1>7 DEF CloseAndCleanup

LEMMA NestingStop ==
  ASSUME DataOK, Structure, Nesting, Stop
  PROVE  Nesting'
<1> USE DEF At, Now, Kin, MainLabels, AcceptLabels, ReadLabels, WriteLabels, CloseLabels,
            StopLabels, StopBody, flagVars, histVars, dataVars
<1>0. top = frames[depth] /\ depth \in Nat /\ depth \in 1..depth /\ StopLabels \subseteq Labels
  BY TopFields DEF Labels
<1>9. top.at \in StopBody => stopped
  BY <1>0 DEF Nesting
<1>1. CASE StopBegin
  BY <1>0, <1>1, Going, LeavingTop, NestingSame, NestingDown DEF StopBegin
<1>2. CASE Copy
  <2>1. hit' = hit /\ stopped' = stopped
    BY <1>2 DEF Copy
  <2> QED BY <1>0, <1>2, <1>9, <2>1, Copying, NestingSame
<1>3. CASE CloseAll
  <2>1. hit' = hit /\ stopped' = stopped
    BY <1>3 DEF CloseAll
  <2>2. CASE depth' = depth /\ Now(depth, "clear", top.c, top.todo, top.to)
    BY <1>0, <1>3, <1>9, <2>1, <2>2, ClosingAll, NestingSame
  <2>3. ASSUME NEW c \in top.todo, depth' = depth + 1,
               Now(depth, "closeAll", top.c, top.todo \ {c}, top.to), Now(depth + 1, "cas", c, {}, None)
        PROVE  Nesting'
    <3>1. Called(frames'[depth + 1], frames'[depth])
      BY <2>3 DEF Called
    <3> QED BY <1>0, <1>3, <1>9, <2>1, <2>3, <3>1, ClosingAll, NestingUp
  <2> QED BY <1>3, <2>2, <2>3, ClosingAll
<1>4. CASE Clear
  BY <1>0, <1>4, <1>9, Going, NestingSame DEF Clear
<1>5. CASE CloseListener
  BY <1>0, <1>5, <1>9, Going, NestingSame DEF CloseListener
<1>6. CASE ShutPool
  BY <1>0, <1>6, <1>9, Going, LeavingTop, NestingSame, NestingDown DEF ShutPool
<1> QED BY <1>1, <1>2, <1>3, <1>4, <1>5, <1>6 DEF Stop

\* When no stop() has begun to stop the server, there is one on the stack only if
\* it is on the top.
LEMMA NoStopBelow ==
  ASSUME Structure, Nesting, ~stopped
  PROVE  \A h \in 1..depth : frames[h].at \in StopLabels => h = depth /\ frames[h].at = "stop"
<1>1. depth \in Nat /\ \A h \in 1..depth : frames[h].at \notin StopBody
  BY TopFields DEF Nesting
<1>2. ASSUME NEW h \in 1..depth, frames[h].at \in StopLabels
      PROVE  h = depth /\ frames[h].at = "stop"
  <2>1. frames[h].at = "stop"
    BY <1>1, <1>2 DEF StopBody
  <2>2. CASE h # depth
    <3>1. Called(frames[h + 1], frames[h])
      <4>1. h + 1 \in 2..depth /\ (h + 1) - 1 = h
        BY <1>1, <2>2
      <4> QED BY <4>1 DEF Nesting
    <3> QED BY <1>2, <2>1, <3>1 DEF Called
  <2> QED BY <2>1, <2>2
<1> QED BY <1>2

LEMMA NestingSignal ==
  ASSUME DataOK, Structure, Nesting, Signal
  PROVE  Nesting'
<1>1. /\ depth \in Nat /\ depth >= 1 /\ depth' = depth + 1 /\ top = frames[depth]
      /\ \A h \in 1..depth : frames'[h] = frames[h]
      /\ Now(depth + 1, "stop", "signal", {}, None)
  BY Signalling, TopFields
<1>2. ~stopped /\ stopped' = stopped /\ top.at # "stop" /\ hit' = Place(top)
  BY DEF Signal, flagVars, Place
<1>3. \A h \in 1..depth : frames[h].at \notin StopLabels
  BY <1>1, <1>2, NoStopBelow
<1>4. \A h \in 1..(depth + 1) : h = depth + 1 \/ h \in 1..depth
  BY <1>1
<1>5. ASSUME NEW h \in 2..(depth + 1)
      PROVE  Called(frames[h], frames[h - 1])'
  <2>1. frames'[h - 1] = frames[h - 1] /\ h - 1 \in 1..depth
    BY <1>1
  <2>2. frames[h - 1].at \notin StopLabels
    BY <1>3, <2>1
  <2>3. CASE h = depth + 1
    <3>1. h - 1 = depth
      BY <1>1, <2>3
    <3> QED BY <1>1, <1>2, <2>1, <2>2, <2>3, <3>1
         DEF Called, Now, AcceptLabels, ReadLabels, WriteLabels, CloseLabels
  <2>4. CASE h \in 2..depth
    <3>1. frames'[h] = frames[h] /\ h \in 1..depth
      BY <1>1, <2>4
    <3>2. frames[h].at \notin StopLabels /\ Called(frames[h], frames[h - 1])
      BY <1>3, <2>4, <3>1 DEF Nesting
    <3> QED BY <2>1, <2>2, <3>1, <3>2 DEF Called
  <2> QED BY <1>1, <2>3, <2>4
<1>6. \A h \in 1..(depth + 1) : frames'[h].at \in StopLabels => h = depth + 1
  BY <1>1, <1>3, <1>4
<1>7. \A h \in 1..(depth + 1) : frames'[h].at \notin StopBody
  BY <1>1, <1>3, <1>4 DEF StopBody, Now
<1> QED BY <1>1, <1>5, <1>6, <1>7 DEF Nesting

LEMMA NestingInvariance ==
  ASSUME DataOK, Structure, Nesting, [Next]_vars
  PROVE  Nesting'
<1>1. CASE MainThread
  BY <1>1, NestingMain, NestingCallbacks, NestingClose, NestingStop DEF MainThread
<1>2. CASE \/ \E w \in Workers : Worker(w)
           \/ \E c \in Conns : DestroyConnection(c)
           \/ ClientConnects \/ Redial \/ Over \/ UNCHANGED vars
  <2>1. stack' = stack /\ hit' = hit /\ stopped' = stopped
    BY <1>2 DEF Worker, DestroyConnection, ClientConnects, Redial, Over, vars, dataVars,
                flagVars, histVars
  <2> QED BY <2>1, NestingStay
<1> QED BY <1>1, <1>2, NestingSignal DEF Next
-----------------------------------------------------------------------------
(* How activations move.                                                  *)

\* How the label of an activation changes while it goes on.
Turns ==
  {<<"initReactor", "initListen">>, <<"initReactor", "exit">>, <<"initListen", "initAdd">>,
   <<"initListen", "exit">>, <<"initAdd", "wait">>, <<"initAdd", "exit">>,
   <<"destroy", "destroyed">>, <<"wait", "dispatch">>, <<"wait", "exit">>,
   <<"dispatch", "wait">>, <<"thenWrite", "dispatch">>,
   <<"register", "insert">>, <<"register", "closeAgain">>, <<"insert", "inserting">>,
   <<"recv", "extract">>, <<"recv", "cas">>, <<"extract", "submit">>,
   <<"submit", "pushing">>, <<"pushing", "extract">>, <<"write", "writing">>,
   <<"cas", "del">>, <<"del", "logout">>, <<"logout", "remove">>, <<"logout", "acquiring">>,
   <<"acquiring", "farewell">>, <<"farewell", "snapshot">>, <<"snapshot", "sends">>,
   <<"sends", "sends">>, <<"sends", "sending">>, <<"sending", "sends">>,
   <<"sends", "remove">>, <<"remove", "removing">>, <<"removing", "closeFd">>,
   <<"stop", "copy">>, <<"copy", "closeAll">>, <<"closeAll", "clear">>,
   <<"clear", "closeListen">>, <<"closeListen", "shutdown">>, <<"shutdown", "join">>}

Ends == {"accept", "recv", "extract", "write", "writing", "written", "cas", "closeFd",
         "stop", "shutdown", "join"}

\* An activation calls another: its label, the label that it goes on with and the
\* label of the other.
CallsMade ==
  {<<"exit", "destroy", "stop">>, <<"dispatch", "dispatch", "stop">>,
   <<"dispatch", "dispatch", "accept">>, <<"dispatch", "dispatch", "cas">>,
   <<"dispatch", "dispatch", "recv">>, <<"dispatch", "dispatch", "write">>,
   <<"dispatch", "thenWrite", "recv">>, <<"thenWrite", "dispatch", "write">>,
   <<"writing", "written", "cas">>, <<"closeAll", "closeAll", "cas">>}

\* A step of the main thread ends the running activation, goes on with it, replaces
\* it or calls another; or leaves the stack alone; or a signal comes.
Left == depth > 1 /\ depth' = depth - 1 /\ top.at \in Ends
Turned ==
  /\ depth' = depth /\ frames'[depth].c = top.c
  /\ <<top.at, frames'[depth].at>> \in Turns
Renewed ==
  /\ depth' = depth
  /\ <<top.at, frames'[depth].at>> \in
       {<<"accept", "register">>, <<"closeAgain", "accept">>, <<"inserting", "accept">>}
CalledOne ==
  /\ depth' = depth + 1 /\ frames'[depth].c = top.c
  /\ <<top.at, frames'[depth].at, frames'[depth + 1].at>> \in CallsMade

Moved == SameBelow /\ (Left \/ Turned \/ Renewed \/ CalledOne)
Stayed == depth' = depth /\ frames' = frames
Signalled ==
  /\ depth' = depth + 1 /\ Now(depth + 1, "stop", "signal", {}, None)
  /\ \A h \in 1..depth : frames'[h] = frames[h]

LEMMA GoingOn ==
  ASSUME Structure, NEW l \in Labels, Goto(l), <<top.at, l>> \in Turns
  PROVE  Moved
BY Going DEF Moved, Turned, Now

LEMMA MainMoves ==
  ASSUME DataOK, Structure, Main \/ Loop
  PROVE  Moved \/ Stayed
<1> USE DEF At, MainLabels
<1>0. /\ top = frames[depth] /\ depth \in Nat /\ MainLabels \subseteq Labels
      /\ top.at \in MainLabels => depth = 1 /\ top.c = None
  BY TopFields, AtMain DEF Labels
<1>1. CASE InitReactor
  BY <1>0, <1>1, GoingOn DEF InitReactor, Turns
<1>2. CASE InitListenSocket
  BY <1>0, <1>2, GoingOn DEF InitListenSocket, Turns
<1>3. CASE AddListener
  BY <1>0, <1>3, GoingOn DEF AddListener, Turns
<1>4. CASE Exit
  BY <1>0, <1>4, Exiting DEF Moved, CalledOne, CallsMade, Now
<1>5. CASE Destroy
  BY <1>0, <1>5, GoingOn, Staying DEF Destroy, Turns, Stayed
<1>6. CASE EpollWait
  BY <1>0, <1>6, Polling DEF Moved, SameBelow, Turned, Turns, Now
<1>7. CASE Dispatch
  <2>1. depth = 1 /\ top.at = "dispatch" /\ SameBelow /\ top.c = None
    BY <1>0, <1>7, Dispatching DEF SameBelow
  <2>2. CASE depth' = 1 /\ Now(1, "wait", None, {}, None)
    BY <2>1, <2>2 DEF Moved, Turned, Turns, Now
  <2>3. CASE depth' = 2 /\ Reports
    BY <2>1, <2>3 DEF Moved, CalledOne, CallsMade, Reports, Now
  <2>4. ASSUME NEW c \in Conns, depth' = 2, Calls(c)
        PROVE  Moved
    BY <2>1, <2>4 DEF Moved, CalledOne, CallsMade, Calls, Now
  <2> QED BY <1>7, <2>2, <2>3, <2>4, Dispatching
<1>8. CASE ThenWrite
  <2>1. depth = 1 /\ top.at = "thenWrite" /\ SameBelow /\ top.c = None
        /\ frames'[1].at = "dispatch" /\ frames'[1].c = None
    BY <1>0, <1>8, ThenWriting DEF SameBelow, Now
  <2>3. depth' = 1 \/ (depth' = 2 /\ Now(2, "write", top.to, {}, None))
    BY <1>8, ThenWriting
  <2>2. depth' = 1 \/ (depth' = 2 /\ frames'[2].at = "write")
    BY <2>3 DEF Now
  <2> QED BY <2>1, <2>2 DEF Moved, CalledOne, CallsMade, Turned, Turns
<1> QED BY <1>1, <1>2, <1>3, <1>4, <1>5, <1>6, <1>7, <1>8 DEF Main, Loop

LEMMA CallbackMoves ==
  ASSUME DataOK, Structure, HandleAccept \/ Callbacks \/ LockTable
  PROVE  Moved \/ Stayed
<1> USE DEF At
<1>0. /\ top = frames[depth] /\ depth \in Nat
      /\ AcceptLabels \cup ReadLabels \cup CloseLabels \subseteq Labels \ MainLabels
  BY TopFields
  DEF Labels, Callees, MainLabels, AcceptLabels, ReadLabels, CloseLabels
<1> USE DEF AcceptLabels, ReadLabels, CloseLabels
<1>1. CASE Accept
  BY <1>0, <1>1, Accepting DEF Moved, Renewed, Now
<1>2. CASE AcceptFails
  BY <1>0, <1>2, LeavingTop DEF AcceptFails, Moved, Left, Ends
<1>3. CASE Register \/ RegisterFails
  BY <1>0, <1>3, GoingOn DEF Register, RegisterFails, Turns
<1>4. CASE CloseAgain \/ Insert
  BY <1>0, <1>4, Renewing DEF CloseAgain, Insert, Moved, Renewed, Now
<1>5. CASE Read
  <2>1. CASE Return
    BY <1>0, <1>5, <2>1, LeavingTop DEF Read, Moved, Left, Ends
  <2>2. CASE ~Return
    <3>1. CASE At("recv")
      <4>1. Goto("extract") \/ Become(Frame("cas", top.c))
        BY <1>5, <2>2, <3>1 DEF Read
      <4>2. top.c \in Conns
        BY <1>5, Reading
      <4> QED BY <1>0, <3>1, <4>1, <4>2, GoingOn, Renewing DEF Moved, Turned, Turns, Now
    <3>2. CASE At("extract")
      BY <1>0, <1>5, <2>2, <3>2, GoingOn DEF Read, Turns
    <3> QED BY <1>5, <3>1, <3>2 DEF Read
  <2> QED BY <2>1, <2>2
<1>6. CASE Submit
  BY <1>0, <1>6, GoingOn, Staying DEF Submit, Turns, Stayed
<1>7. CASE PushTask
  BY <1>0, <1>7, GoingOn DEF PushTask, Turns
<1>8. CASE Write
  <2>1. CASE Return
    BY <1>0, <1>8, <2>1, LeavingTop DEF Write, Moved, Left, Ends, MainLabels
  <2>2. CASE ~Return /\ At("write")
    BY <1>0, <1>8, <2>2, GoingOn DEF Write, Turns, Labels, Callees, WriteLabels
  <2>3. CASE ~Return /\ ~At("write")
    <3>1. /\ top.at = "writing"
          /\ Call(Frame("cas", top.c), [top EXCEPT !.at = "written"])
      BY <1>8, <2>3 DEF Write
    <3>2. top.c \in Conns
      BY <1>8, Writing
    <3> QED BY <3>1, <3>2, CallingOn
        DEF Moved, CalledOne, CallsMade, Now, Labels, Callees, WriteLabels
  <2> QED BY <2>1, <2>2, <2>3
<1>9. CASE LockTable
  BY <1>0, <1>9, GoingOn DEF LockTable, Critical, Turns
<1> QED BY <1>1, <1>2, <1>3, <1>4, <1>5, <1>6, <1>7, <1>8, <1>9 DEF HandleAccept, Callbacks

LEMMA CloseMoves ==
  ASSUME DataOK, Structure, CloseAndCleanup
  PROVE  Moved \/ Stayed
<1> USE DEF At
<1>0. top = frames[depth] /\ depth \in Nat /\ CloseLabels \subseteq Labels \ MainLabels
  BY TopFields DEF Labels, MainLabels, CloseLabels
<1> USE DEF CloseLabels
<1>1. CASE Cas
  BY <1>0, <1>1, GoingOn, LeavingTop DEF Cas, Turns, Moved, Left, Ends
<1>2. CASE DelFd
  BY <1>0, <1>2, GoingOn DEF DelFd, Turns
<1>3. CASE Logout
  BY <1>0, <1>3, LoggingOut DEF Moved, Turned, Turns
<1>4. CASE FarewellSent
  BY <1>0, <1>4, PartedFromAll DEF Moved, Turned, Turns
<1>5. CASE RemoveConnection
  BY <1>0, <1>5, GoingOn DEF RemoveConnection, Turns
<1>6. CASE CloseFd
  BY <1>0, <1>6, LeavingTop DEF CloseFd, Moved, Left, Ends
<1>7. ASSUME NEW d \in Conns, FarewellTo(d)
      PROVE  Moved
  BY <1>0, <1>7, Parted DEF Moved, Turned, Turns
<1> QED BY <1>1, <1>2, <1>3, <1>4, <1>5, <1>6, <1>7 DEF CloseAndCleanup

LEMMA StopMoves ==
  ASSUME DataOK, Structure, Stop
  PROVE  Moved \/ Stayed
<1> USE DEF At
<1>0. top = frames[depth] /\ depth \in Nat /\ StopLabels \subseteq Labels \ MainLabels
  BY TopFields DEF Labels, MainLabels, StopLabels
<1> USE DEF StopLabels
<1>1. CASE StopBegin
  BY <1>0, <1>1, GoingOn, LeavingTop DEF StopBegin, Turns, Moved, Left, Ends
<1>2. CASE Copy
  BY <1>0, <1>2, Copying DEF Moved, Turned, Turns, Now
<1>3. CASE CloseAll
  BY <1>0, <1>3, ClosingAll DEF Moved, Turned, Turns, CalledOne, CallsMade, Now
<1>4. CASE Clear
  BY <1>0, <1>4, GoingOn DEF Clear, Turns
<1>5. CASE CloseListener
  BY <1>0, <1>5, GoingOn DEF CloseListener, Turns
<1>6. CASE ShutPool
  BY <1>0, <1>6, GoingOn, LeavingTop DEF ShutPool, Turns, Moved, Left, Ends
<1> QED BY <1>1, <1>2, <1>3, <1>4, <1>5, <1>6 DEF Stop

LEMMA Moves ==
  ASSUME DataOK, Structure, [Next]_vars
  PROVE  \/ MainThread /\ Moved
         \/ Stayed
         \/ Signal /\ Signalled
<1>1. CASE MainThread
  BY <1>1, MainMoves, CallbackMoves, CloseMoves, StopMoves DEF MainThread
<1>2. CASE \/ \E w \in Workers : Worker(w)
           \/ \E c \in Conns : DestroyConnection(c)
           \/ ClientConnects \/ Redial \/ Over \/ UNCHANGED vars
  <2>1. stack' = stack
    BY <1>2 DEF Worker, DestroyConnection, ClientConnects, Redial, Over, vars
  <2> QED BY <2>1, Staying DEF Stayed
<1>3. CASE Signal
  BY <1>3, Signalling DEF Signalled
<1> QED BY <1>1, <1>2, <1>3 DEF Next
-----------------------------------------------------------------------------
(* Who changes which variable.                                            *)

\* The steps that are not of the main thread, and those of the main thread that
\* change nothing but its stack.
Others ==
  \/ \E w \in Workers : Worker(w)
  \/ \E c \in Conns : DestroyConnection(c)
  \/ ClientConnects \/ Redial \/ Over \/ UNCHANGED vars

Locals ==
  \/ Exit \/ EpollWait \/ Read \/ Write \/ Logout \/ Copy \/ CloseAll \/ LockTable
  \/ \E d \in Conns : FarewellTo(d)

\* The steps of the main thread that change more than its stack.
Telltales ==
  InitReactor \/ InitListenSocket \/ AddListener \/ Destroy \/ Dispatch \/ ThenWrite \/ Accept
  \/ AcceptFails \/ Register \/ RegisterFails \/ CloseAgain \/ Insert \/ Submit \/ PushTask \/ Cas
  \/ DelFd \/ FarewellSent \/ RemoveConnection \/ CloseFd \/ StopBegin \/ Clear \/ CloseListener
  \/ ShutPool

\* Every step is of one of these kinds.
LEMMA Kinds ==
  ASSUME [Next]_vars
  PROVE  (Locals /\ UNCHANGED dataVars) \/ Telltales \/ Signal \/ Others
<1>1. Locals => UNCHANGED dataVars
  BY DEF Locals, Exit, EpollWait, Read, Write, Logout, Copy, CloseAll, LockTable, FarewellTo
<1>2. MainThread => Locals \/ Telltales
  BY DEF MainThread, Main, Loop, HandleAccept, Callbacks, CloseAndCleanup, Stop, Locals, Telltales
<1> HIDE DEF Locals, Telltales
<1> QED BY <1>1, <1>2 DEF Next, Others

\* Who changes which variable.
LEMMA Flags ==
  ASSUME [Next]_vars
  PROVE  /\ StopBegin \/ stopped' = stopped
         /\ InitReactor \/ StopBegin \/ running' = running
         /\ ShutPool \/ poolDown' = poolDown
         /\ Destroy \/ ThenWrite \/ Submit \/ fate' = fate
         /\ Signal \/ hit' = hit
         /\ RegisterFails \/ regFailed' = regFailed
<1> USE DEF dataVars, flagVars, histVars
<1>1. CASE Locals /\ UNCHANGED dataVars
  BY <1>1
<1>2. CASE Telltales
  BY <1>2 DEF Telltales, InitReactor, InitListenSocket, AddListener, Destroy, Dispatch, ThenWrite, Accept,
  AcceptFails, Register, RegisterFails, CloseAgain, Insert, Submit, PushTask, Cas,
  DelFd, FarewellSent, RemoveConnection, CloseFd, StopBegin, Clear, CloseListener, ShutPool
<1>3. CASE Signal
  BY <1>3 DEF Signal
<1>4. CASE Others
  BY <1>4 DEF Others, Worker, DestroyConnection, ClientConnects, Redial, Over, vars
<1> QED BY <1>1, <1>2, <1>3, <1>4, Kinds

LEMMA Descriptors ==
  ASSUME [Next]_vars
  PROVE  /\ \/ InitListenSocket \/ Accept \/ RegisterFails \/ CloseAgain \/ CloseFd \/ CloseListener
            \/ (\E c \in Conns : DestroyConnection(c)) \/ Redial \/ owner' = owner
         /\ \/ Accept \/ CloseAgain \/ CloseFd \/ (\E c \in Conns : DestroyConnection(c)) \/ fdOf' = fdOf
         /\ InitListenSocket \/ CloseListener \/ listenFd' = listenFd
         /\ \/ RegisterFails \/ CloseAgain \/ CloseFd \/ CloseListener
            \/ (\E c \in Conns : DestroyConnection(c)) \/ stray' = stray
<1> USE DEF dataVars, fdVars
<1>1. CASE Locals /\ UNCHANGED dataVars
  BY <1>1
<1>2. CASE Telltales
  BY <1>2 DEF Telltales, InitReactor, InitListenSocket, AddListener, Destroy, Dispatch, ThenWrite, Accept,
  AcceptFails, Register, RegisterFails, CloseAgain, Insert, Submit, PushTask, Cas,
  DelFd, FarewellSent, RemoveConnection, CloseFd, StopBegin, Clear, CloseListener, ShutPool
<1>3. CASE Signal
  BY <1>3 DEF Signal
<1>4. CASE Others
  BY <1>4 DEF Others, Worker, DestroyConnection, ClientConnects, Redial, Over, vars
<1> QED BY <1>1, <1>2, <1>3, <1>4, Kinds

LEMMA Connections ==
  ASSUME [Next]_vars
  PROVE  /\ Accept \/ ClientConnects \/ client' = client
         /\ Cas \/ connected' = connected
         /\ FarewellSent \/ (\E w \in Workers : Worker(w)) \/ loggedIn' = loggedIn
<1> USE DEF dataVars, connVars
<1>1. CASE Locals /\ UNCHANGED dataVars
  BY <1>1
<1>2. CASE Telltales
  BY <1>2 DEF Telltales, InitReactor, InitListenSocket, AddListener, Destroy, Dispatch, ThenWrite, Accept,
  AcceptFails, Register, RegisterFails, CloseAgain, Insert, Submit, PushTask, Cas,
  DelFd, FarewellSent, RemoveConnection, CloseFd, StopBegin, Clear, CloseListener, ShutPool
<1>3. CASE Signal
  BY <1>3 DEF Signal
<1>4. CASE Others
  BY <1>4 DEF Others, Worker, DestroyConnection, ClientConnects, Redial, Over, vars
<1> QED BY <1>1, <1>2, <1>3, <1>4, Kinds

LEMMA Registers ==
  ASSUME [Next]_vars
  PROVE  /\ AddListener \/ Register \/ DelFd \/ CloseListener \/ handlers' = handlers
         /\ Insert \/ RemoveConnection \/ Clear \/ Destroy \/ table' = table
         /\ AddListener \/ Dispatch \/ AcceptFails \/ ClientConnects \/ backlog' = backlog
<1> USE DEF dataVars, regVars
<1>1. CASE Locals /\ UNCHANGED dataVars
  BY <1>1
<1>2. CASE Telltales
  BY <1>2 DEF Telltales, InitReactor, InitListenSocket, AddListener, Destroy, Dispatch, ThenWrite, Accept,
  AcceptFails, Register, RegisterFails, CloseAgain, Insert, Submit, PushTask, Cas,
  DelFd, FarewellSent, RemoveConnection, CloseFd, StopBegin, Clear, CloseListener, ShutPool
<1>3. CASE Signal
  BY <1>3 DEF Signal
<1>4. CASE Others
  BY <1>4 DEF Others, Worker, DestroyConnection, ClientConnects, Redial, Over, vars
<1> QED BY <1>1, <1>2, <1>3, <1>4, Kinds

LEMMA Work ==
  ASSUME [Next]_vars
  PROVE  /\ PushTask \/ (\E w \in Workers : Worker(w)) \/ tasks' = tasks
         /\ (\E w \in Workers : Worker(w)) \/ worker' = worker
<1> USE DEF dataVars, jobVars
<1>1. CASE Locals /\ UNCHANGED dataVars
  BY <1>1
<1>2. CASE Telltales
  BY <1>2 DEF Telltales, InitReactor, InitListenSocket, AddListener, Destroy, Dispatch, ThenWrite, Accept,
  AcceptFails, Register, RegisterFails, CloseAgain, Insert, Submit, PushTask, Cas,
  DelFd, FarewellSent, RemoveConnection, CloseFd, StopBegin, Clear, CloseListener, ShutPool
<1>3. CASE Signal
  BY <1>3 DEF Signal
<1>4. CASE Others
  BY <1>4 DEF Others, Worker, DestroyConnection, ClientConnects, Redial, Over, vars
<1> QED BY <1>1, <1>2, <1>3, <1>4, Kinds

\* Which step the main thread takes at a label.
LEMMA Movers ==
  ASSUME MainThread
  PROVE  /\ fate = "running"
         /\ top.at = "initReactor" => InitReactor
         /\ top.at = "initListen" => InitListenSocket
         /\ top.at = "initAdd" => AddListener
         /\ top.at = "wait" => EpollWait
         /\ top.at = "dispatch" => Dispatch
         /\ top.at = "thenWrite" => ThenWrite
         /\ top.at = "exit" => Exit
         /\ top.at \in {"destroy", "destroyed"} => Destroy
         /\ top.at = "accept" => Accept \/ AcceptFails
         /\ top.at = "register" => Register \/ RegisterFails
         /\ top.at = "closeAgain" => CloseAgain
         /\ top.at = "insert" => LockTable
         /\ top.at = "inserting" => Insert
         /\ top.at \in {"recv", "extract"} => Read
         /\ top.at = "submit" => Submit
         /\ top.at = "pushing" => PushTask
         /\ top.at = "cas" => Cas
         /\ top.at = "del" => DelFd
         /\ top.at = "logout" => Logout
         /\ top.at = "sends" => FarewellSent \/ \E d \in Conns : FarewellTo(d)
         /\ top.at = "removing" => RemoveConnection
         /\ top.at = "closeFd" => CloseFd
         /\ top.at = "stop" => StopBegin
         /\ top.at = "copy" => Copy
         /\ top.at = "closeAll" => CloseAll
         /\ top.at = "clear" => Clear
         /\ top.at = "closeListen" => CloseListener
         /\ top.at \in {"shutdown", "join"} => ShutPool
<1> USE DEF At
<1>1. CASE Main \/ Loop
  BY <1>1 DEF Main, Loop, InitReactor, InitListenSocket, AddListener, Exit, Destroy, EpollWait, Dispatch,
     ThenWrite
<1>2. CASE HandleAccept \/ Callbacks
  BY <1>2 DEF HandleAccept, Callbacks, Accept, AcceptFails, Register, RegisterFails, CloseAgain, Insert,
     Read, Submit, PushTask, Write
<1>3. CASE CloseAndCleanup
  BY <1>3 DEF CloseAndCleanup, Cas, DelFd, Logout, FarewellSent, RemoveConnection, CloseFd, FarewellTo
<1>4. CASE Stop
  BY <1>4 DEF Stop, StopBegin, Copy, CloseAll, Clear, CloseListener, ShutPool
<1>5. CASE LockTable
  BY <1>5 DEF LockTable, Critical
<1> QED BY <1>1, <1>2, <1>3, <1>4, <1>5 DEF MainThread
-----------------------------------------------------------------------------
(* What becomes of an activation.                                         *)

\* The running activation is the one with the highest number.
LEMMA TopIs ==
  ASSUME Structure
  PROVE  /\ depth \in Nat /\ depth >= 1 /\ top = frames[depth] /\ depth \in 1..depth /\ 1 \in 1..depth
         /\ top.at \in MainLabels <=> depth = 1
         /\ \A h \in 1..depth : frames[h].at \in MainLabels <=> h = 1
<1>1. depth \in Nat /\ depth >= 1 /\ top = frames[depth]
  BY TopFields
<1> QED BY <1>1 DEF Structure

\* What a step may do to the activations.
LEMMA Below ==
  ASSUME DataOK, Structure, [Next]_vars
  PROVE  /\ depth' \in {depth - 1, depth, depth + 1} /\ depth' >= 1
         /\ \A h \in 1..depth : h < depth => h \in 1..depth' /\ frames'[h] = frames[h]
         /\ ~MainThread => depth' >= depth /\ frames'[depth] = frames[depth]
         /\ ~MainThread => depth' = depth \/ (depth' = depth + 1 /\ Signal)
         /\ depth = 1 => depth' >= 1
<1>1. depth \in Nat /\ depth >= 1
  BY TopIs
<1>2. CASE MainThread /\ Moved
  BY <1>1, <1>2 DEF Moved, SameBelow, Left, Turned, Renewed, CalledOne
<1>3. CASE Stayed
  BY <1>1, <1>3 DEF Stayed
<1>4. CASE Signal /\ Signalled
  BY <1>1, <1>4 DEF Signalled
<1> QED BY <1>2, <1>3, <1>4, Moves

\* What becomes of an activation.
LEMMA OnKept ==
  ASSUME DataOK, Structure, [Next]_vars, NEW L, NEW c, On(L, c), ~On(L, c)'
  PROVE  /\ MainThread /\ Moved /\ top.at \in L /\ top.c = c
         /\ depth' >= depth => ~(frames'[depth].at \in L /\ frames'[depth].c = c)
<1>1. depth \in Nat /\ depth >= 1 /\ top = frames[depth]
  BY TopIs
<1>2. PICK h \in 1..depth : frames[h].at \in L /\ frames[h].c = c
  BY DEF On
<1>3. h = depth
  BY <1>1, <1>2, Below DEF On
<1>4. depth' >= depth => ~(frames'[depth].at \in L /\ frames'[depth].c = c)
  BY <1>1, Below DEF On
<1>5. MainThread /\ Moved
  <2>1. CASE Stayed
    BY <1>1, <1>2, <1>3, <1>4, <2>1 DEF Stayed
  <2>2. CASE Signalled
    BY <1>1, <1>2, <1>3, <1>4, <2>2 DEF Signalled
  <2> QED BY <2>1, <2>2, Moves
<1> QED BY <1>1, <1>2, <1>3, <1>4, <1>5

\* The same for an activation of any connection.
LEMMA SomeKept ==
  ASSUME DataOK, Structure, [Next]_vars, NEW L, Some(L), ~Some(L)'
  PROVE  /\ MainThread /\ Moved /\ top.at \in L
         /\ depth' >= depth => frames'[depth].at \notin L
<1>1. depth \in Nat /\ depth >= 1 /\ top = frames[depth]
  BY TopIs
<1>2. PICK h \in 1..depth : frames[h].at \in L
  BY DEF Some
<1>3. h = depth
  BY <1>1, <1>2, Below DEF Some
<1>4. depth' >= depth => frames'[depth].at \notin L
  BY <1>1, Below DEF Some
<1>5. MainThread /\ Moved
  <2>1. CASE Stayed
    BY <1>1, <1>2, <1>3, <1>4, <2>1 DEF Stayed
  <2>2. CASE Signalled
    BY <1>1, <1>2, <1>3, <1>4, <2>2 DEF Signalled
  <2> QED BY <2>1, <2>2, Moves
<1> QED BY <1>1, <1>2, <1>3, <1>4, <1>5

\* Where an activation of the next state comes from.
LEMMA Origin ==
  ASSUME DataOK, Structure, [Next]_vars, NEW h \in 1..depth'
  PROVE  \/ h \in 1..depth /\ h <= depth /\ frames'[h] = frames[h]
         \/ /\ h = depth /\ depth' >= depth /\ MainThread /\ Moved
            /\ Turned \/ Renewed \/ CalledOne
         \/ h = depth + 1 /\ depth' = depth + 1 /\ MainThread /\ Moved /\ CalledOne
         \/ h = depth + 1 /\ depth' = depth + 1 /\ Signal /\ Now(h, "stop", "signal", {}, None)
<1>1. depth \in Nat /\ depth >= 1
  BY TopIs
<1>2. CASE MainThread /\ Moved
  BY <1>1, <1>2 DEF Moved, SameBelow, Left, Turned, Renewed, CalledOne
<1>3. CASE Stayed
  BY <1>1, <1>3 DEF Stayed
<1>4. CASE Signal /\ Signalled
  BY <1>1, <1>4 DEF Signalled
<1> QED BY <1>2, <1>3, <1>4, Moves

\* Callbacks of the loop have nothing but the loop below them.
LEMMA Positions ==
  ASSUME Structure, Nesting, NEW h \in 1..depth, frames[h].at \in Callees
  PROVE  h = 2 /\ depth >= 2 /\ frames[1].at \in {"dispatch", "thenWrite"}
<1>1. depth \in Nat /\ (frames[h].at \in MainLabels <=> h = 1)
      /\ (h # 1 => (frames[h - 1].at \in MainLabels <=> h - 1 = 1))
  BY TopIs
<1>2. frames[h].at \notin MainLabels
  BY DEF Callees, MainLabels, AcceptLabels, ReadLabels, WriteLabels
<1>3. h \in 2..depth
  BY <1>1, <1>2
<1>4. frames[h - 1].at \in {"dispatch", "thenWrite"}
  BY <1>3 DEF Nesting, Called, Callees
<1> QED BY <1>1, <1>3, <1>4 DEF MainLabels

\* Whose frame is put on top.
LEMMA CalledBy ==
  ASSUME DataOK, Structure, [Next]_vars, depth' = depth + 1
  PROVE  LET g == frames'[depth + 1]
         IN  \/ g.c \in Reasons \cup {None} /\ g.at \in {"stop", "accept"}
             \/ /\ top.at \in {"dispatch", "thenWrite"} /\ depth = 1 /\ g.at \in {"cas", "recv", "write"}
                /\ g.c \in Conns /\ \E f \in Fds : handlers[f] = g.c
             \/ top.at = "writing" /\ top.c \in Conns /\ g.c = top.c /\ g.at = "cas"
             \/ top.at = "closeAll" /\ g.c \in top.todo /\ g.c \in Conns /\ g.at = "cas"
<1> DEFINE g == frames'[depth + 1]
<1>0. depth \in Nat
  BY TopIs
<1>1. CASE Signal
  BY <1>1, Signalling DEF Now, Reasons
<1>2. CASE MainThread /\ ~Signal
  <2>1. CalledOne
    BY <1>0, <1>2, Moves DEF Moved, Stayed, Left, Turned, Renewed
  <2>2. top.at \in {"exit", "dispatch", "thenWrite", "writing", "closeAll"}
    BY <2>1 DEF CalledOne, CallsMade
  <2>3. CASE top.at = "exit"
    BY <1>2, <2>3, Movers, Exiting DEF Now, Reasons
  <2>4. CASE top.at = "dispatch"
    <3>1. /\ depth = 1 /\ top.todo \subseteq Fds
          /\ \E f \in top.todo :
                 \/ handlers[f] = "listen" /\ Reports
                 \/ handlers[f] \in Conns /\ Calls(handlers[f])
      BY <1>0, <1>2, <2>4, Movers, Dispatching
    <3>2. CASE Reports
      BY <3>1, <3>2 DEF Reports, Now, Reasons
    <3>3. CASE \E f \in top.todo : handlers[f] \in Conns /\ Calls(handlers[f])
      BY <2>4, <3>1, <3>3 DEF Calls
    <3> QED BY <3>1, <3>2, <3>3
  <2>5. CASE top.at = "thenWrite"
    BY <1>0, <1>2, <2>5, Movers, ThenWriting DEF Now
  <2>6. CASE top.at = "writing"
    <3>1. Write
      BY <1>2, <2>6 DEF MainThread, Main, Loop, HandleAccept, Callbacks, CloseAndCleanup, Stop, LockTable,
        InitReactor, InitListenSocket, AddListener, Exit, Destroy, EpollWait, Dispatch, ThenWrite,
        Accept, AcceptFails, Register, RegisterFails, CloseAgain, Insert,
        Read, Submit, PushTask, Cas, DelFd, Logout, FarewellSent, RemoveConnection, CloseFd, FarewellTo,
        StopBegin, Copy, CloseAll, Clear, CloseListener, ShutPool, Critical, At
    <3> QED BY <1>0, <2>6, <3>1, Writing DEF Now
  <2>7. CASE top.at = "closeAll"
    BY <1>0, <1>2, <2>7, Movers, ClosingAll DEF Now
  <2> QED BY <2>2, <2>3, <2>4, <2>5, <2>6, <2>7
<1>3. MainThread \/ Signal
  BY <1>0, Moves DEF Stayed
<1> QED BY <1>1, <1>2, <1>3
-----------------------------------------------------------------------------
(* The parts of the invariant, one by one.                                *)

\* The names of owners, mutexes and callers are not those of connections.
LEMMA NoNames ==
  Conns \cap {"free", "listen", "db", "table", "redis", "queue", "signal", "error", "exit"} = {}
  /\ None \notin Conns /\ None \notin Fds
  /\ None \notin {"free", "listen", "db", "table", "redis", "queue", "signal", "error", "exit"}
BY ServerAssumption DEF Names

\* A worker takes at most one task.
LEMMA Shrinking ==
  ASSUME DataOK, NEW w \in Workers, Worker(w)
  PROVE  tasks' = tasks \/ (tasks # <<>> /\ tasks' = Tail(tasks) /\ Len(tasks') = Len(tasks) - 1 /\ worker[w] = Idle)
<1>1. CASE TakeTask(w)
  <2>1. tasks # <<>> /\ tasks \in Seq(Conns) /\ tasks' = Tail(tasks) /\ worker[w] = Idle
    BY <1>1 DEF TakeTask, DataOK
  <2> QED BY <2>1
<1> QED BY <1>1 DEF Worker, Login, Broadcast

LEMMA BoundedInvariance ==
  ASSUME DataOK, Structure, Nesting, Bounded, [Next]_vars
  PROVE  Bounded'
<1> USE DEF ReadLabels, Callees
<1>0. /\ depth \in Nat /\ depth >= 1 /\ top = frames[depth] /\ depth \in 1..depth
      /\ Len(tasks) \in Nat /\ MaxTasks \in Nat
  BY TopIs, ServerAssumption DEF DataOK
<1>1. CASE PushTask
  <2>1. top.at = "pushing" /\ tasks' = Append(tasks, top.c) /\ top.c \in Conns
    BY <1>1, TopConn DEF PushTask, At
  <2>2. Len(tasks') = Len(tasks) + 1
    BY <2>1 DEF DataOK
  <2>3. Len(tasks) < MaxTasks
    BY <1>0, <2>1 DEF Bounded, Some
  <2>4. depth' = depth /\ SameBelow /\ frames'[depth].at = "extract"
    BY <1>1, Going DEF PushTask, Labels, Now
  <2>5. depth = 2
    BY <1>0, <2>1, Positions
  <2>6. \A h \in 1..depth' : frames'[h].at \notin {"submit", "pushing"}
    <3>1. \A h \in 1..depth' : h = 2 \/ h = 1
      BY <2>4, <2>5
    <3>2. frames'[1].at \in MainLabels
      BY StructureInvariance DEF Structure
    <3> QED BY <2>4, <2>5, <3>1, <3>2 DEF MainLabels
  <2> QED BY <1>0, <2>2, <2>3, <2>6 DEF Bounded, Some
<1>2. CASE ~PushTask
  <2>1. Len(tasks') <= Len(tasks) /\ Len(tasks') \in Nat
    BY <1>0, <1>2, Work, Shrinking
  <2>2. ASSUME NEW h \in 1..depth', frames'[h].at \in {"submit", "pushing"}
        PROVE  Len(tasks) < MaxTasks
    <3>1. CASE h \in 1..depth /\ frames'[h] = frames[h]
      BY <2>2, <3>1 DEF Bounded, Some
    <3>2. CASE h = depth /\ MainThread /\ (Turned \/ Renewed \/ CalledOne)
      <4>1. \/ top.at = "extract" /\ depth' = depth /\ frames'[depth].at = "submit"
            \/ top.at = "submit"
        BY <2>2, <3>2 DEF Turned, Turns, Renewed, CalledOne, CallsMade
      <4>2. CASE top.at = "submit"
        BY <1>0, <4>2 DEF Bounded, Some
      <4>3. CASE top.at = "extract" /\ depth' = depth /\ frames'[depth].at = "submit"
        <5>1. Read
          BY <3>2, <4>3, Movers
        <5>2. Return => depth' = depth - 1
          BY <4>3, LeavingTop DEF MainLabels
        <5> QED BY <1>0, <4>3, <5>1, <5>2 DEF Read, At
      <4> QED BY <4>1, <4>2, <4>3
    <3>3. CASE h = depth + 1 /\ CalledOne
      BY <2>2, <3>3 DEF CalledOne, CallsMade
    <3>4. CASE Now(h, "stop", "signal", {}, None)
      BY <2>2, <3>4 DEF Now
    <3> QED BY <2>2, <3>1, <3>2, <3>3, <3>4, Origin
  <2> QED BY <1>0, <2>1, <2>2 DEF Bounded, Some
<1> QED BY <1>1, <1>2

LEMMA ClosedOnceInvariance ==
  ASSUME DataOK, Structure, Nesting, ClosedOnce, [Next]_vars
  PROVE  ClosedOnce'
<1> USE DEF Body, Leaving, Parting
<1>0. depth \in Nat /\ depth >= 1 /\ top = frames[depth] /\ depth \in 1..depth
  BY TopIs
\* A new activation that closes its connection is that of a step of Cas.
<1>1. ASSUME NEW h \in 1..depth', frames'[h].at \in Body
      PROVE  /\ h \in 1..depth /\ frames'[h].c = frames[h].c
             /\ frames[h].at \in Body \/ (h = depth /\ Cas /\ connected[frames[h].c])
  <2>2. CASE h = depth /\ MainThread /\ (Turned \/ Renewed \/ CalledOne)
    <3>1. Turned /\ (top.at \in Body \/ top.at = "cas") /\ depth' = depth
      BY <1>1, <2>2 DEF Turned, Turns, Renewed, CalledOne, CallsMade
    <3>2. CASE top.at = "cas"
      <4>1. Cas
        BY <2>2, <3>2, Movers
      <4>2. connected[top.c]
        BY <1>0, <3>1, <3>2, <4>1, LeavingTop DEF Cas, MainLabels
      <4> QED BY <1>0, <2>2, <3>1, <4>1, <4>2 DEF Turned
    <3> QED BY <1>0, <2>2, <3>1, <3>2 DEF Turned
  <2>3. CASE h = depth + 1 /\ CalledOne
    BY <1>1, <2>3 DEF CalledOne, CallsMade
  <2>4. CASE Now(h, "stop", "signal", {}, None)
    BY <1>1, <2>4 DEF Now
  <2> QED BY <1>1, <2>2, <2>3, <2>4, Origin
<1>2. ASSUME NEW h \in 1..depth', frames'[h].at \in Body
      PROVE  ~connected'[frames'[h].c]
  <2>1. CASE Cas
    <3>1. connected' = [connected EXCEPT ![top.c] = FALSE] /\ top.c \in Conns
      BY <2>1, TopConn DEF Cas, At, CloseLabels
    <3> QED BY <1>0, <1>1, <1>2, <3>1 DEF ClosedOnce, DataOK
  <2>2. CASE ~Cas
    BY <1>1, <1>2, <2>2, Connections DEF ClosedOnce
  <2> QED BY <2>1, <2>2
<1>3. ASSUME NEW h \in 1..depth', frames'[h].at \in Body,
             NEW k \in 1..depth', frames'[k].at \in Body, frames'[k].c = frames'[h].c
      PROVE  k = h
  <2>1. frames[h].c = frames[k].c /\ h \in 1..depth /\ k \in 1..depth
    BY <1>1, <1>3
  <2>2. CASE frames[h].at \in Body /\ frames[k].at \in Body
    BY <2>1, <2>2 DEF ClosedOnce
  <2>3. CASE frames[h].at \notin Body /\ frames[k].at \notin Body
    BY <1>1, <1>3, <2>3
  <2>4. CASE frames[h].at \in Body /\ frames[k].at \notin Body
    BY <1>1, <1>3, <2>1, <2>4 DEF ClosedOnce
  <2>5. CASE frames[h].at \notin Body /\ frames[k].at \in Body
    BY <1>1, <1>3, <2>1, <2>5 DEF ClosedOnce
  <2> QED BY <2>2, <2>3, <2>4, <2>5
<1> QED BY <1>2, <1>3 DEF ClosedOnce

LEMMA NoticedInvariance ==
  ASSUME DataOK, Structure, Nesting, Noticed, [Next]_vars
  PROVE  Noticed'
<1>0. depth \in Nat /\ depth >= 1 /\ top = frames[depth] /\ depth \in 1..depth
  BY TopIs
<1> SUFFICES ASSUME ~stopped', backlog' = "none", \E c \in Conns : client'[c] = "waiting",
                    ~Some(AcceptLabels)', ~On({"stop"}, "error")'
             PROVE  FALSE
  BY DEF Noticed
<1>1. ~stopped
  BY Flags DEF StopBegin
<1>2. CASE Dispatch /\ backlog' # backlog
  <2>1. depth = 1 /\ depth' = 2 /\ Reports
    BY <1>2, Dispatching, <1>0
  <2> QED BY <2>1 DEF Reports, Now, Some, On, AcceptLabels
<1>3. CASE AcceptFails
  BY <1>3 DEF AcceptFails, connVars
<1>4. CASE ClientConnects
  BY <1>4 DEF ClientConnects
<1>5. CASE AddListener /\ backlog' # backlog
  BY <1>5 DEF AddListener, connVars
<1>6. CASE backlog' = backlog /\ ~AcceptFails /\ ~ClientConnects
  <2>1. \E c \in Conns : client[c] = "waiting"
    BY <1>6, Connections DEF Accept, DataOK
  <2>2. Some(AcceptLabels) \/ On({"stop"}, "error")
    BY <1>1, <1>6, <2>1 DEF Noticed
  <2>3. CASE Some(AcceptLabels)
    <3>1. MainThread /\ Moved /\ top.at \in AcceptLabels
          /\ (depth' >= depth => frames'[depth].at \notin AcceptLabels)
      BY <2>3, SomeKept
    <3>2. depth' = depth - 1 /\ top.at = "accept"
      BY <1>0, <3>1 DEF Moved, AcceptLabels, Left, Ends, Turned, Turns, Renewed, CalledOne, CallsMade
    <3>3. Accept
      BY <1>6, <3>1, <3>2, Movers
    <3> QED BY <1>0, <3>2, <3>3, Accepting
  <2>4. CASE On({"stop"}, "error")
    <3>1. MainThread /\ top.at = "stop"
      BY <2>4, OnKept
    <3> QED BY <1>1, <3>1, Movers DEF StopBegin
  <2> QED BY <2>2, <2>3, <2>4
<1> QED BY <1>2, <1>3, <1>4, <1>5, <1>6, Registers

LEMMA EndedInvariance ==
  ASSUME DataOK, Structure, Ended, [Next]_vars
  PROVE  Ended'
<1>0. depth \in Nat /\ depth >= 1 /\ top = frames[depth] /\ depth \in 1..depth
  BY TopIs
<1> SUFFICES ASSUME fate' = "exited"
             PROVE  frames'[depth'].at = "destroyed" /\ \A c \in Conns : fdOf'[c] = None
  BY DEF Ended
<1>1. CASE fate = "exited"
  <2>1. ~MainThread /\ ~Signal
    BY <1>1, Movers DEF Signal
  <2>2. depth' = depth /\ frames'[depth] = frames[depth]
    BY <2>1, Below
  <2>3. fdOf' = fdOf
    <3>1. ASSUME NEW c \in Conns, DestroyConnection(c) PROVE FALSE
      BY <1>1, <3>1 DEF DestroyConnection, Ended
    <3> QED BY <2>1, <3>1, Descriptors DEF MainThread, HandleAccept, CloseAndCleanup
  <2> QED BY <1>1, <2>2, <2>3 DEF Ended
<1>2. CASE fate # "exited"
  <2>1. Destroy
    BY <1>2, Flags DEF ThenWrite, Submit
  <2>2. top.at = "destroyed" /\ stack' = stack /\ fdOf' = fdOf /\ \A c \in Conns : fdOf[c] = None
    BY <1>2, <2>1 DEF Destroy, At, flagVars, fdVars
  <2> QED BY <1>0, <2>2, Staying
<1> QED BY <1>1, <1>2

\* A mutex is held by an activation at one of its labels.
LEMMA HeldBy ==
  ASSUME Shaped, NEW lock
  PROVE  lock \in Held(stack) <=> \E h \in 1..depth : lock \in LocksOf(frames[h])
<1>1. Len(stack) \in Nat /\ \A h \in 1..Len(stack) : Len(stack) + 1 - h \in 1..Len(stack)
  BY DEF Shaped, depth
<1>2. \A h \in 1..Len(stack) : Len(stack) + 1 - (Len(stack) + 1 - h) = h
  BY <1>1
<1>3. \A h \in 1..Len(stack) : frames[h] = stack[Len(stack) + 1 - h]
  BY DEF frames
<1>4. ASSUME NEW h \in 1..Len(stack)
      PROVE  stack[h] = frames[Len(stack) + 1 - h]
  BY <1>1, <1>2, <1>3
<1>5. lock \in Held(stack) <=> \E h \in 1..Len(stack) : lock \in LocksOf(stack[h])
  BY DEF Held
<1> QED BY <1>1, <1>3, <1>4, <1>5 DEF depth

LEMMA StoppingInvariance ==
  ASSUME DataOK, Structure, Nesting, Stopping, [Next]_vars
  PROVE  Stopping'
<1>0. depth \in Nat /\ depth >= 1 /\ top = frames[depth] /\ depth \in 1..depth
  BY TopIs
<1>1. stopped => stopped'
  BY Flags DEF StopBegin
<1>2. CASE ShutPool
  <2>0. top.at \in StopBody /\ stopped
    BY <1>0, <1>2 DEF ShutPool, At, StopBody, StopLabels, Nesting
  <2>1. CASE top.at = "shutdown"
    <3>1. poolDown' = TRUE /\ tasks' = tasks /\ worker' = worker
      BY <1>2, <2>1 DEF ShutPool, At, jobVars
    <3>2. \A h \in 1..depth : frames[h].at # "pushing"
      <4>1. Free("queue")
        BY <1>2, <2>1 DEF ShutPool, At
      <4>2. \A h \in 1..depth : "queue" \notin LocksOf(frames[h])
        BY <4>1, HeldBy, AtTop DEF Free
      <4> QED BY <4>2 DEF LocksOf
    <3>3. depth' \in {depth - 1, depth} /\ \A h \in 1..depth' : h = depth \/ frames'[h] = frames[h]
      <4>1. CASE Return
        BY <1>0, <2>1, <4>1, LeavingTop DEF SameBelow, MainLabels
      <4>2. CASE Goto("join")
        BY <1>0, <4>2, Going DEF Labels, StopLabels, SameBelow
      <4> QED BY <1>2, <2>1, <4>1, <4>2 DEF ShutPool, At
    <3>4. ~poolDown => depth' = depth /\ frames'[depth].at = "join"
      BY <1>2, <2>1, Going DEF ShutPool, At, Labels, StopLabels, Now
    <3>5. poolDown => depth' = depth - 1
      BY <1>2, <2>1, LeavingTop DEF ShutPool, At, MainLabels
    <3>6. \A h \in 1..depth' : frames'[h].at # "pushing"
      BY <1>0, <3>2, <3>3, <3>4, <3>5
    <3>7. poolDown => ~Some({"join"})
      BY <1>0, <2>1 DEF Nesting, Some, StopLabels
    <3>8. ~poolDown => Some({"join"})'
      BY <1>0, <3>4 DEF Some
    <3> QED BY <1>1, <2>0, <3>1, <3>6, <3>7, <3>8 DEF Stopping, Some
  <2>2. CASE top.at = "join"
    <3>1. poolDown
      BY <1>0, <2>2 DEF Stopping, Some
    <3>2. /\ depth' = depth - 1 /\ \A h \in 1..depth' : h \in 1..depth /\ frames'[h] = frames[h]
          /\ poolDown' = poolDown /\ tasks = <<>> /\ (\A w \in Workers : worker[w] = Idle)
          /\ tasks' = tasks /\ worker' = worker
      BY <1>0, <1>2, <2>2, LeavingTop DEF ShutPool, At, MainLabels, SameBelow, dataVars, flagVars, jobVars
    <3> QED BY <1>1, <2>0, <3>1, <3>2 DEF Stopping, Some
  <2> QED BY <1>2, <2>1, <2>2 DEF ShutPool, At
<1>3. CASE ~ShutPool
  <2>1. poolDown' = poolDown
    BY <1>3, Flags
  <2>2. ~Some(StopBody)' => ~Some(StopBody) \/ poolDown
    <3>1. ASSUME Some(StopBody), ~Some(StopBody)' PROVE poolDown
      <4>1. /\ MainThread /\ Moved /\ top.at \in StopBody
            /\ (depth' >= depth => frames'[depth].at \notin StopBody)
        BY <3>1, SomeKept
      <4>2. top.at \in {"shutdown", "join"}
        BY <1>0, <4>1
        DEF Moved, StopBody, StopLabels, Left, Ends, Turned, Turns, Renewed, CalledOne, CallsMade
      <4> QED BY <1>3, <4>1, <4>2, Movers
    <3> QED BY <3>1
  <2>3. stopped' => stopped \/ Some(StopBody)'
    <3>1. ASSUME stopped', ~stopped PROVE Some(StopBody)'
      <4>1. depth' = depth /\ frames'[depth].at = "copy"
        BY <3>1, Flags, Going DEF StopBegin, Labels, StopLabels, Now
      <4> QED BY <1>0, <4>1 DEF Some, StopBody, StopLabels
    <3> QED BY <3>1
  <2>4. Some({"join"})' => Some({"join"})
    <3>1. ASSUME NEW h \in 1..depth', frames'[h].at = "join" PROVE Some({"join"})
      <4>1. CASE h \in 1..depth /\ frames'[h] = frames[h]
        BY <3>1, <4>1 DEF Some
      <4>2. CASE h = depth /\ MainThread /\ (Turned \/ Renewed \/ CalledOne)
        <5>1. top.at = "shutdown"
          BY <3>1, <4>2 DEF Turned, Turns, Renewed, CalledOne, CallsMade
        <5> QED BY <1>3, <4>2, <5>1, Movers
      <4>3. CASE h = depth + 1 /\ CalledOne
        BY <3>1, <4>3 DEF CalledOne, CallsMade
      <4>4. CASE Now(h, "stop", "signal", {}, None)
        BY <3>1, <4>4 DEF Now
      <4> QED BY <3>1, <4>1, <4>2, <4>3, <4>4, Origin
    <3> QED BY <3>1 DEF Some
  <2>5. Some({"join"}) => Some({"join"})'
    <3>1. ASSUME Some({"join"}), ~Some({"join"})' PROVE FALSE
      <4>1. MainThread /\ top.at = "join"
        BY <3>1, SomeKept
      <4> QED BY <1>3, <4>1, Movers
    <3> QED BY <3>1
  <2>6. poolDown => ~Some({"pushing"})'
    <3>1. ASSUME poolDown, NEW h \in 1..depth', frames'[h].at = "pushing" PROVE FALSE
      <4>1. CASE h \in 1..depth /\ frames'[h] = frames[h]
        BY <3>1, <4>1 DEF Some, Stopping
      <4>2. CASE h = depth /\ MainThread /\ (Turned \/ Renewed \/ CalledOne)
        <5>1. top.at = "submit" /\ depth' = depth
          BY <3>1, <4>2 DEF Turned, Turns, Renewed, CalledOne, CallsMade
        <5>2. stack' = stack
          BY <3>1, <4>2, <5>1, Movers DEF Submit
        <5> QED BY <1>0, <3>1, <4>2, <5>1, <5>2, Staying
      <4>3. CASE h = depth + 1 /\ CalledOne
        BY <3>1, <4>3 DEF CalledOne, CallsMade
      <4>4. CASE Now(h, "stop", "signal", {}, None)
        BY <3>1, <4>4 DEF Now
      <4> QED BY <3>1, <4>1, <4>2, <4>3, <4>4, Origin
    <3> QED BY <3>1 DEF Some
  <2>7. poolDown /\ ~Some({"join"}) => tasks' = <<>> /\ \A w \in Workers : worker'[w] = Idle
    <3>1. ASSUME poolDown, ~Some({"join"})
          PROVE  tasks' = <<>> /\ \A w \in Workers : worker'[w] = Idle
      <4>2. tasks = <<>> /\ \A w \in Workers : worker[w] = Idle
        BY <3>1 DEF Stopping
      <4>3. top.at # "pushing"
        BY <1>0, <3>1 DEF Stopping, Some
      <4>4. ~PushTask
        BY <4>3 DEF PushTask, At
      <4>5. ASSUME NEW w \in Workers, Worker(w) PROVE FALSE
        <5>1. worker[w] = Idle /\ Idle.at = "idle"
          BY <4>2, <4>5 DEF Idle
        <5>2. ~TakeTask(w)
          BY <4>2 DEF TakeTask
        <5>3. ~Login(w)
          BY <5>1 DEF Login
        <5>4. ~Broadcast(w)
          BY <5>1 DEF Broadcast
        <5> QED BY <4>5, <5>2, <5>3, <5>4 DEF Worker
      <4> QED BY <4>2, <4>4, <4>5, Work
    <3> QED BY <3>1
  <2> QED BY <1>1, <2>1, <2>2, <2>3, <2>4, <2>5, <2>6, <2>7 DEF Stopping
<1> QED BY <1>2, <1>3

\* The frame of main() changes only while it is the running one.
LEMMA MainFrame ==
  ASSUME DataOK, Structure, [Next]_vars
  PROVE  /\ 1 \in 1..depth /\ 1 \in 1..depth' /\ frames[1].at \in MainLabels /\ frames'[1].at \in MainLabels
         /\ \/ frames'[1] = frames[1]
            \/ /\ depth = 1 /\ MainThread /\ top = frames[1]
               /\ \/ depth' = 1 /\ <<frames[1].at, frames'[1].at>> \in Turns
                  \/ depth' = 2 /\ <<frames[1].at, frames'[1].at, frames'[2].at>> \in CallsMade
<1>1. depth \in Nat /\ depth >= 1 /\ top = frames[depth] /\ 1 \in 1..depth
  BY TopIs
<1>2. 1 \in 1..depth' /\ frames'[1].at \in MainLabels /\ frames[1].at \in MainLabels
  BY StructureInvariance, TopIs, <1>1 DEF Structure
<1>3. CASE depth > 1
  BY <1>1, <1>2, <1>3, Below
<1>4. CASE depth = 1
  <2>1. frames'[1] = frames[1] \/ (MainThread /\ (Turned \/ Renewed \/ CalledOne))
    BY <1>1, <1>2, <1>4, Origin
  <2>2. ~Renewed
    BY <1>1, <1>2, <1>4 DEF Renewed, MainLabels
  <2> QED BY <1>1, <1>2, <1>4, <2>1, <2>2 DEF Turned, CalledOne
<1> QED BY <1>1, <1>3, <1>4

\* A signal that comes during init() is the only activation above it.
LEMMA StopAtInit ==
  ASSUME Structure, Nesting, frames[1].at \in {"initReactor", "initListen"}, top.at = "stop"
  PROVE  depth = 2 /\ hit = frames[1].at
<1>1. /\ depth \in Nat /\ depth >= 1 /\ top = frames[depth] /\ depth \in 1..depth
      /\ top.at \in MainLabels <=> depth = 1
  BY TopIs
<1>2. depth >= 2
  BY <1>1 DEF MainLabels
<1>3. frames[2].at \in Labels \ MainLabels
  BY <1>2, AtTop DEF Structure, AnyFrame
<1>4. Called(frames[2], frames[1])
  BY <1>1, <1>2 DEF Nesting
<1>5. frames[2].at \in StopLabels /\ hit = Place(frames[1])
  BY <1>3, <1>4 DEF Called, Labels, Callees
<1>6. depth = 2
  BY <1>1, <1>2, <1>5 DEF Nesting, StopLabels
<1> QED BY <1>5, <1>6 DEF Place, Telling

\* Before stopped_ is set, hit names what lies below the activation of stop().
LEMMA HitOf ==
  ASSUME Structure, Nesting, Halting, ~stopped, top.at = "stop", hit # "none"
  PROVE  depth > 1 /\ top.c = "signal" /\ hit = Place(frames[depth - 1])
<1>1. /\ depth \in Nat /\ depth >= 1 /\ top = frames[depth] /\ depth \in 1..depth
      /\ top.at \in MainLabels <=> depth = 1
  BY TopIs
<1>2. depth > 1 /\ depth \in 2..depth
  BY <1>1 DEF MainLabels
<1>3. top.c = "signal"
  BY <1>1 DEF Halting
<1>4. Called(frames[depth], frames[depth - 1])
  BY <1>2 DEF Nesting
<1> QED BY <1>1, <1>2, <1>3, <1>4 DEF Called, StopLabels

LEMMA HaltingInvariance ==
  ASSUME DataOK, Structure, Nesting, Halting, [Next]_vars
  PROVE  Halting'
<1> DEFINE Q == {"copy", "closeAll", "clear", "closeListen"}
<1>0. depth \in Nat /\ depth >= 1 /\ top = frames[depth] /\ depth \in 1..depth
  BY TopIs
<1>1. stopped => stopped' /\ hit' = hit /\ ~Signal
  BY Flags DEF StopBegin, Signal
<1>2. ~stopped /\ stopped' => /\ StopBegin /\ top.at = "stop" /\ running' = FALSE /\ hit' = hit
                              /\ depth' = depth /\ frames'[depth].at = "copy" /\ listenFd' = listenFd
                              /\ \A h \in 1..(depth - 1) : frames'[h] = frames[h]
  <2>1. ASSUME ~stopped, stopped' PROVE StopBegin
    BY <2>1, Flags
  <2>2. ASSUME ~stopped, stopped', StopBegin
        PROVE  top.at = "stop" /\ running' = FALSE /\ hit' = hit /\ Goto("copy") /\ listenFd' = listenFd
    BY <2>2 DEF StopBegin, At, histVars, fdVars
  <2> QED BY <2>1, <2>2, Going DEF Labels, StopLabels, Now, SameBelow
<1>3. ASSUME ~stopped'
      PROVE  hit' = "none" \/ (frames'[depth'].at = "stop" /\ frames'[depth'].c = "signal")
  <2>1. ~stopped
    BY <1>1, <1>3
  <2>2. CASE Signal
    BY <1>0, <2>2, Signalling DEF Now
  <2>3. CASE ~Signal
    <3>1. hit' = hit
      BY <2>3, Flags
    <3>2. ASSUME MainThread, top.at = "stop" PROVE FALSE
      BY <1>3, <2>1, <3>2, Movers DEF StopBegin
    <3> QED BY <1>0, <2>1, <2>3, <3>1, <3>2, Below DEF Halting
  <2> QED BY <2>2, <2>3
<1>4. ASSUME stopped', hit' # "initReactor"
      PROVE  ~running'
  <2>1. CASE stopped
    <3>1. ~InitReactor
      <4>1. ASSUME InitReactor PROVE FALSE
        <5>1. top.at = "initReactor" /\ frames[1].at = "initReactor"
          BY <4>1, <1>0, TopIs DEF InitReactor, At, MainLabels
        <5> QED BY <1>1, <1>4, <2>1, <5>1 DEF Halting
      <4> QED BY <4>1
    <3> QED BY <1>1, <1>4, <2>1, <3>1, Flags DEF Halting, StopBegin
  <2> QED BY <1>2, <1>4, <2>1
<1>5. ASSUME stopped', listenFd' # None
      PROVE  Some(Q)' \/ hit' \in {"initReactor", "initListen"}
  <2>1. CASE stopped
    <3>1. CASE InitListenSocket
      <4>1. frames[1].at = "initListen"
        BY <3>1, <1>0, TopIs DEF InitListenSocket, At, MainLabels
      <4> QED BY <1>1, <2>1, <4>1 DEF Halting
    <3>2. ~CloseListener
      BY <1>5 DEF CloseListener
    <3>3. CASE ~InitListenSocket
      <4>1. Some(Q) \/ hit \in {"initReactor", "initListen"}
        BY <1>5, <2>1, <3>2, <3>3, Descriptors DEF Halting
      <4>2. ASSUME Some(Q), ~Some(Q)' PROVE FALSE
        <5>1. MainThread /\ Moved /\ top.at \in Q /\ (depth' >= depth => frames'[depth].at \notin Q)
          BY <4>2, SomeKept
        <5>2. top.at = "closeListen"
          BY <1>0, <5>1 DEF Moved, Left, Ends, Turned, Turns, Renewed, CalledOne, CallsMade
        <5> QED BY <3>2, <5>1, <5>2, Movers
      <4> QED BY <1>1, <2>1, <4>1, <4>2
    <3> QED BY <3>1, <3>3
  <2>2. CASE ~stopped
    BY <1>0, <1>2, <1>5, <2>2 DEF Some
  <2> QED BY <2>1, <2>2
<1>6. ASSUME stopped', frames'[1].at \in {"initReactor", "initListen"}
      PROVE  hit' = "initReactor" \/ hit' = frames'[1].at
  <2>1. \/ frames'[1] = frames[1]
        \/ MainThread /\ top = frames[1] /\ frames[1].at = "initReactor"
    BY <1>6, MainFrame DEF Turns, CallsMade
  <2>2. CASE stopped
    BY <1>1, <2>1, <2>2, <1>6 DEF Halting
  <2>3. CASE ~stopped
    <3>1. StopBegin /\ top.at = "stop" /\ hit' = hit
      BY <1>2, <1>6, <2>3
    <3>2. frames'[1] = frames[1]
      BY <2>1, <3>1
    <3> QED BY <1>6, <3>1, <3>2, StopAtInit
  <2> QED BY <2>2, <2>3
<1>7. ASSUME stopped', hit' = "initListen"
      PROVE  frames'[1].at \notin {"dispatch", "thenWrite"}
  <2>1. CASE stopped
    <3>1. frames[1].at \notin {"dispatch", "thenWrite"} /\ ~running
      BY <1>1, <1>7, <2>1 DEF Halting
    <3>2. CASE frames[1].at = "wait" /\ MainThread /\ top = frames[1] /\ depth = 1
      <4>1. frames'[1].at = "exit"
        BY <3>1, <3>2, Movers, Polling DEF Now
      <4> QED BY <4>1
    <3> QED BY <3>1, <3>2, MainFrame DEF Turns, CallsMade
  <2>2. CASE ~stopped
    <3>1. StopBegin /\ top.at = "stop" /\ hit' = hit
          /\ \A h \in 1..(depth - 1) : frames'[h] = frames[h]
      BY <1>2, <1>7, <2>2
    <3>2. depth > 1 /\ hit = Place(frames[depth - 1])
      BY <1>7, <2>2, <3>1, HitOf
    <3>3. frames[depth - 1].at = "initListen"
      BY <1>7, <3>1, <3>2 DEF Place
    <3>4. depth - 1 = 1
      BY <1>0, <3>2, <3>3, TopIs DEF MainLabels
    <3> QED BY <3>1, <3>3, <3>4
  <2> QED BY <2>1, <2>2
<1>8. ASSUME frames'[1].at = "destroy"
      PROVE  stopped' \/ frames'[depth'].at = "stop"
  <2>1. CASE frames'[1] = frames[1]
    <3>1. CASE stopped
      BY <1>1, <3>1
    <3>2. CASE frames[depth].at = "stop"
      <4>1. MainThread => stopped'
        BY <1>0, <3>2, Movers DEF StopBegin
      <4>2. ~Signal
        BY <1>0, <3>2 DEF Signal
      <4> QED BY <1>0, <3>2, <4>1, <4>2, Below
    <3> QED BY <1>8, <2>1, <3>1, <3>2 DEF Halting
  <2>2. CASE frames'[1] # frames[1]
    BY <1>8, <2>2, MainFrame DEF Turns, CallsMade
  <2> QED BY <2>1, <2>2
<1>9. ASSUME frames'[1].at = "destroyed"
      PROVE  stopped' /\ depth' = 1
  <2>1. CASE frames'[1] = frames[1]
    <3>1. stopped /\ depth = 1
      BY <1>9, <2>1 DEF Halting
    <3>2. ~MainThread => depth' = 1
      BY <1>1, <3>1, Below
    <3>3. ASSUME MainThread PROVE depth' = 1
      <4>1. stack' = stack
        BY <1>0, <1>9, <2>1, <3>1, <3>3, Movers DEF Destroy, At
      <4> QED BY <3>1, <4>1, Staying
    <3> QED BY <1>1, <3>1, <3>2, <3>3
  <2>2. CASE frames'[1] # frames[1]
    <3>1. depth = 1 /\ depth' = 1 /\ frames[1].at = "destroy"
      BY <1>9, <2>2, MainFrame DEF Turns, CallsMade
    <3> QED BY <1>1, <3>1 DEF Halting
  <2> QED BY <2>1, <2>2
<1> QED BY <1>3, <1>4, <1>5, <1>6, <1>7, <1>8, <1>9 DEF Halting

\* Nobody refers to c.
LEMMA Unreferenced ==
  ASSUME Structure, NEW c \in Conns, ~Referenced(c)
  PROVE  c \notin InTable /\ \A h \in 1..depth : frames[h].c # c /\ c \notin frames[h].todo
<1>1. Len(stack) \in Nat
  BY AtTop DEF Shaped
<1>2. \A h \in 1..Len(stack) : Len(stack) + 1 - h \in 1..Len(stack)
  BY <1>1
<1>3. \A h \in 1..depth : \E i \in 1..Len(stack) : frames[h] = stack[i]
  BY <1>2 DEF frames, depth
<1> QED BY <1>3 DEF Referenced

\* How the list of stop() comes to be.
LEMMA Listing ==
  ASSUME DataOK, Structure, Nesting, [Next]_vars, depth' >= depth, frames'[depth].at = "closeAll"
  PROVE  \/ top.at = "closeAll" /\ frames'[depth] = frames[depth] /\ depth' = depth
         \/ Copy /\ top.at = "copy" /\ frames'[depth].todo = InTable /\ depth' = depth
         \/ /\ CloseAll /\ top.at = "closeAll" /\ depth' = depth + 1 /\ frames'[depth + 1].at = "cas"
            /\ \E c \in top.todo : c \in Conns /\ frames'[depth].todo = top.todo \ {c} /\ frames'[depth + 1].c = c
<1>0. depth \in Nat /\ depth >= 1 /\ top = frames[depth] /\ depth \in 1..depth /\ depth \in 1..depth'
  BY TopIs, Below
<1>1. CASE frames'[depth] = frames[depth]
  <2>1. top.at = "closeAll" /\ stopped
    BY <1>0, <1>1 DEF Nesting, StopBody, StopLabels
  <2>2. ~Signal
    BY <2>1 DEF Signal
  <2>3. ASSUME MainThread PROVE depth' = depth \/ depth' = depth + 1
    BY <1>0, <2>3, Below
  <2>4. ASSUME MainThread, depth' = depth + 1
        PROVE  /\ CloseAll /\ frames'[depth + 1].at = "cas"
               /\ \E c \in top.todo : c \in Conns /\ frames'[depth].todo = top.todo \ {c} /\ frames'[depth + 1].c = c
    <3>1. CloseAll
      BY <2>1, <2>4, Movers
    <3>2. /\ top.todo \subseteq Conns
          /\ \E c \in top.todo : /\ Now(depth, "closeAll", top.c, top.todo \ {c}, top.to)
                                 /\ Now(depth + 1, "cas", c, {}, None)
      BY <1>0, <2>4, <3>1, ClosingAll
    <3> QED BY <3>1, <3>2 DEF Now
  <2> QED BY <1>0, <1>1, <2>1, <2>2, <2>3, <2>4, Below
<1>2. CASE MainThread /\ Moved /\ (Turned \/ Renewed \/ CalledOne)
  <2>1. \/ depth' = depth /\ top.at = "copy"
        \/ depth' = depth + 1 /\ top.at = "closeAll"
    BY <1>2 DEF Turned, Turns, Renewed, CalledOne, CallsMade
  <2>2. CASE depth' = depth /\ top.at = "copy"
    BY <1>2, <2>2, Movers, Copying DEF Now
  <2>3. CASE depth' = depth + 1 /\ top.at = "closeAll"
    <3>1. CloseAll
      BY <1>2, <2>3, Movers
    <3>2. /\ top.todo \subseteq Conns
          /\ \E c \in top.todo : /\ Now(depth, "closeAll", top.c, top.todo \ {c}, top.to)
                                 /\ Now(depth + 1, "cas", c, {}, None)
      BY <1>0, <2>3, <3>1, ClosingAll
    <3> QED BY <2>3, <3>1, <3>2 DEF Now
  <2> QED BY <2>1, <2>2, <2>3
<1> QED BY <1>0, <1>1, <1>2, Origin

\* Only handleAccept() goes on with another connection.
LEMMA RenewedBy ==
  ASSUME DataOK, Structure, MainThread, Renewed
  PROVE  \/ Accept /\ top.at = "accept" /\ frames'[depth].at = "register"
         \/ /\ (CloseAgain /\ top.at = "closeAgain") \/ (Insert /\ top.at = "inserting")
            /\ frames'[depth].at = "accept" /\ frames'[depth].c = None
<1>0. depth \in Nat
  BY TopIs
<1>1. CASE top.at = "accept"
  BY <1>0, <1>1, Movers, LeavingTop DEF Renewed, AcceptFails, MainLabels
<1>2. CASE top.at = "closeAgain"
  BY <1>2, Movers, Renewing DEF CloseAgain, Now, Labels, Callees, AcceptLabels, MainLabels
<1>3. CASE top.at = "inserting"
  BY <1>3, Movers, Renewing DEF Insert, Now, Labels, Callees, AcceptLabels, MainLabels
<1> QED BY <1>1, <1>2, <1>3 DEF Renewed

LEMMA FreshInvariance ==
  ASSUME DataOK, Structure, Nesting, Fresh, Registered, Tabled, [Next]_vars
  PROVE  Fresh'
<1> SUFFICES ASSUME NEW c \in Conns, client'[c] # "accepted"
             PROVE  /\ fdOf'[c] = None /\ connected'[c]
                    /\ \A h \in 1..depth' : frames'[h].c # c
                         /\ (frames'[h].at = "closeAll" => c \notin frames'[h].todo)
  BY DEF Fresh
<1>0. depth \in Nat /\ depth >= 1 /\ top = frames[depth] /\ depth \in 1..depth
  BY TopIs
<1>1. client[c] # "accepted"
  <2>1. CASE Accept
    BY <2>1, Accepting DEF DataOK
  <2>2. CASE ClientConnects
    <3>1. NextIn("new") \in Conns /\ client[NextIn("new")] = "new"
      BY <2>2 DEF ClientConnects, NextIn
    <3> QED BY <2>2, <3>1 DEF ClientConnects, DataOK
  <2> QED BY <2>1, <2>2, Connections
<1>2. /\ fdOf[c] = None /\ connected[c] /\ top.c # c
      /\ \A h \in 1..depth : frames[h].c # c /\ (frames[h].at = "closeAll" => c \notin frames[h].todo)
  BY <1>0, <1>1 DEF Fresh
<1>3. fdOf'[c] = None
  <2>1. CASE Accept
    <3>1. PICK d \in Conns, f \in Fds : client' = [client EXCEPT ![d] = "accepted"]
                                        /\ fdOf' = [fdOf EXCEPT ![d] = f]
      BY <2>1, Accepting
    <3> QED BY <1>2, <3>1 DEF DataOK
  <2>2. CASE CloseAgain \/ CloseFd \/ \E d \in Conns : DestroyConnection(d)
    BY <1>2, <2>2 DEF CloseAgain, CloseFd, DestroyConnection, DataOK
  <2> QED BY <1>2, <2>1, <2>2, Descriptors
<1>4. connected'[c]
  BY <1>2, Connections DEF Cas, DataOK
<1>5. \A f \in Fds : handlers[f] = c => frames[1].at = "destroyed"
  BY <1>2, NoNames DEF Registered
<1>6. c \notin InTable
  BY <1>2, TablesInRange, NoNames DEF Tabled
<1>7. ASSUME NEW h \in 1..depth'
      PROVE  frames'[h].c # c
  <2>1. CASE h = depth /\ Turned
    BY <1>2, <2>1 DEF Turned
  <2>2. CASE h = depth /\ MainThread /\ Renewed
    <3>1. CASE Accept
      <4>1. PICK d \in Conns, f \in Fds : client' = [client EXCEPT ![d] = "accepted"]
                                          /\ Now(depth, "register", d, {}, None)
        BY <3>1, Accepting
      <4> QED BY <2>2, <4>1 DEF DataOK, Now
    <3> QED BY <2>2, <3>1, RenewedBy, NoNames
  <2>3. CASE h = depth /\ CalledOne
    BY <1>2, <2>3 DEF CalledOne
  <2>4. CASE h = depth + 1 /\ depth' = depth + 1
    <3>1. frames[1].at # "destroyed" \/ top.at \notin {"dispatch", "thenWrite"} \/ depth # 1
      BY <1>0
    <3> QED BY <1>0, <1>2, <1>5, <2>4, <3>1, CalledBy, NoNames DEF Reasons
  <2> QED BY <1>2, <2>1, <2>2, <2>3, <2>4, Origin
<1>8. ASSUME NEW h \in 1..depth', frames'[h].at = "closeAll"
      PROVE  c \notin frames'[h].todo
  <2>1. CASE h \in 1..depth /\ frames'[h] = frames[h]
    BY <1>2, <1>8, <2>1
  <2>2. CASE h = depth
    BY <1>0, <1>2, <1>6, <1>8, <2>2, Listing
  <2>3. CASE h = depth + 1 /\ CalledOne
    BY <1>8, <2>3 DEF CalledOne, CallsMade
  <2>4. CASE Now(h, "stop", "signal", {}, None)
    BY <1>8, <2>4 DEF Now
  <2> QED BY <2>1, <2>2, <2>3, <2>4, Origin
<1> QED BY <1>3, <1>4, <1>7, <1>8

\* A failed registration is dealt with directly above the loop.
LEMMA OneCloseAgain ==
  ASSUME Structure, Nesting
  PROVE  /\ \A h \in 1..depth : frames[h].at = "closeAgain" => h = 2
         /\ top.at \in (Callees \ {"closeAgain"}) \cup MainLabels => ~Some({"closeAgain"})
<1>1. /\ depth \in Nat /\ depth >= 1 /\ top = frames[depth] /\ depth \in 1..depth
      /\ top.at \in MainLabels <=> depth = 1
  BY TopIs
<1>2. \A h \in 1..depth : frames[h].at \in Callees => h = 2
  BY Positions
<1> QED BY <1>1, <1>2 DEF Callees, AcceptLabels, MainLabels, Some

\* No two connections have the same descriptor.
LEMMA Distinct ==
  ASSUME DataOK, Structure, Nesting, Owned, NEW c \in Conns, NEW d \in Conns,
         fdOf[c] = fdOf[d], fdOf[c] # None
  PROVE  c = d
<1>1. CASE owner[fdOf[c]] \in {"free", "db"}
  <2>1. On({"closeAgain"}, c) /\ On({"closeAgain"}, d)
    BY <1>1, NoNames DEF Owned
  <2> QED BY <2>1, OneCloseAgain DEF On
<1>2. CASE owner[fdOf[c]] \notin {"free", "db"}
  BY <1>2 DEF Owned
<1> QED BY <1>1, <1>2

\* Whose connection the running activation is about owns its descriptor.
LEMMA TopOwns ==
  ASSUME DataOK, Structure, Newcomers, Owned, top.c \in Conns, fdOf[top.c] # None,
         top.at # "closeAgain"
  PROVE  owner[fdOf[top.c]] = top.c
<1>1. depth \in Nat /\ depth >= 1 /\ top = frames[depth] /\ depth \in 1..depth
  BY TopIs
<1>2. ASSUME On({"closeAgain"}, top.c) PROVE FALSE
  <2>1. PICK h \in 1..depth : frames[h].at = "closeAgain" /\ frames[h].c = top.c
    BY <1>2 DEF On
  <2>2. depth # h => frames[depth].c # frames[h].c
    BY <1>1, <2>1 DEF Newcomers, Entering
  <2> QED BY <1>1, <2>1, <2>2
<1> QED BY <1>2 DEF Owned

LEMMA OwnedInvariance ==
  ASSUME DataOK, Structure, Nesting, Fresh, Newcomers, Owned, Listening, [Next]_vars
  PROVE  Owned'
<1>0. /\ depth \in Nat /\ depth >= 1 /\ top = frames[depth] /\ depth \in 1..depth
      /\ top.at \in MainLabels <=> depth = 1
  BY TopIs
<1> DEFINE Again(c) == owner[fdOf[c]] \in {"free", "db"} /\ regFailed /\ On({"closeAgain"}, c)
<1>1. \A c \in Conns : fdOf[c] # None =>
         fdOf[c] \in Fds /\ (owner[fdOf[c]] = c \/ Again(c))
  BY DEF Owned, DataOK
<1>2. \A f \in Fds, c \in Conns : owner[f] = c => fdOf[c] = f
  BY DEF Owned
<1>3. regFailed => regFailed'
  BY Flags DEF RegisterFails
<1>4. \A c : On({"closeAgain"}, c) => On({"closeAgain"}, c)' \/ (CloseAgain /\ top.c = c)
  <2>1. ASSUME NEW c, On({"closeAgain"}, c), ~On({"closeAgain"}, c)' PROVE CloseAgain /\ top.c = c
    <3>1. MainThread /\ top.at = "closeAgain" /\ top.c = c
      BY <2>1, OnKept
    <3> QED BY <3>1, Movers
  <2> QED BY <2>1
<1>5. \A c \in Conns : c \notin {"free", "db", "listen"} /\ c # None
  BY NoNames
<1>6. \A c, d \in Conns : fdOf[c] = fdOf[d] /\ fdOf[c] # None => c = d
  BY Distinct
<1>7. None \notin Fds /\ None \notin Conns
  BY NoNames
<1> DEFINE Goal == /\ \A c \in Conns : fdOf'[c] # None =>
                        \/ owner'[fdOf'[c]] = c
                        \/ owner'[fdOf'[c]] \in {"free", "db"} /\ regFailed' /\ On({"closeAgain"}, c)'
                   /\ \A f \in Fds, c \in Conns : owner'[f] = c => fdOf'[c] = f
<1> SUFFICES Goal
  BY DEF Owned
<1>10. CASE Accept
  <2>1. PICK d \in Conns, f \in Fds :
           /\ owner[f] = "free" /\ client[d] = "waiting"
           /\ fdOf' = [fdOf EXCEPT ![d] = f] /\ owner' = [owner EXCEPT ![f] = d]
    BY <1>10, Accepting
  <2>2. ~Some({"closeAgain"})
    BY <1>10, OneCloseAgain DEF Accept, At, Callees, AcceptLabels
  <2>3. \A c \in Conns : ~On({"closeAgain"}, c)
    BY <2>2 DEF Some, On
  <2>4. fdOf[d] = None
    BY <2>1 DEF Fresh
  <2> QED BY <1>1, <1>2, <1>5, <1>7, <2>1, <2>3, <2>4 DEF DataOK
<1>11. CASE InitListenSocket
  <2>1. fdOf' = fdOf /\ (owner' = owner \/ \E f \in Fds : owner[f] = "free" /\ owner' = [owner EXCEPT ![f] = "listen"])
    BY <1>11, LeastFree DEF InitListenSocket
  <2>2. ~Some({"closeAgain"})
    BY <1>11, OneCloseAgain DEF InitListenSocket, At, MainLabels
  <2>3. \A c \in Conns : ~On({"closeAgain"}, c)
    BY <2>2 DEF Some, On
  <2> QED BY <1>1, <1>2, <1>5, <1>7, <2>1, <2>3 DEF DataOK
<1>12. CASE RegisterFails
  <2>0. top.at = "register" /\ top.c \in Conns
    BY <1>12, TopConn DEF RegisterFails, At, Entering
  <2>1. PICK d \in Conns : d = top.c
    BY <2>0
  <2>2. /\ fdOf' = fdOf /\ regFailed' = TRUE
        /\ owner' = IF fdOf[d] \in Fds THEN [owner EXCEPT ![fdOf[d]] = "free"] ELSE owner
    BY <1>12, <2>1 DEF RegisterFails, CloseAs
  <2>3. ~Some({"closeAgain"})
    BY <2>0, OneCloseAgain DEF Callees, AcceptLabels
  <2>4. depth' = depth /\ frames'[depth].at = "closeAgain" /\ frames'[depth].c = d
    BY <1>12, <2>1, Going DEF RegisterFails, Now, Labels, Callees, AcceptLabels
  <2>5. On({"closeAgain"}, d)'
    BY <1>0, <2>4 DEF On
  <2>6. \A c \in Conns : fdOf[c] # None => owner[fdOf[c]] = c
    BY <1>1, <2>3 DEF Some, On
  <2> QED BY <1>1, <1>2, <1>5, <1>6, <1>7, <2>2, <2>5, <2>6 DEF DataOK
<1>13. CASE CloseAgain
  <2>1. /\ top.at = "closeAgain" /\ top.c \in Conns /\ fdOf' = [fdOf EXCEPT ![top.c] = None]
        /\ owner' = IF fdOf[top.c] \in Fds THEN [owner EXCEPT ![fdOf[top.c]] = "free"] ELSE owner
    BY <1>13, TopConn DEF CloseAgain, At, CloseAs, Entering
  <2>2. \A c \in Conns : On({"closeAgain"}, c) => c = top.c
    BY <1>0, <2>1, OneCloseAgain DEF On
  <2>3. \A c \in Conns : c # top.c /\ fdOf[c] # None => owner[fdOf[c]] = c
    BY <1>1, <2>2
  <2> QED BY <1>1, <1>2, <1>5, <1>6, <1>7, <2>1, <2>3 DEF DataOK
<1>14. CASE ~CloseAgain /\ (CloseFd \/ \E d \in Conns : DestroyConnection(d))
  <2>1. PICK d \in Conns : /\ fdOf' = [fdOf EXCEPT ![d] = None]
                           /\ owner' = IF fdOf[d] \in Fds THEN [owner EXCEPT ![fdOf[d]] = "free"] ELSE owner
    BY <1>14, TopConn DEF CloseFd, DestroyConnection, At, CloseAs, CloseLabels
  <2>2. \A c \in Conns : On({"closeAgain"}, c) => On({"closeAgain"}, c)'
    BY <1>4, <1>14
  <2> QED BY <1>1, <1>2, <1>3, <1>5, <1>6, <1>7, <2>1, <2>2 DEF DataOK
<1>15. CASE ~CloseAgain /\ CloseListener
  <2>1. fdOf' = fdOf /\ owner' = IF listenFd \in Fds THEN [owner EXCEPT ![listenFd] = "free"] ELSE owner
    BY <1>15 DEF CloseListener, CloseAs
  <2>2. \A c \in Conns : On({"closeAgain"}, c) => On({"closeAgain"}, c)'
    BY <1>4, <1>15
  <2>3. listenFd \in Fds => owner[listenFd] = "listen"
    BY <1>7 DEF Listening
  <2> QED BY <1>1, <1>2, <1>3, <1>5, <1>7, <2>1, <2>2, <2>3 DEF DataOK
<1>16. CASE ~CloseAgain /\ Redial
  <2>1. /\ fdOf' = fdOf
        /\ \/ owner' = [f \in Fds |-> IF owner[f] = "db" THEN "free" ELSE owner[f]]
           \/ \E f \in Fds : owner[f] = "free" /\ owner' = [owner EXCEPT ![f] = "db"]
    BY <1>16, LeastFree DEF Redial
  <2>2. \A c \in Conns : On({"closeAgain"}, c) => On({"closeAgain"}, c)'
    BY <1>4, <1>16
  <2> QED BY <1>1, <1>2, <1>3, <1>5, <1>7, <2>1, <2>2 DEF DataOK
<1>17. CASE ~CloseAgain /\ owner' = owner /\ fdOf' = fdOf
  BY <1>1, <1>2, <1>3, <1>4, <1>17
<1> QED BY <1>10, <1>11, <1>12, <1>13, <1>14, <1>15, <1>16, <1>17, Descriptors

LEMMA ListeningInvariance ==
  ASSUME DataOK, Structure, Nesting, Owned, Listening, [Next]_vars
  PROVE  Listening'
<1>0. /\ depth \in Nat /\ depth >= 1 /\ top = frames[depth] /\ depth \in 1..depth
      /\ top.at \in MainLabels <=> depth = 1
  BY TopIs
<1>1. \A f \in Fds : handlers[f] = "listen" \/ owner[f] = "listen" => listenFd = f
  BY DEF Listening
<1>2. listenFd # None => listenFd \in Fds /\ owner[listenFd] = "listen"
  BY DEF Listening, DataOK
<1>3. \A c \in Conns : fdOf[c] \in Fds => owner[fdOf[c]] \in {c, "free", "db"} /\ owner[fdOf[c]] # "listen"
  BY NoNames DEF Owned
<1>4. \A c \in Conns : c \notin {"free", "db", "listen"} /\ c # None
  BY NoNames
<1>5. None \notin Fds /\ None \notin Conns /\ None # "listen"
  BY NoNames
<1>6. ASSUME frames'[1].at \in {"initReactor", "initListen"}
      PROVE  listenFd' = None
  <2>1. frames[1].at \in {"initReactor", "initListen"}
    BY <1>6, MainFrame DEF Turns, CallsMade
  <2>2. listenFd = None
    BY <2>1 DEF Listening
  <2>3. ~InitListenSocket
    <3>1. ASSUME InitListenSocket PROVE FALSE
      <4>1. depth = 1 /\ top.at = "initListen"
        BY <1>0, <3>1 DEF InitListenSocket, At, MainLabels
      <4>2. frames'[depth].at \in {"initAdd", "exit"}
        BY <3>1, Going DEF InitListenSocket, Now, Labels, MainLabels
      <4> QED BY <1>6, <4>1, <4>2
    <3> QED BY <3>1
  <2> QED BY <2>2, <2>3, Descriptors DEF CloseListener
<1> DEFINE Goal == /\ \A f \in Fds : handlers'[f] = "listen" \/ owner'[f] = "listen" => listenFd' = f
                   /\ listenFd' # None => owner'[listenFd'] = "listen"
<1> SUFFICES Goal
  BY <1>6 DEF Listening
<1>7. CASE InitListenSocket
  <2>1. top.at = "initListen" /\ depth = 1
    BY <1>0, <1>7 DEF InitListenSocket, At, MainLabels
  <2>2. listenFd = None
    BY <1>0, <2>1 DEF Listening
  <2>3. handlers' = handlers
    BY <1>7 DEF InitListenSocket, regVars
  <2>4. \/ owner' = owner /\ listenFd' = listenFd
        \/ listenFd' \in Fds /\ owner' = [owner EXCEPT ![listenFd'] = "listen"]
    BY <1>7, LeastFree DEF InitListenSocket
  <2> QED BY <1>1, <1>5, <2>2, <2>3, <2>4 DEF DataOK
<1>8. CASE CloseListener
  <2>1. /\ handlers' = [f \in Fds |-> IF f = listenFd THEN None ELSE handlers[f]] /\ listenFd' = None
        /\ owner' = IF listenFd \in Fds THEN [owner EXCEPT ![listenFd] = "free"] ELSE owner
    BY <1>8 DEF CloseListener, CloseAs
  <2> QED BY <1>1, <1>2, <1>5, <2>1 DEF DataOK
<1>9. CASE ~InitListenSocket /\ ~CloseListener
  <2>1. listenFd' = listenFd
    BY <1>9, Descriptors
  <2>2. \A f \in Fds : handlers'[f] = "listen" => listenFd = f
    <3>1. CASE AddListener
      BY <1>1, <3>1 DEF AddListener, DataOK
    <3>2. CASE Register \/ DelFd
      BY <1>1, <1>4, <1>5, <3>2, TopConn DEF Register, DelFd, At, Entering, CloseLabels, DataOK
    <3> QED BY <1>1, <1>9, <3>1, <3>2, Registers
  <2>3. (\A f \in Fds : owner'[f] = "listen" => owner[f] = "listen")
        /\ (listenFd # None => owner'[listenFd] = "listen")
    <3>1. CASE Accept
      BY <1>2, <1>4, <3>1, Accepting DEF DataOK
    <3>2. CASE RegisterFails \/ CloseAgain \/ CloseFd \/ \E d \in Conns : DestroyConnection(d)
      <4>1. PICK d \in Conns : owner' = IF fdOf[d] \in Fds THEN [owner EXCEPT ![fdOf[d]] = "free"] ELSE owner
        BY <3>2, TopConn DEF RegisterFails, CloseAgain, CloseFd, DestroyConnection, CloseAs, At, Entering, CloseLabels
      <4> QED BY <1>2, <1>3, <4>1 DEF DataOK
    <3>3. CASE Redial
      <4>1. \/ owner' = [f \in Fds |-> IF owner[f] = "db" THEN "free" ELSE owner[f]]
            \/ \E f \in Fds : owner[f] = "free" /\ owner' = [owner EXCEPT ![f] = "db"]
        BY <3>3, LeastFree DEF Redial
      <4> QED BY <1>2, <4>1 DEF DataOK
    <3> QED BY <1>2, <1>9, <3>1, <3>2, <3>3, Descriptors
  <2> QED BY <1>1, <2>1, <2>2, <2>3
<1> QED BY <1>7, <1>8, <1>9

LEMMA OnlyOwnInvariance ==
  ASSUME DataOK, Structure, Owned, Listening, OnlyOwnClosed, [Next]_vars
  PROVE  OnlyOwnClosed'
<1>1. regFailed => regFailed'
  BY Flags DEF RegisterFails
<1>2. \A c \in Conns : fdOf[c] \in Fds => owner[fdOf[c]] \in {c, "free"} \/ regFailed
  BY NoNames DEF Owned
<1>3. listenFd \in Fds => owner[listenFd] = "listen"
  BY NoNames DEF Listening
<1>4. CASE RegisterFails
  BY <1>4 DEF RegisterFails, OnlyOwnClosed
<1>5. CASE CloseAgain \/ CloseFd \/ \E d \in Conns : DestroyConnection(d)
  <2>1. PICK d \in Conns : stray' = stray \/ (fdOf[d] \in Fds /\ stray' = (stray \/ owner[fdOf[d]] \notin {d, "free"}))
    BY <1>5, TopConn DEF CloseAgain, CloseFd, DestroyConnection, CloseAs, At, Entering, CloseLabels
  <2> QED BY <1>1, <1>2, <2>1 DEF OnlyOwnClosed
<1>6. CASE CloseListener
  BY <1>1, <1>3, <1>6 DEF CloseListener, CloseAs, OnlyOwnClosed
<1> QED BY <1>1, <1>4, <1>5, <1>6, Descriptors DEF OnlyOwnClosed

\* Only an insertion adds to the table.
LEMMA TableGrows ==
  ASSUME DataOK, Structure, [Next]_vars, NEW c \in InTable'
  PROVE  c \in Conns /\ (c \in InTable \/ (Insert /\ c = top.c))
<1>1. PICK f \in Fds : table'[f] = c /\ c # None
  BY DEF InTable
<1>2. CASE Insert
  BY <1>1, <1>2, TopConn DEF Insert, At, Entering, InTable, DataOK
<1>3. CASE RemoveConnection \/ Clear \/ Destroy
  BY <1>1, <1>3 DEF RemoveConnection, Clear, Destroy, InTable, DataOK, regVars
<1> QED BY <1>1, <1>2, <1>3, Registers DEF InTable, DataOK

\* A step that is taken from one of the labels of a newcomer changes the label.
LEMMA NoStill ==
  ASSUME DataOK, Structure,
         Register \/ RegisterFails \/ Insert \/ CloseAgain \/ Accept
  PROVE  /\ depth' = depth /\ frames'[depth].at # top.at /\ top.at \in AcceptLabels
         /\ Insert \/ CloseAgain => frames'[depth].at = "accept"
<1>0. AcceptLabels \subseteq Labels \ MainLabels
  BY DEF Labels, Callees, AcceptLabels, MainLabels
<1>1. CASE Register \/ RegisterFails
  BY <1>0, <1>1, Going DEF Register, RegisterFails, Insert, CloseAgain, At, Now, AcceptLabels
<1>2. CASE Insert \/ CloseAgain
  BY <1>0, <1>2, Renewing DEF Insert, CloseAgain, At, Now, AcceptLabels
<1>3. CASE Accept
  BY <1>3, Accepting DEF Now, Insert, CloseAgain, Accept, At, AcceptLabels
<1> QED BY <1>1, <1>2, <1>3

\* A newcomer's activation is the only one that knows its connection.
LEMMA NewcomersInvariance ==
  ASSUME DataOK, Structure, Nesting, Fresh, Newcomers, Registered, Tabled, Owned, Listening, [Next]_vars
  PROVE  Newcomers'
<1> USE DEF Entering, Inserting
<1>0. /\ depth \in Nat /\ depth >= 1 /\ top = frames[depth] /\ depth \in 1..depth
      /\ top.at \in MainLabels <=> depth = 1
  BY TopIs
<1>1. /\ \A h \in 1..depth : frames[h].at \in Callees => h = 2 /\ depth >= 2
      /\ \A h \in 1..depth : frames[h].at \in Entering => frames[h].c \in Conns
  BY Positions DEF Structure, FrameOK
<1>2. None \notin Conns /\ Reasons \cap Conns = {} /\ None \notin Fds
  BY NoNames DEF Reasons
<1> DEFINE Fine(h, c) ==
      /\ connected'[c] /\ c \notin InTable'
      /\ frames'[h].at # "closeAgain" => fdOf'[c] \in Fds
      /\ frames'[h].at \in Inserting => handlers'[fdOf'[c]] = c
      /\ \A k \in 1..depth' :
           /\ k # h => frames'[k].c # c
           /\ frames'[k].at = "closeAll" => c \notin frames'[k].todo
\* The newcomer was there.
<1>3. ASSUME NEW h \in 1..depth, h \in 1..depth', frames'[h] = frames[h], frames[h].at \in Entering,
             NEW c \in Conns, c = frames[h].c
      PROVE  Fine(h, c)
  <2>1. /\ connected[c] /\ c \notin InTable
        /\ frames[h].at # "closeAgain" => fdOf[c] \in Fds
        /\ frames[h].at \in Inserting => handlers[fdOf[c]] = c
        /\ \A k \in 1..depth : /\ k # h => frames[k].c # c
                               /\ frames[k].at = "closeAll" => c \notin frames[k].todo
    BY <1>3 DEF Newcomers
  <2>2. /\ h = 2 /\ depth >= 2 /\ top.at \notin MainLabels
        /\ top.c = c => top.at \in Entering /\ depth = h
        /\ top.at \in Callees => depth = h
    BY <1>0, <1>1, <1>3, <2>1 DEF Callees, AcceptLabels
  <2>3. ~Register /\ ~RegisterFails /\ ~Insert /\ ~CloseAgain /\ ~Accept
    BY <1>0, <1>3, <2>2, NoStill DEF Callees
  <2>4. ~(top.at \in CloseLabels /\ top.c = c)
    BY <2>2 DEF CloseLabels
  <2>5. connected'[c]
    BY <2>1, <2>4, Connections DEF Cas, At, CloseLabels, DataOK
  <2>6. c \notin InTable'
    BY <2>1, <2>3, TableGrows
  <2>7. fdOf'[c] = fdOf[c]
    <3>1. CASE CloseFd
      BY <2>4, <3>1 DEF CloseFd, At, CloseLabels, DataOK
    <3>2. ASSUME NEW d \in Conns, DestroyConnection(d) PROVE fdOf'[c] = fdOf[c]
      <4>1. d # c
        BY <1>3, <3>2, Unreferenced DEF DestroyConnection
      <4> QED BY <3>2, <4>1 DEF DestroyConnection, DataOK
    <3> QED BY <2>3, <3>1, <3>2, Descriptors
  <2>8. ASSUME frames[h].at \in Inserting
        PROVE  handlers'[fdOf[c]] = c
    <3>1. fdOf[c] \in Fds /\ handlers[fdOf[c]] = c
      BY <2>1, <2>8
    <3>2. ~AddListener
      BY <2>2 DEF AddListener, At, MainLabels
    <3>3. CASE DelFd
      <4>1. top.c \in Conns /\ top.c # c
        BY <2>4, <3>3, TopConn DEF DelFd, At, CloseLabels
      <4>2. fdOf[top.c] # fdOf[c]
        BY <1>2, <3>1, <4>1, Distinct
      <4> QED BY <3>1, <3>3, <4>2 DEF DelFd, DataOK
    <3>4. CASE CloseListener
      <4>1. fdOf[c] # listenFd
        BY <1>2, <3>1, NoNames DEF Owned, Listening
      <4> QED BY <3>1, <3>4, <4>1 DEF CloseListener
    <3> QED BY <2>3, <3>1, <3>2, <3>3, <3>4, Registers
  <2>9. ASSUME NEW k \in 1..depth', k # h
        PROVE  frames'[k].c # c
    <3>1. CASE k = depth /\ (Turned \/ CalledOne)
      BY <1>0, <2>1, <2>9, <3>1 DEF Turned, CalledOne
    <3>2. CASE k = depth /\ MainThread /\ Renewed
      BY <2>3, <3>2, RenewedBy
    <3>3. CASE k = depth + 1 /\ depth' = depth + 1
      <4>1. top.at = "writing" => top.c # c
        BY <2>2
      <4>2. top.at = "closeAll" => c \notin top.todo
        BY <1>0, <2>1
      <4> QED BY <1>2, <2>2, <3>3, <4>1, <4>2, CalledBy
    <3> QED BY <2>1, <2>9, <3>1, <3>2, <3>3, Origin
  <2>10. ASSUME NEW k \in 1..depth', frames'[k].at = "closeAll"
         PROVE  c \notin frames'[k].todo
    <3>1. CASE k \in 1..depth /\ frames'[k] = frames[k]
      BY <2>1, <2>10, <3>1
    <3>2. CASE k = depth
      BY <1>0, <2>1, <2>10, <3>2, Listing
    <3>3. CASE k = depth + 1 /\ CalledOne
      BY <2>10, <3>3 DEF CalledOne, CallsMade
    <3>4. CASE Now(k, "stop", "signal", {}, None)
      BY <2>10, <3>4 DEF Now
    <3> QED BY <3>1, <3>2, <3>3, <3>4, Origin
  <2> QED BY <1>3, <2>1, <2>5, <2>6, <2>7, <2>8, <2>9, <2>10
\* The newcomer goes on.
<1>4. ASSUME MainThread, SameBelow, Turned, frames'[depth].at \in Entering, NEW c \in Conns, c = top.c
      PROVE  Fine(depth, c)
  <2>0. \/ top.at = "register" /\ frames'[depth].at \in {"insert", "closeAgain"}
        \/ top.at = "insert" /\ frames'[depth].at = "inserting"
    BY <1>4 DEF Turned, Turns
  <2>1. /\ connected[c] /\ c \notin InTable /\ fdOf[c] \in Fds
        /\ top.at = "insert" => handlers[fdOf[c]] = c
        /\ \A k \in 1..depth : /\ k # depth => frames[k].c # c
                               /\ frames[k].at = "closeAll" => c \notin frames[k].todo
    BY <1>0, <1>4, <2>0 DEF Newcomers
  <2>2. connected'[c]
    BY <2>0, <2>1, Connections DEF Cas, At
  <2>3. c \notin InTable'
    BY <2>0, <2>1, TableGrows DEF Insert, At
  <2>4. fdOf'[c] = fdOf[c]
    <3>1. ASSUME NEW d \in Conns, DestroyConnection(d) PROVE fdOf'[c] = fdOf[c]
      <4>1. d # c
        BY <1>0, <1>4, <3>1, Unreferenced DEF DestroyConnection
      <4> QED BY <3>1, <4>1 DEF DestroyConnection, DataOK
    <3> QED BY <2>0, <3>1, Descriptors DEF Accept, CloseAgain, CloseFd, At
  <2>5. ASSUME frames'[depth].at \in Inserting
        PROVE  handlers'[fdOf[c]] = c
    <3>1. CASE top.at = "insert"
      <4>1. LockTable
        BY <1>4, <3>1, Movers
      <4> QED BY <2>1, <3>1, <4>1 DEF LockTable, dataVars, regVars
    <3>2. CASE top.at = "register"
      <4>1. RegisterFails => frames'[depth].at = "closeAgain"
        BY Going DEF RegisterFails, Now, Labels, Callees, AcceptLabels
      <4>2. Register
        BY <1>4, <2>5, <3>2, <4>1, Movers
      <4> QED BY <1>4, <2>1, <4>2 DEF Register, DataOK
    <3> QED BY <2>0, <3>1, <3>2
  <2>6. \A k \in 1..depth' : k = depth \/ (k \in 1..depth /\ frames'[k] = frames[k])
    BY <1>0, <1>4 DEF SameBelow, Turned
  <2> QED BY <1>0, <2>0, <2>1, <2>2, <2>3, <2>4, <2>5, <2>6
\* The newcomer has been accepted.
<1>5. ASSUME Accept, NEW c \in Conns, c = frames'[depth].c
      PROVE  Fine(depth, c)
  <2>1. PICK d \in Conns, f \in Fds :
           /\ client[d] = "waiting" /\ fdOf' = [fdOf EXCEPT ![d] = f]
           /\ depth' = depth /\ SameBelow /\ Now(depth, "register", d, {}, None)
           /\ UNCHANGED connected /\ UNCHANGED table
    BY <1>5, Accepting DEF regVars
  <2>2. /\ c = d /\ frames'[depth].at = "register" /\ fdOf[c] = None /\ connected[c]
        /\ \A k \in 1..depth : frames[k].c # c /\ (frames[k].at = "closeAll" => c \notin frames[k].todo)
    BY <1>5, <2>1 DEF Now, Fresh
  <2>3. c \notin InTable
    BY <1>2, <2>2, TablesInRange DEF Tabled
  <2>4. \A k \in 1..depth' : k = depth \/ (k \in 1..depth /\ frames'[k] = frames[k])
    BY <1>0, <2>1 DEF SameBelow
  <2> QED BY <2>1, <2>2, <2>3, <2>4 DEF DataOK, InTable
<1>6. ASSUME NEW h \in 1..depth', frames'[h].at \in Entering
      PROVE  Fine(h, frames'[h].c)
  <2>1. frames'[h].c \in Conns
    BY <1>6, StructureInvariance DEF Structure, FrameOK
  <2>2. CASE h \in 1..depth /\ frames'[h] = frames[h]
    BY <1>3, <1>6, <2>1, <2>2
  <2>3. CASE h = depth /\ MainThread /\ Moved /\ (Turned \/ Renewed \/ CalledOne)
    <3>1. CASE Turned
      BY <1>4, <1>6, <2>1, <2>3, <3>1 DEF Turned, Moved
    <3>2. CASE Renewed
      BY <1>5, <1>6, <2>1, <2>3, <3>2, RenewedBy
    <3>3. ~CalledOne
      BY <1>6, <2>3 DEF CalledOne, CallsMade
    <3> QED BY <2>3, <3>1, <3>2, <3>3
  <2>4. CASE h = depth + 1 /\ CalledOne
    BY <1>6, <2>4 DEF CalledOne, CallsMade
  <2>5. CASE Now(h, "stop", "signal", {}, None)
    BY <1>6, <2>5 DEF Now
  <2> QED BY <2>2, <2>3, <2>4, <2>5, Origin
<1> QED BY <1>6 DEF Newcomers

\* A connection that is closed is about to be unregistered.
LEMMA CasLeads ==
  ASSUME DataOK, Structure, [Next]_vars, NEW c \in Conns, connected[c], ~connected'[c]
  PROVE  Cas /\ top.c = c /\ On({"del"}, c)'
<1>1. Cas /\ connected' = [connected EXCEPT ![top.c] = FALSE] /\ top.c \in Conns
  BY Connections, TopConn DEF Cas, At, CloseLabels
<1>2. top.c = c
  BY <1>1 DEF DataOK
<1>3. Goto("del")
  BY <1>1, <1>2 DEF Cas
<1>4. depth' = depth /\ frames'[depth].at = "del" /\ frames'[depth].c = c /\ depth \in 1..depth
  BY <1>2, <1>3, Going, TopIs DEF Labels, CloseLabels, Now
<1> QED BY <1>1, <1>2, <1>4 DEF On

\* No connection is opened again.
LEMMA Disconnected ==
  ASSUME [Next]_vars, NEW c \in Conns, ~connected[c], DataOK, Structure
  PROVE  ~connected'[c]
BY Connections, TopConn DEF Cas, At, CloseLabels, DataOK

\* A connection that is known keeps its descriptor.
LEMMA FdKept ==
  ASSUME DataOK, Structure, Fresh, [Next]_vars, NEW c \in Conns, fdOf[c] # None,
         ~(top.at \in {"closeAgain", "closeFd"} /\ top.c = c),
         c \in InTable \/ \E h \in 1..depth : frames[h].c = c
  PROVE  fdOf'[c] = fdOf[c]
<1>1. CASE Accept
  BY <1>1, Accepting DEF Fresh, DataOK
<1>2. CASE CloseAgain \/ CloseFd
  BY <1>2 DEF CloseAgain, CloseFd, At, DataOK
<1>3. ASSUME NEW d \in Conns, DestroyConnection(d)
      PROVE  fdOf'[c] = fdOf[c]
  <2>1. d # c
    BY <1>3, Unreferenced DEF DestroyConnection
  <2> QED BY <1>3, <2>1 DEF DestroyConnection, DataOK
<1> QED BY <1>1, <1>2, <1>3, Descriptors

LEMMA SweptInvariance ==
  ASSUME DataOK, Structure, Nesting, Swept, [Next]_vars
  PROVE  Swept'
<1>0. /\ depth \in Nat /\ depth >= 1 /\ top = frames[depth] /\ depth \in 1..depth
      /\ top.at \in MainLabels <=> depth = 1
      /\ \A h \in 1..depth : frames[h].at \in MainLabels <=> h = 1
  BY TopIs
\* No connection is inserted once stop() has begun.
<1>1. ASSUME NEW h \in 1..depth, frames[h].at \in StopLabels
      PROVE  ~Insert
  <2>1. ASSUME Insert PROVE FALSE
    <3>1. top.at = "inserting" /\ depth = 2
      BY <1>0, <2>1, Positions DEF Insert, At, Callees, AcceptLabels
    <3>2. h = 1 \/ h = 2
      BY <3>1
    <3> QED BY <1>0, <1>1, <3>1, <3>2 DEF StopLabels, MainLabels
  <2> QED BY <2>1
<1>2. ASSUME NEW c \in Conns, connected'[c] PROVE connected[c]
  BY <1>2, Disconnected DEF DataOK
<1>3. ASSUME NEW h \in 1..depth', frames'[h].at = "closeAll", NEW c \in InTable', connected'[c]
      PROVE  c \in frames'[h].todo \/ (h < depth' /\ frames'[h + 1].at = "cas" /\ frames'[h + 1].c = c)
  <2>1. c \in Conns /\ connected[c] /\ (c \in InTable \/ Insert)
    BY <1>2, <1>3, TableGrows
  <2>2. CASE h \in 1..depth /\ frames'[h] = frames[h]
    <3>1. c \in InTable
      BY <1>1, <1>3, <2>1, <2>2 DEF StopLabels
    <3>2. c \in frames[h].todo \/ (h < depth /\ frames[h + 1].at = "cas" /\ frames[h + 1].c = c)
      BY <1>3, <2>1, <2>2, <3>1 DEF Swept
    <3>3. CASE h < depth /\ frames[h + 1].at = "cas" /\ frames[h + 1].c = c
      <4>1. CASE h + 1 < depth
        <5>1. h + 1 \in 1..depth /\ h + 1 \in 1..depth' /\ frames'[h + 1] = frames[h + 1]
          BY <1>0, <3>3, <4>1, Below
        <5> QED BY <3>3, <4>1, <5>1, Below, <1>0
      <4>2. CASE h + 1 = depth
        <5>1. ~MainThread
          <6>1. ASSUME MainThread PROVE FALSE
            <7>1. Cas /\ top.c = c
              BY <1>0, <3>3, <4>2, <6>1, Movers
            <7> QED BY <1>3, <2>1, <7>1 DEF Cas, DataOK
          <6> QED BY <6>1
        <5> QED BY <1>0, <3>3, <4>2, <5>1, Below
      <4> QED BY <1>0, <3>3, <4>1, <4>2
    <3> QED BY <2>2, <3>2, <3>3
  <2>3. CASE h = depth
    <3>1. frames[depth].at = "closeAll" => c \in InTable
      BY <1>0, <1>1, <2>1 DEF StopLabels
    <3>2. top.at = "copy" => c \in InTable
      BY <1>0, <1>1, <2>1 DEF StopLabels
    <3>3. top.at = "closeAll" => c \in top.todo
      BY <1>0, <2>1, <3>1 DEF Swept
    <3> QED BY <1>0, <1>3, <2>3, <3>2, <3>3, Listing
  <2>4. CASE h = depth + 1 /\ CalledOne
    BY <1>3, <2>4 DEF CalledOne, CallsMade
  <2>5. CASE Now(h, "stop", "signal", {}, None)
    BY <1>3, <2>5 DEF Now
  <2> QED BY <2>2, <2>3, <2>4, <2>5, Origin
<1>4. ASSUME NEW h \in 1..depth', frames'[h].at = "clear", NEW c \in InTable'
      PROVE  ~connected'[c]
  <2>1. c \in Conns /\ (c \in InTable \/ Insert)
    BY <1>4, TableGrows
  <2>2. CASE h \in 1..depth /\ frames'[h] = frames[h]
    BY <1>1, <1>2, <1>4, <2>1, <2>2 DEF Swept, StopLabels
  <2>3. CASE h = depth /\ MainThread /\ (Turned \/ Renewed \/ CalledOne)
    <3>1. top.at = "closeAll" /\ depth' = depth
      BY <1>4, <2>3 DEF Turned, Turns, Renewed, CalledOne, CallsMade
    <3>2. CloseAll
      BY <2>3, <3>1, Movers
    <3>3. top.todo = {}
      BY <1>0, <3>1, <3>2, ClosingAll
    <3>4. c \in InTable
      BY <1>0, <1>1, <2>1, <3>1 DEF StopLabels
    <3>5. ~connected[c]
      BY <1>0, <3>1, <3>3, <3>4 DEF Swept
    <3> QED BY <2>1, <3>5, Disconnected
  <2>4. CASE h = depth + 1 /\ CalledOne
    BY <1>4, <2>4 DEF CalledOne, CallsMade
  <2>5. CASE Now(h, "stop", "signal", {}, None)
    BY <1>4, <2>5 DEF Now
  <2> QED BY <2>2, <2>3, <2>4, <2>5, Origin
<1>5. ASSUME NEW h \in 1..depth', frames'[h].at \in {"closeListen", "shutdown", "join"}
      PROVE  InTable' = {}
  <2>2. CASE h \in 1..depth /\ frames'[h] = frames[h]
    BY <1>1, <1>5, <2>2, TableGrows DEF Swept, StopLabels
  <2>3. CASE h = depth /\ MainThread /\ (Turned \/ Renewed \/ CalledOne)
    <3>1. \/ top.at = "clear"
          \/ top.at \in {"closeListen", "shutdown", "join"}
      BY <1>5, <2>3 DEF Turned, Turns, Renewed, CalledOne, CallsMade
    <3>2. CASE top.at = "clear"
      BY <2>3, <3>2, Movers DEF Clear, InTable
    <3>3. CASE top.at \in {"closeListen", "shutdown", "join"}
      BY <1>0, <1>1, <3>3, TableGrows DEF Swept, StopLabels
    <3> QED BY <3>1, <3>2, <3>3
  <2>4. CASE h = depth + 1 /\ CalledOne
    BY <1>5, <2>4 DEF CalledOne, CallsMade
  <2>5. CASE Now(h, "stop", "signal", {}, None)
    BY <1>5, <2>5 DEF Now
  <2> QED BY <2>2, <2>3, <2>4, <2>5, Origin
<1> QED BY <1>3, <1>4, <1>5 DEF Swept

\* An open connection stays in the table.
LEMMA TableKept ==
  ASSUME DataOK, Structure, Nesting, ClosedOnce, Newcomers, Tabled, Owned, Swept, [Next]_vars, ~Destroy,
         NEW f \in Fds, NEW c \in Conns, table[f] = c, connected[c]
  PROVE  table'[f] = c
<1>0. depth \in Nat /\ depth >= 1 /\ top = frames[depth] /\ depth \in 1..depth
  BY TopIs
<1>1. fdOf[c] = f /\ f # None
  BY NoNames DEF Tabled
<1>2. CASE Insert
  BY <1>1, <1>2, Distinct, TopConn DEF Insert, At, Entering, DataOK
<1>3. CASE RemoveConnection
  <2>1. top.c \in Conns /\ ~connected[top.c] /\ table' = [table EXCEPT ![fdOf[top.c]] = None]
    BY <1>0, <1>3, TopConn DEF RemoveConnection, At, CloseLabels, ClosedOnce, Body, Leaving
  <2>2. fdOf[top.c] # f
    BY <1>1, <2>1, Distinct
  <2> QED BY <2>1, <2>2 DEF DataOK
<1>4. CASE Clear
  BY <1>0, <1>4 DEF Clear, At, Swept, InTable
<1> QED BY <1>2, <1>3, <1>4, Registers

\* The destructor of the server comes last.
LEMMA NotDestroyed ==
  ASSUME DataOK, Structure, [Next]_vars, frames'[1].at # "destroyed"
  PROVE  frames[1].at # "destroyed" /\ ~Destroy
<1>1. frames[1].at # "destroyed"
  <2>1. CASE frames'[1] = frames[1]
    BY <2>1
  <2>2. CASE frames'[1] # frames[1]
    BY <2>2, MainFrame DEF Turns, CallsMade
  <2> QED BY <2>1, <2>2
<1>2. ASSUME Destroy PROVE FALSE
  <2>1. top.at = "destroy" /\ Goto("destroyed") /\ depth = 1
    BY <1>1, <1>2, TopIs DEF Destroy, At, MainLabels
  <2>2. frames'[depth].at = "destroyed"
    BY <2>1, Going DEF Labels, MainLabels, Now
  <2> QED BY <2>1, <2>2
<1> QED BY <1>1, <1>2

LEMMA RegisteredInvariance ==
  ASSUME DataOK, Structure, Nesting, Fresh, Newcomers, ClosedOnce, Registered, Tabled, Owned, Listening,
         Swept, [Next]_vars
  PROVE  Registered'
<1>0. /\ depth \in Nat /\ depth >= 1 /\ top = frames[depth] /\ depth \in 1..depth
      /\ top.at \in MainLabels <=> depth = 1
  BY TopIs
<1> SUFFICES ASSUME frames'[1].at # "destroyed", NEW f \in Fds, NEW c \in Conns, handlers'[f] = c
             PROVE  /\ fdOf'[c] = f
                    /\ IF connected'[c] THEN table'[f] = c \/ On(Inserting, c)' ELSE On({"del"}, c)'
  BY DEF Registered
<1>1. ~Destroy /\ frames[1].at # "destroyed"
  BY NotDestroyed
<1>2. None \notin Conns /\ None \notin Fds /\ "listen" \notin Conns
  BY NoNames
<1>3. CASE handlers[f] = c
  <2>1. fdOf[c] = f /\ (IF connected[c] THEN table[f] = c \/ On(Inserting, c) ELSE On({"del"}, c))
    BY <1>1, <1>3 DEF Registered
  <2>2. c \in InTable \/ On(Inserting, c) \/ On({"del"}, c)
    BY <2>1, TablesInRange
  <2>3. ~(top.at = "closeAgain" /\ top.c = c)
    <3>1. ASSUME top.at = "closeAgain", top.c = c PROVE FALSE
      <4>1. connected[c] /\ c \notin InTable /\ \A k \in 1..depth : k # depth => frames[k].c # c
        BY <1>0, <3>1 DEF Newcomers, Entering
      <4>2. On(Inserting, c)
        BY <2>1, <4>1, TablesInRange
      <4> QED BY <1>0, <3>1, <4>1, <4>2 DEF On, Inserting
    <3> QED BY <3>1
  <2>4. ~(top.at = "closeFd" /\ top.c = c)
    <3>1. ASSUME top.at = "closeFd", top.c = c PROVE FALSE
      <4>1. ~connected[c] /\ \A k \in 1..depth : frames[k].at \in Body /\ frames[k].c = c => k = depth
        BY <1>0, <3>1 DEF ClosedOnce, Body
      <4>2. On({"del"}, c)
        BY <2>1, <4>1
      <4> QED BY <1>0, <3>1, <4>1, <4>2 DEF On, Body
    <3> QED BY <3>1
  <2>5. fdOf'[c] = f
    BY <1>2, <2>1, <2>2, <2>3, <2>4, FdKept DEF On
  <2>6. ASSUME connected'[c]
        PROVE  table'[f] = c \/ On(Inserting, c)'
    <3>1. connected[c]
      BY <2>6, Disconnected DEF DataOK
    <3>2. CASE table[f] = c
      BY <1>1, <3>1, <3>2, TableKept
    <3>3. CASE On(Inserting, c)
      <4>1. ASSUME ~On(Inserting, c)' PROVE table'[f] = c
        <5>1. /\ MainThread /\ Moved /\ top.at \in Inserting /\ top.c = c
              /\ depth' >= depth => ~(frames'[depth].at \in Inserting /\ frames'[depth].c = c)
          BY <3>3, <4>1, OnKept
        <5>2. top.at = "inserting"
          <6>1. CASE top.at = "insert"
            <7>1. LockTable
              BY <5>1, <6>1, Movers
            <7>2. Goto("inserting")
              BY <6>1, <7>1 DEF LockTable, Critical
            <7>3. depth' = depth /\ frames'[depth].at = "inserting" /\ frames'[depth].c = c
              BY <5>1, <7>2, Going DEF Labels, Callees, AcceptLabels, Now
            <7> QED BY <1>0, <5>1, <7>3 DEF Inserting
          <6> QED BY <5>1, <6>1 DEF Inserting
        <5>3. Insert
          BY <5>1, <5>2, Movers
        <5> QED BY <2>1, <5>1, <5>3 DEF Insert, DataOK
      <4> QED BY <4>1
    <3> QED BY <2>1, <3>1, <3>2, <3>3
  <2>7. ASSUME ~connected'[c]
        PROVE  On({"del"}, c)'
    <3>1. CASE connected[c]
      BY <2>7, <3>1, CasLeads
    <3>2. CASE ~connected[c]
      <4>1. ASSUME ~On({"del"}, c)' PROVE FALSE
        <5>1. MainThread /\ top.at = "del" /\ top.c = c
          BY <2>1, <3>2, <4>1, OnKept
        <5>2. DelFd
          BY <5>1, Movers
        <5> QED BY <1>2, <2>1, <5>1, <5>2 DEF DelFd, DataOK
      <4> QED BY <4>1
    <3> QED BY <3>1, <3>2
  <2> QED BY <2>5, <2>6, <2>7
<1>4. CASE handlers[f] # c
  <2>1. Register /\ top.c = c /\ fdOf[c] = f
    <3>1. CASE Register
      BY <1>4, <3>1, TopConn DEF Register, At, Entering, DataOK
    <3>2. ~AddListener /\ ~DelFd /\ ~CloseListener
      BY <1>2, <1>4 DEF AddListener, DelFd, CloseListener, DataOK
    <3> QED BY <1>4, <3>1, <3>2, Registers
  <2>2. connected[c] /\ connected' = connected /\ fdOf' = fdOf
    BY <1>0, <2>1 DEF Register, At, Newcomers, Entering, connVars, fdVars
  <2>3. depth' = depth /\ frames'[depth].at = "insert" /\ frames'[depth].c = c
    BY <2>1, Going DEF Register, Labels, Callees, AcceptLabels, Now
  <2>4. On(Inserting, c)'
    BY <1>0, <2>3 DEF On, Inserting
  <2> QED BY <2>1, <2>2, <2>4
<1> QED BY <1>3, <1>4

LEMMA TabledInvariance ==
  ASSUME DataOK, Structure, Nesting, Fresh, Newcomers, ClosedOnce, Registered, Tabled, Owned, Listening,
         Swept, [Next]_vars
  PROVE  Tabled'
<1>0. /\ depth \in Nat /\ depth >= 1 /\ top = frames[depth] /\ depth \in 1..depth
      /\ top.at \in MainLabels <=> depth = 1
  BY TopIs
<1> SUFFICES ASSUME NEW f \in Fds, NEW c \in Conns, table'[f] = c
             PROVE  /\ fdOf'[c] = f
                    /\ IF connected'[c] THEN handlers'[f] = c ELSE On({"del"} \cup Leaving, c)'
  BY DEF Tabled
<1>2. None \notin Conns /\ None \notin Fds /\ "listen" \notin Conns
  BY NoNames
<1>3. CASE table[f] = c
  <2>1. fdOf[c] = f /\ (IF connected[c] THEN handlers[f] = c ELSE On({"del"} \cup Leaving, c)) /\ c \in InTable
    BY <1>3, TablesInRange DEF Tabled
  <2>2. ~(top.at = "closeAgain" /\ top.c = c)
    BY <1>0, <2>1 DEF Newcomers, Entering
  <2>3. ~(top.at = "closeFd" /\ top.c = c)
    <3>1. ASSUME top.at = "closeFd", top.c = c PROVE FALSE
      <4>1. ~connected[c] /\ \A k \in 1..depth : frames[k].at \in Body /\ frames[k].c = c => k = depth
        BY <1>0, <3>1 DEF ClosedOnce, Body
      <4>2. On({"del"} \cup Leaving, c)
        BY <2>1, <4>1
      <4> QED BY <1>0, <3>1, <4>1, <4>2 DEF On, Body, Leaving, Parting
    <3> QED BY <3>1
  <2>4. fdOf'[c] = f
    BY <1>2, <2>1, <2>2, <2>3, FdKept
  <2>5. ASSUME connected'[c]
        PROVE  handlers'[f] = c
    <3>1. connected[c] /\ handlers[f] = c
      BY <2>1, <2>5, Disconnected DEF DataOK
    <3>2. CASE AddListener
      <4>1. depth = 1
        BY <1>0, <3>2 DEF AddListener, At, MainLabels
      <4>2. owner[f] = c
        BY <1>0, <1>2, <2>1, <4>1, OneCloseAgain DEF Owned, On, Some
      <4>3. f # listenFd
        BY <1>2, <4>2 DEF Listening
      <4> QED BY <3>1, <3>2, <4>3 DEF AddListener, DataOK
    <3>3. CASE Register
      <4>1. top.c \in Conns /\ top.c # c
        BY <1>0, <2>1, <3>3, TopConn DEF Register, At, Entering, Newcomers
      <4>2. fdOf[top.c] # f
        BY <1>2, <2>1, <4>1, Distinct
      <4> QED BY <3>1, <3>3, <4>2 DEF Register, DataOK
    <3>4. CASE DelFd
      <4>1. top.c \in Conns /\ top.c # c
        BY <1>0, <3>1, <3>4, TopConn DEF DelFd, At, CloseLabels, ClosedOnce, Body
      <4>2. fdOf[top.c] # f
        BY <1>2, <2>1, <4>1, Distinct
      <4> QED BY <3>1, <3>4, <4>2 DEF DelFd, DataOK
    <3>5. CASE CloseListener
      <4>1. owner[f] # "listen"
        BY <1>2, <2>1 DEF Owned
      <4>2. f # listenFd
        BY <1>2, <4>1 DEF Listening
      <4> QED BY <3>1, <3>5, <4>2 DEF CloseListener
    <3> QED BY <3>1, <3>2, <3>3, <3>4, <3>5, Registers
  <2>6. ASSUME ~connected'[c]
        PROVE  On({"del"} \cup Leaving, c)'
    <3>1. CASE connected[c]
      BY <2>6, <3>1, CasLeads DEF On
    <3>2. CASE ~connected[c]
      <4>1. ASSUME ~On({"del"} \cup Leaving, c)' PROVE FALSE
        <5>1. /\ MainThread /\ Moved /\ top.at \in {"del"} \cup Leaving /\ top.c = c
              /\ depth' >= depth => ~(frames'[depth].at \in {"del"} \cup Leaving /\ frames'[depth].c = c)
          BY <2>1, <3>2, <4>1, OnKept
        <5>2. top.at = "removing"
          BY <1>0, <5>1
          DEF Moved, Leaving, Parting, Left, Ends, Turned, Turns, Renewed, CalledOne, CallsMade
        <5>3. RemoveConnection
          BY <5>1, <5>2, Movers
        <5> QED BY <1>2, <2>1, <5>1, <5>3 DEF RemoveConnection, DataOK
      <4> QED BY <4>1
    <3> QED BY <3>1, <3>2
  <2> QED BY <2>4, <2>5, <2>6
<1>4. CASE table[f] # c
  <2>1. Insert /\ top.c = c /\ fdOf[c] = f
    <3>1. CASE Insert
      BY <1>4, <3>1, TopConn DEF Insert, At, Entering, DataOK
    <3>2. ~RemoveConnection /\ ~Clear
      BY <1>2, <1>4 DEF RemoveConnection, Clear, DataOK
    <3>3. ~Destroy
      BY <1>2, <1>4 DEF Destroy, regVars
    <3> QED BY <1>4, <3>1, <3>2, <3>3, Registers
  <2>2. connected[c] /\ handlers[f] = c
    BY <1>0, <2>1 DEF Insert, At, Newcomers, Entering, Inserting
  <2> QED BY <2>1, <2>2 DEF Insert, connVars, fdVars
<1> QED BY <1>3, <1>4

\* At the end nothing is left to do.
LEMMA AtDestroy ==
  ASSUME Structure, Nesting, Stopping, Halting, top.at \in {"destroy", "destroyed"}
  PROVE  /\ depth = 1 /\ stopped /\ poolDown /\ tasks = <<>> /\ \A w \in Workers : worker[w] = Idle
         /\ \A L \in SUBSET (Labels \ MainLabels) : ~Some(L)
<1>0. /\ depth \in Nat /\ depth >= 1 /\ top = frames[depth] /\ depth \in 1..depth
      /\ top.at \in MainLabels <=> depth = 1
  BY TopIs
<1>1. depth = 1 /\ \A L \in SUBSET (Labels \ MainLabels) : ~Some(L)
  BY <1>0 DEF MainLabels, Some
<1>2. StopBody \in SUBSET (Labels \ MainLabels) /\ {"join"} \in SUBSET (Labels \ MainLabels)
  BY DEF StopBody, StopLabels, Labels, MainLabels
<1>3. stopped
  BY <1>0, <1>1 DEF Halting
<1> QED BY <1>1, <1>2, <1>3 DEF Stopping

\* A session of a connection that is being closed is ended by the close.
LEMMA LoggedInLasts ==
  ASSUME DataOK, Structure, [Next]_vars, NEW c \in Conns, loggedIn[c], loggedIn'[c],
         On(Parting \cup {"del"}, c)
  PROVE  On(Parting \cup {"del"}, c)'
<1>0. depth \in Nat /\ depth >= 1 /\ top = frames[depth]
  BY TopIs
<1>1. ASSUME ~On(Parting \cup {"del"}, c)' PROVE FALSE
  <2>1. /\ MainThread /\ Moved /\ top.at \in Parting \cup {"del"} /\ top.c = c
        /\ depth' >= depth => ~(frames'[depth].at \in Parting \cup {"del"} /\ frames'[depth].c = c)
    BY <1>1, OnKept
  <2>2. top.at \in {"logout", "sends"} /\ depth' = depth /\ frames'[depth].at = "remove"
    BY <1>0, <2>1 DEF Moved, Parting, Left, Ends, Turned, Turns, Renewed, CalledOne, CallsMade
  <2>3. CASE top.at = "logout"
    BY <2>1, <2>2, <2>3, Movers, LoggingOut
  <2>4. CASE top.at = "sends"
    <3>1. FarewellSent \/ \E d \in Conns : FarewellTo(d)
      BY <2>1, <2>4, Movers
    <3>2. FarewellSent
      BY <2>2, <3>1, Parted
    <3>3. loggedIn' = [loggedIn EXCEPT ![c] = FALSE]
      BY <2>1, <2>2, <3>2, PartedFromAll
    <3> QED BY <3>3 DEF DataOK
  <2> QED BY <2>2, <2>3, <2>4
<1> QED BY <1>1

LEMMA UsersInvariance ==
  ASSUME DataOK, Structure, Nesting, Newcomers, ClosedOnce, Registered, Tabled, Owned, Swept, Users,
         Stopping, Halting, [Next]_vars
  PROVE  Users'
<1>0. /\ depth \in Nat /\ depth >= 1 /\ top = frames[depth] /\ depth \in 1..depth
      /\ top.at \in MainLabels <=> depth = 1
  BY TopIs
<1>1. \A c \in Conns : connected'[c] => connected[c]
  BY Disconnected DEF DataOK
<1>2. CASE Destroy
  <2>1. /\ depth = 1 /\ poolDown /\ tasks = <<>> /\ (\A w \in Workers : worker[w] = Idle)
        /\ \A L \in SUBSET (Labels \ MainLabels) : ~Some(L)
    BY <1>2, AtDestroy DEF Destroy, At
  <2>2. tasks' = tasks /\ worker' = worker /\ loggedIn' = loggedIn /\ connected' = connected
    BY <1>2 DEF Destroy, jobVars, connVars
  <2>3. \A h \in 1..depth' : frames'[h].at \in MainLabels
    <3>1. depth' = 1
      BY <1>2, <2>1, Going, Staying DEF Destroy, Labels, MainLabels
    <3> QED BY <3>1, MainFrame
  <2>4. ASSUME NEW c \in Conns PROVE ~loggedIn[c]
    <3>1. Parting \cup {"del"} \in SUBSET (Labels \ MainLabels)
      BY DEF Parting, Labels, MainLabels, CloseLabels
    <3>2. ~On(Parting \cup {"del"}, c)
      BY <2>1, <3>1 DEF Some, On
    <3> QED BY <2>1, <3>2 DEF Users
  <2>5. \A h \in 1..depth' : frames'[h].at \notin ReadLabels
    BY <2>3 DEF MainLabels, ReadLabels
  <2>6. Len(tasks') = 0
    BY <2>1, <2>2
  <2> QED BY <2>1, <2>2, <2>4, <2>5, <2>6 DEF Users, Idle
<1>3. CASE ~Destroy
  <2>1. ASSUME NEW c \in InTable, connected'[c] PROVE c \in InTable'
    <3>1. c \in Conns /\ \E f \in Fds : table[f] = c
      BY TablesInRange
    <3>2. \E f \in Fds : table'[f] = c
      BY <1>1, <1>3, <2>1, <3>1, TableKept
    <3> QED BY <3>1, <3>2, NoNames DEF InTable
  <2>2. ASSUME NEW h \in 1..depth', frames'[h].at \in ReadLabels, connected'[frames'[h].c]
        PROVE  frames'[h].c \in InTable'
    <3>0. frames'[h].c \in Conns
      BY <2>2, StructureInvariance DEF Structure, FrameOK
    <3>1. CASE h \in 1..depth /\ frames'[h] = frames[h]
      BY <1>1, <2>1, <2>2, <3>0, <3>1 DEF Users
    <3>2. CASE h = depth /\ MainThread /\ (Turned \/ Renewed \/ CalledOne)
      <4>1. top.at \in ReadLabels /\ frames'[h].c = top.c
        BY <2>2, <3>2 DEF Turned, Turns, Renewed, CalledOne, CallsMade, ReadLabels
      <4> QED BY <1>0, <1>1, <2>1, <2>2, <3>0, <4>1 DEF Users
    <3>3. CASE h = depth + 1 /\ depth' = depth + 1
      <4>1. /\ top.at \in {"dispatch", "thenWrite"} /\ depth = 1
            /\ \E f \in Fds : handlers[f] = frames'[h].c
        BY <2>2, <3>3, CalledBy DEF ReadLabels
      <4>2. PICK f \in Fds : handlers[f] = frames'[h].c
        BY <4>1
      <4>3. frames[1].at # "destroyed" /\ connected[frames'[h].c]
        BY <1>0, <1>1, <2>2, <3>0, <4>1
      <4>4. table[f] = frames'[h].c \/ \E k \in 1..depth : frames[k].at \in Inserting
        BY <3>0, <4>2, <4>3 DEF Registered, On
      <4>5. \A k \in 1..depth : frames[k].at \notin Inserting
        BY <1>0, <4>1 DEF Inserting
      <4>6. frames'[h].c \in InTable
        BY <3>0, <4>4, <4>5, TablesInRange DEF On
      <4> QED BY <2>1, <2>2, <4>6
    <3> QED BY <3>1, <3>2, <3>3, Origin
  <2>3. ASSUME NEW i \in 1..Len(tasks'), connected'[tasks'[i]]
        PROVE  tasks'[i] \in InTable'
    <3>1. CASE PushTask
      <4>1. top.at = "pushing" /\ tasks' = Append(tasks, top.c) /\ top.c \in Conns
        BY <3>1, TopConn DEF PushTask, At, ReadLabels
      <4>2. tasks \in Seq(Conns)
        BY DEF DataOK
      <4>3. (i \in 1..Len(tasks) /\ tasks'[i] = tasks[i]) \/ tasks'[i] = top.c
        BY <2>3, <4>1, <4>2
      <4>4. CASE i \in 1..Len(tasks) /\ tasks'[i] = tasks[i]
        <5>1. tasks[i] \in Conns
          BY <4>2, <4>4
        <5> QED BY <1>1, <2>1, <2>3, <4>4, <5>1 DEF Users
      <4>5. CASE tasks'[i] = top.c
        BY <1>0, <1>1, <2>1, <2>3, <4>1, <4>5 DEF Users, ReadLabels
      <4> QED BY <4>3, <4>4, <4>5
    <3>2. CASE ~PushTask
      <4>1. tasks \in Seq(Conns)
        BY DEF DataOK
      <4>2. \E j \in 1..Len(tasks) : tasks'[i] = tasks[j]
        BY <2>3, <3>2, <4>1, Work, Shrinking
      <4>3. PICK j \in 1..Len(tasks) : tasks'[i] = tasks[j]
        BY <4>2
      <4>4. tasks[j] \in Conns
        BY <4>1
      <4> QED BY <1>1, <2>1, <2>3, <4>3, <4>4 DEF Users
    <3> QED BY <3>1, <3>2
  <2>4. ASSUME NEW w \in Workers, worker'[w].at = "acquire"
        PROVE  worker'[w].c \in Conns /\ (connected'[worker'[w].c] => worker'[w].c \in InTable')
    <3>1. CASE worker'[w] = worker[w]
      BY <1>1, <2>1, <2>4, <3>1 DEF Users
    <3>2. CASE worker'[w] # worker[w]
      <4>1. PICK v \in Workers : Worker(v)
        BY <3>2, Work
      <4>2. connected' = connected /\ table' = table
        BY <4>1 DEF Worker, regVars
      <4>3. ASSUME Login(v) PROVE FALSE
        <5>1. Do(v, [Idle EXCEPT !.at = "spread"]) /\ [Idle EXCEPT !.at = "spread"].at = "spread"
          BY <4>3 DEF Login, Idle
        <5> QED BY <2>4, <3>2, <5>1 DEF Do, DataOK
      <4>4. ASSUME Broadcast(v) PROVE FALSE
        <5>1. \/ Do(v, Idle)
              \/ worker[v].at = "spread" /\ \E d \in InTable : Do(v, [worker[v] EXCEPT !.at = "send", !.to = d])
          BY <4>4 DEF Broadcast
        <5>2. Idle.at = "idle" /\ worker[v] \in Jobs
              /\ \A d \in InTable : [worker[v] EXCEPT !.at = "send", !.to = d].at = "send"
          BY DEF Idle, DataOK, Jobs
        <5> QED BY <2>4, <3>2, <5>1, <5>2 DEF Do, DataOK
      <4>5. TakeTask(v)
        BY <4>1, <4>3, <4>4 DEF Worker
      <4>6. connected[Head(tasks)] /\ worker'[w].c = Head(tasks) /\ tasks # <<>>
        <5>1. \/ connected[Head(tasks)] /\ Do(v, [Idle EXCEPT !.at = "acquire", !.c = Head(tasks)])
              \/ Do(v, [Idle EXCEPT !.at = "spread"]) \/ Do(v, Idle)
          BY <4>5 DEF TakeTask
        <5>2. /\ [Idle EXCEPT !.at = "acquire", !.c = Head(tasks)].c = Head(tasks)
              /\ [Idle EXCEPT !.at = "spread"].at = "spread" /\ Idle.at = "idle"
          BY DEF Idle
        <5> QED BY <2>4, <3>2, <4>5, <5>1, <5>2 DEF Do, DataOK, TakeTask
      <4>7. Head(tasks) \in Conns /\ Head(tasks) = tasks[1] /\ 1 \in 1..Len(tasks)
        BY <4>6 DEF DataOK
      <4> QED BY <4>2, <4>6, <4>7 DEF Users, InTable
    <3> QED BY <3>1, <3>2
  <2>5. ASSUME NEW c \in Conns, loggedIn'[c]
        PROVE  IF connected'[c] THEN c \in InTable' /\ ~poolDown' ELSE On(Parting \cup {"del"}, c)'
    <3>1. CASE loggedIn[c]
      <4>1. IF connected[c] THEN c \in InTable /\ ~poolDown ELSE On(Parting \cup {"del"}, c)
        BY <3>1 DEF Users
      <4>2. CASE connected'[c]
        <5>1. connected[c] /\ c \in InTable /\ ~poolDown
          BY <1>1, <4>1, <4>2
        <5>2. ~ShutPool
          <6>1. top.at \notin {"shutdown", "join"}
            BY <1>0, <5>1 DEF Swept
          <6> QED BY <6>1 DEF ShutPool, At
        <5> QED BY <2>1, <4>2, <5>1, <5>2, Flags
      <4>3. CASE ~connected'[c] /\ connected[c]
        BY <4>3, CasLeads DEF On
      <4>4. CASE ~connected'[c] /\ ~connected[c]
        BY <2>5, <3>1, <4>1, <4>4, LoggedInLasts
      <4> QED BY <4>2, <4>3, <4>4
    <3>2. CASE ~loggedIn[c]
      <4>1. ~FarewellSent
        BY <2>5, <3>2, PartedFromAll DEF DataOK
      <4>2. PICK v \in Workers : Worker(v)
        BY <2>5, <3>2, <4>1, Connections
      <4>3. Login(v) /\ connected' = connected /\ table' = table /\ poolDown' = poolDown
        BY <2>5, <3>2, <4>2 DEF Worker, TakeTask, Broadcast, regVars, flagVars
      <4>4. /\ worker[v].at = "acquire"
            /\ loggedIn' = [loggedIn EXCEPT ![worker[v].c] = @ \/ connected[worker[v].c]]
        BY <4>3 DEF Login
      <4>5. c = worker[v].c /\ connected[c] /\ c \in InTable
        BY <2>5, <3>2, <4>4 DEF DataOK, Users
      <4>6. ~poolDown
        <5>1. ASSUME poolDown PROVE FALSE
          <6>1. worker[v] # Idle
            BY <4>4 DEF Idle
          <6>2. Some({"join"})
            BY <5>1, <6>1 DEF Stopping
          <6> QED BY <4>5, <6>2 DEF Some, Swept
        <5> QED BY <5>1
      <4> QED BY <4>3, <4>5, <4>6 DEF InTable
    <3> QED BY <3>1, <3>2
  <2> QED BY <2>2, <2>3, <2>4, <2>5 DEF Users
<1> QED BY <1>2, <1>3

\* The same for the running activation after a step.
LEMMA TopNext ==
  ASSUME DataOK, Structure, [Next]_vars
  PROVE  top' = frames'[depth'] /\ depth' \in Nat /\ depth' >= 1
<1>1. stack' \in Seq(AnyFrame) /\ Len(stack') >= 1 /\ Len(stack') \in Nat
  BY StructureInvariance DEF Structure, depth
<1> QED BY <1>1 DEF top, frames, depth

\* While the server runs, what the loop has still to dispatch is registered and
\* nobody is busy with it.
LEMMA ReportedInvariance ==
  ASSUME DataOK, Structure, Nesting, Fresh, Newcomers, Registered, Owned, Listening, Reported, [Next]_vars
  PROVE  Reported'
<1>0. /\ depth \in Nat /\ depth >= 1 /\ top = frames[depth] /\ depth \in 1..depth
      /\ top.at \in MainLabels <=> depth = 1
  BY TopIs
<1> SUFFICES ASSUME ~stopped', frames'[1].at \in {"dispatch", "thenWrite"}, NEW g \in frames'[1].todo
             PROVE  /\ handlers'[g] # None /\ owner'[g] = handlers'[g] /\ frames'[1].to # handlers'[g]
                    /\ \A h \in 1..depth' : frames'[h].c # handlers'[g]
  BY DEF Reported
<1>1. ~stopped /\ g \in Fds
  <2>1. FrameOK(frames'[1]) /\ frames'[1].at \in MainLabels
    BY MainFrame, StructureInvariance DEF Structure
  <2>2. frames'[1].todo \subseteq Fds
    BY <2>1 DEF FrameOK
  <2>3. ~stopped
    BY Flags DEF StopBegin
  <2> QED BY <2>2, <2>3
<1>2. /\ None \notin Conns /\ None \notin Fds /\ "listen" \notin Conns /\ Reasons \cap Conns = {}
      /\ None \notin Reasons /\ "listen" \notin Reasons /\ None # "listen" /\ None \notin {"free", "db"}
      /\ {"free", "db"} \cap Conns = {}
  BY NoNames DEF Reasons
<1> DEFINE Busy(x) == /\ x # None /\ owner[g] = x /\ handlers[g] = x /\ frames[1].to # x
                      /\ \A h \in 1..depth : frames[h].c # x
<1>3. ASSUME NEW x, x = handlers[g], frames[1].at \in {"dispatch", "thenWrite"}, g \in frames[1].todo
      PROVE  Busy(x) /\ x \in Conns \cup {"listen"}
  BY <1>1, <1>3 DEF Reported, DataOK
<1>4. CASE MainThread /\ depth = 1
  <2>1. top = frames[1] /\ top.at \in {"wait", "dispatch", "thenWrite"}
    BY <1>0, <1>4, MainFrame DEF Turns, CallsMade
  <2>2. CASE top.at = "wait"
    <3>1. EpollWait
      BY <1>4, <2>2, Movers
    <3>2. depth' = 1 /\ Now(1, "dispatch", None, {f \in Fds : handlers[f] # None}, None)
      BY <3>1, Polling DEF Now
    <3>3. handlers' = handlers /\ owner' = owner
      BY <3>1 DEF EpollWait, dataVars, regVars, fdVars
    <3>4. handlers[g] # None
      BY <3>2 DEF Now
    <3>5. CASE handlers[g] = "listen"
      <4>1. owner[g] = "listen"
        BY <1>1, <1>2, <3>5 DEF Listening
      <4> QED BY <1>2, <3>2, <3>3, <3>4, <3>5, <4>1 DEF Now
    <3>6. CASE handlers[g] \in Conns
      <4>1. fdOf[handlers[g]] = g
        BY <1>1, <2>1, <2>2, <3>6 DEF Registered
      <4>2. owner[g] = handlers[g]
        BY <1>1, <1>2, <2>2, <3>6, <4>1, OneCloseAgain DEF Owned, On, Some, MainLabels
      <4> QED BY <1>2, <3>2, <3>3, <3>4, <4>2 DEF Now
    <3> QED BY <1>1, <3>4, <3>5, <3>6 DEF DataOK
  <2>3. CASE top.at = "dispatch"
    <3>1. Dispatch
      BY <1>4, <2>3, Movers
    <3>2. handlers' = handlers /\ owner' = owner
      BY <3>1 DEF Dispatch, fdVars
    <3>3. ~Now(1, "wait", None, {}, None)
      BY DEF Now
    <3>4. depth' = 2 /\ top.todo \subseteq Fds
      BY <3>1, <3>3, Dispatching
    <3>5. PICK f \in top.todo :
             /\ frames'[1].todo = top.todo \ {f}
             /\ \/ handlers[f] = "listen" /\ Reports
                \/ handlers[f] \in Conns /\ Calls(handlers[f])
      BY <3>1, <3>3, Dispatching
    <3>6. Busy(handlers[g]) /\ handlers[g] \in Conns \cup {"listen"} /\ g # f
      BY <1>3, <2>1, <2>3, <3>5
    <3>7. \A h \in 1..depth' : h = 1 \/ h = 2
      BY <3>4
    <3>8. CASE Reports
      BY <1>2, <3>2, <3>6, <3>7, <3>8 DEF Reports, Now, Reasons
    <3>9. CASE handlers[f] \in Conns /\ Calls(handlers[f])
      <4>1. handlers[g] # handlers[f]
        BY <1>1, <2>1, <2>3, <3>4, <3>6, <3>9 DEF Registered
      <4>2. frames'[1].to \in {None, handlers[f]} /\ frames'[1].c = None /\ frames'[2].c = handlers[f]
        BY <3>9 DEF Calls, Now
      <4> QED BY <3>2, <3>6, <3>7, <4>1, <4>2
    <3> QED BY <3>5, <3>8, <3>9
  <2>4. CASE top.at = "thenWrite"
    <3>1. ThenWrite
      BY <1>4, <2>4, Movers
    <3>2. handlers' = handlers /\ owner' = owner
      BY <3>1 DEF ThenWrite, regVars, fdVars
    <3>3. /\ Now(1, "dispatch", None, top.todo, None)
          /\ (depth' = 2 /\ Now(2, "write", top.to, {}, None)) \/ depth' = 1
      BY <3>1, ThenWriting
    <3>4. frames'[1].todo = top.todo /\ frames'[1].c = None /\ frames'[1].to = None
          /\ \A h \in 1..depth' : h = 1 \/ (h = 2 /\ frames'[2].c = top.to)
      BY <3>3 DEF Now
    <3>5. Busy(handlers[g])
      BY <1>3, <2>1, <2>4, <3>4
    <3> QED BY <2>1, <3>2, <3>4, <3>5
  <2> QED BY <2>1, <2>2, <2>3, <2>4
<1>5. CASE ~(MainThread /\ depth = 1)
  <2>1. frames'[1] = frames[1]
    BY <1>5, MainFrame
  <2>2. PICK x \in Conns \cup {"listen"} : Busy(x)
    BY <1>3, <2>1
  <2>3. ~(top.c = x) /\ \A d \in Conns : fdOf[d] = g => d = x
    <3>1. top.c # x
      BY <1>0, <2>2
    <3>2. ASSUME NEW d \in Conns, fdOf[d] = g PROVE d = x
      BY <1>1, <1>2, <2>2, <3>2 DEF Owned
    <3> QED BY <3>1, <3>2
  <2>4. top.at \in MainLabels => ~MainThread
    BY <1>0, <1>5
  <2>5. \A h \in 1..depth : frames[h].at \notin StopBody
    BY <1>1 DEF Nesting
  <2>6. handlers'[g] = x
    <3>1. ~AddListener
      BY <2>4 DEF AddListener, MainThread, Main, At, MainLabels
    <3>2. ~CloseListener
      BY <1>0, <2>5 DEF CloseListener, At, StopBody, StopLabels
    <3>3. CASE Register \/ DelFd
      <4>1. top.c \in Conns /\ fdOf[top.c] # g
        BY <2>3, <3>3, TopConn DEF Register, DelFd, At, Entering, CloseLabels
      <4> QED BY <1>1, <2>2, <3>3, <4>1 DEF Register, DelFd, DataOK
    <3> QED BY <2>2, <3>1, <3>2, <3>3, Registers
  <2>7. owner'[g] = x
    <3>1. ~InitListenSocket
      BY <2>4 DEF InitListenSocket, MainThread, Main, At, MainLabels
    <3>2. ~CloseListener
      BY <1>0, <2>5 DEF CloseListener, At, StopBody, StopLabels
    <3>3. CASE Accept
      BY <1>1, <1>2, <2>2, <3>3, Accepting DEF DataOK
    <3>4. CASE RegisterFails \/ CloseAgain \/ CloseFd
      <4>1. top.c \in Conns /\ fdOf[top.c] # g
        BY <2>3, <3>4, TopConn DEF RegisterFails, CloseAgain, CloseFd, At, Entering, CloseLabels
      <4> QED BY <1>1, <2>2, <3>4, <4>1 DEF RegisterFails, CloseAgain, CloseFd, CloseAs, DataOK
    <3>5. ASSUME NEW d \in Conns, DestroyConnection(d) PROVE owner'[g] = x
      <4>1. d \notin InTable /\ \A h \in 1..depth : frames[h].c # d
        BY <3>5, Unreferenced DEF DestroyConnection
      <4>2. d # x
        <5>1. ASSUME d = x PROVE FALSE
          <6>1. frames[1].at # "destroyed"
            BY <2>1
          <6>2. (IF connected[d] THEN table[g] = d \/ On(Inserting, d) ELSE On({"del"}, d))
            BY <1>1, <2>2, <5>1, <6>1 DEF Registered
          <6> QED BY <1>1, <4>1, <6>2, TablesInRange DEF On
        <5> QED BY <5>1
      <4> QED BY <1>1, <2>2, <2>3, <3>5, <4>2 DEF DestroyConnection, CloseAs, DataOK
    <3>6. CASE Redial
      <4>1. \/ owner' = [f \in Fds |-> IF owner[f] = "db" THEN "free" ELSE owner[f]]
            \/ \E f \in Fds : owner[f] = "free" /\ owner' = [owner EXCEPT ![f] = "db"]
        BY <3>6, LeastFree DEF Redial
      <4> QED BY <1>1, <1>2, <2>2, <4>1 DEF DataOK
    <3> QED BY <2>2, <3>1, <3>2, <3>3, <3>4, <3>5, <3>6, Descriptors
  <2>8. ASSUME NEW h \in 1..depth'
        PROVE  frames'[h].c # x
    <3>1. CASE h = depth /\ (Turned \/ CalledOne)
      BY <1>0, <2>2, <3>1 DEF Turned, CalledOne
    <3>2. CASE h = depth /\ MainThread /\ Renewed
      <4>1. CASE Accept
        <5>1. PICK d \in Conns : client[d] = "waiting" /\ frames'[depth].c = d
          BY <4>1, Accepting DEF Now
        <5>2. fdOf[d] = None
          BY <5>1 DEF Fresh
        <5>3. d # x
          <6>1. ASSUME d = x PROVE FALSE
            BY <1>1, <1>2, <2>1, <2>2, <5>1, <5>2, <6>1 DEF Registered
          <6> QED BY <6>1
        <5> QED BY <3>2, <5>1, <5>3
      <4> QED BY <1>2, <2>2, <3>2, <4>1, RenewedBy
    <3>3. CASE h = depth + 1 /\ depth' = depth + 1 /\ MainThread /\ Moved /\ CalledOne
      <4>1. top.at # "closeAll"
        BY <1>0, <2>5 DEF StopBody, StopLabels
      <4>2. depth # 1
        BY <1>5, <3>3
      <4> QED BY <1>2, <2>2, <2>3, <3>3, <4>1, <4>2, CalledBy
    <3>4. CASE Now(h, "stop", "signal", {}, None)
      BY <1>2, <2>2, <3>4 DEF Now, Reasons
    <3> QED BY <2>2, <3>1, <3>2, <3>3, <3>4, Origin
  <2> QED BY <2>1, <2>2, <2>6, <2>7, <2>8
<1> QED BY <1>4, <1>5

LEMMA ApartInvariance ==
  ASSUME DataOK, Structure, Nesting, Fresh, Newcomers, Owned, Halting, Reported, Apart, [Next]_vars
  PROVE  Apart'
<1>0. /\ depth \in Nat /\ depth >= 1 /\ top = frames[depth] /\ depth \in 1..depth
      /\ top.at \in MainLabels <=> depth = 1
  BY TopIs
<1> DEFINE In == {"register", "insert", "inserting"}
<1> SUFFICES ASSUME hit' # "initReactor", NEW h \in 1..depth', frames'[h].at \in In
             PROVE  fdOf'[frames'[h].c] \notin frames'[1].todo
  BY DEF Apart, Entering
<1>1. hit # "initReactor"
  BY <1>0, Flags DEF Signal, Halting
<1>2. \A k \in 1..depth : frames[k].at \in Callees => k = 2 /\ depth >= 2 /\ frames[1].at \in {"dispatch", "thenWrite"}
  BY Positions
<1>3. ASSUME NEW k \in 1..depth, frames[k].at \in In, NEW c \in Conns, c = frames[k].c
      PROVE  fdOf'[c] = fdOf[c] /\ fdOf[c] \notin frames[1].todo /\ frames'[1] = frames[1]
  <2>1. fdOf[c] \in Fds /\ \A j \in 1..depth : frames[j].c = c => j = k
    BY <1>3 DEF Newcomers, Entering
  <2>2. top.c = c => top.at \in In
    BY <1>0, <1>3, <2>1
  <2>3. fdOf'[c] = fdOf[c]
    BY <1>3, <2>1, <2>2, FdKept, NoNames
  <2>4. fdOf[c] \notin frames[1].todo
    BY <1>1, <1>3 DEF Apart, Entering
  <2>5. depth >= 2
    BY <1>2, <1>3 DEF Callees, AcceptLabels
  <2> QED BY <2>3, <2>4, <2>5, MainFrame
<1>4. \A k \in 1..depth : frames[k].at \in In => frames[k].c \in Conns
  BY DEF Structure, FrameOK, Entering
<1>5. CASE h \in 1..depth /\ frames'[h] = frames[h]
  BY <1>3, <1>4, <1>5
<1>6. CASE h = depth /\ MainThread /\ Turned
  <2>1. top.at \in In /\ frames'[h].c = top.c
    BY <1>6 DEF Turned, Turns
  <2> QED BY <1>0, <1>3, <1>4, <2>1
<1>7. CASE h = depth /\ MainThread /\ Renewed
  <2>1. Accept
    BY <1>7, RenewedBy
  <2>2. PICK d \in Conns, f \in Fds :
           /\ owner[f] = "free" /\ listenFd # None /\ top.at = "accept" /\ frames'[depth].c = d
           /\ fdOf' = [fdOf EXCEPT ![d] = f]
    BY <2>1, Accepting DEF Now
  <2>3. fdOf'[d] = f
    BY <2>2 DEF DataOK
  <2>4. depth = 2 /\ frames[1].at \in {"dispatch", "thenWrite"}
    BY <1>0, <1>2, <2>2 DEF Callees, AcceptLabels
  <2>5. f \notin frames[1].todo
    <3>1. CASE ~stopped
      <4>1. ASSUME f \in frames[1].todo PROVE FALSE
        <5>1. owner[f] = handlers[f] /\ handlers[f] # None
          BY <2>4, <3>1, <4>1 DEF Reported
        <5> QED BY <2>2, <5>1, NoNames DEF DataOK
      <4> QED BY <4>1
    <3>2. CASE stopped
      <4>1. ~Some({"copy", "closeAll", "clear", "closeListen"})
        <5>1. \A k \in 1..depth : k = 1 \/ k = depth
          BY <2>4
        <5> QED BY <1>0, <2>2, <2>4, <5>1 DEF Some
      <4>2. hit = "initListen"
        BY <1>1, <2>2, <3>2, <4>1 DEF Halting
      <4> QED BY <2>4, <3>2, <4>2 DEF Halting
    <3> QED BY <3>1, <3>2
  <2> QED BY <1>7, <2>2, <2>3, <2>4, <2>5, MainFrame
<1>8. ~(h = depth /\ CalledOne) /\ ~(h = depth + 1 /\ CalledOne)
  BY DEF CalledOne, CallsMade
<1>9. ~Now(h, "stop", "signal", {}, None)
  BY DEF Now
<1> QED BY <1>5, <1>6, <1>7, <1>8, <1>9, Origin

\* What the loop has still to dispatch, after a step.
LEMMA TodoKept ==
  ASSUME DataOK, Structure, [Next]_vars, stopped, ~running \/ hit = "initReactor", hit # "initReactor",
         frames'[1].at \in {"dispatch", "thenWrite"}, NEW g \in frames'[1].todo
  PROVE  frames[1].at \in {"dispatch", "thenWrite"} /\ g \in frames[1].todo
<1>0. /\ depth \in Nat /\ depth >= 1 /\ top = frames[depth] /\ depth \in 1..depth
      /\ top.at \in MainLabels <=> depth = 1
  BY TopIs
<1>1. CASE frames'[1] = frames[1]
  BY <1>1
<1>2. CASE frames'[1] # frames[1]
  <2>1. /\ depth = 1 /\ MainThread /\ top = frames[1]
        /\ top.at \in {"wait", "dispatch", "thenWrite"}
    BY <1>2, MainFrame DEF Turns, CallsMade
  <2>2. CASE top.at = "wait"
    <3>1. frames'[1].at = "exit"
      BY <2>1, <2>2, Movers, Polling DEF Now
    <3> QED BY <3>1
  <2>3. CASE top.at = "dispatch"
    <3>1. frames'[1].todo \subseteq top.todo
      BY <2>1, <2>3, Movers, Dispatching DEF Now
    <3> QED BY <2>1, <2>3, <3>1
  <2>4. CASE top.at = "thenWrite"
    <3>1. frames'[1].todo = top.todo
      BY <2>1, <2>4, Movers, ThenWriting DEF Now
    <3> QED BY <2>1, <2>4, <3>1
  <2> QED BY <2>1, <2>2, <2>3, <2>4
<1> QED BY <1>1, <1>2

\* When the pool has gone down nobody reads, but for one whom the signal has
\* interrupted.
LEMMA RefusedStill ==
  ASSUME DataOK, Structure, Nesting, Registered, Stopping, Halting, Apart, Refused, [Next]_vars, poolDown
  PROVE  Refused'
<1> SUFFICES ASSUME hit' # "initReactor" PROVE Refused'
  BY DEF Refused
<1>0. /\ depth \in Nat /\ depth >= 1 /\ top = frames[depth] /\ depth \in 1..depth
      /\ top.at \in MainLabels <=> depth = 1
  BY TopIs
<1>1. stopped /\ ~Signal
  BY DEF Stopping, Signal
<1>2. hit' = hit
  BY <1>1, Flags
<1>3. /\ \A h \in 1..depth : /\ frames[h].at \in {"extract", "submit"} => hit \in {"extract", "submit"}
                             /\ frames[h].at = "recv" => ~connected[frames[h].c]
      /\ frames[1].at \in {"dispatch", "thenWrite"} =>
           \A g \in frames[1].todo : handlers[g] \in Conns => On({"del"}, handlers[g])
  BY <1>2 DEF Refused
<1>4. ASSUME NEW h \in 1..depth', frames'[h].at \in {"extract", "submit"}
      PROVE  hit' \in {"extract", "submit"}
  <2>1. CASE h \in 1..depth /\ frames'[h] = frames[h]
    BY <1>2, <1>3, <1>4, <2>1
  <2>2. CASE h = depth /\ MainThread /\ (Turned \/ Renewed \/ CalledOne)
    <3>1. top.at \in {"recv", "extract", "pushing"} /\ depth' = depth
      BY <1>4, <2>2 DEF Turned, Turns, Renewed, CalledOne, CallsMade
    <3>2. CASE top.at = "recv"
      <4>1. connected[top.c]
        BY <1>0, <2>2, <3>1, <3>2, Movers, Reading
      <4> QED BY <1>0, <1>3, <3>2, <4>1
    <3>3. top.at # "pushing"
      BY <1>0 DEF Stopping, Some
    <3> QED BY <1>0, <1>2, <1>3, <3>1, <3>2, <3>3
  <2>3. CASE h = depth + 1 /\ CalledOne
    BY <1>4, <2>3 DEF CalledOne, CallsMade
  <2>4. CASE Now(h, "stop", "signal", {}, None)
    BY <1>4, <2>4 DEF Now
  <2> QED BY <1>4, <2>1, <2>2, <2>3, <2>4, Origin
<1>5. ASSUME NEW h \in 1..depth', frames'[h].at = "recv"
      PROVE  ~connected'[frames'[h].c]
  <2>1. CASE h \in 1..depth /\ frames'[h] = frames[h]
    <3>1. frames[h].c \in Conns
      BY <1>5, <2>1 DEF Structure, FrameOK, ReadLabels
    <3> QED BY <1>3, <1>5, <2>1, <3>1, Disconnected
  <2>2. CASE h = depth /\ MainThread /\ (Turned \/ Renewed \/ CalledOne)
    BY <1>5, <2>2 DEF Turned, Turns, Renewed, CalledOne, CallsMade
  <2>3. CASE h = depth + 1 /\ depth' = depth + 1 /\ MainThread /\ CalledOne
    <3>1. top.at = "dispatch" /\ depth = 1
      BY <1>0, <1>5, <2>3 DEF CalledOne, CallsMade, MainLabels
    <3>2. PICK f \in top.todo : \/ handlers[f] = "listen" /\ Reports
                                \/ handlers[f] \in Conns /\ Calls(handlers[f])
      BY <2>3, <3>1, Movers, Dispatching
    <3>3. ~Reports
      BY <1>5, <2>3, <3>1 DEF Reports, Now
    <3>4. On({"del"}, handlers[f])
      BY <1>0, <1>3, <3>1, <3>2, <3>3
    <3> QED BY <1>0, <3>1, <3>4 DEF On
  <2>4. CASE Now(h, "stop", "signal", {}, None)
    BY <1>5, <2>4 DEF Now
  <2> QED BY <1>5, <2>1, <2>2, <2>3, <2>4, Origin
<1>6. ASSUME frames'[1].at \in {"dispatch", "thenWrite"}, NEW g \in frames'[1].todo, handlers'[g] \in Conns
      PROVE  On({"del"}, handlers[g])'
  <2>1. frames[1].at \in {"dispatch", "thenWrite"} /\ g \in frames[1].todo
    BY <1>1, <1>2, <1>6, TodoKept DEF Halting
  <2>2. g \in Fds
    BY <2>1, MainFrame DEF Structure, FrameOK
  <2>3. handlers'[g] = handlers[g]
    <3>1. CASE Register
      <4>1. top.at = "register" /\ top.c \in Conns
        BY <3>1, TopConn DEF Register, At, Entering
      <4>2. fdOf[top.c] # g
        BY <1>0, <1>2, <2>1, <4>1 DEF Apart, Entering
      <4> QED BY <2>2, <3>1, <4>2 DEF Register, DataOK
    <3>2. CASE DelFd
      BY <1>6, <2>2, <3>2, NoNames DEF DelFd, DataOK
    <3>3. CASE AddListener \/ CloseListener
      BY <1>6, <2>2, <3>3, NoNames DEF AddListener, CloseListener, DataOK
    <3> QED BY <3>1, <3>2, <3>3, Registers
  <2>4. PICK c \in Conns : c = handlers[g]
    BY <1>6, <2>3
  <2>5. On({"del"}, c)
    BY <1>3, <2>1, <2>4
  <2>6. On({"del"}, c)'
    <3>1. ASSUME ~On({"del"}, c)' PROVE FALSE
      <4>1. MainThread /\ top.at = "del" /\ top.c = c
        BY <2>5, <3>1, OnKept
      <4>2. DelFd
        BY <4>1, Movers
      <4>3. fdOf[c] = g
        BY <2>1, <2>2, <2>4 DEF Registered
      <4> QED BY <1>6, <2>2, <4>1, <4>2, <4>3, NoNames DEF DelFd, DataOK
    <3> QED BY <3>1
  <2>7. handlers'[g] = c
    BY <2>3, <2>4
  <2> QED BY <2>6, <2>7 DEF On
<1> QED BY <1>4, <1>5, <1>6 DEF Refused

\* The same when the pool goes down.
LEMMA RefusedFirst ==
  ASSUME DataOK, Structure, Nesting, Registered, Users, Swept, Apart, [Next]_vars, ~poolDown, poolDown'
  PROVE  Refused'
<1> SUFFICES ASSUME hit' # "initReactor" PROVE Refused'
  BY DEF Refused
<1>0. /\ depth \in Nat /\ depth >= 1 /\ top = frames[depth] /\ depth \in 1..depth
      /\ top.at \in MainLabels <=> depth = 1
  BY TopIs
<1>1. ShutPool
  BY Flags
<1>2. top.at = "shutdown" /\ Goto("join") /\ UNCHANGED <<fdVars, connVars, regVars, jobVars, histVars>>
  BY <1>1 DEF ShutPool, At, dataVars, flagVars
<1>3. hit' = hit /\ connected' = connected /\ handlers' = handlers
  BY <1>2 DEF histVars, connVars, regVars
<1>4. depth' = depth /\ frames'[depth].at = "join" /\ \A h \in 1..(depth - 1) : frames'[h] = frames[h]
  BY <1>2, Going DEF Labels, StopLabels, SameBelow, Now
<1>5. InTable = {}
  BY <1>0, <1>2 DEF Swept
<1>6. ASSUME NEW h \in 1..depth', frames'[h].at # "join"
      PROVE  h \in 1..(depth - 1) /\ frames'[h] = frames[h]
  BY <1>0, <1>4, <1>6
<1>7. ASSUME NEW h \in 1..depth', frames'[h].at \in {"extract", "submit"}
      PROVE  hit' \in {"extract", "submit"}
  <2>1. h \in 1..(depth - 1) /\ frames[h].at \in {"extract", "submit"}
    BY <1>6, <1>7
  <2>2. h + 1 \in 2..depth /\ h + 1 \in 1..depth
    BY <1>0, <2>1
  <2>3. Called(frames[h + 1], frames[h])
    BY <2>2 DEF Nesting
  <2>4. frames[h + 1].at \in Labels \ MainLabels
    BY <2>2, AtTop DEF Structure, AnyFrame
  <2>5. frames[h + 1].at \in StopLabels
    BY <2>1, <2>3, <2>4 DEF Called, Labels, Callees
  <2> QED BY <1>3, <2>1, <2>3, <2>5 DEF Called, Place, Telling
<1>8. ASSUME NEW h \in 1..depth', frames'[h].at = "recv"
      PROVE  ~connected'[frames'[h].c]
  BY <1>3, <1>5, <1>6, <1>8, <1>0 DEF Users, ReadLabels
<1>9. ASSUME frames'[1].at \in {"dispatch", "thenWrite"}, NEW g \in frames'[1].todo, handlers'[g] \in Conns
      PROVE  On({"del"}, handlers[g])'
  <2>1. frames'[1] = frames[1]
    BY <1>6, <1>9, MainFrame
  <2>2. g \in Fds
    BY <1>9, <2>1, MainFrame DEF Structure, FrameOK
  <2>3. PICK c \in Conns : c = handlers[g]
    BY <1>3, <1>9
  <2>4. /\ fdOf[c] = g
        /\ IF connected[c] THEN table[g] = c \/ On(Inserting, c) ELSE On({"del"}, c)
    BY <1>9, <2>1, <2>2, <2>3 DEF Registered
  <2>5. table[g] # c
    BY <1>5, <2>2, <2>3, TablesInRange
  <2>6. ~On(Inserting, c)
    BY <1>3, <1>9, <2>1, <2>4 DEF Apart, On, Inserting, Entering
  <2>7. On({"del"}, c)
    BY <2>4, <2>5, <2>6
  <2>8. On({"del"}, c)'
    BY <1>2, <2>7, OnKept
  <2>9. handlers'[g] = c
    BY <1>3, <2>3
  <2> QED BY <2>8, <2>9 DEF On
<1> QED BY <1>7, <1>8, <1>9 DEF Refused

\* The two together.
LEMMA RefusedInvariance ==
  ASSUME DataOK, Structure, Nesting, Registered, Users, Swept, Stopping, Halting, Apart, Refused, [Next]_vars
  PROVE  Refused'
<1>1. CASE ~poolDown'
  BY <1>1 DEF Refused
<1>2. CASE poolDown
  BY <1>2, RefusedStill
<1>3. CASE ~poolDown /\ poolDown'
  BY <1>3, RefusedFirst
<1> QED BY <1>1, <1>2, <1>3

\* An abort of the process comes from a write callback whose handler is gone, or
\* from a frame submitted to the pool that is down.
LEMMA AbortInvariance ==
  ASSUME DataOK, Structure, Refused, AbortExplained, [Next]_vars
  PROVE  AbortExplained'
<1> SUFFICES ASSUME fate' = "aborted"
             PROVE  \/ top'.at = "dispatch"
                    \/ top'.at = "submit" /\ hit' \in {"extract", "submit", "initReactor"}
  BY DEF AbortExplained
<1>0. depth \in Nat /\ depth >= 1 /\ top = frames[depth] /\ depth \in 1..depth
  BY TopIs
<1>1. CASE fate = "aborted"
  <2>1. ~MainThread /\ ~Signal
    BY <1>1, Movers DEF Signal
  <2>2. hit' = hit /\ depth' = depth /\ frames'[depth] = frames[depth]
    BY <2>1, Below, Flags
  <2> QED BY <1>0, <1>1, <2>2, TopNext DEF AbortExplained
<1>2. CASE fate # "aborted"
  <2>1. ~Destroy
    BY <1>2 DEF Destroy, flagVars
  <2>2. CASE ThenWrite
    <3>1. depth' = 1 /\ frames'[1].at = "dispatch"
      BY <1>2, <2>2, ThenWriting DEF Now
    <3> QED BY <3>1, TopNext
  <2>3. CASE Submit
    <3>1. poolDown /\ top.at = "submit" /\ stack' = stack /\ hit' = hit
      BY <1>2, <2>3 DEF Submit, At, histVars
    <3>2. top'.at = "submit"
      BY <3>1 DEF top
    <3>3. hit \in {"extract", "submit", "initReactor"}
      BY <1>0, <3>1 DEF Refused
    <3> QED BY <3>1, <3>2, <3>3
  <2> QED BY <1>2, <2>1, <2>2, <2>3, Flags
<1> QED BY <1>1, <1>2
-----------------------------------------------------------------------------
(* The invariant, and what follows from it.                               *)

\* Every part of the invariant.
IndInv ==
  /\ DataOK /\ Structure /\ Nesting /\ Bounded /\ Fresh /\ Newcomers /\ ClosedOnce
  /\ Registered /\ Tabled /\ Owned /\ Listening /\ Swept /\ Users /\ Stopping /\ Halting
  /\ Reported /\ Apart /\ Refused /\ Noticed /\ Ended /\ OnlyOwnClosed /\ AbortExplained

\* The invariant holds at first, and every step preserves it.
LEMMA InitIndInv ==
  ASSUME Init
  PROVE  IndInv
<1> DEFINE g == Frame("initReactor", None)
<1>1. /\ g.at = "initReactor" /\ g.c = None /\ g.todo = {} /\ g.to = None /\ g \in AnyFrame
  BY DEF Frame, AnyFrame, Labels, MainLabels
<1>2. depth = 1 /\ frames[1] = g /\ \A h \in 1..depth : h = 1 /\ frames[h] = g
  <2>1. stack = <<g>> /\ Len(stack) = 1
    BY DEF Init
  <2> QED BY <2>1 DEF depth, frames
<1>3. top = g
  BY DEF Init, top
<1>4. stack \in Seq(AnyFrame)
  <2>1. stack = <<g>>
    BY DEF Init
  <2> QED BY <1>1, <2>1
<1>5. Structure
  BY <1>1, <1>2, <1>4 DEF Structure, FrameOK, MainLabels, Entering, ReadLabels, WriteLabels,
     CloseLabels, StopLabels
<1>6. DataOK
  <2>1. tasks \in Seq(Conns) /\ worker \in [Workers -> Jobs]
    BY DEF Init, Idle, Jobs
  <2> QED BY <2>1 DEF DataOK, Init, Telling
<1>7. \A f \in Fds : handlers[f] = None /\ table[f] = None /\ owner[f] = "free"
  BY DEF Init
<1>8. InTable = {}
  BY <1>7 DEF InTable
<1>9. /\ \A c \in Conns : fdOf[c] = None /\ connected[c] /\ ~loggedIn[c] /\ client[c] = "new"
      /\ \A w \in Workers : worker[w] = Idle
      /\ tasks = <<>> /\ listenFd = None /\ stopped = FALSE /\ poolDown = FALSE /\ hit = "none"
      /\ fate = "running" /\ stray = FALSE
  BY DEF Init
<1>10. Nesting /\ Swept
  BY <1>1, <1>2, <1>9 DEF Nesting, Swept, StopBody, StopLabels
<1>11. Bounded /\ Noticed /\ Ended /\ OnlyOwnClosed /\ AbortExplained /\ Reported /\ Refused
  BY <1>1, <1>2, <1>9, ServerAssumption
  DEF Bounded, Some, Noticed, Ended, OnlyOwnClosed, AbortExplained, Reported, Refused
<1>12. Fresh /\ Newcomers /\ ClosedOnce /\ Apart
  BY <1>1, <1>2, <1>9, NoNames
  DEF Fresh, Newcomers, Entering, ClosedOnce, Body, Leaving, Parting, Apart
<1>13. Registered /\ Tabled /\ Owned /\ Listening
  BY <1>1, <1>2, <1>7, <1>9, NoNames DEF Registered, Tabled, Owned, Listening
<1>14. Users /\ Stopping /\ Halting
  BY <1>1, <1>2, <1>9 DEF Users, Stopping, Halting, Some, ReadLabels, Idle
<1> QED BY <1>5, <1>6, <1>10, <1>11, <1>12, <1>13, <1>14 DEF IndInv

LEMMA NextIndInv ==
  ASSUME IndInv, [Next]_vars
  PROVE  IndInv'
<1>1. DataOK' /\ Structure' /\ Nesting' /\ Bounded' /\ ClosedOnce'
  BY DataInvariance, StructureInvariance, NestingInvariance, BoundedInvariance, ClosedOnceInvariance
  DEF IndInv
<1>2. Fresh' /\ Newcomers' /\ Registered' /\ Tabled' /\ Owned' /\ Listening'
  BY FreshInvariance, NewcomersInvariance, RegisteredInvariance, TabledInvariance, OwnedInvariance,
     ListeningInvariance DEF IndInv
<1>3. Swept' /\ Users' /\ Stopping' /\ Halting'
  BY SweptInvariance, UsersInvariance, StoppingInvariance, HaltingInvariance DEF IndInv
<1>4. Reported' /\ Apart' /\ Refused' /\ Noticed' /\ Ended'
  BY ReportedInvariance, ApartInvariance, RefusedInvariance, NoticedInvariance, EndedInvariance DEF IndInv
<1>5. OnlyOwnClosed' /\ AbortExplained'
  BY OnlyOwnInvariance, AbortInvariance DEF IndInv
<1> QED BY <1>1, <1>2, <1>3, <1>4, <1>5 DEF IndInv

\* Every reachable state satisfies the invariant.
THEOREM Invariance == Spec => []IndInv
<1>1. Init => IndInv
  BY InitIndInv
<1>2. IndInv /\ [Next]_vars => IndInv'
  BY NextIndInv
<1> QED BY <1>1, <1>2, PTL DEF Spec

\* Every variable keeps its type, and the queue its capacity; main() or the loop lies
\* at the bottom of the stack and nowhere else (loop lines 85-130).
THEOREM TypeCorrect == Spec => []TypeOK
<1>1. ASSUME IndInv PROVE TypeOK
  <2>1. DataOK /\ Structure /\ Bounded /\ Listening
    BY <1>1 DEF IndInv
  <2>2. Len(stack) \in Nat /\ Len(stack) >= 1 /\ \A i \in 1..Len(stack) : stack[i] = frames[Len(stack) + 1 - i]
    <3>1. Len(stack) \in Nat /\ Len(stack) >= 1
      BY <2>1 DEF Structure, depth
    <3>2. \A i \in 1..Len(stack) : /\ Len(stack) + 1 - i \in 1..Len(stack)
                                   /\ Len(stack) + 1 - (Len(stack) + 1 - i) = i
      BY <3>1
    <3> QED BY <3>1, <3>2 DEF frames
  <2>3. stack # <<>> /\ stack[Len(stack)].at \in MainLabels
    <3>1. stack[Len(stack)] = frames[1]
      BY <2>2
    <3> QED BY <2>1, <2>2, <3>1 DEF Structure
  <2>4. ASSUME NEW i \in 1..(Len(stack) - 1)
        PROVE  stack[i].at \in AcceptLabels \cup ReadLabels \cup WriteLabels \cup CloseLabels \cup StopLabels
    <3>1. i \in 1..Len(stack) /\ Len(stack) + 1 - i \in 2..depth
      BY <2>2 DEF depth
    <3>2. stack[i].at \notin MainLabels
      BY <2>1, <2>2, <3>1 DEF Structure
    <3>3. stack[i].at \in Labels
      <4>1. stack[i] \in AnyFrame
        BY <2>1, <3>1 DEF Structure
      <4> QED BY <4>1 DEF AnyFrame
    <3> QED BY <3>2, <3>3 DEF Labels, Callees
  <2>5. \A w \in Workers : worker[w].at \in {"idle", "acquire", "spread", "send"}
    BY <2>1 DEF DataOK, Jobs
  <2> QED BY <2>1, <2>3, <2>4, <2>5 DEF TypeOK, DataOK, Bounded, Listening
<1> QED BY <1>1, Invariance, PTL

\* Nobody closes a descriptor that has been given to somebody else meanwhile, unless
\* a registration has failed (closeAndCleanup lines 185-188, ~Connection lines 22-27
\* of Connection.hpp, handleAccept lines 542-546, stop lines 518-522).
THEOREM OwnDescriptorsClosed == Spec => []OnlyOwnClosed
<1>1. IndInv => OnlyOwnClosed
  BY DEF IndInv
<1> QED BY <1>1, Invariance, PTL

\* The process is aborted only by a write callback whose handler is gone, or by a
\* frame submitted after a signal at one of three places (loop lines 117-123,
\* handleRead lines 137-143, submit line 124, Reactor::init).
THEOREM AbortsAreExplained == Spec => []AbortExplained
<1>1. IndInv => AbortExplained
  BY DEF IndInv
<1> QED BY <1>1, Invariance, PTL

\* While the loop waits no callback and no stop() is active.
LEMMA AtWait ==
  ASSUME Structure, top.at = "wait"
  PROVE  /\ depth = 1 /\ frames[1].at = "wait"
         /\ \A L : "wait" \notin L => ~Some(L) /\ \A c : ~On(L, c)
<1>1. depth = 1 /\ top = frames[1]
  BY TopIs DEF MainLabels
<1> QED BY <1>1 DEF Some, On

\* Whenever the loop waits, the tables and the descriptors agree on which connections
\* are open (handleAccept lines 542-549, closeAndCleanup lines 173-189).
THEOREM TablesAlwaysAgree == Spec => []TablesAgree
<1>1. ASSUME IndInv PROVE TablesAgree
  <2>1. DataOK /\ Structure /\ Registered /\ Tabled /\ Owned
    BY <1>1 DEF IndInv
  <2> SUFFICES ASSUME top.at = "wait", NEW f \in Fds, NEW c \in Conns
               PROVE  /\ (table[f] = c) = (handlers[f] = c)
                      /\ table[f] = c => connected[c] /\ fdOf[c] = f /\ owner[f] = c
    BY DEF TablesAgree
  <2>2. frames[1].at = "wait" /\ \A L : "wait" \notin L => ~Some(L) /\ \A d : ~On(L, d)
    BY <2>1, AtWait
  <2>3. ~On({"del"}, c) /\ ~On({"del"} \cup Leaving, c) /\ ~On(Inserting, c) /\ ~On({"closeAgain"}, c)
    BY <2>2 DEF Leaving, Parting, Inserting
  <2>4. table[f] = c => connected[c] /\ fdOf[c] = f /\ handlers[f] = c
    BY <2>1, <2>3 DEF Tabled
  <2>5. handlers[f] = c => table[f] = c
    BY <2>1, <2>2, <2>3 DEF Registered
  <2>6. fdOf[c] = f => owner[f] = c
    BY <2>1, <2>3, NoNames DEF Owned
  <2> QED BY <2>4, <2>5, <2>6
<1> QED BY <1>1, Invariance, PTL

\* Whenever the loop waits, waiting clients will be reported, or the last accept() has
\* failed although they waited (handleAccept lines 526-540).
THEOREM BacklogsAreNoticed == Spec => []BacklogIsNoticed
<1>1. ASSUME IndInv PROVE BacklogIsNoticed
  <2>1. Structure /\ Noticed
    BY <1>1 DEF IndInv
  <2>2. top.at = "wait" => ~Some(AcceptLabels) /\ ~On({"stop"}, "error")
    BY <2>1, AtWait DEF AcceptLabels
  <2> QED BY <2>1, <2>2 DEF BacklogIsNoticed, Noticed
<1> QED BY <1>1, Invariance, PTL

\* Without a signal the main thread holds a mutex only where a write to a
\* connection closes it, and the close is the running activation.
LEMMA Holder ==
  ASSUME DataOK, Structure, Nesting, \A h \in 1..depth : frames[h].c # "signal",
         NEW h \in 1..depth, h # depth, LocksOf(frames[h]) # {}
  PROVE  /\ top.at \in CloseLabels /\ top.c \in Conns /\ LocksOf(frames[h]) = {top.c}
<1>0. depth \in Nat /\ depth >= 1 /\ top = frames[depth]
  BY TopIs
<1>1. h + 1 \in 2..depth /\ h + 1 \in 1..depth
  BY <1>0
<1>2. Called(frames[h + 1], frames[h]) /\ frames[h + 1].at \in Labels \ MainLabels
  BY <1>1, AtTop DEF Nesting, Structure, AnyFrame
<1>3. /\ frames[h].at = "written" /\ frames[h + 1].at \in CloseLabels
      /\ frames[h].c = frames[h + 1].c
  <2>1. frames[h].at \in {"snapshot", "removing", "inserting", "acquiring", "pushing", "writing",
                          "written", "sending"}
    BY DEF LocksOf
  <2>2. frames[h + 1].c # "signal"
    BY <1>1
  <2> QED BY <1>2, <2>1, <2>2 DEF Called, Labels, Callees
<1>4. frames[h].c \in Conns /\ LocksOf(frames[h]) = {frames[h].c}
  BY <1>3 DEF Structure, FrameOK, WriteLabels, LocksOf
<1>5. h + 1 = depth
  <2>1. ASSUME h + 1 # depth PROVE FALSE
    <3>1. h + 2 \in 2..depth /\ h + 2 \in 1..depth /\ (h + 2) - 1 = h + 1
      BY <1>0, <1>1, <2>1
    <3>2. Called(frames[h + 2], frames[h + 1]) /\ frames[h + 2].at \in Labels \ MainLabels
          /\ frames[h + 2].c # "signal"
      BY <3>1, AtTop DEF Nesting, Structure, AnyFrame
    <3> QED BY <1>3, <3>2 DEF Called, Labels, Callees, CloseLabels
  <2> QED BY <2>1
<1> QED BY <1>0, <1>3, <1>4, <1>5

\* What is held below the running activation.
LEMMA HeldBelow ==
  ASSUME Structure, NEW lock, lock \in Held(Tail(stack))
  PROVE  \E h \in 1..depth : h # depth /\ lock \in LocksOf(frames[h])
<1>1. Len(stack) \in Nat /\ Len(stack) >= 1 /\ stack \in Seq(AnyFrame)
  BY DEF Structure, depth
<1>2. Len(Tail(stack)) = Len(stack) - 1 /\ \A i \in 1..(Len(stack) - 1) : Tail(stack)[i] = stack[i + 1]
  BY <1>1
<1>3. PICK i \in 1..(Len(stack) - 1) : lock \in LocksOf(stack[i + 1])
  BY <1>2 DEF Held
<1>4. /\ Len(stack) - i \in 1..Len(stack) /\ Len(stack) - i # Len(stack)
      /\ Len(stack) + 1 - (Len(stack) - i) = i + 1
  BY <1>1
<1>5. frames[Len(stack) - i] = stack[i + 1]
  BY <1>4 DEF frames
<1> QED BY <1>3, <1>4, <1>5 DEF depth

\* Without a signal the main thread never waits for a mutex of its own, nor for a
\* worker that waits for one (handleWrite lines 150-163, broadcastSystem lines 420-428).
THEOREM OnlySignalsStick == Spec => []StuckBySignalOnly
<1>1. ASSUME IndInv PROVE StuckBySignalOnly
  <2>1. DataOK /\ Structure /\ Nesting /\ ClosedOnce
    BY <1>1 DEF IndInv
  <2>2. depth \in Nat /\ depth >= 1 /\ top = frames[depth] /\ depth \in 1..depth
    BY <2>1, TopIs
  <2> SUFFICES ASSUME Stuck, \A h \in 1..depth : frames[h].c # "signal"
               PROVE  FALSE
    <3>1. Len(stack) \in Nat /\ \A h \in 1..Len(stack) : Len(stack) + 1 - h \in 1..Len(stack)
      BY <2>2 DEF depth
    <3>2. \A h \in 1..depth : \E i \in 1..Len(stack) : frames[h].c = stack[i].c
      BY <3>1 DEF frames, depth
    <3> QED BY <3>2 DEF StuckBySignalOnly
  <2>3. CASE Wanted # {} /\ Wanted \subseteq Held(Tail(stack))
    <3>1. PICK lock \in Wanted : lock \in Held(Tail(stack))
      BY <2>3
    <3>2. PICK h \in 1..depth : h # depth /\ lock \in LocksOf(frames[h])
      BY <2>1, <3>1, HeldBelow
    <3>3. top.at \in CloseLabels /\ top.c \in Conns /\ lock = top.c
      BY <2>1, <3>2, Holder
    <3>4. top.at = "sends" /\ (\A d \in top.todo : Receives(d)) /\ lock \in top.todo
      BY <3>1, <3>3, NoNames DEF Wanted, Critical, CloseLabels
    <3> QED BY <2>1, <2>2, <3>3, <3>4 DEF Receives, ClosedOnce, Body, Leaving, Parting
  <2>4. CASE top.at = "join" /\ \E w \in Workers : BlockedWorker(w)
    <3>1. PICK lock : lock \in Held(stack)
      BY <2>4 DEF BlockedWorker, Free
    <3>2. PICK h \in 1..depth : lock \in LocksOf(frames[h])
      BY <2>1, <3>1, HeldBy, AtTop
    <3>3. h # depth
      BY <2>2, <2>4, <3>2 DEF LocksOf
    <3> QED BY <2>1, <2>4, <3>2, <3>3, Holder DEF CloseLabels
  <2> QED BY <2>3, <2>4 DEF Stuck
<1> QED BY <1>1, Invariance, PTL

\* When the process exits in order no session, connection or task is left, and of the
\* descriptors only those of the databases, or the listening socket when the signal
\* has come before it (stop lines 496-524, closeAndCleanup lines 173-189).
THEOREM AllReleasedAtExit == Spec => []ReleasedAtExit
<1>1. ASSUME IndInv PROVE ReleasedAtExit
  <2>1. /\ DataOK /\ Structure /\ Nesting /\ Users /\ Owned /\ Listening /\ Stopping /\ Halting /\ Ended
    BY <1>1 DEF IndInv
  <2> SUFFICES ASSUME fate = "exited"
               PROVE  /\ \A c \in Conns : ~loggedIn[c] /\ fdOf[c] = None
                      /\ tasks = <<>>
                      /\ \A f \in Fds : owner[f] \in {"free", "db"} \/
                           (owner[f] = "listen" /\ hit \in {"initReactor", "initListen"})
    BY DEF ReleasedAtExit
  <2>2. top.at = "destroyed" /\ \A c \in Conns : fdOf[c] = None
    BY <2>1, TopIs DEF Ended
  <2>3. /\ stopped /\ poolDown /\ tasks = <<>> /\ \A L \in SUBSET (Labels \ MainLabels) : ~Some(L)
    BY <2>1, <2>2, AtDestroy
  <2>4. ASSUME NEW c \in Conns PROVE ~loggedIn[c]
    <3>1. Parting \cup {"del"} \in SUBSET (Labels \ MainLabels)
      BY DEF Parting, Labels, MainLabels, CloseLabels
    <3>2. ~On(Parting \cup {"del"}, c)
      BY <2>3, <3>1 DEF Some, On
    <3> QED BY <2>1, <2>3, <3>2 DEF Users
  <2>5. ASSUME NEW f \in Fds
        PROVE  owner[f] \in {"free", "db"} \/ (owner[f] = "listen" /\ hit \in {"initReactor", "initListen"})
    <3>1. owner[f] \notin Conns
      BY <2>1, <2>2, NoNames DEF Owned
    <3>2. owner[f] = "listen" => listenFd # None
      BY <2>1, NoNames DEF Listening
    <3>3. ~Some({"copy", "closeAll", "clear", "closeListen"})
      <4>1. {"copy", "closeAll", "clear", "closeListen"} \in SUBSET (Labels \ MainLabels)
        BY DEF Labels, MainLabels, StopLabels
      <4> QED BY <2>3, <4>1
    <3>4. owner[f] = "listen" => hit \in {"initReactor", "initListen"}
      BY <2>1, <2>3, <3>2, <3>3 DEF Halting
    <3> QED BY <2>1, <3>1, <3>4 DEF DataOK
  <2> QED BY <2>2, <2>3, <2>4, <2>5
<1> QED BY <1>1, Invariance, PTL
=============================================================================
