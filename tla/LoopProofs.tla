------------------------------ MODULE LoopProofs ------------------------------
(***************************************************************************)
(* Proofs about the event loop: the modules EventLoop, for any number of   *)
(* requests, handles, ticks and nested frames, and Timers, for any number  *)
(* of timers, any delays and any jumps of the clock.                       *)
(***************************************************************************)
EXTENDS EventLoop, Timers, SequenceTheorems, WellFoundedInduction, TLAPS

\* A tick occurs once in a sequence.
Inj(s) == \A i, j \in 1 .. Len(s) : s[i] = s[j] => i = j

\* The ticks that wait in the batches of a stack, and that those batches are apart.
WaitingIn(st) == UNION {SeqSet(st[i].rest) : i \in 1 .. Len(st)}
Apart(st) ==
  /\ \A i \in 1 .. Len(st) : Inj(st[i].rest)
  /\ \A i, j \in 1 .. Len(st) : i # j => SeqSet(st[i].rest) \cap SeqSet(st[j].rest) = {}

\* The ticks 1 .. n are at most once in the queue q, in a batch `rest` that is about to
\* run, in the batches of the stack st and among those that ran, r; TickInOnePlace
\* is not inductive, because a batch with a tick that occurs twice would run it twice.
Placed(st, rest, q, r, n) ==
  /\ Inj(q) /\ Inj(rest) /\ Apart(st)
  /\ r \cup SeqSet(q) \cup SeqSet(rest) \cup WaitingIn(st) \subseteq 1 .. n
  /\ r \cap SeqSet(q) = {} /\ r \cap SeqSet(rest) = {} /\ SeqSet(q) \cap SeqSet(rest) = {}
  /\ WaitingIn(st) \cap (r \cup SeqSet(q) \cup SeqSet(rest)) = {}

\* All of them are somewhere.
Whole(st, rest, q, r, n) == r \cup SeqSet(q) \cup SeqSet(rest) \cup WaitingIn(st) = 1 .. n

Dropped == pc \in {"hardExit", "exited"}

TicksInv ==
  /\ Placed(stack, <<>>, queue, ran, issued)
  /\ ~Dropped => Whole(stack, <<>>, queue, ran, issued)

\* The shape of a stack st when the runtime is at c: only a tick has a batch, only the
\* bottom frame is the main script or the listeners of 'exit', and listeners of
\* 'uncaughtException' are above the frame that threw.
Shape(st, c) ==
  /\ \A i \in 1 .. Len(st) :
       /\ st[i].fn # "tick" => st[i].rest = <<>>
       /\ st[i].fn = "main" => i = 1 /\ c = "main"
       /\ st[i].fn = "exit" => i = 1 /\ c \in {"hardExit", "exitEmit"}
       /\ st[i].fn = "uncaught" => i > 1 /\ st[i - 1].fn # "uncaught"
  /\ c = "exited" => st = <<>>

HasTick(st) == \E i \in 1 .. Len(st) : st[i].fn = "tick"

\* While a batch runs, and when the stack is empty before the loop has ended, only
\* late ticks are queued.
LateFirst ==
  (InTick \/ (~Running /\ pc \in {"main", "uv", "loopTicks", "loopTest"}))
    => SeqSet(queue) \subseteq late

\* The process is exiting from the time when 'exit' is emitted, and an exception
\* that nobody caught has set the exit code for good.
ExitInv ==
  /\ exiting <=> pc \in {"hardExit", "exitEmit", "drain", "exited"}
  /\ crash => /\ pc \in {"hardExit", "exited"} /\ exitCode = 1
              /\ pc = "exited" => status # 0

LoopInv == TypeOK /\ Shape(stack, pc) /\ TicksInv /\ LateFirst /\ ExitInv

-----------------------------------------------------------------------------
(* Sequences of ticks and stacks of frames.                                *)

\* An empty sequence, and a sequence with an element more.
LEMMA AppendTick ==
  ASSUME NEW s \in Seq(Ticks), NEW e \in Ticks
  PROVE  /\ Append(s, e) \in Seq(Ticks)
         /\ SeqSet(Append(s, e)) = SeqSet(s) \cup {e}
         /\ Inj(s) /\ e \notin SeqSet(s) => Inj(Append(s, e))
<1>1. Append(s, e) \in Seq(Ticks)
  OBVIOUS
<1>2. SeqSet(Append(s, e)) = SeqSet(s) \cup {e}
  <2>1. ASSUME NEW x PROVE x \in SeqSet(Append(s, e)) <=> x \in SeqSet(s) \cup {e}
    BY DEF SeqSet
  <2> QED BY <2>1
<1>3. Inj(s) /\ e \notin SeqSet(s) => Inj(Append(s, e))
  BY DEF Inj, SeqSet
<1> QED BY <1>1, <1>2, <1>3

\* An empty batch holds no tick.
LEMMA EmptyBatch == SeqSet(<<>>) = {} /\ Inj(<<>>)
  BY DEF SeqSet, Inj

\* The first tick of a batch, and the others.
LEMMA FirstTick ==
  ASSUME NEW s \in Seq(Ticks), s # <<>>, Inj(s)
  PROVE  /\ Head(s) \in Ticks /\ Tail(s) \in Seq(Ticks) /\ Inj(Tail(s))
         /\ SeqSet(s) = {Head(s)} \cup SeqSet(Tail(s))
         /\ Head(s) \notin SeqSet(Tail(s))
<1>1. /\ Head(s) = s[1] /\ 1 \in 1 .. Len(s) /\ Head(s) \in Ticks
      /\ Tail(s) \in Seq(Ticks) /\ Len(Tail(s)) = Len(s) - 1 /\ Len(s) \in Nat
      /\ \A i \in 1 .. Len(Tail(s)) : i + 1 \in 1 .. Len(s) /\ Tail(s)[i] = s[i + 1]
  OBVIOUS
<1>2. Inj(Tail(s))
  BY <1>1 DEF Inj
<1>3. Head(s) \notin SeqSet(Tail(s))
  BY <1>1 DEF Inj, SeqSet
<1>4. ASSUME NEW x \in SeqSet(s) PROVE x \in {Head(s)} \cup SeqSet(Tail(s))
  <2>1. PICK i \in 1 .. Len(s) : x = s[i]
    BY DEF SeqSet
  <2>2. CASE i = 1
    BY <1>1, <2>1, <2>2
  <2>3. CASE i # 1
    <3>1. i - 1 \in 1 .. Len(Tail(s)) /\ Tail(s)[i - 1] = s[i]
      BY <1>1, <2>1, <2>3
    <3> QED BY <2>1, <3>1 DEF SeqSet
  <2> QED BY <2>2, <2>3
<1>5. {Head(s)} \cup SeqSet(Tail(s)) \subseteq SeqSet(s)
  BY <1>1 DEF SeqSet
<1> QED BY <1>1, <1>2, <1>3, <1>4, <1>5

\* A frame is put on a stack.
LEMMA PushFrame ==
  ASSUME NEW st \in Seq(Frame), NEW f \in Frame
  PROVE  /\ Append(st, f) \in Seq(Frame) /\ Len(Append(st, f)) = Len(st) + 1
         /\ \A i \in 1 .. Len(st) : Append(st, f)[i] = st[i]
         /\ Append(st, f)[Len(st) + 1] = f
         /\ WaitingIn(Append(st, f)) = WaitingIn(st) \cup SeqSet(f.rest)
         /\ Apart(st) /\ Inj(f.rest) /\ WaitingIn(st) \cap SeqSet(f.rest) = {}
              => Apart(Append(st, f))
<1> DEFINE s == Append(st, f)
<1>1. /\ s \in Seq(Frame) /\ Len(s) = Len(st) + 1 /\ Len(st) \in Nat
      /\ \A i \in 1 .. Len(st) : s[i] = st[i]
      /\ s[Len(st) + 1] = f
  OBVIOUS
<1> HIDE DEF s
<1>2. ASSUME NEW x PROVE x \in WaitingIn(s) <=> x \in WaitingIn(st) \cup SeqSet(f.rest)
  <2>1. x \in WaitingIn(s) <=> \E i \in 1 .. Len(s) : x \in SeqSet(s[i].rest)
    BY DEF WaitingIn
  <2>2. x \in WaitingIn(st) <=> \E i \in 1 .. Len(st) : x \in SeqSet(st[i].rest)
    BY DEF WaitingIn
  <2> QED BY <1>1, <2>1, <2>2
<1>3. ASSUME Apart(st), Inj(f.rest), WaitingIn(st) \cap SeqSet(f.rest) = {}
      PROVE  Apart(s)
  <2>1. \A i \in 1 .. Len(st) : SeqSet(st[i].rest) \cap SeqSet(f.rest) = {}
    BY <1>3 DEF WaitingIn
  <2>2. ASSUME NEW i \in 1 .. Len(s) PROVE Inj(s[i].rest)
    <3>1. CASE i \in 1 .. Len(st)
      BY <1>1, <1>3, <3>1 DEF Apart
    <3>2. CASE i = Len(st) + 1
      BY <1>1, <1>3, <3>2
    <3> QED BY <1>1, <3>1, <3>2
  <2>3. ASSUME NEW i \in 1 .. Len(s), NEW j \in 1 .. Len(s), i < j
        PROVE  SeqSet(s[i].rest) \cap SeqSet(s[j].rest) = {}
    <3>0. i \in 1 .. Len(st) /\ s[i] = st[i]
      BY <1>1, <2>3
    <3>1. CASE j \in 1 .. Len(st)
      <4>1. s[j] = st[j] /\ i # j
        BY <1>1, <2>3, <3>1
      <4> QED BY <1>3, <3>0, <3>1, <4>1 DEF Apart
    <3>2. CASE j = Len(st) + 1
      <4>1. s[j] = f
        BY <1>1, <3>2
      <4> QED BY <2>1, <3>0, <4>1
    <3> QED BY <1>1, <3>1, <3>2
  <2>4. \A i, j \in 1 .. Len(s) : i # j => i < j \/ j < i
    BY <1>1
  <2>5. \A i, j \in 1 .. Len(s) : i # j => SeqSet(s[i].rest) \cap SeqSet(s[j].rest) = {}
    BY <2>3, <2>4
  <2> QED BY <2>2, <2>5 DEF Apart
<1>4. WaitingIn(s) = WaitingIn(st) \cup SeqSet(f.rest)
  BY <1>2
<1> QED BY <1>1, <1>3, <1>4, Zenon DEF s

\* The top frame is taken off a stack.
LEMMA PopFrame ==
  ASSUME NEW st \in Seq(Frame), st # <<>>
  PROVE  LET p == SubSeq(st, 1, Len(st) - 1)
             f == st[Len(st)]
         IN  /\ p \in Seq(Frame) /\ Len(p) = Len(st) - 1 /\ f \in Frame
             /\ \A i \in 1 .. Len(p) : p[i] = st[i]
             /\ WaitingIn(st) = WaitingIn(p) \cup SeqSet(f.rest)
             /\ Apart(st) => /\ Apart(p) /\ Inj(f.rest)
                             /\ WaitingIn(p) \cap SeqSet(f.rest) = {}
<1> DEFINE p == SubSeq(st, 1, Len(st) - 1)
           f == st[Len(st)]
<1>1. /\ p \in Seq(Frame) /\ Len(p) = Len(st) - 1 /\ f \in Frame
      /\ Len(st) \in Nat \ {0}
      /\ \A i \in 1 .. Len(p) : p[i] = st[i]
  OBVIOUS
<1> HIDE DEF p
<1>2. ASSUME NEW x PROVE x \in WaitingIn(st) <=> x \in WaitingIn(p) \cup SeqSet(f.rest)
  <2>1. x \in WaitingIn(st) <=> \E i \in 1 .. Len(st) : x \in SeqSet(st[i].rest)
    BY DEF WaitingIn
  <2>2. x \in WaitingIn(p) <=> \E i \in 1 .. Len(p) : x \in SeqSet(p[i].rest)
    BY DEF WaitingIn
  <2> QED BY <1>1, <2>1, <2>2
<1>3. ASSUME Apart(st)
      PROVE  Apart(p) /\ Inj(f.rest) /\ WaitingIn(p) \cap SeqSet(f.rest) = {}
  <2>0. 1 .. Len(p) \subseteq 1 .. Len(st) /\ Len(st) \in 1 .. Len(st)
    BY <1>1
  <2>1. Inj(f.rest) /\ \A i \in 1 .. Len(p) : Inj(p[i].rest)
    BY <1>1, <1>3, <2>0 DEF Apart
  <2>4. Apart(p)
    BY <1>1, <1>3, <2>0, <2>1 DEF Apart
  <2>2. ASSUME NEW i \in 1 .. Len(p) PROVE SeqSet(p[i].rest) \cap SeqSet(f.rest) = {}
    <3>1. i \in 1 .. Len(st) /\ i # Len(st) /\ p[i] = st[i]
      BY <1>1
    <3> QED BY <1>3, <2>0, <3>1 DEF Apart
  <2>3. ASSUME NEW x \in WaitingIn(p) PROVE x \notin SeqSet(f.rest)
    <3>1. PICK i \in 1 .. Len(p) : x \in SeqSet(p[i].rest)
      BY <2>3 DEF WaitingIn
    <3> QED BY <2>2, <3>1
  <2> QED BY <2>1, <2>3, <2>4
<1>4. WaitingIn(st) = WaitingIn(p) \cup SeqSet(f.rest)
  BY <1>2
<1> QED BY <1>1, <1>3, <1>4, Zenon DEF p

\* An empty stack and one with a call only.
LEMMA NoBatches ==
  /\ <<>> \in Seq(Frame) /\ WaitingIn(<<>>) = {} /\ Apart(<<>>) /\ ~HasTick(<<>>)
  /\ \A c : Shape(<<>>, c)
  /\ \A f \in {"main", "cb", "uncaught", "exit"} :
       /\ Call(f) \in Frame /\ <<Call(f)>> \in Seq(Frame) /\ <<Call(f)>>[1] = Call(f)
       /\ WaitingIn(<<Call(f)>>) = {} /\ Apart(<<Call(f)>>) /\ ~HasTick(<<Call(f)>>)
<1>1. /\ <<>> \in Seq(Frame) /\ WaitingIn(<<>>) = {} /\ Apart(<<>>) /\ ~HasTick(<<>>)
      /\ \A c : Shape(<<>>, c)
  BY DEF WaitingIn, Apart, HasTick, Shape
<1>2. ASSUME NEW f \in {"main", "cb", "uncaught", "exit"}
      PROVE  /\ Call(f) \in Frame /\ <<Call(f)>> \in Seq(Frame) /\ <<Call(f)>>[1] = Call(f)
             /\ WaitingIn(<<Call(f)>>) = {} /\ Apart(<<Call(f)>>) /\ ~HasTick(<<Call(f)>>)
  <2>1. Call(f) \in Frame /\ Call(f).rest = <<>> /\ Call(f).fn = f
    BY DEF Call, Frame
  <2> DEFINE s == <<Call(f)>>
  <2>2. s \in Seq(Frame) /\ Len(s) = 1 /\ s[1] = Call(f)
    BY <2>1
  <2> HIDE DEF s
  <2>3. 1 .. Len(s) = {1}
    BY <2>2
  <2>4. WaitingIn(s) = {}
    BY <2>1, <2>2, <2>3, EmptyBatch DEF WaitingIn
  <2>5. Apart(s)
    BY <2>1, <2>2, <2>3, EmptyBatch DEF Apart
  <2>6. ~HasTick(s)
    BY <2>1, <2>2, <2>3 DEF HasTick
  <2> QED BY <2>1, <2>2, <2>4, <2>5, <2>6 DEF s
<1> QED BY <1>1, <1>2

\* The shape of a stack without its top frame.
LEMMA ShapePop ==
  ASSUME NEW st \in Seq(Frame), NEW c, Shape(st, c), st # <<>>
  PROVE  LET p == SubSeq(st, 1, Len(st) - 1)
         IN  /\ Shape(p, c)
             /\ HasTick(p) => HasTick(st)
             /\ p # <<>> => p[1] = st[1]
<1> DEFINE p == SubSeq(st, 1, Len(st) - 1)
<1>1. /\ p \in Seq(Frame) /\ Len(p) = Len(st) - 1 /\ Len(st) \in Nat \ {0}
      /\ \A i \in 1 .. Len(p) : p[i] = st[i]
  BY PopFrame
<1> HIDE DEF p
<1>2. 1 .. Len(p) \subseteq 1 .. Len(st)
  BY <1>1
<1>3. ASSUME NEW i \in 1 .. Len(p), i > 1 PROVE p[i - 1] = st[i - 1]
  BY <1>1, <1>3
<1>4. Shape(p, c)
  BY <1>1, <1>2, <1>3 DEF Shape
<1>5. HasTick(p) => HasTick(st)
  BY <1>1, <1>2 DEF HasTick
<1>6. p # <<>> => p[1] = st[1]
  BY <1>1
<1> QED BY <1>4, <1>5, <1>6 DEF p

\* The shape of a stack with one frame more.
LEMMA ShapePush ==
  ASSUME NEW st \in Seq(Frame), NEW c, Shape(st, c), c # "exited", NEW f \in Frame,
         \/ f.fn = "tick"
         \/ f.fn = "cb" /\ f.rest = <<>>
         \/ f.fn = "uncaught" /\ f.rest = <<>> /\ st # <<>> /\ st[Len(st)].fn # "uncaught"
  PROVE  /\ Shape(Append(st, f), c)
         /\ HasTick(Append(st, f)) <=> HasTick(st) \/ f.fn = "tick"
         /\ Append(st, f) # <<>>
         /\ Append(st, f)[1] = IF st = <<>> THEN f ELSE st[1]
<1> DEFINE s == Append(st, f)
<1>1. /\ s \in Seq(Frame) /\ Len(s) = Len(st) + 1 /\ Len(st) \in Nat
      /\ \A i \in 1 .. Len(st) : s[i] = st[i]
      /\ s[Len(st) + 1] = f
  BY PushFrame
<1>0. /\ st # <<>> => 1 \in 1 .. Len(st)
      /\ st = <<>> => Len(st) = 0
  OBVIOUS
<1> HIDE DEF s
<1>6. s # <<>>
  BY <1>1
<1>2. ASSUME NEW i \in 1 .. Len(s)
      PROVE  /\ s[i].fn # "tick" => s[i].rest = <<>>
             /\ s[i].fn = "main" => i = 1 /\ c = "main"
             /\ s[i].fn = "exit" => i = 1 /\ c \in {"hardExit", "exitEmit"}
             /\ s[i].fn = "uncaught" => i > 1 /\ s[i - 1].fn # "uncaught"
  <2>1. CASE i \in 1 .. Len(st)
    <3>1. s[i] = st[i] /\ (i > 1 => s[i - 1] = st[i - 1])
      BY <1>1, <2>1
    <3> QED BY <2>1, <3>1 DEF Shape
  <2>2. CASE i = Len(st) + 1
    <3>1. s[i] = f /\ (st # <<>> => i > 1 /\ s[i - 1] = st[Len(st)])
      BY <1>0, <1>1, <2>2
    <3> QED BY <3>1
  <2> QED BY <1>1, <2>1, <2>2
<1>3. Shape(s, c)
  BY <1>2 DEF Shape
<1>4. HasTick(s) <=> HasTick(st) \/ f.fn = "tick"
  <2>1. 1 .. Len(s) = (1 .. Len(st)) \cup {Len(st) + 1}
    BY <1>1
  <2> QED BY <1>1, <2>1 DEF HasTick
<1>5. s[1] = IF st = <<>> THEN f ELSE st[1]
  BY <1>0, <1>1
<1> QED BY <1>3, <1>4, <1>5, <1>6 DEF s

-----------------------------------------------------------------------------
(* The steps that the actions share.                                       *)

\* A stack that loses its batches, as process.exit does, leaves the others in place.
LEMMA DropBatches ==
  ASSUME NEW st, NEW new, NEW q, NEW r, NEW n, Placed(st, <<>>, q, r, n),
         WaitingIn(new) = {}, Apart(new)
  PROVE  /\ Placed(new, <<>>, q, r, n)
         /\ WaitingIn(st) = {} /\ Whole(st, <<>>, q, r, n) => Whole(new, <<>>, q, r, n)
  BY EmptyBatch DEF Placed, Whole

\* The top frame's batch becomes the batch that is about to run.
LEMMA TakeBatch ==
  ASSUME NEW st \in Seq(Frame), st # <<>>, NEW q, NEW r, NEW n, Placed(st, <<>>, q, r, n)
  PROVE  LET p == SubSeq(st, 1, Len(st) - 1)
             f == st[Len(st)]
         IN  /\ Placed(p, f.rest, q, r, n)
             /\ Whole(st, <<>>, q, r, n) => Whole(p, f.rest, q, r, n)
<1> DEFINE p == SubSeq(st, 1, Len(st) - 1)
           f == st[Len(st)]
<1>1. /\ WaitingIn(st) = WaitingIn(p) \cup SeqSet(f.rest)
      /\ Apart(p) /\ Inj(f.rest) /\ WaitingIn(p) \cap SeqSet(f.rest) = {}
  BY PopFrame, Zenon DEF Placed
<1> HIDE DEF p, f
<1>2. Placed(p, f.rest, q, r, n)
  BY <1>1, EmptyBatch DEF Placed
<1>3. Whole(st, <<>>, q, r, n) => Whole(p, f.rest, q, r, n)
  BY <1>1, EmptyBatch DEF Whole
<1> QED BY <1>2, <1>3 DEF p, f

\* The next callback of a batch is called above st, or the batch is over.
LEMMA BatchStep ==
  ASSUME NEW st \in Seq(Frame), NEW rest \in Seq(Ticks), NEW q, NEW n,
         ran \in SUBSET Ticks, Placed(st, rest, q, ran, n), Shape(st, pc), pc # "exited",
         NextOfBatch(st, rest)
  PROVE  /\ stack' \in Seq(Frame) /\ ran' \in SUBSET Ticks
         /\ Placed(stack', <<>>, q, ran', n)
         /\ Whole(st, rest, q, ran, n) => Whole(stack', <<>>, q, ran', n)
         /\ Shape(stack', pc)
         /\ stack' # <<>> /\ stack'[1].fn = "exit" => st # <<>> /\ st[1].fn = "exit"
<1>1. CASE rest = <<>>
  <2>1. stack' = st /\ ran' = ran
    BY <1>1 DEF NextOfBatch
  <2> QED BY <1>1, <2>1, Zenon
<1>2. CASE rest # <<>>
  <2> DEFINE f == [fn |-> "tick", rest |-> Tail(rest)]
  <2>1. stack' = Append(st, f) /\ ran' = ran \cup {Head(rest)}
    BY <1>2 DEF NextOfBatch
  <2>2. Inj(rest) /\ Apart(st)
    BY DEF Placed
  <2>3. /\ Head(rest) \in Ticks /\ Tail(rest) \in Seq(Ticks) /\ Inj(Tail(rest))
        /\ SeqSet(rest) = {Head(rest)} \cup SeqSet(Tail(rest))
        /\ Head(rest) \notin SeqSet(Tail(rest))
    BY <1>2, <2>2, FirstTick
  <2>4. f \in Frame /\ f.fn = "tick" /\ f.rest = Tail(rest)
    BY <2>3 DEF Frame
  <2> HIDE DEF f
  <2>5. WaitingIn(st) \cap SeqSet(rest) = {}
    BY DEF Placed
  <2>6. /\ stack' \in Seq(Frame) /\ Apart(stack')
        /\ WaitingIn(stack') = WaitingIn(st) \cup SeqSet(Tail(rest))
    BY <2>1, <2>2, <2>3, <2>4, <2>5, PushFrame
  <2>7. Placed(stack', <<>>, q, ran', n)
    BY <2>1, <2>3, <2>6, EmptyBatch DEF Placed
  <2>8. Whole(st, rest, q, ran, n) => Whole(stack', <<>>, q, ran', n)
    BY <2>1, <2>3, <2>6, EmptyBatch DEF Whole
  <2>9. Shape(stack', pc) /\ stack'[1] = IF st = <<>> THEN f ELSE st[1]
    BY <2>1, <2>4, ShapePush
  <2>10. stack'[1].fn = "exit" => st # <<>> /\ st[1].fn = "exit"
    BY <2>4, <2>9
  <2> QED BY <2>1, <2>3, <2>6, <2>7, <2>8, <2>9, <2>10
<1> QED BY <1>1, <1>2

\* The frame f above st is over and what follows it begins.
LEMMA FrameStep ==
  ASSUME NEW st \in Seq(Frame), NEW f \in Frame, queue \in Seq(Ticks),
         ran \in SUBSET Ticks, Placed(st, f.rest, queue, ran, issued),
         Shape(st, pc), pc # "exited", f.fn # "uncaught", f.fn # "tick" => f.rest = <<>>,
         AfterFrame(st, f)
  PROVE  /\ stack' \in Seq(Frame) /\ queue' \in Seq(Ticks) /\ ran' \in SUBSET Ticks
         /\ Placed(stack', <<>>, queue', ran', issued)
         /\ Whole(st, f.rest, queue, ran, issued)
              => Whole(stack', <<>>, queue', ran', issued)
         /\ Shape(stack', pc)
         /\ stack' # <<>> /\ stack'[1].fn = "exit" => st # <<>> /\ st[1].fn = "exit"
         /\ \/ queue' = <<>>
            \/ f.fn = "tick" /\ queue' = queue
            \/ f.fn = "exit" /\ stack' = st /\ queue' = queue
<1>1. CASE f.fn \in {"main", "cb"}
  <2>1. queue' = <<>> /\ NextOfBatch(st, queue) /\ f.rest = <<>>
    BY <1>1 DEF AfterFrame, onNextTick
  <2>2. Placed(st, queue, <<>>, ran, issued)
    BY <2>1, EmptyBatch DEF Placed
  <2>3. Whole(st, f.rest, queue, ran, issued) => Whole(st, queue, <<>>, ran, issued)
    BY <2>1, EmptyBatch DEF Whole
  <2>4. queue' \in Seq(Ticks)
    BY <2>1
  <2> QED BY <2>1, <2>2, <2>3, <2>4, BatchStep
<1>2. CASE f.fn = "tick"
  <2>1. queue' = queue /\ NextOfBatch(st, f.rest) /\ f.rest \in Seq(Ticks)
    BY <1>2 DEF AfterFrame, Frame
  <2> QED BY <1>2, <2>1, BatchStep
<1>3. CASE f.fn = "exit"
  <2>1. stack' = st /\ queue' = queue /\ ran' = ran /\ f.rest = <<>>
    BY <1>3 DEF AfterFrame, ticks
  <2> QED BY <1>3, <2>1, Zenon
<1>4. f.fn \in {"main", "cb", "tick", "uncaught", "exit"}
  BY DEF Frame
<1> QED BY <1>1, <1>2, <1>3, <1>4

\* What the top frame is, and the stack without it.
LEMMA TopFrame ==
  ASSUME LoopInv, Running
  PROVE  /\ Top \in Frame /\ Pop \in Seq(Frame) /\ Len(stack) \in Nat \ {0}
         /\ pc # "exited" /\ (Top.fn # "tick" => Top.rest = <<>>)
         /\ Placed(Pop, Top.rest, queue, ran, issued)
         /\ ~Dropped => Whole(Pop, Top.rest, queue, ran, issued)
         /\ Shape(Pop, pc) /\ (HasTick(Pop) => InTick)
         /\ Top.fn = "tick" => InTick
         /\ Top.fn = "exit" => Pop = <<>> /\ pc \in {"hardExit", "exitEmit"}
         /\ Top.fn = "uncaught" => Pop # <<>> /\ Pop[Len(Pop)].fn # "uncaught"
         /\ Pop # <<>> => Pop[1] = stack[1]
<1>1. /\ stack \in Seq(Frame) /\ stack # <<>> /\ Shape(stack, pc)
      /\ Placed(stack, <<>>, queue, ran, issued)
      /\ ~Dropped => Whole(stack, <<>>, queue, ran, issued)
  BY DEF LoopInv, TypeOK, TicksInv, Running
<1>2. /\ Top \in Frame /\ Pop \in Seq(Frame) /\ Len(Pop) = Len(stack) - 1
      /\ \A i \in 1 .. Len(Pop) : Pop[i] = stack[i]
  BY <1>1, PopFrame DEF Top, Pop
<1>3. Len(stack) \in Nat \ {0} /\ Len(stack) \in 1 .. Len(stack)
  BY <1>1
<1>4. /\ Placed(Pop, Top.rest, queue, ran, issued)
      /\ ~Dropped => Whole(Pop, Top.rest, queue, ran, issued)
  BY <1>1, TakeBatch DEF Top, Pop
<1>5. Shape(Pop, pc) /\ (HasTick(Pop) => InTick) /\ (Pop # <<>> => Pop[1] = stack[1])
  BY <1>1, ShapePop DEF Pop, InTick, HasTick
<1>6. pc # "exited" /\ (Top.fn # "tick" => Top.rest = <<>>)
  BY <1>1, <1>3 DEF Shape, Top
<1>7. Top.fn = "tick" => InTick
  BY <1>3 DEF InTick, Top
<1>8. Top.fn = "exit" => Pop = <<>> /\ pc \in {"hardExit", "exitEmit"}
  <2>1. Top.fn = "exit" => Len(stack) = 1 /\ pc \in {"hardExit", "exitEmit"}
    BY <1>1, <1>3 DEF Shape, Top
  <2>2. Len(Pop) = 0 => Pop = <<>>
    BY <1>2
  <2> QED BY <1>2, <2>1, <2>2
<1>9. Top.fn = "uncaught" => Pop # <<>> /\ Pop[Len(Pop)].fn # "uncaught"
  <2>1. SUFFICES ASSUME Top.fn = "uncaught"
                 PROVE  Pop # <<>> /\ Pop[Len(Pop)].fn # "uncaught"
    OBVIOUS
  <2>2. Len(stack) > 1 /\ stack[Len(stack) - 1].fn # "uncaught"
    BY <1>1, <1>3, <2>1 DEF Shape, Top
  <2>3. Len(Pop) \in 1 .. Len(Pop) /\ Len(Pop) = Len(stack) - 1
    BY <1>2, <1>3, <2>2
  <2>4. Pop # <<>> /\ Pop[Len(Pop)] = stack[Len(stack) - 1]
    BY <1>2, <2>3
  <2> QED BY <2>2, <2>4
<1> QED BY <1>2, <1>3, <1>4, <1>5, <1>6, <1>7, <1>8, <1>9

\* process.exit keeps the invariant: it drops the stack, and 'exit' is emitted first.
LEMMA ExitStep ==
  ASSUME LoopInv, NEW code \in {0, 1}, exit(code), Running, pc # "exited",
         crash' = (crash \/ (code = 1 /\ ~exiting)) \/ crash' = crash,
         UNCHANGED <<ticks, loop, catcher, user>>
  PROVE  /\ LoopInv'
         /\ stack' # <<>> => ~exiting
         /\ pc' = "exited" => exiting
<1> USE DEF ticks, loop, user
<1>1. /\ TypeOK /\ Placed(stack, <<>>, queue, ran, issued) /\ ExitInv
  BY DEF LoopInv, TicksInv
<1>2. CASE exiting
  <2>1. /\ stack' = <<>> /\ pc' = "exited" /\ status' = exitCode
        /\ exiting' = exiting /\ exitCode' = exitCode /\ crash' = crash
    BY <1>1, <1>2 DEF exit, doExit, TypeOK
  <2>2. TypeOK'
    BY <1>1, <2>1, NoBatches DEF TypeOK
  <2>3. Shape(stack', pc') /\ Placed(stack', <<>>, queue, ran, issued)
    BY <1>1, <2>1, NoBatches, DropBatches
  <2>4. TicksInv' /\ Shape(stack, pc)'
    BY <2>1, <2>3 DEF TicksInv, Dropped
  <2>5. LateFirst' /\ ExitInv'
    BY <1>1, <1>2, <2>1 DEF LateFirst, ExitInv, InTick, Running
  <2> QED BY <1>2, <2>1, <2>2, <2>4, <2>5 DEF LoopInv
<1>3. CASE ~exiting
  <2>1. /\ stack' = <<Call("exit")>> /\ pc' = "hardExit" /\ exiting' = TRUE
        /\ exitCode' = code /\ status' = status
    BY <1>3 DEF exit
  <2>2. TypeOK'
    BY <1>1, <2>1, NoBatches DEF TypeOK
  <2>3. Shape(stack', pc')
    BY <2>1 DEF Shape, Call
  <2>4. Placed(stack', <<>>, queue, ran, issued) /\ ~HasTick(stack')
    BY <1>1, <2>1, NoBatches, DropBatches
  <2>5. TicksInv' /\ Shape(stack, pc)'
    BY <2>1, <2>3, <2>4 DEF TicksInv, Dropped
  <2>6. LateFirst'
    BY <2>1, <2>4 DEF LateFirst, InTick, Running, HasTick
  <2>7. ExitInv'
    <3>1. ~crash
      BY <1>1, <1>3 DEF ExitInv
    <3>2. crash' => code = 1
      BY <3>1, Zenon
    <3> QED BY <2>1, <3>2 DEF ExitInv
  <2> QED BY <1>3, <2>1, <2>2, <2>5, <2>6, <2>7 DEF LoopInv
<1> QED BY <1>2, <1>3

\* An action that leaves the ticks, the stack and the exit code alone.
LEMMA QuietStep ==
  ASSUME LoopInv, TypeOK', UNCHANGED <<stack, ticks, issued, exiting, exitCode, status, crash>>,
         late \subseteq late', 
         \/ pc' = pc
         \/ /\ pc \in {"main", "uv", "loopTicks", "loopTest"} /\ ~Running
            /\ pc' \in {"uv", "loopTicks", "loopTest"}
         \/ pc = "exitEmit" /\ ~Running /\ pc' = "drain"
  PROVE  LoopInv'
<1> USE DEF ticks
<1>1. TypeOK /\ Shape(stack, pc) /\ TicksInv /\ LateFirst /\ ExitInv
  BY DEF LoopInv
<1>2. Shape(stack, pc)'
  BY <1>1, NoBatches DEF Shape, Running
<1>3. TicksInv'
  BY <1>1 DEF TicksInv, Dropped
<1>4. LateFirst'
  BY <1>1 DEF LateFirst, InTick, Running
<1>5. ExitInv'
  BY <1>1 DEF ExitInv
<1> QED BY <1>2, <1>3, <1>4, <1>5 DEF LoopInv

\* A call is put on the stack.
LEMMA CallStep ==
  ASSUME LoopInv, Running, NEW f \in {"cb", "uncaught"}, f = "uncaught" => Top.fn # "uncaught",
         stack' = Append(stack, Call(f)), exitCode' = exitCode \/ (exiting /\ exitCode' = 1),
         UNCHANGED <<pc, ticks, loop, catcher, user, exiting, status, crash>>
  PROVE  LoopInv' /\ stack[1] = stack'[1]
<1> USE DEF ticks, loop, user
<1>1. TypeOK /\ Shape(stack, pc) /\ TicksInv /\ LateFirst /\ ExitInv /\ pc # "exited"
  BY TopFrame DEF LoopInv
<1>2. stack \in Seq(Frame) /\ stack # <<>>
  BY <1>1 DEF TypeOK, Running
<1>3. Call(f) \in Frame /\ Call(f).fn = f /\ Call(f).rest = <<>>
  BY DEF Call, Frame
<1>4. /\ stack' \in Seq(Frame) /\ WaitingIn(stack') = WaitingIn(stack)
      /\ Apart(stack) => Apart(stack')
  <2>1. /\ stack' \in Seq(Frame)
        /\ WaitingIn(stack') = WaitingIn(stack) \cup SeqSet(Call(f).rest)
        /\ Apart(stack) /\ Inj(Call(f).rest) /\ WaitingIn(stack) \cap SeqSet(Call(f).rest) = {}
             => Apart(stack')
    BY <1>2, <1>3, PushFrame, Zenon
  <2>2. SeqSet(Call(f).rest) = {} /\ Inj(Call(f).rest)
    BY <1>3, EmptyBatch
  <2> QED BY <2>1, <2>2
<1>5. /\ Shape(stack', pc) /\ (HasTick(stack') <=> HasTick(stack))
      /\ stack' # <<>> /\ stack'[1] = stack[1]
  BY <1>1, <1>2, <1>3, ShapePush DEF Top
<1>6. TypeOK'
  BY <1>1, <1>4 DEF TypeOK
<1>7. TicksInv'
  BY <1>1, <1>4 DEF TicksInv, Placed, Whole, Dropped
<1>8. LateFirst'
  BY <1>1, <1>5 DEF LateFirst, InTick, HasTick, Running
<1>9. ExitInv'
  BY <1>1 DEF ExitInv
<1> QED BY <1>5, <1>6, <1>7, <1>8, <1>9 DEF LoopInv

\* The frame f ends above the stack st, which is what remains of the stack then.
LEMMA EndStep ==
  ASSUME LoopInv, Running, NEW st \in Seq(Frame), NEW f \in Frame,
         Placed(st, f.rest, queue, ran, issued),
         ~Dropped => Whole(st, f.rest, queue, ran, issued),
         Shape(st, pc), f.fn # "uncaught", f.fn # "tick" => f.rest = <<>>,
         f.fn = "tick" => InTick,
         f.fn = "exit" => st = <<>> /\ pc \in {"hardExit", "exitEmit"},
         AfterFrame(st, f), UNCHANGED <<pc, loop, catcher, proc, user>>
  PROVE  /\ LoopInv'
         /\ stack' # <<>> /\ stack'[1].fn = "exit" => st # <<>> /\ st[1].fn = "exit"
<1> USE DEF loop, proc, user
<1>1. TypeOK /\ TicksInv /\ LateFirst /\ ExitInv /\ pc # "exited"
  BY TopFrame DEF LoopInv
<1>2. queue \in Seq(Ticks) /\ ran \in SUBSET Ticks
  BY <1>1 DEF TypeOK
<1>3. /\ stack' \in Seq(Frame) /\ queue' \in Seq(Ticks) /\ ran' \in SUBSET Ticks
      /\ Placed(stack', <<>>, queue', ran', issued)
      /\ Whole(st, f.rest, queue, ran, issued)
           => Whole(stack', <<>>, queue', ran', issued)
      /\ Shape(stack', pc)
      /\ stack' # <<>> /\ stack'[1].fn = "exit" => st # <<>> /\ st[1].fn = "exit"
      /\ \/ queue' = <<>>
         \/ f.fn = "tick" /\ queue' = queue
         \/ f.fn = "exit" /\ stack' = st /\ queue' = queue
  BY <1>1, <1>2, FrameStep
<1>4. TypeOK'
  BY <1>1, <1>3 DEF TypeOK
<1>5. TicksInv' /\ Shape(stack, pc)'
  BY <1>3 DEF TicksInv, Dropped
<1>6. LateFirst'
  <2>1. CASE queue' = <<>>
    BY <2>1, EmptyBatch DEF LateFirst
  <2>2. CASE f.fn = "tick" /\ queue' = queue
    BY <1>1, <2>2 DEF LateFirst
  <2>3. CASE f.fn = "exit" /\ stack' = st
    BY <2>3 DEF LateFirst, InTick, Running
  <2> QED BY <1>3, <2>1, <2>2, <2>3
<1>7. ExitInv'
  BY <1>1 DEF ExitInv
<1> QED BY <1>3, <1>4, <1>5, <1>6, <1>7 DEF LoopInv

-----------------------------------------------------------------------------
(* Every action keeps the invariant.                                       *)

\* What a step may do with 'exit': its listeners are called once, and the process
\* ends when it was exiting.
ExitOnce ==
  /\ stack' # <<>> /\ stack'[1].fn = "exit" /\ ~(stack # <<>> /\ stack[1].fn = "exit")
       => ~exiting
  /\ pc' = "exited" => exiting

\* process.nextTick queues a tick that is nowhere else.
LEMMA NextTickStep == LoopInv /\ nextTick => LoopInv' /\ ExitOnce
<1> SUFFICES ASSUME LoopInv, nextTick PROVE LoopInv' /\ ExitOnce
  OBVIOUS
<1> USE DEF loop, proc
<1>1. TypeOK /\ Shape(stack, pc) /\ TicksInv /\ LateFirst /\ ExitInv /\ pc # "exited"
  BY TopFrame DEF LoopInv, nextTick
<1>2. /\ queue \in Seq(Ticks) /\ issued + 1 \in Ticks /\ issued \in Nat
      /\ queue' = Append(queue, issued + 1) /\ issued' = issued + 1 /\ ran' = ran
      /\ stack' = stack /\ pc' = pc
  BY <1>1, LoopAssumption DEF TypeOK, nextTick, Ticks
<1>3. issued + 1 \notin SeqSet(queue)
  BY <1>1, <1>2 DEF TicksInv, Placed
<1>4. /\ queue' \in Seq(Ticks) /\ SeqSet(queue') = SeqSet(queue) \cup {issued + 1}
      /\ Inj(queue) => Inj(queue')
  BY <1>2, <1>3, AppendTick
<1>5. 1 .. issued' = (1 .. issued) \cup {issued + 1} /\ issued + 1 \notin 1 .. issued
  BY <1>2
<1>6. TypeOK'
  <2>1. late' \in SUBSET Ticks
    BY <1>1, <1>2 DEF TypeOK, nextTick
  <2>2. issued' \in 0 .. MaxTicks
    BY <1>1, <1>2, LoopAssumption DEF TypeOK, nextTick
  <2> QED BY <1>1, <1>2, <1>4, <2>1, <2>2 DEF TypeOK, nextTick
<1>7. Placed(stack', <<>>, queue', ran', issued')
  BY <1>1, <1>2, <1>4, <1>5, EmptyBatch DEF TicksInv, Placed
<1>8. ~Dropped => Whole(stack', <<>>, queue', ran', issued')
  BY <1>1, <1>2, <1>4, <1>5, EmptyBatch DEF TicksInv, Whole
<1>9. TicksInv' /\ Shape(stack, pc)'
  BY <1>1, <1>2, <1>7, <1>8 DEF TicksInv, Dropped
<1>10. LateFirst'
  BY <1>1, <1>2, <1>4 DEF LateFirst, nextTick, InTick, Running
<1>11. ExitInv' /\ ExitOnce
  BY <1>1, <1>2 DEF ExitInv, ExitOnce, nextTick
<1> QED BY <1>6, <1>9, <1>10, <1>11 DEF LoopInv

\* The calls that concern the loop and the listeners of 'uncaughtException', the
\* environment, and the turns of the loop that call nobody.
LEMMA QuietActions ==
  ASSUME LoopInv,
         \/ \E r \in Reqs \cup Handles : StartIO(r) \/ EventReady(r)
         \/ \E h \in Handles : StopIO(h)
         \/ \E b \in BOOLEAN : SetCatcher(b)
         \/ MainDone \/ UvReturn \/ WalkToClose
  PROVE  LoopInv' /\ ExitOnce
<1> USE DEF loop, proc, user, ticks
<1>1. TypeOK /\ Shape(stack, pc) /\ ExitInv
  BY DEF LoopInv
<1>2. /\ UNCHANGED <<stack, ticks, issued, exiting, exitCode, status, crash, late>>
      /\ \/ pc' = pc
         \/ /\ pc \in {"main", "uv", "loopTicks", "loopTest"} /\ ~Running
            /\ pc' \in {"uv", "loopTicks", "loopTest"}
         \/ pc = "exitEmit" /\ ~Running /\ pc' = "drain"
  BY DEF StartIO, EventReady, StopIO, SetCatcher, MainDone, UvReturn, WalkToClose
<1>3. /\ active' \in SUBSET (Reqs \cup Handles) /\ ready' \in SUBSET active'
      /\ closing' \in BOOLEAN /\ delivered' \in BOOLEAN /\ more' \in BOOLEAN
      /\ catcher' \in BOOLEAN
  BY <1>1 DEF TypeOK, StartIO, EventReady, StopIO, SetCatcher, MainDone, UvReturn, WalkToClose
<1>4. pc' \in {"main", "uv", "loopTicks", "loopTest", "exitEmit", "drain", "hardExit", "exited"}
  BY <1>1, <1>2 DEF TypeOK
<1>5. TypeOK'
  BY <1>1, <1>2, <1>3, <1>4 DEF TypeOK
<1>6. LoopInv'
  BY <1>2, <1>5, QuietStep
<1>7. ExitOnce
  BY <1>1, <1>2 DEF ExitOnce, ExitInv
<1> QED BY <1>6, <1>7

\* A frame returns: the next of its batch, or the queue's ticks, or nothing follows.
LEMMA ReturnStep == LoopInv /\ Return => LoopInv' /\ ExitOnce
<1> SUFFICES ASSUME LoopInv, Return PROVE LoopInv' /\ ExitOnce
  OBVIOUS
<1>1. Running /\ Top.fn # "uncaught" /\ AfterFrame(Pop, Top)
      /\ UNCHANGED <<pc, loop, catcher, proc, user>>
  BY DEF Return
<1>2. /\ LoopInv'
      /\ stack' # <<>> /\ stack'[1].fn = "exit" => Pop # <<>> /\ Pop[1].fn = "exit"
  BY <1>1, TopFrame, EndStep
<1>3. ExitOnce
  BY <1>1, <1>2, TopFrame DEF ExitOnce, Running
<1> QED BY <1>2, <1>3

\* The listeners of 'uncaughtException' return to the caller of the frame that threw.
LEMMA HandledStep == LoopInv /\ Handled => LoopInv' /\ ExitOnce
<1> SUFFICES ASSUME LoopInv, Handled PROVE LoopInv' /\ ExitOnce
  OBVIOUS
<1> DEFINE thrower == Pop[Len(Pop)]
           below   == SubSeq(Pop, 1, Len(Pop) - 1)
<1>1. /\ Running /\ Top.fn = "uncaught" /\ pc # "exited"
      /\ UNCHANGED <<pc, loop, catcher, proc, issued>>
  BY TopFrame DEF Handled
<1>2. /\ Pop \in Seq(Frame) /\ Pop # <<>> /\ Top.rest = <<>> /\ thrower.fn # "uncaught"
      /\ Placed(Pop, <<>>, queue, ran, issued)
      /\ ~Dropped => Whole(Pop, <<>>, queue, ran, issued)
      /\ Shape(Pop, pc) /\ (HasTick(Pop) => InTick)
  BY <1>1, TopFrame
<1>3. /\ thrower \in Frame /\ below \in Seq(Frame) /\ Len(below) = Len(Pop) - 1
      /\ \A i \in 1 .. Len(below) : below[i] = Pop[i]
  BY <1>2, PopFrame
<1>4. /\ Placed(below, thrower.rest, queue, ran, issued)
      /\ ~Dropped => Whole(below, thrower.rest, queue, ran, issued)
  BY <1>2, TakeBatch
<1>5. Shape(below, pc) /\ (HasTick(below) => HasTick(Pop)) /\ (below # <<>> => below[1] = Pop[1])
  BY <1>2, ShapePop
<1>6. Len(Pop) \in Nat \ {0} /\ Len(Pop) \in 1 .. Len(Pop)
  BY <1>2
<1>7. /\ thrower.fn # "tick" => thrower.rest = <<>>
      /\ thrower.fn = "tick" => HasTick(Pop)
      /\ thrower.fn = "exit" => Len(below) = 0 /\ pc \in {"hardExit", "exitEmit"}
      /\ thrower.fn = "main" => Len(below) = 0 /\ pc = "main"
  BY <1>2, <1>3, <1>6 DEF Shape, HasTick
<1>8. Len(below) = 0 => below = <<>>
  BY <1>3
<1>9. /\ thrower = stack[Len(stack) - 1] /\ below = SubSeq(stack, 1, Len(stack) - 2)
  <2>1. stack \in Seq(Frame) /\ stack # <<>>
    BY <1>1 DEF LoopInv, TypeOK, Running
  <2>2. Len(Pop) = Len(stack) - 1 /\ \A i \in 1 .. Len(Pop) : Pop[i] = stack[i]
    BY <2>1, PopFrame DEF Pop
  <2>3. thrower = stack[Len(stack) - 1]
    BY <1>6, <2>2
  <2>4. below = SubSeq(stack, 1, Len(stack) - 2)
    BY <1>6, <2>1, <2>2 DEF Pop
  <2> QED BY <2>3, <2>4
<1> HIDE DEF thrower, below
<1>10. CASE thrower.fn = "main"
  <2>1. /\ stack' = <<>> /\ ran' = ran /\ queue' = queue /\ late' = late \cup SeqSet(queue)
        /\ pc = "main"
    BY <1>7, <1>8, <1>9, <1>10 DEF Handled, ticks
  <2>2. TypeOK /\ ExitInv /\ issued' = issued /\ pc' = pc
    BY <1>1 DEF LoopInv
  <2>3. SeqSet(queue) \subseteq Ticks
    BY <2>2 DEF TypeOK, SeqSet
  <2>4. TypeOK'
    BY <1>1, <2>1, <2>2, <2>3, NoBatches DEF TypeOK, loop, proc
  <2>5. thrower.rest = <<>> /\ below = <<>>
    BY <1>7, <1>8, <1>10
  <2>6. TicksInv' /\ Shape(stack, pc)'
    BY <1>4, <1>5, <2>1, <2>2, <2>5 DEF TicksInv, Dropped
  <2>7. LateFirst'
    BY <2>1 DEF LateFirst
  <2>8. ExitInv' /\ ExitOnce
    BY <1>1, <2>1, <2>2 DEF ExitInv, ExitOnce, proc
  <2> QED BY <2>4, <2>6, <2>7, <2>8 DEF LoopInv
<1>11. CASE thrower.fn # "main"
  <2>1. AfterFrame(below, thrower) /\ UNCHANGED <<pc, loop, catcher, proc, user>>
    BY <1>9, <1>11 DEF Handled, user
  <2>2. /\ LoopInv'
        /\ stack' # <<>> /\ stack'[1].fn = "exit" => below # <<>> /\ below[1].fn = "exit"
    BY <1>1, <1>2, <1>3, <1>4, <1>5, <1>7, <1>8, <2>1, EndStep
  <2>3. ExitOnce
    BY <1>1, <1>5, <2>2, TopFrame, <1>2 DEF ExitOnce, Running
  <2> QED BY <2>2, <2>3
<1> QED BY <1>10, <1>11

\* The process ends without a call of process.exit: the stack and the ticks are dropped.
LEMMA EndOfProcess ==
  ASSUME LoopInv, exiting, NEW code \in {0, 1, 2, Aborted}, doExit(code),
         crash => code # 0 /\ exitCode' = 1, exitCode' \in {0, 1},
         UNCHANGED <<ticks, loop, catcher, exiting, crash, user>>
  PROVE  LoopInv' /\ ExitOnce
<1> USE DEF ticks, loop, user
<1>1. TypeOK /\ Placed(stack, <<>>, queue, ran, issued) /\ ExitInv
  BY DEF LoopInv, TicksInv
<1>2. stack' = <<>> /\ pc' = "exited" /\ status' = code
  BY DEF doExit
<1>3. TypeOK'
  BY <1>1, <1>2, NoBatches DEF TypeOK
<1>4. Shape(stack', pc') /\ Placed(stack', <<>>, queue, ran, issued)
  BY <1>1, <1>2, NoBatches, DropBatches
<1>5. TicksInv' /\ Shape(stack, pc)'
  BY <1>2, <1>4 DEF TicksInv, Dropped
<1>6. LateFirst' /\ ExitInv' /\ ExitOnce
  BY <1>1, <1>2 DEF LateFirst, ExitInv, InTick, Running, ExitOnce
<1> QED BY <1>3, <1>5, <1>6 DEF LoopInv

\* The ends of the process that are not calls of process.exit.
LEMMA EndActions ==
  ASSUME LoopInv, HardExit \/ UseAfterRelease \/ ReturnFromEntry
  PROVE  LoopInv' /\ ExitOnce
<1>1. /\ pc \in {"hardExit", "drain"}
      /\ UNCHANGED <<ticks, loop, catcher, exiting, exitCode, crash, user>>
      /\ \/ pc = "hardExit" /\ doExit(exitCode)
         \/ pc = "drain" /\ doExit(Aborted)
         \/ pc = "drain" /\ doExit(0)
  BY DEF HardExit, UseAfterRelease, ReturnFromEntry
<1>2. exiting /\ exitCode \in {0, 1} /\ (crash => pc = "hardExit" /\ exitCode = 1)
  BY <1>1 DEF LoopInv, ExitInv, TypeOK
<1>3. CASE pc = "hardExit" /\ doExit(exitCode)
  BY <1>1, <1>2, <1>3, EndOfProcess
<1>4. CASE pc = "drain" /\ doExit(Aborted)
  BY <1>1, <1>2, <1>4, EndOfProcess
<1>5. CASE pc = "drain" /\ doExit(0)
  BY <1>1, <1>2, <1>5, EndOfProcess
<1> QED BY <1>1, <1>3, <1>4, <1>5

\* process.exit called by the application.
LEMMA UserExitStep ==
  ASSUME LoopInv, NEW c \in {0, 1}, UserExit(c) PROVE LoopInv' /\ ExitOnce
<1>1. /\ Running /\ exit(c) /\ crash' = crash /\ pc # "exited"
      /\ UNCHANGED <<ticks, loop, catcher, user>>
  BY TopFrame DEF UserExit
<1>2. LoopInv' /\ (stack' # <<>> => ~exiting) /\ (pc' = "exited" => exiting)
  BY <1>1, ExitStep
<1> QED BY <1>2 DEF ExitOnce

\* A frame throws: listeners are called above it, or the process exits.
LEMMA ThrowStep == LoopInv /\ Throw => LoopInv' /\ ExitOnce
<1> SUFFICES ASSUME LoopInv, Throw PROVE LoopInv' /\ ExitOnce
  OBVIOUS
<1>1. Running /\ pc # "exited" /\ UNCHANGED <<ticks, loop, catcher, user>>
  BY TopFrame DEF Throw
<1>2. /\ Top.fn \in {"main", "cb", "tick", "uncaught", "exit"}
      /\ Top.fn = "exit" => pc \in {"hardExit", "exitEmit"}
  BY <1>1, TopFrame DEF Frame
<1>3. ASSUME exit(1), crash' = (crash \/ ~exiting) PROVE LoopInv' /\ ExitOnce
  <2>1. crash' = (crash \/ (1 = 1 /\ ~exiting))
    BY <1>3
  <2>2. LoopInv' /\ (stack' # <<>> => ~exiting) /\ (pc' = "exited" => exiting)
    BY <1>1, <1>3, <2>1, ExitStep
  <2> QED BY <2>2 DEF ExitOnce
<1>4. ASSUME Top.fn # "uncaught", stack' = Append(stack, Call("uncaught")),
             exitCode' = exitCode \/ (exiting /\ exitCode' = 1),
             UNCHANGED <<pc, exiting, status, crash>>
      PROVE  LoopInv' /\ ExitOnce
  <2>1. LoopInv' /\ stack[1] = stack'[1]
    BY <1>1, <1>4, CallStep
  <2> QED BY <1>1, <1>4, <2>1 DEF ExitOnce, Running
<1>5. CASE Top.fn \in {"main", "cb", "tick"}
  <2>1. CASE catcher
    BY <1>4, <1>5, <2>1 DEF Throw, onUncaughtException, proc
  <2>2. CASE ~catcher
    BY <1>3, <1>5, <2>2 DEF Throw, onUncaughtException
  <2> QED BY <2>1, <2>2
<1>6. CASE Top.fn = "uncaught"
  BY <1>3, <1>6 DEF Throw
<1>7. CASE Top.fn = "exit" /\ pc = "hardExit"
  <2>1. exiting /\ exitCode' = 1 /\ UNCHANGED <<exiting, crash>>
    BY <1>7 DEF Throw, LoopInv, ExitInv
  <2>2. CASE catcher
    BY <1>4, <1>7, <2>1, <2>2 DEF Throw
  <2>3. CASE ~catcher
    BY <1>1, <1>7, <2>1, <2>3, EndOfProcess DEF Throw
  <2> QED BY <2>2, <2>3
<1>8. CASE Top.fn = "exit" /\ pc = "exitEmit"
  <2>1. exiting /\ ~crash /\ exitCode \in {0, 1}
    BY <1>8 DEF LoopInv, ExitInv, TypeOK
  <2>2. doExit(2) /\ UNCHANGED <<exiting, exitCode, crash>>
    BY <1>8 DEF Throw
  <2> QED BY <1>1, <2>1, <2>2, EndOfProcess
<1> QED BY <1>2, <1>5, <1>6, <1>7, <1>8

\* A callback runs before the call of the API returns.
LEMMA SyncCallbackStep == LoopInv /\ SyncCallback => LoopInv' /\ ExitOnce
<1> SUFFICES ASSUME LoopInv, SyncCallback PROVE LoopInv' /\ ExitOnce
  OBVIOUS
<1>1. /\ Running /\ stack' = Append(stack, Call("cb"))
      /\ UNCHANGED <<pc, ticks, loop, catcher, proc, user>>
  BY DEF SyncCallback
<1>2. LoopInv' /\ stack[1] = stack'[1]
  BY <1>1, CallStep DEF proc
<1> QED BY <1>1, <1>2, TopFrame DEF ExitOnce, Running

\* uv_run calls back.
LEMMA DeliverStep ==
  ASSUME LoopInv, NEW r \in Reqs \cup Handles, Deliver(r) PROVE LoopInv' /\ ExitOnce
<1> USE DEF ticks, proc, user
<1>1. TypeOK /\ Shape(stack, pc) /\ TicksInv /\ ExitInv
  BY DEF LoopInv
<1>2. stack = <<>> /\ stack' = <<Call("cb")>> /\ pc' = pc /\ pc \in {"uv", "drain"}
  BY DEF Deliver, Running
<1>3. stack' \in Seq(Frame) /\ WaitingIn(stack') = {} /\ Apart(stack') /\ ~HasTick(stack')
  BY <1>2, NoBatches
<1>4. Shape(stack', pc')
  BY <1>2 DEF Shape, Call
<1>5. /\ active' \in SUBSET (Reqs \cup Handles) /\ ready' \in SUBSET active'
      /\ delivered' \in BOOLEAN /\ UNCHANGED <<pc, queue, ran, closing, more, catcher, proc, user>>
  BY <1>1 DEF TypeOK, Deliver
<1>6. TypeOK'
  BY <1>1, <1>3, <1>5 DEF TypeOK
<1>7. WaitingIn(stack) = {}
  BY <1>2, NoBatches
<1>8. TicksInv' /\ Shape(stack, pc)'
  BY <1>1, <1>3, <1>4, <1>5, <1>7, DropBatches DEF TicksInv, Dropped
<1>9. LateFirst'
  BY <1>2, <1>3 DEF LateFirst, InTick, HasTick, Running
<1>10. ExitInv' /\ ExitOnce
  BY <1>1, <1>2, <1>5 DEF ExitInv, ExitOnce, Call
<1> QED BY <1>6, <1>8, <1>9, <1>10 DEF LoopInv

\* The ticks that the do loop runs.
LEMMA LoopTicksStep == LoopInv /\ LoopTicks => LoopInv' /\ ExitOnce
<1> SUFFICES ASSUME LoopInv, LoopTicks PROVE LoopInv' /\ ExitOnce
  OBVIOUS
<1> USE DEF loop, proc, user
<1>1. TypeOK /\ TicksInv /\ ExitInv
  BY DEF LoopInv
<1>2. /\ stack = <<>> /\ pc = "loopTicks" /\ pc' = "loopTest" /\ queue' = <<>>
      /\ NextOfBatch(<<>>, queue)
  BY DEF LoopTicks, onNextTick, Running
<1>3. Placed(<<>>, queue, <<>>, ran, issued)
  BY <1>1, <1>2, EmptyBatch DEF TicksInv, Placed
<1>4. Whole(<<>>, queue, <<>>, ran, issued)
  BY <1>1, <1>2, EmptyBatch DEF TicksInv, Whole, Dropped
<1>5. /\ stack' \in Seq(Frame) /\ ran' \in SUBSET Ticks
      /\ Placed(stack', <<>>, <<>>, ran', issued)
      /\ Whole(stack', <<>>, <<>>, ran', issued)
      /\ Shape(stack', pc)
      /\ ~(stack' # <<>> /\ stack'[1].fn = "exit")
  <2>1. <<>> \in Seq(Frame) /\ queue \in Seq(Ticks) /\ ran \in SUBSET Ticks /\ Shape(<<>>, pc)
    BY <1>1, NoBatches DEF TypeOK
  <2>2. pc # "exited"
    BY <1>2
  <2> QED BY <1>2, <1>3, <1>4, <2>1, <2>2, BatchStep
<1>6. Shape(stack', pc')
  BY <1>2, <1>5 DEF Shape
<1>7. TypeOK'
  BY <1>1, <1>2, <1>5 DEF TypeOK, LoopTicks
<1>8. TicksInv' /\ Shape(stack, pc)'
  BY <1>2, <1>5, <1>6 DEF TicksInv, Dropped, LoopTicks
<1>9. LateFirst'
  BY <1>2, EmptyBatch DEF LateFirst
<1>10. ExitInv' /\ ExitOnce
  BY <1>1, <1>2, <1>5 DEF ExitInv, ExitOnce, LoopTicks
<1> QED BY <1>7, <1>8, <1>9, <1>10 DEF LoopInv

\* The do loop goes on, or 'exit' is emitted.
LEMMA LoopTestStep == LoopInv /\ LoopTest => LoopInv' /\ ExitOnce
<1> SUFFICES ASSUME LoopInv, LoopTest PROVE LoopInv' /\ ExitOnce
  OBVIOUS
<1> USE DEF ticks, user
<1>1. TypeOK /\ Shape(stack, pc) /\ TicksInv /\ LateFirst /\ ExitInv
  BY DEF LoopInv
<1>2. /\ stack = <<>> /\ pc = "loopTest" /\ ~exiting /\ ~crash
      /\ UNCHANGED <<ticks, active, ready, closing, more, catcher, status, crash, user>>
  BY <1>1 DEF LoopTest, Running, ExitInv
<1>3. CASE pc' = "uv" /\ delivered' = FALSE /\ UNCHANGED <<stack, exiting, exitCode>>
  <2>1. TypeOK'
    BY <1>1, <1>2, <1>3 DEF TypeOK
  <2>2. LoopInv'
    BY <1>2, <1>3, <2>1, QuietStep DEF Running
  <2> QED BY <1>2, <1>3, <2>2 DEF ExitOnce
<1>4. CASE pc' = "exitEmit" /\ stack' = <<Call("exit")>> /\ exiting' = TRUE /\ exitCode' = 0
           /\ UNCHANGED delivered
  <2>1. stack' \in Seq(Frame) /\ WaitingIn(stack') = {} /\ Apart(stack') /\ ~HasTick(stack')
    BY <1>4, NoBatches
  <2>2. Shape(stack', pc')
    BY <1>4 DEF Shape, Call
  <2>3. TypeOK'
    BY <1>1, <1>2, <1>4, <2>1 DEF TypeOK
  <2>4. WaitingIn(stack) = {}
    BY <1>2, NoBatches
  <2>5. /\ Placed(stack', <<>>, queue, ran, issued) /\ Whole(stack', <<>>, queue, ran, issued)
    BY <1>1, <1>2, <2>1, <2>4, DropBatches DEF TicksInv, Dropped
  <2>6. TicksInv' /\ Shape(stack, pc)'
    BY <1>2, <2>2, <2>5 DEF TicksInv, Dropped
  <2>7. LateFirst'
    BY <1>4, <2>1 DEF LateFirst, InTick, HasTick, Running
  <2>8. ExitInv' /\ ExitOnce
    BY <1>1, <1>2, <1>4 DEF ExitInv, ExitOnce
  <2> QED BY <2>3, <2>6, <2>7, <2>8 DEF LoopInv
<1> QED BY <1>3, <1>4 DEF LoopTest

-----------------------------------------------------------------------------
(* The theorems.                                                           *)

\* The invariant holds when the main script starts.
LEMMA LoopInit == Init => LoopInv
<1> SUFFICES ASSUME Init PROVE LoopInv
  OBVIOUS
<1>1. stack = <<Call("main")>> /\ pc = "main" /\ queue = <<>> /\ ran = {} /\ issued = 0 /\ late = {}
  BY DEF Init
<1>2. stack \in Seq(Frame) /\ WaitingIn(stack) = {} /\ Apart(stack) /\ ~HasTick(stack)
  BY <1>1, NoBatches
<1>3. TypeOK
  <2>1. issued \in 0 .. MaxTicks /\ queue \in Seq(Ticks)
    BY <1>1, LoopAssumption
  <2> QED BY <1>1, <1>2, <2>1 DEF Init, TypeOK
<1>4. Shape(stack, pc)
  BY <1>1 DEF Shape, Call
<1>5. TicksInv
  BY <1>1, <1>2, EmptyBatch DEF TicksInv, Placed, Whole
<1>6. LateFirst /\ ExitInv
  BY <1>1, EmptyBatch DEF Init, LateFirst, ExitInv
<1> QED BY <1>3, <1>4, <1>5, <1>6 DEF LoopInv

\* The invariant is inductive.
LEMMA LoopStep == LoopInv /\ [Next]_vars => LoopInv' /\ (ExitOnce \/ UNCHANGED vars)
<1> SUFFICES ASSUME LoopInv, [Next]_vars PROVE LoopInv' /\ (ExitOnce \/ UNCHANGED vars)
  OBVIOUS
<1>1. CASE UNCHANGED vars
  <2>1. TypeOK' <=> TypeOK
    BY <1>1 DEF vars, TypeOK
  <2>2. Shape(stack, pc)' <=> Shape(stack, pc)
    BY <1>1 DEF vars, Shape
  <2>3. TicksInv' <=> TicksInv
    BY <1>1 DEF vars, TicksInv, Dropped
  <2>4. (LateFirst' <=> LateFirst) /\ (ExitInv' <=> ExitInv)
    BY <1>1 DEF vars, LateFirst, ExitInv, InTick, Running
  <2> QED BY <1>1, <2>1, <2>2, <2>3, <2>4 DEF LoopInv
<1>2. CASE Runtime
  BY <1>2, EndActions, QuietActions, LoopTicksStep, LoopTestStep DEF Runtime
<1>3. CASE JavaScript
  BY <1>3, NextTickStep, SyncCallbackStep, ReturnStep, HandledStep, ThrowStep, QuietActions,
     UserExitStep DEF JavaScript
<1>4. CASE UseAfterRelease
  BY <1>4, EndActions
<1>5. CASE \E r \in Reqs \cup Handles : EventReady(r) \/ Deliver(r)
  BY <1>5, QuietActions, DeliverStep
<1>6. CASE Ended
  BY <1>1, <1>6 DEF Ended
<1> QED BY <1>1, <1>2, <1>3, <1>4, <1>5, <1>6 DEF Next

\* The invariant holds in every run of the loop.
THEOREM LoopInvariant == Spec => []LoopInv
  BY LoopInit, LoopStep, PTL DEF Spec

\* Every variable of the event loop keeps its type.
THEOREM LoopTypes == Spec => []TypeOK
<1>1. LoopInv => TypeOK
  BY DEF LoopInv
<1> QED BY <1>1, LoopInvariant, PTL

\* No next tick callback is lost or runs twice, whatever the callbacks, the exceptions
\* and the nested calls of _onNextTick (its clone-and-empty in iotjs.js) do, and the
\* loop never waits for I/O with a tick of the main script or of a callback queued.
THEOREM TicksAreConserved == Spec => []TicksConserved
<1>1. LoopInv => TicksConserved
  <2> SUFFICES ASSUME LoopInv PROVE TicksConserved
    OBVIOUS
  <2>1. Waiting = WaitingIn(stack)
    BY DEF Waiting, WaitingIn
  <2>2. TickInOnePlace
    BY <2>1, EmptyBatch DEF LoopInv, TicksInv, Placed, Whole, Apart, TickInOnePlace, Dropped
  <2> QED BY <2>2 DEF LoopInv, LateFirst, TicksConserved
<1> QED BY <1>1, LoopInvariant, PTL

\* 'exit' is emitted once on every way out of the process, and a process that
\* threw an exception nobody caught never reports success (iotjs.js, emitExit and
\* process.exit; iotjs.c, iotjs_start).
THEOREM ExitIsEmittedOnce == Spec => ExitEmittedOnce
<1>1. LoopInv /\ LoopInv' /\ (ExitOnce \/ UNCHANGED vars)
        => [/\ (stack' # <<>> /\ stack'[1].fn = "exit" /\ ~(stack # <<>> /\ stack[1].fn = "exit"))
                 => ~exiting
            /\ pc' = "exited" => exiting /\ (crash' => status' # 0)]_vars
  BY DEF LoopInv, ExitInv, ExitOnce
<1> QED BY <1>1, LoopInvariant, LoopStep, PTL DEF Spec, ExitEmittedOnce

-----------------------------------------------------------------------------
(* The timers.                                                             *)

\* The timers of h are in the order of their due times d.
Ordered(h, d) == \A i, j \in 1 .. Len(h) : i <= j => d[h[i]] <= d[h[j]]

\* The heap holds each active timer once, in the order of expiry; a timer that is
\* overdue expires before the next poll, so none is ever overdue by more than one.
HeapInv ==
  /\ IsInjective(heap)
  /\ \A t \in Timer : uv[t] = "active" <=> t \in Range(heap)
  /\ Ordered(heap, left)
  /\ phase = "poll" => \A i \in 1 .. Len(heap) : left[heap[i]] >= 0

\* The wrapper's reference lasts exactly as long as the handle, close() clears the
\* callback and the handler together, a timer in the heap has both, and the timer
\* whose callback runs has its object.
LifeInv ==
  /\ \A t \in Timer : /\ ref[t] <=> uv[t] \in {"active", "idle", "closing"}
                      /\ object[t] = "none" <=> uv[t] = "none"
                      /\ object[t] = "freed" => uv[t] = "closed"
                      /\ callback[t] <=> attached[t]
                      /\ attached[t] => uv[t] \in {"active", "idle"}
                      /\ uv[t] = "active" => attached[t]
  /\ running \in Timer =>
       phase = "timers" /\ fired[running] = "called" /\ object[running] = "live"

TimersInv == TTypeOK /\ HeapInv /\ LifeInv /\ OneShotOnce

-----------------------------------------------------------------------------
(* The heap.                                                               *)

\* The relation that orders the natural numbers.
Less == {ss \in Nat \X Nat : ss[1] < ss[2]}

\* A set of natural numbers that is not empty has a least element.
LEMMA LeastElement ==
  ASSUME NEW T, T \subseteq Nat, T # {}
  PROVE  \E x \in T : \A y \in T : x <= y
<1>1. IsWellFoundedOn(Less, Nat)
  BY NatLessThanWellFounded, Zenon DEF OpToRel, Less
<1>2. PICK x \in T : \A y \in T : ~ (<<y, x>> \in Less)
  BY <1>1, WFMin, Zenon
<1>3. ASSUME NEW y \in T PROVE x <= y
  <2>1. x \in Nat /\ y \in Nat
    OBVIOUS
  <2>2. ~(y < x)
    BY <1>2, <2>1 DEF Less
  <2> QED BY <2>1, <2>2
<1> QED BY <1>3

\* There is a last timer that is due no later, or none is.
LEMMA LastDue ==
  ASSUME NEW h \in Seq(Timer), NEW d \in [Timer -> Int], NEW due \in Int
  PROVE  \E k \in 0 .. Len(h) : /\ k > 0 => d[h[k]] <= due
                                /\ \A i \in k + 1 .. Len(h) : d[h[i]] > due
<1> DEFINE T == {k \in 0 .. Len(h) : \A i \in k + 1 .. Len(h) : d[h[i]] > due}
<1>1. Len(h) \in T /\ T \subseteq Nat /\ \A i \in 1 .. Len(h) : d[h[i]] \in Int
  OBVIOUS
<1>2. PICK k \in T : \A y \in T : k <= y
  BY <1>1, LeastElement
<1>3. k > 0 => d[h[k]] <= due
  <2>1. SUFFICES ASSUME k > 0, d[h[k]] > due PROVE FALSE
    BY <1>1, <1>2
  <2>2. k - 1 \in T
    BY <1>1, <1>2, <2>1
  <2>3. k \in Nat /\ k <= k - 1
    BY <1>1, <1>2, <2>2
  <2> QED BY <2>3
<1> QED BY <1>2, <1>3

\* A timer is put into a heap at position k + 1.
LEMMA InsertedAt ==
  ASSUME NEW h \in Seq(Timer), NEW t \in Timer, NEW k \in 0 .. Len(h)
  PROVE  LET s == InsertAt(h, k + 1, t)
         IN  /\ s \in Seq(Timer) /\ Len(s) = Len(h) + 1 /\ s[k + 1] = t
             /\ \A i \in 1 .. k : s[i] = h[i]
             /\ \A i \in k + 2 .. Len(h) + 1 : s[i] = h[i - 1]
<1> DEFINE a == SubSeq(h, 1, k)
           b == SubSeq(h, k + 1, Len(h))
           c == a \o <<t>>
           s == c \o b
<1>0. k \in Nat /\ Len(h) \in Nat /\ k <= Len(h) /\ (k + 1) - 1 = k
  OBVIOUS
<1>1. a \in Seq(Timer) /\ Len(a) = k /\ \A i \in 1 .. k : a[i] = h[i]
  OBVIOUS
<1>2. b \in Seq(Timer) /\ Len(b) = Len(h) - k /\ \A i \in 1 .. Len(b) : b[i] = h[k + i]
  OBVIOUS
<1>3. InsertAt(h, k + 1, t) = s
  BY <1>0 DEF InsertAt
<1> HIDE DEF a, b
<1>4. c \in Seq(Timer) /\ Len(c) = k + 1 /\ c[k + 1] = t /\ \A i \in 1 .. k : c[i] = h[i]
  BY <1>1
<1> HIDE DEF c
<1>5. /\ s \in Seq(Timer) /\ Len(s) = Len(c) + Len(b)
      /\ \A i \in 1 .. Len(c) + Len(b) : s[i] = IF i <= Len(c) THEN c[i] ELSE b[i - Len(c)]
  BY <1>2, <1>4, ConcatProperties
<1> HIDE DEF s
<1>6. Len(c) = k + 1 /\ Len(b) = Len(h) - k /\ Len(c) + Len(b) = Len(h) + 1
  BY <1>0, <1>2, <1>4
<1>7. Len(s) = Len(h) + 1 /\ s[k + 1] = t /\ \A i \in 1 .. k : s[i] = h[i]
  <2>1. \A i \in 1 .. k + 1 : i \in 1 .. Len(c) + Len(b) /\ i <= Len(c)
    BY <1>0, <1>6
  <2>2. \A i \in 1 .. k + 1 : s[i] = c[i]
    BY <1>5, <2>1
  <2>3. k + 1 \in 1 .. k + 1 /\ 1 .. k \subseteq 1 .. k + 1
    BY <1>0
  <2> QED BY <1>4, <1>5, <1>6, <2>2, <2>3
<1>8. ASSUME NEW i \in k + 2 .. Len(h) + 1 PROVE s[i] = h[i - 1]
  <2>1. s[i] = b[i - (k + 1)] /\ i - (k + 1) \in 1 .. Len(b)
    <3>1. i \in 1 .. Len(c) + Len(b) /\ ~(i <= Len(c)) /\ i - (k + 1) \in 1 .. Len(b)
      BY <1>0, <1>6
    <3> QED BY <1>5, <1>6, <3>1
  <2>2. k + (i - (k + 1)) = i - 1
    BY <1>0
  <2> QED BY <1>2, <2>1, <2>2
<1> QED BY <1>3, <1>5, <1>7, <1>8

\* A timer is taken out of a heap at position k.
LEMMA RemovedAt ==
  ASSUME NEW h \in Seq(Timer), NEW k \in 1 .. Len(h)
  PROVE  LET s == RemoveAt(h, k)
         IN  /\ s \in Seq(Timer) /\ Len(s) = Len(h) - 1
             /\ \A i \in 1 .. Len(s) : s[i] = IF i < k THEN h[i] ELSE h[i + 1]
<1> DEFINE a == SubSeq(h, 1, k - 1)
           b == SubSeq(h, k + 1, Len(h))
           s == a \o b
<1>0. k \in Nat /\ Len(h) \in Nat /\ k >= 1 /\ k <= Len(h)
  OBVIOUS
<1>1. a \in Seq(Timer) /\ Len(a) = k - 1 /\ \A i \in 1 .. k - 1 : a[i] = h[i]
  OBVIOUS
<1>2. b \in Seq(Timer) /\ Len(b) = Len(h) - k /\ \A i \in 1 .. Len(b) : b[i] = h[k + i]
  OBVIOUS
<1>3. RemoveAt(h, k) = s
  BY DEF RemoveAt
<1> HIDE DEF a, b
<1>4. /\ s \in Seq(Timer) /\ Len(s) = Len(a) + Len(b)
      /\ \A i \in 1 .. Len(a) + Len(b) : s[i] = IF i <= Len(a) THEN a[i] ELSE b[i - Len(a)]
  BY <1>1, <1>2, ConcatProperties
<1> HIDE DEF s
<1>5. ASSUME NEW i \in 1 .. Len(s) PROVE s[i] = IF i < k THEN h[i] ELSE h[i + 1]
  <2>1. CASE i < k
    BY <1>0, <1>1, <1>2, <1>4, <2>1
  <2>2. CASE ~(i < k)
    <3>1. s[i] = b[i - (k - 1)] /\ i - (k - 1) \in 1 .. Len(b)
      BY <1>0, <1>1, <1>2, <1>4, <2>2
    <3>2. k + (i - (k - 1)) = i + 1
      BY <1>0
    <3> QED BY <1>2, <2>2, <3>1, <3>2
  <2> QED BY <2>1, <2>2
<1>6. Len(s) = Len(h) - 1
  BY <1>0, <1>1, <1>2, <1>4
<1> QED BY <1>3, <1>4, <1>5, <1>6

\* The elements of a heap.
LEMMA InHeap ==
  ASSUME NEW h \in Seq(Timer), NEW i \in 1 .. Len(h)
  PROVE  h[i] \in Range(h) /\ h[i] \in Timer
  BY DEF Range

\* uv_timer_start keeps the heap ordered and adds one timer.
LEMMA InsertHeap ==
  ASSUME NEW h \in Seq(Timer), NEW t \in Timer, NEW due \in Int, left \in [Timer -> Int],
         IsInjective(h), t \notin Range(h)
  PROVE  LET s == Insert(h, t, due)
         IN  /\ s \in Seq(Timer) /\ IsInjective(s) /\ Range(s) = Range(h) \cup {t}
             /\ Ordered(h, left) => Ordered(s, [left EXCEPT ![t] = due])
<1> DEFINE P(k) == /\ k > 0 => left[h[k]] <= due
                   /\ \A i \in k + 1 .. Len(h) : left[h[i]] > due
           k == CHOOSE k \in 0 .. Len(h) : P(k)
           s == InsertAt(h, k + 1, t)
           d == [left EXCEPT ![t] = due]
<1>1. k \in 0 .. Len(h) /\ P(k)
  <2>1. \E x \in 0 .. Len(h) : P(x)
    BY LastDue
  <2> HIDE DEF P
  <2> QED BY <2>1
<1>2. Insert(h, t, due) = s
  BY Zenon DEF Insert
<1> HIDE DEF k
<1>3. /\ s \in Seq(Timer) /\ Len(s) = Len(h) + 1 /\ s[k + 1] = t
      /\ \A i \in 1 .. k : s[i] = h[i]
      /\ \A i \in k + 2 .. Len(h) + 1 : s[i] = h[i - 1]
  BY <1>1, InsertedAt
<1> HIDE DEF s
<1>4. k \in Nat /\ Len(h) \in Nat /\ k <= Len(h) /\ DOMAIN h = 1 .. Len(h) /\ DOMAIN s = 1 .. Len(s)
  BY <1>1, <1>3
<1>5. \A i \in 1 .. Len(h) : h[i] \in Timer /\ h[i] # t /\ h[i] \in Range(h)
  BY <1>4 DEF Range
<1>6. ASSUME NEW i \in 1 .. Len(s)
      PROVE  \/ i <= k /\ i \in 1 .. Len(h) /\ s[i] = h[i]
             \/ i = k + 1 /\ s[i] = t
             \/ i > k + 1 /\ i - 1 \in 1 .. Len(h) /\ s[i] = h[i - 1]
  BY <1>3, <1>4
<1>7. IsInjective(s)
  <2>1. \A i, j \in 1 .. Len(h) : h[i] = h[j] => i = j
    BY <1>4 DEF IsInjective
  <2>2. ASSUME NEW i \in 1 .. Len(s), NEW j \in 1 .. Len(s), s[i] = s[j] PROVE i = j
    <3>1. CASE s[i] = t
      BY <1>5, <1>6, <2>2, <3>1
    <3>2. CASE s[i] # t
      <4>0. ASSUME NEW x \in 1 .. Len(s), s[x] # t
            PROVE  \E y \in 1 .. Len(h) : s[x] = h[y] /\ x = IF y <= k THEN y ELSE y + 1
        <5>1. CASE x <= k
          BY <1>4, <1>6, <4>0, <5>1
        <5>2. CASE x > k
          <6>1. x - 1 \in 1 .. Len(h) /\ s[x] = h[x - 1] /\ ~(x - 1 <= k) /\ (x - 1) + 1 = x
            BY <1>4, <1>6, <4>0, <5>2
          <6> QED BY <6>1
        <5> QED BY <1>4, <5>1, <5>2
      <4>1. PICK ii \in 1 .. Len(h) : s[i] = h[ii] /\ i = IF ii <= k THEN ii ELSE ii + 1
        BY <3>2, <4>0
      <4>2. PICK jj \in 1 .. Len(h) : s[j] = h[jj] /\ j = IF jj <= k THEN jj ELSE jj + 1
        BY <2>2, <3>2, <4>0
      <4>3. ii = jj
        BY <2>1, <2>2, <4>1, <4>2
      <4> QED BY <4>1, <4>2, <4>3
    <3> QED BY <3>1, <3>2
  <2> QED BY <1>4, <2>2 DEF IsInjective
<1>8. Range(s) = Range(h) \cup {t}
  <2>1. ASSUME NEW x \in Range(s) PROVE x \in Range(h) \cup {t}
    <3>1. PICK i \in 1 .. Len(s) : x = s[i]
      BY <1>4 DEF Range
    <3> QED BY <1>5, <1>6, <3>1
  <2>2. t \in Range(s)
    <3>1. k + 1 \in 1 .. Len(s)
      BY <1>3, <1>4
    <3> QED BY <1>3, <1>4, <3>1 DEF Range
  <2>3. ASSUME NEW x \in Range(h) PROVE x \in Range(s)
    <3>1. PICK i \in 1 .. Len(h) : x = h[i]
      BY <1>4 DEF Range
    <3>2. CASE i <= k
      <4>1. i \in 1 .. Len(s) /\ s[i] = h[i]
        BY <1>3, <1>4, <3>2
      <4> QED BY <1>4, <3>1, <4>1 DEF Range
    <3>3. CASE i > k
      <4>1. i + 1 \in 1 .. Len(s) /\ i + 1 \in k + 2 .. Len(h) + 1 /\ (i + 1) - 1 = i
        BY <1>3, <1>4, <3>3
      <4>2. s[i + 1] = h[i]
        BY <1>3, <4>1
      <4> QED BY <1>4, <3>1, <4>1, <4>2 DEF Range
    <3> QED BY <1>4, <3>2, <3>3
  <2> QED BY <2>1, <2>2, <2>3
<1>9. ASSUME Ordered(h, left) PROVE Ordered(s, d)
  <2>1. d[t] = due /\ \A i \in 1 .. Len(h) : d[h[i]] = left[h[i]] /\ left[h[i]] \in Int
    BY <1>5
  <2> HIDE DEF d
  <2>2. \A i \in 1 .. Len(h) : (i <= k => left[h[i]] <= due) /\ (i > k => left[h[i]] > due)
    <3>1. ASSUME NEW i \in 1 .. Len(h), i <= k PROVE left[h[i]] <= due
      <4>1. k \in 1 .. Len(h) /\ k > 0
        BY <1>4, <3>1
      <4>2. left[h[i]] <= left[h[k]] /\ left[h[k]] <= due
        BY <1>1, <1>9, <3>1, <4>1 DEF Ordered
      <4> QED BY <2>1, <4>1, <4>2
    <3>2. ASSUME NEW i \in 1 .. Len(h), i > k PROVE left[h[i]] > due
      BY <1>1, <1>4, <3>2
    <3> QED BY <3>1, <3>2
  <2> HIDE DEF P
  <2>3. ASSUME NEW i \in 1 .. Len(s), NEW j \in 1 .. Len(s), i <= j PROVE d[s[i]] <= d[s[j]]
    <3>1. CASE i <= k /\ j <= k
      <4>1. i \in 1 .. Len(h) /\ j \in 1 .. Len(h) /\ s[i] = h[i] /\ s[j] = h[j]
        BY <1>4, <1>6, <3>1
      <4> QED BY <1>9, <2>1, <2>3, <4>1 DEF Ordered
    <3>2. CASE i <= k /\ j = k + 1
      BY <1>4, <1>6, <2>1, <2>2, <3>2
    <3>3. CASE i <= k /\ j > k + 1
      <4>1. /\ i \in 1 .. Len(h) /\ s[i] = h[i]
            /\ j - 1 \in 1 .. Len(h) /\ s[j] = h[j - 1] /\ j - 1 > k
        BY <1>4, <1>6, <3>3
      <4>2. left[h[i]] <= due /\ left[h[j - 1]] > due
        BY <2>2, <3>3, <4>1
      <4>3. left[h[i]] \in Int /\ left[h[j - 1]] \in Int
        BY <2>1, <4>1
      <4>4. d[h[i]] = left[h[i]]
        BY <2>1, <4>1
      <4>5. d[h[j - 1]] = left[h[j - 1]]
        BY <2>1, <4>1
      <4> QED BY <4>1, <4>2, <4>3, <4>4, <4>5
    <3>4. CASE i = k + 1 /\ j = k + 1
      BY <1>3, <2>1, <3>4
    <3>5. CASE i = k + 1 /\ j > k + 1
      <4>1. s[i] = t /\ j - 1 \in 1 .. Len(h) /\ s[j] = h[j - 1] /\ j - 1 > k
        BY <1>3, <1>4, <1>6, <3>5
      <4>2. left[h[j - 1]] > due /\ left[h[j - 1]] \in Int
        BY <2>1, <2>2, <4>1
      <4>3. d[s[i]] = due /\ d[s[j]] = left[h[j - 1]]
        BY <2>1, <4>1
      <4> QED BY <4>2, <4>3
    <3>6. CASE i > k + 1 /\ j > k + 1
      <4>1. /\ i - 1 \in 1 .. Len(h) /\ s[i] = h[i - 1] /\ i - 1 <= j - 1
            /\ j - 1 \in 1 .. Len(h) /\ s[j] = h[j - 1]
        BY <1>4, <1>6, <2>3, <3>6
      <4> QED BY <1>9, <2>1, <4>1 DEF Ordered
    <3> QED BY <1>4, <2>3, <3>1, <3>2, <3>3, <3>4, <3>5, <3>6
  <2> QED BY <2>3 DEF Ordered
<1> QED BY <1>2, <1>3, <1>7, <1>8, <1>9

\* A heap s that is h without its element at k.
LEMMA ShorterHeap ==
  ASSUME NEW h \in Seq(Timer), NEW k \in 1 .. Len(h), NEW s \in Seq(Timer), NEW d,
         Len(s) = Len(h) - 1, IsInjective(h),
         \A i \in 1 .. Len(s) : s[i] = IF i < k THEN h[i] ELSE h[i + 1]
  PROVE  /\ IsInjective(s) /\ Range(s) = Range(h) \ {h[k]}
         /\ Ordered(h, d) => Ordered(s, d)
<1>1. /\ Len(h) \in Nat /\ k \in Nat /\ DOMAIN h = 1 .. Len(h) /\ DOMAIN s = 1 .. Len(s)
      /\ 1 <= k /\ k <= Len(h)
  OBVIOUS
<1>2. ASSUME NEW i \in 1 .. Len(s)
      PROVE  \/ i < k /\ i \in 1 .. Len(h) /\ s[i] = h[i]
             \/ i >= k /\ i + 1 \in 1 .. Len(h) /\ s[i] = h[i + 1]
  BY <1>1
<1>3. \A i, j \in 1 .. Len(h) : h[i] = h[j] => i = j
  BY <1>1 DEF IsInjective
<1>4. IsInjective(s)
  <2>1. ASSUME NEW i \in 1 .. Len(s), NEW j \in 1 .. Len(s), s[i] = s[j] PROVE i = j
    BY <1>1, <1>2, <1>3, <2>1
  <2> QED BY <1>1, <2>1 DEF IsInjective
<1>5. Range(s) = Range(h) \ {h[k]}
  <2>1. ASSUME NEW x \in Range(s) PROVE x \in Range(h) /\ x # h[k]
    <3>1. PICK i \in 1 .. Len(s) : x = s[i]
      BY <1>1 DEF Range
    <3>2. CASE i < k
      BY <1>1, <1>2, <1>3, <3>1, <3>2 DEF Range
    <3>3. CASE i >= k
      <4>1. i + 1 \in 1 .. Len(h) /\ x = h[i + 1] /\ i + 1 # k
        BY <1>1, <1>2, <3>1, <3>3
      <4> QED BY <1>1, <1>3, <4>1 DEF Range
    <3> QED BY <1>1, <3>2, <3>3
  <2>2. ASSUME NEW x \in Range(h), x # h[k] PROVE x \in Range(s)
    <3>1. PICK i \in 1 .. Len(h) : x = h[i]
      BY <1>1 DEF Range
    <3>2. CASE i < k
      <4>1. i \in 1 .. Len(s) /\ s[i] = h[i]
        BY <1>1, <3>2
      <4> QED BY <1>1, <3>1, <4>1 DEF Range
    <3>3. CASE i > k
      <4>1. i - 1 \in 1 .. Len(s) /\ ~(i - 1 < k) /\ (i - 1) + 1 = i
        BY <1>1, <3>3
      <4>2. s[i - 1] = h[i]
        BY <4>1
      <4> QED BY <1>1, <3>1, <4>1, <4>2 DEF Range
    <3> QED BY <1>1, <2>2, <3>1, <3>2, <3>3
  <2> QED BY <2>1, <2>2
<1>6. ASSUME Ordered(h, d) PROVE Ordered(s, d)
  <2>1. ASSUME NEW i \in 1 .. Len(s), NEW j \in 1 .. Len(s), i <= j PROVE d[s[i]] <= d[s[j]]
    <3>1. PICK ii \in 1 .. Len(h), jj \in 1 .. Len(h) : s[i] = h[ii] /\ s[j] = h[jj] /\ ii <= jj
      <4>1. CASE j < k
        BY <1>1, <1>2, <2>1, <4>1
      <4>2. CASE i < k /\ j >= k
        BY <1>1, <1>2, <2>1, <4>2
      <4>3. CASE i >= k
        BY <1>1, <1>2, <2>1, <4>3
      <4> QED BY <1>1, <4>1, <4>2, <4>3
    <3> QED BY <1>6, <3>1 DEF Ordered
  <2> QED BY <2>1 DEF Ordered
<1> QED BY <1>4, <1>5, <1>6

\* The first timer leaves the heap.
LEMMA TailHeap ==
  ASSUME NEW h \in Seq(Timer), h # <<>>, IsInjective(h), NEW d
  PROVE  /\ Head(h) \in Range(h) /\ Head(h) \in Timer
         /\ Tail(h) \in Seq(Timer) /\ IsInjective(Tail(h))
         /\ Range(Tail(h)) = Range(h) \ {Head(h)}
         /\ Ordered(h, d) => Ordered(Tail(h), d)
<1>1. /\ Head(h) = h[1] /\ Tail(h) \in Seq(Timer) /\ Len(Tail(h)) = Len(h) - 1
      /\ 1 \in 1 .. Len(h) /\ h[1] \in Timer
      /\ \A i \in 1 .. Len(Tail(h)) : Tail(h)[i] = h[i + 1]
  OBVIOUS
<1>2. \A i \in 1 .. Len(Tail(h)) : Tail(h)[i] = IF i < 1 THEN h[i] ELSE h[i + 1]
  BY <1>1
<1>3. /\ IsInjective(Tail(h)) /\ Range(Tail(h)) = Range(h) \ {h[1]}
      /\ Ordered(h, d) => Ordered(Tail(h), d)
  BY <1>1, <1>2, ShorterHeap
<1>4. h[1] \in Range(h)
  BY <1>1 DEF Range
<1> QED BY <1>1, <1>3, <1>4

\* uv_close takes the timer out of the heap.
LEMMA WithoutHeap ==
  ASSUME NEW h \in Seq(Timer), IsInjective(h), NEW t, NEW d
  PROVE  /\ Without(h, t) \in Seq(Timer) /\ IsInjective(Without(h, t))
         /\ Range(Without(h, t)) = Range(h) \ {t}
         /\ Ordered(h, d) => Ordered(Without(h, t), d)
<1>1. CASE t \in Range(h)
  <2> DEFINE k == CHOOSE k \in 1 .. Len(h) : h[k] = t
             s == RemoveAt(h, k)
  <2>1. k \in 1 .. Len(h) /\ h[k] = t
    <3>1. \E x \in 1 .. Len(h) : h[x] = t
      BY <1>1 DEF Range
    <3> QED BY <3>1
  <2>2. Without(h, t) = s
    BY <1>1 DEF Without
  <2> HIDE DEF k
  <2>3. /\ s \in Seq(Timer) /\ Len(s) = Len(h) - 1
        /\ \A i \in 1 .. Len(s) : s[i] = IF i < k THEN h[i] ELSE h[i + 1]
    BY <2>1, RemovedAt
  <2> HIDE DEF s
  <2> QED BY <2>1, <2>2, <2>3, ShorterHeap
<1>2. CASE t \notin Range(h)
  BY <1>2 DEF Without
<1> QED BY <1>1, <1>2

-----------------------------------------------------------------------------
(* Every action keeps the invariant.                                       *)

\* A heap's due times are numbers, and the wrapper's facts by timer.
LEMMA TimerFacts ==
  ASSUME TTypeOK
  PROVE  /\ left \in [Timer -> Int] /\ after \in [Timer -> Int]
         /\ Never = TimeoutMax + 1 /\ TimeoutMax \in Nat
         /\ \A t \in Timer : left[t] = Never \/ left[t] <= TimeoutMax
  BY TimersAssumption DEF TTypeOK, Never

\* Timeout.close() keeps the invariant of the handles and of the heap.
LEMMA CloseStep ==
  ASSUME TimersInv, NEW t \in Timer, close(t)
  PROVE  /\ callback' = [callback EXCEPT ![t] = FALSE]
         /\ attached' = [attached EXCEPT ![t] = FALSE]
         /\ uv' = IF attached[t] THEN [uv EXCEPT ![t] = "closing"] ELSE uv
         /\ heap' \in Seq(Timer) /\ IsInjective(heap')
         /\ Range(heap') = Range(heap) \ {t}
         /\ Ordered(heap', left)
         /\ phase = "poll" => \A i \in 1 .. Len(heap') : left[heap'[i]] >= 0
<1>1. heap \in Seq(Timer) /\ IsInjective(heap) /\ Ordered(heap, left)
  BY DEF TimersInv, TTypeOK, HeapInv
<1>2. attached[t] => uv[t] \in {"active", "idle"}
  BY DEF TimersInv, LifeInv
<1>3. ~attached[t] => t \notin Range(heap)
  BY DEF TimersInv, LifeInv, HeapInv
<1>4. /\ heap' \in Seq(Timer) /\ IsInjective(heap') /\ Range(heap') = Range(heap) \ {t}
      /\ Ordered(heap', left)
      /\ uv' = IF attached[t] THEN [uv EXCEPT ![t] = "closing"] ELSE uv
  <2>1. CASE attached[t]
    <3>1. heap' = Without(heap, t) /\ uv' = [uv EXCEPT ![t] = "closing"]
      BY <1>2, <2>1 DEF close, Stop
    <3> QED BY <1>1, <2>1, <3>1, WithoutHeap
  <2>2. CASE ~attached[t]
    BY <1>1, <1>3, <2>2 DEF close
  <2> QED BY <2>1, <2>2
<1>5. ASSUME phase = "poll", NEW i \in 1 .. Len(heap') PROVE left[heap'[i]] >= 0
  <2>1. heap'[i] \in Range(heap')
    BY <1>4 DEF Range
  <2>2. heap'[i] \in Range(heap)
    BY <1>4, <2>1
  <2>3. PICK j \in 1 .. Len(heap) : heap[j] = heap'[i]
    BY <1>1, <2>2 DEF Range
  <2> QED BY <1>5, <2>3 DEF TimersInv, HeapInv
<1> QED BY <1>4, <1>5 DEF close

\* The callback is over or the application clears the timer: what close() leaves.
LEMMA ClosedTimer ==
  ASSUME TimersInv, NEW t \in Timer, close(t),
         UNCHANGED <<phase, isrepeat, after, held, left, gc>>,
         \/ UNCHANGED <<running, fired>>
         \/ /\ running = t /\ running' = NoTimer
            /\ fired' = [fired EXCEPT ![t] = "returned"]
  PROVE  TimersInv'
<1> USE DEF gc
<1>1. TTypeOK /\ HeapInv /\ LifeInv /\ OneShotOnce
  BY DEF TimersInv
<1>2. /\ callback' = [callback EXCEPT ![t] = FALSE]
      /\ attached' = [attached EXCEPT ![t] = FALSE]
      /\ uv' = IF attached[t] THEN [uv EXCEPT ![t] = "closing"] ELSE uv
      /\ heap' \in Seq(Timer) /\ IsInjective(heap')
      /\ Range(heap') = Range(heap) \ {t}
      /\ Ordered(heap', left)
      /\ phase = "poll" => \A i \in 1 .. Len(heap') : left[heap'[i]] >= 0
  BY CloseStep
<1>3. attached[t] => uv[t] \in {"active", "idle"}
  BY <1>1 DEF LifeInv
<1>4. NoTimer \notin Timer
  BY TimersAssumption
<1>5. TTypeOK'
  BY <1>1, <1>2 DEF TTypeOK
<1>6. HeapInv'
  <2>1. ASSUME NEW u \in Timer PROVE uv'[u] = "active" <=> u \in Range(heap')
    BY <1>1, <1>2, <1>3 DEF HeapInv, LifeInv, TTypeOK
  <2> QED BY <1>1, <1>2, <2>1 DEF HeapInv
<1>7. LifeInv'
  BY <1>1, <1>2, <1>3, <1>4 DEF LifeInv, TTypeOK
<1>8. OneShotOnce'
  BY <1>1, <1>2, <1>3 DEF OneShotOnce, TTypeOK, LifeInv
<1> QED BY <1>5, <1>6, <1>7, <1>8 DEF TimersInv

\* setTimeout and setInterval start a timer that is in no heap.
LEMMA SetStep ==
  ASSUME TimersInv, NEW t \in Timer, NEW delay \in Delays, NEW repeat \in BOOLEAN,
         Set(t, delay, repeat)
  PROVE  TimersInv'
<1> USE DEF timerwrap_create
<1>1. TTypeOK /\ HeapInv /\ LifeInv /\ OneShotOnce
  BY DEF TimersInv
<1>2. PICK a \in toInt64(inRange(delay)) :
           /\ after' = [after EXCEPT ![t] = a] /\ left' = [left EXCEPT ![t] = a]
           /\ heap' = Insert(heap, t, a)
  BY DEF Set
<1>3. a \in 0 .. TimeoutMax \cup {Never} /\ a \in Int /\ a >= 0
  BY TimersAssumption DEF toInt64, inRange, Never
<1>4. uv[t] \in {"none", "closed"} /\ t # running
  BY <1>1 DEF Set, LifeInv, TTypeOK
<1>5. t \notin Range(heap) /\ heap \in Seq(Timer) /\ IsInjective(heap) /\ Ordered(heap, left)
  BY <1>1, <1>4 DEF HeapInv, TTypeOK
<1>6. left \in [Timer -> Int]
  BY <1>1, TimerFacts
<1>7. /\ heap' \in Seq(Timer) /\ IsInjective(heap') /\ Range(heap') = Range(heap) \cup {t}
      /\ Ordered(heap', left')
  BY <1>2, <1>3, <1>5, <1>6, InsertHeap
<1>8. TTypeOK'
  <2>1. /\ after' \in [Timer -> 0 .. TimeoutMax \cup {Never}]
        /\ left' \in [Timer -> -MaxJump .. TimeoutMax \cup {Never}]
    BY <1>1, <1>2, <1>3, TimersAssumption DEF TTypeOK
  <2> QED BY <1>1, <1>7, <2>1 DEF TTypeOK, Set
<1>9. HeapInv'
  <2>1. ASSUME NEW u \in Timer PROVE uv'[u] = "active" <=> u \in Range(heap')
    BY <1>1, <1>7 DEF HeapInv, TTypeOK, Set
  <2>2. ASSUME phase' = "poll", NEW i \in 1 .. Len(heap') PROVE left'[heap'[i]] >= 0
    <3>1. heap'[i] \in Range(heap) \cup {t}
      <4>1. heap'[i] \in Range(heap')
        BY <1>7, InHeap
      <4> QED BY <1>7, <4>1
    <3>2. CASE heap'[i] = t
      BY <1>2, <1>3, <1>6, <3>2
    <3>3. CASE heap'[i] \in Range(heap) /\ heap'[i] # t
      <4>1. PICK j \in 1 .. Len(heap) : heap[j] = heap'[i]
        BY <1>5, <3>3 DEF Range
      <4>2. left[heap[j]] >= 0
        BY <1>1, <2>2, <4>1 DEF HeapInv, Set
      <4>3. heap[j] \in Timer
        BY <1>5
      <4> QED BY <1>2, <1>6, <3>3, <4>1, <4>2, <4>3
    <3> QED BY <3>1, <3>2, <3>3
  <2> QED BY <1>7, <2>1, <2>2 DEF HeapInv
<1>10. LifeInv'
  BY <1>1, <1>4 DEF LifeInv, TTypeOK, Set
<1>11. OneShotOnce'
  BY <1>1, <1>4 DEF OneShotOnce, TTypeOK, Set
<1> QED BY <1>8, <1>9, <1>10, <1>11 DEF TimersInv

\* A timer expires: it leaves the heap, or is started again if it repeats.
LEMMA OnTimeoutStep == TimersInv /\ onTimeout => TimersInv'
<1> SUFFICES ASSUME TimersInv, onTimeout PROVE TimersInv'
  OBVIOUS
<1> USE DEF js, gc
<1> DEFINE t == Head(heap)
           again == isrepeat[t] /\ after[t] > 0
<1>1. TTypeOK /\ HeapInv /\ LifeInv /\ OneShotOnce
  BY DEF TimersInv
<1>2. heap # <<>> /\ heap \in Seq(Timer) /\ IsInjective(heap) /\ Ordered(heap, left)
  BY <1>1 DEF onTimeout, Expired, HeapInv, TTypeOK
<1>3. /\ t \in Range(heap) /\ t \in Timer
      /\ Tail(heap) \in Seq(Timer) /\ IsInjective(Tail(heap))
      /\ Range(Tail(heap)) = Range(heap) \ {t} /\ Ordered(Tail(heap), left)
  BY <1>2, TailHeap
<1>4. /\ heap' = IF again THEN Insert(Tail(heap), t, after[t]) ELSE Tail(heap)
      /\ left' = [left EXCEPT ![t] = IF again THEN after[t] ELSE 0]
      /\ uv' = IF again THEN uv ELSE [uv EXCEPT ![t] = "idle"]
      /\ \/ running' = t /\ fired' = [fired EXCEPT ![t] = "called"]
         \/ UNCHANGED <<running, fired>>
      /\ phase = "timers" /\ running = NoTimer /\ UNCHANGED <<phase, js, gc>>
  BY DEF onTimeout
<1>5. uv[t] = "active" /\ attached[t] /\ object[t] = "live"
  BY <1>1, <1>3 DEF HeapInv, LifeInv, TTypeOK
<1> HIDE DEF t
<1>6. left \in [Timer -> Int] /\ after \in [Timer -> Int] /\ after[t] \in Int
  BY <1>1, <1>3, TimerFacts
<1>7. /\ heap' \in Seq(Timer) /\ IsInjective(heap') /\ Ordered(heap', left')
      /\ Range(heap') = IF again THEN Range(heap) ELSE Range(heap) \ {t}
  <2>1. CASE again
    <3>1. t \notin Range(Tail(heap))
      BY <1>3
    <3>2. heap' = Insert(Tail(heap), t, after[t]) /\ left' = [left EXCEPT ![t] = after[t]]
      BY <1>4, <2>1
    <3>3. /\ heap' \in Seq(Timer) /\ IsInjective(heap')
          /\ Range(heap') = Range(Tail(heap)) \cup {t} /\ Ordered(heap', left')
      BY <1>3, <1>6, <3>1, <3>2, InsertHeap
    <3> QED BY <1>3, <2>1, <3>3
  <2>2. CASE ~again
    <3>1. heap' = Tail(heap) /\ left' = [left EXCEPT ![t] = 0]
      BY <1>4, <2>2
    <3>2. ASSUME NEW i \in 1 .. Len(heap') PROVE left'[heap'[i]] = left[heap'[i]]
      <4>1. heap'[i] \in Range(heap') /\ heap'[i] \in Timer
        BY <1>3, <3>1, InHeap
      <4> QED BY <1>3, <1>6, <3>1, <4>1
    <3>3. Ordered(heap', left')
      BY <1>3, <3>1, <3>2 DEF Ordered
    <3> QED BY <1>3, <2>2, <3>1, <3>3
  <2> QED BY <2>1, <2>2
<1>8. TTypeOK'
  <2>1. left' \in [Timer -> -MaxJump .. TimeoutMax \cup {Never}]
    BY <1>1, <1>3, <1>4, TimersAssumption DEF TTypeOK
  <2> QED BY <1>1, <1>3, <1>4, <1>7, <2>1 DEF TTypeOK
<1>9. HeapInv'
  <2>1. ASSUME NEW u \in Timer PROVE uv'[u] = "active" <=> u \in Range(heap')
    BY <1>1, <1>3, <1>4, <1>5, <1>7 DEF HeapInv, TTypeOK
  <2> QED BY <1>4, <1>7, <2>1 DEF HeapInv
<1>10. LifeInv'
  BY <1>1, <1>3, <1>4, <1>5, TimersAssumption DEF LifeInv, TTypeOK
<1>11. OneShotOnce'
  BY <1>1, <1>3, <1>4, <1>5 DEF OneShotOnce, TTypeOK
<1> QED BY <1>8, <1>9, <1>10, <1>11 DEF TimersInv

\* Time passes for the active timers alike, so their order stays.
LEMMA PollStep ==
  ASSUME TimersInv, NEW dt \in 1 .. MaxJump, Poll(dt) PROVE TimersInv'
<1> USE DEF js, gc
<1>1. TTypeOK /\ HeapInv /\ LifeInv /\ OneShotOnce
  BY DEF TimersInv
<1>2. /\ left' = [t \in Timer |-> IF uv[t] = "active" /\ left[t] # Never
                                  THEN left[t] - dt ELSE left[t]]
      /\ phase = "poll" /\ phase' = "closing" /\ running = NoTimer
      /\ UNCHANGED <<running, js, uv, heap, gc, fired>>
  BY DEF Poll
<1>3. heap \in Seq(Timer) /\ left \in [Timer -> Int]
  BY <1>1, TimerFacts DEF TTypeOK
<1>4. ASSUME NEW u \in Range(heap)
      PROVE  /\ u \in Timer /\ left[u] >= 0 /\ uv[u] = "active" /\ left[u] \in Int
             /\ left'[u] = IF left[u] # Never THEN left[u] - dt ELSE left[u]
  <2>1. PICK i \in 1 .. Len(heap) : u = heap[i]
    BY <1>3 DEF Range
  <2>2. u \in Timer /\ left[u] >= 0
    BY <1>1, <1>2, <1>3, <2>1 DEF HeapInv
  <2> QED BY <1>1, <1>2, <1>3, <2>2 DEF HeapInv
<1>5. left' \in [Timer -> -MaxJump .. TimeoutMax \cup {Never}]
  <2>1. ASSUME NEW u \in Timer PROVE left'[u] \in -MaxJump .. TimeoutMax \cup {Never}
    <3>1. left[u] \in -MaxJump .. TimeoutMax \cup {Never}
      BY <1>1 DEF TTypeOK
    <3>2. CASE uv[u] = "active" /\ left[u] # Never
      <4>1. u \in Range(heap)
        BY <1>1, <3>2 DEF HeapInv
      <4>2. left[u] >= 0 /\ left'[u] = left[u] - dt
        BY <1>4, <3>2, <4>1
      <4> QED BY <3>1, <3>2, <4>2, TimersAssumption
    <3>3. CASE ~(uv[u] = "active" /\ left[u] # Never)
      BY <1>2, <3>1, <3>3
    <3> QED BY <3>2, <3>3
  <2> QED BY <1>2, <2>1
<1>6. Ordered(heap, left')
  <2>1. ASSUME NEW i \in 1 .. Len(heap), NEW j \in 1 .. Len(heap), i <= j
        PROVE  left'[heap[i]] <= left'[heap[j]]
    <3>1. heap[i] \in Range(heap) /\ heap[j] \in Range(heap)
      BY <1>3, InHeap
    <3>2. left[heap[i]] <= left[heap[j]]
      BY <1>1, <2>1 DEF HeapInv, Ordered
    <3>3. /\ left[heap[i]] \in Int /\ left[heap[j]] \in Int
          /\ left[heap[i]] = Never \/ left[heap[i]] <= TimeoutMax
          /\ left[heap[j]] = Never \/ left[heap[j]] <= TimeoutMax
          /\ Never = TimeoutMax + 1 /\ TimeoutMax \in Nat
      BY <1>1, <1>4, <3>1, TimerFacts
    <3>4. /\ left'[heap[i]] = IF left[heap[i]] # Never THEN left[heap[i]] - dt ELSE left[heap[i]]
          /\ left'[heap[j]] = IF left[heap[j]] # Never THEN left[heap[j]] - dt ELSE left[heap[j]]
      BY <1>4, <3>1
    <3> QED BY <3>2, <3>3, <3>4
  <2> QED BY <2>1 DEF Ordered
<1>7. TTypeOK'
  BY <1>1, <1>2, <1>5 DEF TTypeOK
<1>8. HeapInv' /\ OneShotOnce'
  BY <1>1, <1>2, <1>6 DEF HeapInv, OneShotOnce
<1>9. LifeInv'
  BY <1>1, <1>2, TimersAssumption DEF LifeInv
<1> QED BY <1>7, <1>8, <1>9 DEF TimersInv

\* The turns of the loop and the ends of callbacks that leave every timer alone.
LEMMA QuietTimers ==
  ASSUME TimersInv,
         \/ TimersDone \/ ClosingDone \/ IoBegins \/ IoEnds
         \/ \E t \in Timer : Drop(t) \/ handleTimeoutThrows(t)
         \/ \E t \in Timer : handleTimeoutReturns(t) /\ isrepeat[t]
  PROVE  TimersInv'
<1> USE DEF js, gc
<1>1. TTypeOK /\ HeapInv /\ LifeInv /\ OneShotOnce
  BY DEF TimersInv
<1>2. /\ UNCHANGED <<callback, attached, isrepeat, after, uv, heap, left, gc>>
      /\ phase' \in {"timers", "poll", "closing"} /\ held' \in [Timer -> BOOLEAN]
      /\ \/ running' = running /\ running \notin Timer
         \/ running' \notin Timer
         \/ running' = running /\ phase' = phase
      /\ \/ fired' = fired
         \/ running' = NoTimer /\ running \in Timer
            /\ \E x \in {"returned", "threw"} : fired' = [fired EXCEPT ![running] = x]
  BY <1>1, TimersAssumption DEF TimersDone, ClosingDone, IoBegins, IoEnds, Drop,
     handleTimeoutThrows, handleTimeoutReturns, TTypeOK, LifeInv
<1>3. /\ running' \in Timer \cup {NoTimer, IoCallback}
      /\ fired' \in [Timer -> {"no", "called", "returned", "threw"}]
  BY <1>1, TimersAssumption DEF TimersDone, ClosingDone, IoBegins, IoEnds, Drop,
     handleTimeoutThrows, handleTimeoutReturns, TTypeOK
<1>4. TTypeOK'
  BY <1>1, <1>2, <1>3 DEF TTypeOK
<1>5. phase' = "poll" => \A i \in 1 .. Len(heap) : left[heap[i]] >= 0
  <2>1. CASE TimersDone
    <3>1. SUFFICES ASSUME NEW i \in 1 .. Len(heap) PROVE left[heap[i]] >= 0
      OBVIOUS
    <3>2. heap \in Seq(Timer) /\ left \in [Timer -> Int]
      BY <1>1, TimerFacts DEF TTypeOK
    <3>3. heap # <<>> /\ Head(heap) = heap[1] /\ 1 \in 1 .. Len(heap) /\ 1 <= i
      BY <3>1, <3>2
    <3>4. left[heap[1]] <= left[heap[i]] /\ ~(left[heap[1]] <= 0)
      BY <1>1, <2>1, <3>1, <3>3 DEF TimersDone, Expired, HeapInv, Ordered
    <3>5. left[heap[1]] \in Int /\ left[heap[i]] \in Int
      BY <3>1, <3>2, <3>3
    <3> QED BY <3>4, <3>5
  <2>2. CASE ~TimersDone
    <3>1. phase' = "poll" => phase = "poll"
      BY <2>2 DEF ClosingDone, IoBegins, IoEnds, Drop, handleTimeoutThrows, handleTimeoutReturns
    <3> QED BY <1>1, <3>1 DEF HeapInv
  <2> QED BY <2>1, <2>2
<1>6. HeapInv'
  BY <1>1, <1>2, <1>5 DEF HeapInv
<1>7. LifeInv'
  BY <1>1, <1>2, TimersAssumption DEF LifeInv, TTypeOK
<1>8. OneShotOnce'
  BY <1>1, <1>2 DEF OneShotOnce, LifeInv, TTypeOK
<1> QED BY <1>4, <1>6, <1>7, <1>8 DEF TimersInv

\* A closed handle gives up its reference.
LEMMA OnCloseStep ==
  ASSUME TimersInv, NEW t \in Timer, onClose(t) PROVE TimersInv'
<1>1. TTypeOK /\ HeapInv /\ LifeInv /\ OneShotOnce
  BY DEF TimersInv
<1>2. /\ phase = "closing" /\ uv[t] = "closing" /\ t \notin Range(heap)
      /\ uv' = [uv EXCEPT ![t] = "closed"] /\ ref' = [ref EXCEPT ![t] = FALSE]
      /\ left' = [left EXCEPT ![t] = 0] /\ after' = [after EXCEPT ![t] = 0]
      /\ UNCHANGED <<phase, running, callback, attached, isrepeat, held, heap, object, fired>>
  BY <1>1 DEF onClose, HeapInv
<1>3. TTypeOK'
  <2>1. /\ after' \in [Timer -> 0 .. TimeoutMax \cup {Never}]
        /\ left' \in [Timer -> -MaxJump .. TimeoutMax \cup {Never}]
    BY <1>1, <1>2, TimersAssumption DEF TTypeOK
  <2> QED BY <1>1, <1>2, <2>1 DEF TTypeOK
<1>4. HeapInv'
  <2>1. ASSUME NEW i \in 1 .. Len(heap) PROVE left'[heap[i]] = left[heap[i]]
    <3>1. heap[i] \in Range(heap) /\ heap[i] \in Timer
      BY <1>1, InHeap DEF TTypeOK
    <3> QED BY <1>1, <1>2, <3>1 DEF TTypeOK
  <2>2. Ordered(heap, left')
    BY <1>1, <2>1 DEF HeapInv, Ordered
  <2>3. \A u \in Timer : uv'[u] = "active" <=> u \in Range(heap)
    BY <1>1, <1>2 DEF HeapInv, TTypeOK
  <2> QED BY <1>1, <1>2, <2>2, <2>3 DEF HeapInv
<1>5. LifeInv'
  BY <1>1, <1>2 DEF LifeInv, TTypeOK
<1>6. OneShotOnce'
  BY <1>1, <1>2 DEF OneShotOnce, TTypeOK
<1> QED BY <1>3, <1>4, <1>5, <1>6 DEF TimersInv

\* The garbage collector frees objects of closed handles only.
LEMMA CollectStep ==
  ASSUME TimersInv, NEW t \in Timer, collect(t) PROVE TimersInv'
<1> USE DEF js
<1>1. TTypeOK /\ HeapInv /\ LifeInv /\ OneShotOnce
  BY DEF TimersInv
<1>2. TTypeOK'
  BY <1>1 DEF TTypeOK, collect
<1>3. HeapInv' /\ OneShotOnce'
  BY <1>1 DEF HeapInv, OneShotOnce, collect
<1>4. uv[t] = "closed"
  BY <1>1 DEF LifeInv, TTypeOK, collect
<1>5. LifeInv'
  BY <1>1, <1>4 DEF LifeInv, TTypeOK, collect
<1> QED BY <1>2, <1>3, <1>5 DEF TimersInv

-----------------------------------------------------------------------------
(* The theorems.                                                           *)

\* The invariant holds before the first timer is set.
LEMMA TimersInit == TInit => TimersInv
<1> SUFFICES ASSUME TInit PROVE TimersInv
  OBVIOUS
<1>1. heap = <<>> /\ Len(heap) = 0 /\ Range(heap) = {} /\ IsInjective(heap)
  BY DEF TInit, Range, IsInjective
<1>2. TTypeOK
  BY TimersAssumption DEF TInit, TTypeOK
<1>3. HeapInv
  BY <1>1 DEF TInit, HeapInv, Ordered
<1>4. LifeInv /\ OneShotOnce
  BY TimersAssumption DEF TInit, LifeInv, OneShotOnce
<1> QED BY <1>2, <1>3, <1>4 DEF TimersInv

\* The invariant is inductive.
LEMMA TimersStep == TimersInv /\ [TNext]_tvars => TimersInv'
<1> SUFFICES ASSUME TimersInv, [TNext]_tvars PROVE TimersInv'
  OBVIOUS
<1>1. CASE UNCHANGED tvars
  BY <1>1 DEF tvars, TimersInv, TTypeOK, HeapInv, LifeInv, OneShotOnce
<1>2. CASE Loop
  BY <1>2, OnTimeoutStep, QuietTimers, PollStep, OnCloseStep DEF Loop
<1>3. ASSUME NEW t \in Timer, handleTimeoutReturns(t), ~isrepeat[t] PROVE TimersInv'
  BY <1>3, ClosedTimer DEF handleTimeoutReturns
<1>4. CASE CallbackEnds
  BY <1>3, <1>4, QuietTimers DEF CallbackEnds
<1>5. CASE IoBegins
  BY <1>5, QuietTimers
<1>6. CASE \E t \in Timer, delay \in Delays, repeat \in BOOLEAN : Set(t, delay, repeat)
  BY <1>6, SetStep
<1>7. ASSUME NEW t \in Timer, clearTimeout(t) \/ clearInterval(t) PROVE TimersInv'
  BY <1>7, ClosedTimer DEF clearTimeout, clearInterval
<1>8. CASE \E t \in Timer : clearTimeout(t) \/ clearInterval(t) \/ Drop(t) \/ collect(t)
  BY <1>7, <1>8, QuietTimers, CollectStep
<1> QED BY <1>1, <1>2, <1>4, <1>5, <1>6, <1>8 DEF TNext

\* The invariant holds in every run of the timers.
THEOREM TimersInvariant == TSpec => []TimersInv
  BY TimersInit, TimersStep, PTL DEF TSpec

\* Every variable of the timers keeps its type; no timer is ever overdue by more than
\* one turn of the loop.
THEOREM TimersTypes == TSpec => []TTypeOK
<1>1. TimersInv => TTypeOK
  BY DEF TimersInv
<1> QED BY <1>1, TimersInvariant, PTL

\* libuv never reports a timer that was cleared, the garbage collector frees a Timer
\* object only when its handle is closed (the assertion of iotjs_handlewrap_destroy),
\* and Timeout.close() never stops a handle that is gone.
THEOREM HandlesAreSafe == TSpec => []HandleSafe
<1>1. TimersInv => HandleSafe
  <2> SUFFICES ASSUME TimersInv PROVE HandleSafe
    OBVIOUS
  <2>1. ASSUME NEW i \in DOMAIN heap PROVE callback[heap[i]] /\ attached[heap[i]]
    <3>1. heap[i] \in Range(heap) /\ heap[i] \in Timer
      BY InHeap DEF TimersInv, TTypeOK
    <3> QED BY <3>1 DEF TimersInv, HeapInv, LifeInv
  <2>2. HandleLifetime
    BY DEF TimersInv, TTypeOK, LifeInv, HandleLifetime
  <2>3. \A t \in Timer : attached[t] => uv[t] \in {"active", "idle"}
    BY DEF TimersInv, LifeInv
  <2> QED BY <2>1, <2>2, <2>3 DEF HandleSafe, ArmedIsLive
<1> QED BY <1>1, TimersInvariant, PTL

\* A one-shot timer calls back at most once, also when its callback threw and close()
\* was skipped (timers.js, handleTimeout).
THEOREM OneShotFiresOnce == TSpec => []OneShotOnce
<1>1. TimersInv => OneShotOnce
  BY DEF TimersInv
<1> QED BY <1>1, TimersInvariant, PTL
=============================================================================
