----------------------------- MODULE FsProofs ------------------------------
(***************************************************************************)
(* Proofs about the functions of Buffer, about iotjs_string_t, and about   *)
(* fs, which is built on them: for any buffers and strings, any number of  *)
(* calls, and whatever fails.                                              *)
(*                                                                         *)
(* A loop of Buffer is a recursive function; what it leaves is followed by *)
(* induction, which SetInduction takes from the order of the natural       *)
(* numbers.  All of them come down to copy_internal, whose step k copies a *)
(* byte that is known beforehand (Reads), also when source and destination *)
(* are the same memory, where it repeats what it wrote (Source).  What     *)
(* concat leaves is what FlattenSeq does (Joined); compare decides by an   *)
(* order that is shown to be one (Precedes).                               *)
(*                                                                         *)
(* In fs, the invariant says of every call how many requests it has.  As   *)
(* long as none of its reads and writes failed, it has one, or runs, or    *)
(* has ended (OneByOne); after that, two chains run for it, and            *)
(* only NeverForgotten remains.  While no call has failed, the request     *)
(* knows whether its call has a descriptor, and which (Held); and as no    *)
(* call has two, one of the 1 + Cardinality(Ops) descriptors is free: an   *)
(* open always finds the lowest one.                                       *)
(*                                                                         *)
(* On this rests what has been transferred (FsWhole), for files and data   *)
(* of any length: a request that is underway knows how much its call has   *)
(* read or written (Waiting, Answered), and so does a call that runs       *)
(* (Runs).  It needs what slice and concat compute (SliceFirst,            *)
(* ConcatJoins).                                                           *)
(***************************************************************************)
EXTENDS Fs, Buffers, SequenceTheorems, FiniteSetTheorems, WellFoundedInduction, TLAPS

-----------------------------------------------------------------------------
(* What copy_internal, slice and concat compute, for every input.          *)

\* The relation that orders the natural numbers.
Less == {ss \in Nat \X Nat : ss[1] < ss[2]}

\* Induction, for sets of natural numbers.
LEMMA SetInduction ==
  ASSUME NEW S, 0 \in S, \A n \in Nat : n \in S => n + 1 \in S
  PROVE  Nat \subseteq S
<1> DEFINE T == Nat \ S
<1>1. SUFFICES ASSUME T # {} PROVE FALSE OBVIOUS
<1>2. PICK x \in T : \A y \in T : ~(<<y, x>> \in Less)
  <2>1. IsWellFoundedOn(Less, Nat) BY NatLessThanWellFounded, Zenon DEF OpToRel, Less
  <2>2. T \subseteq Nat OBVIOUS
  <2> HIDE DEF T
  <2> QED BY <1>1, <2>1, <2>2, WFMin, Zenon
<1>3. x \in Nat /\ x # 0 /\ x - 1 \in Nat BY <1>2
<1>4. x - 1 \in T BY <1>2, <1>3
<1>5. <<x - 1, x>> \in Less BY <1>3 DEF Less
<1> QED BY <1>2, <1>4, <1>5

\* f is the function that copy_internal defines by recursion.
IsCopy(f, dst, src, same, from, at, n) ==
  f = [k \in 0..n |->
         IF k = 0 THEN dst
         ELSE [f[k - 1] EXCEPT ![at + k] = IF same THEN f[k - 1][from + k] ELSE src[from + k]]]

\* The number of bytes that copy_internal copies.
Room(dst, from, to, at) ==
  LET room == smaller(to - from, Len(dst) - at) IN IF room < 0 THEN 0 ELSE room

\* There is one such function, so what one of them leaves is what copy_internal leaves.
LEMMA CopyLoop ==
  ASSUME NEW dst, NEW src, NEW same, NEW from, NEW to, NEW at,
         NEW n \in Nat, n = Room(dst, from, to, at),
         NEW h, IsCopy(h, dst, src, same, from, at, n)
  PROVE  copy_internal(dst, src, same, from, to, at) = [copied |-> n, bytes |-> h[n]]
<1> DEFINE g == CHOOSE f : IsCopy(f, dst, src, same, from, at, n)
<1>1. copy_internal(dst, src, same, from, to, at) = [copied |-> n, bytes |-> g[n]]
  BY DEF copy_internal, IsCopy, Room
<1>2. IsCopy(g, dst, src, same, from, at, n) OBVIOUS
<1> HIDE DEF g
<1> DEFINE S == {k \in Nat : k <= n => g[k] = h[k]}
<1>3. 0 \in S BY <1>2 DEF IsCopy
<1>4. ASSUME NEW k \in Nat, k \in S PROVE k + 1 \in S
  <2>1. SUFFICES ASSUME k + 1 <= n PROVE g[k + 1] = h[k + 1] OBVIOUS
  <2>2. g[k] = h[k] BY <1>4, <2>1
  <2>3. k + 1 \in 0..n /\ k + 1 # 0 /\ (k + 1) - 1 = k BY <2>1
  <2>4. g[k + 1] = [g[k] EXCEPT ![at + (k + 1)] = IF same THEN g[k][from + (k + 1)]
                                                  ELSE src[from + (k + 1)]]
    BY <1>2, <2>3 DEF IsCopy
  <2>5. h[k + 1] = [h[k] EXCEPT ![at + (k + 1)] = IF same THEN h[k][from + (k + 1)]
                                                  ELSE src[from + (k + 1)]]
    BY <2>3 DEF IsCopy
  <2> QED BY <2>2, <2>4, <2>5
<1>5. Nat \subseteq S
  <2> HIDE DEF S
  <2> QED BY <1>3, <1>4, SetInduction
<1>6. g[n] = h[n] BY <1>5
<1> QED BY <1>1, <1>6

\* The buffer after k steps of a loop whose step i copies x[i].
Laid(dst, x, at, k) ==
  [j \in 1..Len(dst) |-> IF at < j /\ j <= at + k THEN x[j - at] ELSE dst[j]]

\* Step k of that loop.
Lays(dst, x, at, k) ==
  Laid(dst, x, at, k) = [Laid(dst, x, at, k - 1) EXCEPT ![at + k] = x[k]]

\* One step of the loop lays one more byte.
LEMMA LaidStep ==
  ASSUME NEW dst \in Seq(Nat), NEW x, NEW at \in Nat, NEW k \in Nat \ {0}, at + k <= Len(dst)
  PROVE  Lays(dst, x, at, k)
<1>1. at + k \in 1..Len(dst) OBVIOUS
<1>2. \A j \in 1..Len(dst) : j # at + k =>
        ((at < j /\ j <= at + k) <=> (at < j /\ j <= at + (k - 1)))
  OBVIOUS
<1>3. (at + k) - at = k OBVIOUS
<1>4. ~(at < at + k /\ at + k <= at + (k - 1)) /\ at < at + k /\ at + k <= at + k OBVIOUS
<1> QED BY <1>1, <1>2, <1>3, <1>4 DEF Laid, Lays

\* Precedes the first step.
LEMMA LaidNone ==
  ASSUME NEW dst \in Seq(Nat), NEW x, NEW at \in Nat
  PROVE  Laid(dst, x, at, 0) = dst
<1>1. \A j \in 1..Len(dst) : ~(at < j /\ j <= at + 0) OBVIOUS
<1>2. \A j \in 1..Len(dst) : Laid(dst, x, at, 0)[j] = dst[j] BY <1>1 DEF Laid
<1>3. dst = [j \in 1..Len(dst) |-> dst[j]] OBVIOUS
<1> QED BY <1>1, <1>3 DEF Laid

\* The byte that step k copies is x[k].
Reads(dst, src, same, from, at, n, x) ==
  \A k \in 1..n :
    (IF same THEN Laid(dst, x, at, k - 1)[from + k] ELSE src[from + k]) = x[k]

\* What copy_internal leaves then.
LEMMA CopyLeaves ==
  ASSUME NEW dst \in Seq(Nat), NEW src, NEW same, NEW from \in Nat, NEW to \in Nat,
         NEW at \in Nat, at <= Len(dst), NEW n, n = Room(dst, from, to, at), NEW x,
         Reads(dst, src, same, from, at, n, x),
         NEW r, r = copy_internal(dst, src, same, from, to, at)
  PROVE  /\ n \in Nat /\ at + n <= Len(dst)
         /\ r.copied = n /\ r.bytes = Laid(dst, x, at, n)
<1> DEFINE h == [k \in 0..n |-> Laid(dst, x, at, k)]
<1>1. n \in Nat /\ at + n <= Len(dst) BY DEF Room, smaller
<1>2. ASSUME NEW k \in 0..n
      PROVE  h[k] = IF k = 0 THEN dst
                    ELSE [h[k - 1] EXCEPT ![at + k] = IF same THEN h[k - 1][from + k]
                                                      ELSE src[from + k]]
  <2>1. CASE k = 0 BY <1>1, <2>1, LaidNone
  <2>2. CASE k # 0
    <3>1. k \in 1..n /\ k - 1 \in 0..n /\ k \in Nat \ {0} /\ at + k <= Len(dst)
      BY <1>1, <2>2
    <3>2. h[k] = Laid(dst, x, at, k) /\ h[k - 1] = Laid(dst, x, at, k - 1)
      BY <3>1
    <3> HIDE DEF h
    <3>3. Lays(dst, x, at, k) BY <3>1, LaidStep
    <3>4. (IF same THEN Laid(dst, x, at, k - 1)[from + k] ELSE src[from + k]) = x[k]
      BY <3>1 DEF Reads
    <3> QED BY <2>2, <3>1, <3>2, <3>3, <3>4 DEF Lays
  <2> QED BY <2>1, <2>2
<1>3. h = [k \in 0..n |-> h[k]] OBVIOUS
<1>4. h[n] = Laid(dst, x, at, n) BY <1>1
<1> HIDE DEF h
<1>5. IsCopy(h, dst, src, same, from, at, n) BY <1>2, <1>3 DEF IsCopy
<1>6. r = [copied |-> n, bytes |-> h[n]] BY <1>1, <1>5, CopyLoop
<1>7. r.copied = n /\ r.bytes = h[n] BY <1>6
<1> QED BY <1>1, <1>4, <1>7

\* The buffer after k steps of a loop that copies from another buffer.
Copied(dst, src, from, at, k) ==
  [j \in 1..Len(dst) |-> IF at < j /\ j <= at + k THEN src[from + (j - at)] ELSE dst[j]]

\* A call of copy_internal that answers r, for n bytes from another buffer.
Apart(r, n, dst, src, same, from, to, at) ==
  /\ dst \in Seq(Nat) /\ from \in Nat /\ to \in Nat /\ at \in Nat /\ at <= Len(dst)
  /\ ~same /\ n = Room(dst, from, to, at)
  /\ r = copy_internal(dst, src, same, from, to, at)

\* What it leaves.
Left(r, n, dst, src, from, at) ==
  /\ n \in Nat /\ at + n <= Len(dst)
  /\ r.copied = n /\ r.bytes = Copied(dst, src, from, at, n)

\* copy_internal leaves that, when source and destination are not the same memory.
LEMMA CopyApart ==
  ASSUME NEW r, NEW n, NEW dst, NEW src, NEW same, NEW from, NEW to, NEW at,
         Apart(r, n, dst, src, same, from, to, at)
  PROVE  Left(r, n, dst, src, from, at)
<1>1. /\ dst \in Seq(Nat) /\ from \in Nat /\ to \in Nat /\ at \in Nat /\ at <= Len(dst)
      /\ ~same /\ n = Room(dst, from, to, at)
      /\ r = copy_internal(dst, src, same, from, to, at)
  BY DEF Apart
<1>2. n \in Nat BY <1>1 DEF Room, smaller
<1> DEFINE x == [k \in 1..n |-> src[from + k]]
<1>3. Reads(dst, src, same, from, at, n, x) BY <1>1 DEF Reads
<1>4. Laid(dst, x, at, n) = Copied(dst, src, from, at, n)
  <2>1. \A j \in 1..Len(dst) : at < j /\ j <= at + n => j - at \in 1..n BY <1>1, <1>2
  <2> QED BY <2>1 DEF Copied, Laid
<1> HIDE DEF x
<1>5. /\ n \in Nat /\ at + n <= Len(dst)
      /\ r.copied = n /\ r.bytes = Laid(dst, x, at, n)
  BY <1>1, <1>3, CopyLeaves
<1> QED BY <1>4, <1>5 DEF Left

\* The same, when it copies from the start of another buffer.
FromStart(n, dst, src, to, at) ==
  /\ n \in Nat /\ at + n <= Len(dst)
  /\ copy_internal(dst, src, FALSE, 0, to, at).copied = n
  /\ copy_internal(dst, src, FALSE, 0, to, at).bytes = Copied(dst, src, 0, at, n)

\* copy_internal leaves that, for a source read from its start.
LEMMA CopyStart ==
  ASSUME NEW dst \in Seq(Nat), NEW src, NEW to \in Nat, NEW at \in Nat, at <= Len(dst),
         NEW n, n = smaller(to, Len(dst) - at)
  PROVE  FromStart(n, dst, src, to, at)
<1>1. PICK from : from = 0 OBVIOUS
<1>2. PICK same : same = FALSE OBVIOUS
<1>3. PICK r : r = copy_internal(dst, src, same, from, to, at) OBVIOUS
<1>4. Apart(r, n, dst, src, same, from, to, at) BY <1>1, <1>2, <1>3 DEF Apart, Room, smaller
<1>5. Left(r, n, dst, src, from, at) BY <1>4, CopyApart
<1> QED BY <1>1, <1>2, <1>3, <1>5, Zenon DEF Left, FromStart

\* A buffer that calloc has cleared.
LEMMA Created ==
  ASSUME NEW n \in Nat
  PROVE  /\ bufferwrap_create(n) \in Seq(Nat) /\ Len(bufferwrap_create(n)) = n
         /\ \A j \in 1..n : bufferwrap_create(n)[j] = 0
BY DEF bufferwrap_create, NUL

\* The first n bytes of a buffer.
LEMMA SliceFirst ==
  ASSUME NEW buf \in Seq(Nat), NEW n \in Nat, n <= Len(buf)
  PROVE  slice(buf, 0, n) = SubSeq(buf, 1, n)
<1>0. PICK new : new = bufferwrap_create(n) OBVIOUS
<1>1. new \in Seq(Nat) /\ Len(new) = n BY <1>0, Created
<1>2. /\ bound_range(IF 0 < 0 THEN 0 + Len(buf) ELSE 0, 0, Len(buf)) = 0
      /\ bound_range(IF n < 0 THEN n + Len(buf) ELSE n, 0, Len(buf)) = n
      /\ (IF n < 0 THEN 0 ELSE n) = n /\ n - 0 = n
  BY DEF bound_range
<1>3. slice(buf, 0, n) = copy_internal(new, buf, FALSE, 0, n, 0).bytes
  BY <1>0, <1>2, Zenon DEF slice
<1>5. copy_internal(new, buf, FALSE, 0, n, 0).bytes = Copied(new, buf, 0, 0, n)
  <2>1. PICK at : at = 0 OBVIOUS
  <2>2. at \in Nat /\ at <= Len(new) /\ n = smaller(n, Len(new) - at) BY <1>1, <2>1 DEF smaller
  <2>3. FromStart(n, new, buf, n, at) BY <1>1, <2>2, CopyStart
  <2> QED BY <2>1, <2>3, Zenon DEF FromStart
<1>6. Copied(new, buf, 0, 0, n) = [j \in 1..n |-> buf[j]] BY <1>1 DEF Copied
<1>7. SubSeq(buf, 1, n) = [j \in 1..n |-> buf[j]] OBVIOUS
<1> QED BY <1>3, <1>5, <1>6, <1>7

\* s consists of the buffers of list, in this order: buffer k ends at e[k].
Ends(e, list) ==
  /\ e \in [0..Len(list) -> Nat] /\ e[0] = 0
  /\ \A k \in 1..Len(list) : e[k] = e[k - 1] + Len(list[k])
Joined(list, s) ==
  /\ list \in Seq(Seq(Nat)) /\ s \in Seq(Nat)
  /\ \E e : /\ Ends(e, list) /\ e[Len(list)] = Len(s)
           /\ \A k \in 1..Len(list) :
                \A j \in 1..Len(list[k]) : s[e[k - 1] + j] = list[k][j]

\* The last buffer ends last.
LEMMA EndsBelow ==
  ASSUME NEW list \in Seq(Seq(Nat)), NEW e, Ends(e, list)
  PROVE  \A i \in 0..Len(list) : e[i] <= e[Len(list)]
<1> DEFINE n == Len(list)
<1>1. n \in Nat /\ \A k \in 1..n : Len(list[k]) \in Nat OBVIOUS
<1>2. /\ e \in [0..n -> Nat] /\ \A k \in 1..n : e[k] = e[k - 1] + Len(list[k])
  BY DEF Ends
<1> HIDE DEF n
<1> DEFINE S == {m \in Nat : m <= n => e[n - m] <= e[n]}
<1>3. 0 \in S BY <1>1, <1>2
<1>4. ASSUME NEW m \in Nat, m \in S PROVE m + 1 \in S
  <2>1. SUFFICES ASSUME m + 1 <= n PROVE e[n - (m + 1)] <= e[n] OBVIOUS
  <2>2. n - m \in 1..n /\ (n - m) - 1 = n - (m + 1) /\ n - (m + 1) \in 0..n /\ n - m \in 0..n
    BY <1>1, <2>1
  <2>3. e[n - m] = e[n - (m + 1)] + Len(list[n - m]) BY <1>2, <2>2
  <2>4. e[n - m] <= e[n] /\ e[n - m] \in Nat /\ e[n - (m + 1)] \in Nat /\ e[n] \in Nat
    BY <1>1, <1>2, <1>4, <2>1, <2>2
  <2>5. Len(list[n - m]) \in Nat BY <1>1, <2>2
  <2> QED BY <2>3, <2>4, <2>5
<1>5. Nat \subseteq S
  <2> HIDE DEF S
  <2> QED BY <1>3, <1>4, SetInduction
<1>6. ASSUME NEW i \in 0..n PROVE e[i] <= e[n]
  <2>1. n - i \in Nat /\ n - i <= n /\ n - (n - i) = i BY <1>1
  <2> QED BY <1>5, <2>1
<1> QED BY <1>6 DEF n

\* No buffers.
LEMMA JoinedNone == Joined(<<>>, <<>>)
<1> DEFINE e == [k \in 0..0 |-> 0]
<1>1. e \in [0..Len(<<>>) -> Nat] /\ e[0] = 0 /\ Len(<<>>) = 0 OBVIOUS
<1>2. <<>> \in Seq(Seq(Nat)) /\ <<>> \in Seq(Nat) OBVIOUS
<1> HIDE DEF e
<1>3. Ends(e, <<>>) /\ e[Len(<<>>)] = Len(<<>>) BY <1>1 DEF Ends
<1>4. \A k \in 1..Len(<<>>) : FALSE BY <1>1
<1> QED BY <1>2, <1>3, <1>4 DEF Joined

\* One buffer more.
LEMMA JoinedMore ==
  ASSUME NEW list, NEW s, Joined(list, s), NEW x \in Seq(Nat)
  PROVE  Joined(Append(list, x), s \o x)
<1> DEFINE n == Len(list)
           more == Append(list, x)
           t == s \o x
<1>1. list \in Seq(Seq(Nat)) /\ s \in Seq(Nat) BY DEF Joined
<1>2. PICK e : /\ Ends(e, list) /\ e[n] = Len(s)
               /\ \A k \in 1..n : \A j \in 1..Len(list[k]) : s[e[k - 1] + j] = list[k][j]
  BY DEF Joined
<1>3. /\ more \in Seq(Seq(Nat)) /\ Len(more) = n + 1 /\ more[n + 1] = x
      /\ \A k \in 1..n : more[k] = list[k]
  BY <1>1
<1>4. /\ t \in Seq(Nat) /\ Len(t) = Len(s) + Len(x)
      /\ \A j \in 1..Len(s) : t[j] = s[j]
      /\ \A j \in 1..Len(x) : t[Len(s) + j] = x[j]
  BY <1>1
<1>5. n \in Nat /\ Len(s) \in Nat /\ Len(x) \in Nat BY <1>1
<1>6. /\ e \in [0..n -> Nat] /\ e[0] = 0
      /\ \A k \in 1..n : e[k] = e[k - 1] + Len(list[k])
  BY <1>2 DEF Ends
<1> DEFINE f == [k \in 0..(n + 1) |-> IF k <= n THEN e[k] ELSE Len(s) + Len(x)]
<1>7. /\ f \in [0..(n + 1) -> Nat] /\ \A k \in 0..n : f[k] = e[k]
      /\ f[n + 1] = Len(s) + Len(x)
  BY <1>5, <1>6
<1> HIDE DEF f, n, more, t
<1>8. \A i \in 0..n : e[i] <= Len(s) BY <1>1, <1>2, EndsBelow DEF n
<1>9. Ends(f, more)
  <2>1. ASSUME NEW k \in 1..(n + 1) PROVE f[k] = f[k - 1] + Len(more[k])
    <3>1. CASE k \in 1..n
      <4>1. k \in 0..n /\ k - 1 \in 0..n BY <1>5, <3>1
      <4> QED BY <1>3, <1>6, <1>7, <3>1, <4>1
    <3>2. CASE k = n + 1
      <4>1. n \in 0..n /\ k - 1 = n BY <1>5, <3>2
      <4> QED BY <1>2, <1>3, <1>7, <3>2, <4>1
    <3> QED BY <1>5, <3>1, <3>2
  <2>2. f[0] = 0 BY <1>5, <1>6, <1>7
  <2> QED BY <1>3, <1>7, <2>1, <2>2 DEF Ends
<1>10. ASSUME NEW k \in 1..(n + 1), NEW j \in 1..Len(more[k])
       PROVE  t[f[k - 1] + j] = more[k][j]
  <2>1. CASE k \in 1..n
    <3>1. k \in 0..n /\ k - 1 \in 0..n BY <1>5, <2>1
    <3>2. e[k] <= Len(s) BY <1>8, <2>1, <3>1
    <3>3. more[k] = list[k] /\ f[k - 1] = e[k - 1] BY <1>3, <1>7, <2>1, <3>1
    <3>4. Len(list[k]) \in Nat BY <1>1, <2>1 DEF n
    <3>5. e[k - 1] \in Nat /\ e[k] \in Nat BY <1>6, <3>1
    <3>6. e[k - 1] + j \in 1..Len(s)
      <4>1. e[k] = e[k - 1] + Len(list[k]) /\ j \in 1..Len(list[k]) BY <1>6, <2>1, <3>3
      <4> QED BY <1>5, <3>2, <3>4, <3>5, <4>1
    <3>7. s[e[k - 1] + j] = list[k][j] BY <1>2, <2>1, <3>3 DEF n
    <3> QED BY <1>4, <3>3, <3>6, <3>7
  <2>2. CASE k = n + 1
    <3>1. n \in 0..n /\ k - 1 = n BY <1>5, <2>2
    <3>2. f[k - 1] = Len(s) BY <1>2, <1>7, <3>1
    <3> QED BY <1>3, <1>4, <2>2, <3>2
  <2> QED BY <1>5, <2>1, <2>2
<1>11. f[Len(more)] = Len(t) BY <1>3, <1>4, <1>7
<1>12. Joined(more, t) BY <1>3, <1>4, <1>9, <1>10, <1>11 DEF Joined
<1> QED BY <1>12 DEF more, t

\* The functions that concat defines by recursion.
IsEnds(f, list) == f = [k \in 0..Len(list) |-> IF k = 0 THEN 0 ELSE f[k - 1] + Len(list[k])]
IsFilled(f, e, list) ==
  f = [k \in 0..Len(list) |->
         IF k = 0 THEN bufferwrap_create(e[Len(list)])
         ELSE nativeCopy(list[k], f[k - 1], FALSE, e[k - 1], 0, Len(list[k])).bytes]

\* The new buffer of concat when it holds the first n bytes of s.
FilledTo(s, n) == [j \in 1..Len(s) |-> IF j <= n THEN s[j] ELSE 0]

\* One step of the loop of concat.
LEMMA ConcatStep ==
  ASSUME NEW s \in Seq(Nat), NEW b \in Seq(Nat), NEW at \in Nat, at + Len(b) <= Len(s),
         \A j \in 1..Len(b) : s[at + j] = b[j]
  PROVE  nativeCopy(b, FilledTo(s, at), FALSE, at, 0, Len(b)).bytes = FilledTo(s, at + Len(b))
<1> DEFINE n == Len(b)
<1>0. PICK dst : dst = FilledTo(s, at) OBVIOUS
<1>1. dst \in Seq(Nat) /\ Len(dst) = Len(s) BY <1>0 DEF FilledTo
<1>2. /\ bound_range(0, 0, Len(b)) = 0 /\ bound_range(n, 0, Len(b)) = n
      /\ (IF n < 0 THEN 0 ELSE n) = n /\ bound_range(at, 0, Len(dst)) = at
  BY <1>1 DEF bound_range
<1>3. nativeCopy(b, dst, FALSE, at, 0, n).bytes = copy_internal(dst, b, FALSE, 0, n, at).bytes
  BY <1>2, Zenon DEF nativeCopy
<1>4. n \in Nat /\ at <= Len(dst) /\ smaller(n, Len(dst) - at) = n BY <1>1 DEF smaller
<1>5. copy_internal(dst, b, FALSE, 0, n, at).bytes = Copied(dst, b, 0, at, n)
  <2>1. n = smaller(n, Len(dst) - at) BY <1>4
  <2> HIDE DEF n
  <2>2. FromStart(n, dst, b, n, at) BY <1>1, <1>4, <2>1, CopyStart
  <2> QED BY <2>2, Zenon DEF FromStart
<1>7. ASSUME NEW j \in 1..Len(s)
      PROVE  (IF at < j /\ j <= at + n THEN b[0 + (j - at)] ELSE dst[j])
               = IF j <= at + n THEN s[j] ELSE 0
  <2>1. dst[j] = IF j <= at THEN s[j] ELSE 0 BY <1>0 DEF FilledTo
  <2>2. CASE at < j /\ j <= at + n
    <3>1. j - at \in 1..Len(b) /\ at + (j - at) = j /\ 0 + (j - at) = j - at BY <2>2
    <3>2. s[at + (j - at)] = b[j - at] BY <3>1
    <3> QED BY <2>2, <3>1, <3>2
  <2>3. CASE ~(at < j /\ j <= at + n) BY <2>1, <2>3
  <2> QED BY <2>2, <2>3
<1>8. Copied(dst, b, 0, at, n) = FilledTo(s, at + n) BY <1>1, <1>7 DEF Copied, FilledTo
<1> QED BY <1>0, <1>3, <1>4, <1>5, <1>8

\* concat joins the buffers, whatever they are.
LEMMA ConcatJoins ==
  ASSUME NEW list, NEW s, Joined(list, s)
  PROVE  concat(list) = s
<1> DEFINE n == Len(list)
           g == CHOOSE f : IsEnds(f, list)
           h == CHOOSE f : IsFilled(f, g, list)
<1>1. list \in Seq(Seq(Nat)) /\ s \in Seq(Nat) BY DEF Joined
<1>2. PICK e : /\ Ends(e, list) /\ e[n] = Len(s)
               /\ \A k \in 1..n : \A j \in 1..Len(list[k]) : s[e[k - 1] + j] = list[k][j]
  BY DEF Joined
<1>3. concat(list) = h[n] BY DEF concat, IsEnds, IsFilled
<1>4. n \in Nat /\ Len(s) \in Nat /\ \A k \in 1..n : list[k] \in Seq(Nat) BY <1>1
<1>5. /\ e \in [0..n -> Nat] /\ e[0] = 0
      /\ \A k \in 1..n : e[k] = e[k - 1] + Len(list[k])
  BY <1>2 DEF Ends
<1>6. \A i \in 0..n : e[i] <= Len(s) BY <1>1, <1>2, EndsBelow
<1>7. IsEnds(e, list)
  <2>1. ASSUME NEW k \in 0..n PROVE e[k] = IF k = 0 THEN 0 ELSE e[k - 1] + Len(list[k])
    BY <1>4, <1>5
  <2> QED BY <1>5, <2>1 DEF IsEnds
<1>8. IsEnds(g, list) BY <1>7
<1> HIDE DEF g
<1>9. \A k \in 0..n : g[k] = e[k]
  <2> DEFINE S == {k \in Nat : k <= n => g[k] = e[k]}
  <2>1. 0 \in S BY <1>4, <1>5, <1>8 DEF IsEnds
  <2>2. ASSUME NEW k \in Nat, k \in S PROVE k + 1 \in S
    <3>1. SUFFICES ASSUME k + 1 <= n PROVE g[k + 1] = e[k + 1] OBVIOUS
    <3>2. k + 1 \in 0..n /\ k + 1 # 0 /\ (k + 1) - 1 = k /\ k + 1 \in 1..n /\ g[k] = e[k]
      BY <1>4, <2>2, <3>1
    <3>3. g[k + 1] = g[k] + Len(list[k + 1]) BY <1>8, <3>2 DEF IsEnds
    <3>4. e[k + 1] = e[k] + Len(list[k + 1]) BY <1>5, <3>2
    <3> QED BY <3>2, <3>3, <3>4
  <2>3. Nat \subseteq S
    <3> HIDE DEF S
    <3> QED BY <2>1, <2>2, SetInduction
  <2> QED BY <1>4, <2>3
<1> DEFINE fill == [k \in 0..n |-> FilledTo(s, e[k])]
<1>10. FilledTo(s, 0) = bufferwrap_create(Len(s)) BY <1>1 DEF FilledTo, bufferwrap_create, NUL
<1>11. ASSUME NEW k \in 1..n
       PROVE  nativeCopy(list[k], FilledTo(s, e[k - 1]), FALSE, e[k - 1], 0, Len(list[k])).bytes
                = FilledTo(s, e[k])
  <2>1. k - 1 \in 0..n /\ k \in 0..n BY <1>4
  <2>2. /\ e[k - 1] \in Nat /\ e[k - 1] + Len(list[k]) = e[k] /\ e[k] <= Len(s)
        /\ list[k] \in Seq(Nat)
    BY <1>4, <1>5, <1>6, <2>1
  <2>3. \A j \in 1..Len(list[k]) : s[e[k - 1] + j] = list[k][j] BY <1>2
  <2> QED BY <1>1, <2>2, <2>3, ConcatStep
<1>12. IsFilled(fill, g, list)
  <2>1. ASSUME NEW k \in 0..n
        PROVE  fill[k] = IF k = 0 THEN bufferwrap_create(g[n])
                         ELSE nativeCopy(list[k], fill[k - 1], FALSE, g[k - 1], 0, Len(list[k])).bytes
    <3>1. CASE k = 0
      <4>1. g[n] = Len(s) /\ fill[k] = FilledTo(s, 0) BY <1>2, <1>4, <1>5, <1>9, <3>1
      <4> QED BY <1>10, <3>1, <4>1
    <3>2. CASE k # 0
      <4>1. k \in 1..n /\ k - 1 \in 0..n BY <1>4, <3>2
      <4>2. g[k - 1] = e[k - 1] /\ fill[k - 1] = FilledTo(s, e[k - 1]) BY <1>9, <4>1
      <4> QED BY <1>11, <3>2, <4>1, <4>2
    <3> QED BY <3>1, <3>2
  <2>2. fill = [k \in 0..n |-> fill[k]] OBVIOUS
  <2> HIDE DEF fill
  <2> QED BY <2>1, <2>2 DEF IsFilled
<1>13. IsFilled(h, g, list)
  <2> HIDE DEF fill
  <2> QED BY <1>12
<1> HIDE DEF h
<1>14. h[n] = FilledTo(s, e[n])
  <2> DEFINE S == {k \in Nat : k <= n => h[k] = FilledTo(s, e[k])}
  <2>1. 0 \in S
    <3>1. 0 \in 0..n /\ n \in 0..n BY <1>4
    <3>2. h[0] = bufferwrap_create(g[n]) BY <1>13, <3>1 DEF IsFilled
    <3>3. h[0] = FilledTo(s, e[0]) BY <1>2, <1>5, <1>9, <1>10, <3>1, <3>2
    <3> QED BY <3>3
  <2>2. ASSUME NEW k \in Nat, k \in S PROVE k + 1 \in S
    <3>1. SUFFICES ASSUME k + 1 <= n PROVE h[k + 1] = FilledTo(s, e[k + 1]) OBVIOUS
    <3>2. /\ k + 1 \in 0..n /\ k + 1 # 0 /\ (k + 1) - 1 = k /\ k + 1 \in 1..n /\ k \in 0..n
          /\ h[k] = FilledTo(s, e[k])
      BY <1>4, <2>2, <3>1
    <3>3. h[k + 1] = nativeCopy(list[k + 1], h[k], FALSE, g[k], 0, Len(list[k + 1])).bytes
      BY <1>13, <3>2 DEF IsFilled
    <3> QED BY <1>9, <1>11, <3>2, <3>3
  <2>3. Nat \subseteq S
    <3> HIDE DEF S
    <3> QED BY <2>1, <2>2, SetInduction
  <2> QED BY <1>4, <2>3
<1>15. FilledTo(s, Len(s)) = s
  <2>1. s = [j \in 1..Len(s) |-> s[j]] BY <1>1
  <2> QED BY <1>4, <2>1 DEF FilledTo
<1> QED BY <1>2, <1>3, <1>14, <1>15

\* The remainder does not change when d is added.
LEMMA SameRemainder ==
  ASSUME NEW d \in Nat \ {0}, NEW x \in Nat
  PROVE  (x + d) % d = x % d
<1> DEFINE p == x \div d
           q == (x + d) \div d
<1>1. /\ x = (d * p) + (x % d) /\ p \in Nat /\ x % d \in 0..(d - 1)
  OBVIOUS
<1>2. PICK y : y = x + d OBVIOUS
<1>3. y = (d * (y \div d)) + (y % d) /\ y \div d \in Nat /\ y % d \in 0..(d - 1)
  BY <1>2
<1>4. x + d = (d * q) + ((x + d) % d) /\ q \in Nat /\ (x + d) % d \in 0..(d - 1)
  BY <1>2, <1>3
<1> HIDE DEF p, q
<1>5. ASSUME NEW a \in Nat, NEW b \in Int, a < b PROVE (d * a) + d <= d * b
  <2>1. PICK k \in Nat : b = a + 1 + k
    <3>1. b - a - 1 \in Nat /\ b = a + 1 + (b - a - 1) BY <1>5
    <3> QED BY <3>1
  <2>2. d * b = d * a + d + d * k BY <2>1
  <2>3. d * k \in Nat /\ d * a \in Nat /\ d * b \in Int OBVIOUS
  <2> QED BY <2>2, <2>3
<1>6. d * (p + 1) = (d * p) + d BY <1>1
<1>7. d * p \in Nat /\ d * q \in Nat /\ d * (p + 1) \in Nat BY <1>1, <1>4
<1>8. q = p + 1
  <2>1. CASE q < p + 1
    <3>1. (d * q) + d <= d * (p + 1) BY <1>1, <1>4, <1>5, <2>1
    <3> QED BY <1>1, <1>4, <1>6, <1>7, <3>1
  <2>2. CASE p + 1 < q
    <3>1. (d * (p + 1)) + d <= d * q BY <1>1, <1>4, <1>5, <2>2
    <3> QED BY <1>1, <1>4, <1>6, <1>7, <3>1
  <2> QED BY <1>1, <1>4, <2>1, <2>2
<1>9. d * q = (d * p) + d BY <1>6, <1>8
<1> QED BY <1>1, <1>4, <1>7, <1>9

\* The remainder of a number below d.
LEMMA SmallRemainder ==
  ASSUME NEW d \in Nat \ {0}, NEW x \in Nat, x < d
  PROVE  x % d = x
OBVIOUS

\* The byte of the source that step k of the loop copies, counted from
\* src_from: within one buffer a forward copy repeats what it wrote.
Source(same, from, at, k) ==
  IF same /\ from < at THEN ((k - 1) % (at - from)) + 1 ELSE k

\* The byte that step k reads is the one Source says.
LEMMA CopyReads ==
  ASSUME NEW dst \in Seq(Nat), NEW src, NEW same, NEW from \in Nat, NEW at \in Nat,
         NEW n \in Nat, at + n <= Len(dst), same => src = dst /\ from + n <= Len(dst),
         NEW x, x = [k \in 1..n |-> src[from + Source(same, from, at, k)]]
  PROVE  Reads(dst, src, same, from, at, n, x)
<1> SUFFICES ASSUME NEW k \in 1..n
             PROVE  (IF same THEN Laid(dst, x, at, k - 1)[from + k] ELSE src[from + k]) = x[k]
  BY DEF Reads
<1>1. x[k] = src[from + Source(same, from, at, k)] OBVIOUS
<1>2. CASE ~same BY <1>1, <1>2 DEF Source
<1>3. CASE same /\ at <= from
  <2>1. from + k \in 1..Len(dst) /\ ~(from + k <= at + (k - 1)) /\ ~(from < at) BY <1>3
  <2>2. Laid(dst, x, at, k - 1)[from + k] = dst[from + k] BY <2>1 DEF Laid
  <2> QED BY <1>1, <1>3, <2>1, <2>2 DEF Source
<1>4. CASE same /\ from < at
  <2> DEFINE d == at - from
  <2>1. d \in Nat \ {0} /\ from + k \in 1..Len(dst) /\ k - 1 \in Nat BY <1>4
  <2>2. x[k] = dst[from + (((k - 1) % d) + 1)] BY <1>1, <1>4 DEF Source
  <2>3. CASE k <= d
    <3>1. (k - 1) % d = k - 1
      <4>1. PICK i : i = k - 1 OBVIOUS
      <4>2. i \in Nat /\ i < d BY <2>1, <2>3, <4>1
      <4> HIDE DEF d
      <4>3. i % d = i BY <2>1, <4>2, SmallRemainder
      <4> QED BY <4>1, <4>3
    <3>2. ~(at < from + k) BY <2>3
    <3>3. Laid(dst, x, at, k - 1)[from + k] = dst[from + k] BY <2>1, <3>2 DEF Laid
    <3>4. from + ((k - 1) + 1) = from + k OBVIOUS
    <3> QED BY <1>4, <2>2, <3>1, <3>3, <3>4
  <2>4. CASE d < k
    <3>1. at < from + k /\ from + k <= at + (k - 1) /\ (from + k) - at = k - d BY <1>4, <2>4
    <3>2. k - d \in 1..n BY <2>1, <2>4
    <3>3. Laid(dst, x, at, k - 1)[from + k] = x[k - d] BY <2>1, <3>1 DEF Laid
    <3>4. x[k - d] = dst[from + ((((k - d) - 1) % d) + 1)] BY <1>4, <3>2 DEF Source
    <3>5. ((k - d) - 1) % d = (k - 1) % d
      <4>1. PICK i : i = (k - d) - 1 OBVIOUS
      <4>2. i \in Nat /\ i + d = k - 1 BY <3>2, <4>1
      <4> HIDE DEF d
      <4>3. (i + d) % d = i % d BY <2>1, <4>2, SameRemainder
      <4> QED BY <4>1, <4>2, <4>3
    <3> QED BY <1>4, <2>2, <3>3, <3>4, <3>5
  <2> QED BY <2>1, <2>3, <2>4
<1> QED BY <1>2, <1>3, <1>4

\* What copy_internal copies and leaves, byte by byte.
Moved(r, n, dst, src, same, from, at) ==
  /\ n \in Nat /\ at + n <= Len(dst)
  /\ r.copied = n /\ Len(r.bytes) = Len(dst)
  /\ \A j \in 1..Len(dst) :
       r.bytes[j] = IF at < j /\ j <= at + n
                    THEN src[from + Source(same, from, at, j - at)] ELSE dst[j]

\* copy_internal does that, also when source and destination are the same memory.
LEMMA CopyMoves ==
  ASSUME NEW dst \in Seq(Nat), NEW src, NEW same, NEW from \in Nat, NEW to \in Nat,
         NEW at \in Nat, at <= Len(dst), same => src = dst /\ to <= Len(dst) /\ from <= Len(dst),
         NEW n, n = Room(dst, from, to, at),
         NEW r, r = copy_internal(dst, src, same, from, to, at)
  PROVE  Moved(r, n, dst, src, same, from, at)
<1> DEFINE x == [k \in 1..n |-> src[from + Source(same, from, at, k)]]
<1>1. n \in Nat /\ at + n <= Len(dst) /\ (same => from + n <= Len(dst)) BY DEF Room, smaller
<1>2. Reads(dst, src, same, from, at, n, x)
  <2>1. PICK z : z = x OBVIOUS
  <2>2. z = [k \in 1..n |-> src[from + Source(same, from, at, k)]] BY <2>1
  <2> HIDE DEF x
  <2>3. Reads(dst, src, same, from, at, n, z) BY <1>1, <2>2, CopyReads
  <2> QED BY <2>1, <2>3
<1>3. \A j \in 1..Len(dst) : at < j /\ j <= at + n =>
        x[j - at] = src[from + Source(same, from, at, j - at)]
  BY <1>1
<1> HIDE DEF x
<1>5. r.copied = n /\ r.bytes = Laid(dst, x, at, n) BY <1>2, CopyLeaves
<1>6. /\ Len(r.bytes) = Len(dst)
      /\ \A j \in 1..Len(dst) :
           r.bytes[j] = IF at < j /\ j <= at + n THEN x[j - at] ELSE dst[j]
  BY <1>5 DEF Laid
<1> QED BY <1>1, <1>3, <1>5, <1>6 DEF Moved

\* The first k buffers of a list, and one more.
LEMMA FirstMore ==
  ASSUME NEW list \in Seq(Seq(Nat)), NEW k \in 1..Len(list)
  PROVE  SubSeq(list, 1, k) = Append(SubSeq(list, 1, k - 1), list[k])
<1> DEFINE a == SubSeq(list, 1, k)
           b == SubSeq(list, 1, k - 1)
           c == Append(b, list[k])
<1>1. /\ a \in Seq(Seq(Nat)) /\ Len(a) = k /\ \A i \in 1..k : a[i] = list[i]
      /\ b \in Seq(Seq(Nat)) /\ Len(b) = k - 1 /\ \A i \in 1..(k - 1) : b[i] = list[i]
      /\ list[k] \in Seq(Nat)
  OBVIOUS
<1> HIDE DEF a, b
<1>2. /\ c \in Seq(Seq(Nat)) /\ Len(c) = k /\ c[k] = list[k]
      /\ \A i \in 1..(k - 1) : c[i] = b[i]
  BY <1>1
<1> HIDE DEF c
<1>3. \A i \in 1..Len(a) : a[i] = c[i]
  <2>1. TAKE i \in 1..Len(a)
  <2>2. i = k \/ i \in 1..(k - 1) BY <1>1
  <2>3. CASE i = k BY <1>1, <1>2, <2>3
  <2>4. CASE i \in 1..(k - 1)
    <3>1. i \in 1..k BY <2>4
    <3> QED BY <1>1, <1>2, <2>4, <3>1
  <2> QED BY <2>2, <2>3, <2>4
<1>4. a = c
  <2>1. Len(a) = Len(c) BY <1>1, <1>2
  <2>2. ASSUME NEW T, NEW t \in Seq(T), NEW u \in Seq(T), Len(t) = Len(u),
               \A i \in 1..Len(t) : t[i] = u[i]
        PROVE  t = u
    BY <2>2, SeqEqual
  <2> QED BY <1>1, <1>2, <1>3, <2>1, <2>2
<1> QED BY <1>4 DEF a, b, c

\* Every list of buffers can be joined.
LEMMA AllJoin ==
  ASSUME NEW list \in Seq(Seq(Nat))
  PROVE  \E s : Joined(list, s)
<1> DEFINE n == Len(list)
           First(k) == SubSeq(list, 1, k)
           S == {k \in Nat : k <= n => \E s : Joined(First(k), s)}
<1>1. n \in Nat /\ \A k \in 1..n : list[k] \in Seq(Nat) OBVIOUS
<1>2. 0 \in S
  <2>1. First(0) = <<>> OBVIOUS
  <2>2. \E s : Joined(First(0), s)
    <3> HIDE DEF First
    <3> QED BY <2>1, JoinedNone
  <2> QED BY <2>2
<1>3. ASSUME NEW k \in Nat, k \in S PROVE k + 1 \in S
  <2>1. SUFFICES ASSUME k + 1 <= n PROVE \E s : Joined(First(k + 1), s) OBVIOUS
  <2>2. k <= n /\ list[k + 1] \in Seq(Nat) BY <1>1, <2>1
  <2>3. First(k + 1) = Append(First(k), list[k + 1])
    <3>1. PICK m : m = k + 1 OBVIOUS
    <3>2. m \in 1..Len(list) /\ m - 1 = k BY <1>1, <2>1, <3>1
    <3>3. SubSeq(list, 1, m) = Append(SubSeq(list, 1, m - 1), list[m]) BY <3>2, FirstMore
    <3> QED BY <3>1, <3>2, <3>3
  <2>4. PICK s : Joined(First(k), s) BY <1>3, <2>2
  <2> HIDE DEF First
  <2>5. Joined(Append(First(k), list[k + 1]), s \o list[k + 1]) BY <2>2, <2>4, JoinedMore
  <2> QED BY <2>3, <2>5
<1>4. Nat \subseteq S
  <2> HIDE DEF S
  <2> QED BY <1>2, <1>3, SetInduction
<1>5. \E s : Joined(First(n), s) BY <1>1, <1>4
<1>6. First(n) = list OBVIOUS
<1> QED BY <1>5, <1>6

\* The function that FlattenSeq defines by recursion.
IsFlatten(f, list) ==
  f = [i \in 1..Len(list) |-> IF i = 1 THEN list[i] ELSE f[i - 1] \o list[i]]

\* FlattenSeq joins them.
LEMMA FlattenJoins ==
  ASSUME NEW list \in Seq(Seq(Nat))
  PROVE  Joined(list, FlattenSeq(list))
<1> DEFINE n == Len(list)
           First(k) == SubSeq(list, 1, k)
           h == [i \in 1..n |-> concat(First(i))]
           g == CHOOSE f : IsFlatten(f, list)
<1>1. n \in Nat /\ \A k \in 1..n : list[k] \in Seq(Nat) OBVIOUS
<1>2. \A k \in 0..n : First(k) \in Seq(Seq(Nat)) OBVIOUS
<1>3. First(0) = <<>> /\ First(n) = list OBVIOUS
<1>4. \A k \in 1..n : First(k) = Append(First(k - 1), list[k]) BY FirstMore
<1> HIDE DEF First
<1>5. \A k \in 0..n : Joined(First(k), concat(First(k)))
  <2>1. TAKE k \in 0..n
  <2>2. PICK s : Joined(First(k), s) BY <1>2, AllJoin
  <2> QED BY <2>2, ConcatJoins
<1>6. \A k \in 1..n : concat(First(k)) = concat(First(k - 1)) \o list[k]
  <2>1. TAKE k \in 1..n
  <2>2. k - 1 \in 0..n BY <1>1
  <2>3. Joined(First(k - 1), concat(First(k - 1))) BY <1>5, <2>2
  <2>4. Joined(Append(First(k - 1), list[k]), concat(First(k - 1)) \o list[k])
    BY <1>1, <2>3, JoinedMore
  <2>5. Joined(First(k), concat(First(k - 1)) \o list[k]) BY <1>4, <2>4
  <2> QED BY <2>5, ConcatJoins
<1>7. concat(First(0)) = <<>> BY <1>3, JoinedNone, ConcatJoins
<1>8. IsFlatten(h, list)
  <2>1. ASSUME NEW i \in 1..n PROVE h[i] = IF i = 1 THEN list[i] ELSE h[i - 1] \o list[i]
    <3>1. h[i] = concat(First(i - 1)) \o list[i] BY <1>6
    <3>2. CASE i = 1
      <4>1. concat(First(i - 1)) = <<>> BY <1>7, <3>2
      <4>2. <<>> \o list[i] = list[i] BY <1>1
      <4> QED BY <3>1, <3>2, <4>1, <4>2
    <3>3. CASE i # 1
      <4>1. i - 1 \in 1..n BY <1>1, <3>3
      <4>2. h[i - 1] = concat(First(i - 1)) BY <4>1
      <4> QED BY <3>1, <3>3, <4>2
    <3> QED BY <3>2, <3>3
  <2>2. h = [i \in 1..n |-> h[i]] OBVIOUS
  <2> HIDE DEF h
  <2> QED BY <2>1, <2>2 DEF IsFlatten
<1>9. IsFlatten(g, list)
  <2> HIDE DEF h
  <2> QED BY <1>8
<1>10. FlattenSeq(list) = IF n = 0 THEN list ELSE g[n] BY DEF FlattenSeq, IsFlatten
<1> HIDE DEF g, h
<1> DEFINE S == {k \in Nat : k + 1 <= n => g[k + 1] = concat(First(k + 1))}
<1>11. 0 \in S
  <2>1. SUFFICES ASSUME 1 <= n PROVE g[1] = concat(First(1)) OBVIOUS
  <2>2. 1 \in 1..n /\ 1 - 1 = 0 BY <1>1, <2>1
  <2>3. g[1] = list[1] BY <1>9, <2>2 DEF IsFlatten
  <2>4. concat(First(1)) = concat(First(0)) \o list[1] BY <1>6, <2>2
  <2>5. <<>> \o list[1] = list[1] BY <1>1, <2>2
  <2> QED BY <1>7, <2>3, <2>4, <2>5
<1>12. ASSUME NEW k \in Nat, k \in S PROVE k + 1 \in S
  <2>1. SUFFICES ASSUME (k + 1) + 1 <= n PROVE g[(k + 1) + 1] = concat(First((k + 1) + 1))
    OBVIOUS
  <2>2. g[k + 1] = concat(First(k + 1)) BY <1>1, <1>12, <2>1
  <2>3. PICK m : m = (k + 1) + 1 OBVIOUS
  <2>4. m \in 1..n /\ m # 1 /\ m - 1 = k + 1 BY <1>1, <2>1, <2>3
  <2>5. g[m] = g[m - 1] \o list[m] BY <1>9, <2>4 DEF IsFlatten
  <2>6. concat(First(m)) = concat(First(m - 1)) \o list[m] BY <1>6, <2>4
  <2> QED BY <2>2, <2>3, <2>4, <2>5, <2>6
<1>13. Nat \subseteq S
  <2> HIDE DEF S
  <2> QED BY <1>11, <1>12, SetInduction
<1>14. CASE n = 0
  <2>1. list = <<>> BY <1>14
  <2>2. FlattenSeq(list) = <<>> BY <1>10, <1>14, <2>1
  <2> QED BY <2>1, <2>2, JoinedNone
<1>15. CASE n # 0
  <2>1. n - 1 \in Nat /\ (n - 1) + 1 = n /\ n \in 0..n BY <1>1, <1>15
  <2>2. g[n] = concat(First(n))
    <3>1. \A k \in Nat : k + 1 <= n => g[k + 1] = concat(First(k + 1)) BY <1>13
    <3>2. PICK k : k = n - 1 OBVIOUS
    <3>3. k \in Nat /\ k + 1 <= n /\ k + 1 = n BY <1>1, <2>1, <3>2
    <3>4. g[k + 1] = concat(First(k + 1)) BY <3>1, <3>3
    <3> QED BY <3>3, <3>4
  <2>3. Joined(First(n), concat(First(n))) BY <1>5, <2>1
  <2> QED BY <1>3, <1>10, <1>15, <2>2, <2>3
<1> QED BY <1>14, <1>15

\* concat is FlattenSeq, without its loops.
LEMMA ConcatFlattens ==
  ASSUME NEW list \in Seq(Seq(Nat))
  PROVE  FlattenSeq(list) \in Seq(Nat) /\ concat(list) = FlattenSeq(list)
BY FlattenJoins, ConcatJoins DEF Joined

\* A string has at least as many bytes as characters, and as many when each
\* character has one.
LEMMA BytesOfString ==
  ASSUME NEW string \in Seq(Seq(Nat)), \A k \in 1..Len(string) : Len(string[k]) >= 1
  PROVE  /\ utf8(string) \in Seq(Nat) /\ Len(utf8(string)) >= Len(string)
         /\ (\A k \in 1..Len(string) : Len(string[k]) = 1) => Len(utf8(string)) = Len(string)
<1> DEFINE n == Len(string)
<1>1. n \in Nat /\ \A k \in 1..n : Len(string[k]) \in Nat OBVIOUS
<1>2. PICK s : s = utf8(string) OBVIOUS
<1>3. Joined(string, s) BY <1>2, FlattenJoins DEF utf8
<1>4. PICK e : Ends(e, string) /\ e[n] = Len(s) BY <1>3 DEF Joined
<1>5. /\ e \in [0..n -> Nat] /\ e[0] = 0
      /\ \A k \in 1..n : e[k] = e[k - 1] + Len(string[k])
  BY <1>4 DEF Ends
<1>6. s \in Seq(Nat) BY <1>3 DEF Joined
<1> HIDE DEF n
<1> DEFINE all == \A k \in 1..n : Len(string[k]) = 1
           S == {k \in Nat : k <= n => e[k] >= k /\ (all => e[k] = k)}
<1>7. 0 \in S BY <1>5
<1>8. ASSUME NEW k \in Nat, k \in S PROVE k + 1 \in S
  <2>1. SUFFICES ASSUME k + 1 <= n PROVE e[k + 1] >= k + 1 /\ (all => e[k + 1] = k + 1)
    OBVIOUS
  <2>2. k + 1 \in 1..n /\ (k + 1) - 1 = k /\ k \in 0..n BY <1>1, <2>1
  <2>3. e[k + 1] = e[k] + Len(string[k + 1]) /\ e[k] \in Nat BY <1>5, <2>2
  <2>4. e[k] >= k /\ (all => e[k] = k) BY <1>1, <1>8, <2>1
  <2>5. Len(string[k + 1]) \in Nat /\ Len(string[k + 1]) >= 1 /\ (all => Len(string[k + 1]) = 1)
    BY <1>1, <2>2 DEF n
  <2> HIDE DEF all
  <2>6. e[k + 1] >= k + 1 BY <2>3, <2>4, <2>5
  <2>7. CASE all
    <3>1. e[k] = k /\ Len(string[k + 1]) = 1 BY <2>4, <2>5, <2>7
    <3> QED BY <2>3, <2>6, <3>1
  <2> QED BY <2>6, <2>7
<1>9. Nat \subseteq S
  <2> HIDE DEF S
  <2> QED BY <1>7, <1>8, SetInduction
<1>10. e[n] >= n /\ (all => e[n] = n) BY <1>1, <1>9
<1> QED BY <1>2, <1>4, <1>6, <1>10 DEF n

-----------------------------------------------------------------------------
(* The functions of Buffer, call by call.                                  *)

\* Buffers are sequences of bytes.
LEMMA ContentsAre ==
  ASSUME NEW c \in Contents
  PROVE  c \in Seq(Byte) /\ c \in Seq(Nat) /\ Len(c) \in Nat
<1>1. PICK n \in 0..MaxLength : c \in [1..n -> Bytes] BY DEF Contents
<1>2. n \in Nat BY <1>1, BuffersAssumption
<1>3. \A i \in 1..n : c[i] \in Byte BY <1>1, BuffersAssumption
<1>4. c \in [1..n -> Byte] BY <1>1, <1>3
<1>5. c \in Seq(Byte) BY <1>2, <1>4
<1>6. \A i \in 1..n : c[i] \in Nat BY <1>3 DEF Byte
<1>7. c \in [1..n -> Nat] BY <1>1, <1>6
<1> QED BY <1>2, <1>5, <1>7

\* Strings are sequences of characters, each of one byte or more.
LEMMA StringsAre ==
  ASSUME NEW string \in Strings
  PROVE  /\ string \in Seq(Seq(Nat)) /\ Len(string) \in Nat
         /\ \A k \in 1..Len(string) : Len(string[k]) >= 1
<1>1. PICK n \in 0..smaller(MaxLength, MaxShort) : string \in [1..n -> Characters] BY DEF Strings
<1>2. n \in Nat BY <1>1
<1>3. ASSUME NEW c \in Characters PROVE c \in Seq(Nat) /\ Len(c) >= 1
  <2>1. CASE c = <<195, 169>> BY <2>1
  <2>2. CASE \E b \in Bytes \cap 1..127 : c = <<b>> BY <2>2
  <2> QED BY <2>1, <2>2 DEF Characters
<1>4. \A i \in 1..n : string[i] \in Seq(Nat) /\ Len(string[i]) >= 1 BY <1>1, <1>3
<1>5. string \in [1..n -> Seq(Nat)] BY <1>1, <1>4
<1>6. string \in Seq(Seq(Nat)) /\ Len(string) = n BY <1>2, <1>5
<1> QED BY <1>2, <1>4, <1>6

\* bound_range of a range that starts at 0.
LEMMA Clamped ==
  ASSUME NEW i \in Int, NEW len \in Nat
  PROVE  /\ bound_range(i, 0, len) = Clamp(i, len)
         /\ Clamp(i, len) \in Nat /\ Clamp(i, len) <= len
BY DEF bound_range, Clamp, smaller

\* The arguments of a call, in and out of range, are integers.
LEMMA IndicesAre == Indices \subseteq Int
BY BuffersAssumption DEF Indices

-----------------------------------------------------------------------------

\* Copy leaves what CopyExact says.
LEMMA CopyIsExact == Copy => BufferOpsExact'
<1> SUFFICES ASSUME Copy PROVE BufferOpsExact' OBVIOUS
<1>1. PICK src \in Contents, dst \in Contents, same \in BOOLEAN, at0 \in Indices,
           from0 \in Indices, to0 \in Indices :
        /\ same => src = dst
        /\ made' = [op |-> "copy", src |-> src, dst |-> dst, same |-> same,
                    at |-> at0, from |-> from0, to |-> to0,
                    copied |-> nativeCopy(src, dst, same, at0, from0, to0).copied,
                    after |-> nativeCopy(src, dst, same, at0, from0, to0).bytes]
  BY DEF Copy, Called
<1>2. /\ src \in Seq(Nat) /\ dst \in Seq(Nat) /\ Len(src) \in Nat /\ Len(dst) \in Nat
      /\ at0 \in Int /\ from0 \in Int /\ to0 \in Int
  BY ContentsAre, IndicesAre
<1>3. PICK at : at = Clamp(at0, Len(dst)) OBVIOUS
<1>4. PICK from : from = Clamp(from0, Len(src)) OBVIOUS
<1>5. PICK to : to = Clamp(to0, Len(src)) OBVIOUS
<1>6. PICK end : end = IF to < from THEN from ELSE to OBVIOUS
<1>7. PICK n : n = Room(dst, from, end, at) OBVIOUS
<1>8. PICK r : r = copy_internal(dst, src, same, from, end, at) OBVIOUS
<1>9. /\ at \in Nat /\ at <= Len(dst) /\ from \in Nat /\ from <= Len(src)
      /\ to \in Nat /\ to <= Len(src) /\ end \in Nat /\ end <= Len(src)
  BY <1>2, <1>3, <1>4, <1>5, <1>6, Clamped
<1>10. nativeCopy(src, dst, same, at0, from0, to0) = r
  <2>1. /\ bound_range(at0, 0, Len(dst)) = at /\ bound_range(from0, 0, Len(src)) = from
        /\ bound_range(to0, 0, Len(src)) = to
    BY <1>2, <1>3, <1>4, <1>5, Clamped
  <2> QED BY <1>6, <1>8, <2>1, Zenon DEF nativeCopy
<1>11. same => src = dst /\ end <= Len(dst) /\ from <= Len(dst) BY <1>1, <1>9
<1>12. /\ n \in Nat /\ at + n <= Len(dst)
       /\ r.copied = n /\ Len(r.bytes) = Len(dst)
       /\ \A j \in 1..Len(dst) :
            r.bytes[j] = IF at < j /\ j <= at + n
                         THEN src[from + Source(same, from, at, j - at)] ELSE dst[j]
  <2>1. Moved(r, n, dst, src, same, from, at)
    BY <1>2, <1>7, <1>8, <1>9, <1>11, CopyMoves
  <2> QED BY <2>1, Zenon DEF Moved
<1>13. n = IF to <= from THEN 0 ELSE smaller(to - from, Len(dst) - at)
  BY <1>2, <1>6, <1>7, <1>9 DEF Room, smaller
<1>14. /\ made'.op = "copy" /\ made'.src = src /\ made'.dst = dst /\ made'.same = same
       /\ made'.at = at0 /\ made'.from = from0 /\ made'.to = to0
       /\ made'.copied = n /\ made'.after = r.bytes
  BY <1>1, <1>10, <1>12
<1>15. ASSUME NEW i \in 0..(Len(dst) - 1)
       PROVE  r.bytes[i + 1] =
                IF i < at \/ i >= at + n THEN dst[i + 1]
                ELSE src[from + (IF same /\ from < at THEN (i - at) % (at - from) ELSE i - at) + 1]
  <2>1. i + 1 \in 1..Len(dst) BY <1>2
  <2>2. CASE i < at \/ i >= at + n
    <3>1. ~(at < i + 1 /\ i + 1 <= at + n) BY <1>9, <1>12, <2>2
    <3> QED BY <1>12, <2>1, <2>2, <3>1
  <2>3. CASE ~(i < at \/ i >= at + n)
    <3>1. at < i + 1 /\ i + 1 <= at + n BY <1>9, <1>12, <2>3
    <3>2. r.bytes[i + 1] = src[from + Source(same, from, at, (i + 1) - at)]
      BY <1>12, <2>1, <3>1
    <3>3. Source(same, from, at, (i + 1) - at)
            = (IF same /\ from < at THEN (i - at) % (at - from) ELSE i - at) + 1
      <4>1. ((i + 1) - at) - 1 = i - at /\ (i + 1) - at = (i - at) + 1 BY <1>9
      <4> QED BY <4>1 DEF Source
    <3>4. PICK k : k = IF same /\ from < at THEN (i - at) % (at - from) ELSE i - at OBVIOUS
    <3>5. k \in Int BY <1>9, <3>4
    <3>6. from + (k + 1) = from + k + 1 BY <1>9, <3>5
    <3> QED BY <2>3, <3>2, <3>3, <3>4, <3>6
  <2> QED BY <2>2, <2>3
<1>16. CopyExact' BY <1>3, <1>4, <1>5, <1>12, <1>13, <1>14, <1>15 DEF CopyExact
<1> QED BY <1>14, <1>16 DEF BufferOpsExact, WriteExact, SliceExact, TextExact, CompareExact, CreateExact

\* What nativeWrite writes.
LEMMA NativeWrites ==
  ASSUME NEW buf \in Seq(Nat), NEW bytes \in Seq(Nat), NEW at0 \in Int, NEW length \in Int,
         NEW at, at = Clamp(at0, Len(buf)),
         NEW n, n = smaller(Clamp(length, Len(buf) - at), Len(bytes)),
         NEW r, r = nativeWrite(buf, bytes, at0, length)
  PROVE  /\ at \in Nat /\ n \in Nat /\ at + n <= Len(buf) /\ n <= Len(bytes)
         /\ r.copied = n /\ r.bytes = Copied(buf, bytes, 0, at, n)
<1>1. Len(buf) \in Nat /\ Len(bytes) \in Nat OBVIOUS
<1>2. at \in Nat /\ at <= Len(buf) /\ bound_range(at0, 0, Len(buf)) = at BY <1>1, Clamped
<1>3. PICK space : space = Len(buf) - at OBVIOUS
<1>4. space \in Nat BY <1>1, <1>2, <1>3
<1>5. PICK fits : fits = Clamp(length, space) OBVIOUS
<1>6. fits \in Nat /\ fits <= space /\ bound_range(length, 0, space) = fits
  BY <1>4, <1>5, Clamped
<1>7. PICK to : to = bound_range(fits, 0, Len(bytes)) OBVIOUS
<1>8. to = n /\ n \in Nat /\ n <= space /\ n <= Len(bytes) /\ smaller(to, space) = n
  BY <1>1, <1>3, <1>4, <1>5, <1>6, <1>7 DEF bound_range, smaller
<1>9. r = copy_internal(buf, bytes, FALSE, 0, to, at)
  BY <1>2, <1>3, <1>6, <1>7, Zenon DEF nativeWrite
<1>10. r.copied = n /\ r.bytes = Copied(buf, bytes, 0, at, n)
  <2>1. to \in Nat /\ n = smaller(to, Len(buf) - at) BY <1>3, <1>8
  <2>2. FromStart(n, buf, bytes, to, at) BY <1>2, <2>1, CopyStart
  <2> QED BY <1>9, <2>2, Zenon DEF FromStart
<1> QED BY <1>1, <1>2, <1>3, <1>8, <1>10

\* Write leaves what WriteExact says.
LEMMA WriteIsExact == Write => BufferOpsExact'
<1> SUFFICES ASSUME Write PROVE BufferOpsExact' OBVIOUS
<1>1. PICK buf \in Contents, string \in Strings, at0 \in Indices, length \in Indices :
        made' = [op |-> "write", buf |-> buf, string |-> string, at |-> at0,
                 length |-> length,
                 copied |-> nativeWrite(buf, utf8(string), at0, length).copied,
                 after |-> nativeWrite(buf, utf8(string), at0, length).bytes]
  BY DEF Write, Called
<1>2. PICK bytes : bytes = utf8(string) OBVIOUS
<1>3. buf \in Seq(Nat) /\ bytes \in Seq(Nat) /\ at0 \in Int /\ length \in Int
  <2>1. string \in Seq(Seq(Nat)) /\ \A k \in 1..Len(string) : Len(string[k]) >= 1
    BY StringsAre
  <2> QED BY <1>2, <2>1, BytesOfString, ContentsAre, IndicesAre
<1>4. PICK at : at = Clamp(at0, Len(buf)) OBVIOUS
<1>5. PICK n : n = smaller(Clamp(length, Len(buf) - at), Len(bytes)) OBVIOUS
<1>6. PICK r : r = nativeWrite(buf, bytes, at0, length) OBVIOUS
<1>7. /\ at \in Nat /\ n \in Nat /\ at + n <= Len(buf)
      /\ r.copied = n /\ r.bytes = Copied(buf, bytes, 0, at, n)
  BY <1>3, <1>4, <1>5, <1>6, NativeWrites
<1>9. /\ made'.op = "write" /\ made'.buf = buf /\ made'.string = string /\ made'.at = at0
      /\ made'.length = length /\ made'.copied = n /\ made'.after = Copied(buf, bytes, 0, at, n)
  BY <1>1, <1>2, <1>6, <1>7
<1>10. ASSUME NEW i \in 1..Len(buf)
       PROVE  Copied(buf, bytes, 0, at, n)[i]
                = IF i <= at \/ i > at + n THEN buf[i] ELSE bytes[i - at]
  <2>1. Copied(buf, bytes, 0, at, n)[i]
          = IF at < i /\ i <= at + n THEN bytes[0 + (i - at)] ELSE buf[i]
    BY DEF Copied
  <2>2. /\ 0 + (i - at) = i - at
        /\ (at < i /\ i <= at + n) <=> ~(i <= at \/ i > at + n)
    BY <1>3, <1>7
  <2> QED BY <2>1, <2>2
<1>11. WriteExact' BY <1>2, <1>4, <1>5, <1>9, <1>10 DEF WriteExact
<1> QED BY <1>9, <1>11 DEF BufferOpsExact, CopyExact, SliceExact, TextExact, CompareExact, CreateExact

\* A set of numbers that is not empty has a least one.
LEMMA LeastOf ==
  ASSUME NEW S \in SUBSET Nat, S # {}
  PROVE  \E x \in S : \A y \in S : x <= y
<1>1. IsWellFoundedOn(Less, Nat) BY NatLessThanWellFounded, Zenon DEF OpToRel, Less
<1>2. PICK x \in S : \A y \in S : ~(<<y, x>> \in Less) BY <1>1, WFMin, Zenon
<1>3. ASSUME NEW y \in S PROVE x <= y
  <2>1. SUFFICES ASSUME y < x PROVE FALSE OBVIOUS
  <2>2. <<y, x>> \in Less BY <2>1 DEF Less
  <2> QED BY <1>2, <2>2
<1> QED BY <1>3

\* The bytes before the first NUL.
LEMMA CStringIs ==
  ASSUME NEW s \in Seq(Nat), NEW c, c = cString(s)
  PROVE  /\ c \in Seq(Nat) /\ IsPrefix(c, s)
         /\ \A i \in 1..Len(c) : c[i] # NUL
         /\ Len(c) < Len(s) => s[Len(c) + 1] = NUL
<1>1. CASE ~\E i \in 1..Len(s) : s[i] = NUL
  <2>1. c = s BY <1>1 DEF cString
  <2> QED BY <1>1, <2>1 DEF IsPrefix
<1>2. CASE \E i \in 1..Len(s) : s[i] = NUL
  <2> DEFINE I == {i \in 1..Len(s) : s[i] = NUL}
             first == CHOOSE x \in I : \A y \in I : x =< y
  <2>1. I # {} /\ I \in SUBSET Nat BY <1>2
  <2>2. SelectInSeq(s, LAMBDA b : b = NUL) = first BY <2>1 DEF SelectInSeq, Min
  <2>3. c = SubSeq(s, 1, first - 1) BY <1>2, <2>2 DEF cString
  <2> HIDE DEF I
  <2>4. \E x \in I : \A y \in I : x =< y BY <2>1, LeastOf
  <2>5. first \in I /\ \A y \in I : first <= y BY <2>4
  <2> HIDE DEF first
  <2>6. first \in 1..Len(s) /\ s[first] = NUL BY <2>5 DEF I
  <2>7. first - 1 \in 0..Len(s) /\ Len(s) \in Nat BY <2>6
  <2>8. /\ c \in Seq(Nat) /\ Len(c) = first - 1
        /\ \A i \in 1..(first - 1) : c[i] = s[i]
    BY <2>3, <2>6, <2>7
  <2>9. \A i \in 1..(first - 1) : s[i] # NUL
    <3>1. TAKE i \in 1..(first - 1)
    <3>2. i \in 1..Len(s) /\ ~(first <= i) BY <2>6, <2>7
    <3> QED BY <2>5, <3>2 DEF I
  <2>10. SubSeq(c, 1, Len(c)) = SubSeq(s, 1, Len(c))
    <3>1. SubSeq(c, 1, Len(c)) = c BY <2>8
    <3> QED BY <2>3, <2>8, <3>1
  <2>11. IsPrefix(c, s) BY <2>7, <2>8, <2>10 DEF IsPrefix
  <2>12. \A i \in 1..Len(c) : c[i] # NUL BY <2>8, <2>9
  <2>13. s[Len(c) + 1] = NUL
    <3>1. Len(c) + 1 = first BY <2>6, <2>8
    <3> QED BY <2>6, <3>1
  <2> QED BY <2>8, <2>11, <2>12, <2>13
<1> QED BY <1>1, <1>2

\* s has the bytes from + 1 to last of a buffer.
Part(s, buf, from, last) ==
  /\ s \in Seq(Nat) /\ Len(s) = last - from
  /\ \A i \in 1..(last - from) : s[i] = buf[from + i]
  /\ s = [i \in 1..(last - from) |-> buf[from + i]]

\* SubSeq has them.
LEMMA PartIs ==
  ASSUME NEW buf \in Seq(Nat), NEW from \in Nat, NEW last \in Nat, from <= last, last <= Len(buf),
         NEW s, s = SubSeq(buf, from + 1, last)
  PROVE  Part(s, buf, from, last)
<1>1. PICK m : m = from + 1 OBVIOUS
<1>2. PICK n : n = last - from OBVIOUS
<1>3. m \in Nat /\ n \in Nat /\ (1 + last) - m = n BY <1>1, <1>2
<1>4. s = [i \in 1..((1 + last) - m) |-> buf[(i + m) - 1]] BY <1>1
<1>5. \A i \in 1..n : (i + m) - 1 = from + i /\ from + i \in 1..Len(buf) BY <1>1, <1>2
<1>6. s = [i \in 1..n |-> buf[from + i]] BY <1>3, <1>4, <1>5
<1>7. \A i \in 1..n : buf[from + i] \in Nat BY <1>5
<1>8. s \in Seq(Nat) /\ Len(s) = n BY <1>3, <1>6, <1>7
<1> QED BY <1>2, <1>6, <1>8 DEF Part

\* slice takes the bytes from + 1 to to.
Sliced(buf, start, end, from, to) ==
  /\ from \in 0..Len(buf) /\ to \in 0..Len(buf)
  /\ slice(buf, start, end) = SubSeq(buf, from + 1, IF to < from THEN from ELSE to)

\* slice does that, with from and to in the buffer, a negative index counted from the end.
LEMMA SliceIs ==
  ASSUME NEW buf \in Seq(Nat), NEW start \in Int, NEW end \in Int,
         NEW from, from = Clamp(IF start < 0 THEN Len(buf) + start ELSE start, Len(buf)),
         NEW to, to = Clamp(IF end < 0 THEN Len(buf) + end ELSE end, Len(buf))
  PROVE  Sliced(buf, start, end, from, to)
<1> DEFINE len == Len(buf)
           last == IF to < from THEN from ELSE to
           n == last - from
<1>1. len \in Nat OBVIOUS
<1>2. PICK a : a = IF start < 0 THEN start + len ELSE start OBVIOUS
<1>3. PICK b : b = IF end < 0 THEN end + len ELSE end OBVIOUS
<1>4. a \in Int /\ b \in Int /\ from = Clamp(a, len) /\ to = Clamp(b, len)
  BY <1>1, <1>2, <1>3
<1>5. /\ from \in Nat /\ from <= len /\ to \in Nat /\ to <= len
      /\ bound_range(a, 0, len) = from /\ bound_range(b, 0, len) = to
  BY <1>1, <1>4, Clamped
<1>6. last \in Nat /\ n \in Nat /\ from + n <= len /\ last <= len BY <1>1, <1>5
<1>7. PICK new : new = bufferwrap_create(n) OBVIOUS
<1>8. slice(buf, start, end) = copy_internal(new, buf, FALSE, from, last, 0).bytes
  BY <1>2, <1>3, <1>5, <1>7, Zenon DEF slice
<1> HIDE DEF n
<1>9. new \in Seq(Nat) /\ Len(new) = n BY <1>6, <1>7, Created
<1>10. copy_internal(new, buf, FALSE, from, last, 0).bytes = Copied(new, buf, from, 0, n)
  <2>1. PICK at : at = 0 OBVIOUS
  <2>2. PICK same : same = FALSE OBVIOUS
  <2>3. PICK r : r = copy_internal(new, buf, same, from, last, at) OBVIOUS
  <2>4. last - from = n BY DEF n
  <2> HIDE DEF last
  <2>5. Room(new, from, last, at) = n BY <1>5, <1>6, <1>9, <2>1, <2>4 DEF Room, smaller
  <2>6. Apart(r, n, new, buf, same, from, last, at)
    BY <1>5, <1>6, <1>9, <2>1, <2>2, <2>3, <2>5 DEF Apart
  <2>7. Left(r, n, new, buf, from, at) BY <2>6, CopyApart
  <2> QED BY <2>1, <2>2, <2>3, <2>7, Zenon DEF Left
<1>11. Copied(new, buf, from, 0, n) = [j \in 1..n |-> buf[from + j]]
  <2>1. \A j \in 1..n : 0 < j /\ j <= 0 + n /\ from + (j - 0) = from + j BY <1>5, <1>6
  <2> QED BY <1>9, <2>1 DEF Copied
<1>12. SubSeq(buf, from + 1, last) = [j \in 1..n |-> buf[from + j]]
  <2>1. last - from = n /\ from <= last BY <1>5 DEF n
  <2> HIDE DEF last
  <2>2. PICK s : s = SubSeq(buf, from + 1, last) OBVIOUS
  <2>3. Part(s, buf, from, last) BY <1>5, <1>6, <2>1, <2>2, PartIs
  <2> QED BY <2>1, <2>2, <2>3 DEF Part
<1>13. slice(buf, start, end) = SubSeq(buf, from + 1, last) BY <1>8, <1>10, <1>11, <1>12
<1> QED BY <1>1, <1>5, <1>13 DEF Sliced

\* Slice leaves what SliceExact says.
LEMMA SliceIsExact == Slice => BufferOpsExact'
<1> SUFFICES ASSUME Slice PROVE BufferOpsExact' OBVIOUS
<1>1. PICK buf \in Contents, start \in Indices, end \in Indices :
        made' = [op |-> "slice", buf |-> buf, start |-> start, end |-> end,
                 slice |-> slice(buf, start, end)]
  BY DEF Slice, Called
<1>2. buf \in Seq(Nat) /\ Len(buf) \in Nat /\ start \in Int /\ end \in Int
  BY ContentsAre, IndicesAre
<1>3. PICK len : len = Len(buf) OBVIOUS
<1>4. PICK from : from = Clamp(IF start < 0 THEN len + start ELSE start, len) OBVIOUS
<1>5. PICK to : to = Clamp(IF end < 0 THEN len + end ELSE end, len) OBVIOUS
<1>6. PICK last : last = IF to < from THEN from ELSE to OBVIOUS
<1>7. PICK s : s = SubSeq(buf, from + 1, last) OBVIOUS
<1>8. from \in 0..len /\ to \in 0..len /\ slice(buf, start, end) = s
  <2>1. /\ from = Clamp(IF start < 0 THEN Len(buf) + start ELSE start, Len(buf))
        /\ to = Clamp(IF end < 0 THEN Len(buf) + end ELSE end, Len(buf))
    BY <1>3, <1>4, <1>5
  <2>2. Sliced(buf, start, end, from, to) BY <1>2, <2>1, SliceIs
  <2> QED BY <1>3, <1>6, <1>7, <2>2 DEF Sliced
<1>9. /\ s \in Seq(Nat) /\ Len(s) = last - from
      /\ \A i \in 1..Len(s) : s[i] = buf[from + i]
  <2>1. from \in Nat /\ last \in Nat /\ from <= last /\ last <= Len(buf)
    BY <1>2, <1>3, <1>6, <1>8
  <2>2. Part(s, buf, from, last) BY <1>2, <1>7, <2>1, PartIs
  <2> QED BY <2>2 DEF Part
<1>10. /\ made'.op = "slice" /\ made'.buf = buf /\ made'.start = start /\ made'.end = end
       /\ made'.slice = s
  BY <1>1, <1>8
<1>11. Len(s) = Cardinality({i \in 1..len : i > from /\ i <= to})
  <2>1. {i \in 1..len : i > from /\ i <= to} = (from + 1)..to BY <1>2, <1>3, <1>8
  <2>2. Cardinality((from + 1)..to) = IF from + 1 > to THEN 0 ELSE to - (from + 1) + 1
    BY <1>8, FS_Interval
  <2>3. last - from = IF from + 1 > to THEN 0 ELSE to - (from + 1) + 1 BY <1>6, <1>8
  <2> QED BY <1>9, <2>1, <2>2, <2>3
<1>12. SliceExact' BY <1>3, <1>4, <1>5, <1>9, <1>10, <1>11 DEF SliceExact
<1> QED BY <1>10, <1>12
     DEF BufferOpsExact, CopyExact, WriteExact, TextExact, CompareExact, CreateExact

\* Text leaves what TextExact says, or ends the process.
LEMMA TextIsExact == Text => BufferOpsExact'
<1> SUFFICES ASSUME Text PROVE BufferOpsExact' OBVIOUS
<1>1. CASE \E buf \in Contents, asserting \in BOOLEAN :
             /\ toStringAborts(buf, asserting)
             /\ made' = [op |-> "aborted", buf |-> buf]
  <2>1. PICK buf \in Contents :
          Len(buf) = 0 /\ made' = [op |-> "aborted", buf |-> buf]
    BY <1>1 DEF toStringAborts
  <2>2. made'.op = "aborted" /\ made'.buf = buf BY <2>1
  <2>3. buf = <<>> BY <2>1, ContentsAre
  <2>4. TextExact' BY <2>2, <2>3 DEF TextExact
  <2> QED BY <2>2, <2>4
       DEF BufferOpsExact, CopyExact, WriteExact, SliceExact, CompareExact, CreateExact
<1>2. CASE \E buf \in Contents, start, end \in Indices :
             made' = [op |-> "toString", buf |-> buf, start |-> start, end |-> end,
                      text |-> toString(buf, start, end)]
  <2>1. PICK buf \in Contents, start \in Indices, end \in Indices :
          made' = [op |-> "toString", buf |-> buf, start |-> start, end |-> end,
                   text |-> toString(buf, start, end)]
    BY <1>2
  <2>2. buf \in Seq(Nat) /\ Len(buf) \in Nat /\ start \in Int /\ end \in Int
    BY ContentsAre, IndicesAre
  <2>3. PICK len : len = Len(buf) OBVIOUS
  <2>4. PICK from : from = Clamp(start, len) OBVIOUS
  <2>5. PICK to : to = Clamp(end, len) OBVIOUS
  <2>6. PICK last : last = IF to < from THEN from ELSE to OBVIOUS
  <2>7. PICK s : s = SubSeq(buf, from + 1, last) OBVIOUS
  <2>8. /\ from \in Nat /\ from <= len /\ to \in Nat /\ to <= len
        /\ bound_range(start, 0, len) = from /\ bound_range(end, 0, len) = to
    BY <2>2, <2>3, <2>4, <2>5, Clamped
  <2>9. PICK text : text = cString(s) OBVIOUS
  <2>10. toString(buf, start, end) = text
    BY <2>3, <2>6, <2>7, <2>8, <2>9 DEF toString
  <2>11. /\ s \in Seq(Nat) /\ Len(s) = last - from
         /\ \A i \in 1..Len(s) : s[i] = buf[from + i]
    <3>1. from \in Nat /\ last \in Nat /\ from <= last /\ last <= Len(buf)
      BY <2>2, <2>3, <2>6, <2>8
    <3>2. Part(s, buf, from, last) BY <2>2, <2>7, <3>1, PartIs
    <3> QED BY <3>2 DEF Part
  <2>12. /\ made'.op = "toString" /\ made'.buf = buf /\ made'.start = start
         /\ made'.end = end /\ made'.text = text
    BY <2>1, <2>10
  <2>13. PICK n : n = Len(text) OBVIOUS
  <2>14. /\ n \in Nat /\ n <= Len(s)
         /\ \A i \in 1..n : text[i] = s[i] /\ text[i] # NUL
         /\ n < Len(s) => s[n + 1] = NUL
    <3>1. IsPrefix(text, s) /\ text \in Seq(Nat) BY <2>9, <2>11, CStringIs
    <3>2. \A i \in 1..n : text[i] = s[i]
      <4>1. SubSeq(text, 1, n) = SubSeq(s, 1, n) /\ n <= Len(s) BY <2>13, <3>1 DEF IsPrefix
      <4>2. \A i \in 1..n : SubSeq(text, 1, n)[i] = text[i] BY <2>13, <3>1
      <4>3. \A i \in 1..n : SubSeq(s, 1, n)[i] = s[i] BY <2>11, <2>13, <3>1, <4>1
      <4> QED BY <4>1, <4>2, <4>3
    <3>3. n \in Nat /\ n <= Len(s) BY <2>13, <3>1 DEF IsPrefix
    <3>4. (\A i \in 1..n : text[i] # NUL) /\ (n < Len(s) => s[n + 1] = NUL)
      BY <2>9, <2>11, <2>13, CStringIs
    <3> QED BY <3>2, <3>3, <3>4
  <2>15. last - from \in Nat /\ (from < to => last = to) /\ (last = from \/ last = to)
    BY <2>6, <2>8
  <2>16. n = 0 \/ from + n <= to BY <2>6, <2>8, <2>11, <2>14
  <2>17. \A i \in 1..n : text[i] = buf[from + i] /\ text[i] # NUL BY <2>11, <2>14
  <2>18. from + n < to => buf[from + n + 1] = NUL
    <3>1. ASSUME from + n < to PROVE buf[from + n + 1] = NUL
      <4>1. last = to BY <2>6, <2>8, <2>14, <3>1
      <4>2. n < Len(s) /\ n + 1 \in 1..Len(s) BY <2>8, <2>11, <2>14, <3>1, <4>1
      <4>3. from + (n + 1) = from + n + 1 BY <2>8, <2>14
      <4> QED BY <2>11, <2>14, <4>2, <4>3
    <3> QED BY <3>1
  <2>19. TextExact'
    BY <2>3, <2>4, <2>5, <2>12, <2>13, <2>16, <2>17, <2>18 DEF TextExact
  <2> QED BY <2>12, <2>19
       DEF BufferOpsExact, CopyExact, WriteExact, SliceExact, CompareExact, CreateExact
<1> QED BY <1>1, <1>2 DEF Text, Called

-----------------------------------------------------------------------------

\* x comes before y in the order of bufferwrap_compare.
Precedes(x, y) ==
  \E f \in 1..Len(y) :
    /\ f <= Len(x) + 1
    /\ \A j \in 1..(f - 1) : x[j] = y[j]
    /\ f <= Len(x) => char(x[f]) < char(y[f])

\* What the answer of bufferwrap_compare means.
LEMMA CompareMeans ==
  ASSUME NEW x \in Seq(Byte), NEW y \in Seq(Byte), NEW c, c = bufferwrap_compare(x, y)
  PROVE  (c = -1 /\ Precedes(x, y)) \/ (c = 1 /\ Precedes(y, x)) \/ (c = 0 /\ x = y)
<1> DEFINE m == smaller(Len(x), Len(y))
           D == {i \in 1..m : x[i] # y[i]}
           first == CHOOSE i \in D : \A j \in D : i <= j
<1>1. Len(x) \in Nat /\ Len(y) \in Nat /\ m \in Nat /\ m <= Len(x) /\ m <= Len(y)
      /\ (m = Len(x) \/ m = Len(y))
  BY DEF smaller
<1>2. c = CASE D # {} -> IF char(x[first]) < char(y[first]) THEN -1 ELSE 1
            [] D = {} /\ Len(x) < Len(y) -> -1
            [] D = {} /\ Len(x) > Len(y) -> 1
            [] OTHER -> 0
  BY DEF bufferwrap_compare
<1> HIDE DEF m
<1>3. CASE D # {}
  <2>1. D \in SUBSET Nat BY <1>1
  <2> HIDE DEF D
  <2>2. \E i \in D : \A j \in D : i <= j BY <1>3, <2>1, LeastOf
  <2>3. first \in D /\ \A j \in D : first <= j BY <2>2
  <2>4. c = IF char(x[first]) < char(y[first]) THEN -1 ELSE 1 BY <1>2, <1>3
  <2> HIDE DEF first
  <2>5. first \in 1..m /\ x[first] # y[first] BY <2>3 DEF D
  <2>6. \A j \in 1..(first - 1) : x[j] = y[j]
    <3>1. TAKE j \in 1..(first - 1)
    <3>2. j \in 1..m /\ ~(first <= j) BY <1>1, <2>5
    <3> QED BY <2>3, <3>2 DEF D
  <2>7. /\ first \in 1..Len(x) /\ first \in 1..Len(y)
        /\ first <= Len(x) + 1 /\ first <= Len(y) + 1
    BY <1>1, <2>5
  <2>8. char(x[first]) < char(y[first]) \/ char(y[first]) < char(x[first])
    <3>1. x[first] \in Byte /\ y[first] \in Byte BY <2>7
    <3>2. PICK p, q : p = x[first] /\ q = y[first] OBVIOUS
    <3>3. p \in 0..255 /\ q \in 0..255 /\ p # q BY <2>5, <3>1, <3>2 DEF Byte
    <3>4. char(p) < char(q) \/ char(q) < char(p) BY <3>3 DEF char
    <3> QED BY <3>2, <3>4
  <2>9. CASE char(x[first]) < char(y[first])
    <3>1. Precedes(x, y) BY <2>6, <2>7, <2>9 DEF Precedes
    <3> QED BY <2>4, <2>9, <3>1
  <2>10. CASE ~(char(x[first]) < char(y[first]))
    <3>1. Precedes(y, x) BY <2>6, <2>7, <2>8, <2>10 DEF Precedes
    <3> QED BY <2>4, <2>10, <3>1
  <2> QED BY <2>9, <2>10
<1>4. CASE D = {}
  <2>1. \A j \in 1..m : x[j] = y[j] BY <1>4
  <2> HIDE DEF D, first
  <2>2. CASE Len(x) < Len(y)
    <3>1. c = -1 BY <1>2, <1>4, <2>2
    <3>2. Len(x) + 1 \in 1..Len(y) /\ m = Len(x) BY <1>1, <2>2
    <3>3. Precedes(x, y)
      <4>1. PICK f : f = Len(x) + 1 OBVIOUS
      <4>2. f \in 1..Len(y) /\ f <= Len(x) + 1 /\ ~(f <= Len(x)) /\ f - 1 = m
        BY <1>1, <3>2, <4>1
      <4> QED BY <2>1, <4>2 DEF Precedes
    <3> QED BY <3>1, <3>3
  <2>3. CASE Len(x) > Len(y)
    <3>1. c = 1 BY <1>1, <1>2, <1>4, <2>3
    <3>2. Len(y) + 1 \in 1..Len(x) /\ m = Len(y) BY <1>1, <2>3
    <3>3. Precedes(y, x)
      <4>1. PICK f : f = Len(y) + 1 OBVIOUS
      <4>2. f \in 1..Len(x) /\ f <= Len(y) + 1 /\ ~(f <= Len(y)) /\ f - 1 = m
        BY <1>1, <3>2, <4>1
      <4>3. \A j \in 1..(f - 1) : y[j] = x[j] BY <2>1, <4>2
      <4> QED BY <4>2, <4>3 DEF Precedes
    <3> QED BY <3>1, <3>3
  <2>4. CASE Len(x) = Len(y)
    <3>1. c = 0 BY <1>1, <1>2, <1>4, <2>4
    <3>2. x = y
      <4>1. m = Len(x) BY <1>1, <2>4
      <4>2. \A i \in 1..Len(x) : x[i] = y[i] BY <2>1, <4>1
      <4> QED BY <2>4, <4>2, SeqEqual
    <3> QED BY <3>1, <3>2
  <2> QED BY <1>1, <2>2, <2>3, <2>4
<1> QED BY <1>3, <1>4

\* The order is strict.
LEMMA PrecedesIsStrict ==
  ASSUME NEW x \in Seq(Byte), NEW y \in Seq(Byte), Precedes(x, y)
  PROVE  x # y /\ ~Precedes(y, x)
<1>1. PICK f \in 1..Len(y) : /\ f <= Len(x) + 1
                             /\ \A j \in 1..(f - 1) : x[j] = y[j]
                             /\ f <= Len(x) => char(x[f]) < char(y[f])
  BY DEF Precedes
<1>2. Len(x) \in Nat /\ Len(y) \in Nat OBVIOUS
<1>3. \A b \in Byte : char(b) \in Int BY DEF Byte, char
<1>4. x # y
  <2>1. SUFFICES ASSUME x = y PROVE FALSE OBVIOUS
  <2>2. f <= Len(x) BY <2>1
  <2>3. char(x[f]) < char(x[f]) BY <1>1, <2>1, <2>2
  <2>4. x[f] \in Byte BY <1>2, <2>2
  <2> QED BY <1>3, <2>3, <2>4
<1>5. ASSUME Precedes(y, x) PROVE FALSE
  <2>1. PICK g \in 1..Len(x) : /\ g <= Len(y) + 1
                               /\ \A j \in 1..(g - 1) : y[j] = x[j]
                               /\ g <= Len(y) => char(y[g]) < char(x[g])
    BY <1>5 DEF Precedes
  <2>2. CASE f < g
    <3>1. f \in 1..(g - 1) /\ f <= Len(x) BY <1>2, <2>2
    <3>2. y[f] = x[f] /\ char(x[f]) < char(y[f]) BY <1>1, <2>1, <3>1
    <3>3. x[f] \in Byte BY <1>2, <3>1
    <3>4. char(x[f]) < char(x[f]) BY <3>2
    <3> QED BY <1>3, <3>3, <3>4
  <2>3. CASE g < f
    <3>1. g \in 1..(f - 1) /\ g <= Len(y) BY <1>2, <2>3
    <3>2. x[g] = y[g] /\ char(y[g]) < char(x[g]) BY <1>1, <2>1, <3>1
    <3>3. y[g] \in Byte BY <1>2, <3>1
    <3>4. char(y[g]) < char(y[g]) BY <3>2
    <3> QED BY <1>3, <3>3, <3>4
  <2>4. CASE f = g
    <3>1. f <= Len(x) /\ g <= Len(y) BY <1>2, <2>4
    <3>2. char(x[f]) < char(y[f]) /\ char(y[f]) < char(x[f]) BY <1>1, <2>1, <2>4, <3>1
    <3>3. x[f] \in Byte /\ y[f] \in Byte BY <1>2, <3>1
    <3>4. char(x[f]) \in Int /\ char(y[f]) \in Int BY <1>3, <3>3
    <3> QED BY <3>2, <3>4
  <2> QED BY <1>2, <2>2, <2>3, <2>4
<1> QED BY <1>4, <1>5

\* The order is transitive.
LEMMA PrecedesIsTransitive ==
  ASSUME NEW x \in Seq(Byte), NEW y \in Seq(Byte), NEW z \in Seq(Byte),
         Precedes(x, y), Precedes(y, z)
  PROVE  Precedes(x, z)
<1>1. PICK f \in 1..Len(y) : /\ f <= Len(x) + 1
                             /\ \A j \in 1..(f - 1) : x[j] = y[j]
                             /\ f <= Len(x) => char(x[f]) < char(y[f])
  BY DEF Precedes
<1>2. PICK g \in 1..Len(z) : /\ g <= Len(y) + 1
                             /\ \A j \in 1..(g - 1) : y[j] = z[j]
                             /\ g <= Len(y) => char(y[g]) < char(z[g])
  BY DEF Precedes
<1>3. Len(x) \in Nat /\ Len(y) \in Nat /\ Len(z) \in Nat OBVIOUS
<1>4. \A b \in Byte : char(b) \in Int BY DEF Byte, char
<1>5. CASE f < g
  <2>1. f \in 1..Len(z) /\ f \in 1..(g - 1) BY <1>3, <1>5
  <2>2. y[f] = z[f] BY <1>2, <2>1
  <2>3. \A j \in 1..(f - 1) : x[j] = z[j]
    <3>1. TAKE j \in 1..(f - 1)
    <3>2. j \in 1..(g - 1) BY <1>5
    <3> QED BY <1>1, <1>2, <3>2
  <2>4. f <= Len(x) => char(x[f]) < char(z[f]) BY <1>1, <2>2
  <2> QED BY <1>1, <2>1, <2>3, <2>4 DEF Precedes
<1>6. CASE g < f
  <2>1. g \in 1..(f - 1) /\ g <= Len(y) /\ g <= Len(x) BY <1>1, <1>3, <1>6
  <2>2. x[g] = y[g] /\ char(y[g]) < char(z[g]) BY <1>1, <1>2, <2>1
  <2>3. \A j \in 1..(g - 1) : x[j] = z[j]
    <3>1. TAKE j \in 1..(g - 1)
    <3>2. j \in 1..(f - 1) BY <1>6
    <3> QED BY <1>1, <1>2, <3>2
  <2>4. char(x[g]) < char(z[g]) /\ g <= Len(x) + 1 BY <1>3, <2>1, <2>2
  <2> QED BY <2>3, <2>4 DEF Precedes
<1>7. CASE f = g
  <2>1. \A j \in 1..(f - 1) : x[j] = z[j] BY <1>1, <1>2, <1>7
  <2>2. f \in 1..Len(z) /\ f <= Len(y) BY <1>7
  <2>3. f <= Len(x) => char(x[f]) < char(z[f])
    <3>1. SUFFICES ASSUME f <= Len(x) PROVE char(x[f]) < char(z[f]) OBVIOUS
    <3>2. x[f] \in Byte /\ y[f] \in Byte /\ z[f] \in Byte BY <1>3, <2>2, <3>1
    <3>3. char(x[f]) \in Int /\ char(y[f]) \in Int /\ char(z[f]) \in Int BY <1>4, <3>2
    <3>4. char(x[f]) < char(y[f]) /\ char(y[f]) < char(z[f]) BY <1>1, <1>2, <1>7, <2>2, <3>1
    <3> QED BY <3>3, <3>4
  <2> QED BY <1>1, <2>1, <2>2, <2>3 DEF Precedes
<1> QED BY <1>5, <1>6, <1>7

\* Compare leaves what CompareExact says.
LEMMA CompareIsExact == Compare => BufferOpsExact'
<1> SUFFICES ASSUME Compare PROVE BufferOpsExact' OBVIOUS
<1>1. PICK x \in Contents, y \in Contents, z \in Contents :
        made' = [op |-> "compare", x |-> x, y |-> y, xy |-> bufferwrap_compare(x, y),
                 yx |-> bufferwrap_compare(y, x), yz |-> bufferwrap_compare(y, z),
                 xz |-> bufferwrap_compare(x, z)]
  BY DEF Compare, Called
<1>2. x \in Seq(Byte) /\ y \in Seq(Byte) /\ z \in Seq(Byte) BY ContentsAre
<1>3. PICK xy : xy = bufferwrap_compare(x, y) OBVIOUS
<1>4. PICK yx : yx = bufferwrap_compare(y, x) OBVIOUS
<1>5. PICK yz : yz = bufferwrap_compare(y, z) OBVIOUS
<1>6. PICK xz : xz = bufferwrap_compare(x, z) OBVIOUS
<1>7. /\ made'.op = "compare" /\ made'.x = x /\ made'.y = y /\ made'.xy = xy
      /\ made'.yx = yx /\ made'.yz = yz /\ made'.xz = xz
  BY <1>1, <1>3, <1>4, <1>5, <1>6
<1>8. (xy = -1 /\ Precedes(x, y)) \/ (xy = 1 /\ Precedes(y, x)) \/ (xy = 0 /\ x = y)
  BY <1>2, <1>3, CompareMeans
<1>9. (yx = -1 /\ Precedes(y, x)) \/ (yx = 1 /\ Precedes(x, y)) \/ (yx = 0 /\ y = x)
  BY <1>2, <1>4, CompareMeans
<1>10. (yz = -1 /\ Precedes(y, z)) \/ (yz = 1 /\ Precedes(z, y)) \/ (yz = 0 /\ y = z)
  BY <1>2, <1>5, CompareMeans
<1>11. (xz = -1 /\ Precedes(x, z)) \/ (xz = 1 /\ Precedes(z, x)) \/ (xz = 0 /\ x = z)
  BY <1>2, <1>6, CompareMeans
<1>12. (Precedes(x, y) => x # y /\ ~Precedes(y, x)) /\ (Precedes(y, x) => x # y)
  BY <1>2, PrecedesIsStrict
<1>13. Precedes(x, z) => x # z /\ ~Precedes(z, x) BY <1>2, PrecedesIsStrict
<1>14. Precedes(x, y) /\ (Precedes(y, z) \/ y = z) => Precedes(x, z) BY <1>2, PrecedesIsTransitive
<1>15. xy = -yx /\ (xy = 0 <=> x = y) BY <1>8, <1>9, <1>12
<1>16. (xy < 0 /\ yz <= 0) => xz < 0 BY <1>8, <1>10, <1>11, <1>13, <1>14
<1>17. CompareExact' BY <1>7, <1>15, <1>16 DEF CompareExact
<1> QED BY <1>7, <1>17 DEF BufferOpsExact, CopyExact, WriteExact, SliceExact, TextExact, CreateExact

\* The string that new Buffer(string) keeps.
LEMMA BufferOfIs ==
  ASSUME NEW string \in Seq(Seq(Nat)), \A k \in 1..Len(string) : Len(string[k]) >= 1,
         NEW bytes, bytes = utf8(string)
  PROVE  bufferOf(string) = SubSeq(bytes, 1, Len(string))
<1>1. PICK n : n = Len(string) OBVIOUS
<1>2. n \in Nat /\ bytes \in Seq(Nat) /\ Len(bytes) \in Nat /\ n <= Len(bytes)
  BY <1>1, BytesOfString
<1>3. PICK new : new = bufferwrap_create(n) OBVIOUS
<1>4. new \in Seq(Nat) /\ Len(new) = n BY <1>2, <1>3, Created
<1>5. PICK at0 : at0 = 0 OBVIOUS
<1>6. PICK r : r = nativeWrite(new, bytes, at0, n) OBVIOUS
<1>7. bufferOf(string) = r.bytes BY <1>1, <1>3, <1>4, <1>5, <1>6 DEF bufferOf, byteLength
<1>8. PICK at : at = Clamp(at0, Len(new)) OBVIOUS
<1>9. at = 0 BY <1>2, <1>4, <1>5, <1>8 DEF Clamp, smaller
<1>10. n = smaller(Clamp(n, Len(new) - at), Len(bytes))
  <2>1. Len(new) - at = n BY <1>2, <1>4, <1>9
  <2>2. Clamp(n, n) = n BY <1>2 DEF Clamp, smaller
  <2>3. smaller(n, Len(bytes)) = n BY <1>2 DEF smaller
  <2> QED BY <2>1, <2>2, <2>3
<1>11. r.bytes = Copied(new, bytes, 0, at, n)
  <2>1. at0 \in Int /\ n \in Int BY <1>2, <1>5
  <2> QED BY <1>2, <1>4, <1>6, <1>8, <1>10, <2>1, NativeWrites
<1>12. Copied(new, bytes, 0, at, n) = [j \in 1..n |-> bytes[j]]
  <2>1. \A j \in 1..n : at < j /\ j <= at + n /\ 0 + (j - at) = j BY <1>2, <1>9
  <2> QED BY <1>4, <2>1 DEF Copied
<1>13. SubSeq(bytes, 1, n) = [j \in 1..n |-> bytes[j]]
  <2>1. /\ SubSeq(bytes, 1, n) \in Seq(Nat) /\ Len(SubSeq(bytes, 1, n)) = n
        /\ \A j \in 1..n : SubSeq(bytes, 1, n)[j] = bytes[j]
    BY <1>2
  <2> QED BY <2>1
<1> QED BY <1>1, <1>7, <1>11, <1>12, <1>13

\* Create leaves what CreateExact says.
LEMMA CreateIsExact == Create => BufferOpsExact'
<1> SUFFICES ASSUME Create PROVE BufferOpsExact' OBVIOUS
<1>1. CASE \E string \in Strings :
             made' = [op |-> "new", string |-> string, bytes |-> bufferOf(string)]
  <2>1. PICK string \in Strings :
          made' = [op |-> "new", string |-> string, bytes |-> bufferOf(string)]
    BY <1>1
  <2>2. PICK bytes : bytes = utf8(string) OBVIOUS
  <2>3. PICK s : s = bufferOf(string) OBVIOUS
  <2>4. made'.op = "new" /\ made'.string = string /\ made'.bytes = s BY <2>1, <2>3
  <2>5. /\ string \in Seq(Seq(Nat)) /\ Len(string) \in Nat
        /\ \A k \in 1..Len(string) : Len(string[k]) >= 1
    BY StringsAre
  <2>6. /\ bytes \in Seq(Nat) /\ Len(bytes) >= Len(string)
        /\ (\A k \in 1..Len(string) : Len(string[k]) = 1) => Len(bytes) = Len(string)
    BY <2>2, <2>5, BytesOfString
  <2>7. PICK n : n = Len(string) OBVIOUS
  <2>8. s = SubSeq(bytes, 1, n) BY <2>2, <2>3, <2>5, <2>7, BufferOfIs
  <2>9. Len(s) = n /\ IsPrefix(s, bytes)
    <3>1. Len(s) = n /\ s \in Seq(Nat) BY <2>5, <2>6, <2>7, <2>8
    <3>2. SubSeq(s, 1, n) = s BY <3>1
    <3> QED BY <2>5, <2>6, <2>7, <2>8, <3>1, <3>2 DEF IsPrefix
  <2>10. ~Long(string) => s = bytes
    <3>1. ASSUME ~Long(string), NEW k \in 1..Len(string) PROVE Len(string[k]) = 1
      <4>1. string[k] \in Seq(Nat) /\ Len(string[k]) \in Nat BY <2>5
      <4>2. Len(string[k]) >= 1 /\ ~(Len(string[k]) > 1) BY <2>5, <3>1 DEF Long
      <4>3. PICK l : l = Len(string[k]) OBVIOUS
      <4>4. l \in Nat /\ l >= 1 /\ ~(l > 1) BY <4>1, <4>2, <4>3
      <4>5. l = 1 BY <4>4
      <4> QED BY <4>3, <4>5
    <3> QED BY <2>6, <2>7, <2>8, <3>1
  <2>11. CreateExact' BY <2>2, <2>4, <2>7, <2>9, <2>10 DEF CreateExact
  <2> QED BY <2>4, <2>11 DEF BufferOpsExact, CopyExact, WriteExact,
           SliceExact, TextExact, CompareExact
<1>2. CASE \E x, y, z \in Contents :
             made' = [op |-> "concat", list |-> <<x, y, z>>, bytes |-> concat(<<x, y, z>>)]
  <2>1. PICK x \in Contents, y \in Contents, z \in Contents :
          made' = [op |-> "concat", list |-> <<x, y, z>>, bytes |-> concat(<<x, y, z>>)]
    BY <1>2
  <2>2. PICK list : list = <<x, y, z>> OBVIOUS
  <2>3. list \in Seq(Seq(Nat))
    <3>1. x \in Seq(Nat) /\ y \in Seq(Nat) /\ z \in Seq(Nat) BY ContentsAre
    <3> QED BY <2>2, <3>1
  <2>4. concat(list) = FlattenSeq(list) BY <2>3, ConcatFlattens
  <2>5. made'.op = "concat" /\ made'.list = list /\ made'.bytes = FlattenSeq(list)
    BY <2>1, <2>2, <2>4
  <2>6. CreateExact' BY <2>5 DEF CreateExact
  <2> QED BY <2>5, <2>6 DEF BufferOpsExact, CopyExact, WriteExact,
           SliceExact, TextExact, CompareExact
<1> QED BY <1>1, <1>2 DEF Create, Called

\* Every function of Buffer leaves what it should, for arguments below, in
\* and above the range, empty buffers and buffers copied onto themselves
\* (bound_range and iotjs_bufferwrap_copy_internal, which all of them use),
\* whatever bytes the buffers hold and for every bound on their length.
THEOREM BufferOpsAreExact == BSpec => []BufferOpsExact
<1>1. BInit => BufferOpsExact
  BY DEF BInit, BufferOpsExact, CopyExact, WriteExact, SliceExact, TextExact, CompareExact, CreateExact
<1>2. BufferOpsExact /\ UNCHANGED made => BufferOpsExact'
  BY DEF BufferOpsExact, CopyExact, WriteExact,
           SliceExact, TextExact, CompareExact, CreateExact
<1>3. BufferOpsExact /\ [BNext]_bvars => BufferOpsExact'
  <2>1. SUFFICES ASSUME BufferOpsExact, [BNext]_bvars PROVE BufferOpsExact' OBVIOUS
  <2>2. CASE Copy BY <2>2, CopyIsExact
  <2>3. CASE Write BY <2>3, WriteIsExact
  <2>4. CASE Slice BY <2>4, SliceIsExact
  <2>5. CASE Text BY <2>5, TextIsExact
  <2>6. CASE Compare BY <2>6, CompareIsExact
  <2>7. CASE Create BY <2>7, CreateIsExact
  <2>8. CASE StringAppend BY <1>2, <2>1, <2>8 DEF StringAppend, StringCall
  <2>9. CASE StringReserve BY <1>2, <2>1, <2>9 DEF StringReserve, StringCall
  <2>10. CASE StringEmpty BY <1>2, <2>1, <2>10 DEF StringEmpty, StringCall
  <2>11. CASE UNCHANGED bvars BY <1>2, <2>1, <2>11 DEF bvars
  <2> QED BY <2>1, <2>2, <2>3, <2>4, <2>5, <2>6, <2>7, <2>8, <2>9, <2>10, <2>11 DEF BNext
<1> QED BY <1>1, <1>3, PTL DEF BSpec

-----------------------------------------------------------------------------

\* The function that nextCapacity defines by recursion.
IsDoubled(f, cap, n) == f = [k \in 0..n |-> IF k = 0 THEN cap ELSE 2 * f[k - 1]]

\* There is one.
LEMMA DoubledExists ==
  ASSUME NEW cap \in Nat, NEW n \in Nat
  PROVE  \E f : IsDoubled(f, cap, n)
<1> USE DEF IsDoubled
<1> DEFINE S == {m \in Nat : \E f : f = [k \in 0..m |-> IF k = 0 THEN cap ELSE 2 * f[k - 1]]}
<1>1. 0 \in S
  <2> DEFINE f == [k \in 0..0 |-> cap]
  <2>1. f = [k \in 0..0 |-> IF k = 0 THEN cap ELSE 2 * f[k - 1]] OBVIOUS
  <2> QED BY <2>1
<1>2. ASSUME NEW p \in Nat, p \in S PROVE p + 1 \in S
  <2> PICK f : f = [k \in 0..p |-> IF k = 0 THEN cap ELSE 2 * f[k - 1]] BY <1>2
  <2> DEFINE g == [k \in 0..(p + 1) |-> IF k <= p THEN f[k] ELSE 2 * f[p]]
  <2>1. ASSUME NEW k \in 0..(p + 1)
        PROVE  g[k] = IF k = 0 THEN cap ELSE 2 * g[k - 1]
    <3>1. CASE k = 0 BY <3>1
    <3>2. CASE k # 0 /\ k <= p
      <4>1. g[k] = f[k] /\ g[k - 1] = f[k - 1] /\ k \in 0..p BY <3>2
      <4> QED BY <4>1, <3>2
    <3>3. CASE k = p + 1
      <4>1. g[k - 1] = f[p] /\ g[k] = 2 * f[p] BY <3>3
      <4> QED BY <4>1, <3>3
    <3> QED BY <3>1, <3>2, <3>3
  <2>2. g = [k \in 0..(p + 1) |-> IF k = 0 THEN cap ELSE 2 * g[k - 1]] BY <2>1
  <2> HIDE DEF g
  <2> QED BY <2>2
<1>3. Nat \subseteq S
  <2> HIDE DEF S
  <2> QED BY <1>1, <1>2, SetInduction
<1> QED BY <1>3

\* The loop of iotjs_string_append ends, with a capacity that is enough.
LEMMA CapacityGrows ==
  ASSUME NEW cap \in Nat \ {0}, NEW needed \in Nat
  PROVE  nextCapacity(cap, needed) \in Nat /\ nextCapacity(cap, needed) >= needed
<1> DEFINE g == CHOOSE f : IsDoubled(f, cap, needed)
           E == {k \in 0..needed : g[k] >= needed}
           times == CHOOSE k \in 0..needed :
                      /\ g[k] >= needed
                      /\ \A j \in 0..(k - 1) : g[j] < needed
<1>1. nextCapacity(cap, needed) = g[times] BY DEF nextCapacity, IsDoubled
<1>2. IsDoubled(g, cap, needed)
  <2>1. \E f : IsDoubled(f, cap, needed) BY DoubledExists
  <2> QED BY <2>1
<1> HIDE DEF g
<1> DEFINE S == {k \in Nat : k <= needed => g[k] \in Nat /\ g[k] >= k + 1}
<1>3. 0 \in S BY <1>2 DEF IsDoubled
<1>4. ASSUME NEW k \in Nat, k \in S PROVE k + 1 \in S
  <2>1. SUFFICES ASSUME k + 1 <= needed PROVE g[k + 1] \in Nat /\ g[k + 1] >= (k + 1) + 1
    OBVIOUS
  <2>2. k + 1 \in 0..needed /\ k + 1 # 0 /\ (k + 1) - 1 = k BY <2>1
  <2>3. g[k + 1] = 2 * g[k] BY <1>2, <2>2 DEF IsDoubled
  <2>4. g[k] \in Nat /\ g[k] >= k + 1 BY <1>4, <2>1
  <2> QED BY <2>3, <2>4
<1>5. Nat \subseteq S
  <2> HIDE DEF S
  <2> QED BY <1>3, <1>4, SetInduction
<1>6. \A k \in 0..needed : g[k] \in Nat /\ g[k] >= k + 1 BY <1>5
<1>7. needed \in E BY <1>6
<1>8. E \in SUBSET Nat /\ E # {} BY <1>7
<1>9. PICK k \in E : \A j \in E : k <= j
  <2> HIDE DEF E
  <2> QED BY <1>8, LeastOf
<1>10. /\ k \in 0..needed /\ g[k] >= needed
       /\ \A j \in 0..(k - 1) : g[j] < needed
  <2>1. ASSUME NEW j \in 0..(k - 1) PROVE g[j] < needed
    <3>1. j \in 0..needed /\ ~(k <= j) BY <1>9
    <3>2. ~(g[j] >= needed) BY <1>9, <3>1
    <3> QED BY <1>6, <3>1, <3>2
  <2> QED BY <1>9, <2>1
<1>11. times \in 0..needed /\ g[times] >= needed BY <1>10
<1> HIDE DEF times, E
<1> QED BY <1>1, <1>6, <1>11

\* The inductive invariant of the iotjs_string_t.
StringInv ==
  /\ str = [bytes |-> str.bytes, cap |-> str.cap, heap |-> str.heap]
  /\ str.bytes \in Seq(Nat) /\ str.cap \in Nat /\ str.heap \in BOOLEAN
  /\ StringSound

\* What strncpy copies.
LEMMA StrncpyIs ==
  ASSUME NEW data \in Seq(Nat), NEW size \in Nat, size <= Len(data)
  PROVE  strncpy(data, size) \in Seq(Nat) /\ Len(strncpy(data, size)) = size
<1>1. ASSUME NEW i \in 1..size
      PROVE  (IF i <= Len(cString(data)) THEN data[i] ELSE NUL) \in Nat
  <2>1. i \in 1..Len(data) BY <1>1
  <2>2. data[i] \in Nat BY <2>1
  <2> QED BY <2>2 DEF NUL
<1>2. strncpy(data, size) \in [1..size -> Nat] BY <1>1 DEF strncpy
<1> QED BY <1>2

\* iotjs_string_append keeps it.
LEMMA AppendKeeps ==
  ASSUME StringInv, StringAppend
  PROVE  StringInv'
<1>1. PICK data \in Contents, size \in {-1} \cup 0..MaxLength :
        /\ size <= Len(data)
        /\ str' = string_append(str, data, size)
        /\ meant' = meant \o strncpy(data, IF size < 0 THEN Len(cString(data)) ELSE size)
  BY DEF StringAppend, StringCall
<1>2. data \in Seq(Nat) /\ Len(data) \in Nat BY ContentsAre
<1>3. PICK n : n = IF size < 0 THEN Len(cString(data)) ELSE size OBVIOUS
<1>4. n \in Nat /\ n <= Len(data)
  <2>1. CASE size < 0
    <3>1. PICK c : c = cString(data) OBVIOUS
    <3>2. c \in Seq(Nat) /\ IsPrefix(c, data) BY <1>2, <3>1, CStringIs
    <3>3. Len(c) \in Nat /\ Len(c) <= Len(data) BY <3>2 DEF IsPrefix
    <3> QED BY <1>3, <2>1, <3>1, <3>3
  <2>2. CASE ~(size < 0) BY <1>1, <1>3, <2>2, BuffersAssumption
  <2> QED BY <2>1, <2>2
<1>5. PICK more : more = strncpy(data, n) OBVIOUS
<1>6. more \in Seq(Nat) /\ Len(more) = n BY <1>2, <1>4, <1>5, StrncpyIs
<1>7. meant' = meant \o more BY <1>1, <1>3, <1>5
<1>8. /\ str.bytes \in Seq(Nat) /\ str.cap \in Nat /\ str.heap \in BOOLEAN
      /\ str.bytes = meant /\ Len(str.bytes) <= str.cap /\ (str.heap <=> str.cap > 0)
  BY DEF StringInv, StringSound
<1>9. PICK needed : needed = Len(str.bytes) + n OBVIOUS
<1>10. PICK cap : cap = CASE str.cap = 0 -> n
                          [] str.cap > 0 /\ str.cap >= needed -> str.cap
                          [] OTHER -> nextCapacity(str.cap, needed)
  OBVIOUS
<1>11. str' = IF n = 0 THEN str
              ELSE [bytes |-> str.bytes \o more, cap |-> cap, heap |-> TRUE]
  BY <1>1, <1>3, <1>5, <1>9, <1>10 DEF string_append
<1>12. needed \in Nat BY <1>4, <1>8, <1>9
<1>13. CASE n = 0
  <2>1. more = <<>> BY <1>6, <1>13
  <2>2. meant' = meant BY <1>7, <1>8, <2>1
  <2>3. str' = str BY <1>11, <1>13
  <2> QED BY <2>2, <2>3 DEF StringInv, StringSound
<1>14. CASE n # 0
  <2>1. cap \in Nat /\ cap >= needed
    <3>1. CASE str.cap = 0 BY <1>4, <1>8, <1>9, <1>10, <3>1
    <3>2. CASE str.cap > 0 /\ str.cap >= needed BY <1>8, <1>10, <3>2
    <3>3. CASE str.cap > 0 /\ ~(str.cap >= needed)
      <4>1. cap = nextCapacity(str.cap, needed) BY <1>8, <1>10, <3>3
      <4>2. PICK c : c = str.cap OBVIOUS
      <4>3. c \in Nat \ {0} BY <1>8, <3>3, <4>2
      <4>4. nextCapacity(c, needed) \in Nat /\ nextCapacity(c, needed) >= needed
        BY <1>12, <4>3, CapacityGrows
      <4> QED BY <4>1, <4>2, <4>4
    <3> QED BY <1>8, <3>1, <3>2, <3>3
  <2>2. PICK bytes : bytes = str.bytes \o more OBVIOUS
  <2>3. bytes \in Seq(Nat) /\ Len(bytes) = needed BY <1>6, <1>8, <1>9, <2>2
  <2>4. meant' = bytes BY <1>7, <1>8, <2>2
  <2>5. str' = [bytes |-> bytes, cap |-> cap, heap |-> TRUE] BY <1>11, <1>14, <2>2
  <2>6. cap > 0 BY <1>4, <1>8, <1>9, <1>14, <2>1
  <2>7. str'.bytes = bytes /\ str'.cap = cap /\ str'.heap = TRUE BY <2>5
  <2> QED BY <2>1, <2>3, <2>4, <2>5, <2>6, <2>7 DEF StringInv, StringSound
<1> QED BY <1>13, <1>14

\* string_create of nothing.
LEMMA EmptyString ==
  ASSUME NEW s, s = string_create(<<>>)
  PROVE  s = [bytes |-> <<>>, cap |-> 0, heap |-> FALSE]
<1>1. Len(<<>>) = 0 OBVIOUS
<1>2. (0 > 0) = FALSE OBVIOUS
<1>3. s = [bytes |-> <<>>, cap |-> 0, heap |-> 0 > 0] BY <1>1, Zenon DEF string_create
<1> QED BY <1>2, <1>3, Zenon

\* After any sequence of calls an iotjs_string_t holds what was appended,
\* within the memory it has, and has memory of its own exactly when its
\* capacity is not 0 (iotjs_string_append doubles the capacity until the
\* bytes fit), whatever is appended and however often.
THEOREM StringIsSound == BSpec => []StringSound
<1>1. BInit => StringInv
  <2>1. SUFFICES ASSUME BInit PROVE StringInv OBVIOUS
  <2>2. str = [bytes |-> <<>>, cap |-> 0, heap |-> FALSE] /\ meant = <<>>
    BY <2>1, EmptyString DEF BInit
  <2>3. str.bytes = <<>> /\ str.cap = 0 /\ str.heap = FALSE BY <2>2
  <2>4. <<>> \in Seq(Nat) /\ Len(<<>>) = 0 OBVIOUS
  <2> QED BY <2>2, <2>3, <2>4 DEF StringInv, StringSound
<1>2. StringInv /\ UNCHANGED <<str, meant>> => StringInv' BY DEF StringInv, StringSound
<1>3. StringInv /\ [BNext]_bvars => StringInv'
  <2>1. SUFFICES ASSUME StringInv, [BNext]_bvars PROVE StringInv' OBVIOUS
  <2>2. CASE Copy BY <1>2, <2>1, <2>2 DEF Copy, Called
  <2>3. CASE Write BY <1>2, <2>1, <2>3 DEF Write, Called
  <2>4. CASE Slice \/ Text BY <1>2, <2>1, <2>4 DEF Slice, Text, Called
  <2>5. CASE Compare BY <1>2, <2>1, <2>5 DEF Compare, Called
  <2>6. CASE Create BY <1>2, <2>1, <2>6 DEF Create, Called
  <2>7. CASE StringAppend BY <2>1, <2>7, AppendKeeps
  <2>8. CASE StringReserve
    <3>1. PICK capacity \in 1..(2 * MaxLength) :
            str' = string_reserve(str, capacity) /\ meant' = meant
      BY <2>8 DEF StringReserve, StringCall
    <3>2. capacity \in Nat /\ capacity > 0 BY <3>1, BuffersAssumption
    <3>3. CASE str.cap >= capacity
      <4>1. str' = str BY <3>1, <3>3 DEF string_reserve
      <4> QED BY <1>2, <2>1, <3>1, <4>1
    <3>4. CASE ~(str.cap >= capacity)
      <4>1. str' = [str EXCEPT !.cap = capacity, !.heap = TRUE] BY <3>1, <3>4 DEF string_reserve
      <4>2. /\ str' = [bytes |-> str.bytes, cap |-> capacity, heap |-> TRUE]
            /\ str'.bytes = str.bytes /\ str'.cap = capacity /\ str'.heap = TRUE
        BY <2>1, <4>1 DEF StringInv
      <4>3. /\ str.bytes \in Seq(Nat) /\ str.cap \in Nat
            /\ str.bytes = meant /\ Len(str.bytes) <= str.cap
        BY <2>1 DEF StringInv, StringSound
      <4>4. Len(str.bytes) <= capacity BY <3>2, <3>4, <4>3
      <4> QED BY <3>1, <3>2, <4>2, <4>3, <4>4 DEF StringInv, StringSound
    <3> QED BY <3>3, <3>4
  <2>9. CASE StringEmpty
    <3>1. str' = string_make_empty(str) /\ meant' = <<>> BY <2>9 DEF StringEmpty, StringCall
    <3>2. /\ str.bytes \in Seq(Nat) /\ str.cap \in Nat /\ str.heap \in BOOLEAN
          /\ str.bytes = meant /\ Len(str.bytes) <= str.cap /\ (str.heap <=> str.cap > 0)
      BY <2>1 DEF StringInv, StringSound
    <3>3. CASE str.heap
      <4>1. str' = [bytes |-> <<>>, cap |-> 0, heap |-> FALSE]
        BY <3>1, <3>3, EmptyString DEF string_make_empty
      <4>2. str'.bytes = <<>> /\ str'.cap = 0 /\ str'.heap = FALSE BY <4>1
      <4>3. <<>> \in Seq(Nat) /\ Len(<<>>) = 0 OBVIOUS
      <4> QED BY <3>1, <4>1, <4>2, <4>3 DEF StringInv, StringSound
    <3>4. CASE ~str.heap
      <4>1. str' = str BY <3>1, <3>4 DEF string_make_empty
      <4>2. meant = <<>> BY <3>2, <3>4
      <4> QED BY <1>2, <2>1, <3>1, <4>1, <4>2
    <3> QED BY <3>2, <3>3, <3>4
  <2>10. CASE UNCHANGED bvars BY <1>2, <2>1, <2>10 DEF bvars
  <2> QED BY <2>1, <2>2, <2>3, <2>4, <2>5, <2>6, <2>7, <2>8, <2>9, <2>10 DEF BNext
<1>4. StringInv => StringSound BY DEF StringInv
<1> QED BY <1>1, <1>3, <1>4, PTL DEF BSpec

-----------------------------------------------------------------------------
(* fs.                                                                     *)

\* A call has the fields that Blank gives it.
OpFields ==
  {"kind", "path", "data", "fd", "buffers", "written", "step", "tries", "failed", "threw",
   "disturbed", "ended", "err", "got", "disk"}
IsOp(c) ==
  /\ c = [x \in OpFields |-> c[x]]
  /\ c.ended \in Nat /\ c.failed \in BOOLEAN /\ c.threw \in BOOLEAN

\* The callbacks that a system call is made with.
CallbackOf(call) ==
  CASE call = "open" -> {"opened"}
    [] call = "read" -> {"afterRead"}
    [] call = "write" -> {"afterWrite"}
    [] call = "close" -> {"readEnd", "closed"}
    [] call = "stat" -> {"plain"}

\* A request has the fields that Request gives it; only those that open a path, or
\* look at it, are refused before they are queued.
RequestFields ==
  {"op", "call", "cb", "path", "mode", "fd", "n", "pos", "bytes", "stage", "answer"}
IsRequest(r) ==
  /\ r = [x \in RequestFields |-> r[x]]
  /\ r.op \in Ops
  /\ r.call \in {"open", "read", "write", "close", "stat"} /\ r.cb \in CallbackOf(r.call)
  /\ r.stage \in {"queued", "done", "refused"}
  /\ r.stage = "refused" => r.call \in {"open", "stat"}
  /\ r.stage = "refused" => r.answer.err = TRUE
  /\ r.stage = "done" => r.answer.err \in BOOLEAN

-----------------------------------------------------------------------------
(* The list of the requests.                                               *)

\* t is q without its element i, followed by calls.
Spliced(q, i, calls, t) ==
  /\ Len(t) = Len(q) - 1 + Len(calls)
  /\ \A j \in 1..(i - 1) : t[j] = q[j]
  /\ \A j \in i..(Len(q) - 1) : t[j] = q[j + 1]
  /\ \A j \in 1..Len(calls) : t[Len(q) - 1 + j] = calls[j]

\* The requests after the one at i has called back and made others.
LEMMA ListAfter ==
  ASSUME NEW S, NEW q \in Seq(S), NEW i \in 1..Len(q), NEW T, NEW calls \in Seq(T),
         NEW t, t = RemoveAt(q, i) \o calls
  PROVE  t \in Seq(S \cup T) /\ Spliced(q, i, calls, t)
<1> DEFINE a == SubSeq(q, 1, i - 1)
           b == SubSeq(q, i + 1, Len(q))
           s == a \o b
<1>0. i \in Nat /\ Len(q) \in Nat /\ i >= 1 /\ i <= Len(q) OBVIOUS
<1>1. a \in Seq(S) /\ Len(a) = i - 1 /\ \A j \in 1..(i - 1) : a[j] = q[j] OBVIOUS
<1>2. b \in Seq(S) /\ Len(b) = Len(q) - i /\ \A j \in 1..Len(b) : b[j] = q[i + j] OBVIOUS
<1>3. RemoveAt(q, i) = s BY DEF RemoveAt
<1> HIDE DEF a, b
<1>4. /\ s \in Seq(S) /\ Len(s) = Len(q) - 1
      /\ \A j \in 1..(i - 1) : s[j] = q[j]
      /\ \A j \in i..(Len(q) - 1) : s[j] = q[j + 1]
  <2>1. /\ s \in Seq(S) /\ Len(s) = Len(a) + Len(b)
        /\ \A j \in 1..(Len(a) + Len(b)) : s[j] = IF j <= Len(a) THEN a[j] ELSE b[j - Len(a)]
    BY <1>1, <1>2, ConcatProperties
  <2> HIDE DEF s
  <2>2. Len(s) = Len(q) - 1 BY <1>0, <1>1, <1>2, <2>1
  <2>3. ASSUME NEW j \in i..(Len(q) - 1) PROVE s[j] = q[j + 1]
    <3>1. /\ j \in 1..(Len(a) + Len(b)) /\ ~(j <= Len(a))
          /\ j - (i - 1) \in 1..Len(b) /\ j - Len(a) = j - (i - 1)
      BY <1>0, <1>1, <1>2
    <3>3. s[j] = b[j - (i - 1)] BY <2>1, <3>1
    <3>2. i + (j - (i - 1)) = j + 1 BY <1>0
    <3> QED BY <1>2, <3>1, <3>2, <3>3
  <2>4. ASSUME NEW j \in 1..(i - 1) PROVE s[j] = q[j]
    <3>1. j \in 1..(Len(a) + Len(b)) /\ j <= Len(a) BY <1>0, <1>1, <1>2
    <3> QED BY <1>1, <2>1, <3>1
  <2> QED BY <2>1, <2>2, <2>3, <2>4
<1> HIDE DEF s
<1>5. s \in Seq(S \cup T) /\ calls \in Seq(S \cup T)
  <2>1. S \subseteq S \cup T /\ T \subseteq S \cup T OBVIOUS
  <2> QED BY <1>4, <2>1, SeqMonotonic
<1> HIDE DEF s
<1>6. t = s \o calls BY <1>3
<1>7. /\ t \in Seq(S \cup T) /\ Len(t) = Len(s) + Len(calls)
      /\ \A j \in 1..(Len(s) + Len(calls)) :
           t[j] = IF j <= Len(s) THEN s[j] ELSE calls[j - Len(s)]
  BY <1>5, <1>6, ConcatProperties
<1>8. \A j \in 1..Len(calls) : t[Len(q) - 1 + j] = calls[j]
  <2> TAKE j \in 1..Len(calls)
  <2>1. Len(s) + j \in 1..Len(t) /\ ~(Len(s) + j <= Len(s)) /\ Len(s) + j - Len(s) = j
    BY <1>4, <1>5, <1>7
  <2>2. t[Len(s) + j] = calls[Len(s) + j - Len(s)] BY <1>7, <2>1
  <2> QED BY <1>4, <2>1, <2>2
<1>9. \A j \in 1..(Len(q) - 1) : t[j] = s[j]
  <2> TAKE j \in 1..(Len(q) - 1)
  <2>1. j \in 1..Len(t) /\ j <= Len(s) BY <1>4, <1>5, <1>7
  <2> QED BY <1>7, <2>1
<1>10. Len(t) = Len(q) - 1 + Len(calls) BY <1>4, <1>7
<1>11. \A j \in 1..(i - 1) : t[j] = q[j]
  <2> TAKE j \in 1..(i - 1)
  <2>1. j \in 1..(Len(q) - 1) BY <1>0
  <2> QED BY <1>4, <1>9, <2>1
<1>12. \A j \in i..(Len(q) - 1) : t[j] = q[j + 1]
  <2> TAKE j \in i..(Len(q) - 1)
  <2>1. j \in 1..(Len(q) - 1) BY <1>0
  <2> QED BY <1>4, <1>9, <2>1
<1> QED BY <1>7, <1>8, <1>10, <1>11, <1>12 DEF Spliced

\* The requests after one more was made.
LEMMA ListAppend ==
  ASSUME NEW S, NEW q \in Seq(S), NEW r
  PROVE  /\ Append(q, r) \in Seq(S \cup {r})
         /\ Len(Append(q, r)) = Len(q) + 1
         /\ \A j \in 1..Len(q) : Append(q, r)[j] = q[j]
         /\ Append(q, r)[Len(q) + 1] = r
<1>1. q \in Seq(S \cup {r}) /\ r \in S \cup {r}
  <2>1. S \subseteq S \cup {r} OBVIOUS
  <2> QED BY <2>1, SeqMonotonic
<1> QED BY <1>1

\* The requests after the one at i has changed.
LEMMA ListChanged ==
  ASSUME NEW S, NEW q \in Seq(S), NEW i \in 1..Len(q), NEW r
  PROVE  LET t == [q EXCEPT ![i] = r] IN
         /\ t \in Seq(S \cup {r}) /\ Len(t) = Len(q) /\ t[i] = r
         /\ \A j \in 1..Len(q) : j # i => t[j] = q[j]
<1>1. q \in Seq(S \cup {r}) /\ r \in S \cup {r}
  <2>1. S \subseteq S \cup {r} OBVIOUS
  <2> QED BY <2>1, SeqMonotonic
<1> QED BY <1>1

-----------------------------------------------------------------------------
(* The invariant.                                                          *)

\* The descriptor table t: a call has at most one descriptor.
IsTable(t) ==
  /\ t = [f \in Fds |-> t[f]]
  /\ \A f \in Fds : /\ t[f] = [x \in {"op", "path", "pos", "mode"} |-> t[f][x]]
                    /\ t[f].op \in Ops \cup {Nobody}
                    /\ t[f].op = Nobody => t[f] = Closed
  /\ \A f, g \in Fds : t[f].op = t[g].op /\ t[f].op # Nobody => f = g

\* The kernel: its descriptors and its disk.
IsKernel(k) == k = [x \in {"fds", "disk"} |-> k[x]] /\ IsTable(k.fds)

\* The call o has the descriptor fd; it has none.
Owns(t, o, fd) == fd \in Fds /\ t[fd].op = o
Bare(t, o) == \A f \in Fds : t[f].op # o

\* What the request r of a call with the variables c says of its descriptor.
Holds(t, c, r) ==
  /\ r.call = "stat" => Bare(t, r.op)
  /\ r.call = "open" =>
       IF r.stage = "done" /\ ~r.answer.err THEN Owns(t, r.op, r.answer.n) ELSE Bare(t, r.op)
  /\ r.call \in {"read", "write"} => r.fd = c.fd /\ Owns(t, r.op, r.fd)
  /\ r.call = "close" =>
       IF r.stage = "queued" THEN Owns(t, r.op, r.fd) ELSE Bare(t, r.op)

\* The fields of the calls and of the requests.
FsType ==
  /\ ops = [o \in Ops |-> ops[o]]
  /\ \A o \in Ops : IsOp(ops[o])
  /\ \A i \in 1..Len(reqs) : IsRequest(reqs[i])
  /\ busy \in Ops \cup {Nobody}

\* A call that has not begun has done nothing, and one that runs synchronously
\* makes no request; it stops when a read or a write fails.
Separate ==
  /\ \A o \in Ops : ops[o].kind = None =>
       ops[o].ended = 0 /\ ~ops[o].failed /\ ~ops[o].threw /\ busy # o
  /\ \A i \in 1..Len(reqs) : ops[reqs[i].op].kind # None /\ reqs[i].op # busy
  /\ \A o \in Ops : busy = o /\ ops[o].step \in {"open", "loop"} => ~ops[o].failed

\* A call whose reads and writes succeeded has one request underway, or runs, or
\* has ended; and it ends once.
OneByOne ==
  \A o \in Ops : ~ops[o].failed =>
    /\ ops[o].ended <= 1
    /\ busy = o => ops[o].ended = 0
    /\ \A i \in 1..Len(reqs) : reqs[i].op = o => ops[o].ended = 0
    /\ \A i, j \in 1..Len(reqs) : reqs[i].op = o /\ reqs[j].op = o => i = j

\* The descriptors, as long as no read and no write has failed.
Held ==
  /\ IsKernel(kernel)
  /\ \A i \in 1..Len(reqs) : Holds(kernel.fds, ops[reqs[i].op], reqs[i])
  /\ \A o \in Ops :
       /\ ops[o].kind = None \/ ops[o].ended > 0 => Bare(kernel.fds, o)
       /\ busy = o /\ ops[o].step = "open" => Bare(kernel.fds, o)
       /\ busy = o /\ ops[o].step \in {"loop", "close"} => Owns(kernel.fds, o, ops[o].fd)

\* The requests form a sequence.
IsList == \E S : reqs \in Seq(S)

\* The inductive invariant.
FsInv == IsList /\ FsType /\ Separate /\ OneByOne /\ NeverForgotten /\ (NoFailure => Held)

-----------------------------------------------------------------------------
(* The callbacks.                                                          *)

\* Every request that a callback makes is of the same call.
Asks(o, calls) ==
  /\ \E T : calls \in Seq(T)
  /\ \A k \in 1..Len(calls) :
       IsRequest(calls[k]) /\ calls[k].op = o /\ calls[k].stage = "queued"

\* From c to d, with n requests, a call ends, throws or goes on; and unless it has
\* failed, it ends once or makes one request.
GoesOn(c, d, n) ==
  /\ IsOp(d) /\ d.kind = c.kind /\ (c.failed => d.failed)
  /\ d.ended > 0 \/ d.threw \/ n > 0
  /\ c.ended > 0 => d.ended > 0
  /\ c.threw => d.threw
  /\ ~d.failed => \/ n = 0 /\ d.ended \in {c.ended, c.ended + 1}
                  \/ n = 1 /\ d.ended = c.ended

\* What a callback makes of the variables c of a call, and the requests that it makes.
Continues(o, c, then) ==
  Asks(o, then.calls) /\ GoesOn(c, then.op, Len(then.calls))

\* The requests have the fields of a request.
LEMMA RequestsFit ==
  ASSUME NEW o \in Ops, NEW c, NEW fd, NEW cb \in {"readEnd", "closed"}, NEW mode
  PROVE  \A r \in {open(o, mode), read(o, fd), close(o, fd, cb), write(o, c),
                   Request(o, "stat", "plain")} :
           IsRequest(r) /\ r.op = o /\ r.stage = "queued"
<1>1. IsRequest(open(o, mode)) /\ open(o, mode).op = o /\ open(o, mode).stage = "queued"
  BY DEF open, Request, IsRequest, RequestFields, CallbackOf
<1>2. IsRequest(read(o, fd)) /\ read(o, fd).op = o /\ read(o, fd).stage = "queued"
  BY DEF read, Request, IsRequest, RequestFields, CallbackOf
<1>3. IsRequest(close(o, fd, cb)) /\ close(o, fd, cb).op = o /\ close(o, fd, cb).stage = "queued"
  BY DEF close, Request, IsRequest, RequestFields, CallbackOf
<1>4. IsRequest(write(o, c)) /\ write(o, c).op = o /\ write(o, c).stage = "queued"
  BY DEF write, Request, IsRequest, RequestFields, CallbackOf
<1>5. LET r == Request(o, "stat", "plain") IN IsRequest(r) /\ r.op = o /\ r.stage = "queued"
  BY DEF Request, IsRequest, RequestFields, CallbackOf
<1> QED BY <1>1, <1>2, <1>3, <1>4, <1>5

\* No request is made.
LEMMA NoneAsked == \A o : Asks(o, <<>>) /\ Len(<<>>) = 0
<1>1. <<>> \in Seq({}) /\ Len(<<>>) = 0 OBVIOUS
<1>2. \E T : <<>> \in Seq(T) BY <1>1
<1> QED BY <1>1, <1>2 DEF Asks

\* What the user's callback leaves of the variables of a call.
LEMMA CallbackSets ==
  ASSUME NEW c, IsOp(c), NEW err, NEW got
  PROVE  LET d == callback(c, err, got) IN
         /\ IsOp(d) /\ d.kind = c.kind /\ d.failed = c.failed /\ d.threw = c.threw
         /\ d.ended = c.ended + 1
<1>1. PICK n \in Nat : n = c.ended + 1 BY DEF IsOp
<1> QED BY <1>1 DEF callback, IsOp, OpFields

\* A callback that ends the call.
LEMMA CallbackEnds ==
  ASSUME NEW o, NEW c, IsOp(c), NEW err, NEW got
  PROVE  Continues(o, c, Then(callback(c, err, got), <<>>))
<1> DEFINE d == callback(c, err, got)
<1>1. /\ IsOp(d) /\ d.kind = c.kind /\ d.failed = c.failed /\ d.threw = c.threw
      /\ d.ended = c.ended + 1
  BY CallbackSets
<1>2. Then(d, <<>>).op = d /\ Then(d, <<>>).calls = <<>> BY DEF Then
<1>3. Asks(o, <<>>) /\ Len(<<>>) = 0 BY NoneAsked
<1>4. c.ended \in Nat /\ c.failed \in BOOLEAN /\ c.threw \in BOOLEAN BY DEF IsOp
<1> HIDE DEF d
<1>5. GoesOn(c, d, 0) BY <1>1, <1>4 DEF GoesOn
<1> QED BY <1>2, <1>3, <1>5 DEF Continues, d

\* A callback that makes one request, or two after an error.
LEMMA CallbackAsks ==
  ASSUME NEW o \in Ops, NEW c, IsOp(c), NEW d, IsOp(d), d.kind = c.kind, d.ended = c.ended,
         d.threw = c.threw, c.failed => d.failed,
         NEW r, IsRequest(r), r.op = o, r.stage = "queued",
         NEW q, IsRequest(q), q.op = o, q.stage = "queued"
  PROVE  /\ Continues(o, c, Then(d, <<r>>))
         /\ d.failed => Continues(o, c, Then(d, <<r, q>>))
<1>1. \A calls : Then(d, calls).op = d /\ Then(d, calls).calls = calls BY DEF Then
<1>2. c.ended \in Nat /\ c.failed \in BOOLEAN /\ d.failed \in BOOLEAN BY DEF IsOp
<1>3. Asks(o, <<r>>) /\ Len(<<r>>) = 1
  <2>1. <<r>> \in Seq({r}) /\ Len(<<r>>) = 1 /\ <<r>>[1] = r OBVIOUS
  <2>2. \E T : <<r>> \in Seq(T) BY <2>1
  <2>3. \A k \in 1..Len(<<r>>) : <<r>>[k] = r BY <2>1
  <2> QED BY <2>1, <2>2, <2>3 DEF Asks
<1>4. Asks(o, <<r, q>>) /\ Len(<<r, q>>) = 2
  <2>1. <<r, q>> \in Seq({r, q}) /\ Len(<<r, q>>) = 2 /\ <<r, q>>[1] = r /\ <<r, q>>[2] = q
    OBVIOUS
  <2>2. \E T : <<r, q>> \in Seq(T) BY <2>1
  <2>3. \A k \in 1..Len(<<r, q>>) : <<r, q>>[k] = r \/ <<r, q>>[k] = q BY <2>1
  <2> QED BY <2>1, <2>2, <2>3 DEF Asks
<1>5. GoesOn(c, d, 1) BY <1>2 DEF GoesOn
<1>6. d.failed => GoesOn(c, d, 2) BY <1>2 DEF GoesOn
<1> QED BY <1>1, <1>3, <1>4, <1>5, <1>6 DEF Continues

\* write() makes a request or throws.
LEMMA WriteNextContinues ==
  ASSUME NEW o \in Ops, NEW c, IsOp(c), NEW d, IsOp(d), d.kind = c.kind, d.ended = c.ended,
         d.threw = c.threw, d.failed = c.failed
  PROVE  Continues(o, c, writeNext(o, d))
<1>1. CASE WriteThrows(d)
  <2> DEFINE e == [d EXCEPT !.threw = TRUE]
  <2>1. IsOp(e) /\ e.kind = c.kind /\ e.ended = c.ended /\ e.threw = TRUE /\ e.failed = c.failed
    BY DEF IsOp, OpFields
  <2>2. writeNext(o, d) = Then(e, <<>>) BY <1>1 DEF writeNext
  <2>3. Then(e, <<>>).op = e /\ Then(e, <<>>).calls = <<>> BY DEF Then
  <2>4. Asks(o, <<>>) /\ Len(<<>>) = 0 BY NoneAsked
  <2> HIDE DEF e
  <2>5. GoesOn(c, e, 0) BY <2>1 DEF GoesOn, IsOp
  <2> QED BY <2>2, <2>3, <2>4, <2>5 DEF Continues
<1>2. CASE ~WriteThrows(d)
  <2>1. writeNext(o, d) = Then(d, <<write(o, d)>>) BY <1>2 DEF writeNext
  <2>2. IsRequest(write(o, d)) /\ write(o, d).op = o /\ write(o, d).stage = "queued"
    BY RequestsFit
  <2> QED BY <2>1, <2>2, CallbackAsks
<1> QED BY <1>1, <1>2

\* Every callback continues its call.
LEMMA CallBackContinues ==
  ASSUME NEW r, IsRequest(r), r.stage # "queued", NEW c, IsOp(c)
  PROVE  Continues(r.op, c, CallBack(r.op, c, r, r.answer))
<1> DEFINE o == r.op
           a == r.answer
           then == CallBack(o, c, r, a)
<1>0. o \in Ops /\ a.err \in BOOLEAN /\ c.failed \in BOOLEAN BY DEF IsRequest, IsOp
<1>1. CASE r.cb \in {"readEnd", "closed", "plain"}
  <2>1. PICK err, got : then = Then(callback(c, err, got), <<>>) BY <1>1 DEF CallBack
  <2> QED BY <2>1, CallbackEnds
<1>2. CASE r.cb = "opened"
  <2>1. then = opened(o, c, a) BY <1>2 DEF CallBack
  <2>2. CASE a.err BY <2>1, <2>2, CallbackEnds DEF opened
  <2>3. CASE ~a.err
    <3> DEFINE d == [c EXCEPT !.fd = a.n]
    <3>1. /\ IsOp(d) /\ d.kind = c.kind /\ d.ended = c.ended /\ d.threw = c.threw
          /\ d.failed = c.failed
      BY DEF IsOp, OpFields
    <3>2. then = IF c.kind = "readFile" THEN Then(d, <<read(o, a.n)>>) ELSE writeNext(o, d)
      BY <2>1, <2>3 DEF opened
    <3> HIDE DEF d
    <3>3. IsRequest(read(o, a.n)) /\ read(o, a.n).op = o /\ read(o, a.n).stage = "queued"
      BY <1>0, RequestsFit
    <3> QED BY <1>0, <3>1, <3>2, <3>3, WriteNextContinues, CallbackAsks
  <2> QED BY <1>0, <2>2, <2>3
<1>3. CASE r.cb = "afterRead"
  <2>1. then = afterRead(o, c, a) BY <1>3 DEF CallBack
  <2> DEFINE x == close(o, c.fd, "closed")
             y == close(o, c.fd, "readEnd")
             z == read(o, c.fd)
  <2>2. /\ IsRequest(x) /\ x.op = o /\ x.stage = "queued"
        /\ IsRequest(y) /\ y.op = o /\ y.stage = "queued"
        /\ IsRequest(z) /\ z.op = o /\ z.stage = "queued"
    BY <1>0, RequestsFit
  <2>3. CASE a.err
    <3> DEFINE d == [c EXCEPT !.failed = TRUE]
    <3>1. IsOp(d) /\ d.kind = c.kind /\ d.ended = c.ended /\ d.threw = c.threw /\ d.failed = TRUE
      BY DEF IsOp, OpFields
    <3>2. then = Then(d, <<x, y>>) BY <2>1, <2>3 DEF afterRead
    <3> HIDE DEF d, x, y, z
    <3> QED BY <1>0, <2>2, <3>1, <3>2, CallbackAsks
  <2>4. CASE ~a.err /\ a.n = 0
    <3>1. then = Then(c, <<y>>) BY <2>1, <2>4 DEF afterRead
    <3> HIDE DEF x, y, z
    <3> QED BY <1>0, <2>2, <3>1, CallbackAsks
  <2>5. CASE ~a.err /\ a.n # 0
    <3>1. PICK b : then = Then([c EXCEPT !.buffers = b], <<z>>) BY <2>1, <2>5 DEF afterRead
    <3> DEFINE d == [c EXCEPT !.buffers = b]
    <3>2. /\ IsOp(d) /\ d.kind = c.kind /\ d.ended = c.ended /\ d.threw = c.threw
          /\ d.failed = c.failed
      BY DEF IsOp, OpFields
    <3> HIDE DEF x, y, z
    <3>3. then = Then(d, <<z>>) BY <3>1
    <3> HIDE DEF d
    <3> QED BY <1>0, <2>2, <3>2, <3>3, CallbackAsks
  <2> QED BY <1>0, <2>3, <2>4, <2>5
<1>4. CASE r.cb = "afterWrite"
  <2>1. then = afterWrite(o, c, a) BY <1>4 DEF CallBack
  <2>2. CASE a.err
    <3> DEFINE d == [c EXCEPT !.failed = TRUE, !.written = NaN, !.tries = @ + 1]
               x == close(o, c.fd, "closed")
               y == write(o, d)
    <3>1. IsOp(d) /\ d.kind = c.kind /\ d.ended = c.ended /\ d.threw = c.threw /\ d.failed = TRUE
      BY DEF IsOp, OpFields
    <3>2. then = Then(d, <<x, y>>) BY <2>1, <2>2 DEF afterWrite
    <3> HIDE DEF d
    <3>3. /\ IsRequest(x) /\ x.op = o /\ x.stage = "queued"
          /\ IsRequest(y) /\ y.op = o /\ y.stage = "queued"
      BY <1>0, RequestsFit
    <3> HIDE DEF x, y
    <3> QED BY <1>0, <3>1, <3>2, <3>3, CallbackAsks
  <2>3. CASE ~a.err
    <3> DEFINE d == [c EXCEPT !.written = @ + a.n]
               x == close(o, c.fd, "closed")
    <3>1. /\ IsOp(d) /\ d.kind = c.kind /\ d.ended = c.ended /\ d.threw = c.threw
          /\ d.failed = c.failed
      BY DEF IsOp, OpFields
    <3>2. then = Then(c, <<x>>) \/ then = writeNext(o, d) BY <2>1, <2>3 DEF afterWrite
    <3>3. IsRequest(x) /\ x.op = o /\ x.stage = "queued" BY <1>0, RequestsFit
    <3> HIDE DEF d, x
    <3> QED BY <1>0, <3>1, <3>2, <3>3, WriteNextContinues, CallbackAsks
  <2> QED BY <1>0, <2>2, <2>3
<1> QED BY <1>1, <1>2, <1>3, <1>4 DEF IsRequest, CallbackOf

-----------------------------------------------------------------------------
(* The kernel.                                                             *)

\* The calls but o have the descriptors in u that they have in t.
SameBut(o, t, u) == \A p \in Ops \ {o} : \A f \in Fds : u[f].op = p <=> t[f].op = p

\* Nobody is no call.
LEMMA NobodyElse ==
  /\ Nobody \notin Ops /\ Closed.op = Nobody
  /\ Closed = [x \in {"op", "path", "pos", "mode"} |-> Closed[x]]
BY FsAssumption DEF Nobody, Closed

\* A descriptor is opened.
LEMMA TableOpened ==
  ASSUME NEW t, IsTable(t), NEW o \in Ops, Bare(t, o), NEW fd \in Fds, t[fd] = Closed,
         NEW path, NEW mode
  PROVE  LET u == [t EXCEPT ![fd] = [op |-> o, path |-> path, pos |-> 0, mode |-> mode]]
         IN IsTable(u) /\ Owns(u, o, fd) /\ SameBut(o, t, u)
<1> DEFINE e == [op |-> o, path |-> path, pos |-> 0, mode |-> mode]
           u == [t EXCEPT ![fd] = e]
<1>1. e = [x \in {"op", "path", "pos", "mode"} |-> e[x]] /\ e.op = o OBVIOUS
<1> HIDE DEF e
<1>2. u = [f \in Fds |-> u[f]] /\ u[fd] = e /\ \A f \in Fds \ {fd} : u[f] = t[f] BY DEF IsTable
<1> HIDE DEF u
<1>3. t[fd].op = Nobody BY NobodyElse
<1>4. \A p \in Ops \ {o} : \A f \in Fds : u[f].op = p <=> t[f].op = p
  BY <1>1, <1>2, <1>3, NobodyElse
<1>5. \A f, g \in Fds : u[f].op = u[g].op /\ u[f].op # Nobody => f = g
  BY <1>1, <1>2 DEF IsTable, Bare
<1>6. IsTable(u) BY <1>1, <1>2, <1>5, NobodyElse DEF IsTable
<1> QED BY <1>1, <1>2, <1>4, <1>6 DEF Owns, SameBut, u, e

\* A descriptor is closed.
LEMMA TableClosed ==
  ASSUME NEW t, IsTable(t), NEW o \in Ops, NEW fd, Owns(t, o, fd)
  PROVE  LET u == [t EXCEPT ![fd] = Closed]
         IN IsTable(u) /\ Bare(u, o) /\ SameBut(o, t, u) /\ t[fd] # Closed
<1> DEFINE u == [t EXCEPT ![fd] = Closed]
<1>0. fd \in Fds /\ t[fd].op = o BY DEF Owns
<1>1. u = [f \in Fds |-> u[f]] /\ u[fd] = Closed /\ \A f \in Fds \ {fd} : u[f] = t[f]
  BY <1>0 DEF IsTable
<1> HIDE DEF u
<1>2. \A f, g \in Fds : u[f].op = u[g].op /\ u[f].op # Nobody => f = g
  BY <1>0, <1>1, NobodyElse DEF IsTable
<1>3. IsTable(u) BY <1>0, <1>1, <1>2, NobodyElse DEF IsTable
<1>4. Bare(u, o) BY <1>0, <1>1, NobodyElse DEF Bare, IsTable
<1>5. SameBut(o, t, u) BY <1>0, <1>1, NobodyElse DEF SameBut
<1> QED BY <1>0, <1>3, <1>4, <1>5, NobodyElse DEF u

\* A descriptor that is open moves to another position.
LEMMA TableMoved ==
  ASSUME NEW t, IsTable(t), NEW o \in Ops, NEW fd, Owns(t, o, fd), NEW pos
  PROVE  LET u == [t EXCEPT ![fd].pos = pos]
         IN IsTable(u) /\ Owns(u, o, fd) /\ SameBut(o, t, u)
<1> DEFINE e == [t[fd] EXCEPT !.pos = pos]
           u == [t EXCEPT ![fd] = e]
<1>0. fd \in Fds /\ t[fd].op = o BY DEF Owns
<1>1. e = [x \in {"op", "path", "pos", "mode"} |-> e[x]] /\ e.op = o BY <1>0 DEF IsTable
<1>2. [t EXCEPT ![fd].pos = pos] = u OBVIOUS
<1> HIDE DEF e
<1>3. u = [f \in Fds |-> u[f]] /\ u[fd] = e /\ \A f \in Fds \ {fd} : u[f] = t[f]
  BY <1>0 DEF IsTable
<1> HIDE DEF u
<1>4. \A f \in Fds : u[f].op = t[f].op BY <1>0, <1>1, <1>3
<1>5. IsTable(u) BY <1>0, <1>1, <1>3, <1>4, NobodyElse DEF IsTable
<1> QED BY <1>0, <1>2, <1>4, <1>5 DEF Owns, SameBut

\* There is always a free descriptor, and open takes the lowest.
LEMMA LowestFree ==
  ASSUME NEW t, IsTable(t)
  PROVE  \E f \in Fds : t[f] = Closed /\ \A g \in 1..(f - 1) : t[g] # Closed
<1> DEFINE n == 1 + Cardinality(Ops)
           free == {f \in Fds : t[f] = Closed}
<1>1. IsFiniteSet(Ops) /\ Cardinality(Ops) \in Nat BY FsAssumption, FS_CardinalityType
<1>2. Fds = 1..n /\ n \in Nat BY <1>1 DEF Fds
<1>3. IsFiniteSet(Fds) /\ Cardinality(Fds) = n BY <1>1, <1>2, FS_Interval
<1>4. free # {}
  <2> SUFFICES ASSUME free = {} PROVE FALSE OBVIOUS
  <2> DEFINE h == [f \in Fds |-> t[f].op]
  <2>1. \A f \in Fds : t[f].op \in Ops BY DEF IsTable
  <2>2. h \in Injection(Fds, Ops)
    BY <2>1 DEF Injection, IsInjective, IsTable
  <2>3. Cardinality(Fds) <= Cardinality(Ops) BY <1>1, <2>2, FS_Injection
  <2> QED BY <1>1, <1>3, <2>3
<1>5. free \subseteq Nat BY <1>2
<1>6. IsWellFoundedOn(Less, Nat) BY NatLessThanWellFounded, Zenon DEF OpToRel, Less
<1>7. PICK f \in free : \A g \in free : ~(<<g, f>> \in Less)
  BY <1>4, <1>5, <1>6, WFMin, Zenon
<1>8. ASSUME NEW g \in 1..(f - 1) PROVE t[g] # Closed
  <2>1. f \in Nat /\ g \in Nat /\ g < f /\ g \in Fds BY <1>2
  <2>2. <<g, f>> \in Less BY <2>1 DEF Less
  <2> QED BY <1>7, <2>1, <2>2
<1> QED BY <1>8

\* A system call answers with an error or without one.
LEMMA AnswerFits ==
  ASSUME NEW k, NEW r, IsRequest(r), NEW a \in Outcomes(k, r)
  PROVE  a.err \in BOOLEAN
<1>0. ASSUME NEW j, NEW e \in BOOLEAN, NEW n, NEW b, a = Answer(j, e, n, b) PROVE a.err \in BOOLEAN
  BY <1>0 DEF Answer
<1>1. a = Failure(k) => a.err \in BOOLEAN BY <1>0 DEF Failure
<1>2. \A j, n, b : a = Answer(j, FALSE, n, b) => a.err \in BOOLEAN BY <1>0
<1>3. CASE r.call = "open" BY <1>1, <1>2, <1>3 DEF Outcomes, SysOpen, MayFail
<1>4. CASE r.call = "read" BY <1>1, <1>2, <1>4 DEF Outcomes, SysRead, MayFail
<1>5. CASE r.call = "write" BY <1>1, <1>2, <1>5 DEF Outcomes, SysWrite, MayFail
<1>6. CASE r.call = "close"
  <2>1. ASSUME NEW j, a = Failure(j) PROVE a.err \in BOOLEAN BY <1>0, <2>1 DEF Failure
  <2> QED BY <1>2, <1>6, <2>1 DEF Outcomes, SysClose, MayFail
<1>7. CASE r.call = "stat" BY <1>1, <1>2, <1>7 DEF Outcomes, SysPlain
<1> QED BY <1>3, <1>4, <1>5, <1>6, <1>7 DEF IsRequest

\* What a system call does to the descriptors.
Moves(k, c, r, a) ==
  LET t == k.fds
      u == a.kernel.fds
  IN /\ IsKernel(a.kernel) /\ SameBut(r.op, t, u)
     /\ r.call = "stat" => Bare(u, r.op)
     /\ r.call = "open" => IF a.err THEN Bare(u, r.op) ELSE Owns(u, r.op, a.n)
     /\ r.call \in {"read", "write"} => Owns(u, r.op, r.fd)
     /\ r.call = "close" => Bare(u, r.op)

\* A system call on the caller's own descriptor touches no other call's.
LEMMA SystemCalls ==
  ASSUME NEW k, IsKernel(k), NEW c, NEW r, IsRequest(r), r.stage = "queued",
         Holds(k.fds, c, r), NEW a \in Outcomes(k, r)
  PROVE  Moves(k, c, r, a)
<1> DEFINE o == r.op
<1>0. o \in Ops /\ IsTable(k.fds) BY DEF IsRequest, IsKernel
<1>1. SameBut(o, k.fds, k.fds) BY DEF SameBut
<1>2. CASE r.call = "stat"
  <2>1. a.kernel = k BY <1>2 DEF Outcomes, SysPlain, Failure, Answer
  <2> QED BY <1>1, <1>2, <2>1 DEF Moves, Holds
<1>3. CASE r.call = "open"
  <2> DEFINE fd == CHOOSE f \in Fds : /\ k.fds[f] = Closed
                                     /\ \A g \in 1..(f - 1) : k.fds[g] # Closed
             e == [op |-> o, path |-> r.path, pos |-> 0, mode |-> r.mode]
             after == [k EXCEPT !.fds[fd] = e,
                                !.disk[r.path] = IF r.mode = "w" THEN <<>> ELSE @]
             u == [k.fds EXCEPT ![fd] = e]
  <2>1. fd \in Fds /\ k.fds[fd] = Closed BY <1>0, LowestFree
  <2>2. Bare(k.fds, o) BY <1>3 DEF Holds
  <2>3. a \in MayFail("open", k) \cup {Answer(after, FALSE, fd, <<>>)}
    BY <1>3 DEF Outcomes, SysOpen
  <2>4. after.fds = u /\ after = [x \in {"fds", "disk"} |-> after[x]] BY DEF IsKernel
  <2> HIDE DEF fd, after
  <2>5. IsTable(u) /\ Owns(u, o, fd) /\ SameBut(o, k.fds, u) BY <1>0, <2>1, <2>2, TableOpened
  <2> HIDE DEF u
  <2>6. CASE a = Failure(k)
    <3>1. a.kernel = k /\ a.err = TRUE BY <2>6 DEF Failure, Answer
    <3> QED BY <1>1, <1>3, <2>2, <3>1 DEF Moves
  <2>7. CASE a = Answer(after, FALSE, fd, <<>>)
    <3>1. a.kernel = after /\ a.err = FALSE /\ a.n = fd BY <2>7 DEF Answer
    <3> QED BY <1>3, <2>4, <2>5, <3>1 DEF Moves, IsKernel
  <2> QED BY <2>3, <2>6, <2>7 DEF MayFail
<1>4. CASE r.call = "read"
  <2>1. Owns(k.fds, o, r.fd) BY <1>4 DEF Holds
  <2>2. CASE a = Failure(k)
    <3>1. a.kernel = k BY <2>2 DEF Failure, Answer
    <3> QED BY <1>1, <1>4, <2>1, <3>1 DEF Moves
  <2>3. CASE a # Failure(k)
    <3>1. PICK n : a.kernel = [k EXCEPT !.fds[r.fd].pos = @ + n]
      BY <1>4, <2>3 DEF Outcomes, SysRead, MayFail, Answer
    <3> DEFINE u == [k.fds EXCEPT ![r.fd].pos = k.fds[r.fd].pos + n]
    <3>2. a.kernel.fds = u /\ a.kernel = [x \in {"fds", "disk"} |-> a.kernel[x]]
      BY <3>1 DEF IsKernel
    <3>3. IsTable(u) /\ Owns(u, o, r.fd) /\ SameBut(o, k.fds, u) BY <1>0, <2>1, TableMoved
    <3> HIDE DEF u
    <3> QED BY <1>4, <3>2, <3>3 DEF Moves, IsKernel
  <2> QED BY <2>2, <2>3
<1>5. CASE r.call = "write"
  <2>1. Owns(k.fds, o, r.fd) BY <1>5 DEF Holds
  <2>2. a.kernel.fds = k.fds /\ a.kernel = [x \in {"fds", "disk"} |-> a.kernel[x]]
    BY <1>5 DEF Outcomes, SysWrite, MayFail, Failure, Answer, IsKernel
  <2> QED BY <1>0, <1>1, <1>5, <2>1, <2>2 DEF Moves, IsKernel
<1>6. CASE r.call = "close"
  <2> DEFINE u == [k.fds EXCEPT ![r.fd] = Closed]
             closed == [k EXCEPT !.fds[r.fd] = Closed]
  <2>1. Owns(k.fds, o, r.fd) BY <1>6 DEF Holds
  <2>2. IsTable(u) /\ Bare(u, o) /\ SameBut(o, k.fds, u) /\ k.fds[r.fd] # Closed
    BY <1>0, <2>1, TableClosed
  <2>3. a.kernel = closed BY <1>6, <2>2 DEF Outcomes, SysClose, MayFail, Failure, Answer
  <2>4. closed.fds = u /\ closed = [x \in {"fds", "disk"} |-> closed[x]] BY DEF IsKernel
  <2> HIDE DEF u, closed
  <2> QED BY <1>6, <2>2, <2>3, <2>4 DEF Moves, IsKernel
<1> QED BY <1>2, <1>3, <1>4, <1>5, <1>6 DEF IsRequest

-----------------------------------------------------------------------------
(* The steps.                                                              *)

\* The variables of a call in which nothing but disturbed has changed.
Alike(c, d) ==
  /\ IsOp(d) /\ d.kind = c.kind /\ d.ended = c.ended /\ d.failed = c.failed
  /\ d.threw = c.threw /\ d.fd = c.fd /\ d.step = c.step

\* A step changes the variables of the call o alone.
Others(o) ==
  /\ ops' = [p \in Ops |-> ops'[p]]
  /\ \A p \in Ops \ {o} : Alike(ops[p], ops'[p])

\* Disturb changes nothing else.
LEMMA DisturbAlike ==
  ASSUME FsType, NEW r, NEW k, NEW after
  PROVE  LET d == Disturb(r, k, after) IN
         d = [p \in Ops |-> d[p]] /\ \A p \in Ops : Alike(ops[p], d[p])
<1> DEFINE d == Disturb(r, k, after)
<1>1. d = [p \in Ops |-> d[p]] BY DEF Disturb
<1>2. ASSUME NEW p \in Ops PROVE Alike(ops[p], d[p])
  <2>1. PICK b : d[p] = [ops[p] EXCEPT !.disturbed = b] BY DEF Disturb
  <2>2. IsOp(ops[p]) BY DEF FsType
  <2> HIDE DEF d
  <2> QED BY <2>1, <2>2 DEF Alike, IsOp, OpFields
<1> QED BY <1>1, <1>2

\* What another call does to the descriptors does not matter to a request.
LEMMA HoldsStill ==
  ASSUME NEW o, NEW t, NEW u, SameBut(o, t, u), NEW r, r.op \in Ops \ {o}, NEW c, NEW d,
         d.fd = c.fd, Holds(t, c, r)
  PROVE  Holds(u, d, r)
<1>1. \A fd : Owns(t, r.op, fd) => Owns(u, r.op, fd) BY DEF Owns, SameBut
<1>2. Bare(t, r.op) => Bare(u, r.op) BY DEF Bare, SameBut
<1> QED BY <1>1, <1>2 DEF Holds

\* A worker carries out a request.
LEMMA WorkKeeps ==
  ASSUME FsInv, NEW i \in 1..Len(reqs), Work(i)
  PROVE  FsInv'
<1> DEFINE r == reqs[i]
           o == r.op
<1>0. PICK a \in Outcomes(kernel, r) :
        /\ kernel' = a.kernel /\ ops' = Disturb(r, kernel, a.kernel)
        /\ reqs' = [reqs EXCEPT ![i].stage = "done",
                                ![i].answer = [err |-> a.err, n |-> a.n, bytes |-> a.bytes]]
  BY DEF Work
<1>1. /\ r.stage = "queued" /\ busy' = busy BY DEF Work
<1>2. IsRequest(r) /\ o \in Ops BY DEF FsInv, FsType, IsRequest
<1>3. a.err \in BOOLEAN BY <1>2, AnswerFits
<1> DEFINE ans == [err |-> a.err, n |-> a.n, bytes |-> a.bytes]
           z == [r EXCEPT !.stage = "done", !.answer = ans]
<1>4. ans.err = a.err /\ ans.n = a.n OBVIOUS
<1>5. PICK S : reqs \in Seq(S) BY DEF FsInv, IsList
<1>6. reqs' = [reqs EXCEPT ![i] = z] BY <1>0, <1>5
<1> HIDE DEF ans
<1>7. /\ IsRequest(z) /\ z.op = o /\ z.stage = "done" /\ z.answer = ans /\ z.call = r.call
      /\ z.fd = r.fd
  BY <1>1, <1>2, <1>3, <1>4 DEF IsRequest, RequestFields
<1> HIDE DEF z
<1>8. /\ reqs' \in Seq(S \cup {z}) /\ Len(reqs') = Len(reqs) /\ reqs'[i] = z
      /\ \A j \in 1..Len(reqs) : j # i => reqs'[j] = reqs[j]
  BY <1>5, <1>6, ListChanged
<1>9. IsList' BY <1>8 DEF IsList
<1>10. ops' = [p \in Ops |-> ops'[p]] /\ \A p \in Ops : Alike(ops[p], ops'[p])
  BY <1>0, DisturbAlike DEF FsInv
<1>11. \A j \in 1..Len(reqs) : reqs'[j].op = reqs[j].op BY <1>7, <1>8
<1>12. FsType' BY <1>1, <1>7, <1>8, <1>10 DEF FsInv, FsType, Alike
<1>13. Separate'
  <2>1. \A p \in Ops : ops'[p].kind = None =>
          ops'[p].ended = 0 /\ ~ops'[p].failed /\ ~ops'[p].threw /\ busy' # p
    BY <1>1, <1>10 DEF FsInv, Separate, Alike
  <2>2. \A j \in 1..Len(reqs) : reqs[j].op \in Ops BY DEF FsInv, FsType, IsRequest
  <2>3. \A j \in 1..Len(reqs') : ops'[reqs'[j].op].kind # None /\ reqs'[j].op # busy'
    BY <1>1, <1>8, <1>10, <1>11, <2>2 DEF FsInv, Separate, Alike
  <2>4. \A p \in Ops : busy' = p /\ ops'[p].step \in {"open", "loop"} => ~ops'[p].failed
    BY <1>1, <1>10 DEF FsInv, Separate, Alike
  <2> QED BY <2>1, <2>3, <2>4 DEF Separate
<1>14. OneByOne' BY <1>1, <1>8, <1>10, <1>11 DEF FsInv, OneByOne, Alike
<1>15. NeverForgotten' BY <1>1, <1>8, <1>10, <1>11 DEF FsInv, NeverForgotten, Alike
<1>16. ASSUME NoFailure' PROVE Held'
  <2>1. NoFailure BY <1>10, <1>16 DEF NoFailure, Alike
  <2>2. Held BY <2>1 DEF FsInv
  <2>3. Moves(kernel, ops[o], r, a) BY <1>1, <1>2, <2>2, SystemCalls DEF Held
  <2>4. IsKernel(kernel)' /\ SameBut(o, kernel.fds, kernel'.fds) BY <1>0, <2>3 DEF Moves
  <2>5. ASSUME NEW j \in 1..Len(reqs), j # i PROVE reqs[j].op \in Ops \ {o}
    BY <1>2, <2>1, <2>5 DEF FsInv, OneByOne, NoFailure, FsType, IsRequest
  <2>6. ASSUME NEW j \in 1..Len(reqs'), j # i
        PROVE Holds(kernel'.fds, ops'[reqs'[j].op], reqs'[j])
    <3>1. reqs'[j] = reqs[j] /\ reqs[j].op \in Ops \ {o} BY <1>8, <2>5, <2>6
    <3>2. ops'[reqs[j].op].fd = ops[reqs[j].op].fd BY <1>10, <3>1 DEF Alike
    <3>3. Holds(kernel.fds, ops[reqs[j].op], reqs[j]) BY <1>8, <2>2 DEF Held
    <3> QED BY <2>4, <3>1, <3>2, <3>3, HoldsStill
  <2>7. Holds(kernel'.fds, ops'[o], z)
    <3>1. r.call \in {"read", "write"} => r.fd = ops'[o].fd
      BY <1>2, <1>10, <2>2 DEF Held, Holds, Alike
    <3> QED BY <1>0, <1>3, <1>4, <1>7, <2>3, <3>1 DEF Moves, Holds
  <2>8. \A j \in 1..Len(reqs') : Holds(kernel'.fds, ops'[reqs'[j].op], reqs'[j])
    BY <1>7, <1>8, <2>6, <2>7
  <2>9. ASSUME NEW p \in Ops
        PROVE /\ ops'[p].kind = None \/ ops'[p].ended > 0 => Bare(kernel'.fds, p)
              /\ busy' = p /\ ops'[p].step = "open" => Bare(kernel'.fds, p)
              /\ busy' = p /\ ops'[p].step \in {"loop", "close"} => Owns(kernel'.fds, p, ops'[p].fd)
    <3>1. CASE p = o
      <4>1. busy # o /\ ops[o].kind # None BY <1>2 DEF FsInv, Separate
      <4>2. ops[o].ended = 0 BY <1>2, <2>1 DEF FsInv, OneByOne, NoFailure
      <4> QED BY <1>1, <1>10, <3>1, <4>1, <4>2 DEF Alike
    <3>2. CASE p # o
      <4>1. \A fd : Owns(kernel.fds, p, fd) => Owns(kernel'.fds, p, fd)
        BY <2>4, <3>2 DEF Owns, SameBut
      <4>2. Bare(kernel.fds, p) => Bare(kernel'.fds, p) BY <2>4, <3>2 DEF Bare, SameBut
      <4> QED BY <1>1, <1>10, <2>2, <4>1, <4>2 DEF Held, Alike
    <3> QED BY <3>1, <3>2
  <2> QED BY <2>4, <2>8, <2>9 DEF Held
<1> QED BY <1>9, <1>12, <1>13, <1>14, <1>15, <1>16 DEF FsInv

\* What a callback asks for is a request for the descriptor that the call owns.
HoldsOn(t, o, c, then) ==
  /\ \A k \in 1..Len(then.calls) : Holds(t, then.op, then.calls[k])
  /\ then.op.ended # c.ended => Bare(t, o)

\* The requests that a callback makes for its own descriptor.
LEMMA AsksForOwn ==
  ASSUME NEW t, NEW o \in Ops, NEW c, NEW d, Owns(t, o, d.fd), d.ended = c.ended,
         NEW cb
  PROVE  /\ HoldsOn(t, o, c, Then(d, <<read(o, d.fd)>>))
         /\ HoldsOn(t, o, c, Then(d, <<write(o, d)>>))
         /\ HoldsOn(t, o, c, Then(d, <<close(o, d.fd, cb)>>))
<1>1. \A r : /\ Then(d, <<r>>).op = d /\ Len(Then(d, <<r>>).calls) = 1
            /\ Then(d, <<r>>).calls[1] = r
  BY DEF Then
<1>2. \A r : Holds(t, d, r) => HoldsOn(t, o, c, Then(d, <<r>>)) BY <1>1 DEF HoldsOn
<1>3. Holds(t, d, read(o, d.fd)) BY DEF Holds, read, Request
<1>4. Holds(t, d, write(o, d)) BY DEF Holds, write, Request
<1>5. Holds(t, d, close(o, d.fd, cb)) BY DEF Holds, close, Request
<1> QED BY <1>2, <1>3, <1>4, <1>5

\* ... and write(), which may throw.
LEMMA WriteNextForOwn ==
  ASSUME NEW t, NEW o \in Ops, NEW c, NEW d, IsOp(d), Owns(t, o, d.fd), d.ended = c.ended
  PROVE  HoldsOn(t, o, c, writeNext(o, d))
<1>1. CASE WriteThrows(d)
  <2> DEFINE e == [d EXCEPT !.threw = TRUE]
  <2>1. writeNext(o, d) = Then(e, <<>>) BY <1>1 DEF writeNext
  <2>2. e.ended = c.ended BY DEF IsOp, OpFields
  <2>3. Then(e, <<>>).op = e /\ Len(Then(e, <<>>).calls) = 0 BY DEF Then
  <2> HIDE DEF e
  <2> QED BY <2>1, <2>2, <2>3 DEF HoldsOn
<1>2. CASE ~WriteThrows(d) BY <1>2, AsksForOwn DEF writeNext
<1> QED BY <1>1, <1>2

\* Every callback of a call that has not failed hands its descriptor on or has
\* given it back.
LEMMA CallBackHolds ==
  ASSUME NEW t, NEW r, IsRequest(r), r.stage # "queued", NEW c, IsOp(c), Holds(t, c, r),
         ~CallBack(r.op, c, r, r.answer).op.failed
  PROVE  HoldsOn(t, r.op, c, CallBack(r.op, c, r, r.answer))
<1> DEFINE o == r.op
           a == r.answer
           then == CallBack(o, c, r, a)
<1>0. o \in Ops /\ a.err \in BOOLEAN BY DEF IsRequest
<1>1. ASSUME NEW d, Bare(t, o) PROVE HoldsOn(t, o, c, Then(d, <<>>))
  BY <1>1 DEF HoldsOn, Then
<1>2. CASE r.cb \in {"readEnd", "closed", "plain"}
  <2>1. PICK d : then = Then(d, <<>>) BY <1>2 DEF CallBack
  <2>2. r.call \in {"close", "stat"} BY <1>2 DEF IsRequest, CallbackOf
  <2>3. Bare(t, o) BY <2>2 DEF Holds
  <2> QED BY <1>1, <2>1, <2>3
<1>3. CASE r.cb = "opened"
  <2>1. then = opened(o, c, a) /\ r.call = "open" BY <1>3 DEF CallBack, IsRequest, CallbackOf
  <2>2. CASE a.err
    <3>1. Bare(t, o) BY <2>1, <2>2 DEF Holds
    <3> QED BY <1>1, <2>1, <2>2, <3>1 DEF opened
  <2>3. CASE ~a.err
    <3> DEFINE d == [c EXCEPT !.fd = a.n]
    <3>1. IsOp(d) /\ d.ended = c.ended /\ d.fd = a.n BY DEF IsOp, OpFields
    <3>2. r.stage = "done" BY <2>3 DEF IsRequest
    <3>3. Owns(t, o, d.fd) BY <2>1, <2>3, <3>1, <3>2 DEF Holds
    <3>4. then = IF c.kind = "readFile" THEN Then(d, <<read(o, a.n)>>) ELSE writeNext(o, d)
      BY <2>1, <2>3 DEF opened
    <3> HIDE DEF d
    <3> QED BY <1>0, <3>1, <3>3, <3>4, AsksForOwn, WriteNextForOwn
  <2> QED BY <1>0, <2>2, <2>3
<1>4. CASE r.cb = "afterRead"
  <2>1. then = afterRead(o, c, a) /\ r.call = "read" BY <1>4 DEF CallBack, IsRequest, CallbackOf
  <2>2. Owns(t, o, c.fd) BY <2>1 DEF Holds
  <2>3. ~a.err
    <3> SUFFICES ASSUME a.err PROVE FALSE BY <1>0
    <3> DEFINE d == [c EXCEPT !.failed = TRUE]
    <3>1. then.op = d BY <2>1 DEF afterRead, Then
    <3>2. d.failed = TRUE BY DEF IsOp, OpFields
    <3> QED BY <3>1, <3>2
  <2>4. CASE a.n = 0
    <3>1. then = Then(c, <<close(o, c.fd, "readEnd")>>) BY <2>1, <2>3, <2>4 DEF afterRead
    <3> QED BY <1>0, <2>2, <3>1, AsksForOwn
  <2>5. CASE a.n # 0
    <3>1. PICK b : then = Then([c EXCEPT !.buffers = b], <<read(o, c.fd)>>)
      BY <2>1, <2>3, <2>5 DEF afterRead
    <3> DEFINE d == [c EXCEPT !.buffers = b]
    <3>2. d.fd = c.fd /\ d.ended = c.ended BY DEF IsOp, OpFields
    <3>3. then = Then(d, <<read(o, d.fd)>>) BY <3>1, <3>2
    <3> HIDE DEF d
    <3>4. Owns(t, o, d.fd) BY <2>2, <3>2
    <3> QED BY <1>0, <3>2, <3>3, <3>4, AsksForOwn
  <2> QED BY <2>4, <2>5
<1>5. CASE r.cb = "afterWrite"
  <2>1. then = afterWrite(o, c, a) /\ r.call = "write" BY <1>5 DEF CallBack, IsRequest, CallbackOf
  <2>2. Owns(t, o, c.fd) BY <2>1 DEF Holds
  <2>3. ~a.err
    <3> SUFFICES ASSUME a.err PROVE FALSE BY <1>0
    <3> DEFINE d == [c EXCEPT !.failed = TRUE, !.written = NaN, !.tries = @ + 1]
    <3>1. then.op = d BY <2>1 DEF afterWrite, Then
    <3>2. d.failed = TRUE BY DEF IsOp, OpFields
    <3> QED BY <3>1, <3>2
  <2> DEFINE d == [c EXCEPT !.written = @ + a.n]
  <2>4. IsOp(d) /\ d.fd = c.fd /\ d.ended = c.ended BY DEF IsOp, OpFields
  <2>5. then = Then(c, <<close(o, c.fd, "closed")>>) \/ then = writeNext(o, d)
    BY <2>1, <2>3 DEF afterWrite
  <2> HIDE DEF d
  <2>6. Owns(t, o, d.fd) BY <2>2, <2>4
  <2> QED BY <1>0, <2>2, <2>4, <2>5, <2>6, AsksForOwn, WriteNextForOwn
<1> QED BY <1>2, <1>3, <1>4, <1>5 DEF IsRequest, CallbackOf

\* AfterAsync calls back.
LEMMA AfterAsyncKeeps ==
  ASSUME FsInv, NEW i \in 1..Len(reqs), AfterAsync(i)
  PROVE  FsInv'
<1> DEFINE r == reqs[i]
           o == r.op
           c == ops[o]
           then == CallBack(o, c, r, r.answer)
           d == then.op
           calls == then.calls
           n == Len(reqs) - 1
<1>1. /\ r.stage # "queued" /\ ops' = [ops EXCEPT ![o] = d]
      /\ reqs' = RemoveAt(reqs, i) \o calls /\ kernel' = kernel /\ busy' = busy
  BY DEF AfterAsync
<1>2. IsRequest(r) /\ o \in Ops /\ IsOp(c) BY DEF FsInv, FsType, IsRequest
<1>3. Asks(o, calls) /\ GoesOn(c, d, Len(calls)) BY <1>1, <1>2, CallBackContinues DEF Continues
<1>4. HoldsOn(kernel.fds, o, c, then) \/ d.failed \/ ~Holds(kernel.fds, c, r)
  BY <1>1, <1>2, CallBackHolds
<1>5. IsOp(d) /\ d.kind = c.kind /\ (c.failed => d.failed) BY <1>3 DEF GoesOn
<1>6. PICK S : reqs \in Seq(S) BY DEF FsInv, IsList
<1>7. PICK T : calls \in Seq(T) BY <1>3 DEF Asks
<1>8. \A k \in 1..Len(calls) : IsRequest(calls[k]) /\ calls[k].op = o BY <1>3 DEF Asks
<1>9. HoldsOn(kernel.fds, o, c, then) =>
        /\ \A k \in 1..Len(calls) : Holds(kernel.fds, d, calls[k])
        /\ d.ended # c.ended => Bare(kernel.fds, o)
  BY DEF HoldsOn
<1> HIDE DEF then, d, calls
<1>10. /\ reqs' \in Seq(S \cup T) /\ Len(reqs') = n + Len(calls)
       /\ \A j \in 1..(i - 1) : reqs'[j] = reqs[j]
       /\ \A j \in i..n : reqs'[j] = reqs[j + 1]
       /\ \A k \in 1..Len(calls) : reqs'[n + k] = calls[k]
  <2>1. reqs' \in Seq(S \cup T) /\ Spliced(reqs, i, calls, reqs')
    BY <1>1, <1>6, <1>7, ListAfter
  <2> QED BY <2>1 DEF Spliced
<1>11. Len(reqs) \in Nat /\ Len(calls) \in Nat /\ Len(reqs') \in Nat BY <1>6, <1>7, <1>10
<1> DEFINE was(j) == IF j < i THEN j ELSE j + 1
<1>12. \A j \in 1..n : was(j) \in 1..Len(reqs) /\ was(j) # i /\ reqs'[j] = reqs[was(j)]
  <2> TAKE j \in 1..n
  <2>1. CASE j < i
    <3>1. j \in 1..(i - 1) /\ was(j) = j BY <1>11, <2>1
    <3> QED BY <1>10, <1>11, <2>1, <3>1
  <2>2. CASE ~(j < i)
    <3>1. j \in i..n /\ was(j) = j + 1 BY <1>11, <2>2
    <3> QED BY <1>10, <1>11, <2>2, <3>1
  <2> QED BY <2>1, <2>2
<1>13. \A j, m \in 1..n : was(j) = was(m) => j = m BY <1>11
<1>14. \A m \in 1..Len(reqs) : m # i => \E j \in 1..n : was(j) = m
  <2> TAKE m \in 1..Len(reqs)
  <2> HAVE m # i
  <2>1. CASE m < i BY <1>11, <2>1
  <2>2. CASE m > i
    <3>1. m - 1 \in 1..n /\ was(m - 1) = m BY <1>11, <2>2
    <3> QED BY <3>1
  <2> QED BY <1>11, <2>1, <2>2
<1> HIDE DEF was
<1>15. ASSUME NEW j \in 1..Len(reqs'), j \notin 1..n
       PROVE  \E k \in 1..Len(calls) : j = n + k /\ reqs'[j] = calls[k]
  <2>1. j - n \in 1..Len(calls) /\ j = n + (j - n) BY <1>10, <1>11, <1>15
  <2> QED BY <1>10, <2>1
<1>16. \A j \in 1..n : j \in 1..Len(reqs') BY <1>10, <1>11
<1> HIDE DEF n
<1>17. /\ ops' = [p \in Ops |-> ops'[p]] /\ ops'[o] = d
       /\ \A p \in Ops : p # o => ops'[p] = ops[p]
  BY <1>1, <1>2 DEF FsInv, FsType
<1>18. \A j \in 1..Len(reqs) : IsRequest(reqs[j]) /\ reqs[j].op \in Ops
  BY DEF FsInv, FsType, IsRequest
<1>19. busy # o /\ c.kind # None BY <1>2 DEF FsInv, Separate
<1>20. IsList' BY <1>10 DEF IsList
<1>21. FsType'
  <2>1. \A j \in 1..Len(reqs') : IsRequest(reqs'[j]) BY <1>8, <1>12, <1>15, <1>18
  <2> QED BY <1>1, <1>5, <1>17, <2>1 DEF FsInv, FsType
<1>22. Separate'
  <2>1. \A p \in Ops : ops'[p].kind = None =>
          ops'[p].ended = 0 /\ ~ops'[p].failed /\ ~ops'[p].threw /\ busy' # p
    BY <1>1, <1>5, <1>17, <1>19 DEF FsInv, Separate
  <2>2. \A p \in Ops : ops'[p].kind = ops[p].kind BY <1>5, <1>17
  <2>3. \A j \in 1..Len(reqs) : ops[reqs[j].op].kind # None /\ reqs[j].op # busy
    BY DEF FsInv, Separate
  <2>4. \A j \in 1..Len(reqs') : ops'[reqs'[j].op].kind # None /\ reqs'[j].op # busy'
    <3> TAKE j \in 1..Len(reqs')
    <3>1. CASE j \in 1..n BY <1>1, <1>12, <1>18, <2>2, <2>3, <3>1
    <3>2. CASE j \notin 1..n
      <4>1. reqs'[j].op = o BY <1>8, <1>15, <3>2
      <4> QED BY <1>1, <1>2, <1>19, <2>2, <4>1
    <3> QED BY <3>1, <3>2
  <2>5. \A p \in Ops : busy' = p /\ ops'[p].step \in {"open", "loop"} => ~ops'[p].failed
    BY <1>1, <1>17, <1>19 DEF FsInv, Separate
  <2> QED BY <2>1, <2>4, <2>5 DEF Separate
<1>23. ASSUME NEW p \in Ops, p # o, NEW j \in 1..Len(reqs'), reqs'[j].op = p PROVE j \in 1..n
  BY <1>8, <1>15, <1>23
<1>24. ASSUME ~c.failed, NEW j \in 1..Len(reqs'), reqs'[j].op = o PROVE j \notin 1..n
  BY <1>2, <1>12, <1>24 DEF FsInv, OneByOne
<1>25. OneByOne'
  <2> SUFFICES ASSUME NEW p \in Ops, ~ops'[p].failed
               PROVE  /\ ops'[p].ended <= 1
                      /\ busy' = p => ops'[p].ended = 0
                      /\ \A j \in 1..Len(reqs') : reqs'[j].op = p => ops'[p].ended = 0
                      /\ \A j, m \in 1..Len(reqs') :
                           reqs'[j].op = p /\ reqs'[m].op = p => j = m
    BY DEF OneByOne
  <2>1. CASE p = o
    <3>1. ~d.failed /\ ~c.failed BY <1>5, <1>17, <2>1
    <3>2. c.ended = 0 BY <1>2, <3>1 DEF FsInv, OneByOne
    <3>3. \/ Len(calls) = 0 /\ d.ended \in {0, 1}
          \/ Len(calls) = 1 /\ d.ended = 0
      BY <3>1, <3>2, <1>3 DEF GoesOn
    <3>4. \A j \in 1..Len(reqs') : reqs'[j].op = o => Len(calls) = 1 /\ j = n + 1
      BY <1>11, <1>15, <1>24, <3>1, <3>3
    <3>5. ops'[p] = d /\ busy' # p BY <1>1, <1>17, <1>19, <2>1
    <3>6. \A j, m \in 1..Len(reqs') : reqs'[j].op = p /\ reqs'[m].op = p => j = m
      BY <2>1, <3>4
    <3>7. \A j \in 1..Len(reqs') : reqs'[j].op = p => ops'[p].ended = 0
      BY <2>1, <3>3, <3>4, <3>5
    <3>8. ops'[p].ended <= 1 BY <3>3, <3>5
    <3> QED BY <3>5, <3>6, <3>7, <3>8
  <2>2. CASE p # o
    <3>1. ops'[p] = ops[p] /\ ~ops[p].failed BY <1>17, <2>2
    <3>2. \A j \in 1..Len(reqs') : reqs'[j].op = p => j \in 1..n /\ reqs[was(j)].op = p
      BY <1>12, <1>23, <2>2
    <3>3. /\ ops[p].ended <= 1 /\ (busy = p => ops[p].ended = 0)
          /\ \A j \in 1..Len(reqs) : reqs[j].op = p => ops[p].ended = 0
          /\ \A j, m \in 1..Len(reqs) : reqs[j].op = p /\ reqs[m].op = p => j = m
      BY <3>1 DEF FsInv, OneByOne
    <3>4. \A j, m \in 1..Len(reqs') : reqs'[j].op = p /\ reqs'[m].op = p => j = m
      BY <1>12, <1>13, <3>2, <3>3
    <3> QED BY <1>1, <1>12, <3>1, <3>2, <3>3, <3>4
  <2> QED BY <2>1, <2>2
<1>26. NeverForgotten'
  <2> SUFFICES ASSUME NEW p \in Ops, ops'[p].kind # None, ops'[p].ended = 0, ~ops'[p].threw,
                      busy' # p
               PROVE  \E j \in 1..Len(reqs') : reqs'[j].op = p
    BY DEF NeverForgotten
  <2>1. CASE p = o
    <3>1. Len(calls) > 0 BY <1>3, <1>5, <1>17, <2>1 DEF GoesOn, IsOp
    <3>2. 1 \in 1..Len(calls) /\ n + 1 \in 1..Len(reqs') BY <1>10, <1>11, <3>1 DEF n
    <3> QED BY <1>8, <1>10, <2>1, <3>2
  <2>2. CASE p # o
    <3>1. PICK m \in 1..Len(reqs) : reqs[m].op = p
      BY <1>1, <1>17, <2>2 DEF FsInv, NeverForgotten
    <3>2. m # i BY <2>2, <3>1
    <3>3. PICK j \in 1..n : was(j) = m BY <1>14, <3>2
    <3>4. reqs'[j] = reqs[m] BY <1>12, <3>3
    <3> QED BY <1>16, <3>1, <3>4
  <2> QED BY <2>1, <2>2
<1>27. ASSUME NoFailure' PROVE Held'
  <2>1. NoFailure BY <1>5, <1>17, <1>27 DEF NoFailure
  <2>2. Held BY <2>1 DEF FsInv
  <2>3. ~d.failed /\ Holds(kernel.fds, c, r)
    BY <1>2, <1>17, <1>27, <2>2 DEF NoFailure, Held
  <2>4. /\ \A k \in 1..Len(calls) : Holds(kernel.fds, d, calls[k])
        /\ d.ended # c.ended => Bare(kernel.fds, o)
    BY <1>4, <1>9, <2>3
  <2>5. c.ended = 0 /\ d.ended \in Nat
    BY <1>2, <1>5, <2>1 DEF FsInv, OneByOne, NoFailure, IsOp
  <2>6. ASSUME NEW j \in 1..Len(reqs') PROVE Holds(kernel.fds, ops'[reqs'[j].op], reqs'[j])
    <3>1. CASE j \in 1..n
      <4>1. reqs'[j] = reqs[was(j)] /\ was(j) \in 1..Len(reqs) BY <1>12, <3>1
      <4>2. reqs[was(j)].op # o BY <1>24, <2>1, <1>2, <3>1, <4>1 DEF NoFailure
      <4>3. Holds(kernel.fds, ops[reqs[was(j)].op], reqs[was(j)]) BY <2>2, <4>1 DEF Held
      <4> QED BY <1>17, <1>18, <4>1, <4>2, <4>3
    <3>2. CASE j \notin 1..n BY <1>8, <1>15, <1>17, <2>4, <3>2
    <3> QED BY <3>1, <3>2
  <2>7. ASSUME NEW p \in Ops
        PROVE /\ ops'[p].kind = None \/ ops'[p].ended > 0 => Bare(kernel.fds, p)
              /\ busy' = p /\ ops'[p].step = "open" => Bare(kernel.fds, p)
              /\ busy' = p /\ ops'[p].step \in {"loop", "close"} => Owns(kernel.fds, p, ops'[p].fd)
    <3>1. CASE p = o BY <1>1, <1>5, <1>17, <1>19, <2>4, <2>5, <3>1
    <3>2. CASE p # o BY <1>1, <1>17, <2>2, <3>2 DEF Held
    <3> QED BY <3>1, <3>2
  <2> QED BY <1>1, <2>2, <2>6, <2>7 DEF Held
<1> QED BY <1>20, <1>21, <1>22, <1>25, <1>26, <1>27 DEF FsInv

\* What is known of a call that has not begun, when it may.
LEMMA Fresh ==
  ASSUME FsInv, NEW o \in Ops, ops[o].kind = None, busy = Nobody
  PROVE  /\ ops[o].ended = 0 /\ ops[o].failed = FALSE /\ ops[o].threw = FALSE /\ IsOp(ops[o])
         /\ \A j \in 1..Len(reqs) : reqs[j].op # o /\ reqs[j].op \in Ops
         /\ NoFailure => Bare(kernel.fds, o)
         /\ busy \notin Ops
<1>1. ops[o].ended = 0 /\ ~ops[o].failed /\ ~ops[o].threw BY DEF FsInv, Separate
<1>2. IsOp(ops[o]) BY DEF FsInv, FsType
<1>3. \A j \in 1..Len(reqs) : reqs[j].op # o /\ reqs[j].op \in Ops
  BY DEF FsInv, Separate, FsType, IsRequest
<1>4. NoFailure => Bare(kernel.fds, o) BY DEF FsInv, Held
<1>5. ops[o].failed = FALSE /\ ops[o].threw = FALSE BY <1>1, <1>2 DEF IsOp
<1> QED BY <1>1, <1>2, <1>3, <1>4, <1>5, NobodyElse

\* A call begins: Begin sets the variables d of it.
LEMMA BeginSets ==
  ASSUME FsInv, NEW o \in Ops, NEW kind, NEW path, NEW data, Begin(o, kind, path, data)
  PROVE  /\ ops' = [p \in Ops |-> ops'[p]] /\ \A p \in Ops : p # o => ops'[p] = ops[p]
         /\ IsOp(ops'[o]) /\ ops'[o].kind = kind /\ ops'[o].step = "open" /\ ops'[o].ended = 0
         /\ ops'[o].failed = FALSE /\ ops'[o].threw = FALSE
         /\ ops[o].kind = None /\ busy = Nobody
<1>1. /\ ops[o].kind = None /\ busy = Nobody
      /\ ops' = [ops EXCEPT ![o].kind = kind, ![o].path = path, ![o].data = data,
                            ![o].step = "open"]
  BY DEF Begin, MayCall, Idle
<1>2. /\ ops[o].ended = 0 /\ ops[o].failed = FALSE /\ ops[o].threw = FALSE /\ IsOp(ops[o])
  BY <1>1, Fresh
<1>3. ops = [p \in Ops |-> ops[p]] BY DEF FsInv, FsType
<1> DEFINE d == [ops[o] EXCEPT !.kind = kind, !.path = path, !.data = data, !.step = "open"]
<1>4. ops' = [ops EXCEPT ![o] = d] BY <1>1, <1>3
<1>5. /\ IsOp(d) /\ d.kind = kind /\ d.step = "open" /\ d.ended = 0
      /\ d.failed = FALSE /\ d.threw = FALSE
  BY <1>2 DEF IsOp, OpFields
<1> HIDE DEF d
<1> QED BY <1>1, <1>3, <1>4, <1>5

\* A call that makes a request.
LEMMA AsyncStarts ==
  ASSUME FsInv, NEW o \in Ops, NEW kind, kind # None, NEW path, NEW data,
         Begin(o, kind, path, data), NEW r, IsRequest(r), r.op = o, r.stage = "queued",
         r.call \in {"open", "stat"}, FS_ASYNC(r), UNCHANGED <<kernel, busy>>
  PROVE  FsInv'
<1>1. /\ ops' = [p \in Ops |-> ops'[p]] /\ \A p \in Ops : p # o => ops'[p] = ops[p]
      /\ IsOp(ops'[o]) /\ ops'[o].kind = kind /\ ops'[o].step = "open" /\ ops'[o].ended = 0
      /\ ops'[o].failed = FALSE /\ ops'[o].threw = FALSE
      /\ ops[o].kind = None /\ busy = Nobody
  BY BeginSets
<1>2. /\ ops[o].failed = FALSE
      /\ \A j \in 1..Len(reqs) : reqs[j].op # o /\ reqs[j].op \in Ops
      /\ NoFailure => Bare(kernel.fds, o)
      /\ busy \notin Ops
  BY <1>1, Fresh
<1> DEFINE a == [err |-> TRUE, n |-> 0, bytes |-> <<>>]
           refused == [r EXCEPT !.stage = "refused", !.answer = a]
<1>3. PICK z \in {r, refused} : reqs' = Append(reqs, z) BY DEF FS_ASYNC
<1>4. a.err = TRUE OBVIOUS
<1> HIDE DEF a
<1>5. /\ IsRequest(refused) /\ refused.op = o /\ refused.call = r.call
      /\ refused.stage = "refused"
  BY <1>4 DEF IsRequest, RequestFields
<1> HIDE DEF refused
<1>6. IsRequest(z) /\ z.op = o /\ z.call \in {"open", "stat"} /\ z.stage # "done"
  BY <1>3, <1>5
<1>7. PICK S : reqs \in Seq(S) BY DEF FsInv, IsList
<1>8. /\ reqs' \in Seq(S \cup {z}) /\ Len(reqs') = Len(reqs) + 1
      /\ \A j \in 1..Len(reqs) : reqs'[j] = reqs[j]
      /\ reqs'[Len(reqs) + 1] = z
  BY <1>3, <1>7, ListAppend
<1>9. Len(reqs) \in Nat BY <1>7
<1>10. \A j \in 1..Len(reqs') :
         \/ j \in 1..Len(reqs) /\ reqs'[j] = reqs[j]
         \/ j = Len(reqs) + 1 /\ reqs'[j] = z
  BY <1>8, <1>9
<1>11. (\A j \in 1..Len(reqs) : j \in 1..Len(reqs')) /\ Len(reqs) + 1 \in 1..Len(reqs')
  BY <1>8, <1>9
<1>12. busy' = busy /\ kernel' = kernel OBVIOUS
<1>13. IsList' BY <1>8 DEF IsList
<1>14. FsType' BY <1>1, <1>6, <1>10, <1>12 DEF FsInv, FsType
<1>15. Separate'
  <2>1. \A j \in 1..Len(reqs') : ops'[reqs'[j].op].kind # None /\ reqs'[j].op # busy'
    BY <1>1, <1>2, <1>6, <1>10, <1>12 DEF FsInv, Separate
  <2> QED BY <1>1, <1>2, <1>12, <2>1 DEF FsInv, Separate
<1>16. OneByOne'
  <2> SUFFICES ASSUME NEW p \in Ops, ~ops'[p].failed
               PROVE  /\ ops'[p].ended <= 1
                      /\ busy' = p => ops'[p].ended = 0
                      /\ \A j \in 1..Len(reqs') : reqs'[j].op = p => ops'[p].ended = 0
                      /\ \A j, m \in 1..Len(reqs') :
                           reqs'[j].op = p /\ reqs'[m].op = p => j = m
    BY DEF OneByOne
  <2>1. CASE p = o
    <3>1. \A j \in 1..Len(reqs') : reqs'[j].op = p => j = Len(reqs) + 1
      BY <1>2, <1>10, <2>1
    <3> QED BY <1>1, <1>2, <1>12, <2>1, <3>1
  <2>2. CASE p # o
    <3>1. \A j \in 1..Len(reqs') : reqs'[j].op = p => j \in 1..Len(reqs) /\ reqs[j].op = p
      BY <1>6, <1>10, <2>2
    <3> QED BY <1>1, <1>12, <2>2, <3>1 DEF FsInv, OneByOne
  <2> QED BY <2>1, <2>2
<1>17. NeverForgotten'
  <2> SUFFICES ASSUME NEW p \in Ops, ops'[p].kind # None, ops'[p].ended = 0, ~ops'[p].threw
               PROVE  \E j \in 1..Len(reqs') : reqs'[j].op = p
    BY DEF NeverForgotten
  <2>1. CASE p = o BY <1>6, <1>8, <1>11, <2>1
  <2>2. CASE p # o
    <3>1. PICK j \in 1..Len(reqs) : reqs[j].op = p
      BY <1>1, <1>2, <2>2 DEF FsInv, NeverForgotten
    <3> QED BY <1>8, <1>11, <3>1
  <2> QED BY <2>1, <2>2
<1>18. ASSUME NoFailure' PROVE Held'
  <2>1. NoFailure BY <1>1, <1>2, <1>18 DEF NoFailure
  <2>2. Held /\ Bare(kernel.fds, o) BY <1>2, <2>1 DEF FsInv
  <2>3. Holds(kernel.fds, ops'[o], z) BY <1>6, <2>2 DEF Holds
  <2>4. \A j \in 1..Len(reqs') : Holds(kernel.fds, ops'[reqs'[j].op], reqs'[j])
    BY <1>1, <1>2, <1>6, <1>10, <2>2, <2>3 DEF Held
  <2>5. \A p \in Ops :
          /\ ops'[p].kind = None \/ ops'[p].ended > 0 => Bare(kernel.fds, p)
          /\ busy' # p
    BY <1>1, <1>2, <1>12, <2>2 DEF Held
  <2> QED BY <1>12, <2>2, <2>4, <2>5 DEF Held
<1> QED BY <1>13, <1>14, <1>15, <1>16, <1>17, <1>18 DEF FsInv

\* A call that runs or has returned, and makes no request.
LEMMA SyncStarts ==
  ASSUME FsInv, NEW o \in Ops, ops[o].kind = None, busy = Nobody,
         ops' = [p \in Ops |-> ops'[p]], \A p \in Ops : p # o => ops'[p] = ops[p],
         IsOp(ops'[o]), ops'[o].kind # None, ops'[o].failed = FALSE,
         UNCHANGED <<kernel, reqs>>,
         \/ busy' = o /\ ops'[o].ended = 0 /\ ops'[o].step = "open"
         \/ busy' = busy /\ ops'[o].ended = 1
  PROVE  FsInv'
<1>1. /\ ops[o].failed = FALSE
      /\ \A j \in 1..Len(reqs) : reqs[j].op # o /\ reqs[j].op \in Ops
      /\ NoFailure => Bare(kernel.fds, o)
      /\ busy \notin Ops
  BY Fresh
<1>2. reqs' = reqs /\ kernel' = kernel /\ busy' \in {o, busy} OBVIOUS
<1>3. IsList' BY <1>2 DEF FsInv, IsList
<1>4. FsType' BY <1>2 DEF FsInv, FsType
<1>5. Separate'
  <2>1. \A j \in 1..Len(reqs') : ops'[reqs'[j].op].kind # None /\ reqs'[j].op # busy'
    BY <1>1, <1>2 DEF FsInv, Separate
  <2>2. \A p \in Ops : ops'[p].kind = None =>
          ops'[p].ended = 0 /\ ~ops'[p].failed /\ ~ops'[p].threw /\ busy' # p
    BY <1>1, <1>2 DEF FsInv, Separate
  <2>3. \A p \in Ops : busy' = p => ~ops'[p].failed BY <1>1, <1>2
  <2> QED BY <2>1, <2>2, <2>3 DEF Separate
<1>6. OneByOne'
  <2>1. \A p \in Ops : busy' = p => ops'[p].ended = 0 BY <1>1, <1>2, NobodyElse
  <2>2. \A p \in Ops : ~ops'[p].failed =>
          /\ ops'[p].ended <= 1
          /\ \A j \in 1..Len(reqs) : reqs[j].op = p => ops'[p].ended = 0
          /\ \A j, m \in 1..Len(reqs) : reqs[j].op = p /\ reqs[m].op = p => j = m
    BY <1>1 DEF FsInv, OneByOne
  <2> QED BY <1>2, <2>1, <2>2 DEF OneByOne
<1>7. NeverForgotten' BY <1>1, <1>2 DEF FsInv, NeverForgotten
<1>8. ASSUME NoFailure' PROVE Held'
  <2>1. NoFailure BY <1>1, <1>8 DEF NoFailure
  <2>2. Held /\ Bare(kernel.fds, o) BY <1>1, <2>1 DEF FsInv
  <2>3. \A j \in 1..Len(reqs') : Holds(kernel.fds, ops'[reqs'[j].op], reqs'[j])
    BY <1>1, <1>2, <2>2 DEF Held
  <2>4. \A p \in Ops :
          /\ ops'[p].kind = None \/ ops'[p].ended > 0 => Bare(kernel.fds, p)
          /\ busy' = p => ops'[p].step = "open" /\ Bare(kernel.fds, p)
    BY <1>1, <1>2, <2>2 DEF Held
  <2> QED BY <1>2, <2>2, <2>3, <2>4 DEF Held
<1> QED BY <1>3, <1>4, <1>5, <1>6, <1>7, <1>8 DEF FsInv

\* What a step of a synchronous call does to the descriptors.
SyncMoves(o, d) ==
  /\ IsKernel(kernel') /\ SameBut(o, kernel.fds, kernel'.fds)
  /\ busy' # o => Bare(kernel'.fds, o)
  /\ busy' = o => d.step # "open" /\ Owns(kernel'.fds, o, d.fd)

\* A step of a synchronous call.
LEMMA SyncKeeps ==
  ASSUME FsInv, NEW o \in Ops, busy = o, Others(o), reqs' = reqs, IsOp(ops'[o]),
         ops'[o].kind = ops[o].kind, ops[o].failed => ops'[o].failed,
         \/ /\ busy' = o /\ ops'[o].ended = ops[o].ended
            /\ ops'[o].step \in {"open", "loop"} => ~ops'[o].failed
         \/ busy' = Nobody /\ ops'[o].ended = ops[o].ended + 1,
         NoFailure => SyncMoves(o, ops'[o])
  PROVE  FsInv'
<1>1. /\ ops' = [p \in Ops |-> ops'[p]]
      /\ \A p \in Ops : p # o => Alike(ops[p], ops'[p])
  BY DEF Others
<1>2. \A j \in 1..Len(reqs) : reqs[j].op # o /\ reqs[j].op \in Ops
  BY DEF FsInv, Separate, FsType, IsRequest
<1>3. ops[o].kind # None /\ ops[o].ended \in Nat BY DEF FsInv, Separate, FsType, IsOp
<1>4. busy' \in {o, Nobody} /\ Nobody \notin Ops BY NobodyElse
<1>5. IsList' BY DEF FsInv, IsList
<1>6. FsType' BY <1>1, <1>4 DEF FsInv, FsType, Alike
<1>7. Separate'
  <2>1. \A j \in 1..Len(reqs') : ops'[reqs'[j].op].kind # None /\ reqs'[j].op # busy'
    BY <1>1, <1>2, <1>4 DEF FsInv, Separate, Alike
  <2>2. \A p \in Ops : ops'[p].kind = None =>
          ops'[p].ended = 0 /\ ~ops'[p].failed /\ ~ops'[p].threw /\ busy' # p
    BY <1>1, <1>3, <1>4 DEF FsInv, Separate, Alike
  <2>3. \A p \in Ops : busy' = p /\ ops'[p].step \in {"open", "loop"} => ~ops'[p].failed
    BY <1>4
  <2> QED BY <2>1, <2>2, <2>3 DEF Separate
<1>8. OneByOne'
  <2> SUFFICES ASSUME NEW p \in Ops, ~ops'[p].failed
               PROVE  /\ ops'[p].ended <= 1
                      /\ busy' = p => ops'[p].ended = 0
                      /\ \A j \in 1..Len(reqs) : reqs[j].op = p => ops'[p].ended = 0
                      /\ \A j, m \in 1..Len(reqs) :
                           reqs[j].op = p /\ reqs[m].op = p => j = m
    BY DEF OneByOne
  <2>1. CASE p = o
    <3>1. ops[o].ended = 0 BY <2>1 DEF FsInv, OneByOne
    <3>2. ops'[o].ended <= 1 /\ (busy' = o => ops'[o].ended = 0) BY <1>4, <3>1
    <3> QED BY <1>2, <2>1, <3>2
  <2>2. CASE p # o BY <1>1, <1>4, <2>2 DEF FsInv, OneByOne, Alike
  <2> QED BY <2>1, <2>2
<1>9. NeverForgotten'
  <2> SUFFICES ASSUME NEW p \in Ops, ops'[p].kind # None, ops'[p].ended = 0, ~ops'[p].threw
               PROVE  busy' = p \/ \E j \in 1..Len(reqs) : reqs[j].op = p
    BY DEF NeverForgotten
  <2>1. CASE p = o BY <1>3, <2>1
  <2>2. CASE p # o BY <1>1, <2>2 DEF FsInv, NeverForgotten, Alike
  <2> QED BY <2>1, <2>2
<1>10. ASSUME NoFailure' PROVE Held'
  <2>1. NoFailure
    <3> SUFFICES ASSUME NEW p \in Ops PROVE ~ops[p].failed BY DEF NoFailure
    <3>1. ~ops'[p].failed BY <1>10 DEF NoFailure
    <3>2. CASE p = o BY <3>1, <3>2
    <3>3. CASE p # o BY <1>1, <3>1, <3>3 DEF Alike
    <3> QED BY <3>2, <3>3
  <2>2. Held /\ SyncMoves(o, ops'[o]) BY <2>1 DEF FsInv
  <2>3. IsKernel(kernel') /\ SameBut(o, kernel.fds, kernel'.fds) BY <2>2 DEF SyncMoves
  <2>4. ASSUME NEW j \in 1..Len(reqs) PROVE Holds(kernel'.fds, ops'[reqs[j].op], reqs[j])
    <3>1. reqs[j].op \in Ops \ {o} BY <1>2
    <3>2. ops'[reqs[j].op].fd = ops[reqs[j].op].fd BY <1>1, <3>1 DEF Alike
    <3>3. Holds(kernel.fds, ops[reqs[j].op], reqs[j]) BY <2>2 DEF Held
    <3> QED BY <2>3, <3>1, <3>2, <3>3, HoldsStill
  <2>5. ASSUME NEW p \in Ops
        PROVE /\ ops'[p].kind = None \/ ops'[p].ended > 0 => Bare(kernel'.fds, p)
              /\ busy' = p /\ ops'[p].step = "open" => Bare(kernel'.fds, p)
              /\ busy' = p /\ ops'[p].step \in {"loop", "close"} => Owns(kernel'.fds, p, ops'[p].fd)
    <3>1. CASE p = o
      <4>1. ops[o].ended = 0 BY <2>1 DEF FsInv, OneByOne, NoFailure
      <4> QED BY <1>3, <1>4, <2>2, <3>1, <4>1 DEF SyncMoves
    <3>2. CASE p # o
      <4>1. Bare(kernel.fds, p) => Bare(kernel'.fds, p) BY <2>3, <3>2 DEF Bare, SameBut
      <4> QED BY <1>1, <1>4, <2>2, <3>2, <4>1 DEF Held, Alike
    <3> QED BY <3>1, <3>2
  <2> QED BY <2>3, <2>4, <2>5 DEF Held
<1> QED BY <1>5, <1>6, <1>7, <1>8, <1>9, <1>10 DEF FsInv

\* A synchronous call's system call and what it leaves of the variables.
LEMMA SyncCallSets ==
  ASSUME FsInv, NEW o \in Ops, NEW r, NEW a, NEW d, SyncCall(o, r, a, d)
  PROVE  Others(o) /\ ops'[o] = d /\ kernel' = a.kernel /\ reqs' = reqs
<1> DEFINE e == Disturb(r, kernel, a.kernel)
<1>1. e = [p \in Ops |-> e[p]] /\ \A p \in Ops : Alike(ops[p], e[p])
  BY DisturbAlike DEF FsInv
<1>2. ops' = [e EXCEPT ![o] = d] /\ kernel' = a.kernel /\ reqs' = reqs BY DEF SyncCall
<1> HIDE DEF e
<1> QED BY <1>1, <1>2 DEF Others

\* What the kernel holds when a synchronous call makes a system call.
LEMMA SyncHolds ==
  ASSUME FsInv, NEW o \in Ops, busy = o, NEW r, IsRequest(r), r.op = o, r.stage = "queued",
         \/ r.call = "open" /\ ops[o].step = "open"
         \/ /\ r.call \in {"read", "write", "close"} /\ r.fd = ops[o].fd
            /\ ops[o].step \in {"loop", "close"},
         NEW a \in Outcomes(kernel, r)
  PROVE  NoFailure => Moves(kernel, ops[o], r, a)
<1> SUFFICES ASSUME NoFailure PROVE Moves(kernel, ops[o], r, a) OBVIOUS
<1>1. Held BY DEF FsInv
<1>2. Holds(kernel.fds, ops[o], r) BY <1>1 DEF Held, Holds
<1>3. IsKernel(kernel) BY <1>1 DEF Held
<1> QED BY <1>2, <1>3, SystemCalls

\* openSync.
LEMMA SyncOpenKeeps ==
  ASSUME FsInv, NEW o \in Ops, SyncOpen(o)
  PROVE  FsInv'
<1> DEFINE c == ops[o]
           r == open(o, IF c.kind = "readFileSync" THEN "r" ELSE "w")
<1>1. busy = o /\ c.step = "open" BY DEF SyncOpen
<1>2. PICK a \in Outcomes(kernel, r) :
        /\ SyncCall(o, r, a, IF a.err THEN callback(c, TRUE, <<>>)
                             ELSE [c EXCEPT !.fd = a.n, !.step = "loop"])
        /\ busy' = IF a.err THEN Nobody ELSE o
  BY DEF SyncOpen
<1>3. IsRequest(r) /\ r.op = o /\ r.stage = "queued" BY RequestsFit
<1>4. r.call = "open" BY DEF open, Request
<1> HIDE DEF r
<1>5. a.err \in BOOLEAN BY <1>3, AnswerFits
<1>6. NoFailure => Moves(kernel, c, r, a) BY <1>1, <1>3, <1>4, SyncHolds
<1>7. ~c.failed /\ IsOp(c) BY <1>1 DEF FsInv, Separate, FsType
<1>8. CASE a.err
  <2>0. PICK e : e = TRUE OBVIOUS
  <2> DEFINE d == callback(c, e, <<>>)
  <2>1. IsOp(d) /\ d.kind = c.kind /\ d.failed = c.failed /\ d.ended = c.ended + 1
    BY <1>7, CallbackSets
  <2> HIDE DEF d
  <2>2. Others(o) /\ ops'[o] = d /\ kernel' = a.kernel /\ reqs' = reqs /\ busy' = Nobody
    BY <1>2, <1>8, <2>0, SyncCallSets DEF d
  <2>3. NoFailure => SyncMoves(o, d)
    BY <1>3, <1>4, <1>6, <1>8, <2>2, NobodyElse DEF Moves, SyncMoves
  <2> QED BY <1>1, <2>1, <2>2, <2>3, SyncKeeps
<1>9. CASE ~a.err
  <2> DEFINE d == [c EXCEPT !.fd = a.n, !.step = "loop"]
  <2>1. /\ IsOp(d) /\ d.kind = c.kind /\ d.failed = c.failed /\ d.ended = c.ended
        /\ d.fd = a.n /\ d.step = "loop"
    BY <1>7 DEF IsOp, OpFields
  <2> HIDE DEF d
  <2>2. Others(o) /\ ops'[o] = d /\ kernel' = a.kernel /\ reqs' = reqs /\ busy' = o
    BY <1>2, <1>9, SyncCallSets DEF d
  <2>3. NoFailure => SyncMoves(o, d)
    BY <1>3, <1>4, <1>6, <1>9, <2>1, <2>2 DEF Moves, SyncMoves
  <2> QED BY <1>1, <1>7, <2>1, <2>2, <2>3, SyncKeeps
<1> QED BY <1>5, <1>8, <1>9

\* The loop of readFileSync.
LEMMA SyncReadKeeps ==
  ASSUME FsInv, NEW o \in Ops, SyncRead(o)
  PROVE  FsInv'
<1> DEFINE c == ops[o]
           r == read(o, c.fd)
<1>1. busy = o /\ c.step = "loop" BY DEF SyncRead
<1>2. PICK a \in Outcomes(kernel, r) : \E b :
        SyncCall(o, r, a, IF a.err \/ a.n = 0 THEN [c EXCEPT !.step = "close", !.failed = a.err]
                          ELSE [c EXCEPT !.buffers = b])
  BY DEF SyncRead
<1>3. busy' = o BY <1>1 DEF SyncRead
<1>4. IsRequest(r) /\ r.op = o /\ r.stage = "queued" BY RequestsFit
<1>5. r.call = "read" /\ r.fd = c.fd BY DEF read, Request
<1> HIDE DEF r
<1>6. a.err \in BOOLEAN BY <1>4, AnswerFits
<1>7. NoFailure => Moves(kernel, c, r, a) BY <1>1, <1>4, <1>5, SyncHolds
<1>8. ~c.failed /\ IsOp(c) BY <1>1 DEF FsInv, Separate, FsType
<1>9. ASSUME NEW d, IsOp(d), d.kind = c.kind, d.ended = c.ended, d.fd = c.fd,
             d.step \in {"loop", "close"}, d.step = "loop" => ~d.failed, SyncCall(o, r, a, d)
      PROVE  FsInv'
  <2>1. Others(o) /\ ops'[o] = d /\ kernel' = a.kernel /\ reqs' = reqs BY <1>9, SyncCallSets
  <2>2. NoFailure => SyncMoves(o, d)
    BY <1>3, <1>4, <1>5, <1>7, <1>9, <2>1 DEF Moves, SyncMoves
  <2> QED BY <1>1, <1>3, <1>8, <1>9, <2>1, <2>2, SyncKeeps
<1>10. CASE a.err \/ a.n = 0
  <2> DEFINE d == [c EXCEPT !.step = "close", !.failed = a.err]
  <2>1. IsOp(d) /\ d.kind = c.kind /\ d.ended = c.ended /\ d.fd = c.fd /\ d.step = "close"
    BY <1>6, <1>8 DEF IsOp, OpFields
  <2>2. SyncCall(o, r, a, d) BY <1>2, <1>10
  <2> HIDE DEF d
  <2> QED BY <1>9, <2>1, <2>2
<1>11. CASE ~(a.err \/ a.n = 0)
  <2>1. PICK b : SyncCall(o, r, a, [c EXCEPT !.buffers = b]) BY <1>2, <1>11
  <2> DEFINE d == [c EXCEPT !.buffers = b]
  <2>2. /\ IsOp(d) /\ d.kind = c.kind /\ d.ended = c.ended /\ d.fd = c.fd /\ d.step = c.step
        /\ d.failed = c.failed
    BY <1>8 DEF IsOp, OpFields
  <2>3. SyncCall(o, r, a, d) BY <2>1
  <2> HIDE DEF d
  <2> QED BY <1>1, <1>8, <1>9, <2>2, <2>3
<1> QED BY <1>10, <1>11

\* The loop of writeFileSync.
LEMMA SyncWriteKeeps ==
  ASSUME FsInv, NEW o \in Ops, SyncWrite(o)
  PROVE  FsInv'
<1> DEFINE c == ops[o]
           r == write(o, c)
<1>1. busy = o /\ c.step = "loop" /\ busy' = o BY DEF SyncWrite
<1>2. ~c.failed /\ IsOp(c) BY <1>1 DEF FsInv, Separate, FsType
<1>3. CASE /\ ops' = [ops EXCEPT ![o].step = "close"]
           /\ UNCHANGED <<kernel, reqs>>
  <2> DEFINE d == [c EXCEPT !.step = "close"]
  <2>1. /\ IsOp(d) /\ d.kind = c.kind /\ d.ended = c.ended /\ d.fd = c.fd /\ d.step = "close"
        /\ d.failed = c.failed
    BY <1>2 DEF IsOp, OpFields
  <2>2. ops' = [ops EXCEPT ![o] = d] BY <1>3 DEF FsInv, FsType
  <2> HIDE DEF d
  <2>3. /\ ops' = [p \in Ops |-> ops'[p]] /\ ops'[o] = d
        /\ \A p \in Ops : p # o => ops'[p] = ops[p]
    BY <2>2 DEF FsInv, FsType
  <2>4. Others(o) BY <2>3 DEF Others, Alike, FsInv, FsType
  <2>5. NoFailure => SyncMoves(o, d)
    <3> SUFFICES ASSUME NoFailure PROVE SyncMoves(o, d) OBVIOUS
    <3>1. Held BY DEF FsInv
    <3>2. IsKernel(kernel) /\ Owns(kernel.fds, o, c.fd) BY <1>1, <3>1 DEF Held
    <3>3. SameBut(o, kernel.fds, kernel.fds) BY DEF SameBut
    <3> QED BY <1>1, <1>3, <2>1, <3>2, <3>3 DEF SyncMoves
  <2> QED BY <1>1, <1>3, <2>1, <2>3, <2>4, <2>5, SyncKeeps
<1>4. CASE \E a \in Outcomes(kernel, r) :
             SyncCall(o, r, a,
                      [c EXCEPT !.written = @ + a.n, !.failed = a.err,
                         !.step = IF a.err \/ c.written + a.n = Len(c.data)
                                  THEN "close" ELSE "loop"])
  <2>0. PICK a \in Outcomes(kernel, r) :
          SyncCall(o, r, a,
                   [c EXCEPT !.written = @ + a.n, !.failed = a.err,
                      !.step = IF a.err \/ c.written + a.n = Len(c.data)
                               THEN "close" ELSE "loop"])
    BY <1>4
  <2> DEFINE w == c.written + a.n
             s == IF a.err \/ c.written + a.n = Len(c.data) THEN "close" ELSE "loop"
  <2>1. /\ SyncCall(o, r, a, [c EXCEPT !.written = w, !.failed = a.err, !.step = s])
        /\ a.err => s = "close"
        /\ s \in {"close", "loop"}
    BY <2>0
  <2> HIDE DEF w, s
  <2>2. IsRequest(r) /\ r.op = o /\ r.stage = "queued" BY RequestsFit
  <2>3. r.call = "write" /\ r.fd = c.fd BY DEF write, Request
  <2> HIDE DEF r
  <2>4. a.err \in BOOLEAN BY <2>2, AnswerFits
  <2>5. NoFailure => Moves(kernel, c, r, a) BY <1>1, <2>2, <2>3, SyncHolds
  <2> DEFINE d == [c EXCEPT !.written = w, !.failed = a.err, !.step = s]
  <2>6. /\ IsOp(d) /\ d.kind = c.kind /\ d.ended = c.ended /\ d.fd = c.fd /\ d.step = s
        /\ d.failed = a.err
    BY <1>2, <2>4 DEF IsOp, OpFields
  <2> HIDE DEF d
  <2>7. Others(o) /\ ops'[o] = d /\ kernel' = a.kernel /\ reqs' = reqs
    BY <2>1, SyncCallSets DEF d
  <2>8. NoFailure => SyncMoves(o, d)
    BY <1>1, <2>1, <2>2, <2>3, <2>5, <2>6, <2>7 DEF Moves, SyncMoves
  <2> QED BY <1>1, <1>2, <2>1, <2>6, <2>7, <2>8, SyncKeeps
<1> QED BY <1>3, <1>4 DEF SyncWrite

\* closeSync.
LEMMA SyncCloseKeeps ==
  ASSUME FsInv, NEW o \in Ops, SyncClose(o)
  PROVE  FsInv'
<1> DEFINE c == ops[o]
           r == close(o, c.fd, "closed")
<1>1. busy = o /\ c.step = "close" /\ busy' = Nobody BY DEF SyncClose
<1>2. PICK a \in Outcomes(kernel, r) : SyncCall(o, r, a, callback(c, a.err, concat(c.buffers)))
  BY DEF SyncClose
<1>3. IsRequest(r) /\ r.op = o /\ r.stage = "queued" BY RequestsFit
<1>4. r.call = "close" /\ r.fd = c.fd BY DEF close, Request
<1> HIDE DEF r
<1>5. NoFailure => Moves(kernel, c, r, a) BY <1>1, <1>3, <1>4, SyncHolds
<1>6. IsOp(c) BY DEF FsInv, FsType
<1> DEFINE d == callback(c, a.err, concat(c.buffers))
<1>7. IsOp(d) /\ d.kind = c.kind /\ d.failed = c.failed /\ d.ended = c.ended + 1
  BY <1>6, CallbackSets
<1> HIDE DEF d
<1>8. Others(o) /\ ops'[o] = d /\ kernel' = a.kernel /\ reqs' = reqs
  BY <1>2, SyncCallSets DEF d
<1>9. NoFailure => SyncMoves(o, d)
  BY <1>1, <1>3, <1>4, <1>5, <1>8, NobodyElse DEF Moves, SyncMoves
<1> QED BY <1>1, <1>7, <1>8, <1>9, SyncKeeps

\* The calls of the application, and every other step.
LEMMA FsStep == FsInv /\ [Next]_fsvars => FsInv'
<1> SUFFICES ASSUME FsInv, [Next]_fsvars PROVE FsInv' OBVIOUS
<1>1. CASE UNCHANGED fsvars
  BY <1>1 DEF fsvars, FsInv, IsList, FsType, Separate, OneByOne, NeverForgotten, NoFailure, Held
<1>2. ASSUME NEW i \in 1..Len(reqs), Work(i) \/ AfterAsync(i) PROVE FsInv'
  BY <1>2, WorkKeeps, AfterAsyncKeeps
<1>3. ASSUME NEW o \in Ops, SyncStep(o) PROVE FsInv'
  BY <1>3, SyncOpenKeeps, SyncReadKeeps, SyncWriteKeeps, SyncCloseKeeps DEF SyncStep
<1>4. ASSUME NEW o \in Ops, NEW path, readFile(o, path) PROVE FsInv'
  <2> DEFINE q == open(o, "r")
             r == [q EXCEPT !.path = path]
  <2>1. IsRequest(q) /\ q.op = o /\ q.stage = "queued" BY RequestsFit
  <2>2. q.call = "open" BY DEF open, Request
  <2>3. IsRequest(r) /\ r.op = o /\ r.stage = "queued" /\ r.call = "open"
    BY <2>1, <2>2 DEF IsRequest, RequestFields
  <2>4. /\ Begin(o, "readFile", path, <<>>) /\ FS_ASYNC(r) /\ UNCHANGED <<kernel, busy>>
        /\ "readFile" # None
    BY <1>4 DEF readFile, None
  <2> HIDE DEF r
  <2> QED BY <2>3, <2>4, AsyncStarts
<1>5. ASSUME NEW o \in Ops, NEW path, NEW len, writeFile(o, path, len) PROVE FsInv'
  <2> DEFINE q == open(o, "w")
             r == [q EXCEPT !.path = path]
  <2>1. IsRequest(q) /\ q.op = o /\ q.stage = "queued" BY RequestsFit
  <2>2. q.call = "open" BY DEF open, Request
  <2>3. IsRequest(r) /\ r.op = o /\ r.stage = "queued" /\ r.call = "open"
    BY <2>1, <2>2 DEF IsRequest, RequestFields
  <2>4. /\ Begin(o, "writeFile", path, DataOf(o, len)) /\ FS_ASYNC(r)
        /\ UNCHANGED <<kernel, busy>> /\ "writeFile" # None
    BY <1>5 DEF writeFile, None
  <2> HIDE DEF r
  <2> QED BY <2>3, <2>4, AsyncStarts
<1>6. ASSUME NEW o \in Ops, NEW path, plainCall(o, path) PROVE FsInv'
  <2> DEFINE r == Request(o, "stat", "plain")
  <2>1. IsRequest(r) /\ r.op = o /\ r.stage = "queued" BY RequestsFit
  <2>2. r.call = "stat" BY DEF Request
  <2>3. /\ Begin(o, "stat", path, <<>>) /\ FS_ASYNC(r) /\ UNCHANGED <<kernel, busy>>
        /\ "stat" # None
    BY <1>6 DEF plainCall, None
  <2> HIDE DEF r
  <2> QED BY <2>1, <2>2, <2>3, AsyncStarts
<1>7. ASSUME NEW o \in Ops, NEW path, NEW kind, kind # None, plainSync(o, path, kind) PROVE FsInv'
  <2>1. ops[o].kind = None /\ busy = Nobody BY <1>7 DEF plainSync, MayCall, Idle
  <2>2. IsOp(ops[o]) /\ ops[o].ended = 0 /\ ops[o].failed = FALSE BY <2>1, Fresh
  <2> DEFINE c == [ops[o] EXCEPT !.kind = kind, !.path = path]
  <2>3. IsOp(c) /\ c.kind = kind /\ c.ended = 0 /\ c.failed = FALSE
    BY <2>2 DEF IsOp, OpFields
  <2>4. PICK err : ops' = [ops EXCEPT ![o] = callback(c, err, <<>>)] BY <1>7 DEF plainSync
  <2> DEFINE d == callback(c, err, <<>>)
  <2> HIDE DEF c
  <2>5. IsOp(d) /\ d.kind = c.kind /\ d.failed = c.failed /\ d.ended = c.ended + 1
    BY <2>3, CallbackSets
  <2> HIDE DEF d
  <2>6. /\ ops' = [p \in Ops |-> ops'[p]] /\ \A p \in Ops : p # o => ops'[p] = ops[p]
        /\ ops'[o] = d
    BY <2>4 DEF FsInv, FsType, d
  <2>7. d.ended = 1 /\ d.failed = FALSE /\ d.kind # None BY <1>7, <2>3, <2>5
  <2>8. UNCHANGED <<kernel, reqs>> /\ busy' = busy BY <1>7 DEF plainSync
  <2> QED BY <2>1, <2>5, <2>6, <2>7, <2>8, SyncStarts
<1>8. ASSUME NEW o \in Ops, NEW kind, kind # None, NEW path, NEW len, Sync(o, kind, path, len)
      PROVE FsInv'
  <2>1. Begin(o, kind, path, DataOf(o, len)) /\ busy' = o /\ UNCHANGED <<kernel, reqs>>
    BY <1>8 DEF Sync
  <2>2. /\ ops' = [p \in Ops |-> ops'[p]] /\ \A p \in Ops : p # o => ops'[p] = ops[p]
        /\ IsOp(ops'[o]) /\ ops'[o].kind = kind /\ ops'[o].step = "open" /\ ops'[o].ended = 0
        /\ ops'[o].failed = FALSE /\ ops'[o].threw = FALSE
        /\ ops[o].kind = None /\ busy = Nobody
    BY <2>1, BeginSets
  <2> QED BY <1>8, <2>1, <2>2, SyncStarts
<1>9. /\ "statSync" # None /\ "readdir" # None /\ "writeFileSync" # None
      /\ "readFileSync" # None
  BY DEF None
<1> QED BY <1>1, <1>2, <1>3, <1>4, <1>5, <1>6, <1>7, <1>8, <1>9 DEF Next, readdir

\* Nothing has begun.
LEMMA FsBegins == Init => FsInv
<1> SUFFICES ASSUME Init PROVE FsInv OBVIOUS
<1>1. /\ kernel.fds = [f \in Fds |-> Closed] /\ reqs = <<>> /\ busy = Nobody
      /\ kernel = [x \in {"fds", "disk"} |-> kernel[x]]
      /\ ops = [o \in Ops |-> Blank]
  BY DEF Init
<1>2. IsOp(Blank) /\ Blank.kind = None /\ Blank.ended = 0 /\ Blank.failed = FALSE
      /\ Blank.threw = FALSE
  BY DEF Blank, IsOp, OpFields
<1>3. \A o \in Ops : ops[o] = Blank BY <1>1
<1>4. reqs \in Seq({}) /\ Len(reqs) = 0 BY <1>1
<1>5. IsList BY <1>4 DEF IsList
<1>6. FsType BY <1>1, <1>2, <1>3, <1>4 DEF FsType
<1>7. Separate /\ OneByOne /\ NeverForgotten
  BY <1>1, <1>2, <1>3, <1>4, NobodyElse DEF Separate, OneByOne, NeverForgotten
<1>8. IsKernel(kernel) BY <1>1, NobodyElse DEF IsKernel, IsTable
<1>9. \A o \in Ops : Bare(kernel.fds, o) BY <1>1, NobodyElse DEF Bare
<1>10. Held BY <1>1, <1>4, <1>8, <1>9, NobodyElse DEF Held
<1> QED BY <1>5, <1>6, <1>7, <1>10 DEF FsInv

\* FsInv is an invariant of fs, for any number of calls and whatever fails.
THEOREM FsInvariant == Spec => []FsInv
<1> QED BY FsBegins, FsStep, PTL DEF Spec

\* A call is never forgotten, whatever fails.
THEOREM NeverForgottenHolds == Spec => []NeverForgotten
<1>1. FsInv => NeverForgotten BY DEF FsInv
<1> QED BY <1>1, FsInvariant, PTL

\* As long as no read and no write has failed, every call uses its own descriptor
\* and gives it back; and a call of which none failed calls back once.
THEOREM DescriptorsOwnedHolds == Spec => []DescriptorsOwned
<1>1. ASSUME FsInv PROVE DescriptorsOwned
  <2>1. ASSUME NoFailure PROVE UsesOwnDescriptor
    <3>1. Held BY <1>1, <2>1 DEF FsInv
    <3>2. \A i \in 1..Len(reqs) :
            (reqs[i].stage = "queued" /\ reqs[i].call \in {"read", "write", "close"}) =>
              kernel.fds[reqs[i].fd].op = reqs[i].op
      BY <3>1 DEF Held, Holds, Owns
    <3> QED BY <3>1, <3>2 DEF Held, Owns, UsesOwnDescriptor
  <2>2. ASSUME NoFailure, NEW o \in Ops, ops[o].ended > 0 PROVE LeavesNothing(o)
    <3>1. Bare(kernel.fds, o) BY <1>1, <2>2 DEF FsInv, Held
    <3>2. \A i \in 1..Len(reqs) : reqs[i].op # o
      BY <1>1, <2>2 DEF FsInv, OneByOne, NoFailure
    <3> QED BY <3>1, <3>2 DEF LeavesNothing, Bare
  <2>3. \A o \in Ops : ~ops[o].failed => ops[o].ended <= 1 BY <1>1 DEF FsInv, OneByOne
  <2> QED BY <2>1, <2>2, <2>3 DEF DescriptorsOwned
<1> QED BY <1>1, FsInvariant, PTL

-----------------------------------------------------------------------------
(* What the loops of fs do with the bytes that they have.                   *)

\* The bytes before a position, and those that follow it.
LEMMA Glued ==
  ASSUME NEW s \in Seq(Nat), NEW p \in Nat, NEW n \in Nat, p + n <= Len(s)
  PROVE  SubSeq(s, 1, p) \o SubSeq(s, p + 1, p + n) = SubSeq(s, 1, p + n)
<1> DEFINE a == SubSeq(s, 1, p)
           b == SubSeq(s, p + 1, p + n)
           c == SubSeq(s, 1, p + n)
<1>1. a \in Seq(Nat) /\ Len(a) = p /\ \A j \in 1..p : a[j] = s[j] OBVIOUS
<1>2. b \in Seq(Nat) /\ Len(b) = n /\ \A j \in 1..n : b[j] = s[p + j]
  <2>1. PICK last : last = p + n OBVIOUS
  <2>2. last \in Nat /\ p <= last /\ last <= Len(s) /\ last - p = n BY <2>1
  <2>3. PICK t : t = SubSeq(s, p + 1, last) OBVIOUS
  <2>4. Part(t, s, p, last) BY <2>2, <2>3, PartIs
  <2>5. t \in Seq(Nat) /\ Len(t) = n /\ \A j \in 1..n : t[j] = s[p + j]
    BY <2>2, <2>4 DEF Part
  <2> QED BY <2>1, <2>3, <2>5
<1>3. c \in Seq(Nat) /\ Len(c) = p + n /\ \A j \in 1..(p + n) : c[j] = s[j] OBVIOUS
<1> HIDE DEF a, b, c
<1>4. /\ a \o b \in Seq(Nat) /\ Len(a \o b) = p + n
      /\ \A j \in 1..(p + n) : (a \o b)[j] = IF j <= p THEN a[j] ELSE b[j - p]
  BY <1>1, <1>2, ConcatProperties
<1>5. ASSUME NEW j \in 1..(p + n) PROVE (a \o b)[j] = c[j]
  <2>1. CASE j <= p
    <3>1. j \in 1..p BY <2>1
    <3>2. (a \o b)[j] = a[j] BY <1>4, <2>1
    <3> QED BY <1>1, <1>3, <3>1, <3>2
  <2>2. CASE ~(j <= p)
    <3>1. j - p \in 1..n /\ p + (j - p) = j BY <2>2
    <3> QED BY <1>2, <1>3, <1>4, <2>2, <3>1
  <2> QED BY <2>1, <2>2
<1>6. a \o b = c BY <1>3, <1>4, <1>5, SeqEqual
<1> QED BY <1>6 DEF a, b, c

\* A file that holds the first p bytes of s, after the next n of them are written.
LEMMA Extended ==
  ASSUME NEW s \in Seq(Nat), NEW p \in Nat, NEW t \in Nat, NEW n \in Nat, n <= t,
         p + t <= Len(s)
  PROVE  Overwrite(SubSeq(s, 1, p), p, SubSeq(SubSeq(s, p + 1, p + t), 1, n))
           = SubSeq(s, 1, p + n)
<1> DEFINE a == SubSeq(s, 1, p)
           b == SubSeq(SubSeq(s, p + 1, p + t), 1, n)
           c == SubSeq(s, 1, p + n)
<1>1. Len(a) = p /\ \A j \in 1..p : a[j] = s[j] OBVIOUS
<1>2. Len(b) = n /\ \A j \in 1..n : b[j] = s[p + j] OBVIOUS
<1>3. c = [j \in 1..(p + n) |-> s[j]] OBVIOUS
<1> HIDE DEF a, b, c
<1>4. (IF p + Len(b) > Len(a) THEN p + Len(b) ELSE Len(a)) = p + n BY <1>1, <1>2
<1>5. ASSUME NEW j \in 1..(p + n)
      PROVE  (CASE j > p /\ j <= p + Len(b) -> b[j - p]
                [] j <= p /\ j > Len(a) -> NUL
                [] OTHER -> a[j]) = s[j]
  <2>1. CASE j <= p BY <1>1, <1>2, <2>1
  <2>2. CASE ~(j <= p)
    <3>1. j - p \in 1..n /\ p + (j - p) = j BY <2>2
    <3>2. b[j - p] = s[j] BY <1>2, <3>1
    <3>3. j > p /\ j <= p + Len(b) BY <1>2, <2>2
    <3> QED BY <3>2, <3>3
  <2> QED BY <2>1, <2>2
<1>6. Overwrite(a, p, b) = c BY <1>3, <1>4, <1>5 DEF Overwrite
<1> QED BY <1>6 DEF a, b, c

\* A write leaves a file.
LEMMA Overwritten ==
  ASSUME NEW file \in Seq(Nat), NEW pos \in Nat, NEW bytes \in Seq(Nat)
  PROVE  Overwrite(file, pos, bytes) \in Seq(Nat)
<1> DEFINE end == pos + Len(bytes)
           m == IF end > Len(file) THEN end ELSE Len(file)
<1>1. m \in Nat OBVIOUS
<1>2. ASSUME NEW i \in 1..m
      PROVE  (CASE i > pos /\ i <= end -> bytes[i - pos]
                [] i <= pos /\ i > Len(file) -> NUL
                [] OTHER -> file[i]) \in Nat
  <2>1. CASE i > pos /\ i <= end
    <3>1. i - pos \in 1..Len(bytes) BY <2>1
    <3>2. bytes[i - pos] \in Nat BY <3>1
    <3> QED BY <2>1, <3>2
  <2>2. CASE ~(i > pos /\ i <= end) /\ i <= pos /\ i > Len(file)
    BY <2>2 DEF NUL
  <2>3. CASE ~(i > pos /\ i <= end) /\ ~(i <= pos /\ i > Len(file))
    <3>1. i \in 1..Len(file) BY <2>3
    <3>2. file[i] \in Nat BY <3>1
    <3> QED BY <2>3, <3>2
  <2> QED BY <2>1, <2>2, <2>3
<1>3. Overwrite(file, pos, bytes)
        = [i \in 1..m |-> CASE i > pos /\ i <= end -> bytes[i - pos]
                            [] i <= pos /\ i > Len(file) -> NUL
                            [] OTHER -> file[i]]
  BY DEF Overwrite
<1>4. Overwrite(file, pos, bytes) \in [1..m -> Nat] BY <1>2, <1>3
<1> HIDE DEF m
<1> QED BY <1>1, <1>4, SeqDef

-----------------------------------------------------------------------------
(* What has been transferred.                                              *)

IsReader(c) == c.kind \in {"readFile", "readFileSync"}
IsWriter(c) == c.kind \in {"writeFile", "writeFileSync"}

\* The files.
Files(k) == k.disk \in [Paths -> Seq(Nat)]

\* A call that has not opened its file yet.
Before(c) ==
  /\ IsReader(c) => c.buffers = <<>>
  /\ IsWriter(c) => c.written = 0 /\ c.data \in Seq(Nat)

\* A call with the descriptor f of its file: it has read the bytes before the
\* position of f, or the file holds those that were written.
During(f, file, c, buffers, written) ==
  /\ f.path = c.path
  /\ IsReader(c) =>
       /\ f.mode = "r" /\ f.pos \in Nat
       /\ ~c.disturbed => f.pos <= Len(file) /\ Joined(buffers, SubSeq(file, 1, f.pos))
  /\ IsWriter(c) =>
       /\ f.mode = "w" /\ c.data \in Seq(Nat) /\ written \in 0..Len(c.data)
       /\ ~c.disturbed => file = SubSeq(c.data, 1, written)

\* A call that has read or written everything.
After(file, c) ==
  ~c.disturbed => /\ IsReader(c) => Joined(c.buffers, file)
                  /\ IsWriter(c) => file = c.data

\* A system call that a call is about to make.
Waiting(k, c, r) ==
  /\ r.call = "open" => /\ IsReader(c) \/ IsWriter(c)
                        /\ r.path = c.path /\ r.mode = (IF IsReader(c) THEN "r" ELSE "w")
                        /\ Before(c)
  /\ r.call = "read" => /\ IsReader(c) /\ r.n = Segment
                        /\ During(k.fds[r.fd], k.disk[c.path], c, c.buffers, c.written)
  /\ r.call = "write" =>
       /\ IsWriter(c) /\ During(k.fds[r.fd], k.disk[c.path], c, c.buffers, c.written)
       /\ r.pos = c.written /\ c.written < Len(c.data)
       /\ r.bytes = SubSeq(c.data, c.written + 1, c.written + tryN(Len(c.data), c.written))
  /\ r.call = "close" => After(k.disk[c.path], c)

\* A system call that was answered by a, without an error.
Answered(k, c, r, a) ==
  /\ r.call = "open" => During(k.fds[a.n], k.disk[c.path], c, c.buffers, c.written)
  /\ r.call = "read" =>
       /\ a.bytes \in Seq(Nat) /\ Len(a.bytes) = a.n /\ a.n \in 0..Segment
       /\ IF a.n = 0 THEN After(k.disk[c.path], c)
          ELSE During(k.fds[r.fd], k.disk[c.path], c, Append(c.buffers, a.bytes), c.written)
  /\ r.call = "write" =>
       /\ a.n \in Nat \ {0} /\ c.written \in Nat
       /\ During(k.fds[r.fd], k.disk[c.path], c, c.buffers, c.written + a.n)
  /\ r.call = "close" => After(k.disk[c.path], c)

\* The request r of the call c.
Carries(k, c, r) ==
  /\ c.path \in Paths
  /\ IF r.call = "stat" THEN c.kind = "stat" ELSE c.kind \in {"readFile", "writeFile"}
  /\ r.call = "read" => c.kind = "readFile"
  /\ r.call = "write" => c.kind = "writeFile"
  /\ r.cb = "readEnd" => c.kind = "readFile"
  /\ r.cb = "closed" => c.kind = "writeFile"
  /\ IF r.stage = "queued" THEN Waiting(k, c, r) ELSE ~r.answer.err => Answered(k, c, r, r.answer)

\* A call c that runs synchronously.
Runs(k, c) ==
  /\ c.path \in Paths /\ c.kind \in {"readFileSync", "writeFileSync"}
  /\ c.step \in {"open", "loop", "close"}
  /\ c.step = "open" => Before(c)
  /\ c.step = "loop" => During(k.fds[c.fd], k.disk[c.path], c, c.buffers, c.written)
  /\ c.step = "close" => After(k.disk[c.path], c)

\* A call that has ended.
Ended(c) ==
  c.ended > 0 /\ ~c.err /\ ~c.disturbed =>
    (IsReader(c) => c.got = c.disk) /\ (IsWriter(c) => c.disk = c.data)

\* What has been transferred, as long as no read and no write has failed.
Transfers ==
  /\ Files(kernel)
  /\ \A i \in 1..Len(reqs) : Carries(kernel, ops[reqs[i].op], reqs[i])
  /\ \A o \in Ops : /\ busy = o => Runs(kernel, ops[o])
                    /\ ops[o].kind = None => ops[o].buffers = <<>> /\ ops[o].written = 0
                    /\ Ended(ops[o])

FsWhole == NoFailure => Transfers

-----------------------------------------------------------------------------

\* The descriptors of the calls other than o are as before.
Untouched(o, t, u) == \A f \in Fds : t[f].op \in Ops \ {o} => u[f] = t[f]

\* Nobody reads and writes at the same time.
LEMMA OneWay == \A c : ~(IsReader(c) /\ IsWriter(c))
BY DEF IsReader, IsWriter

\* What a system call of the call c moves.
Transferred(k, c, r, a) ==
  /\ Files(a.kernel) /\ Untouched(r.op, k.fds, a.kernel.fds)
  /\ ~a.err => Answered(a.kernel, c, r, a)

\* It moves nothing when it fails.
LEMMA FailureMoves ==
  ASSUME NEW k, Files(k), NEW c, NEW r
  PROVE  Transferred(k, c, r, Failure(k))
<1>1. Failure(k).kernel = k /\ Failure(k).err = TRUE BY DEF Failure, Answer
<1> QED BY <1>1 DEF Transferred, Untouched

\* open: the file is opened at its start, or emptied.
LEMMA OpenTransfers ==
  ASSUME NEW k, IsKernel(k), Files(k), NEW c, c.path \in Paths, NEW r, IsRequest(r),
         r.call = "open", Waiting(k, c, r), NEW a \in Outcomes(k, r)
  PROVE  Transferred(k, c, r, a)
<1> DEFINE fd == CHOOSE f \in Fds : /\ k.fds[f] = Closed
                                    /\ \A g \in 1..(f - 1) : k.fds[g] # Closed
           e == [op |-> r.op, path |-> r.path, pos |-> 0, mode |-> r.mode]
           new == IF r.mode = "w" THEN <<>> ELSE k.disk[r.path]
           after == [k EXCEPT !.fds[fd] = e,
                              !.disk[r.path] = IF r.mode = "w" THEN <<>> ELSE @]
           u == [k.fds EXCEPT ![fd] = e]
           files == [k.disk EXCEPT ![r.path] = new]
<1>1. fd \in Fds /\ k.fds[fd] = Closed BY LowestFree DEF IsKernel
<1>2. a \in MayFail("open", k) \cup {Answer(after, FALSE, fd, <<>>)} BY DEF Outcomes, SysOpen
<1>3. after.fds = u /\ after.disk = files BY DEF IsKernel
<1>4. e.path = r.path /\ e.pos = 0 /\ e.mode = r.mode OBVIOUS
<1>5. r.path = c.path /\ r.path \in Paths BY DEF Waiting
<1> HIDE DEF fd, after, e
<1>6. k.disk[r.path] \in Seq(Nat) /\ <<>> \in Seq(Nat) BY <1>5 DEF Files
<1>7. files \in [Paths -> Seq(Nat)] /\ files[r.path] = new BY <1>5, <1>6 DEF Files
<1>8. u[fd] = e /\ \A f \in Fds : f # fd => u[f] = k.fds[f] BY <1>1 DEF IsKernel, IsTable
<1> HIDE DEF u, files
<1>9. Untouched(r.op, k.fds, u) BY <1>1, <1>8, NobodyElse DEF Untouched
<1>10. During(e, new, c, c.buffers, c.written)
  <2>1. CASE IsReader(c)
    <3>1. r.mode = "r" /\ c.buffers = <<>> BY <2>1 DEF Waiting, Before
    <3>2. new \in Seq(Nat) BY <1>6
    <3> HIDE DEF new
    <3>3. SubSeq(new, 1, 0) = <<>> /\ 0 <= Len(new) /\ 0 \in Nat BY <3>2
    <3> QED BY <1>4, <1>5, <2>1, <3>1, <3>3, JoinedNone, OneWay DEF During
  <2>2. CASE IsWriter(c)
    <3>1. r.mode = "w" /\ c.written = 0 /\ c.data \in Seq(Nat)
      BY <2>2, OneWay DEF Waiting, Before
    <3>2. SubSeq(c.data, 1, 0) = <<>> /\ 0 \in 0..Len(c.data) BY <3>1
    <3> QED BY <1>4, <1>5, <2>2, <3>1, <3>2, OneWay DEF During
  <2> QED BY <2>1, <2>2 DEF Waiting
<1> HIDE DEF new
<1>11. CASE a = Failure(k) BY <1>11, FailureMoves
<1>12. CASE a = Answer(after, FALSE, fd, <<>>)
  <2>1. a.kernel = after /\ a.err = FALSE /\ a.n = fd BY <1>12 DEF Answer
  <2>2. Files(a.kernel) BY <1>3, <1>7, <2>1 DEF Files
  <2>3. Answered(a.kernel, c, r, a) BY <1>3, <1>5, <1>7, <1>8, <1>10, <2>1 DEF Answered
  <2> QED BY <1>3, <1>9, <2>1, <2>2, <2>3 DEF Transferred
<1> QED BY <1>2, <1>11, <1>12 DEF MayFail

\* close: nothing is moved.
LEMMA CloseTransfers ==
  ASSUME NEW k, IsKernel(k), Files(k), NEW c, NEW r, IsRequest(r), r.call = "close",
         Owns(k.fds, r.op, r.fd), Waiting(k, c, r), NEW a \in Outcomes(k, r)
  PROVE  Transferred(k, c, r, a)
<1> DEFINE u == [k.fds EXCEPT ![r.fd] = Closed]
           closed == [k EXCEPT !.fds[r.fd] = Closed]
<1>1. k.fds[r.fd] # Closed /\ r.op \in Ops BY NobodyElse DEF Owns, IsRequest
<1>2. a.kernel = closed BY <1>1 DEF Outcomes, SysClose, MayFail, Failure, Answer
<1>3. closed.fds = u /\ closed.disk = k.disk BY DEF IsKernel
<1>4. \A f \in Fds : f # r.fd => u[f] = k.fds[f] BY DEF IsKernel, IsTable
<1> HIDE DEF u, closed
<1>5. Untouched(r.op, k.fds, u) BY <1>1, <1>4 DEF Untouched, Owns
<1>6. Answered(a.kernel, c, r, a) BY <1>2, <1>3 DEF Answered, Waiting
<1> QED BY <1>2, <1>3, <1>5, <1>6 DEF Transferred, Files

\* A read or a write of m bytes may be short, but not of nothing.
LEMMA Short ==
  ASSUME NEW m \in Nat, NEW n \in MayBeShort(m)
  PROVE  n \in Nat /\ n <= m /\ (n = 0 => m = 0)
BY DEF MayBeShort

\* read: the bytes that follow, unless there are none.
LEMMA ReadTransfers ==
  ASSUME NEW k, IsKernel(k), Files(k), NEW c, c.path \in Paths, NEW r, IsRequest(r),
         r.call = "read", Owns(k.fds, r.op, r.fd), Waiting(k, c, r), NEW a \in Outcomes(k, r)
  PROVE  Transferred(k, c, r, a)
<1>1. PICK f : f = k.fds[r.fd] OBVIOUS
<1>2. PICK file : file = k.disk[c.path] OBVIOUS
<1>3. IsReader(c) /\ r.n = Segment /\ During(f, file, c, c.buffers, c.written)
  BY <1>1, <1>2 DEF Waiting
<1>4. /\ f.path = c.path /\ f.mode = "r" /\ f.pos \in Nat
      /\ ~c.disturbed => f.pos <= Len(file) /\ Joined(c.buffers, SubSeq(file, 1, f.pos))
  BY <1>3 DEF During
<1>5. file \in Seq(Nat) /\ Segment \in Nat \ {0} BY <1>2, FsAssumption DEF Files
<1>6. f # Closed /\ r.op \in Ops /\ r.fd \in Fds BY <1>1, NobodyElse DEF Owns, IsRequest
<1> DEFINE left == Len(file) - f.pos
           m == IF left < 0 THEN 0 ELSE smaller(left, Segment)
<1>7. /\ m \in Nat /\ m <= Segment /\ (left >= 0 => m <= left) /\ (m = 0 => left <= 0)
      /\ left \in Int /\ (left < 0 => m = 0)
  BY <1>4, <1>5 DEF smaller
<1>8. CASE a = Failure(k) BY <1>8, FailureMoves
<1>9. CASE a # Failure(k)
  <2>1. a \in {Answer([k EXCEPT !.fds[r.fd].pos = @ + n], FALSE, n,
                      SubSeq(file, f.pos + 1, f.pos + n)) : n \in MayBeShort(m)}
    BY <1>1, <1>2, <1>3, <1>4, <1>6, <1>9 DEF Outcomes, SysRead, MayFail
  <2> HIDE DEF m
  <2>2. PICK n \in MayBeShort(m) :
          a = Answer([k EXCEPT !.fds[r.fd].pos = @ + n], FALSE, n,
                     SubSeq(file, f.pos + 1, f.pos + n))
    BY <2>1
  <2>3. n \in Nat /\ n <= m /\ (n = 0 => m = 0) BY <1>7, Short
  <2> DEFINE g == [f EXCEPT !.pos = f.pos + n]
             u == [k.fds EXCEPT ![r.fd] = g]
  <2>4. /\ a.kernel = [k EXCEPT !.fds[r.fd].pos = @ + n] /\ a.err = FALSE /\ a.n = n
        /\ a.bytes = SubSeq(file, f.pos + 1, f.pos + n)
    BY <2>2 DEF Answer
  <2>5. a.kernel.fds = u /\ a.kernel.disk = k.disk BY <1>1, <2>4 DEF IsKernel
  <2>6. g.path = f.path /\ g.mode = f.mode /\ g.pos = f.pos + n
    BY <1>1, <1>6 DEF IsKernel, IsTable
  <2> HIDE DEF g
  <2>7. u[r.fd] = g /\ \A h \in Fds : h # r.fd => u[h] = k.fds[h]
    BY <1>6 DEF IsKernel, IsTable
  <2> HIDE DEF u
  <2>8. Untouched(r.op, k.fds, u) BY <2>7 DEF Untouched, Owns
  <2>9. a.bytes \in Seq(Nat) /\ Len(a.bytes) = n
    <3>1. CASE n = 0 BY <1>4, <1>5, <2>4, <3>1
    <3>2. CASE n # 0
      <4>1. f.pos + n <= Len(file) BY <1>4, <1>5, <1>7, <2>3, <3>2
      <4>2. PICK p \in Nat : p = f.pos BY <1>4
      <4>3. p + n <= Len(file) /\ a.bytes = SubSeq(file, p + 1, p + n) BY <2>4, <4>1, <4>2
      <4>4. SubSeq(file, p + 1, p + n) \in Seq(Nat) /\ Len(SubSeq(file, p + 1, p + n)) = n
        BY <1>5, <2>3, <4>3
      <4> QED BY <4>3, <4>4
    <3> QED BY <3>1, <3>2
  <2>10. ASSUME n = 0 PROVE After(file, c)
    <3>1. ASSUME ~c.disturbed PROVE Joined(c.buffers, file)
      <4>1. f.pos = Len(file) BY <1>4, <1>5, <1>7, <2>3, <2>10, <3>1
      <4>2. SubSeq(file, 1, Len(file)) = file BY <1>5
      <4> QED BY <1>4, <3>1, <4>1, <4>2
    <3> QED BY <1>3, <3>1, OneWay DEF After
  <2>11. ASSUME n # 0 PROVE During(g, file, c, Append(c.buffers, a.bytes), c.written)
    <3>1. ASSUME ~c.disturbed
          PROVE  /\ f.pos + n <= Len(file)
                 /\ Joined(Append(c.buffers, a.bytes), SubSeq(file, 1, f.pos + n))
      <4>1. f.pos + n <= Len(file) BY <1>4, <1>5, <1>7, <2>3, <3>1
      <4>2. Joined(c.buffers, SubSeq(file, 1, f.pos)) BY <1>4, <3>1
      <4>3. Joined(Append(c.buffers, a.bytes), SubSeq(file, 1, f.pos) \o a.bytes)
        BY <2>9, <4>2, JoinedMore
      <4>4. SubSeq(file, 1, f.pos) \o a.bytes = SubSeq(file, 1, f.pos + n)
        <5>1. PICK p \in Nat : p = f.pos BY <1>4
        <5>2. p + n <= Len(file) BY <4>1, <5>1
        <5>3. SubSeq(file, 1, p) \o SubSeq(file, p + 1, p + n) = SubSeq(file, 1, p + n)
          BY <1>5, <2>3, <5>2, Glued
        <5> QED BY <2>4, <5>1, <5>3
      <4> QED BY <4>1, <4>3, <4>4
    <3>2. f.pos + n \in Nat BY <1>4, <2>3
    <3> QED BY <1>3, <1>4, <2>6, <3>1, <3>2, OneWay DEF During
  <2>12. n \in 0..Segment BY <1>5, <1>7, <2>3
  <2>13. Answered(a.kernel, c, r, a)
    BY <1>2, <2>4, <2>5, <2>7, <2>9, <2>10, <2>11, <2>12 DEF Answered
  <2> QED BY <2>5, <2>8, <2>13 DEF Transferred, Files
<1> QED BY <1>8, <1>9

\* What write() writes at once is some of the data that is left.
LEMMA TryFits ==
  ASSUME NEW len \in Nat, NEW w \in Nat, w < len
  PROVE  tryN(len, w) \in Nat \ {0} /\ w + tryN(len, w) <= len
BY FsAssumption DEF tryN

\* write: the file grows by what is written.
LEMMA WriteTransfers ==
  ASSUME NEW k, IsKernel(k), Files(k), NEW c, c.path \in Paths, NEW r, IsRequest(r),
         r.call = "write", Owns(k.fds, r.op, r.fd), Waiting(k, c, r), NEW a \in Outcomes(k, r)
  PROVE  Transferred(k, c, r, a)
<1>1. PICK f : f = k.fds[r.fd] OBVIOUS
<1>2. PICK file : file = k.disk[c.path] OBVIOUS
<1>3. PICK w : w = c.written OBVIOUS
<1>4. PICK t : t = tryN(Len(c.data), w) OBVIOUS
<1>5. /\ IsWriter(c) /\ During(f, file, c, c.buffers, w) /\ r.pos = w /\ w < Len(c.data)
      /\ r.bytes = SubSeq(c.data, w + 1, w + t)
  BY <1>1, <1>2, <1>3, <1>4 DEF Waiting
<1>6. /\ f.path = c.path /\ f.mode = "w" /\ c.data \in Seq(Nat) /\ w \in 0..Len(c.data)
      /\ ~c.disturbed => file = SubSeq(c.data, 1, w)
  BY <1>5 DEF During
<1>7. file \in Seq(Nat) /\ w \in Nat BY <1>2, <1>6 DEF Files
<1>8. t \in Nat \ {0} /\ w + t <= Len(c.data) BY <1>4, <1>5, <1>6, <1>7, TryFits
<1>9. r.bytes \in Seq(Nat) /\ Len(r.bytes) = t BY <1>5, <1>6, <1>7, <1>8
<1>10. f # Closed /\ r.pos # NaN BY <1>1, <1>5, <1>7, NobodyElse DEF Owns, IsRequest, NaN
<1>11. CASE a = Failure(k) BY <1>11, FailureMoves
<1>12. CASE a # Failure(k)
  <2>1. a \in {Answer([k EXCEPT !.disk[f.path] = Overwrite(@, r.pos, SubSeq(r.bytes, 1, n))],
                      FALSE, n, <<>>) : n \in MayBeShort(Len(r.bytes))}
    BY <1>1, <1>6, <1>10, <1>12 DEF Outcomes, SysWrite, MayFail
  <2>2. PICK n \in MayBeShort(t) :
          a = Answer([k EXCEPT !.disk[f.path] = Overwrite(@, r.pos, SubSeq(r.bytes, 1, n))],
                     FALSE, n, <<>>)
    BY <1>9, <2>1
  <2>3. n \in Nat /\ n <= t /\ n # 0 BY <1>8, Short
  <2>4. PICK new : new = Overwrite(file, w, SubSeq(r.bytes, 1, n)) OBVIOUS
  <2>5. /\ a.kernel = [k EXCEPT !.disk[f.path] = Overwrite(@, r.pos, SubSeq(r.bytes, 1, n))]
        /\ a.err = FALSE /\ a.n = n
    BY <2>2 DEF Answer
  <2> DEFINE files == [k.disk EXCEPT ![c.path] = new]
  <2>6. a.kernel.fds = k.fds /\ a.kernel.disk = files
    BY <1>2, <1>5, <1>6, <2>4, <2>5 DEF IsKernel
  <2>7. SubSeq(r.bytes, 1, n) \in Seq(Nat) BY <1>9, <2>3
  <2>8. new \in Seq(Nat) BY <1>7, <2>4, <2>7, Overwritten
  <2>9. files \in [Paths -> Seq(Nat)] /\ files[c.path] = new BY <2>8 DEF Files
  <2> HIDE DEF files
  <2>10. ASSUME ~c.disturbed PROVE new = SubSeq(c.data, 1, w + n)
    <3>1. file = SubSeq(c.data, 1, w) BY <1>6, <2>10
    <3>2. PICK s \in Seq(Nat) : s = c.data BY <1>6
    <3>3. t \in Nat /\ w + t <= Len(s) BY <1>8, <3>2
    <3>4. Overwrite(SubSeq(s, 1, w), w, SubSeq(SubSeq(s, w + 1, w + t), 1, n))
            = SubSeq(s, 1, w + n)
      BY <1>7, <2>3, <3>3, Extended
    <3> QED BY <1>5, <2>4, <3>1, <3>2, <3>4
  <2>11. w + n \in 0..Len(c.data) BY <1>6, <1>7, <1>8, <2>3
  <2>12. During(f, new, c, c.buffers, w + n)
    BY <1>5, <1>6, <2>10, <2>11, OneWay DEF During
  <2>13. Answered(a.kernel, c, r, a)
    BY <1>1, <1>3, <1>7, <2>3, <2>5, <2>6, <2>9, <2>12 DEF Answered
  <2>14. Untouched(r.op, k.fds, k.fds) BY DEF Untouched
  <2> QED BY <2>6, <2>9, <2>13, <2>14 DEF Transferred, Files
<1> QED BY <1>11, <1>12

\* Every system call.
LEMMA SystemTransfers ==
  ASSUME NEW k, IsKernel(k), Files(k), NEW c, c.path \in Paths, NEW r, IsRequest(r),
         r.stage = "queued", Holds(k.fds, c, r), Waiting(k, c, r), NEW a \in Outcomes(k, r)
  PROVE  Transferred(k, c, r, a)
<1>1. CASE r.call = "open" BY <1>1, OpenTransfers
<1>2. CASE r.call = "read"
  <2>1. Owns(k.fds, r.op, r.fd) BY <1>2 DEF Holds
  <2> QED BY <1>2, <2>1, ReadTransfers
<1>3. CASE r.call = "write"
  <2>1. Owns(k.fds, r.op, r.fd) BY <1>3 DEF Holds
  <2> QED BY <1>3, <2>1, WriteTransfers
<1>4. CASE r.call = "close"
  <2>1. Owns(k.fds, r.op, r.fd) BY <1>4 DEF Holds
  <2> QED BY <1>4, <2>1, CloseTransfers
<1>5. CASE r.call = "stat"
  <2>1. a.kernel = k BY <1>5 DEF Outcomes, SysPlain, Failure, Answer
  <2> QED BY <1>5, <2>1 DEF Transferred, Untouched, Answered
<1> QED BY <1>1, <1>2, <1>3, <1>4, <1>5 DEF IsRequest

-----------------------------------------------------------------------------
(* The other calls.                                                        *)

\* The variables of a call that may have been disturbed.
Same(c, d) ==
  /\ d.kind = c.kind /\ d.path = c.path /\ d.data = c.data /\ d.buffers = c.buffers
  /\ d.written = c.written /\ d.fd = c.fd /\ d.step = c.step /\ d.ended = c.ended
  /\ d.err = c.err /\ d.got = c.got /\ d.disk = c.disk
  /\ c.disturbed => d.disturbed

\* A call is disturbed when its file changes.
LEMMA DisturbSame ==
  ASSUME FsType, NEW r, NEW k, NEW after, NEW p \in Ops
  PROVE  LET c == ops[p]
             d == Disturb(r, k, after)[p]
         IN /\ Same(c, d)
            /\ p # r.op /\ c.kind # None /\ c.ended = 0 =>
                 d.disturbed \/ after.disk[c.path] = k.disk[c.path]
<1>1. PICK c : c = ops[p] OBVIOUS
<1>2. IsOp(c) BY <1>1 DEF FsType
<1> DEFINE change == p # r.op /\ c.kind # None /\ c.ended = 0
                       /\ k.disk[c.path] # after.disk[c.path]
           b == c.disturbed \/ change
           d == [c EXCEPT !.disturbed = b]
<1>3. Disturb(r, k, after)[p] = d BY <1>1 DEF Disturb
<1>4. (c.disturbed => b) /\ (change => b) OBVIOUS
<1> HIDE DEF b
<1>5. /\ d.kind = c.kind /\ d.path = c.path /\ d.data = c.data /\ d.buffers = c.buffers
      /\ d.written = c.written /\ d.fd = c.fd /\ d.step = c.step /\ d.ended = c.ended
      /\ d.err = c.err /\ d.got = c.got /\ d.disk = c.disk /\ d.disturbed = b
  BY <1>2 DEF IsOp, OpFields
<1> HIDE DEF d
<1>6. Same(c, d) BY <1>4, <1>5 DEF Same
<1>7. p # r.op /\ c.kind # None /\ c.ended = 0 =>
        d.disturbed \/ after.disk[c.path] = k.disk[c.path]
  BY <1>4, <1>5
<1> QED BY <1>1, <1>3, <1>6, <1>7

\* What is known of a call still is when it is disturbed, or its file is the same.
LEMMA StillDuring ==
  ASSUME NEW c, NEW d, Same(c, d), NEW f, NEW file, NEW g, d.disturbed \/ g = file,
         NEW b, NEW w, During(f, file, c, b, w)
  PROVE  During(f, g, d, b, w)
BY DEF During, Same, IsReader, IsWriter

LEMMA StillAfter ==
  ASSUME NEW c, NEW d, Same(c, d), NEW file, NEW g, d.disturbed \/ g = file, After(file, c)
  PROVE  After(g, d)
BY DEF After, Same, IsReader, IsWriter

LEMMA StillEnded ==
  ASSUME NEW c, NEW d, Same(c, d), Ended(c)
  PROVE  Ended(d)
BY DEF Ended, Same, IsReader, IsWriter

\* An answer that has come.
LEMMA StillAnswered ==
  ASSUME NEW c, NEW d, Same(c, d), NEW k, NEW l,
         d.disturbed \/ l.disk[c.path] = k.disk[c.path], NEW r, NEW a,
         r.call = "open" => l.fds[a.n] = k.fds[a.n],
         r.call \in {"read", "write"} => l.fds[r.fd] = k.fds[r.fd],
         Answered(k, c, r, a)
  PROVE  Answered(l, d, r, a)
<1>1. PICK file : file = k.disk[c.path] OBVIOUS
<1>2. PICK g : g = l.disk[d.path] OBVIOUS
<1>3. d.disturbed \/ g = file BY <1>1, <1>2 DEF Same
<1>4. d.buffers = c.buffers /\ d.written = c.written BY DEF Same
<1>5. CASE r.call = "open"
  <2>1. PICK f : f = k.fds[a.n] /\ f = l.fds[a.n] BY <1>5
  <2>2. During(f, file, c, c.buffers, c.written) BY <1>1, <1>5, <2>1 DEF Answered
  <2>3. During(f, g, d, c.buffers, c.written) BY <1>3, <2>2, StillDuring
  <2> QED BY <1>2, <1>4, <1>5, <2>1, <2>3 DEF Answered
<1>6. CASE r.call = "read"
  <2>1. PICK f : f = k.fds[r.fd] /\ f = l.fds[r.fd] BY <1>6
  <2>2. /\ a.bytes \in Seq(Nat) /\ Len(a.bytes) = a.n /\ a.n \in 0..Segment
        /\ IF a.n = 0 THEN After(file, c)
           ELSE During(f, file, c, Append(c.buffers, a.bytes), c.written)
    BY <1>1, <1>6, <2>1 DEF Answered
  <2>3. IF a.n = 0 THEN After(g, d)
        ELSE During(f, g, d, Append(c.buffers, a.bytes), c.written)
    BY <1>3, <2>2, StillDuring, StillAfter
  <2> QED BY <1>2, <1>4, <1>6, <2>1, <2>2, <2>3 DEF Answered
<1>7. CASE r.call = "write"
  <2>1. PICK f : f = k.fds[r.fd] /\ f = l.fds[r.fd] BY <1>7
  <2>2. /\ a.n \in Nat \ {0} /\ c.written \in Nat
        /\ During(f, file, c, c.buffers, c.written + a.n)
    BY <1>1, <1>7, <2>1 DEF Answered
  <2>3. During(f, g, d, c.buffers, c.written + a.n) BY <1>3, <2>2, StillDuring
  <2> QED BY <1>2, <1>4, <1>7, <2>1, <2>2, <2>3 DEF Answered
<1>8. CASE r.call = "close"
  <2>1. After(file, c) BY <1>1, <1>8 DEF Answered
  <2>2. After(g, d) BY <1>3, <2>1, StillAfter
  <2> QED BY <1>2, <1>8, <2>2 DEF Answered
<1> QED BY <1>5, <1>6, <1>7, <1>8 DEF Answered

\* A system call that is waiting.
LEMMA StillWaiting ==
  ASSUME NEW c, NEW d, Same(c, d), NEW k, NEW l,
         d.disturbed \/ l.disk[c.path] = k.disk[c.path], NEW r,
         r.call \in {"read", "write"} => l.fds[r.fd] = k.fds[r.fd], Waiting(k, c, r)
  PROVE  Waiting(l, d, r)
<1>1. PICK file : file = k.disk[c.path] OBVIOUS
<1>2. PICK g : g = l.disk[d.path] OBVIOUS
<1>3. d.disturbed \/ g = file BY <1>1, <1>2 DEF Same
<1>4. /\ d.buffers = c.buffers /\ d.written = c.written /\ d.data = c.data /\ d.path = c.path
      /\ IsReader(d) <=> IsReader(c)
      /\ IsWriter(d) <=> IsWriter(c)
  BY DEF Same, IsReader, IsWriter
<1>5. CASE r.call = "open" BY <1>4, <1>5 DEF Waiting, Before
<1>6. CASE r.call \in {"read", "write"}
  <2>1. PICK f : f = k.fds[r.fd] /\ f = l.fds[r.fd] BY <1>6
  <2>2. During(f, file, c, c.buffers, c.written) BY <1>1, <1>6, <2>1 DEF Waiting
  <2>3. During(f, g, d, d.buffers, d.written) BY <1>3, <1>4, <2>2, StillDuring
  <2> QED BY <1>2, <1>4, <1>6, <2>1, <2>3 DEF Waiting
<1>7. CASE r.call = "close"
  <2>1. After(file, c) BY <1>1, <1>7 DEF Waiting
  <2>2. After(g, d) BY <1>3, <2>1, StillAfter
  <2> QED BY <1>2, <1>7, <2>2 DEF Waiting
<1> QED BY <1>5, <1>6, <1>7 DEF Waiting

\* The request of a call, while another call's is carried out.
LEMMA StillCarries ==
  ASSUME NEW c, NEW d, Same(c, d), NEW k, NEW l,
         d.disturbed \/ l.disk[c.path] = k.disk[c.path], NEW r, IsRequest(r),
         NEW o, r.op # o, Untouched(o, k.fds, l.fds), Holds(k.fds, c, r), Carries(k, c, r)
  PROVE  Carries(l, d, r)
<1>1. r.op \in Ops \ {o} BY DEF IsRequest
<1>2. \A fd : Owns(k.fds, r.op, fd) => l.fds[fd] = k.fds[fd] BY <1>1 DEF Owns, Untouched
<1>3. r.call \in {"read", "write"} => l.fds[r.fd] = k.fds[r.fd] BY <1>2 DEF Holds
<1>4. CASE r.stage = "queued"
  <2>1. Waiting(k, c, r) BY <1>4 DEF Carries
  <2>2. Waiting(l, d, r) BY <1>3, <2>1, StillWaiting
  <2> QED BY <1>4, <2>2 DEF Carries, Same
<1>5. CASE r.stage # "queued" /\ ~r.answer.err
  <2>1. Answered(k, c, r, r.answer) BY <1>5 DEF Carries
  <2>2. r.stage = "done" BY <1>5 DEF IsRequest
  <2>3. r.call = "open" => l.fds[r.answer.n] = k.fds[r.answer.n] BY <1>2, <1>5, <2>2 DEF Holds
  <2>4. Answered(l, d, r, r.answer) BY <1>3, <2>1, <2>3, StillAnswered
  <2> QED BY <1>5, <2>4 DEF Carries, Same
<1>6. CASE r.stage # "queued" /\ r.answer.err BY <1>6 DEF Carries, Same
<1> QED BY <1>4, <1>5, <1>6

-----------------------------------------------------------------------------
(* The steps.                                                              *)

\* What is known of the call p, when the kernel is k, its variables are c, and the
\* requests are q.
Known(k, c, q, p) ==
  /\ \A j \in 1..Len(q) : q[j].op = p => Carries(k, c, q[j])
  /\ c.kind = None => c.buffers = <<>> /\ c.written = 0
  /\ Ended(c)

\* The same as Transfers, call by call.
LEMMA TransfersOf ==
  ASSUME FsType
  PROVE  Transfers <=> /\ Files(kernel)
                       /\ \A p \in Ops : /\ Known(kernel, ops[p], reqs, p)
                                         /\ busy = p => Runs(kernel, ops[p])
<1>1. \A i \in 1..Len(reqs) : reqs[i].op \in Ops BY DEF FsType, IsRequest
<1> QED BY <1>1 DEF Transfers, Known

\* A system call of the call o, and what is known of the others.
LEMMA OthersKnown ==
  ASSUME FsInv, NoFailure, Transfers, NEW r, NEW l, Untouched(r.op, kernel.fds, l.fds),
         NEW p \in Ops, p # r.op
  PROVE  LET d == Disturb(r, kernel, l)[p] IN
         Known(l, d, reqs, p) /\ (busy = p => Runs(l, d))
<1>1. PICK c : c = ops[p] OBVIOUS
<1>2. PICK d : d = Disturb(r, kernel, l)[p] OBVIOUS
<1>3. FsType /\ Held BY DEF FsInv
<1>4. /\ Same(c, d)
      /\ c.kind # None /\ c.ended = 0 => d.disturbed \/ l.disk[c.path] = kernel.disk[c.path]
  BY <1>1, <1>2, <1>3, DisturbSame
<1>5. Known(kernel, c, reqs, p) /\ (busy = p => Runs(kernel, c)) BY <1>1, <1>3, TransfersOf
<1>6. ASSUME NEW j \in 1..Len(reqs), reqs[j].op = p PROVE Carries(l, d, reqs[j])
  <2>1. PICK q : q = reqs[j] OBVIOUS
  <2>2. IsRequest(q) /\ q.op = p BY <1>3, <1>6, <2>1 DEF FsType
  <2>3. c.kind # None /\ c.ended = 0
    BY <1>1, <1>6 DEF FsInv, Separate, OneByOne, NoFailure
  <2>4. Holds(kernel.fds, c, q) BY <1>1, <1>3, <1>6, <2>1 DEF Held
  <2>5. Carries(kernel, c, q) BY <1>5, <1>6, <2>1 DEF Known
  <2>6. Carries(l, d, q) BY <1>4, <2>2, <2>3, <2>4, <2>5, StillCarries
  <2> QED BY <2>1, <2>6
<1>7. Ended(d) BY <1>4, <1>5, StillEnded DEF Known
<1>8. d.kind = None => d.buffers = <<>> /\ d.written = 0 BY <1>4, <1>5 DEF Same, Known
<1>9. ASSUME busy = p PROVE Runs(l, d)
  <2>1. c.kind # None /\ c.ended = 0
    BY <1>1, <1>9 DEF FsInv, Separate, OneByOne, NoFailure
  <2>2. PICK file : file = kernel.disk[c.path] OBVIOUS
  <2>3. PICK g : g = l.disk[d.path] OBVIOUS
  <2>4. d.disturbed \/ g = file BY <1>4, <2>1, <2>2, <2>3 DEF Same
  <2>5. Runs(kernel, c) BY <1>5, <1>9
  <2>6. /\ d.buffers = c.buffers /\ d.written = c.written /\ d.data = c.data
        /\ d.path = c.path /\ d.kind = c.kind /\ d.step = c.step /\ d.fd = c.fd
        /\ IsReader(d) <=> IsReader(c)
        /\ IsWriter(d) <=> IsWriter(c)
    BY <1>4 DEF Same, IsReader, IsWriter
  <2>7. CASE c.step = "open" BY <2>5, <2>6, <2>7 DEF Runs, Before
  <2>8. CASE c.step = "loop"
    <3>1. Owns(kernel.fds, p, c.fd) BY <1>1, <1>3, <1>9, <2>8 DEF Held
    <3>2. PICK f : f = kernel.fds[c.fd] /\ f = l.fds[d.fd]
      BY <2>6, <3>1 DEF Owns, Untouched
    <3>3. During(f, file, c, c.buffers, c.written) BY <2>2, <2>5, <2>8, <3>2 DEF Runs
    <3>4. During(f, g, d, d.buffers, d.written) BY <1>4, <2>4, <2>6, <3>3, StillDuring
    <3> QED BY <2>3, <2>5, <2>6, <2>8, <3>2, <3>4 DEF Runs
  <2>9. CASE c.step = "close"
    <3>1. After(file, c) BY <2>2, <2>5, <2>9 DEF Runs
    <3>2. After(g, d) BY <1>4, <2>4, <3>1, StillAfter
    <3> QED BY <2>3, <2>5, <2>6, <2>9, <3>2 DEF Runs
  <2> QED BY <2>5, <2>7, <2>8, <2>9 DEF Runs
<1> QED BY <1>2, <1>6, <1>7, <1>8, <1>9 DEF Known

\* A worker carries out a request.
LEMMA WorkTransfers ==
  ASSUME FsInv, FsWhole, FsType', NEW i \in 1..Len(reqs), Work(i)
  PROVE  FsWhole'
<1>0. PICK r : r = reqs[i] OBVIOUS
<1>1. PICK o : o = r.op OBVIOUS
<1>2. PICK a \in Outcomes(kernel, r) :
        /\ kernel' = a.kernel /\ ops' = Disturb(r, kernel, a.kernel)
        /\ reqs' = [reqs EXCEPT ![i].stage = "done",
                                ![i].answer = [err |-> a.err, n |-> a.n, bytes |-> a.bytes]]
  BY <1>0 DEF Work
<1>3. r.stage = "queued" /\ busy' = busy BY <1>0 DEF Work
<1>4. IsRequest(r) /\ o \in Ops BY <1>0, <1>1 DEF FsInv, FsType, IsRequest
<1> SUFFICES ASSUME NoFailure' PROVE Transfers' BY DEF FsWhole
<1>5. \A p \in Ops : Alike(ops[p], ops'[p]) BY <1>2, DisturbAlike DEF FsInv
<1>6. NoFailure BY <1>5 DEF NoFailure, Alike
<1>7. Transfers /\ Held /\ FsType BY <1>6 DEF FsWhole, FsInv
<1>8. PICK c : c = ops[o] OBVIOUS
<1>9. PICK d : d = ops'[o] OBVIOUS
<1>10. Carries(kernel, c, r) BY <1>0, <1>1, <1>7, <1>8 DEF Transfers
<1>11. Holds(kernel.fds, c, r) BY <1>0, <1>1, <1>7, <1>8 DEF Held
<1>12. Transferred(kernel, c, r, a)
  <2>1. c.path \in Paths /\ Waiting(kernel, c, r) BY <1>3, <1>10 DEF Carries
  <2>2. IsKernel(kernel) /\ Files(kernel) BY <1>7 DEF Held, Transfers
  <2> QED BY <1>3, <1>4, <1>11, <2>1, <2>2, SystemTransfers
<1>13. PICK l : l = a.kernel OBVIOUS
<1>14. /\ Files(l) /\ Untouched(o, kernel.fds, l.fds)
       /\ ~a.err => Answered(l, c, r, a)
  BY <1>1, <1>12, <1>13 DEF Transferred
<1> DEFINE ans == [err |-> a.err, n |-> a.n, bytes |-> a.bytes]
           z == [r EXCEPT !.stage = "done", !.answer = ans]
<1>15. ans.err = a.err /\ ans.n = a.n /\ ans.bytes = a.bytes OBVIOUS
<1>16. PICK S : reqs \in Seq(S) BY DEF FsInv, IsList
<1>17. reqs' = [reqs EXCEPT ![i] = z] BY <1>0, <1>2, <1>16
<1> HIDE DEF ans
<1>18. /\ z.op = o /\ z.stage = "done" /\ z.answer = ans /\ z.call = r.call /\ z.fd = r.fd
       /\ z.cb = r.cb
  BY <1>1, <1>4 DEF IsRequest, RequestFields
<1> HIDE DEF z
<1>19. /\ Len(reqs') = Len(reqs) /\ reqs'[i] = z
       /\ \A j \in 1..Len(reqs) : j # i => reqs'[j] = reqs[j]
  BY <1>16, <1>17, ListChanged
<1>20. ASSUME NEW p \in Ops, p # o
       PROVE  Known(l, ops'[p], reqs', p) /\ (busy' = p => Runs(l, ops'[p]))
  <2>1. Known(l, ops'[p], reqs, p) /\ (busy = p => Runs(l, ops'[p]))
    BY <1>1, <1>2, <1>6, <1>7, <1>13, <1>14, <1>20, OthersKnown
  <2>2. ASSUME NEW j \in 1..Len(reqs'), reqs'[j].op = p PROVE Carries(l, ops'[p], reqs'[j])
    <3>1. j # i /\ j \in 1..Len(reqs) BY <1>18, <1>19, <1>20, <2>2
    <3>2. reqs'[j] = reqs[j] BY <1>19, <3>1
    <3> QED BY <2>1, <2>2, <3>1, <3>2 DEF Known
  <2> QED BY <1>3, <2>1, <2>2 DEF Known
<1>21. Same(c, d) BY <1>2, <1>4, <1>7, <1>8, <1>9, DisturbSame
<1>22. Carries(l, d, z)
  <2>1. CASE a.err BY <1>10, <1>15, <1>18, <1>21, <2>1 DEF Carries, Same
  <2>2. CASE ~a.err
    <3>1. Answered(l, c, r, a) BY <1>14, <2>2
    <3>2. Answered(l, d, r, a) BY <1>21, <3>1, StillAnswered
    <3>3. Answered(l, d, z, ans) BY <1>15, <1>18, <3>2 DEF Answered
    <3> QED BY <1>10, <1>18, <1>21, <3>3 DEF Carries, Same
  <2> QED BY <2>1, <2>2
<1>23. Known(l, d, reqs', o)
  <2>1. Known(kernel, c, reqs, o) BY <1>4, <1>7, <1>8, TransfersOf
  <2>2. ASSUME NEW j \in 1..Len(reqs'), reqs'[j].op = o PROVE j = i
    <3>1. j \in 1..Len(reqs) BY <1>19
    <3> QED BY <1>0, <1>1, <1>4, <1>6, <1>19, <2>2, <3>1 DEF FsInv, OneByOne, NoFailure
  <2>3. \A j \in 1..Len(reqs') : reqs'[j].op = o => Carries(l, d, reqs'[j])
    BY <1>19, <1>22, <2>2
  <2>4. Ended(d) BY <1>21, <2>1, StillEnded DEF Known
  <2> QED BY <1>21, <2>1, <2>3, <2>4 DEF Known, Same
<1>24. busy' # o BY <1>0, <1>1, <1>3 DEF FsInv, Separate
<1>25. \A p \in Ops : Known(kernel, ops[p], reqs, p)' /\ (busy' = p => Runs(kernel, ops[p])')
  BY <1>2, <1>9, <1>13, <1>20, <1>23, <1>24
<1>26. Files(kernel)' BY <1>2, <1>13, <1>14
<1> QED BY <1>25, <1>26 DEF Transfers, Known, FsType, IsRequest

\* What the user is told, and what the file holds then.
LEMMA CallbackGives ==
  ASSUME NEW c, IsOp(c), c.path \in Paths, NEW err, NEW got
  PROVE  LET d == callback(c, err, got) IN
         /\ d.kind = c.kind /\ d.data = c.data /\ d.disturbed = c.disturbed
         /\ d.err = err /\ d.got = got /\ d.disk = kernel.disk[c.path]
<1>1. PICK n : n = c.ended + 1 OBVIOUS
<1>2. c.path # None BY FsAssumption
<1>3. PICK x : x = kernel.disk[c.path] OBVIOUS
<1> DEFINE d == [c EXCEPT !.ended = n, !.err = err, !.got = got, !.step = "end", !.disk = x]
<1>4. callback(c, err, got) = d BY <1>1, <1>2, <1>3 DEF callback
<1>5. /\ d.kind = c.kind /\ d.data = c.data /\ d.disturbed = c.disturbed
      /\ d.err = err /\ d.got = got /\ d.disk = x
  BY DEF IsOp, OpFields
<1> QED BY <1>3, <1>4, <1>5

\* A call that reports success has transferred everything.
LEMMA EndsWhole ==
  ASSUME NEW c, IsOp(c), c.path \in Paths, NEW err, NEW got,
         ~err => After(kernel.disk[c.path], c),
         ~err /\ IsReader(c) => got = concat(c.buffers)
  PROVE  Ended(callback(c, err, got))
<1>1. PICK d : d = callback(c, err, got) OBVIOUS
<1>2. /\ d.kind = c.kind /\ d.data = c.data /\ d.disturbed = c.disturbed
      /\ d.err = err /\ d.got = got /\ d.disk = kernel.disk[c.path]
  BY <1>1, CallbackGives
<1>3. ASSUME ~d.err, ~d.disturbed
      PROVE  (IsReader(d) => d.got = d.disk) /\ (IsWriter(d) => d.disk = d.data)
  <2>1. After(kernel.disk[c.path], c) /\ ~c.disturbed BY <1>2, <1>3
  <2>2. IsReader(c) => Joined(c.buffers, kernel.disk[c.path]) BY <2>1 DEF After
  <2>3. IsReader(c) => concat(c.buffers) = kernel.disk[c.path] BY <2>2, ConcatJoins
  <2>4. IsWriter(c) => kernel.disk[c.path] = c.data BY <2>1 DEF After
  <2> QED BY <1>2, <1>3, <2>3, <2>4 DEF IsReader, IsWriter
<1>4. Ended(d) BY <1>3 DEF Ended
<1> QED BY <1>1, <1>4

\* The bytes that were read, cut out of the buffer that they were read into.
LEMMA SliceRead ==
  ASSUME NEW b \in Seq(Nat), NEW n \in 0..Segment, Len(b) = n
  PROVE  slice(b \o bufferwrap_create(Segment - n), 0, n) = b
<1>1. n \in Nat /\ Segment - n \in Nat BY FsAssumption
<1>2. PICK z : z = bufferwrap_create(Segment - n) OBVIOUS
<1>3. z \in Seq(Nat) BY <1>1, <1>2, Created
<1>4. PICK buf : buf = b \o z OBVIOUS
<1>5. buf \in Seq(Nat) /\ Len(buf) = n + Len(z) /\ \A j \in 1..n : buf[j] = b[j]
  BY <1>1, <1>3, <1>4
<1>6. n <= Len(buf) BY <1>1, <1>3, <1>5
<1>7. slice(buf, 0, n) = SubSeq(buf, 1, n) BY <1>1, <1>5, <1>6, SliceFirst
<1>8. SubSeq(buf, 1, n) = [j \in 1..n |-> buf[j]] BY <1>1, <1>5, <1>6
<1>9. b = [j \in 1..n |-> b[j]] BY <1>1
<1>10. SubSeq(buf, 1, n) = b BY <1>5, <1>8, <1>9
<1> QED BY <1>2, <1>4, <1>7, <1>10

\* What a callback makes of the variables c of the call o.
CarriesOn(c, then) ==
  /\ \A j \in 1..Len(then.calls) : Carries(kernel, then.op, then.calls[j])
  /\ Ended(then.op)

\* The next request of a call that has read or written some.
LEMMA NextRequest ==
  ASSUME NEW o \in Ops, NEW c, NEW d, d.ended = 0, d.path \in Paths, NEW r,
         r.call \in {"read", "write", "close"}, r.stage = "queued",
         r.call = "read" => d.kind = "readFile",
         r.call = "write" => d.kind = "writeFile",
         r.call = "close" => /\ r.cb = "readEnd" => d.kind = "readFile"
                             /\ r.cb = "closed" => d.kind = "writeFile",
         r.cb \in CallbackOf(r.call), Waiting(kernel, d, r)
  PROVE  CarriesOn(c, Then(d, <<r>>))
<1>1. Then(d, <<r>>).op = d /\ Len(Then(d, <<r>>).calls) = 1 /\ Then(d, <<r>>).calls[1] = r
  BY DEF Then
<1>2. Ended(d) BY DEF Ended
<1>3. Carries(kernel, d, r) BY DEF Carries, CallbackOf
<1> QED BY <1>1, <1>2, <1>3 DEF CarriesOn

\* write() writes what follows.
LEMMA WriteOn ==
  ASSUME NEW o \in Ops, NEW c, NEW d, IsOp(d), d.ended = 0, d.path \in Paths,
         d.kind = "writeFile",
         During(kernel.fds[d.fd], kernel.disk[d.path], d, d.buffers, d.written)
  PROVE  CarriesOn(c, writeNext(o, d))
<1>0. /\ IsWriter(d) /\ ~IsReader(d) BY DEF IsReader, IsWriter
<1>1. d.data \in Seq(Nat) /\ d.written \in 0..Len(d.data) BY <1>0 DEF During
<1>2. CASE WriteThrows(d)
  <2> DEFINE e == [d EXCEPT !.threw = TRUE]
  <2>1. writeNext(o, d) = Then(e, <<>>) BY <1>2 DEF writeNext
  <2>2. e.ended = 0 BY DEF IsOp, OpFields
  <2>3. Then(e, <<>>).op = e /\ Len(Then(e, <<>>).calls) = 0 BY DEF Then
  <2> HIDE DEF e
  <2>4. Ended(e) BY <2>2 DEF Ended
  <2> QED BY <2>1, <2>3, <2>4 DEF CarriesOn
<1>3. CASE ~WriteThrows(d)
  <2>1. PICK r : r = write(o, d) OBVIOUS
  <2>2. writeNext(o, d) = Then(d, <<r>>) BY <1>3, <2>1 DEF writeNext
  <2>3. d.written # NaN BY <1>1 DEF NaN
  <2>4. d.written < Len(d.data) BY <1>1, <1>3, <2>3 DEF WriteThrows
  <2>5. /\ r.call = "write" /\ r.stage = "queued" /\ r.cb = "afterWrite" /\ r.fd = d.fd
        /\ r.pos = d.written
        /\ r.bytes = SubSeq(d.data, d.written + 1, d.written + tryN(Len(d.data), d.written))
    BY <2>1, <2>3 DEF write, Request
  <2>6. Waiting(kernel, d, r) BY <1>0, <2>4, <2>5 DEF Waiting
  <2> QED BY <2>2, <2>5, <2>6, NextRequest DEF CallbackOf
<1> QED BY <1>2, <1>3

\* What is known of a call does not depend on its other variables.
LEMMA DuringOf ==
  ASSUME NEW c, NEW d, d.kind = c.kind, d.path = c.path, d.data = c.data,
         d.disturbed = c.disturbed, NEW f, NEW file, NEW b, NEW w, During(f, file, c, b, w)
  PROVE  During(f, file, d, b, w)
BY DEF During, IsReader, IsWriter

\* Every callback of a call that has not failed.
LEMMA CallBackTransfers ==
  ASSUME NEW r, IsRequest(r), r.stage # "queued", NEW c, IsOp(c), c.ended = 0,
         Holds(kernel.fds, c, r), Carries(kernel, c, r),
         ~CallBack(r.op, c, r, r.answer).op.failed
  PROVE  CarriesOn(c, CallBack(r.op, c, r, r.answer))
<1>0. PICK o : o = r.op OBVIOUS
<1>1. PICK a : a = r.answer OBVIOUS
<1>2. PICK then : then = CallBack(o, c, r, a) OBVIOUS
<1> SUFFICES CarriesOn(c, then) BY <1>0, <1>1, <1>2
<1>3. o \in Ops /\ a.err \in BOOLEAN /\ c.path \in Paths BY <1>0, <1>1 DEF IsRequest, Carries
<1>4. ~a.err => Answered(kernel, c, r, a) BY <1>1 DEF Carries
<1>5. PICK file : file = kernel.disk[c.path] OBVIOUS
<1>6. ASSUME NEW d, Ended(d) PROVE CarriesOn(c, Then(d, <<>>))
  <2>1. Then(d, <<>>).op = d /\ Len(Then(d, <<>>).calls) = 0 BY DEF Then
  <2> QED BY <1>6, <2>1 DEF CarriesOn
<1>7. CASE r.cb = "plain"
  <2>1. then = Then(callback(c, a.err, <<>>), <<>>) BY <1>2, <1>7 DEF CallBack
  <2>2. r.call = "stat" BY <1>7 DEF IsRequest, CallbackOf
  <2>3. ~IsReader(c) /\ ~IsWriter(c) BY <2>2 DEF Carries, IsReader, IsWriter
  <2>4. Ended(callback(c, a.err, <<>>)) BY <1>3, <2>3, EndsWhole DEF After
  <2> QED BY <1>6, <2>1, <2>4
<1>8. CASE r.cb \in {"readEnd", "closed"}
  <2>1. PICK got : got = IF r.cb = "readEnd" THEN concat(c.buffers) ELSE <<>> OBVIOUS
  <2>2. then = Then(callback(c, a.err, got), <<>>) BY <1>2, <1>8, <2>1 DEF CallBack
  <2>3. r.call = "close" BY <1>8 DEF IsRequest, CallbackOf
  <2>4. ~a.err => After(kernel.disk[c.path], c) BY <1>4, <2>3 DEF Answered
  <2>5. IsReader(c) => got = concat(c.buffers) BY <1>8, <2>1 DEF Carries, IsReader
  <2>6. Ended(callback(c, a.err, got)) BY <1>3, <2>4, <2>5, EndsWhole
  <2> QED BY <1>6, <2>2, <2>6
<1>9. CASE r.cb = "opened"
  <2>1. then = opened(o, c, a) /\ r.call = "open"
    BY <1>2, <1>9 DEF CallBack, IsRequest, CallbackOf
  <2>2. CASE a.err
    <3>1. then = Then(callback(c, TRUE, <<>>), <<>>) BY <2>1, <2>2 DEF opened
    <3>2. PICK e : e = TRUE OBVIOUS
    <3>3. Ended(callback(c, e, <<>>)) BY <1>3, <3>2, EndsWhole
    <3> QED BY <1>6, <3>1, <3>2, <3>3
  <2>3. CASE ~a.err
    <3> DEFINE e == [c EXCEPT !.fd = a.n]
    <3>1. PICK d : d = e OBVIOUS
    <3>2. /\ IsOp(d) /\ d.ended = 0 /\ d.fd = a.n /\ d.kind = c.kind /\ d.data = c.data
          /\ d.path = c.path /\ d.buffers = c.buffers /\ d.written = c.written
          /\ d.disturbed = c.disturbed
      BY <3>1 DEF IsOp, OpFields
    <3>3. then = IF c.kind = "readFile" THEN Then(d, <<read(o, a.n)>>) ELSE writeNext(o, d)
      BY <2>1, <2>3, <3>1 DEF opened
    <3> HIDE DEF e
    <3>4. PICK f : f = kernel.fds[a.n] OBVIOUS
    <3>5. During(f, file, c, c.buffers, c.written)
      BY <1>4, <1>5, <2>1, <2>3, <3>4 DEF Answered
    <3>6. During(f, file, d, c.buffers, c.written) BY <3>2, <3>5, DuringOf
    <3>7. During(kernel.fds[d.fd], kernel.disk[d.path], d, d.buffers, d.written)
      BY <1>5, <3>2, <3>4, <3>6
    <3>8. c.kind \in {"readFile", "writeFile"} BY <2>1 DEF Carries
    <3>9. CASE c.kind = "readFile"
      <4>1. PICK q : q = read(o, a.n) OBVIOUS
      <4>2. /\ q.call = "read" /\ q.stage = "queued" /\ q.cb = "afterRead" /\ q.fd = d.fd
            /\ q.n = Segment
        BY <3>2, <4>1 DEF read, Request
      <4>3. Waiting(kernel, d, q) BY <3>2, <3>7, <3>9, <4>2 DEF Waiting, IsReader
      <4>4. CarriesOn(c, Then(d, <<q>>))
        BY <1>3, <3>2, <3>9, <4>2, <4>3, NextRequest DEF CallbackOf
      <4> QED BY <3>3, <3>9, <4>1, <4>4
    <3>10. CASE c.kind = "writeFile"
      BY <1>3, <3>2, <3>3, <3>7, <3>10, WriteOn
    <3> QED BY <3>8, <3>9, <3>10
  <2> QED BY <1>3, <2>2, <2>3
<1>10. CASE r.cb = "afterRead"
  <2>1. then = afterRead(o, c, a) /\ r.call = "read"
    BY <1>2, <1>10 DEF CallBack, IsRequest, CallbackOf
  <2>2. c.kind = "readFile" /\ r.fd = c.fd BY <2>1 DEF Carries, Holds
  <2>3. ~a.err
    <3> SUFFICES ASSUME a.err PROVE FALSE BY <1>3
    <3> DEFINE d == [c EXCEPT !.failed = TRUE]
    <3>1. then.op = d BY <2>1 DEF afterRead, Then
    <3>2. d.failed = TRUE BY DEF IsOp, OpFields
    <3> QED BY <1>0, <1>1, <1>2, <3>1, <3>2
  <2>4. /\ a.bytes \in Seq(Nat) /\ Len(a.bytes) = a.n /\ a.n \in 0..Segment
        /\ IF a.n = 0 THEN After(file, c)
           ELSE During(kernel.fds[r.fd], file, c, Append(c.buffers, a.bytes), c.written)
    BY <1>4, <1>5, <2>1, <2>3 DEF Answered
  <2>5. CASE a.n = 0
    <3>1. PICK q : q = close(o, c.fd, "readEnd") OBVIOUS
    <3>2. then = Then(c, <<q>>) BY <2>1, <2>3, <2>5, <3>1 DEF afterRead
    <3>3. q.call = "close" /\ q.stage = "queued" /\ q.cb = "readEnd"
      BY <3>1 DEF close, Request
    <3>4. Waiting(kernel, c, q) BY <1>5, <2>4, <2>5, <3>3 DEF Waiting
    <3> QED BY <1>3, <2>2, <3>2, <3>3, <3>4, NextRequest DEF CallbackOf
  <2>6. CASE a.n # 0
    <3>1. PICK b : b = Append(c.buffers, a.bytes) OBVIOUS
    <3>2. slice(a.bytes \o bufferwrap_create(Segment - a.n), 0, a.n) = a.bytes
      BY <2>4, SliceRead
    <3> DEFINE e == [c EXCEPT !.buffers = b]
    <3>3. then = Then(e, <<read(o, c.fd)>>)
      BY <2>1, <2>3, <2>6, <3>1, <3>2 DEF afterRead
    <3>4. PICK d : d = e OBVIOUS
    <3>5. /\ d.ended = 0 /\ d.fd = c.fd /\ d.kind = c.kind /\ d.data = c.data
          /\ d.path = c.path /\ d.buffers = b /\ d.written = c.written
          /\ d.disturbed = c.disturbed
      BY <3>4 DEF IsOp, OpFields
    <3> HIDE DEF e
    <3>6. During(kernel.fds[r.fd], file, c, b, c.written) BY <2>4, <2>6, <3>1
    <3>7. During(kernel.fds[r.fd], file, d, b, c.written) BY <3>5, <3>6, DuringOf
    <3>8. PICK q : q = read(o, c.fd) OBVIOUS
    <3>9. /\ q.call = "read" /\ q.stage = "queued" /\ q.cb = "afterRead" /\ q.fd = c.fd
          /\ q.n = Segment
      BY <3>8 DEF read, Request
    <3>10. Waiting(kernel, d, q) BY <1>5, <2>2, <3>5, <3>7, <3>9 DEF Waiting, IsReader
    <3>11. CarriesOn(c, Then(d, <<q>>))
      BY <1>3, <2>2, <3>5, <3>9, <3>10, NextRequest DEF CallbackOf
    <3> QED BY <3>3, <3>4, <3>8, <3>11
  <2> QED BY <2>5, <2>6
<1>11. CASE r.cb = "afterWrite"
  <2>1. then = afterWrite(o, c, a) /\ r.call = "write"
    BY <1>2, <1>11 DEF CallBack, IsRequest, CallbackOf
  <2>2. c.kind = "writeFile" /\ r.fd = c.fd BY <2>1 DEF Carries, Holds
  <2>3. ~a.err
    <3> SUFFICES ASSUME a.err PROVE FALSE BY <1>3
    <3> DEFINE d == [c EXCEPT !.failed = TRUE, !.written = NaN, !.tries = @ + 1]
    <3>1. then.op = d BY <2>1 DEF afterWrite, Then
    <3>2. d.failed = TRUE BY DEF IsOp, OpFields
    <3> QED BY <1>0, <1>1, <1>2, <3>1, <3>2
  <2>4. PICK w : w = c.written + a.n OBVIOUS
  <2>5. /\ a.n \in Nat \ {0} /\ c.written \in Nat
        /\ During(kernel.fds[r.fd], file, c, c.buffers, w)
    BY <1>4, <1>5, <2>1, <2>3, <2>4 DEF Answered
  <2>6. IsWriter(c) /\ ~IsReader(c) BY <2>2 DEF IsWriter, IsReader
  <2>7. /\ c.data \in Seq(Nat) /\ w \in 0..Len(c.data)
        /\ ~c.disturbed => file = SubSeq(c.data, 1, w)
    BY <2>5, <2>6 DEF During
  <2>8. c.written # NaN /\ ~(a.n <= 0) BY <2>5 DEF NaN
  <2>9. CASE w = Len(c.data)
    <3>1. PICK q : q = close(o, c.fd, "closed") OBVIOUS
    <3>2. then = Then(c, <<q>>) BY <2>1, <2>3, <2>4, <2>8, <2>9, <3>1 DEF afterWrite
    <3>3. q.call = "close" /\ q.stage = "queued" /\ q.cb = "closed"
      BY <3>1 DEF close, Request
    <3>4. SubSeq(c.data, 1, Len(c.data)) = c.data BY <2>7
    <3>5. After(file, c) BY <2>6, <2>7, <2>9, <3>4 DEF After
    <3>6. Waiting(kernel, c, q) BY <1>5, <3>3, <3>5 DEF Waiting
    <3> QED BY <1>3, <2>2, <3>2, <3>3, <3>6, NextRequest DEF CallbackOf
  <2>10. CASE w # Len(c.data)
    <3> DEFINE e == [c EXCEPT !.written = w]
    <3>1. then = writeNext(o, e) BY <2>1, <2>3, <2>4, <2>8, <2>10 DEF afterWrite
    <3>2. PICK d : d = e OBVIOUS
    <3>3. /\ IsOp(d) /\ d.ended = 0 /\ d.fd = c.fd /\ d.kind = c.kind /\ d.data = c.data
          /\ d.path = c.path /\ d.buffers = c.buffers /\ d.written = w
          /\ d.disturbed = c.disturbed
      BY <3>2 DEF IsOp, OpFields
    <3> HIDE DEF e
    <3>4. During(kernel.fds[r.fd], file, d, c.buffers, w) BY <2>5, <3>3, DuringOf
    <3>5. During(kernel.fds[d.fd], kernel.disk[d.path], d, d.buffers, d.written)
      BY <1>5, <2>2, <3>3, <3>4
    <3>6. CarriesOn(c, writeNext(o, d)) BY <1>3, <2>2, <3>3, <3>5, WriteOn
    <3> QED BY <3>1, <3>2, <3>6
  <2> QED BY <2>9, <2>10
<1> QED BY <1>7, <1>8, <1>9, <1>10, <1>11 DEF IsRequest, CallbackOf

\* AfterAsync calls back.
LEMMA AfterAsyncTransfers ==
  ASSUME FsInv, FsWhole, FsType', NEW i \in 1..Len(reqs), AfterAsync(i)
  PROVE  FsWhole'
<1>0. PICK r : r = reqs[i] OBVIOUS
<1>1. PICK o : o = r.op OBVIOUS
<1>2. PICK c : c = ops[o] OBVIOUS
<1>3. PICK then : then = CallBack(o, c, r, r.answer) OBVIOUS
<1>4. PICK d : d = then.op OBVIOUS
<1>5. PICK calls : calls = then.calls OBVIOUS
<1>6. /\ r.stage # "queued" /\ ops' = [ops EXCEPT ![o] = d]
      /\ reqs' = RemoveAt(reqs, i) \o calls /\ kernel' = kernel /\ busy' = busy
  BY <1>0, <1>1, <1>2, <1>3, <1>4, <1>5 DEF AfterAsync
<1>7. IsRequest(r) /\ o \in Ops /\ IsOp(c) BY <1>0, <1>1, <1>2 DEF FsInv, FsType, IsRequest
<1>8. Asks(o, calls) /\ GoesOn(c, d, Len(calls))
  BY <1>1, <1>3, <1>4, <1>5, <1>6, <1>7, CallBackContinues DEF Continues
<1>9. /\ ops'[o] = d /\ \A p \in Ops : p # o => ops'[p] = ops[p]
  BY <1>6, <1>7 DEF FsInv, FsType
<1> SUFFICES ASSUME NoFailure' PROVE Transfers' BY DEF FsWhole
<1>10. ~d.failed /\ (c.failed => d.failed) /\ d.kind = c.kind
  BY <1>7, <1>8, <1>9 DEF NoFailure, GoesOn
<1>11. NoFailure BY <1>2, <1>9, <1>10 DEF NoFailure
<1>12. Transfers /\ Held /\ FsType BY <1>11 DEF FsWhole, FsInv
<1>13. c.ended = 0 /\ c.kind # None /\ busy # o
  BY <1>0, <1>1, <1>2, <1>7, <1>11 DEF FsInv, OneByOne, NoFailure, Separate
<1>14. Carries(kernel, c, r) /\ Holds(kernel.fds, c, r)
  BY <1>0, <1>1, <1>2, <1>12 DEF Transfers, Held
<1>15. CarriesOn(c, then)
  BY <1>1, <1>3, <1>4, <1>6, <1>7, <1>10, <1>13, <1>14, CallBackTransfers
<1>16. (\A j \in 1..Len(calls) : Carries(kernel, d, calls[j])) /\ Ended(d)
  BY <1>4, <1>5, <1>15 DEF CarriesOn
<1>17. PICK S : reqs \in Seq(S) BY DEF FsInv, IsList
<1>18. PICK T : calls \in Seq(T) BY <1>8 DEF Asks
<1>19. Spliced(reqs, i, calls, reqs') BY <1>6, <1>17, <1>18, ListAfter
<1>20. ASSUME NEW j \in 1..Len(reqs')
       PROVE  \/ \E m \in 1..Len(reqs) : m # i /\ reqs'[j] = reqs[m]
              \/ \E k \in 1..Len(calls) : reqs'[j] = calls[k]
  <2>1. /\ Len(reqs) \in Nat /\ Len(calls) \in Nat /\ i \in 1..Len(reqs)
        /\ Len(reqs') = Len(reqs) - 1 + Len(calls)
    BY <1>17, <1>18, <1>19 DEF Spliced
  <2>2. CASE j < i
    <3>1. j \in 1..(i - 1) /\ j \in 1..Len(reqs) /\ j # i BY <2>1, <2>2
    <3> QED BY <1>19, <3>1 DEF Spliced
  <2>3. CASE ~(j < i) /\ j <= Len(reqs) - 1
    <3>1. j \in i..(Len(reqs) - 1) /\ j + 1 \in 1..Len(reqs) /\ j + 1 # i BY <2>1, <2>3
    <3> QED BY <1>19, <3>1 DEF Spliced
  <2>4. CASE j > Len(reqs) - 1
    <3>1. j - (Len(reqs) - 1) \in 1..Len(calls) /\ Len(reqs) - 1 + (j - (Len(reqs) - 1)) = j
      BY <2>1, <2>4
    <3> QED BY <1>19, <3>1 DEF Spliced
  <2> QED BY <2>1, <2>2, <2>3, <2>4
<1>21. \A k \in 1..Len(calls) : calls[k].op = o BY <1>8 DEF Asks
<1>22. ASSUME NEW j \in 1..Len(reqs') PROVE Carries(kernel, ops'[reqs'[j].op], reqs'[j])
  <2>1. CASE \E m \in 1..Len(reqs) : m # i /\ reqs'[j] = reqs[m]
    <3>1. PICK m \in 1..Len(reqs) : m # i /\ reqs'[j] = reqs[m] BY <2>1
    <3>2. reqs[m].op \in Ops BY <1>12 DEF FsType, IsRequest
    <3>3. reqs[m].op # o
      BY <1>0, <1>1, <1>7, <1>11, <3>1 DEF FsInv, OneByOne, NoFailure
    <3>4. Carries(kernel, ops[reqs[m].op], reqs[m]) BY <1>12 DEF Transfers
    <3> QED BY <1>9, <3>1, <3>2, <3>3, <3>4
  <2>2. CASE \E k \in 1..Len(calls) : reqs'[j] = calls[k] BY <1>9, <1>16, <1>21, <2>2
  <2> QED BY <1>20, <2>1, <2>2
<1>23. ASSUME NEW p \in Ops
       PROVE  /\ busy' = p => Runs(kernel, ops'[p])
              /\ ops'[p].kind = None => ops'[p].buffers = <<>> /\ ops'[p].written = 0
              /\ Ended(ops'[p])
  <2>1. CASE p = o BY <1>6, <1>9, <1>10, <1>13, <1>16, <2>1
  <2>2. CASE p # o BY <1>6, <1>9, <1>12, <2>2 DEF Transfers
  <2> QED BY <2>1, <2>2
<1> QED BY <1>6, <1>12, <1>22, <1>23 DEF Transfers

\* A call begins.
LEMMA StartTransfers ==
  ASSUME FsInv, NoFailure, Transfers, FsType', NEW o \in Ops, ops[o].kind = None,
         busy = Nobody, kernel' = kernel, busy' \in {o, Nobody},
         \A p \in Ops : p # o => ops'[p] = ops[p],
         \A j \in 1..Len(reqs') :
           \/ \E m \in 1..Len(reqs) : reqs'[j] = reqs[m]
           \/ reqs'[j].op = o /\ Carries(kernel, ops'[o], reqs'[j]),
         ops'[o].kind # None, Ended(ops'[o]), busy' = o => Runs(kernel, ops'[o])
  PROVE  Transfers'
<1>1. \A m \in 1..Len(reqs) : reqs[m].op \in Ops /\ reqs[m].op # o BY Fresh
<1>2. ASSUME NEW j \in 1..Len(reqs') PROVE Carries(kernel, ops'[reqs'[j].op], reqs'[j])
  <2>1. CASE \E m \in 1..Len(reqs) : reqs'[j] = reqs[m] BY <1>1, <2>1 DEF Transfers
  <2>2. CASE reqs'[j].op = o /\ Carries(kernel, ops'[o], reqs'[j]) BY <2>2
  <2> QED BY <2>1, <2>2
<1>3. ASSUME NEW p \in Ops
      PROVE  /\ busy' = p => Runs(kernel, ops'[p])
             /\ ops'[p].kind = None => ops'[p].buffers = <<>> /\ ops'[p].written = 0
             /\ Ended(ops'[p])
  <2>1. CASE p = o BY <2>1, NobodyElse
  <2>2. CASE p # o BY <2>2, NobodyElse DEF Transfers
  <2> QED BY <2>1, <2>2
<1>4. Files(kernel) BY DEF Transfers
<1> QED BY <1>2, <1>3, <1>4 DEF Transfers

\* Begin sets the other variables, too.
LEMMA BeginGives ==
  ASSUME FsInv, NEW o \in Ops, NEW kind, NEW path, NEW data, Begin(o, kind, path, data)
  PROVE  /\ ops'[o].path = path /\ ops'[o].data = data /\ ops'[o].buffers = ops[o].buffers
         /\ ops'[o].written = ops[o].written
<1>1. ops' = [ops EXCEPT ![o].kind = kind, ![o].path = path, ![o].data = data,
                         ![o].step = "open"]
  BY DEF Begin
<1>2. ops = [p \in Ops |-> ops[p]] /\ IsOp(ops[o]) BY DEF FsInv, FsType
<1> DEFINE d == [ops[o] EXCEPT !.kind = kind, !.path = path, !.data = data, !.step = "open"]
<1>3. ops' = [ops EXCEPT ![o] = d] BY <1>1, <1>2
<1>4. /\ d.path = path /\ d.data = data /\ d.buffers = ops[o].buffers
      /\ d.written = ops[o].written
  BY <1>2 DEF IsOp, OpFields
<1> HIDE DEF d
<1> QED BY <1>2, <1>3, <1>4

\* A call that makes a request.
LEMMA AsyncTransfers ==
  ASSUME FsInv, FsWhole, FsType', NEW o \in Ops, NEW kind \in {"readFile", "writeFile", "stat"},
         NEW path \in Paths, NEW data,
         Begin(o, kind, path, data), NEW r, IsRequest(r), r.op = o, r.stage = "queued",
         kind = "stat" => r.call = "stat",
         kind # "stat" => /\ r.call = "open" /\ r.path = path
                          /\ r.mode = IF kind = "readFile" THEN "r" ELSE "w",
         kind = "writeFile" => data \in Seq(Nat),
         FS_ASYNC(r), UNCHANGED <<kernel, busy>>
  PROVE  FsWhole'
<1> SUFFICES ASSUME NoFailure' PROVE Transfers' BY DEF FsWhole
<1>0. PICK d : d = ops'[o] OBVIOUS
<1>1. /\ \A p \in Ops : p # o => ops'[p] = ops[p]
      /\ d.kind = kind /\ d.ended = 0 /\ ops[o].kind = None /\ busy = Nobody
  BY <1>0, BeginSets
<1>2. ops[o].failed = FALSE BY <1>1, Fresh
<1>3. NoFailure BY <1>1, <1>2 DEF NoFailure
<1>4. Transfers BY <1>3 DEF FsWhole
<1>5. ops[o].buffers = <<>> /\ ops[o].written = 0 BY <1>1, <1>4 DEF Transfers
<1>6. d.path = path /\ d.data = data /\ d.buffers = <<>> /\ d.written = 0
  BY <1>0, <1>5, BeginGives
<1>7. Before(d) BY <1>1, <1>6 DEF Before, IsWriter
<1>8. Waiting(kernel, d, r)
  BY <1>1, <1>6, <1>7 DEF Waiting, IsReader, IsWriter
<1>9. r.cb \notin {"readEnd", "closed"} BY DEF IsRequest, CallbackOf
<1>10. Carries(kernel, d, r) BY <1>1, <1>6, <1>8, <1>9 DEF Carries
<1> DEFINE a == [err |-> TRUE, n |-> 0, bytes |-> <<>>]
           refused == [r EXCEPT !.stage = "refused", !.answer = a]
<1>11. PICK z \in {r, refused} : reqs' = Append(reqs, z) BY DEF FS_ASYNC
<1>12. a.err = TRUE OBVIOUS
<1> HIDE DEF a
<1>13. /\ refused.op = o /\ refused.call = r.call /\ refused.cb = r.cb
       /\ refused.stage = "refused" /\ refused.answer = a
  BY DEF IsRequest, RequestFields
<1> HIDE DEF refused
<1>14. Carries(kernel, d, refused) BY <1>10, <1>12, <1>13 DEF Carries
<1>15. z.op = o /\ Carries(kernel, d, z) BY <1>10, <1>11, <1>13, <1>14
<1>16. PICK S : reqs \in Seq(S) BY DEF FsInv, IsList
<1>17. /\ Len(reqs') = Len(reqs) + 1 /\ reqs'[Len(reqs) + 1] = z
       /\ \A j \in 1..Len(reqs) : reqs'[j] = reqs[j]
  BY <1>11, <1>16, ListAppend
<1>18. Len(reqs) \in Nat BY <1>16
<1>19. \A j \in 1..Len(reqs') :
         \/ \E m \in 1..Len(reqs) : reqs'[j] = reqs[m]
         \/ reqs'[j].op = o /\ Carries(kernel, ops'[o], reqs'[j])
  <2> TAKE j \in 1..Len(reqs')
  <2>1. j \in 1..Len(reqs) \/ j = Len(reqs) + 1 BY <1>17, <1>18
  <2> QED BY <1>0, <1>15, <1>17, <2>1
<1>20. Ended(ops'[o]) /\ ops'[o].kind # None BY <1>0, <1>1 DEF Ended, None
<1>21. kernel' = kernel /\ busy' = Nobody /\ busy' # o BY <1>1, NobodyElse
<1> QED BY <1>1, <1>3, <1>4, <1>19, <1>20, <1>21, StartTransfers

\* A call that runs.
LEMMA SyncBegins ==
  ASSUME FsInv, FsWhole, FsType', NEW o \in Ops,
         NEW kind \in {"readFileSync", "writeFileSync"}, NEW path \in Paths, NEW len \in Nat,
         Sync(o, kind, path, len)
  PROVE  FsWhole'
<1> SUFFICES ASSUME NoFailure' PROVE Transfers' BY DEF FsWhole
<1>0. PICK d : d = ops'[o] OBVIOUS
<1>1. Begin(o, kind, path, DataOf(o, len)) /\ busy' = o /\ UNCHANGED <<kernel, reqs>>
  BY DEF Sync
<1>2. /\ \A p \in Ops : p # o => ops'[p] = ops[p]
      /\ d.kind = kind /\ d.ended = 0 /\ d.step = "open" /\ ops[o].kind = None /\ busy = Nobody
  BY <1>0, <1>1, BeginSets
<1>3. ops[o].failed = FALSE BY <1>2, Fresh
<1>4. NoFailure BY <1>2, <1>3 DEF NoFailure
<1>5. Transfers BY <1>4 DEF FsWhole
<1>6. ops[o].buffers = <<>> /\ ops[o].written = 0 BY <1>2, <1>5 DEF Transfers
<1>7. d.path = path /\ d.data = DataOf(o, len) /\ d.buffers = <<>> /\ d.written = 0
  BY <1>0, <1>1, <1>6, BeginGives
<1>8. DataOf(o, len) \in Seq(Nat) BY FsAssumption DEF DataOf
<1>9. Before(d) BY <1>7, <1>8 DEF Before
<1>10. Runs(kernel, d) BY <1>2, <1>7, <1>9 DEF Runs
<1>11. Ended(ops'[o]) /\ ops'[o].kind # None BY <1>0, <1>2 DEF Ended, None
<1>12. \A j \in 1..Len(reqs') : \E m \in 1..Len(reqs) : reqs'[j] = reqs[m] BY <1>1
<1>13. kernel' = kernel BY <1>1
<1> QED BY <1>0, <1>1, <1>2, <1>4, <1>5, <1>10, <1>11, <1>12, <1>13, StartTransfers

\* A call that has returned.
LEMMA PlainReturns ==
  ASSUME FsInv, FsWhole, FsType', NEW o \in Ops, NEW path, NEW kind \in {"statSync", "readdir"},
         plainSync(o, path, kind)
  PROVE  FsWhole'
<1> SUFFICES ASSUME NoFailure' PROVE Transfers' BY DEF FsWhole
<1>1. ops[o].kind = None /\ busy = Nobody /\ UNCHANGED <<kernel, reqs, busy>>
  BY DEF plainSync, MayCall, Idle
<1>2. IsOp(ops[o]) /\ ops[o].failed = FALSE BY <1>1, Fresh
<1> DEFINE e == [ops[o] EXCEPT !.kind = kind, !.path = path]
<1>3. PICK c : c = e OBVIOUS
<1>4. IsOp(c) /\ c.kind = kind BY <1>2, <1>3 DEF IsOp, OpFields
<1>5. PICK err : ops' = [ops EXCEPT ![o] = callback(e, err, <<>>)] BY DEF plainSync
<1> HIDE DEF e
<1>6. PICK d : d = callback(c, err, <<>>) OBVIOUS
<1>7. d.kind = kind BY <1>4, <1>6, CallbackSets
<1>8. ops'[o] = d /\ \A p \in Ops : p # o => ops'[p] = ops[p]
  BY <1>3, <1>5, <1>6 DEF FsInv, FsType
<1>9. NoFailure BY <1>2, <1>8 DEF NoFailure
<1>10. Transfers BY <1>9 DEF FsWhole
<1>11. Ended(ops'[o]) /\ ops'[o].kind # None BY <1>7, <1>8 DEF Ended, IsReader, IsWriter, None
<1>12. \A j \in 1..Len(reqs') : \E m \in 1..Len(reqs) : reqs'[j] = reqs[m] BY <1>1
<1>13. kernel' = kernel /\ busy' = Nobody /\ busy' # o BY <1>1, NobodyElse
<1> QED BY <1>1, <1>8, <1>9, <1>10, <1>11, <1>12, <1>13, StartTransfers

\* A synchronous call goes on or returns.
LEMMA SyncGoesOn ==
  ASSUME FsInv, FsType', NEW o \in Ops, busy = o, reqs' = reqs, Files(kernel'),
         \A p \in Ops : p # o => Known(kernel', ops'[p], reqs, p),
         ops'[o].kind # None, Ended(ops'[o]),
         busy' = Nobody \/ (busy' = o /\ Runs(kernel', ops'[o]))
  PROVE  Transfers'
<1>1. \A j \in 1..Len(reqs) : reqs[j].op # o /\ reqs[j].op \in Ops
  BY DEF FsInv, Separate, FsType, IsRequest
<1>2. ASSUME NEW j \in 1..Len(reqs') PROVE Carries(kernel', ops'[reqs'[j].op], reqs'[j])
  BY <1>1 DEF Known
<1>3. ASSUME NEW p \in Ops
      PROVE  /\ busy' = p => Runs(kernel', ops'[p])
             /\ ops'[p].kind = None => ops'[p].buffers = <<>> /\ ops'[p].written = 0
             /\ Ended(ops'[p])
  <2>1. CASE p = o BY <2>1, NobodyElse
  <2>2. CASE p # o BY <2>2, NobodyElse DEF Known
  <2> QED BY <2>1, <2>2
<1> QED BY <1>2, <1>3 DEF Transfers

\* What the system call r of a synchronous call moves, and what remains to be shown.
LEMMA SyncCallTransfers ==
  ASSUME FsInv, NoFailure, Transfers, FsType', NEW o \in Ops, busy = o,
         NEW c, c = ops[o], NEW r, IsRequest(r), r.op = o, r.stage = "queued",
         \/ r.call = "open" /\ c.step = "open"
         \/ /\ r.call \in {"read", "write", "close"} /\ r.fd = c.fd
            /\ c.step \in {"loop", "close"},
         Waiting(kernel, c, r), NEW a \in Outcomes(kernel, r), NEW d, SyncCall(o, r, a, d),
         d.kind = c.kind, Ended(d)
  PROVE  /\ ~a.err => Answered(a.kernel, c, r, a)
         /\ busy' = Nobody \/ (busy' = o /\ Runs(a.kernel, d)) => Transfers'
<1>1. Held /\ FsType /\ Runs(kernel, c) BY DEF FsInv, Transfers
<1>2. IsKernel(kernel) /\ Files(kernel) BY <1>1 DEF Held, Transfers
<1>3. Holds(kernel.fds, c, r) BY <1>1 DEF Held, Holds
<1>4. c.path \in Paths /\ c.kind # None BY <1>1 DEF Runs, None
<1>5. Transferred(kernel, c, r, a) BY <1>2, <1>3, <1>4, SystemTransfers
<1>6. PICK l : l = a.kernel OBVIOUS
<1>7. Files(l) /\ Untouched(r.op, kernel.fds, l.fds) BY <1>5, <1>6 DEF Transferred
<1>8. /\ ops' = [Disturb(r, kernel, l) EXCEPT ![o] = d] /\ kernel' = l /\ reqs' = reqs
  BY <1>6 DEF SyncCall
<1>9. Disturb(r, kernel, l) = [p \in Ops |-> Disturb(r, kernel, l)[p]] BY DEF Disturb
<1>10. ops'[o] = d /\ \A p \in Ops : p # o => ops'[p] = Disturb(r, kernel, l)[p]
  BY <1>8, <1>9
<1>11. ASSUME NEW p \in Ops, p # o PROVE Known(l, ops'[p], reqs, p)
  <2>1. Known(l, Disturb(r, kernel, l)[p], reqs, p) BY <1>7, <1>11, OthersKnown
  <2> QED BY <1>10, <1>11, <2>1
<1>12. ASSUME busy' = Nobody \/ (busy' = o /\ Runs(l, d)) PROVE Transfers'
  <2>1. Files(kernel') /\ \A p \in Ops : p # o => Known(kernel', ops'[p], reqs, p)
    BY <1>7, <1>8, <1>11
  <2>2. ops'[o].kind # None /\ Ended(ops'[o]) BY <1>4, <1>10
  <2>3. busy' = Nobody \/ (busy' = o /\ Runs(kernel', ops'[o])) BY <1>8, <1>10, <1>12
  <2> QED BY <1>8, <2>1, <2>2, <2>3, SyncGoesOn
<1> QED BY <1>5, <1>6, <1>12 DEF Transferred

\* A synchronous call that runs has not ended.
LEMMA StillRuns ==
  ASSUME FsInv, FsWhole, NEW o \in Ops, busy = o,
         \A p \in Ops : p # o => ops'[p].failed = ops[p].failed,
         ops[o].step \in {"open", "loop"} \/ ops'[o].failed = ops[o].failed, NoFailure'
  PROVE  /\ NoFailure /\ Transfers /\ ops[o].ended = 0 /\ IsOp(ops[o])
         /\ Runs(kernel, ops[o])
<1>1. NoFailure
  <2> SUFFICES ASSUME NEW p \in Ops PROVE ~ops[p].failed BY DEF NoFailure
  <2>1. CASE p = o BY <2>1 DEF FsInv, Separate, NoFailure
  <2>2. CASE p # o BY <2>2 DEF NoFailure
  <2> QED BY <2>1, <2>2
<1>2. Transfers BY <1>1 DEF FsWhole
<1> QED BY <1>1, <1>2 DEF FsInv, OneByOne, FsType, NoFailure, Transfers

\* openSync.
LEMMA SyncOpenTransfers ==
  ASSUME FsInv, FsWhole, FsType', NEW o \in Ops, SyncOpen(o)
  PROVE  FsWhole'
<1> SUFFICES ASSUME NoFailure' PROVE Transfers' BY DEF FsWhole
<1>0. PICK c : c = ops[o] OBVIOUS
<1>1. PICK r : r = open(o, IF c.kind = "readFileSync" THEN "r" ELSE "w") OBVIOUS
<1>2. busy = o /\ c.step = "open" BY <1>0 DEF SyncOpen
<1>3. PICK a \in Outcomes(kernel, r) :
        /\ SyncCall(o, r, a, IF a.err THEN callback(c, TRUE, <<>>)
                             ELSE [c EXCEPT !.fd = a.n, !.step = "loop"])
        /\ busy' = IF a.err THEN Nobody ELSE o
  BY <1>0, <1>1 DEF SyncOpen
<1>4. IsRequest(r) /\ r.op = o /\ r.stage = "queued" BY <1>1, RequestsFit
<1>5. /\ r.call = "open" /\ r.path = c.path
      /\ r.mode = IF c.kind = "readFileSync" THEN "r" ELSE "w"
  BY <1>0, <1>1 DEF open, Request
<1>6. \A p \in Ops : p # o => ops'[p].failed = ops[p].failed
  <2>1. PICK d : SyncCall(o, r, a, d) BY <1>3
  <2>2. Others(o) BY <2>1, SyncCallSets
  <2> QED BY <2>2 DEF Others, Alike
<1>7. NoFailure /\ Transfers /\ c.ended = 0 /\ IsOp(c) /\ Runs(kernel, c)
  <2>1. ops[o].step \in {"open", "loop"} BY <1>0, <1>2
  <2>2. /\ NoFailure /\ Transfers /\ ops[o].ended = 0 /\ IsOp(ops[o])
        /\ Runs(kernel, ops[o])
    BY <1>2, <1>6, <2>1, StillRuns
  <2> QED BY <1>0, <2>2
<1>8. /\ c.path \in Paths /\ Before(c) /\ c.kind \in {"readFileSync", "writeFileSync"}
  BY <1>2, <1>7 DEF Runs
<1>9. Waiting(kernel, c, r) BY <1>5, <1>8 DEF Waiting, IsReader, IsWriter
<1>10. CASE a.err
  <2>1. PICK e : e = TRUE OBVIOUS
  <2>2. PICK d : d = callback(c, e, <<>>) OBVIOUS
  <2>3. SyncCall(o, r, a, d) /\ busy' = Nobody BY <1>3, <1>10, <2>1, <2>2
  <2>4. d.kind = c.kind BY <1>7, <2>2, CallbackSets
  <2>5. Ended(d) BY <1>7, <1>8, <2>1, <2>2, EndsWhole
  <2> QED BY <1>0, <1>2, <1>4, <1>5, <1>7, <1>9, <2>3, <2>4, <2>5, SyncCallTransfers
<1>11. CASE ~a.err
  <2> DEFINE f == [c EXCEPT !.fd = a.n, !.step = "loop"]
  <2>1. PICK d : d = f OBVIOUS
  <2>2. SyncCall(o, r, a, d) /\ busy' = o BY <1>3, <1>11, <2>1
  <2>3. /\ d.kind = c.kind /\ d.ended = 0 /\ d.fd = a.n /\ d.step = "loop" /\ d.path = c.path
        /\ d.data = c.data /\ d.disturbed = c.disturbed /\ d.buffers = c.buffers
        /\ d.written = c.written
    BY <1>7, <2>1 DEF IsOp, OpFields
  <2> HIDE DEF f
  <2>4. Ended(d) BY <2>3 DEF Ended
  <2>5. /\ ~a.err => Answered(a.kernel, c, r, a)
        /\ busy' = Nobody \/ (busy' = o /\ Runs(a.kernel, d)) => Transfers'
    BY <1>0, <1>2, <1>4, <1>5, <1>7, <1>9, <2>2, <2>3, <2>4, SyncCallTransfers
  <2>6. During(a.kernel.fds[a.n], a.kernel.disk[c.path], c, c.buffers, c.written)
    BY <1>5, <1>11, <2>5 DEF Answered
  <2>7. During(a.kernel.fds[a.n], a.kernel.disk[c.path], d, c.buffers, c.written)
    BY <2>3, <2>6, DuringOf
  <2>8. Runs(a.kernel, d) BY <1>8, <2>3, <2>7 DEF Runs
  <2> QED BY <2>2, <2>5, <2>8
<1> QED BY <1>10, <1>11

\* The loop of readFileSync.
LEMMA SyncReadTransfers ==
  ASSUME FsInv, FsWhole, FsType', NEW o \in Ops, SyncRead(o)
  PROVE  FsWhole'
<1> SUFFICES ASSUME NoFailure' PROVE Transfers' BY DEF FsWhole
<1>0. PICK c : c = ops[o] OBVIOUS
<1>1. PICK r : r = read(o, c.fd) OBVIOUS
<1>2. busy = o /\ c.step = "loop" /\ c.kind = "readFileSync" /\ busy' = o
  BY <1>0 DEF SyncRead
<1>3. PICK a \in Outcomes(kernel, r) :
        SyncCall(o, r, a,
                 IF a.err \/ a.n = 0 THEN [c EXCEPT !.step = "close", !.failed = a.err]
                 ELSE [c EXCEPT !.buffers =
                         Append(@, slice(a.bytes \o bufferwrap_create(Segment - a.n), 0, a.n))])
  BY <1>0, <1>1 DEF SyncRead
<1>4. IsRequest(r) /\ r.op = o /\ r.stage = "queued" BY <1>1, RequestsFit
<1>5. r.call = "read" /\ r.fd = c.fd /\ r.n = Segment BY <1>1 DEF read, Request
<1>6. \A p \in Ops : p # o => ops'[p].failed = ops[p].failed
  BY <1>3, SyncCallSets DEF Others, Alike
<1>7. NoFailure /\ Transfers /\ c.ended = 0 /\ IsOp(c) /\ Runs(kernel, c)
  BY <1>0, <1>2, <1>6, StillRuns
<1>8. /\ c.path \in Paths
      /\ During(kernel.fds[c.fd], kernel.disk[c.path], c, c.buffers, c.written)
  BY <1>2, <1>7 DEF Runs
<1>9. Waiting(kernel, c, r) BY <1>2, <1>5, <1>8 DEF Waiting, IsReader
<1>10. ASSUME NEW d, SyncCall(o, r, a, d), d.kind = c.kind, d.ended = 0
       PROVE  /\ ~a.err => Answered(a.kernel, c, r, a)
              /\ Runs(a.kernel, d) => Transfers'
  <2>1. Ended(d) BY <1>10 DEF Ended
  <2> QED BY <1>0, <1>2, <1>4, <1>5, <1>7, <1>9, <1>10, <2>1, SyncCallTransfers
<1>11. CASE a.err \/ a.n = 0
  <2> DEFINE f == [c EXCEPT !.step = "close", !.failed = a.err]
  <2>1. PICK d : d = f OBVIOUS
  <2>2. SyncCall(o, r, a, d) BY <1>3, <1>11, <2>1
  <2>3. /\ d.kind = c.kind /\ d.ended = 0 /\ d.fd = c.fd /\ d.step = "close"
        /\ d.path = c.path /\ d.data = c.data /\ d.disturbed = c.disturbed
        /\ d.buffers = c.buffers /\ d.failed = a.err
    BY <1>7, <2>1 DEF IsOp, OpFields
  <2> HIDE DEF f
  <2>4. ops'[o] = d BY <2>2, SyncCallSets
  <2>5. ~a.err BY <2>3, <2>4 DEF NoFailure
  <2>6. After(a.kernel.disk[c.path], c) BY <1>5, <1>10, <1>11, <2>2, <2>3, <2>5 DEF Answered
  <2>7. After(a.kernel.disk[c.path], d) BY <2>3, <2>6 DEF After, IsReader, IsWriter
  <2>8. Runs(a.kernel, d) BY <1>2, <1>8, <2>3, <2>7 DEF Runs
  <2> QED BY <1>10, <2>2, <2>3, <2>8
<1>12. CASE ~(a.err \/ a.n = 0)
  <2>1. PICK b : b = Append(c.buffers,
                            slice(a.bytes \o bufferwrap_create(Segment - a.n), 0, a.n))
    OBVIOUS
  <2> DEFINE f == [c EXCEPT !.buffers = b]
  <2>2. PICK d : d = f OBVIOUS
  <2>3. SyncCall(o, r, a, d) BY <1>3, <1>12, <2>1, <2>2
  <2>4. /\ d.kind = c.kind /\ d.ended = 0 /\ d.fd = c.fd /\ d.step = "loop"
        /\ d.path = c.path /\ d.data = c.data /\ d.disturbed = c.disturbed
        /\ d.buffers = b /\ d.written = c.written
    BY <1>2, <1>7, <2>2 DEF IsOp, OpFields
  <2> HIDE DEF f
  <2>5. Answered(a.kernel, c, r, a) BY <1>10, <1>12, <2>3, <2>4
  <2>6. /\ a.bytes \in Seq(Nat) /\ Len(a.bytes) = a.n /\ a.n \in 0..Segment
        /\ During(a.kernel.fds[c.fd], a.kernel.disk[c.path], c, Append(c.buffers, a.bytes),
                  c.written)
    BY <1>5, <1>12, <2>5 DEF Answered
  <2>7. slice(a.bytes \o bufferwrap_create(Segment - a.n), 0, a.n) = a.bytes
    BY <2>6, SliceRead
  <2>8. During(a.kernel.fds[c.fd], a.kernel.disk[c.path], c, b, c.written)
    BY <2>1, <2>6, <2>7
  <2>9. During(a.kernel.fds[c.fd], a.kernel.disk[c.path], d, b, c.written)
    BY <2>4, <2>8, DuringOf
  <2>10. Runs(a.kernel, d) BY <1>2, <1>8, <2>4, <2>9 DEF Runs
  <2> QED BY <1>10, <2>3, <2>4, <2>10
<1> QED BY <1>11, <1>12

\* closeSync.
LEMMA SyncCloseTransfers ==
  ASSUME FsInv, FsWhole, FsType', NEW o \in Ops, SyncClose(o)
  PROVE  FsWhole'
<1> SUFFICES ASSUME NoFailure' PROVE Transfers' BY DEF FsWhole
<1>0. PICK c : c = ops[o] OBVIOUS
<1>1. PICK r : r = close(o, c.fd, "closed") OBVIOUS
<1>2. busy = o /\ c.step = "close" /\ busy' = Nobody BY <1>0 DEF SyncClose
<1>3. PICK a \in Outcomes(kernel, r) : SyncCall(o, r, a, callback(c, a.err, concat(c.buffers)))
  BY <1>0, <1>1 DEF SyncClose
<1>4. IsRequest(r) /\ r.op = o /\ r.stage = "queued" BY <1>1, RequestsFit
<1>5. r.call = "close" /\ r.fd = c.fd BY <1>1 DEF close, Request
<1>6. PICK got : got = concat(c.buffers) OBVIOUS
<1>7. PICK err : err = a.err OBVIOUS
<1>8. PICK d : d = callback(c, err, got) OBVIOUS
<1>9. SyncCall(o, r, a, d) BY <1>3, <1>6, <1>7, <1>8
<1>10. ops'[o] = d /\ \A p \in Ops : p # o => ops'[p].failed = ops[p].failed
  BY <1>9, SyncCallSets DEF Others, Alike
<1>11. IsOp(c) BY <1>0 DEF FsInv, FsType
<1>12. d.kind = c.kind /\ d.failed = c.failed BY <1>8, <1>11, CallbackSets
<1>13. NoFailure /\ Transfers /\ Runs(kernel, c)
  BY <1>0, <1>2, <1>10, <1>12, StillRuns
<1>14. c.path \in Paths /\ After(kernel.disk[c.path], c) BY <1>2, <1>13 DEF Runs
<1>15. Ended(d) BY <1>6, <1>8, <1>11, <1>14, EndsWhole
<1>16. Waiting(kernel, c, r) BY <1>5, <1>14 DEF Waiting
<1> QED BY <1>0, <1>2, <1>4, <1>5, <1>9, <1>12, <1>13, <1>15, <1>16, SyncCallTransfers

\* The loop of writeFileSync.
LEMMA SyncWriteTransfers ==
  ASSUME FsInv, FsWhole, FsType', NEW o \in Ops, SyncWrite(o)
  PROVE  FsWhole'
<1> SUFFICES ASSUME NoFailure' PROVE Transfers' BY DEF FsWhole
<1>0. PICK c : c = ops[o] OBVIOUS
<1>1. PICK r : r = write(o, c) OBVIOUS
<1>2. busy = o /\ c.step = "loop" /\ c.kind = "writeFileSync" /\ busy' = o
  BY <1>0 DEF SyncWrite
<1>3. \/ /\ WriteThrows(c) /\ ops' = [ops EXCEPT ![o].step = "close"]
         /\ UNCHANGED <<kernel, reqs>>
      \/ /\ ~WriteThrows(c)
         /\ \E a \in Outcomes(kernel, r) :
              SyncCall(o, r, a,
                       [c EXCEPT !.written = @ + a.n, !.failed = a.err,
                          !.step = IF a.err \/ c.written + a.n = Len(c.data)
                                   THEN "close" ELSE "loop"])
  BY <1>0, <1>1 DEF SyncWrite
<1>4. ASSUME \A p \in Ops : p # o => ops'[p].failed = ops[p].failed
      PROVE  /\ NoFailure /\ Transfers /\ c.ended = 0 /\ IsOp(c) /\ c.path \in Paths
             /\ During(kernel.fds[c.fd], kernel.disk[c.path], c, c.buffers, c.written)
             /\ c.data \in Seq(Nat) /\ c.written \in 0..Len(c.data)
             /\ ~c.disturbed => kernel.disk[c.path] = SubSeq(c.data, 1, c.written)
  <2>1. NoFailure /\ Transfers /\ c.ended = 0 /\ IsOp(c) /\ Runs(kernel, c)
    BY <1>0, <1>2, <1>4, StillRuns
  <2>2. /\ c.path \in Paths
        /\ During(kernel.fds[c.fd], kernel.disk[c.path], c, c.buffers, c.written)
    BY <1>2, <2>1 DEF Runs
  <2> QED BY <1>2, <2>1, <2>2 DEF During, IsWriter
<1>5. CASE WriteThrows(c)
  <2>1. ops' = [ops EXCEPT ![o].step = "close"] /\ kernel' = kernel /\ reqs' = reqs
    BY <1>3, <1>5
  <2> DEFINE f == [c EXCEPT !.step = "close"]
  <2>2. PICK d : d = f OBVIOUS
  <2>3. ops'[o] = d /\ \A p \in Ops : p # o => ops'[p] = ops[p]
    BY <1>0, <2>1, <2>2 DEF FsInv, FsType
  <2>4. /\ NoFailure /\ Transfers /\ c.ended = 0 /\ IsOp(c) /\ c.path \in Paths
        /\ c.data \in Seq(Nat) /\ c.written \in 0..Len(c.data)
        /\ ~c.disturbed => kernel.disk[c.path] = SubSeq(c.data, 1, c.written)
    BY <1>4, <2>3
  <2>5. /\ d.kind = c.kind /\ d.ended = 0 /\ d.step = "close" /\ d.path = c.path
        /\ d.data = c.data /\ d.disturbed = c.disturbed
    BY <2>2, <2>4 DEF IsOp, OpFields
  <2> HIDE DEF f
  <2>6. c.written = Len(c.data)
    <3> SUFFICES ASSUME c.written < Len(c.data) PROVE FALSE BY <2>4
    <3>1. /\ Len(c.data) \in Nat /\ c.written \in Nat BY <2>4
    <3>2. /\ tryN(Len(c.data), c.written) \in Nat \ {0}
          /\ c.written + tryN(Len(c.data), c.written) <= Len(c.data)
      BY <3>1, TryFits
    <3>3. PICK t \in Nat : t = tryN(Len(c.data), c.written) BY <3>2
    <3> QED BY <1>5, <3>1, <3>2, <3>3 DEF WriteThrows
  <2>7. SubSeq(c.data, 1, Len(c.data)) = c.data BY <2>4
  <2>8. After(kernel.disk[c.path], d)
    BY <1>2, <2>4, <2>5, <2>6, <2>7 DEF After, IsReader, IsWriter
  <2>9. Runs(kernel, d) BY <1>2, <2>4, <2>5, <2>8 DEF Runs
  <2>10. Ended(d) /\ d.kind # None BY <1>2, <2>5 DEF Ended, None
  <2>11. FsType BY DEF FsInv
  <2>12. Files(kernel) /\ \A p \in Ops : Known(kernel, ops[p], reqs, p)
    BY <2>4, <2>11, TransfersOf
  <2>13. Files(kernel') /\ \A p \in Ops : p # o => Known(kernel', ops'[p], reqs, p)
    BY <2>1, <2>3, <2>12
  <2>14. busy' = o /\ Runs(kernel', ops'[o]) BY <1>2, <2>1, <2>3, <2>9
  <2> QED BY <1>2, <2>1, <2>3, <2>10, <2>13, <2>14, SyncGoesOn
<1>6. CASE ~WriteThrows(c)
  <2>1. PICK a \in Outcomes(kernel, r) :
          SyncCall(o, r, a,
                   [c EXCEPT !.written = @ + a.n, !.failed = a.err,
                      !.step = IF a.err \/ c.written + a.n = Len(c.data)
                               THEN "close" ELSE "loop"])
    BY <1>3, <1>6
  <2>2. PICK w : w = c.written + a.n OBVIOUS
  <2>3. PICK s : s = IF a.err \/ w = Len(c.data) THEN "close" ELSE "loop" OBVIOUS
  <2> DEFINE f == [c EXCEPT !.written = w, !.failed = a.err, !.step = s]
  <2>4. PICK d : d = f OBVIOUS
  <2>5. SyncCall(o, r, a, d) BY <2>1, <2>2, <2>3, <2>4
  <2>6. ops'[o] = d /\ \A p \in Ops : p # o => ops'[p].failed = ops[p].failed
    BY <2>5, SyncCallSets DEF Others, Alike
  <2>7. /\ NoFailure /\ Transfers /\ c.ended = 0 /\ IsOp(c) /\ c.path \in Paths
        /\ During(kernel.fds[c.fd], kernel.disk[c.path], c, c.buffers, c.written)
        /\ c.data \in Seq(Nat) /\ c.written \in 0..Len(c.data)
    BY <1>4, <2>6
  <2>8. /\ d.kind = c.kind /\ d.ended = 0 /\ d.fd = c.fd /\ d.step = s /\ d.path = c.path
        /\ d.data = c.data /\ d.disturbed = c.disturbed /\ d.buffers = c.buffers
        /\ d.written = w /\ d.failed = a.err
    BY <2>4, <2>7 DEF IsOp, OpFields
  <2> HIDE DEF f
  <2>9. ~a.err BY <2>6, <2>8 DEF NoFailure
  <2>10. c.written # NaN /\ c.written < Len(c.data) BY <1>6, <2>7 DEF WriteThrows, NaN
  <2>11. IsRequest(r) /\ r.op = o /\ r.stage = "queued" BY <1>1, RequestsFit
  <2>12. /\ r.call = "write" /\ r.fd = c.fd /\ r.pos = c.written
         /\ r.bytes = SubSeq(c.data, c.written + 1, c.written + tryN(Len(c.data), c.written))
    BY <1>1, <2>10 DEF write, Request
  <2>13. Waiting(kernel, c, r) BY <1>2, <2>7, <2>10, <2>12 DEF Waiting, IsWriter
  <2>14. Ended(d) BY <2>8 DEF Ended
  <2>15. /\ ~a.err => Answered(a.kernel, c, r, a)
         /\ busy' = Nobody \/ (busy' = o /\ Runs(a.kernel, d)) => Transfers'
    BY <1>0, <1>2, <2>5, <2>7, <2>8, <2>11, <2>12, <2>13, <2>14, SyncCallTransfers
  <2>16. PICK file : file = a.kernel.disk[c.path] OBVIOUS
  <2>17. During(a.kernel.fds[c.fd], file, c, c.buffers, w)
    BY <2>2, <2>9, <2>12, <2>15, <2>16 DEF Answered
  <2>18. CASE w = Len(c.data)
    <3>1. s = "close" BY <2>3, <2>18
    <3>2. SubSeq(c.data, 1, Len(c.data)) = c.data BY <2>7
    <3>3. ~c.disturbed => file = c.data BY <1>2, <2>17, <2>18, <3>2 DEF During, IsWriter
    <3>4. After(file, d) BY <1>2, <2>8, <3>3 DEF After, IsReader
    <3>5. Runs(a.kernel, d) BY <1>2, <2>7, <2>8, <2>16, <3>1, <3>4 DEF Runs
    <3> QED BY <1>2, <2>15, <3>5
  <2>19. CASE w # Len(c.data)
    <3>1. s = "loop" BY <2>3, <2>9, <2>19
    <3>2. During(a.kernel.fds[c.fd], file, d, c.buffers, w) BY <2>8, <2>17, DuringOf
    <3>3. Runs(a.kernel, d) BY <1>2, <2>7, <2>8, <2>16, <3>1, <3>2 DEF Runs
    <3> QED BY <1>2, <2>15, <3>3
  <2> QED BY <2>18, <2>19
<1> QED BY <1>5, <1>6

\* The calls of the application, and every other step.
LEMMA FsWholeStep ==
  ASSUME FsInv, FsWhole, FsType', [Next]_fsvars
  PROVE  FsWhole'
<1>1. CASE UNCHANGED fsvars
  <2>1. kernel' = kernel /\ reqs' = reqs /\ ops' = ops /\ busy' = busy BY <1>1 DEF fsvars
  <2> QED BY <2>1 DEF FsWhole, NoFailure, Transfers
<1>2. ASSUME NEW i \in 1..Len(reqs), Work(i) \/ AfterAsync(i) PROVE FsWhole'
  BY <1>2, WorkTransfers, AfterAsyncTransfers
<1>3. ASSUME NEW o \in Ops, SyncStep(o) PROVE FsWhole'
  BY <1>3, SyncOpenTransfers, SyncReadTransfers, SyncWriteTransfers, SyncCloseTransfers
  DEF SyncStep
<1>4. ASSUME NEW o \in Ops, NEW path \in Paths, NEW kind \in {"readFile", "writeFile"},
             NEW data \in Seq(Nat), NEW mode, mode = (IF kind = "readFile" THEN "r" ELSE "w"),
             Begin(o, kind, path, data), FS_ASYNC([open(o, mode) EXCEPT !.path = path]),
             UNCHANGED <<kernel, busy>>
      PROVE FsWhole'
  <2>1. PICK q : q = open(o, mode) OBVIOUS
  <2>2. IsRequest(q) /\ q.op = o /\ q.stage = "queued" BY <2>1, RequestsFit
  <2>3. q.call = "open" /\ q.mode = mode BY <2>1 DEF open, Request
  <2> DEFINE e == [q EXCEPT !.path = path]
  <2>4. PICK r : r = e OBVIOUS
  <2>5. /\ IsRequest(r) /\ r.op = o /\ r.stage = "queued" /\ r.call = "open" /\ r.path = path
        /\ r.mode = mode
    BY <2>2, <2>3, <2>4 DEF IsRequest, RequestFields
  <2>6. FS_ASYNC(r) BY <1>4, <2>1, <2>4
  <2> HIDE DEF e
  <2>7. kind \in {"readFile", "writeFile", "stat"} /\ kind # "stat" OBVIOUS
  <2> QED BY <1>4, <2>5, <2>6, <2>7, AsyncTransfers
<1>5. ASSUME NEW o \in Ops, NEW path \in Paths, readFile(o, path) PROVE FsWhole'
  <2>1. <<>> \in Seq(Nat) OBVIOUS
  <2> QED BY <1>4, <1>5, <2>1 DEF readFile
<1>6. ASSUME NEW o \in Ops, NEW path \in Paths, NEW len \in Lengths, writeFile(o, path, len)
      PROVE FsWhole'
  <2>1. DataOf(o, len) \in Seq(Nat) BY FsAssumption DEF DataOf
  <2>2. PICK data \in Seq(Nat) : data = DataOf(o, len) BY <2>1
  <2> QED BY <1>4, <1>6, <2>2 DEF writeFile
<1>7. ASSUME NEW o \in Ops, NEW path \in Paths, plainCall(o, path) PROVE FsWhole'
  <2>1. PICK r : r = Request(o, "stat", "plain") OBVIOUS
  <2>2. IsRequest(r) /\ r.op = o /\ r.stage = "queued" BY <2>1, RequestsFit
  <2>3. r.call = "stat" BY <2>1 DEF Request
  <2>4. /\ Begin(o, "stat", path, <<>>) /\ FS_ASYNC(r) /\ UNCHANGED <<kernel, busy>>
    BY <1>7, <2>1 DEF plainCall
  <2>5. PICK kind : kind = "stat" OBVIOUS
  <2> QED BY <2>2, <2>3, <2>4, <2>5, AsyncTransfers
<1>8. ASSUME NEW o \in Ops, NEW path, NEW kind \in {"statSync", "readdir"},
             plainSync(o, path, kind)
      PROVE FsWhole'
  BY <1>8, PlainReturns
<1>9. ASSUME NEW o \in Ops, NEW path \in Paths, NEW kind \in {"readFileSync", "writeFileSync"},
             NEW len \in Nat, Sync(o, kind, path, len)
      PROVE FsWhole'
  BY <1>9, SyncBegins
<1>10. \A o \in Ops : PathsOf(o) \subseteq Paths
  <2>1. (CHOOSE p \in Paths : TRUE) \in Paths BY FsAssumption
  <2> QED BY <2>1 DEF PathsOf
<1>11. Lengths \subseteq Nat /\ 0 \in Nat BY FsAssumption
<1>12. CASE Next
  <2>1. ASSUME NEW o \in Ops, NEW path \in Paths,
               \/ readFile(o, path) \/ plainCall(o, path)
               \/ plainSync(o, path, "statSync") \/ readdir(o, path)
               \/ \E len \in Lengths :
                    writeFile(o, path, len) \/ Sync(o, "writeFileSync", path, len)
               \/ Sync(o, "readFileSync", path, 0)
        PROVE FsWhole'
    BY <1>5, <1>6, <1>7, <1>8, <1>9, <1>11, <2>1 DEF readdir
  <2> QED BY <1>2, <1>3, <1>10, <1>12, <2>1 DEF Next
<1> QED BY <1>1, <1>12

\* Nothing has been moved.
LEMMA FsWholeBegins == Init => FsWhole
<1> SUFFICES ASSUME Init PROVE Transfers BY DEF FsWhole
<1>1. /\ kernel.disk = [p \in Paths |-> [i \in 1..longest |-> i]] /\ reqs = <<>>
      /\ busy = Nobody /\ ops = [o \in Ops |-> Blank]
  BY DEF Init
<1>2. longest \in Nat
  <2>1. longest \in Lengths BY FsAssumption DEF longest
  <2> QED BY <2>1, FsAssumption
<1>3. PICK n \in Nat : n = longest BY <1>2
<1>4. [i \in 1..n |-> i] \in Seq(Nat) OBVIOUS
<1>5. Files(kernel) BY <1>1, <1>3, <1>4 DEF Files
<1>6. Blank.ended = 0 /\ Blank.buffers = <<>> /\ Blank.written = 0 BY DEF Blank
<1>7. Len(reqs) = 0 BY <1>1
<1>8. \A o \in Ops : busy # o BY <1>1, NobodyElse
<1> QED BY <1>1, <1>5, <1>6, <1>7, <1>8 DEF Transfers, Ended

\* FsWhole is an invariant of fs, for files and data of any length, any length of a
\* segment and any number of calls: what readFile, writeFile, afterRead, afterWrite
\* and the loops of their synchronous forms have moved so far.
THEOREM FsWholeInvariant == Spec => []FsWhole
<1>1. FsInv /\ FsWhole /\ [Next]_fsvars => FsInv' /\ FsWhole'
  <2> SUFFICES ASSUME FsInv, FsWhole, [Next]_fsvars PROVE FsInv' /\ FsWhole' OBVIOUS
  <2>1. FsInv' BY FsStep
  <2>2. FsType' BY <2>1 DEF FsInv
  <2> QED BY <2>1, <2>2, FsWholeStep
<1> QED BY <1>1, FsBegins, FsWholeBegins, PTL DEF Spec

\* A call that reports success has moved the whole file, unless a read or a write
\* has failed, or another call wrote to the file meanwhile: over all lengths, short
\* reads and writes, and the boundary of a segment.
THEOREM TransferWholeHolds == Spec => []TransferWhole
<1>1. FsWhole => TransferWhole
  BY DEF FsWhole, Transfers, Ended, IsReader, IsWriter, TransferWhole
<1> QED BY <1>1, FsWholeInvariant, PTL
=============================================================================
