---------------------------- MODULE StreamProofs ----------------------------
(***************************************************************************)
(* What a DataStream promises the client that reads what another wrote,    *)
(* for any values, any sizes of buffers, and any number of values: a loss  *)
(* is noticed (LossIsNoticed), and what was not lost comes back            *)
(* (WhatWasWrittenIsRead).                                                 *)
(*                                                                         *)
(* Ideal(s, n) is what the first n of the values s are in an endless       *)
(* buffer.  StreamInv says of the writer that the buffer is Ideal, or that *)
(* all before some chunk is there and that chunk goes beyond the buffer    *)
(* (Damaged), although later ones may stand in its place; and of a reader  *)
(* whose errno_ is clear that it stands at the end of Ideal of what it has *)
(* read, and that the buffer begins with that (OnCourse).  A reader whose  *)
(* errno_ is clear at the end has thus met the whole of Ideal, which a     *)
(* damaged buffer cannot hold.                                             *)
(*                                                                         *)
(* Of bytes that no DataStream wrote, what a reader accepts is a value in  *)
(* no more bytes than it needs (OnlyValuesAreAccepted): the converses of   *)
(* the facts about numbers and elements, and what becomes of entries that  *)
(* are put into a set or map in any order (EmplacedAscends).               *)
(*                                                                         *)
(* And what a MemoryStream promises, for any numbers of streams, bytes and *)
(* octets in a line: the log tells the contents (LogsTell).  A dump is     *)
(* taken to cells of which the octets are picked (Cells), group by group   *)
(* and line by line (TellsUpTo); MemoryInv says what buffers hold, and     *)
(* that logs have no logs.                                                 *)
(***************************************************************************)
EXTENDS DataStream, MemoryStream, SequenceTheorems, FiniteSetTheorems, WellFoundedInduction, TLAPS

-----------------------------------------------------------------------------
(* Induction and recursion over numbers.                                   *)

\* A set that has 0, and with each number the next, has them all.
LEMMA Induction ==
  ASSUME NEW S, 0 \in S, \A n \in S \cap Nat : n + 1 \in S
  PROVE  Nat \subseteq S
  <1> DEFINE rest == Nat \ S
  <1>1. SUFFICES ASSUME rest # {} PROVE FALSE
    OBVIOUS
  <1>2. PICK less : less = OpToRel(<, Nat)
    OBVIOUS
  <1>3. \A m, n \in Nat : <<m, n>> \in less <=> m < n
    BY <1>2 DEF OpToRel
  <1>4. PICK n \in rest : \A m \in rest : <<m, n>> \notin less
    <2>1. IsWellFoundedOn(less, Nat)
      BY <1>2, NatLessThanWellFounded
    <2>2. rest \subseteq Nat
      OBVIOUS
    <2>3. QED
      BY <1>1, <2>1, <2>2, WFMin
  <1>5. n \in Nat /\ n # 0 /\ \A m \in rest : ~(m < n)
    BY <1>3, <1>4
  <1>6. PICK m \in Nat : n = m + 1
    BY <1>5
  <1>7. m \notin rest
    BY <1>5, <1>6
  <1>8. QED
    BY <1>4, <1>6, <1>7

\* What a set of numbers holds, its least number holds and none before it.
LEMMA First ==
  ASSUME NEW S, S \subseteq Nat, S # {}
  PROVE  \E n \in S : \A m \in S : n <= m
  <1>1. PICK less : less = OpToRel(<, Nat)
    OBVIOUS
  <1>2. \A m, n \in Nat : <<m, n>> \in less <=> m < n
    BY <1>1 DEF OpToRel
  <1>3. IsWellFoundedOn(less, Nat)
    BY <1>1, NatLessThanWellFounded
  <1>4. PICK n \in S : \A m \in S : <<m, n>> \notin less
    BY <1>3, WFMin
  <1>5. \A m \in S : m \in Nat /\ n \in Nat /\ ~(m < n)
    BY <1>2, <1>4
  <1>6. QED
    BY <1>5

\* A function on the numbers, by its first value and its steps.
Stepwise(f, first, step) == f[0] = first /\ \A k \in Nat : f[k + 1] = step[k][f[k]]

\* There is one for each first value and step.
LEMMA Recursion ==
  ASSUME NEW X, NEW first \in X, NEW step \in [Nat -> [X -> X]]
  PROVE  \E f \in [Nat -> X] : Stepwise(f, first, step)
  <1> DEFINE Upto(n) == {g \in [0..n -> X] : /\ g[0] = first
                                            /\ \A k \in 0..n - 1 : g[k + 1] = step[k][g[k]]}
  <1>1. \A n \in Nat : Upto(n) # {}
    <2> DEFINE S == {n \in Nat : Upto(n) # {}}
    <2>1. 0 \in S
      <3>1. [k \in 0..0 |-> first] \in Upto(0)
        OBVIOUS
      <3>2. QED
        BY <3>1
    <2>2. ASSUME NEW n \in S PROVE n + 1 \in S
      <3>1. PICK g : g \in Upto(n)
        BY <2>2
      <3>2. n \in Nat /\ g[n] \in X /\ step[n][g[n]] \in X
        BY <2>2, <3>1
      <3> DEFINE h == [k \in 0..n + 1 |-> IF k <= n THEN g[k] ELSE step[n][g[n]]]
      <3>3. h \in [0..n + 1 -> X] /\ h[0] = first
        BY <3>1, <3>2
      <3>4. ASSUME NEW k \in 0..n PROVE h[k + 1] = step[k][h[k]]
        <4>1. CASE k = n
          <5>1. h[n] = g[n] /\ h[n + 1] = step[n][g[n]]
            BY <3>2
          <5>2. QED
            BY <4>1, <5>1
        <4>2. CASE k < n
          BY <3>1, <3>2, <4>2
        <4>3. QED
          BY <3>2, <4>1, <4>2
      <3>5. h \in Upto(n + 1)
        <4> HIDE DEF h
        <4>1. n + 1 - 1 = n
          BY <3>2
        <4>2. QED
          BY <3>3, <3>4, <4>1
      <3>6. QED
        <4> HIDE DEF h, Upto
        <4>1. QED
          BY <3>2, <3>5
    <2>3. Nat \subseteq S
      <3> HIDE DEF S
      <3>1. \A n \in S \cap Nat : n + 1 \in S
        BY <2>2
      <3>2. QED
        BY <2>1, <3>1, Induction
    <2>4. QED
      BY <2>3
  <1>2. \A m, n \in Nat : m <= n => \A g \in Upto(m), h \in Upto(n) : g[m] = h[m]
    <2> SUFFICES ASSUME NEW m \in Nat, NEW n \in Nat, m <= n, NEW g \in Upto(m), NEW h \in Upto(n)
                 PROVE  g[m] = h[m]
      OBVIOUS
    <2> DEFINE S == {k \in Nat : k <= m => g[k] = h[k]}
    <2>1. 0 \in S
      OBVIOUS
    <2>2. ASSUME NEW k \in S PROVE k + 1 \in S
      <3>1. ASSUME k + 1 <= m PROVE g[k + 1] = h[k + 1]
        <4>1. k \in 0..m - 1 /\ k \in 0..n - 1 /\ g[k] = h[k]
          BY <2>2, <3>1
        <4>2. QED
          BY <4>1
      <3>2. QED
        BY <2>2, <3>1
    <2>3. Nat \subseteq S
      <3> HIDE DEF S
      <3>1. \A k \in S \cap Nat : k + 1 \in S
        BY <2>2
      <3>2. QED
        BY <2>1, <3>1, Induction
    <2>4. QED
      BY <2>3
  <1> DEFINE one(n) == CHOOSE g : g \in Upto(n)
             f == [n \in Nat |-> one(n)[n]]
  <1>3. \A n \in Nat : one(n) \in Upto(n)
    <2> HIDE DEF Upto
    <2>1. QED
      BY <1>1
  <1>4. f \in [Nat -> X] /\ f[0] = first
    <2> HIDE DEF one
    <2>1. ASSUME NEW n \in Nat PROVE one(n)[n] \in X
      BY <1>3
    <2>2. QED
      BY <1>3, <2>1
  <1>5. ASSUME NEW k \in Nat PROVE f[k + 1] = step[k][f[k]]
    <2>1. one(k) \in Upto(k) /\ one(k + 1) \in Upto(k + 1)
      <3> HIDE DEF one, Upto
      <3>1. QED
        BY <1>3
    <2>2. one(k)[k] = one(k + 1)[k]
      <3> HIDE DEF one, Upto
      <3>1. k <= k + 1 /\ k + 1 \in Nat
        OBVIOUS
      <3>2. QED
        BY <1>2, <2>1, <3>1
    <2>3. one(k + 1)[k + 1] = step[k][one(k + 1)[k]]
      <3> HIDE DEF one
      <3>1. k \in 0..k + 1 - 1
        OBVIOUS
      <3>2. QED
        BY <2>1, <3>1
    <2>4. QED
      <3> HIDE DEF one, Upto
      <3>1. QED
        BY <2>2, <2>3
  <1>6. Stepwise(f, first, step)
    BY <1>4, <1>5 DEF Stepwise
  <1>7. QED
    BY <1>4, <1>6

-----------------------------------------------------------------------------
(* Sequences put together.                                                 *)

\* FlattenSeq puts one element after another.
LEMMA FlattenRuns ==
  ASSUME NEW S, NEW seqs \in Seq(Seq(S))
  PROVE  \E f \in [0..Len(seqs) -> Seq(S)] :
            /\ f[0] = <<>> /\ FlattenSeq(seqs) = f[Len(seqs)]
            /\ \A k \in 0..Len(seqs) - 1 : f[k + 1] = f[k] \o seqs[k + 1]
  <1> DEFINE n == Len(seqs)
             step == [k \in Nat |-> [s \in Seq(S) |-> IF k < n THEN s \o seqs[k + 1] ELSE s]]
             turn(h) == [i \in 1..n |-> IF i = 1 THEN seqs[i] ELSE h[i - 1] \o seqs[i]]
             flatten == CHOOSE h : h = turn(h)
  <1>1. n \in Nat /\ \A k \in 1..n : seqs[k] \in Seq(S)
    OBVIOUS
  <1>2. step \in [Nat -> [Seq(S) -> Seq(S)]]
    <2>1. ASSUME NEW k \in Nat, NEW s \in Seq(S)
          PROVE  (IF k < n THEN s \o seqs[k + 1] ELSE s) \in Seq(S)
      <3>1. CASE k < n
        <4>1. seqs[k + 1] \in Seq(S)
          BY <1>1, <3>1
        <4>2. QED
          BY <3>1, <4>1, ConcatProperties
      <3>2. QED
        BY <3>1
    <2>2. QED
      BY <2>1
  <1>3. PICK g \in [Nat -> Seq(S)] : g[0] = <<>> /\ \A k \in Nat : g[k + 1] = step[k][g[k]]
    <2> HIDE DEF step
    <2>1. <<>> \in Seq(S)
      OBVIOUS
    <2>2. PICK g \in [Nat -> Seq(S)] : Stepwise(g, <<>>, step)
      BY <1>2, <2>1, Recursion
    <2>3. QED
      BY <2>2 DEF Stepwise
  <1>4. ASSUME NEW k \in 0..n - 1 PROVE g[k + 1] = g[k] \o seqs[k + 1]
    <2> HIDE DEF step
    <2>1. k \in Nat /\ k < n /\ g[k] \in Seq(S)
      BY <1>1, <1>3
    <2>2. step[k][g[k]] = g[k] \o seqs[k + 1]
      BY <2>1 DEF step
    <2>3. QED
      BY <1>3, <2>1, <2>2
  <1> DEFINE f == [k \in 0..n |-> g[k]]
  <1>5. f \in [0..n -> Seq(S)] /\ f[0] = <<>>
    BY <1>1, <1>3
  <1>6. ASSUME NEW k \in 0..n - 1 PROVE f[k + 1] = f[k] \o seqs[k + 1]
    <2>1. f[k + 1] = g[k + 1] /\ f[k] = g[k]
      BY <1>1
    <2>2. QED
      BY <1>4, <2>1
  <1>7. FlattenSeq(seqs) = g[n]
    <2>1. CASE n = 0
      <3>1. seqs = <<>>
        BY <2>1
      <3>2. FlattenSeq(seqs) = seqs
        BY <2>1 DEF FlattenSeq
      <3>3. QED
        BY <1>3, <2>1, <3>1, <3>2
    <2>2. CASE n # 0
      <3>1. g[1] = seqs[1]
        <4>0. 0 \in 0..n - 1 /\ 1 \in 1..n
          BY <1>1, <2>2
        <4>1. g[0 + 1] = g[0] \o seqs[0 + 1] /\ seqs[1] \in Seq(S)
          BY <1>1, <1>4, <4>0
        <4>2. <<>> \o seqs[1] = seqs[1]
          BY <4>1, ConcatEmptySeq
        <4>3. QED
          BY <1>3, <4>1, <4>2
      <3> DEFINE h == [k \in 1..n |-> g[k]]
      <3>2. h = turn(h)
        <4>1. ASSUME NEW i \in 1..n PROVE g[i] = IF i = 1 THEN seqs[i] ELSE h[i - 1] \o seqs[i]
          <5>1. CASE i = 1
            BY <3>1, <5>1
          <5>2. CASE i # 1
            <6>1. PICK j \in 1..n - 1 : i = j + 1
              BY <1>1, <5>2
            <6>0. j \in 0..n - 1 /\ j \in 1..n
              BY <1>1
            <6>2. i - 1 = j /\ h[j] = g[j]
              BY <6>0, <6>1
            <6>3. g[j + 1] = g[j] \o seqs[j + 1]
              BY <1>4, <6>0
            <6>4. QED
              BY <5>2, <6>1, <6>2, <6>3
          <5>3. QED
            BY <5>1, <5>2
        <4>2. QED
          BY <4>1
      <3>3. flatten = turn(flatten)
        <4> HIDE DEF turn, h
        <4>1. QED
          BY <3>2
      <3>4. FlattenSeq(seqs) = flatten[n]
        BY <2>2 DEF FlattenSeq
      <3> HIDE DEF flatten
      <3>5. flatten[1] = seqs[1]
        <4>1. 1 \in 1..n
          BY <1>1, <2>2
        <4>2. turn(flatten)[1] = seqs[1]
          BY <4>1
        <4>3. QED
          BY <3>3, <4>2
      <3>6. ASSUME NEW k \in 1..n - 1 PROVE flatten[k + 1] = flatten[k] \o seqs[k + 1]
        <4>1. PICK i \in 1..n : i = k + 1 /\ i # 1 /\ i - 1 = k
          BY <1>1
        <4>2. turn(flatten)[i] = flatten[i - 1] \o seqs[i]
          BY <4>1
        <4>3. QED
          BY <3>3, <4>1, <4>2
      <3> DEFINE T == {k \in Nat : k \in 1..n => flatten[k] = g[k]}
      <3>7. 0 \in T
        OBVIOUS
      <3>8. ASSUME NEW k \in T \cap Nat PROVE k + 1 \in T
        <4>1. ASSUME k + 1 \in 1..n PROVE flatten[k + 1] = g[k + 1]
          <5>1. CASE k = 0
            BY <3>1, <3>5, <5>1
          <5>2. CASE k # 0
            <6>1. k \in 1..n - 1 /\ flatten[k] = g[k]
              BY <1>1, <3>8, <4>1, <5>2
            <6>2. k \in 0..n - 1
              BY <6>1
            <6>3. QED
              BY <1>4, <3>6, <6>1, <6>2
          <5>3. QED
            BY <5>1, <5>2
        <4>2. QED
          BY <4>1
      <3>9. Nat \subseteq T
        <4> HIDE DEF T
        <4>1. QED
          BY <3>7, <3>8, Induction
      <3>10. QED
        BY <1>1, <2>2, <3>4, <3>9
    <2>3. QED
      BY <2>1, <2>2
  <1>8. FlattenSeq(seqs) = f[n]
    BY <1>1, <1>7
  <1>9. QED
    <2> HIDE DEF f
    <2>1. QED
      BY <1>5, <1>6, <1>8

\* Sequences of elements of S put together have elements of S.
LEMMA FlattenType ==
  ASSUME NEW S, NEW seqs \in Seq(Seq(S))
  PROVE  FlattenSeq(seqs) \in Seq(S)
  <1>1. PICK f \in [0..Len(seqs) -> Seq(S)] : FlattenSeq(seqs) = f[Len(seqs)]
    BY FlattenRuns
  <1>2. Len(seqs) \in 0..Len(seqs)
    OBVIOUS
  <1>3. QED
    BY <1>1, <1>2

\* Nothing put together is nothing.
LEMMA FlattenEmpty == FlattenSeq(<<>>) = <<>>
  BY DEF FlattenSeq

\* One more element comes last.
LEMMA FlattenAppend ==
  ASSUME NEW S, NEW seqs \in Seq(Seq(S)), NEW s \in Seq(S)
  PROVE  FlattenSeq(Append(seqs, s)) = FlattenSeq(seqs) \o s
  <1> DEFINE more == Append(seqs, s)
             n == Len(seqs)
  <1>1. /\ n \in Nat /\ more \in Seq(Seq(S)) /\ Len(more) = n + 1
        /\ more[n + 1] = s /\ \A k \in 1..n : more[k] = seqs[k]
    OBVIOUS
  <1> HIDE DEF more, n
  <1>2. PICK f \in [0..n -> Seq(S)] :
           /\ f[0] = <<>> /\ FlattenSeq(seqs) = f[n]
           /\ \A k \in 0..n - 1 : f[k + 1] = f[k] \o seqs[k + 1]
    BY FlattenRuns DEF n
  <1>3. PICK g \in [0..Len(more) -> Seq(S)] :
           /\ g[0] = <<>> /\ FlattenSeq(more) = g[Len(more)]
           /\ \A k \in 0..Len(more) - 1 : g[k + 1] = g[k] \o more[k + 1]
    BY <1>1, FlattenRuns
  <1>4. ASSUME NEW k \in 0..n PROVE g[k + 1] = g[k] \o more[k + 1]
    <2>1. k \in 0..Len(more) - 1
      BY <1>1
    <2>2. QED
      BY <1>3, <2>1
  <1> DEFINE T == {k \in Nat : k \in 0..n => f[k] = g[k]}
  <1>5. 0 \in T
    BY <1>2, <1>3
  <1>6. ASSUME NEW k \in T \cap Nat PROVE k + 1 \in T
    <2>1. ASSUME k + 1 \in 0..n PROVE f[k + 1] = g[k + 1]
      <3>1. k \in 0..n - 1 /\ k \in 0..n /\ k + 1 \in 1..n
        BY <1>1, <2>1
      <3>2. f[k] = g[k] /\ more[k + 1] = seqs[k + 1]
        BY <1>1, <1>6, <3>1
      <3>3. f[k + 1] = f[k] \o seqs[k + 1]
        BY <1>2, <3>1
      <3>4. g[k + 1] = g[k] \o more[k + 1]
        BY <1>4, <3>1
      <3>5. QED
        BY <3>2, <3>3, <3>4
    <2>2. QED
      BY <2>1
  <1>7. Nat \subseteq T
    <2> HIDE DEF T
    <2>1. QED
      BY <1>5, <1>6, Induction
  <1>8. n \in 0..n /\ f[n] = g[n]
    BY <1>1, <1>7
  <1>9. g[n + 1] = g[n] \o more[n + 1]
    BY <1>4, <1>8
  <1>10. QED
    BY <1>1, <1>2, <1>3, <1>8, <1>9 DEF more

\* One sequence put together is itself.
LEMMA FlattenSingle ==
  ASSUME NEW S, NEW s \in Seq(S)
  PROVE  FlattenSeq(<<s>>) = s
  <1>1. FlattenSeq(Append(<<>>, s)) = FlattenSeq(<<>>) \o s
    <2>1. <<>> \in Seq(Seq(S))
      OBVIOUS
    <2>2. QED
      BY <2>1, FlattenAppend
  <1>2. Append(<<>>, s) = <<s>>
    OBVIOUS
  <1>3. <<>> \o s = s
    BY ConcatEmptySeq
  <1>4. QED
    BY <1>1, <1>2, <1>3, FlattenEmpty

\* The last element of a sequence, and those before it.
LEMMA LastApart ==
  ASSUME NEW S, NEW s \in Seq(S), NEW n \in Nat, Len(s) = n + 1
  PROVE  /\ SubSeq(s, 1, n) \in Seq(S) /\ Len(SubSeq(s, 1, n)) = n
         /\ \A k \in 1..n : SubSeq(s, 1, n)[k] = s[k]
         /\ s[n + 1] \in S
         /\ s = Append(SubSeq(s, 1, n), s[n + 1])
  <1>1. s \in [1..n + 1 -> S]
    OBVIOUS
  <1>2. \A k \in 1..n : s[k] \in S
    BY <1>1
  <1>3. /\ SubSeq(s, 1, n) \in Seq(S) /\ Len(SubSeq(s, 1, n)) = IF 1 <= n THEN n - 1 + 1 ELSE 0
        /\ \A k \in 1..n - 1 + 1 : SubSeq(s, 1, n)[k] = s[1 + k - 1]
    BY <1>2, SubSeqProperties
  <1>4. /\ SubSeq(s, 1, n) \in Seq(S) /\ Len(SubSeq(s, 1, n)) = n
        /\ \A k \in 1..n : SubSeq(s, 1, n)[k] = s[k]
    BY <1>3
  <1>5. s[n + 1] \in S
    BY <1>1
  <1> DEFINE t == SubSeq(s, 1, n)
             u == Append(t, s[n + 1])
  <1> HIDE DEF t
  <1>6. u \in Seq(S) /\ Len(u) = n + 1 /\ u[n + 1] = s[n + 1] /\ \A k \in 1..n : u[k] = t[k]
    BY <1>4, <1>5, AppendProperties DEF t
  <1>7. \A k \in 1..n + 1 : s[k] = u[k]
    <2> HIDE DEF u
    <2>1. QED
      BY <1>4, <1>6 DEF t
  <1>8. s = u
    <2> HIDE DEF u
    <2>1. QED
      BY <1>6, <1>7, SeqEqual
  <1>9. QED
    BY <1>4, <1>5, <1>8 DEF t

\* Putting together goes over to the parts.
LEMMA FlattenConcat ==
  ASSUME NEW S, NEW a \in Seq(Seq(S)), NEW b \in Seq(Seq(S))
  PROVE  FlattenSeq(a \o b) = FlattenSeq(a) \o FlattenSeq(b)
  <1> DEFINE Joins(n) == \A c \in Seq(Seq(S)) : Len(c) = n => FlattenSeq(a \o c) = FlattenSeq(a) \o FlattenSeq(c)
             T == {n \in Nat : Joins(n)}
  <1>0. FlattenSeq(a) \in Seq(S)
    BY FlattenType
  <1>1. 0 \in T
    <2>1. ASSUME NEW c \in Seq(Seq(S)), Len(c) = 0
          PROVE  FlattenSeq(a \o c) = FlattenSeq(a) \o FlattenSeq(c)
      <3>1. c = <<>>
        BY <2>1
      <3>2. a \o c = a /\ FlattenSeq(a) \o <<>> = FlattenSeq(a)
        BY <1>0, <3>1, ConcatEmptySeq
      <3>3. QED
        BY <3>1, <3>2, FlattenEmpty
    <2>2. QED
      BY <2>1
  <1>2. ASSUME NEW n \in T \cap Nat PROVE n + 1 \in T
    <2>1. ASSUME NEW c \in Seq(Seq(S)), Len(c) = n + 1
          PROVE  FlattenSeq(a \o c) = FlattenSeq(a) \o FlattenSeq(c)
      <3> DEFINE d == SubSeq(c, 1, n)
                 e == c[n + 1]
      <3>1. d \in Seq(Seq(S)) /\ Len(d) = n /\ e \in Seq(S) /\ c = Append(d, e)
        BY <2>1, LastApart
      <3> HIDE DEF d, e
      <3>2. a \o c = Append(a \o d, e) /\ a \o d \in Seq(Seq(S))
        BY <3>1
      <3>3. FlattenSeq(a \o c) = FlattenSeq(a \o d) \o e
        BY <3>1, <3>2, FlattenAppend
      <3>4. FlattenSeq(c) = FlattenSeq(d) \o e
        BY <3>1, FlattenAppend
      <3>5. FlattenSeq(a \o d) = FlattenSeq(a) \o FlattenSeq(d)
        BY <1>2, <3>1
      <3>6. FlattenSeq(d) \in Seq(S)
        BY <3>1, FlattenType
      <3>7. (FlattenSeq(a) \o FlattenSeq(d)) \o e = FlattenSeq(a) \o (FlattenSeq(d) \o e)
        <4>1. ASSUME NEW x \in Seq(S), NEW y \in Seq(S), NEW z \in Seq(S)
              PROVE  (x \o y) \o z = x \o (y \o z)
          BY ConcatAssociative
        <4>2. QED
          BY <1>0, <3>1, <3>6, <4>1
      <3>8. QED
        BY <3>3, <3>4, <3>5, <3>7
    <2>2. QED
      BY <2>1
  <1>3. Nat \subseteq T
    <2> HIDE DEF T
    <2>1. QED
      BY <1>1, <1>2, Induction
  <1>4. Len(b) \in Nat
    OBVIOUS
  <1>5. QED
    BY <1>3, <1>4

\* A place among size places after p that end before l.
LEMMA Within ==
  ASSUME NEW p \in Nat, NEW size \in Nat, NEW i \in 1..size, NEW l \in Nat, p + size <= l
  PROVE  p + i \in Nat /\ p + i >= 1 /\ p + i <= l
  OBVIOUS

\* Elements of one length stand at multiples of it.
EvenRuns(seqs, size) ==
    /\ Len(FlattenSeq(seqs)) = Len(seqs) * size
    /\ \A k \in 1..Len(seqs), i \in 1..size : FlattenSeq(seqs)[(k - 1) * size + i] = seqs[k][i]

\* Put together, sequences of one length are found at multiples of it.
LEMMA FlattenUniform ==
  ASSUME NEW S, NEW size \in Nat, NEW seqs \in Seq(Seq(S)),
         \A k \in 1..Len(seqs) : Len(seqs[k]) = size
  PROVE  EvenRuns(seqs, size)
  <1> DEFINE Even(s) == \A k \in 1..Len(s) : Len(s[k]) = size
             At(s) == /\ Len(FlattenSeq(s)) = Len(s) * size
                      /\ \A k \in 1..Len(s), i \in 1..size : FlattenSeq(s)[(k - 1) * size + i] = s[k][i]
             T == {n \in Nat : \A s \in Seq(Seq(S)) : Len(s) = n /\ Even(s) => At(s)}
  <1>1. 0 \in T
    <2>1. ASSUME NEW s \in Seq(Seq(S)), Len(s) = 0
          PROVE  At(s)
      <3>1. s = <<>>
        BY <2>1
      <3>2. QED
        BY <3>1, FlattenEmpty
    <2>2. QED
      BY <2>1
  <1>2. ASSUME NEW n \in T \cap Nat PROVE n + 1 \in T
    <2>1. ASSUME NEW s \in Seq(Seq(S)), Len(s) = n + 1, Even(s)
          PROVE  At(s)
      <3> DEFINE d == SubSeq(s, 1, n)
                 e == s[n + 1]
                 F == FlattenSeq(d)
                 G == FlattenSeq(s)
      <3>1. /\ d \in Seq(Seq(S)) /\ Len(d) = n /\ e \in Seq(S) /\ s = Append(d, e)
            /\ \A k \in 1..n : d[k] = s[k]
        BY <2>1, LastApart
      <3>2. Len(e) = size /\ Even(d)
        BY <2>1, <3>1
      <3> HIDE DEF d, e
      <3>3. G = F \o e /\ F \in Seq(S)
        BY <3>1, FlattenAppend, FlattenType
      <3>4. At(d)
        BY <1>2, <3>1, <3>2
      <3>5. Len(F) = n * size /\ \A k \in 1..n, i \in 1..size : F[(k - 1) * size + i] = d[k][i]
        BY <3>1, <3>4
      <3> HIDE DEF F, G
      <3>6. /\ Len(G) = Len(F) + size
            /\ \A j \in 1..Len(F) + size : G[j] = IF j <= Len(F) THEN F[j] ELSE e[j - Len(F)]
        <4>1. /\ Len(F \o e) = Len(F) + Len(e)
              /\ \A j \in 1..Len(F) + Len(e) :
                    (F \o e)[j] = IF j <= Len(F) THEN F[j] ELSE e[j - Len(F)]
          BY <3>1, <3>3, ConcatProperties
        <4>2. QED
          BY <3>2, <3>3, <4>1
      <3>7. Len(G) = Len(s) * size
        <4>1. (n + 1) * size = n * size + size
          OBVIOUS
        <4>2. QED
          BY <2>1, <3>5, <3>6, <4>1
      <3>8. ASSUME NEW k \in 1..Len(s), NEW i \in 1..size
            PROVE  G[(k - 1) * size + i] = s[k][i]
        <4>1. CASE k = n + 1
          <5>1. PICK p \in Nat : p = n * size
            OBVIOUS
          <5>2. (k - 1) * size = p /\ Len(F) = p
            <6>1. k - 1 = n
              BY <4>1
            <6>2. QED
              BY <3>5, <5>1, <6>1
          <5>3. G[p + i] = e[i]
            <6>1. p + i \in 1..Len(F) + size /\ p + i - Len(F) = i /\ ~(p + i <= Len(F))
              BY <5>2
            <6>2. QED
              BY <3>6, <6>1
          <5>4. QED
            BY <4>1, <5>2, <5>3 DEF e
        <4>2. CASE k \in 1..n
          <5>1. PICK p \in Nat : p = (k - 1) * size
            BY <4>2
          <5>2. p + size <= n * size
            <6>1. PICK r \in Nat : n = k + r
              BY <4>2
            <6>2. n * size = (k - 1) * size + size + r * size /\ r * size \in Nat
              BY <4>2, <6>1
            <6>3. QED
              BY <5>1, <6>2
          <5>3. p + i \in 1..Len(F) + size /\ p + i <= Len(F)
            <6>1. PICK l \in Nat : l = n * size /\ Len(F) = l
              BY <3>5
            <6>2. p + size <= l
              BY <5>2, <6>1
            <6>3. p + i \in Nat /\ p + i >= 1 /\ p + i <= l
              BY <5>1, <6>1, <6>2, Within
            <6>4. QED
              BY <6>1, <6>3
          <5>4. G[p + i] = F[p + i]
            BY <3>6, <5>3
          <5>5. F[p + i] = d[k][i]
            BY <3>5, <4>2, <5>1
          <5>6. QED
            BY <3>1, <4>2, <5>1, <5>4, <5>5
        <4>3. QED
          BY <2>1, <4>1, <4>2
      <3>9. QED
        BY <3>7, <3>8 DEF G
    <2>2. QED
      BY <2>1
  <1>3. Nat \subseteq T
    <2> HIDE DEF T
    <2>1. QED
      BY <1>1, <1>2, Induction
  <1>4. Len(seqs) \in T
    <2> HIDE DEF T
    <2>1. Len(seqs) \in Nat
      OBVIOUS
    <2>2. QED
      BY <1>3, <2>1
  <1>5. At(seqs)
    BY <1>4
  <1>6. QED
    BY <1>5 DEF EvenRuns

-----------------------------------------------------------------------------
(* The bytes of a number.                                                  *)

\* The sizes are numbers, and bytes and elements hold something.
LEMMA SizesType == Radix \in Nat /\ Radix > 1 /\ ElementSize \in Nat /\ ElementSize > 0 /\ kMaxElementNum \in Nat
  BY SizesAssumption

\* The steps of a recursive definition that stops at n.
StepwiseTo(n, f, first, step) ==
    /\ f[0] = first /\ \A k \in 0..n - 1 : f[k + 1] = step[k][f[k]]
    /\ f = [k \in 0..n |-> IF k = 0 THEN first ELSE step[k - 1][f[k - 1]]]

\* There is one for each first value and step.
LEMMA RecursionTo ==
  ASSUME NEW X, NEW first \in X, NEW step \in [Nat -> [X -> X]], NEW n \in Nat
  PROVE  \E f \in [0..n -> X] : StepwiseTo(n, f, first, step)
  <1>1. PICK g \in [Nat -> X] : Stepwise(g, first, step)
    BY Recursion
  <1>2. g[0] = first /\ \A k \in Nat : g[k + 1] = step[k][g[k]]
    BY <1>1 DEF Stepwise
  <1> DEFINE f == [k \in 0..n |-> g[k]]
  <1>3. f \in [0..n -> X] /\ f[0] = first
    BY <1>2
  <1>4. ASSUME NEW k \in 0..n - 1 PROVE f[k + 1] = step[k][f[k]]
    <2>1. k \in Nat /\ k \in 0..n /\ k + 1 \in 0..n
      OBVIOUS
    <2>2. QED
      BY <1>2, <2>1
  <1>5. ASSUME NEW k \in 0..n PROVE f[k] = IF k = 0 THEN first ELSE step[k - 1][f[k - 1]]
    <2>1. CASE k = 0
      BY <1>3, <2>1
    <2>2. CASE k # 0
      <3>1. PICK j \in 0..n - 1 : k = j + 1 /\ k - 1 = j
        BY <2>2
      <3> HIDE DEF f
      <3>2. QED
        BY <1>4, <2>2, <3>1
    <2>3. QED
      BY <2>1, <2>2
  <1>6. f = [k \in 0..n |-> IF k = 0 THEN first ELSE step[k - 1][f[k - 1]]]
    BY <1>3, <1>5
  <1>7. StepwiseTo(n, f, first, step)
    <2> HIDE DEF f
    <2>1. QED
      BY <1>3, <1>4, <1>6 DEF StepwiseTo
  <1>8. QED
    BY <1>3, <1>7

-----------------------------------------------------------------------------

\* Division by Radix and what it leaves.
LEMMA Divided ==
  ASSUME NEW n \in Nat
  PROVE  /\ n \div Radix \in Nat /\ n % Radix \in 0..Radix - 1
         /\ n = (n % Radix) + Radix * (n \div Radix)
         /\ n # 0 => n \div Radix < n
  <1>1. /\ n \div Radix \in Nat /\ n % Radix \in 0..Radix - 1
        /\ n = Radix * (n \div Radix) + (n % Radix)
    BY SizesType
  <1>0. n = (n % Radix) + Radix * (n \div Radix)
    <2>1. PICK q \in Nat, m \in Nat, p \in Nat : q = n \div Radix /\ m = n % Radix /\ p = Radix * q
      BY <1>1, SizesType
    <2>2. n = p + m
      BY <1>1, <2>1
    <2>3. n = m + p
      BY <2>1, <2>2
    <2>4. QED
      BY <2>1, <2>3
  <1>2. ASSUME n # 0 PROVE n \div Radix < n
    <2>1. PICK q \in Nat : q = n \div Radix
      BY <1>1
    <2>2. CASE q = 0
      BY <1>2, <2>1, <2>2
    <2>3. CASE q # 0
      <3>1. PICK r \in Nat : Radix = r + 2
        BY SizesType
      <3>2. Radix * q = r * q + 2 * q /\ r * q \in Nat
        BY <3>1
      <3>3. n >= 2 * q
        BY <1>1, <2>1, <3>2
      <3>4. QED
        BY <2>1, <2>3, <3>3
    <2>4. QED
      BY <2>2, <2>3
  <1>3. QED
    BY <1>0, <1>1, <1>2

\* The turns of the loop that writes a number.
LEMMA RestSteps ==
  ASSUME NEW n \in Nat
  PROVE  /\ Rest(n, 0) = n
         /\ \A k \in Nat : Rest(n, k) \in Nat /\ Rest(n, k + 1) = Rest(n, k) \div Radix
  <1> DEFINE step == [k \in Nat |-> [m \in Nat |-> m \div Radix]]
             turn(h) == [j \in Nat |-> IF j = 0 THEN n ELSE h[j - 1] \div Radix]
             rest == CHOOSE h : h = turn(h)
  <1>1. step \in [Nat -> [Nat -> Nat]]
    BY Divided
  <1>2. PICK g \in [Nat -> Nat] : g[0] = n /\ \A k \in Nat : g[k + 1] = g[k] \div Radix
    <2>1. PICK g \in [Nat -> Nat] : Stepwise(g, n, step)
      <3> HIDE DEF step
      <3>1. QED
        BY <1>1, Recursion
    <2>2. \A k \in Nat : step[k][g[k]] = g[k] \div Radix
      OBVIOUS
    <2> HIDE DEF step
    <2>3. QED
      BY <2>1, <2>2 DEF Stepwise
  <1>3. g = turn(g)
    <2>1. ASSUME NEW j \in Nat PROVE g[j] = IF j = 0 THEN n ELSE g[j - 1] \div Radix
      <3>1. CASE j = 0
        BY <1>2, <3>1
      <3>2. CASE j # 0
        <4>1. PICK k \in Nat : j = k + 1 /\ j - 1 = k
          BY <3>2
        <4>2. QED
          BY <1>2, <3>2, <4>1
      <3>3. QED
        BY <3>1, <3>2
    <2>2. QED
      BY <2>1
  <1>4. rest = turn(rest)
    <2> HIDE DEF turn
    <2>1. QED
      BY <1>3
  <1>5. \A k : Rest(n, k) = rest[k]
    BY DEF Rest
  <1> HIDE DEF rest
  <1>6. rest[0] = n
    <2>1. turn(rest)[0] = n
      OBVIOUS
    <2>2. QED
      BY <1>4, <2>1
  <1>7. ASSUME NEW k \in Nat PROVE rest[k + 1] = rest[k] \div Radix
    <2>1. PICK j \in Nat : j = k + 1 /\ j # 0 /\ j - 1 = k
      OBVIOUS
    <2>2. turn(rest)[j] = rest[j - 1] \div Radix
      BY <2>1
    <2>3. QED
      BY <1>4, <2>1, <2>2
  <1> DEFINE T == {k \in Nat : rest[k] \in Nat}
  <1>8. 0 \in T
    BY <1>6
  <1>9. ASSUME NEW k \in T \cap Nat PROVE k + 1 \in T
    BY <1>7, <1>9, Divided
  <1>10. Nat \subseteq T
    <2> HIDE DEF T
    <2>1. QED
      BY <1>8, <1>9, Induction
  <1>11. QED
    BY <1>5, <1>6, <1>7, <1>10

\* Nothing is left after as many turns as the number says.
LEMMA RestEnds ==
  ASSUME NEW n \in Nat
  PROVE  Rest(n, n + 1) = 0
  <1> DEFINE T == {k \in Nat : Rest(n, k) = 0 \/ Rest(n, k) + k <= n}
  <1>1. 0 \in T
    BY RestSteps
  <1>2. ASSUME NEW k \in T \cap Nat PROVE k + 1 \in T
    <2>1. PICK r \in Nat : r = Rest(n, k)
      BY RestSteps
    <2>2. Rest(n, k + 1) = r \div Radix /\ (r = 0 \/ r + k <= n)
      BY <1>2, <2>1, RestSteps
    <2>3. PICK q \in Nat : q = r \div Radix /\ (r # 0 => q < r) /\ (r = 0 => q = 0)
      <3>1. r = 0 => r \div Radix = 0
        BY SizesType
      <3>2. QED
        BY <3>1, Divided
    <2>4. q = 0 \/ q + (k + 1) <= n
      BY <2>2, <2>3
    <2>5. QED
      BY <2>2, <2>3, <2>4
  <1>3. Nat \subseteq T
    <2> HIDE DEF T
    <2>1. QED
      BY <1>1, <1>2, Induction
  <1>4. n + 1 \in T
    BY <1>3
  <1>5. QED
    BY <1>4, RestSteps

\* A number has the digits it needs and no more.
LEMMA DigitsType ==
  ASSUME NEW n \in Nat
  PROVE  /\ Digits(n) \in Nat /\ Digits(n) >= 1
         /\ Rest(n, Digits(n)) = 0
         /\ Digits(n) = 1 \/ Rest(n, Digits(n) - 1) # 0
  <1> DEFINE S == {d \in Nat : d >= 1 /\ Rest(n, d) = 0}
  <1>1. n + 1 \in S
    BY RestEnds
  <1>2. PICK d \in S : \A m \in S : d <= m
    <2>1. S \subseteq Nat /\ S # {}
      BY <1>1
    <2> HIDE DEF S
    <2>2. QED
      BY <2>1, First
  <1>3. d \in 1..n + 1 /\ Rest(n, d) = 0
    BY <1>1, <1>2
  <1>4. d = 1 \/ Rest(n, d - 1) # 0
    <2>1. ASSUME d # 1, Rest(n, d - 1) = 0 PROVE FALSE
      <3>1. d - 1 \in S
        BY <1>3, <2>1
      <3>2. QED
        BY <1>2, <1>3, <3>1
    <2>2. QED
      BY <2>1
  <1>5. \E e \in 1..n + 1 : Rest(n, e) = 0 /\ (e = 1 \/ Rest(n, e - 1) # 0)
    BY <1>3, <1>4
  <1>6. Digits(n) \in 1..n + 1 /\ Rest(n, Digits(n)) = 0 /\ (Digits(n) = 1 \/ Rest(n, Digits(n) - 1) # 0)
    BY <1>5 DEF Digits
  <1>7. QED
    BY <1>6

\* The bytes of a number, one to a chunk: all but the last say that more follow.
LEMMA VarUIntBytes ==
  ASSUME NEW n \in Nat
  PROVE  /\ VarUInt(n) \in Seq(Seq(Nat)) /\ Len(VarUInt(n)) = Digits(n)
         /\ \A k \in 1..Digits(n) :
               /\ Len(VarUInt(n)[k]) = 1 /\ VarUInt(n)[k][1] \in Nat
               /\ VarUInt(n)[k][1] % Radix = Rest(n, k - 1) % Radix
               /\ VarUInt(n)[k][1] < Radix <=> k = Digits(n)
  <1>1. Digits(n) \in Nat
    BY DigitsType
  <1> DEFINE byte(k) == (Rest(n, k - 1) % Radix) + (IF k < Digits(n) THEN Radix ELSE 0)
  <1>2. ASSUME NEW k \in 1..Digits(n)
        PROVE  /\ byte(k) \in Nat /\ byte(k) % Radix = Rest(n, k - 1) % Radix
               /\ byte(k) < Radix <=> k = Digits(n)
    <2>1. PICK m \in 0..Radix - 1 : m = Rest(n, k - 1) % Radix
      <3>1. k - 1 \in Nat
        BY <1>1
      <3>2. QED
        BY <3>1, RestSteps, Divided
    <2>2. m % Radix = m /\ (m + Radix) % Radix = m
      BY <2>1, SizesType
    <2>3. CASE k < Digits(n)
      <3>1. byte(k) = m + Radix /\ k # Digits(n)
        BY <1>1, <2>1, <2>3
      <3> HIDE DEF byte
      <3>2. byte(k) \in Nat /\ ~(byte(k) < Radix)
        BY <2>1, <3>1, SizesType
      <3>3. QED
        BY <2>1, <2>2, <3>1, <3>2
    <2>4. CASE k = Digits(n)
      <3>1. byte(k) = m
        BY <1>1, <2>1, <2>4
      <3> HIDE DEF byte
      <3>2. byte(k) \in Nat /\ byte(k) < Radix
        BY <2>1, <3>1, SizesType
      <3>3. QED
        BY <2>1, <2>2, <2>4, <3>1, <3>2
    <2>5. QED
      BY <1>1, <2>3, <2>4
  <1>3. VarUInt(n) = [k \in 1..Digits(n) |-> <<byte(k)>>]
    BY DEF VarUInt
  <1> HIDE DEF byte
  <1>4. \A k \in 1..Digits(n) : VarUInt(n)[k] = <<byte(k)>> /\ <<byte(k)>> \in Seq(Nat)
    BY <1>2, <1>3
  <1>5. VarUInt(n) \in Seq(Seq(Nat)) /\ Len(VarUInt(n)) = Digits(n)
    <2> DEFINE v == [k \in 1..Digits(n) |-> <<byte(k)>>]
    <2>1. v \in [1..Digits(n) -> Seq(Nat)]
      BY <1>3, <1>4
    <2> HIDE DEF v
    <2>2. v \in Seq(Seq(Nat)) /\ Len(v) = Digits(n)
      BY <1>1, <2>1
    <2>3. QED
      BY <1>3, <2>2 DEF v
  <1>6. ASSUME NEW k \in 1..Digits(n)
        PROVE  /\ Len(VarUInt(n)[k]) = 1 /\ VarUInt(n)[k][1] = byte(k)
    BY <1>4
  <1>7. QED
    BY <1>2, <1>5, <1>6

-----------------------------------------------------------------------------
(* Reading a number back.                                                  *)

\* The bytes of n stand from at + 1 on.
Stands(at, n) == \A k \in 1..Digits(n) : bytes[at + k] = VarUInt(n)[k][1]

\* What is read of them is n.
LEMMA JoinedNumber ==
  ASSUME NEW n \in Nat, NEW at \in Nat, Stands(at, n)
  PROVE  Joined(at, at + Digits(n)) = n
  <1> DEFINE d == Digits(n)
             end == at + d
             turn(h) == [k \in 0..end - at |-> IF k = 0 THEN 0
                                  ELSE (bytes[end - k + 1] % Radix) + Radix * h[k - 1]]
             sum == CHOOSE h : h = turn(h)
             f == [k \in 0..end - at |-> Rest(n, d - k)]
  <1>1. d \in Nat /\ d >= 1 /\ Rest(n, d) = 0 /\ end \in Nat /\ end - at = d
    BY DigitsType
  <1> HIDE DEF d
  <1>2. ASSUME NEW k \in 0..d - 1
        PROVE  Rest(n, d - (k + 1)) = (bytes[end - k] % Radix) + Radix * Rest(n, d - k)
    <2>1. PICK j \in Nat : j = d - k - 1 /\ j + 1 = d - k /\ j + 1 \in 1..d /\ at + (j + 1) = end - k /\ d - (k + 1) = j
      BY <1>1
    <2>2. bytes[end - k] % Radix = Rest(n, j) % Radix
      <3>1. bytes[at + (j + 1)] = VarUInt(n)[j + 1][1]
        BY <2>1 DEF Stands, d
      <3>2. VarUInt(n)[j + 1][1] % Radix = Rest(n, (j + 1) - 1) % Radix
        BY <2>1, VarUIntBytes DEF d
      <3>3. (j + 1) - 1 = j
        OBVIOUS
      <3>4. QED
        BY <2>1, <3>1, <3>2, <3>3
    <2>3. Rest(n, j) \in Nat /\ Rest(n, d - k) = Rest(n, j) \div Radix
      BY <2>1, RestSteps
    <2>4. Rest(n, j) = (Rest(n, j) % Radix) + Radix * (Rest(n, j) \div Radix)
      BY <2>3, Divided
    <2>5. QED
      BY <2>1, <2>2, <2>3, <2>4
  <1>3. f = turn(f)
    <2>1. ASSUME NEW k \in 0..end - at
          PROVE  Rest(n, d - k) = IF k = 0 THEN 0 ELSE (bytes[end - k + 1] % Radix) + Radix * f[k - 1]
      <3>1. CASE k = 0
        <4>1. d - k = d
          BY <1>1, <3>1
        <4>2. QED
          BY <1>1, <3>1, <4>1
      <3>2. CASE k # 0
        <4>1. PICK j \in 0..d - 1 : k = j + 1 /\ k - 1 = j /\ end - k + 1 = end - j /\ j \in 0..end - at
          BY <1>1, <3>2
        <4>2. f[k - 1] = Rest(n, d - j)
          BY <4>1
        <4> HIDE DEF f, end
        <4>3. Rest(n, d - (j + 1)) = (bytes[end - j] % Radix) + Radix * Rest(n, d - j)
          BY <1>2
        <4>4. QED
          BY <3>2, <4>1, <4>2, <4>3
      <3>3. QED
        BY <3>1, <3>2
    <2>2. QED
      BY <2>1
  <1>4. sum = turn(sum)
    <2> HIDE DEF turn, f
    <2>1. QED
      BY <1>3
  <1>5. Joined(at, end) = sum[end - at]
    BY DEF Joined
  <1> HIDE DEF sum, f
  <1> DEFINE T == {k \in Nat : k \in 0..d => sum[k] = Rest(n, d - k)}
  <1>6. 0 \in T
    <2>1. turn(sum)[0] = 0
      BY <1>1
    <2>2. sum[0] = 0 /\ d - 0 = d
      BY <1>1, <1>4, <2>1
    <2>3. QED
      BY <1>1, <2>2
  <1>7. ASSUME NEW k \in T \cap Nat PROVE k + 1 \in T
    <2>1. ASSUME k + 1 \in 0..d PROVE sum[k + 1] = Rest(n, d - (k + 1))
      <3>1. k \in 0..d - 1 /\ sum[k] = Rest(n, d - k)
        BY <1>1, <1>7, <2>1
      <3>2. PICK i \in 0..end - at : i = k + 1 /\ i # 0 /\ i - 1 = k /\ end - i + 1 = end - k
        BY <1>1, <2>1
      <3>3. turn(sum)[i] = (bytes[end - i + 1] % Radix) + Radix * sum[i - 1]
        BY <3>2
      <3> HIDE DEF turn, end
      <3>4. sum[i] = (bytes[end - k] % Radix) + Radix * Rest(n, d - k)
        BY <1>4, <3>1, <3>2, <3>3
      <3>5. QED
        BY <1>2, <3>1, <3>2, <3>4
    <2>2. QED
      BY <2>1
  <1>8. Nat \subseteq T
    <2> HIDE DEF T
    <2>1. QED
      BY <1>6, <1>7, Induction
  <1>9. sum[d] = Rest(n, 0)
    <2>1. d \in 0..d /\ d - d = 0
      BY <1>1
    <2>2. QED
      BY <1>1, <1>8, <2>1
  <1>10. QED
    BY <1>1, <1>5, <1>9, RestSteps DEF d

\* A number that is there whole is read whole.
LEMMA CountReadWhole ==
  ASSUME NEW n \in Nat, NEW at \in Nat, room \in Nat, at + Digits(n) <= room,
         \A k \in 1..room : bytes[k] \in Nat,
         Stands(at, n), n < Word, NEW c \in CountRead(at)
  PROVE  c = [pos |-> at + Digits(n), errno |-> errno_, n |-> n]
  <1> DEFINE d == Digits(n)
             ends == Ends(at)
  <1>1. d \in Nat /\ d >= 1
    BY DigitsType
  <1>2. ASSUME NEW k \in 1..d PROVE bytes[at + k] < Radix <=> k = d
    BY <1>2, VarUIntBytes DEF Stands
  <1> HIDE DEF d
  <1>3. at + d \in ends
    <2>1. d \in 1..d
      BY <1>1
    <2>2. at + d \in at + 1..room
      BY <1>1 DEF d
    <2>3. QED
      BY <1>2, <2>1, <2>2 DEF Ends
  <1>4. \A m \in ends : at + d <= m
    <2>1. ASSUME NEW m \in ends, ~(at + d <= m) PROVE FALSE
      <3>1. m - at \in 1..d /\ m = at + (m - at) /\ m - at # d
        BY <1>1, <2>1 DEF Ends
      <3>2. bytes[m] < Radix
        BY <2>1 DEF Ends
      <3>3. QED
        BY <1>2, <3>1, <3>2
    <2>2. QED
      BY <2>1
  <1>5. \A k, m \in ends : k <= m /\ m <= k => k = m
    BY DEF Ends
  <1> HIDE DEF ends
  <1>6. End(at) = at + d /\ ends # {}
    BY <1>3, <1>4, <1>5 DEF End, ends
  <1>7. Words(at) = {n}
    <2>1. PICK e \in Nat : e = d /\ at + e - at = e /\ e <= WordDigits
      BY <1>1, WordAssumption, SizesAssumption DEF d
    <2>2. ~(End(at) - at > WordDigits)
      BY <1>6, <2>1, SizesAssumption
    <2>3. Joined(at, End(at)) = n
      BY <1>6, JoinedNumber DEF d
    <2>4. n % Word = n
      BY SizesAssumption
    <2>5. QED
      BY <2>2, <2>3, <2>4 DEF Words
  <1>8. c \in [pos : {End(at)}, errno : {errno_}, n : Words(at)]
    BY <1>6 DEF CountRead, ends
  <1>9. QED
    BY <1>6, <1>7, <1>8 DEF d

\* One of which only the first bytes are there is not read.
LEMMA CountReadShort ==
  ASSUME NEW n \in Nat, NEW at \in Nat, NEW j \in Nat, j < Digits(n), room = at + j,
         \A k \in 1..j : bytes[at + k] = VarUInt(n)[k][1],
         NEW c \in CountRead(at)
  PROVE  c.errno # SUCCESS
  <1> DEFINE ends == Ends(at)
  <1>1. ends = {}
    <2>1. ASSUME NEW m \in at + 1..room, bytes[m] < Radix PROVE FALSE
      <3>1. PICK k \in 1..j : m = at + k
        <4>1. m - at \in 1..j /\ m = at + (m - at)
          OBVIOUS
        <4>2. QED
          BY <4>1
      <3>2. k \in 1..Digits(n) /\ k # Digits(n)
        BY DigitsType
      <3>3. VarUInt(n)[k][1] < Radix
        BY <2>1, <3>1
      <3>4. QED
        BY <3>2, <3>3, VarUIntBytes
    <2>2. QED
      BY <2>1 DEF Ends
  <1>2. c.errno = TRAP_OUT_OF_STREAM
    <2>1. c = [pos |-> room, errno |-> TRAP_OUT_OF_STREAM, n |-> 0]
      BY <1>1 DEF CountRead
    <2>2. QED
      BY <2>1
  <1>3. QED
    BY <1>2 DEF TRAP_OUT_OF_STREAM, SUCCESS

-----------------------------------------------------------------------------
(* Reading elements.                                                       *)

\* Multiples grow with the number.
LEMMA Multiples ==
  ASSUME NEW size \in Nat, NEW m \in Nat, NEW n \in Nat, m <= n
  PROVE  m * size <= n * size /\ m * size \in Nat /\ n * size \in Nat
  <1>1. PICK r \in Nat : n = m + r
    <2>1. n - m \in Nat /\ n = m + (n - m)
      OBVIOUS
    <2>2. QED
      BY <2>1
  <1>2. n * size = m * size + r * size
    BY <1>1
  <1>3. m * size \in Nat /\ r * size \in Nat
    OBVIOUS
  <1>4. QED
    BY <1>2, <1>3

\* The next multiple is one size on.
LEMMA NextMultiple ==
  ASSUME NEW size \in Nat, NEW m \in Nat
  PROVE  (m + 1) * size = m * size + size
  OBVIOUS

\* Elements that are there whole are read whole.
LEMMA ElementsWhole ==
  ASSUME NEW at \in Nat, NEW size \in Nat, NEW v \in Seq(Seq(Nat)), NEW errno,
         \A k \in 1..Len(v) : Len(v[k]) = size,
         bytes \in Seq(Nat), room = Len(bytes), at + Len(v) * size <= room,
         \A k \in 1..Len(v) * size : bytes[at + k] = FlattenSeq(v)[k]
  PROVE  Elements(at, Len(v), size, errno) = [pos |-> at + Len(v) * size, errno |-> errno, v |-> v]
  <1> DEFINE n == Len(v)
             Fits(k) == /\ at + k * size <= room
                        /\ k = n \/ at + (k + 1) * size > room
             fit == CHOOSE k \in 0..n : Fits(k)
  <1>0. \A k \in 1..Len(v), i \in 1..size : FlattenSeq(v)[(k - 1) * size + i] = v[k][i]
    <2>1. \A k \in 1..Len(v) : Len(v[k]) = size
      OBVIOUS
    <2>2. EvenRuns(v, size)
      BY <2>1, FlattenUniform
    <2>3. QED
      BY <2>2 DEF EvenRuns
  <1>1. n \in Nat /\ Fits(n)
    OBVIOUS
  <1>2. ASSUME NEW k \in 0..n, Fits(k) PROVE k = n
    <2>1. ASSUME k # n PROVE FALSE
      <3>1. k + 1 \in Nat /\ k + 1 <= n
        BY <1>1, <2>1
      <3>2. PICK p \in Nat, q \in Nat : p = (k + 1) * size /\ q = n * size /\ p <= q
        BY <1>1, <3>1, Multiples
      <3>3. at + p > room /\ at + q <= room /\ room \in Nat
        BY <1>1, <1>2, <2>1, <3>2
      <3> HIDE DEF Fits, n
      <3>4. QED
        BY <3>2, <3>3
    <2>2. QED
      BY <2>1
  <1>3. fit = n
    <2> HIDE DEF Fits, n
    <2>1. n \in 0..n
      BY <1>1
    <2>2. fit \in 0..n /\ Fits(fit)
      BY <1>1, <2>1
    <2>3. QED
      BY <1>2, <2>2
  <1>4. ASSUME NEW k \in 1..n PROVE SubSeq(bytes, at + (k - 1) * size + 1, at + k * size) = v[k]
    <2>0. k \in Nat /\ k - 1 \in Nat /\ k <= n /\ k - 1 <= n
      BY <1>1
    <2>1. PICK p \in Nat : p = (k - 1) * size
      BY <1>1, <2>0, Multiples
    <2>2. k * size = p + size
      <3>1. PICK m \in Nat : k - 1 = m /\ k = m + 1
        BY <1>1
      <3>2. QED
        BY <2>1, <3>1, NextMultiple
    <2>3. PICK q \in Nat : q = n * size /\ p + size <= q
      <3>1. k * size <= n * size /\ n * size \in Nat
        BY <1>1, <2>0, Multiples
      <3>2. QED
        BY <2>2, <3>1
    <2> DEFINE e == at + p + size
               s == SubSeq(bytes, at + p + 1, e)
    <2>4. e <= Len(bytes) /\ e \in Nat
      BY <1>1, <2>3
    <2>5. v[k] \in Seq(Nat) /\ Len(v[k]) = size
      OBVIOUS
    <2>6. s \in Seq(Nat) /\ Len(s) = size /\ \A i \in 1..size : s[i] = bytes[at + p + i]
      <3>1. ASSUME NEW i \in at + p + 1..e PROVE bytes[i] \in Nat
        BY <2>4
      <3> HIDE DEF e
      <3>2. /\ s \in Seq(Nat)
            /\ Len(s) = IF at + p + 1 <= e THEN e - (at + p + 1) + 1 ELSE 0
            /\ \A i \in 1..e - (at + p + 1) + 1 : s[i] = bytes[at + p + 1 + i - 1]
        BY <2>4, <3>1, SubSeqProperties
      <3>3. e - (at + p + 1) + 1 = size /\ (at + p + 1 <= e <=> size # 0)
        BY DEF e
      <3> HIDE DEF s
      <3>4. \A i \in 1..size : at + p + 1 + i - 1 = at + p + i
        OBVIOUS
      <3>5. QED
        BY <3>2, <3>3, <3>4
    <2>7. ASSUME NEW i \in 1..size PROVE s[i] = v[k][i]
      <3>1. p + i \in 1..q /\ at + p + i = at + (p + i)
        <4>1. p + i \in Nat /\ p + i >= 1 /\ p + i <= q
          BY <2>3, Within
        <4>2. QED
          BY <4>1
      <3>2. FlattenSeq(v)[(k - 1) * size + i] = v[k][i]
        BY <1>0
      <3>3. bytes[at + (p + i)] = FlattenSeq(v)[p + i]
        BY <2>3, <3>1
      <3> HIDE DEF s
      <3>4. QED
        BY <2>1, <2>6, <3>1, <3>2, <3>3
    <2>8. s = v[k]
      <3> HIDE DEF s
      <3>1. QED
        BY <2>5, <2>6, <2>7, SeqEqual
    <2>9. at + (k - 1) * size + 1 = at + p + 1 /\ at + k * size = e
      <3>1. at + k * size = at + (p + size)
        BY <2>2
      <3>2. at + (p + size) = at + p + size
        OBVIOUS
      <3>3. QED
        BY <2>1, <3>1, <3>2
    <2> HIDE DEF e
    <2>10. QED
      BY <2>8, <2>9
  <1>5. [k \in 1..n |-> SubSeq(bytes, at + (k - 1) * size + 1, at + k * size)] = v
    <2>1. v = [k \in 1..n |-> v[k]]
      OBVIOUS
    <2> HIDE DEF n
    <2>2. QED
      BY <1>4, <2>1
  <1>6. Elements(at, n, size, errno) =
          [pos |-> at + fit * size,
           errno |-> IF fit < n THEN TRAP_OUT_OF_STREAM ELSE errno,
           v |-> [k \in 1..fit |-> SubSeq(bytes, at + (k - 1) * size + 1, at + k * size)]]
    BY DEF Elements
  <1>7. ~(n < n)
    BY <1>1
  <1> HIDE DEF fit, n
  <1>8. Elements(at, n, size, errno) = [pos |-> at + n * size, errno |-> errno, v |-> v]
    BY <1>3, <1>5, <1>6, <1>7
  <1>9. QED
    BY <1>8 DEF n

\* Elements that go beyond the room are not.
LEMMA ElementsShort ==
  ASSUME NEW at \in Nat, NEW size \in Nat, NEW n \in Nat, NEW errno,
         room \in Nat, at <= room, at + n * size > room
  PROVE  Elements(at, n, size, errno).errno # SUCCESS
  <1> DEFINE Fits(k) == /\ at + k * size <= room
                        /\ k = n \/ at + (k + 1) * size > room
             fit == CHOOSE k \in 0..n : Fits(k)
             S == {m \in Nat : at + m * size > room}
  <1>1. PICK m \in S : \A l \in S : m <= l
    <2>1. S \subseteq Nat /\ n \in S
      OBVIOUS
    <2> HIDE DEF S
    <2>2. QED
      BY <2>1, First
  <1>2. m # 0 /\ m \in Nat /\ m <= n
    <2>1. 0 * size = 0 /\ at + 0 = at
      OBVIOUS
    <2>2. 0 \notin S
      BY <2>1
    <2>3. n \in S
      OBVIOUS
    <2> HIDE DEF S
    <2>4. QED
      BY <1>1, <2>2, <2>3 DEF S
  <1>3. PICK k \in Nat : m = k + 1
    BY <1>2
  <1>4. k \notin S /\ k \in 0..n
    <2> HIDE DEF S
    <2>1. QED
      BY <1>1, <1>2, <1>3
  <1>5. at + k * size <= room
    <2>1. PICK p \in Nat : p = k * size
      OBVIOUS
    <2>2. ~(at + p > room)
      BY <1>4, <2>1
    <2>3. QED
      BY <2>1, <2>2
  <1>6. Fits(k)
    <2>1. at + m * size > room
      BY <1>1
    <2>2. QED
      BY <1>3, <1>5, <2>1
  <1>7. fit \in 0..n /\ Fits(fit)
    <2> HIDE DEF Fits, S
    <2>1. QED
      BY <1>4, <1>6
  <1>8. fit < n
    <2>1. fit # n
      <3>1. at + fit * size <= room
        BY <1>7
      <3>2. PICK q \in Nat : q = n * size /\ at + q > room
        OBVIOUS
      <3> HIDE DEF fit, S
      <3>3. ASSUME fit = n PROVE FALSE
        <4>1. at + q <= room
          BY <3>1, <3>2, <3>3
        <4>2. QED
          BY <3>2, <4>1
      <3>4. QED
        BY <3>3
    <2> HIDE DEF Fits, S, fit
    <2>2. QED
      BY <1>7, <2>1
  <1>9. Elements(at, n, size, errno).errno = IF fit < n THEN TRAP_OUT_OF_STREAM ELSE errno
    BY DEF Elements
  <1> HIDE DEF fit
  <1>10. QED
    BY <1>8, <1>9 DEF TRAP_OUT_OF_STREAM, SUCCESS

\* Whether they are there or not, nothing undoes a failure, and 0 elements cannot fail.
LEMMA ElementsFailed ==
  ASSUME NEW at, NEW size, NEW n, NEW errno, errno # SUCCESS
  PROVE  Elements(at, n, size, errno).errno # SUCCESS
  <1> DEFINE fit == CHOOSE k \in 0..n : /\ at + k * size <= room
                                        /\ k = n \/ at + (k + 1) * size > room
  <1>1. Elements(at, n, size, errno).errno = IF fit < n THEN TRAP_OUT_OF_STREAM ELSE errno
    BY DEF Elements
  <1> HIDE DEF fit
  <1>2. QED
    BY <1>1 DEF TRAP_OUT_OF_STREAM, SUCCESS

-----------------------------------------------------------------------------
(* Sets and maps: entries put in one by one.                               *)

\* The number that stands for a key, byte by byte from the last.
LEMMA KeySteps ==
  ASSUME NEW e \in Seq(Nat)
  PROVE  \E f : /\ f[0] = 0 /\ Key(e) = f[Len(e)]
                /\ \A k \in 0..Len(e) : f[k] \in Nat
                /\ \A k \in 0..Len(e) - 1 : f[k + 1] = e[Len(e) - k] + Radix * Radix * f[k]
  <1> DEFINE n == Len(e)
             step == [k \in Nat |-> [m \in Nat |-> IF k < n THEN e[n - k] + Radix * Radix * m ELSE m]]
             turn(h) == [k \in 0..n |-> IF k = 0 THEN 0 ELSE e[n - k + 1] + Radix * Radix * h[k - 1]]
             sum == CHOOSE h : h = turn(h)
  <1>1. n \in Nat /\ \A k \in 1..n : e[k] \in Nat
    OBVIOUS
  <1>2. PICK r \in Nat : r = Radix * Radix
    BY SizesType
  <1> HIDE DEF n
  <1>3. step \in [Nat -> [Nat -> Nat]]
    <2>1. ASSUME NEW k \in Nat, NEW m \in Nat
          PROVE  (IF k < n THEN e[n - k] + Radix * Radix * m ELSE m) \in Nat
      <3>1. CASE k < n
        <4>1. e[n - k] \in Nat
          BY <1>1, <3>1
        <4>2. r * m \in Nat
          OBVIOUS
        <4>3. QED
          BY <1>2, <3>1, <4>1, <4>2
      <3>2. QED
        BY <3>1
    <2>2. QED
      BY <2>1
  <1>4. PICK f \in [0..n -> Nat] : StepwiseTo(n, f, 0, step)
    <2> HIDE DEF step
    <2>1. QED
      BY <1>1, <1>3, RecursionTo
  <1>5. f = turn(f)
    <2>1. ASSUME NEW k \in 0..n
          PROVE  (IF k = 0 THEN 0 ELSE step[k - 1][f[k - 1]])
                    = IF k = 0 THEN 0 ELSE e[n - k + 1] + Radix * Radix * f[k - 1]
      <3>1. CASE k # 0
        <4>1. PICK j \in 0..n - 1 : k - 1 = j /\ n - k + 1 = n - j /\ j \in Nat /\ j < n /\ j \in 0..n
          BY <1>1, <3>1
        <4>2. step[j][f[j]] = e[n - j] + Radix * Radix * f[j]
          BY <4>1
        <4> HIDE DEF step
        <4>3. QED
          BY <3>1, <4>1, <4>2
      <3>2. QED
        BY <3>1
    <2>2. f = [k \in 0..n |-> IF k = 0 THEN 0 ELSE step[k - 1][f[k - 1]]]
      BY <1>4 DEF StepwiseTo
    <2> HIDE DEF step
    <2>3. QED
      BY <2>1, <2>2
  <1>6. sum = turn(sum)
    <2> HIDE DEF turn
    <2>1. QED
      BY <1>5
  <1>7. Key(e) = sum[n]
    BY DEF Key, n
  <1> HIDE DEF sum
  <1> DEFINE T == {k \in Nat : k \in 0..n => sum[k] \in Nat}
  <1>8. 0 \in T
    <2>1. turn(sum)[0] = 0
      BY <1>1
    <2>2. QED
      BY <1>6, <2>1
  <1>9. ASSUME NEW k \in T \cap Nat PROVE k + 1 \in T
    <2>1. ASSUME k + 1 \in 0..n PROVE sum[k + 1] \in Nat
      <3>1. sum[k] \in Nat /\ e[n - k] \in Nat
        BY <1>1, <1>9, <2>1
      <3>2. PICK i \in 0..n : i = k + 1 /\ i # 0 /\ i - 1 = k /\ n - i + 1 = n - k
        BY <1>1, <2>1
      <3>3. turn(sum)[i] = e[n - i + 1] + Radix * Radix * sum[i - 1]
        BY <3>2
      <3>4. r * sum[k] \in Nat
        BY <3>1
      <3> HIDE DEF turn
      <3>5. QED
        BY <1>2, <1>6, <3>1, <3>2, <3>3, <3>4
    <2>2. QED
      BY <2>1
  <1>10. Nat \subseteq T
    <2> HIDE DEF T
    <2>1. QED
      BY <1>8, <1>9, Induction
  <1>11. \A k \in 0..n : sum[k] \in Nat
    <2>1. \A k \in Nat : k \in 0..n => sum[k] \in Nat
      BY <1>10
    <2>2. QED
      BY <1>1, <2>1
  <1>12. sum[0] = 0
    <2>1. turn(sum)[0] = 0
      BY <1>1
    <2>2. QED
      BY <1>6, <2>1
  <1>13. ASSUME NEW k \in 0..n - 1 PROVE sum[k + 1] = e[n - k] + Radix * Radix * sum[k]
    <2>1. PICK i \in 0..n : i = k + 1 /\ i # 0 /\ i - 1 = k /\ n - i + 1 = n - k
      BY <1>1
    <2>2. turn(sum)[i] = e[n - i + 1] + Radix * Radix * sum[i - 1]
      BY <2>1
    <2> HIDE DEF turn
    <2>3. QED
      BY <1>6, <2>1, <2>2
  <1>14. QED
    BY <1>7, <1>11, <1>12, <1>13 DEF n

\* Keys are compared as numbers.
LEMMA KeyType ==
  ASSUME NEW e \in Seq(Nat)
  PROVE  Key(e) \in Nat
  <1>1. PICK f : Key(e) = f[Len(e)] /\ \A k \in 0..Len(e) : f[k] \in Nat
    BY KeySteps
  <1>2. QED
    BY <1>1

\* Division with what it leaves.
LEMMA Parts ==
  ASSUME NEW n \in Nat, NEW u \in Nat, u > 0
  PROVE  n \div u \in Nat /\ n % u \in 0..u - 1 /\ n = u * (n \div u) + (n % u)
  OBVIOUS

\* A number is twice its half, and one more if it is odd.
LEMMA Halves ==
  ASSUME NEW n \in Nat
  PROVE  \E q \in Nat, p \in {0, 1} : q = n \div 2 /\ p = n % 2 /\ n = 2 * q + p
  <1>1. n \div 2 \in Nat /\ n % 2 \in {0, 1} /\ n = 2 * (n \div 2) + (n % 2)
    BY Parts
  <1>2. QED
    BY <1>1

\* An even number is twice its half.
LEMMA EvenHalf ==
  ASSUME NEW n \in Nat, n % 2 = 0
  PROVE  \E q \in Nat : q = n \div 2 /\ n = 2 * q
  <1>1. PICK q \in Nat, p \in {0, 1} : q = n \div 2 /\ p = n % 2 /\ n = 2 * q + p
    BY Halves
  <1>2. p = 0
    BY <1>1
  <1>3. n = 2 * q
    BY <1>1, <1>2
  <1>4. QED
    BY <1>1, <1>3

\* What stands in order, each key once, is kept as it stands.
LEMMA EmplacedInOrder ==
  ASSUME NEW r, NEW pos, NEW v \in Seq(Seq(Nat)), NEW width \in {1, 2}, NEW m \in Nat,
         r = [pos |-> pos, errno |-> SUCCESS, v |-> v],
         Len(v) = width * m, Ascending(v, width)
  PROVE  Emplaced(r, width) = r
  <1> DEFINE key(e) == Key(KeyAt(r.v, width, e))
             entries == Entries(r.v, width)
             below(e) == {f \in entries : key(f) < key(e)}
             nth(i) == CHOOSE e \in entries : Cardinality(below(e)) = i - 1
  <1>1. Len(v) \div width = m /\ r.v = v /\ r.errno = SUCCESS
    <2>1. width = 1 => Len(v) \div width = m
      OBVIOUS
    <2>2. width = 2 => Len(v) \div width = m
      OBVIOUS
    <2>3. QED
      BY <2>1, <2>2
  <1>2. ASSUME NEW j \in 1..m PROVE key(j) \in Nat
    <2>1. (j - 1) * width + 1 \in 1..Len(v)
      <3>1. width = 1 => (j - 1) * width + 1 \in 1..Len(v)
        OBVIOUS
      <3>2. width = 2 => (j - 1) * width + 1 \in 1..Len(v)
        OBVIOUS
      <3>3. QED
        BY <3>1, <3>2
    <2>2. KeyAt(v, width, j) \in Seq(Nat)
      BY <2>1 DEF KeyAt
    <2>3. QED
      BY <1>1, <2>2, KeyType
  <1>3. ASSUME NEW j \in 1..m, NEW k \in 1..m, j < k PROVE key(j) < key(k)
    <2>1. \A i, l \in 1..m : i < l => Key(KeyAt(v, width, i)) < Key(KeyAt(v, width, l))
      <3>1. 1..m = 1..Len(v) \div width
        BY <1>1
      <3>2. QED
        BY <3>1 DEF Ascending
    <2>2. Key(KeyAt(v, width, j)) < Key(KeyAt(v, width, k))
      BY <1>3, <2>1
    <2>3. QED
      BY <1>1, <2>2
  <1> HIDE DEF key
  <1>4. entries = 1..m
    <2>1. ASSUME NEW k \in 1..m, NEW j \in 1..k - 1 PROVE KeyAt(v, width, j) # KeyAt(v, width, k)
      <3>1. j \in 1..m /\ j < k
        OBVIOUS
      <3>2. key(j) < key(k) /\ key(j) \in Nat /\ key(k) \in Nat
        BY <1>2, <1>3, <3>1
      <3>3. key(j) # key(k)
        BY <3>2
      <3>4. QED
        BY <1>1, <3>3 DEF key
    <2>2. QED
      BY <1>1, <2>1 DEF Entries
  <1> HIDE DEF entries
  <1>5. ASSUME NEW e \in 1..m PROVE Cardinality(below(e)) = e - 1
    <2>1. below(e) = 1..e - 1
      <3>1. ASSUME NEW f \in 1..m PROVE key(f) < key(e) <=> f < e
        <4>1. f < e \/ f = e \/ e < f
          OBVIOUS
        <4>2. key(f) \in Nat /\ key(e) \in Nat
          BY <1>2
        <4>3. f < e => key(f) < key(e)
          BY <1>3
        <4>4. e < f => key(e) < key(f)
          BY <1>3
        <4>5. QED
          BY <4>1, <4>2, <4>3, <4>4
      <3>2. QED
        BY <1>4, <3>1
    <2>2. Cardinality(1..e - 1) = IF 1 > e - 1 THEN 0 ELSE e - 1 - 1 + 1
      BY FS_Interval
    <2> HIDE DEF below
    <2>3. QED
      BY <2>1, <2>2
  <1> HIDE DEF below
  <1>6. ASSUME NEW i \in 1..m PROVE nth(i) = i
    <2>1. nth(i) \in 1..m /\ Cardinality(below(nth(i))) = i - 1
      BY <1>4, <1>5
    <2> HIDE DEF nth
    <2>2. nth(i) - 1 = i - 1
      BY <1>5, <2>1
    <2>3. QED
      BY <2>1, <2>2
  <1>7. Cardinality(entries) = m
    <2>1. Cardinality(1..m) = IF 1 > m THEN 0 ELSE m - 1 + 1
      BY FS_Interval
    <2>2. QED
      BY <1>4, <2>1
  <1> DEFINE at(k) == (nth((k - 1) \div width + 1) - 1) * width + ((k - 1) % width) + 1
  <1>8. ASSUME NEW k \in 1..width * m PROVE at(k) = k
    <2>1. PICK q \in Nat, p \in Nat : q = (k - 1) \div width /\ p = (k - 1) % width /\ k - 1 = q * width + p /\ q + 1 \in 1..m
      <3>1. CASE width = 1
        <4>1. (k - 1) \div width = k - 1 /\ (k - 1) % width = 0 /\ k - 1 \in Nat /\ k - 1 = (k - 1) * width + 0 /\ (k - 1) + 1 \in 1..m
          BY <3>1
        <4>2. QED
          BY <4>1
      <3>2. CASE width = 2
        <4>1. PICK q \in Nat, p \in {0, 1} : q = (k - 1) \div 2 /\ p = (k - 1) % 2 /\ k - 1 = q * 2 + p
          <5>1. PICK n \in Nat : n = k - 1
            OBVIOUS
          <5>2. PICK q \in Nat, p \in {0, 1} : q = n \div 2 /\ p = n % 2 /\ n = 2 * q + p
            BY Halves
          <5>3. n = q * 2 + p
            BY <5>2
          <5>4. QED
            BY <5>1, <5>2, <5>3
        <4>2. q + 1 \in 1..m
          BY <3>2, <4>1
        <4>3. QED
          BY <3>2, <4>1, <4>2
      <3>3. QED
        BY <3>1, <3>2
    <2>2. nth(q + 1) = q + 1
      BY <1>6, <2>1
    <2> HIDE DEF nth
    <2>3. at(k) = ((q + 1) - 1) * width + p + 1
      BY <2>1, <2>2
    <2>4. (q + 1) - 1 = q
      OBVIOUS
    <2> HIDE DEF at
    <2>5. QED
      BY <2>1, <2>3, <2>4
  <1>9. Emplaced(r, width) = [r EXCEPT !.v = [k \in 1..width * Cardinality(entries) |-> r.v[at(k)]]]
    BY <1>1 DEF Emplaced, entries, key, below
  <1>10. [k \in 1..width * Cardinality(entries) |-> r.v[at(k)]] = v
    <2> HIDE DEF at
    <2>1. v = [k \in 1..width * m |-> v[k]]
      OBVIOUS
    <2>2. QED
      BY <1>1, <1>7, <1>8, <2>1
  <1> HIDE DEF at
  <1>11. QED
    BY <1>9, <1>10

\* Nothing is changed after a failure.
LEMMA EmplacedFailed ==
  ASSUME NEW r, NEW width, r.errno # SUCCESS
  PROVE  Emplaced(r, width) = r
  BY DEF Emplaced

-----------------------------------------------------------------------------
(* The bytes of a value.                                                   *)

\* The bytes of a value.
Code(x) == FlattenSeq(Chunks(x))

\* Its count comes first.
Counted(x) == x.type \notin Single \cup {"VarUInt"}

\* The bytes of an element.
SizeOf(x) == CASE x.type \in {"bool", "char"} -> 1
               [] x.type \in Texts /\ Count(x) > 0 -> Count(x)
               [] OTHER -> ElementSize

\* A bytewise number, and the beginnings of it.
LEMMA NumberCode ==
  ASSUME NEW n \in Nat
  PROVE  /\ FlattenSeq(VarUInt(n)) \in Seq(Nat) /\ Len(FlattenSeq(VarUInt(n))) = Digits(n)
         /\ \A k \in 1..Digits(n) : FlattenSeq(VarUInt(n))[k] = VarUInt(n)[k][1]
  <1> DEFINE V == VarUInt(n)
             d == Digits(n)
  <1>1. V \in Seq(Seq(Nat)) /\ Len(V) = d /\ d \in Nat /\ \A k \in 1..Len(V) : Len(V[k]) = 1
    BY VarUIntBytes, DigitsType
  <1> HIDE DEF V, d
  <1>2. EvenRuns(V, 1)
    BY <1>1, FlattenUniform
  <1>3. Len(FlattenSeq(V)) = d
    BY <1>1, <1>2 DEF EvenRuns
  <1>4. ASSUME NEW k \in 1..d PROVE FlattenSeq(V)[k] = V[k][1]
    <2>1. FlattenSeq(V)[(k - 1) * 1 + 1] = V[k][1]
      BY <1>1, <1>2 DEF EvenRuns
    <2>2. (k - 1) * 1 + 1 = k
      BY <1>1
    <2>3. QED
      BY <2>1, <2>2
  <1>5. FlattenSeq(V) \in Seq(Nat)
    BY <1>1, FlattenType
  <1>6. QED
    BY <1>3, <1>4, <1>5 DEF V, d

\* A value is its type and its elements, which are byte strings.
LEMMA ItemTypes ==
  ASSUME NEW x \in Items
  PROVE  /\ x = [type |-> x.type, v |-> x.v] /\ x.type \in Types /\ x.v \in Seq(Seq(Nat))
         /\ Count(x) \in Nat /\ Count(x) < Word
  <1>1. x \in [type : Types, v : Seq(Seq(Nat))]
    BY ItemsAssumption
  <1>2. x = [type |-> x.type, v |-> x.v] /\ x.type \in Types /\ x.v \in Seq(Seq(Nat))
    BY <1>1
  <1>3. FlattenSeq(x.v) \in Seq(Nat) /\ Len(x.v) \in Nat /\ Len(x.v) \div 2 \in Nat
    <2>1. Len(x.v) \in Nat
      BY <1>2
    <2>2. FlattenSeq(x.v) \in Seq(Nat)
      BY <1>2, FlattenType
    <2>3. Len(x.v) \div 2 \in Nat
      <3>1. PICK n \in Nat : n = Len(x.v)
        BY <2>1
      <3>2. n \div 2 \in Nat
        BY Parts
      <3>3. QED
        BY <3>1, <3>2
    <2>4. QED
      BY <2>1, <2>2, <2>3
  <1>4. Count(x) \in Nat
    <2>1. Len(FlattenSeq(x.v)) \in Nat
      BY <1>3
    <2>2. QED
      BY <1>3, <2>1 DEF Count, Texts
  <1>5. QED
    BY <1>2, <1>4, ItemsAssumption

\* A text is its contents, or nothing.
LEMMA TextShape ==
  ASSUME NEW x \in Items, x.type \in Texts
  PROVE  /\ Count(x) = 0 => x.v = <<>>
         /\ Count(x) # 0 => Len(x.v) = 1 /\ Len(x.v[1]) = Count(x)
         /\ x.v = <<>> => Count(x) = 0
  <1>1. x.v = <<>> \/ (Len(x.v) = 1 /\ x.v[1] # <<>>)
    BY ItemsAssumption
  <1>2. Count(x) = Len(FlattenSeq(x.v))
    BY DEF Count, Texts
  <1>3. CASE x.v = <<>>
    <2>1. Count(x) = 0
      BY <1>2, <1>3, FlattenEmpty
    <2>2. QED
      BY <1>3, <2>1
  <1>4. CASE Len(x.v) = 1 /\ x.v[1] # <<>>
    <2>1. x.v[1] \in Seq(Nat) /\ x.v = <<x.v[1]>>
      BY <1>4, ItemTypes
    <2>2. FlattenSeq(x.v) = x.v[1]
      BY <2>1, FlattenSingle
    <2>3. Len(x.v[1]) # 0
      BY <1>4, <2>1
    <2>4. QED
      BY <1>2, <1>4, <2>2, <2>3
  <1>5. QED
    BY <1>1, <1>3, <1>4

\* The elements of a value are of one size.
LEMMA ItemSizes ==
  ASSUME NEW x \in Items
  PROVE  SizeOf(x) \in Nat /\ x.type # "VarUInt" => \A k \in 1..Len(x.v) : Len(x.v[k]) = SizeOf(x)
  <1>1. CASE x.type \in {"bool", "char"}
    <2>1. Len(x.v) = 1 /\ Len(x.v[1]) = 1
      BY <1>1, ItemsAssumption DEF Single
    <2>0. SizeOf(x) = 1
      BY <1>1 DEF SizeOf, Texts
    <2>2. QED
      BY <2>0, <2>1
  <1>2. CASE x.type \in Texts
    <2>1. CASE Count(x) = 0
      BY <2>1, <1>2, TextShape
    <2>2. CASE Count(x) # 0
      <3>1. SizeOf(x) = Count(x)
        BY <1>2, <2>2, ItemTypes DEF SizeOf, Texts
      <3>2. QED
        BY <1>2, <2>2, <3>1, TextShape
    <2>3. QED
      BY <2>1, <2>2
  <1>3. CASE x.type \in {"primitive", "vector", "array", "T[]", "set", "map"}
    <2>1. SizeOf(x) = ElementSize
      BY <1>3 DEF SizeOf, Texts
    <2>2. \A k \in DOMAIN x.v : Len(x.v[k]) = ElementSize
      BY <1>3, ItemsAssumption
    <2>3. DOMAIN x.v = 1..Len(x.v)
      BY ItemTypes
    <2>4. QED
      BY <2>1, <2>2, <2>3
  <1>4. QED
    BY <1>1, <1>2, <1>3, ItemTypes DEF Types, Texts

\* The sizes of elements are numbers.
LEMMA SizeOfType == \A x \in Items : SizeOf(x) \in Nat
  BY ItemTypes, SizesType DEF SizeOf

\* The chunks of a counted value are those of its count and its elements.
LEMMA CountedChunks ==
  ASSUME NEW x \in Items, Counted(x)
  PROVE  /\ Chunks(x) = VarUInt(Count(x)) \o x.v
         /\ Code(x) = FlattenSeq(VarUInt(Count(x))) \o FlattenSeq(x.v)
  <1>1. Chunks(x) = VarUInt(Count(x)) \o x.v
    BY DEF Chunks, Counted
  <1>2. VarUInt(Count(x)) \in Seq(Seq(Nat)) /\ x.v \in Seq(Seq(Nat))
    BY ItemTypes, VarUIntBytes
  <1>3. QED
    BY <1>1, <1>2, FlattenConcat DEF Code

\* The number of a VarUInt.
LEMMA NumberShape ==
  ASSUME NEW x \in Items, x.type = "VarUInt"
  PROVE  x.v[1][1] \in Nat /\ x.v[1][1] < Word /\ x.v = <<<<x.v[1][1]>>>> /\ Chunks(x) = VarUInt(x.v[1][1])
  <1>1. Len(x.v) = 1 /\ Len(x.v[1]) = 1 /\ x.v \in Seq(Seq(Nat))
    BY ItemTypes, ItemsAssumption
  <1>2. x.v[1] \in Seq(Nat)
    BY <1>1
  <1>3. x.v[1] = <<x.v[1][1]>> /\ x.v[1][1] \in Nat
    BY <1>1, <1>2
  <1>4. x.v = <<x.v[1]>>
    BY <1>1
  <1>5. Chunks(x) = VarUInt(x.v[1][1])
    BY DEF Chunks, Single
  <1>6. x.v[1][1] < Word
    BY ItemsAssumption
  <1>7. QED
    BY <1>3, <1>4, <1>5, <1>6

\* The chunks of a value are byte strings, and so is what they make together.
LEMMA ChunksType ==
  ASSUME NEW x \in Items
  PROVE  /\ Chunks(x) \in Seq(Seq(Nat)) /\ Code(x) \in Seq(Nat) /\ Len(Code(x)) \in Nat
         /\ Len(Chunks(x)) \in Nat /\ \A c \in 1..Len(Chunks(x)) : Chunks(x)[c] \in Seq(Nat)
  <1>1. Chunks(x) \in Seq(Seq(Nat))
    <2>1. CASE x.type \in Single
      BY <2>1, ItemTypes DEF Chunks
    <2>2. CASE x.type = "VarUInt"
      BY <2>2, NumberShape, VarUIntBytes
    <2>3. CASE Counted(x)
      <3>1. VarUInt(Count(x)) \in Seq(Seq(Nat)) /\ x.v \in Seq(Seq(Nat))
        BY ItemTypes, VarUIntBytes
      <3>2. VarUInt(Count(x)) \o x.v \in Seq(Seq(Nat))
        BY <3>1
      <3>3. QED
        BY <2>3, <3>2, CountedChunks
    <2>4. QED
      BY <2>1, <2>2, <2>3 DEF Counted
  <1>2. Code(x) \in Seq(Nat)
    BY <1>1, FlattenType DEF Code
  <1>3. QED
    BY <1>1, <1>2

-----------------------------------------------------------------------------
(* Reading the elements of a value.                                        *)

\* A text that a reader leaves alone.
LeftAlone(x) == x.type \in {"string", "vector<char>"} /\ x.v = <<>>

\* How the elements of a counted value are read.
Raw(x, at, errno) == Elements(at, Len(x.v), SizeOf(x), errno)

\* The elements of a value that is not left alone, by its type.
LEMMA ContentsAre ==
  ASSUME NEW x \in Items, Counted(x), ~LeftAlone(x), NEW old, NEW at, NEW errno
  PROVE  LET c == [pos |-> at, errno |-> errno, n |-> Count(x)]
         IN  Contents(x.type, c, old) =
               CASE x.type = "set" -> Emplaced(Raw(x, at, errno), 1)
                 [] x.type = "map" -> Emplaced(Raw(x, at, errno), 2)
                 [] OTHER -> Raw(x, at, errno)
  <1> DEFINE c == [pos |-> at, errno |-> errno, n |-> Count(x)]
  <1>1. c.pos = at /\ c.errno = errno /\ c.n = Count(x)
    OBVIOUS
  <1> HIDE DEF c
  <1>2. Count(x) \in Nat /\ x.v \in Seq(Seq(Nat)) /\ x.type \in Types
    BY ItemTypes
  <1>3. CASE x.type \in Texts /\ Count(x) > 0
    <2>1. SizeOf(x) = Count(x) /\ Len(x.v) = 1
      BY <1>3, TextShape DEF SizeOf, Texts
    <2>2. Contents(x.type, c, old) = Elements(at, 1, Count(x), errno)
      BY <1>1, <1>3 DEF Contents, Texts
    <2>3. QED
      BY <1>3, <2>1, <2>2 DEF Raw, Texts, c
  <1>4. CASE x.type \in Texts /\ Count(x) = 0
    <2>1. x.v = <<>> /\ x.type = "char[]" /\ Len(x.v) = 0
      BY <1>4, TextShape DEF LeftAlone, Texts
    <2>2. SizeOf(x) = ElementSize
      BY <1>4, <2>1 DEF SizeOf
    <2>3. Contents(x.type, c, old) = Elements(at, 0, ElementSize, errno)
      BY <1>1, <1>4, <2>1 DEF Contents
    <2>4. QED
      BY <2>1, <2>2, <2>3 DEF Raw, c
  <1>5. CASE x.type \in {"vector", "array", "T[]"}
    <2>1. SizeOf(x) = ElementSize /\ Count(x) = Len(x.v)
      BY <1>5 DEF SizeOf, Texts, Count
    <2>2. Contents(x.type, c, old) = Elements(at, Count(x), ElementSize, errno)
      BY <1>1, <1>5 DEF Contents, Texts
    <2>3. QED
      BY <1>5, <2>1, <2>2 DEF Raw, c
  <1>6. CASE x.type = "set"
    <2>1. SizeOf(x) = ElementSize /\ Count(x) = Len(x.v)
      BY <1>6 DEF SizeOf, Texts, Count
    <2>2. Contents(x.type, c, old) = Emplaced(Elements(at, Count(x), ElementSize, errno), 1)
      BY <1>1, <1>6 DEF Contents, Texts
    <2>3. QED
      BY <1>6, <2>1, <2>2 DEF Raw, c
  <1>7. CASE x.type = "map"
    <2>1. SizeOf(x) = ElementSize /\ Count(x) = Len(x.v) \div 2
      BY <1>7 DEF SizeOf, Texts, Count
    <2>2. Len(x.v) = 2 * Count(x)
      <3>1. Len(x.v) % 2 = 0
        BY <1>7, ItemsAssumption
      <3>2. PICK m \in Nat : m = Len(x.v)
        BY <1>2
      <3>3. PICK q \in Nat : q = m \div 2 /\ m = 2 * q
        BY <3>1, <3>2, EvenHalf
      <3>4. QED
        BY <2>1, <3>2, <3>3
    <2>3. Contents(x.type, c, old) = Emplaced(Elements(at, 2 * Count(x), ElementSize, errno), 2)
      BY <1>1, <1>7 DEF Contents, Texts
    <2>4. QED
      BY <1>7, <2>1, <2>2, <2>3 DEF Raw, c
  <1>8. x.type \in Texts \/ x.type \in {"vector", "array", "T[]", "set", "map"}
    BY <1>2 DEF Types, Texts, Counted, Single
  <1>9. QED
    BY <1>2, <1>3, <1>4, <1>5, <1>6, <1>7, <1>8 DEF c

\* Nothing undoes a failure.
LEMMA ContentsFailed ==
  ASSUME NEW x, Counted(x), NEW c, NEW old, c.errno # SUCCESS
  PROVE  Contents(x.type, c, old).errno # SUCCESS
  <1>1. \A at, n, size : Elements(at, n, size, c.errno).errno # SUCCESS
    BY ElementsFailed
  <1>2. \A at, n, size, w : Emplaced(Elements(at, n, size, c.errno), w).errno # SUCCESS
    BY <1>1, EmplacedFailed
  <1>3. CASE x.type \in {"string", "vector<char>"} /\ c.n = 0
    <2>1. Contents(x.type, c, old) = [pos |-> c.pos, errno |-> c.errno, v |-> old]
      BY <1>3 DEF Contents, Texts
    <2>2. QED
      BY <2>1
  <1>4. CASE ~(x.type \in {"string", "vector<char>"} /\ c.n = 0)
    <2>1. \/ Contents(x.type, c, old) = Elements(c.pos, 1, c.n, c.errno)
          \/ Contents(x.type, c, old) = Emplaced(Elements(c.pos, c.n, ElementSize, c.errno), 1)
          \/ Contents(x.type, c, old) = Emplaced(Elements(c.pos, 2 * c.n, ElementSize, c.errno), 2)
          \/ Contents(x.type, c, old) = Elements(c.pos, c.n, ElementSize, c.errno)
      BY <1>4 DEF Contents, Texts
    <2>2. QED
      BY <1>1, <1>2, <2>1
  <1>5. QED
    BY <1>3, <1>4

\* Elements that are not there are no contents.
LEMMA ContentsShort ==
  ASSUME NEW x \in Items, Counted(x), ~LeftAlone(x), NEW old, NEW c,
         c.n = Count(x), c = [pos |-> c.pos, errno |-> c.errno, n |-> c.n],
         Raw(x, c.pos, c.errno).errno # SUCCESS
  PROVE  Contents(x.type, c, old).errno # SUCCESS
  <1>1. Contents(x.type, c, old) =
               CASE x.type = "set" -> Emplaced(Raw(x, c.pos, c.errno), 1)
                 [] x.type = "map" -> Emplaced(Raw(x, c.pos, c.errno), 2)
                 [] OTHER -> Raw(x, c.pos, c.errno)
    BY ContentsAre
  <1>2. Contents(x.type, c, old) = Raw(x, c.pos, c.errno)
    BY <1>1, EmplacedFailed
  <1>3. QED
    BY <1>2

\* The ways in which a value is read.
LEMMA UnpackedAre ==
  ASSUME NEW x, NEW old, NEW c
  PROVE  /\ x.type = "bool" => Unpacked(x, old, c) = Truth(Elements(pos_, 1, 1, errno_))
         /\ x.type = "char" => Unpacked(x, old, c) = Elements(pos_, 1, 1, errno_)
         /\ x.type = "primitive" => Unpacked(x, old, c) = Elements(pos_, 1, ElementSize, errno_)
         /\ x.type = "VarUInt" =>
              Unpacked(x, old, c) = [pos |-> c.pos, errno |-> c.errno,
                                  v |-> <<<<c.n>>>>]
         /\ Counted(x) =>
              Unpacked(x, old, c) =
                IF Takes(x.type, c.n, Count(x)) THEN Contents(x.type, c, old)
                ELSE [pos |-> c.pos, errno |-> TRAP_OUT_OF_CAPACITY, v |-> Lost]
  BY DEF Unpacked, Counted, Single

\* A value whose count cannot be read is not read.
LEMMA UnpackedFailed ==
  ASSUME NEW x, NEW old, NEW c, c.errno # SUCCESS, x.type \notin Single
  PROVE  Unpacked(x, old, c).errno # SUCCESS
  <1>1. CASE x.type = "VarUInt"
    BY <1>1, UnpackedAre
  <1>2. CASE Counted(x)
    <2>1. Contents(x.type, c, old).errno # SUCCESS
      BY <1>2, ContentsFailed
    <2>2. CASE Takes(x.type, c.n, Count(x))
      BY <1>2, <2>1, <2>2, UnpackedAre
    <2>3. CASE ~Takes(x.type, c.n, Count(x))
      <3>1. Unpacked(x, old, c) = [pos |-> c.pos, errno |-> TRAP_OUT_OF_CAPACITY, v |-> Lost]
        BY <1>2, <2>3, UnpackedAre
      <3>2. QED
        BY <3>1 DEF TRAP_OUT_OF_CAPACITY, SUCCESS
    <2>4. QED
      BY <2>2, <2>3
  <1>3. QED
    BY <1>1, <1>2 DEF Counted

-----------------------------------------------------------------------------
(* Reading a value that is there whole.                                    *)

\* What is read of a value when its bytes stand where the reader is.
ReadWell(x, old, r) ==
    /\ r.errno = SUCCESS => /\ r.pos = pos_ + Len(Code(x))
                            /\ r.v = x.v \/ (LeftAlone(x) /\ r.v = old)
    /\ Takes(x.type, Count(x), Count(x)) => r.errno = SUCCESS

\* A value whose bytes stand where the reader is, is read and is what it was, within the limits.
LEMMA ReadWhole ==
  ASSUME NEW x \in Items, NEW old, pos_ \in Nat, bytes \in Seq(Nat), room = Len(bytes),
         pos_ + Len(Code(x)) <= room, errno_ = SUCCESS,
         \A k \in 1..Len(Code(x)) : bytes[pos_ + k] = Code(x)[k],
         NEW rd \in CountRead(pos_)
  PROVE  ReadWell(x, old, Unpacked(x, old, rd))
  <1> DEFINE r == Unpacked(x, old, rd)
             size == SizeOf(x)
             m == Len(x.v)
  <1>1. /\ x.v \in Seq(Seq(Nat)) /\ m \in Nat /\ size \in Nat /\ x.type \in Types
        /\ x.type # "VarUInt" => \A k \in 1..m : Len(x.v[k]) = size
    BY ItemTypes, ItemSizes, SizeOfType
  <1>2. room \in Nat /\ \A k \in 1..room : bytes[k] \in Nat
    OBVIOUS
  <1>3. ASSUME x.type # "VarUInt"
        PROVE  Len(FlattenSeq(x.v)) = m * size /\ m * size \in Nat
    <2>1. EvenRuns(x.v, size)
      BY <1>1, <1>3, FlattenUniform
    <2>2. QED
      BY <1>1, <2>1, Multiples DEF EvenRuns
  <1>4. CASE x.type \in Single
    <2>1. Code(x) = FlattenSeq(x.v) /\ m = 1 /\ x.type # "VarUInt" /\ ~Counted(x)
      BY <1>4, ItemsAssumption DEF Code, Chunks, Single, Counted
    <2>2. m * size = size /\ Len(Code(x)) = size
      BY <1>1, <1>3, <2>1
    <2>3. Elements(pos_, m, size, errno_) = [pos |-> pos_ + m * size, errno |-> errno_, v |-> x.v]
      <3>1. pos_ + m * size <= room
        BY <2>2
      <3>2. ASSUME NEW k \in 1..m * size PROVE bytes[pos_ + k] = FlattenSeq(x.v)[k]
        BY <2>1, <2>2
      <3>3. \A k \in 1..m : Len(x.v[k]) = size
        BY <1>1, <2>1
      <3> HIDE DEF size
      <3>4. QED
        BY <1>1, <3>1, <3>2, <3>3, ElementsWhole
    <2>4. Elements(pos_, 1, size, errno_) = [pos |-> pos_ + Len(Code(x)), errno |-> SUCCESS, v |-> x.v]
      BY <2>1, <2>2, <2>3
    <2>5. CASE x.type = "bool"
      <3>1. r = Truth([pos |-> pos_ + Len(Code(x)), errno |-> SUCCESS, v |-> x.v])
        BY <2>4, <2>5, UnpackedAre DEF SizeOf, Texts
      <3>2. [k \in DOMAIN x.v |-> <<IF x.v[k][1] = 0 THEN 0 ELSE 1>>] = x.v
        <4>1. x.v[1] \in Seq(Nat) /\ Len(x.v[1]) = 1 /\ x.v[1][1] \in {0, 1}
          <5>1. Len(x.v[1]) = 1 /\ x.v[1][1] \in {0, 1}
            BY <2>5, ItemsAssumption
          <5>2. x.v[1] \in Seq(Nat)
            BY <1>1, <2>1
          <5>3. QED
            BY <5>1, <5>2
        <4>2. <<IF x.v[1][1] = 0 THEN 0 ELSE 1>> = x.v[1]
          BY <4>1
        <4>3. DOMAIN x.v = {1} /\ x.v = [k \in DOMAIN x.v |-> x.v[k]]
          BY <1>1, <2>1
        <4>4. QED
          BY <4>2, <4>3
      <3>3. r = [pos |-> pos_ + Len(Code(x)), errno |-> SUCCESS, v |-> x.v]
        BY <3>1, <3>2 DEF Truth
      <3>4. QED
        BY <3>3 DEF ReadWell
    <2>6. CASE x.type = "char"
      <3>1. r = [pos |-> pos_ + Len(Code(x)), errno |-> SUCCESS, v |-> x.v]
        BY <2>4, <2>6, UnpackedAre DEF SizeOf, Texts
      <3>2. QED
        BY <3>1 DEF ReadWell
    <2>7. CASE x.type = "primitive"
      <3>1. r = [pos |-> pos_ + Len(Code(x)), errno |-> SUCCESS, v |-> x.v]
        BY <2>4, <2>7, UnpackedAre DEF SizeOf, Texts
      <3>2. QED
        BY <3>1 DEF ReadWell
    <2>8. QED
      BY <1>4, <2>5, <2>6, <2>7 DEF Single
  <1>5. CASE x.type = "VarUInt"
    <2>1. PICK n \in Nat : x.v = <<<<n>>>> /\ n < Word /\ Chunks(x) = VarUInt(n)
      BY <1>5, NumberShape
    <2>2. Len(Code(x)) = Digits(n) /\ Stands(pos_, n)
      BY <2>1, NumberCode DEF Code, Stands
    <2>3. rd = [pos |-> pos_ + Digits(n), errno |-> errno_, n |-> n]
      BY <1>2, <2>1, <2>2, CountReadWhole
    <2>4. r = [pos |-> pos_ + Len(Code(x)), errno |-> SUCCESS, v |-> x.v]
      BY <1>5, <2>1, <2>2, <2>3, UnpackedAre
    <2>5. QED
      BY <2>4 DEF ReadWell
  <1>6. CASE Counted(x)
    <2> DEFINE n == Count(x)
               N == FlattenSeq(VarUInt(n))
               E == FlattenSeq(x.v)
    <2>0. x.type # "VarUInt" /\ x.type \notin Single
      BY <1>6 DEF Counted
    <2>1. n \in Nat /\ n < Word /\ Code(x) = N \o E
      BY <1>6, ItemTypes, CountedChunks
    <2>2. /\ N \in Seq(Nat) /\ Len(N) = Digits(n) /\ Digits(n) \in Nat
          /\ \A k \in 1..Digits(n) : N[k] = VarUInt(n)[k][1]
      BY <2>1, NumberCode, DigitsType
    <2>3. E \in Seq(Nat) /\ Len(E) = m * size /\ m * size \in Nat
      BY <1>1, <1>3, <2>0, FlattenType
    <2> HIDE DEF N, E
    <2>4. /\ Len(Code(x)) = Digits(n) + Len(E)
          /\ \A k \in 1..Digits(n) + Len(E) : Code(x)[k] = IF k <= Digits(n) THEN N[k] ELSE E[k - Digits(n)]
      <3>1. /\ Len(N \o E) = Len(N) + Len(E)
            /\ \A k \in 1..Len(N) + Len(E) : (N \o E)[k] = IF k <= Len(N) THEN N[k] ELSE E[k - Len(N)]
        <4>1. N \in Seq(Nat) /\ E \in Seq(Nat)
          BY <2>2, <2>3
        <4>2. QED
          BY <4>1, ConcatProperties
      <3>2. QED
        BY <2>1, <2>2, <3>1
    <2>5. Stands(pos_, n)
      <3>1. ASSUME NEW k \in 1..Digits(n) PROVE bytes[pos_ + k] = VarUInt(n)[k][1]
        <4>1. k \in 1..Digits(n) + Len(E) /\ k <= Digits(n)
          BY <2>2, <2>3
        <4>2. QED
          BY <2>2, <2>4, <4>1
      <3>2. QED
        BY <3>1 DEF Stands
    <2>6. PICK at \in Nat : at = pos_ + Digits(n) /\ at + Len(E) <= room /\ at <= room
      <3>1. PICK l \in Nat, d \in Nat : l = Len(E) /\ d = Digits(n) /\ Len(Code(x)) = d + l
        BY <2>2, <2>3, <2>4
      <3>2. pos_ + d + l <= room /\ pos_ + d <= room /\ pos_ + d \in Nat
        BY <1>2, <3>1
      <3>3. QED
        BY <3>1, <3>2
    <2>7. rd = [pos |-> at, errno |-> SUCCESS, n |-> n]
      BY <1>2, <2>1, <2>5, <2>6, CountReadWhole
    <2>8. ASSUME NEW k \in 1..m * size PROVE bytes[at + k] = E[k]
      <3>1. PICK j \in 1..Digits(n) + Len(E) : j = Digits(n) + k /\ ~(j <= Digits(n)) /\ j - Digits(n) = k
        <4>1. PICK l \in Nat, d \in Nat : l = Len(E) /\ d = Digits(n) /\ l = m * size
          BY <2>2, <2>3
        <4>2. d + k \in 1..d + l /\ ~(d + k <= d) /\ d + k - d = k
          BY <4>1
        <4>3. QED
          BY <4>1, <4>2
      <3>2. pos_ + j = at + k
        BY <2>2, <2>6, <3>1
      <3>3. QED
        BY <2>4, <3>1, <3>2
    <2>9. Raw(x, at, SUCCESS) = [pos |-> at + m * size, errno |-> SUCCESS, v |-> x.v]
      <3>1. at + m * size <= room
        BY <2>3, <2>6
      <3>2. QED
        BY <1>1, <2>0, <2>8, <3>1, ElementsWhole DEF Raw, E
    <2>10. at + m * size = pos_ + Len(Code(x))
      BY <2>2, <2>3, <2>4, <2>6
    <2>11. ASSUME ~LeftAlone(x)
           PROVE  Contents(x.type, rd, old) = [pos |-> at + m * size, errno |-> SUCCESS, v |-> x.v]
      <3>1. Contents(x.type, rd, old) =
               CASE x.type = "set" -> Emplaced(Raw(x, at, SUCCESS), 1)
                 [] x.type = "map" -> Emplaced(Raw(x, at, SUCCESS), 2)
                 [] OTHER -> Raw(x, at, SUCCESS)
        BY <1>6, <2>7, <2>11, ContentsAre
      <3>2. CASE x.type = "set"
        <4>1. Ascending(x.v, 1) /\ m = 1 * m
          <5>1. Ascending(x.v, 1)
            BY <3>2, ItemsAssumption
          <5>2. QED
            BY <1>1, <5>1
        <4>2. Emplaced(Raw(x, at, SUCCESS), 1) = Raw(x, at, SUCCESS)
          BY <1>1, <2>9, <4>1, EmplacedInOrder
        <4>3. QED
          BY <2>9, <3>1, <3>2, <4>2
      <3>3. CASE x.type = "map"
        <4>1. Ascending(x.v, 2) /\ m % 2 = 0
          BY <3>3, ItemsAssumption
        <4>2. PICK q \in Nat : m = 2 * q
          BY <1>1, <4>1, EvenHalf
        <4>3. Emplaced(Raw(x, at, SUCCESS), 2) = Raw(x, at, SUCCESS)
          BY <1>1, <2>9, <4>1, <4>2, EmplacedInOrder
        <4>4. QED
          BY <2>9, <3>1, <3>3, <4>3
      <3>4. CASE x.type \notin {"set", "map"}
        BY <2>9, <3>1, <3>4
      <3>5. QED
        BY <3>2, <3>3, <3>4
    <2>12. ASSUME LeftAlone(x)
           PROVE  Contents(x.type, rd, old) = [pos |-> at + m * size, errno |-> SUCCESS, v |-> old]
      <3>1. n = 0 /\ m = 0
        BY <2>12, TextShape DEF LeftAlone, Texts
      <3>2. at + m * size = at
        BY <1>1, <3>1
      <3>3. Contents(x.type, rd, old) = [pos |-> at, errno |-> SUCCESS, v |-> old]
        BY <2>7, <2>12, <3>1 DEF Contents, LeftAlone, Texts
      <3>4. QED
        BY <3>2, <3>3
    <2>13. r = IF Takes(x.type, n, n) THEN Contents(x.type, rd, old)
               ELSE [pos |-> at, errno |-> TRAP_OUT_OF_CAPACITY, v |-> Lost]
      BY <1>6, <2>7, UnpackedAre
    <2> HIDE DEF n, m, size, r
    <2>14. CASE ~Takes(x.type, n, n)
      <3>1. r.errno = TRAP_OUT_OF_CAPACITY
        BY <2>13, <2>14
      <3>2. QED
        BY <2>14, <3>1 DEF ReadWell, r, n, TRAP_OUT_OF_CAPACITY, SUCCESS
    <2>15. CASE Takes(x.type, n, n)
      <3>1. \/ r = [pos |-> at + m * size, errno |-> SUCCESS, v |-> x.v]
            \/ r = [pos |-> at + m * size, errno |-> SUCCESS, v |-> old] /\ LeftAlone(x)
        BY <2>11, <2>12, <2>13, <2>15
      <3>2. QED
        BY <2>10, <3>1 DEF ReadWell, r
    <2>16. QED
      BY <2>14, <2>15
  <1>7. QED
    BY <1>4, <1>5, <1>6 DEF Counted

-----------------------------------------------------------------------------
(* The beginning of a value.                                               *)

\* The first j elements of a sequence.
LEMMA Beginning ==
  ASSUME NEW S, NEW s \in Seq(S), NEW j \in 0..Len(s)
  PROVE  /\ SubSeq(s, 1, j) \in Seq(S) /\ Len(SubSeq(s, 1, j)) = j
         /\ \A k \in 1..j : SubSeq(s, 1, j)[k] = s[k]
  <1>1. \A i \in 1..j : s[i] \in S
    OBVIOUS
  <1>2. /\ SubSeq(s, 1, j) \in Seq(S)
        /\ Len(SubSeq(s, 1, j)) = IF 1 <= j THEN j - 1 + 1 ELSE 0
        /\ \A k \in 1..j - 1 + 1 : SubSeq(s, 1, j)[k] = s[1 + k - 1]
    BY <1>1, SubSeqProperties
  <1>3. QED
    BY <1>2

\* The beginning of two sequences put together is of the first, or has it whole.
LEMMA BeginningOfTwo ==
  ASSUME NEW S, NEW s \in Seq(S), NEW t \in Seq(S)
  PROVE  /\ \A j \in 0..Len(s) : SubSeq(s \o t, 1, j) = SubSeq(s, 1, j)
         /\ \A j \in 0..Len(t) : SubSeq(s \o t, 1, Len(s) + j) = s \o SubSeq(t, 1, j)
  <1> DEFINE u == s \o t
  <1>1. /\ u \in Seq(S) /\ Len(u) = Len(s) + Len(t)
        /\ \A i \in 1..Len(s) + Len(t) : u[i] = IF i <= Len(s) THEN s[i] ELSE t[i - Len(s)]
    BY ConcatProperties
  <1> HIDE DEF u
  <1>2. Len(s) \in Nat /\ Len(t) \in Nat
    OBVIOUS
  <1>3. ASSUME NEW j \in 0..Len(s) PROVE SubSeq(u, 1, j) = SubSeq(s, 1, j)
    <2>1. /\ SubSeq(u, 1, j) \in Seq(S) /\ Len(SubSeq(u, 1, j)) = j
          /\ \A k \in 1..j : SubSeq(u, 1, j)[k] = u[k]
      <3>1. j \in 0..Len(u)
        BY <1>1, <1>2
      <3>2. QED
        BY <1>1, <3>1, Beginning
    <2>2. /\ SubSeq(s, 1, j) \in Seq(S) /\ Len(SubSeq(s, 1, j)) = j
          /\ \A k \in 1..j : SubSeq(s, 1, j)[k] = s[k]
      BY Beginning
    <2>3. \A k \in 1..j : u[k] = s[k]
      BY <1>1, <1>2
    <2>4. QED
      BY <2>1, <2>2, <2>3, SeqEqual
  <1>4. ASSUME NEW j \in 0..Len(t) PROVE SubSeq(u, 1, Len(s) + j) = s \o SubSeq(t, 1, j)
    <2> DEFINE b == SubSeq(t, 1, j)
               l == Len(s) + j
               w == s \o b
    <2>1. /\ SubSeq(u, 1, l) \in Seq(S) /\ Len(SubSeq(u, 1, l)) = l
          /\ \A k \in 1..l : SubSeq(u, 1, l)[k] = u[k]
      <3>1. l \in 0..Len(u)
        BY <1>1, <1>2
      <3>2. QED
        BY <1>1, <3>1, Beginning
    <2>2. b \in Seq(S) /\ Len(b) = j /\ \A k \in 1..j : b[k] = t[k]
      BY Beginning
    <2> HIDE DEF b
    <2>3. /\ w \in Seq(S) /\ Len(w) = l
          /\ \A i \in 1..l : w[i] = IF i <= Len(s) THEN s[i] ELSE b[i - Len(s)]
      <3>1. /\ w \in Seq(S) /\ Len(w) = Len(s) + Len(b)
            /\ \A i \in 1..Len(s) + Len(b) : w[i] = IF i <= Len(s) THEN s[i] ELSE b[i - Len(s)]
        BY <2>2, ConcatProperties
      <3>2. QED
        BY <2>2, <3>1
    <2> HIDE DEF w
    <2>4. \A k \in 1..l : u[k] = w[k]
      <3>1. ASSUME NEW k \in 1..l PROVE u[k] = w[k]
        <4>1. CASE k <= Len(s)
          BY <1>1, <1>2, <2>3, <4>1
        <4>2. CASE ~(k <= Len(s))
          <5>1. k - Len(s) \in 1..j
            BY <1>2, <4>2
          <5>2. k \in 1..Len(s) + Len(t)
            BY <1>2
          <5>3. QED
            BY <1>1, <2>2, <2>3, <4>2, <5>1, <5>2
        <4>3. QED
          BY <4>1, <4>2
      <3>2. QED
        BY <3>1
    <2>5. SubSeq(u, 1, l) = w
      <3> HIDE DEF l
      <3>1. QED
        BY <2>1, <2>3, <2>4, SeqEqual
    <2>6. QED
      BY <2>5 DEF w, b
  <1>5. QED
    BY <1>3, <1>4 DEF u

\* A beginning that ends in the second of two sequences.
LEMMA BeginningOfSecond ==
  ASSUME NEW S, NEW s \in Seq(S), NEW t \in Seq(S), NEW j \in 0..Len(t)
  PROVE  SubSeq(s \o t, 1, Len(s) + j) = s \o SubSeq(t, 1, j)
  BY BeginningOfTwo

\* The longest beginning is the sequence.
LEMMA BeginningWhole ==
  ASSUME NEW S, NEW s \in Seq(S)
  PROVE  SubSeq(s, 1, Len(s)) = s
  <1>1. Len(s) \in 0..Len(s)
    OBVIOUS
  <1>2. QED
    BY <1>1, Beginning, SeqEqual

\* The bytes of the first c chunks of a value.
Before(x, c) == FlattenSeq(SubSeq(Chunks(x), 1, c))

\* From chunk to chunk of a value.
LEMMA BeforeSteps ==
  ASSUME NEW x \in Items
  PROVE  /\ Before(x, 0) = <<>> /\ Before(x, Len(Chunks(x))) = Code(x)
         /\ \A c \in 0..Len(Chunks(x)) : Before(x, c) \in Seq(Nat)
         /\ \A c \in 0..Len(Chunks(x)) - 1 : Before(x, c + 1) = Before(x, c) \o Chunks(x)[c + 1]
  <1> DEFINE C == Chunks(x)
  <1>1. C \in Seq(Seq(Nat)) /\ Len(C) \in Nat
    BY ChunksType
  <1>2. Code(x) = FlattenSeq(C) /\ \A c : Before(x, c) = FlattenSeq(SubSeq(C, 1, c))
    BY DEF Code, Before
  <1> HIDE DEF C
  <1>3. Before(x, Len(C)) = Code(x)
    BY <1>1, <1>2, BeginningWhole
  <1>4. ASSUME NEW c \in 0..Len(C) PROVE Before(x, c) \in Seq(Nat)
    <2>1. SubSeq(C, 1, c) \in Seq(Seq(Nat))
      BY <1>1, Beginning
    <2>2. QED
      BY <1>2, <2>1, FlattenType
  <1>5. Before(x, 0) = <<>>
    <2>1. 0 \in 0..Len(C)
      BY <1>1
    <2>2. SubSeq(C, 1, 0) \in Seq(Seq(Nat)) /\ Len(SubSeq(C, 1, 0)) = 0
      BY <1>1, <2>1, Beginning
    <2>3. SubSeq(C, 1, 0) = <<>>
      BY <2>2
    <2>4. QED
      BY <1>2, <2>3, FlattenEmpty
  <1>6. ASSUME NEW c \in 0..Len(C) - 1 PROVE Before(x, c + 1) = Before(x, c) \o C[c + 1]
    <2> DEFINE D == SubSeq(C, 1, c + 1)
    <2>1. c + 1 \in 0..Len(C) /\ c \in 0..Len(C) /\ c \in Nat /\ c + 1 \in 1..Len(C)
      BY <1>1
    <2>2. D \in Seq(Seq(Nat)) /\ Len(D) = c + 1 /\ \A k \in 1..c + 1 : D[k] = C[k]
      BY <1>1, <2>1, Beginning
    <2> HIDE DEF D
    <2>3. D = Append(SubSeq(D, 1, c), D[c + 1]) /\ SubSeq(D, 1, c) \in Seq(Seq(Nat)) /\ D[c + 1] \in Seq(Nat)
      BY <2>1, <2>2, LastApart
    <2>4. SubSeq(D, 1, c) = SubSeq(C, 1, c)
      <3>1. /\ SubSeq(C, 1, c) \in Seq(Seq(Nat)) /\ Len(SubSeq(C, 1, c)) = c
            /\ \A k \in 1..c : SubSeq(C, 1, c)[k] = C[k]
        BY <1>1, <2>1, Beginning
      <3>2. /\ Len(SubSeq(D, 1, c)) = c /\ \A k \in 1..c : SubSeq(D, 1, c)[k] = D[k]
        <4>1. c \in 0..Len(D)
          BY <2>1, <2>2
        <4>2. QED
          BY <2>2, <4>1, Beginning
      <3>3. \A k \in 1..c : D[k] = C[k]
        BY <2>1, <2>2
      <3>4. QED
        BY <2>3, <3>1, <3>2, <3>3, SeqEqual
    <2>5. FlattenSeq(D) = FlattenSeq(SubSeq(C, 1, c)) \o D[c + 1]
      BY <2>3, <2>4, FlattenAppend
    <2>6. D[c + 1] = C[c + 1]
      BY <2>1, <2>2
    <2>7. QED
      BY <1>2, <2>5, <2>6 DEF D
  <1>7. QED
    BY <1>3, <1>4, <1>5, <1>6 DEF C

-----------------------------------------------------------------------------
(* Reading a value that is not there whole.                                *)

\* The first bytes of a number, one to a chunk.
LEMMA NumberBefore ==
  ASSUME NEW n \in Nat, NEW j \in 0..Digits(n)
  PROVE  LET P == FlattenSeq(SubSeq(VarUInt(n), 1, j))
         IN  Len(P) = j /\ \A k \in 1..j : P[k] = VarUInt(n)[k][1]
  <1> DEFINE V == VarUInt(n)
             B == SubSeq(V, 1, j)
  <1>1. V \in Seq(Seq(Nat)) /\ Len(V) = Digits(n) /\ \A k \in 1..Digits(n) : Len(V[k]) = 1
    BY VarUIntBytes
  <1>2. Digits(n) \in Nat
    BY DigitsType
  <1> HIDE DEF V
  <1>3. B \in Seq(Seq(Nat)) /\ Len(B) = j /\ \A k \in 1..j : B[k] = V[k]
    BY <1>1, Beginning
  <1> HIDE DEF B
  <1>4. \A k \in 1..Len(B) : Len(B[k]) = 1
    BY <1>1, <1>2, <1>3
  <1>5. EvenRuns(B, 1)
    BY <1>3, <1>4, FlattenUniform
  <1>6. Len(FlattenSeq(B)) = j
    BY <1>3, <1>5 DEF EvenRuns
  <1>7. ASSUME NEW k \in 1..j PROVE FlattenSeq(B)[k] = V[k][1]
    <2>1. FlattenSeq(B)[(k - 1) * 1 + 1] = B[k][1]
      BY <1>3, <1>5 DEF EvenRuns
    <2>2. (k - 1) * 1 + 1 = k
      OBVIOUS
    <2>3. QED
      BY <1>3, <2>1, <2>2
  <1>8. QED
    BY <1>6, <1>7 DEF V, B

\* A number that is cut off is not read, whatever the value.
LEMMA ReadCutNumber ==
  ASSUME NEW x \in Items, NEW old, NEW n \in Nat, NEW j \in Nat, j < Digits(n),
         x.type \notin Single, pos_ \in Nat, room = pos_ + j,
         LET P == FlattenSeq(SubSeq(VarUInt(n), 1, j))
         IN  \A k \in 1..j : bytes[pos_ + k] = P[k],
         NEW rd \in CountRead(pos_)
  PROVE  Unpacked(x, old, rd).errno # SUCCESS
  <1>1. j \in 0..Digits(n)
    BY DigitsType
  <1>2. \A k \in 1..j : bytes[pos_ + k] = VarUInt(n)[k][1]
    BY <1>1, NumberBefore
  <1>3. rd.errno # SUCCESS
    BY <1>2, CountReadShort
  <1>4. QED
    BY <1>3, UnpackedFailed

\* When a chunk of a value is not there, the reader fails.
LEMMA ReadDamaged ==
  ASSUME NEW x \in Items, NEW old, pos_ \in Nat, bytes \in Seq(Nat), room = Len(bytes),
         NEW c \in 1..Len(Chunks(x)),
         pos_ + Len(Before(x, c - 1)) <= room,
         pos_ + Len(Before(x, c - 1)) + Len(Chunks(x)[c]) > room,
         \A k \in 1..Len(Before(x, c - 1)) : bytes[pos_ + k] = Before(x, c - 1)[k],
         NEW rd \in CountRead(pos_)
  PROVE  Unpacked(x, old, rd).errno # SUCCESS
  <1> DEFINE P == Before(x, c - 1)
             size == SizeOf(x)
             m == Len(x.v)
  <1>1. /\ x.v \in Seq(Seq(Nat)) /\ m \in Nat /\ size \in Nat /\ x.type \in Types
        /\ x.type # "VarUInt" => \A k \in 1..m : Len(x.v[k]) = size
    BY ItemTypes, ItemSizes, SizeOfType
  <1>2. room \in Nat /\ \A k \in 1..room : bytes[k] \in Nat
    OBVIOUS
  <1>3. PICK j \in Nat : j = c - 1 /\ c = j + 1
    BY ChunksType
  <1>4. CASE x.type \in Single
    <2>0. Chunks(x) = x.v /\ m = 1 /\ x.type # "VarUInt"
      BY <1>4, ItemsAssumption DEF Chunks, Single
    <2>1. Chunks(x) = x.v /\ m = 1 /\ c = 1 /\ j = 0 /\ x.type # "VarUInt"
      <3>1. c \in 1..1
        BY <2>0
      <3>2. QED
        BY <1>3, <2>0, <3>1
    <2>2. P = <<>> /\ Len(P) = 0
      BY <1>3, <2>1, BeforeSteps
    <2>3. Len(Chunks(x)[c]) = size
      BY <1>1, <2>1
    <2>4. pos_ <= room /\ pos_ + 1 * size > room
      BY <1>1, <1>2, <2>2, <2>3
    <2>5. Elements(pos_, 1, size, errno_).errno # SUCCESS
      BY <1>1, <1>2, <2>4, ElementsShort
    <2>6. CASE x.type = "bool"
      <3>1. Unpacked(x, old, rd) = Truth(Elements(pos_, 1, size, errno_))
        BY <2>6, UnpackedAre DEF SizeOf, Texts
      <3>2. Truth(Elements(pos_, 1, size, errno_)).errno = Elements(pos_, 1, size, errno_).errno
        BY DEF Truth, Elements
      <3>3. QED
        BY <2>5, <3>1, <3>2
    <2>7. CASE x.type = "char"
      BY <2>5, <2>7, UnpackedAre DEF SizeOf, Texts
    <2>8. CASE x.type = "primitive"
      BY <2>5, <2>8, UnpackedAre DEF SizeOf, Texts
    <2>9. QED
      BY <1>4, <2>6, <2>7, <2>8 DEF Single
  <1>5. CASE x.type = "VarUInt"
    <2>1. PICK n \in Nat : Chunks(x) = VarUInt(n)
      BY <1>5, NumberShape
    <2>2. j < Digits(n) /\ j \in 0..Digits(n) /\ Len(Chunks(x)[c]) = 1
      <3>1. PICK V : V = Chunks(x) /\ V = VarUInt(n)
        BY <2>1
      <3>2. Len(V) = Digits(n) /\ Digits(n) \in Nat /\ \A k \in 1..Digits(n) : Len(V[k]) = 1
        <4>1. LET W == VarUInt(n)
              IN  Len(W) = Digits(n) /\ \A k \in 1..Digits(n) : Len(W[k]) = 1
          BY VarUIntBytes
        <4>2. QED
          BY <3>1, <4>1, DigitsType
      <3>3. c \in 1..Digits(n)
        BY <3>1, <3>2
      <3>4. QED
        BY <1>3, <3>1, <3>2, <3>3
    <2>3. P = FlattenSeq(SubSeq(VarUInt(n), 1, j))
      BY <1>3, <2>1 DEF Before
    <2>4. Len(P) = j
      BY <2>2, <2>3, NumberBefore
    <2>5. room = pos_ + j
      BY <1>2, <2>2, <2>4
    <2>6. \A k \in 1..j : bytes[pos_ + k] = FlattenSeq(SubSeq(VarUInt(n), 1, j))[k]
      BY <2>3, <2>4
    <2>7. x.type \notin Single
      BY <1>5 DEF Single
    <2> HIDE DEF P
    <2>8. QED
      BY <2>2, <2>5, <2>6, <2>7, ReadCutNumber
  <1>6. CASE Counted(x)
    <2> DEFINE n == Count(x)
               V == VarUInt(n)
    <2>0. x.type # "VarUInt" /\ x.type \notin Single
      BY <1>6 DEF Counted
    <2>1. n \in Nat /\ n < Word /\ Chunks(x) = V \o x.v
      BY <1>6, ItemTypes, CountedChunks
    <2>2. V \in Seq(Seq(Nat)) /\ Len(V) = Digits(n) /\ Digits(n) \in Nat /\ \A k \in 1..Digits(n) : Len(V[k]) = 1
      BY <2>1, VarUIntBytes, DigitsType
    <2> HIDE DEF V
    <2>3. /\ Len(Chunks(x)) = Digits(n) + m
          /\ \A k \in 1..Digits(n) + m : Chunks(x)[k] = IF k <= Digits(n) THEN V[k] ELSE x.v[k - Digits(n)]
      <3>1. /\ Len(V \o x.v) = Len(V) + Len(x.v)
            /\ \A k \in 1..Len(V) + Len(x.v) : (V \o x.v)[k] = IF k <= Len(V) THEN V[k] ELSE x.v[k - Len(V)]
        <4>1. V \in Seq(Seq(Nat)) /\ x.v \in Seq(Seq(Nat))
          BY <1>1, <2>2
        <4>2. QED
          BY <4>1, ConcatProperties
      <3>2. QED
        BY <2>1, <2>2, <3>1
    <2>4. CASE j < Digits(n)
      <3>1. j \in 0..Digits(n) /\ j \in 0..Len(V)
        BY <2>2, <2>4
      <3>2. SubSeq(Chunks(x), 1, j) = SubSeq(V, 1, j)
        BY <1>1, <2>1, <2>2, <3>1, BeginningOfTwo
      <3>3. P = FlattenSeq(SubSeq(VarUInt(n), 1, j))
        BY <1>3, <3>2 DEF Before, V
      <3>4. Len(P) = j
        BY <2>1, <3>1, <3>3, NumberBefore
      <3>5. Len(Chunks(x)[c]) = 1
        <4>1. c \in 1..Digits(n) + m /\ c \in 1..Digits(n) /\ c <= Digits(n)
          BY <1>1, <1>3, <2>2, <2>3, <2>4
        <4>2. Chunks(x)[c] = V[c]
          BY <2>3, <4>1
        <4>3. QED
          BY <2>2, <4>1, <4>2
      <3>6. room = pos_ + j
        BY <1>2, <3>4, <3>5
      <3>7. \A k \in 1..j : bytes[pos_ + k] = FlattenSeq(SubSeq(VarUInt(n), 1, j))[k]
        BY <3>3, <3>4
      <3> HIDE DEF P, n
      <3>8. QED
        BY <2>0, <2>1, <2>4, <3>6, <3>7, ReadCutNumber
    <2>5. CASE ~(j < Digits(n))
      <3>1. PICK i \in 0..m - 1 : j = Digits(n) + i
        <4>1. j - Digits(n) \in 0..m - 1 /\ j = Digits(n) + (j - Digits(n))
          BY <1>1, <1>3, <2>2, <2>3, <2>5
        <4>2. QED
          BY <4>1
      <3> DEFINE N == FlattenSeq(V)
                 B == SubSeq(x.v, 1, i)
                 E == FlattenSeq(B)
      <3>2. i \in 0..m /\ i \in Nat /\ i + 1 <= m /\ i + 1 \in 1..m
        BY <1>1
      <3>3. B \in Seq(Seq(Nat)) /\ Len(B) = i /\ \A k \in 1..i : B[k] = x.v[k]
        BY <1>1, <3>2, Beginning
      <3>4. SubSeq(Chunks(x), 1, j) = V \o B
        <4>1. V \in Seq(Seq(Nat)) /\ x.v \in Seq(Seq(Nat)) /\ i \in 0..Len(x.v)
          BY <1>1, <2>2, <3>2
        <4>2. SubSeq(V \o x.v, 1, Len(V) + i) = V \o SubSeq(x.v, 1, i)
          BY <4>1, BeginningOfSecond
        <4>3. QED
          BY <2>1, <2>2, <3>1, <4>2
      <3>5. P = N \o E
        BY <1>3, <2>2, <3>3, <3>4, FlattenConcat DEF Before
      <3>6. N \in Seq(Nat) /\ Len(N) = Digits(n) /\ \A k \in 1..Digits(n) : N[k] = VarUInt(n)[k][1]
        BY <2>1, NumberCode DEF V
      <3> HIDE DEF B
      <3>7. E \in Seq(Nat) /\ Len(E) = i * size
        <4>1. \A k \in 1..Len(B) : Len(B[k]) = size
          <5>1. ASSUME NEW k \in 1..Len(B) PROVE Len(B[k]) = size
            <6>1. k \in 1..i /\ k \in 1..m
              BY <3>2, <3>3
            <6>2. QED
              BY <1>1, <2>0, <3>3, <6>1
          <5>2. QED
            BY <5>1
        <4>2. EvenRuns(B, size)
          BY <1>1, <3>3, <4>1, FlattenUniform
        <4>3. QED
          BY <3>3, <4>2, FlattenType DEF EvenRuns
      <3> HIDE DEF N, E, P
      <3>8. /\ Len(P) = Digits(n) + Len(E)
            /\ \A k \in 1..Digits(n) + Len(E) : P[k] = IF k <= Digits(n) THEN N[k] ELSE E[k - Digits(n)]
        <4>1. N \in Seq(Nat) /\ E \in Seq(Nat)
          BY <3>6, <3>7
        <4>2. /\ Len(N \o E) = Len(N) + Len(E)
              /\ \A k \in 1..Len(N) + Len(E) : (N \o E)[k] = IF k <= Len(N) THEN N[k] ELSE E[k - Len(N)]
          BY <4>1, ConcatProperties
        <4>3. QED
          BY <3>5, <3>6, <4>2
      <3>9. PICK l \in Nat : l = Len(E)
        BY <3>7
      <3>10. Stands(pos_, n)
        <4>1. ASSUME NEW k \in 1..Digits(n) PROVE bytes[pos_ + k] = VarUInt(n)[k][1]
          <5>1. k \in 1..Digits(n) + l /\ k <= Digits(n)
            BY <2>2
          <5>2. QED
            BY <3>6, <3>8, <3>9, <5>1 DEF P
        <4>2. QED
          BY <4>1 DEF Stands
      <3>11. PICK at \in Nat : at = pos_ + Digits(n) /\ at <= room /\ at + l <= room
        <4>1. pos_ + Digits(n) + l <= room
          BY <3>8, <3>9, <2>2 DEF P
        <4>2. QED
          BY <1>2, <2>2, <4>1
      <3>12. rd = [pos |-> at, errno |-> errno_, n |-> n]
        BY <1>2, <2>1, <3>10, <3>11, CountReadWhole
      <3>13. at + m * size > room
        <4>1. Len(Chunks(x)[c]) = size
          <5>1. c \in 1..Digits(n) + m /\ ~(c <= Digits(n)) /\ c - Digits(n) = i + 1
            BY <1>3, <2>2, <3>1, <3>2
          <5>2. QED
            BY <1>1, <2>0, <2>3, <3>2, <5>1
        <4>2. at + l + size > room
          <5>1. PICK d \in Nat, s \in Nat : d = Digits(n) /\ s = size
            BY <1>1, <2>2
          <5>2. Len(P) = d + l /\ at = pos_ + d
            BY <3>8, <3>9, <3>11, <5>1
          <5>3. pos_ + Len(P) + s > room
            BY <4>1, <5>1 DEF P
          <5>4. at + l + s > room
            BY <1>2, <5>1, <5>2, <5>3
          <5>5. QED
            BY <5>1, <5>4
        <4>3. (i + 1) * size <= m * size /\ (i + 1) * size = i * size + size /\ m * size \in Nat
          <5>1. i + 1 \in Nat /\ size \in Nat /\ m \in Nat /\ i + 1 <= m
            BY <1>1, <3>2
          <5> HIDE DEF size, m
          <5>2. (i + 1) * size <= m * size /\ m * size \in Nat
            BY <5>1, Multiples
          <5>3. (i + 1) * size = i * size + size
            BY <3>2, <5>1, NextMultiple
          <5>4. QED
            BY <5>2, <5>3
        <4>4. PICK q \in Nat : q = m * size /\ l + size <= q
          BY <3>7, <3>9, <4>3
        <4> HIDE DEF size, m
        <4>5. QED
          BY <1>1, <1>2, <4>2, <4>4
      <3>14. Raw(x, at, errno_).errno # SUCCESS
        BY <1>1, <1>2, <3>11, <3>13, ElementsShort DEF Raw
      <3>15. ~LeftAlone(x)
        <4>1. x.v # <<>>
          BY <3>2
        <4>2. QED
          BY <4>1 DEF LeftAlone
      <3>16. Contents(x.type, rd, old).errno # SUCCESS
        BY <1>6, <3>12, <3>14, <3>15, ContentsShort
      <3>18. CASE Takes(x.type, rd.n, Count(x))
        BY <1>6, <3>16, <3>18, UnpackedAre
      <3>19. CASE ~Takes(x.type, rd.n, Count(x))
        <4>1. Unpacked(x, old, rd) = [pos |-> rd.pos, errno |-> TRAP_OUT_OF_CAPACITY, v |-> Lost]
          BY <1>6, <3>19, UnpackedAre
        <4>2. QED
          BY <4>1 DEF TRAP_OUT_OF_CAPACITY, SUCCESS
      <3>20. QED
        BY <3>18, <3>19
    <2>6. QED
      BY <2>4, <2>5
  <1>7. QED
    BY <1>4, <1>5, <1>6 DEF Counted

\* Once a reader has failed, whatever it reads fails.
LEMMA ReadFailed ==
  ASSUME NEW x, NEW old, errno_ # SUCCESS, NEW rd \in CountRead(pos_)
  PROVE  Unpacked(x, old, rd).errno # SUCCESS
  <1>1. CASE x.type \in Single
    <2>1. \A r : (\E n, size : r = Elements(pos_, n, size, errno_)) =>
             r.errno # SUCCESS /\ Truth(r).errno # SUCCESS
      <3>1. ASSUME NEW n, NEW size
            PROVE  LET r == Elements(pos_, n, size, errno_) IN Truth(r).errno = r.errno
        BY DEF Truth, Elements
      <3>2. QED
        BY <3>1, ElementsFailed
    <2>2. QED
      BY <1>1, <2>1, UnpackedAre DEF Single
  <1>2. CASE x.type \notin Single
    <2>1. rd.errno # SUCCESS
      BY DEF CountRead, TRAP_OUT_OF_STREAM, SUCCESS
    <2>2. QED
      BY <1>2, <2>1, UnpackedFailed
  <1>3. QED
    BY <1>1, <1>2

-----------------------------------------------------------------------------
(* The bytes of several values.                                            *)

\* p stands at the beginning of s.
Begins(p, s) == Len(p) <= Len(s) /\ \A k \in 1..Len(p) : s[k] = p[k]

\* What begins a beginning begins the whole.
LEMMA BeginsTransitive ==
  ASSUME NEW S, NEW p \in Seq(S), NEW q \in Seq(S), NEW s \in Seq(S), Begins(p, q), Begins(q, s)
  PROVE  Begins(p, s)
  <1>1. Len(p) \in Nat /\ Len(q) \in Nat /\ Len(s) \in Nat
    OBVIOUS
  <1>2. \A k \in 1..Len(p) : k \in 1..Len(q)
    BY <1>1 DEF Begins
  <1>3. QED
    BY <1>1, <1>2 DEF Begins

\* It does not matter where three sequences are put together first.
LEMMA Associative ==
  ASSUME NEW S, NEW p \in Seq(S), NEW q \in Seq(S), NEW r \in Seq(S)
  PROVE  (p \o q) \o r = p \o (q \o r)
  BY ConcatAssociative, SMTT(30)

\* The same of byte strings.
LEMMA BytesAssociative ==
  ASSUME NEW p \in Seq(Nat), NEW q \in Seq(Nat), NEW r \in Seq(Nat)
  PROVE  (p \o q) \o r = p \o (q \o r)
  BY Associative, SMTT(30)

\* A sequence begins with the first of its two parts.
LEMMA BeginsConcat ==
  ASSUME NEW S, NEW p \in Seq(S), NEW q \in Seq(S)
  PROVE  Begins(p, p \o q) /\ p \o q \in Seq(S) /\ Len(p \o q) = Len(p) + Len(q)
  <1>1. /\ p \o q \in Seq(S) /\ Len(p \o q) = Len(p) + Len(q)
        /\ \A k \in 1..Len(p) + Len(q) : (p \o q)[k] = IF k <= Len(p) THEN p[k] ELSE q[k - Len(p)]
    BY ConcatProperties
  <1>2. Len(p) \in Nat /\ Len(q) \in Nat
    OBVIOUS
  <1>3. QED
    BY <1>1, <1>2 DEF Begins

\* The bytes of the first n of the values s, and of c chunks of the i-th after those before it.
Ideal(s, n) == FlattenSeq([j \in 1..n |-> Code(s[j])])
Part(s, i, c) == Ideal(s, i - 1) \o Before(s[i], c)

\* From value to value in an endless buffer.
LEMMA IdealSteps ==
  ASSUME NEW s \in Seq(Items)
  PROVE  /\ Ideal(s, 0) = <<>>
         /\ \A n \in 0..Len(s) : Ideal(s, n) \in Seq(Nat)
         /\ \A n \in 0..Len(s) - 1 : Ideal(s, n + 1) = Ideal(s, n) \o Code(s[n + 1])
  <1> DEFINE codes(n) == [j \in 1..n |-> Code(s[j])]
  <1>1. ASSUME NEW n \in 0..Len(s)
        PROVE  codes(n) \in Seq(Seq(Nat)) /\ Len(codes(n)) = n
    <2>1. \A j \in 1..n : Code(s[j]) \in Seq(Nat)
      <3>1. \A j \in 1..n : s[j] \in Items
        OBVIOUS
      <3>2. QED
        BY <3>1, ChunksType
    <2>2. n \in Nat
      OBVIOUS
    <2>3. QED
      BY <2>1, <2>2
  <1>2. Ideal(s, 0) = <<>>
    <2>1. codes(0) = <<>>
      OBVIOUS
    <2>2. QED
      BY <2>1, FlattenEmpty DEF Ideal
  <1>3. ASSUME NEW n \in 0..Len(s) PROVE Ideal(s, n) \in Seq(Nat)
    BY <1>1, FlattenType DEF Ideal
  <1>4. ASSUME NEW n \in 0..Len(s) - 1 PROVE Ideal(s, n + 1) = Ideal(s, n) \o Code(s[n + 1])
    <2>1. n \in 0..Len(s) /\ n + 1 \in 0..Len(s) /\ n \in Nat /\ s[n + 1] \in Items
      OBVIOUS
    <2>2. codes(n) \in Seq(Seq(Nat)) /\ Len(codes(n)) = n /\ Code(s[n + 1]) \in Seq(Nat)
      BY <1>1, <2>1, ChunksType
    <2>3. codes(n + 1) \in Seq(Seq(Nat)) /\ Len(codes(n + 1)) = n + 1
      BY <1>1, <2>1
    <2>4. \A j \in 1..n : codes(n + 1)[j] = codes(n)[j]
      OBVIOUS
    <2>5. codes(n + 1)[n + 1] = Code(s[n + 1])
      BY <2>1
    <2>6. codes(n + 1) = Append(codes(n), Code(s[n + 1]))
      <3> DEFINE a == codes(n)
                 b == codes(n + 1)
                 e == Code(s[n + 1])
      <3> HIDE DEF a, b, e
      <3>1. Append(a, e) \in Seq(Seq(Nat)) /\ Len(Append(a, e)) = n + 1
            /\ Append(a, e)[n + 1] = e /\ \A j \in 1..n : Append(a, e)[j] = a[j]
        BY <2>2, AppendProperties DEF a, e
      <3>2. \A j \in 1..n + 1 : b[j] = Append(a, e)[j]
        BY <2>1, <2>4, <2>5, <3>1 DEF a, b, e
      <3>3. b = Append(a, e)
        BY <2>3, <3>1, <3>2, SeqEqual DEF b
      <3>4. QED
        BY <3>3 DEF a, b, e
    <2>7. FlattenSeq(codes(n + 1)) = FlattenSeq(codes(n)) \o Code(s[n + 1])
      <3> HIDE DEF codes
      <3>1. QED
        BY <2>2, <2>6, FlattenAppend
    <2>8. QED
      BY <2>7 DEF Ideal
  <1>5. QED
    BY <1>2, <1>3, <1>4

\* One more value changes nothing before it.
LEMMA IdealKept ==
  ASSUME NEW s \in Seq(Items), NEW x \in Items, NEW n \in 0..Len(s)
  PROVE  Ideal(Append(s, x), n) = Ideal(s, n)
  <1>1. \A j \in 1..n : Append(s, x)[j] = s[j]
    OBVIOUS
  <1>2. [j \in 1..n |-> Code(Append(s, x)[j])] = [j \in 1..n |-> Code(s[j])]
    BY <1>1
  <1>3. QED
    BY <1>2 DEF Ideal

\* Fewer values are the beginning of more.
LEMMA IdealBegins ==
  ASSUME NEW s \in Seq(Items), NEW n \in 0..Len(s), NEW m \in 0..n
  PROVE  Begins(Ideal(s, m), Ideal(s, n)) /\ Ideal(s, m) \in Seq(Nat) /\ Ideal(s, n) \in Seq(Nat)
  <1> DEFINE T == {k \in Nat : m <= k /\ k <= Len(s) => Begins(Ideal(s, m), Ideal(s, k))}
  <1>0. Len(s) \in Nat /\ m \in 0..Len(s) /\ m \in Nat /\ n \in Nat
    OBVIOUS
  <1>1. Ideal(s, m) \in Seq(Nat) /\ Begins(Ideal(s, m), Ideal(s, m))
    <2>1. Ideal(s, m) \in Seq(Nat)
      BY <1>0, IdealSteps
    <2>2. Len(Ideal(s, m)) \in Nat
      BY <2>1
    <2>3. QED
      BY <2>1, <2>2 DEF Begins
  <1>2. 0 \in T
    <2>1. m <= 0 => m = 0
      BY <1>0
    <2>2. QED
      BY <1>1, <2>1
  <1>3. ASSUME NEW k \in T \cap Nat PROVE k + 1 \in T
    <2>1. ASSUME m <= k + 1, k + 1 <= Len(s) PROVE Begins(Ideal(s, m), Ideal(s, k + 1))
      <3>1. CASE m = k + 1
        BY <1>1, <3>1
      <3>2. CASE m # k + 1
        <4>1. m <= k /\ k <= Len(s) /\ k \in 0..Len(s) - 1 /\ k \in 0..Len(s) /\ k + 1 \in 1..Len(s)
          BY <1>0, <2>1, <3>2
        <4>2. Begins(Ideal(s, m), Ideal(s, k))
          BY <1>3, <4>1
        <4>3. Ideal(s, k + 1) = Ideal(s, k) \o Code(s[k + 1]) /\ Ideal(s, k) \in Seq(Nat)
          BY <4>1, IdealSteps
        <4>4. Code(s[k + 1]) \in Seq(Nat)
          BY <4>1, ChunksType
        <4>5. Begins(Ideal(s, k), Ideal(s, k + 1)) /\ Ideal(s, k + 1) \in Seq(Nat)
          BY <4>3, <4>4, BeginsConcat
        <4>6. QED
          BY <1>1, <4>2, <4>3, <4>5, BeginsTransitive
      <3>3. QED
        BY <3>1, <3>2
    <2>2. QED
      BY <2>1
  <1>4. Nat \subseteq T
    <2> HIDE DEF T
    <2>1. QED
      BY <1>2, <1>3, Induction
  <1>5. Begins(Ideal(s, m), Ideal(s, n))
    <2>1. n \in T /\ m <= n /\ n <= Len(s)
      BY <1>0, <1>4
    <2>2. QED
      BY <2>1
  <1>6. Ideal(s, n) \in Seq(Nat)
    BY IdealSteps
  <1>7. QED
    BY <1>1, <1>5, <1>6

\* Fewer chunks are the beginning of more.
LEMMA BeforeBegins ==
  ASSUME NEW x \in Items, NEW n \in 0..Len(Chunks(x)), NEW m \in 0..n
  PROVE  Begins(Before(x, m), Before(x, n)) /\ Before(x, m) \in Seq(Nat) /\ Before(x, n) \in Seq(Nat)
  <1> DEFINE L == Len(Chunks(x))
             T == {k \in Nat : m <= k /\ k <= L => Begins(Before(x, m), Before(x, k))}
  <1>0. L \in Nat /\ m \in 0..L /\ m \in Nat /\ n \in Nat
    BY ChunksType
  <1>1. Before(x, m) \in Seq(Nat) /\ Begins(Before(x, m), Before(x, m))
    <2>1. Before(x, m) \in Seq(Nat)
      BY <1>0, BeforeSteps
    <2>2. Len(Before(x, m)) \in Nat
      BY <2>1
    <2>3. QED
      BY <2>1, <2>2 DEF Begins
  <1>2. 0 \in T
    <2>1. m <= 0 => m = 0
      BY <1>0
    <2>2. QED
      BY <1>1, <2>1
  <1>3. ASSUME NEW k \in T \cap Nat PROVE k + 1 \in T
    <2>1. ASSUME m <= k + 1, k + 1 <= L PROVE Begins(Before(x, m), Before(x, k + 1))
      <3>1. CASE m = k + 1
        BY <1>1, <3>1
      <3>2. CASE m # k + 1
        <4>1. m <= k /\ k <= L /\ k \in 0..L - 1 /\ k \in 0..L /\ k + 1 \in 1..L
          BY <1>0, <2>1, <3>2
        <4>2. Begins(Before(x, m), Before(x, k))
          BY <1>3, <4>1
        <4>3. Before(x, k + 1) = Before(x, k) \o Chunks(x)[k + 1] /\ Before(x, k) \in Seq(Nat)
          BY <4>1, BeforeSteps
        <4>4. Chunks(x)[k + 1] \in Seq(Nat)
          BY <4>1, ChunksType
        <4>5. Begins(Before(x, k), Before(x, k + 1)) /\ Before(x, k + 1) \in Seq(Nat)
          BY <4>3, <4>4, BeginsConcat
        <4>6. QED
          BY <1>1, <4>2, <4>3, <4>5, BeginsTransitive
      <3>3. QED
        BY <3>1, <3>2
    <2>2. QED
      BY <2>1
  <1>4. Nat \subseteq T
    <2> HIDE DEF T
    <2>1. QED
      BY <1>2, <1>3, Induction
  <1>5. Begins(Before(x, m), Before(x, n))
    <2>1. n \in T /\ m <= n /\ n <= L
      BY <1>0, <1>4
    <2>2. QED
      BY <2>1
  <1>6. Before(x, n) \in Seq(Nat)
    BY BeforeSteps
  <1>7. QED
    BY <1>1, <1>5, <1>6

\* The part up to a chunk, and that chunk.
LEMMA PartSteps ==
  ASSUME NEW s \in Seq(Items), NEW i \in 1..Len(s), NEW c \in 1..Len(Chunks(s[i]))
  PROVE  /\ Part(s, i, c - 1) \in Seq(Nat) /\ Part(s, i, c) \in Seq(Nat)
         /\ Part(s, i, 0) = Ideal(s, i - 1)
         /\ Part(s, i, Len(Chunks(s[i]))) = Ideal(s, i)
         /\ Len(Part(s, i, c)) = Len(Part(s, i, c - 1)) + Len(Chunks(s[i])[c])
         /\ Len(Part(s, i, c - 1)) = Len(Ideal(s, i - 1)) + Len(Before(s[i], c - 1))
         /\ Begins(Part(s, i, c - 1), Part(s, i, c)) /\ Begins(Part(s, i, c), Ideal(s, i))
         /\ Begins(Ideal(s, i - 1), Part(s, i, c - 1))
  <1> DEFINE x == s[i]
             I == Ideal(s, i - 1)
             L == Len(Chunks(x))
  <1>1. PICK b \in Nat : c - 1 = b /\ c = b + 1
    <2>1. c - 1 \in Nat /\ c = (c - 1) + 1
      OBVIOUS
    <2>2. QED
      BY <2>1
  <1>2. x \in Items /\ i \in Nat /\ i - 1 \in 0..Len(s) - 1 /\ i - 1 \in 0..Len(s) /\ (i - 1) + 1 = i
    OBVIOUS
  <1>3. I \in Seq(Nat) /\ Ideal(s, i) = I \o Code(x)
    BY <1>2, IdealSteps
  <1>4. L \in Nat /\ b \in 0..L - 1 /\ b \in 0..L /\ b + 1 \in 0..L /\ b + 1 \in 1..L
    BY <1>1, <1>2, ChunksType
  <1>5. /\ Before(x, b) \in Seq(Nat) /\ Before(x, b + 1) \in Seq(Nat) /\ Chunks(x)[b + 1] \in Seq(Nat)
        /\ Code(x) \in Seq(Nat)
        /\ Before(x, b + 1) = Before(x, b) \o Chunks(x)[b + 1]
        /\ Before(x, L) = Code(x) /\ Before(x, 0) = <<>>
    BY <1>2, <1>4, BeforeSteps, ChunksType
  <1> HIDE DEF I, L, x
  <1>6. I \o <<>> = I
    BY <1>3, ConcatEmptySeq
  <1>7. I \o Before(x, b + 1) = (I \o Before(x, b)) \o Chunks(x)[b + 1]
    <2> DEFINE B == Before(x, b)
               C == Chunks(x)[b + 1]
    <2>1. B \in Seq(Nat) /\ C \in Seq(Nat) /\ Before(x, b + 1) = B \o C
      BY <1>5
    <2> HIDE DEF B, C
    <2>2. (I \o B) \o C = I \o (B \o C)
      BY <1>3, <2>1, BytesAssociative
    <2>3. QED
      BY <2>1, <2>2 DEF B, C
  <1>8. /\ Begins(I, I \o Before(x, b)) /\ I \o Before(x, b) \in Seq(Nat)
        /\ Len(I \o Before(x, b)) = Len(I) + Len(Before(x, b))
    BY <1>3, <1>5, BeginsConcat
  <1>9. /\ Begins(I \o Before(x, b), I \o Before(x, b + 1)) /\ I \o Before(x, b + 1) \in Seq(Nat)
        /\ Len(I \o Before(x, b + 1)) = Len(I \o Before(x, b)) + Len(Chunks(x)[b + 1])
    <2> DEFINE p == I \o Before(x, b)
               q == Chunks(x)[b + 1]
    <2>1. p \in Seq(Nat) /\ q \in Seq(Nat) /\ I \o Before(x, b + 1) = p \o q
      BY <1>5, <1>7, <1>8
    <2> HIDE DEF p, q
    <2>2. Begins(p, p \o q) /\ p \o q \in Seq(Nat) /\ Len(p \o q) = Len(p) + Len(q)
      BY <2>1, BeginsConcat
    <2>3. QED
      BY <2>1, <2>2 DEF p, q
  <1>10. Begins(I \o Before(x, b + 1), I \o Code(x))
    <2>1. Begins(Before(x, b + 1), Before(x, L))
      <3>1. L \in 0..Len(Chunks(x)) /\ b + 1 \in 0..L /\ x \in Items
        BY <1>2, <1>4 DEF L, x
      <3>2. QED
        BY <3>1, BeforeBegins
    <2>2. ASSUME NEW p \in Seq(Nat), NEW q \in Seq(Nat), NEW r \in Seq(Nat), Begins(q, r)
          PROVE  Begins(p \o q, p \o r)
      <3>1. /\ Len(p \o q) = Len(p) + Len(q) /\ Len(p \o r) = Len(p) + Len(r)
            /\ \A k \in 1..Len(p) + Len(q) : (p \o q)[k] = IF k <= Len(p) THEN p[k] ELSE q[k - Len(p)]
            /\ \A k \in 1..Len(p) + Len(r) : (p \o r)[k] = IF k <= Len(p) THEN p[k] ELSE r[k - Len(p)]
        BY ConcatProperties
      <3>2. Len(p) \in Nat /\ Len(q) \in Nat /\ Len(r) \in Nat /\ Len(q) <= Len(r)
        BY <2>2 DEF Begins
      <3>3. ASSUME NEW k \in 1..Len(p) + Len(q) PROVE (p \o r)[k] = (p \o q)[k]
        <4>1. k \in 1..Len(p) + Len(r)
          BY <3>2
        <4>2. ~(k <= Len(p)) => k - Len(p) \in 1..Len(q)
          BY <3>2
        <4>3. QED
          BY <2>2, <3>1, <4>1, <4>2 DEF Begins
      <3>4. QED
        BY <3>1, <3>2, <3>3 DEF Begins
    <2>3. QED
      BY <1>3, <1>5, <2>1, <2>2
  <1>11. \A e : Part(s, i, e) = I \o Before(x, e)
    BY DEF Part, I, x
  <1>12. QED
    BY <1>1, <1>3, <1>5, <1>6, <1>8, <1>9, <1>10, <1>11 DEF I, L, x

-----------------------------------------------------------------------------
(* Writing a value.                                                        *)

\* Chunk c of x had no room after the bytes b and the chunks before it, which are there.
Misses(b, x, c, s, size) ==
    /\ Begins(b \o Before(x, c - 1), s)
    /\ Len(b \o Before(x, c - 1)) + Len(Chunks(x)[c]) > size

\* How a writer that had written b without (or with) a failure stands after k chunks of x.
Wrote(b, failed, x, k, w, size) ==
    /\ w.bytes \in Seq(Nat) /\ Len(w.bytes) <= size /\ Begins(b, w.bytes)
    /\ failed => w.errno # SUCCESS
    /\ \/ failed
       \/ w.errno = SUCCESS /\ w.bytes = b \o Before(x, k)
       \/ w.errno # SUCCESS /\ \E c \in 1..Len(Chunks(x)) : Misses(b, x, c, w.bytes, size)

\* One more chunk: it fits and is added, or is missed for good.
LEMMA PutKeeps ==
  ASSUME NEW x \in Items, NEW size \in Nat, NEW b \in Seq(Nat), NEW failed \in BOOLEAN,
         NEW k \in 0..Len(Chunks(x)) - 1, NEW w, w = [bytes |-> w.bytes, errno |-> w.errno],
         Wrote(b, failed, x, k, w, size)
  PROVE  Wrote(b, failed, x, k + 1, Put(w, Chunks(x)[k + 1], size), size)
  <1> DEFINE chunk == Chunks(x)[k + 1]
             p == Put(w, chunk, size)
  <1>1. /\ k + 1 \in 1..Len(Chunks(x)) /\ k \in 0..Len(Chunks(x)) /\ chunk \in Seq(Nat)
        /\ Before(x, k) \in Seq(Nat) /\ Before(x, k + 1) = Before(x, k) \o chunk
    <2>1. k + 1 \in 1..Len(Chunks(x)) /\ k \in 0..Len(Chunks(x))
      BY ChunksType
    <2>2. QED
      BY <2>1, ChunksType, BeforeSteps
  <1> HIDE DEF chunk
  <1>2. w.bytes \in Seq(Nat) /\ Len(w.bytes) <= size /\ Begins(b, w.bytes) /\ Len(w.bytes) \in Nat
    BY DEF Wrote
  <1>3. /\ Begins(w.bytes, w.bytes \o chunk) /\ w.bytes \o chunk \in Seq(Nat)
        /\ Len(w.bytes \o chunk) = Len(w.bytes) + Len(chunk)
    BY <1>1, <1>2, BeginsConcat
  <1>4. CASE Len(w.bytes) + Len(chunk) <= size
    <2>1. p = [bytes |-> w.bytes \o chunk, errno |-> w.errno]
      BY <1>4 DEF Put
    <2> HIDE DEF p
    <2>2. p.bytes = w.bytes \o chunk /\ p.errno = w.errno
      BY <2>1
    <2>3. p.bytes \in Seq(Nat) /\ Len(p.bytes) <= size /\ Begins(w.bytes, p.bytes) /\ Begins(b, p.bytes)
      BY <1>2, <1>3, <1>4, <2>2, BeginsTransitive
    <2>4. ASSUME w.errno = SUCCESS, w.bytes = b \o Before(x, k) PROVE p.bytes = b \o Before(x, k + 1)
      <3> DEFINE B == Before(x, k)
      <3> HIDE DEF B
      <3>1. B \in Seq(Nat)
        BY <1>1 DEF B
      <3>2. (b \o B) \o chunk = b \o (B \o chunk)
        BY <1>1, <3>1, BytesAssociative
      <3>3. QED
        BY <1>1, <2>2, <2>4, <3>2 DEF B
    <2>5. ASSUME NEW c \in 1..Len(Chunks(x)), Misses(b, x, c, w.bytes, size)
          PROVE  Misses(b, x, c, p.bytes, size)
      <3>1. Before(x, c - 1) \in Seq(Nat)
        <4>1. c - 1 \in 0..Len(Chunks(x))
          BY ChunksType
        <4>2. QED
          BY <4>1, BeforeSteps
      <3>2. b \o Before(x, c - 1) \in Seq(Nat)
        BY <3>1, BeginsConcat
      <3>3. Begins(b \o Before(x, c - 1), p.bytes)
        BY <1>2, <2>3, <2>5, <3>2, BeginsTransitive DEF Misses
      <3>4. QED
        BY <2>5, <3>3 DEF Misses
    <2>6. QED
      BY <2>2, <2>3, <2>4, <2>5 DEF Wrote, p, chunk
  <1>5. CASE ~(Len(w.bytes) + Len(chunk) <= size)
    <2>1. p = [bytes |-> w.bytes, errno |-> TRAP_OUT_OF_STREAM]
      BY <1>5 DEF Put
    <2> HIDE DEF p
    <2>2. p.bytes = w.bytes /\ p.errno # SUCCESS
      BY <2>1 DEF TRAP_OUT_OF_STREAM, SUCCESS
    <2>3. ASSUME w.errno = SUCCESS, w.bytes = b \o Before(x, k)
          PROVE  Misses(b, x, k + 1, p.bytes, size)
      <3>1. (k + 1) - 1 = k
        OBVIOUS
      <3>2. Len(w.bytes) + Len(chunk) > size
        <4>1. Len(chunk) \in Nat
          BY <1>1
        <4>2. QED
          BY <1>2, <1>5, <4>1
      <3>3. Begins(w.bytes, w.bytes)
        BY <1>2 DEF Begins
      <3>4. QED
        BY <2>2, <2>3, <3>1, <3>2, <3>3 DEF Misses, chunk
    <2>4. QED
      BY <1>1, <1>2, <2>2, <2>3 DEF Wrote, p, chunk
  <1>6. QED
    BY <1>4, <1>5

\* What becomes of a value that is written.
LEMMA WrittenKeeps ==
  ASSUME NEW x \in Items, NEW size \in Nat, NEW b \in Seq(Nat), Len(b) <= size, NEW errno
  PROVE  Wrote(b, errno # SUCCESS, x, Len(Chunks(x)),
               Written([bytes |-> b, errno |-> errno], x, size), size)
  <1> DEFINE start == [bytes |-> b, errno |-> errno]
             L == Len(Chunks(x))
             failed == errno # SUCCESS
             X == [bytes : Seq(Nat), errno : {errno, TRAP_OUT_OF_STREAM}]
             step == [k \in Nat |-> [w \in X |-> IF k < L THEN Put(w, Chunks(x)[k + 1], size) ELSE w]]
             turn(h) == [k \in 0..L |-> IF k = 0 THEN start ELSE Put(h[k - 1], Chunks(x)[k], size)]
             written == CHOOSE h : h = turn(h)
  <1>1. L \in Nat /\ \A k \in 1..L : Chunks(x)[k] \in Seq(Nat)
    BY ChunksType
  <1> HIDE DEF L
  <1>2. start \in X
    OBVIOUS
  <1>3. ASSUME NEW w \in X, NEW k \in 1..L PROVE Put(w, Chunks(x)[k], size) \in X
    <2>1. Chunks(x)[k] \in Seq(Nat) /\ w.bytes \in Seq(Nat) /\ w.errno \in {errno, TRAP_OUT_OF_STREAM}
          /\ w = [bytes |-> w.bytes, errno |-> w.errno]
      BY <1>1
    <2>2. w.bytes \o Chunks(x)[k] \in Seq(Nat)
      BY <2>1, BeginsConcat
    <2>3. \/ Put(w, Chunks(x)[k], size) = [bytes |-> w.bytes \o Chunks(x)[k], errno |-> w.errno]
          \/ Put(w, Chunks(x)[k], size) = [bytes |-> w.bytes, errno |-> TRAP_OUT_OF_STREAM]
      BY <2>1 DEF Put
    <2>4. [bytes |-> w.bytes \o Chunks(x)[k], errno |-> w.errno] \in X
      BY <2>1, <2>2
    <2>5. [bytes |-> w.bytes, errno |-> TRAP_OUT_OF_STREAM] \in X
      BY <2>1
    <2> HIDE DEF X
    <2>6. QED
      BY <2>3, <2>4, <2>5
  <1>4. step \in [Nat -> [X -> X]]
    <2>1. ASSUME NEW k \in Nat, NEW w \in X PROVE (IF k < L THEN Put(w, Chunks(x)[k + 1], size) ELSE w) \in X
      <3>1. CASE k < L
        <4>1. k + 1 \in 1..L
          BY <1>1, <3>1
        <4> HIDE DEF X
        <4>2. QED
          BY <1>3, <3>1, <4>1
      <3>2. QED
        BY <3>1
    <2> HIDE DEF X
    <2>2. QED
      BY <2>1
  <1> HIDE DEF X, start
  <1>5. PICK f \in [0..L -> X] : StepwiseTo(L, f, start, step)
    <2> HIDE DEF step
    <2>1. QED
      BY <1>1, <1>2, <1>4, RecursionTo
  <1>6. f = turn(f)
    <2>1. ASSUME NEW k \in 0..L
          PROVE  (IF k = 0 THEN start ELSE step[k - 1][f[k - 1]])
                    = IF k = 0 THEN start ELSE Put(f[k - 1], Chunks(x)[k], size)
      <3>1. CASE k # 0
        <4>1. PICK j \in 0..L : j = k - 1 /\ j \in Nat /\ j < L /\ k = j + 1
          BY <1>1, <3>1
        <4>2. f[j] \in X
          BY <4>1
        <4>3. step[j][f[j]] = Put(f[j], Chunks(x)[j + 1], size)
          BY <4>1, <4>2
        <4> HIDE DEF step
        <4>4. QED
          BY <3>1, <4>1, <4>3
      <3>2. QED
        BY <3>1
    <2>2. f = [k \in 0..L |-> IF k = 0 THEN start ELSE step[k - 1][f[k - 1]]]
      BY <1>5 DEF StepwiseTo
    <2> HIDE DEF step
    <2>3. QED
      BY <2>1, <2>2
  <1>7. written = turn(written)
    <2> HIDE DEF turn
    <2>1. QED
      BY <1>6
  <1>8. Written(start, x, size) = written[L]
    BY DEF Written, L
  <1> HIDE DEF written
  <1> DEFINE T == {k \in Nat : k \in 0..L => /\ written[k] \in X
                                              /\ Wrote(b, failed, x, k, written[k], size)}
  <1>9. 0 \in T
    <2>1. written[0] = start
      <3>1. turn(written)[0] = start
        BY <1>1
      <3>2. QED
        BY <1>7, <3>1
    <2>2. Before(x, 0) = <<>> /\ b \o <<>> = b
      BY BeforeSteps, ConcatEmptySeq
    <2>3. Begins(b, b)
      <3>1. Len(b) \in Nat
        OBVIOUS
      <3>2. QED
        BY <3>1 DEF Begins
    <2>4. start.bytes = b /\ start.errno = errno
      BY DEF start
    <2>5. Wrote(b, failed, x, 0, start, size)
      BY <2>2, <2>3, <2>4 DEF Wrote
    <2>6. QED
      BY <1>2, <2>1, <2>5
  <1>10. ASSUME NEW k \in T \cap Nat PROVE k + 1 \in T
    <2>1. ASSUME k + 1 \in 0..L
          PROVE  written[k + 1] \in X /\ Wrote(b, failed, x, k + 1, written[k + 1], size)
      <3>1. k \in 0..L /\ k + 1 \in 1..L /\ k \in 0..Len(Chunks(x)) - 1
        BY <1>1, <2>1 DEF L
      <3>2. written[k] \in X /\ Wrote(b, failed, x, k, written[k], size)
        BY <1>10, <3>1
      <3>3. written[k + 1] = Put(written[k], Chunks(x)[k + 1], size)
        <4>1. PICK i \in 0..L : i = k + 1 /\ i # 0 /\ i - 1 = k
          BY <2>1
        <4>2. turn(written)[i] = Put(written[i - 1], Chunks(x)[i], size)
          BY <4>1
        <4>3. QED
          BY <1>7, <4>1, <4>2
      <3>4. written[k + 1] \in X
        BY <1>3, <3>1, <3>2, <3>3
      <3>5. written[k] = [bytes |-> written[k].bytes, errno |-> written[k].errno] /\ failed \in BOOLEAN
        BY <3>2 DEF X
      <3> HIDE DEF failed
      <3>6. Wrote(b, failed, x, k + 1, written[k + 1], size)
        BY <3>1, <3>2, <3>3, <3>5, PutKeeps
      <3>7. QED
        BY <3>4, <3>6
    <2>2. QED
      BY <2>1
  <1>11. Nat \subseteq T
    <2> HIDE DEF T
    <2>1. QED
      BY <1>9, <1>10, Induction
  <1>12. Wrote(b, failed, x, L, written[L], size)
    BY <1>1, <1>11
  <1>13. QED
    BY <1>8, <1>12 DEF start, L

-----------------------------------------------------------------------------
(* What a loss leaves behind.                                              *)

\* Of the values s, some chunk had no room in size bytes; b has all before it.
MissesIn(b, size, s, i, c) ==
    /\ Begins(Part(s, i, c - 1), b)
    /\ Len(Part(s, i, c - 1)) + Len(Chunks(s[i])[c]) > size
Damaged(b, size, s) == \E i \in 1..Len(s) : \E c \in 1..Len(Chunks(s[i])) : MissesIn(b, size, s, i, c)

\* Damage stays when more is written after it.
LEMMA DamageKept ==
  ASSUME NEW s \in Seq(Items), NEW b \in Seq(Nat), NEW size \in Nat, Damaged(b, size, s),
         NEW x \in Items, NEW d \in Seq(Nat), Begins(b, d)
  PROVE  Damaged(d, size, Append(s, x))
  <1>0. PICK i \in 1..Len(s) : \E c \in 1..Len(Chunks(s[i])) : MissesIn(b, size, s, i, c)
    BY DEF Damaged
  <1>1. PICK c \in 1..Len(Chunks(s[i])) : MissesIn(b, size, s, i, c)
    BY <1>0
  <1> DEFINE t == Append(s, x)
  <1>2. i \in 1..Len(t) /\ t[i] = s[i] /\ i - 1 \in 0..Len(s)
    OBVIOUS
  <1>3. Part(t, i, c - 1) = Part(s, i, c - 1)
    BY <1>2, IdealKept DEF Part
  <1>4. Part(s, i, c - 1) \in Seq(Nat)
    BY PartSteps
  <1> HIDE DEF t
  <1>5. Begins(Part(s, i, c - 1), d)
    BY <1>1, <1>4, BeginsTransitive DEF MissesIn
  <1>6. MissesIn(d, size, t, i, c)
    BY <1>1, <1>2, <1>3, <1>5 DEF MissesIn
  <1>7. QED
    BY <1>2, <1>6 DEF Damaged, t

\* A value that misses a chunk damages the stream.
LEMMA DamageDone ==
  ASSUME NEW s \in Seq(Items), NEW x \in Items, NEW d \in Seq(Nat), NEW size \in Nat,
         NEW c \in 1..Len(Chunks(x)), Misses(Ideal(s, Len(s)), x, c, d, size)
  PROVE  Damaged(d, size, Append(s, x))
  <1> DEFINE t == Append(s, x)
             i == Len(s) + 1
  <1>1. Len(s) \in Nat /\ i \in 1..Len(t) /\ t[i] = x /\ i - 1 = Len(s) /\ Len(s) \in 0..Len(s)
    OBVIOUS
  <1>2. Ideal(t, Len(s)) = Ideal(s, Len(s))
    BY <1>1, IdealKept
  <1> HIDE DEF t, i
  <1>3. Part(t, i, c - 1) = Ideal(s, Len(s)) \o Before(x, c - 1)
    BY <1>1, <1>2 DEF Part
  <1>4. MissesIn(d, size, t, i, c)
    BY <1>1, <1>3 DEF MissesIn, Misses
  <1>5. QED
    BY <1>1, <1>4 DEF Damaged, t

\* What is cut off before the end of the bytes of some values is damaged.
LEMMA CutChunk ==
  ASSUME NEW s \in Seq(Items), NEW b \in Seq(Nat), NEW n \in 0..Len(b),
         NEW i \in 1..Len(s), NEW e \in 1..Len(Chunks(s[i])),
         Len(Ideal(s, i - 1)) <= n, Len(Part(s, i, e)) > n, Begins(Part(s, i, e), b)
  PROVE  Damaged(SubSeq(b, 1, n), n, s)
  <1> DEFINE L == Len(Chunks(s[i]))
             d == SubSeq(b, 1, n)
             S == {c \in Nat : c \in 1..L /\ Len(Part(s, i, c)) > n}
  <1>1. e \in S /\ s[i] \in Items /\ L \in Nat
    <2>1. s[i] \in Items
      OBVIOUS
    <2>2. QED
      BY <2>1, ChunksType
  <1>2. PICK c \in S : \A m \in S : c <= m
    <2>1. S \subseteq Nat /\ S # {}
      BY <1>1
    <2> HIDE DEF S
    <2>2. QED
      BY <2>1, First
  <1>3. c \in 1..L /\ Len(Part(s, i, c)) > n /\ c <= e
    BY <1>1, <1>2
  <1>4. d \in Seq(Nat) /\ Len(d) = n /\ \A k \in 1..n : d[k] = b[k]
    BY Beginning
  <1> HIDE DEF d
  <1>5. /\ Part(s, i, c - 1) \in Seq(Nat) /\ Part(s, i, c) \in Seq(Nat) /\ Part(s, i, e) \in Seq(Nat)
        /\ Len(Part(s, i, c)) = Len(Part(s, i, c - 1)) + Len(Chunks(s[i])[c])
        /\ Begins(Part(s, i, c - 1), Part(s, i, c))
    BY <1>3, PartSteps
  <1>6. Len(Part(s, i, c - 1)) <= n
    <2>1. CASE c = 1
      <3>1. Part(s, i, c - 1) = Ideal(s, i - 1)
        <4>1. c - 1 = 0 /\ c \in 1..Len(Chunks(s[i]))
          BY <1>3, <2>1
        <4>2. Part(s, i, 0) = Ideal(s, i - 1)
          BY <4>1, PartSteps
        <4>3. QED
          BY <4>1, <4>2
      <3>2. QED
        BY <3>1
    <2>2. CASE c # 1
      <3>1. c - 1 \in Nat /\ c - 1 \in 1..L /\ ~(c <= c - 1)
        BY <1>3, <2>2
      <3>2. c - 1 \notin S
        BY <1>2, <3>1
      <3>3. ~(Len(Part(s, i, c - 1)) > n)
        BY <3>1, <3>2
      <3>4. Len(Part(s, i, c - 1)) \in Nat
        BY <1>5
      <3>5. QED
        BY <3>3, <3>4
    <2>3. QED
      BY <2>1, <2>2
  <1>7. Begins(Part(s, i, c), Part(s, i, e))
    <2>1. ASSUME NEW p \in 1..L, NEW q \in 1..L, p <= q PROVE Begins(Part(s, i, p), Part(s, i, q))
      <3> DEFINE T == {k \in Nat : p <= k /\ k <= L => Begins(Part(s, i, p), Part(s, i, k))}
      <3>1. Part(s, i, p) \in Seq(Nat) /\ Begins(Part(s, i, p), Part(s, i, p))
        <4>1. Part(s, i, p) \in Seq(Nat)
          BY PartSteps
        <4>2. Len(Part(s, i, p)) \in Nat
          BY <4>1
        <4>3. QED
          BY <4>1, <4>2 DEF Begins
      <3>2. 0 \in T
        OBVIOUS
      <3>3. ASSUME NEW k \in T \cap Nat PROVE k + 1 \in T
        <4>1. ASSUME p <= k + 1, k + 1 <= L PROVE Begins(Part(s, i, p), Part(s, i, k + 1))
          <5>1. CASE p = k + 1
            BY <3>1, <5>1
          <5>2. CASE p # k + 1
            <6>1. p <= k /\ k <= L /\ k \in 1..L /\ k + 1 \in 1..L /\ (k + 1) - 1 = k
              BY <1>1, <4>1, <5>2
            <6>2. Begins(Part(s, i, p), Part(s, i, k))
              BY <3>3, <6>1
            <6>3. /\ Begins(Part(s, i, k), Part(s, i, k + 1)) /\ Part(s, i, k + 1) \in Seq(Nat)
                  /\ Part(s, i, k) \in Seq(Nat)
              <7>1. \A j \in 1..L : /\ Part(s, i, j - 1) \in Seq(Nat) /\ Part(s, i, j) \in Seq(Nat)
                                    /\ Begins(Part(s, i, j - 1), Part(s, i, j))
                BY PartSteps
              <7>2. QED
                BY <6>1, <7>1
            <6>4. QED
              BY <3>1, <6>2, <6>3, BeginsTransitive
          <5>3. QED
            BY <5>1, <5>2
        <4>2. QED
          BY <4>1
      <3>4. Nat \subseteq T
        <4> HIDE DEF T
        <4>1. QED
          BY <3>2, <3>3, Induction
      <3>5. q \in T /\ q <= L
        BY <1>1, <3>4
      <3>6. QED
        BY <2>1, <3>5
    <2>2. e \in 1..L
      OBVIOUS
    <2>3. QED
      BY <1>3, <2>1, <2>2
  <1>8. Begins(Part(s, i, c - 1), b)
    <2>1. Begins(Part(s, i, c), b)
      BY <1>5, <1>7, BeginsTransitive
    <2>2. QED
      BY <1>5, <2>1, BeginsTransitive
  <1>9. Begins(Part(s, i, c - 1), d)
    <2>1. Len(Part(s, i, c - 1)) \in Nat
      BY <1>5
    <2> DEFINE p == Part(s, i, c - 1)
    <2>2. ASSUME NEW k \in 1..Len(p) PROVE d[k] = p[k]
      <3>1. k \in 1..n
        BY <1>6, <2>1
      <3>2. b[k] = p[k]
        BY <1>8 DEF Begins
      <3>3. QED
        BY <1>4, <3>1, <3>2
    <2>3. QED
      BY <1>4, <1>6, <2>2 DEF Begins
  <1>10. MissesIn(d, n, s, i, c)
    BY <1>3, <1>5, <1>9 DEF MissesIn
  <1>11. QED
    BY <1>3, <1>10 DEF Damaged, d

\* A buffer that is cut before the end of a chunk misses that chunk.
LEMMA Cut ==
  ASSUME NEW s \in Seq(Items), NEW b \in Seq(Nat), NEW n \in 0..Len(b),
         NEW i \in 1..Len(s), NEW e \in 0..Len(Chunks(s[i])),
         Len(Part(s, i, e)) > n, Begins(Part(s, i, e), b)
  PROVE  Damaged(SubSeq(b, 1, n), n, s)
  <1> DEFINE S == {m \in Nat : m \in 0..Len(s) /\ Len(Ideal(s, m)) > n}
  <1>0. /\ Len(s) \in Nat /\ i - 1 \in 0..Len(s) /\ i - 1 \in Nat /\ n \in Nat
        /\ s[i] \in Items
    OBVIOUS
  <1>1. CASE Len(Ideal(s, i - 1)) > n
    <2>1. i - 1 \in S
      BY <1>0, <1>1
    <2>2. PICK m \in S : \A l \in S : m <= l
      <3>1. S \subseteq Nat /\ S # {}
        BY <2>1
      <3> HIDE DEF S
      <3>2. QED
        BY <3>1, First
    <2>3. m \in 0..Len(s) /\ Len(Ideal(s, m)) > n /\ m <= i - 1
      BY <2>1, <2>2
    <2>4. m # 0
      <3>1. Len(Ideal(s, 0)) = 0
        BY IdealSteps
      <3>2. QED
        BY <1>0, <2>3, <3>1
    <2>5. m \in 1..Len(s) /\ m - 1 \in Nat /\ m - 1 \in 0..Len(s) /\ ~(m <= m - 1) /\ s[m] \in Items
          /\ m - 1 \in 0..Len(s) - 1 /\ (m - 1) + 1 = m
      BY <2>3, <2>4
    <2>6. Len(Ideal(s, m - 1)) <= n
      <3>1. ~(Len(Ideal(s, m - 1)) > n)
        <4>1. m - 1 \notin S
          BY <2>2, <2>5
        <4>2. QED
          BY <2>5, <4>1
      <3>2. Ideal(s, m - 1) \in Seq(Nat)
        BY <2>5, IdealSteps
      <3>3. Len(Ideal(s, m - 1)) \in Nat
        BY <3>2
      <3> HIDE DEF S
      <3>4. QED
        BY <1>0, <3>1, <3>3
    <2> DEFINE L == Len(Chunks(s[m]))
    <2>7. L \in Nat /\ L # 0
      <3>1. L \in Nat
        BY <2>5, ChunksType
      <3>2. ASSUME L = 0 PROVE FALSE
        <4>1. Code(s[m]) = <<>>
          BY <2>5, <3>2, BeforeSteps
        <4>2. Ideal(s, m) = Ideal(s, m - 1) \o Code(s[m]) /\ Ideal(s, m - 1) \in Seq(Nat)
          <5>1. Ideal(s, (m - 1) + 1) = Ideal(s, m - 1) \o Code(s[(m - 1) + 1]) /\ Ideal(s, m - 1) \in Seq(Nat)
            BY <2>5, IdealSteps
          <5>2. QED
            BY <2>5, <5>1
        <4>3. Ideal(s, m) = Ideal(s, m - 1)
          BY <4>1, <4>2, ConcatEmptySeq
        <4>4. Len(Ideal(s, m - 1)) \in Nat
          BY <4>2
        <4> HIDE DEF S
        <4>5. QED
          BY <1>0, <2>3, <2>6, <4>3, <4>4
      <3>3. QED
        BY <3>1, <3>2
    <2>8. L \in 1..L
      BY <2>7
    <2>9. Part(s, m, L) = Ideal(s, m)
      BY <2>5, <2>8, PartSteps
    <2>10. Begins(Ideal(s, m), b)
      <3>1. Begins(Ideal(s, m), Ideal(s, i - 1)) /\ Ideal(s, m) \in Seq(Nat) /\ Ideal(s, i - 1) \in Seq(Nat)
        <4>1. m \in 0..i - 1
          BY <1>0, <2>3
        <4>2. QED
          BY <1>0, <4>1, IdealBegins
      <3>2. Begins(Ideal(s, i - 1), Part(s, i, e)) /\ Part(s, i, e) \in Seq(Nat)
        <4>1. Before(s[i], e) \in Seq(Nat)
          BY <1>0, BeforeSteps
        <4>2. QED
          BY <3>1, <4>1, BeginsConcat DEF Part
      <3>3. Begins(Ideal(s, i - 1), b)
        BY <3>1, <3>2, BeginsTransitive
      <3>4. QED
        BY <3>1, <3>3, BeginsTransitive
    <2> HIDE DEF S, L
    <2>11. QED
      BY <2>3, <2>5, <2>6, <2>8, <2>9, <2>10, CutChunk DEF L
  <1>2. CASE ~(Len(Ideal(s, i - 1)) > n)
    <2>1. Ideal(s, i - 1) \in Seq(Nat)
      BY <1>0, IdealSteps
    <2>2. Len(Ideal(s, i - 1)) <= n
      <3>1. Len(Ideal(s, i - 1)) \in Nat
        BY <2>1
      <3>2. QED
        BY <1>0, <1>2, <3>1
    <2>3. e # 0
      <3>1. ASSUME e = 0 PROVE FALSE
        <4>1. Before(s[i], e) = <<>>
          BY <1>0, <3>1, BeforeSteps
        <4>2. Part(s, i, e) = Ideal(s, i - 1)
          BY <2>1, <4>1, ConcatEmptySeq DEF Part
        <4>3. QED
          BY <1>2, <4>2
      <3>2. QED
        BY <3>1
    <2>4. e \in 1..Len(Chunks(s[i]))
      BY <2>3
    <2>5. QED
      BY <2>2, <2>4, CutChunk
  <1>3. QED
    BY <1>1, <1>2

-----------------------------------------------------------------------------
(* The invariant, and what the writer does to it.                          *)

\* The buffer holds all that was written, or shows that it does not.
Sound == IF lost THEN Damaged(bytes, room, sent) ELSE bytes = Ideal(sent, Len(sent))

\* What was written, and where it is.
Held == /\ sent \in Seq(Items) /\ bytes \in Seq(Nat) /\ room \in Nat /\ lost \in BOOLEAN
        /\ Len(bytes) <= room /\ Sound

\* Before a stream is opened.
NewPart == bytes = <<>> /\ sent = <<>> /\ got = <<>> /\ starts = <<>> /\ errno_ = SUCCESS /\ lost = FALSE

\* While values are written: a failure is a loss, and remembered.
WriterPart == Held /\ got = <<>> /\ starts = <<>> /\ (lost <=> errno_ # SUCCESS)

\* The reader stands behind what it has read, which was there whole, and got it right.
OnCourse ==
    /\ got \in Seq(Seq(Seq(Nat))) /\ starts \in Seq(Nat)
    /\ Len(starts) = Len(got) /\ Len(got) <= Len(sent)
    /\ pos_ = Len(Ideal(sent, Len(got))) /\ Begins(Ideal(sent, Len(got)), bytes)
    /\ \A k \in 1..Len(got) : /\ starts[k] = Len(Ideal(sent, k - 1))
                              /\ got[k] = sent[k].v \/ LeftAlone(sent[k])

\* No container has more elements than a reader takes.
AllTaken == \A x \in ToSet(sent) : Takes(x.type, Count(x), Count(x))

\* While values are read: errno_ stays clear only on course, and unless there is a cause.
ReaderPart == /\ Held /\ room = Len(bytes)
              /\ errno_ = SUCCESS => OnCourse
              /\ ~lost /\ AllTaken => errno_ = SUCCESS

\* The inductive invariant.
StreamInv == /\ stage \in {"new", "writing", "reading", "foreign"}
             /\ stage = "new" => NewPart
             /\ stage = "writing" => WriterPart
             /\ stage = "reading" => ReaderPart

\* No stream has been opened yet.
LEMMA InitInv == Init => StreamInv
  BY DEF Init, StreamInv, NewPart

\* A new buffer holds all of no values.
LEMMA OpenStep ==
  ASSUME StreamInv, Open
  PROVE  StreamInv'
  <1>1. /\ bytes' = <<>> /\ sent' = <<>> /\ got' = <<>> /\ starts' = <<>> /\ errno_' = SUCCESS
        /\ lost' = FALSE /\ stage' = "writing" /\ room' \in Nat
    <2>1. room' \in 0..MaxRoom /\ MaxRoom \in Nat
      BY SizesAssumption DEF Open
    <2>2. QED
      BY <2>1 DEF StreamInv, NewPart, Open
  <1>2. bytes' = Ideal(sent', Len(sent'))
    <2>1. Ideal(<<>>, 0) = <<>> /\ Len(<<>>) = 0
      <3>1. <<>> \in Seq(Items) /\ Len(<<>>) = 0
        OBVIOUS
      <3>2. QED
        BY <3>1, IdealSteps
    <2>2. QED
      BY <1>1, <2>1
  <1>3. /\ sent' \in Seq(Items) /\ bytes' \in Seq(Nat) /\ Len(bytes') <= room' /\ lost' \in BOOLEAN
    <2>1. <<>> \in Seq(Items) /\ <<>> \in Seq(Nat) /\ Len(<<>>) = 0
      OBVIOUS
    <2>2. 0 <= room'
      BY <1>1
    <2>3. Len(bytes') <= room'
      BY <1>1, <2>1, <2>2
    <2>4. QED
      BY <1>1, <2>1, <2>3
  <1>4. Held'
    BY <1>1, <1>2, <1>3 DEF Held, Sound
  <1>5. WriterPart'
    BY <1>1, <1>4 DEF WriterPart
  <1>6. QED
    BY <1>1, <1>5 DEF StreamInv

\* Writing adds the bytes of a value, or misses a chunk of it, or leaves an earlier loss.
LEMMA WriteStep ==
  ASSUME StreamInv, NEW x \in Items, Write(x)
  PROVE  StreamInv'
  <1> DEFINE w == Written([bytes |-> bytes, errno |-> errno_], x, room)
             L == Len(Chunks(x))
  <1>1. /\ stage = "writing" /\ stage' = "writing" /\ bytes' = w.bytes /\ errno_' = w.errno
        /\ lost' = (w.errno # SUCCESS) /\ sent' = Append(sent, x)
        /\ room' = room /\ got' = got /\ starts' = starts
    BY DEF Write
  <1>2. /\ sent \in Seq(Items) /\ bytes \in Seq(Nat) /\ room \in Nat /\ Len(bytes) <= room /\ Sound
        /\ got = <<>> /\ starts = <<>> /\ (lost <=> errno_ # SUCCESS)
    BY <1>1 DEF StreamInv, WriterPart, Held
  <1>3. Wrote(bytes, errno_ # SUCCESS, x, L, w, room)
    BY <1>2, WrittenKeeps
  <1> HIDE DEF w
  <1>4. w.bytes \in Seq(Nat) /\ Len(w.bytes) <= room /\ Begins(bytes, w.bytes) /\ (lost => w.errno # SUCCESS)
    BY <1>2, <1>3 DEF Wrote
  <1>5. IF lost' THEN Damaged(bytes', room', sent') ELSE bytes' = Ideal(sent', Len(sent'))
    <2>1. CASE lost
      <3>1. Damaged(bytes, room, sent)
        BY <1>2, <2>1 DEF Sound
      <3>2. Damaged(w.bytes, room, Append(sent, x))
        BY <1>2, <1>4, <3>1, DamageKept
      <3>3. QED
        BY <1>1, <1>4, <2>1, <3>2
    <2>2. CASE ~lost
      <3>1. bytes = Ideal(sent, Len(sent))
        BY <1>2, <2>2 DEF Sound
      <3>2. CASE w.errno = SUCCESS /\ w.bytes = bytes \o Before(x, L)
        <4>1. Len(sent) \in Nat /\ Append(sent, x) \in Seq(Items) /\ Len(Append(sent, x)) = Len(sent) + 1
              /\ Append(sent, x)[Len(sent) + 1] = x /\ Len(sent) \in 0..Len(sent)
          BY <1>2
        <4>2. Ideal(Append(sent, x), Len(sent) + 1) = Ideal(Append(sent, x), Len(sent)) \o Code(x)
          <5> DEFINE t == Append(sent, x)
          <5>1. t \in Seq(Items) /\ Len(sent) \in 0..Len(t) - 1 /\ t[Len(sent) + 1] = x
            BY <4>1
          <5> HIDE DEF t
          <5>2. Ideal(t, Len(sent) + 1) = Ideal(t, Len(sent)) \o Code(t[Len(sent) + 1])
            BY <5>1, IdealSteps
          <5>3. QED
            BY <5>1, <5>2 DEF t
        <4>3. Ideal(Append(sent, x), Len(sent)) = bytes
          BY <1>2, <3>1, <4>1, IdealKept
        <4>4. Before(x, L) = Code(x)
          BY BeforeSteps
        <4>5. QED
          BY <1>1, <3>2, <4>1, <4>2, <4>3, <4>4
      <3>3. CASE w.errno # SUCCESS /\ \E c \in 1..L : Misses(bytes, x, c, w.bytes, room)
        <4>1. Damaged(w.bytes, room, Append(sent, x))
          BY <1>2, <1>4, <3>1, <3>3, DamageDone
        <4>2. QED
          BY <1>1, <3>3, <4>1
      <3>4. QED
        BY <1>2, <1>3, <2>2, <3>2, <3>3 DEF Wrote
    <2>3. QED
      BY <2>1, <2>2
  <1>6. sent' \in Seq(Items) /\ lost' \in BOOLEAN
    BY <1>1, <1>2
  <1>7. Held'
    BY <1>1, <1>2, <1>4, <1>5, <1>6 DEF Held, Sound
  <1>8. WriterPart'
    BY <1>1, <1>2, <1>7 DEF WriterPart
  <1>9. QED
    BY <1>1, <1>8 DEF StreamInv

\* A value written into a buffer of its own.
LEMMA WrittenFresh ==
  ASSUME NEW x \in Items, NEW size \in Nat, NEW b \in Seq(Nat), b = <<>>, NEW errno, errno = SUCCESS
  PROVE  LET w == Written([bytes |-> b, errno |-> errno], x, size)
         IN  /\ w.bytes \in Seq(Nat) /\ Len(w.bytes) <= size
             /\ \/ w.errno = SUCCESS /\ w.bytes = b \o Before(x, Len(Chunks(x)))
                \/ \E c \in 1..Len(Chunks(x)) : Misses(b, x, c, w.bytes, size)
  <1>1. Len(b) <= size
    OBVIOUS
  <1>2. Wrote(b, errno # SUCCESS, x, Len(Chunks(x)), Written([bytes |-> b, errno |-> errno], x, size), size)
    BY ONLY <1>1, WrittenKeeps
  <1>3. QED
    BY <1>2 DEF Wrote

\* A packed value is there whole: pack_size is as much as write needs.
LEMMA PackStep ==
  ASSUME StreamInv, NEW x \in Items, pack(x)
  PROVE  StreamInv'
  <1> DEFINE size == pack_size(x)
             w == Written([bytes |-> <<>>, errno |-> SUCCESS], x, size)
             L == Len(Chunks(x))
  <1>1. /\ stage = "new" /\ stage' = "writing" /\ bytes' = w.bytes /\ errno_' = w.errno
        /\ lost' = lost /\ sent' = <<x>> /\ room' = size /\ got' = got /\ starts' = starts
    BY DEF pack
  <1>2. got = <<>> /\ starts = <<>> /\ lost = FALSE
    BY <1>1 DEF StreamInv, NewPart
  <1>3. size = Len(Code(x)) /\ size \in Nat
    BY ChunksType DEF pack_size, Code
  <1>4. /\ w.bytes \in Seq(Nat) /\ Len(w.bytes) <= size
        /\ \/ w.errno = SUCCESS /\ w.bytes = <<>> \o Before(x, L)
           \/ \E c \in 1..L : Misses(<<>>, x, c, w.bytes, size)
    <2>1. PICK b \in Seq(Nat) : b = <<>>
      <3>1. <<>> \in Seq(Nat)
        OBVIOUS
      <3>2. QED
        BY <3>1
    <2>2. PICK none : none = SUCCESS
      OBVIOUS
    <2> HIDE DEF size
    <2>3. QED
      BY <1>3, <2>1, <2>2, WrittenFresh
  <1> HIDE DEF w, size
  <1>5. ASSUME NEW c \in 1..L, Misses(<<>>, x, c, w.bytes, size) PROVE FALSE
    <2>1. PICK e \in Nat : c - 1 = e /\ c = e + 1
      <3>1. c - 1 \in Nat /\ c = (c - 1) + 1
        BY ChunksType
      <3>2. QED
        BY <3>1
    <2>2. e \in 0..L - 1 /\ e \in 0..L /\ e + 1 \in 0..L /\ L \in 0..L /\ e + 1 \in 1..L
      BY <2>1, ChunksType
    <2>3. Before(x, e) \in Seq(Nat) /\ Before(x, e + 1) = Before(x, e) \o Chunks(x)[e + 1] /\ Before(x, L) = Code(x)
      BY <2>2, BeforeSteps
    <2>4. Len(Before(x, e + 1)) = Len(Before(x, e)) + Len(Chunks(x)[e + 1])
      BY <2>2, <2>3, ChunksType, BeginsConcat
    <2>5. Len(Before(x, e + 1)) <= size
      <3>1. Begins(Before(x, e + 1), Before(x, L))
        BY <2>2, BeforeBegins
      <3>2. QED
        BY <1>3, <2>3, <3>1 DEF Begins
    <2>6. <<>> \o Before(x, e) = Before(x, e)
      BY <2>3, ConcatEmptySeq
    <2>7. Len(Before(x, e + 1)) > size
      BY <1>5, <2>1, <2>4, <2>6 DEF Misses
    <2>8. Len(Before(x, e + 1)) \in Nat
      BY <2>2, BeforeSteps
    <2>9. QED
      BY <1>3, <2>5, <2>7, <2>8
  <1>6. w.bytes \in Seq(Nat) /\ Len(w.bytes) <= size /\ w.errno = SUCCESS /\ w.bytes = <<>> \o Before(x, L)
    BY <1>4, <1>5
  <1>7. w.bytes = Ideal(<<x>>, 1)
    <2>1. <<x>> \in Seq(Items) /\ Len(<<x>>) = 1 /\ <<x>>[1] = x
      OBVIOUS
    <2>2. Ideal(<<x>>, 0) = <<>> /\ Ideal(<<x>>, 0 + 1) = Ideal(<<x>>, 0) \o Code(<<x>>[0 + 1])
      <3>1. 0 \in 0..Len(<<x>>) - 1
        BY <2>1
      <3>2. QED
        BY <2>1, <3>1, IdealSteps
    <2>3. Before(x, L) = Code(x)
      BY BeforeSteps
    <2>4. Ideal(<<x>>, 1) = <<>> \o Code(x)
      <3>1. 0 + 1 = 1
        OBVIOUS
      <3>2. QED
        BY <2>1, <2>2, <3>1
    <2>5. QED
      BY <1>6, <2>3, <2>4
  <1>8. sent' \in Seq(Items) /\ Len(sent') = 1
    BY <1>1
  <1>9. Held'
    BY <1>1, <1>2, <1>3, <1>6, <1>7, <1>8 DEF Held, Sound
  <1>10. WriterPart'
    BY <1>1, <1>2, <1>6, <1>9 DEF WriterPart
  <1>11. QED
    BY <1>1, <1>10 DEF StreamInv

-----------------------------------------------------------------------------
(* The reader gets the buffer, or part of it.                              *)

\* What is passed on is whole, or cut, or was damaged before.
LEMMA ReopenStep ==
  ASSUME StreamInv, Reopen
  PROVE  StreamInv'
  <1>1. PICK n \in 0..Len(bytes) : bytes' = SubSeq(bytes, 1, n) /\ room' = n /\ lost' = (lost \/ n < Len(bytes))
    BY DEF Reopen
  <1>2. /\ stage = "writing" /\ sent # <<>> /\ stage' = "reading" /\ pos_' = 0 /\ errno_' = SUCCESS
        /\ sent' = sent /\ got' = got /\ starts' = starts
    BY DEF Reopen
  <1>3. /\ sent \in Seq(Items) /\ bytes \in Seq(Nat) /\ room \in Nat /\ lost \in BOOLEAN
        /\ Len(bytes) <= room /\ Sound /\ got = <<>> /\ starts = <<>>
    BY <1>2 DEF StreamInv, WriterPart, Held
  <1> DEFINE d == SubSeq(bytes, 1, n)
  <1>4. d \in Seq(Nat) /\ Len(d) = n /\ \A k \in 1..n : d[k] = bytes[k]
    BY <1>3, Beginning
  <1>5. n \in Nat /\ Len(bytes) \in Nat /\ n <= Len(bytes) /\ n <= room
    BY <1>3
  <1>6. IF lost \/ n < Len(bytes) THEN Damaged(d, n, sent) ELSE d = Ideal(sent, Len(sent))
    <2>1. CASE lost
      <3>1. PICK i \in 1..Len(sent) : \E c \in 1..Len(Chunks(sent[i])) : MissesIn(bytes, room, sent, i, c)
        BY <1>3, <2>1 DEF Sound, Damaged
      <3>2. PICK c \in 1..Len(Chunks(sent[i])) : MissesIn(bytes, room, sent, i, c)
        BY <3>1
      <3> DEFINE p == Part(sent, i, c - 1)
                 l == Len(Chunks(sent[i])[c])
      <3>3. p \in Seq(Nat) /\ Len(p) \in Nat
        <4>1. p \in Seq(Nat)
          BY <1>3, PartSteps
        <4>2. QED
          BY <4>1
      <3>4. l \in Nat
        <4>1. sent[i] \in Items
          BY <1>3
        <4>2. Chunks(sent[i])[c] \in Seq(Nat)
          BY <4>1, ChunksType
        <4>3. QED
          BY <4>2
      <3>5. Begins(p, bytes) /\ Len(p) + l > room
        BY <3>2 DEF MissesIn
      <3> HIDE DEF p, l
      <3>6. CASE Len(p) <= n
        <4>1. Begins(p, d)
          <5>1. ASSUME NEW k \in 1..Len(p) PROVE d[k] = p[k]
            <6>1. k \in 1..n
              BY <1>5, <3>3, <3>6
            <6>2. QED
              BY <1>4, <3>5, <6>1 DEF Begins
          <5>2. QED
            BY <1>4, <3>6, <5>1 DEF Begins
        <4>2. Len(p) + l > n
          BY <1>3, <1>5, <3>3, <3>4, <3>5
        <4>3. MissesIn(d, n, sent, i, c)
          BY <4>1, <4>2 DEF MissesIn, p, l
        <4>4. Damaged(d, n, sent)
          BY <4>3 DEF Damaged
        <4>5. QED
          BY <2>1, <4>4
      <3>7. CASE ~(Len(p) <= n)
        <4>1. Len(p) > n
          BY <1>5, <3>3, <3>7
        <4>2. c - 1 \in 0..Len(Chunks(sent[i]))
          <5>1. sent[i] \in Items
            BY <1>3
          <5>2. Len(Chunks(sent[i])) \in Nat
            BY <5>1, ChunksType
          <5>3. QED
            BY <5>2
        <4>3. Damaged(d, n, sent)
          BY <1>3, <3>5, <4>1, <4>2, Cut DEF p
        <4>4. QED
          BY <2>1, <4>3
      <3>8. QED
        BY <3>6, <3>7
    <2>2. CASE ~lost
      <3>1. bytes = Ideal(sent, Len(sent))
        BY <1>3, <2>2 DEF Sound
      <3>2. CASE n < Len(bytes)
        <4> DEFINE i == Len(sent)
                   L == Len(Chunks(sent[i]))
        <4>1. i \in 1..Len(sent) /\ i \in Nat
          BY <1>2, <1>3
        <4>2. sent[i] \in Items /\ L \in Nat /\ L \in 0..L
          <5>1. sent[i] \in Items
            BY <1>3, <4>1
          <5>2. QED
            BY <5>1, ChunksType
        <4>3. Part(sent, i, L) = Ideal(sent, i)
          <5>1. Before(sent[i], L) = Code(sent[i])
            BY <4>2, BeforeSteps
          <5>2. PICK j \in Nat : i - 1 = j /\ j + 1 = i
            <6>1. i - 1 \in Nat /\ (i - 1) + 1 = i
              BY <4>1
            <6>2. QED
              BY <6>1
          <5>3. j \in 0..Len(sent) - 1
            BY <4>1, <5>2
          <5>4. Ideal(sent, j + 1) = Ideal(sent, j) \o Code(sent[j + 1])
            BY <1>3, <5>3, IdealSteps
          <5>5. QED
            BY <5>1, <5>2, <5>4 DEF Part
        <4>4. Begins(bytes, bytes)
          BY <1>5 DEF Begins
        <4>5. Len(bytes) > n
          BY <1>5, <3>2
        <4>6. Damaged(d, n, sent)
          BY <1>3, <3>1, <4>1, <4>2, <4>3, <4>4, <4>5, Cut
        <4>7. QED
          BY <3>2, <4>6
      <3>3. CASE ~(n < Len(bytes))
        <4>1. n = Len(bytes)
          BY <1>5, <3>3
        <4>2. d = bytes
          BY <1>3, <4>1, BeginningWhole
        <4>3. QED
          BY <2>2, <3>1, <3>3, <4>2
      <3>4. QED
        BY <3>2, <3>3
    <2>3. QED
      BY <2>1, <2>2
  <1> HIDE DEF d
  <1>7. bytes' = d
    BY <1>1 DEF d
  <1>8. Sound'
    BY <1>1, <1>2, <1>6, <1>7 DEF Sound
  <1>9. Held'
    BY <1>1, <1>2, <1>3, <1>4, <1>5, <1>7, <1>8 DEF Held
  <1>10. OnCourse'
    <2>1. /\ got' = <<>> /\ starts' = <<>> /\ Len(got') = 0 /\ Len(starts') = 0
          /\ got' \in Seq(Seq(Seq(Nat))) /\ starts' \in Seq(Nat)
      BY <1>2, <1>3
    <2>2. Ideal(sent', 0) = <<>> /\ Len(Ideal(sent', 0)) = 0
      BY <1>2, <1>3, IdealSteps
    <2>3. Begins(Ideal(sent', Len(got')), bytes')
      BY <1>4, <1>5, <1>7, <2>1, <2>2 DEF Begins
    <2>4. Len(got') <= Len(sent')
      BY <1>2, <1>3, <2>1
    <2>5. \A k \in 1..Len(got') : FALSE
      BY <2>1
    <2>6. QED
      BY <1>2, <2>1, <2>2, <2>3, <2>4, <2>5 DEF OnCourse
  <1>11. ReaderPart'
    BY <1>1, <1>2, <1>4, <1>7, <1>9, <1>10 DEF ReaderPart
  <1>12. QED
    BY <1>2, <1>11 DEF StreamInv

\* Where a reader that has not failed stands: the next value is there whole, or a
\* chunk of it is the first that is missing.
LEMMA WholeOrCut ==
  ASSUME Held, room = Len(bytes), OnCourse, Len(got) < Len(sent)
  PROVE  LET n == Len(got) + 1
         IN  \/ Begins(Ideal(sent, n), bytes)
             \/ /\ lost /\ Len(Ideal(sent, n)) > room
                /\ \E c \in 1..Len(Chunks(sent[n])) : MissesIn(bytes, room, sent, n, c)
  <1> DEFINE n == Len(got) + 1
  <1>1. /\ sent \in Seq(Items) /\ bytes \in Seq(Nat) /\ room \in Nat /\ Sound /\ lost \in BOOLEAN
        /\ Len(sent) \in Nat
    BY DEF Held
  <1>2. /\ Len(got) \in Nat /\ n \in 1..Len(sent) /\ n \in Nat /\ n - 1 = Len(got)
        /\ Begins(Ideal(sent, n - 1), bytes)
    <2>1. Len(got) \in Nat /\ Begins(Ideal(sent, Len(got)), bytes)
      BY DEF OnCourse
    <2>2. QED
      BY <1>1, <2>1
  <1> HIDE DEF n
  <1>3. CASE ~lost
    <2>1. bytes = Ideal(sent, Len(sent))
      BY <1>1, <1>3 DEF Sound
    <2>2. n \in 0..Len(sent) /\ Len(sent) \in 0..Len(sent)
      BY <1>1, <1>2
    <2>3. Begins(Ideal(sent, n), bytes)
      BY <1>1, <2>1, <2>2, IdealBegins
    <2>4. QED
      BY <2>3 DEF n
  <1>4. CASE lost
    <2>1. PICK i \in 1..Len(sent) : \E c \in 1..Len(Chunks(sent[i])) : MissesIn(bytes, room, sent, i, c)
      BY <1>1, <1>4 DEF Sound, Damaged
    <2>2. PICK c \in 1..Len(Chunks(sent[i])) : MissesIn(bytes, room, sent, i, c)
      BY <2>1
    <2>3. Begins(Part(sent, i, c - 1), bytes) /\ Len(Part(sent, i, c)) > room
      BY <1>1, <2>2, PartSteps DEF MissesIn
    <2>4. /\ Part(sent, i, c - 1) \in Seq(Nat) /\ Part(sent, i, c) \in Seq(Nat)
          /\ Begins(Ideal(sent, i - 1), Part(sent, i, c - 1)) /\ Begins(Part(sent, i, c), Ideal(sent, i))
      BY <1>1, PartSteps
    <2>5. i \in Nat /\ i - 1 \in Nat /\ i \in 0..Len(sent) /\ i - 1 \in 0..Len(sent)
      BY <1>1
    <2>6. Ideal(sent, i) \in Seq(Nat) /\ Ideal(sent, i - 1) \in Seq(Nat)
      BY <1>1, <2>5, IdealSteps
    <2>7. Len(Ideal(sent, i)) > room
      <3>1. Len(Part(sent, i, c)) <= Len(Ideal(sent, i))
        BY <2>4 DEF Begins
      <3>2. Len(Part(sent, i, c)) \in Nat /\ Len(Ideal(sent, i)) \in Nat
        BY <2>4, <2>6
      <3>3. QED
        BY <1>1, <2>3, <3>1, <3>2
    <2>8. CASE i < n
      <3>1. i \in 0..n - 1 /\ n - 1 \in 0..Len(sent)
        BY <1>2, <2>5, <2>8
      <3>2. Begins(Ideal(sent, i), Ideal(sent, n - 1)) /\ Ideal(sent, n - 1) \in Seq(Nat)
        BY <1>1, <3>1, IdealBegins
      <3>3. Len(Ideal(sent, i)) <= Len(Ideal(sent, n - 1)) /\ Len(Ideal(sent, n - 1)) <= Len(bytes)
        BY <1>2, <3>2 DEF Begins
      <3>4. Len(Ideal(sent, i)) \in Nat /\ Len(Ideal(sent, n - 1)) \in Nat
        BY <2>6, <3>2
      <3>5. QED
        BY <1>1, <2>7, <3>3, <3>4
    <2>9. CASE i = n
      BY <1>4, <2>2, <2>7, <2>9 DEF n
    <2>10. CASE i > n
      <3>1. n \in 0..i - 1
        BY <1>2, <2>5, <2>10
      <3>2. Begins(Ideal(sent, n), Ideal(sent, i - 1)) /\ Ideal(sent, n) \in Seq(Nat)
        BY <1>1, <2>5, <3>1, IdealBegins
      <3>3. Begins(Ideal(sent, n), Part(sent, i, c - 1))
        BY <2>4, <2>6, <3>2, BeginsTransitive
      <3>4. Begins(Ideal(sent, n), bytes)
        BY <1>1, <2>3, <2>4, <3>2, <3>3, BeginsTransitive
      <3>5. QED
        BY <3>4 DEF n
    <2>11. QED
      BY <1>2, <2>5, <2>8, <2>9, <2>10
  <1>5. QED
    BY <1>1, <1>3, <1>4

\* One value further.
LEMMA OneFurther ==
  ASSUME Held, Held', OnCourse, Len(got) < Len(sent), sent' = sent, bytes' = bytes,
         NEW v \in Seq(Seq(Nat)), got' = Append(got, v), starts' = Append(starts, pos_),
         v = sent[Len(got) + 1].v \/ LeftAlone(sent[Len(got) + 1]),
         pos_' = pos_ + Len(Code(sent[Len(got) + 1])),
         Begins(Ideal(sent, Len(got) + 1), bytes)
  PROVE  OnCourse'
  <1> DEFINE n == Len(got)
  <1>1. /\ sent \in Seq(Items) /\ got \in Seq(Seq(Seq(Nat))) /\ starts \in Seq(Nat) /\ Len(starts) = n
        /\ n \in Nat /\ pos_ = Len(Ideal(sent, n)) /\ Len(sent) \in Nat
        /\ \A k \in 1..n : /\ starts[k] = Len(Ideal(sent, k - 1))
                           /\ got[k] = sent[k].v \/ LeftAlone(sent[k])
    BY DEF Held, OnCourse
  <1> HIDE DEF n
  <1>2. n \in 0..Len(sent) - 1 /\ n \in 0..Len(sent) /\ sent[n + 1] \in Items /\ n + 1 <= Len(sent)
    <2>1. n \in 0..Len(sent) - 1 /\ n + 1 \in 1..Len(sent)
      BY <1>1 DEF n
    <2>2. QED
      BY <1>1, <2>1
  <1>3. Ideal(sent, n) \in Seq(Nat) /\ Ideal(sent, n + 1) = Ideal(sent, n) \o Code(sent[n + 1])
    BY <1>1, <1>2, IdealSteps
  <1>4. Code(sent[n + 1]) \in Seq(Nat)
    BY <1>2, ChunksType
  <1>5. Len(Ideal(sent, n + 1)) = Len(Ideal(sent, n)) + Len(Code(sent[n + 1])) /\ Len(Ideal(sent, n)) \in Nat
    BY <1>3, <1>4, BeginsConcat
  <1>6. /\ got' \in Seq(Seq(Seq(Nat))) /\ Len(got') = n + 1 /\ got'[n + 1] = v
        /\ \A k \in 1..n : got'[k] = got[k]
    BY <1>1, AppendProperties DEF n
  <1>7. /\ starts' \in Seq(Nat) /\ Len(starts') = n + 1 /\ starts'[n + 1] = pos_
        /\ \A k \in 1..n : starts'[k] = starts[k]
    BY <1>1, <1>5, AppendProperties
  <1>8. ASSUME NEW k \in 1..n + 1
        PROVE  starts'[k] = Len(Ideal(sent, k - 1)) /\ (got'[k] = sent[k].v \/ LeftAlone(sent[k]))
    <2>1. CASE k \in 1..n
      BY <1>1, <1>6, <1>7, <2>1
    <2>2. CASE k = n + 1
      <3>1. k - 1 = n
        BY <1>1, <2>2
      <3>2. QED
        BY <1>1, <1>6, <1>7, <2>2, <3>1 DEF n
    <2>3. n \in Nat
      BY <1>1
    <2>4. k \in 1..n \/ k = n + 1
      BY <2>3
    <2>5. QED
      BY <2>1, <2>2, <2>4
  <1>9. pos_' = Len(Ideal(sent, n + 1)) /\ Begins(Ideal(sent, n + 1), bytes)
    BY <1>1, <1>5 DEF n
  <1>10. QED
    BY <1>1, <1>2, <1>6, <1>7, <1>8, <1>9 DEF OnCourse

-----------------------------------------------------------------------------
(* Reading, skipping and seeking.                                          *)

\* A read takes the reader past one value, or sets errno_.
LEMMA ReadStep ==
  ASSUME StreamInv, Read
  PROVE  StreamInv'
  <1>1. /\ stage \in {"reading", "foreign"} /\ Len(got) < Len(sent) /\ starts' = Append(starts, pos_)
        /\ stage' = stage /\ room' = room /\ bytes' = bytes /\ lost' = lost /\ sent' = sent
    BY DEF Read
  <1> DEFINE x == sent[Len(got) + 1]
  <1>2. PICK old \in {y.v : y \in {y \in Items : y.type = x.type}} \cup {<<>>}, rd \in CountRead(pos_) :
           LET r == Unpacked(x, old, rd)
           IN  /\ pos_' = r.pos /\ errno_' = r.errno
               /\ got' = Append(got, IF r.errno = SUCCESS THEN r.v ELSE Lost)
    BY DEF Read
  <1> DEFINE r == Unpacked(x, old, rd)
  <1>3. CASE stage = "foreign"
    BY <1>1, <1>3 DEF StreamInv
  <1>4. CASE stage = "reading"
    <2>1. ReaderPart
      BY <1>4 DEF StreamInv
    <2>2. /\ Held /\ sent \in Seq(Items) /\ bytes \in Seq(Nat) /\ room \in Nat /\ room = Len(bytes)
          /\ lost \in BOOLEAN /\ (errno_ = SUCCESS => OnCourse) /\ (~lost /\ AllTaken => errno_ = SUCCESS)
      BY <2>1 DEF ReaderPart, Held
    <2>3. Held'
      BY <1>1, <2>2 DEF Held, Sound
    <2>4. CASE errno_ # SUCCESS
      <3>1. r.errno # SUCCESS
        BY <2>4, ReadFailed
      <3>2. errno_' # SUCCESS
        BY <1>2, <3>1
      <3>3. ~(~lost' /\ AllTaken')
        BY <1>1, <2>2, <2>4 DEF AllTaken
      <3>4. ReaderPart'
        BY <1>1, <2>2, <2>3, <3>2, <3>3 DEF ReaderPart
      <3>5. QED
        BY <1>1, <1>4, <3>4 DEF StreamInv
    <2>5. CASE errno_ = SUCCESS
      <3> DEFINE n == Len(got)
      <3>1. OnCourse
        BY <2>2, <2>5
      <3>2. n \in Nat /\ pos_ = Len(Ideal(sent, n)) /\ Begins(Ideal(sent, n), bytes) /\ Len(sent) \in Nat
        BY <2>2, <3>1 DEF OnCourse
      <3>3. n \in 0..Len(sent) - 1 /\ n \in 0..Len(sent) /\ n + 1 \in 1..Len(sent) /\ (n + 1) - 1 = n
        BY <1>1, <3>2
      <3> HIDE DEF n
      <3>4. x \in Items
        BY <2>2, <3>3 DEF n
      <3>5. Ideal(sent, n) \in Seq(Nat) /\ Ideal(sent, n + 1) = Ideal(sent, n) \o Code(x)
        BY <2>2, <3>3, IdealSteps DEF n
      <3>6. pos_ \in Nat /\ Code(x) \in Seq(Nat)
        BY <3>2, <3>4, <3>5, ChunksType
      <3>7. old \in Seq(Seq(Nat)) /\ x.v \in Seq(Seq(Nat))
        <4>1. \A y \in Items : y.v \in Seq(Seq(Nat))
          BY ItemTypes
        <4>2. <<>> \in Seq(Seq(Nat))
          OBVIOUS
        <4>3. QED
          BY <1>2, <3>4, <4>1, <4>2
      <3> HIDE DEF x, r
      <3>8. CASE Begins(Ideal(sent, n + 1), bytes)
        <4>1. /\ Len(Ideal(sent, n) \o Code(x)) = pos_ + Len(Code(x))
              /\ \A k \in 1..pos_ + Len(Code(x)) :
                   (Ideal(sent, n) \o Code(x))[k] = IF k <= pos_ THEN Ideal(sent, n)[k] ELSE Code(x)[k - pos_]
          <5>1. /\ Len(Ideal(sent, n) \o Code(x)) = Len(Ideal(sent, n)) + Len(Code(x))
                /\ \A k \in 1..Len(Ideal(sent, n)) + Len(Code(x)) :
                     (Ideal(sent, n) \o Code(x))[k] =
                        IF k <= Len(Ideal(sent, n)) THEN Ideal(sent, n)[k] ELSE Code(x)[k - Len(Ideal(sent, n))]
            <6>1. Ideal(sent, n) \in Seq(Nat) /\ Code(x) \in Seq(Nat)
              BY <3>5, <3>6
            <6>2. QED
              BY <6>1, ConcatProperties
          <5>2. QED
            BY <3>2, <5>1
        <4>2. pos_ + Len(Code(x)) <= room
          BY <2>2, <3>5, <3>8, <4>1 DEF Begins
        <4>3. ASSUME NEW k \in 1..Len(Code(x)) PROVE bytes[pos_ + k] = Code(x)[k]
          <5>1. PICK l \in Nat : l = Len(Code(x))
            BY <3>6
          <5>2. pos_ + k \in 1..pos_ + l /\ ~(pos_ + k <= pos_) /\ (pos_ + k) - pos_ = k
            BY <3>6, <5>1
          <5>3. (Ideal(sent, n) \o Code(x))[pos_ + k] = Code(x)[k]
            BY <4>1, <5>1, <5>2
          <5>4. bytes[pos_ + k] = Ideal(sent, n + 1)[pos_ + k]
            BY <3>5, <3>8, <4>1, <5>1, <5>2 DEF Begins
          <5>5. QED
            BY <3>5, <5>3, <5>4
        <4>4. ReadWell(x, old, r)
          BY <2>2, <2>5, <3>4, <3>6, <4>2, <4>3, ReadWhole DEF r
        <4>5. errno_' = r.errno
          BY <1>2 DEF r
        <4>6. ASSUME r.errno = SUCCESS PROVE OnCourse'
          <5>1. r.pos = pos_ + Len(Code(x)) /\ (r.v = x.v \/ (LeftAlone(x) /\ r.v = old))
            BY <4>4, <4>6 DEF ReadWell
          <5>2. r.v \in Seq(Seq(Nat)) /\ (r.v = x.v \/ LeftAlone(x))
            BY <3>7, <5>1
          <5>3. pos_' = pos_ + Len(Code(x)) /\ got' = Append(got, r.v)
            BY <1>2, <4>6, <5>1 DEF r
          <5>4. QED
            BY <1>1, <2>2, <2>3, <3>1, <3>8, <5>2, <5>3, OneFurther DEF x, n
        <4>7. ASSUME AllTaken PROVE r.errno = SUCCESS
          <5>1. x \in ToSet(sent)
            <6>1. n + 1 \in DOMAIN sent
              BY <2>2, <3>3
            <6>2. QED
              BY <6>1 DEF ToSet, x, n
          <5>2. QED
            BY <4>4, <4>7, <5>1 DEF AllTaken, ReadWell
        <4>8. ReaderPart'
          BY <1>1, <2>2, <2>3, <4>5, <4>6, <4>7 DEF ReaderPart, AllTaken
        <4>9. QED
          BY <1>1, <1>4, <4>8 DEF StreamInv
      <3>9. CASE lost /\ \E c \in 1..Len(Chunks(sent[n + 1])) : MissesIn(bytes, room, sent, n + 1, c)
        <4>1. PICK c \in 1..Len(Chunks(x)) : MissesIn(bytes, room, sent, n + 1, c)
          BY <3>9 DEF x, n
        <4> DEFINE B == Before(x, c - 1)
                   p == Ideal(sent, n) \o B
        <4>2. B \in Seq(Nat) /\ Len(B) \in Nat
          <5>1. c - 1 \in 0..Len(Chunks(x))
            BY <3>4, ChunksType
          <5>2. B \in Seq(Nat)
            BY <3>4, <5>1, BeforeSteps
          <5>3. QED
            BY <5>2
        <4>3. Part(sent, n + 1, c - 1) = p
          BY <3>3 DEF Part, x, n
        <4>4. Begins(p, bytes) /\ Len(p) + Len(Chunks(x)[c]) > room
          BY <4>1, <4>3 DEF MissesIn, x, n
        <4> HIDE DEF B
        <4>5. /\ Len(p) = pos_ + Len(B)
              /\ \A k \in 1..pos_ + Len(B) :
                   p[k] = IF k <= pos_ THEN Ideal(sent, n)[k] ELSE B[k - pos_]
          <5>1. /\ Len(p) = Len(Ideal(sent, n)) + Len(B)
                /\ \A k \in 1..Len(Ideal(sent, n)) + Len(B) :
                     p[k] = IF k <= Len(Ideal(sent, n)) THEN Ideal(sent, n)[k] ELSE B[k - Len(Ideal(sent, n))]
            <6>1. Ideal(sent, n) \in Seq(Nat) /\ B \in Seq(Nat)
              BY <3>5, <4>2
            <6>2. QED
              BY <6>1, ConcatProperties
          <5>2. QED
            BY <3>2, <5>1
        <4> HIDE DEF p
        <4>6. pos_ + Len(B) <= room /\ pos_ + Len(B) + Len(Chunks(x)[c]) > room
          BY <2>2, <4>4, <4>5 DEF Begins
        <4>7. ASSUME NEW k \in 1..Len(B) PROVE bytes[pos_ + k] = B[k]
          <5>1. PICK l \in Nat : l = Len(B)
            BY <4>2
          <5>2. pos_ + k \in 1..pos_ + l /\ ~(pos_ + k <= pos_) /\ (pos_ + k) - pos_ = k
            BY <3>6, <5>1
          <5>3. p[pos_ + k] = B[k]
            BY <4>5, <5>1, <5>2
          <5>4. bytes[pos_ + k] = p[pos_ + k]
            BY <4>4, <4>5, <5>1, <5>2 DEF Begins
          <5>5. QED
            BY <5>3, <5>4
        <4>8. r.errno # SUCCESS
          BY <2>2, <3>4, <3>6, <4>6, <4>7, ReadDamaged DEF r, B
        <4>9. errno_' # SUCCESS
          BY <1>2, <4>8 DEF r
        <4>10. ReaderPart'
          BY <1>1, <2>2, <2>3, <3>9, <4>9 DEF ReaderPart
        <4>11. QED
          BY <1>1, <1>4, <4>10 DEF StreamInv
      <3>10. QED
        BY <1>1, <2>2, <3>1, <3>8, <3>9, WholeOrCut DEF n
    <2>6. QED
      BY <2>4, <2>5
  <1>5. QED
    BY <1>1, <1>3, <1>4

\* A skip of pack_size bytes takes the reader to where the next value begins.
LEMMA SkipStep ==
  ASSUME StreamInv, Skip
  PROVE  StreamInv'
  <1> DEFINE n == Len(got)
             x == sent[n + 1]
  <1>1. /\ stage = "reading" /\ stage' = stage /\ n < Len(sent) /\ starts' = Append(starts, pos_)
        /\ pos_ + pack_size(x) <= room /\ pos_' = pos_ + pack_size(x) /\ got' = Append(got, x.v)
        /\ room' = room /\ bytes' = bytes /\ lost' = lost /\ sent' = sent /\ errno_' = errno_
    BY DEF Skip
  <1>2. ReaderPart
    BY <1>1 DEF StreamInv
  <1>3. /\ Held /\ sent \in Seq(Items) /\ bytes \in Seq(Nat) /\ room \in Nat /\ room = Len(bytes)
        /\ (errno_ = SUCCESS => OnCourse) /\ (~lost /\ AllTaken => errno_ = SUCCESS)
    BY <1>2 DEF ReaderPart, Held
  <1>4. Held'
    BY <1>1, <1>3 DEF Held, Sound
  <1>5. ASSUME errno_ = SUCCESS PROVE OnCourse'
    <2>1. OnCourse
      BY <1>3, <1>5
    <2>2. n \in Nat /\ pos_ = Len(Ideal(sent, n)) /\ Len(sent) \in Nat
      BY <1>3, <2>1 DEF OnCourse
    <2> HIDE DEF n
    <2>3. n \in 0..Len(sent) - 1 /\ n \in 0..Len(sent) /\ n + 1 \in 1..Len(sent) /\ x \in Items
      <3>1. n \in 0..Len(sent) - 1 /\ n \in 0..Len(sent) /\ n + 1 \in 1..Len(sent)
        BY <1>1, <2>2
      <3>2. QED
        BY <1>3, <3>1
    <2>4. Ideal(sent, n) \in Seq(Nat) /\ Ideal(sent, n + 1) = Ideal(sent, n) \o Code(x)
      BY <1>3, <2>3, IdealSteps
    <2>5. Code(x) \in Seq(Nat) /\ x.v \in Seq(Seq(Nat)) /\ pack_size(x) = Len(Code(x))
      BY <2>3, ChunksType, ItemTypes DEF pack_size, Code
    <2>6. Len(Ideal(sent, n + 1)) = pos_ + Len(Code(x)) /\ pos_ \in Nat /\ Len(Code(x)) \in Nat
      <3>1. Len(Ideal(sent, n) \o Code(x)) = Len(Ideal(sent, n)) + Len(Code(x))
        BY <2>4, <2>5, BeginsConcat
      <3>2. QED
        BY <2>2, <2>4, <2>5, <3>1
    <2>7. ~(Len(Ideal(sent, n + 1)) > room)
      BY <1>1, <1>3, <2>5, <2>6
    <2>8. Begins(Ideal(sent, n + 1), bytes)
      BY <1>1, <1>3, <2>1, <2>7, WholeOrCut DEF n
    <2>9. QED
      BY <1>1, <1>3, <1>4, <2>1, <2>5, <2>8, OneFurther DEF n
  <1>6. ReaderPart'
    <2> HIDE DEF n, x
    <2>1. QED
      BY <1>1, <1>3, <1>4, <1>5 DEF ReaderPart, AllTaken
  <1>7. QED
    BY <1>1, <1>6 DEF StreamInv

\* Where an earlier value began, the reader stands after those before it.
LEMMA SeekStep ==
  ASSUME StreamInv, NEW k \in DOMAIN starts, Seek(k)
  PROVE  StreamInv'
  <1>1. /\ stage \in {"reading", "foreign"} /\ stage' = stage /\ pos_' = starts[k]
        /\ got' = SubSeq(got, 1, k - 1) /\ starts' = SubSeq(starts, 1, k - 1)
        /\ room' = room /\ bytes' = bytes /\ lost' = lost /\ sent' = sent /\ errno_' = errno_
    BY DEF Seek
  <1>2. CASE stage = "foreign"
    BY <1>1, <1>2 DEF StreamInv
  <1>3. CASE stage = "reading"
    <2>1. /\ Held /\ sent \in Seq(Items) /\ bytes \in Seq(Nat) /\ room \in Nat /\ room = Len(bytes)
          /\ (errno_ = SUCCESS => OnCourse) /\ (~lost /\ AllTaken => errno_ = SUCCESS)
      BY <1>3 DEF StreamInv, ReaderPart, Held
    <2>2. Held'
      BY <1>1, <2>1 DEF Held, Sound
    <2>3. ASSUME errno_ = SUCCESS PROVE OnCourse'
      <3> DEFINE n == Len(got)
                 j == k - 1
      <3>1. OnCourse
        BY <2>1, <2>3
      <3>2. /\ got \in Seq(Seq(Seq(Nat))) /\ starts \in Seq(Nat) /\ n \in Nat /\ Len(sent) \in Nat
            /\ Len(starts) = n /\ n <= Len(sent) /\ Begins(Ideal(sent, n), bytes)
            /\ \A i \in 1..n : /\ starts[i] = Len(Ideal(sent, i - 1))
                               /\ got[i] = sent[i].v \/ LeftAlone(sent[i])
        <4>1. got \in Seq(Seq(Seq(Nat))) /\ sent \in Seq(Items)
          BY <2>1, <3>1 DEF OnCourse
        <4>2. n \in Nat /\ Len(sent) \in Nat
          BY <4>1
        <4>3. /\ starts \in Seq(Nat) /\ Len(starts) = n /\ n <= Len(sent)
              /\ Begins(Ideal(sent, n), bytes)
          BY <3>1 DEF OnCourse
        <4>4. \A i \in 1..n : /\ starts[i] = Len(Ideal(sent, i - 1))
                              /\ got[i] = sent[i].v \/ LeftAlone(sent[i])
          BY <3>1 DEF OnCourse
        <4>5. QED
          BY <4>1, <4>2, <4>3, <4>4
      <3> HIDE DEF n
      <3>3. k \in 1..n /\ j \in 0..n /\ j \in Nat /\ n \in 0..Len(sent) /\ j <= Len(sent)
        BY <3>2
      <3>4. /\ got' \in Seq(Seq(Seq(Nat))) /\ Len(got') = j /\ \A i \in 1..j : got'[i] = got[i]
        BY <1>1, <3>2, <3>3, Beginning DEF n
      <3>5. /\ starts' \in Seq(Nat) /\ Len(starts') = j /\ \A i \in 1..j : starts'[i] = starts[i]
        BY <1>1, <3>2, <3>3, Beginning
      <3>6. pos_' = Len(Ideal(sent, j))
        BY <1>1, <3>2, <3>3
      <3>7. Begins(Ideal(sent, j), bytes)
        <4>1. Begins(Ideal(sent, j), Ideal(sent, n)) /\ Ideal(sent, j) \in Seq(Nat) /\ Ideal(sent, n) \in Seq(Nat)
          BY <2>1, <3>3, IdealBegins
        <4>2. QED
          BY <2>1, <3>2, <4>1, BeginsTransitive
      <3>8. \A i \in 1..j : /\ starts'[i] = Len(Ideal(sent, i - 1))
                            /\ got'[i] = sent[i].v \/ LeftAlone(sent[i])
        <4>1. \A i \in 1..j : i \in 1..n
          BY <3>2, <3>3
        <4> HIDE DEF j
        <4>2. QED
          BY <3>2, <3>4, <3>5, <4>1
      <3> HIDE DEF j
      <3>9. QED
        BY <1>1, <3>3, <3>4, <3>5, <3>6, <3>7, <3>8 DEF OnCourse
    <2>4. ReaderPart'
      BY <1>1, <2>1, <2>2, <2>3 DEF ReaderPart, AllTaken
    <2>5. QED
      BY <1>1, <1>3, <2>4 DEF StreamInv
  <1>4. QED
    BY <1>1, <1>2, <1>3

\* StreamInv holds in every state, for all values and buffers.
THEOREM StreamKept == Spec => []StreamInv
  <1>1. ASSUME StreamInv, [Next]_vars PROVE StreamInv'
    <2>1. CASE Receive
      BY <2>1 DEF Receive, StreamInv
    <2>2. CASE UNCHANGED vars
      BY <1>1, <2>2 DEF vars, StreamInv, NewPart, WriterPart, ReaderPart, Held, Sound, OnCourse, AllTaken
    <2>3. QED
      BY <1>1, <2>1, <2>2, OpenStep, WriteStep, PackStep, ReopenStep, ReadStep, SkipStep, SeekStep DEF Next
  <1>2. QED
    BY <1>1, InitInv, PTL DEF Spec

\* Whatever is written and however little of it is passed on: a reader who went through
\* all of it, by reading, skipping and seeking, has errno_ set if anything was missing.
THEOREM LossIsNoticed == Spec => []NoSilentLoss
  <1>1. ASSUME StreamInv PROVE NoSilentLoss
    <2>1. SUFFICES ASSUME stage = "reading", lost, Len(got) = Len(sent), errno_ = SUCCESS PROVE FALSE
      BY DEF NoSilentLoss
    <2>2. /\ sent \in Seq(Items) /\ bytes \in Seq(Nat) /\ room \in Nat /\ room = Len(bytes) /\ OnCourse
          /\ Damaged(bytes, room, sent)
      BY <1>1, <2>1 DEF StreamInv, ReaderPart, Held, Sound
    <2>3. Begins(Ideal(sent, Len(sent)), bytes)
      BY <2>1, <2>2 DEF OnCourse
    <2>4. PICK i \in 1..Len(sent) : \E c \in 1..Len(Chunks(sent[i])) : MissesIn(bytes, room, sent, i, c)
      BY <2>2 DEF Damaged
    <2>5. PICK c \in 1..Len(Chunks(sent[i])) : MissesIn(bytes, room, sent, i, c)
      BY <2>4
    <2>6. Len(Part(sent, i, c)) > room
      BY <2>2, <2>5, PartSteps DEF MissesIn
    <2>7. Begins(Part(sent, i, c), Ideal(sent, i)) /\ Part(sent, i, c) \in Seq(Nat)
      BY <2>2, PartSteps
    <2>8. Begins(Ideal(sent, i), Ideal(sent, Len(sent))) /\ Ideal(sent, i) \in Seq(Nat)
          /\ Ideal(sent, Len(sent)) \in Seq(Nat)
      <3>1. Len(sent) \in 0..Len(sent) /\ i \in 0..Len(sent)
        BY <2>2
      <3>2. QED
        BY <2>2, <3>1, IdealBegins
    <2>9. Begins(Ideal(sent, i), bytes)
      BY <2>2, <2>3, <2>8, BeginsTransitive
    <2>10. Len(Part(sent, i, c)) <= room
      <3>1. Begins(Part(sent, i, c), bytes)
        BY <2>2, <2>7, <2>8, <2>9, BeginsTransitive
      <3>2. QED
        BY <2>2, <3>1 DEF Begins
    <2>11. Len(Part(sent, i, c)) \in Nat
      BY <2>7
    <2>12. QED
      BY <2>2, <2>6, <2>10, <2>11
  <1>2. QED
    BY <1>1, StreamKept, PTL

\* Whatever was written whole and within the limits on elements is read as it was written,
\* with errno_ clear, in whichever order the reader reads, skips and goes back.
THEOREM WhatWasWrittenIsRead == Spec => []WriteReadBack
  <1>1. ASSUME StreamInv PROVE WriteReadBack
    <2>1. SUFFICES ASSUME stage = "reading", ~lost, AllTaken
                   PROVE  /\ errno_ = SUCCESS
                          /\ \A i \in DOMAIN got : got[i] = sent[i].v \/ LeftAlone(sent[i])
      BY DEF WriteReadBack, AllTaken, LeftAlone
    <2>2. errno_ = SUCCESS /\ OnCourse
      BY <1>1, <2>1 DEF StreamInv, ReaderPart
    <2>3. DOMAIN got = 1..Len(got)
      BY <2>2 DEF OnCourse
    <2>4. QED
      BY <2>2, <2>3 DEF OnCourse
  <1>2. QED
    BY <1>1, StreamKept, PTL

-----------------------------------------------------------------------------
(* Numbers that nobody wrote.                                              *)

\* The number in some bytes, byte by byte from the last.
LEMMA JoinedSteps ==
  ASSUME NEW at \in Nat, NEW end \in Nat, at <= end, \A k \in at + 1..end : bytes[k] \in Nat
  PROVE  \E f : /\ f[0] = 0 /\ Joined(at, end) = f[end - at]
                /\ \A k \in 0..end - at : f[k] \in Nat
                /\ \A k \in 0..end - at - 1 : f[k + 1] = (bytes[end - k] % Radix) + Radix * f[k]
  <1> DEFINE n == end - at
             byte(k) == bytes[end - k] % Radix
             step == [k \in Nat |-> [m \in Nat |-> IF k < n THEN byte(k) + Radix * m ELSE m]]
             turn(h) == [k \in 0..end - at |-> IF k = 0 THEN 0
                                  ELSE (bytes[end - k + 1] % Radix) + Radix * h[k - 1]]
             sum == CHOOSE h : h = turn(h)
  <1>1. n \in Nat
    OBVIOUS
  <1>2. ASSUME NEW k \in Nat, k < n PROVE byte(k) \in Nat
    <2>1. end - k \in at + 1..end
      BY <1>2
    <2>2. PICK b \in Nat : b = bytes[end - k]
      BY <2>1
    <2>3. QED
      BY <2>2, Divided
  <1>3. step \in [Nat -> [Nat -> Nat]]
    <2>1. ASSUME NEW k \in Nat, NEW m \in Nat PROVE (IF k < n THEN byte(k) + Radix * m ELSE m) \in Nat
      <3>1. Radix * m \in Nat
        BY SizesType
      <3> HIDE DEF byte, n
      <3>2. QED
        BY <1>2, <3>1
    <2> HIDE DEF byte, n
    <2>2. QED
      BY <2>1
  <1>4. PICK f \in [0..n -> Nat] : StepwiseTo(n, f, 0, step)
    <2> HIDE DEF step, n
    <2>1. QED
      BY <1>1, <1>3, RecursionTo
  <1>5. f = turn(f)
    <2>1. ASSUME NEW k \in 0..n
          PROVE  (IF k = 0 THEN 0 ELSE step[k - 1][f[k - 1]])
                    = IF k = 0 THEN 0 ELSE (bytes[end - k + 1] % Radix) + Radix * f[k - 1]
      <3>1. CASE k # 0
        <4>1. PICK j \in 0..n - 1 : k - 1 = j /\ end - k + 1 = end - j /\ j \in Nat /\ j < n /\ j \in 0..n
          BY <1>1, <3>1
        <4>2. step[j][f[j]] = byte(j) + Radix * f[j]
          <5>1. f[j] \in Nat
            BY <4>1
          <5> HIDE DEF n, byte
          <5>2. QED
            BY <4>1, <5>1
        <4> HIDE DEF step
        <4>3. QED
          BY <3>1, <4>1, <4>2
      <3>2. QED
        BY <3>1
    <2>2. f = [k \in 0..n |-> IF k = 0 THEN 0 ELSE step[k - 1][f[k - 1]]]
      BY <1>4 DEF StepwiseTo
    <2> HIDE DEF step
    <2>3. QED
      BY <2>1, <2>2
  <1>6. sum = turn(sum)
    <2> HIDE DEF turn
    <2>1. QED
      BY <1>5
  <1>7. Joined(at, end) = sum[n]
    BY DEF Joined
  <1> HIDE DEF sum
  <1>8. sum[0] = 0
    <2>1. turn(sum)[0] = 0
      BY <1>1
    <2>2. QED
      BY <1>6, <2>1
  <1>9. ASSUME NEW k \in 0..n - 1 PROVE sum[k + 1] = byte(k) + Radix * sum[k]
    <2>1. PICK i \in 0..end - at : i = k + 1 /\ i # 0 /\ i - 1 = k /\ end - i + 1 = end - k
      BY <1>1
    <2>2. turn(sum)[i] = (bytes[end - i + 1] % Radix) + Radix * sum[i - 1]
      BY <2>1
    <2> HIDE DEF turn
    <2>3. QED
      BY <1>6, <2>1, <2>2
  <1> DEFINE T == {k \in Nat : k <= n => sum[k] \in Nat}
  <1>10. 0 \in T
    BY <1>8
  <1>11. ASSUME NEW k \in T \cap Nat PROVE k + 1 \in T
    <2>1. ASSUME k + 1 <= n PROVE sum[k + 1] \in Nat
      <3>1. k \in 0..n - 1 /\ k < n /\ k <= n
        BY <1>1, <2>1
      <3>2. PICK m \in Nat : m = sum[k]
        BY <1>11, <3>1
      <3>3. byte(k) \in Nat
        BY <1>2, <3>1
      <3>4. Radix * m \in Nat
        BY SizesType
      <3> HIDE DEF byte, n
      <3>5. QED
        BY <1>9, <3>1, <3>2, <3>3, <3>4
    <2>2. QED
      BY <2>1
  <1>12. Nat \subseteq T
    <2> HIDE DEF T
    <2>1. QED
      BY <1>10, <1>11, Induction
  <1>13. \A k \in 0..n : sum[k] \in Nat
    <2>1. \A k \in Nat : k <= n => sum[k] \in Nat
      BY <1>12
    <2> HIDE DEF n
    <2>2. QED
      BY <1>1, <2>1
  <1>14. QED
    BY <1>7, <1>8, <1>9, <1>13

\* There is one way to divide.
LEMMA OneQuotient ==
  ASSUME NEW b \in Nat, NEW p \in Nat, NEW q \in Nat, NEW c \in 0..b - 1, NEW d \in 0..b - 1,
         c + b * p = d + b * q
  PROVE  p = q /\ c = d
  <1>1. PICK s \in Nat, t \in Nat : s = b * p /\ t = b * q
    OBVIOUS
  <1>2. ASSUME NEW m \in Nat, NEW n \in Nat, m < n PROVE b * m + b <= b * n
    <2>1. m + 1 \in Nat /\ n - (m + 1) \in Nat /\ n = (m + 1) + (n - (m + 1))
      BY <1>2
    <2>2. PICK e \in Nat : n = (m + 1) + e
      BY <2>1
    <2>3. b * n = b * m + b + b * e /\ b * e \in Nat /\ b * m \in Nat
      BY <2>2
    <2>4. QED
      BY <2>3
  <1>3. ~(p < q)
    <2>1. ASSUME p < q PROVE FALSE
      <3>1. s + b <= t
        BY <1>1, <1>2, <2>1
      <3>2. QED
        BY <1>1, <3>1
    <2>2. QED
      BY <2>1
  <1>4. ~(q < p)
    <2>1. ASSUME q < p PROVE FALSE
      <3>1. t + b <= s
        BY <1>1, <1>2, <2>1
      <3>2. QED
        BY <1>1, <3>1
    <2>2. QED
      BY <2>1
  <1>5. p = q
    BY <1>3, <1>4
  <1>6. s = t
    BY <1>1, <1>5
  <1>7. QED
    BY <1>1, <1>5, <1>6

\* Dividing by Radix takes the last digit away, and leaves it.
LEMMA LastDigit ==
  ASSUME NEW m \in Nat, NEW d \in 0..Radix - 1
  PROVE  (d + Radix * m) \div Radix = m /\ (d + Radix * m) % Radix = d
  <1>1. PICK b \in Nat : b = Radix /\ b > 1
    BY SizesType
  <1>2. PICK n \in Nat : n = d + b * m
    BY <1>1
  <1>3. /\ n \div Radix \in Nat /\ n % Radix \in 0..Radix - 1
        /\ n = (n % Radix) + Radix * (n \div Radix)
    BY Divided
  <1>4. PICK q \in Nat, r \in 0..b - 1 : q = n \div b /\ r = n % b /\ r + b * q = d + b * m
    BY <1>1, <1>2, <1>3
  <1>5. q = m /\ r = d
    BY <1>1, <1>4, OneQuotient
  <1>6. QED
    BY <1>1, <1>2, <1>4, <1>5

\* What is left of a number that was read, turn by turn.
LEMMA JoinedRests ==
  ASSUME NEW at \in Nat, NEW end \in Nat, at < end, \A k \in at + 1..end : bytes[k] \in Nat
  PROVE  /\ Joined(at, end) \in Nat /\ Rest(Joined(at, end), end - at) = 0
         /\ \A k \in 1..end - at : Rest(Joined(at, end), k - 1) % Radix = bytes[at + k] % Radix
  <1>1. PICK f : /\ f[0] = 0 /\ Joined(at, end) = f[end - at]
                 /\ \A k \in 0..end - at : f[k] \in Nat
                 /\ \A k \in 0..end - at - 1 : f[k + 1] = (bytes[end - k] % Radix) + Radix * f[k]
    <2>1. at <= end
      OBVIOUS
    <2>2. QED
      BY <2>1, JoinedSteps
  <1>2. PICK l \in Nat : l = end - at /\ l >= 1 /\ end = at + l
    OBVIOUS
  <1>3. PICK n \in Nat : n = Joined(at, end) /\ n = f[l]
    BY <1>1, <1>2
  <1>4. ASSUME NEW k \in 0..l - 1
        PROVE  /\ f[k] \in Nat /\ f[k + 1] \in Nat
               /\ f[k + 1] \div Radix = f[k] /\ f[k + 1] % Radix = bytes[end - k] % Radix
    <2>1. end - k \in at + 1..end /\ k \in 0..end - at - 1 /\ k \in 0..end - at /\ k + 1 \in 0..end - at
      BY <1>2
    <2>2. PICK b \in Nat : b = bytes[end - k]
      BY <2>1
    <2>3. b % Radix \in 0..Radix - 1
      BY Divided
    <2>4. f[k + 1] = (b % Radix) + Radix * f[k] /\ f[k] \in Nat /\ f[k + 1] \in Nat
      BY <1>1, <2>1, <2>2
    <2>5. QED
      BY <2>2, <2>3, <2>4, LastDigit
  <1> DEFINE T == {k \in Nat : k <= l => Rest(n, k) = f[l - k]}
  <1>5. 0 \in T
    <2>1. l - 0 = l
      OBVIOUS
    <2>2. QED
      BY <1>3, <2>1, RestSteps
  <1>6. ASSUME NEW k \in T \cap Nat PROVE k + 1 \in T
    <2>1. ASSUME k + 1 <= l PROVE Rest(n, k + 1) = f[l - (k + 1)]
      <3>1. PICK j \in 0..l - 1 : j = l - (k + 1) /\ j + 1 = l - k
        BY <2>1
      <3>2. Rest(n, k) = f[j + 1]
        BY <1>6, <2>1, <3>1
      <3>3. Rest(n, k + 1) = f[j + 1] \div Radix
        <4>1. k \in Nat
          OBVIOUS
        <4>2. Rest(n, k + 1) = Rest(n, k) \div Radix
          BY <4>1, RestSteps
        <4>3. QED
          BY <3>2, <4>2
      <3>4. QED
        BY <1>4, <3>1, <3>3
    <2>2. QED
      BY <2>1
  <1>7. Nat \subseteq T
    <2> HIDE DEF T
    <2>1. QED
      BY <1>5, <1>6, Induction
  <1>8. Rest(n, l) = 0
    <2>1. Rest(n, l) = f[l - l] /\ l - l = 0
      BY <1>7
    <2>2. QED
      BY <1>1, <2>1
  <1>9. ASSUME NEW k \in 1..l PROVE Rest(n, k - 1) % Radix = bytes[at + k] % Radix
    <2>1. PICK j \in 0..l - 1 : j = l - k /\ j + 1 = l - (k - 1) /\ end - j = at + k /\ k - 1 \in Nat /\ k - 1 <= l
      BY <1>2
    <2>2. Rest(n, k - 1) = f[j + 1]
      BY <1>7, <2>1
    <2>3. f[j + 1] % Radix = bytes[end - j] % Radix
      BY <1>4
    <2>4. QED
      BY <2>1, <2>2, <2>3
  <1>10. QED
    BY <1>2, <1>3, <1>8, <1>9

\* Nothing stays nothing.
LEMMA NothingLeft ==
  ASSUME NEW n \in Nat, NEW d \in Nat, NEW e \in Nat, d <= e, Rest(n, d) = 0
  PROVE  Rest(n, e) = 0
  <1> DEFINE T == {k \in Nat : Rest(n, d + k) = 0}
  <1>1. 0 \in T
    <2>1. d + 0 = d
      OBVIOUS
    <2>2. QED
      BY <2>1
  <1>2. ASSUME NEW k \in T \cap Nat PROVE k + 1 \in T
    <2>1. PICK i \in Nat : i = d + k /\ d + (k + 1) = i + 1
      OBVIOUS
    <2>2. Rest(n, i + 1) = 0 \div Radix
      BY <1>2, <2>1, RestSteps
    <2>3. 0 \div Radix = 0
      BY SizesType
    <2>4. QED
      BY <2>1, <2>2, <2>3
  <1>3. Nat \subseteq T
    <2> HIDE DEF T
    <2>1. QED
      BY <1>1, <1>2, Induction
  <1>4. PICK k \in Nat : e = d + k
    <2>1. e - d \in Nat /\ e = d + (e - d)
      OBVIOUS
    <2>2. QED
      BY <2>1
  <1>5. QED
    BY <1>3, <1>4

\* A number has no more digits than turns that leave nothing of it.
LEMMA DigitsWithin ==
  ASSUME NEW n \in Nat, NEW l \in Nat, l >= 1, Rest(n, l) = 0
  PROVE  Digits(n) <= l
  <1>1. PICK d \in Nat : d = Digits(n) /\ d >= 1 /\ (d = 1 \/ Rest(n, d - 1) # 0)
    BY DigitsType
  <1>2. ASSUME ~(d <= l) PROVE FALSE
    <2>1. PICK e \in Nat : e = d - 1 /\ l <= e /\ d # 1
      BY <1>1, <1>2
    <2>2. Rest(n, e) = 0
      BY <2>1, NothingLeft
    <2>3. QED
      BY <1>1, <2>1, <2>2
  <1>3. QED
    BY <1>1, <1>2

\* Smaller numbers have no more digits.
LEMMA DigitsGrow ==
  ASSUME NEW m \in Nat, NEW n \in Nat, m <= n
  PROVE  Digits(m) <= Digits(n)
  <1> DEFINE T == {k \in Nat : Rest(m, k) <= Rest(n, k)}
  <1>1. 0 \in T
    BY RestSteps
  <1>2. ASSUME NEW k \in T \cap Nat PROVE k + 1 \in T
    <2>1. PICK p \in Nat, q \in Nat : p = Rest(m, k) /\ q = Rest(n, k) /\ p <= q
      BY <1>2, RestSteps
    <2>2. Rest(m, k + 1) = p \div Radix /\ Rest(n, k + 1) = q \div Radix
      BY <2>1, RestSteps
    <2>3. PICK b \in Nat : b = Radix /\ b > 1
      BY SizesType
    <2>4. PICK s \in Nat, t \in Nat, c \in 0..b - 1, d \in 0..b - 1 :
             s = p \div b /\ t = q \div b /\ p = c + b * s /\ q = d + b * t
      <3>1. /\ p \div Radix \in Nat /\ p % Radix \in 0..Radix - 1
            /\ p = (p % Radix) + Radix * (p \div Radix)
        BY Divided
      <3>2. /\ q \div Radix \in Nat /\ q % Radix \in 0..Radix - 1
            /\ q = (q % Radix) + Radix * (q \div Radix)
        BY Divided
      <3>3. QED
        BY <2>3, <3>1, <3>2
    <2>5. s <= t
      <3>1. ASSUME t < s PROVE FALSE
        <4>1. b * (t + 1) <= b * s /\ b * (t + 1) = b * t + b
          BY <3>1
        <4>2. PICK u \in Nat, v \in Nat : u = b * t /\ v = b * s
          BY <2>3
        <4>3. QED
          BY <2>1, <2>3, <2>4, <4>1, <4>2
      <3>2. QED
        BY <3>1
    <2>6. QED
      BY <2>2, <2>3, <2>4, <2>5
  <1>3. Nat \subseteq T
    <2> HIDE DEF T
    <2>1. QED
      BY <1>1, <1>2, Induction
  <1>4. PICK d \in Nat : d = Digits(n) /\ d >= 1 /\ Rest(n, d) = 0
    BY DigitsType
  <1>5. Rest(m, d) \in Nat /\ Rest(m, d) <= 0
    BY <1>3, <1>4, RestSteps
  <1>6. Rest(m, d) = 0
    BY <1>5
  <1>7. QED
    BY <1>4, <1>6, DigitsWithin

-----------------------------------------------------------------------------
(* What is accepted as a count, and as elements.                           *)

\* The bytes of numbers.
Foreigner == 0..2 * Radix - 1

\* Sequences of fewer things are sequences of more.
LEMMA SeqGrows ==
  ASSUME NEW A, NEW B, A \subseteq B
  PROVE  Seq(A) \subseteq Seq(B)
  <1>1. ASSUME NEW s \in Seq(A) PROVE s \in Seq(B)
    <2>1. Len(s) \in Nat /\ s = [k \in 1..Len(s) |-> s[k]] /\ \A k \in 1..Len(s) : s[k] \in B
      BY ElementOfSeq
    <2>2. QED
      BY <2>1
  <1>2. QED
    BY <1>1

\* The digit in a byte, with or without the mark that more follow.
LEMMA DigitInByte ==
  ASSUME NEW b \in Foreigner
  PROVE  b = (b % Radix) + (IF b < Radix THEN 0 ELSE Radix)
  <1>1. PICK r \in Nat : r = Radix /\ r > 1 /\ b \in Nat /\ b < 2 * r
    BY SizesType DEF Foreigner
  <1>2. CASE b < r
    <2>1. b \in 0..Radix - 1 /\ 0 \in Nat
      BY <1>1, <1>2
    <2>2. (b + Radix * 0) % Radix = b
      BY <2>1, LastDigit
    <2>3. b + Radix * 0 = b
      BY <1>1
    <2>4. QED
      BY <1>1, <1>2, <2>2, <2>3
  <1>3. CASE ~(b < r)
    <2>1. PICK d \in 0..Radix - 1 : d = b - r
      BY <1>1, <1>3
    <2>2. (d + Radix * 1) % Radix = d
      BY <2>1, LastDigit
    <2>3. d + Radix * 1 = b
      BY <1>1, <2>1
    <2>4. QED
      BY <1>1, <1>3, <2>1, <2>2, <2>3
  <1>4. QED
    BY <1>2, <1>3

\* The bytes from at + 1 to end hold no more than a writer's count of n, or just that, if
\* nothing of their number was cut off.
CountStands(at, n, end) ==
    /\ Digits(n) <= end - at
    /\ Digits(n) = end - at /\ Joined(at, end) < Word =>
          \A k \in 1..end - at : bytes[at + k] = VarUInt(n)[k][1]

\* What is left of a number within a word.
LEMMA CutOff ==
  ASSUME NEW j \in Nat
  PROVE  j % Word \in 0..Word - 1 /\ j % Word <= j /\ (j < Word => j % Word = j)
  <1>1. PICK w \in Nat \ {0} : w = Word
    BY SizesAssumption
  <1>2. j \div w \in Nat /\ j % w \in 0..w - 1 /\ j = w * (j \div w) + (j % w)
    BY Parts
  <1>3. w * (j \div w) \in Nat
    BY <1>2
  <1>4. j < w => j % w = j
    OBVIOUS
  <1>5. QED
    BY <1>1, <1>2, <1>3, <1>4

\* A count that is accepted takes no fewer bytes than a writer needs for it, and if it
\* takes as many, and is as it was, they are the writer's.
LEMMA CountAccepted ==
  ASSUME NEW at \in Nat, bytes \in Seq(Foreigner), room = Len(bytes),
         NEW c \in CountRead(at), c.errno = SUCCESS
  PROVE  \E n \in Nat, end \in at + 1..room :
            c = [pos |-> end, errno |-> errno_, n |-> n] /\ end = End(at) /\ CountStands(at, n, end)
  <1> DEFINE ends == Ends(at)
             first == CHOOSE k \in ends : \A m \in ends : k <= m
  <1>0. ends = {k \in at + 1..room : bytes[k] < Radix}
    BY DEF Ends
  <1> HIDE DEF ends
  <1>2. ends # {}
    <2>1. ASSUME ends = {} PROVE FALSE
      <3>1. c = [pos |-> room, errno |-> TRAP_OUT_OF_STREAM, n |-> 0]
        BY <2>1 DEF CountRead, ends
      <3>2. QED
        BY <3>1 DEF TRAP_OUT_OF_STREAM, SUCCESS
    <2>2. QED
      BY <2>1
  <1>3. first \in ends /\ \A m \in ends : first <= m
    <2>1. ends \subseteq Nat
      BY <1>0
    <2>2. \E k \in ends : \A m \in ends : k <= m
      BY <1>2, <2>1, First
    <2>3. QED
      BY <2>2
  <1>4. End(at) = first
    BY <1>2 DEF End, ends
  <1>41. c \in [pos : {End(at)}, errno : {errno_}, n : Words(at)]
    BY <1>2 DEF CountRead, ends
  <1>5. PICK end \in at + 1..room : end = first /\ bytes[end] < Radix
    BY <1>0, <1>3
  <1>6. end \in Nat /\ at < end /\ \A k \in at + 1..end : bytes[k] \in Foreigner
    <2>1. room \in Nat
      OBVIOUS
    <2>2. ASSUME NEW k \in at + 1..end PROVE bytes[k] \in Foreigner
      <3>1. k \in 1..Len(bytes)
        BY <1>5, <2>1
      <3> HIDE DEF Foreigner
      <3>2. QED
        BY <3>1, ElementOfSeq
    <2>3. QED
      BY <1>5, <2>1, <2>2
  <1>7. \A k \in at + 1..end : bytes[k] \in Nat
    BY <1>6, SizesType DEF Foreigner
  <1>8. /\ Joined(at, end) \in Nat /\ Rest(Joined(at, end), end - at) = 0
        /\ \A k \in 1..end - at : Rest(Joined(at, end), k - 1) % Radix = bytes[at + k] % Radix
    BY <1>6, <1>7, JoinedRests
  <1>9. PICK j \in Nat, l \in Nat : j = Joined(at, end) /\ l = end - at /\ l >= 1
    BY <1>6, <1>8
  <1>10. Digits(j) <= l
    BY <1>8, <1>9, DigitsWithin
  <1>11. PICK n \in Nat : c = [pos |-> end, errno |-> errno_, n |-> n] /\ n \in Words(at)
    <2>1. Words(at) \subseteq Nat
      <3>1. Words(at) = 0..Word - 1 \/ Words(at) = {j % Word}
        BY <1>4, <1>5, <1>9 DEF Words
      <3>2. j % Word \in Nat
        BY CutOff
      <3>3. QED
        BY <3>1, <3>2, SizesAssumption
    <2>2. QED
      BY <1>4, <1>41, <1>5, <2>1
  <1>12. CASE l > WordDigits
    <2>1. n \in 0..Word - 1
      BY <1>4, <1>5, <1>9, <1>11, <1>12 DEF Words
    <2>2. Digits(n) <= WordDigits
      BY <2>1, WordAssumption
    <2>3. PICK d \in Nat, w \in Nat : d = Digits(n) /\ w = WordDigits
      BY DigitsType, SizesAssumption
    <2>4. Digits(n) <= l /\ Digits(n) # l
      BY <1>12, <2>2, <2>3
    <2>5. CountStands(at, n, end)
      BY <1>9, <2>4 DEF CountStands
    <2>6. QED
      BY <1>4, <1>5, <1>11, <2>5
  <1>13. CASE ~(l > WordDigits)
    <2>1. n = j % Word
      BY <1>4, <1>5, <1>9, <1>11, <1>13 DEF Words
    <2>2. n <= j /\ (j < Word => n = j)
      BY <2>1, CutOff
    <2>3. Digits(n) <= l
      <3>1. Digits(n) <= Digits(j)
        BY <2>2, DigitsGrow
      <3>2. PICK d \in Nat, e \in Nat : d = Digits(n) /\ e = Digits(j)
        BY DigitsType
      <3>3. QED
        BY <1>10, <3>1, <3>2
    <2>4. ASSUME Digits(n) = l, j < Word, NEW k \in 1..l PROVE bytes[at + k] = VarUInt(n)[k][1]
      <3>1. VarUInt(n)[k][1] = (Rest(n, k - 1) % Radix) + (IF k < Digits(n) THEN Radix ELSE 0)
        BY <2>4 DEF VarUInt
      <3>2. PICK m \in at + 1..end : m = at + k /\ (m = end <=> k = l)
        BY <1>9
      <3>3. bytes[m] < Radix <=> k = l
        <4>1. ASSUME k # l, bytes[m] < Radix PROVE FALSE
          <5>1. m \in ends /\ m < end
            BY <1>0, <1>5, <3>2, <4>1
          <5> HIDE DEF first
          <5>2. QED
            BY <1>3, <1>5, <5>1
        <4>2. QED
          BY <1>5, <3>2, <4>1
      <3>4. bytes[m] = (bytes[m] % Radix) + (IF bytes[m] < Radix THEN 0 ELSE Radix)
        BY <1>6, DigitInByte
      <3>5. Rest(n, k - 1) % Radix = bytes[m] % Radix
        BY <1>8, <1>9, <2>2, <2>4, <3>2
      <3>6. k < Digits(n) <=> k # l
        BY <2>4
      <3>7. QED
        BY <3>1, <3>2, <3>3, <3>4, <3>5, <3>6
    <2>5. CountStands(at, n, end)
      BY <1>9, <2>3, <2>4 DEF CountStands
    <2>6. QED
      BY <1>4, <1>5, <1>11, <2>5
  <1>14. QED
    BY <1>12, <1>13

\* What ElementsWhole says of one sequence of elements.
FoundWhole(at, size, v) ==
    /\ \A k \in 1..Len(v) : Len(v[k]) = size
    /\ at + Len(v) * size <= room
    /\ \A k \in 1..Len(v) * size : bytes[at + k] = FlattenSeq(v)[k]
    => Elements(at, Len(v), size, SUCCESS) = [pos |-> at + Len(v) * size, errno |-> SUCCESS, v |-> v]

\* It is so.
LEMMA EachFoundWhole ==
  ASSUME bytes \in Seq(Nat), room = Len(bytes), NEW at \in Nat, NEW size \in Nat, NEW v \in Seq(Seq(Nat))
  PROVE  FoundWhole(at, size, v)
  BY ElementsWhole DEF FoundWhole

\* Elements that are accepted are there, and are what is there.
LEMMA ElementsAccepted ==
  ASSUME NEW at \in Nat, NEW size \in Nat, size > 0, NEW n \in Nat, at <= room,
         bytes \in Seq(Foreigner), room = Len(bytes), Elements(at, n, size, SUCCESS).errno = SUCCESS
  PROVE  \E v \in Seq(Seq(Foreigner)) :
            /\ Elements(at, n, size, SUCCESS) = [pos |-> at + n * size, errno |-> SUCCESS, v |-> v]
            /\ Len(v) = n /\ (\A k \in 1..n : Len(v[k]) = size)
            /\ at + n * size <= room /\ Len(FlattenSeq(v)) = n * size
            /\ \A k \in 1..n * size : FlattenSeq(v)[k] = bytes[at + k]
  <1>1. room \in Nat /\ n * size \in Nat
    OBVIOUS
  <1>2. at + n * size <= room
    <2>1. PICK t \in Nat : t = n * size
      OBVIOUS
    <2>2. ~(at + n * size > room)
      BY <1>1, ElementsShort
    <2>3. QED
      BY <1>1, <2>1, <2>2
  <1> DEFINE v == [k \in 1..n |-> [i \in 1..size |-> bytes[at + ((k - 1) * size + i)]]]
  <1>3. ASSUME NEW k \in 1..n, NEW i \in 1..size
        PROVE  (k - 1) * size + i \in 1..n * size /\ at + ((k - 1) * size + i) \in 1..room
    <2>1. PICK j \in Nat : j = k - 1 /\ j + 1 = k /\ k <= n
      BY <1>3
    <2>2. PICK p \in Nat, q \in Nat : p = j * size /\ q = n * size /\ p + size <= q
      <3>1. (j + 1) * size = j * size + size
        BY <2>1, NextMultiple
      <3>2. (j + 1) * size <= n * size
        BY <2>1, Multiples
      <3>3. j * size \in Nat
        BY <2>1
      <3>4. QED
        BY <1>1, <3>1, <3>2, <3>3
    <2>3. QED
      BY <1>1, <1>2, <2>1, <2>2
  <1>4. v \in Seq(Seq(Foreigner)) /\ Len(v) = n /\ \A k \in 1..n : Len(v[k]) = size
    <2>1. ASSUME NEW k \in 1..n PROVE [i \in 1..size |-> bytes[at + ((k - 1) * size + i)]] \in Seq(Foreigner)
      <3>1. ASSUME NEW i \in 1..size PROVE bytes[at + ((k - 1) * size + i)] \in Foreigner
        <4>1. at + ((k - 1) * size + i) \in 1..Len(bytes)
          BY <1>3, <3>1
        <4> HIDE DEF Foreigner
        <4>2. QED
          BY <4>1, ElementOfSeq
      <3>2. QED
        BY <3>1
    <2>2. QED
      BY <2>1
  <1>5. ASSUME NEW k \in 1..n, NEW i \in 1..size PROVE v[k][i] = bytes[at + ((k - 1) * size + i)]
    OBVIOUS
  <1> HIDE DEF v
  <1>6. Len(FlattenSeq(v)) = n * size /\ \A k \in 1..n, i \in 1..size : FlattenSeq(v)[(k - 1) * size + i] = v[k][i]
    <2>1. \A k \in 1..Len(v) : Len(v[k]) = size
      BY <1>4
    <2>2. EvenRuns(v, size)
      BY <1>4, <2>1, FlattenUniform
    <2>3. QED
      BY <1>4, <2>2 DEF EvenRuns
  <1>7. ASSUME NEW m \in 1..n * size PROVE FlattenSeq(v)[m] = bytes[at + m]
    <2>1. PICK j \in Nat : m = j + 1
      <3>1. m - 1 \in Nat /\ m = (m - 1) + 1
        BY <1>1
      <3>2. QED
        BY <3>1
    <2>2. PICK q \in Nat, r \in 0..size - 1 : j = size * q + r
      <3>1. j \div size \in Nat /\ j % size \in 0..size - 1 /\ j = size * (j \div size) + (j % size)
        BY Parts
      <3>2. QED
        BY <3>1
    <2>3. q < n
      <3>1. ASSUME n <= q PROVE FALSE
        <4>1. n * size <= q * size
          BY <3>1, Multiples
        <4>2. PICK s \in Nat, t \in Nat : s = q * size /\ t = n * size /\ size * q = s
          BY <1>1
        <4>3. QED
          BY <2>1, <2>2, <4>1, <4>2
      <3>2. QED
        BY <3>1
    <2>4. PICK k \in 1..n, i \in 1..size : k = q + 1 /\ i = r + 1 /\ k - 1 = q
      BY <2>2, <2>3
    <2>5. (k - 1) * size + i = m
      <3>1. PICK s \in Nat : s = q * size /\ size * q = s
        OBVIOUS
      <3>2. QED
        BY <2>1, <2>2, <2>4, <3>1
    <2>6. QED
      BY <1>5, <1>6, <2>5
  <1>8. Seq(Foreigner) \subseteq Seq(Nat) /\ Seq(Seq(Foreigner)) \subseteq Seq(Seq(Nat))
    <2>1. Foreigner \subseteq Nat
      BY SizesType DEF Foreigner
    <2>2. QED
      BY <2>1, SeqGrows
  <1>9. Elements(at, Len(v), size, SUCCESS) = [pos |-> at + Len(v) * size, errno |-> SUCCESS, v |-> v]
    <2>1. v \in Seq(Seq(Nat)) /\ bytes \in Seq(Nat)
      BY <1>4, <1>8
    <2>2. \A k \in 1..Len(v) : Len(v[k]) = size
      BY <1>4
    <2>3. at + Len(v) * size <= room
      BY <1>2, <1>4
    <2>4. \A k \in 1..Len(v) * size : bytes[at + k] = FlattenSeq(v)[k]
      BY <1>4, <1>7
    <2>5. QED
      BY <2>1, <2>2, <2>3, <2>4, EachFoundWhole DEF FoundWhole
  <1>10. QED
    BY <1>2, <1>4, <1>6, <1>7, <1>9

-----------------------------------------------------------------------------
(* Keys in order.                                                          *)

\* Different keys have different numbers.
LEMMA KeysDiffer ==
  ASSUME NEW d \in Seq(Foreigner), NEW e \in Seq(Foreigner), Len(d) = Len(e), Key(d) = Key(e)
  PROVE  d = e
  <1>1. PICK n \in Nat : n = Len(d) /\ n = Len(e)
    OBVIOUS
  <1>2. PICK b \in Nat : b = Radix * Radix /\ 2 * Radix <= b
    <2>1. PICK r \in Nat : r = Radix /\ 2 <= r
      BY SizesType
    <2>2. 2 * r <= r * r /\ r * r \in Nat
      BY <2>1, Multiples
    <2>3. QED
      BY <2>1, <2>2
  <1>3. Foreigner \subseteq Nat /\ \A x \in Foreigner : x \in 0..b - 1
    BY <1>2, SizesType DEF Foreigner
  <1>4. d \in Seq(Nat) /\ e \in Seq(Nat)
    <2>1. QED
      BY <1>3, SeqGrows
  <1>5. PICK f : /\ f[0] = 0 /\ Key(d) = f[n]
                 /\ \A k \in 0..n : f[k] \in Nat
                 /\ \A k \in 0..n - 1 : f[k + 1] = d[n - k] + b * f[k]
    <2>1. \E h : /\ h[0] = 0 /\ Key(d) = h[Len(d)]
                 /\ \A k \in 0..Len(d) : h[k] \in Nat
                 /\ \A k \in 0..Len(d) - 1 : h[k + 1] = d[Len(d) - k] + Radix * Radix * h[k]
      BY <1>4, KeySteps
    <2>2. QED
      BY <1>1, <1>2, <2>1
  <1>6. PICK g : /\ g[0] = 0 /\ Key(e) = g[n]
                 /\ \A k \in 0..n : g[k] \in Nat
                 /\ \A k \in 0..n - 1 : g[k + 1] = e[n - k] + b * g[k]
    <2>1. \E h : /\ h[0] = 0 /\ Key(e) = h[Len(e)]
                 /\ \A k \in 0..Len(e) : h[k] \in Nat
                 /\ \A k \in 0..Len(e) - 1 : h[k + 1] = e[Len(e) - k] + Radix * Radix * h[k]
      BY <1>4, KeySteps
    <2>2. QED
      BY <1>1, <1>2, <2>1
  <1>7. ASSUME NEW k \in 0..n - 1, f[k + 1] = g[k + 1]
        PROVE  f[k] = g[k] /\ d[n - k] = e[n - k]
    <2>1. PICK j \in 1..n : j = n - k
      <3>1. n - k \in 1..n
        OBVIOUS
      <3>2. QED
        BY <3>1
    <2>2. d[j] \in 0..b - 1 /\ e[j] \in 0..b - 1
      <3>1. d[j] \in Foreigner /\ e[j] \in Foreigner
        BY <1>1, ElementOfSeq
      <3>2. QED
        BY <1>3, <3>1
    <2>3. PICK p \in Nat, q \in Nat : p = f[k] /\ q = g[k]
      <3>1. k \in 0..n
        BY <1>1
      <3>2. QED
        BY <1>5, <1>6, <3>1
    <2>4. d[j] + b * p = e[j] + b * q
      BY <1>5, <1>6, <1>7, <2>1, <2>3
    <2>5. p = q /\ d[j] = e[j]
      BY <2>2, <2>4, OneQuotient
    <2>6. QED
      BY <2>1, <2>3, <2>5
  <1> DEFINE T == {k \in Nat : k <= n => f[n - k] = g[n - k]}
  <1>8. 0 \in T
    <2>1. n - 0 = n
      BY <1>1
    <2>2. QED
      BY <1>5, <1>6, <2>1
  <1>9. ASSUME NEW k \in T \cap Nat PROVE k + 1 \in T
    <2>1. ASSUME k + 1 <= n PROVE f[n - (k + 1)] = g[n - (k + 1)]
      <3>1. PICK j \in 0..n - 1 : j = n - (k + 1) /\ j + 1 = n - k /\ k <= n
        BY <1>1, <2>1
      <3>2. f[j + 1] = g[j + 1]
        BY <1>9, <3>1
      <3>3. QED
        BY <1>7, <3>1, <3>2
    <2>2. QED
      BY <2>1
  <1>10. Nat \subseteq T
    <2> HIDE DEF T
    <2>1. QED
      BY <1>8, <1>9, Induction
  <1>11. ASSUME NEW i \in 1..n PROVE d[i] = e[i]
    <2>1. PICK k \in 0..n - 1 : k = n - i /\ n - k = i
      <3>1. n - i \in 0..n - 1 /\ n - (n - i) = i
        OBVIOUS
      <3>2. QED
        BY <3>1
    <2>2. PICK j \in Nat : j = i - 1 /\ n - j = k + 1 /\ j <= n
      BY <1>1, <2>1
    <2>3. f[n - j] = g[n - j]
      BY <1>10, <2>2
    <2>4. QED
      BY <1>7, <2>1, <2>2, <2>3
  <1>12. QED
    BY <1>1, <1>4, <1>11, SeqEqual

\* How many are before e, and that somebody has every rank: numbers are keys of a finite set.
RankIn(E, key, e) == Cardinality({f \in E : key[f] < key[e]})

\* Nobody is before all.
LEMMA RankType ==
  ASSUME NEW E, IsFiniteSet(E), NEW key \in [E -> Nat], NEW e \in E
  PROVE  /\ IsFiniteSet({f \in E : key[f] < key[e]}) /\ RankIn(E, key, e) \in Nat
         /\ RankIn(E, key, e) < Cardinality(E)
  <1> DEFINE B == {f \in E : key[f] < key[e]}
  <1>1. B \in SUBSET E /\ e \notin B
    OBVIOUS
  <1>2. IsFiniteSet(B) /\ Cardinality(B) <= Cardinality(E) /\ (Cardinality(E) = Cardinality(B) => E = B)
    BY <1>1, FS_Subset
  <1>3. Cardinality(B) \in Nat /\ Cardinality(E) \in Nat
    BY <1>2, FS_CardinalityType
  <1>4. Cardinality(B) # Cardinality(E)
    BY <1>1, <1>2
  <1> HIDE DEF B
  <1>5. Cardinality(B) < Cardinality(E)
    BY <1>2, <1>3, <1>4
  <1>6. QED
    BY <1>2, <1>3, <1>5 DEF B, RankIn

\* Ranks are in the order of the keys.
LEMMA RankGrows ==
  ASSUME NEW E, IsFiniteSet(E), NEW key \in [E -> Nat], NEW d \in E, NEW e \in E
  PROVE  key[d] < key[e] <=> RankIn(E, key, d) < RankIn(E, key, e)
  <1> DEFINE B(x) == {f \in E : key[f] < key[x]}
  <1>1. ASSUME NEW x \in E, NEW y \in E, key[x] <= key[y] PROVE RankIn(E, key, x) <= RankIn(E, key, y)
    <2>1. B(x) \in SUBSET B(y)
      BY <1>1
    <2>2. IsFiniteSet(B(y))
      BY RankType
    <2> HIDE DEF B
    <2>3. Cardinality(B(x)) <= Cardinality(B(y))
      BY <2>1, <2>2, FS_Subset
    <2>4. QED
      BY <2>3 DEF B, RankIn
  <1>2. ASSUME NEW x \in E, NEW y \in E, key[x] < key[y] PROVE RankIn(E, key, x) # RankIn(E, key, y)
    <2>1. B(x) \in SUBSET B(y) /\ x \in B(y) /\ x \notin B(x)
      BY <1>2
    <2>2. IsFiniteSet(B(y))
      BY RankType
    <2> HIDE DEF B
    <2>3. Cardinality(B(y)) = Cardinality(B(x)) => B(y) = B(x)
      BY <2>1, <2>2, FS_Subset
    <2>4. Cardinality(B(y)) # Cardinality(B(x))
      BY <2>1, <2>3
    <2>5. QED
      BY <2>4 DEF B, RankIn
  <1>3. RankIn(E, key, d) \in Nat /\ RankIn(E, key, e) \in Nat /\ key[d] \in Nat /\ key[e] \in Nat
    BY RankType
  <1>4. CASE key[d] < key[e]
    <2>1. key[d] <= key[e]
      BY <1>3, <1>4
    <2>2. RankIn(E, key, d) <= RankIn(E, key, e) /\ RankIn(E, key, d) # RankIn(E, key, e)
      BY <1>1, <1>2, <1>4, <2>1
    <2>3. QED
      BY <1>3, <1>4, <2>2
  <1>5. CASE key[e] <= key[d]
    <2>1. RankIn(E, key, e) <= RankIn(E, key, d)
      BY <1>1, <1>5
    <2>2. QED
      BY <1>3, <1>5, <2>1
  <1>6. QED
    BY <1>3, <1>4, <1>5

\* With different keys, each rank is taken by somebody.
LEMMA RankTaken ==
  ASSUME NEW E, IsFiniteSet(E), NEW key \in [E -> Nat],
         \A d, e \in E : key[d] = key[e] => d = e, NEW i \in 1..Cardinality(E)
  PROVE  \E e \in E : RankIn(E, key, e) = i - 1
  <1>1. PICK c \in Nat : c = Cardinality(E)
    BY FS_CardinalityType
  <1> DEFINE R == 0..c - 1
             rank == [e \in E |-> RankIn(E, key, e)]
  <1>2. rank \in [E -> R]
    <2>1. ASSUME NEW e \in E PROVE RankIn(E, key, e) \in R
      <3>1. RankIn(E, key, e) \in Nat /\ RankIn(E, key, e) < c
        BY <1>1, RankType
      <3>2. QED
        BY <1>1, <3>1
    <2> HIDE DEF R
    <2>2. QED
      BY <2>1
  <1>3. ASSUME NEW d \in E, NEW e \in E, rank[d] = rank[e] PROVE d = e
    <2>1. RankIn(E, key, d) = RankIn(E, key, e) /\ RankIn(E, key, d) \in Nat
      BY <1>3, RankType
    <2>2. ~(key[d] < key[e])
      BY <2>1, RankGrows
    <2>3. ~(key[e] < key[d])
      BY <2>1, RankGrows
    <2>4. key[d] = key[e]
      BY <2>2, <2>3
    <2>5. QED
      BY <2>4
  <1>4. IsFiniteSet(R) /\ Cardinality(R) = c
    <2>1. IsFiniteSet(0..c - 1) /\ Cardinality(0..c - 1) = IF 0 > c - 1 THEN 0 ELSE c - 1 - 0 + 1
      <3>1. 0 \in Int /\ c - 1 \in Int
        BY <1>1
      <3>2. QED
        BY <3>1, FS_Interval
    <2>2. (IF 0 > c - 1 THEN 0 ELSE c - 1 - 0 + 1) = c
      BY <1>1
    <2>3. QED
      BY <2>1, <2>2
  <1>5. i - 1 \in R
    BY <1>1
  <1> HIDE DEF R, rank
  <1>6. rank \in Injection(E, R)
    BY <1>2, <1>3 DEF Injection, IsInjective
  <1>7. rank \in Surjection(E, R)
    BY <1>1, <1>4, <1>6, FS_Injection
  <1>8. \E e \in E : rank[e] = i - 1
    BY <1>5, <1>7 DEF Surjection
  <1>9. QED
    BY <1>8 DEF rank

\* The places of entries of one or two elements.
LEMMA EntryPlaces ==
  ASSUME NEW width \in {1, 2}, NEW m \in Nat
  PROVE  /\ (width * m) \div width = m /\ width * m \in Nat
         /\ \A j \in 1..m : (j - 1) * width + 1 \in 1..width * m
         /\ \A k \in 1..width * m : /\ (k - 1) \div width + 1 \in 1..m
                                    /\ (k - 1) % width \in 0..width - 1
         /\ \A j \in 1..m, p \in 0..width - 1 : (j - 1) * width + p + 1 \in 1..width * m
  <1>1. CASE width = 1
    <2>1. (1 * m) \div 1 = m /\ 1 * m \in Nat
      OBVIOUS
    <2>2. ASSUME NEW j \in 1..m
          PROVE  (j - 1) * 1 + 1 \in 1..1 * m
      OBVIOUS
    <2>3. ASSUME NEW k \in 1..1 * m PROVE (k - 1) \div 1 + 1 \in 1..m /\ (k - 1) % 1 \in 0..1 - 1
      OBVIOUS
    <2>4. ASSUME NEW j \in 1..m, NEW p \in 0..1 - 1 PROVE (j - 1) * 1 + p + 1 \in 1..1 * m
      OBVIOUS
    <2>5. QED
      BY <1>1, <2>1, <2>2, <2>3, <2>4
  <1>2. CASE width = 2
    <2>1. (2 * m) \div 2 = m /\ 2 * m \in Nat
      OBVIOUS
    <2>2. ASSUME NEW j \in 1..m
          PROVE  (j - 1) * 2 + 1 \in 1..2 * m
      OBVIOUS
    <2>3. ASSUME NEW k \in 1..2 * m PROVE (k - 1) \div 2 + 1 \in 1..m /\ (k - 1) % 2 \in 0..2 - 1
      OBVIOUS
    <2>4. ASSUME NEW j \in 1..m, NEW p \in 0..2 - 1 PROVE (j - 1) * 2 + p + 1 \in 1..2 * m
      OBVIOUS
    <2>5. QED
      BY <1>2, <2>1, <2>2, <2>3, <2>4
  <1>3. QED
    BY <1>1, <1>2

\* The first element of each entry is its key.
LEMMA EntryStarts ==
  ASSUME NEW width \in {1, 2}, NEW m \in Nat, NEW j \in 1..m
  PROVE  \E k \in 1..width * m : /\ k = (j - 1) * width + 1
                                 /\ (k - 1) \div width = j - 1 /\ (k - 1) % width = 0
  <1>1. CASE width = 1
    <2>1. j \in 1..1 * m /\ j = (j - 1) * 1 + 1 /\ (j - 1) \div 1 = j - 1 /\ (j - 1) % 1 = 0
      OBVIOUS
    <2>2. QED
      BY <1>1, <2>1
  <1>2. CASE width = 2
    <2>1. PICK k \in 1..2 * m : k = (j - 1) * 2 + 1 /\ k - 1 = 2 * (j - 1)
      OBVIOUS
    <2>2. (k - 1) \div 2 = j - 1 /\ (k - 1) % 2 = 0
      BY <2>1
    <2>3. QED
      BY <1>2, <2>1, <2>2
  <1>3. QED
    BY <1>1, <1>2

\* What reading a set or map yields: no more than n entries, in order.
InOrder(r, pos, width, n, size) ==
    \E c \in 0..n, w \in Seq(Seq(Foreigner)) :
       /\ r = [pos |-> pos, errno |-> SUCCESS, v |-> w]
       /\ Len(w) = width * c /\ (\A k \in 1..Len(w) : Len(w[k]) = size)
       /\ Ascending(w, width)

\* Whatever is put into a set or map, it is in order there, each key once.
LEMMA EmplacedAscends ==
  ASSUME NEW r, NEW pos, NEW v \in Seq(Seq(Foreigner)), NEW width \in {1, 2}, NEW n \in Nat,
         NEW size \in Nat, r = [pos |-> pos, errno |-> SUCCESS, v |-> v],
         Len(v) = width * n, \A k \in 1..Len(v) : Len(v[k]) = size
  PROVE  InOrder(Emplaced(r, width), pos, width, n, size)
  <1> DEFINE key(e) == Key(KeyAt(r.v, width, e))
             entries == Entries(r.v, width)
             below(e) == {f \in entries : key(f) < key(e)}
             nth(i) == CHOOSE e \in entries : Cardinality(below(e)) = i - 1
             at(k) == (nth((k - 1) \div width + 1) - 1) * width + ((k - 1) % width) + 1
  <1>1. r.v = v /\ r.errno = SUCCESS /\ Len(v) \div width = n
    BY EntryPlaces
  <1>2. ASSUME NEW e \in 1..n
        PROVE  /\ KeyAt(v, width, e) \in Seq(Foreigner) /\ Len(KeyAt(v, width, e)) = size /\ key(e) \in Nat
    <2>1. (e - 1) * width + 1 \in 1..Len(v)
      BY EntryPlaces
    <2>2. KeyAt(v, width, e) \in Seq(Foreigner) /\ Len(KeyAt(v, width, e)) = size
      BY <2>1, ElementOfSeq DEF KeyAt
    <2>3. KeyAt(v, width, e) \in Seq(Nat)
      <3>1. Foreigner \subseteq Nat
        BY SizesType DEF Foreigner
      <3>2. QED
        BY <2>2, <3>1, SeqGrows
    <2>4. QED
      BY <1>1, <2>2, <2>3, KeyType
  <1>3. /\ entries \subseteq 1..n
        /\ \A k \in entries : \A j \in 1..k - 1 : KeyAt(v, width, j) # KeyAt(v, width, k)
    BY <1>1 DEF Entries
  <1> HIDE DEF entries
  <1>4. ASSUME NEW d \in entries, NEW e \in entries, key(d) = key(e) PROVE d = e
    <2>1. d \in 1..n /\ e \in 1..n
      BY <1>3
    <2>2. KeyAt(v, width, d) = KeyAt(v, width, e)
      <3>1. Key(KeyAt(v, width, d)) = Key(KeyAt(v, width, e))
        BY <1>1, <1>4
      <3>2. QED
        BY <1>2, <2>1, <3>1, KeysDiffer
    <2>3. ~(d < e)
      <3>1. ASSUME d < e PROVE FALSE
        <4>1. d \in 1..e - 1
          BY <2>1, <3>1
        <4>2. QED
          BY <1>3, <2>2, <4>1
      <3>2. QED
        BY <3>1
    <2>4. ~(e < d)
      <3>1. ASSUME e < d PROVE FALSE
        <4>1. e \in 1..d - 1
          BY <2>1, <3>1
        <4>2. QED
          BY <1>3, <2>2, <4>1
      <3>2. QED
        BY <3>1
    <2>5. QED
      BY <2>1, <2>3, <2>4
  <1>5. IsFiniteSet(entries) /\ Cardinality(entries) <= n /\ Cardinality(entries) \in Nat
    <2>1. IsFiniteSet(1..n) /\ Cardinality(1..n) = IF 1 > n THEN 0 ELSE n - 1 + 1
      BY FS_Interval
    <2>2. Cardinality(1..n) = n
      BY <2>1
    <2>3. IsFiniteSet(entries) /\ Cardinality(entries) <= Cardinality(1..n)
      BY <1>3, <2>1, FS_Subset
    <2>4. QED
      BY <2>2, <2>3, FS_CardinalityType
  <1>6. PICK c \in 0..n : c = Cardinality(entries)
    BY <1>5
  <1> DEFINE keys == [e \in entries |-> key(e)]
  <1>7. keys \in [entries -> Nat] /\ \A e \in entries : keys[e] = key(e)
    <2>1. \A e \in entries : key(e) \in Nat
      BY <1>2, <1>3
    <2> HIDE DEF key
    <2>2. QED
      BY <2>1
  <1> HIDE DEF key, keys
  <1>8. ASSUME NEW e \in entries PROVE Cardinality(below(e)) = RankIn(entries, keys, e)
    <2>1. below(e) = {f \in entries : keys[f] < keys[e]}
      BY <1>7
    <2> HIDE DEF below
    <2>2. QED
      BY <2>1 DEF RankIn
  <1> HIDE DEF below
  <1>9. ASSUME NEW i \in 1..c
        PROVE  nth(i) \in entries /\ RankIn(entries, keys, nth(i)) = i - 1 /\ nth(i) \in 1..n
    <2>1. \A d, e \in entries : keys[d] = keys[e] => d = e
      BY <1>4, <1>7
    <2>2. \E e \in entries : RankIn(entries, keys, e) = i - 1
      BY <1>5, <1>6, <1>7, <2>1, RankTaken
    <2>3. \E e \in entries : Cardinality(below(e)) = i - 1
      BY <1>8, <2>2
    <2>4. nth(i) \in entries /\ Cardinality(below(nth(i))) = i - 1
      BY <2>3
    <2> HIDE DEF nth
    <2>5. QED
      BY <1>3, <1>8, <2>4
  <1> HIDE DEF nth
  <1>10. ASSUME NEW k \in 1..width * c PROVE at(k) \in 1..Len(v)
    <2>1. (k - 1) \div width + 1 \in 1..c /\ (k - 1) % width \in 0..width - 1
      BY EntryPlaces
    <2>2. nth((k - 1) \div width + 1) \in 1..n
      BY <1>9, <2>1
    <2>3. QED
      BY <2>1, <2>2, EntryPlaces
  <1> DEFINE w == [k \in 1..width * c |-> v[at(k)]]
  <1>11. Emplaced(r, width) = [r EXCEPT !.v = [k \in 1..width * Cardinality(entries) |-> r.v[at(k)]]]
    BY <1>1 DEF Emplaced, entries, key, below, nth
  <1>12. Emplaced(r, width) = [pos |-> pos, errno |-> SUCCESS, v |-> w]
    <2>1. [k \in 1..width * Cardinality(entries) |-> r.v[at(k)]] = w
      <3> HIDE DEF at
      <3>1. QED
        BY <1>1, <1>6
    <2> HIDE DEF w
    <2>2. [r EXCEPT !.v = w] = [pos |-> pos, errno |-> SUCCESS, v |-> w]
      OBVIOUS
    <2>3. QED
      BY <1>11, <2>1, <2>2, Zenon
  <1>13. width * c \in Nat /\ (width * c) \div width = c
    BY EntryPlaces
  <1>14. w \in Seq(Seq(Foreigner)) /\ Len(w) = width * c /\ \A k \in 1..Len(w) : Len(w[k]) = size
    <2>1. ASSUME NEW k \in 1..width * c PROVE v[at(k)] \in Seq(Foreigner) /\ Len(v[at(k)]) = size
      <3> HIDE DEF at
      <3>1. QED
        BY <1>10, ElementOfSeq
    <2> HIDE DEF at
    <2>2. QED
      BY <1>13, <2>1
  <1>15. ASSUME NEW j \in 1..c PROVE Key(KeyAt(w, width, j)) = keys[nth(j)]
    <2>1. PICK k \in 1..width * c : k = (j - 1) * width + 1 /\ (k - 1) \div width = j - 1 /\ (k - 1) % width = 0
      <3>1. c \in Nat
        OBVIOUS
      <3> HIDE DEF at, w
      <3>2. \A m \in Nat : \A i \in 1..m :
               \E k \in 1..width * m : /\ k = (i - 1) * width + 1
                                       /\ (k - 1) \div width = i - 1 /\ (k - 1) % width = 0
        BY EntryStarts, Zenon
      <3>3. QED
        BY <3>1, <3>2, Zenon
    <2>2. at(k) = (nth(j) - 1) * width + 1
      <3>1. (k - 1) \div width + 1 = j /\ nth(j) \in 1..n
        BY <1>9, <2>1
      <3>2. (nth(j) - 1) * width + 0 + 1 = (nth(j) - 1) * width + 1
        <4>1. (nth(j) - 1) * width \in Nat
          BY <3>1
        <4>2. QED
          BY <4>1
      <3>3. QED
        BY <2>1, <3>1, <3>2
    <2>3. w[k] = v[at(k)]
      OBVIOUS
    <2> HIDE DEF at, w
    <2>4. KeyAt(w, width, j) = KeyAt(v, width, nth(j))
      BY <2>1, <2>2, <2>3 DEF KeyAt
    <2>5. QED
      BY <1>1, <1>7, <1>9, <2>4 DEF key
  <1> HIDE DEF w
  <1>16. ASSUME NEW i \in 1..c, NEW j \in 1..c, i < j PROVE Key(KeyAt(w, width, i)) < Key(KeyAt(w, width, j))
    <2>1. RankIn(entries, keys, nth(i)) < RankIn(entries, keys, nth(j))
      <3>1. i - 1 < j - 1
        BY <1>16
      <3>2. QED
        BY <1>9, <3>1
    <2>2. keys[nth(i)] < keys[nth(j)]
      BY <1>5, <1>7, <1>9, <2>1, RankGrows
    <2>3. QED
      BY <1>15, <2>2
  <1>17. Ascending(w, width)
    BY <1>13, <1>14, <1>16 DEF Ascending
  <1>18. QED
    BY <1>6, <1>12, <1>14, <1>17 DEF InOrder

-----------------------------------------------------------------------------
(* Values that nobody wrote.                                               *)

\* The bytes a value took.
LEMMA StretchOfBytes ==
  ASSUME bytes \in Seq(Foreigner), room = Len(bytes), NEW at \in Nat, NEW l \in Nat, at + l <= room
  PROVE  /\ SubSeq(bytes, at + 1, at + l) \in Seq(Nat) /\ Len(SubSeq(bytes, at + 1, at + l)) = l
         /\ \A k \in 1..l : SubSeq(bytes, at + 1, at + l)[k] = bytes[at + k]
  <1> DEFINE s == SubSeq(bytes, at + 1, at + l)
  <1>1. room \in Nat /\ Foreigner \subseteq Nat
    BY SizesType DEF Foreigner
  <1>2. ASSUME NEW i \in at + 1..at + l PROVE bytes[i] \in Nat
    <2>1. i \in 1..Len(bytes)
      BY <1>1
    <2>2. bytes[i] \in Foreigner
      BY <2>1, ElementOfSeq
    <2>3. QED
      BY <1>1, <2>2
  <1>3. /\ s \in Seq(Nat)
        /\ Len(s) = IF at + 1 <= at + l THEN at + l - (at + 1) + 1 ELSE 0
        /\ \A i \in 1..at + l - (at + 1) + 1 : s[i] = bytes[at + 1 + i - 1]
    <2>1. at + 1 \in Int /\ at + l \in Int
      OBVIOUS
    <2>2. QED
      BY <1>2, <2>1, SubSeqProperties
  <1> HIDE DEF s
  <1>4. at + l - (at + 1) + 1 = l /\ (at + 1 <= at + l <=> l # 0) /\ \A i \in 1..l : at + 1 + i - 1 = at + i
    OBVIOUS
  <1>5. QED
    BY <1>3, <1>4 DEF s

\* Sums of less are no more.
LEMMA NoLess ==
  ASSUME NEW d \in Nat, NEW e \in Nat, NEW l \in Nat, NEW c \in Nat, NEW t \in Nat, d <= e, e <= l, c <= t
  PROVE  d + c <= l + t
  OBVIOUS

\* Of what was read after a count n, up to t bytes behind it, a writer writes m and v, in no
\* more bytes, and in the same if it is all and as long and n is as it was.
NoLonger(at, end, n, t, m, v) ==
    LET own == FlattenSeq(VarUInt(m) \o v)
        eaten == SubSeq(bytes, at + 1, end + t)
    IN  /\ Len(own) <= Len(eaten)
        /\ /\ m = n /\ Joined(at, end) < Word /\ Len(FlattenSeq(v)) = t /\ \A k \in 1..t : FlattenSeq(v)[k] = bytes[end + k]
           /\ Len(own) = Len(eaten)
           => own = eaten

\* What is accepted after a count n, as a writer writes it: m of the n elements, in l of
\* the t bytes that were read.
LEMMA CountedAccepted ==
  ASSUME bytes \in Seq(Foreigner), room = Len(bytes), NEW at \in Nat, NEW n \in Nat, NEW end \in at + 1..room,
         CountStands(at, n, end),
         NEW v \in Seq(Seq(Foreigner)), NEW m \in 0..n, NEW t \in Nat, end + t <= room,
         Len(FlattenSeq(v)) <= t
  PROVE  NoLonger(at, end, n, t, m, v)
  <1> DEFINE number == FlattenSeq(VarUInt(m))
             contents == FlattenSeq(v)
             own == FlattenSeq(VarUInt(m) \o v)
             eaten == SubSeq(bytes, at + 1, end + t)
  <1>1. v \in Seq(Seq(Nat)) /\ contents \in Seq(Nat)
    <2>1. Foreigner \subseteq Nat
      BY SizesType DEF Foreigner
    <2>2. Seq(Seq(Foreigner)) \subseteq Seq(Seq(Nat))
      BY <2>1, SeqGrows
    <2>3. QED
      BY <2>2, FlattenType
  <1>2. m \in Nat /\ m <= n
    OBVIOUS
  <1>3. own = number \o contents
    BY <1>1, <1>2, VarUIntBytes, FlattenConcat
  <1>4. /\ number \in Seq(Nat) /\ Len(number) = Digits(m)
        /\ \A k \in 1..Digits(m) : number[k] = VarUInt(m)[k][1]
    BY <1>2, NumberCode
  <1>5. Digits(m) \in Nat /\ Digits(n) \in Nat /\ Digits(m) <= Digits(n)
    BY <1>2, DigitsGrow, DigitsType
  <1>6. PICK l \in Nat : l = end - at /\ end = at + l /\ at + (l + t) <= room /\ end + t = at + (l + t)
    OBVIOUS
  <1>7. /\ eaten \in Seq(Nat) /\ Len(eaten) = l + t
        /\ \A k \in 1..l + t : eaten[k] = bytes[at + k]
    <2>1. l + t \in Nat
      OBVIOUS
    <2>2. eaten = SubSeq(bytes, at + 1, at + (l + t))
      BY <1>6
    <2> HIDE DEF eaten
    <2>3. /\ SubSeq(bytes, at + 1, at + (l + t)) \in Seq(Nat) /\ Len(SubSeq(bytes, at + 1, at + (l + t))) = l + t
          /\ \A k \in 1..l + t : SubSeq(bytes, at + 1, at + (l + t))[k] = bytes[at + k]
      BY <1>6, <2>1, StretchOfBytes
    <2>4. QED
      BY <2>2, <2>3
  <1> HIDE DEF number, contents, own, eaten
  <1>8. /\ own \in Seq(Nat) /\ Len(own) = Digits(m) + Len(contents)
        /\ \A k \in 1..Digits(m) + Len(contents) :
              own[k] = IF k <= Digits(m) THEN number[k] ELSE contents[k - Digits(m)]
    <2>1. /\ number \o contents \in Seq(Nat) /\ Len(number \o contents) = Len(number) + Len(contents)
          /\ \A k \in 1..Len(number) + Len(contents) :
                (number \o contents)[k] = IF k <= Len(number) THEN number[k] ELSE contents[k - Len(number)]
      BY <1>1, <1>4, ConcatProperties
    <2>2. Len(number) = Digits(m)
      BY <1>4
    <2>3. QED
      BY <1>3, <2>1, <2>2
  <1>9. Len(contents) \in Nat /\ Len(contents) <= t
    BY <1>1 DEF contents
  <1>10. Len(own) <= Len(eaten)
    <2>1. Digits(n) <= l
      BY <1>6 DEF CountStands
    <2>2. PICK d \in Nat, e \in Nat : d = Digits(m) /\ e = Digits(n) /\ d <= e
      BY <1>5
    <2>3. PICK c \in Nat : c = Len(contents) /\ c <= t
      BY <1>9
    <2>4. Len(own) = d + c
      BY <1>8, <2>2, <2>3
    <2>5. Len(eaten) = l + t
      BY <1>7
    <2>6. d + c <= l + t
      <3>1. d <= e /\ e <= l /\ c <= t
        BY <2>1, <2>2, <2>3
      <3>2. QED
        BY <3>1, NoLess
    <2>7. QED
      BY <2>4, <2>5, <2>6
  <1>11. ASSUME m = n, Joined(at, end) < Word, Len(contents) = t, \A k \in 1..t : contents[k] = bytes[end + k],
                Len(own) = Len(eaten)
         PROVE  own = eaten
    <2>1. Digits(n) = l
      <3>1. PICK d \in Nat : d = Digits(n)
        BY <1>5
      <3>2. d + t = l + t
        BY <1>7, <1>8, <1>11, <3>1
      <3>3. QED
        BY <3>1, <3>2
    <2>2. \A k \in 1..l : bytes[at + k] = VarUInt(n)[k][1]
      BY <1>6, <1>11, <2>1 DEF CountStands
    <2>3. ASSUME NEW k \in 1..l + t PROVE own[k] = eaten[k]
      <3>1. CASE k <= l
        <4>1. k \in 1..l
          BY <3>1
        <4>2. own[k] = number[k]
          BY <1>8, <1>11, <2>1, <4>1
        <4>3. number[k] = VarUInt(n)[k][1]
          <5>1. k \in 1..Digits(m)
            BY <1>11, <2>1, <4>1
          <5>2. QED
            BY <1>4, <1>11, <5>1
        <4>4. eaten[k] = bytes[at + k]
          BY <1>7
        <4>5. QED
          BY <2>2, <4>1, <4>2, <4>3, <4>4
      <3>2. CASE ~(k <= l)
        <4>1. PICK j \in 1..t : j = k - l /\ at + k = end + j
          <5>1. k - l \in 1..t /\ at + k = end + (k - l)
            BY <1>6, <3>2
          <5>2. QED
            BY <5>1
        <4>2. own[k] = contents[j]
          BY <1>8, <1>11, <2>1, <3>2, <4>1
        <4>3. QED
          BY <1>7, <1>11, <4>1, <4>2
      <3>3. QED
        BY <3>1, <3>2
    <2>4. QED
      BY <1>7, <1>8, <1>11, <2>3, SeqEqual
  <1>12. QED
    BY <1>10, <1>11 DEF own, eaten, contents, NoLonger

\* Of an expected x, v was read up to end: what AcceptsValue says of them.
AcceptedAs(x, v, end) ==
    LET y == [x EXCEPT !.v = v]
        eaten == SubSeq(bytes, pos_ + 1, end)
        own == FlattenSeq(Chunks(y))
        width == IF x.type = "map" THEN 2 ELSE 1
    IN  \/ x.type \in {"string", "vector<char>"} /\ end = End(pos_)
        \/ /\ x.type \notin Single \cup {"VarUInt"} => Takes(x.type, Count(y), Count(x))
           /\ x.type \in {"set", "map"} => Ascending(y.v, width)
           /\ Len(own) <= Len(eaten)
           /\ Len(own) = Len(eaten) /\ x.type \notin {"bool", "set", "map"}
                /\ (x.type \in Single \/ Joined(pos_, End(pos_)) < Word) => own = eaten

\* Single values are their bytes, and any byte is a bool.
LEMMA SingleAccepted ==
  ASSUME bytes \in Seq(Foreigner), room = Len(bytes), pos_ \in 0..room, errno_ = SUCCESS,
         NEW x \in Items, x.type \in Single, NEW old, NEW c \in CountRead(pos_), Unpacked(x, old, c).errno = SUCCESS
  PROVE  AcceptedAs(x, Unpacked(x, old, c).v, Unpacked(x, old, c).pos)
  <1> DEFINE size == IF x.type = "primitive" THEN ElementSize ELSE 1
             r == Unpacked(x, old, c)
             e == Elements(pos_, 1, size, SUCCESS)
  <1>1. size \in Nat /\ size > 0 /\ pos_ \in Nat /\ pos_ <= room
    BY SizesType
  <1>2. r = IF x.type = "bool" THEN Truth(e) ELSE e
    BY UnpackedAre DEF Single
  <1> HIDE DEF size
  <1>3. e.errno = SUCCESS
    <2>1. CASE x.type = "bool"
      <3>1. Truth(e).errno = e.errno
        BY DEF Truth, Elements
      <3>2. QED
        BY <1>2, <2>1, <3>1
    <2>2. CASE x.type # "bool"
      BY <1>2, <2>2
    <2>3. QED
      BY <2>1, <2>2
  <1>4. PICK v \in Seq(Seq(Foreigner)) :
            /\ e = [pos |-> pos_ + 1 * size, errno |-> SUCCESS, v |-> v]
            /\ Len(v) = 1 /\ (\A k \in 1..1 : Len(v[k]) = size)
            /\ pos_ + 1 * size <= room /\ Len(FlattenSeq(v)) = 1 * size
            /\ \A k \in 1..1 * size : FlattenSeq(v)[k] = bytes[pos_ + k]
    <2>1. 1 \in Nat
      OBVIOUS
    <2> HIDE DEF e
    <2>2. QED
      BY <1>1, <1>3, <2>1, ElementsAccepted DEF e
  <1> HIDE DEF e
  <1>5. r.pos = pos_ + size
    BY <1>1, <1>2, <1>4 DEF Truth
  <1>6. 1 * size = size
    BY <1>1
  <1> DEFINE eaten == SubSeq(bytes, pos_ + 1, pos_ + size)
             y == [x EXCEPT !.v = r.v]
             own == FlattenSeq(Chunks(y))
  <1>7. /\ eaten \in Seq(Nat) /\ Len(eaten) = size
        /\ \A k \in 1..size : eaten[k] = bytes[pos_ + k]
    BY <1>1, <1>4, <1>6, StretchOfBytes
  <1>8. Chunks(y) = r.v
    <2>1. x = [type |-> x.type, v |-> x.v]
      BY ItemTypes
    <2> HIDE DEF r
    <2>2. y.type = x.type /\ y.v = r.v
      BY <2>1
    <2>3. QED
      BY <2>2 DEF Chunks
  <1>9. CASE x.type = "bool"
    <2>1. PICK t \in {0, 1} : r.v = <<<<t>>>>
      <3>1. r.v = [k \in 1..1 |-> <<IF v[k][1] = 0 THEN 0 ELSE 1>>]
        BY <1>2, <1>4, <1>9 DEF Truth
      <3>2. r.v = <<<<IF v[1][1] = 0 THEN 0 ELSE 1>>>>
        BY <3>1
      <3>3. QED
        BY <3>2
    <2>2. own = <<t>>
      <3>1. FlattenSeq(<<<<t>>>>) = <<t>>
        <4>1. <<t>> \in Seq({0, 1})
          OBVIOUS
        <4>2. QED
          BY <4>1, FlattenSingle
      <3> HIDE DEF r, y
      <3>2. QED
        BY <1>8, <2>1, <3>1
    <2>3. Len(own) <= Len(eaten)
      <3> HIDE DEF own, eaten
      <3>1. QED
        BY <1>1, <1>7, <2>2
    <2> HIDE DEF eaten, own, y, r
    <2>4. QED
      BY <1>5, <1>9, <2>3 DEF AcceptedAs, Single, eaten, own, y, r
  <1>10. CASE x.type # "bool"
    <2>1. r.v = v
      BY <1>2, <1>4, <1>10
    <2>2. own = FlattenSeq(v)
      <3> HIDE DEF y, r
      <3>1. QED
        BY <1>8, <2>1
    <2>3. own \in Seq(Nat)
      <3>1. Foreigner \subseteq Nat
        BY SizesType DEF Foreigner
      <3>2. v \in Seq(Seq(Nat))
        BY <3>1, SeqGrows
      <3> HIDE DEF own
      <3>3. QED
        BY <2>2, <3>2, FlattenType
    <2>4. own = eaten
      <3>1. Len(own) = size /\ \A k \in 1..size : own[k] = bytes[pos_ + k]
        BY <1>4, <1>6, <2>2
      <3> HIDE DEF own, eaten
      <3>2. Len(own) = Len(eaten) /\ \A k \in 1..Len(own) : own[k] = eaten[k]
        BY <1>7, <3>1
      <3>3. QED
        BY <1>7, <2>3, <3>2, SeqEqual
    <2>5. Len(own) <= Len(eaten)
      <3> HIDE DEF own, eaten
      <3>1. QED
        BY <1>1, <1>7, <2>4
    <2> HIDE DEF eaten, own, y, r
    <2>6. QED
      BY <1>5, <1>10, <2>4, <2>5 DEF AcceptedAs, Single, eaten, own, y, r
  <1>11. QED
    BY <1>9, <1>10

\* So is a number, in as many bytes as it takes at least.
LEMMA NumberAccepted ==
  ASSUME bytes \in Seq(Foreigner), room = Len(bytes), pos_ \in 0..room, errno_ = SUCCESS,
         NEW x \in Items, x.type = "VarUInt", NEW old, NEW c \in CountRead(pos_), Unpacked(x, old, c).errno = SUCCESS
  PROVE  AcceptedAs(x, Unpacked(x, old, c).v, Unpacked(x, old, c).pos)
  <1> DEFINE r == Unpacked(x, old, c)
  <1>1. r = [pos |-> c.pos, errno |-> c.errno, v |-> <<<<c.n>>>>]
    BY UnpackedAre
  <1>2. pos_ \in Nat /\ c.errno = SUCCESS
    <2>1. c.errno = SUCCESS
      <3>1. QED
        BY <1>1
    <2>2. QED
      BY <2>1
  <1> HIDE DEF r
  <1>3. PICK n \in Nat, end \in pos_ + 1..room :
            /\ c = [pos |-> end, errno |-> errno_, n |-> n] /\ end = End(pos_)
            /\ CountStands(pos_, n, end)
    BY <1>2, CountAccepted
  <1> DEFINE y == [x EXCEPT !.v = r.v]
             own == FlattenSeq(Chunks(y))
             none == <<>>
  <1>0. PICK t \in Nat : t = 0
    OBVIOUS
  <1> DEFINE eaten == SubSeq(bytes, pos_ + 1, end + t)
  <1>4. r.pos = end /\ r.v = <<<<n>>>> /\ end + t = end
    BY <1>0, <1>1, <1>3
  <1>5. Chunks(y) = VarUInt(n)
    <2>1. x = [type |-> x.type, v |-> x.v]
      BY ItemTypes
    <2>2. y.type = x.type /\ y.v = <<<<n>>>>
      BY <1>4, <2>1
    <2> HIDE DEF y
    <2>3. QED
      BY <2>2 DEF Chunks, Single
  <1>6. VarUInt(n) \o none = VarUInt(n)
    BY VarUIntBytes, ConcatEmptySeq
  <1>7. none \in Seq(Seq(Foreigner)) /\ FlattenSeq(none) = <<>> /\ Len(FlattenSeq(none)) = t
    BY <1>0, FlattenEmpty
  <1>8. NoLonger(pos_, end, n, t, n, none)
    <2>1. n \in 0..n /\ end + t <= room /\ Len(FlattenSeq(none)) <= t
      BY <1>0, <1>7
    <2> HIDE DEF none
    <2>2. QED
      BY <1>2, <1>3, <1>7, <2>1, CountedAccepted
  <1>9. Len(own) <= Len(eaten) /\ (Len(own) = Len(eaten) /\ Joined(pos_, end) < Word => own = eaten)
    <2>1. \A k \in 1..t : FlattenSeq(none)[k] = bytes[end + k]
      BY <1>0
    <2> HIDE DEF y, none, eaten
    <2>2. QED
      BY <1>5, <1>6, <1>7, <1>8, <2>1 DEF NoLonger, eaten
  <1>10. eaten = SubSeq(bytes, pos_ + 1, r.pos)
    BY <1>4
  <1> HIDE DEF own, eaten
  <1>11. QED
    BY <1>3, <1>9, <1>10 DEF AcceptedAs, own, r, Single

\* A value with its count is accepted as one that a writer writes with a count of m.
LEMMA ContentsAccepted ==
  ASSUME bytes \in Seq(Foreigner), room = Len(bytes), pos_ \in Nat, NEW x \in Items, Counted(x),
         NEW n \in Nat, NEW end \in pos_ + 1..room, end = End(pos_), CountStands(pos_, n, end),
         NEW v \in Seq(Seq(Foreigner)), NEW m \in 0..n, NEW t \in Nat, end + t <= room,
         Len(FlattenSeq(v)) <= t, m = Count([x EXCEPT !.v = v]), Takes(x.type, m, Count(x)),
         x.type \in {"set", "map"} => Ascending(v, IF x.type = "map" THEN 2 ELSE 1),
         x.type \notin {"set", "map"} =>
            m = n /\ Len(FlattenSeq(v)) = t /\ \A k \in 1..t : FlattenSeq(v)[k] = bytes[end + k]
  PROVE  AcceptedAs(x, v, end + t)
  <1> DEFINE y == [x EXCEPT !.v = v]
             own == FlattenSeq(Chunks(y))
             eaten == SubSeq(bytes, pos_ + 1, end + t)
  <1>1. NoLonger(pos_, end, n, t, m, v)
    BY CountedAccepted
  <1>2. x = [type |-> x.type, v |-> x.v]
    BY ItemTypes
  <1>3. y.type = x.type /\ y.v = v
    BY <1>2
  <1> HIDE DEF y
  <1>4. Chunks(y) = VarUInt(m) \o v
    BY <1>3 DEF Chunks, Counted, y
  <1>5. Len(own) <= Len(eaten) /\ (x.type \notin {"set", "map"} /\ Len(own) = Len(eaten)
                                     /\ Joined(pos_, End(pos_)) < Word => own = eaten)
    <2> HIDE DEF eaten
    <2>1. QED
      BY <1>1, <1>4 DEF NoLonger, eaten
  <1> HIDE DEF own, eaten
  <1>6. Takes(x.type, Count(y), Count(x))
    BY DEF y
  <1>7. QED
    BY <1>3, <1>5, <1>6 DEF AcceptedAs, Counted, own, eaten, y

\* The bytes of elements of one size.
LEMMA UniformLength ==
  ASSUME NEW v \in Seq(Seq(Foreigner)), NEW size \in Nat, \A k \in 1..Len(v) : Len(v[k]) = size
  PROVE  Len(FlattenSeq(v)) = Len(v) * size
  BY FlattenUniform DEF EvenRuns

\* A text is accepted as its characters.
LEMMA TextAccepted ==
  ASSUME bytes \in Seq(Foreigner), room = Len(bytes), pos_ \in Nat, NEW x \in Items, x.type \in Texts,
         NEW n \in Nat, NEW end \in pos_ + 1..room, end = End(pos_), CountStands(pos_, n, end),
         NEW v \in Seq(Seq(Foreigner)), end + n <= room, Takes(x.type, n, Count(x)),
         Len(FlattenSeq(v)) = n, \A k \in 1..n : FlattenSeq(v)[k] = bytes[end + k]
  PROVE  AcceptedAs(x, v, end + n)
  <1>1. x = [type |-> x.type, v |-> x.v]
    BY ItemTypes
  <1> DEFINE y == [x EXCEPT !.v = v]
  <1>2. y.type = x.type /\ y.v = v
    BY <1>1
  <1> HIDE DEF y
  <1>3. Count(y) = Len(FlattenSeq(y.v))
    BY <1>2 DEF Count, Texts
  <1>4. n = Count([x EXCEPT !.v = v])
    BY <1>2, <1>3 DEF y
  <1>5. x.type \notin {"set", "map"} /\ Counted(x)
    BY DEF Texts, Counted, Single
  <1>6. n \in 0..n /\ Len(FlattenSeq(v)) <= n
    OBVIOUS
  <1>7. PICK m \in 0..n, t \in Nat : m = n /\ t = n
    OBVIOUS
  <1>8. /\ Len(FlattenSeq(v)) <= t /\ end + t <= room
        /\ Len(FlattenSeq(v)) = t /\ \A k \in 1..t : FlattenSeq(v)[k] = bytes[end + k]
    BY <1>7
  <1>9. Takes(x.type, m, Count(x)) /\ m = Count([x EXCEPT !.v = v])
    BY <1>4, <1>7
  <1>90. x.type \in {"set", "map"} => Ascending(v, IF x.type = "map" THEN 2 ELSE 1)
    BY <1>5
  <1>91. x.type \notin {"set", "map"} =>
            m = n /\ Len(FlattenSeq(v)) = t /\ \A k \in 1..t : FlattenSeq(v)[k] = bytes[end + k]
    BY <1>7, <1>8
  <1>10. AcceptedAs(x, v, end + t)
    BY <1>5, <1>8, <1>9, <1>90, <1>91, ContentsAccepted, Zenon
  <1>11. QED
    BY <1>7, <1>10

\* A value with its count is accepted if a writer could have written it.
LEMMA CountedIsAccepted ==
  ASSUME bytes \in Seq(Foreigner), room = Len(bytes), pos_ \in 0..room, errno_ = SUCCESS,
         NEW x \in Items, Counted(x), NEW old, NEW c \in CountRead(pos_), Unpacked(x, old, c).errno = SUCCESS
  PROVE  AcceptedAs(x, Unpacked(x, old, c).v, Unpacked(x, old, c).pos)
  <1> DEFINE r == Unpacked(x, old, c)
  <1>1. pos_ \in Nat /\ c.errno = SUCCESS
    <2>1. x.type \notin Single
      BY DEF Counted
    <2>2. QED
      BY <2>1, UnpackedFailed
  <1>2. PICK n \in Nat, end \in pos_ + 1..room :
            /\ c = [pos |-> end, errno |-> SUCCESS, n |-> n] /\ end = End(pos_)
            /\ CountStands(pos_, n, end)
    BY <1>1, CountAccepted
  <1>3. Takes(x.type, n, Count(x)) /\ r = Contents(x.type, c, old)
    <2>1. r = IF Takes(x.type, c.n, Count(x)) THEN Contents(x.type, c, old)
              ELSE [pos |-> c.pos, errno |-> TRAP_OUT_OF_CAPACITY, v |-> Lost]
      BY UnpackedAre
    <2>2. c.n = n
      BY <1>2
    <2> HIDE DEF r
    <2>3. ASSUME ~Takes(x.type, n, Count(x)) PROVE FALSE
      <3>1. r.errno = TRAP_OUT_OF_CAPACITY
        BY <2>1, <2>2, <2>3
      <3>2. QED
        BY <3>1 DEF r, TRAP_OUT_OF_CAPACITY, SUCCESS
    <2>4. QED
      BY <2>1, <2>2, <2>3
  <1>4. room \in Nat /\ end \in Nat /\ end <= room /\ r.errno = SUCCESS
    BY <1>1
  <1>5. c.n = n /\ c.pos = end /\ c.errno = SUCCESS
    BY <1>2
  <1>6. x = [type |-> x.type, v |-> x.v] /\ x.type \in Types
    BY ItemTypes
  <1>7. \A w : [x EXCEPT !.v = w].type = x.type /\ [x EXCEPT !.v = w].v = w
    BY <1>6
  <1> HIDE DEF r
  <1>8. CASE x.type \in {"string", "vector<char>"} /\ n = 0
    <2>1. r.pos = end
      BY <1>3, <1>5, <1>8 DEF Contents
    <2>2. QED
      BY <1>2, <1>8, <2>1 DEF AcceptedAs, r
  <1>9. CASE x.type \in Texts /\ n > 0
    <2>1. r = Elements(end, 1, n, SUCCESS)
      BY <1>3, <1>5, <1>9 DEF Contents, Texts
    <2>2. PICK v \in Seq(Seq(Foreigner)) :
            /\ Elements(end, 1, n, SUCCESS) = [pos |-> end + 1 * n, errno |-> SUCCESS, v |-> v]
            /\ Len(v) = 1 /\ (\A k \in 1..1 : Len(v[k]) = n)
            /\ end + 1 * n <= room /\ Len(FlattenSeq(v)) = 1 * n
            /\ \A k \in 1..1 * n : FlattenSeq(v)[k] = bytes[end + k]
      <3>1. 1 \in Nat /\ Elements(end, 1, n, SUCCESS).errno = SUCCESS
        BY <1>4, <2>1
      <3>2. QED
        BY <1>4, <1>9, <3>1, ElementsAccepted
    <2>3. 1 * n = n /\ n \in 0..n
      OBVIOUS
    <2>16. Len(FlattenSeq(v)) = n /\ end + n <= room /\ \A k \in 1..n : FlattenSeq(v)[k] = bytes[end + k]
      BY <2>2, <2>3
    <2>5. AcceptedAs(x, v, end + n)
      <3>1. CountStands(pos_, n, end) /\ end = End(pos_) /\ pos_ \in Nat
        BY <1>1, <1>2
      <3>2. Takes(x.type, n, Count(x))
        BY <1>3
      <3>3. QED
        BY <2>16, <3>1, <3>2, <1>9, TextAccepted
    <2>6. r.v = v /\ r.pos = end + n
      BY <2>1, <2>2, <2>3
    <2>7. QED
      BY <2>5, <2>6 DEF r
  <1>10. CASE (x.type = "char[]" /\ n = 0) \/ x.type \in {"vector", "array", "T[]"}
    <2>1. r = Elements(end, n, ElementSize, SUCCESS)
      BY <1>3, <1>5, <1>10 DEF Contents, Texts
    <2>2. PICK v \in Seq(Seq(Foreigner)) :
            /\ Elements(end, n, ElementSize, SUCCESS) = [pos |-> end + n * ElementSize, errno |-> SUCCESS, v |-> v]
            /\ Len(v) = n /\ (\A k \in 1..n : Len(v[k]) = ElementSize)
            /\ end + n * ElementSize <= room /\ Len(FlattenSeq(v)) = n * ElementSize
            /\ \A k \in 1..n * ElementSize : FlattenSeq(v)[k] = bytes[end + k]
      <3>1. Elements(end, n, ElementSize, SUCCESS).errno = SUCCESS
        BY <1>4, <2>1
      <3>2. QED
        BY <1>4, <3>1, SizesType, ElementsAccepted
    <2>3. PICK t \in Nat : t = n * ElementSize
      BY SizesType
    <2>4. Count([x EXCEPT !.v = v]) = n
      <3>1. CASE x.type = "char[]"
        <4>1. n = 0 /\ n * ElementSize = 0
          BY <1>10, <3>1, SizesType
        <4>2. QED
          BY <1>7, <2>2, <3>1, <4>1 DEF Count, Texts
      <3>2. CASE x.type # "char[]"
        BY <1>7, <1>10, <2>2, <3>2 DEF Count, Texts
      <3>3. QED
        BY <3>1, <3>2
    <2>5. n \in 0..n /\ x.type \notin {"set", "map"}
      BY <1>10
    <2>6. AcceptedAs(x, v, end + t)
      BY <1>1, <1>2, <1>3, <2>2, <2>3, <2>4, <2>5, ContentsAccepted, SMTT(30)
    <2>7. r.v = v /\ r.pos = end + t
      BY <2>1, <2>2, <2>3
    <2>8. QED
      BY <2>6, <2>7 DEF r
  <1>11. CASE x.type \in {"set", "map"}
    <2>1. PICK width \in {1, 2} : width = IF x.type = "map" THEN 2 ELSE 1
      OBVIOUS
    <2>2. PICK l \in Nat : l = width * n
      BY <2>1
    <2>3. r = Emplaced(Elements(end, l, ElementSize, SUCCESS), width)
      <3>1. 1 * n = n
        OBVIOUS
      <3>2. QED
        BY <1>3, <1>5, <1>11, <2>1, <2>2, <3>1 DEF Contents, Texts
    <2>4. Elements(end, l, ElementSize, SUCCESS).errno = SUCCESS
      BY <1>4, <2>3, EmplacedFailed
    <2>5. PICK v \in Seq(Seq(Foreigner)) :
            /\ Elements(end, l, ElementSize, SUCCESS) = [pos |-> end + l * ElementSize, errno |-> SUCCESS, v |-> v]
            /\ Len(v) = l /\ (\A k \in 1..l : Len(v[k]) = ElementSize)
            /\ end + l * ElementSize <= room
      BY <1>4, <2>4, SizesType, ElementsAccepted
    <2>6. PICK t \in Nat : t = l * ElementSize
      BY SizesType
    <2>7. PICK m \in 0..n, w \in Seq(Seq(Foreigner)) :
            /\ r = [pos |-> end + t, errno |-> SUCCESS, v |-> w]
            /\ Len(w) = width * m /\ (\A k \in 1..Len(w) : Len(w[k]) = ElementSize)
            /\ Ascending(w, width)
      <3> DEFINE e == Elements(end, l, ElementSize, SUCCESS)
      <3>1. e = [pos |-> end + t, errno |-> SUCCESS, v |-> v]
        BY <2>5, <2>6
      <3>2. Len(v) = width * n /\ (\A k \in 1..Len(v) : Len(v[k]) = ElementSize)
        BY <2>2, <2>5
      <3> HIDE DEF e
      <3>3. r = Emplaced(e, width)
        BY <2>3 DEF e
      <3>4. PICK at \in Nat : at = end + t
        BY <1>4
      <3>5. e = [pos |-> at, errno |-> SUCCESS, v |-> v]
        BY <3>1, <3>4
      <3>6. InOrder(Emplaced(e, width), at, width, n, ElementSize)
        BY <3>2, <3>5, SizesType, EmplacedAscends
      <3>7. QED
        BY <3>3, <3>4, <3>6 DEF InOrder
    <2>8. (width * m) \div width = m /\ width * m \in Nat
      <3>1. m \in Nat
        OBVIOUS
      <3>2. QED
        BY <3>1, EntryPlaces
    <2>9. Count([x EXCEPT !.v = w]) = m
      <3>1. CASE x.type = "set"
        <4>1. width = 1 /\ 1 * m = m
          BY <2>1, <3>1
        <4>2. QED
          BY <1>7, <2>7, <3>1, <4>1 DEF Count, Texts
      <3>2. CASE x.type = "map"
        BY <1>7, <2>1, <2>7, <2>8, <3>2 DEF Count, Texts
      <3>3. QED
        BY <1>11, <3>1, <3>2
    <2>10. Len(FlattenSeq(w)) <= t
      <3>1. Len(FlattenSeq(w)) = (width * m) * ElementSize
        <4>1. Len(FlattenSeq(w)) = Len(w) * ElementSize
          BY <2>7, SizesType, UniformLength
        <4>2. QED
          BY <2>7, <4>1
      <3>2. width * m <= l
        <4>1. width = 1 => width * m <= width * n
          OBVIOUS
        <4>2. width = 2 => width * m <= width * n
          OBVIOUS
        <4>3. QED
          BY <2>2, <4>1, <4>2
      <3>3. (width * m) * ElementSize <= l * ElementSize
        BY <2>8, <3>2, SizesType, Multiples
      <3>4. QED
        BY <2>6, <3>1, <3>3
    <2>11. Takes(x.type, m, Count(x))
      <3>1. n <= kMaxElementNum /\ m <= n
        BY <1>3, <1>11 DEF Takes
      <3>2. m <= kMaxElementNum
        BY <3>1, SizesType
      <3>3. QED
        BY <1>11, <3>2 DEF Takes
    <2>12. end + t <= room /\ Ascending(w, IF x.type = "map" THEN 2 ELSE 1)
      BY <2>1, <2>5, <2>6, <2>7
    <2>13. AcceptedAs(x, w, end + t)
      BY <1>1, <1>2, <1>11, <2>9, <2>10, <2>11, <2>12, ContentsAccepted
    <2>14. r.v = w /\ r.pos = end + t
      BY <2>7
    <2>15. QED
      BY <2>13, <2>14 DEF r
  <1>12. x.type \in {"string", "vector<char>", "char[]", "vector", "array", "T[]", "set", "map"}
    BY <1>6 DEF Counted, Single, Types
  <1>13. n = 0 \/ n > 0
    OBVIOUS
  <1>14. QED
    BY <1>8, <1>9, <1>10, <1>11, <1>12, <1>13 DEF Texts

-----------------------------------------------------------------------------
(* The reader of bytes from elsewhere.                                     *)

\* So for every type.
LEMMA UnpackedAccepted ==
  ASSUME bytes \in Seq(Foreigner), room = Len(bytes), pos_ \in 0..room,
         NEW x \in Items, NEW old, NEW c \in CountRead(pos_), Unpacked(x, old, c).errno = SUCCESS
  PROVE  AcceptedAs(x, Unpacked(x, old, c).v, Unpacked(x, old, c).pos)
  <1>1. errno_ = SUCCESS
    BY ReadFailed
  <1>2. x.type \in Single \/ x.type = "VarUInt" \/ Counted(x)
    BY DEF Counted
  <1>3. QED
    BY <1>1, <1>2, SingleAccepted, NumberAccepted, CountedIsAccepted

\* A reader of bytes from elsewhere is before the value it expects, or behind it.
ForeignPart ==
    /\ stage = "new" => got = <<>> /\ starts = <<>> /\ pos_ = 0
    /\ stage = "foreign" =>
          /\ bytes \in Seq(Foreigner) /\ room = Len(bytes)
          /\ \E x \in Items : sent = <<x>>
          /\ \/ got = <<>> /\ starts = <<>> /\ pos_ = 0
             \/ \E v : got = <<v>> /\ starts = <<0>>

\* No step but Receive, Read and Seek touches it.
LEMMA ForeignKept ==
  ASSUME ForeignPart, [Next]_vars
  PROVE  ForeignPart'
  <1>1. CASE Open
    BY <1>1 DEF Open, ForeignPart
  <1>2. CASE Reopen
    BY <1>2 DEF Reopen, ForeignPart
  <1>3. CASE \E x \in Items : Write(x) \/ pack(x)
    BY <1>3 DEF Write, pack, ForeignPart
  <1>4. CASE Skip
    BY <1>4 DEF Skip, ForeignPart
  <1>5. CASE Receive
    <2>1. PICK b \in Foreign, x \in Items : bytes' = b /\ room' = Len(b) /\ sent' = <<x>>
      BY <1>5 DEF Receive
    <2>2. b \in Seq(Foreigner)
      BY ForeignAssumption DEF Foreigner
    <2>3. stage' = "foreign" /\ got' = <<>> /\ starts' = <<>> /\ pos_' = 0
      BY <1>5 DEF Receive, ForeignPart
    <2>4. \E i \in Items : sent' = <<i>>
      BY <2>1
    <2>5. QED
      BY <2>1, <2>2, <2>3, <2>4 DEF ForeignPart, Foreigner
  <1>6. CASE Read
    <2>1. CASE stage = "foreign"
      <3>1. PICK x \in Items : sent = <<x>>
        BY <2>1 DEF ForeignPart
      <3>2. ~(\E v : got = <<v>>)
        <4>1. Len(got) < Len(<<x>>)
          BY <1>6, <3>1 DEF Read
        <4>2. Len(<<x>>) = 1 /\ \A v : Len(<<v>>) = 1
          OBVIOUS
        <4>3. QED
          BY <4>1, <4>2
      <3>3. got = <<>> /\ starts = <<>> /\ pos_ = 0
        BY <2>1, <3>2 DEF ForeignPart
      <3>4. stage' = stage /\ room' = room /\ bytes' = bytes /\ sent' = sent
        BY <1>6 DEF Read
      <3>5. starts' = <<0>>
        BY <1>6, <3>3 DEF Read
      <3>6. \E v : got' = <<v>>
        <4>1. \E v : got' = Append(got, v)
          BY <1>6 DEF Read
        <4>2. QED
          BY <3>3, <4>1
      <3>7. QED
        BY <2>1, <3>4, <3>5, <3>6 DEF ForeignPart, Foreigner
    <2>2. CASE stage # "foreign"
      BY <1>6, <2>2 DEF Read, ForeignPart
    <2>3. QED
      BY <2>1, <2>2
  <1>7. CASE \E k \in DOMAIN starts : Seek(k)
    <2>1. PICK k \in DOMAIN starts : Seek(k)
      BY <1>7
    <2>2. CASE stage = "foreign"
      <3>1. (\E v : got = <<v>>) /\ starts = <<0>>
        BY <2>2 DEF ForeignPart
      <3>2. k = 1
        BY <3>1
      <3>3. got' = <<>> /\ starts' = <<>> /\ pos_' = 0
        BY <2>1, <3>1, <3>2 DEF Seek
      <3>4. stage' = stage /\ room' = room /\ bytes' = bytes /\ sent' = sent
        BY <2>1 DEF Seek
      <3>5. QED
        BY <2>2, <3>3, <3>4 DEF ForeignPart, Foreigner
    <2>3. CASE stage # "foreign"
      BY <2>1, <2>3 DEF Seek, ForeignPart
    <2>4. QED
      BY <2>2, <2>3
  <1>8. CASE UNCHANGED vars
    BY <1>8 DEF vars, ForeignPart, Foreigner
  <1>9. QED
    BY <1>1, <1>2, <1>3, <1>4, <1>5, <1>6, <1>7, <1>8 DEF Next

\* Of the bytes of elsewhere a reader accepts only a value that a writer could have
\* written in no more of them, and in those very bytes if its count is as short as it can
\* be and was not cut to a word: the readers of every type test what they must.
THEOREM OnlyValuesAreAccepted == Spec => AcceptsOnlyValues
  <1>1. Init => ForeignPart
    BY DEF Init, ForeignPart
  <1>2. ASSUME ForeignPart, Next PROVE AcceptsValue
    <2>1. SUFFICES ASSUME stage = "foreign", Len(got') > Len(got), errno_' = SUCCESS
                   PROVE  AcceptedAs(sent[Len(got')], Last(got'), pos_')
      BY DEF AcceptsValue, AcceptedAs
    <2>2. PICK x \in Items : sent = <<x>>
      BY <1>2, <2>1 DEF ForeignPart
    <2>3. Read
      <3>1. ~(\E k \in DOMAIN starts : Seek(k))
        <4>1. ASSUME NEW k \in DOMAIN starts, Seek(k) PROVE FALSE
          <5>1. (\E v : got = <<v>>) /\ starts = <<0>>
            BY <1>2, <2>1, <4>1 DEF ForeignPart
          <5>2. k = 1
            BY <5>1
          <5>3. got' = <<>> /\ Len(got) = 1
            BY <4>1, <5>1, <5>2 DEF Seek
          <5>4. QED
            BY <2>1, <5>3
        <4>2. QED
          BY <4>1
      <3>2. QED
        BY <1>2, <2>1, <3>1 DEF Next, Open, Reopen, Receive, Skip, Write, pack
    <2>4. got = <<>> /\ pos_ = 0 /\ bytes \in Seq(Foreigner) /\ room = Len(bytes)
      <3>1. ~(\E v : got = <<v>>)
        <4>1. Len(got) < Len(<<x>>)
          BY <2>2, <2>3 DEF Read
        <4>2. Len(<<x>>) = 1 /\ \A v : Len(<<v>>) = 1
          OBVIOUS
        <4>3. QED
          BY <4>1, <4>2
      <3>2. QED
        BY <1>2, <2>1, <3>1 DEF ForeignPart
    <2>5. sent[Len(got) + 1] = x
      BY <2>2, <2>4
    <2>6. PICK old \in {y.v : y \in {y \in Items : y.type = x.type}} \cup {<<>>}, c \in CountRead(pos_) :
             LET r == Unpacked(x, old, c)
             IN  /\ pos_' = r.pos /\ errno_' = r.errno
                 /\ got' = Append(got, IF r.errno = SUCCESS THEN r.v ELSE Lost)
      <3> DEFINE e == sent[Len(got) + 1]
      <3>1. PICK old \in {y.v : y \in {y \in Items : y.type = e.type}} \cup {<<>>}, c \in CountRead(pos_) :
               LET r == Unpacked(e, old, c)
               IN  /\ pos_' = r.pos /\ errno_' = r.errno
                   /\ got' = Append(got, IF r.errno = SUCCESS THEN r.v ELSE Lost)
        BY <2>3 DEF Read
      <3>2. e = x
        BY <2>5
      <3> HIDE DEF e
      <3>3. QED
        BY <3>1, <3>2
    <2>7. Unpacked(x, old, c).errno = SUCCESS /\ got' = <<Unpacked(x, old, c).v>>
      <3>1. Unpacked(x, old, c).errno = SUCCESS
        BY <2>1, <2>6
      <3>2. got' = Append(<<>>, Unpacked(x, old, c).v)
        BY <2>4, <2>6, <3>1
      <3>3. \A v : Append(<<>>, v) = <<v>>
        OBVIOUS
      <3>4. QED
        BY <3>1, <3>2, <3>3
    <2>8. Len(got') = 1 /\ Last(got') = Unpacked(x, old, c).v /\ sent[Len(got')] = x
      BY <2>2, <2>7 DEF Last
    <2>9. pos_ \in 0..room
      BY <2>4
    <2>10. AcceptedAs(x, Unpacked(x, old, c).v, Unpacked(x, old, c).pos)
      BY <2>4, <2>7, <2>9, UnpackedAccepted
    <2>11. QED
      BY <2>6, <2>8, <2>10
  <1>3. ASSUME ForeignPart, [Next]_vars PROVE [AcceptsValue]_vars
    BY <1>2, <1>3
  <1>4. QED
    BY <1>1, <1>3, ForeignKept, PTL DEF Spec, AcceptsOnlyValues

-----------------------------------------------------------------------------
(* The cells of a line.                                                    *)

\* What buffers consist of: bytes, and the cells of dumps and notes.
GroupCell == {<<"octet", n>> : n \in Nat} \cup {<<"blank">>, <<"space">>}
CharCell == {<<"char", c>> : c \in Nat \cup {"."}} \cup {<<"space">>}
DescCell == {<<"desc", l, l>> : l \in Nat}
              \cup {<<"desc", l, STREAM_LOGGER_BUFFER_SIZE - 1>> : l \in {n \in Nat : n >= STREAM_LOGGER_BUFFER_SIZE}}
              \cup {<<"spilt">>}
Cell == GroupCell \cup CharCell \cup DescCell \cup {<<"address", n>> : n \in Nat} \cup {<<"newline">>}
          \cup {<<"move", d, s, n>> : d \in Nat, s \in Nat, n \in Nat}
Symbol == Nat \cup Cell

\* The parts of a line.
Octet(src, first, i) == IF first + i <= Len(src) THEN <<"octet", src[first + i]>> ELSE <<"blank">>
Group(src, first, g) ==
    [i \in 1..DUMP_OCTETS_PER_GROUP |-> Octet(src, first, (g - 1) * DUMP_OCTETS_PER_GROUP + i)] \o <<<<"space">>>>
GroupsOf(src, first) ==
    [g \in 1..DUMP_OCTETS_PER_LINE \div DUMP_OCTETS_PER_GROUP |-> Group(src, first, g)]
LeftOf(src, first) ==
    IF first + DUMP_OCTETS_PER_LINE < Len(src) THEN DUMP_OCTETS_PER_LINE ELSE Len(src) - first
\* A character is shown if it can be.
Char(c) == <<"char", IF c \in Printable THEN c ELSE ".">>
CharsOf(src, first, print_chars) ==
    IF print_chars THEN <<<<"space">>>> \o [i \in 1..LeftOf(src, first) |-> Char(src[first + i])] ELSE <<>>
DescOf(src, first, desc) ==
    IF first + LeftOf(src, first) = Len(src) /\ desc # None THEN Formatted(desc) ELSE <<>>

\* A line is put together from them.
LEMMA LineParts ==
  ASSUME NEW at, NEW src, NEW first, NEW print_chars, NEW desc
  PROVE  Line(at, src, first, print_chars, desc) =
           <<<<"address", at + first>>>> \o FlattenSeq(GroupsOf(src, first))
             \o CharsOf(src, first, print_chars) \o DescOf(src, first, desc) \o <<<<"newline">>>>
  BY DEF Line, Octet, Group, GroupsOf, LeftOf, Char, CharsOf, DescOf

\* A line is some whole groups.
LEMMA DumpSizes ==
  /\ DUMP_OCTETS_PER_LINE \in Nat /\ DUMP_OCTETS_PER_LINE > 0
  /\ DUMP_OCTETS_PER_GROUP \in Nat /\ DUMP_OCTETS_PER_GROUP > 0
  /\ DUMP_OCTETS_PER_LINE \div DUMP_OCTETS_PER_GROUP \in Nat
  /\ DUMP_OCTETS_PER_LINE = (DUMP_OCTETS_PER_LINE \div DUMP_OCTETS_PER_GROUP) * DUMP_OCTETS_PER_GROUP
  <1>1. /\ DUMP_OCTETS_PER_LINE \in Nat /\ DUMP_OCTETS_PER_LINE > 0
        /\ DUMP_OCTETS_PER_GROUP \in Nat /\ DUMP_OCTETS_PER_GROUP > 0
        /\ DUMP_OCTETS_PER_LINE % DUMP_OCTETS_PER_GROUP = 0
    BY LinesAssumption
  <1>2. DUMP_OCTETS_PER_LINE \div DUMP_OCTETS_PER_GROUP \in Nat
        /\ DUMP_OCTETS_PER_LINE = DUMP_OCTETS_PER_GROUP * (DUMP_OCTETS_PER_LINE \div DUMP_OCTETS_PER_GROUP)
                                    + (DUMP_OCTETS_PER_LINE % DUMP_OCTETS_PER_GROUP)
    BY <1>1, Parts
  <1>3. QED
    BY <1>1, <1>2

\* The place of an octet is a cell of a group.
LEMMA OctetType ==
  ASSUME NEW src \in Seq(Nat), NEW first \in Nat, NEW i \in Nat, i > 0
  PROVE  Octet(src, first, i) \in GroupCell
  <1>1. CASE first + i <= Len(src)
    <2>1. src[first + i] \in Nat
      BY <1>1
    <2>2. <<"octet", src[first + i]>> \in GroupCell
      BY <2>1 DEF GroupCell
    <2>3. QED
      BY <1>1, <2>2 DEF Octet
  <1>2. CASE ~(first + i <= Len(src))
    <2>1. <<"blank">> \in GroupCell
      BY DEF GroupCell
    <2>2. QED
      BY <1>2, <2>1 DEF Octet
  <1>3. QED
    BY <1>1, <1>2

\* A group is such cells.
LEMMA GroupType ==
  ASSUME NEW src \in Seq(Nat), NEW first \in Nat, NEW g \in Nat, g > 0
  PROVE  Group(src, first, g) \in Seq(GroupCell)
  <1> DEFINE P == DUMP_OCTETS_PER_GROUP
             octets == [i \in 1..P |-> Octet(src, first, (g - 1) * P + i)]
  <1>1. P \in Nat
    BY DumpSizes
  <1>2. PICK h \in Nat : h = (g - 1) * P
    <2>1. g - 1 \in Nat
      OBVIOUS
    <2>2. QED
      BY <1>1, <2>1
  <1>3. \A i \in 1..P : Octet(src, first, (g - 1) * P + i) \in GroupCell
    <2>1. \A i \in 1..P : h + i \in Nat /\ h + i > 0
      BY <1>1, <1>2
    <2>2. \A i \in 1..P : Octet(src, first, h + i) \in GroupCell
      BY <2>1, OctetType
    <2>3. QED
      BY <1>2, <2>2
  <1>4. octets \in Seq(GroupCell)
    BY <1>1, <1>3
  <1>5. <<"space">> \in GroupCell
    BY DEF GroupCell
  <1>6. <<<<"space">>>> \in Seq(GroupCell)
    BY <1>5
  <1> HIDE DEF octets
  <1>7. octets \o <<<<"space">>>> \in Seq(GroupCell)
    BY <1>4, <1>6
  <1>8. QED
    BY <1>7 DEF Group, octets

\* So are all groups of a line together.
LEMMA GroupsType ==
  ASSUME NEW src \in Seq(Nat), NEW first \in Nat
  PROVE  /\ GroupsOf(src, first) \in Seq(Seq(GroupCell))
         /\ Len(GroupsOf(src, first)) = DUMP_OCTETS_PER_LINE \div DUMP_OCTETS_PER_GROUP
         /\ FlattenSeq(GroupsOf(src, first)) \in Seq(GroupCell)
  <1> DEFINE m == DUMP_OCTETS_PER_LINE \div DUMP_OCTETS_PER_GROUP
  <1>1. m \in Nat
    BY DumpSizes
  <1> HIDE DEF m
  <1>2. \A g \in 1..m : Group(src, first, g) \in Seq(GroupCell)
    BY GroupType
  <1>3. [g \in 1..m |-> Group(src, first, g)] \in Seq(Seq(GroupCell)) /\ Len([g \in 1..m |-> Group(src, first, g)]) = m
    BY <1>1, <1>2
  <1>4. GroupsOf(src, first) \in Seq(Seq(GroupCell)) /\ Len(GroupsOf(src, first)) = m
    BY <1>3 DEF GroupsOf, m
  <1>5. QED
    BY <1>4, FlattenType DEF m

\* The characters are cells of theirs, and there are as many as octets are left.
LEMMA CharsType ==
  ASSUME NEW src \in Seq(Nat), NEW first \in 0..Len(src), NEW print_chars
  PROVE  /\ CharsOf(src, first, print_chars) \in Seq(CharCell)
         /\ LeftOf(src, first) \in Nat /\ first + LeftOf(src, first) <= Len(src)
  <1> DEFINE l == LeftOf(src, first)
  <1>1. l \in Nat /\ first + l <= Len(src) /\ first \in Nat
    BY DumpSizes DEF LeftOf
  <1> HIDE DEF l
  <1>2. ASSUME NEW i \in 1..l PROVE Char(src[first + i]) \in CharCell
    <2>1. src[first + i] \in Nat
      BY <1>1
    <2>2. \A c \in Nat \cup {"."} : <<"char", c>> \in CharCell
      BY DEF CharCell
    <2>3. (IF src[first + i] \in Printable THEN src[first + i] ELSE ".") \in Nat \cup {"."}
      BY <2>1
    <2>4. QED
      BY <2>2, <2>3 DEF Char
  <1>3. [i \in 1..l |-> Char(src[first + i])] \in Seq(CharCell)
    BY <1>1, <1>2
  <1>4. <<"space">> \in CharCell
    BY DEF CharCell
  <1>5. <<<<"space">>>> \in Seq(CharCell) /\ <<>> \in Seq(CharCell)
    BY <1>4
  <1>6. <<<<"space">>>> \o [i \in 1..l |-> Char(src[first + i])] \in Seq(CharCell)
    BY <1>3, <1>5
  <1>7. QED
    BY <1>1, <1>5, <1>6 DEF CharsOf, l

\* So is the description.
LEMMA DescType ==
  ASSUME NEW src, NEW first, NEW desc \in Descs \cup {None}
  PROVE  DescOf(src, first, desc) \in Seq(DescCell)
  <1>1. ASSUME desc \in Nat PROVE Formatted(desc) \in Seq(DescCell)
    <2>1. <<"desc", desc, desc>> \in DescCell /\ <<"spilt">> \in DescCell
      BY <1>1 DEF DescCell
    <2>2. CASE desc < STREAM_LOGGER_BUFFER_SIZE
      BY <2>1, <2>2 DEF Formatted
    <2>3. CASE ~(desc < STREAM_LOGGER_BUFFER_SIZE)
      <3>1. desc \in {n \in Nat : n >= STREAM_LOGGER_BUFFER_SIZE}
        BY <1>1, <2>3, NumbersAssumption
      <3>2. <<"desc", desc, STREAM_LOGGER_BUFFER_SIZE - 1>> \in DescCell
        BY <3>1 DEF DescCell
      <3>3. QED
        BY <2>1, <2>3, <3>2 DEF Formatted
    <2>4. QED
      BY <2>2, <2>3
  <1>2. desc # None => desc \in Nat
    BY NumbersAssumption
  <1>3. <<>> \in Seq(DescCell)
    OBVIOUS
  <1>4. QED
    BY <1>1, <1>2, <1>3 DEF DescOf

\* What a cell of each part can be.
LEMMA KindsOfCells ==
  /\ \A c \in GroupCell : c[1] \in {"octet", "blank", "space"}
  /\ \A c \in CharCell : c[1] \in {"space", "char"}
  /\ \A c \in DescCell : /\ c[1] \in {"desc", "spilt"}
                         /\ c[1] = "desc" => c[3] = c[2] \/ c[2] >= STREAM_LOGGER_BUFFER_SIZE
  <1>1. \A c \in GroupCell : c[1] \in {"octet", "blank", "space"}
    BY DEF GroupCell
  <1>2. \A c \in CharCell : c[1] \in {"space", "char"}
    BY DEF CharCell
  <1>3. ASSUME NEW c \in DescCell
        PROVE  /\ c[1] \in {"desc", "spilt"}
               /\ c[1] = "desc" => c[3] = c[2] \/ c[2] >= STREAM_LOGGER_BUFFER_SIZE
    BY DEF DescCell
  <1>4. QED
    BY <1>1, <1>2, <1>3

\* A part of cells is cells.
LEMMA PartsAreCells ==
  /\ \A text \in Seq(GroupCell) : text \in Seq(Cell)
  /\ \A text \in Seq(CharCell) : text \in Seq(Cell)
  /\ \A text \in Seq(DescCell) : text \in Seq(Cell)
  <1>1. ASSUME NEW S, S \subseteq Cell, NEW text \in Seq(S) PROVE text \in Seq(Cell)
    <2>1. \A i \in 1..Len(text) : text[i] \in Cell
      BY <1>1
    <2>2. Len(text) \in Nat /\ text = [i \in 1..Len(text) |-> text[i]]
      OBVIOUS
    <2>3. QED
      BY <2>1, <2>2
  <1>2. GroupCell \subseteq Cell /\ CharCell \subseteq Cell /\ DescCell \subseteq Cell
    BY DEF Cell
  <1>3. QED
    BY <1>1, <1>2

\* A line is cells.
LEMMA LineType ==
  ASSUME NEW at \in Nat, NEW src \in Seq(Nat), NEW first \in 0..Len(src), NEW print_chars,
         NEW desc \in Descs \cup {None}
  PROVE  Line(at, src, first, print_chars, desc) \in Seq(Cell)
  <1>1. first \in Nat
    OBVIOUS
  <1>2. <<"address", at + first>> \in Cell /\ <<"newline">> \in Cell
    <2>1. at + first \in Nat
      BY <1>1
    <2>2. QED
      BY <2>1 DEF Cell
  <1>3. <<<<"address", at + first>>>> \in Seq(Cell) /\ <<<<"newline">>>> \in Seq(Cell)
    BY <1>2
  <1>4. /\ FlattenSeq(GroupsOf(src, first)) \in Seq(Cell) /\ CharsOf(src, first, print_chars) \in Seq(Cell)
        /\ DescOf(src, first, desc) \in Seq(Cell)
    BY <1>1, GroupsType, CharsType, DescType, PartsAreCells
  <1>5. \A a, g, c, d, n \in Seq(Cell) : a \o g \o c \o d \o n \in Seq(Cell)
    OBVIOUS
  <1>6. QED
    BY <1>3, <1>4, <1>5, LineParts

-----------------------------------------------------------------------------
(* The lines of a dump, and what is written over a buffer.                 *)

\* The lines of a dump.
LinesOf(n) == (n + DUMP_OCTETS_PER_LINE - 1) \div DUMP_OCTETS_PER_LINE
DumpLines(at, src, print_chars, desc) ==
    [k \in 1..LinesOf(Len(src)) |-> Line(at, src, (k - 1) * DUMP_OCTETS_PER_LINE, print_chars, desc)]

\* There are as many as the octets need.
LEMMA LinesNeeded ==
  ASSUME NEW n \in Nat
  PROVE  /\ LinesOf(n) \in Nat
         /\ \A k \in 1..LinesOf(n) : (k - 1) * DUMP_OCTETS_PER_LINE \in Nat /\ (k - 1) * DUMP_OCTETS_PER_LINE < n
         /\ LinesOf(n) * DUMP_OCTETS_PER_LINE >= n
         /\ n > 0 => LinesOf(n) > 0
  <1> DEFINE L == DUMP_OCTETS_PER_LINE
             m == LinesOf(n)
  <1>1. L \in Nat /\ L > 0
    BY DumpSizes
  <1> HIDE DEF L
  <1>2. /\ (n + L - 1) \div L \in Nat /\ (n + L - 1) % L \in 0..L - 1
        /\ n + L - 1 = L * ((n + L - 1) \div L) + ((n + L - 1) % L)
    BY <1>1, Parts
  <1>3. m = (n + L - 1) \div L
    BY DEF LinesOf, L
  <1>4. m \in Nat /\ n + L - 1 = L * m + ((n + L - 1) % L)
    BY <1>2, <1>3
  <1>5. PICK p \in Nat : p = m * L
    BY <1>1, <1>4
  <1>6. p >= n /\ p < n + L
    <2>1. L * m = p
      BY <1>1, <1>4, <1>5
    <2>2. QED
      BY <1>1, <1>2, <1>4, <2>1
  <1> HIDE DEF m
  <1>7. ASSUME NEW k \in 1..m PROVE (k - 1) * L \in Nat /\ (k - 1) * L < n
    <2>1. k - 1 \in Nat /\ m - 1 \in Nat /\ k - 1 <= m - 1
      BY <1>4
    <2>2. (k - 1) * L <= (m - 1) * L /\ (k - 1) * L \in Nat /\ (m - 1) * L \in Nat
      BY <1>1, <2>1, Multiples
    <2>3. ((m - 1) + 1) * L = (m - 1) * L + L
      BY <1>1, <2>1, NextMultiple
    <2>4. (m - 1) + 1 = m
      BY <1>4
    <2>5. (m - 1) * L + L = p
      BY <1>5, <2>3, <2>4
    <2>6. QED
      BY <1>1, <1>6, <2>2, <2>5
  <1>8. n > 0 => m > 0
    <2>1. SUFFICES ASSUME n > 0, m = 0 PROVE FALSE
      BY <1>4
    <2>2. p = 0
      BY <1>1, <1>5, <2>1
    <2>3. QED
      BY <1>6, <2>1, <2>2
  <1>9. QED
    BY <1>4, <1>5, <1>6, <1>7, <1>8 DEF m, L

\* A dump is lines put together, and so cells.
LEMMA DumpType ==
  ASSUME NEW at \in Nat, NEW src \in Seq(Nat), NEW print_chars, NEW desc \in Descs \cup {None}
  PROVE  /\ Dump(at, src, print_chars, desc) = FlattenSeq(DumpLines(at, src, print_chars, desc))
         /\ DumpLines(at, src, print_chars, desc) \in Seq(Seq(Cell))
         /\ Len(DumpLines(at, src, print_chars, desc)) = LinesOf(Len(src))
         /\ Dump(at, src, print_chars, desc) \in Seq(Cell)
  <1> DEFINE m == LinesOf(Len(src))
             lines == DumpLines(at, src, print_chars, desc)
  <1>1. m \in Nat /\ \A k \in 1..m : (k - 1) * DUMP_OCTETS_PER_LINE \in 0..Len(src)
    <2>1. Len(src) \in Nat
      OBVIOUS
    <2>2. QED
      BY <2>1, LinesNeeded
  <1>2. Dump(at, src, print_chars, desc) = FlattenSeq(lines)
    BY DEF Dump, DumpLines, LinesOf
  <1> HIDE DEF m
  <1>3. \A k \in 1..m : Line(at, src, (k - 1) * DUMP_OCTETS_PER_LINE, print_chars, desc) \in Seq(Cell)
    BY <1>1, LineType
  <1>4. lines = [k \in 1..m |-> Line(at, src, (k - 1) * DUMP_OCTETS_PER_LINE, print_chars, desc)]
    BY DEF DumpLines, m
  <1> HIDE DEF lines
  <1>5. lines \in Seq(Seq(Cell)) /\ Len(lines) = m
    BY <1>1, <1>3, <1>4
  <1>6. FlattenSeq(lines) \in Seq(Cell)
    BY <1>5, FlattenType
  <1>7. QED
    BY <1>2, <1>5, <1>6 DEF lines, m

\* What is written over a buffer leaves a buffer.
LEMMA OverwriteType ==
  ASSUME NEW S, 0 \in S, NEW b \in Seq(S), NEW at \in Nat, NEW src \in Seq(S)
  PROVE  /\ Overwrite(b, at, src) \in Seq(S)
         /\ at + Len(src) <= Len(Overwrite(b, at, src)) \/ src = <<>>
         /\ \A i \in 1..Len(src) : Overwrite(b, at, src)[at + i] = src[i]
  <1>1. CASE src = <<>>
    BY <1>1 DEF Overwrite
  <1>2. CASE src # <<>>
    <2> DEFINE size == at + Len(src)
               top == IF size > Len(b) THEN size ELSE Len(b)
               grown == [i \in 1..top |-> IF i <= Len(b) THEN b[i] ELSE 0]
               new == [i \in 1..top |-> IF i \in at + 1..at + Len(src) THEN src[i - at] ELSE grown[i]]
    <2>1. size \in Nat /\ top \in Nat /\ size <= top /\ Len(src) \in Nat /\ Len(b) \in Nat
      OBVIOUS
    <2>2. Overwrite(b, at, src) = new
      BY <1>2 DEF Overwrite, Padded
    <2>3. \A i \in 1..top : new[i] \in S
      <3> SUFFICES ASSUME NEW i \in 1..top PROVE new[i] \in S
        OBVIOUS
      <3>1. i \in Nat /\ grown[i] \in S
        BY <2>1
      <3>2. i \in at + 1..at + Len(src) => src[i - at] \in S
        BY <2>1, <3>1
      <3>3. QED
        BY <3>1, <3>2
    <2>4. \A i \in 1..Len(src) : new[at + i] = src[i]
      <3> SUFFICES ASSUME NEW i \in 1..Len(src) PROVE new[at + i] = src[i]
        OBVIOUS
      <3>1. at + i \in 1..top /\ at + i \in at + 1..at + Len(src) /\ (at + i) - at = i
        BY <2>1
      <3>2. QED
        BY <3>1
    <2> HIDE DEF top, grown
    <2>5. DOMAIN new = 1..top
      OBVIOUS
    <2> HIDE DEF new
    <2>6. new \in Seq(S) /\ Len(new) = top
      <3>1. new = [i \in 1..top |-> new[i]]
        BY <2>5 DEF new
      <3>2. QED
        BY <2>1, <2>3, <3>1
    <2>7. QED
      BY <2>1, <2>2, <2>4, <2>6
  <1>3. QED
    BY <1>1, <1>2

\* So does what is moved in it.
LEMMA MovedType ==
  ASSUME NEW S, 0 \in S, NEW b \in Seq(S), NEW dst \in Nat, NEW src \in Nat, NEW size \in Nat
  PROVE  Moved(b, dst, src, size) \in Seq(S)
  <1>1. CASE size = 0
    BY <1>1 DEF Moved
  <1>2. CASE size # 0
    <2> DEFINE end == (IF src > dst THEN src ELSE dst) + size
               top == IF end > Len(b) THEN end ELSE Len(b)
               grown == [i \in 1..top |-> IF i <= Len(b) THEN b[i] ELSE 0]
               new == [i \in 1..top |-> IF i \in dst + 1..dst + size THEN grown[i + src - dst] ELSE grown[i]]
    <2>1. end \in Nat /\ top \in Nat /\ end <= top /\ Len(b) \in Nat /\ src + size <= end
      OBVIOUS
    <2>2. Moved(b, dst, src, size) = new
      BY <1>2 DEF Moved, Padded
    <2>3. \A i \in 1..top : grown[i] \in S
      BY <2>1
    <2> HIDE DEF grown
    <2>4. \A i \in 1..top : new[i] \in S
      <3> SUFFICES ASSUME NEW i \in 1..top PROVE new[i] \in S
        OBVIOUS
      <3>1. i \in dst + 1..dst + size => i + src - dst \in 1..top
        BY <2>1
      <3>2. QED
        BY <2>3, <3>1
    <2> HIDE DEF top
    <2>5. new \in Seq(S)
      BY <2>1, <2>4
    <2>6. QED
      BY <2>2, <2>5
  <1>3. QED
    BY <1>1, <1>2

\* Read byte by byte, after is src from offset at on, and before everywhere else.
HasTaken(before, at, src, after) ==
    /\ Len(after) >= Len(before) /\ Len(after) >= at + Len(src)
    /\ \A i \in 0..Len(after) - 1 :
          Byte(after, i) = IF i \in at..at + Len(src) - 1 THEN src[i - at + 1] ELSE Byte(before, i)

\* So is a buffer that was written.
LEMMA OverwriteReads ==
  ASSUME NEW S, 0 \in S, NEW b \in Seq(S), NEW at \in Nat, NEW src \in Seq(S), src # <<>>
  PROVE  HasTaken(b, at, src, Overwrite(b, at, src))
  <1> DEFINE size == at + Len(src)
             top == IF size > Len(b) THEN size ELSE Len(b)
             grown == [i \in 1..top |-> IF i <= Len(b) THEN b[i] ELSE 0]
             new == [i \in 1..top |-> IF i \in at + 1..at + Len(src) THEN src[i - at] ELSE grown[i]]
  <1>1. size \in Nat /\ top \in Nat /\ size <= top /\ Len(b) <= top /\ Len(src) \in Nat /\ Len(b) \in Nat
    OBVIOUS
  <1>2. Overwrite(b, at, src) = new
    BY DEF Overwrite, Padded
  <1>3. ASSUME NEW i \in 0..top - 1
        PROVE  new[i + 1] = IF i \in at..at + Len(src) - 1 THEN src[i - at + 1] ELSE Byte(b, i)
    <2>1. i + 1 \in 1..top /\ i \in Nat /\ (i + 1) - at = i - at + 1
      BY <1>1
    <2>2. i \in at..at + Len(src) - 1 <=> i + 1 \in at + 1..at + Len(src)
      BY <1>1, <2>1
    <2>3. grown[i + 1] = Byte(b, i)
      <3>1. grown[i + 1] = IF i + 1 <= Len(b) THEN b[i + 1] ELSE 0
        BY <2>1
      <3>2. i + 1 <= Len(b) <=> i < Len(b)
        BY <1>1, <2>1
      <3>3. QED
        BY <3>1, <3>2 DEF Byte
    <2> HIDE DEF grown
    <2>4. new[i + 1] = IF i + 1 \in at + 1..at + Len(src) THEN src[(i + 1) - at] ELSE grown[i + 1]
      BY <2>1
    <2>5. QED
      BY <2>1, <2>2, <2>3, <2>4
  <1>4. new = [i \in 1..top |-> new[i]] /\ Len(new) = top
    BY <1>1
  <1> HIDE DEF new, grown
  <1>5. ASSUME NEW i \in 0..top - 1 PROVE Byte(new, i) = new[i + 1]
    BY <1>1, <1>4 DEF Byte
  <1> HIDE DEF top
  <1>6. HasTaken(b, at, src, new)
    BY <1>1, <1>3, <1>4, <1>5 DEF HasTaken
  <1>7. QED
    BY <1>2, <1>6

\* And of what was moved, from where it was moved.
LEMMA MovedReads ==
  ASSUME NEW S, 0 \in S, NEW b \in Seq(S), NEW dst \in Nat, NEW src \in Nat, NEW size \in Nat, size # 0,
         NEW after, after = Moved(b, dst, src, size)
  PROVE  /\ Len(after) \in Nat /\ Len(after) >= Len(b) /\ Len(after) >= dst + size
         /\ \A i \in 0..Len(after) - 1 :
               Byte(after, i) = IF i \in dst..dst + size - 1 THEN Byte(b, src + (i - dst)) ELSE Byte(b, i)
  <1> DEFINE end == (IF src > dst THEN src ELSE dst) + size
             top == IF end > Len(b) THEN end ELSE Len(b)
             grown == [i \in 1..top |-> IF i <= Len(b) THEN b[i] ELSE 0]
             new == [i \in 1..top |-> IF i \in dst + 1..dst + size THEN grown[i + src - dst] ELSE grown[i]]
  <1>1. /\ end \in Nat /\ top \in Nat /\ end <= top /\ Len(b) \in Nat /\ Len(b) <= top
        /\ src + size <= end /\ dst + size <= end
    OBVIOUS
  <1>2. Moved(b, dst, src, size) = new
    BY DEF Moved, Padded
  <1>3. ASSUME NEW i \in 0..top - 1 PROVE grown[i + 1] = Byte(b, i)
    <2>1. i + 1 \in 1..top /\ i \in Nat
      BY <1>1
    <2>2. grown[i + 1] = IF i + 1 <= Len(b) THEN b[i + 1] ELSE 0
      BY <2>1
    <2>3. i + 1 <= Len(b) <=> i < Len(b)
      BY <1>1, <2>1
    <2>4. QED
      BY <2>2, <2>3 DEF Byte
  <1> HIDE DEF grown
  <1>4. ASSUME NEW i \in 0..top - 1
        PROVE  new[i + 1] = IF i \in dst..dst + size - 1 THEN Byte(b, src + (i - dst)) ELSE Byte(b, i)
    <2>1. i + 1 \in 1..top /\ i \in Nat
      BY <1>1
    <2>2. new[i + 1] = IF i + 1 \in dst + 1..dst + size THEN grown[(i + 1) + src - dst] ELSE grown[i + 1]
      BY <2>1
    <2>3. i \in dst..dst + size - 1 <=> i + 1 \in dst + 1..dst + size
      BY <2>1
    <2>4. ASSUME i \in dst..dst + size - 1 PROVE grown[(i + 1) + src - dst] = Byte(b, src + (i - dst))
      <3>1. src + (i - dst) \in 0..top - 1 /\ (i + 1) + src - dst = (src + (i - dst)) + 1
        BY <1>1, <2>1, <2>4
      <3>2. QED
        BY <1>3, <3>1
    <2>5. QED
      BY <1>3, <2>2, <2>3, <2>4
  <1>5. new = [i \in 1..top |-> new[i]] /\ Len(new) = top
    BY <1>1
  <1> HIDE DEF new
  <1>6. ASSUME NEW i \in 0..top - 1 PROVE Byte(new, i) = new[i + 1]
    BY <1>1, <1>5 DEF Byte
  <1> HIDE DEF top
  <1>7. Len(new) \in Nat /\ Len(new) >= Len(b) /\ Len(new) >= dst + size
    BY <1>1, <1>5
  <1>8. QED
    BY <1>2, <1>4, <1>5, <1>6, <1>7

-----------------------------------------------------------------------------
(* What buffers hold.                                                      *)

\* Offsets are numbers, and buffers consist of bytes and cells.
BufferPart ==
    /\ offset_ \in [Streams -> Nat]
    /\ log_stream_ \in [Streams -> Streams \cup {None}]
    /\ buf_ = [s \in Streams |-> buf_[s]]
    /\ \A s \in Streams : buf_[s] # None => buf_[s] \in Seq(Symbol)

\* There are no chains of logs.
LogPart ==
    \A s \in Streams : log_stream_[s] # None =>
        log_stream_[s] # s /\ log_stream_[log_stream_[s]] = None

MemoryInv == BufferPart /\ LogPart

\* At first all buffers are empty.
LEMMA MemoryInitInv == MemoryInit => MemoryInv
  <1>1. <<>> \in Seq(Symbol)
    OBVIOUS
  <1>2. QED
    BY <1>1, NoneAssumption DEF MemoryInit, MemoryInv, BufferPart, LogPart

\* What is written is bytes.
LEMMA PayloadType == ASSUME NEW src \in Payloads PROVE src \in Seq(Nat) /\ src \in Seq(Symbol)
  <1>1. PICK n \in Sizes : src = [i \in 1..n |-> i]
    BY DEF Payloads
  <1>2. n \in Nat
    BY NumbersAssumption
  <1>3. \A i \in 1..n : i \in Nat /\ i \in Symbol
    BY <1>2 DEF Symbol
  <1>4. QED
    BY <1>1, <1>2, <1>3

\* Cells may stand in a buffer.
LEMMA CellsAreSymbols == ASSUME NEW text \in Seq(Cell) PROVE text \in Seq(Symbol)
  <1>1. \A i \in 1..Len(text) : text[i] \in Symbol
    BY DEF Symbol
  <1>2. Len(text) \in Nat /\ text = [i \in 1..Len(text) |-> text[i]]
    OBVIOUS
  <1>3. QED
    BY <1>1, <1>2

\* A change of one stream that is logged by another.
LEMMA UpdateKeeps ==
  ASSUME BufferPart, NEW s \in Streams, NEW record \in Seq(Cell), NEW step \in Nat, NEW own \in Seq(Symbol),
         log_stream_[s] # None => buf_[log_stream_[s]] # None,
         Update(s, record, step, own)
  PROVE  BufferPart' /\ log_stream_' = log_stream_
  <1> DEFINE text(x) == IF x = log_stream_[s] THEN record ELSE <<>>
             after(x) == IF x = s THEN own ELSE Overwrite(buf_[x], offset_[x], text(x))
  <1>1. /\ offset_' = [x \in Streams |-> offset_[x] + Len(text(x)) + (IF x = s THEN step ELSE 0)]
        /\ buf_' = [x \in Streams |-> after(x)]
        /\ log_stream_' = log_stream_
    BY DEF Update
  <1>2. \A x \in Streams : offset_[x] \in Nat /\ Len(text(x)) \in Nat
    <2>1. Len(<<>>) = 0 /\ Len(record) \in Nat
      OBVIOUS
    <2>2. QED
      BY <2>1 DEF BufferPart
  <1>3. ASSUME NEW x \in Streams, after(x) # None PROVE after(x) \in Seq(Symbol)
    <2>1. CASE x = s
      BY <2>1
    <2>2. CASE x # s /\ x # log_stream_[s]
      <3>1. after(x) = buf_[x]
        BY <2>2 DEF Overwrite
      <3>2. QED
        BY <1>3, <3>1 DEF BufferPart
    <2>3. CASE x # s /\ x = log_stream_[s]
      <3>1. buf_[x] \in Seq(Symbol) /\ record \in Seq(Symbol) /\ 0 \in Symbol /\ offset_[x] \in Nat
        <4>1. x # None
          BY NoneAssumption
        <4>2. QED
          BY <1>2, <2>3, <4>1, CellsAreSymbols DEF BufferPart, Symbol
      <3>2. Overwrite(buf_[x], offset_[x], record) \in Seq(Symbol)
        BY <3>1, OverwriteType
      <3>3. QED
        BY <2>3, <3>2
    <2>4. QED
      BY <2>1, <2>2, <2>3
  <1> HIDE DEF text
  <1>4. offset_' \in [Streams -> Nat]
    BY <1>1, <1>2
  <1> HIDE DEF after
  <1>5. \A x \in Streams : buf_'[x] = after(x)
    BY <1>1
  <1>6. QED
    BY <1>1, <1>3, <1>4, <1>5 DEF BufferPart

\* A stream that can be written has a buffer, and so has its log.
LEMMA Writable ==
  ASSUME BufferPart, NEW s \in Streams, NEW at \in Nat, CanWrite(s, at)
  PROVE  /\ buf_[s] \in Seq(Symbol) /\ offset_[s] \in Nat
         /\ log_stream_[s] # None => log_stream_[s] \in Streams /\ buf_[log_stream_[s]] \in Seq(Symbol)
                                     /\ buf_[log_stream_[s]] # None /\ offset_[log_stream_[s]] \in Nat
  BY DEF BufferPart, CanWrite, Ready

\* A moving note is a cell.
LEMMA NoteType ==
  ASSUME NEW dst \in Nat, NEW src \in Nat, NEW size \in Nat
  PROVE  MoveNote(dst, src, size) \in Seq(Cell)
  <1>1. <<"move", dst, src, size>> \in Cell
    BY DEF Cell
  <1>2. QED
    BY <1>1 DEF MoveNote

\* A piece of the record, or nothing else than the record, and no more.
LEMMA NoMemoryKeeps ==
  ASSUME BufferPart, NEW s \in Streams, NEW record \in Seq(Cell), NEW own, buf_[s] \in Seq(Symbol),
         log_stream_[s] # None => buf_[log_stream_[s]] # None,
         NoMemory(s, record, own)
  PROVE  BufferPart' /\ log_stream_' = log_stream_
  <1>1. PICK n \in 0..Len(record) : Update(s, SubSeq(record, 1, n), 0, buf_[s])
    BY DEF NoMemory
  <1>2. SubSeq(record, 1, n) \in Seq(Cell)
    BY Beginning
  <1>3. QED
    BY <1>1, <1>2, UpdateKeeps

\* Writing leaves buffers and logs in order.
LEMMA WritesKeep ==
  ASSUME BufferPart, NEW s \in Streams, NEW src \in Payloads, NEW print_chars, NEW desc \in Descs \cup {None},
         NEW at \in Nat, WriteDataAt(s, at, src, print_chars, desc) \/ WriteData(s, src, print_chars, desc)
  PROVE  BufferPart' /\ log_stream_' = log_stream_
  <1>1. src \in Seq(Nat) /\ src \in Seq(Symbol) /\ 0 \in Symbol /\ Len(src) \in Nat /\ offset_[s] \in Nat /\ 0 \in Nat
    BY PayloadType DEF Symbol, BufferPart
  <1>2. CASE WriteDataAt(s, at, src, print_chars, desc)
    <2>1. /\ CanWrite(s, at)
          /\ \/ Update(s, Dump(at, src, print_chars, desc), 0, Overwrite(buf_[s], at, src))
             \/ NoMemory(s, Dump(at, src, print_chars, desc), Overwrite(buf_[s], at, src))
      BY <1>2 DEF WriteDataAt
    <2>2. buf_[s] \in Seq(Symbol) /\ (log_stream_[s] # None => buf_[log_stream_[s]] # None)
      BY <2>1, Writable
    <2>3. Dump(at, src, print_chars, desc) \in Seq(Cell) /\ Overwrite(buf_[s], at, src) \in Seq(Symbol)
      BY <1>1, <2>2, DumpType, OverwriteType
    <2>4. QED
      BY <1>1, <2>1, <2>2, <2>3, UpdateKeeps, NoMemoryKeeps
  <1>3. CASE WriteData(s, src, print_chars, desc)
    <2>1. /\ CanWrite(s, offset_[s])
          /\ \/ Update(s, Dump(offset_[s], src, print_chars, desc), Len(src), Overwrite(buf_[s], offset_[s], src))
             \/ NoMemory(s, Dump(offset_[s], src, print_chars, desc), Overwrite(buf_[s], offset_[s], src))
      BY <1>3 DEF WriteData
    <2>2. buf_[s] \in Seq(Symbol) /\ (log_stream_[s] # None => buf_[log_stream_[s]] # None)
      BY <1>1, <2>1, Writable
    <2>3. Dump(offset_[s], src, print_chars, desc) \in Seq(Cell) /\ Overwrite(buf_[s], offset_[s], src) \in Seq(Symbol)
      BY <1>1, <2>2, DumpType, OverwriteType
    <2>4. QED
      BY <1>1, <2>1, <2>2, <2>3, UpdateKeeps, NoMemoryKeeps
  <1>4. QED
    BY <1>2, <1>3

\* So does moving.
LEMMA MoveKeeps ==
  ASSUME BufferPart, NEW s \in Streams, NEW dst \in Nat, NEW src \in Nat, NEW size \in Nat,
         MoveData(s, dst, src, size)
  PROVE  BufferPart' /\ log_stream_' = log_stream_
  <1>1. /\ CanWrite(s, dst)
        /\ \/ Update(s, MoveNote(dst, src, size), 0, Moved(buf_[s], dst, src, size))
           \/ NoMemory(s, MoveNote(dst, src, size), Moved(buf_[s], dst, src, size))
    BY DEF MoveData
  <1>2. buf_[s] \in Seq(Symbol) /\ (log_stream_[s] # None => buf_[log_stream_[s]] # None)
    BY <1>1, Writable
  <1>3. 0 \in Symbol /\ 0 \in Nat
    BY DEF Symbol
  <1>4. MoveNote(dst, src, size) \in Seq(Cell) /\ Moved(buf_[s], dst, src, size) \in Seq(Symbol)
    BY <1>2, <1>3, NoteType, MovedType
  <1>5. QED
    BY <1>1, <1>2, <1>3, <1>4, UpdateKeeps, NoMemoryKeeps

\* So does every change.
LEMMA ChangeKeeps ==
  ASSUME BufferPart, LogPart, NEW s \in Streams, Change(s)
  PROVE  BufferPart' /\ LogPart'
  <1>1. CASE /\ BufferPart' /\ log_stream_' = log_stream_
    BY <1>1 DEF LogPart
  <1>2. ASSUME NEW src \in Payloads, NEW print_chars \in BOOLEAN, NEW desc \in Descs \cup {None},
               (\E at \in 0..MaxOffset : WriteDataAt(s, at, src, print_chars, desc))
                  \/ WriteData(s, src, print_chars, desc)
        PROVE  BufferPart' /\ log_stream_' = log_stream_
    <2>1. \E at \in Nat : WriteDataAt(s, at, src, print_chars, desc) \/ WriteData(s, src, print_chars, desc)
      BY <1>2, NumbersAssumption
    <2>2. QED
      BY <2>1, WritesKeep
  <1>3. ASSUME NEW dst \in 0..MaxOffset, NEW src \in 0..MaxOffset, NEW size \in Moves, MoveData(s, dst, src, size)
        PROVE  BufferPart' /\ log_stream_' = log_stream_
    <2>1. dst \in Nat /\ src \in Nat /\ size \in Nat
      BY NumbersAssumption
    <2>2. QED
      BY <1>3, <2>1, MoveKeeps
  <1>4. ASSUME NEW delta \in 1..MaxOffset, AddOffset(s, delta)
        PROVE  BufferPart' /\ log_stream_' = log_stream_
    <2>1. delta \in Nat
      BY NumbersAssumption
    <2>2. QED
      BY <1>4, <2>1 DEF AddOffset, BufferPart
  <1>5. CASE ClearOffset(s)
    <2>1. BufferPart' /\ log_stream_' = log_stream_
      BY <1>5 DEF ClearOffset, BufferPart
    <2>2. QED
      BY <1>1, <2>1
  <1>6. ASSUME NEW log \in Streams, set_log_stream(s, log) PROVE BufferPart' /\ LogPart'
    BY <1>6, NoneAssumption DEF set_log_stream, BufferPart, LogPart
  <1>7. CASE Construct(s)
    <2>1. PICK own \in Payloads \cup {<<>>} : buf_' = [buf_ EXCEPT ![s] = own]
      BY <1>7 DEF Construct
    <2>2. own \in Seq(Symbol)
      <3>1. <<>> \in Seq(Symbol)
        OBVIOUS
      <3>2. QED
        BY <3>1, PayloadType
    <2>3. BufferPart'
      BY <1>7, <2>1, <2>2 DEF Construct, BufferPart
    <2>4. LogPart'
      BY <1>7, NoneAssumption DEF Construct, LogPart, BufferPart
    <2>5. QED
      BY <1>7, <2>3, <2>4 DEF Construct
  <1>8. CASE ReleaseOutputBuffer(s) \/ Clear(s)
    <2>1. <<>> \in Seq(Symbol)
      OBVIOUS
    <2>2. BufferPart' /\ log_stream_' = log_stream_
      BY <1>8, <2>1 DEF ReleaseOutputBuffer, Clear, BufferPart
    <2>3. QED
      BY <1>1, <2>2
  <1>9. QED
    BY <1>1, <1>2, <1>3, <1>4, <1>5, <1>6, <1>7, <1>8 DEF Change

\* MemoryInv holds in every state, for all streams and bytes.
THEOREM MemoryKept == MemorySpec => []MemoryInv
  <1>1. MemoryInv /\ [MemoryNext]_memoryVars => MemoryInv'
    <2> SUFFICES ASSUME MemoryInv, [MemoryNext]_memoryVars PROVE MemoryInv'
      OBVIOUS
    <2>1. CASE MemoryNext
      BY <2>1, ChangeKeeps DEF MemoryNext, MemoryInv
    <2>2. CASE UNCHANGED memoryVars
      BY <2>2 DEF memoryVars, MemoryInv, BufferPart, LogPart
    <2>3. QED
      BY <2>1, <2>2
  <1>2. QED
    BY <1>1, MemoryInitInv, PTL DEF MemorySpec

-----------------------------------------------------------------------------
(* Picking cells of a kind.                                                *)

\* The cells of one kind, one by one.
Picked(text, kind) == [i \in 1..Len(text) |-> IF text[i][1] = kind THEN <<text[i]>> ELSE <<>>]

\* Picking leaves a text of such cells.
LEMMA PickedType ==
  ASSUME NEW S, NEW text \in Seq(S), NEW kind
  PROVE  /\ Picked(text, kind) \in Seq(Seq(S)) /\ Len(Picked(text, kind)) = Len(text)
         /\ \A i \in 1..Len(text) : Picked(text, kind)[i] = IF text[i][1] = kind THEN <<text[i]>> ELSE <<>>
         /\ Cells(text, kind) = FlattenSeq(Picked(text, kind))
         /\ Cells(text, kind) \in Seq(S)
  <1>1. \A i \in 1..Len(text) : (IF text[i][1] = kind THEN <<text[i]>> ELSE <<>>) \in Seq(S)
    OBVIOUS
  <1>2. Picked(text, kind) \in Seq(Seq(S)) /\ Len(Picked(text, kind)) = Len(text)
        /\ \A i \in 1..Len(text) : Picked(text, kind)[i] = IF text[i][1] = kind THEN <<text[i]>> ELSE <<>>
    BY <1>1 DEF Picked
  <1>3. Cells(text, kind) = FlattenSeq(Picked(text, kind))
    BY DEF Cells, Picked
  <1>4. QED
    BY <1>2, <1>3, FlattenType

\* Two sequences put together, place by place.
LEMMA Joint ==
  ASSUME NEW S, NEW a \in Seq(S), NEW b \in Seq(S)
  PROVE  /\ a \o b \in Seq(S) /\ Len(a \o b) = Len(a) + Len(b) /\ Len(a) \in Nat /\ Len(b) \in Nat
         /\ \A i \in 1..Len(a) : (a \o b)[i] = a[i]
         /\ \A i \in 1..Len(b) : (a \o b)[Len(a) + i] = b[i]
  OBVIOUS

\* What is so in both parts is so in all places.
LEMMA BothParts ==
  ASSUME NEW S, NEW a \in Seq(S), NEW b \in Seq(S), NEW c \in Seq(S), Len(c) = Len(a) + Len(b),
         \A i \in 1..Len(a) : c[i] = a[i],
         \A i \in 1..Len(b) : c[Len(a) + i] = b[i]
  PROVE  c = a \o b
  <1>1. /\ a \o b \in Seq(S) /\ Len(a \o b) = Len(a) + Len(b) /\ Len(a) \in Nat /\ Len(b) \in Nat
        /\ \A i \in 1..Len(a) : (a \o b)[i] = a[i]
        /\ \A i \in 1..Len(b) : (a \o b)[Len(a) + i] = b[i]
    BY Joint
  <1>2. ASSUME NEW i \in 1..Len(c) PROVE c[i] = (a \o b)[i]
    <2>1. CASE i <= Len(a)
      <3>1. i \in 1..Len(a)
        BY <2>1
      <3>2. QED
        BY <1>1, <3>1
    <2>2. CASE ~(i <= Len(a))
      <3>1. PICK k \in 1..Len(b) : i = Len(a) + k
        <4>1. i - Len(a) \in 1..Len(b) /\ i = Len(a) + (i - Len(a))
          BY <1>1, <2>2
        <4>2. QED
          BY <4>1
      <3>2. QED
        BY <1>1, <3>1
    <2>3. QED
      BY <2>1, <2>2
  <1>3. QED
    BY <1>1, <1>2, SeqEqual

\* Picking goes over to the parts of a text.
LEMMA CellsConcat ==
  ASSUME NEW S, NEW a \in Seq(S), NEW b \in Seq(S), NEW kind
  PROVE  Cells(a \o b, kind) = Cells(a, kind) \o Cells(b, kind)
  <1>1. PICK c \in Seq(S) : c = a \o b
    BY Joint
  <1>2. /\ Len(c) = Len(a) + Len(b) /\ Len(a) \in Nat /\ Len(b) \in Nat
        /\ \A i \in 1..Len(a) : c[i] = a[i]
        /\ \A i \in 1..Len(b) : c[Len(a) + i] = b[i]
    BY <1>1, Joint
  <1>3. PICK p \in Seq(Seq(S)) : p = Picked(a, kind)
    BY PickedType
  <1>4. PICK q \in Seq(Seq(S)) : q = Picked(b, kind)
    BY PickedType
  <1>5. PICK r \in Seq(Seq(S)) : r = Picked(c, kind)
    BY PickedType
  <1>6. /\ Len(p) = Len(a) /\ Cells(a, kind) = FlattenSeq(p)
        /\ \A i \in 1..Len(a) : p[i] = IF a[i][1] = kind THEN <<a[i]>> ELSE <<>>
    BY <1>3, PickedType
  <1>7. /\ Len(q) = Len(b) /\ Cells(b, kind) = FlattenSeq(q)
        /\ \A i \in 1..Len(b) : q[i] = IF b[i][1] = kind THEN <<b[i]>> ELSE <<>>
    BY <1>4, PickedType
  <1>8. /\ Len(r) = Len(c) /\ Cells(c, kind) = FlattenSeq(r)
        /\ \A i \in 1..Len(c) : r[i] = IF c[i][1] = kind THEN <<c[i]>> ELSE <<>>
    BY <1>5, PickedType
  <1>9. \A i \in 1..Len(p) : r[i] = p[i]
    <2>1. \A i \in 1..Len(p) : i \in 1..Len(a) /\ i \in 1..Len(c)
      BY <1>2, <1>6
    <2>2. QED
      BY <1>2, <1>6, <1>8, <2>1
  <1>10. \A i \in 1..Len(q) : r[Len(p) + i] = q[i]
    <2> SUFFICES ASSUME NEW i \in 1..Len(q) PROVE r[Len(p) + i] = q[i]
      OBVIOUS
    <2>1. i \in 1..Len(b) /\ Len(a) + i \in 1..Len(c) /\ Len(p) + i = Len(a) + i
      BY <1>2, <1>6, <1>7
    <2>2. c[Len(a) + i] = b[i]
      BY <1>2, <2>1
    <2>3. r[Len(a) + i] = IF c[Len(a) + i][1] = kind THEN <<c[Len(a) + i]>> ELSE <<>>
      BY <1>8, <2>1
    <2>4. q[i] = IF b[i][1] = kind THEN <<b[i]>> ELSE <<>>
      BY <1>7, <2>1
    <2>5. QED
      BY <2>1, <2>2, <2>3, <2>4
  <1>11. Len(r) = Len(p) + Len(q)
    BY <1>2, <1>6, <1>7, <1>8
  <1>12. r = p \o q
    BY <1>9, <1>10, <1>11, BothParts
  <1>13. FlattenSeq(r) = FlattenSeq(p) \o FlattenSeq(q)
    BY <1>12, FlattenConcat
  <1>14. QED
    BY <1>1, <1>6, <1>7, <1>8, <1>13

\* Of a text without cells of the kind, nothing is picked.
LEMMA CellsNone ==
  ASSUME NEW S, NEW text \in Seq(S), NEW kind, \A i \in 1..Len(text) : text[i][1] # kind
  PROVE  Cells(text, kind) = <<>>
  <1>1. PICK p \in Seq(Seq(S)) : p = Picked(text, kind)
    BY PickedType
  <1>2. /\ Len(p) = Len(text) /\ Cells(text, kind) = FlattenSeq(p)
        /\ \A i \in 1..Len(text) : p[i] = IF text[i][1] = kind THEN <<text[i]>> ELSE <<>>
    BY <1>1, PickedType
  <1>3. \A k \in 1..Len(p) : Len(p[k]) = 0
    <2>1. \A k \in 1..Len(p) : p[k] = <<>>
      BY <1>2
    <2>2. Len(<<>>) = 0
      OBVIOUS
    <2>3. QED
      BY <2>1, <2>2
  <1>4. EvenRuns(p, 0)
    BY <1>3, FlattenUniform
  <1>5. Len(FlattenSeq(p)) = Len(p) * 0 /\ Len(p) \in Nat /\ FlattenSeq(p) \in Seq(S)
    BY <1>4, FlattenType DEF EvenRuns
  <1>6. Len(FlattenSeq(p)) = 0
    BY <1>5
  <1>7. QED
    BY <1>2, <1>5, <1>6

\* Of a text of such cells, everything.
LEMMA CellsAll ==
  ASSUME NEW S, NEW text \in Seq(S), NEW kind, \A i \in 1..Len(text) : text[i][1] = kind
  PROVE  Cells(text, kind) = text
  <1>1. PICK p \in Seq(Seq(S)) : p = Picked(text, kind)
    BY PickedType
  <1>2. /\ Len(p) = Len(text) /\ Cells(text, kind) = FlattenSeq(p) /\ Len(text) \in Nat
        /\ \A i \in 1..Len(text) : p[i] = IF text[i][1] = kind THEN <<text[i]>> ELSE <<>>
    BY <1>1, PickedType
  <1>3. \A i \in 1..Len(text) : p[i] = <<text[i]>>
    BY <1>2
  <1>4. \A k \in 1..Len(p) : Len(p[k]) = 1
    <2>1. \A k \in 1..Len(p) : Len(<<text[k]>>) = 1
      OBVIOUS
    <2>2. QED
      BY <1>2, <1>3, <2>1
  <1>5. EvenRuns(p, 1)
    BY <1>4, FlattenUniform
  <1>6. Len(FlattenSeq(p)) = Len(p) * 1 /\ FlattenSeq(p) \in Seq(S)
        /\ \A k \in 1..Len(p), i \in 1..1 : FlattenSeq(p)[(k - 1) * 1 + i] = p[k][i]
    BY <1>5, FlattenType DEF EvenRuns
  <1>7. Len(FlattenSeq(p)) = Len(text)
    BY <1>2, <1>6
  <1>8. ASSUME NEW k \in 1..Len(text) PROVE FlattenSeq(p)[k] = text[k]
    <2>1. k \in 1..Len(p) /\ 1 \in 1..1 /\ (k - 1) * 1 + 1 = k
      BY <1>2
    <2>2. FlattenSeq(p)[(k - 1) * 1 + 1] = p[k][1]
      BY <1>6, <2>1
    <2>3. p[k][1] = text[k]
      BY <1>3
    <2>4. QED
      BY <2>1, <2>2, <2>3
  <1>9. QED
    BY <1>2, <1>6, <1>7, <1>8, SeqEqual

\* A stretch of a text.
Stretch(f, p, q) == [i \in 1..q - p |-> f[p + i]]

\* It is as long as it says, and has the elements of the text.
LEMMA StretchType ==
  ASSUME NEW S, NEW f \in Seq(S), NEW p \in 0..Len(f), NEW q \in p..Len(f)
  PROVE  /\ Stretch(f, p, q) \in Seq(S) /\ Len(Stretch(f, p, q)) = q - p
         /\ \A i \in 1..q - p : Stretch(f, p, q)[i] = f[p + i]
  <1>1. q - p \in Nat /\ \A i \in 1..q - p : f[p + i] \in S
    OBVIOUS
  <1>2. QED
    BY <1>1 DEF Stretch

\* Two that meet are one.
LEMMA StretchesJoin ==
  ASSUME NEW S, NEW f \in Seq(S), NEW p \in 0..Len(f), NEW q \in p..Len(f), NEW r \in q..Len(f)
  PROVE  Stretch(f, p, q) \o Stretch(f, q, r) = Stretch(f, p, r)
  <1> DEFINE a == Stretch(f, p, q)
             b == Stretch(f, q, r)
             c == Stretch(f, p, r)
  <1>1. /\ a \in Seq(S) /\ Len(a) = q - p /\ \A i \in 1..q - p : a[i] = f[p + i]
        /\ b \in Seq(S) /\ Len(b) = r - q /\ \A i \in 1..r - q : b[i] = f[q + i]
        /\ c \in Seq(S) /\ Len(c) = r - p /\ \A i \in 1..r - p : c[i] = f[p + i]
    <2>1. q \in 0..Len(f) /\ r \in p..Len(f)
      OBVIOUS
    <2>2. QED
      BY <2>1, StretchType
  <1> HIDE DEF a, b, c
  <1>2. \A i \in 1..Len(a) : c[i] = a[i]
    <2>1. \A i \in 1..Len(a) : i \in 1..q - p /\ i \in 1..r - p
      BY <1>1
    <2>2. QED
      BY <1>1, <2>1
  <1>3. \A i \in 1..Len(b) : c[Len(a) + i] = b[i]
    <2>1. \A i \in 1..Len(b) : i \in 1..r - q /\ Len(a) + i \in 1..r - p /\ p + (Len(a) + i) = q + i
      BY <1>1
    <2>2. QED
      BY <1>1, <2>1
  <1>4. Len(c) = Len(a) + Len(b)
    BY <1>1
  <1>5. c = a \o b
    BY <1>1, <1>2, <1>3, <1>4, BothParts
  <1>6. QED
    BY <1>5 DEF a, b, c

\* All of it.
LEMMA StretchWhole ==
  ASSUME NEW S, NEW f \in Seq(S)
  PROVE  Stretch(f, 0, Len(f)) = f
  <1>1. Len(f) \in Nat /\ 0 \in 0..Len(f) /\ Len(f) \in 0..Len(f)
    OBVIOUS
  <1>2. Stretch(f, 0, Len(f)) \in Seq(S) /\ Len(Stretch(f, 0, Len(f))) = Len(f) - 0
        /\ \A i \in 1..Len(f) - 0 : Stretch(f, 0, Len(f))[i] = f[0 + i]
    BY <1>1, StretchType
  <1>3. \A i \in 1..Len(f) : Stretch(f, 0, Len(f))[i] = f[i]
    BY <1>1, <1>2
  <1>4. QED
    BY <1>1, <1>2, <1>3, SeqEqual

-----------------------------------------------------------------------------
(* Picking from part after part.                                           *)

\* The first k of several sequences, put together.
FrontOf(seqs, k) == FlattenSeq(SubSeq(seqs, 1, k))

\* From sequence to sequence.
LEMMA FrontSteps ==
  ASSUME NEW S, NEW seqs \in Seq(Seq(S))
  PROVE  /\ FrontOf(seqs, 0) = <<>> /\ FrontOf(seqs, Len(seqs)) = FlattenSeq(seqs)
         /\ \A k \in 0..Len(seqs) : FrontOf(seqs, k) \in Seq(S)
         /\ \A k \in 0..Len(seqs) - 1 : FrontOf(seqs, k + 1) = FrontOf(seqs, k) \o seqs[k + 1]
  <1>1. Len(seqs) \in Nat /\ 0 \in 0..Len(seqs)
    OBVIOUS
  <1>2. FrontOf(seqs, Len(seqs)) = FlattenSeq(seqs)
    BY BeginningWhole DEF FrontOf
  <1>3. ASSUME NEW k \in 0..Len(seqs) PROVE FrontOf(seqs, k) \in Seq(S)
    <2>1. SubSeq(seqs, 1, k) \in Seq(Seq(S))
      BY Beginning
    <2>2. QED
      BY <2>1, FlattenType DEF FrontOf
  <1>4. FrontOf(seqs, 0) = <<>>
    <2>1. SubSeq(seqs, 1, 0) \in Seq(Seq(S)) /\ Len(SubSeq(seqs, 1, 0)) = 0
      BY <1>1, Beginning
    <2>2. SubSeq(seqs, 1, 0) = <<>>
      BY <2>1
    <2>3. QED
      BY <2>2, FlattenEmpty DEF FrontOf
  <1>5. ASSUME NEW k \in 0..Len(seqs) - 1 PROVE FrontOf(seqs, k + 1) = FrontOf(seqs, k) \o seqs[k + 1]
    <2>1. k \in Nat /\ k + 1 \in 0..Len(seqs) /\ k \in 0..Len(seqs) /\ k + 1 \in 1..Len(seqs)
      BY <1>1
    <2>2. PICK s \in Seq(S) : s = seqs[k + 1]
      BY <2>1
    <2>3. PICK a \in Seq(Seq(S)) : a = SubSeq(seqs, 1, k)
      BY <2>1, Beginning
    <2>4. PICK b \in Seq(Seq(S)) : b = <<s>>
      <3>1. <<s>> \in Seq(Seq(S))
        OBVIOUS
      <3>2. QED
        BY <3>1
    <2>5. PICK c \in Seq(Seq(S)) : c = SubSeq(seqs, 1, k + 1)
      BY <2>1, Beginning
    <2>6. /\ Len(a) = k /\ \A i \in 1..k : a[i] = seqs[i]
          /\ Len(b) = 1 /\ b[1] = s
          /\ Len(c) = k + 1 /\ \A i \in 1..k + 1 : c[i] = seqs[i]
      BY <2>1, <2>3, <2>4, <2>5, Beginning
    <2>7. \A i \in 1..Len(a) : c[i] = a[i]
      <3>1. \A i \in 1..Len(a) : i \in 1..k /\ i \in 1..k + 1
        BY <2>1, <2>6
      <3>2. QED
        BY <2>6, <3>1
    <2>8. \A i \in 1..Len(b) : c[Len(a) + i] = b[i]
      BY <2>1, <2>2, <2>6
    <2>9. c = a \o b
      <3>1. Len(c) = Len(a) + Len(b)
        BY <2>6
      <3>2. QED
        BY <2>7, <2>8, <3>1, BothParts
    <2>10. FlattenSeq(c) = FlattenSeq(a) \o FlattenSeq(b) /\ FlattenSeq(b) = s
      BY <2>4, <2>9, FlattenConcat, FlattenSingle
    <2>11. QED
      BY <2>2, <2>3, <2>5, <2>10 DEF FrontOf
  <1>6. QED
    BY <1>2, <1>3, <1>4, <1>5

\* Counting goes up to n.
Up(x, n) == IF x < n THEN x ELSE n

\* The cells that tell of all octets.
OctetCells(src) == [i \in 1..Len(src) |-> <<"octet", src[i]>>]
CharCells(src) == [i \in 1..Len(src) |-> Char(src[i])]

\* They are cells of their kinds.
LEMMA AllCells ==
  ASSUME NEW src \in Seq(Nat)
  PROVE  /\ OctetCells(src) \in Seq(Cell) /\ Len(OctetCells(src)) = Len(src)
         /\ \A i \in 1..Len(src) : OctetCells(src)[i] = <<"octet", src[i]>>
         /\ CharCells(src) \in Seq(Cell) /\ Len(CharCells(src)) = Len(src)
         /\ \A i \in 1..Len(src) : CharCells(src)[i] = Char(src[i])
  <1>1. Len(src) \in Nat
    OBVIOUS
  <1>2. ASSUME NEW i \in 1..Len(src) PROVE <<"octet", src[i]>> \in Cell /\ Char(src[i]) \in Cell
    <2>1. src[i] \in Nat
      OBVIOUS
    <2>2. <<"octet", src[i]>> \in Cell
      BY <2>1 DEF Cell, GroupCell
    <2>3. \A c \in Nat \cup {"."} : <<"char", c>> \in Cell
      BY DEF Cell, CharCell
    <2>4. (IF src[i] \in Printable THEN src[i] ELSE ".") \in Nat \cup {"."}
      BY <2>1
    <2>5. QED
      BY <2>2, <2>3, <2>4 DEF Char
  <1>3. \A f : (f = [i \in 1..Len(src) |-> f[i]] /\ \A i \in 1..Len(src) : f[i] \in Cell)
                  => f \in Seq(Cell) /\ Len(f) = Len(src)
    BY <1>1
  <1>4. /\ \A i \in 1..Len(src) : OctetCells(src)[i] = <<"octet", src[i]>>
        /\ \A i \in 1..Len(src) : CharCells(src)[i] = Char(src[i])
        /\ OctetCells(src) = [i \in 1..Len(src) |-> OctetCells(src)[i]]
        /\ CharCells(src) = [i \in 1..Len(src) |-> CharCells(src)[i]]
    BY DEF OctetCells, CharCells
  <1>5. QED
    BY <1>2, <1>3, <1>4

\* The octets of a text of which only the first c cells are such.
LEMMA CellsFirst ==
  ASSUME NEW S, NEW text \in Seq(S), NEW kind, NEW c \in 0..Len(text),
         \A i \in 1..Len(text) : text[i][1] = kind <=> i <= c
  PROVE  Cells(text, kind) = Stretch(text, 0, c)
  <1>1. Len(text) \in Nat /\ 0 \in 0..Len(text) /\ c \in 0..Len(text) /\ Len(text) \in c..Len(text) /\ c \in Nat
    OBVIOUS
  <1>2. PICK a \in Seq(S) : a = Stretch(text, 0, c)
    BY <1>1, StretchType
  <1>3. PICK b \in Seq(S) : b = Stretch(text, c, Len(text))
    BY <1>1, StretchType
  <1>4. Len(a) = c - 0 /\ \A i \in 1..c - 0 : a[i] = text[0 + i]
    BY <1>1, <1>2, StretchType
  <1>5. Len(b) = Len(text) - c /\ \A i \in 1..Len(text) - c : b[i] = text[c + i]
    BY <1>1, <1>3, StretchType
  <1>6. \A i \in 1..Len(a) : a[i][1] = kind
    <2>1. \A i \in 1..Len(a) : i \in 1..c - 0 /\ 0 + i = i /\ i \in 1..Len(text) /\ i <= c
      BY <1>1, <1>4
    <2>2. QED
      BY <1>4, <2>1
  <1>7. \A i \in 1..Len(b) : b[i][1] # kind
    <2>1. \A i \in 1..Len(b) : i \in 1..Len(text) - c /\ c + i \in 1..Len(text) /\ ~(c + i <= c)
      BY <1>1, <1>5
    <2>2. QED
      BY <1>5, <2>1
  <1>8. Cells(a, kind) = a /\ Cells(b, kind) = <<>>
    BY <1>6, <1>7, CellsAll, CellsNone
  <1>9. a \o b = text
    <2>1. Stretch(text, 0, c) \o Stretch(text, c, Len(text)) = Stretch(text, 0, Len(text))
      BY <1>1, StretchesJoin
    <2>2. QED
      BY <1>2, <1>3, <2>1, StretchWhole
  <1>10. Cells(text, kind) = a \o <<>>
    <2>1. Cells(a \o b, kind) = Cells(a, kind) \o Cells(b, kind)
      BY CellsConcat
    <2>2. QED
      BY <1>8, <1>9, <2>1
  <1>11. QED
    BY <1>2, <1>10

-----------------------------------------------------------------------------
(* The octets of a line.                                                   *)

\* A sequence is one of whatever its elements are.
LEMMA ElementsOf ==
  ASSUME NEW S, NEW T, NEW t \in Seq(S), \A i \in 1..Len(t) : t[i] \in T
  PROVE  t \in Seq(T)
  <1>1. Len(t) \in Nat /\ t = [i \in 1..Len(t) |-> t[i]]
    OBVIOUS
  <1>2. QED
    BY <1>1

\* The octets told by places base + 1 to base + size, as far as there are any.
LEMMA OctetsOfRun ==
  ASSUME NEW src \in Seq(Nat), NEW base \in Nat, NEW size \in Nat, NEW text \in Seq(Cell), Len(text) = size,
         \A i \in 1..size : text[i] = Octet(src, base, i)
  PROVE  Cells(text, "octet") = Stretch(OctetCells(src), Up(base, Len(src)), Up(base + size, Len(src)))
  <1> DEFINE n == Len(src)
             p == Up(base, n)
             q == Up(base + size, n)
             c == q - p
  <1>1. n \in Nat
    OBVIOUS
  <1>2. p \in Nat /\ q \in Nat /\ p <= q /\ q <= n /\ c \in 0..size /\ (c > 0 => p = base)
    BY <1>1 DEF Up
  <1>3. \A i \in 1..size : base + i <= n <=> i <= c
    BY <1>1 DEF Up
  <1>4. PICK f \in Seq(Cell) : f = OctetCells(src)
    BY AllCells
  <1>5. Len(f) = n /\ \A i \in 1..n : f[i] = <<"octet", src[i]>>
    BY <1>4, AllCells
  <1> HIDE DEF n, p, q, c
  <1>6. ASSUME NEW i \in 1..size
        PROVE  /\ i <= c => text[i] = <<"octet", src[base + i]>>
               /\ ~(i <= c) => text[i] = <<"blank">>
    BY <1>3 DEF Octet, n
  <1>7. \A i \in 1..Len(text) : text[i][1] = "octet" <=> i <= c
    <2>1. \A i \in 1..size : i <= c => text[i][1] = "octet"
      BY <1>6
    <2>2. \A i \in 1..size : ~(i <= c) => text[i][1] = "blank"
      BY <1>6
    <2>3. QED
      BY <2>1, <2>2
  <1>8. c \in 0..Len(text) /\ c \in Nat /\ 0 \in 0..Len(text) /\ c \in 0..Len(text)
    BY <1>2
  <1>9. PICK a \in Seq(Cell) : a = Stretch(text, 0, c)
    BY <1>8, StretchType
  <1>10. Len(a) = c - 0 /\ \A i \in 1..c - 0 : a[i] = text[0 + i]
    BY <1>8, <1>9, StretchType
  <1>11. p \in 0..Len(f) /\ q \in p..Len(f) /\ q - p = c
    BY <1>1, <1>2, <1>5 DEF c
  <1>12. PICK b \in Seq(Cell) : b = Stretch(f, p, q)
    BY <1>11, StretchType
  <1>13. Len(b) = c /\ \A i \in 1..c : b[i] = f[p + i]
    BY <1>11, <1>12, StretchType
  <1>14. \A i \in 1..Len(a) : a[i] = b[i]
    <2> SUFFICES ASSUME NEW i \in 1..Len(a) PROVE a[i] = b[i]
      OBVIOUS
    <2>1. i \in 1..c /\ i \in 1..c - 0 /\ 0 + i = i /\ i \in 1..size /\ i <= c /\ p = base
      BY <1>2, <1>8, <1>10
    <2>2. a[i] = <<"octet", src[base + i]>>
      BY <1>6, <1>10, <2>1
    <2>3. base + i \in 1..n
      BY <1>1, <1>3, <2>1
    <2>4. QED
      BY <1>5, <1>13, <2>1, <2>2, <2>3
  <1>15. a = b
    BY <1>8, <1>10, <1>13, <1>14, SeqEqual
  <1>16. Cells(text, "octet") = a
    BY <1>7, <1>8, <1>9, CellsFirst
  <1>17. QED
    BY <1>4, <1>12, <1>15, <1>16 DEF n, p, q

\* The octets of a group.
LEMMA OctetsOfGroup ==
  ASSUME NEW src \in Seq(Nat), NEW first \in Nat, NEW h \in Nat
  PROVE  Cells(Group(src, first, h + 1), "octet") =
           Stretch(OctetCells(src), Up(first + h * DUMP_OCTETS_PER_GROUP, Len(src)),
                                    Up(first + (h + 1) * DUMP_OCTETS_PER_GROUP, Len(src)))
  <1> DEFINE P == DUMP_OCTETS_PER_GROUP
             octets == [i \in 1..P |-> Octet(src, first, ((h + 1) - 1) * P + i)]
  <1>1. P \in Nat
    BY DumpSizes
  <1>2. PICK d \in Nat : d = h * P
    BY <1>1
  <1>3. (h + 1) * P = d + P
    BY <1>1, <1>2, NextMultiple
  <1>4. \A i \in 1..P : octets[i] = Octet(src, first + d, i) /\ octets[i] \in GroupCell
    <2> SUFFICES ASSUME NEW i \in 1..P PROVE octets[i] = Octet(src, first + d, i) /\ octets[i] \in GroupCell
      OBVIOUS
    <2>1. octets[i] = Octet(src, first, ((h + 1) - 1) * P + i)
      OBVIOUS
    <2>2. (h + 1) - 1 = h
      OBVIOUS
    <2>3. octets[i] = Octet(src, first, d + i)
      BY <1>2, <2>1, <2>2
    <2>4. d + i \in Nat /\ d + i > 0 /\ first + (d + i) = (first + d) + i
      BY <1>1
    <2>5. Octet(src, first, d + i) \in GroupCell
      BY <2>4, OctetType
    <2>6. Octet(src, first, d + i) = Octet(src, first + d, i)
      BY <2>4 DEF Octet
    <2>7. QED
      BY <2>3, <2>5, <2>6
  <1>5. octets \in Seq(GroupCell) /\ Len(octets) = P
    <2>1. octets = [i \in 1..P |-> octets[i]]
      OBVIOUS
    <2> HIDE DEF octets
    <2>2. QED
      BY <1>1, <1>4, <2>1
  <1>6. octets \in Seq(Cell)
    BY <1>5, PartsAreCells
  <1>7. Group(src, first, h + 1) = octets \o <<<<"space">>>>
    BY DEF Group
  <1> HIDE DEF octets
  <1>8. <<"space">> \in Cell
    BY DEF Cell, GroupCell
  <1>9. PICK blank \in Seq(Cell) : blank = <<<<"space">>>>
    <2>1. <<<<"space">>>> \in Seq(Cell)
      BY <1>8
    <2>2. QED
      BY <2>1
  <1>10. Len(blank) = 1 /\ \A i \in 1..Len(blank) : blank[i][1] # "octet"
    <2>1. Len(blank) = 1 /\ blank[1] = <<"space">> /\ blank[1][1] = "space"
      BY <1>9
    <2>2. QED
      BY <2>1
  <1>11. Cells(blank, "octet") = <<>>
    BY <1>10, CellsNone
  <1>12. Cells(octets, "octet") = Stretch(OctetCells(src), Up(first + d, Len(src)), Up((first + d) + P, Len(src)))
    <2>1. first + d \in Nat
      OBVIOUS
    <2>2. QED
      BY <1>1, <1>4, <1>5, <1>6, <2>1, OctetsOfRun
  <1>13. Cells(octets \o blank, "octet") = Cells(octets, "octet") \o <<>>
    <2>1. Cells(octets \o blank, "octet") = Cells(octets, "octet") \o Cells(blank, "octet")
      BY <1>6, CellsConcat
    <2>2. QED
      BY <1>11, <2>1
  <1>14. Cells(octets, "octet") \o <<>> = Cells(octets, "octet")
    <2>1. Cells(octets, "octet") \in Seq(Cell)
      BY <1>6, PickedType
    <2>2. QED
      BY <2>1
  <1>15. (first + d) + P = first + (d + P)
    BY <1>1
  <1>16. QED
    BY <1>2, <1>3, <1>7, <1>9, <1>12, <1>13, <1>14, <1>15

\* The octets of all groups of a line.
LEMMA OctetsOfGroups ==
  ASSUME NEW src \in Seq(Nat), NEW first \in Nat
  PROVE  Cells(FlattenSeq(GroupsOf(src, first)), "octet") =
           Stretch(OctetCells(src), Up(first, Len(src)), Up(first + DUMP_OCTETS_PER_LINE, Len(src)))
  <1> DEFINE P == DUMP_OCTETS_PER_GROUP
             m == DUMP_OCTETS_PER_LINE \div P
             n == Len(src)
             told(h) == Stretch(OctetCells(src), Up(first, n), Up(first + h * P, n))
  <1>1. P \in Nat /\ m \in Nat /\ DUMP_OCTETS_PER_LINE = m * P /\ n \in Nat
    BY DumpSizes
  <1> HIDE DEF P, m, n
  <1>2. PICK groups \in Seq(Seq(Cell)) : groups = GroupsOf(src, first)
    <2>1. GroupsOf(src, first) \in Seq(Seq(GroupCell))
      BY GroupsType
    <2>2. GroupsOf(src, first) \in Seq(Seq(Cell))
      <3>1. \A t \in Seq(Seq(GroupCell)) : t \in Seq(Seq(Cell))
        <4> SUFFICES ASSUME NEW t \in Seq(Seq(GroupCell)) PROVE t \in Seq(Seq(Cell))
          OBVIOUS
        <4>1. \A i \in 1..Len(t) : t[i] \in Seq(Cell)
          BY PartsAreCells
        <4>2. QED
          BY <4>1, ElementsOf
      <3>2. QED
        BY <2>1, <3>1
    <2>3. QED
      BY <2>2
  <1>3. Len(groups) = m /\ \A h \in 1..m : groups[h] = Group(src, first, h)
    <2>1. Len(groups) = m
      BY <1>2, GroupsType DEF m, P
    <2>2. \A h \in 1..m : groups[h] = Group(src, first, h)
      BY <1>2 DEF GroupsOf, m, P
    <2>3. QED
      BY <2>1, <2>2
  <1>4. \A h \in Nat : /\ first + h * P \in Nat /\ Up(first, n) \in 0..n
                       /\ Up(first + h * P, n) \in Up(first, n)..n
                       /\ Up(first + (h + 1) * P, n) \in Up(first + h * P, n)..n
    <2> SUFFICES ASSUME NEW h \in Nat
                 PROVE  /\ first + h * P \in Nat /\ Up(first, n) \in 0..n
                        /\ Up(first + h * P, n) \in Up(first, n)..n
                        /\ Up(first + (h + 1) * P, n) \in Up(first + h * P, n)..n
      OBVIOUS
    <2>1. PICK d \in Nat : d = h * P
      BY <1>1
    <2>2. PICK e \in Nat : e = (h + 1) * P
      BY <1>1
    <2>3. e = d + P
      BY <1>1, <2>1, <2>2, NextMultiple
    <2>4. /\ first + d \in Nat /\ Up(first, n) \in 0..n
          /\ Up(first + d, n) \in Up(first, n)..n
          /\ Up(first + e, n) \in Up(first + d, n)..n
      BY <1>1, <2>3 DEF Up
    <2>5. QED
      BY <2>1, <2>2, <2>4
  <1> DEFINE S == {h \in Nat : h <= m => Cells(FrontOf(groups, h), "octet") = told(h)}
  <1>5. PICK f \in Seq(Cell) : f = OctetCells(src) /\ Len(f) = n
    BY AllCells DEF n
  <1>6. 0 \in S
    <2>1. FrontOf(groups, 0) = <<>> /\ <<>> \in Seq(Cell)
      BY FrontSteps
    <2>2. Cells(<<>>, "octet") = <<>>
      <3>1. \A i \in 1..Len(<<>>) : <<>>[i][1] # "octet"
        OBVIOUS
      <3>2. QED
        BY <2>1, <3>1, CellsNone
    <2>3. first + 0 * P = first /\ Up(first, n) \in 0..n
      BY <1>1, <1>4
    <2>4. told(0) = <<>>
      <3>1. PICK p \in 0..Len(f) : p = Up(first, n)
        BY <1>5, <2>3
      <3>2. p \in p..Len(f)
        BY <1>1, <1>5
      <3>3. Stretch(f, p, p) \in Seq(Cell) /\ Len(Stretch(f, p, p)) = p - p
        BY <3>2, StretchType
      <3>4. Len(Stretch(f, p, p)) = 0
        BY <1>1, <1>5, <3>3
      <3>5. Stretch(f, p, p) = <<>>
        BY <3>3, <3>4
      <3>6. QED
        BY <1>5, <2>3, <3>1, <3>5
    <2>5. QED
      BY <2>1, <2>2, <2>4
  <1>7. ASSUME NEW h \in S PROVE h + 1 \in S
    <2>1. SUFFICES ASSUME h + 1 <= m PROVE Cells(FrontOf(groups, h + 1), "octet") = told(h + 1)
      OBVIOUS
    <2>2. h \in Nat /\ h \in 0..Len(groups) - 1 /\ h \in 0..Len(groups) /\ h + 1 \in 1..m
      BY <1>1, <1>3, <2>1
    <2>3. Cells(FrontOf(groups, h), "octet") = told(h)
      BY <2>2, <1>1, <1>3
    <2>4. FrontOf(groups, h + 1) = FrontOf(groups, h) \o groups[h + 1] /\ FrontOf(groups, h) \in Seq(Cell)
      BY <2>2, FrontSteps
    <2>5. groups[h + 1] = Group(src, first, h + 1) /\ groups[h + 1] \in Seq(Cell)
      BY <1>3, <2>2
    <2>6. Cells(groups[h + 1], "octet") = Stretch(f, Up(first + h * P, n), Up(first + (h + 1) * P, n))
      BY <1>5, <2>2, <2>5, OctetsOfGroup DEF P, n
    <2>7. Cells(FrontOf(groups, h) \o groups[h + 1], "octet") = Cells(FrontOf(groups, h), "octet") \o Cells(groups[h + 1], "octet")
      <3>1. \A a, b \in Seq(Cell) : Cells(a \o b, "octet") = Cells(a, "octet") \o Cells(b, "octet")
        BY CellsConcat
      <3>2. QED
        BY <2>4, <2>5, <3>1
    <2>8. Stretch(f, Up(first, n), Up(first + h * P, n)) \o Stretch(f, Up(first + h * P, n), Up(first + (h + 1) * P, n))
            = Stretch(f, Up(first, n), Up(first + (h + 1) * P, n))
      BY <1>4, <1>5, <2>2, StretchesJoin
    <2>9. QED
      BY <1>5, <2>3, <2>4, <2>6, <2>7, <2>8
  <1> HIDE DEF S
  <1>8. m \in S
    <2>1. \A h \in S \cap Nat : h + 1 \in S
      BY <1>7
    <2>2. QED
      BY <1>1, <1>6, <2>1, Induction
  <1>9. Cells(FrontOf(groups, m), "octet") = told(m)
    BY <1>1, <1>8 DEF S
  <1>10. FrontOf(groups, m) = FlattenSeq(groups)
    BY <1>3, FrontSteps
  <1>11. QED
    BY <1>1, <1>2, <1>9, <1>10 DEF n

-----------------------------------------------------------------------------
(* Where the places of a line come from.                                   *)

\* Where each place of five parts t comes from, of which the first and the last are
\* of length 1, the others of lengths l, m and k.
Places(l, m, k, u, v, w, e, z0, t) ==
    /\ t[1] = u[1]
    /\ \A i \in 1..2 + l + m + k :
          \/ i = 1
          \/ i <= 1 + l + m /\ \E j \in 1..l : t[i] = v[j]
          \/ i <= 1 + l + m /\ \E j \in 1..m : t[i] = w[j]
          \/ i > 1 + l + m /\ i < 2 + l + m + k /\ \E j \in 1..k : t[i] = e[j]
          \/ i = 2 + l + m + k /\ t[i] = z0[1]

\* t is five parts, laid one after the other: x, y and z are the first two, three and four.
Laid(l, m, k, u, v, w, e, z0, x, y, z, t) ==
    /\ \A i \in 1..1 : x[i] = u[i]
    /\ \A j \in 1..l : x[1 + j] = v[j]
    /\ \A i \in 1..1 + l : y[i] = x[i]
    /\ \A j \in 1..m : y[1 + l + j] = w[j]
    /\ \A i \in 1..1 + l + m : z[i] = y[i]
    /\ \A j \in 1..k : z[1 + l + m + j] = e[j]
    /\ \A i \in 1..1 + l + m + k : t[i] = z[i]
    /\ \A j \in 1..1 : t[1 + l + m + k + j] = z0[j]

\* Then each place comes from one of them.
LEMMA PlacesOfFive ==
  \A l, m, k \in Nat : \A u, v, w, e, z0, x, y, z, t :
      Laid(l, m, k, u, v, w, e, z0, x, y, z, t) => Places(l, m, k, u, v, w, e, z0, t)
  <1> SUFFICES ASSUME NEW l \in Nat, NEW m \in Nat, NEW k \in Nat,
                      NEW u, NEW v, NEW w, NEW e, NEW z0, NEW x, NEW y, NEW z, NEW t,
                      Laid(l, m, k, u, v, w, e, z0, x, y, z, t)
               PROVE  Places(l, m, k, u, v, w, e, z0, t)
    BY Zenon
  <1> USE DEF Laid
  <1>1. t[1] = u[1]
    OBVIOUS
  <1>2. ASSUME NEW i \in 1..2 + l + m + k
        PROVE  \/ i = 1
               \/ i <= 1 + l + m /\ \E j \in 1..l : t[i] = v[j]
               \/ i <= 1 + l + m /\ \E j \in 1..m : t[i] = w[j]
               \/ i > 1 + l + m /\ i < 2 + l + m + k /\ \E j \in 1..k : t[i] = e[j]
               \/ i = 2 + l + m + k /\ t[i] = z0[1]
    <2>1. CASE i > 1 /\ i <= 1 + l
      <3>1. i - 1 \in 1..l /\ i = 1 + (i - 1)
        BY <2>1
      <3>2. t[i] = v[i - 1]
        BY <2>1, <3>1
      <3>3. QED
        BY <2>1, <3>1, <3>2
    <2>2. CASE i > 1 + l /\ i <= 1 + l + m
      <3>1. i - (1 + l) \in 1..m /\ i = 1 + l + (i - (1 + l))
        BY <2>2
      <3>2. t[i] = w[i - (1 + l)]
        BY <2>2, <3>1
      <3>3. QED
        BY <2>2, <3>1, <3>2
    <2>3. CASE i > 1 + l + m /\ i <= 1 + l + m + k
      <3>1. i - (1 + l + m) \in 1..k /\ i = 1 + l + m + (i - (1 + l + m))
        BY <2>3
      <3>2. t[i] = e[i - (1 + l + m)]
        BY <2>3, <3>1
      <3>3. QED
        BY <2>3, <3>1, <3>2
    <2>4. CASE i > 1 + l + m + k
      BY <2>4
    <2>5. QED
      BY <2>1, <2>2, <2>3, <2>4
  <1>3. QED
    BY <1>1, <1>2, Zenon DEF Places

\* Texts put together, and what is picked from them.
LEMMA TextsJoin ==
  \A p, q \in Seq(Cell) : p \o q \in Seq(Cell) /\ Len(p \o q) = Len(p) + Len(q) /\ Len(q) \in Nat
  BY Joint

\* The first text is found at its beginning,
LEMMA FirstText ==
  \A p, q \in Seq(Cell) : \A i \in 1..Len(p) : (p \o q)[i] = p[i]
  BY Joint

\* and the second behind it.
LEMMA SecondText ==
  \A p, q \in Seq(Cell) : \A i \in 1..Len(q) : (p \o q)[Len(p) + i] = q[i]
  BY Joint

\* Picking goes over to both.
LEMMA CellsJoin ==
  ASSUME NEW kind
  PROVE  \A p, q \in Seq(Cell) : Cells(p \o q, kind) = Cells(p, kind) \o Cells(q, kind)
  BY CellsConcat

\* Where each place of five parts comes from.
LEMMA FiveParts ==
  ASSUME NEW u, NEW v, NEW w, NEW e, NEW z0,
         u \in Seq(Cell), v \in Seq(Cell), w \in Seq(Cell), e \in Seq(Cell), z0 \in Seq(Cell),
         Len(u) = 1, Len(z0) = 1
  PROVE  \E t \in Seq(Cell), l, m, k \in Nat :
            /\ t = u \o v \o w \o e \o z0 /\ Len(t) = 2 + l + m + k
            /\ l = Len(v) /\ m = Len(w) /\ k = Len(e)
            /\ Places(l, m, k, u, v, w, e, z0, t)
  <1>1. PICK x : x = u \o v /\ x \in Seq(Cell)
    BY TextsJoin, Zenon
  <1>2. PICK y : y = x \o w /\ y \in Seq(Cell)
    BY <1>1, TextsJoin, Zenon
  <1>3. PICK z : z = y \o e /\ z \in Seq(Cell)
    BY <1>2, TextsJoin, Zenon
  <1>4. PICK t : t = z \o z0 /\ t \in Seq(Cell)
    BY <1>3, TextsJoin, Zenon
  <1>5. /\ Len(x) = Len(u) + Len(v) /\ Len(v) \in Nat
        /\ \A i \in 1..Len(u) : x[i] = u[i]
        /\ \A j \in 1..Len(v) : x[Len(u) + j] = v[j]
    <2>1. Len(x) = Len(u) + Len(v) /\ Len(v) \in Nat
      BY <1>1, TextsJoin, Zenon
    <2>2. \A i \in 1..Len(u) : x[i] = u[i]
      BY <1>1, FirstText, Zenon
    <2>3. \A j \in 1..Len(v) : x[Len(u) + j] = v[j]
      BY <1>1, SecondText, Zenon
    <2>4. QED
      BY <2>1, <2>2, <2>3, Zenon
  <1>6. /\ Len(y) = Len(x) + Len(w) /\ Len(w) \in Nat
        /\ \A i \in 1..Len(x) : y[i] = x[i]
        /\ \A j \in 1..Len(w) : y[Len(x) + j] = w[j]
    <2>1. Len(y) = Len(x) + Len(w) /\ Len(w) \in Nat
      BY <1>1, <1>2, TextsJoin, Zenon
    <2>2. \A i \in 1..Len(x) : y[i] = x[i]
      BY <1>1, <1>2, FirstText, Zenon
    <2>3. \A j \in 1..Len(w) : y[Len(x) + j] = w[j]
      BY <1>1, <1>2, SecondText, Zenon
    <2>4. QED
      BY <2>1, <2>2, <2>3, Zenon
  <1>7. /\ Len(z) = Len(y) + Len(e) /\ Len(e) \in Nat
        /\ \A i \in 1..Len(y) : z[i] = y[i]
        /\ \A j \in 1..Len(e) : z[Len(y) + j] = e[j]
    <2>1. Len(z) = Len(y) + Len(e) /\ Len(e) \in Nat
      BY <1>2, <1>3, TextsJoin, Zenon
    <2>2. \A i \in 1..Len(y) : z[i] = y[i]
      BY <1>2, <1>3, FirstText, Zenon
    <2>3. \A j \in 1..Len(e) : z[Len(y) + j] = e[j]
      BY <1>2, <1>3, SecondText, Zenon
    <2>4. QED
      BY <2>1, <2>2, <2>3, Zenon
  <1>8. /\ Len(t) = Len(z) + Len(z0) /\ Len(z0) \in Nat
        /\ \A i \in 1..Len(z) : t[i] = z[i]
        /\ \A j \in 1..Len(z0) : t[Len(z) + j] = z0[j]
    <2>1. Len(t) = Len(z) + Len(z0) /\ Len(z0) \in Nat
      BY <1>3, <1>4, TextsJoin, Zenon
    <2>2. \A i \in 1..Len(z) : t[i] = z[i]
      BY <1>3, <1>4, FirstText, Zenon
    <2>3. \A j \in 1..Len(z0) : t[Len(z) + j] = z0[j]
      BY <1>3, <1>4, SecondText, Zenon
    <2>4. QED
      BY <2>1, <2>2, <2>3, Zenon
  <1>9. PICK l \in Nat, m \in Nat, k \in Nat : l = Len(v) /\ m = Len(w) /\ k = Len(e)
    BY <1>5, <1>6, <1>7, Zenon
  <1>10. Len(x) = 1 + l /\ Len(y) = 1 + l + m /\ Len(z) = 1 + l + m + k /\ Len(t) = 1 + l + m + k + 1
    BY <1>5, <1>6, <1>7, <1>8, <1>9, Zenon
  <1>11. 1 + l + m + k + 1 = 2 + l + m + k
    <2>1. \A p, q, r \in Nat : 1 + p + q + r + 1 = 2 + p + q + r
      OBVIOUS
    <2>2. QED
      BY <2>1, Zenon
  <1>12. /\ \A i \in 1..1 : x[i] = u[i]
         /\ \A j \in 1..l : x[1 + j] = v[j]
    BY <1>5, <1>9, Zenon
  <1>13. /\ \A i \in 1..1 + l : y[i] = x[i]
         /\ \A j \in 1..m : y[1 + l + j] = w[j]
    BY <1>6, <1>9, <1>10, Zenon
  <1>14. /\ \A i \in 1..1 + l + m : z[i] = y[i]
         /\ \A j \in 1..k : z[1 + l + m + j] = e[j]
    BY <1>7, <1>9, <1>10, Zenon
  <1>15. /\ \A i \in 1..1 + l + m + k : t[i] = z[i]
         /\ \A j \in 1..1 : t[1 + l + m + k + j] = z0[j]
    BY <1>8, <1>10, Zenon
  <1>16. Places(l, m, k, u, v, w, e, z0, t)
    <2>1. Laid(l, m, k, u, v, w, e, z0, x, y, z, t)
      BY <1>12, <1>13, <1>14, <1>15, Zenon DEF Laid
    <2>2. QED
      BY <1>9, <2>1, PlacesOfFive, Zenon
  <1>17. t = u \o v \o w \o e \o z0
    BY <1>1, <1>2, <1>3, <1>4, Zenon
  <1>18. Len(t) = 2 + l + m + k
    BY <1>10, <1>11, Zenon
  <1>19. t \in Seq(Cell)
    BY <1>4
  <1>20. QED
    BY <1>9, <1>16, <1>17, <1>18, <1>19, Zenon

\* What is picked from five parts.
LEMMA CellsOfFive ==
  ASSUME NEW u, NEW v, NEW w, NEW e, NEW z0, NEW kind,
         u \in Seq(Cell), v \in Seq(Cell), w \in Seq(Cell), e \in Seq(Cell), z0 \in Seq(Cell)
  PROVE  Cells(u \o v \o w \o e \o z0, kind) =
           Cells(u, kind) \o Cells(v, kind) \o Cells(w, kind) \o Cells(e, kind) \o Cells(z0, kind)
  <1>1. PICK x : x = u \o v /\ x \in Seq(Cell)
    BY TextsJoin, Zenon
  <1>2. PICK y : y = x \o w /\ y \in Seq(Cell)
    BY <1>1, TextsJoin, Zenon
  <1>3. PICK z : z = y \o e /\ z \in Seq(Cell)
    BY <1>2, TextsJoin, Zenon
  <1>4. Cells(x, kind) = Cells(u, kind) \o Cells(v, kind)
    BY <1>1, CellsJoin, Zenon
  <1>5. Cells(y, kind) = Cells(x, kind) \o Cells(w, kind)
    BY <1>1, <1>2, CellsJoin, Zenon
  <1>6. Cells(z, kind) = Cells(y, kind) \o Cells(e, kind)
    BY <1>2, <1>3, CellsJoin, Zenon
  <1>7. Cells(z \o z0, kind) = Cells(z, kind) \o Cells(z0, kind)
    BY <1>3, CellsJoin, Zenon
  <1>8. QED
    BY <1>1, <1>2, <1>3, <1>4, <1>5, <1>6, <1>7, Zenon

\* The parts of a line are cells, and what is picked from them.
LEMMA PartsOfLine ==
  ASSUME NEW at \in Nat, NEW src \in Seq(Nat), NEW first \in 0..Len(src), NEW print_chars,
         NEW desc \in Descs \cup {None}
  PROVE  /\ <<<<"address", at + first>>>> \in Seq(Cell) /\ <<<<"newline">>>> \in Seq(Cell)
         /\ FlattenSeq(GroupsOf(src, first)) \in Seq(Cell) /\ CharsOf(src, first, print_chars) \in Seq(Cell)
         /\ DescOf(src, first, desc) \in Seq(Cell)
         /\ \A kind \in {"octet", "char"} : /\ Cells(<<<<"address", at + first>>>>, kind) = <<>>
                                            /\ Cells(<<<<"newline">>>>, kind) = <<>>
                                            /\ Cells(DescOf(src, first, desc), kind) = <<>>
         /\ Cells(CharsOf(src, first, print_chars), "octet") = <<>>
         /\ Cells(FlattenSeq(GroupsOf(src, first)), "char") = <<>>
  <1>1. first \in Nat
    OBVIOUS
  <1>2. PICK a \in Seq(Cell) : a = <<<<"address", at + first>>>>
    <2>1. at + first \in Nat
      BY <1>1
    <2>2. <<"address", at + first>> \in Cell
      BY <2>1 DEF Cell
    <2>3. <<<<"address", at + first>>>> \in Seq(Cell)
      BY <2>2
    <2>4. QED
      BY <2>3
  <1>3. PICK n \in Seq(Cell) : n = <<<<"newline">>>>
    <2>1. <<"newline">> \in Cell
      BY DEF Cell
    <2>2. <<<<"newline">>>> \in Seq(Cell)
      BY <2>1
    <2>3. QED
      BY <2>2
  <1>4. PICK g \in Seq(GroupCell) : g = FlattenSeq(GroupsOf(src, first))
    BY <1>1, GroupsType
  <1>5. PICK c \in Seq(CharCell) : c = CharsOf(src, first, print_chars)
    BY CharsType
  <1>6. PICK d \in Seq(DescCell) : d = DescOf(src, first, desc)
    BY DescType
  <1>7. g \in Seq(Cell) /\ c \in Seq(Cell) /\ d \in Seq(Cell)
    BY PartsAreCells
  <1>8. \A kind \in {"octet", "char"} : \A i \in 1..Len(a) : a[i][1] # kind
    <2>1. Len(a) = 1 /\ a[1][1] = "address"
      BY <1>2
    <2>2. QED
      BY <2>1
  <1>9. \A kind \in {"octet", "char"} : \A i \in 1..Len(n) : n[i][1] # kind
    <2>1. Len(n) = 1 /\ n[1][1] = "newline"
      BY <1>3
    <2>2. QED
      BY <2>1
  <1>10. \A i \in 1..Len(g) : g[i][1] # "char"
    <2>1. \A i \in 1..Len(g) : g[i] \in GroupCell
      OBVIOUS
    <2>2. \A i \in 1..Len(g) : g[i][1] \in {"octet", "blank", "space"}
      BY <2>1, KindsOfCells
    <2>3. QED
      BY <2>2
  <1>11. \A i \in 1..Len(c) : c[i][1] # "octet"
    <2>1. \A i \in 1..Len(c) : c[i] \in CharCell
      OBVIOUS
    <2>2. \A i \in 1..Len(c) : c[i][1] \in {"space", "char"}
      BY <2>1, KindsOfCells
    <2>3. QED
      BY <2>2
  <1>12. \A kind \in {"octet", "char"} : \A i \in 1..Len(d) : d[i][1] # kind
    <2>1. \A i \in 1..Len(d) : d[i] \in DescCell
      OBVIOUS
    <2>2. \A i \in 1..Len(d) : d[i][1] \in {"desc", "spilt"}
      BY <2>1, KindsOfCells
    <2>3. QED
      BY <2>2
  <1>13. \A kind \in {"octet", "char"} : Cells(a, kind) = <<>> /\ Cells(n, kind) = <<>> /\ Cells(d, kind) = <<>>
    BY <1>7, <1>8, <1>9, <1>12, CellsNone
  <1>14. Cells(g, "char") = <<>> /\ Cells(c, "octet") = <<>>
    BY <1>7, <1>10, <1>11, CellsNone
  <1>15. QED
    BY <1>2, <1>3, <1>4, <1>5, <1>6, <1>7, <1>13, <1>14

-----------------------------------------------------------------------------
(* The shape of a line.                                                    *)

\* A description is told whole if there is room for it.
Spelled(c) == c[3] = c[2] \/ c[2] >= STREAM_LOGGER_BUFFER_SIZE

\* A line begins with an address, which is where, ends with a newline, and only the
\* last line has a description, behind its octets.
LineShape(text, where, last) ==
    /\ text[1] = <<"address", where>>
    /\ \A i \in 1..Len(text) :
          /\ text[i][1] = "address" => i = 1
          /\ text[i][1] = "newline" => i = Len(text)
          /\ text[i][1] = "desc" => Spelled(text[i]) /\ last /\ \A k \in i..Len(text) : text[k][1] # "octet"

\* Places of parts that are an address, octets, characters, a description, and a newline.
LEMMA ShapeOfParts ==
  ASSUME NEW l \in Nat, NEW m \in Nat, NEW k \in Nat, NEW u, NEW v, NEW w, NEW e, NEW z0, NEW t, NEW where,
         Places(l, m, k, u, v, w, e, z0, t), Len(t) = 2 + l + m + k,
         u[1] = <<"address", where>>, z0[1] = <<"newline">>,
         \A j \in 1..l : v[j] \in GroupCell, \A j \in 1..m : w[j] \in CharCell, \A j \in 1..k : e[j] \in DescCell
  PROVE  LineShape(t, where, k > 0)
  <1> DEFINE b == 1 + l + m
  <1>1. b \in Nat /\ b + k + 1 = Len(t)
    OBVIOUS
  <1>2. t[1] = <<"address", where>> /\ t[1][1] = "address"
    BY DEF Places
  <1>3. ASSUME NEW i \in 1..Len(t)
        PROVE  \/ i = 1
               \/ i <= b /\ t[i] \in GroupCell
               \/ i <= b /\ t[i] \in CharCell
               \/ i > b /\ i < Len(t) /\ t[i] \in DescCell /\ k > 0
               \/ i = Len(t) /\ t[i] = <<"newline">>
    <2>1. /\ \A j \in 1..l : v[j] \in GroupCell
          /\ \A j \in 1..m : w[j] \in CharCell
          /\ \A j \in 1..k : e[j] \in DescCell
      OBVIOUS
    <2>2. \/ i = 1
          \/ i <= 1 + l + m /\ \E j \in 1..l : t[i] = v[j]
          \/ i <= 1 + l + m /\ \E j \in 1..m : t[i] = w[j]
          \/ i > 1 + l + m /\ i < 2 + l + m + k /\ \E j \in 1..k : t[i] = e[j]
          \/ i = 2 + l + m + k /\ t[i] = z0[1]
      BY DEF Places
    <2>3. \A j \in 1..k : k > 0
      OBVIOUS
    <2>4. QED
      BY <2>1, <2>2, <2>3
  <1> HIDE DEF b
  <1>4. ASSUME NEW i \in 1..Len(t)
        PROVE  \/ i = 1 /\ t[i][1] = "address"
               \/ i <= b /\ t[i][1] \in {"octet", "blank", "space", "char"}
               \/ i > b /\ i < Len(t) /\ t[i][1] \in {"desc", "spilt"} /\ k > 0 /\ (t[i][1] = "desc" => Spelled(t[i]))
               \/ i = Len(t) /\ i > b /\ t[i][1] = "newline"
    <2>1. \A c \in GroupCell : c[1] \in {"octet", "blank", "space", "char"}
      BY KindsOfCells
    <2>2. \A c \in CharCell : c[1] \in {"octet", "blank", "space", "char"}
      BY KindsOfCells
    <2>3. \A c \in DescCell : c[1] \in {"desc", "spilt"} /\ (c[1] = "desc" => Spelled(c))
      BY KindsOfCells DEF Spelled
    <2>4. t[i] = <<"newline">> => t[i][1] = "newline"
      OBVIOUS
    <2>5. Len(t) > b
      BY <1>1
    <2>6. CASE i = 1
      BY <1>2, <2>6
    <2>7. CASE i <= b /\ t[i] \in GroupCell
      BY <2>1, <2>7
    <2>8. CASE i <= b /\ t[i] \in CharCell
      BY <2>2, <2>8
    <2>9. CASE i > b /\ i < Len(t) /\ t[i] \in DescCell /\ k > 0
      BY <2>3, <2>9
    <2>10. CASE i = Len(t) /\ t[i] = <<"newline">>
      BY <2>4, <2>5, <2>10
    <2>11. QED
      BY <1>3, <2>6, <2>7, <2>8, <2>9, <2>10
  <1>5. ASSUME NEW i \in 1..Len(t)
        PROVE  /\ t[i][1] = "address" => i = 1
               /\ t[i][1] = "newline" => i = Len(t)
    BY <1>4
  <1>6. ASSUME NEW i \in 1..Len(t), t[i][1] = "desc"
        PROVE  Spelled(t[i]) /\ k > 0 /\ \A j \in i..Len(t) : t[j][1] # "octet"
    <2>1. i > b /\ Spelled(t[i]) /\ k > 0
      BY <1>4, <1>6
    <2>2. ASSUME NEW j \in i..Len(t) PROVE t[j][1] # "octet"
      <3>1. j \in 1..Len(t) /\ j > b /\ j # 1
        BY <1>1, <2>1
      <3>2. QED
        BY <1>1, <1>4, <3>1
    <2>3. QED
      BY <2>1, <2>2
  <1>7. QED
    BY <1>2, <1>5, <1>6 DEF LineShape

\* So is every line of a dump.
LEMMA LineShaped ==
  ASSUME NEW at \in Nat, NEW src \in Seq(Nat), NEW first \in 0..Len(src), NEW print_chars,
         NEW desc \in Descs \cup {None}
  PROVE  /\ Line(at, src, first, print_chars, desc) \in Seq(Cell)
         /\ Len(Line(at, src, first, print_chars, desc)) > 0
         /\ LineShape(Line(at, src, first, print_chars, desc), at + first, first + LeftOf(src, first) = Len(src))
  <1>1. first \in Nat
    OBVIOUS
  <1>2. PICK u : u = <<<<"address", at + first>>>>
    OBVIOUS
  <1>3. PICK v : v = FlattenSeq(GroupsOf(src, first))
    OBVIOUS
  <1>4. PICK w : w = CharsOf(src, first, print_chars)
    OBVIOUS
  <1>5. PICK e : e = DescOf(src, first, desc)
    OBVIOUS
  <1>6. PICK z0 : z0 = <<<<"newline">>>>
    OBVIOUS
  <1>7. u \in Seq(Cell) /\ v \in Seq(Cell) /\ w \in Seq(Cell) /\ e \in Seq(Cell) /\ z0 \in Seq(Cell)
    BY <1>2, <1>3, <1>4, <1>5, <1>6, PartsOfLine
  <1>8. Len(u) = 1 /\ u[1] = <<"address", at + first>> /\ Len(z0) = 1 /\ z0[1] = <<"newline">>
    BY <1>2, <1>6
  <1>9. PICK t, l, m, k :
           /\ t \in Seq(Cell) /\ l \in Nat /\ m \in Nat /\ k \in Nat
           /\ t = u \o v \o w \o e \o z0 /\ Len(t) = 2 + l + m + k
           /\ l = Len(v) /\ m = Len(w) /\ k = Len(e)
           /\ Places(l, m, k, u, v, w, e, z0, t)
    BY <1>7, <1>8, FiveParts
  <1>10. t = Line(at, src, first, print_chars, desc)
    BY <1>2, <1>3, <1>4, <1>5, <1>6, <1>9, LineParts
  <1>11. \A j \in 1..l : v[j] \in GroupCell
    <2>1. v \in Seq(GroupCell)
      BY <1>1, <1>3, GroupsType
    <2>2. QED
      BY <1>9, <2>1
  <1>12. \A j \in 1..m : w[j] \in CharCell
    <2>1. w \in Seq(CharCell)
      BY <1>4, CharsType
    <2>2. QED
      BY <1>9, <2>1
  <1>13. \A j \in 1..k : e[j] \in DescCell
    <2>1. e \in Seq(DescCell)
      BY <1>5, DescType
    <2>2. QED
      BY <1>9, <2>1
  <1>14. LineShape(t, at + first, k > 0)
    BY <1>8, <1>9, <1>11, <1>12, <1>13, ShapeOfParts
  <1>15. k > 0 => first + LeftOf(src, first) = Len(src)
    <2>1. SUFFICES ASSUME first + LeftOf(src, first) # Len(src) PROVE k = 0
      BY <1>9
    <2>2. e = <<>>
      BY <1>5, <2>1 DEF DescOf
    <2>3. QED
      BY <1>9, <2>2
  <1>16. LineShape(t, at + first, first + LeftOf(src, first) = Len(src))
    BY <1>14, <1>15 DEF LineShape
  <1>17. Len(t) > 0
    BY <1>9
  <1>18. QED
    BY <1>9, <1>10, <1>16, <1>17

-----------------------------------------------------------------------------
(* What a line tells.                                                      *)

\* A line goes on to octet Up(first + DUMP_OCTETS_PER_LINE, Len(src)).
LEMMA LineEnds ==
  ASSUME NEW src \in Seq(Nat), NEW first \in 0..Len(src)
  PROVE  /\ first + LeftOf(src, first) = Up(first + DUMP_OCTETS_PER_LINE, Len(src))
         /\ Up(first, Len(src)) = first /\ LeftOf(src, first) \in Nat
         /\ Up(first + DUMP_OCTETS_PER_LINE, Len(src)) \in first..Len(src)
  BY DumpSizes DEF LeftOf, Up

\* The characters it shows.
LEMMA CharsOfLine ==
  ASSUME NEW src \in Seq(Nat), NEW first \in 0..Len(src), NEW print_chars \in BOOLEAN
  PROVE  Cells(CharsOf(src, first, print_chars), "char") =
           IF print_chars THEN Stretch(CharCells(src), first, first + LeftOf(src, first)) ELSE <<>>
  <1>1. CASE ~print_chars
    <2>1. CharsOf(src, first, print_chars) = <<>>
      BY <1>1 DEF CharsOf
    <2>2. \A i \in 1..Len(<<>>) : <<>>[i][1] # "char"
      OBVIOUS
    <2>3. <<>> \in Seq(Cell)
      OBVIOUS
    <2>4. Cells(<<>>, "char") = <<>>
      BY <2>2, <2>3, CellsNone
    <2>5. QED
      BY <1>1, <2>1, <2>4
  <1>2. CASE print_chars
    <2> DEFINE l == LeftOf(src, first)
               n == Len(src)
    <2>1. l \in Nat /\ first \in Nat /\ n \in Nat /\ first + l <= n
      BY LineEnds
    <2>2. PICK f \in Seq(Cell) : f = CharCells(src) /\ Len(f) = n
      BY AllCells
    <2>3. \A i \in 1..n : f[i] = Char(src[i])
      BY <2>2, AllCells
    <2>4. CharsOf(src, first, print_chars) = <<<<"space">>>> \o [i \in 1..l |-> Char(src[first + i])]
      BY <1>2 DEF CharsOf
    <2> HIDE DEF l, n
    <2>5. first \in 0..Len(f) /\ first + l \in first..Len(f) /\ (first + l) - first = l
      BY <2>1, <2>2
    <2>6. PICK b \in Seq(Cell) : /\ b = Stretch(f, first, first + l)
                               /\ Len(b) = l /\ \A i \in 1..l : b[i] = f[first + i]
      <3>1. PICK q \in first..Len(f) : q = first + l /\ q - first = l
        BY <2>5
      <3>2. /\ Stretch(f, first, q) \in Seq(Cell) /\ Len(Stretch(f, first, q)) = q - first
            /\ \A i \in 1..q - first : Stretch(f, first, q)[i] = f[first + i]
        BY <2>5, StretchType
      <3>3. QED
        BY <3>1, <3>2, Zenon
    <2>7. Len(b) = l /\ \A i \in 1..l : b[i] = f[first + i]
      BY <2>6
    <2>8. \A i \in 1..l : b[i] = Char(src[first + i])
      BY <2>1, <2>3, <2>7, SMTT(30)
    <2>9. [i \in 1..l |-> Char(src[first + i])] = b
      <3>1. b = [i \in 1..l |-> b[i]]
        BY <2>7
      <3>2. QED
        BY <2>8, <3>1
    <2>10. \A i \in 1..Len(b) : b[i][1] = "char"
      BY <2>7, <2>8 DEF Char
    <2>11. Cells(b, "char") = b
      BY <2>10, CellsAll
    <2>12. <<"space">> \in Cell
      BY DEF Cell, GroupCell
    <2>13. PICK a \in Seq(Cell) : a = <<<<"space">>>> /\ Len(a) = 1 /\ a[1][1] = "space"
      <3>1. <<<<"space">>>> \in Seq(Cell)
        BY <2>12
      <3>2. Len(<<<<"space">>>>) = 1 /\ <<<<"space">>>>[1][1] = "space"
        OBVIOUS
      <3>3. QED
        BY <3>1, <3>2
    <2>14. \A i \in 1..Len(a) : a[i][1] # "char"
      BY <2>13
    <2>15. Cells(a, "char") = <<>>
      BY <2>14, CellsNone
    <2>16. Cells(a \o b, "char") = <<>> \o b
      <3>1. Cells(a \o b, "char") = Cells(a, "char") \o Cells(b, "char")
        BY CellsConcat
      <3>2. QED
        BY <2>11, <2>15, <3>1
    <2>17. <<>> \o b = b
      OBVIOUS
    <2>18. QED
      BY <1>2, <2>2, <2>4, <2>6, <2>9, <2>13, <2>16, <2>17 DEF l
  <1>3. QED
    BY <1>1, <1>2

\* What is picked from a line.
LEMMA LineTold ==
  ASSUME NEW at \in Nat, NEW src \in Seq(Nat), NEW first \in 0..Len(src), NEW print_chars \in BOOLEAN,
         NEW desc \in Descs \cup {None}
  PROVE  /\ Cells(Line(at, src, first, print_chars, desc), "octet") =
              Stretch(OctetCells(src), first, first + LeftOf(src, first))
         /\ Cells(Line(at, src, first, print_chars, desc), "char") =
              IF print_chars THEN Stretch(CharCells(src), first, first + LeftOf(src, first)) ELSE <<>>
  <1>1. first \in Nat
    OBVIOUS
  <1>2. PICK u : u = <<<<"address", at + first>>>>
    OBVIOUS
  <1>3. PICK v : v = FlattenSeq(GroupsOf(src, first))
    OBVIOUS
  <1>4. PICK w : w = CharsOf(src, first, print_chars)
    OBVIOUS
  <1>5. PICK e : e = DescOf(src, first, desc)
    OBVIOUS
  <1>6. PICK z0 : z0 = <<<<"newline">>>>
    OBVIOUS
  <1>7. u \in Seq(Cell) /\ v \in Seq(Cell) /\ w \in Seq(Cell) /\ e \in Seq(Cell) /\ z0 \in Seq(Cell)
    BY <1>2, <1>3, <1>4, <1>5, <1>6, PartsOfLine
  <1>8. Line(at, src, first, print_chars, desc) = u \o v \o w \o e \o z0
    BY <1>2, <1>3, <1>4, <1>5, <1>6, LineParts
  <1>9. /\ Cells(u, "octet") = <<>> /\ Cells(w, "octet") = <<>> /\ Cells(e, "octet") = <<>> /\ Cells(z0, "octet") = <<>>
        /\ Cells(u, "char") = <<>> /\ Cells(v, "char") = <<>> /\ Cells(e, "char") = <<>> /\ Cells(z0, "char") = <<>>
    BY <1>2, <1>3, <1>4, <1>5, <1>6, PartsOfLine
  <1>10. Cells(v, "octet") \in Seq(Cell) /\ Cells(w, "char") \in Seq(Cell)
    BY <1>7, PickedType
  <1>11. Cells(u \o v \o w \o e \o z0, "octet") = <<>> \o Cells(v, "octet") \o <<>> \o <<>> \o <<>>
    <2>1. Cells(u \o v \o w \o e \o z0, "octet") =
            Cells(u, "octet") \o Cells(v, "octet") \o Cells(w, "octet") \o Cells(e, "octet") \o Cells(z0, "octet")
      BY <1>7, CellsOfFive, SMTT(30)
    <2>2. QED
      BY <1>9, <2>1, Zenon
  <1>12. Cells(u \o v \o w \o e \o z0, "char") = <<>> \o <<>> \o Cells(w, "char") \o <<>> \o <<>>
    <2>1. Cells(u \o v \o w \o e \o z0, "char") =
            Cells(u, "char") \o Cells(v, "char") \o Cells(w, "char") \o Cells(e, "char") \o Cells(z0, "char")
      BY <1>7, CellsOfFive, SMTT(30)
    <2>2. QED
      BY <1>9, <2>1, Zenon
  <1>13. \A c \in Seq(Cell) : <<>> \o c \o <<>> \o <<>> \o <<>> = c /\ <<>> \o <<>> \o c \o <<>> \o <<>> = c
    <2> SUFFICES ASSUME NEW c \in Seq(Cell)
                 PROVE  <<>> \o c \o <<>> \o <<>> \o <<>> = c /\ <<>> \o <<>> \o c \o <<>> \o <<>> = c
      OBVIOUS
    <2>1. <<>> \o c = c /\ c \o <<>> = c
      OBVIOUS
    <2>2. <<>> \o <<>> = <<>>
      OBVIOUS
    <2>3. QED
      BY <2>1, <2>2, Zenon
  <1>14. Cells(v, "octet") = Stretch(OctetCells(src), first, first + LeftOf(src, first))
    BY <1>1, <1>3, OctetsOfGroups, LineEnds
  <1>15. Cells(w, "char") = IF print_chars THEN Stretch(CharCells(src), first, first + LeftOf(src, first)) ELSE <<>>
    BY <1>4, CharsOfLine
  <1>16. QED
    BY <1>8, <1>10, <1>11, <1>12, <1>13, <1>14, <1>15, Zenon

\* What each address, newline and description in a text is, when q octets are told.
Orderly(text, at, src, q) ==
    \A i \in 1..Len(text) :
       /\ text[i][1] = "address" => text[i][2] = at + Len(Cells(SubSeq(text, 1, i - 1), "octet"))
       /\ text[i][1] = "newline" => i = Len(text) \/ text[i + 1][1] = "address"
       /\ text[i][1] = "desc" => /\ Spelled(text[i]) /\ q = Len(src)
                                 /\ \A k \in i..Len(text) : text[k][1] # "octet"

\* The text tells of the first q octets, and in order.
TellsUpTo(text, at, src, print_chars, q) ==
    /\ text \in Seq(Cell)
    /\ Cells(text, "octet") = Stretch(OctetCells(src), 0, q)
    /\ Cells(text, "char") = IF print_chars THEN Stretch(CharCells(src), 0, q) ELSE <<>>
    /\ IF q = 0 THEN text = <<>> ELSE Len(text) > 0 /\ text[1] = <<"address", at>>
    /\ Orderly(text, at, src, q)

\* One more line keeps the order.
LEMMA LineInOrder ==
  ASSUME NEW text \in Seq(Cell), NEW line \in Seq(Cell), NEW at \in Nat, NEW src \in Seq(Nat),
         NEW q \in Nat, q < Len(src), NEW r \in Nat, Orderly(text, at, src, q), Len(line) > 0,
         Len(Cells(text, "octet")) = q, LineShape(line, at + q, r = Len(src))
  PROVE  Orderly(text \o line, at, src, r)
  <1> DEFINE l == Len(text)
             m == Len(line)
             c == text \o line
             P(i) == /\ c[i][1] = "address" => c[i][2] = at + Len(Cells(SubSeq(c, 1, i - 1), "octet"))
                     /\ c[i][1] = "newline" => i = Len(c) \/ c[i + 1][1] = "address"
                     /\ c[i][1] = "desc" => /\ Spelled(c[i]) /\ r = Len(src)
                                            /\ \A k \in i..Len(c) : c[k][1] # "octet"
  <1>1. /\ c \in Seq(Cell) /\ Len(c) = l + m /\ l \in Nat /\ m \in Nat /\ m > 0
        /\ \A i \in 1..l : c[i] = text[i]
        /\ \A i \in 1..m : c[l + i] = line[i]
    BY Joint
  <1>2. \A j \in 0..l : SubSeq(c, 1, j) = SubSeq(text, 1, j)
    BY BeginningOfTwo
  <1>3. SubSeq(text, 1, l) = text
    BY BeginningWhole
  <1> HIDE DEF l, m, c
  <1>4. line[1] = <<"address", at + q>> /\ line[1][1] = "address" /\ line[1][2] = at + q /\ c[l + 1] = line[1]
    <2>1. line[1] = <<"address", at + q>>
      BY DEF LineShape
    <2>2. 1 \in 1..m
      BY <1>1
    <2>3. QED
      BY <1>1, <2>1, <2>2
  <1>5. ASSUME NEW i \in 1..Len(c), i <= l PROVE P(i)
    <2>1. i \in 1..l /\ i - 1 \in 0..l /\ c[i] = text[i]
      BY <1>1, <1>5
    <2>2. /\ text[i][1] = "address" => text[i][2] = at + Len(Cells(SubSeq(text, 1, i - 1), "octet"))
          /\ text[i][1] = "newline" => i = l \/ text[i + 1][1] = "address"
          /\ text[i][1] = "desc" => q = Len(src)
      BY <2>1 DEF Orderly, l
    <2>3. c[i][1] = "address" => c[i][2] = at + Len(Cells(SubSeq(c, 1, i - 1), "octet"))
      BY <1>2, <2>1, <2>2
    <2>4. c[i][1] = "newline" => c[i + 1][1] = "address"
      <3>1. SUFFICES ASSUME text[i][1] = "newline" PROVE c[i + 1][1] = "address"
        BY <2>1
      <3>2. CASE i = l
        BY <1>4, <3>2
      <3>3. CASE i # l
        <4>1. i + 1 \in 1..l /\ text[i + 1][1] = "address"
          BY <1>1, <2>1, <2>2, <3>1, <3>3
        <4>2. QED
          BY <1>1, <4>1
      <3>4. QED
        BY <3>2, <3>3
    <2>5. c[i][1] # "desc"
      BY <2>1, <2>2
    <2>6. QED
      BY <2>3, <2>4, <2>5
  <1>6. ASSUME NEW i \in 1..Len(c), i > l PROVE P(i)
    <2>1. PICK j \in 1..m : i = l + j
      <3>1. i - l \in 1..m /\ i = l + (i - l)
        BY <1>1, <1>6
      <3>2. QED
        BY <3>1
    <2>2. c[i] = line[j]
      BY <1>1, <2>1
    <2>3. /\ line[j][1] = "address" => j = 1
          /\ line[j][1] = "newline" => j = m
          /\ line[j][1] = "desc" => Spelled(line[j]) /\ r = Len(src) /\ \A k \in j..m : line[k][1] # "octet"
      BY DEF LineShape, m
    <2>4. c[i][1] = "address" => c[i][2] = at + Len(Cells(SubSeq(c, 1, i - 1), "octet"))
      <3>1. SUFFICES ASSUME line[j][1] = "address"
                     PROVE  c[i][2] = at + Len(Cells(SubSeq(c, 1, i - 1), "octet"))
        BY <2>2
      <3>2. j = 1 /\ i - 1 = l /\ l \in 0..l
        BY <1>1, <2>1, <2>3, <3>1
      <3>3. SubSeq(c, 1, i - 1) = text
        BY <1>2, <1>3, <3>2
      <3>4. c[i][2] = at + q
        BY <1>4, <2>2, <3>2
      <3>5. QED
        BY <3>3, <3>4
    <2>5. c[i][1] = "newline" => i = Len(c)
      BY <1>1, <2>1, <2>2, <2>3
    <2>6. c[i][1] = "desc" => Spelled(c[i]) /\ r = Len(src) /\ \A k \in i..Len(c) : c[k][1] # "octet"
      <3>1. SUFFICES ASSUME line[j][1] = "desc"
                     PROVE  Spelled(c[i]) /\ r = Len(src) /\ \A k \in i..Len(c) : c[k][1] # "octet"
        BY <2>2
      <3>2. ASSUME NEW k \in i..Len(c) PROVE c[k][1] # "octet"
        <4>1. PICK h \in j..m : k = l + h
          <5>1. k - l \in j..m /\ k = l + (k - l)
            BY <1>1, <2>1
          <5>2. QED
            BY <5>1
        <4>2. c[k] = line[h]
          BY <1>1, <4>1
        <4>3. QED
          BY <2>3, <3>1, <4>2
      <3>3. QED
        BY <2>2, <2>3, <3>1, <3>2
    <2>7. QED
      BY <2>4, <2>5, <2>6
  <1>7. \A i \in 1..Len(c) : P(i)
    BY <1>1, <1>5, <1>6
  <1>8. QED
    BY <1>7 DEF Orderly, c

-----------------------------------------------------------------------------
(* What a dump tells.                                                      *)

\* One line more tells of its octets, too.
LEMMA LineAdded ==
  ASSUME NEW text, NEW at \in Nat, NEW src \in Seq(Nat), NEW print_chars \in BOOLEAN,
         NEW desc \in Descs \cup {None}, NEW q \in Nat, q < Len(src),
         TellsUpTo(text, at, src, print_chars, q)
  PROVE  TellsUpTo(text \o Line(at, src, q, print_chars, desc), at, src, print_chars, q + LeftOf(src, q))
  <1> DEFINE n == Len(src)
             r == q + LeftOf(src, q)
             line == Line(at, src, q, print_chars, desc)
             c == text \o line
  <1>1. q \in 0..n /\ n \in Nat
    OBVIOUS
  <1>2. r \in q..n /\ r \in Nat /\ r > q /\ LeftOf(src, q) \in Nat
    BY <1>1, DumpSizes DEF LeftOf
  <1>3. line \in Seq(Cell) /\ Len(line) > 0 /\ LineShape(line, at + q, r = n)
    BY <1>1, LineShaped
  <1>4. /\ Cells(line, "octet") = Stretch(OctetCells(src), q, r)
        /\ Cells(line, "char") = IF print_chars THEN Stretch(CharCells(src), q, r) ELSE <<>>
    BY <1>1, LineTold
  <1>5. /\ text \in Seq(Cell)
        /\ Cells(text, "octet") = Stretch(OctetCells(src), 0, q)
        /\ Cells(text, "char") = IF print_chars THEN Stretch(CharCells(src), 0, q) ELSE <<>>
        /\ IF q = 0 THEN text = <<>> ELSE Len(text) > 0 /\ text[1] = <<"address", at>>
        /\ Orderly(text, at, src, q)
    BY DEF TellsUpTo
  <1> HIDE DEF r, line
  <1>6. c \in Seq(Cell) /\ Len(c) = Len(text) + Len(line) /\ Len(text) \in Nat
        /\ (\A i \in 1..Len(text) : c[i] = text[i])
        /\ (\A i \in 1..Len(line) : c[Len(text) + i] = line[i])
    BY <1>3, <1>5, Joint
  <1>7. PICK fo \in Seq(Cell) : fo = OctetCells(src) /\ Len(fo) = n
    BY AllCells
  <1>8. PICK fc \in Seq(Cell) : fc = CharCells(src) /\ Len(fc) = n
    BY AllCells
  <1>9. Cells(c, "octet") = Cells(text, "octet") \o Cells(line, "octet")
        /\ Cells(c, "char") = Cells(text, "char") \o Cells(line, "char")
    BY <1>3, <1>5, CellsJoin, Zenon
  <1> HIDE DEF c, n
  <1>10. 0 \in 0..n /\ q \in 0..n /\ r \in q..n
    BY <1>1, <1>2
  <1>11. Cells(c, "octet") = Stretch(OctetCells(src), 0, r)
    <2>1. Stretch(fo, 0, q) \o Stretch(fo, q, r) = Stretch(fo, 0, r)
      BY <1>7, <1>10, StretchesJoin
    <2>2. QED
      BY <1>4, <1>5, <1>7, <1>9, <2>1, Zenon
  <1>12. Cells(c, "char") = IF print_chars THEN Stretch(CharCells(src), 0, r) ELSE <<>>
    <2>1. CASE print_chars
      <3>1. Stretch(fc, 0, q) \o Stretch(fc, q, r) = Stretch(fc, 0, r)
        BY <1>8, <1>10, StretchesJoin
      <3>2. QED
        BY <1>4, <1>5, <1>8, <1>9, <2>1, <3>1, Zenon
    <2>2. CASE ~print_chars
      <3>1. Cells(text, "char") = <<>> /\ Cells(line, "char") = <<>>
        BY <1>4, <1>5, <2>2, Zenon
      <3>2. <<>> \o <<>> = <<>>
        OBVIOUS
      <3>3. QED
        BY <1>9, <2>2, <3>1, <3>2, Zenon
    <2>3. QED
      BY <2>1, <2>2, Zenon
  <1>13. Len(c) > 0 /\ c[1] = <<"address", at>>
    <2>1. line[1] = <<"address", at + q>>
      BY <1>3 DEF LineShape
    <2>2. Len(line) \in Nat
      BY <1>3
    <2>3. CASE q = 0
      <3>1. Len(text) = 0
        BY <1>5, <2>3
      <3>2. 1 \in 1..Len(line) /\ Len(text) + 1 = 1
        BY <1>3, <2>2, <3>1
      <3>3. c[1] = line[1]
        BY <1>6, <3>2
      <3>4. at + q = at
        BY <2>3
      <3>5. QED
        BY <1>3, <1>6, <2>1, <2>2, <3>1, <3>3, <3>4
    <2>4. CASE q # 0
      <3>1. 1 \in 1..Len(text) /\ text[1] = <<"address", at>>
        BY <1>5, <1>6, <2>4
      <3>2. QED
        BY <1>3, <1>6, <2>2, <3>1
    <2>5. QED
      BY <2>3, <2>4
  <1>14. Len(Cells(text, "octet")) = q
    <2>1. 0 \in 0..Len(fo) /\ q \in 0..Len(fo) /\ q - 0 = q
      BY <1>7, <1>10
    <2>2. Len(Stretch(fo, 0, q)) = q - 0
      BY <2>1, StretchType
    <2>3. QED
      BY <1>5, <1>7, <2>1, <2>2
  <1>15. Orderly(c, at, src, r)
    BY <1>2, <1>3, <1>5, <1>14, LineInOrder DEF c, n
  <1>16. r # 0
    BY <1>2
  <1>17. TellsUpTo(c, at, src, print_chars, r)
    BY <1>6, <1>11, <1>12, <1>13, <1>15, <1>16, Zenon DEF TellsUpTo
  <1>18. QED
    BY <1>17, Zenon DEF c, r, line

\* No lines tell of nothing.
LEMMA NothingTold ==
  ASSUME NEW at \in Nat, NEW src \in Seq(Nat), NEW print_chars \in BOOLEAN
  PROVE  TellsUpTo(<<>>, at, src, print_chars, 0)
  <1>1. <<>> \in Seq(Cell) /\ Len(<<>>) = 0
    OBVIOUS
  <1>2. Cells(<<>>, "octet") = <<>> /\ Cells(<<>>, "char") = <<>>
    <2>1. \A i \in 1..Len(<<>>) : <<>>[i][1] # "octet" /\ <<>>[i][1] # "char"
      OBVIOUS
    <2>2. QED
      BY <1>1, <2>1, CellsNone
  <1>3. Stretch(OctetCells(src), 0, 0) = <<>> /\ Stretch(CharCells(src), 0, 0) = <<>>
    <2>1. \A f \in Seq(Cell) : Stretch(f, 0, 0) = <<>>
      <3> SUFFICES ASSUME NEW f \in Seq(Cell) PROVE Stretch(f, 0, 0) = <<>>
        OBVIOUS
      <3>1. 0 \in 0..Len(f) /\ 0 - 0 = 0
        OBVIOUS
      <3>2. Stretch(f, 0, 0) \in Seq(Cell) /\ Len(Stretch(f, 0, 0)) = 0 - 0
        BY <3>1, StretchType
      <3>3. QED
        BY <3>1, <3>2
    <2>2. OctetCells(src) \in Seq(Cell) /\ CharCells(src) \in Seq(Cell)
      BY AllCells
    <2>3. QED
      BY <2>1, <2>2
  <1>4. Orderly(<<>>, at, src, 0)
    BY <1>1 DEF Orderly
  <1>5. QED
    BY <1>1, <1>2, <1>3, <1>4, Zenon DEF TellsUpTo

\* A dump tells of all octets.
LEMMA DumpTold ==
  ASSUME NEW at \in Nat, NEW src \in Seq(Nat), NEW print_chars \in BOOLEAN, NEW desc \in Descs \cup {None}
  PROVE  TellsUpTo(Dump(at, src, print_chars, desc), at, src, print_chars, Len(src))
  <1> DEFINE n == Len(src)
             L == DUMP_OCTETS_PER_LINE
             m == LinesOf(n)
             lines == DumpLines(at, src, print_chars, desc)
  <1>1. n \in Nat /\ L \in Nat /\ L > 0
    BY DumpSizes
  <1>2. /\ m \in Nat /\ m * L >= n
        /\ \A k \in 1..m : (k - 1) * L \in Nat /\ (k - 1) * L < n
    BY <1>1, LinesNeeded
  <1>3. /\ Dump(at, src, print_chars, desc) = FlattenSeq(lines)
        /\ lines \in Seq(Seq(Cell)) /\ Len(lines) = m
    BY DumpType
  <1>4. \A k \in 1..m : lines[k] = Line(at, src, (k - 1) * L, print_chars, desc)
    BY DEF DumpLines
  <1> HIDE DEF n, L, m, lines
  <1> DEFINE S == {k \in Nat : k <= m => TellsUpTo(FrontOf(lines, k), at, src, print_chars, Up(k * L, n))}
  <1>5. 0 \in S
    <2>1. FrontOf(lines, 0) = <<>>
      BY <1>3, FrontSteps
    <2>2. 0 * L = 0 /\ Up(0, n) = 0
      BY <1>1 DEF Up
    <2>3. QED
      BY <2>1, <2>2, NothingTold
  <1>6. ASSUME NEW k \in S PROVE k + 1 \in S
    <2>1. SUFFICES ASSUME k + 1 <= m
                   PROVE  TellsUpTo(FrontOf(lines, k + 1), at, src, print_chars, Up((k + 1) * L, n))
      OBVIOUS
    <2>2. k \in Nat /\ k <= m /\ k + 1 \in 1..m /\ k \in 0..m - 1 /\ (k + 1) - 1 = k
      BY <1>2, <2>1
    <2>3. PICK q \in Nat : q = k * L
      BY <1>1, <2>2
    <2>4. q < n
      BY <1>2, <2>2, <2>3
    <2>5. Up(q, n) = q
      BY <2>4 DEF Up
    <2>6. TellsUpTo(FrontOf(lines, k), at, src, print_chars, q)
      BY <2>2, <2>3, <2>5
    <2>7. (k + 1) * L = q + L
      BY <1>1, <2>2, <2>3, NextMultiple
    <2>8. q + LeftOf(src, q) = Up((k + 1) * L, n)
      <3>1. q \in 0..Len(src)
        BY <1>1, <2>4 DEF n
      <3>2. q + LeftOf(src, q) = Up(q + L, n)
        BY <3>1, LineEnds DEF n, L
      <3>3. QED
        BY <2>7, <3>2
    <2>9. FrontOf(lines, k + 1) = FrontOf(lines, k) \o Line(at, src, q, print_chars, desc)
      <3>1. FrontOf(lines, k + 1) = FrontOf(lines, k) \o lines[k + 1]
        BY <1>3, <2>2, FrontSteps
      <3>2. lines[k + 1] = Line(at, src, q, print_chars, desc)
        BY <1>4, <2>2, <2>3
      <3>3. QED
        BY <3>1, <3>2
    <2>10. q < Len(src)
      BY <2>4 DEF n
    <2>11. TellsUpTo(FrontOf(lines, k) \o Line(at, src, q, print_chars, desc), at, src, print_chars, q + LeftOf(src, q))
      BY <2>6, <2>10, LineAdded
    <2>12. QED
      BY <2>8, <2>9, <2>11
  <1> HIDE DEF S
  <1>7. m \in S
    <2>1. \A k \in S \cap Nat : k + 1 \in S
      BY <1>6
    <2>2. QED
      BY <1>2, <1>5, <2>1, Induction
  <1>8. TellsUpTo(FrontOf(lines, m), at, src, print_chars, Up(m * L, n))
    BY <1>2, <1>7 DEF S
  <1>9. FrontOf(lines, m) = FlattenSeq(lines)
    BY <1>3, FrontSteps
  <1>10. Up(m * L, n) = n
    <2>1. PICK p \in Nat : p = m * L
      BY <1>1, <1>2
    <2>2. QED
      BY <1>1, <1>2, <2>1 DEF Up
  <1>11. QED
    BY <1>3, <1>8, <1>9, <1>10 DEF n

-----------------------------------------------------------------------------
(* Reading a record.                                                       *)

\* A part of a sequence.
LEMMA Portion ==
  ASSUME NEW S, NEW s \in Seq(S), NEW m \in 1..Len(s), NEW n \in m..Len(s)
  PROVE  /\ SubSeq(s, m, n) \in Seq(S) /\ Len(SubSeq(s, m, n)) = n - m + 1
         /\ \A i \in 1..n - m + 1 : SubSeq(s, m, n)[i] = s[m + i - 1]
  <1>1. m \in Int /\ n \in Int /\ m <= n /\ \A i \in m..n : s[i] \in S
    OBVIOUS
  <1>2. QED
    BY <1>1, SubSeqProperties

\* The octets told are as many as the cells that tell them.
LEMMA OctetsType ==
  ASSUME NEW text \in Seq(Cell)
  PROVE  /\ Len(Octets(text)) = Len(Cells(text, "octet"))
         /\ Octets(text) = [i \in 1..Len(Cells(text, "octet")) |-> Cells(text, "octet")[i][2]]
  <1>1. PICK c \in Seq(Cell) : c = Cells(text, "octet")
    BY PickedType
  <1>2. Len(c) \in Nat /\ DOMAIN c = 1..Len(c)
    OBVIOUS
  <1>3. Octets(text) = [i \in 1..Len(c) |-> c[i][2]]
    BY <1>1, <1>2, Zenon DEF Octets
  <1>4. Len([i \in 1..Len(c) |-> c[i][2]]) = Len(c)
    BY <1>2
  <1>5. QED
    BY <1>1, <1>3, <1>4, Zenon

\* A dump reads as it should, and says what was written.
LEMMA DumpLegible ==
  ASSUME NEW at \in Nat, NEW src \in Seq(Nat), src # <<>>, NEW print_chars \in BOOLEAN,
         NEW desc \in Descs \cup {None}
  PROVE  /\ Dump(at, src, print_chars, desc) \in Seq(Cell) /\ Dump(at, src, print_chars, desc) # <<>>
         /\ Dump(at, src, print_chars, desc)[1] = <<"address", at>>
         /\ Octets(Dump(at, src, print_chars, desc)) = src
         /\ Legible(Dump(at, src, print_chars, desc))
  <1> DEFINE n == Len(src)
  <1>1. n \in Nat /\ n # 0
    OBVIOUS
  <1>2. PICK D : D = Dump(at, src, print_chars, desc)
    OBVIOUS
  <1>3. TellsUpTo(D, at, src, print_chars, n)
    BY <1>2, DumpTold
  <1>4. /\ D \in Seq(Cell)
        /\ Cells(D, "octet") = Stretch(OctetCells(src), 0, n)
        /\ Cells(D, "char") = IF print_chars THEN Stretch(CharCells(src), 0, n) ELSE <<>>
        /\ Len(D) > 0 /\ D[1] = <<"address", at>>
        /\ Orderly(D, at, src, n)
    BY <1>1, <1>3 DEF TellsUpTo
  <1>5. PICK fo \in Seq(Cell) : fo = OctetCells(src) /\ Len(fo) = n /\ \A i \in 1..n : fo[i] = <<"octet", src[i]>>
    BY AllCells
  <1>6. PICK fc \in Seq(Cell) : fc = CharCells(src) /\ Len(fc) = n /\ \A i \in 1..n : fc[i] = Char(src[i])
    BY AllCells
  <1>7. Cells(D, "octet") = fo /\ (Cells(D, "char") = fc \/ Cells(D, "char") = <<>>)
    <2>1. Stretch(fo, 0, n) = fo /\ Stretch(fc, 0, n) = fc
      BY <1>5, <1>6, StretchWhole
    <2>2. QED
      BY <1>4, <1>5, <1>6, <2>1, Zenon
  <1> HIDE DEF n
  <1>8. Octets(D) = src /\ Len(Octets(D)) = n
    <2>1. Octets(D) = [i \in 1..n |-> fo[i][2]]
      BY <1>4, <1>5, <1>7, OctetsType
    <2>2. \A i \in 1..n : fo[i][2] = src[i]
      BY <1>5
    <2>3. src = [i \in 1..n |-> src[i]]
      BY DEF n
    <2>4. Octets(D) = src
      BY <2>1, <2>2, <2>3
    <2>5. QED
      BY <2>4 DEF n
  <1>9. D[1][2] = at /\ D # <<>> /\ Len(D) \in Nat
    BY <1>4
  <1>10. ASSUME NEW i \in DOMAIN D
         PROVE  /\ D[i][1] = "address" => D[i][2] = D[1][2] + Len(Octets(SubSeq(D, 1, i - 1)))
                /\ D[i][1] = "desc" => /\ \/ D[i][3] = D[i][2]
                                          \/ D[i][2] >= STREAM_LOGGER_BUFFER_SIZE
                                       /\ Cells(SubSeq(D, i, Len(D)), "octet") = <<>>
                /\ D[i][1] = "newline" => i = Len(D) \/ D[i + 1][1] = "address"
    <2>1. i \in 1..Len(D) /\ i - 1 \in 0..Len(D) /\ i \in Nat
      BY <1>4
    <2>2. /\ D[i][1] = "address" => D[i][2] = at + Len(Cells(SubSeq(D, 1, i - 1), "octet"))
          /\ D[i][1] = "newline" => i = Len(D) \/ D[i + 1][1] = "address"
          /\ D[i][1] = "desc" => Spelled(D[i]) /\ \A k \in i..Len(D) : D[k][1] # "octet"
      BY <1>4, <2>1 DEF Orderly
    <2>3. Len(Octets(SubSeq(D, 1, i - 1))) = Len(Cells(SubSeq(D, 1, i - 1), "octet"))
      <3>1. SubSeq(D, 1, i - 1) \in Seq(Cell)
        BY <1>4, <2>1, Beginning
      <3>2. QED
        BY <3>1, OctetsType
    <2>4. D[i][1] = "desc" => Cells(SubSeq(D, i, Len(D)), "octet") = <<>>
      <3>1. SUFFICES ASSUME \A k \in i..Len(D) : D[k][1] # "octet"
                     PROVE  Cells(SubSeq(D, i, Len(D)), "octet") = <<>>
        BY <2>2
      <3>2. PICK l \in Nat : l = Len(D) /\ i \in 1..l
        BY <1>9, <2>1
      <3>3. l \in i..l
        BY <3>2
      <3>4. SubSeq(D, i, l) \in Seq(Cell) /\ Len(SubSeq(D, i, l)) = l - i + 1
            /\ \A j \in 1..l - i + 1 : SubSeq(D, i, l)[j] = D[i + j - 1]
        BY <1>4, <3>2, <3>3, Portion
      <3>5. \A j \in 1..l - i + 1 : i + j - 1 \in i..l
        BY <3>2
      <3>6. \A j \in 1..Len(SubSeq(D, i, l)) : SubSeq(D, i, l)[j][1] # "octet"
        BY <3>1, <3>2, <3>4, <3>5, Zenon
      <3>7. QED
        BY <3>2, <3>4, <3>6, CellsNone
    <2>5. QED
      BY <1>9, <2>2, <2>3, <2>4 DEF Spelled
  <1>11. ASSUME Cells(D, "char") # <<>>
         PROVE  /\ Len(Cells(D, "char")) = Len(Octets(D))
                /\ \A i \in DOMAIN Cells(D, "char") :
                      Octets(D)[i] \in Printable => Cells(D, "char")[i][2] = Octets(D)[i]
    <2>1. Cells(D, "char") = fc
      BY <1>7, <1>11
    <2>2. DOMAIN fc = 1..n
      BY <1>6
    <2>3. \A i \in 1..n : src[i] \in Printable => fc[i][2] = src[i]
      BY <1>6 DEF Char
    <2>4. QED
      BY <1>6, <1>8, <2>1, <2>2, <2>3, Zenon
  <1>12. Legible(D)
    BY <1>10, <1>11, Zenon DEF Legible
  <1>13. QED
    BY <1>2, <1>4, <1>8, <1>9, <1>12, Zenon

\* So does a moving note.
LEMMA NoteLegible ==
  ASSUME NEW dst \in Nat, NEW src \in Nat, NEW size \in Nat
  PROVE  /\ MoveNote(dst, src, size) \in Seq(Cell) /\ MoveNote(dst, src, size) # <<>>
         /\ MoveNote(dst, src, size)[1] = <<"move", dst, src, size>>
         /\ Legible(MoveNote(dst, src, size))
  <1>1. PICK N : N = MoveNote(dst, src, size)
    OBVIOUS
  <1>2. N \in Seq(Cell)
    BY <1>1, NoteType
  <1>3. Len(N) = 1 /\ N[1] = <<"move", dst, src, size>> /\ DOMAIN N = 1..1
    BY <1>1 DEF MoveNote
  <1>4. N[1][1] = "move"
    BY <1>3
  <1>5. \A i \in 1..Len(N) : N[i][1] = "move"
    BY <1>3, <1>4
  <1>6. Cells(N, "char") = <<>>
    BY <1>2, <1>5, CellsNone
  <1>7. \A i \in DOMAIN N : N[i][1] # "address" /\ N[i][1] # "desc" /\ N[i][1] # "newline"
    BY <1>3, <1>4
  <1>8. Legible(N)
    BY <1>6, <1>7, Zenon DEF Legible
  <1>9. N # <<>>
    BY <1>2, <1>3
  <1>10. QED
    BY <1>1, <1>2, <1>3, <1>8, <1>9, Zenon

\* What was written is found where it was written.
LEMMA WrittenFound ==
  ASSUME NEW S, 0 \in S, NEW b \in Seq(S), NEW at \in Nat, NEW r \in Seq(S), r # <<>>
  PROVE  SubSeq(Overwrite(b, at, r), at + 1, at + Len(r)) = r
  <1>1. PICK w \in Seq(S) : /\ w = Overwrite(b, at, r) /\ at + Len(r) <= Len(w)
                            /\ \A i \in 1..Len(r) : w[at + i] = r[i]
    BY OverwriteType
  <1>2. Len(r) \in Nat /\ Len(w) \in Nat /\ Len(r) > 0
    OBVIOUS
  <1>3. PICK c \in Seq(S) : /\ c = SubSeq(w, at + 1, at + Len(r)) /\ Len(c) = Len(r)
                            /\ \A i \in 1..Len(r) : c[i] = w[at + i]
    <2>0. PICK p \in 1..Len(w) : p = at + 1
      BY <1>1, <1>2
    <2>1. PICK q \in p..Len(w) : q = at + Len(r)
      BY <1>1, <1>2, <2>0
    <2>2. /\ SubSeq(w, p, q) \in Seq(S) /\ Len(SubSeq(w, p, q)) = q - p + 1
          /\ \A i \in 1..q - p + 1 : SubSeq(w, p, q)[i] = w[p + i - 1]
      BY Portion
    <2>3. q - p + 1 = Len(r) /\ \A i \in 1..Len(r) : p + i - 1 = at + i
      BY <1>2, <2>0, <2>1
    <2>4. \A i \in 1..Len(r) : SubSeq(w, p, q)[i] = w[at + i]
      BY <2>2, <2>3
    <2>5. QED
      BY <2>0, <2>1, <2>2, <2>3, <2>4
  <1>4. \A i \in 1..Len(r) : c[i] = r[i]
    BY <1>1, <1>3
  <1>5. c = r
    BY <1>3, <1>4, SeqEqual
  <1>6. QED
    BY <1>1, <1>3, <1>5

-----------------------------------------------------------------------------
(* Every change that is to be logged is recorded.                          *)

\* The record of a change of s, if there is one.
RecordOf(s) == SubSeq(buf_'[log_stream_[s]], offset_[log_stream_[s]] + 1, offset_'[log_stream_[s]])

\* A change of s that is not emptying, releasing or constructing, and is to be logged.
Logged(s) == log_stream_[s] # None /\ log_stream_'[s] = log_stream_[s] /\ buf_[s] # None
               /\ buf_'[s] \notin {buf_[s], <<>>, None}

\* It is recorded.
Recorded(s) == /\ RecordOf(s) # <<>> /\ Legible(RecordOf(s))
               /\ Tells(RecordOf(s), buf_[s], buf_'[s])

\* A record is what is added to the log.
LEMMA LogGrows ==
  ASSUME MemoryInv, NEW s \in Streams, NEW record \in Seq(Cell), record # <<>>, NEW step \in Nat, NEW own,
         log_stream_[s] # None, buf_[log_stream_[s]] # None, Update(s, record, step, own)
  PROVE  RecordOf(s) = record /\ buf_'[s] = own
  <1> DEFINE log == log_stream_[s]
             text(x) == IF x = log_stream_[s] THEN record ELSE <<>>
  <1>1. log \in Streams /\ log # s /\ offset_[log] \in Nat /\ buf_[log] \in Seq(Symbol)
    BY DEF MemoryInv, BufferPart, LogPart
  <1>2. /\ offset_' = [x \in Streams |-> offset_[x] + Len(text(x)) + (IF x = s THEN step ELSE 0)]
        /\ buf_' = [x \in Streams |-> IF x = s THEN own ELSE Overwrite(buf_[x], offset_[x], text(x))]
    BY DEF Update
  <1>3. text(log) = record
    OBVIOUS
  <1> HIDE DEF text
  <1>4. /\ offset_'[log] = offset_[log] + Len(record) + 0
        /\ buf_'[log] = Overwrite(buf_[log], offset_[log], record) /\ buf_'[s] = own
    BY <1>1, <1>2, <1>3
  <1>5. Len(record) \in Nat /\ offset_'[log] = offset_[log] + Len(record)
    BY <1>1, <1>4
  <1>6. record \in Seq(Symbol) /\ 0 \in Symbol
    BY CellsAreSymbols DEF Symbol
  <1>7. SubSeq(Overwrite(buf_[log], offset_[log], record), offset_[log] + 1, offset_[log] + Len(record)) = record
    BY <1>1, <1>6, WrittenFound, SMTT(30)
  <1>8. QED
    BY <1>4, <1>5, <1>7, Zenon DEF RecordOf

\* A stream that logs is no log, and is not changed by changes of others.
LEMMA OthersStay ==
  ASSUME MemoryInv, NEW s \in Streams, NEW t \in Streams, s # t, log_stream_[s] # None, NEW record, NEW step, NEW own,
         Update(t, record, step, own)
  PROVE  buf_'[s] = buf_[s]
  <1>1. s # log_stream_[t]
    BY NoneAssumption DEF MemoryInv, LogPart
  <1>2. buf_'[s] = Overwrite(buf_[s], offset_[s], IF s = log_stream_[t] THEN record ELSE <<>>)
    BY DEF Update
  <1>3. buf_'[s] = Overwrite(buf_[s], offset_[s], <<>>)
    BY <1>1, <1>2
  <1>4. QED
    BY <1>3 DEF Overwrite

\* Where memory was lacking, no stream that logs is changed.
LEMMA NothingLogged ==
  ASSUME MemoryInv, NEW s \in Streams, NEW t \in Streams, NEW record, NEW own, Logged(s), NoMemory(t, record, own)
  PROVE  FALSE
  <1>1. PICK n : Update(t, SubSeq(record, 1, n), 0, buf_[t])
    BY DEF NoMemory
  <1>2. CASE s = t
    <2>1. buf_'[s] = buf_[s]
      BY <1>1, <1>2 DEF Update
    <2>2. QED
      BY <2>1 DEF Logged
  <1>3. CASE s # t
    BY <1>1, <1>3, OthersStay DEF Logged
  <1>4. QED
    BY <1>2, <1>3

\* A write is recorded.
LEMMA WriteRecorded ==
  ASSUME MemoryInv, NEW s \in Streams, NEW at \in Nat, NEW src \in Payloads, NEW print_chars \in BOOLEAN,
         NEW desc \in Descs \cup {None}, NEW step \in Nat, NEW here, CanWrite(s, here), Logged(s),
         Update(s, Dump(at, src, print_chars, desc), step, Overwrite(buf_[s], at, src))
  PROVE  Recorded(s)
  <1>1. src \in Seq(Nat)
    BY PayloadType
  <1>2. src # <<>>
    <2>1. SUFFICES ASSUME src = <<>> PROVE FALSE
      OBVIOUS
    <2>2. buf_'[s] = Overwrite(buf_[s], at, src)
      BY DEF Update
    <2>3. buf_'[s] = buf_[s]
      BY <2>1, <2>2 DEF Overwrite
    <2>4. QED
      BY <2>3 DEF Logged
  <1>3. log_stream_[s] # None /\ buf_[log_stream_[s]] # None
    BY DEF Logged, CanWrite, Ready
  <1>4. PICK D : D = Dump(at, src, print_chars, desc)
    OBVIOUS
  <1>5. D \in Seq(Cell) /\ D # <<>> /\ D[1] = <<"address", at>> /\ Octets(D) = src /\ Legible(D)
    BY <1>1, <1>2, <1>4, DumpLegible
  <1>6. RecordOf(s) = D /\ buf_'[s] = Overwrite(buf_[s], at, src)
    BY <1>3, <1>4, <1>5, LogGrows
  <1>7. D[1][1] # "move" /\ D[1][2] = at
    BY <1>5
  <1>8. Tells(D, buf_[s], Overwrite(buf_[s], at, src))
    <2>1. buf_[s] \in Seq(Symbol) /\ src \in Seq(Symbol) /\ 0 \in Symbol
      BY PayloadType DEF MemoryInv, BufferPart, Logged, Symbol
    <2>2. PICK after : after = Overwrite(buf_[s], at, src)
      OBVIOUS
    <2>3. /\ Len(after) >= Len(buf_[s]) /\ Len(after) >= at + Len(src)
          /\ \A i \in 0..Len(after) - 1 :
                Byte(after, i) = IF i \in at..at + Len(src) - 1 THEN src[i - at + 1] ELSE Byte(buf_[s], i)
      <3>1. HasTaken(buf_[s], at, src, after)
        BY <1>2, <2>1, <2>2, OverwriteReads
      <3>2. QED
        BY <3>1 DEF HasTaken
    <2>4. Tells(D, buf_[s], after)
      BY <1>5, <1>7, <2>3, Zenon DEF Tells
    <2>5. QED
      BY <2>2, <2>4
  <1>9. QED
    BY <1>5, <1>6, <1>8, Zenon DEF Recorded

\* A move is recorded.
LEMMA MoveRecorded ==
  ASSUME MemoryInv, NEW s \in Streams, NEW dst \in Nat, NEW src \in Nat, NEW size \in Nat,
         Logged(s), CanWrite(s, dst), Update(s, MoveNote(dst, src, size), 0, Moved(buf_[s], dst, src, size))
  PROVE  Recorded(s)
  <1>1. /\ CanWrite(s, dst)
        /\ Update(s, MoveNote(dst, src, size), 0, Moved(buf_[s], dst, src, size))
    OBVIOUS
  <1>2. log_stream_[s] # None /\ buf_[log_stream_[s]] # None /\ 0 \in Nat
    BY <1>1 DEF Logged, CanWrite, Ready
  <1>3. PICK N : N = MoveNote(dst, src, size)
    OBVIOUS
  <1>4. N \in Seq(Cell) /\ N # <<>> /\ N[1] = <<"move", dst, src, size>> /\ Legible(N)
    BY <1>3, NoteLegible
  <1>5. RecordOf(s) = N /\ buf_'[s] = Moved(buf_[s], dst, src, size)
    BY <1>1, <1>2, <1>3, <1>4, LogGrows
  <1>6. N[1][1] = "move" /\ N[1][2] = dst /\ N[1][3] = src /\ N[1][4] = size
    BY <1>4
  <1>7. Tells(N, buf_[s], Moved(buf_[s], dst, src, size))
    <2>1. buf_[s] \in Seq(Symbol) /\ 0 \in Symbol
      BY DEF MemoryInv, BufferPart, Logged, Symbol
    <2>2. PICK after : after = Moved(buf_[s], dst, src, size)
      OBVIOUS
    <2>3. size # 0
      BY <1>5 DEF Logged, Moved
    <2>4. /\ Len(after) >= Len(buf_[s]) /\ Len(after) >= dst + size
          /\ \A i \in 0..Len(after) - 1 :
                Byte(after, i) = IF i \in dst..dst + size - 1 THEN Byte(buf_[s], src + (i - dst)) ELSE Byte(buf_[s], i)
      BY <2>1, <2>2, <2>3, MovedReads
    <2>5. Tells(N, buf_[s], after)
      BY <1>6, <2>4, Zenon DEF Tells
    <2>6. QED
      BY <2>2, <2>5
  <1>8. QED
    BY <1>4, <1>5, <1>7, Zenon DEF Recorded

\* So is every change of a stream that logs.
LEMMA ChangeRecorded ==
  ASSUME MemoryInv, NEW s \in Streams, NEW t \in Streams, Change(t), Logged(s)
  PROVE  Recorded(s)
  <1>0. /\ buf_ = [x \in Streams |-> buf_[x]] /\ log_stream_ \in [Streams -> Streams \cup {None}]
        /\ \A x \in Streams : offset_[x] \in Nat
    BY DEF MemoryInv, BufferPart
  <1>1. ASSUME NEW src \in Payloads, NEW print_chars \in BOOLEAN, NEW desc \in Descs \cup {None},
               NEW at \in 0..MaxOffset, WriteDataAt(t, at, src, print_chars, desc)
        PROVE  Recorded(s)
    <2>1. /\ CanWrite(t, at) /\ at \in Nat /\ 0 \in Nat
          /\ Update(t, Dump(at, src, print_chars, desc), 0, Overwrite(buf_[t], at, src))
      BY <1>1, NumbersAssumption, NothingLogged DEF WriteDataAt
    <2>2. CASE s = t
      BY <2>1, <2>2, WriteRecorded
    <2>3. CASE s # t
      BY <2>1, <2>3, OthersStay DEF Logged
    <2>4. QED
      BY <2>2, <2>3
  <1>2. ASSUME NEW src \in Payloads, NEW print_chars \in BOOLEAN, NEW desc \in Descs \cup {None},
               WriteData(t, src, print_chars, desc)
        PROVE  Recorded(s)
    <2>1. /\ CanWrite(t, offset_[t]) /\ offset_[t] \in Nat
          /\ Update(t, Dump(offset_[t], src, print_chars, desc), Len(src), Overwrite(buf_[t], offset_[t], src))
      BY <1>0, <1>2, NothingLogged DEF WriteData
    <2>2. Len(src) \in Nat
      <3>1. src \in Seq(Nat)
        BY PayloadType
      <3>2. QED
        BY <3>1
    <2>3. CASE s = t
      BY <2>1, <2>2, <2>3, WriteRecorded
    <2>4. CASE s # t
      BY <2>1, <2>4, OthersStay DEF Logged
    <2>5. QED
      BY <2>3, <2>4
  <1>3. ASSUME NEW dst \in 0..MaxOffset, NEW src \in 0..MaxOffset, NEW size \in Moves, MoveData(t, dst, src, size)
        PROVE  Recorded(s)
    <2>1. dst \in Nat /\ src \in Nat /\ size \in Nat
      BY NumbersAssumption
    <2>2. CanWrite(t, dst) /\ Update(t, MoveNote(dst, src, size), 0, Moved(buf_[t], dst, src, size))
      BY <1>3, NothingLogged DEF MoveData
    <2>3. CASE s = t
      BY <2>1, <2>2, <2>3, MoveRecorded
    <2>4. CASE s # t
      BY <2>2, <2>4, OthersStay DEF Logged
    <2>5. QED
      BY <2>3, <2>4
  <1>4. ASSUME \/ \E delta \in 1..MaxOffset : AddOffset(t, delta)
               \/ \E log \in Streams : set_log_stream(t, log)
               \/ ClearOffset(t)
        PROVE  FALSE
    BY <1>4 DEF AddOffset, set_log_stream, ClearOffset, Logged
  <1>5. ASSUME Construct(t) PROVE FALSE
    <2>1. /\ \E own : buf_' = [buf_ EXCEPT ![t] = own]
          /\ log_stream_' = [log_stream_ EXCEPT ![t] = None]
      BY <1>5 DEF Construct
    <2>2. CASE s = t
      BY <1>0, <2>1, <2>2 DEF Logged
    <2>3. CASE s # t
      BY <1>0, <2>1, <2>3 DEF Logged
    <2>4. QED
      BY <2>2, <2>3
  <1>6. ASSUME ReleaseOutputBuffer(t) \/ Clear(t) PROVE FALSE
    <2>1. \E own \in {None, <<>>} : buf_' = [buf_ EXCEPT ![t] = own]
      BY <1>6 DEF ReleaseOutputBuffer, Clear
    <2>2. QED
      BY <1>0, <2>1 DEF Logged
  <1>7. QED
    BY <1>1, <1>2, <1>3, <1>4, <1>5, <1>6 DEF Change

\* The log of a stream tells its contents, whatever is written and moved in whichever order.
THEOREM LogsTell == MemorySpec => LogTellsContents
  <1>1. MemoryInv /\ [MemoryNext]_memoryVars => [\A s \in Streams : Logged(s) => Recorded(s)]_memoryVars
    <2> SUFFICES ASSUME MemoryInv, MemoryNext, NEW s \in Streams, Logged(s) PROVE Recorded(s)
      OBVIOUS
    <2>1. ASSUME NEW t \in Streams, Change(t) PROVE Recorded(s)
      BY <2>1, ChangeRecorded
    <2>2. QED
      BY <2>1 DEF MemoryNext
  <1>2. [\A s \in Streams : Logged(s) => Recorded(s)]_memoryVars =>
        [\A s \in Streams : LET log == log_stream_[s] IN
           (log # None /\ log_stream_'[s] = log /\ buf_[s] # None
               /\ buf_'[s] \notin {buf_[s], <<>>, None}) =>
              LET text == SubSeq(buf_'[log], offset_[log] + 1, offset_'[log])
              IN  text # <<>> /\ Legible(text) /\ Tells(text, buf_[s], buf_'[s])]_memoryVars
    BY Zenon DEF Logged, Recorded, RecordOf
  <1>3. QED
    BY <1>1, <1>2, MemoryKept, PTL DEF MemorySpec, LogTellsContents
=============================================================================
