-------------------------- MODULE FileStreamProofs --------------------------
(***************************************************************************)
(* FileStream for any streams and files, and writes of any size: every     *)
(* FILE has one closer, and a stream knows where its FILE stands.          *)
(***************************************************************************)
EXTENDS FileStream, TLAPS

TypeOK ==
    /\ object \in [Streams -> {"raw", "alive", "dead"}]
    /\ offset_ \in [Streams -> Nat]
    /\ file_ \in [Streams -> AllFiles \cup {None}]
    /\ position_ \in [Streams -> Nat]
    /\ should_close_ \in [Streams -> BOOLEAN]
    /\ opened \in [AllFiles -> {"no", "open", "closed"}]
    /\ fpos \in [AllFiles -> Nat]
    /\ ferror \in [AllFiles -> BOOLEAN]
    /\ dropped \subseteq Files

\* What was never used is still at its beginning, and what was
\* dropped is never closed, nor is standard output.
FreshPart ==
    /\ \A s \in Streams : object[s] = "raw" => position_[s] = 0
    /\ \A f \in Files : opened[f] = "no" => fpos[f] = 0
    /\ \A f \in dropped \cup {Stdout} : opened[f] = "open"

\* A live stream closes exactly the FILEs that streams opened.
ClosePart ==
    \A s \in Streams : object[s] = "alive" => (should_close_[s] <=> file_[s] \in Files)

IInv == TypeOK /\ FreshPart /\ ClosePart /\ OneCloser /\ PositionKnown

\* Nothing is open at first but standard output, and no stream is alive.
LEMMA InitIInv == Init => IInv
  BY FilesDiffer DEF Init, IInv, TypeOK, FreshPart, ClosePart, OneCloser, PositionKnown, Owns, AllFiles

\* The length of what is written is a number.
LEMMA PayloadsAreSequences == ASSUME NEW src \in Payloads PROVE src \in Seq(Bytes) /\ Len(src) \in Nat
  BY BoundsAreNumbers DEF Payloads

\* A constructor that opens a file, or fails to.
LEMMA OpenKeeps ==
  ASSUME IInv, NEW s \in Streams, Open(s)
  PROVE  IInv'
  <1> USE FilesDiffer DEF AllFiles, IInv
  <1>1. CASE Construct(s, None, FALSE) /\ UNCHANGED disk
    <2> USE <1>1 DEF Construct, disk, base
    <2>1. TypeOK' /\ FreshPart' /\ ClosePart'
      BY DEF TypeOK, FreshPart, ClosePart
    <2>2. OneCloser'
      BY DEF TypeOK, OneCloser, Owns
    <2>3. PositionKnown'
      BY DEF TypeOK, PositionKnown, Owns
    <2>4. QED
      BY <2>1, <2>2, <2>3
  <1>2. ASSUME NEW f \in Files, opened[f] = "no", Construct(s, f, TRUE),
               opened' = [opened EXCEPT ![f] = "open"], UNCHANGED <<fpos, ferror, content>>
        PROVE  IInv'
    <2> USE <1>2 DEF Construct, base
    <2>1. TypeOK' /\ FreshPart' /\ ClosePart'
      BY DEF TypeOK, FreshPart, ClosePart
    <2>2. \A t \in Streams : object[t] = "alive" => file_[t] # f
      BY DEF OneCloser, TypeOK
    <2>3. Owns(s, f)' /\ \A t \in Streams, g \in AllFiles \cup {None} :
             Owns(t, g)' <=> Owns(t, g) \/ (t = s /\ g = f)
      BY DEF Owns, TypeOK
    <2>4. f \notin dropped
      BY DEF FreshPart
    <2>5. OneCloser'
      <3>1. \A t \in Streams : (object'[t] = "alive" /\ file_'[t] # None) => opened'[file_'[t]] = "open"
        BY DEF OneCloser, TypeOK
      <3>2. \A g \in Files : opened'[g] = "open" => g \in dropped \/ \E t \in Streams : Owns(t, g)'
        BY <2>3 DEF OneCloser, TypeOK
      <3>3. \A g \in AllFiles, t, u \in Streams : Owns(t, g)' /\ Owns(u, g)' => t = u
        BY <2>2, <2>3 DEF OneCloser, Owns
      <3>4. \A t \in Streams, g \in {Stdout, None} \cup dropped : ~Owns(t, g)'
        BY <2>3, <2>4 DEF OneCloser, TypeOK
      <3>5. QED
        BY <3>1, <3>2, <3>3, <3>4 DEF OneCloser
    <2>6. PositionKnown'
      BY <2>3 DEF PositionKnown, FreshPart, TypeOK
    <2>7. QED
      BY <2>1, <2>5, <2>6
  <1>3. QED
    BY <1>1, <1>2 DEF Open

\* A stream around an existing file does not close it.
LEMMA WrapKeeps ==
  ASSUME IInv, NEW s \in Streams, Wrap(s)
  PROVE  IInv'
  <1> USE FilesDiffer DEF AllFiles, IInv, Wrap, Construct, disk, base
  <1>1. TypeOK' /\ FreshPart' /\ ClosePart'
    BY DEF TypeOK, FreshPart, ClosePart
  <1>2. \A t \in Streams, g \in AllFiles \cup {None} : Owns(t, g)' <=> Owns(t, g)
    BY DEF Owns, TypeOK
  <1>3. OneCloser'
    <2>1. opened[Stdout] = "open"
      BY DEF FreshPart
    <2>2. \A t \in Streams : (object'[t] = "alive" /\ file_'[t] # None) => opened'[file_'[t]] = "open"
      BY <2>1 DEF OneCloser, TypeOK
    <2>3. QED
      BY <1>2, <2>2 DEF OneCloser, TypeOK
  <1>4. PositionKnown'
    BY <1>2 DEF PositionKnown, TypeOK
  <1>5. QED
    BY <1>1, <1>3, <1>4

\* A move hands over the FILE with the duty to close it, and gives up what it hits.
LEMMA TakeKeeps ==
  ASSUME IInv, NEW s \in Streams, NEW other \in Streams,
         object[s] # "dead", object[other] = "alive", Take(s, other),
         object' = [object EXCEPT ![s] = "alive"], UNCHANGED <<base, disk>>,
         dropped' = IF object[s] = "alive" /\ should_close_[s] THEN dropped \cup {file_[s]} ELSE dropped
  PROVE  IInv'
  <1> USE FilesDiffer DEF AllFiles, IInv, Take, disk, base
  <1>1. TypeOK'
    BY DEF TypeOK, ClosePart
  <1>2. FreshPart'
    BY DEF TypeOK, FreshPart, ClosePart, OneCloser
  <1>3. ClosePart'
    BY DEF TypeOK, ClosePart
  <1>4. \A t \in Streams, g \in AllFiles \cup {None} :
           Owns(t, g)' <=> \/ t \notin {s, other} /\ Owns(t, g)
                           \/ t = s /\ s # other /\ Owns(other, g)
    BY DEF Owns, TypeOK
  <1>5. dropped' = dropped \/ (Owns(s, file_[s]) /\ dropped' = dropped \cup {file_[s]})
    BY DEF Owns
  <1>6. OneCloser'
    <2>1. \A t \in Streams : (object'[t] = "alive" /\ file_'[t] # None) => opened'[file_'[t]] = "open"
      BY DEF OneCloser, TypeOK
    <2>2. \A g \in Files : opened'[g] = "open" => g \in dropped' \/ \E t \in Streams : Owns(t, g)'
      <3>1. SUFFICES ASSUME NEW g \in Files, opened[g] = "open", g \notin dropped'
                     PROVE  \E t \in Streams : Owns(t, g)'
        BY DEF TypeOK
      <3>2. PICK t \in Streams : Owns(t, g)
        BY <3>1 DEF OneCloser
      <3>3. t # s
        BY <3>1, <3>2 DEF Owns
      <3>4. QED
        BY <1>4, <3>2, <3>3
    <2>3. \A g \in AllFiles, t, u \in Streams : Owns(t, g)' /\ Owns(u, g)' => t = u
      BY <1>4 DEF OneCloser
    <2>4. \A t \in Streams, g \in {Stdout, None} \cup dropped' : ~Owns(t, g)'
      <3>1. \A t \in Streams, g \in {Stdout, None} \cup dropped : ~Owns(t, g)'
        BY <1>4 DEF OneCloser, TypeOK
      <3>2. ASSUME NEW g, g \notin dropped, g \in dropped', NEW t \in Streams PROVE ~Owns(t, g)'
        <4>1. g = file_[s] /\ Owns(s, g) /\ g \in AllFiles
          BY <1>5, <3>2 DEF Owns, TypeOK, ClosePart
        <4>2. QED
          BY <1>4, <4>1 DEF OneCloser
      <3>3. QED
        BY <3>1, <3>2
    <2>5. QED
      BY <2>1, <2>2, <2>3, <2>4 DEF OneCloser
  <1>7. PositionKnown'
    <2>1. SUFFICES ASSUME NEW t \in Streams, NEW g \in Files, Owns(t, g)'
                   PROVE  position_'[t] = fpos[g] \/ ferror[g]
      BY DEF PositionKnown
    <2>2. CASE t \notin {s, other} /\ Owns(t, g)
      BY <2>2 DEF PositionKnown, TypeOK
    <2>3. CASE t = s /\ s # other /\ Owns(other, g)
      BY <2>3 DEF PositionKnown, TypeOK
    <2>4. QED
      BY <1>4, <2>1, <2>2, <2>3
  <1>8. QED
    BY <1>1, <1>2, <1>3, <1>6, <1>7

\* The destructor closes the FILE that is its own, which nobody else points to.
LEMMA DestroyKeeps ==
  ASSUME IInv, NEW s \in Streams, Destroy(s)
  PROVE  IInv'
  <1> USE FilesDiffer DEF AllFiles, IInv, Destroy, own, base
  <1>1. TypeOK' /\ ClosePart'
    BY DEF TypeOK, ClosePart
  <1>2. \A t \in Streams, g \in AllFiles \cup {None} : Owns(t, g)' <=> t # s /\ Owns(t, g)
    BY DEF Owns, TypeOK
  <1>3. \A f \in AllFiles : opened'[f] = IF Owns(s, f) THEN "closed" ELSE opened[f]
    BY DEF Owns, TypeOK, ClosePart
  <1>4. FreshPart'
    BY <1>3 DEF TypeOK, FreshPart, OneCloser
  <1>5. OneCloser'
    <2>1. \A t \in Streams : (object'[t] = "alive" /\ file_'[t] # None) => opened'[file_'[t]] = "open"
      <3>1. SUFFICES ASSUME NEW t \in Streams, t # s, object[t] = "alive", file_[t] # None
                     PROVE  opened'[file_[t]] = "open"
        BY DEF TypeOK
      <3>2. opened[file_[t]] = "open" /\ file_[t] \in AllFiles
        BY <3>1 DEF OneCloser, TypeOK
      <3>3. ~Owns(s, file_[t])
        BY <3>1, <3>2 DEF OneCloser, Owns, ClosePart
      <3>4. QED
        BY <1>3, <3>2, <3>3
    <2>2. \A g \in Files : opened'[g] = "open" => g \in dropped \/ \E t \in Streams : Owns(t, g)'
      BY <1>2, <1>3 DEF OneCloser
    <2>3. QED
      BY <1>2, <2>1, <2>2 DEF OneCloser, TypeOK
  <1>6. PositionKnown'
    BY <1>2 DEF PositionKnown, TypeOK
  <1>7. QED
    BY <1>1, <1>4, <1>5, <1>6

-----------------------------------------------------------------------------
(* Writing: only the FILE of s and the position of s move.                  *)

\* What is left to show of a step that neither opens, closes nor hands over a FILE.
LEMMA WritingKeeps ==
  ASSUME IInv, NEW s \in Streams, object[s] = "alive",
         UNCHANGED <<object, file_, should_close_, opened, dropped>>,
         offset_' \in [Streams -> Nat], position_' \in [Streams -> Nat],
         fpos' \in [AllFiles -> Nat], ferror' \in [AllFiles -> BOOLEAN],
         \A t \in Streams \ {s} : position_'[t] = position_[t],
         \A f \in AllFiles \ {file_[s]} : fpos'[f] = fpos[f] /\ ferror'[f] = ferror[f],
         file_[s] \in Files => position_'[s] = fpos'[file_[s]] \/ ferror'[file_[s]]
  PROVE  IInv'
  <1> USE FilesDiffer DEF AllFiles, IInv
  <1>1. TypeOK' /\ ClosePart'
    BY DEF TypeOK, ClosePart
  <1>2. FreshPart'
    BY DEF TypeOK, FreshPart, OneCloser
  <1>3. OneCloser'
    BY DEF OneCloser, Owns
  <1>4. PositionKnown'
    <2>1. SUFFICES ASSUME NEW t \in Streams, NEW g \in Files, Owns(t, g)
                   PROVE  position_'[t] = fpos'[g] \/ ferror'[g]
      BY DEF PositionKnown, Owns
    <2>2. CASE t = s
      BY <2>1, <2>2 DEF Owns
    <2>3. CASE t # s
      <3>1. g # file_[s]
        BY <2>1, <2>3 DEF OneCloser, Owns, ClosePart
      <3>2. QED
        BY <2>1, <2>3, <3>1 DEF PositionKnown
    <2>4. QED
      BY <2>2, <2>3
  <1>5. QED
    BY <1>1, <1>2, <1>3, <1>4

\* WriteDataImpl, when it seeks or not, when fseek fails and when fwrite stops early.
LEMMA PutKeeps ==
  ASSUME IInv, NEW s \in Streams, object[s] = "alive", NEW at \in Nat, NEW src \in Payloads,
         Put(s, at, src), UNCHANGED <<object, file_, should_close_, dropped>>,
         offset_' \in [Streams -> Nat]
  PROVE  IInv'
  <1> USE FilesDiffer DEF AllFiles
  <1>1. CASE UNCHANGED <<position_, disk>>
    <2>1. file_[s] \in Files => position_[s] = fpos[file_[s]] \/ ferror[file_[s]]
      BY DEF IInv, ClosePart, PositionKnown, Owns
    <2>2. QED
      BY <1>1, <2>1, WritingKeeps DEF disk, IInv, TypeOK
  <1>2. ASSUME NEW n \in 0..Len(src), file_[s] # None,
               fwrite(file_[s], IF at # position_[s] THEN at ELSE fpos[file_[s]], src, n),
               position_' = [position_ EXCEPT ![s] = IF n = Len(src) THEN at + n ELSE at]
        PROVE  IInv'
    <2> DEFINE f == file_[s]
    <2>1. f \in AllFiles /\ n \in Nat /\ Len(src) \in Nat
      BY <1>2, PayloadsAreSequences DEF IInv, TypeOK
    <2>2. /\ fpos' = [fpos EXCEPT ![f] = (IF at # position_[s] THEN at ELSE fpos[f]) + n]
          /\ ferror' = [ferror EXCEPT ![f] = @ \/ n < Len(src)] /\ opened' = opened
      BY <1>2 DEF fwrite
    <2>3. f \in Files => position_[s] = fpos[f] \/ ferror[f]
      BY DEF IInv, ClosePart, PositionKnown, Owns
    <2>4. fpos' \in [AllFiles -> Nat] /\ ferror' \in [AllFiles -> BOOLEAN]
      BY <2>1, <2>2 DEF IInv, TypeOK
    <2>5. position_' \in [Streams -> Nat]
      BY <1>2, <2>1 DEF IInv, TypeOK
    <2>6. f \in Files => position_'[s] = fpos'[f] \/ ferror'[f]
      <3>1. ferror'[f] <=> ferror[f] \/ n < Len(src)
        BY <2>1, <2>2 DEF IInv, TypeOK
      <3>2. fpos'[f] = (IF at # position_[s] THEN at ELSE fpos[f]) + n
        BY <2>1, <2>2 DEF IInv, TypeOK
      <3>3. position_'[s] = IF n = Len(src) THEN at + n ELSE at
        BY <1>2 DEF IInv, TypeOK
      <3>4. n = Len(src) \/ n < Len(src)
        BY <2>1
      <3>5. QED
        BY <2>3, <3>1, <3>2, <3>3, <3>4
    <2>7. /\ \A t \in Streams \ {s} : position_'[t] = position_[t]
          /\ \A g \in AllFiles \ {f} : fpos'[g] = fpos[g] /\ ferror'[g] = ferror[g]
      BY <1>2, <2>2 DEF IInv, TypeOK
    <2>8. QED
      BY <2>2, <2>4, <2>5, <2>6, <2>7, WritingKeeps
  <1>3. QED
    BY <1>1, <1>2 DEF Put, Emit

\* A step that moves neither FILEs nor positions.
LEMMA OffsetKeeps ==
  ASSUME IInv, UNCHANGED <<object, own, disk, dropped>>, offset_' \in [Streams -> Nat]
  PROVE  IInv'
  BY DEF IInv, TypeOK, FreshPart, ClosePart, OneCloser, PositionKnown, Owns, own, disk

\* What others write to standard output moves no FILE that a stream opened.
LEMMA OthersKeep ==
  ASSUME IInv, NEW src \in Payloads, Others(src)
  PROVE  IInv'
  <1> USE FilesDiffer DEF AllFiles, IInv, own, base
  <1>1. Len(src) \in Nat
    BY PayloadsAreSequences
  <1>2. /\ fpos' = [fpos EXCEPT ![Stdout] = fpos[Stdout] + Len(src)]
        /\ ferror' = [ferror EXCEPT ![Stdout] = @ \/ Len(src) < Len(src)]
        /\ UNCHANGED <<object, offset_, file_, position_, should_close_, opened, dropped>>
    BY DEF Others, fwrite
  <1>3. fpos' \in [AllFiles -> Nat]
    BY <1>1, <1>2 DEF TypeOK
  <1>4. ferror' \in [AllFiles -> BOOLEAN]
    BY <1>2 DEF TypeOK
  <1>5. \A f \in Files : fpos'[f] = fpos[f] /\ ferror'[f] = ferror[f]
    BY <1>2 DEF TypeOK
  <1>6. TypeOK' /\ FreshPart' /\ ClosePart'
    BY <1>2, <1>3, <1>4, <1>5 DEF TypeOK, FreshPart, ClosePart
  <1>7. OneCloser' /\ PositionKnown'
    BY <1>2, <1>5 DEF OneCloser, PositionKnown, Owns
  <1>8. QED
    BY <1>6, <1>7

\* The invariant is inductive.
LEMMA NextKeeps == IInv /\ [Next]_vars => IInv'
  <1> SUFFICES ASSUME IInv, [Next]_vars PROVE IInv'
    OBVIOUS
  <1> USE BoundsAreNumbers
  <1>1. offset_ \in [Streams -> Nat]
    BY DEF IInv, TypeOK
  <1>2. ASSUME NEW s \in Streams, NEW other \in Streams, MoveConstruct(s, other) PROVE IInv'
    BY <1>2, TakeKeeps DEF MoveConstruct
  <1>3. ASSUME NEW s \in Streams, NEW other \in Streams, MoveAssign(s, other) PROVE IInv'
    <2>1. object' = [object EXCEPT ![s] = "alive"]
      BY <1>3 DEF MoveAssign, IInv, TypeOK
    <2>2. QED
      BY <1>3, <2>1, TakeKeeps DEF MoveAssign
  <1>4. ASSUME NEW s \in Streams, NEW src \in Payloads, NEW at \in 0..MaxOffset, WriteDataAt(s, at, src)
        PROVE  IInv'
    BY <1>1, <1>4, PutKeeps DEF WriteDataAt
  <1>5. ASSUME NEW s \in Streams, NEW src \in Payloads, WriteData(s, src) PROVE IInv'
    <2>1. offset_' \in [Streams -> Nat] /\ offset_[s] \in Nat
      BY <1>1, <1>5, PayloadsAreSequences DEF WriteData
    <2>2. QED
      BY <1>5, <2>1, PutKeeps DEF WriteData
  <1>6. ASSUME NEW s \in Streams, NEW size \in 0..MaxSize, MoveData(s, size) PROVE IInv'
    BY <1>1, <1>6, OffsetKeeps DEF MoveData
  <1>7. ASSUME NEW s \in Streams, NEW delta \in 1..MaxOffset, AddOffset(s, delta) PROVE IInv'
    <2>1. offset_' \in [Streams -> Nat]
      BY <1>1, <1>7 DEF AddOffset
    <2>2. QED
      BY <1>7, <2>1, OffsetKeeps DEF AddOffset
  <1>8. ASSUME NEW s \in Streams, ClearOffset(s) PROVE IInv'
    <2>1. offset_' \in [Streams -> Nat]
      BY <1>1, <1>8 DEF ClearOffset
    <2>2. QED
      BY <1>8, <2>1, OffsetKeeps DEF ClearOffset
  <1>9. CASE UNCHANGED vars
    BY <1>1, <1>9, OffsetKeeps DEF vars, base
  <1>10. QED
    BY <1>2, <1>3, <1>4, <1>5, <1>6, <1>7, <1>8, <1>9, OpenKeeps, WrapKeeps, DestroyKeeps, OthersKeep
    DEF Next

\* The invariant holds in every state, of any streams and files.
THEOREM Invariant == Spec => []IInv
  BY InitIInv, NextKeeps, PTL DEF Spec

\* Through any moves, each FILE that streams opened has one stream to close it, and
\* no stream points to a FILE that was closed or will close one it did not open.
THEOREM FilesHaveOneCloser == Spec => []OneCloser
  BY Invariant, PTL DEF IInv

\* The seek WriteDataImpl saves is one that would have changed nothing.
THEOREM PositionsAreKnown == Spec => []PositionKnown
  BY Invariant, PTL DEF IInv
=============================================================================
