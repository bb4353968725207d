---------------------------- MODULE CodecProofs -----------------------------
(***************************************************************************)
(* What the codecs write they read again, for all words, byte strings and  *)
(* argument lists, and every stream is read by the rules of its format.    *)
(***************************************************************************)
EXTENDS Codec, FiniteSetTheorems, SequenceTheorems, WellFoundedInduction, TLAPS

(* Numbers.                                                                 *)

\* A set of numbers has a least one.
LEMMA LeastNumber ==
  ASSUME NEW S, S \subseteq Nat, S # {}
  PROVE  Least(S) \in S /\ \A n \in S : Least(S) <= n
  <1>1. PICK less : less = OpToRel(<, Nat)
    OBVIOUS
  <1>2. \A m, n \in Nat : <<m, n>> \in less <=> m < n
    BY <1>1 DEF OpToRel
  <1>3. IsWellFoundedOn(less, Nat)
    BY <1>1, NatLessThanWellFounded
  <1>4. PICK n \in S : \A m \in S : <<m, n>> \notin less
    BY <1>3, WFMin
  <1>5. \A m \in S : m \in Nat /\ n \in Nat /\ ~(m < n)
    BY <1>2, <1>4
  <1>6. \A m \in S : n <= m
    BY <1>5
  <1>7. QED
    BY <1>6 DEF Least

\* A set that has 0, and with each number the next, has them all.
LEMMA Induction ==
  ASSUME NEW S, 0 \in S, \A n \in S \cap Nat : n + 1 \in S
  PROVE  Nat \subseteq S
  <1> DEFINE rest == Nat \ S
  <1>1. SUFFICES ASSUME rest # {} PROVE FALSE
    OBVIOUS
  <1>2. Least(rest) \in rest /\ \A n \in rest : Least(rest) <= n
    BY <1>1, LeastNumber
  <1>3. PICK n : n = Least(rest)
    OBVIOUS
  <1>4. n \in Nat /\ n \notin S /\ n # 0
    BY <1>2, <1>3
  <1>5. \A k \in rest : n <= k
    BY <1>2, <1>3
  <1>6. n - 1 \in Nat /\ n - 1 \notin rest
    BY <1>4, <1>5
  <1>7. n - 1 \in S \cap Nat
    BY <1>6
  <1>8. QED
    BY <1>4, <1>7

-----------------------------------------------------------------------------
(* Readers of LEB128.                                                       *)

Streams == Seq(SUBSET (0..7))

\* The first byte without continuation bit is the n-th.
EndsAt(p, n) == n \in 1..Len(p) /\ 7 \notin p[n] /\ \A k \in 1..n - 1 : 7 \in p[k]

\* A number of w bits, and it alone, is read.
Holds(p, n, w, signed) == n <= MaxBytes(w) /\ EndsAt(p, n) /\ Fits(p, n, w, signed)
Value(p, n, w, signed) == {i \in 0..w - 1 : Bit(p, n, i, signed)}
Number(p, n, w, signed) == [length |-> n, value |-> Value(p, n, w, signed)]
Exact(result, p, w, signed) ==
    /\ \A n \in 1..Len(p) : Holds(p, n, w, signed) => result = Number(p, n, w, signed)
    /\ (\A n \in 1..Len(p) : ~Holds(p, n, w, signed)) => result.length = 0

\* The readers find the end of a number, if it has one.
LEMMA ExtentEnds ==
  ASSUME NEW p \in Streams, NEW w \in {32, 64}
  PROVE  /\ Extent(p, w) \in 0..MaxBytes(w)
         /\ Extent(p, w) # 0 => EndsAt(p, Extent(p, w))
         /\ \A n \in 1..MaxBytes(w) : EndsAt(p, n) => Extent(p, w) = n
  <1>1. CASE Ends(p, w) = {}
    BY <1>1 DEF Extent, Ends, EndsAt, MaxBytes, Streams
  <1>2. CASE Ends(p, w) # {}
    <2>1. PICK m : m = Least(Ends(p, w))
      OBVIOUS
    <2>2. m \in Ends(p, w) /\ \A n \in Ends(p, w) : m <= n
      BY <1>2, <2>1, LeastNumber DEF Ends, MaxBytes
    <2>3. Extent(p, w) = m
      BY <1>2, <2>1 DEF Extent
    <2>4. m \in 1..MaxBytes(w) /\ m <= Len(p) /\ 7 \notin p[m]
      BY <2>2 DEF Ends
    <2>5. ASSUME NEW k \in 1..m - 1 PROVE 7 \in p[k]
      BY <2>2, <2>4, <2>5 DEF Ends, MaxBytes, Streams
    <2>6. EndsAt(p, m)
      BY <2>4, <2>5 DEF EndsAt, MaxBytes, Streams
    <2>7. ASSUME NEW n \in 1..MaxBytes(w), EndsAt(p, n) PROVE m = n
      <3>1. m <= n
        BY <2>2, <2>7 DEF Ends, EndsAt, Streams
      <3>2. QED
        BY <2>4, <2>7, <3>1 DEF EndsAt, MaxBytes, Streams
    <2>8. QED
      BY <2>3, <2>4, <2>6, <2>7 DEF MaxBytes
  <1>3. QED
    BY <1>1, <1>2

\* Number(p, n, ..) of an unsigned word are the groups put together.
LEMMA UnsignedValue ==
  ASSUME NEW p \in Streams, NEW n \in 1..5
  PROVE  Join(p, n, 32) = Value(p, n, 32, FALSE)
  <1>1. \A i \in 0..32 - 1 : i \div 7 < n <=> i < 7 * n
    OBVIOUS
  <1>2. QED
    BY <1>1 DEF Join, Value, Bit

\* The fifth byte holds bits beyond the word.
Spills(p, n) == n = 5 /\ p[5] \cap 4..7 # {}

\* An unsigned word fits unless the fifth byte has more than four bits.
LEMMA UnsignedFits ==
  ASSUME NEW p \in Streams, NEW n \in 1..5, EndsAt(p, n)
  PROVE  (Spills(p, n) => ~Fits(p, n, 32, FALSE)) /\ (~Spills(p, n) => Fits(p, n, 32, FALSE))
  <1>1. CASE n < 5
    <2>1. \A i \in 32..70 : ~(i < 7 * n)
      BY <1>1
    <2>2. QED
      BY <1>1, <2>1 DEF Fits, Bit, Spills
  <1>2. CASE n = 5
    <2>1. \A i \in 32..70 : i < 35 <=> i \in {32, 33, 34}
      OBVIOUS
    <2>2. 32 % 7 = 4 /\ 33 % 7 = 5 /\ 34 % 7 = 6 /\ 32 \div 7 = 4 /\ 33 \div 7 = 4 /\ 34 \div 7 = 4
      OBVIOUS
    <2>3. ASSUME Spills(p, n) PROVE ~Fits(p, n, 32, FALSE)
      <3>1. 4 \in p[5] \/ 5 \in p[5] \/ 6 \in p[5]
        BY <1>2, <2>3 DEF Spills, EndsAt
      <3>2. QED
        BY <1>2, <2>2, <3>1 DEF Fits, Bit
    <2>4. ASSUME ~Spills(p, n) PROVE Fits(p, n, 32, FALSE)
      <3>1. 4 \notin p[5] /\ 5 \notin p[5] /\ 6 \notin p[5]
        BY <1>2, <2>4 DEF Spills
      <3>2. QED
        BY <1>2, <2>1, <2>2, <3>1 DEF Fits, Bit
    <2>5. QED
      BY <2>3, <2>4
  <1>3. n < 5 \/ n = 5
    OBVIOUS
  <1>4. QED
    BY <1>1, <1>2, <1>3

\* Unsigned words are read exactly.
LEMMA UnsignedExact ==
  ASSUME NEW p \in Streams, NEW out
  PROVE  Exact(ReadU32Leb128(p, out), p, 32, FALSE)
  <1>1. PICK n : n = Extent(p, 32)
    OBVIOUS
  <1>2. /\ n \in 0..5
        /\ n # 0 => EndsAt(p, n)
        /\ \A m \in 1..5 : EndsAt(p, m) => n = m
    BY <1>1, ExtentEnds DEF MaxBytes
  <1>3. \A m \in 1..Len(p) : Holds(p, m, 32, FALSE) => m = n /\ n # 0
    BY <1>2 DEF Holds, MaxBytes, EndsAt
  <1>4. ReadU32Leb128(p, out) = IF n = 0 THEN Refused({})
                                ELSE IF Spills(p, n) THEN Refused(out)
                                ELSE [length |-> n, value |-> Join(p, n, 32)]
    BY <1>1 DEF ReadU32Leb128, Spills
  <1>5. CASE n = 0
    <2>1. \A m \in 1..Len(p) : ~Holds(p, m, 32, FALSE)
      BY <1>3, <1>5
    <2>2. ReadU32Leb128(p, out).length = 0
      BY <1>4, <1>5 DEF Refused
    <2>3. QED
      BY <2>1, <2>2 DEF Exact
  <1>6. CASE n # 0
    <2>0. n \in 1..5 /\ EndsAt(p, n)
      BY <1>2, <1>6
    <2>1. (Spills(p, n) => ~Fits(p, n, 32, FALSE)) /\ (~Spills(p, n) => Fits(p, n, 32, FALSE))
      BY <2>0, UnsignedFits
    <2>2. Join(p, n, 32) = Value(p, n, 32, FALSE)
      BY <2>0, UnsignedValue
    <2>3. n \in 1..Len(p) /\ n <= MaxBytes(32)
      BY <2>0 DEF EndsAt, MaxBytes
    <2>4. CASE Fits(p, n, 32, FALSE)
      <3>1. Holds(p, n, 32, FALSE)
        BY <2>0, <2>3, <2>4 DEF Holds
      <3>2. ~Spills(p, n)
        BY <2>1, <2>4
      <3>3. ReadU32Leb128(p, out) = Number(p, n, 32, FALSE)
        BY <1>4, <1>6, <2>2, <3>2 DEF Number
      <3>4. QED
        BY <1>3, <2>3, <3>1, <3>3 DEF Exact
    <2>5. CASE ~Fits(p, n, 32, FALSE)
      <3>1. \A m \in 1..Len(p) : ~Holds(p, m, 32, FALSE)
        BY <1>3, <2>5 DEF Holds
      <3>2. Spills(p, n)
        BY <2>1, <2>5
      <3>3. ReadU32Leb128(p, out).length = 0
        BY <1>4, <1>6, <3>2 DEF Refused
      <3>4. QED
        BY <3>1, <3>3 DEF Exact
    <2>6. QED
      BY <2>4, <2>5
  <1>7. QED
    BY <1>5, <1>6

\* A signed number that ends early fits, and its sign is extended.
LEMMA ShortSigned ==
  ASSUME NEW p \in Streams, NEW w \in {32, 64}, NEW n \in 1..MaxBytes(w) - 1
  PROVE  /\ Fits(p, n, w, TRUE)
         /\ SignExtend(Join(p, n, w), 7 * n - 1, w) = Value(p, n, w, TRUE)
  <1>1. n \in Nat /\ n > 0 /\ 7 * n <= w - 1 /\ w \in Nat
    BY DEF MaxBytes
  <1>2. Fits(p, n, w, TRUE)
    <2>1. \A i \in w - 1..70 : ~(i < 7 * n)
      BY <1>1
    <2>2. w - 1 \in w - 1..70 /\ \A i \in w..70 : i \in w - 1..70
      BY <1>1
    <2>3. QED
      BY <2>1, <2>2 DEF Fits, Bit
  <1>3. 7 * n - 1 \in 0..w - 1 /\ (7 * n - 1) \div 7 = n - 1 /\ (7 * n - 1) % 7 = 6
    BY <1>1
  <1>4. 7 * n - 1 \in Join(p, n, w) <=> 6 \in p[n]
    BY <1>1, <1>3 DEF Join
  <1>5. \A i \in 0..w - 1 : i \div 7 < n <=> i < 7 * n
    BY <1>1
  <1>6. \A i \in 0..w - 1 : i \in 7 * n - 1..w - 1 <=> (i = 7 * n - 1 \/ ~(i < 7 * n))
    BY <1>1
  <1>7. ASSUME NEW i \in 0..w - 1
        PROVE  i \in SignExtend(Join(p, n, w), 7 * n - 1, w) <=> Bit(p, n, i, TRUE)
    <2>1. i \in Join(p, n, w) <=> (i < 7 * n /\ i % 7 \in p[i \div 7 + 1])
      BY <1>5 DEF Join
    <2>2. i \in SignExtend(Join(p, n, w), 7 * n - 1, w)
            <=> (i \in Join(p, n, w) \/ (7 * n - 1 \in Join(p, n, w) /\ i \in 7 * n - 1..w - 1))
      BY DEF SignExtend
    <2>3. CASE i < 7 * n
      BY <1>1, <1>6, <2>1, <2>2, <2>3 DEF Bit
    <2>4. CASE ~(i < 7 * n)
      BY <1>4, <1>6, <2>1, <2>2, <2>4 DEF Bit
    <2>5. QED
      BY <2>3, <2>4
  <1>8. SignExtend(Join(p, n, w), 7 * n - 1, w) \subseteq 0..w - 1
    BY <1>1 DEF SignExtend, Join
  <1>9. QED
    BY <1>2, <1>7, <1>8 DEF Value

\* In the last byte allowed, the bits above the word repeat its sign.
SignRepeats(p, n, w) == TopBitsFit(p[n], w - 7 * (n - 1))

\* A signed number of as many bytes as are allowed fits if they do, and needs no extension.
LEMMA LongSigned ==
  ASSUME NEW p \in Streams, NEW w \in {32, 64}, NEW n \in {MaxBytes(w)}
  PROVE  /\ SignRepeats(p, n, w) => Fits(p, n, w, TRUE)
         /\ ~SignRepeats(p, n, w) => ~Fits(p, n, w, TRUE)
         /\ Join(p, n, w) = Value(p, n, w, TRUE)
  <1>1. Join(p, n, w) = Value(p, n, w, TRUE)
    <2>1. \A i \in 0..w - 1 : i \div 7 < n /\ i < 7 * n
      BY DEF MaxBytes
    <2>2. QED
      BY <2>1 DEF Join, Value, Bit
  <1>2. CASE w = 32
    <2>1. n = 5 /\ w - 7 * (n - 1) = 4 /\ 4 - 1 = 3
      BY <1>2 DEF MaxBytes
    <2>2. \A i \in 32..70 : i \in {32, 33, 34} \/ ~(i < 35)
      OBVIOUS
    <2>3. /\ 31 % 7 = 3 /\ 32 % 7 = 4 /\ 33 % 7 = 5 /\ 34 % 7 = 6
          /\ 31 \div 7 = 4 /\ 32 \div 7 = 4 /\ 33 \div 7 = 4 /\ 34 \div 7 = 4
      OBVIOUS
    <2> DEFINE same == /\ 4 \in p[5] <=> 3 \in p[5]
                       /\ 5 \in p[5] <=> 3 \in p[5]
                       /\ 6 \in p[5] <=> 3 \in p[5]
    <2>4. /\ same => Fits(p, n, w, TRUE)
          /\ ~same => ~Fits(p, n, w, TRUE)
      BY <1>2, <2>1, <2>2, <2>3 DEF Fits, Bit
    <2>5. 4..6 = {4, 5, 6}
      OBVIOUS
    <2>6. /\ SignRepeats(p, n, w) => same
          /\ same => SignRepeats(p, n, w)
      BY <2>1, <2>5 DEF SignRepeats, TopBitsFit
    <2>7. QED
      BY <1>1, <2>4, <2>6
  <1>3. CASE w = 64
    <2>1. n = 10 /\ w - 7 * (n - 1) = 1 /\ 1 - 1 = 0
      BY <1>3 DEF MaxBytes
    <2>2. \A i \in 64..70 : i % 7 = (IF i = 70 THEN 0 ELSE i - 63) /\ (i < 70 => i \div 7 = 9)
      OBVIOUS
    <2>3. 63 % 7 = 0 /\ 63 \div 7 = 9 /\ 64 - 1 = 63 /\ 7 * 10 = 70
      OBVIOUS
    <2> DEFINE same == \A i \in 1..6 : i \in p[10] <=> 0 \in p[10]
    <2>4. /\ same => Fits(p, n, w, TRUE)
          /\ ~same => ~Fits(p, n, w, TRUE)
      <3>1. Bit(p, 10, 63, TRUE) <=> 0 \in p[10]
        BY <2>3 DEF Bit
      <3>2. \A i \in 1..6 : Bit(p, 10, i + 63, TRUE) <=> i \in p[10]
        BY <2>2 DEF Bit
      <3>3. Bit(p, 10, 70, TRUE) <=> 6 \in p[10]
        BY DEF Bit
      <3>4. \A i \in 64..70 : i = 70 \/ (i - 63 \in 1..6 /\ i = (i - 63) + 63)
        OBVIOUS
      <3>5. QED
        BY <1>3, <2>1, <2>3, <3>1, <3>2, <3>3, <3>4 DEF Fits, Bit
    <2>5. /\ SignRepeats(p, n, w) => same
          /\ same => SignRepeats(p, n, w)
      BY <2>1 DEF SignRepeats, TopBitsFit
    <2>6. QED
      BY <1>1, <2>4, <2>5
  <1>4. QED
    BY <1>2, <1>3

\* Signed words are read exactly.
LEMMA SignedExact ==
  ASSUME NEW p \in Streams, NEW out, NEW w \in {32, 64}
  PROVE  Exact(ReadSLeb128(p, out, w), p, w, TRUE)
  <1>1. PICK n : n = Extent(p, w)
    OBVIOUS
  <1>2. /\ n \in 0..MaxBytes(w)
        /\ n # 0 => EndsAt(p, n)
        /\ \A m \in 1..MaxBytes(w) : EndsAt(p, m) => n = m
    BY <1>1, ExtentEnds
  <1>3. MaxBytes(w) \in Nat
    BY DEF MaxBytes
  <1>4. \A m \in 1..Len(p) : Holds(p, m, w, TRUE) => m = n /\ n # 0
    BY <1>2, <1>3 DEF Holds, EndsAt
  <1>5. ReadSLeb128(p, out, w) =
          IF n = 0 THEN Refused(out)
          ELSE IF n < MaxBytes(w)
          THEN [length |-> n, value |-> SignExtend(Join(p, n, w), 7 * n - 1, w)]
          ELSE IF SignRepeats(p, n, w)
          THEN [length |-> n, value |-> Join(p, n, w)]
          ELSE Refused(out)
    BY <1>1 DEF ReadSLeb128, SignRepeats
  <1>6. CASE n = 0
    <2>1. \A m \in 1..Len(p) : ~Holds(p, m, w, TRUE)
      BY <1>4, <1>6
    <2>2. ReadSLeb128(p, out, w).length = 0
      BY <1>5, <1>6 DEF Refused
    <2>3. QED
      BY <2>1, <2>2 DEF Exact
  <1>7. CASE n \in 1..MaxBytes(w) - 1
    <2>1. n # 0 /\ n < MaxBytes(w) /\ n \in Nat
      BY <1>3, <1>7
    <2>2. /\ Fits(p, n, w, TRUE)
          /\ SignExtend(Join(p, n, w), 7 * n - 1, w) = Value(p, n, w, TRUE)
      BY <1>7, ShortSigned
    <2>3. Holds(p, n, w, TRUE) /\ n \in 1..Len(p)
      <3>1. EndsAt(p, n) /\ n <= MaxBytes(w)
        BY <1>2, <1>3, <2>1
      <3>2. n \in 1..Len(p)
        BY <3>1 DEF EndsAt
      <3>3. QED
        BY <2>2, <3>1, <3>2 DEF Holds
    <2>4. ReadSLeb128(p, out, w) = Number(p, n, w, TRUE)
      BY <1>5, <2>1, <2>2 DEF Number
    <2>5. QED
      BY <1>4, <2>3, <2>4 DEF Exact
  <1>8. CASE n = MaxBytes(w)
    <2>1. n # 0 /\ ~(n < MaxBytes(w)) /\ EndsAt(p, n)
      BY <1>2, <1>8 DEF MaxBytes
    <2>2. /\ SignRepeats(p, n, w) => Fits(p, n, w, TRUE)
          /\ ~SignRepeats(p, n, w) => ~Fits(p, n, w, TRUE)
          /\ Join(p, n, w) = Value(p, n, w, TRUE)
      <3>1. n \in {MaxBytes(w)}
        BY <1>8
      <3>2. QED
        BY <3>1, LongSigned
    <2>3. CASE SignRepeats(p, n, w)
      <3>1. Holds(p, n, w, TRUE) /\ n \in 1..Len(p)
        <4>1. Fits(p, n, w, TRUE)
          BY <2>2, <2>3
        <4>2. n <= MaxBytes(w)
          BY <1>3, <1>8
        <4>3. n \in 1..Len(p)
          BY <2>1 DEF EndsAt
        <4>4. QED
          BY <2>1, <4>1, <4>2, <4>3 DEF Holds
      <3>2. ReadSLeb128(p, out, w) = Number(p, n, w, TRUE)
        BY <1>5, <2>1, <2>2, <2>3 DEF Number
      <3>3. QED
        BY <1>4, <3>1, <3>2 DEF Exact
    <2>4. CASE ~SignRepeats(p, n, w)
      <3>1. ~Fits(p, n, w, TRUE)
        BY <2>2, <2>4
      <3>2. \A m \in 1..Len(p) : ~Holds(p, m, w, TRUE)
        BY <1>4, <3>1 DEF Holds
      <3>3. ReadSLeb128(p, out, w).length = 0
        BY <1>5, <2>1, <2>4 DEF Refused
      <3>4. QED
        BY <3>2, <3>3 DEF Exact
    <2>5. QED
      BY <2>3, <2>4
  <1>9. n = 0 \/ n \in 1..MaxBytes(w) - 1 \/ n = MaxBytes(w)
    BY <1>2, <1>3
  <1>10. QED
    BY <1>6, <1>7, <1>8, <1>9

-----------------------------------------------------------------------------
(* Writers of LEB128.                                                       *)

\* What follows a number changes nothing about it.
LEMMA FollowedHolds ==
  ASSUME NEW s \in Streams, NEW r \in Streams, NEW w \in {32, 64}, NEW signed,
         s # <<>>, Holds(s, Len(s), w, signed)
  PROVE  /\ s \o r \in Streams
         /\ Len(s) \in 1..Len(s \o r)
         /\ Holds(s \o r, Len(s), w, signed)
         /\ Value(s \o r, Len(s), w, signed) = Value(s, Len(s), w, signed)
  <1>1. PICK p : p = s \o r
    OBVIOUS
  <1>2. PICK n : n = Len(s)
    OBVIOUS
  <1>3. p \in Streams /\ n \in Nat /\ n > 0 /\ n <= Len(p) /\ Len(p) \in Nat
    BY <1>1, <1>2 DEF Streams
  <1>4. \A k \in 1..n : p[k] = s[k]
    BY <1>1, <1>2 DEF Streams
  <1>5. n \in 1..n /\ \A i \in Nat : i < 7 * n => i \div 7 + 1 \in 1..n
    BY <1>3
  <1>6. \A i \in Nat : Bit(p, n, i, signed) = Bit(s, n, i, signed)
    BY <1>4, <1>5 DEF Bit
  <1>7. EndsAt(p, n)
    <2>1. EndsAt(s, n)
      BY <1>2 DEF Holds
    <2>2. QED
      BY <1>3, <1>4, <2>1 DEF EndsAt
  <1>8. Fits(p, n, w, signed)
    <2>1. Fits(s, n, w, signed)
      BY <1>2 DEF Holds
    <2>2. w - 1 \in Nat /\ \A i \in w..70 : i \in Nat
      OBVIOUS
    <2>3. QED
      BY <1>6, <2>1, <2>2, Zenon DEF Fits
  <1>9. Value(p, n, w, signed) = Value(s, n, w, signed)
    <2>1. \A i \in 0..w - 1 : i \in Nat
      OBVIOUS
    <2>2. QED
      BY <1>6, <2>1, Zenon DEF Value
  <1>10. n <= MaxBytes(w)
    BY <1>2 DEF Holds
  <1>11. Holds(p, n, w, signed)
    BY <1>7, <1>8, <1>10 DEF Holds
  <1>12. n \in 1..Len(p)
    BY <1>3
  <1>13. QED
    BY <1>1, <1>2, <1>3, <1>9, <1>11, <1>12

\* The groups of a word hold its bits in order.
LEMMA SplitBits ==
  ASSUME NEW v \in SUBSET (0..63), NEW n \in 1..10
  PROVE  /\ Split(v, n) \in Streams
         /\ Len(Split(v, n)) = n
         /\ EndsAt(Split(v, n), n)
         /\ \A i \in 0..7 * n - 1 : i % 7 \in Split(v, n)[i \div 7 + 1] <=> i \in v
  <1>1. PICK s : s = Split(v, n)
    OBVIOUS
  <1>2. s = [k \in 1..n |-> Group(Shr(v, 7 * (k - 1))) \cup (IF k < n THEN {7} ELSE {})]
    BY <1>1 DEF Split
  <1>3. \A k \in 1..n : s[k] = Group(Shr(v, 7 * (k - 1))) \cup (IF k < n THEN {7} ELSE {})
    BY <1>2
  <1>4. \A k \in 1..n : s[k] \in SUBSET (0..7)
    BY <1>3 DEF Group
  <1>5. s \in Streams /\ Len(s) = n
    BY <1>2, <1>4 DEF Streams
  <1>6. \A k \in 1..n : 7 \in s[k] <=> k < n
    BY <1>3 DEF Group
  <1>7. EndsAt(s, n)
    BY <1>5, <1>6 DEF EndsAt
  <1>8. ASSUME NEW i \in 0..7 * n - 1 PROVE i % 7 \in s[i \div 7 + 1] <=> i \in v
    <2>1. PICK q, r : q = i \div 7 /\ r = i % 7
      OBVIOUS
    <2>2. q \in 0..n - 1 /\ r \in 0..6 /\ i = 7 * q + r
      BY <2>1
    <2>3. s[q + 1] = Group(Shr(v, 7 * q)) \cup (IF q + 1 < n THEN {7} ELSE {})
      BY <1>3, <2>2
    <2>4. r \in s[q + 1] <=> r \in Shr(v, 7 * q)
      BY <2>2, <2>3 DEF Group
    <2>5. r \in Shr(v, 7 * q) <=> i \in v
      BY <2>2 DEF Shr
    <2>6. QED
      BY <2>1, <2>4, <2>5
  <1>9. QED
    BY <1>1, <1>5, <1>7, <1>8

\* An unsigned word in enough groups is a number that fits.
LEMMA SplitHolds ==
  ASSUME NEW v \in SUBSET (0..31), NEW n \in 1..5, Shr(v, 7 * n) = {}
  PROVE  /\ Holds(Split(v, n), n, 32, FALSE)
         /\ Value(Split(v, n), n, 32, FALSE) = v
  <1>1. PICK s : s = Split(v, n)
    OBVIOUS
  <1>2. /\ EndsAt(s, n)
        /\ \A i \in 0..7 * n - 1 : i % 7 \in s[i \div 7 + 1] <=> i \in v
    BY <1>1, SplitBits
  <1>3. \A i \in v : i < 7 * n
    <2>1. ASSUME NEW i \in v, ~(i < 7 * n) PROVE FALSE
      <3>1. i - 7 * n \in 0..63 /\ (i - 7 * n) + 7 * n = i
        BY <2>1
      <3>2. i - 7 * n \in Shr(v, 7 * n)
        BY <3>1 DEF Shr
      <3>3. QED
        BY <3>2
    <2>2. QED
      BY <2>1
  <1>4. ASSUME NEW i \in 0..70 PROVE Bit(s, n, i, FALSE) <=> i \in v
    <2>1. CASE i < 7 * n
      BY <1>2, <2>1 DEF Bit
    <2>2. CASE ~(i < 7 * n)
      BY <1>3, <2>2 DEF Bit
    <2>3. QED
      BY <2>1, <2>2
  <1>5. \A i \in 32..70 : i \in 0..70 /\ i \notin v
    OBVIOUS
  <1>6. Fits(s, n, 32, FALSE)
    <2>1. \A i \in 32..70 : ~Bit(s, n, i, FALSE)
      BY <1>4, <1>5
    <2>2. QED
      BY <2>1 DEF Fits, Bit
  <1>7. n <= MaxBytes(32)
    BY DEF MaxBytes
  <1>8. Holds(s, n, 32, FALSE)
    BY <1>2, <1>6, <1>7 DEF Holds
  <1>9. Value(s, n, 32, FALSE) = v
    <2>1. 32 - 1 = 31 /\ \A i \in 0..31 : i \in 0..70
      OBVIOUS
    <2>2. \A i \in 0..31 : Bit(s, n, i, FALSE) <=> i \in v
      BY <1>4, <2>1
    <2>3. QED
      BY <2>1, <2>2 DEF Value
  <1>10. QED
    BY <1>1, <1>8, <1>9

\* An unsigned word needs at most five bytes.
LEMMA LengthEnough ==
  ASSUME NEW v \in SUBSET (0..31)
  PROVE  /\ U32Leb128Length(v) \in 1..5
         /\ Shr(v, 7 * U32Leb128Length(v)) = {}
         /\ Shr(v, 7 * 5) = {}
  <1>1. Shr(v, 7 * 5) = {}
    BY DEF Shr
  <1> DEFINE enough == {n \in 1..5 : Shr(v, 7 * n) = {}}
  <1>2. 5 \in enough /\ enough \subseteq Nat
    BY <1>1
  <1>3. Least(enough) \in enough
    BY <1>2, LeastNumber
  <1>4. U32Leb128Length(v) = Least(enough)
    BY DEF U32Leb128Length
  <1>5. QED
    BY <1>1, <1>3, <1>4

\* A word of w bits, its sign repeated above it.
Extended(v, w, i) == i \in v \/ (i > w - 1 /\ w - 1 \in v)

\* The signed shift moves the repeated signs into the word.
LEMMA SarBits ==
  ASSUME NEW w \in {32, 64}, NEW v \in SUBSET (0..w - 1), NEW k \in Nat, NEW i \in 0..w - 1
  PROVE  i \in Sar(v, k, w) <=> Extended(v, w, i + k)
  BY DEF Sar, Shr, Extended

\* The first n bytes of a signed word that its writer puts out.
Groups(v, n, w) == [k \in 1..n |-> Group(Sar(v, 7 * (k - 1), w)) \cup (IF k < n THEN {7} ELSE {})]

\* The groups of a signed word hold its bits and repeated signs in order.
LEMMA GroupsBits ==
  ASSUME NEW w \in {32, 64}, NEW v \in SUBSET (0..w - 1), NEW n \in 1..10
  PROVE  /\ Groups(v, n, w) \in Streams
         /\ Len(Groups(v, n, w)) = n
         /\ EndsAt(Groups(v, n, w), n)
         /\ \A i \in 0..7 * n - 1 : i % 7 \in Groups(v, n, w)[i \div 7 + 1] <=> Extended(v, w, i)
  <1>1. PICK s : s = Groups(v, n, w)
    OBVIOUS
  <1>2. s = [k \in 1..n |-> Group(Sar(v, 7 * (k - 1), w)) \cup (IF k < n THEN {7} ELSE {})]
    BY <1>1 DEF Groups
  <1>3. \A k \in 1..n : s[k] = Group(Sar(v, 7 * (k - 1), w)) \cup (IF k < n THEN {7} ELSE {})
    BY <1>2
  <1>4. \A k \in 1..n : s[k] \in SUBSET (0..7)
    BY <1>3 DEF Group
  <1>5. s \in Streams /\ Len(s) = n
    BY <1>2, <1>4 DEF Streams
  <1>6. \A k \in 1..n : 7 \in s[k] <=> k < n
    BY <1>3 DEF Group
  <1>7. EndsAt(s, n)
    BY <1>5, <1>6 DEF EndsAt
  <1>8. ASSUME NEW i \in 0..7 * n - 1 PROVE i % 7 \in s[i \div 7 + 1] <=> Extended(v, w, i)
    <2>1. PICK q, r : q = i \div 7 /\ r = i % 7
      OBVIOUS
    <2>2. q \in 0..n - 1 /\ r \in 0..6 /\ i = r + 7 * q /\ r \in 0..w - 1 /\ 7 * q \in Nat
      BY <2>1
    <2>3. s[q + 1] = Group(Sar(v, 7 * q, w)) \cup (IF q + 1 < n THEN {7} ELSE {})
      <3>1. q + 1 \in 1..n /\ 7 * ((q + 1) - 1) = 7 * q
        BY <2>2
      <3>2. s[q + 1] = Group(Sar(v, 7 * ((q + 1) - 1), w)) \cup (IF q + 1 < n THEN {7} ELSE {})
        BY <1>3, <3>1
      <3>3. QED
        BY <3>1, <3>2
    <2>4. r \in s[q + 1] <=> r \in Sar(v, 7 * q, w)
      BY <2>2, <2>3 DEF Group
    <2>5. r \in Sar(v, 7 * q, w) <=> Extended(v, w, r + 7 * q)
      BY <2>2, SarBits
    <2>6. QED
      BY <2>1, <2>2, <2>4, <2>5
  <1>9. QED
    BY <1>1, <1>5, <1>7, <1>8

\* The loop that writes a signed word ends in time, when what is left is the sign.
LEMMA GroupsEnough ==
  ASSUME NEW w \in {32, 64}, NEW v \in SUBSET (0..w - 1)
  PROVE  \E n \in 1..MaxBytes(w) : WriteSLeb128(v, w) = Groups(v, n, w) /\ Done(v, n, w)
  <1>1. PICK max : max = MaxBytes(w)
    OBVIOUS
  <1>2. /\ max \in 1..10 /\ 7 * (max - 1) \in Nat /\ 7 * max \in Nat
        /\ 7 * max > w - 1 + 0 /\ 6 + 7 * (max - 1) > w - 1
    BY <1>1 DEF MaxBytes
  <1>3. \A i \in 0..w - 1 : i \in Sar(v, 7 * max, w) <=> w - 1 \in v
    BY <1>2 DEF Sar, Shr
  <1>4. Sar(v, 7 * max, w) = (IF w - 1 \in v THEN 0..w - 1 ELSE {})
    BY <1>2, <1>3 DEF Sar, Shr
  <1>5. 6 \in Sar(v, 7 * (max - 1), w) <=> w - 1 \in v
    BY <1>2 DEF Sar, Shr
  <1>6. Done(v, max, w)
    BY <1>4, <1>5 DEF Done
  <1> DEFINE enough == {n \in 1..max : Done(v, n, w)}
  <1>7. max \in enough /\ enough \subseteq Nat
    BY <1>2, <1>6
  <1>8. Least(enough) \in enough
    BY <1>7, LeastNumber
  <1>9. WriteSLeb128(v, w) = Groups(v, Least(enough), w)
    BY <1>1 DEF WriteSLeb128, Groups
  <1>10. QED
    BY <1>1, <1>8, <1>9

\* A signed word whose groups leave only signs behind is a number that fits.
LEMMA GroupsHold ==
  ASSUME NEW w \in {32, 64}, NEW v \in SUBSET (0..w - 1), NEW n \in 1..MaxBytes(w), Done(v, n, w)
  PROVE  /\ Holds(Groups(v, n, w), n, w, TRUE)
         /\ Value(Groups(v, n, w), n, w, TRUE) = v
  <1>1. PICK s : s = Groups(v, n, w)
    OBVIOUS
  <1>2. n \in 1..10 /\ 7 * n \in Nat /\ 7 * (n - 1) \in Nat
    BY DEF MaxBytes
  <1>3. /\ EndsAt(s, n)
        /\ \A i \in 0..7 * n - 1 : i % 7 \in s[i \div 7 + 1] <=> Extended(v, w, i)
    BY <1>1, <1>2, GroupsBits
  <1>4. 6 \in s[n] <=> w - 1 \in v
    <2>1. s[n] = Group(Sar(v, 7 * (n - 1), w))
      BY <1>1, <1>2 DEF Groups
    <2>2. QED
      BY <2>1 DEF Done, Group
  <1>5. ASSUME NEW i \in 7 * n..w - 1 PROVE i \in v <=> w - 1 \in v
    <2>1. i - 7 * n \in 0..w - 1 /\ (i - 7 * n) + 7 * n = i
      BY <1>2, <1>5
    <2>2. i - 7 * n \in Sar(v, 7 * n, w) <=> i \in v
      BY <1>5, <2>1 DEF Sar, Shr
    <2>3. i - 7 * n \in Sar(v, 7 * n, w) <=> w - 1 \in v
      BY <2>1 DEF Done
    <2>4. QED
      BY <2>2, <2>3
  <1>6. ASSUME NEW i \in 0..70 PROVE Bit(s, n, i, TRUE) <=> Extended(v, w, i)
    <2>1. CASE i < 7 * n
      BY <1>3, <2>1 DEF Bit
    <2>2. CASE ~(i < 7 * n)
      <3>1. Bit(s, n, i, TRUE) <=> w - 1 \in v
        BY <1>4, <2>2 DEF Bit
      <3>2. Extended(v, w, i) <=> w - 1 \in v
        BY <1>2, <1>5, <2>2 DEF Extended
      <3>3. QED
        BY <3>1, <3>2
    <2>3. QED
      BY <2>1, <2>2
  <1>7. \A i \in 0..w - 1 : Extended(v, w, i) <=> i \in v
    BY DEF Extended
  <1>8. \A i \in w..70 : Extended(v, w, i) <=> w - 1 \in v
    BY DEF Extended
  <1>9. /\ w - 1 \in 0..70 /\ w - 1 \in 0..w - 1
        /\ \A i \in w..70 : i \in 0..70 /\ i > w - 1
        /\ \A i \in 0..w - 1 : i \in 0..70
    OBVIOUS
  <1>10. Fits(s, n, w, TRUE)
    <2>1. Bit(s, n, w - 1, TRUE) <=> w - 1 \in v
      <3>1. PICK top : top = w - 1
        OBVIOUS
      <3>2. Bit(s, n, top, TRUE) <=> Extended(v, w, top)
        BY <1>6, <1>9, <3>1
      <3>3. Extended(v, w, top) <=> top \in v
        BY <1>9, <1>7, <3>1
      <3>4. QED
        BY <3>1, <3>2, <3>3
    <2>2. \A i \in w..70 : Bit(s, n, i, TRUE) <=> w - 1 \in v
      BY <1>6, <1>9, <1>8
    <2>3. QED
      BY <2>1, <2>2 DEF Fits, Bit
  <1>11. Holds(s, n, w, TRUE)
    <2>1. n <= MaxBytes(w)
      BY DEF MaxBytes
    <2>2. QED
      BY <1>3, <1>10, <2>1 DEF Holds
  <1>12. Value(s, n, w, TRUE) = v
    <2>1. \A i \in 0..w - 1 : Bit(s, n, i, TRUE) <=> i \in v
      BY <1>6, <1>9, <1>7
    <2>2. QED
      BY <2>1 DEF Value
  <1>13. QED
    BY <1>1, <1>11, <1>12

-----------------------------------------------------------------------------
(* VarInts.                                                                 *)

\* The loops of DataStream find the end of a number, if it has one.
LEMMA VarExtentEnds ==
  ASSUME NEW p \in Streams
  PROVE  /\ \A n \in Nat : EndsAt(p, n) => VarExtent(p) = n
         /\ (\A k \in 1..Len(p) : 7 \in p[k]) => VarExtent(p) = 0
  <1> DEFINE ends == {n \in 1..Len(p) : 7 \notin p[n]}
  <1>1. VarExtent(p) = IF ends = {} THEN 0 ELSE Least(ends)
    BY DEF VarExtent
  <1>2. ASSUME NEW n \in Nat, EndsAt(p, n) PROVE VarExtent(p) = n
    <2>1. n \in ends /\ ends \subseteq Nat
      BY <1>2 DEF EndsAt, Streams
    <2>2. PICK m : m = Least(ends)
      OBVIOUS
    <2>3. m \in ends /\ \A k \in ends : m <= k
      BY <2>1, <2>2, LeastNumber
    <2>4. m \in Nat /\ m <= n /\ m \notin 1..n - 1
      BY <1>2, <2>1, <2>3 DEF EndsAt
    <2>5. m \in 1..Len(p)
      BY <2>3
    <2>6. m = n
      BY <2>4, <2>5
    <2>7. QED
      BY <1>1, <2>1, <2>2, <2>6
  <1>3. ASSUME \A k \in 1..Len(p) : 7 \in p[k] PROVE VarExtent(p) = 0
    BY <1>1, <1>3
  <1>4. QED
    BY <1>2, <1>3

\* A VarUInt is read as a LEB128 number is.
LEMMA VarUIntRead ==
  ASSUME NEW p \in Streams, NEW n \in 1..5, EndsAt(p, n)
  PROVE  ReadVarUInt(p) = Number(p, n, 32, FALSE)
  <1>1. VarExtent(p) = n
    BY VarExtentEnds
  <1>2. Join(p, n, 32) = Value(p, n, 32, FALSE)
    BY UnsignedValue
  <1>3. ReadVarUInt(p) = IF VarExtent(p) = 0 THEN Refused({})
                         ELSE [length |-> VarExtent(p), value |-> Join(p, VarExtent(p), 32)]
    BY DEF ReadVarUInt
  <1>4. n # 0
    OBVIOUS
  <1>5. QED
    BY <1>1, <1>2, <1>3, <1>4 DEF Number

\* A VarInt of less than five bytes is, too.
LEMMA VarIntRead ==
  ASSUME NEW p \in Streams, NEW n \in 1..4, EndsAt(p, n)
  PROVE  \A r \in ReadVarInt(p) : r = Number(p, n, 32, TRUE)
  <1>1. VarExtent(p) = n
    BY VarExtentEnds
  <1>2. n # 0 /\ n \in 1..MaxBytes(32) - 1 /\ 32 - 1 = 31
    BY DEF MaxBytes
  <1>3. PICK v : v = Join(p, n, 32)
    OBVIOUS
  <1>4. v \subseteq 0..31
    BY <1>3 DEF Join
  <1>5. SignExtend(v, 7 * n - 1, 32) = Value(p, n, 32, TRUE)
    BY <1>2, <1>3, ShortSigned
  <1>6. 7 * n - 1 < 32 /\ 7 * n < 32 /\ 7 * n - 1 \in Nat
    OBVIOUS
  <1>7. ShrOutcomes(v, 7 * n - 1) = {Shr(v, 7 * n - 1)} /\ OnesShlOutcomes(7 * n) = {7 * n..31}
    BY <1>6 DEF ShrOutcomes, OnesShlOutcomes
  <1>8. 0 \in Shr(v, 7 * n - 1) <=> 7 * n - 1 \in v
    BY <1>6 DEF Shr
  <1>9. v \cup (IF 0 \in Shr(v, 7 * n - 1) THEN 7 * n..31 ELSE {}) = SignExtend(v, 7 * n - 1, 32)
    BY <1>2, <1>4, <1>6, <1>8 DEF SignExtend
  <1>10. ReadVarInt(p) =
           {[length |-> n, value |-> v \cup (IF 0 \in shifted THEN ones ELSE {})] :
               shifted \in ShrOutcomes(v, 7 * n - 1), ones \in OnesShlOutcomes(7 * n)}
    BY <1>1, <1>2, <1>3 DEF ReadVarInt
  <1>11. ASSUME NEW r \in ReadVarInt(p) PROVE r = Number(p, n, 32, TRUE)
    <2>1. PICK shifted \in ShrOutcomes(v, 7 * n - 1), ones \in OnesShlOutcomes(7 * n) :
             r = [length |-> n, value |-> v \cup (IF 0 \in shifted THEN ones ELSE {})]
      BY <1>10
    <2>2. shifted = Shr(v, 7 * n - 1) /\ ones = 7 * n..31
      BY <1>7
    <2>3. QED
      BY <1>5, <1>9, <2>1, <2>2 DEF Number
  <1>12. QED
    BY <1>11

-----------------------------------------------------------------------------
(* Numbers that are sent.                                                   *)

Signed(c) == c \in {"s32", "s64", "varint"}

\* Every number is written as a stream that holds it and nothing more.
LEMMA NumberWritten ==
  ASSUME NEW c \in Leb \cup Var, NEW datum \in Data(c)
  PROVE  \E n \in 1..MaxBytes(Width(c)) :
            /\ Encoded(c, datum) \in Streams
            /\ Len(Encoded(c, datum)) = n
            /\ Holds(Encoded(c, datum), n, Width(c), Signed(c))
            /\ Value(Encoded(c, datum), n, Width(c), Signed(c)) = datum
  <1>1. CASE c \in {"u32", "fixed", "varuint"}
    <2>1. datum \in SUBSET (0..31) /\ datum \in SUBSET (0..63) /\ Width(c) = 32
      <3>1. Data(c) = Words32 /\ Width(c) = 32
        BY <1>1 DEF Data, Width, Var
      <3>2. Words32 \subseteq SUBSET (0..31)
        BY DataAssumption
      <3>3. datum \in SUBSET (0..31)
        BY <3>1, <3>2
      <3>4. 0..31 \subseteq 0..63
        OBVIOUS
      <3>5. QED
        BY <3>1, <3>3, <3>4
    <2>2. Signed(c) = FALSE
      BY <1>1 DEF Signed
    <2>3. PICK n \in 1..5 : Encoded(c, datum) = Split(datum, n) /\ Shr(datum, 7 * n) = {}
      <3>1. CASE c = "fixed"
        BY <2>1, <3>1, LengthEnough DEF Encoded, WriteFixedU32Leb128
      <3>2. CASE c \in {"u32", "varuint"}
        BY <2>1, <3>2, LengthEnough DEF Encoded, WriteU32Leb128, WriteVarUInt
      <3>3. QED
        BY <1>1, <3>1, <3>2
    <2>4. Holds(Split(datum, n), n, 32, FALSE) /\ Value(Split(datum, n), n, 32, FALSE) = datum
      BY <2>1, <2>3, SplitHolds
    <2>5. Split(datum, n) \in Streams /\ Len(Split(datum, n)) = n
      <3>1. n \in 1..10
        OBVIOUS
      <3>2. QED
        BY <2>1, <3>1, SplitBits
    <2>6. n \in 1..MaxBytes(32)
      BY DEF MaxBytes
    <2>7. QED
      BY <2>1, <2>2, <2>3, <2>4, <2>5, <2>6
  <1>2. CASE Signed(c)
    <2>1. PICK w \in {32, 64} : w = Width(c)
      BY DEF Width
    <2>2. datum \in SUBSET (0..w - 1)
      <3>1. c = "s32" \/ c = "s64" \/ c = "varint"
        BY <1>2 DEF Signed
      <3>2. CASE c = "s64"
        <4>1. Data(c) = Words64 /\ w = 64 /\ w - 1 = 63
          BY <2>1, <3>2 DEF Data, Width, Var
        <4>2. Words64 \subseteq SUBSET (0..63)
          BY DataAssumption
        <4>3. QED
          BY <4>1, <4>2
      <3>3. CASE c # "s64"
        <4>1. Data(c) = Words32 /\ w = 32 /\ w - 1 = 31
          BY <2>1, <3>1, <3>3 DEF Data, Width, Var
        <4>2. Words32 \subseteq SUBSET (0..31)
          BY DataAssumption
        <4>3. QED
          BY <4>1, <4>2
      <3>4. QED
        BY <3>2, <3>3
    <2>3. Signed(c) = TRUE
      BY <1>2 DEF Signed
    <2>4. Encoded(c, datum) = WriteSLeb128(datum, w)
      BY <1>2, <2>1 DEF Signed, Encoded, WriteVarInt, Width
    <2>5. PICK n \in 1..MaxBytes(w) : WriteSLeb128(datum, w) = Groups(datum, n, w) /\ Done(datum, n, w)
      BY <2>2, GroupsEnough
    <2>6. Holds(Groups(datum, n, w), n, w, TRUE) /\ Value(Groups(datum, n, w), n, w, TRUE) = datum
      BY <2>2, <2>5, GroupsHold
    <2>7. Groups(datum, n, w) \in Streams /\ Len(Groups(datum, n, w)) = n
      <3>1. n \in 1..10
        BY DEF MaxBytes
      <3>2. Groups(datum, n, w) \in Streams
        BY <2>2, <3>1, GroupsBits, Zenon
      <3>3. Len(Groups(datum, n, w)) = n
        BY <3>1 DEF Groups
      <3>4. QED
        BY <3>2, <3>3
    <2>8. QED
      BY <2>1, <2>3, <2>4, <2>5, <2>6, <2>7
  <1>3. QED
    BY <1>1, <1>2 DEF Leb, Var, Signed

\* A stream cut short ends nowhere.
LEMMA CutEndsNowhere ==
  ASSUME NEW s \in Streams, EndsAt(s, Len(s)), NEW n \in 0..Len(s) - 1
  PROVE  /\ SubSeq(s, 1, n) \in Streams
         /\ \A k \in 1..Len(SubSeq(s, 1, n)) : 7 \in SubSeq(s, 1, n)[k]
  <1>1. SubSeq(s, 1, n) \in Streams /\ Len(SubSeq(s, 1, n)) = n
    BY DEF Streams
  <1>2. \A k \in 1..n : SubSeq(s, 1, n)[k] = s[k] /\ k \in 1..Len(s) - 1
    BY DEF Streams
  <1>3. \A k \in 1..Len(s) - 1 : 7 \in s[k]
    BY DEF EndsAt
  <1>4. QED
    BY <1>1, <1>2, <1>3

\* The readers of LEB128 are exact.
LEMMA LebReads ==
  ASSUME NEW c \in Leb, NEW p \in Streams, NEW result \in Decoded(c, p)
  PROVE  Exact(result, p, Width(c), Signed(c))
  <1>1. CASE c \in {"u32", "fixed"}
    <2>1. result = ReadU32Leb128(p, Old) /\ Width(c) = 32
      BY <1>1 DEF Decoded, Width
    <2>2. Signed(c) = FALSE
      BY <1>1 DEF Signed
    <2>3. QED
      BY <2>1, <2>2, UnsignedExact
  <1>2. CASE c \in {"s32", "s64"}
    <2>1. result = ReadSLeb128(p, Old, Width(c)) /\ Width(c) \in {32, 64}
      BY <1>2 DEF Decoded, Width
    <2>2. Signed(c) = TRUE
      BY <1>2 DEF Signed
    <2>3. QED
      BY <2>1, <2>2, SignedExact
  <1>3. QED
    BY <1>1, <1>2 DEF Leb

\* The number in a stream is read, unless it is a VarInt of five bytes.
LEMMA NumberRead ==
  ASSUME NEW c \in Leb \cup Var, NEW p \in Streams, NEW n \in 1..Len(p),
         Holds(p, n, Width(c), Signed(c)), c = "varint" => n # 5,
         NEW result \in Decoded(c, p)
  PROVE  result = Number(p, n, Width(c), Signed(c))
  <1>1. CASE c \in Leb
    BY <1>1, LebReads DEF Exact
  <1>2. CASE c = "varuint"
    <2>1. Width(c) = 32 /\ result = ReadVarUInt(p)
      BY <1>2 DEF Width, Decoded
    <2>2. Signed(c) = FALSE
      BY <1>2 DEF Signed
    <2>3. EndsAt(p, n)
      BY DEF Holds
    <2>4. n <= MaxBytes(32)
      BY <2>1 DEF Holds
    <2>5. n \in 1..5
      BY <2>4 DEF MaxBytes
    <2>6. QED
      BY <2>1, <2>2, <2>3, <2>5, VarUIntRead
  <1>3. CASE c = "varint"
    <2>1. Width(c) = 32 /\ result \in ReadVarInt(p)
      BY <1>3 DEF Width, Decoded
    <2>2. Signed(c) = TRUE
      BY <1>3 DEF Signed
    <2>3. EndsAt(p, n)
      BY DEF Holds
    <2>4. n <= MaxBytes(32)
      BY <2>1 DEF Holds
    <2>5. n \in 1..4
      BY <1>3, <2>4 DEF MaxBytes
    <2>6. QED
      BY <2>1, <2>2, <2>3, <2>5, VarIntRead
  <1>4. QED
    BY <1>1, <1>2, <1>3 DEF Var

\* Where no number ends, none is read.
LEMMA NothingRead ==
  ASSUME NEW c \in Leb \cup Var, NEW p \in Streams, \A k \in 1..Len(p) : 7 \in p[k],
         NEW result \in Decoded(c, p)
  PROVE  result.length = 0
  <1>1. CASE c \in Leb
    <2>1. \A n \in 1..Len(p) : ~Holds(p, n, Width(c), Signed(c))
      BY DEF Holds, EndsAt
    <2>2. QED
      BY <1>1, <2>1, LebReads DEF Exact
  <1>2. CASE c \in Var
    <2>1. VarExtent(p) = 0
      BY VarExtentEnds
    <2>2. result = Refused({})
      BY <1>2, <2>1 DEF Var, Decoded, ReadVarUInt, ReadVarInt
    <2>3. QED
      BY <2>2 DEF Refused
  <1>3. QED
    BY <1>1, <1>2

-----------------------------------------------------------------------------
(* Words, versions and text.                                                *)

\* Four bytes in either order are the word they were made of.
LEMMA WordRead ==
  ASSUME NEW word \in SUBSET (0..31)
  PROVE  /\ BytesToUInt32(UInt32ToBytes(word)) = word
         /\ BytesToUInt32Little(Reverse(UInt32ToBytes(word))) = word
  <1>1. PICK data : data = UInt32ToBytes(word)
    OBVIOUS
  <1>2. data \in Seq(SUBSET (0..7)) /\ Len(data) = 4
    BY <1>1 DEF UInt32ToBytes
  <1>3. \A k \in 1..4 : data[k] = {i \in 0..7 : i + 8 * (4 - k) \in word}
    BY <1>1 DEF UInt32ToBytes
  <1>4. ASSUME NEW i \in 0..31 PROVE i % 8 \in data[4 - i \div 8] <=> i \in word
    <2>1. PICK q, r : q = i \div 8 /\ r = i % 8
      OBVIOUS
    <2>2. q \in 0..3 /\ r \in 0..7 /\ i = r + 8 * q
      BY <2>1
    <2>3. 4 - q \in 1..4 /\ r + 8 * (4 - (4 - q)) = i
      BY <2>2
    <2>4. r \in data[4 - q] <=> i \in word
      BY <1>3, <2>2, <2>3
    <2>5. QED
      BY <2>1, <2>4
  <1>5. BytesToUInt32(data) = word
    BY <1>4 DEF BytesToUInt32
  <1>6. \A i \in 0..31 : 1 + i \div 8 \in 1..4 /\ 4 - (1 + i \div 8) + 1 = 4 - i \div 8
    OBVIOUS
  <1>7. \A k \in 1..4 : Reverse(data)[k] = data[4 - k + 1]
    BY <1>2 DEF Reverse
  <1>8. \A i \in 0..31 : Reverse(data)[1 + i \div 8] = data[4 - i \div 8]
    BY <1>6, <1>7
  <1>9. BytesToUInt32Little(Reverse(data)) = word
    BY <1>4, <1>8 DEF BytesToUInt32Little
  <1>10. QED
    BY <1>1, <1>5, <1>9

\* A version comes out of a block version, whatever is in the reserved bits.
LEMMA VersionRead ==
  ASSUME NEW version \in SUBSET (0..63), NEW reserved
  PROVE  X_VERSION(BLOCK_VERSION(version, reserved)) = version \cap 0..15
  BY DEF X_VERSION, BLOCK_VERSION

\* A byte is two digits.
LEMMA ByteHalves ==
  ASSUME NEW b \in 0..255
  PROVE  b \div 16 \in 0..15 /\ b % 16 \in 0..15 /\ (b \div 16) * 16 + (b % 16) = b
  <1>1. b \div 16 \in 0..15
    OBVIOUS
  <1>2. b % 16 \in 0..15
    OBVIOUS
  <1>3. (b \div 16) * 16 + (b % 16) = b
    OBVIOUS
  <1>4. QED
    BY <1>1, <1>2, <1>3

\* A digit is its value.
LEMMA DigitValue ==
  ASSUME NEW d \in 0..15
  PROVE  FromHexChar(d) = d /\ d # -1
  BY DEF FromHexChar, Capital

\* Two digits a byte, and back.
LEMMA HexRead ==
  ASSUME NEW bytes \in Seq(0..255)
  PROVE  Hex2Bin(Bin2Hex(bytes)) = bytes
  <1>1. PICK n \in Nat : n = Len(bytes)
    OBVIOUS
  <1>2. PICK text : text = Bin2Hex(bytes)
    OBVIOUS
  <1>3. \A k \in 1..n : bytes[k] \in 0..255
    BY <1>1
  <1>4. ASSUME NEW k \in 1..n
        PROVE  /\ 2 * k - 1 \in 1..2 * n /\ 2 * k \in 1..2 * n
               /\ text[2 * k - 1] = bytes[k] \div 16 /\ text[2 * k] = bytes[k] % 16
    <2>1. /\ 2 * k - 1 \in 1..2 * n /\ 2 * k \in 1..2 * n
          /\ ((2 * k - 1) + 1) \div 2 = k /\ (2 * k + 1) \div 2 = k
          /\ (2 * k - 1) % 2 = 1 /\ (2 * k) % 2 = 0
      OBVIOUS
    <2>2. \A c \in 1..2 * n : text[c] = IF c % 2 = 1 THEN bytes[(c + 1) \div 2] \div 16
                                        ELSE bytes[(c + 1) \div 2] % 16
      BY <1>1, <1>2 DEF Bin2Hex
    <2>3. QED
      BY <2>1, <2>2
  <1>5. ASSUME NEW c \in 1..2 * n PROVE text[c] \in 0..15
    <2>1. PICK k \in 1..n : c = 2 * k - 1 \/ c = 2 * k
      <3>1. (c + 1) \div 2 \in 1..n /\ (c = 2 * ((c + 1) \div 2) - 1 \/ c = 2 * ((c + 1) \div 2))
        OBVIOUS
      <3>2. QED
        BY <3>1
    <2>2. bytes[k] \div 16 \in 0..15 /\ bytes[k] % 16 \in 0..15
      BY <1>3, ByteHalves
    <2>3. QED
      BY <1>4, <2>1, <2>2
  <1>6. Len(text) = 2 * n
    BY <1>1, <1>2 DEF Bin2Hex
  <1>7. \A c \in 1..2 * n : FromHexChar(text[c]) = text[c] /\ text[c] # -1
    BY <1>5, DigitValue
  <1>8. 2 * ((2 * n + 1) \div 2) = 2 * n /\ (2 * n) \div 2 = n
    OBVIOUS
  <1> DEFINE digit(c) == IF c <= 2 * n THEN FromHexChar(text[c]) ELSE -1
  <1>9. Hex2Bin(text) = IF \E c \in 1..2 * n : digit(c) = -1 THEN <<>>
                        ELSE [k \in 1..n |-> digit(2 * k - 1) * 16 + digit(2 * k)]
    BY <1>6, <1>8 DEF Hex2Bin
  <1>10. \A c \in 1..2 * n : digit(c) = text[c]
    BY <1>7
  <1>11. Hex2Bin(text) = [k \in 1..n |-> digit(2 * k - 1) * 16 + digit(2 * k)]
    BY <1>7, <1>9, <1>10
  <1> HIDE DEF digit
  <1>12. ASSUME NEW k \in 1..n PROVE digit(2 * k - 1) * 16 + digit(2 * k) = bytes[k]
    <2>1. digit(2 * k - 1) = bytes[k] \div 16 /\ digit(2 * k) = bytes[k] % 16
      BY <1>4, <1>10
    <2>2. (bytes[k] \div 16) * 16 + (bytes[k] % 16) = bytes[k]
      BY <1>3, ByteHalves
    <2>3. QED
      BY <2>1, <2>2
  <1>13. Hex2Bin(text) = [k \in 1..n |-> bytes[k]]
    BY <1>11, <1>12
  <1>14. bytes = [k \in 1..n |-> bytes[k]]
    BY <1>1
  <1>15. QED
    BY <1>2, <1>13, <1>14

-----------------------------------------------------------------------------
(* Arguments of calls.                                                      *)

\* MACRO_REPEAT lists the numbers in order.
LEMMA RepeatLists ==
  ASSUME NEW n \in Nat
  PROVE  MACRO_REPEAT[n] = [k \in 1..n |-> k]
  <1> DEFINE listed == [m \in Nat |-> [k \in 1..m |-> k]]
  <1>1. listed = [m \in Nat |-> IF m = 0 THEN <<>> ELSE Append(listed[m - 1], m)]
    <2>1. ASSUME NEW m \in Nat \ {0} PROVE [k \in 1..m |-> k] = Append([k \in 1..m - 1 |-> k], m)
      OBVIOUS
    <2>2. [k \in 1..0 |-> k] = <<>>
      OBVIOUS
    <2>3. ASSUME NEW m \in Nat PROVE listed[m] = IF m = 0 THEN <<>> ELSE Append(listed[m - 1], m)
      BY <2>1, <2>2
    <2>4. QED
      BY <2>3
  <1> HIDE DEF listed
  <1>2. MACRO_REPEAT = [m \in Nat |-> IF m = 0 THEN <<>> ELSE Append(MACRO_REPEAT[m - 1], m)]
    BY <1>1, Zenon DEF MACRO_REPEAT
  <1>3. MACRO_REPEAT[0] = <<>> /\ \A m \in Nat : MACRO_REPEAT[m + 1] = Append(MACRO_REPEAT[m], m + 1)
    <2>1. \A m \in Nat : MACRO_REPEAT[m] = IF m = 0 THEN <<>> ELSE Append(MACRO_REPEAT[m - 1], m)
      BY <1>2
    <2>2. \A m \in Nat : m + 1 \in Nat /\ m + 1 # 0 /\ (m + 1) - 1 = m
      OBVIOUS
    <2>3. QED
      BY <2>1, <2>2
  <1> DEFINE good == {m \in Nat : MACRO_REPEAT[m] = [k \in 1..m |-> k]}
  <1>4. 0 \in good
    BY <1>3
  <1>5. ASSUME NEW m \in good \cap Nat PROVE m + 1 \in good
    <2>1. MACRO_REPEAT[m + 1] = Append([k \in 1..m |-> k], m + 1)
      BY <1>3
    <2>2. Append([k \in 1..m |-> k], m + 1) = [k \in 1..m + 1 |-> k]
      OBVIOUS
    <2>3. QED
      BY <2>1, <2>2
  <1>6. Nat \subseteq good
    BY <1>4, <1>5, Induction
  <1>7. QED
    BY <1>6
\* Sequences joined of halves count on from zero.
LEMMA IndexesCount ==
  ASSUME NEW n \in Nat
  PROVE  make_index_sequence[n] = [k \in 1..n |-> k - 1]
  <1> DEFINE count(m) == [k \in 1..m |-> k - 1]
  <1> DEFINE counted == [m \in Nat |-> count(m)]
  <1> DEFINE next(f, m) == IF m <= 1 THEN [i \in 1..m |-> 0]
                           ELSE Joined(f[m \div 2], f[m - m \div 2])
  <1>1. ASSUME NEW m \in Nat, ~(m <= 1)
        PROVE  m \div 2 \in 0..m - 1 /\ m - m \div 2 \in 0..m - 1
    BY <1>1
  <1>2. ASSUME NEW a \in Nat, NEW b \in Nat PROVE Joined(count(a), count(b)) = count(a + b)
    <2>1. count(a) \in Seq(Int) /\ count(b) \in Seq(Int) /\ Len(count(a)) = a /\ Len(count(b)) = b
      OBVIOUS
    <2>2. DOMAIN count(b) = 1..b /\ \A i \in 1..b : count(b)[i] = i - 1
      OBVIOUS
    <2>3. [i \in DOMAIN count(b) |-> Len(count(a)) + count(b)[i]] = [i \in 1..b |-> a + (i - 1)]
      BY <2>1, <2>2
    <2>4. count(a) \o [i \in 1..b |-> a + (i - 1)] = count(a + b)
      OBVIOUS
    <2>5. QED
      BY <2>3, <2>4 DEF Joined
  <1>3. ASSUME NEW m \in Nat PROVE [i \in 1..m |-> 0] = count(m) \/ ~(m <= 1)
    OBVIOUS
  <1> HIDE DEF count
  <1>4. ASSUME NEW m \in Nat, NEW f, \A k \in 0..m - 1 : f[k] = count(k)
        PROVE  next(f, m) = count(m)
    <2>1. CASE m <= 1
      BY <1>3, <2>1
    <2>2. CASE ~(m <= 1)
      <3>1. PICK a, b : a = m \div 2 /\ b = m - m \div 2
        OBVIOUS
      <3>2. a \in 0..m - 1 /\ b \in 0..m - 1 /\ a + b = m
        BY <1>1, <2>2, <3>1
      <3>3. f[a] = count(a) /\ f[b] = count(b)
        BY <1>4, <3>2
      <3>4. Joined(count(a), count(b)) = count(m)
        <4>1. a \in Nat /\ b \in Nat /\ a + b = m
          BY <3>2
        <4>2. Joined(count(a), count(b)) = count(a + b)
          BY <1>2, <4>1
        <4>3. QED
          BY <4>1, <4>2
      <3>5. QED
        BY <2>2, <3>1, <3>3, <3>4
    <2>3. QED
      BY <2>1, <2>2
  <1>5. counted = [m \in Nat |-> next(counted, m)]
    <2>1. ASSUME NEW m \in Nat PROVE next(counted, m) = count(m)
      <3>1. \A k \in 0..m - 1 : counted[k] = count(k)
        OBVIOUS
      <3> HIDE DEF counted, next
      <3>2. QED
        BY <1>4, <3>1
    <2> HIDE DEF next
    <2>2. QED
      BY <2>1
  <1> HIDE DEF counted
  <1>6. make_index_sequence = [m \in Nat |-> next(make_index_sequence, m)]
    BY <1>5, Zenon DEF make_index_sequence
  <1> HIDE DEF next
  <1>7. PICK f : f = make_index_sequence
    OBVIOUS
  <1> DEFINE good == {m \in Nat : \A k \in 0..m : f[k] = count(k)}
  <1>8. \A m \in Nat : f[m] = next(f, m)
    BY <1>6, <1>7
  <1>9. 0 \in good
    <2>1. \A k \in 0..0 - 1 : f[k] = count(k)
      OBVIOUS
    <2>2. f[0] = count(0)
      BY <1>4, <1>8, <2>1
    <2>3. QED
      BY <2>2
  <1>10. ASSUME NEW m \in good \cap Nat PROVE m + 1 \in good
    <2>1. PICK l \in Nat : l = m + 1
      OBVIOUS
    <2>2. \A k \in 0..l - 1 : f[k] = count(k)
      BY <2>1
    <2>3. f[l] = count(l)
      BY <1>4, <1>8, <2>2
    <2>4. \A k \in 0..l : f[k] = count(k)
      BY <2>2, <2>3
    <2>5. QED
      BY <2>1, <2>4
  <1>11. Nat \subseteq good
    BY <1>9, <1>10, Induction
  <1>12. n \in good /\ n \in 0..n
    BY <1>11
  <1>13. f[n] = count(n)
    BY <1>12
  <1>14. f[n] = [k \in 1..n |-> k - 1]
    BY <1>13 DEF count
  <1>15. QED
    BY <1>7, <1>14

\* A method gets the arguments of its call, in order.
LEMMA CallReceived ==
  ASSUME NEW args, args = [i \in 1..Len(args) |-> args[i]], Len(args) \in 0..9
  PROVE  Received(args) = args
  <1>1. PICK n \in 0..9 : n = Len(args)
    OBVIOUS
  <1>2. PICK S : S = {args[i] : i \in 1..n} \cup {"thread"} \cup Int
    OBVIOUS
  <1>3. args \in Seq(S) /\ "thread" \in S
    BY <1>1, <1>2
  <1>4. PICK passed : passed = apply_intrinsic("thread", args, n + 1)
    OBVIOUS
  <1>5. passed = <<"thread">> \o args
    <2>1. (n + 1) - 1 = n /\ n \in Nat
      OBVIOUS
    <2>2. PICK indexes : indexes = make_index_sequence[n]
      OBVIOUS
    <2>3. indexes = [k \in 1..n |-> k - 1]
      BY <2>1, <2>2, IndexesCount
    <2>4. [i \in DOMAIN indexes |-> args[indexes[i] + 1]] = [i \in 1..n |-> args[i]]
      BY <2>3
    <2>5. QED
      BY <1>1, <1>4, <2>1, <2>2, <2>4 DEF apply_intrinsic, apply_impl
  <1>6. ARGS_COUNT_PLUGIN_1(args) = n + 1
    <2>1. PICK numbers : numbers = [k \in 1..11 |-> 12 - k]
      OBVIOUS
    <2>2. numbers \in Seq(S) /\ Len(numbers) = 11 /\ numbers[11 - n] = n + 1
      BY <1>2, <2>1
    <2>3. <<0>> \in Seq(S) /\ Len(<<0>>) = 1
      BY <1>2
    <2>4. PICK front : front = <<0>> \o args
      OBVIOUS
    <2>5. front \in Seq(S) /\ Len(front) = n + 1
      BY <1>1, <1>3, <2>3, <2>4
    <2>6. (front \o numbers)[12] = numbers[11 - n]
      <3>1. 12 \in 1..(n + 1) + 11 /\ ~(12 <= n + 1) /\ 12 - (n + 1) = 11 - n
        OBVIOUS
      <3>2. \A k \in 1..Len(front) + Len(numbers) :
              (front \o numbers)[k] = IF k <= Len(front) THEN front[k] ELSE numbers[k - Len(front)]
        BY <2>2, <2>5, ConcatProperties
      <3>3. QED
        BY <2>2, <2>5, <3>1, <3>2
    <2>7. QED
      BY <2>1, <2>2, <2>4, <2>6 DEF ARGS_COUNT_PLUGIN_1, ARG_COUNT_PRIVATE
  <1>7. passed \in Seq(S) /\ Len(passed) = n + 1 /\ Tail(passed) = args
    <2>1. <<"thread">> \in Seq(S) /\ Len(<<"thread">>) = 1
      BY <1>3
    <2>2. passed \in Seq(S) /\ Len(passed) = n + 1
      BY <1>1, <1>3, <1>5, <2>1
    <2>3. Tail(passed) = args
      BY <1>3, <1>5
    <2>4. QED
      BY <2>2, <2>3
  <1>8. Bound(passed, args) = passed
    <2>1. MACRO_REPEAT[n + 1] = [k \in 1..n + 1 |-> k]
      <3>1. n + 1 \in Nat
        OBVIOUS
      <3>2. QED
        BY <3>1, RepeatLists
    <2>2. Bound(passed, args) = [k \in 1..n + 1 |-> passed[MACRO_REPEAT[n + 1][k]]]
      BY <1>6 DEF Bound
    <2>3. Bound(passed, args) = [k \in 1..n + 1 |-> passed[k]]
      BY <2>1, <2>2
    <2>4. QED
      BY <1>7, <2>3
  <1>9. QED
    BY <1>1, <1>4, <1>7, <1>8 DEF Received

-----------------------------------------------------------------------------
(* Base 64.                                                                 *)

\* The decoding loop takes in one digit after the other.
LEMMA TakenRuns ==
  ASSUME NEW text \in Seq(Int)
  PROVE  /\ Taken(text)[0] = <<>>
         /\ \A i \in 1..Len(text) :
              Taken(text)[i] = IF NotPad(text[i]) THEN Append(Taken(text)[i - 1], text[i])
                               ELSE Taken(text)[i - 1]
  <1> DEFINE step(f, i) == IF i = 0 THEN <<>>
                           ELSE IF NotPad(text[i]) THEN Append(f[i - 1], text[i]) ELSE f[i - 1]
  <1> DEFINE runs == {m \in Nat : m <= Len(text) => \E f : f = [i \in 0..m |-> step(f, i)]}
  <1> HIDE DEF step
  <1>1. 0 \in runs
    <2>1. PICK f : f = [i \in 0..0 |-> <<>>]
      OBVIOUS
    <2>2. \A i \in 0..0 : step(f, i) = <<>>
      BY DEF step
    <2>3. f = [i \in 0..0 |-> step(f, i)]
      BY <2>1, <2>2
    <2>4. QED
      BY <2>3
  <1>2. ASSUME NEW m \in runs \cap Nat PROVE m + 1 \in runs
    <2>1. ASSUME m + 1 <= Len(text) PROVE \E g : g = [i \in 0..m + 1 |-> step(g, i)]
      <3>1. m \in Nat /\ m <= Len(text)
        BY <2>1
      <3>2. PICK f : f = [i \in 0..m |-> step(f, i)]
        BY <3>1
      <3>3. PICK last : last = step(f, m + 1)
        OBVIOUS
      <3>4. PICK g : g = [i \in 0..m + 1 |-> IF i <= m THEN f[i] ELSE last]
        OBVIOUS
      <3>5. \A i \in 0..m : f[i] = step(f, i)
        BY <3>2
      <3>6. \A i \in 0..m : g[i] = f[i]
        BY <3>1, <3>4
      <3>7. ASSUME NEW i \in 0..m + 1 PROVE step(g, i) = step(f, i)
        <4>1. i = 0 \/ i - 1 \in 0..m
          BY <3>1
        <4>2. QED
          BY <3>6, <4>1 DEF step
      <3>8. ASSUME NEW i \in 0..m + 1 PROVE g[i] = step(g, i)
        <4>1. CASE i \in 0..m
          BY <3>5, <3>6, <3>7, <4>1
        <4>2. CASE i = m + 1
          <5>1. g[i] = last
            BY <3>1, <3>4, <4>2
          <5>2. QED
            BY <3>3, <3>7, <4>2, <5>1
        <4>3. QED
          BY <3>1, <4>1, <4>2
      <3>9. g = [i \in 0..m + 1 |-> step(g, i)]
        BY <3>4, <3>8
      <3>10. QED
        BY <3>9
    <2>2. m + 1 \in Nat
      OBVIOUS
    <2>3. QED
      BY <2>1, <2>2
  <1>3. Nat \subseteq runs
    BY <1>1, <1>2, Induction
  <1>4. \E f : f = [i \in 0..Len(text) |-> step(f, i)]
    <2>1. Len(text) \in Nat /\ Len(text) <= Len(text)
      OBVIOUS
    <2>2. Len(text) \in runs
      BY <1>3, <2>1
    <2>3. QED
      BY <2>1, <2>2
  <1>5. Taken(text) = [i \in 0..Len(text) |-> step(Taken(text), i)]
    BY <1>4, Zenon DEF Taken, step
  <1>6. \A i \in 0..Len(text) : Taken(text)[i] = step(Taken(text), i)
    BY <1>5
  <1>7. 0 \in 0..Len(text) /\ \A i \in 1..Len(text) : i \in 0..Len(text) /\ i # 0
    OBVIOUS
  <1>8. QED
    BY <1>6, <1>7 DEF step

\* Two things are two.
LEMMA PairOf ==
  ASSUME NEW a, NEW b, a # b
  PROVE  IsFiniteSet({a, b}) /\ Cardinality({a, b}) = 2
  <1>1. PICK S : S = {a}
    OBVIOUS
  <1>2. IsFiniteSet(S) /\ Cardinality(S) = 1 /\ b \notin S
    BY <1>1, FS_Singleton
  <1>3. IsFiniteSet(S \cup {b}) /\ Cardinality(S \cup {b}) = Cardinality(S) + 1
    BY <1>2, FS_AddElement
  <1>4. S \cup {b} = {a, b}
    BY <1>1
  <1>5. QED
    BY <1>2, <1>3, <1>4

\* The padding that the decoder expects at the end.
Pads(text) == {i \in 1..Len(text) : i >= Len(text) - 1 /\ text[i] = Pad}

\* There are no more digits than places without padding.
LEMMA TakenBounded ==
  ASSUME NEW text \in Seq(Int), Len(text) >= 4
  PROVE  \A i \in 0..Len(text) : /\ Taken(text)[i] \in Seq(Int)
                                 /\ Len(Taken(text)[i]) <= Len(text) - Cardinality(Pads(text))
  <1>1. PICK n \in Nat : n = Len(text)
    OBVIOUS
  <1>2. PICK f : f = Taken(text)
    OBVIOUS
  <1>3. /\ f[0] = <<>>
        /\ \A i \in 1..n : f[i] = IF NotPad(text[i]) THEN Append(f[i - 1], text[i]) ELSE f[i - 1]
    BY <1>1, <1>2, TakenRuns
  <1> DEFINE good == {m \in Nat : m <= n => f[m] \in Seq(Int) /\ Len(f[m]) <= m}
  <1>4. 0 \in good
    <2>1. f[0] \in Seq(Int) /\ Len(f[0]) = 0
      BY <1>3
    <2>2. QED
      BY <2>1
  <1>5. ASSUME NEW m \in good \cap Nat PROVE m + 1 \in good
    <2>1. SUFFICES ASSUME m + 1 <= n PROVE f[m + 1] \in Seq(Int) /\ Len(f[m + 1]) <= m + 1
      OBVIOUS
    <2>2. f[m] \in Seq(Int) /\ Len(f[m]) <= m /\ text[m + 1] \in Int /\ m + 1 \in 1..n /\ (m + 1) - 1 = m
      BY <1>1, <2>1
    <2>3. f[m + 1] = f[m] \/ f[m + 1] = Append(f[m], text[m + 1])
      BY <1>3, <2>2
    <2>4. Append(f[m], text[m + 1]) \in Seq(Int) /\ Len(Append(f[m], text[m + 1])) = Len(f[m]) + 1
      BY <2>2
    <2>5. Len(f[m]) \in Nat
      BY <2>2
    <2>6. f[m + 1] \in Seq(Int) /\ (Len(f[m + 1]) = Len(f[m]) \/ Len(f[m + 1]) = Len(f[m]) + 1)
      BY <2>2, <2>3, <2>4
    <2>7. QED
      BY <2>2, <2>5, <2>6
  <1>6. Nat \subseteq good
    BY <1>4, <1>5, Induction
  <1>7. \A i \in 0..n : f[i] \in Seq(Int) /\ Len(f[i]) <= i
    BY <1>6
  <1>8. PICK l : l = n - 1
    OBVIOUS
  <1>9. /\ l \in 1..n /\ n \in 1..n /\ l \in 0..n /\ l - 1 \in 0..n
        /\ l # n /\ n - 1 = l /\ l \in Nat /\ l + 1 = n
    BY <1>1, <1>8
  <1>10. /\ f[n] = IF NotPad(text[n]) THEN Append(f[l], text[n]) ELSE f[l]
         /\ f[l] = IF NotPad(text[l]) THEN Append(f[l - 1], text[l]) ELSE f[l - 1]
    BY <1>3, <1>9
  <1>11. Pads(text) = {i \in {l, n} : text[i] = Pad}
    BY <1>1, <1>9 DEF Pads
  <1> DEFINE two(i) == IF text[i] = Pad THEN 1 ELSE 0
  <1>12. Cardinality(Pads(text)) = two(l) + two(n)
    <2>1. CASE text[l] = Pad /\ text[n] = Pad
      <3>1. Pads(text) = {l, n}
        BY <1>11, <2>1
      <3>2. Cardinality(Pads(text)) = 2
        BY <1>9, <3>1, PairOf
      <3>3. QED
        BY <2>1, <3>2
    <2>2. CASE text[l] = Pad /\ text[n] # Pad
      <3>1. Pads(text) = {l}
        BY <1>11, <2>2
      <3>2. Cardinality(Pads(text)) = 1
        BY <3>1, FS_Singleton
      <3>3. QED
        BY <2>2, <3>2
    <2>3. CASE text[l] # Pad /\ text[n] = Pad
      <3>1. Pads(text) = {n}
        BY <1>11, <2>3
      <3>2. Cardinality(Pads(text)) = 1
        BY <3>1, FS_Singleton
      <3>3. QED
        BY <2>3, <3>2
    <2>4. CASE text[l] # Pad /\ text[n] # Pad
      <3>1. Pads(text) = {}
        BY <1>11, <2>4
      <3>2. Cardinality(Pads(text)) = 0
        BY <3>1, FS_EmptySet
      <3>3. QED
        BY <2>4, <3>2
    <2>5. QED
      BY <2>1, <2>2, <2>3, <2>4
  <1>13. /\ f[l - 1] \in Seq(Int) /\ Len(f[l - 1]) <= n - 2
         /\ f[l] \in Seq(Int) /\ Len(f[l]) <= n - 1
         /\ f[n] \in Seq(Int) /\ Len(f[n]) <= n
         /\ text[l] \in Int /\ text[n] \in Int
    BY <1>1, <1>7, <1>9
  <1>14. /\ Len(Append(f[l - 1], text[l])) = Len(f[l - 1]) + 1
         /\ Len(Append(f[l], text[n])) = Len(f[l]) + 1
    BY <1>13
  <1>15. Len(f[l]) <= (n - 1) - two(l)
    <2>1. CASE text[l] = Pad
      BY <1>10, <1>13, <2>1 DEF NotPad
    <2>2. CASE text[l] # Pad
      BY <1>13, <2>2
    <2>3. QED
      BY <2>1, <2>2
  <1> HIDE DEF two
  <1>16. Len(f[n]) <= n - (two(l) + two(n))
    <2>1. PICK a, b : a = Len(f[l]) /\ b = Len(f[n])
      OBVIOUS
    <2>2. a \in Nat /\ a <= (n - 1) - two(l) /\ two(l) \in 0..1
      <3>1. a \in Nat
        BY <1>13, <2>1
      <3>2. two(l) \in 0..1
        BY DEF two
      <3>3. QED
        BY <1>15, <2>1, <3>1, <3>2
    <2>3. CASE text[n] = Pad
      <3>1. b = a /\ two(n) = 1
        BY <1>10, <2>1, <2>3 DEF NotPad, two
      <3>2. QED
        BY <2>1, <2>2, <3>1
    <2>4. CASE text[n] # Pad
      <3>1. f[n] = Append(f[l], text[n]) /\ two(n) = 0
        BY <1>10, <2>4 DEF NotPad, two
      <3>2. b = a + 1
        BY <1>14, <2>1, <3>1
      <3>3. QED
        BY <2>1, <2>2, <3>1, <3>2
    <2>5. QED
      BY <2>3, <2>4
  <1>17. \A i \in 0..n : i <= n - 2 \/ i = l \/ i = n
    BY <1>9
  <1>18. two(l) \in 0..1 /\ two(n) \in 0..1
    BY DEF two
  <1>19. ASSUME NEW i \in 0..n PROVE Len(f[i]) <= n - (two(l) + two(n))
    <2>1. CASE i <= n - 2
      <3>1. f[i] \in Seq(Int) /\ Len(f[i]) <= i
        BY <1>7
      <3>2. Len(f[i]) \in Nat
        BY <3>1
      <3>3. QED
        BY <1>18, <2>1, <3>1, <3>2
    <2>2. CASE i = l
      <3>1. Len(f[l]) \in Nat
        BY <1>13
      <3>2. QED
        BY <1>15, <1>18, <2>2, <3>1
    <2>3. QED
      BY <1>16, <1>17, <2>1, <2>2
  <1>20. QED
    BY <1>1, <1>2, <1>7, <1>12, <1>19

\* The room that is checked for is enough for whatever is decoded.
LEMMA RoomEnough ==
  ASSUME NEW text \in Seq(Int), NEW result, result = base64Decode(text, Room(text))
  PROVE  Len(result.bytes) <= Room(text) /\ (result.ok => Len(result.bytes) = Room(text))
  <1>1. PICK read : read = Cardinality(Readable(text))
    OBVIOUS
  <1>2. PICK digits : digits = Taken(text)[read]
    OBVIOUS
  <1>3. result = IF ~Start(text, Room(text)) THEN [ok |-> FALSE, bytes |-> <<>>]
                 ELSE [ok |-> read = Len(text) /\ Len(Octets(digits)) = expect_len(text),
                       bytes |-> Octets(digits)]
    BY <1>1, <1>2 DEF base64Decode
  <1>4. PICK pads : pads = Cardinality(Pads(text))
    OBVIOUS
  <1>5. pads \in 0..2
    <2>1. Pads(text) \subseteq {Len(text) - 1, Len(text)}
      BY DEF Pads
    <2>2. IsFiniteSet({Len(text) - 1, Len(text)}) /\ Cardinality({Len(text) - 1, Len(text)}) <= 2
      <3>1. Len(text) - 1 # Len(text)
        OBVIOUS
      <3>2. Cardinality({Len(text) - 1, Len(text)}) = 2
        BY <3>1, PairOf
      <3>3. IsFiniteSet({Len(text) - 1, Len(text)})
        BY <3>1, PairOf
      <3>4. QED
        BY <3>2, <3>3
    <2>3. QED
      BY <1>4, <2>1, <2>2, FS_Subset, FS_CardinalityType
  <1>6. expect_len(text) = 3 * (Len(text) \div 4) - pads
    BY <1>4 DEF expect_len, Pads
  <1>7. CASE ~Start(text, Room(text))
    <2>1. result.ok = FALSE /\ Len(result.bytes) = 0
      BY <1>3, <1>7
    <2>2. Room(text) \in Nat
      BY <1>5, <1>6 DEF Room
    <2>3. QED
      BY <2>1, <2>2
  <1>8. CASE Start(text, Room(text))
    <2>1. Len(text) >= 4 /\ Len(text) % 4 = 0 /\ Len(text) \in Nat
      BY <1>8 DEF Start
    <2>2. Room(text) = expect_len(text)
      BY <2>1 DEF Room
    <2>3. read \in 0..Len(text)
      <3>1. Readable(text) \subseteq 1..Len(text)
        BY DEF Readable
      <3>2. IsFiniteSet(1..Len(text)) /\ Cardinality(1..Len(text)) = Len(text)
        <4>1. PICK m \in Nat : m = Len(text)
          OBVIOUS
        <4>2. IsFiniteSet(1..m) /\ Cardinality(1..m) = (IF 1 > m THEN 0 ELSE m - 1 + 1)
          BY FS_Interval
        <4>3. QED
          BY <4>1, <4>2
      <3>3. QED
        BY <1>1, <2>1, <3>1, <3>2, FS_Subset, FS_CardinalityType
    <2>4. digits \in Seq(Int) /\ Len(digits) <= Len(text) - pads
      BY <1>2, <1>4, <2>1, <2>3, TakenBounded
    <2>5. PICK m, d : m = Len(text) /\ d = Len(digits)
      OBVIOUS
    <2>6. m \in Nat /\ d \in Nat /\ m % 4 = 0 /\ d <= m - pads
      BY <2>1, <2>4, <2>5
    <2>7. (3 * d) \div 4 \in Nat /\ (3 * d) \div 4 <= 3 * (m \div 4) - pads
      BY <1>5, <2>6
    <2>8. Len(Octets(digits)) = (3 * d) \div 4
      BY <2>5, <2>7 DEF Octets
    <2>9. result.bytes = Octets(digits) /\ (result.ok => Len(Octets(digits)) = expect_len(text))
      <3>1. result = [ok |-> read = Len(text) /\ Len(Octets(digits)) = expect_len(text),
                      bytes |-> Octets(digits)]
        BY <1>3, <1>8
      <3>2. result.bytes = Octets(digits)
        BY <3>1
      <3>3. ASSUME result.ok PROVE Len(Octets(digits)) = expect_len(text)
        <4>1. PICK ok : ok = (read = Len(text) /\ Len(Octets(digits)) = expect_len(text))
          OBVIOUS
        <4>2. result.ok = ok
          BY <3>1, <4>1
        <4>3. QED
          BY <3>3, <4>1, <4>2
      <3>4. QED
        BY <3>2, <3>3
    <2>10. Len(result.bytes) <= expect_len(text)
      BY <1>6, <2>5, <2>7, <2>8, <2>9
    <2>11. QED
      BY <2>2, <2>9, <2>10
  <1>9. QED
    BY <1>7, <1>8

\* The digits of a group of four but the first.
Second(bytes, k) == (bytes[k] % 4) * 16 + (IF k < Len(bytes) THEN bytes[k + 1] \div 16 ELSE 0)
Third(bytes, k) == (bytes[k] % 16) * 4 + (IF k < Len(bytes) THEN bytes[k + 1] \div 64 ELSE 0)
Fourth(bytes, k) == (bytes[k] % 64) * 1

\* The last byte that goes into a digit, but for the first of four.
At(d) == 3 * (d \div 4) + (d % 4)

\* What a digit says of the bytes it is made of.
LEMMA Sextets ==
  ASSUME NEW bytes \in Seq(0..255), NEW d \in Nat
  PROVE  /\ d % 4 = 0 /\ At(d) < Len(bytes) => Sextet(bytes, d) = bytes[At(d) + 1] \div 4
         /\ d % 4 = 1 => Sextet(bytes, d) = Second(bytes, At(d))
         /\ d % 4 = 2 => Sextet(bytes, d) = Third(bytes, At(d))
         /\ d % 4 = 3 => Sextet(bytes, d) = Fourth(bytes, At(d))
  <1>1. /\ 256 \div 64 = 4 /\ 256 \div 16 = 16 /\ 256 \div 4 = 64
        /\ 64 \div 4 = 16 /\ 64 \div 16 = 4 /\ 64 \div 64 = 1
    OBVIOUS
  <1> DEFINE low(values) == (bytes[At(d)] % values) * (64 \div values)
             high(values) == IF At(d) < Len(bytes) THEN bytes[At(d) + 1] \div (256 \div values) ELSE 0
  <1>2. /\ low(4) = (bytes[At(d)] % 4) * 16
        /\ low(16) = (bytes[At(d)] % 16) * 4
        /\ low(64) = (bytes[At(d)] % 64) * 1
    BY <1>1
  <1>3. /\ high(4) = IF At(d) < Len(bytes) THEN bytes[At(d) + 1] \div 64 ELSE 0
        /\ high(16) = IF At(d) < Len(bytes) THEN bytes[At(d) + 1] \div 16 ELSE 0
        /\ high(64) = IF At(d) < Len(bytes) THEN bytes[At(d) + 1] \div 4 ELSE 0
    BY <1>1
  <1>4. Sextet(bytes, d) = CASE d % 4 = 0 -> high(64)
                             [] d % 4 = 1 -> low(4) + high(16)
                             [] d % 4 = 2 -> low(16) + high(4)
                             [] d % 4 = 3 -> low(64)
    BY DEF Sextet, At
  <1> HIDE DEF low, high
  <1>5. ASSUME d % 4 = 0, At(d) < Len(bytes) PROVE Sextet(bytes, d) = bytes[At(d) + 1] \div 4
    BY <1>3, <1>4, <1>5
  <1>6. ASSUME d % 4 = 1 PROVE Sextet(bytes, d) = Second(bytes, At(d))
    BY <1>2, <1>3, <1>4, <1>6 DEF Second
  <1>7. ASSUME d % 4 = 2 PROVE Sextet(bytes, d) = Third(bytes, At(d))
    BY <1>2, <1>3, <1>4, <1>7 DEF Third
  <1>8. ASSUME d % 4 = 3 PROVE Sextet(bytes, d) = Fourth(bytes, At(d))
    BY <1>2, <1>4, <1>8 DEF Fourth
  <1>9. QED
    BY <1>5, <1>6, <1>7, <1>8

\* Parts of bytes are put together again.
LEMMA Parts ==
  ASSUME NEW b \in 0..255
  PROVE  /\ \A x \in 0..15 : (b \div 4) * 4 + (((b % 4) * 16 + x) \div 16) = b
         /\ \A a \in 0..255 : ((a % 4) * 16 + (b \div 16)) % 16 = b \div 16
         /\ \A y \in 0..3 : ((b % 16) * 4 + y) \div 4 = b % 16
         /\ \A a \in 0..255 : ((a % 16) * 4 + (b \div 64)) % 4 = b \div 64
         /\ (b \div 64) * 64 + (b % 64) * 1 = b
  <1>1. /\ b \div 4 \in 0..63 /\ b % 4 \in 0..3 /\ b = 4 * (b \div 4) + (b % 4)
        /\ b \div 16 \in 0..15 /\ b % 16 \in 0..15
        /\ b \div 64 \in 0..3 /\ b % 64 \in 0..63 /\ b = 64 * (b \div 64) + (b % 64)
    OBVIOUS
  <1>2. \A x \in 0..15 : (b \div 4) * 4 + (((b % 4) * 16 + x) \div 16) = b
    <2>1. PICK p, r : p = b \div 4 /\ r = b % 4
      OBVIOUS
    <2>2. \A x \in 0..15 : (r * 16 + x) \div 16 = r
      BY <1>1, <2>1
    <2>3. p * 4 + r = b
      BY <1>1, <2>1
    <2>4. QED
      BY <2>1, <2>2, <2>3
  <1>3. \A a \in 0..255 : ((a % 4) * 16 + (b \div 16)) % 16 = b \div 16
    <2>1. PICK p : p = b \div 16
      OBVIOUS
    <2>2. \A r \in 0..3 : (r * 16 + p) % 16 = p
      BY <1>1, <2>1
    <2>3. \A a \in 0..255 : a % 4 \in 0..3
      OBVIOUS
    <2>4. QED
      BY <2>1, <2>2, <2>3
  <1>4. \A y \in 0..3 : ((b % 16) * 4 + y) \div 4 = b % 16
    <2>1. PICK r : r = b % 16
      OBVIOUS
    <2>2. \A y \in 0..3 : (r * 4 + y) \div 4 = r
      BY <1>1, <2>1
    <2>3. QED
      BY <2>1, <2>2
  <1>5. \A a \in 0..255 : ((a % 16) * 4 + (b \div 64)) % 4 = b \div 64
    <2>1. PICK p : p = b \div 64
      OBVIOUS
    <2>2. \A r \in 0..15 : (r * 4 + p) % 4 = p
      BY <1>1, <2>1
    <2>3. \A a \in 0..255 : a % 16 \in 0..15
      OBVIOUS
    <2>4. QED
      BY <2>1, <2>2, <2>3
  <1>6. (b \div 64) * 64 + (b % 64) * 1 = b
    <2>1. PICK p, r : p = b \div 64 /\ r = b % 64
      OBVIOUS
    <2>2. p * 64 + r * 1 = b
      BY <1>1, <2>1
    <2>3. QED
      BY <2>1, <2>2
  <1>7. QED
    BY <1>2, <1>3, <1>4, <1>5, <1>6

\* How many digits n bytes make, and how long the text is.
DigitsOf(n) == (4 * n + 2) \div 3
TextOf(n) == 4 * ((n + 2) \div 3)

\* As many bytes are expected, and completed by the digits, as were written.
LEMMA Lengths ==
  ASSUME NEW n \in Nat
  PROVE  /\ DigitsOf(n) \in Nat /\ TextOf(n) \in Nat
         /\ DigitsOf(n) <= TextOf(n) /\ TextOf(n) <= DigitsOf(n) + 2
         /\ TextOf(n) % 4 = 0 /\ (n # 0 => TextOf(n) >= 4) /\ (n = 0 => TextOf(n) = 0)
         /\ (3 * DigitsOf(n)) \div 4 = n
         /\ 3 * (TextOf(n) \div 4) - (TextOf(n) - DigitsOf(n)) = n
  <1>1. PICK m \in Nat, r \in 0..2 : n = 3 * m + r
    <2>1. n \div 3 \in Nat /\ n % 3 \in 0..2 /\ n = 3 * (n \div 3) + (n % 3)
      OBVIOUS
    <2>2. QED
      BY <2>1
  <1>2. CASE r = 0
    <2>1. DigitsOf(n) = 4 * m /\ TextOf(n) = 4 * m
      BY <1>1, <1>2 DEF DigitsOf, TextOf
    <2>2. QED
      BY <1>1, <1>2, <2>1
  <1>3. CASE r = 1
    <2>1. DigitsOf(n) = 4 * m + 2 /\ TextOf(n) = 4 * m + 4
      BY <1>1, <1>3 DEF DigitsOf, TextOf
    <2>2. QED
      BY <1>1, <1>3, <2>1
  <1>4. CASE r = 2
    <2>1. DigitsOf(n) = 4 * m + 3 /\ TextOf(n) = 4 * m + 4
      BY <1>1, <1>4 DEF DigitsOf, TextOf
    <2>2. QED
      BY <1>1, <1>4, <2>1
  <1>5. QED
    BY <1>2, <1>3, <1>4

\* The digits are numbers of six bits.
LEMMA SextetRange ==
  ASSUME NEW bytes \in Seq(0..255), NEW d \in 0..DigitsOf(Len(bytes)) - 1
  PROVE  Sextet(bytes, d) \in 0..63
  <1>1. PICK n \in Nat : n = Len(bytes)
    OBVIOUS
  <1>2. PICK q \in Nat, r \in 0..3 : d = 4 * q + r /\ d \div 4 = q /\ d % 4 = r
    <2>1. d \in Nat
      BY <1>1, Lengths
    <2>2. d \div 4 \in Nat /\ d % 4 \in 0..3 /\ d = 4 * (d \div 4) + (d % 4)
      BY <2>1
    <2>3. QED
      BY <2>2
  <1>3. 3 * d + 3 <= 4 * n + 2 /\ d \in Nat
    <2>1. PICK m : m = DigitsOf(n)
      OBVIOUS
    <2>2. m \in Nat /\ 3 * m <= 4 * n + 2
      BY <2>1 DEF DigitsOf
    <2>3. d \in 0..m - 1
      BY <1>1, <2>1
    <2>4. QED
      BY <2>2, <2>3
  <1>4. \A k \in 1..n : bytes[k] \in 0..255
    BY <1>1
  <1>5. \A b \in 0..255 : /\ b \div 4 \in 0..63 /\ b % 4 \in 0..3 /\ b % 16 \in 0..15
                          /\ b \div 16 \in 0..15 /\ b \div 64 \in 0..3 /\ (b % 64) * 1 \in 0..63
    OBVIOUS
  <1>6. CASE r = 0
    <2>1. PICK k \in Nat : k = 3 * q
      OBVIOUS
    <2>2. k < n /\ k + 1 \in 1..n
      BY <1>2, <1>3, <1>6, <2>1
    <2>3. Sextet(bytes, d) = bytes[k + 1] \div 4
      <3>1. d % 4 = 0 /\ At(d) = k /\ d \in Nat
        BY <1>2, <1>3, <1>6, <2>1 DEF At
      <3>2. QED
        BY <1>1, <2>2, <3>1, Sextets
    <2>4. QED
      BY <1>4, <1>5, <2>2, <2>3
  <1>7. CASE r = 1
    <2>1. PICK k \in Nat : k = 3 * q + 1
      OBVIOUS
    <2>2. k \in 1..n /\ (k < n => k + 1 \in 1..n)
      BY <1>2, <1>3, <1>7, <2>1
    <2>3. Sextet(bytes, d) = Second(bytes, k)
      <3>1. d % 4 = 1 /\ At(d) = k /\ d \in Nat
        BY <1>2, <1>3, <1>7, <2>1 DEF At
      <3>2. QED
        BY <3>1, Sextets
    <2>4. PICK x, y : x = bytes[k] % 4 /\ y = (IF k < n THEN bytes[k + 1] \div 16 ELSE 0)
      OBVIOUS
    <2>5. x \in 0..3 /\ y \in 0..15
      <3>1. x \in 0..3
        BY <1>4, <1>5, <2>2, <2>4
      <3>2. CASE k < n
        BY <1>4, <1>5, <2>2, <2>4, <3>1, <3>2
      <3>3. CASE ~(k < n)
        BY <2>4, <3>1, <3>3
      <3>4. QED
        BY <3>2, <3>3
    <2>6. Sextet(bytes, d) = x * 16 + y
      BY <1>1, <2>3, <2>4 DEF Second
    <2>7. QED
      BY <2>5, <2>6
  <1>8. CASE r = 2
    <2>1. PICK k \in Nat : k = 3 * q + 2
      OBVIOUS
    <2>2. k \in 1..n /\ (k < n => k + 1 \in 1..n)
      BY <1>2, <1>3, <1>8, <2>1
    <2>3. Sextet(bytes, d) = Third(bytes, k)
      <3>1. d % 4 = 2 /\ At(d) = k /\ d \in Nat
        BY <1>2, <1>3, <1>8, <2>1 DEF At
      <3>2. QED
        BY <3>1, Sextets
    <2>4. PICK x, y : x = bytes[k] % 16 /\ y = (IF k < n THEN bytes[k + 1] \div 64 ELSE 0)
      OBVIOUS
    <2>5. x \in 0..15 /\ y \in 0..3
      <3>1. x \in 0..15
        BY <1>4, <1>5, <2>2, <2>4
      <3>2. CASE k < n
        BY <1>4, <1>5, <2>2, <2>4, <3>1, <3>2
      <3>3. CASE ~(k < n)
        BY <2>4, <3>1, <3>3
      <3>4. QED
        BY <3>2, <3>3
    <2>6. Sextet(bytes, d) = x * 4 + y
      BY <1>1, <2>3, <2>4 DEF Third
    <2>7. QED
      BY <2>5, <2>6
  <1>9. CASE r = 3
    <2>1. PICK k \in Nat : k = 3 * q + 3
      OBVIOUS
    <2>2. k \in 1..n
      BY <1>2, <1>3, <1>9, <2>1
    <2>3. Sextet(bytes, d) = Fourth(bytes, k)
      <3>1. d % 4 = 3 /\ At(d) = k /\ d \in Nat
        BY <1>2, <1>3, <1>9, <2>1 DEF At
      <3>2. QED
        BY <3>1, Sextets
    <2>4. QED
      BY <1>4, <1>5, <2>2, <2>3 DEF Fourth
  <1>10. QED
    BY <1>6, <1>7, <1>8, <1>9

\* A text that was encoded: digits, and padding after them.
LEMMA EncodedText ==
  ASSUME NEW bytes \in Seq(0..255), NEW n, n = Len(bytes), NEW text, text = base64Encode(bytes)
  PROVE  /\ text \in Seq(Int) /\ Len(text) = TextOf(n)
         /\ \A c \in 1..TextOf(n) : /\ c <= DigitsOf(n) => text[c] = Sextet(bytes, c - 1) /\ text[c] \in 0..63
                                    /\ ~(c <= DigitsOf(n)) => text[c] = 64
  <1>1. PICK d, l : d = DigitsOf(n) /\ l = TextOf(n)
    OBVIOUS
  <1>2. n \in Nat /\ d \in Nat /\ l \in Nat
    BY <1>1, Lengths
  <1>3. text = [c \in 1..l |-> IF c <= d THEN Sextet(bytes, c - 1) ELSE Pad]
    BY <1>1 DEF base64Encode, DigitsOf, TextOf
  <1>4. \A c \in 1..l : text[c] = IF c <= d THEN Sextet(bytes, c - 1) ELSE Pad
    BY <1>3
  <1>5. ASSUME NEW c \in 1..l, c <= d PROVE Sextet(bytes, c - 1) \in 0..63
    <2>1. c - 1 \in 0..d - 1
      BY <1>2, <1>5
    <2>2. QED
      BY <1>1, <2>1, SextetRange
  <1>6. ASSUME NEW c \in 1..l PROVE text[c] \in 0..64
    <2>1. CASE c <= d
      <3>1. text[c] = Sextet(bytes, c - 1)
        BY <1>4, <2>1
      <3>2. Sextet(bytes, c - 1) \in 0..63
        BY <1>5, <2>1
      <3>3. QED
        BY <3>1, <3>2
    <2>2. CASE ~(c <= d)
      BY <1>4, <2>2 DEF Pad
    <2>3. QED
      BY <2>1, <2>2
  <1>7. text \in Seq(Int) /\ Len(text) = l
    <2>1. Len(text) = l
      BY <1>2, <1>3
    <2>2. text = [c \in 1..l |-> text[c]]
      BY <1>3
    <2>3. \A c \in 1..l : text[c] \in Int
      <3>1. \A x \in 0..64 : x \in Int
        OBVIOUS
      <3>2. QED
        BY <1>6, <3>1, Zenon
    <2>4. [c \in 1..l |-> text[c]] \in Seq(Int)
      BY <1>2, <2>3
    <2>5. QED
      BY <2>1, <2>2, <2>4
  <1>8. QED
    BY <1>1, <1>4, <1>5, <1>7 DEF Pad

\* It is read to its end.
LEMMA EncodedReadable ==
  ASSUME NEW bytes \in Seq(0..255), NEW n, n = Len(bytes), NEW text, text = base64Encode(bytes)
  PROVE  Cardinality(Readable(text)) = Len(text)
  <1>1. PICK d, l : d = DigitsOf(n) /\ l = TextOf(n)
    OBVIOUS
  <1>2. /\ n \in Nat /\ d \in Nat /\ l \in Nat /\ d <= l /\ l <= d + 2 
    BY <1>1, Lengths
  <1>3. /\ Len(text) = l
        /\ \A c \in 1..l : (c <= d => text[c] \in 0..63) /\ (~(c <= d) => text[c] = 64)
    BY <1>1, EncodedText
  <1>4. ASSUME NEW c \in 1..l PROVE ~Stop(text, c)
    <2>1. text[c] # Bad
      <3>1. CASE c <= d
        <4>1. text[c] \in 0..63
          BY <1>3, <3>1
        <4>2. \A x \in 0..63 : x # 70
          OBVIOUS
        <4>3. QED
          BY <4>1, <4>2 DEF Bad
      <3>2. CASE ~(c <= d)
        <4>1. text[c] = 64
          BY <1>3, <3>2
        <4>2. QED
          BY <4>1 DEF Bad
      <3>3. QED
        BY <3>1, <3>2
    <2>2. ASSUME text[c] = Pad PROVE ~(c < l - 1) /\ (c = l - 1 => text[c + 1] = Pad)
      <3>1. ~(c <= d)
        <4>1. SUFFICES ASSUME c <= d PROVE FALSE
          OBVIOUS
        <4>2. text[c] \in 0..63
          BY <1>3, <4>1
        <4>3. QED
          BY <2>2, <4>2 DEF Pad
      <3>2. ~(c < l - 1)
        BY <1>2, <3>1
      <3>3. ASSUME c = l - 1 PROVE text[c + 1] = Pad
        <4>1. c + 1 \in 1..l /\ ~(c + 1 <= d)
          BY <1>2, <3>1, <3>3
        <4>2. QED
          BY <1>3, <4>1 DEF Pad
      <3>4. QED
        BY <3>2, <3>3
    <2>3. QED
      BY <1>3, <2>1, <2>2 DEF Stop
  <1>5. Readable(text) = 1..l
    <2>1. \A i \in 1..l : \A j \in 1..i : j \in 1..l
      BY <1>2
    <2>2. QED
      BY <1>3, <1>4, <2>1 DEF Readable
  <1>6. Cardinality(1..l) = l
    <2>1. Cardinality(1..l) = (IF 1 > l THEN 0 ELSE l - 1 + 1)
      BY <1>2, FS_Interval
    <2>2. QED
      BY <1>2, <2>1
  <1>7. QED
    BY <1>3, <1>5, <1>6

\* The decoder takes in the digits that were written.
LEMMA EncodedTaken ==
  ASSUME NEW bytes \in Seq(0..255), NEW n, n = Len(bytes), NEW text, text = base64Encode(bytes)
  PROVE  Taken(text)[Len(text)] = [c \in 1..DigitsOf(n) |-> text[c]]
  <1>1. PICK d, l : d = DigitsOf(n) /\ l = TextOf(n)
    OBVIOUS
  <1>2. /\ n \in Nat /\ d \in Nat /\ l \in Nat /\ d <= l
    BY <1>1, Lengths
  <1>3. /\ Len(text) = l
        /\ \A c \in 1..l : (c <= d => text[c] \in 0..63) /\ (~(c <= d) => text[c] = 64)
    BY <1>1, EncodedText
  <1>4. text \in Seq(Int)
    BY EncodedText
  <1>5. PICK f : f = Taken(text)
    OBVIOUS
  <1>6. /\ f[0] = <<>>
        /\ \A i \in 1..l : f[i] = IF NotPad(text[i]) THEN Append(f[i - 1], text[i]) ELSE f[i - 1]
    BY <1>3, <1>4, <1>5, TakenRuns
  <1> DEFINE least(m) == IF m <= d THEN m ELSE d
             good == {m \in Nat : m <= l => f[m] = [c \in 1..least(m) |-> text[c]]}
  <1>7. 0 \in good
    <2>1. least(0) = 0
      BY <1>2
    <2>2. f[0] = [c \in 1..0 |-> text[c]]
      BY <1>6
    <2>3. QED
      BY <2>1, <2>2
  <1>8. ASSUME NEW m \in good \cap Nat PROVE m + 1 \in good
    <2>1. SUFFICES ASSUME m + 1 <= l PROVE f[m + 1] = [c \in 1..least(m + 1) |-> text[c]]
      OBVIOUS
    <2>2. m + 1 \in 1..l /\ (m + 1) - 1 = m /\ m <= l /\ m \in Nat
      BY <1>2, <2>1
    <2>3. f[m] = [c \in 1..least(m) |-> text[c]]
      BY <2>2
    <2>4. f[m + 1] = IF NotPad(text[m + 1]) THEN Append(f[m], text[m + 1]) ELSE f[m]
      BY <1>6, <2>2
    <2>5. CASE m + 1 <= d
      <3>1. least(m) = m /\ least(m + 1) = m + 1
        BY <1>2, <2>2, <2>5
      <3>2. NotPad(text[m + 1])
        <4>1. text[m + 1] \in 0..63
          BY <1>3, <2>2, <2>5
        <4>2. \A x \in 0..63 : x # 64
          OBVIOUS
        <4>3. QED
          BY <4>1, <4>2 DEF NotPad, Pad
      <3>3. f[m + 1] = Append(f[m], text[m + 1])
        BY <2>4, <3>2
      <3>4. f[m] = [c \in 1..m |-> text[c]]
        BY <2>3, <3>1
      <3>5. Append([c \in 1..m |-> text[c]], text[m + 1]) = [c \in 1..m + 1 |-> text[c]]
        BY <2>2
      <3>6. QED
        BY <3>1, <3>3, <3>4, <3>5
    <2>6. CASE ~(m + 1 <= d)
      <3>1. least(m) = d /\ least(m + 1) = d
        BY <1>2, <2>2, <2>6
      <3>2. ~NotPad(text[m + 1])
        BY <1>3, <2>2, <2>6 DEF NotPad, Pad
      <3>3. QED
        BY <2>3, <2>4, <3>1, <3>2
    <2>7. QED
      BY <2>5, <2>6
  <1>9. l \in good
    BY <1>2, <1>7, <1>8, Induction
  <1>10. least(l) = d
    BY <1>2
  <1>11. f[l] = [c \in 1..d |-> text[c]]
    BY <1>2, <1>9, <1>10
  <1>12. QED
    BY <1>1, <1>3, <1>5, <1>11

\* Where a byte is stored from: its first digit, among those of its group.
LEMMA DigitPlaces ==
  ASSUME NEW n \in Nat, NEW k \in 1..n
  PROVE  \E d \in Nat : /\ d = 4 * ((k - 1) \div 3) + ((k - 1) % 3) + 1
                        /\ d \in 1..DigitsOf(n) /\ d + 1 \in 1..DigitsOf(n)
                        /\ \/ k % 3 = 1 /\ (d - 1) % 4 = 0 /\ At(d - 1) = k - 1 /\ d % 4 = 1 /\ At(d) = k
                           \/ k % 3 = 2 /\ (d - 1) % 4 = 1 /\ At(d - 1) = k - 1 /\ d % 4 = 2 /\ At(d) = k
                           \/ k % 3 = 0 /\ (d - 1) % 4 = 2 /\ At(d - 1) = k - 1 /\ d % 4 = 3 /\ At(d) = k
  <1>1. PICK q \in Nat, r \in 0..2 : q = (k - 1) \div 3 /\ r = (k - 1) % 3 /\ k = 3 * q + r + 1
    <2>1. PICK m \in Nat : m = k - 1
      OBVIOUS
    <2>2. m \div 3 \in Nat /\ m % 3 \in 0..2 /\ m = 3 * (m \div 3) + (m % 3)
      BY <2>1
    <2>3. QED
      BY <2>1, <2>2
  <1>2. PICK d \in Nat : d = 4 * q + r + 1
    OBVIOUS
  <1>3. d = 4 * ((k - 1) \div 3) + ((k - 1) % 3) + 1
    <2>1. PICK a, b : a = (k - 1) \div 3 /\ b = (k - 1) % 3
      OBVIOUS
    <2>2. d = 4 * a + b + 1
      BY <1>1, <1>2, <2>1
    <2>3. QED
      BY <2>1, <2>2
  <1>4. d \in 1..DigitsOf(n) /\ d + 1 \in 1..DigitsOf(n)
    <2>1. PICK m : m = (4 * n + 2) \div 3
      OBVIOUS
    <2>2. d + 1 <= m /\ m \in Nat
      BY <1>1, <1>2, <2>1
    <2>3. d \in 1..m /\ d + 1 \in 1..m
      BY <1>2, <2>2
    <2>4. QED
      BY <2>1, <2>3 DEF DigitsOf
  <1>5. CASE r = 0
    <2>1. k % 3 = 1 /\ (d - 1) % 4 = 0 /\ (d - 1) \div 4 = q /\ d % 4 = 1 /\ d \div 4 = q
      BY <1>1, <1>2, <1>5
    <2>2. At(d - 1) = k - 1 /\ At(d) = k
      BY <1>1, <1>5, <2>1 DEF At
    <2>3. QED
      BY <1>3, <1>4, <2>1, <2>2
  <1>6. CASE r = 1
    <2>1. k % 3 = 2 /\ (d - 1) % 4 = 1 /\ (d - 1) \div 4 = q /\ d % 4 = 2 /\ d \div 4 = q
      BY <1>1, <1>2, <1>6
    <2>2. At(d - 1) = k - 1 /\ At(d) = k
      BY <1>1, <1>6, <2>1 DEF At
    <2>3. QED
      BY <1>3, <1>4, <2>1, <2>2
  <1>7. CASE r = 2
    <2>1. k % 3 = 0 /\ (d - 1) % 4 = 2 /\ (d - 1) \div 4 = q /\ d % 4 = 3 /\ d \div 4 = q
      BY <1>1, <1>2, <1>7
    <2>2. At(d - 1) = k - 1 /\ At(d) = k
      BY <1>1, <1>7, <2>1 DEF At
    <2>3. QED
      BY <1>3, <1>4, <2>1, <2>2
  <1>8. QED
    BY <1>5, <1>6, <1>7

\* The bytes that two digits in a row are made of come out of them again.
LEMMA ByteBack ==
  ASSUME NEW bytes \in Seq(0..255), NEW n, n = Len(bytes), NEW k \in 1..n, NEW d \in Nat
  PROVE  /\ (d - 1) % 4 = 0 /\ d - 1 \in Nat /\ At(d - 1) = k - 1 /\ d % 4 = 1 /\ At(d) = k
              => Sextet(bytes, d - 1) * 4 + (Sextet(bytes, d) \div 16) = bytes[k]
         /\ (d - 1) % 4 = 1 /\ d - 1 \in Nat /\ At(d - 1) = k - 1 /\ d % 4 = 2 /\ At(d) = k
              => (Sextet(bytes, d - 1) % 16) * 16 + (Sextet(bytes, d) \div 4) = bytes[k]
         /\ (d - 1) % 4 = 2 /\ d - 1 \in Nat /\ At(d - 1) = k - 1 /\ d % 4 = 3 /\ At(d) = k
              => (Sextet(bytes, d - 1) % 4) * 64 + Sextet(bytes, d) = bytes[k]
  <1>1. n \in Nat /\ \A j \in 1..n : bytes[j] \in 0..255
    <2>1. PICK m \in Nat : m = Len(bytes)
      OBVIOUS
    <2>2. \A j \in 1..m : bytes[j] \in 0..255
      BY <2>1
    <2>3. QED
      BY <2>1, <2>2
  <1>2. PICK b \in 0..255 : b = bytes[k]
    BY <1>1
  <1>3. \A c \in 0..255 : /\ c \div 16 \in 0..15 /\ c \div 64 \in 0..3 /\ c = 16 * (c \div 16) + (c % 16)
    <2>1. TAKE c \in 0..255
    <2>2. c \div 16 \in 0..15 /\ c \div 64 \in 0..3
      OBVIOUS
    <2>3. c = 16 * (c \div 16) + (c % 16)
      OBVIOUS
    <2>4. QED
      BY <2>2, <2>3
  <1>4. ASSUME (d - 1) % 4 = 0, d - 1 \in Nat, At(d - 1) = k - 1, d % 4 = 1, At(d) = k
        PROVE  Sextet(bytes, d - 1) * 4 + (Sextet(bytes, d) \div 16) = bytes[k]
    <2>1. At(d - 1) < Len(bytes) /\ (k - 1) + 1 = k
      BY <1>1, <1>4
    <2>2. Sextet(bytes, d - 1) = b \div 4
      BY <1>2, <1>4, <2>1, Sextets
    <2>3. Sextet(bytes, d) = Second(bytes, k)
      BY <1>4, Sextets
    <2>4. PICK x : x = (IF k < n THEN bytes[k + 1] \div 16 ELSE 0)
      OBVIOUS
    <2>5. x \in 0..15
      <3>1. CASE k < n
        <4>1. k + 1 \in 1..n
          BY <1>1, <3>1
        <4>2. QED
          BY <1>1, <1>3, <2>4, <3>1, <4>1
      <3>2. CASE ~(k < n)
        BY <2>4, <3>2
      <3>3. QED
        BY <3>1, <3>2
    <2>6. Sextet(bytes, d) = (b % 4) * 16 + x
      BY <1>2, <2>3, <2>4 DEF Second
    <2>7. (b \div 4) * 4 + (((b % 4) * 16 + x) \div 16) = b
      BY <2>5, Parts
    <2>8. QED
      BY <1>2, <2>2, <2>6, <2>7
  <1>5. ASSUME (d - 1) % 4 = 1, d - 1 \in Nat, At(d - 1) = k - 1, d % 4 = 2, At(d) = k, k # 1
        PROVE  (Sextet(bytes, d - 1) % 16) * 16 + (Sextet(bytes, d) \div 4) = bytes[k]
    <2>1. k - 1 < Len(bytes) /\ (k - 1) + 1 = k /\ k - 1 \in 1..n
      BY <1>1, <1>5
    <2>2. PICK a \in 0..255 : a = bytes[k - 1]
      BY <1>1, <2>1
    <2>3. Sextet(bytes, d - 1) = (a % 4) * 16 + (b \div 16)
      <3>1. Sextet(bytes, d - 1) = Second(bytes, k - 1)
        BY <1>5, Sextets
      <3>2. QED
        BY <1>2, <2>1, <2>2, <3>1 DEF Second
    <2>4. Sextet(bytes, d) = Third(bytes, k)
      BY <1>5, Sextets
    <2>5. PICK y : y = (IF k < n THEN bytes[k + 1] \div 64 ELSE 0)
      OBVIOUS
    <2>6. y \in 0..3
      <3>1. CASE k < n
        <4>1. k + 1 \in 1..n
          BY <1>1, <3>1
        <4>2. QED
          BY <1>1, <1>3, <2>5, <3>1, <4>1
      <3>2. CASE ~(k < n)
        BY <2>5, <3>2
      <3>3. QED
        BY <3>1, <3>2
    <2>7. Sextet(bytes, d) = (b % 16) * 4 + y
      BY <1>2, <2>4, <2>5 DEF Third
    <2>8. PICK low, high : low = b % 16 /\ high = b \div 16
      OBVIOUS
    <2>9. b = 16 * high + low /\ high \in 0..15
      BY <1>3, <2>8
    <2>10. (Sextet(bytes, d - 1) % 16) = high /\ (Sextet(bytes, d) \div 4) = low
      <3>1. ((a % 4) * 16 + (b \div 16)) % 16 = b \div 16
        BY Parts
      <3>2. ((b % 16) * 4 + y) \div 4 = b % 16
        BY <2>6, Parts
      <3>3. QED
        BY <2>3, <2>7, <2>8, <3>1, <3>2
    <2>11. low \in Int
      BY <2>8
    <2>12. high * 16 + low = b
      BY <2>9, <2>11
    <2>13. QED
      BY <1>2, <2>10, <2>12
  <1>6. ASSUME (d - 1) % 4 = 2, d - 1 \in Nat, At(d - 1) = k - 1, d % 4 = 3, At(d) = k, k # 1
        PROVE  (Sextet(bytes, d - 1) % 4) * 64 + Sextet(bytes, d) = bytes[k]
    <2>1. k - 1 < Len(bytes) /\ (k - 1) + 1 = k /\ k - 1 \in 1..n
      BY <1>1, <1>6
    <2>2. PICK a \in 0..255 : a = bytes[k - 1]
      BY <1>1, <2>1
    <2>3. Sextet(bytes, d - 1) = (a % 16) * 4 + (b \div 64)
      <3>1. Sextet(bytes, d - 1) = Third(bytes, k - 1)
        BY <1>6, Sextets
      <3>2. QED
        BY <1>2, <2>1, <2>2, <3>1 DEF Third
    <2>4. Sextet(bytes, d) = (b % 64) * 1
      <3>1. Sextet(bytes, d) = Fourth(bytes, k)
        BY <1>6, Sextets
      <3>2. QED
        BY <1>2, <3>1 DEF Fourth
    <2>5. (Sextet(bytes, d - 1) % 4) = b \div 64
      BY <2>3, Parts
    <2>6. (b \div 64) * 64 + (b % 64) * 1 = b
      BY Parts
    <2>7. QED
      BY <1>2, <2>4, <2>5, <2>6
  <1>7. ASSUME k = 1, d - 1 \in Nat, At(d - 1) = k - 1 PROVE (d - 1) % 4 = 0
    <2>1. PICK e \in Nat : e = d - 1
      BY <1>7
    <2>2. e \div 4 \in Nat /\ e % 4 \in 0..3 /\ 3 * (e \div 4) + (e % 4) = 0
      BY <1>7, <2>1 DEF At
    <2>3. PICK q \in Nat, r \in 0..3 : q = e \div 4 /\ r = e % 4
      BY <2>2
    <2>4. r = 0
      <3>1. 3 * q + r = 0
        BY <2>2, <2>3
      <3>2. QED
        BY <3>1
    <2>5. QED
      BY <2>1, <2>3, <2>4
  <1>8. QED
    BY <1>4, <1>5, <1>6, <1>7

\* What base64Encode writes, base64Decode reads, if it is given the room.
LEMMA Base64Read ==
  ASSUME NEW bytes \in Seq(0..255), NEW text, text = base64Encode(bytes)
  PROVE  base64Decode(text, Room(text)) = [ok |-> bytes # <<>>, bytes |-> bytes]
  <1>1. PICK n, d, l : n = Len(bytes) /\ d = DigitsOf(n) /\ l = TextOf(n)
    OBVIOUS
  <1>2. /\ n \in Nat /\ d \in Nat /\ l \in Nat /\ d <= l /\ l <= d + 2
        /\ l % 4 = 0 /\ (n # 0 => l >= 4) /\ (n = 0 => l = 0)
        /\ (3 * d) \div 4 = n /\ 3 * (l \div 4) - (l - d) = n
    <2>1. n \in Nat
      BY <1>1
    <2>2. QED
      BY <1>1, <2>1, Lengths
  <1>3. /\ Len(text) = l /\ text \in Seq(Int)
        /\ \A c \in 1..l : (c <= d => text[c] = Sextet(bytes, c - 1) /\ text[c] \in 0..63)
                           /\ (~(c <= d) => text[c] = 64)
    BY <1>1, EncodedText
  <1>4. CASE n = 0
    <2>1. bytes = <<>> /\ text = <<>>
      <3>1. Len(bytes) = 0 /\ Len(text) = 0
        BY <1>1, <1>2, <1>3, <1>4
      <3>2. QED
        BY <1>3, <3>1, EmptySeq
    <2>2. ~Start(text, Room(text))
      BY <2>1 DEF Start
    <2>3. QED
      BY <2>1, <2>2 DEF base64Decode
  <1>5. CASE n # 0
    <2>1. bytes # <<>> /\ text # <<>> /\ l >= 4
      BY <1>1, <1>2, <1>3, <1>5
    <2>2. Pads(text) = d + 1..l
      <3>1. ASSUME NEW i \in 1..l PROVE (i >= l - 1 /\ text[i] = Pad) <=> i \in d + 1..l
        <4>1. CASE i <= d
          <5>1. text[i] \in 0..63
            BY <1>3, <4>1
          <5>2. \A x \in 0..63 : x # 64
            OBVIOUS
          <5>3. text[i] # Pad
            BY <5>1, <5>2 DEF Pad
          <5>4. i \notin d + 1..l
            BY <1>2, <4>1
          <5>5. QED
            BY <5>3, <5>4
        <4>2. CASE ~(i <= d)
          <5>1. text[i] = Pad
            BY <1>3, <4>2 DEF Pad
          <5>2. i >= l - 1 /\ i \in d + 1..l
            BY <1>2, <4>2
          <5>3. QED
            BY <5>1, <5>2
        <4>3. QED
          BY <4>1, <4>2
      <3>2. d + 1..l \subseteq 1..l
        BY <1>2
      <3>3. QED
        BY <1>3, <3>1, <3>2 DEF Pads
    <2>3. Cardinality(Pads(text)) = l - d
      <3>1. d + 1 \in Int /\ l \in Int
        BY <1>2
      <3>2. Cardinality(d + 1..l) = IF d + 1 > l THEN 0 ELSE l - (d + 1) + 1
        BY <3>1, FS_Interval
      <3>3. PICK c : c = Cardinality(d + 1..l)
        OBVIOUS
      <3>4. c = IF d + 1 > l THEN 0 ELSE l - (d + 1) + 1
        BY <3>2, <3>3
      <3>5. c = l - d
        BY <1>2, <3>4
      <3>6. QED
        BY <2>2, <3>3, <3>5
    <2>4. expect_len(text) = n
      <3>1. expect_len(text) = 3 * (l \div 4) - (l - d)
        BY <1>3, <2>3 DEF expect_len, Pads
      <3>2. QED
        BY <1>2, <3>1
    <2>5. Room(text) = n
      BY <1>2, <1>3, <2>1, <2>4 DEF Room
    <2>6. Start(text, Room(text))
      BY <1>2, <1>3, <2>1, <2>4, <2>5 DEF Start
    <2>7. Cardinality(Readable(text)) = l
      BY <1>1, <1>3, EncodedReadable
    <2>8. PICK digits : digits = Taken(text)[l]
      OBVIOUS
    <2>9. digits = [c \in 1..d |-> text[c]] /\ Len(digits) = d
      <3>1. digits = [c \in 1..d |-> text[c]]
        BY <1>1, <1>3, <2>8, EncodedTaken
      <3>2. QED
        BY <1>2, <3>1
    <2>10. ASSUME NEW c \in 1..d PROVE digits[c] = Sextet(bytes, c - 1)
      <3>1. c \in 1..l /\ c <= d
        BY <1>2
      <3>2. QED
        BY <1>3, <2>9, <3>1
    <2> DEFINE place(k) == 4 * ((k - 1) \div 3) + ((k - 1) % 3) + 1
               byte(k) == CASE k % 3 = 1 -> digits[place(k)] * 4 + digits[place(k) + 1] \div 16
                            [] k % 3 = 2 -> (digits[place(k)] % 16) * 16 + digits[place(k) + 1] \div 4
                            [] k % 3 = 0 -> (digits[place(k)] % 4) * 64 + digits[place(k) + 1]
    <2>11. Octets(digits) = [k \in 1..(3 * Len(digits)) \div 4 |-> byte(k)]
      BY Zenon DEF Octets
    <2>12. Octets(digits) = [k \in 1..n |-> byte(k)]
      BY <1>2, <2>9, <2>11
    <2>13. ASSUME NEW k \in 1..n PROVE byte(k) = bytes[k]
      <3>1. PICK e \in Nat :
                /\ e = place(k)
                /\ e \in 1..d /\ e + 1 \in 1..d
                /\ \/ k % 3 = 1 /\ (e - 1) % 4 = 0 /\ At(e - 1) = k - 1 /\ e % 4 = 1 /\ At(e) = k
                   \/ k % 3 = 2 /\ (e - 1) % 4 = 1 /\ At(e - 1) = k - 1 /\ e % 4 = 2 /\ At(e) = k
                   \/ k % 3 = 0 /\ (e - 1) % 4 = 2 /\ At(e - 1) = k - 1 /\ e % 4 = 3 /\ At(e) = k
        BY <1>1, <1>2, DigitPlaces
      <3>2. e - 1 \in Nat /\ (e + 1) - 1 = e
        BY <3>1
      <3>3. digits[e] = Sextet(bytes, e - 1) /\ digits[e + 1] = Sextet(bytes, e)
        BY <2>10, <3>1, <3>2
      <3>4. byte(k) = CASE k % 3 = 1 -> digits[e] * 4 + digits[e + 1] \div 16
                        [] k % 3 = 2 -> (digits[e] % 16) * 16 + digits[e + 1] \div 4
                        [] k % 3 = 0 -> (digits[e] % 4) * 64 + digits[e + 1]
        BY <3>1
      <3> HIDE DEF byte, place
      <3>5. CASE k % 3 = 1
        <4>1. byte(k) = Sextet(bytes, e - 1) * 4 + (Sextet(bytes, e) \div 16)
          BY <3>3, <3>4, <3>5
        <4>2. (e - 1) % 4 = 0 /\ At(e - 1) = k - 1 /\ e % 4 = 1 /\ At(e) = k
          BY <3>1, <3>5
        <4>3. QED
          BY <1>1, <3>2, <4>1, <4>2, ByteBack
      <3>6. CASE k % 3 = 2
        <4>1. byte(k) = (Sextet(bytes, e - 1) % 16) * 16 + (Sextet(bytes, e) \div 4)
          BY <3>3, <3>4, <3>6
        <4>2. (e - 1) % 4 = 1 /\ At(e - 1) = k - 1 /\ e % 4 = 2 /\ At(e) = k
          BY <3>1, <3>6
        <4>3. QED
          BY <1>1, <3>2, <4>1, <4>2, ByteBack
      <3>7. CASE k % 3 = 0
        <4>1. byte(k) = (Sextet(bytes, e - 1) % 4) * 64 + Sextet(bytes, e)
          BY <3>3, <3>4, <3>7
        <4>2. (e - 1) % 4 = 2 /\ At(e - 1) = k - 1 /\ e % 4 = 3 /\ At(e) = k
          BY <3>1, <3>7
        <4>3. QED
          BY <1>1, <3>2, <4>1, <4>2, ByteBack
      <3>8. QED
        BY <3>1, <3>5, <3>6, <3>7
    <2>14. Octets(digits) = bytes
      <3> HIDE DEF byte
      <3>1. bytes = [k \in 1..n |-> bytes[k]]
        BY <1>1
      <3>2. QED
        BY <2>12, <2>13, <3>1
    <2>15. base64Decode(text, Room(text)) =
             [ok |-> l = Len(text) /\ Len(Octets(digits)) = expect_len(text), bytes |-> Octets(digits)]
      BY <2>6, <2>7, <2>8 DEF base64Decode
    <2>16. PICK ok : ok = (l = Len(text) /\ Len(Octets(digits)) = expect_len(text))
      OBVIOUS
    <2>17. ok = TRUE
      BY <1>1, <1>3, <2>4, <2>14, <2>16
    <2>18. base64Decode(text, Room(text)) = [ok |-> ok, bytes |-> bytes]
      BY <2>14, <2>15, <2>16
    <2>19. PICK some : some = (bytes # <<>>)
      OBVIOUS
    <2>20. some = TRUE
      BY <2>1, <2>19
    <2>21. QED
      BY <2>17, <2>18, <2>19, <2>20
  <1>6. QED
    BY <1>4, <1>5

-----------------------------------------------------------------------------
(* What the receiver reads.                                                *)

\* Where the stream came from, and still after it was read.
From == IF stage = "read" THEN origin ELSE stage

\* The stream is what its sender, and whoever got hold of it, made of the datum, and
\* what the reader returned is what it makes of the stream.
CodecInv ==
    /\ codec \in Codecs
    /\ From \in {"new", "whole", "followed", "cut", "forged"}
    /\ From \in {"new", "whole", "followed", "cut"} => sent \in Data(codec)
    /\ From = "whole" => stream = Encoded(codec, sent)
    /\ From = "followed" => codec \notin Whole /\ stream = Encoded(codec, sent) \o Rest
    /\ From = "cut" => /\ codec \notin Whole
                       /\ \E n \in 0..Len(Encoded(codec, sent)) - 1 :
                             stream = SubSeq(Encoded(codec, sent), 1, n)
    /\ From = "forged" => stream \in Forgeries(codec)
    /\ stage = "read" => origin # "new" /\ got \in Decoded(codec, stream)

\* The invariant is inductive.
LEMMA CodecInvariant == Spec => []CodecInv
  <1>1. Init => CodecInv
    BY DEF Init, CodecInv, From
  <1>2. CodecInv /\ [Next]_vars => CodecInv'
    <2> SUFFICES ASSUME CodecInv, [Next]_vars PROVE CodecInv'
      OBVIOUS
    <2>1. CASE Write
      BY <2>1 DEF Write, CodecInv, From
    <2>2. CASE Follow
      BY <2>2 DEF Follow, CodecInv, From
    <2>3. CASE Cut
      BY <2>3 DEF Cut, CodecInv, From
    <2>4. CASE Receive
      BY <2>4 DEF Receive, CodecInv, From
    <2>5. CASE UNCHANGED vars
      BY <2>5 DEF vars, CodecInv, From
    <2>6. QED
      BY <2>1, <2>2, <2>3, <2>4, <2>5 DEF Next
  <1>3. QED
    BY <1>1, <1>2, PTL DEF Spec

\* A reader of numbers reads a stream of bytes.
LEMMA ReadsStreams ==
  ASSUME CodecInv, stage = "read", codec \in Leb \cup Var
  PROVE  stream \in Streams
  <1>1. codec \notin Text
    BY DEF Leb, Var, Text
  <1>2. Rest \in Streams
    BY DataAssumption DEF Streams
  <1>3. ASSUME origin # "forged"
        PROVE  /\ Encoded(codec, sent) \in Streams /\ Encoded(codec, sent) # <<>>
               /\ EndsAt(Encoded(codec, sent), Len(Encoded(codec, sent)))
    <2>1. sent \in Data(codec)
      BY <1>3 DEF CodecInv, From
    <2>2. PICK n \in 1..MaxBytes(Width(codec)) :
             /\ Encoded(codec, sent) \in Streams /\ Len(Encoded(codec, sent)) = n
             /\ Holds(Encoded(codec, sent), n, Width(codec), Signed(codec))
      BY <2>1, NumberWritten
    <2>3. EndsAt(Encoded(codec, sent), n)
      BY <2>2 DEF Holds
    <2>4. Encoded(codec, sent) # <<>>
      <3>1. n \in Int /\ n # 0
        BY <2>2
      <3>2. QED
        BY <2>2, <3>1, EmptySeq
    <2>5. QED
      BY <2>2, <2>3, <2>4
  <1>4. CASE origin = "whole"
    BY <1>3, <1>4 DEF CodecInv, From
  <1>5. CASE origin = "followed"
    <2>1. stream = Encoded(codec, sent) \o Rest
      BY <1>5 DEF CodecInv, From
    <2>2. QED
      BY <1>2, <1>3, <1>5, <2>1 DEF Streams
  <1>6. CASE origin = "cut"
    <2>1. PICK n \in 0..Len(Encoded(codec, sent)) - 1 : stream = SubSeq(Encoded(codec, sent), 1, n)
      BY <1>6 DEF CodecInv, From
    <2>2. QED
      BY <1>3, <1>6, <2>1, CutEndsNowhere
  <1>7. CASE origin = "forged"
    <2>1. stream \in Forgeries(codec)
      BY <1>7 DEF CodecInv, From
    <2>2. stream \in Streams32 \cup Streams64
      BY <1>1, <2>1 DEF Forgeries
    <2>3. QED
      BY <2>2, DataAssumption DEF Streams
  <1>8. QED
    BY <1>4, <1>5, <1>6, <1>7 DEF CodecInv, From

\* A number that arrives is read whole, if the reader reads numbers of its length.
LEMMA NumberArrives ==
  ASSUME CodecInv, Arrived, codec \in Leb \cup Var,
         codec = "varint" => Len(Encoded(codec, sent)) # 5
  PROVE  got = WholeNumber
  <1>1. PICK w, signed, s : w = Width(codec) /\ signed = Signed(codec) /\ s = Encoded(codec, sent)
    OBVIOUS
  <1>2. /\ w \in {32, 64} /\ sent \in Data(codec) /\ got \in Decoded(codec, stream)
        /\ origin \in {"whole", "followed"} /\ stage = "read" /\ stream \in Streams
    <2>1. w \in {32, 64}
      BY <1>1 DEF Width
    <2>2. stage = "read" /\ origin \in {"whole", "followed"}
      BY DEF Arrived
    <2>3. sent \in Data(codec) /\ got \in Decoded(codec, stream)
      BY <2>2 DEF CodecInv, From
    <2>4. QED
      BY <2>1, <2>2, <2>3, ReadsStreams
  <1>3. PICK n \in 1..MaxBytes(w) :
           s \in Streams /\ Len(s) = n /\ Holds(s, n, w, signed) /\ Value(s, n, w, signed) = sent
    BY <1>1, <1>2, NumberWritten
  <1>4. n \in Nat /\ n # 0
    BY <1>3
  <1>5. s # <<>>
    BY <1>3, <1>4, EmptySeq
  <1>6. n \in 1..Len(stream) /\ Holds(stream, n, w, signed) /\ Value(stream, n, w, signed) = sent
    <2>1. CASE origin = "whole"
      <3>1. stream = s
        BY <1>1, <1>2, <2>1 DEF CodecInv, From
      <3>2. n \in 1..n
        BY <1>4
      <3>3. QED
        BY <1>3, <3>1, <3>2
    <2>2. CASE origin = "followed"
      <3>1. stream = s \o Rest
        BY <1>1, <1>2, <2>2 DEF CodecInv, From
      <3>2. Rest \in Streams
        BY DataAssumption DEF Streams
      <3>3. /\ Len(s) \in 1..Len(s \o Rest)
            /\ Holds(s \o Rest, Len(s), w, signed)
            /\ Value(s \o Rest, Len(s), w, signed) = Value(s, Len(s), w, signed)
        BY <1>2, <1>3, <1>5, <3>2, FollowedHolds
      <3>4. QED
        BY <1>3, <3>1, <3>3
    <2>3. QED
      BY <1>2, <2>1, <2>2
  <1>7. got = Number(stream, n, w, signed)
    <2>1. codec = "varint" => n # 5
      BY <1>1, <1>3
    <2>2. Holds(stream, n, Width(codec), Signed(codec))
      BY <1>1, <1>6
    <2>3. QED
      BY <1>1, <1>2, <1>6, <2>1, <2>2, NumberRead
  <1>8. QED
    BY <1>1, <1>3, <1>6, <1>7 DEF Number, WholeNumber

\* What is no number is read as it was sent.
LEMMA OthersArrive ==
  ASSUME CodecInv, Arrived, codec \in Whole
  PROVE  CASE codec = "base64" -> got = [ok |-> sent # <<>>, bytes |-> sent]
           [] codec = "version" -> got = sent \cap 0..15
           [] OTHER -> got = sent
  <1>1. sent \in Data(codec) /\ stream = Encoded(codec, sent) /\ got \in Decoded(codec, stream)
    BY DEF CodecInv, Arrived, From
  <1>2. CASE codec = "base64"
    <2>1. sent \in Seq(0..255)
      BY <1>1, <1>2, DataAssumption DEF Data, Var
    <2>2. stream = base64Encode(sent) /\ got = base64Decode(stream, Room(stream))
      BY <1>1, <1>2 DEF Encoded, Decoded
    <2>3. got = [ok |-> sent # <<>>, bytes |-> sent]
      BY <2>1, <2>2, Base64Read
    <2>4. QED
      BY <1>2, <2>3
  <1>3. CASE codec = "hex"
    <2>1. sent \in Seq(0..255)
      BY <1>1, <1>3, DataAssumption DEF Data, Var
    <2>2. stream = Bin2Hex(sent) /\ got = Hex2Bin(stream)
      BY <1>1, <1>3 DEF Encoded, Decoded
    <2>3. QED
      BY <1>3, <2>1, <2>2, HexRead
  <1>4. CASE codec = "uint32"
    <2>1. sent \in SUBSET (0..31)
      BY <1>1, <1>4, DataAssumption DEF Data, Var
    <2>2. stream = UInt32ToBytes(sent) /\ got = BytesToUInt32(stream)
      BY <1>1, <1>4 DEF Encoded, Decoded
    <2>3. QED
      BY <1>4, <2>1, <2>2, WordRead
  <1>5. CASE codec = "little"
    <2>1. sent \in SUBSET (0..31)
      BY <1>1, <1>5, DataAssumption DEF Data, Var
    <2>2. stream = Reverse(UInt32ToBytes(sent)) /\ got = BytesToUInt32Little(stream)
      BY <1>1, <1>5 DEF Encoded, Decoded
    <2>3. QED
      BY <1>5, <2>1, <2>2, WordRead
  <1>6. CASE codec = "version"
    <2>1. sent \in SUBSET (0..63)
      BY <1>1, <1>6, DataAssumption DEF Data, Var
    <2>2. stream = <<BLOCK_VERSION(sent, (0..63) \ sent)>> /\ got = X_VERSION(stream[1])
      BY <1>1, <1>6 DEF Encoded, Decoded
    <2>3. got = X_VERSION(BLOCK_VERSION(sent, (0..63) \ sent))
      BY <2>2
    <2>4. QED
      BY <1>6, <2>1, <2>3, VersionRead
  <1>7. CASE codec = "call"
    <2>1. sent = [i \in 1..Len(sent) |-> sent[i]] /\ Len(sent) \in 0..9
      <3>1. sent \in Calls
        BY <1>1, <1>7 DEF Data, Var
      <3>2. QED
        BY <3>1, DataAssumption
    <2>2. stream = sent /\ got = Received(stream)
      BY <1>1, <1>7 DEF Encoded, Decoded
    <2>3. QED
      BY <1>7, <2>1, <2>2, CallReceived
  <1>8. QED
    BY <1>2, <1>3, <1>4, <1>5, <1>6, <1>7 DEF Whole, Text

\* What is written is what is read: every codec, whatever follows the datum.
THEOREM AlwaysRoundTrip == Spec => []RoundTrip
  <1>1. ASSUME CodecInv PROVE RoundTrip
    <2>1. codec \in Leb \cup Var \cup Whole
      BY <1>1, DataAssumption DEF CodecInv
    <2>2. ASSUME Arrived
          PROVE  CASE codec \in Leb \cup {"varuint"} -> got = WholeNumber
                   [] codec = "varint" -> got = WholeNumber \/ Len(Encoded(codec, sent)) = 5
                   [] codec = "base64" -> got = [ok |-> sent # <<>>, bytes |-> sent]
                   [] codec = "version" -> got = sent \cap 0..15
                   [] OTHER -> got = sent
      <3>1. CASE codec \in Leb \cup {"varuint"}
        <4>1. codec \in Leb \cup Var /\ codec # "varint"
          BY <3>1 DEF Leb, Var
        <4>2. got = WholeNumber
          BY <1>1, <2>2, <4>1, NumberArrives
        <4>3. codec # "base64" /\ codec # "version"
          BY <3>1 DEF Leb
        <4>4. QED
          BY <3>1, <4>1, <4>2, <4>3
      <3>2. CASE codec = "varint"
        <4>1. codec \in Leb \cup Var
          BY <3>2 DEF Var
        <4>2. got = WholeNumber \/ Len(Encoded(codec, sent)) = 5
          BY <1>1, <2>2, <4>1, NumberArrives
        <4>3. QED
          BY <3>2, <4>2 DEF Leb
      <3>3. CASE codec \in Whole
        <4>1. codec \notin Leb /\ codec # "varuint" /\ codec # "varint"
          BY <3>3 DEF Leb, Whole, Text
        <4>2. QED
          BY <1>1, <2>2, <3>3, <4>1, OthersArrive
      <3>4. QED
        BY <2>1, <3>1, <3>2, <3>3 DEF Var
    <2>3. ASSUME stage = "read", origin = "cut" PROVE got.length = 0
      <3>1. codec \in Leb \cup Var /\ sent \in Data(codec) /\ got \in Decoded(codec, stream)
        BY <1>1, <2>1, <2>3 DEF CodecInv, From
      <3>2. PICK n \in 0..Len(Encoded(codec, sent)) - 1 : stream = SubSeq(Encoded(codec, sent), 1, n)
        BY <1>1, <2>3 DEF CodecInv, From
      <3>3. Encoded(codec, sent) \in Streams /\ EndsAt(Encoded(codec, sent), Len(Encoded(codec, sent)))
        <4>1. PICK m \in 1..MaxBytes(Width(codec)) :
                 /\ Encoded(codec, sent) \in Streams /\ Len(Encoded(codec, sent)) = m
                 /\ Holds(Encoded(codec, sent), m, Width(codec), Signed(codec))
          BY <3>1, NumberWritten
        <4>2. QED
          BY <4>1 DEF Holds
      <3>4. stream \in Streams /\ \A k \in 1..Len(stream) : 7 \in stream[k]
        BY <3>2, <3>3, CutEndsNowhere
      <3>5. QED
        BY <3>1, <3>4, NothingRead
    <2>4. QED
      BY <2>2, <2>3 DEF RoundTrip
  <1>2. QED
    BY <1>1, CodecInvariant, PTL

\* The readers of LEB128 accept the numbers of their width, and nothing else.
THEOREM AlwaysExact == Spec => []LebExact
  <1>1. ASSUME CodecInv PROVE LebExact
    <2>1. SUFFICES ASSUME stage = "read", codec \in Leb
                   PROVE  LET w == Width(codec)
                              signed == codec \in {"s32", "s64"}
                              whole == {n \in 1..Len(stream) :
                                           /\ n <= MaxBytes(w) /\ 7 \notin stream[n]
                                           /\ \A k \in 1..n - 1 : 7 \in stream[k]
                                           /\ Fits(stream, n, w, signed)}
                          IN  /\ whole = {} => got.length = 0
                              /\ \A n \in whole :
                                    got = [length |-> n,
                                           value |-> {i \in 0..w - 1 : Bit(stream, n, i, signed)}]
      BY DEF LebExact
    <2> DEFINE w == Width(codec)
               signed == codec \in {"s32", "s64"}
               whole == {n \in 1..Len(stream) : /\ n <= MaxBytes(w) /\ 7 \notin stream[n]
                                                /\ \A k \in 1..n - 1 : 7 \in stream[k]
                                                /\ Fits(stream, n, w, signed)}
    <2>2. stream \in Streams /\ got \in Decoded(codec, stream)
      <3>1. codec \in Leb \cup Var
        BY <2>1
      <3>2. QED
        BY <1>1, <2>1, <3>1, ReadsStreams DEF CodecInv
    <2>3. Exact(got, stream, w, Signed(codec))
      BY <2>1, <2>2, LebReads
    <2>4. Signed(codec) = signed
      BY <2>1 DEF Signed, Leb
    <2>5. Exact(got, stream, w, signed)
      BY <2>3, <2>4
    <2> HIDE DEF w, signed
    <2>6. \A n \in 1..Len(stream) : n \in whole <=> Holds(stream, n, w, signed)
      BY DEF Holds, EndsAt
    <2>7. ASSUME whole = {} PROVE got.length = 0
      BY <2>5, <2>6, <2>7 DEF Exact
    <2>8. ASSUME NEW n \in whole
          PROVE  got = [length |-> n, value |-> {i \in 0..w - 1 : Bit(stream, n, i, signed)}]
      <3>1. n \in 1..Len(stream)
        OBVIOUS
      <3>2. QED
        BY <2>5, <2>6, <2>8, <3>1 DEF Exact, Number, Value
    <2>9. QED
      BY <2>7, <2>8 DEF w, signed
  <1>2. QED
    BY <1>1, CodecInvariant, PTL

\* base64Decode stays in the room it asked for.
THEOREM AlwaysInRoom == Spec => []StaysInRoom
  <1>1. ASSUME CodecInv PROVE StaysInRoom
    <2>1. SUFFICES ASSUME stage = "read", codec = "base64"
                   PROVE  Len(got.bytes) <= Room(stream) /\ (got.ok => Len(got.bytes) = Room(stream))
      BY DEF StaysInRoom
    <2>2. codec \in Whole /\ codec \in Text
      BY <2>1 DEF Whole, Text
    <2>3. origin \in {"whole", "forged"} /\ got = base64Decode(stream, Room(stream))
      BY <1>1, <2>1, <2>2 DEF CodecInv, From, Decoded
    <2>4. stream \in Seq(Int)
      <3>1. CASE origin = "whole"
        <4>1. stream = base64Encode(sent) /\ sent \in Seq(0..255)
          BY <1>1, <2>1, <3>1, DataAssumption DEF CodecInv, From, Encoded, Data, Var
        <4>2. QED
          BY <4>1, EncodedText
      <3>2. CASE origin = "forged"
        <4>1. stream \in Seq(0..Bad)
          BY <1>1, <2>1, <2>2, <3>2, DataAssumption DEF CodecInv, From, Forgeries
        <4>2. PICK n \in Nat : n = Len(stream) /\ stream = [i \in 1..n |-> stream[i]]
          BY <4>1
        <4>3. \A i \in 1..n : stream[i] \in 0..70
          BY <4>1, <4>2 DEF Bad
        <4>4. \A x \in 0..70 : x \in Int
          OBVIOUS
        <4>5. \A i \in 1..n : stream[i] \in Int
          BY <4>3, <4>4, Zenon
        <4>6. [i \in 1..n |-> stream[i]] \in Seq(Int)
          BY <4>5
        <4>7. QED
          BY <4>2, <4>6
      <3>3. QED
        BY <2>3, <3>1, <3>2
    <2>5. QED
      BY <2>3, <2>4, RoomEnough
  <1>2. QED
    BY <1>1, CodecInvariant, PTL
=============================================================================
