------------------------------- MODULE Leb128 -------------------------------
(***************************************************************************)
(* codec/leb128.cc.  A word of w bits is the set of the positions of its   *)
(* one bits, a subset of 0..w-1, and a byte a subset of 0..7, so that 32-  *)
(* and 64-bit shifts are what they are in C.  A reader's result is the     *)
(* number of bytes it consumed, 0 when it refuses, and what it stored.     *)
(***************************************************************************)
EXTENDS Naturals, Sequences

MaxBytes(w) == IF w = 32 THEN 5 ELSE 10    \* MAX_U32_LEB128_BYTES, MAX_U64_LEB128_BYTES

\* v >> k of an unsigned word, and of a signed one of w bits.
Shr(v, k) == {i \in 0..63 : i + k \in v}
Sar(v, k, w) == Shr(v, k) \cup {i \in 0..w - 1 : i + k > w - 1 /\ w - 1 \in v}

Group(v) == v \cap 0..6    \* v & 0x7f
Least(S) == CHOOSE n \in S : \A m \in S : n <= m

\* Bytes 1..n of the groups of v, all but the last with the continuation bit.
Split(v, n) == [k \in 1..n |-> Group(Shr(v, 7 * (k - 1))) \cup (IF k < n THEN {7} ELSE {})]

U32Leb128Length(v) == Least({n \in 1..5 : Shr(v, 7 * n) = {}})

WriteU32Leb128(v) == Split(v, U32Leb128Length(v))

\* Always five bytes (WriteFixedU32Leb128Raw).
WriteFixedU32Leb128(v) == Split(v, 5)

\* LEB128_LOOP_UNTIL: stop when what is left is the sign, and so is bit 6 of the byte.
Done_IgnoresBit6(v, n, w) ==   \* (mutant)
    Sar(v, 7 * n, w) = (IF w - 1 \in v THEN 0..w - 1 ELSE {})

Done(v, n, w) ==
    /\ Sar(v, 7 * n, w) = (IF w - 1 \in v THEN 0..w - 1 ELSE {})
    /\ (6 \in Sar(v, 7 * (n - 1), w)) <=> (w - 1 \in v)

WriteSLeb128(v, w) ==
    LET n == Least({k \in 1..MaxBytes(w) : Done(v, k, w)})
    IN  [k \in 1..n |-> Group(Sar(v, 7 * (k - 1), w)) \cup (IF k < n THEN {7} ELSE {})]

-----------------------------------------------------------------------------
\* The bytes up to the first without continuation bit; 0 if there is none in time.
Ends(p, w) == {n \in 1..MaxBytes(w) : n <= Len(p) /\ 7 \notin p[n]}
Extent(p, w) == IF Ends(p, w) = {} THEN 0 ELSE Least(Ends(p, w))

\* LEB128_n(type): the groups put together, cut to w bits.
Join(p, n, w) == {i \in 0..w - 1 : i \div 7 < n /\ i % 7 \in p[i \div 7 + 1]}

\* SIGN_EXTEND(type, v, sign_bit).
SignExtend(v, sign_bit, w) == v \cup (IF sign_bit \in v THEN sign_bit..w - 1 ELSE {})

Refused(out) == [length |-> 0, value |-> out]

\* out is what *out_value held; "past the end" clears it, a value too large does not.
ReadU32Leb128(p, out) ==
    LET n == Extent(p, 32)
    IN  IF n = 0 THEN Refused({})
        ELSE IF n = 5 /\ p[5] \cap 4..7 # {} THEN Refused(out)
        ELSE [length |-> n, value |-> Join(p, n, 32)]

\* In the last byte only `keep' bits belong to the word: those above must repeat the sign.
TopBitsFit_Any(last, keep) == TRUE   \* (mutant)
TopBitsFit(last, keep) == last \cap keep..6 \in IF keep - 1 \in last THEN {keep..6} ELSE {{}}

ReadSLeb128(p, out, w) ==
    LET n == Extent(p, w)
    IN  IF n = 0 THEN Refused(out)
        ELSE IF n < MaxBytes(w)
        THEN [length |-> n, value |-> SignExtend(Join(p, n, w), 7 * n - 1, w)]
        ELSE IF TopBitsFit(p[n], w - 7 * (n - 1))
        THEN [length |-> n, value |-> Join(p, n, w)]
        ELSE Refused(out)
=============================================================================
