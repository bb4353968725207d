------------------------------ MODULE VarInts -------------------------------
(***************************************************************************)
(* The variable-length integers of base::DataStream (data-stream.h), with  *)
(* words and bytes as sets of bits (module Leb128).  The classes VarUInt   *)
(* and VarInt hold a word of 32 bits.                                      *)
(***************************************************************************)
EXTENDS Leb128

\* The loops end as those of leb128.cc do.
WriteVarUInt(v) == Split(v, U32Leb128Length(v))
WriteVarInt(v) == WriteSLeb128(v, 32)

\* The bytes up to the first without continuation bit, 0 if the stream ends before.
VarExtent(p) == LET ends == {n \in 1..Len(p) : 7 \notin p[n]}
                IN  IF ends = {} THEN 0 ELSE Least(ends)

\* A shift by the width of the word or more is undefined: the machine takes the
\* shift modulo the width (x86, 64-bit ARM), or shifts everything out (32-bit ARM).
ShrOutcomes(v, k) == IF k < 32 THEN {Shr(v, k)} ELSE {Shr(v, k % 32), {}}
OnesShlOutcomes(k) == IF k < 32 THEN {k..31} ELSE {(k % 32)..31, {}}

ReadVarUInt(p) ==
    LET n == VarExtent(p)
    IN  IF n = 0 THEN Refused({}) ELSE [length |-> n, value |-> Join(p, n, 32)]

\* The sign bit is looked for just above the bits read, beyond the word after five bytes.
ReadVarInt(p) ==
    LET n == VarExtent(p)
        v == Join(p, n, 32)
        by == 7 * n
    IN  IF n = 0 THEN {Refused({})}
        ELSE {[length |-> n, value |-> v \cup (IF 0 \in shifted THEN ones ELSE {})] :
                 shifted \in ShrOutcomes(v, by - 1), ones \in OnesShlOutcomes(by)}
=============================================================================
