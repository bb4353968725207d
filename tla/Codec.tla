------------------------------- MODULE Codec --------------------------------
(***************************************************************************)
(* The codecs in use: a sender writes a datum, the stream may be cut short *)
(* or come from someone else altogether, and a receiver reads it.          *)
(***************************************************************************)
EXTENDS VarInts, TextCodec, Arguments, SequencesExt

CONSTANTS Codecs,               \* bound: the codecs in use
          Words32, Words64,     \* words, as sets of bits
          Binaries,             \* byte strings to be sent as text
          Streams32, Streams64, \* byte streams nobody wrote (bytes as sets of bits)
          Texts,                \* texts nobody wrote
          Calls,                \* the argument lists of calls
          Rest                  \* what follows the datum in its stream

VARIABLES codec,    \* the codec in use
          sent,     \* the datum
          stream,   \* its encoding
          stage,    \* "new", "whole", "followed", "cut", "forged" or "read"
          origin,   \* the stage the stream was read in
          got       \* what the reader returned

vars == <<codec, sent, stream, stage, origin, got>>

Leb == {"u32", "fixed", "s32", "s64"}
Var == {"varuint", "varint"}
Text == {"base64", "hex"}
Whole == Text \cup {"uint32", "little", "version", "call"}   \* never part of a stream
Width(c) == IF c = "s64" THEN 64 ELSE 32

\* Words, bytes and texts are what they are in C, and a method has at most the thread
\* and nine more parameters, as many as the macros can count.
ASSUME DataAssumption ==
    /\ Codecs \subseteq Leb \cup Var \cup Whole
    /\ Words32 \subseteq SUBSET (0..31) /\ Words64 \subseteq SUBSET (0..63)
    /\ Streams32 \cup Streams64 \cup {Rest} \subseteq Seq(SUBSET (0..7))
    /\ Binaries \subseteq Seq(0..255) /\ Texts \subseteq Seq(0..Bad)
    /\ \A call \in Calls : call = [i \in 1..Len(call) |-> call[i]] /\ Len(call) \in 0..9

Data(c) == CASE c \in {"u32", "fixed", "s32"} \cup Var -> Words32
             [] c \in {"s64", "version"} -> Words64
             [] c \in {"uint32", "little"} -> Words32
             [] c = "call" -> Calls
             [] OTHER -> Binaries
Forgeries(c) == CASE c \in {"u32", "s32"} -> Streams32
                  [] c = "s64" -> Streams64
                  [] c \in Text -> Texts
                  [] OTHER -> {}

Encoded(c, datum) == CASE c = "u32" -> WriteU32Leb128(datum)
                       [] c = "fixed" -> WriteFixedU32Leb128(datum)
                       [] c \in {"s32", "s64"} -> WriteSLeb128(datum, Width(c))
                       [] c = "varuint" -> WriteVarUInt(datum)
                       [] c = "varint" -> WriteVarInt(datum)
                       [] c = "base64" -> base64Encode(datum)
                       [] c = "hex" -> Bin2Hex(datum)
                       [] c = "uint32" -> UInt32ToBytes(datum)
                       [] c = "little" -> Reverse(UInt32ToBytes(datum))
                       [] c = "version" -> <<BLOCK_VERSION(datum, (0..63) \ datum)>>
                       [] c = "call" -> datum

\* What a reader's output held before, and a base 64 decoder's: just enough room.
Old == {0}
Room(text) == IF Len(text) < 4 THEN 0 ELSE expect_len(text)
Decoded(c, bytes) == CASE c \in {"u32", "fixed"} -> {ReadU32Leb128(bytes, Old)}
                       [] c \in {"s32", "s64"} -> {ReadSLeb128(bytes, Old, Width(c))}
                       [] c = "varuint" -> {ReadVarUInt(bytes)}
                       [] c = "varint" -> ReadVarInt(bytes)
                       [] c = "base64" -> {base64Decode(bytes, Room(bytes))}
                       [] c = "hex" -> {Hex2Bin(bytes)}
                       [] c = "uint32" -> {BytesToUInt32(bytes)}
                       [] c = "little" -> {BytesToUInt32Little(bytes)}
                       [] c = "version" -> {X_VERSION(bytes[1])}
                       [] c = "call" -> {Received(bytes)}

\* Either there is a datum to be sent, or only a stream of unknown origin.
Init == /\ codec \in Codecs
        /\ \/ stage = "new" /\ sent \in Data(codec) /\ stream = <<>>
           \/ stage = "forged" /\ sent = {} /\ stream \in Forgeries(codec)
        /\ got = <<>> /\ origin = "new"

Write == /\ stage = "new"
         /\ stream' = Encoded(codec, sent)
         /\ stage' = "whole"
         /\ UNCHANGED <<codec, sent, origin, got>>

Follow == /\ stage = "whole" /\ codec \notin Whole
          /\ stream' = stream \o Rest
          /\ stage' = "followed"
          /\ UNCHANGED <<codec, sent, origin, got>>

Cut == /\ stage = "whole" /\ codec \notin Whole
       /\ \E n \in 0..Len(stream) - 1 : stream' = SubSeq(stream, 1, n)
       /\ stage' = "cut"
       /\ UNCHANGED <<codec, sent, origin, got>>

Receive == /\ stage \in {"whole", "followed", "cut", "forged"}
         /\ got' \in Decoded(codec, stream)
         /\ stage' = "read" /\ origin' = stage
         /\ UNCHANGED <<codec, sent, stream>>

Next == Write \/ Follow \/ Cut \/ Receive

Spec == Init /\ [][Next]_vars

-----------------------------------------------------------------------------
Arrived == stage = "read" /\ origin \in {"whole", "followed"}

WholeNumber == [length |-> Len(Encoded(codec, sent)), value |-> sent]

\* What is written is what is read, and as many bytes are read as were written,
\* whatever follows; a number cut short is refused; a version comes out of a block
\* version whatever is in the reserved bits, and the arguments of a call, as many as
\* the macros can bind, arrive in their order.  There are two exceptions: the
\* empty string in base 64, which base64Decode refuses (crypto.cc:81) although
\* base64Encode writes it, and a VarInt of five bytes (VarIntRoundTrip).
RoundTrip ==
    /\ Arrived => CASE codec \in Leb \cup {"varuint"} -> got = WholeNumber
                    [] codec = "varint" -> got = WholeNumber \/ Len(Encoded(codec, sent)) = 5
                    [] codec = "base64" -> got = [ok |-> sent # <<>>, bytes |-> sent]
                    [] codec = "version" -> got = sent \cap 0..15
                    [] OTHER -> got = sent
    /\ stage = "read" /\ origin = "cut" => got.length = 0

\* Every VarInt is read as it was written (data-stream.h:940: "This provides more
\* efficient deserialization of 32-bit signed int").
VarIntRoundTrip == Arrived /\ codec = "varint" => got = WholeNumber

\* The number that the first n bytes of p stand for, with as many bits as one asks
\* for, and whether it is one of w bits.
Bit(p, n, i, signed) == IF i < 7 * n THEN i % 7 \in p[i \div 7 + 1] ELSE signed /\ 6 \in p[n]
Fits(p, n, w, signed) ==
    \A i \in w..70 : Bit(p, n, i, signed) = (signed /\ Bit(p, n, w - 1, signed))

\* The readers accept exactly the streams that hold, in at most the bytes allowed, a
\* number of the word's width, consume those bytes and no more, and return that
\* number ("the top bits should be a sign-extension of the sign bit", leb128.cc:195).
LebExact ==
    (stage = "read" /\ codec \in Leb) =>
        LET w == Width(codec)
            signed == codec \in {"s32", "s64"}
            whole == {n \in 1..Len(stream) : /\ n <= MaxBytes(w) /\ 7 \notin stream[n]
                                             /\ \A k \in 1..n - 1 : 7 \in stream[k]
                                             /\ Fits(stream, n, w, signed)}
        IN  /\ whole = {} => got.length = 0
            /\ \A n \in whole :
                   got = [length |-> n, value |-> {i \in 0..w - 1 : Bit(stream, n, i, signed)}]

\* A decoder of text, whether it accepts the text or not, stores no more bytes than
\* the room it checked for at the start (crypto.cc:96), and fills it if it accepts.
StaysInRoom ==
    (stage = "read" /\ codec = "base64") =>
        /\ Len(got.bytes) <= Room(stream)
        /\ got.ok => Len(got.bytes) = Room(stream)
=============================================================================
