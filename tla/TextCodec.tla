----------------------------- MODULE TextCodec ------------------------------
(***************************************************************************)
(* Bytes as text: base64Encode and base64Decode (crypto/crypto.cc) and the *)
(* hexadecimal helpers (utils/util.h), with that file's words as bytes and *)
(* the block version of version.h.  In texts, bytes are numbers and a char *)
(* is the value of the digit it is, or one of the marks below.  Texts to be   *)
(* decoded are ASCII (base64Decode indexes its table with a plain char).   *)
(***************************************************************************)
EXTENDS Integers, Sequences, FiniteSets

Pad == 64      \* '='
Capital == 16  \* Capital + n is the hexadecimal digit 10 + n as a capital letter
Bad == 70      \* a character that is no digit

-----------------------------------------------------------------------------
\* Base 64.  Digit d takes the low bits of one byte and the high bits of the next.
Sextet(bytes, d) ==
    LET k == 3 * (d \div 4) + (d % 4)
        low(values) == (bytes[k] % values) * (64 \div values)
        high(values) == IF k < Len(bytes) THEN bytes[k + 1] \div (256 \div values) ELSE 0
    IN  CASE d % 4 = 0 -> high(64)
          [] d % 4 = 1 -> low(4) + high(16)
          [] d % 4 = 2 -> low(16) + high(4)
          [] d % 4 = 3 -> low(64)

base64Encode(bytes) ==
    LET digits == (4 * Len(bytes) + 2) \div 3
    IN  [c \in 1..4 * ((Len(bytes) + 2) \div 3) |-> IF c <= digits THEN Sextet(bytes, c - 1) ELSE Pad]

\* The bytes completed by digits; a byte is stored once its second digit is known.
Octets(digits) ==
    [k \in 1..(3 * Len(digits)) \div 4 |->
        LET d == 4 * ((k - 1) \div 3) + ((k - 1) % 3) + 1
        IN  CASE k % 3 = 1 -> digits[d] * 4 + digits[d + 1] \div 16
              [] k % 3 = 2 -> (digits[d] % 16) * 16 + digits[d + 1] \div 4
              [] k % 3 = 0 -> (digits[d] % 4) * 64 + digits[d + 1]]

expect_len(text) ==
    3 * (Len(text) \div 4) - Cardinality({i \in 1..Len(text) : i >= Len(text) - 1 /\ text[i] = Pad})

\* Where the decoding loop gives up: a character that is no digit, padding before the
\* last two places, or in the first of the two with a digit to come and one before.
Stop(text, i) ==
    \/ text[i] = Bad
    \/ text[i] = Pad /\ i < Len(text) - 1
    \/ text[i] = Pad /\ i = Len(text) - 1 /\ text[i + 1] # Pad /\ (i - 1) % 4 = 1

NotPad_AsZero(c) == TRUE   \* (mutant)
NotPad(c) == c # Pad
Readable(text) == {i \in 1..Len(text) : \A j \in 1..i : ~Stop(text, j)}

\* Taken(text)[i] is the digits among the first i characters: padding is passed over.
Taken(text) ==
    LET taken[i \in 0..Len(text)] ==
            IF i = 0 THEN <<>>
            ELSE IF NotPad(text[i]) THEN Append(taken[i - 1], text[i]) ELSE taken[i - 1]
    IN  taken

Start(text, room) == text # <<>> /\ Len(text) % 4 = 0 /\ room >= expect_len(text)

\* bytes is what has been stored in the output, of size room, when the decoder returns ok.
base64Decode(text, room) ==
    LET read == Cardinality(Readable(text))
        bytes == Octets(Taken(text)[read])
    IN  IF ~Start(text, room) THEN [ok |-> FALSE, bytes |-> <<>>]
        ELSE [ok |-> read = Len(text) /\ Len(bytes) = expect_len(text), bytes |-> bytes]

-----------------------------------------------------------------------------
\* Bin2Hex and Bytes2Hex.
Bin2Hex(bytes) ==
    [c \in 1..2 * Len(bytes) |-> LET byte == bytes[(c + 1) \div 2]
                                 IN  IF c % 2 = 1 THEN byte \div 16 ELSE byte % 16]

FromHexChar(c) == CASE c \in 0..15 -> c
                    [] c \in Capital..Capital + 5 -> c - Capital + 10
                    [] OTHER -> -1

\* Hex2Bin and Hex2Bytes: nothing unless every character is a digit; after an odd
\* number of them the terminating NUL is read as one more.
Hex2Bin(text) ==
    LET digit(c) == IF c <= Len(text) THEN FromHexChar(text[c]) ELSE -1
    IN  IF \E c \in 1..2 * ((Len(text) + 1) \div 2) : digit(c) = -1 THEN <<>>
        ELSE [k \in 1..Len(text) \div 2 |-> digit(2 * k - 1) * 16 + digit(2 * k)]

-----------------------------------------------------------------------------
\* UInt32ToBytes and its readers; words and bytes are the sets of their bits.
UInt32ToBytes(word) == [k \in 1..4 |-> {i \in 0..7 : i + 8 * (4 - k) \in word}]
BytesToUInt32(data) == {i \in 0..31 : i % 8 \in data[4 - i \div 8]}
BytesToUInt32Little(data) == {i \in 0..31 : i % 8 \in data[1 + i \div 8]}

\* BLOCK_VERSION packs a version of 16 bits above 48 reserved ones.
BLOCK_VERSION(version, reserved) == {i + 48 : i \in version \cap 0..15} \cup (reserved \cap 0..47)
X_VERSION(block_version) == {i \in 0..15 : i + 48 \in block_version}
=============================================================================
