------------------------------ MODULE MCCodec -------------------------------
(***************************************************************************)
(* Codec at its boundaries: words that are one run of ones or of zeros,    *)
(* streams of one repeated byte and any last byte, short texts.            *)
(***************************************************************************)
EXTENDS Codec

Runs(w) == {a..b : a \in 0..w - 1, b \in 0..w - 1}
MCWords32 == Runs(32) \cup {(0..31) \ r : r \in Runs(32)}
MCWords64 == Runs(64) \cup {(0..63) \ r : r \in Runs(64)}

\* n bytes with the continuation bit, then the last byte, then two more.
Ended(n, byte, last) == [k \in 1..n + 1 |-> IF k <= n THEN byte \cup {7} ELSE last] \o <<{}, {0}>>
Repeated(max) ==
    {Ended(n, byte, last) : n \in 0..max, byte \in {{}, {0}, {6}, 0..6}, last \in SUBSET (0..6)}
MCStreams32 == Repeated(5)
MCStreams64 == Repeated(10)

MCRest == <<{}, {0, 7}>>

MCBinaries == UNION {[1..n -> {0, 1, 15, 128, 171, 255}] : n \in 0..4}
MCTexts == UNION {[1..n -> {0, 10, 63, Capital + 5, Pad, Bad}] : n \in 0..5}
           \cup [1..8 -> {63, Pad, Bad}]

MCCalls == {[i \in 1..n |-> i] : n \in 0..9}
=============================================================================
