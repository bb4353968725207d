----------------------------- MODULE ByteStrings -----------------------------
(***************************************************************************)
(* Byte strings as the streams write them: sequences, where a gap left by  *)
(* writing beyond the end reads as zeros (vector::resize, and fseek beyond *)
(* the end of a file).                                                     *)
(***************************************************************************)
EXTENDS Naturals, Sequences

\* bytes grown to at least size.
Padded(bytes, size) ==
    [i \in 1..(IF size > Len(bytes) THEN size ELSE Len(bytes)) |->
        IF i <= Len(bytes) THEN bytes[i] ELSE 0]

\* src written over bytes from offset at on (memcpy, fwrite).
Overwrite(bytes, at, src) ==
    IF src = <<>> THEN bytes
    ELSE LET grown == Padded(bytes, at + Len(src))
         IN  [i \in DOMAIN grown |->
                 IF i \in at + 1..at + Len(src) THEN src[i - at] ELSE grown[i]]

Moved_Forwards(bytes, dst, src, size) ==   \* (mutant) copied forwards, over what is still to be read
    IF size = 0 THEN bytes
    ELSE LET grown == Padded(bytes, (IF src > dst THEN src ELSE dst) + size)
             from(i) == IF dst > src THEN src + 1 + ((i - dst - 1) % (dst - src)) ELSE i + src - dst
         IN  [i \in DOMAIN grown |-> IF i \in dst + 1..dst + size THEN grown[from(i)] ELSE grown[i]]

\* size bytes moved from src to dst (memmove: the source is read first).
Moved(bytes, dst, src, size) ==
    IF size = 0 THEN bytes
    ELSE LET grown == Padded(bytes, (IF src > dst THEN src ELSE dst) + size)
         IN  [i \in DOMAIN grown |->
                 IF i \in dst + 1..dst + size THEN grown[i + src - dst] ELSE grown[i]]
=============================================================================
