---------------------------- MODULE LinearMemory ----------------------------
(***************************************************************************)
(* The libc functions the host runs for a WebAssembly program              *)
(* (plugins/libc-module.cc): offsets come from the program, are turned     *)
(* into pointers into its linear memory, and results go back as offsets.   *)
(* Every function exists for chars and for wide chars; the shared          *)
(* definitions below take the size u of a unit, 1 or WCHAR_SIZE.           *)
(*                                                                         *)
(* The library the host calls, the pointer casts and the charge for gas    *)
(* are external.  A program owes what any caller of libc owes: texts that  *)
(* end inside the memory, copies that do not overlap.  Where it does not   *)
(* keep to that, or the size of its wide characters wraps around in the 32 *)
(* bits in which it is checked, the library goes on beyond the memory and  *)
(* what it leaves and answers is anything (Onward, Scribbled).             *)
(***************************************************************************)
EXTENDS Integers, Sequences, FiniteSetsExt

CONSTANTS Base,         \* values of a byte (256)
          MemorySize,   \* X_LINEAR_MEMORY_SIZE()
          WCHAR_SIZE, WordBytes, LongBytes,     \* 4, 4 and 8
          Offsets, Counts, Chars,   \* what programs pass
          Magnitudes                \* bound: the numbers that stand in texts

VARIABLES memory,       \* its bytes
          call          \* the call that was answered last: touched is what it read or wrote

vars == <<memory, call>>

X_NULL == 0
Cells == 0..MemorySize - 1
Word == Base ^ WordBytes
Long == Base ^ LongBytes

ASSUME SizesAssumption ==
    /\ MemorySize \in Nat /\ WCHAR_SIZE \in Nat \ {0} /\ WordBytes \in Nat
    /\ Magnitudes \subseteq Nat
ASSUME WidthsAssumption == Word \in Nat \ {0, 1} /\ Long \in Nat /\ 2 * Word <= Long
ASSUME ArgumentsAssumption == Offsets \subseteq 0..Word - 1 /\ Counts \subseteq 0..Word - 1

Smaller(a, b) == IF a < b THEN a ELSE b

\* X_STATIC_POINTER_CAST and X_STATIC_BUFFER_CAST give a pointer, not null.
Pointer(x) == x < MemorySize
Buffer(x, size) == x + size <= MemorySize

\* The bytes of n units, as the functions compute them, and whether they do.
Size(u, n) == (u * n) % Word
SizeFits(u, n) == u * n < Word

Span(x, size) == x..x + size - 1
\* From x to the end of the memory and beyond: what lies there is not the program's.
Onward(x) == Smaller(x, MemorySize)..MemorySize
Byte(m, x) == IF x \in Cells THEN m[x] ELSE 0
\* A unit is its bytes, the lowest first; the library cuts a number to the unit it needs.
Unit(m, u, x) == [i \in 0..u - 1 |-> Byte(m, x + i)]
Cut(val, u) == [i \in 0..u - 1 |-> (val \div Base ^ i) % Base]
Zero(u) == Cut(0, u)
Units(m, u, x, n) == [k \in 1..n |-> Unit(m, u, x + u * (k - 1))]
Written(m, u, at, units) ==
    [x \in Cells |-> IF x \in Span(at, u * Len(units)) THEN units[(x - at) \div u + 1][(x - at) % u]
                                                        ELSE m[x]]

\* Texts: units up to a zero; strlen and wcslen count them.
Ends(m, u, x) == {n \in 0..MemorySize : x + u * (n + 1) <= MemorySize /\ Unit(m, u, x + u * n) = Zero(u)}
IsText(u, x) == Ends(memory, u, x) # {}
Length(m, u, x) == Min(Ends(m, u, x))
Text(m, u, x) == Units(m, u, x, Length(m, u, x))
\* What a function that reads at most n units of a text reads, its end included.
IsPrefix(u, x, n) == IsText(u, x) \/ Buffer(x, u * n)
Prefix(u, x, n) == Units(memory, u, x, IF IsText(u, x) THEN Smaller(Length(memory, u, x) + 1, n) ELSE n)

NoCall == [fn |-> "none", args |-> <<>>, ret |-> 0, touched |-> {}]

Init == memory \in [Cells -> 0..Base - 1] /\ call = NoCall

Answer(fn, args, ret, touched) ==
    call' = [fn |-> fn, args |-> args, ret |-> ret, touched |-> touched]
Refuse(fn, args, ret) == Answer(fn, args, ret, {}) /\ UNCHANGED memory
\* Nothing is known of the bytes in stored (bound: they are as before, or all alike).
Scribbled(stored) ==
    \/ UNCHANGED memory
    \/ \E byte \in 0..Base - 1 : memory' = [x \in Cells |-> IF x \in stored THEN byte ELSE memory[x]]

-----------------------------------------------------------------------------
(* Memory. *)

Apart(d, s, size) == Span(d, size) \cap Span(s, size) = {}

Copy(fn, u, d, s, n, may) ==
    IF Buffer(d, Size(u, n)) /\ Buffer(s, Size(u, n))
    THEN /\ Answer(fn, <<d, s, n>>, d, Span(d, u * n) \cup Span(s, u * n))
         /\ IF SizeFits(u, n) /\ may THEN memory' = Written(memory, u, d, Units(memory, u, s, n))
            ELSE Scribbled(Span(d, u * n))
    ELSE Refuse(fn, <<d, s, n>>, d)

my_memcpy(d, s, n) == Copy("memcpy", 1, d, s, n, Apart(d, s, n))
my_wmemcpy(d, s, n) == Copy("wmemcpy", WCHAR_SIZE, d, s, n, Apart(d, s, WCHAR_SIZE * n))
my_memmove(d, s, n) == Copy("memmove", 1, d, s, n, TRUE)
my_wmemmove(d, s, n) == Copy("wmemmove", WCHAR_SIZE, d, s, n, TRUE)

Fill(fn, u, d, val, n) ==
    IF Buffer(d, Size(u, n))
    THEN /\ Answer(fn, <<d, val, n>>, d, Span(d, u * n))
         /\ memory' = Written(memory, u, d, [k \in 1..n |-> Cut(val, u)])
    ELSE Refuse(fn, <<d, val, n>>, d)

my_memset(d, val, n) == Fill("memset", 1, d, val, n)
my_wmemset(d, val, n) == Fill("wmemset", WCHAR_SIZE, d, val, n)

\* The sign of the first difference; wchar_t is signed.
Ordinal(unit, u) == LET v == MapThenSumSet(LAMBDA i : unit[i] * Base ^ i, 0..u - 1)
                    IN  IF u > 1 /\ 2 * v >= Base ^ u THEN v - Base ^ u ELSE v
Order(xs, ys, u) ==
    LET diff == {i \in 1..Smaller(Len(xs), Len(ys)) : xs[i] # ys[i]}
    IN  IF diff = {} THEN 0
        ELSE IF Ordinal(xs[Min(diff)], u) < Ordinal(ys[Min(diff)], u) THEN -1 ELSE 1

Orders == {-1, 0, 1}
Compare(fn, u, a, b, n) ==
    IF Buffer(a, Size(u, n)) /\ Buffer(b, Size(u, n))
    THEN /\ \E order \in IF SizeFits(u, n) THEN {Order(Units(memory, u, a, n), Units(memory, u, b, n), u)}
                         ELSE Orders :
               Answer(fn, <<a, b, n>>, order, Span(a, u * n) \cup Span(b, u * n))
         /\ UNCHANGED memory
    ELSE Refuse(fn, <<a, b, n>>, -1)

my_memcmp(a, b, n) == Compare("memcmp", 1, a, b, n)
my_wmemcmp(a, b, n) == Compare("wmemcmp", WCHAR_SIZE, a, b, n)

Seek(fn, u, s, ch, n, max_size) ==
    LET hits == {x \in {s + u * k : k \in 0..max_size \div u - 1} : Unit(memory, u, x) = Cut(ch, u)}
    IN  IF Buffer(s, max_size)
        THEN /\ Answer(fn, <<s, ch, n>>, IF hits = {} THEN X_NULL ELSE Min(hits),
                       Span(s, u * (max_size \div u)))
             /\ UNCHANGED memory
        ELSE Refuse(fn, <<s, ch, n>>, X_NULL)

\* What is left of the memory, in 32 bits.
Left(s) == (MemorySize - s) % Word

my_memchr_Uncut(s, ch, n) == Seek("memchr", 1, s, ch, n, n)   \* (mutant) the count as it comes
my_memchr(s, ch, n) == Seek("memchr", 1, s, ch, n, Smaller(Left(s), n))
my_wmemchr(s, ch, n) ==
    Seek("wmemchr", WCHAR_SIZE, s, ch, n, Smaller(Left(s), Size(WCHAR_SIZE, n)))

-----------------------------------------------------------------------------
(* Texts. *)

\* Along a text that does not end (bound: the answer is a count).
RunOn(fn, args, s) == \E ret \in Counts : Answer(fn, args, ret, Onward(s))

Measure(fn, u, s) ==
    IF Pointer(s)
    THEN /\ IF IsText(u, s)
            THEN Answer(fn, <<s>>, Length(memory, u, s), Span(s, u * (Length(memory, u, s) + 1)))
            ELSE RunOn(fn, <<s>>, s)
         /\ UNCHANGED memory
    ELSE Refuse(fn, <<s>>, 0)

my_strlen(s) == Measure("strlen", 1, s)
my_wcslen(s) == Measure("wcslen", WCHAR_SIZE, s)

\* Where ch is first in a text whose end counts, otherwise missing.
Find(fn, u, s, ch, missing) ==
    LET hits == {x \in {s + u * k : k \in 0..Length(memory, u, s)} : Unit(memory, u, x) = Cut(ch, u)}
    IN  /\ IF IsText(u, s)
           THEN Answer(fn, <<s, ch>>, IF hits = {} THEN missing ELSE Min(hits),
                       Span(s, u * (Length(memory, u, s) + 1)))
           ELSE RunOn(fn, <<s, ch>>, s)
        /\ UNCHANGED memory

my_strchrnul(s, ch) == IF Pointer(s) THEN Find("strchrnul", 1, s, ch, s + Length(memory, 1, s))
                                     ELSE Refuse("strchrnul", <<s, ch>>, X_NULL)
\* wcschr does not test the pointer.
my_wcschr(s, ch) == Find("wcschr", WCHAR_SIZE, s, ch, X_NULL)

CompareTexts(fn, u, a, b, n) ==
    IF Pointer(a) /\ Pointer(b)
    THEN /\ \E order \in IF IsPrefix(u, a, n) /\ IsPrefix(u, b, n)
                         THEN {Order(Prefix(u, a, n), Prefix(u, b, n), u)} ELSE Orders :
               Answer(fn, <<a, b, n>>, order,
                      Span(a, u * Len(Prefix(u, a, n))) \cup Span(b, u * Len(Prefix(u, b, n))))
         /\ UNCHANGED memory
    ELSE Refuse(fn, <<a, b, n>>, -1)

my_strcmp(a, b) == CompareTexts("strcmp", 1, a, b, MemorySize + 1)
my_wcscmp(a, b) == CompareTexts("wcscmp", WCHAR_SIZE, a, b, MemorySize + 1)
my_strncmp(a, b, n) == CompareTexts("strncmp", 1, a, b, n)
my_wcsncmp(a, b, n) == CompareTexts("wcsncmp", WCHAR_SIZE, a, b, n)

\* room units at d are checked and filled with new; read is what was read before.
Store(fn, args, u, d, room, new, read) ==
    IF Buffer(d, u * room)
    THEN /\ Answer(fn, args, d, read \cup Span(d, u * Len(new)))
         /\ IF read \cap Span(d, u * Len(new)) = {} THEN memory' = Written(memory, u, d, new)
            ELSE Scribbled(Span(d, u * Len(new)))
    ELSE Refuse(fn, args, d)
StoreOn(fn, args, d, s) == Answer(fn, args, d, Onward(s) \cup Onward(d)) /\ Scribbled(Onward(d))

CopyText(fn, u, d, s, ended) ==
    LET new == Units(memory, u, s, Length(memory, u, s) + ended)
    IN  IF Pointer(s)
        THEN IF IsText(u, s) THEN Store(fn, <<d, s>>, u, d, Len(new), new, Span(s, u * Len(new)))
             ELSE StoreOn(fn, <<d, s>>, d, s)
        ELSE Refuse(fn, <<d, s>>, d)

my_strcpy_NoEnd(d, s) == CopyText("strcpy", 1, d, s, 0)   \* (mutant) copies strlen chars
my_strcpy(d, s) == CopyText("strcpy", 1, d, s, 1)
my_wcscpy(d, s) == CopyText("wcscpy", WCHAR_SIZE, d, s, 1)

\* A text that ends early is followed by zeros, a longer one is not ended.
CopyPrefix(fn, u, d, s, n) ==
    LET read == Prefix(u, s, n)
        apart == Span(d, u * n) \cap Span(s, u * Len(read)) = {}
    IN  IF Pointer(s) /\ Buffer(d, Size(u, n))
        THEN /\ Answer(fn, <<d, s, n>>, d, Span(s, u * Len(read)) \cup Span(d, u * n))
             /\ IF SizeFits(u, n) /\ IsPrefix(u, s, n) /\ apart
                THEN memory' = Written(memory, u, d,
                                       [k \in 1..n |-> IF k <= Len(read) THEN read[k] ELSE Zero(u)])
                ELSE Scribbled(Span(d, u * n))
        ELSE Refuse(fn, <<d, s, n>>, d)

my_strncpy(d, s, n) == CopyPrefix("strncpy", 1, d, s, n)
my_wcsncpy(d, s, n) == CopyPrefix("wcsncpy", WCHAR_SIZE, d, s, n)

\* The library appends to the text at d and ends it again; ended says whether
\* the end is in the room that is checked.
AppendText(fn, u, d, s, n, ended) ==
    LET taken == Smaller(Length(memory, u, s), n)
        new == Text(memory, u, d) \o Units(memory, u, s, taken) \o <<Zero(u)>>
    IN  IF Pointer(s) /\ Pointer(d)
        THEN IF IsText(u, s) /\ IsText(u, d)
             THEN Store(fn, <<d, s, n>>, u, d, Length(memory, u, d) + ended + taken, new,
                        Span(s, u * (Length(memory, u, s) + 1)))
             ELSE StoreOn(fn, <<d, s, n>>, d, s)
        ELSE Refuse(fn, <<d, s, n>>, d)

my_strncat_NoEnd(d, s, n) == AppendText("strncat", 1, d, s, n, 0)   \* (mutant) strlen(dst) + src_size
my_strncat(d, s, n) == AppendText("strncat", 1, d, s, n, 1)
my_wcsncat(d, s, n) == AppendText("wcsncat", WCHAR_SIZE, d, s, n, 1)

-----------------------------------------------------------------------------
(* Numbers.  A text holds a number sign * mag and goes on at end; the       *)
(* library, with its 64 bits, saturates it, and the functions cut that to   *)
(* the program's 32 bits.                                                   *)

StoreEnd(s, e, end) ==
    IF e # X_NULL /\ Buffer(e, WordBytes) THEN Written(memory, WordBytes, e, <<Cut(end, WordBytes)>>) ELSE memory

\* A base the library does not know leaves end_ptr unset, and gives zero.
Parse(fn, s, e, sign, mag, ret) ==
    IF Pointer(s)
    THEN \/ /\ \E end \in s..(IF IsText(1, s) THEN s + Length(memory, 1, s) ELSE MemorySize) :
                  /\ end = s => sign = 1 /\ mag = 0
                  /\ memory' = StoreEnd(s, e, end)
            /\ Answer(fn, <<s, e, sign, mag>>, ret,
                      (IF IsText(1, s) THEN Span(s, Length(memory, 1, s) + 1) ELSE Onward(s))
                        \cup (IF e # X_NULL /\ Buffer(e, WordBytes) THEN Span(e, WordBytes) ELSE {}))
         \/ sign = 1 /\ mag = 0 /\ Refuse(fn, <<s, e, sign, mag>>, 0)
    ELSE Refuse(fn, <<s, e, sign, mag>>, 0)

Clamp(v, low, high) == IF v > high THEN high ELSE IF v < low THEN low ELSE v
Signed(v, range) == IF 2 * v >= range THEN v - range ELSE v
\* strtol and strtoul of the host, their types being range values wide.
HostSigned(sign, mag, range) == Clamp(sign * mag, -(range \div 2), range \div 2 - 1)
HostUnsigned(sign, mag, range) == IF mag >= range THEN range - 1 ELSE (sign * mag) % range

my_strtol_Cut(s, e, sign, mag) ==   \* (mutant) the long is cut to 32 bits
    Parse("strtol", s, e, sign, mag, Signed(HostSigned(sign, mag, Long) % Word, Word))

my_strtol(s, e, sign, mag) ==
    Parse("strtol", s, e, sign, mag,
          Clamp(HostSigned(sign, mag, Long), -(Word \div 2), Word \div 2 - 1))

\* The unsigned long goes through a signed one, mid_result.
my_strtoul(s, e, sign, mag) ==
    LET mid_result == Signed(HostUnsigned(sign, mag, Long), Long)
    IN  Parse("strtoul", s, e, sign, mag,
              IF mid_result > Word - 1 \/ mid_result < -(Word - 1) THEN Word - 1 ELSE mid_result % Word)

my_strtoll(s, e, sign, mag) == Parse("strtoll", s, e, sign, mag, HostSigned(sign, mag, Long))
my_strtoull(s, e, sign, mag) == Parse("strtoull", s, e, sign, mag, HostUnsigned(sign, mag, Long))

-----------------------------------------------------------------------------
\* The program takes the answer and goes on.
Return == call # NoCall /\ call' = NoCall /\ UNCHANGED memory

NextCall ==
    \/ \E d, s \in Offsets, n \in Counts :
          \/ my_memcpy(d, s, n) \/ my_wmemcpy(d, s, n) \/ my_memmove(d, s, n) \/ my_wmemmove(d, s, n)
          \/ my_memcmp(d, s, n) \/ my_wmemcmp(d, s, n) \/ my_strncmp(d, s, n) \/ my_wcsncmp(d, s, n)
          \/ my_strncpy(d, s, n) \/ my_wcsncpy(d, s, n) \/ my_strncat(d, s, n) \/ my_wcsncat(d, s, n)
    \/ \E d \in Offsets, ch \in Chars, n \in Counts :
          \/ my_memset(d, ch, n) \/ my_wmemset(d, ch, n) \/ my_memchr(d, ch, n) \/ my_wmemchr(d, ch, n)
    \/ \E d, s \in Offsets : \/ my_strcmp(d, s) \/ my_wcscmp(d, s) \/ my_strcpy(d, s) \/ my_wcscpy(d, s)
    \/ \E s \in Offsets, ch \in Chars : my_strchrnul(s, ch) \/ my_wcschr(s, ch)
    \/ \E s \in Offsets : my_strlen(s) \/ my_wcslen(s)
    \/ \E s, e \in Offsets, sign \in {1, -1}, mag \in Magnitudes :
          \/ my_strtol(s, e, sign, mag) \/ my_strtoul(s, e, sign, mag)
          \/ my_strtoll(s, e, sign, mag) \/ my_strtoull(s, e, sign, mag)

Next == (call = NoCall /\ NextCall) \/ Return

Spec == Init /\ [][Next]_vars

-----------------------------------------------------------------------------
\* What a program owes that the functions do not test: that the sizes of its wide
\* characters are words, and that its texts end (or, where n units are read at most,
\* end or are all there).  memcpy, memmove, memset, memcmp, memchr and wmemchr are owed
\* nothing.
Wide == {"wmemcpy", "wmemmove", "wmemset", "wmemcmp", "wcslen", "wcschr", "wcscmp", "wcsncmp", "wcscpy",
         "wcsncpy", "wcsncat"}
Owed(fn, args) ==
    LET u == IF fn \in Wide THEN WCHAR_SIZE ELSE 1
    IN  /\ fn \in {"wmemcpy", "wmemmove", "wmemset", "wmemcmp", "wcsncpy"} => SizeFits(u, args[3])
        /\ fn \in {"strlen", "wcslen", "strchrnul", "wcschr", "strtol", "strtoul", "strtoll", "strtoull"}
              => IsText(u, args[1])
        /\ fn \in {"strcpy", "wcscpy"} => IsText(u, args[2])
        /\ fn \in {"strncat", "wcsncat"} => IsText(u, args[1]) /\ IsText(u, args[2])
        /\ fn \in {"strcmp", "wcscmp", "strncmp", "wcsncmp"} => IsPrefix(u, args[1], args[3])
        /\ fn \in {"strcmp", "wcscmp", "strncmp", "wcsncmp", "strncpy", "wcsncpy"} => IsPrefix(u, args[2], args[3])

\* Offsets and counts may point anywhere: a function that gets what it is owed, or is
\* owed nothing, reads and writes nothing outside the program's memory.  The size that
\* is checked covers the terminators that are written (lines 253, 286, 373 and 408), and
\* texts and counts may go up to the very end; that texts overlap does not matter.
InMemory == Owed(call'.fn, call'.args) => call'.touched \subseteq Cells
StaysInMemory == [][InMemory]_vars

\* strcpy, strncat and their wide forms leave the text they should at the
\* destination, ended, whenever it has room, and otherwise nothing changes: if the
\* texts end, and the source lies apart from what is written.
Arrives(u, d, s, new) ==
    IF Pointer(s) /\ Pointer(d) /\ Buffer(d, u * (Len(new) + 1))
    THEN /\ Units(memory', u, d, Len(new) + 1) = new \o <<Zero(u)>>
         /\ \A x \in Cells \ Span(d, u * (Len(new) + 1)) : memory'[x] = memory[x]
    ELSE UNCHANGED memory
StringArrives ==
    call'.fn \in {"strcpy", "wcscpy", "strncat", "wcsncat"} /\ Owed(call'.fn, call'.args) =>
        LET u == IF call'.fn \in Wide THEN WCHAR_SIZE ELSE 1
            d == call'.args[1]
            s == call'.args[2]
            new == IF call'.fn \in {"strcpy", "wcscpy"} THEN Text(memory, u, s)
                   ELSE Text(memory, u, d)
                          \o Units(memory, u, s, Smaller(Length(memory, u, s), call'.args[3]))
        IN  Span(d, u * (Len(new) + 1)) \cap Span(s, u * (Length(memory, u, s) + 1)) = {}
               => Arrives(u, d, s, new)
StringsArrive == [][StringArrives]_vars

\* memchr and wmemchr find the first occurrence among the units that both the
\* count and the memory hold, also when the count reaches beyond the memory, as long
\* as its size is a word (of more, line 300 leaves wmemchr the rest).
SearchesFind ==
    call.fn \in {"memchr", "wmemchr"} =>
        LET u == IF call.fn = "memchr" THEN 1 ELSE WCHAR_SIZE
            hits == {k \in 0..call.args[3] - 1 :
                        /\ Buffer(call.args[1] + u * k, u)
                        /\ Unit(memory, u, call.args[1] + u * k) = Cut(call.args[2], u)}
        IN  SizeFits(u, call.args[3]) =>
                call.ret = IF hits = {} THEN X_NULL ELSE call.args[1] + u * Min(hits)

\* A program gets from strtol and strtoul what a 32-bit library would give it,
\* saturation and the wrapping of negative unsigned numbers included; strtoul
\* does not for numbers so close to 2^64 that they pass for small negative ones.
NumbersNarrow ==
    call.fn \in {"strtol", "strtoul"} /\ Pointer(call.args[1]) =>
        LET sign == call.args[3]
            mag == call.args[4]
        IN  /\ call.fn = "strtol" => call.ret = HostSigned(sign, mag, Word)
            /\ call.fn = "strtoul" /\ mag \notin Long - Word + 1..Long - 1
                  => call.ret = HostUnsigned(sign, mag, Word)
=============================================================================
