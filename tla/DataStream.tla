----------------------------- MODULE DataStream -----------------------------
(***************************************************************************)
(* base::DataStream (stream/data-stream.h): values are written one after   *)
(* another into a buffer of fixed size, and read back from it or from its  *)
(* beginning.  An operation that runs over the end sets errno_, which      *)
(* nothing resets, and the caller goes on.                                 *)
(*                                                                         *)
(* A value is a type with a sequence of elements, each a byte string: the  *)
(* bytes of a text are one element, an empty text has none; a map is its   *)
(* keys, in order, each followed by its value.  What a read leaves behind  *)
(* once errno_ is set is not looked at (Lost).                             *)
(*                                                                         *)
(* A reader may also be given bytes that no DataStream wrote.  Numbers are *)
(* then of any length, and read as the code reads them: the highest bits   *)
(* of one that exceeds a word are cut off, and of one with more bytes than *)
(* any word has nothing is known, for a shift by 32 or more is undefined.  *)
(***************************************************************************)
EXTENDS Naturals, SequencesExt

CONSTANTS Items,        \* the values written
          Foreign,      \* the byte strings that come from elsewhere
          Radix,        \* 128: what a byte of a VarUInt holds
          Word,         \* 2^32: what a VarUInt holds
          WordDigits,   \* 5: the bytes that takes at most
          ElementSize,  \* bytes of a primitive value
          kMaxElementNum,
          MaxItems,     \* bound: values in one stream
          MaxRoom       \* bound: bytes in a buffer

ASSUME SizesAssumption ==
    /\ Radix \in Nat \ {0, 1} /\ ElementSize \in Nat \ {0}
    /\ Word \in Nat \ {0} /\ WordDigits \in Nat
    /\ kMaxElementNum \in Nat /\ MaxRoom \in Nat

\* Half of the values of a byte say that more of a number follow.
ASSUME ForeignAssumption == \A b \in Foreign : b \in Seq(0..2 * Radix - 1)

VARIABLES stage,        \* "new", "writing", "reading" or "foreign" (reading Foreign)
          room,         \* end_ - start_
          bytes,        \* from start_ on, as far as written; what the reader is given
          pos_,         \* of the reader
          errno_,       \* of the stream in use
          lost,         \* the reader got less than was written, or the writer failed
          sent, got,    \* values written (or expected), and what reading each left
          starts        \* where the reading of each began, as tellp told the client

vars == <<stage, room, bytes, pos_, errno_, lost, sent, got, starts>>

Lost == <<>>
Types == {"bool", "char", "primitive", "VarUInt", "string", "vector<char>", "vector",
          "array", "T[]", "char[]", "set", "map"}
Single == {"bool", "char", "primitive"}
Texts == {"string", "vector<char>", "char[]"}    \* their contents are one element

SUCCESS == 0
TRAP_OUT_OF_STREAM == 1
TRAP_OUT_OF_CAPACITY == 2

Init == /\ stage = "new" /\ room = 0 /\ bytes = <<>> /\ pos_ = 0 /\ errno_ = SUCCESS
        /\ lost = FALSE /\ sent = <<>> /\ got = <<>> /\ starts = <<>>

-----------------------------------------------------------------------------
(* Writing: a value is a sequence of chunks, each given to write (or put).  *)

\* What is left of n after k turns of the loop, and the turns until nothing is.
Rest(n, k) == LET rest[j \in Nat] == IF j = 0 THEN n ELSE rest[j - 1] \div Radix
              IN  rest[k]
Digits(n) == CHOOSE d \in 1..n + 1 : Rest(n, d) = 0 /\ (d = 1 \/ Rest(n, d - 1) # 0)
VarUInt(n) == [k \in 1..Digits(n) |->
                  <<(Rest(n, k - 1) % Radix) + (IF k < Digits(n) THEN Radix ELSE 0)>>]

ASSUME WordAssumption == \A n \in 0..Word - 1 : Digits(n) <= WordDigits

\* How many things the count in front of a value says there are.
Count(x) == CASE x.type \in Texts -> Len(FlattenSeq(x.v))
              [] x.type = "map" -> Len(x.v) \div 2
              [] OTHER -> Len(x.v)

Chunks(x) == IF x.type \in Single THEN x.v
             ELSE IF x.type = "VarUInt" THEN VarUInt(x.v[1][1])
             ELSE VarUInt(Count(x)) \o x.v

\* DataStream<size_t> adds up what is written to it.
pack_size_NoCount(x) == Len(FlattenSeq(x.v))   \* (mutant) the count is left out
pack_size(x) == Len(FlattenSeq(Chunks(x)))

\* A chunk that does not fit is left out; those after it are tried all the same.
Put(w, chunk, size) == IF Len(w.bytes) + Len(chunk) <= size
                       THEN [w EXCEPT !.bytes = @ \o chunk]
                       ELSE [w EXCEPT !.errno = TRAP_OUT_OF_STREAM]
Written(start, x, size) ==
    LET written[k \in 0..Len(Chunks(x))] ==
            IF k = 0 THEN start ELSE Put(written[k - 1], Chunks(x)[k], size)
    IN  written[Len(Chunks(x))]

Open == /\ stage = "new"
        /\ room' \in 0..MaxRoom
        /\ stage' = "writing"
        /\ UNCHANGED <<bytes, pos_, errno_, lost, sent, got, starts>>

Write(x) ==
    /\ stage = "writing" /\ Len(sent) < MaxItems
    /\ LET w == Written([bytes |-> bytes, errno |-> errno_], x, room)
       IN  /\ bytes' = w.bytes /\ errno_' = w.errno
           /\ lost' = (w.errno # SUCCESS)
    /\ sent' = Append(sent, x)
    /\ UNCHANGED <<stage, room, pos_, got, starts>>

\* A buffer of pack_size bytes, and the value in it.
pack(x) ==
    /\ stage = "new"
    /\ room' = pack_size(x)
    /\ LET w == Written([bytes |-> <<>>, errno |-> SUCCESS], x, room')
       IN  bytes' = w.bytes /\ errno_' = w.errno
    /\ sent' = <<x>>
    /\ stage' = "writing"
    /\ UNCHANGED <<pos_, lost, got, starts>>

\* Another stream over what was written, or over only the beginning of it.
Reopen == /\ stage = "writing" /\ sent # <<>>
          /\ \E n \in 0..Len(bytes) : /\ bytes' = SubSeq(bytes, 1, n)
                                      /\ room' = n
                                      /\ lost' = (lost \/ n < Len(bytes))
          /\ stage' = "reading" /\ pos_' = 0 /\ errno_' = SUCCESS
          /\ UNCHANGED <<sent, got, starts>>

\* A stream over bytes from elsewhere, of which the client expects one value.
Receive == /\ stage = "new"
           /\ \E b \in Foreign, x \in Items : bytes' = b /\ room' = Len(b) /\ sent' = <<x>>
           /\ stage' = "foreign"
           /\ UNCHANGED <<pos_, errno_, lost, got, starts>>

-----------------------------------------------------------------------------
(* Reading: what a reader leaves in pos_ and errno_, and the value.         *)

\* n elements of size bytes, each read by read (or get); those that do not fit fail.
Elements(at, n, size, errno) ==
    LET fit == CHOOSE k \in 0..n : /\ at + k * size <= room
                                   /\ k = n \/ at + (k + 1) * size > room
    IN  [pos |-> at + fit * size,
         errno |-> IF fit < n THEN TRAP_OUT_OF_STREAM ELSE errno,
         v |-> [k \in 1..fit |-> SubSeq(bytes, at + (k - 1) * size + 1, at + k * size)]]

\* The number in the bytes from at + 1 to end, the last of which holds its highest part.
Joined(at, end) ==
    LET sum[k \in 0..end - at] == IF k = 0 THEN 0
                                  ELSE (bytes[end - k + 1] % Radix) + Radix * sum[k - 1]
    IN  sum[end - at]

\* Where it ends: the first byte after which no more of it follows.
Ends(at) == {k \in at + 1..room : bytes[k] < Radix}
End(at) == IF Ends(at) = {} THEN room ELSE CHOOSE k \in Ends(at) : \A m \in Ends(at) : k <= m

\* The words that reading it may leave: one, unless it comes to undefined shifts.
Words(at) == IF End(at) - at > WordDigits THEN 0..Word - 1 ELSE {Joined(at, End(at)) % Word}

\* What reading a VarUInt may give; it stays 0 when the stream ends before it does.
CountRead_Silent(at) ==          \* (mutant) the end of the stream ends the number
    [pos : {End(at)}, errno : {errno_}, n : Words(at)]

CountRead(at) ==
    IF Ends(at) = {} THEN {[pos |-> room, errno |-> TRAP_OUT_OF_STREAM, n |-> 0]}
    ELSE [pos : {End(at)}, errno : {errno_}, n : Words(at)]

\* Whether a container of the type takes n elements; size is an array's own.
Takes(type, n, size) == IF type \in {"array", "T[]", "char[]"}
                        THEN n = size /\ n < kMaxElementNum
                        ELSE n <= kMaxElementNum

\* Keys with their values, entries of width elements each, put into a set or map one
\* after another: it keeps them in order, and of equal keys the first.
Key(e) == LET sum[k \in 0..Len(e)] == IF k = 0 THEN 0
                                     ELSE e[Len(e) - k + 1] + Radix * Radix * sum[k - 1]
          IN  sum[Len(e)]
KeyAt(v, width, k) == v[(k - 1) * width + 1]
Entries(v, width) == {k \in 1..Len(v) \div width :
                         \A j \in 1..k - 1 : KeyAt(v, width, j) # KeyAt(v, width, k)}
Ascending(v, width) == \A j, k \in 1..Len(v) \div width :
                          j < k => Key(KeyAt(v, width, j)) < Key(KeyAt(v, width, k))
Emplaced_All(r, width) == r   \* (mutant) whatever comes, as it comes
Emplaced(r, width) ==
    LET key(e) == Key(KeyAt(r.v, width, e))
        entries == Entries(r.v, width)
        nth(i) == CHOOSE e \in entries : Cardinality({f \in entries : key(f) < key(e)}) = i - 1
    IN  IF r.errno # SUCCESS THEN r
        ELSE [r EXCEPT !.v = [k \in 1..width * Cardinality(entries) |->
                                 @[(nth((k - 1) \div width + 1) - 1) * width + ((k - 1) % width) + 1]]]

\* The values of each type, as their elements.
ASSUME ItemsAssumption == \A x \in Items :
    /\ x \in [type : Types, v : Seq(Seq(Nat))]
    /\ x.type \in Single \cup {"VarUInt"} => Len(x.v) = 1
    /\ x.type \in {"bool", "char", "VarUInt"} => Len(x.v[1]) = 1
    /\ x.type = "VarUInt" => x.v[1][1] < Word
    /\ Count(x) < Word
    /\ x.type = "bool" => x.v[1][1] \in {0, 1}
    /\ x.type \in Texts => x.v = <<>> \/ (Len(x.v) = 1 /\ x.v[1] # <<>>)
    /\ x.type \in {"primitive", "vector", "array", "T[]", "set", "map"} =>
          \A k \in DOMAIN x.v : Len(x.v[k]) = ElementSize
    /\ x.type = "set" => Ascending(x.v, 1)
    /\ x.type = "map" => Ascending(x.v, 2) /\ Len(x.v) % 2 = 0

\* A byte taken for a bool is one if it is not zero.
Truth(r) == [r EXCEPT !.v = [k \in DOMAIN @ |-> <<IF @[k][1] = 0 THEN 0 ELSE 1>>]]

\* The elements after a count of n.  A string or vector<char> is left alone by a
\* count of zero: old is what it held.
Contents(type, c, old) ==
    CASE type \in {"string", "vector<char>"} /\ c.n = 0 -> [pos |-> c.pos, errno |-> c.errno, v |-> old]
      [] type \in Texts /\ c.n > 0 -> Elements(c.pos, 1, c.n, c.errno)
      [] type = "set" -> Emplaced(Elements(c.pos, c.n, ElementSize, c.errno), 1)
      [] type = "map" -> Emplaced(Elements(c.pos, 2 * c.n, ElementSize, c.errno), 2)
      [] OTHER -> Elements(c.pos, c.n, ElementSize, c.errno)

Unpacked(x, old, c) ==
    CASE x.type = "bool" -> Truth(Elements(pos_, 1, 1, errno_))
      [] x.type = "char" -> Elements(pos_, 1, 1, errno_)
      [] x.type = "primitive" -> Elements(pos_, 1, ElementSize, errno_)
      [] x.type = "VarUInt" -> [pos |-> c.pos, errno |-> c.errno, v |-> <<<<c.n>>>>]
      [] OTHER -> IF Takes(x.type, c.n, Count(x)) THEN Contents(x.type, c, old)
                  ELSE [pos |-> c.pos, errno |-> TRAP_OUT_OF_CAPACITY, v |-> Lost]

\* The next value, into a variable that is new or was used before.
Read ==
    /\ stage \in {"reading", "foreign"} /\ Len(got) < Len(sent)
    /\ starts' = Append(starts, pos_)
    /\ LET x == sent[Len(got) + 1]
       IN  \E old \in {y.v : y \in {y \in Items : y.type = x.type}} \cup {<<>>}, c \in CountRead(pos_) :
             LET r == Unpacked(x, old, c)
             IN  /\ pos_' = r.pos /\ errno_' = r.errno
                 /\ got' = Append(got, IF r.errno = SUCCESS THEN r.v ELSE Lost)
    /\ UNCHANGED <<stage, room, bytes, lost, sent>>

\* The next value is skipped by its size.  skip tests nothing: callers stay inside.
Skip ==
    /\ stage = "reading" /\ Len(got) < Len(sent)
    /\ LET x == sent[Len(got) + 1]
       IN  /\ pos_ + pack_size(x) <= room
           /\ pos_' = pos_ + pack_size(x)
           /\ got' = Append(got, x.v)
    /\ starts' = Append(starts, pos_)
    /\ UNCHANGED <<stage, room, bytes, errno_, lost, sent>>

\* seekp: back to where an earlier value began, with the errno_ there is.
Seek(k) == /\ stage \in {"reading", "foreign"}
           /\ pos_' = starts[k]
           /\ got' = SubSeq(got, 1, k - 1)
           /\ starts' = SubSeq(starts, 1, k - 1)
           /\ UNCHANGED <<stage, room, bytes, errno_, lost, sent>>

Next == \/ Open \/ Reopen \/ Receive \/ Read \/ Skip
        \/ \E k \in DOMAIN starts : Seek(k)
        \/ \E x \in Items : Write(x) \/ pack(x)

Spec == Init /\ [][Next]_vars

-----------------------------------------------------------------------------
\* What went whole into a stream comes out of it as it went in, no matter what was
\* skipped and how often one starts again, if no container has more elements than a
\* reader takes (a limit the writers do not know).  The one exception: an empty
\* string or vector<char> leaves its destination as it was (lines 512 and 719).
WriteReadBack ==
    stage = "reading" /\ ~lost /\ (\A x \in ToSet(sent) : Takes(x.type, Count(x), Count(x))) =>
        /\ errno_ = SUCCESS
        /\ \A i \in DOMAIN got :
              \/ got[i] = sent[i].v
              \/ sent[i].type \in {"string", "vector<char>"} /\ sent[i].v = <<>>

\* When part of what was written is missing, because the buffer was too small for it
\* or the reader was given less, the reader has learnt so by the end, although both
\* sides go on after a failure and may write and read other values where these were.
NoSilentLoss ==
    stage = "reading" /\ lost /\ Len(got) = Len(sent) => errno_ # SUCCESS

\* Of the bytes of elsewhere, too, a reader accepts only a value that a writer could
\* have written in no more of them: within the limits on elements, with the keys of
\* sets and maps in order and none twice, and in those very bytes, if the number at
\* the front is as short as it can be and nothing of it was cut off (of bool, any byte
\* but zero stands for one).  The exception is WriteReadBack's: a count of zero, after
\* which a string or vector<char> is what it was.
AcceptsValue ==
    stage = "foreign" /\ Len(got') > Len(got) /\ errno_' = SUCCESS =>
        LET x == sent[Len(got')]
            y == [x EXCEPT !.v = Last(got')]
            eaten == SubSeq(bytes, pos_ + 1, pos_')
            own == FlattenSeq(Chunks(y))
            width == IF x.type = "map" THEN 2 ELSE 1
        IN  \/ x.type \in {"string", "vector<char>"} /\ pos_' = End(pos_)
            \/ /\ x.type \notin Single \cup {"VarUInt"} => Takes(x.type, Count(y), Count(x))
               /\ x.type \in {"set", "map"} => Ascending(y.v, width)
               /\ Len(own) <= Len(eaten)
               /\ Len(own) = Len(eaten) /\ x.type \notin {"bool", "set", "map"}
                    /\ (x.type \in Single \/ Joined(pos_, End(pos_)) < Word) => own = eaten
AcceptsOnlyValues == [][AcceptsValue]_vars
=============================================================================
