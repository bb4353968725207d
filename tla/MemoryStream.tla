---------------------------- MODULE MemoryStream ----------------------------
(***************************************************************************)
(* base::MemoryStream and its base class base::Stream (stream/stream.h and *)
(* stream.cc): a stream keeps the offset of its next write, writes into a  *)
(* buffer it owns (and may give away), and copies what it writes, as text, *)
(* to a log stream, here another MemoryStream.  Its WriteDataImpl and      *)
(* MoveDataImpl return nothing but Ok, so result_ stays Ok; what they may  *)
(* do is throw, when resize finds no memory.  One thread uses the streams. *)
(*                                                                         *)
(* A cell of the log's buffer is the text of one Writef or WriteChar,      *)
(* whatever its length: an address, an octet, the blank instead of one, a  *)
(* space, a character, the description, a newline, or a moving note.       *)
(***************************************************************************)
EXTENDS ByteStrings, SequencesExt

CONSTANTS Streams,
          Writers,      \* bound: the streams written by the client, not just as a log
          Sizes, Moves, \* bound: bytes in one write, and in one move
          Printable,    \* the bytes isprint accepts
          DUMP_OCTETS_PER_LINE, DUMP_OCTETS_PER_GROUP,
          STREAM_LOGGER_BUFFER_SIZE,
          Descs,        \* the lengths of descriptions, with the "  ; " before them
          MaxOffset,    \* bound: where a write may start
          None

ASSUME NumbersAssumption ==
    /\ Sizes \subseteq Nat /\ Moves \subseteq Nat /\ Descs \subseteq Nat /\ MaxOffset \in Nat
    /\ STREAM_LOGGER_BUFFER_SIZE \in Nat \ {0}

\* A line has a number of groups.
ASSUME LinesAssumption ==
    /\ DUMP_OCTETS_PER_LINE \in Nat \ {0} /\ DUMP_OCTETS_PER_GROUP \in Nat \ {0}
    /\ DUMP_OCTETS_PER_LINE % DUMP_OCTETS_PER_GROUP = 0

ASSUME NoneAssumption == None \notin Streams /\ None \notin Descs

VARIABLES offset_,      \* of each stream
          log_stream_,  \* where it logs, None if nowhere
          buf_          \* the contents of its OutputBuffer, None once released

memoryVars == <<offset_, log_stream_, buf_>>

\* Bytes in ascending order, so that none may take another's place unnoticed.
Payloads == {[i \in 1..n |-> i] : n \in Sizes}

MemoryInit == /\ offset_ = [s \in Streams |-> 0]
              /\ log_stream_ = [s \in Streams |-> None]
              /\ buf_ = [s \in Streams |-> <<>>]

\* Writef sends the length vsnprintf wanted: a text that was cut to fit the buffer
\* is followed by what lies behind the buffer.
Formatted(length) ==
    IF length < STREAM_LOGGER_BUFFER_SIZE THEN <<<<"desc", length, length>>>>
    ELSE <<<<"desc", length, STREAM_LOGGER_BUFFER_SIZE - 1>>, <<"spilt">>>>

\* The line of a memory dump that begins with octet first + 1.
Line(at, src, first, print_chars, desc) ==
    LET octet(i) == IF first + i <= Len(src) THEN <<"octet", src[first + i]>> ELSE <<"blank">>
        group(g) == [i \in 1..DUMP_OCTETS_PER_GROUP |-> octet((g - 1) * DUMP_OCTETS_PER_GROUP + i)]
                        \o <<<<"space">>>>
        left == IF first + DUMP_OCTETS_PER_LINE < Len(src) THEN DUMP_OCTETS_PER_LINE
                ELSE Len(src) - first
        char(i) == <<"char", IF src[first + i] \in Printable THEN src[first + i] ELSE ".">>
    IN  <<<<"address", at + first>>>>
            \o FlattenSeq([g \in 1..DUMP_OCTETS_PER_LINE \div DUMP_OCTETS_PER_GROUP |-> group(g)])
            \o (IF print_chars THEN <<<<"space">>>> \o [i \in 1..left |-> char(i)] ELSE <<>>)
            \o (IF first + left = Len(src) /\ desc # None THEN Formatted(desc) ELSE <<>>)
            \o <<<<"newline">>>>

Dump(at, src, print_chars, desc) ==
    FlattenSeq([k \in 1..(Len(src) + DUMP_OCTETS_PER_LINE - 1) \div DUMP_OCTETS_PER_LINE |->
                   Line(at, src, (k - 1) * DUMP_OCTETS_PER_LINE, print_chars, desc)])

MoveNote(dst, src, size) == <<<<"move", dst, src, size>>>>

\* s logs record, goes on by step itself and its contents become own.
Update(s, record, step, own) ==
    LET text(x) == IF x = log_stream_[s] THEN record ELSE <<>>
    IN  /\ offset_' = [x \in Streams |-> offset_[x] + Len(text(x)) + (IF x = s THEN step ELSE 0)]
        /\ buf_' = [x \in Streams |-> IF x = s THEN own
                                      ELSE Overwrite(buf_[x], offset_[x], text(x))]
        /\ UNCHANGED log_stream_

\* resize throws, for a piece of s's record or, after all of it, for s's own new
\* contents: the pieces before stay in the log, and nothing else has happened.
\* (Without a log nothing has happened at all.)
NoMemory(s, record, own) ==
    LET log == log_stream_[s] IN
    /\ log # None
    /\ \E n \in 0..Len(record) :
          /\ IF n = Len(record) THEN Len(own) > Len(buf_[s])
                               ELSE offset_[log] + n >= Len(buf_[log])
          /\ Update(s, SubSeq(record, 1, n), 0, buf_[s])

\* The caller's side: a stream whose buffer was released is not written again
\* before it is cleared; nothing starts beyond the bound.
Ready(s) == buf_[s] # None /\ offset_[s] <= MaxOffset
CanWrite(s, at) == /\ buf_[s] # None /\ at <= MaxOffset
                   /\ log_stream_[s] # None => Ready(log_stream_[s])

WriteDataAt(s, at, src, print_chars, desc) ==
    LET record == Dump(at, src, print_chars, desc)
        own == Overwrite(buf_[s], at, src)
    IN  CanWrite(s, at) /\ (Update(s, record, 0, own) \/ NoMemory(s, record, own))

WriteData(s, src, print_chars, desc) ==
    LET record == Dump(offset_[s], src, print_chars, desc)
        own == Overwrite(buf_[s], offset_[s], src)
    IN  CanWrite(s, offset_[s]) /\ (Update(s, record, Len(src), own) \/ NoMemory(s, record, own))

MoveData(s, dst, src, size) ==
    LET record == MoveNote(dst, src, size)
        own == Moved(buf_[s], dst, src, size)
    IN  /\ CanWrite(s, dst) /\ src <= MaxOffset
        /\ Update(s, record, 0, own) \/ NoMemory(s, record, own)

AddOffset(s, delta) == /\ offset_[s] + delta <= MaxOffset
                       /\ offset_' = [offset_ EXCEPT ![s] = @ + delta]
                       /\ UNCHANGED <<log_stream_, buf_>>

ClearOffset(s) == /\ offset_' = [offset_ EXCEPT ![s] = 0]
                  /\ UNCHANGED <<log_stream_, buf_>>

\* Callers set up no chain of logs, so that logging ends.
set_log_stream(s, log) ==
    /\ s # log /\ log_stream_[log] = None
    /\ \A x \in Streams : log_stream_[x] # s
    /\ log_stream_' = [log_stream_ EXCEPT ![s] = log]
    /\ UNCHANGED <<offset_, buf_>>

ReleaseOutputBuffer(s) ==
    /\ \A x \in Streams : log_stream_[x] # s
    /\ buf_' = [buf_ EXCEPT ![s] = None]
    /\ UNCHANGED <<offset_, log_stream_>>

\* Clear empties the buffer or makes a new one; the offset stays where it is.
Clear(s) == /\ buf_' = [buf_ EXCEPT ![s] = <<>>]
            /\ UNCHANGED <<offset_, log_stream_>>

\* A new stream in the place of s, on a buffer of its own or one it is handed.
Construct(s) ==
    /\ \A x \in Streams : log_stream_[x] # s
    /\ \E bytes \in Payloads \cup {<<>>} : buf_' = [buf_ EXCEPT ![s] = bytes]
    /\ offset_' = [offset_ EXCEPT ![s] = 0]
    /\ log_stream_' = [log_stream_ EXCEPT ![s] = None]

\* Bound: a log that starts again is cleared first.
Change(s) ==
    \/ /\ s \in Writers
       /\ \/ \E src \in Payloads, print_chars \in BOOLEAN, desc \in Descs \cup {None} :
                \/ \E at \in 0..MaxOffset : WriteDataAt(s, at, src, print_chars, desc)
                \/ WriteData(s, src, print_chars, desc)
          \/ \E dst, src \in 0..MaxOffset, size \in Moves : MoveData(s, dst, src, size)
    \/ \E delta \in 1..MaxOffset : AddOffset(s, delta)
          \/ \E log \in Streams : set_log_stream(s, log)
          \/ Construct(s)
    \/ (s \in Writers \/ buf_[s] = <<>>) /\ ClearOffset(s)
    \/ ReleaseOutputBuffer(s) \/ Clear(s)

MemoryNext == \E s \in Streams : Change(s)

MemorySpec == MemoryInit /\ [][MemoryNext]_memoryVars

-----------------------------------------------------------------------------
Cells(text, kind) ==
    FlattenSeq([i \in 1..Len(text) |-> IF text[i][1] = kind THEN <<text[i]>> ELSE <<>>])
Octets(text) == [i \in DOMAIN Cells(text, "octet") |-> Cells(text, "octet")[i][2]]

\* What a client finds at an offset: beyond its end a buffer would read as zeros.
Byte(bytes, i) == IF i < Len(bytes) THEN bytes[i + 1] ELSE 0

\* Byte by byte, as in a memory without end that never had to grow: after is what
\* the text of a record says has become of before.
Tells(text, before, after) ==
    LET moved == text[1][1] = "move"
        to == text[1][2]
        size == IF moved THEN text[1][4] ELSE Len(Octets(text))
        put(i) == IF moved THEN Byte(before, text[1][3] + i) ELSE Octets(text)[i + 1]
    IN  /\ Len(after) >= Len(before) /\ Len(after) >= to + size
        /\ \A i \in 0..Len(after) - 1 :
              Byte(after, i) = IF i \in to..to + size - 1 THEN put(i - to) ELSE Byte(before, i)

\* A dump reads like xxd's: each line gives the address of its first octet, the
\* characters, if any, are those of the octets, and a description, told whole if
\* Writef's buffer has room for it, stands at the end of the last line only.
Legible(text) ==
    /\ \A i \in DOMAIN text :
          /\ text[i][1] = "address" => text[i][2] = text[1][2] + Len(Octets(SubSeq(text, 1, i - 1)))
          /\ text[i][1] = "desc" => /\ \/ text[i][3] = text[i][2]
                                       \/ text[i][2] >= STREAM_LOGGER_BUFFER_SIZE
                                    /\ Cells(SubSeq(text, i, Len(text)), "octet") = <<>>
          /\ text[i][1] = "newline" => i = Len(text) \/ text[i + 1][1] = "address"
    /\ LET chars == Cells(text, "char") IN
       chars # <<>> => /\ Len(chars) = Len(Octets(text))
                       /\ \A i \in DOMAIN chars :
                             Octets(text)[i] \in Printable => chars[i][2] = Octets(text)[i]

\* Emptying, releasing and constructing are the only changes to a buffer that leave no
\* record; every other one appears in the log, at the log's offset, as a text from
\* which the new contents can be told ("log all writes to this stream", stream.h:137),
\* whether the bytes overlap, come from beyond the end or leave a gap.
LogTellsContents ==
    [][\A s \in Streams : LET log == log_stream_[s] IN
         (log # None /\ log_stream_'[s] = log /\ buf_[s] # None
             /\ buf_'[s] \notin {buf_[s], <<>>, None}) =>
            LET text == SubSeq(buf_'[log], offset_[log] + 1, offset_'[log])
            IN  text # <<>> /\ Legible(text) /\ Tells(text, buf_[s], buf_'[s])]_memoryVars
=============================================================================
