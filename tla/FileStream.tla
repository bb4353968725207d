----------------------------- MODULE FileStream -----------------------------
(***************************************************************************)
(* base::FileStream (stream/file-stream.h and file-stream.cc) over the C   *)
(* library's FILEs.  Two offsets must not be confused: Stream's offset_,   *)
(* where the next WriteData goes, and FileStream's own, called position_   *)
(* here, where the stream believes the FILE stands; it seeks only when the *)
(* two differ.  Moving a stream hands over the FILE and the position, and  *)
(* leaves Stream's offset_ and result_ where they are.                     *)
(*                                                                         *)
(* One thread uses the streams, none of which logs (log_stream_ is null:   *)
(* MemoryStream covers logging).  Contents of a FILE are what a reader     *)
(* would find once the library has flushed it.                             *)
(***************************************************************************)
EXTENDS ByteStrings

CONSTANTS Streams,      \* stream objects, each constructed at most once
          Files,        \* FILEs that fopen may return
          Stdout,       \* a FILE that is open from the start
          Bytes,
          MaxSize,      \* bound: bytes in one write
          MaxOffset,    \* bound: where a write may start
          None

ASSUME FilesDiffer == Stdout \notin Files /\ None \notin Files \cup {Stdout}
ASSUME BoundsAreNumbers == MaxSize \in Nat /\ MaxOffset \in Nat

VARIABLES object,       \* of each stream: "raw", "alive" or "dead"
          offset_,      \* Stream::offset_
          result_,      \* Stream::result_
          file_, position_, should_close_,   \* FileStream's fields
          opened,       \* of each FILE: "no", "open" or "closed"
          fpos,         \* where it stands
          ferror,       \* its error indicator
          content,
          dropped       \* history: FILEs whose closer was assigned over

base == <<offset_, result_>>
own == <<file_, position_, should_close_>>
disk == <<opened, fpos, ferror, content>>
vars == <<object, base, own, disk, dropped>>

AllFiles == Files \cup {Stdout}
Payloads == UNION {[1..n -> Bytes] : n \in 0..MaxSize}

Init == /\ object = [s \in Streams |-> "raw"]
        /\ offset_ = [s \in Streams |-> 0]
        /\ result_ = [s \in Streams |-> "Ok"]
        /\ file_ = [s \in Streams |-> None]
        /\ position_ = [s \in Streams |-> 0]
        /\ should_close_ = [s \in Streams |-> FALSE]
        /\ opened = [f \in AllFiles |-> IF f = Stdout THEN "open" ELSE "no"]
        /\ fpos = [f \in AllFiles |-> 0]
        /\ ferror = [f \in AllFiles |-> FALSE]
        /\ content = [f \in AllFiles |-> <<>>]
        /\ dropped = {}

\* A raw object comes to life with base's and its own fields as given.
Construct(s, f, close) ==
    /\ object[s] = "raw"
    /\ object' = [object EXCEPT ![s] = "alive"]
    /\ file_' = [file_ EXCEPT ![s] = f]
    /\ should_close_' = [should_close_ EXCEPT ![s] = close]
    /\ UNCHANGED <<base, position_, dropped>>

\* FileStream(filename): fopen truncates, or fails and leaves file_ null.
Open(s) ==
    \/ /\ Construct(s, None, FALSE)
       /\ UNCHANGED disk
    \/ \E f \in Files : /\ opened[f] = "no"
                        /\ Construct(s, f, TRUE)
                        /\ opened' = [opened EXCEPT ![f] = "open"]
                        /\ UNCHANGED <<fpos, ferror, content>>

\* FileStream(FILE*), CreateStdout, CreateStderr.
Wrap_Closes(s) == Construct(s, Stdout, TRUE) /\ UNCHANGED disk   \* (mutant)
Wrap(s) == Construct(s, Stdout, FALSE) /\ UNCHANGED disk

\* operator=(FileStream&&): s takes over, then other is emptied (s = other too).
Take_Shares(s, other) ==   \* (mutant) the source keeps its flag and its FILE
    /\ file_' = [file_ EXCEPT ![s] = file_[other]]
    /\ position_' = [position_ EXCEPT ![s] = position_[other], ![other] = 0]
    /\ should_close_' = [should_close_ EXCEPT ![s] = should_close_[other]]

Take_Restarts(s, other) ==   \* (mutant) the position is not handed over
    /\ file_' = [file_ EXCEPT ![s] = file_[other], ![other] = None]
    /\ position_' = [position_ EXCEPT ![s] = 0, ![other] = 0]
    /\ should_close_' = [should_close_ EXCEPT ![s] = should_close_[other], ![other] = FALSE]

Take(s, other) ==
    /\ file_' = [file_ EXCEPT ![s] = file_[other], ![other] = None]
    /\ position_' = [position_ EXCEPT ![s] = position_[other], ![other] = 0]
    /\ should_close_' = [should_close_ EXCEPT ![s] = should_close_[other], ![other] = FALSE]

MoveConstruct(s, other) ==
    /\ object[s] = "raw" /\ object[other] = "alive"
    /\ object' = [object EXCEPT ![s] = "alive"]
    /\ Take(s, other)
    /\ UNCHANGED <<base, disk, dropped>>

MoveAssign(s, other) ==
    /\ object[s] = "alive" /\ object[other] = "alive"
    /\ Take(s, other)
    /\ dropped' = IF should_close_[s] THEN dropped \cup {file_[s]} ELSE dropped
    /\ UNCHANGED <<object, base, disk>>

Destroy(s) ==
    /\ object[s] = "alive"
    /\ object' = [object EXCEPT ![s] = "dead"]
    /\ opened' = IF should_close_[s] THEN [opened EXCEPT ![file_[s]] = "closed"] ELSE opened
    /\ UNCHANGED <<base, own, fpos, ferror, content, dropped>>

-----------------------------------------------------------------------------
\* fwrite at pos of f: all of src, or an error after the first n bytes.
fwrite(f, pos, src, n) ==
    /\ content' = [content EXCEPT ![f] = Overwrite(@, pos, SubSeq(src, 1, n))]
    /\ fpos' = [fpos EXCEPT ![f] = pos + n]
    /\ ferror' = [ferror EXCEPT ![f] = @ \/ n < Len(src)]
    /\ UNCHANGED opened

\* WriteDataImpl for a non-empty src and an open FILE.
Emit(s, at, src) ==
    LET f == file_[s]
        seek == at # position_[s]
    IN  \/ /\ seek    \* fseek fails
           /\ result_' = [result_ EXCEPT ![s] = "Error"]
           /\ UNCHANGED <<position_, disk>>
        \/ \E n \in 0..Len(src) :
              /\ fwrite(f, IF seek THEN at ELSE fpos[f], src, n)
              /\ position_' = [position_ EXCEPT ![s] = IF n = Len(src) THEN at + n ELSE at]
              /\ result_' = [result_ EXCEPT ![s] = IF n = Len(src) THEN "Ok" ELSE "Error"]

\* Stream::WriteDataAt.
Put(s, at, src) ==
    IF result_[s] = "Ok" /\ file_[s] # None /\ src # <<>>
    THEN Emit(s, at, src)
    ELSE /\ result_' = [result_ EXCEPT ![s] = IF file_[s] = None THEN "Error" ELSE @]
         /\ UNCHANGED <<position_, disk>>

WriteDataAt(s, at, src) ==
    /\ object[s] = "alive" /\ at <= MaxOffset
    /\ Put(s, at, src)
    /\ UNCHANGED <<object, offset_, file_, should_close_, dropped>>

\* The offset moves on whether or not the write succeeded.
WriteData(s, src) ==
    /\ object[s] = "alive" /\ offset_[s] <= MaxOffset
    /\ Put(s, offset_[s], src)
    /\ offset_' = [offset_ EXCEPT ![s] = @ + Len(src)]
    /\ UNCHANGED <<object, file_, should_close_, dropped>>

\* Moving data within a file is not implemented and fails, unless there is nothing to move.
MoveData(s, size) ==
    /\ object[s] = "alive"
    /\ result_' = [result_ EXCEPT ![s] = IF size > 0 \/ file_[s] = None THEN "Error" ELSE @]
    /\ UNCHANGED <<object, offset_, own, disk, dropped>>

AddOffset(s, delta) == /\ object[s] = "alive" /\ offset_[s] + delta <= MaxOffset
                       /\ offset_' = [offset_ EXCEPT ![s] = @ + delta]
                       /\ UNCHANGED <<object, result_, own, disk, dropped>>

ClearOffset(s) == /\ object[s] = "alive"
                  /\ offset_' = [offset_ EXCEPT ![s] = 0]
                  /\ UNCHANGED <<object, result_, own, disk, dropped>>

\* The rest of the program writes to standard output too (printf, puts).
Others(src) == fwrite(Stdout, fpos[Stdout], src, Len(src)) /\ fpos'[Stdout] <= MaxOffset
               /\ UNCHANGED <<object, base, own, dropped>>

Next == \/ \E s \in Streams :
              \/ Open(s) \/ Wrap(s) \/ Destroy(s) \/ ClearOffset(s)
              \/ \E other \in Streams : MoveConstruct(s, other) \/ MoveAssign(s, other)
              \/ \E src \in Payloads : \/ \E at \in 0..MaxOffset : WriteDataAt(s, at, src)
                                       \/ WriteData(s, src)
              \/ \E size \in 0..MaxSize : MoveData(s, size)
              \/ \E delta \in 1..MaxOffset : AddOffset(s, delta)
        \/ \E src \in Payloads : Others(src)

Spec == Init /\ [][Next]_vars

-----------------------------------------------------------------------------
Owns(s, f) == object[s] = "alive" /\ should_close_[s] /\ file_[s] = f

\* Whatever is moved where, every FILE a live stream points to is open, an open one
\* the streams opened has exactly one stream that will close it (none, if that stream
\* was assigned over: operator= closes nothing), and a FILE they did not open
\* ("existing files (stdout/sterr, for example)", file-stream.cc:51) is closed by none.
OneCloser ==
    /\ \A s \in Streams : (object[s] = "alive" /\ file_[s] # None) => opened[file_[s]] = "open"
    /\ \A f \in Files : opened[f] = "open" => f \in dropped \/ \E s \in Streams : Owns(s, f)
    /\ \A f \in AllFiles, s, t \in Streams : Owns(s, f) /\ Owns(t, f) => s = t
    /\ \A s \in Streams, f \in {Stdout, None} \cup dropped : ~Owns(s, f)

\* The seek that is saved when the position already fits is safe: a stream that
\* owns its FILE knows where it stands, through every move, unless a write to it
\* failed half-way, which the FILE itself still tells.
PositionKnown ==
    \A s \in Streams, f \in Files : Owns(s, f) => position_[s] = fpos[f] \/ ferror[f]
=============================================================================
