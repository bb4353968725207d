# X-Project: specifications, model checking and proofs

X-Project is the host side of a WebAssembly engine: a base library (locks, caches, streams,
codecs, logging, tracing), the context all threads of the process share (`IntrinsicContext`), and
the libc functions that the host runs on behalf of WebAssembly programs. The engine itself
(`vm/`, `Environment`, `HostModule`, the pointer-cast macros) is not in the repository and is
modelled only as the code here uses it. Paths below are relative to `src/`.

This directory holds TLA+ modules for the parts that have state or non-trivial algorithms, the
configurations with which TLC checks them, and proofs for TLAPS. `PROJECT.json` says which lines
of the sources every definition translates.

    tlc -workers 2 -config MCCodec.cfg MCCodec        # one of the runs listed below
    tlapm IntrinsicContextProofs.tla

## 1. Inventory

| Component | State | Operations | Hard behaviour | Correct when |
|---|---|---|---|---|
| `SpinLock` (`libraries/base/include/threads/spinlock.h`) | one atomic flag | `lock`, `try_lock`, `unlock` | all interleavings of loop turns, attempts and releases | one thread inside; flag never set with nobody inside; lock keeps being granted |
| `IntrinsicContext` (`src/engine/context/intrinsics.cc`) | static spin lock, static `shared_ptr`, per object: version, environment, exports | `GetInstance`, copying and dropping `shared_ptr`s, constructor, destructor | callers use copies without the lock while others replace the shared object; initialisers that throw | a held context is alive, complete, of the version asked for; each is freed exactly once |
| `LRUCache` (`libraries/base/include/types/lru-cache.h`) | list, index, separate item counter, limit | `Put`, `Get`, `Erase`, `Contain`, `Size`, `Clear`, `SetMaxSize` | three structures that must agree, exceptions between their updates, a counter some operations forget | no dangling iterator, limit kept, least recently used goes first |
| `Stream`, `MemoryStream` (`.../stream/stream.h`, `stream.cc`) | offset, result, log stream, owned buffer | `WriteData(At)`, `MoveData`, `WriteMemoryDump`, `Writef`, offsets, log, `ReleaseOutputBuffer`, `Clear`, `WriteToFile` | writes beyond the end, overlapping moves, one stream logging into another, texts longer than the buffer, memory that runs out after a part of the record | the text of the log tells the contents |
| `FileStream` (`.../stream/file-stream.*`) | `FILE*`, position, close flag | open, wrap, move, destroy, write | moves in any order, saved seeks, partial writes, failing seeks | one closer per `FILE`, position never stale |
| `DataStream` (`.../stream/data-stream.h`) | start, position, end, error number | `<<`, `>>` for all types, `pack`, `unpack`, `skip`, `seekp` | going on after a failure; counts before contents; bytes nobody wrote, with counts of more than 32 bits; shifts at the width of the word | what is written is read; losses are noticed; only values are accepted |
| LEB128 (`.../codec/leb128.cc`) | none | writers and readers for 32 and 64 bits | last byte, sign extension, streams that end early | exact round trip, exact refusal |
| Base 64, hexadecimal, integers as bytes (`.../crypto/crypto.cc`, `utils/util.h`) | none | encode, decode | misplaced padding, odd lengths, byte order | round trip, output stays in its room |
| Arguments of host functions (`include/engine/intrinsics.h`, `.../utils/index-sequence.h`, macros of `utils/util.h`) | none | expand an argument list by an index sequence, bind a method | sequences built by halves, macros that count to ten | the method gets its arguments in order |
| Logging (`.../log/log.cc`, `logger.*`) | `sLogLevel`, static `Logger`, log4cplus' level | `logWrite`, `setLogLevel`, `Setloglevel` | two filters; the first message constructs the logger while others wait | filters agree, every call returns |
| Tracing (`.../log/tracer.*`, `trace-marker.cc`) | one static buffer for all threads, marker file | `TraceBegin/End`, `AutoTracer` | races on the buffer, early returns | the trace shows the scopes a thread is in |
| libc intrinsics (`plugins/libc-module.cc`) | the program's linear memory | `my_memcpy` ... `my_strtoull`, registration by API level | sizes at the end of the memory and sizes that wrap around, terminators, 64- to 32-bit numbers | nothing outside the memory, for programs that keep libc's contracts (section 5); the results of a 32-bit libc |
| `FlatArray` (`.../types/flat-array.h`) | block, size, a spare element for every access out of range | constructors, assign, `resize`, `clear`, `operator[]` | allocations that fail, references kept across calls | each block has one owner; arrays are values |

Interactions: `IntrinsicContext` locks with `SpinLock` and calls `LibcModule` to register exports;
`Tracer` logs through `logWrite` between formatting and marking; `my_printf` traces and logs;
streams log into streams; `DataStream` has integers in the style of LEB128 of its own; registered
host functions get their arguments from the engine through the templates of `intrinsics.h`.

## 2. Modules

| Module | Models | Composes |
|---|---|---|
| `SpinLock` | the lock, one step per access to the flag | |
| `ContextService` | abstract: what `GetInstance` promises, in one step per request | |
| `IntrinsicContext` | `GetInstance`, exceptions, ownership, destruction | `INSTANCE SpinLock`, `INSTANCE ContextService` |
| `IntrinsicContextProofs` | theorems and their lemmas, about both | `IntrinsicContext`, `SpinLock` |
| `LRUMap` | abstract: a map in order of use with limited room | |
| `LRUCache`, `MCLRUCache` | list, index, counter and nodes | `INSTANCE LRUMap` |
| `LRUCacheProofs` | theorems and their lemmas, the refinement among them | `LRUCache` |
| `ByteStrings` | contents of buffers and files | |
| `MemoryStream` | `Stream` and `MemoryStream` with logs | `ByteStrings` |
| `FileStream`, `MCFileStream` | `FileStream` over C `FILE`s | `ByteStrings` |
| `FileStreamProofs` | theorems and their lemmas | `FileStream` |
| `DataStream`, `MCDataStream` | the serialiser | |
| `StreamProofs` | theorems and their lemmas, about both | `DataStream`, `MemoryStream` |
| `Leb128` | the codec, words and bytes as sets of bits | |
| `VarInts` | `DataStream`'s integers, bit by bit | `Leb128` |
| `TextCodec` | base 64, hexadecimal, integers as bytes, the packed version | |
| `Arguments` | argument lists of host functions | |
| `Codec`, `MCCodec` | a sender, a cut or foreign stream, a receiver, for twelve codecs | `VarInts`, `TextCodec`, `Arguments` |
| `CodecProofs` | theorems and their lemmas | `Codec` |
| `Logging` | the two filters and the lazily constructed logger (no specification of its own: `Tracing` runs it) | |
| `Tracing` | tracing on top of logging | `Logging` |
| `TracingProofs` | theorems and their lemmas, about both | `Tracing` |
| `LinearMemory` | the libc functions on the program's memory | |
| `LinearMemoryProofs` | theorems and their lemmas | `LinearMemory` |
| `ArrayValues` | abstract: arrays that are values | |
| `FlatArray`, `MCFlatArray` | arrays in blocks of a heap that may be exhausted | `INSTANCE ArrayValues` |
| `FlatArrayProofs` | theorems and their lemmas | `FlatArray` |

How state and actions correspond to the code:

* **SpinLock.** `flags_` is the field; `at[t]` is where a thread stands (`Contenders` are the threads; in
  `IntrinsicContext` the field is `locker`). A turn of `lock`'s loop is `TestAndSet`, and acquire/release
  order makes each access one step.
* **IntrinsicContext.** `pc[t]` is the point a thread has reached (its header lists the lines);
  `instance` is the static `shared_ptr`, `handle[t]` a caller's copy, `use_count` the reference
  counts, `block[t]` the memory block a thread builds or destroys, `exports` what registration has
  done. Allocation and every step of the construction may throw; the exception leaves through the
  `lock_guard`. Contexts are memory blocks, so use after free, double free and leaks are visible.
* **LRUCache.** `items_list_` holds nodes, `item` their contents, `items_indexing_map_` the
  iterators. `PutThrows` is `bad_alloc` at line 62, after the node was linked. `thrown` is a history
  variable. As a map (`LRUMap`), the cache has the items of the list for entries (`Entries`), the limit
  less what the counter counts too much for room (`Room`), and what `Get` returned for its answer (`Out`).
* **MemoryStream.** A cell of a log's buffer is the text of one `Writef` or `WriteChar`, so a dump of
  several lines is there as it is laid out: addresses, groups, blanks, characters, description.
  `Update` writes the text first and then the data, as `WriteDataAt` and `MoveData` do. A description
  longer than the buffer is followed by what lies behind it (`"spilt"`), as the length `vsnprintf`
  returns makes it. When `resize` throws (`NoMemory`), the pieces of the record written so far stay in the
  log and nothing else has happened. `WriteToFile` is const and changes no stream: it is left out.
* **FileStream.** `position_` is `FileStream::offset_`, kept apart from `Stream::offset_`; `opened`,
  `fpos`, `ferror` and `content` are the C library's side. `dropped` is a history variable: `FILE`s whose
  closer `operator=` overwrote, which stay open.
* **DataStream.** A value is written as the chunks the code gives to `write`; one that does not fit
  is left out, and the next is tried. `Receive` gives the reader bytes of unknown origin. A byte of a
  count holds `Radix` values and a word `Word` of them (128 and 2^32 in the code, 4 and 8 in the model, so
  that two bytes hold more than a word, as five do in the code). A count is read as lines 894-906 read
  it: what exceeds a word is cut off (`Joined(...) % Word`), and after more bytes than any word takes
  (`WordDigits`) the code shifts by 32 or more, which is undefined, so the count is any word (`Words`).
  `kMaxElementNum` is 4 instead of 2^20. `VarUInt` and `VarInt` themselves are declared in
  `types/varuint.h`, which is not in the repository, and the header does not compile as it stands
  (`rebaseret_cast` at lines 123, 150, 836, 853, 877 and 932, for `reinterpret_cast`); the model is of what
  it plainly means. `unpack` (378-395) throws the stream away with its `errno_`: its callers cannot learn
  what the model's reader learns.
* **Leb128, VarInts, TextCodec, Arguments.** Pure operators. Words of 32 and 64 bits are exact. A shift
  by the width of the word or more (`data-stream.h:961`) is a choice of what machines do. The loops are
  written as what they leave behind or, where a proof follows them turn by turn (`Taken`,
  `MACRO_REPEAT`, `make_index_sequence`), as recursive functions.
* **Logging, Tracing.** `call[t]` is where a `logWrite` stands; `todo[t]` is the list of steps a
  tracing call still has to make. The static buffer has two halves, so that the `vsnprintf` of one
  thread can be cut in two by another's. A name is its length: `WriteBegin` sends the length
  `snprintf` returned, so a name too long for the buffer is followed by what lies behind it (`Spilt`).
* **LinearMemory.** Each intrinsic is one action; narrow and wide forms share operators that take
  the size of a unit. A unit, a char or a wide char, is its bytes; a number is cut to one as a
  conversion does (`Cut`). `call.touched` is every byte read or written, `call.ret` the answer. Numbers
  in texts are given as sign and magnitude. Sizes are computed in words, as the code computes
  them (`Size`): one that wraps around passes a check that the units do not. No argument is ruled
  out: where a size has wrapped, a text does not end or a copy overlaps, the library goes on beyond the
  memory (`Onward`), answers what it likes (`RunOn`, `Orders`) and leaves what it likes (`Scribbled`).
* **FlatArray.** `heap` maps the address of a block to its elements; `ref` is the reference the client
  kept from an `operator[]`. `malloc`, `calloc` and `realloc` succeed or fail at will, and `realloc`
  moves the block or leaves it. Elements have two bytes, so that `memset` differs from filling.

## 3. Runs

Twelve runs; ten must pass, two show a disagreement between code and comments.

| Run | Instance | Shows |
|---|---|---|
| `spinlock` | 5 threads | `MutualExclusion`, `FlagHasOwner`, `KeepsGranting` |
| `context` | 3 threads, 4 blocks, versions 2, 3 and 7 (below and at `V01070`, and negative as a number of 3 bits); 432,000 states | `TypeOK`, `HolderSafe`, `Ownership`, refinement of `SpinLock` and of `ContextService`, `KeepsServing`, `Reclaimed` |
| `lru` | 3 keys, 2 values, limits 0-3, 4 nodes, failing insertions; 305,000 states up to symmetry | `TypeOK` (no node lost), `IndexLive`, `IndexComplete`, `GrowsWithinLimit`, refinement of `LRUMap` |
| `lru_clear` | 2 keys, limit 1 | **violation** of `KeepsNewest` |
| `memory_stream` | a stream and its log, offsets to 1, writes of 3 bytes in lines of 2; 367,000 states | `LogTellsContents` |
| `file_stream` | 2 streams, 2 files and standard output; 1.2 million states | `OneCloser`, `PositionKnown` |
| `codec` | twelve codecs; words that are one run of ones or zeros; streams at the byte limits with every last byte; texts to 8 characters; calls with 0 to 9 arguments; 252,000 states | `RoundTrip`, `LebExact`, `StaysInRoom` |
| `varint` | the same words | **violation** of `VarIntRoundTrip` |
| `tracing` | 2 threads: one opens scopes, the other sets levels, both call `my_printf`; configured levels known and OFF, the marker file there or not; 705,000 states | `MarksTellScopes`, `FiltersAgree`, `EveryCallReturns` |
| `linear_memory` | 8 bytes of one bit, wide chars of 2 bytes, words of 4 bits; 1.7 million states | `StaysInMemory`, `StringsArrive`, `SearchesFind`, `NumbersNarrow` |
| `data_stream` | up to 3 values of 12 types, buffers of 0-10 bytes, and bytes nobody wrote: counts of up to 3 bytes, alone, before short texts and before entries of a map; 2.8 million states | `WriteReadBack`, `NoSilentLoss`, `AcceptsOnlyValues` |
| `flat_array` | 2 arrays, 3 blocks, sizes 0 to 3, every allocation may fail; 46,000 states up to symmetry | `BlocksOwned`, `ReferenceLives`, refinement of `ArrayValues` |

Why these bounds are enough:

* *context*: with four blocks, the shared context, one under construction and two held by others
  exist at once; a third thread is needed for "replace while another drops and a third copies".
  Version 3 is the API level at which the second group of exports starts, 2 is below; 7 is, in the
  three bits of the model, what 2^31 and more are in the code's 32: `RegisterInstrinsics` takes it for a
  negative number.
* *lru*: four nodes let a full cache of three take one more; limits include 0, lowering and raising.
  The counter is modulo 8, so that a decrement below zero would show as a huge value.
* *codec*: with nine arguments and the thread, the ten placeholders of the macros are used up; the
  algorithms treat bits alike apart from their place, so words with one run of ones or
  zeros meet every boundary of seven bits and both signs; every last byte is tried because that is
  where readers differ.
* *linear_memory*: all 256 contents of the memory, with offsets and counts inside, across and
  beyond its end, sizes that wrap around and texts that do not end. Eight bytes hold two wide texts of
  one char that do not overlap.
* *data_stream*: a two-byte count, an element cut in the middle, and a smaller value that fits
  where a larger one did not, all need at most ten bytes and two or three values.
  Some of the foreign streams hold counts wider than the word, which the code cuts.
* *memory_stream*: seek, gap and overlap need start offsets 0 and 1; three bytes are one full line of a
  dump and one cut short, with blanks; descriptions of 7 and 8 fill the buffer of 8 and overflow it.
* *file_stream*: the seek that is saved needs two writes; moves need two streams. The run stops when
  every stream is destroyed, so it does not check for deadlock; `codec` and `varint` stop once a datum
  is read.
* *tracing*: two threads suffice for a buffer cut in two, for a logger constructed while another
  waits, and for a level set between the two filters. Names of 5 and 9 lie on both sides of what fits
  behind a header of 4 in a buffer of 10.
* *flat_array*: with three blocks for two arrays, `realloc` may move, stay or fail, and a copy may
  find the last block or none. Sizes 0 to 3 shrink, grow and stay.

Named bounds that the code does not have: `MaxOffset`, `MaxSize`, `Sizes`, `Moves`, `Descs`, `Writers`
(streams), `MaxItems`, `MaxRoom`, `Foreign` (`DataStream`), `Codecs`, `Calls` (`Codec`), `Scoping`, `Tuners`,
`MaxDepth`, `MaxFailed` (`Tracing`), `MaxSize`, `Addresses` (`FlatArray`), `Nodes`, `SizeMod` (`LRUCache`; 2^64
in the build), `Offsets`, `Counts`, `Magnitudes` (`LinearMemory`).

Two exceptions are part of the properties because the code has them and nothing contradicts them:
`base64Decode` refuses the empty text, and an empty string or `vector<char>` read by `DataStream`
leaves a used destination as it was. `strtoul` for magnitudes within 2^32 below 2^64 is a third.

**Findings.**
1. `LRUCache::Clear` (`lru-cache.h:101`) and `SetMaxSize` leave `cur_size_` as it is. After `Put`,
   `Clear`, `Put` in a cache of size 1, the second `Put` evicts the item it has just put, for ever
   after. The refinement of `LRUMap` states exactly what is left: a map with less room.
2. `operator>>` of `VarInt` (`data-stream.h:961`) extends the sign with shifts by 34 and 35 of a
   32-bit word when the number took five bytes: undefined, and on machines that shift modulo 32 a
   number with bit 2 set comes back as another (0x80000007 as -1).

## 4. Fairness

* `SpinLock`: a thread in `lock`'s loop keeps running, and an owner releases: every owner in the
  code is a `std::lock_guard`. From this `KeepsGranting` says that the lock is free again and again, and
  that while threads keep waiting for it, it is taken again and again. Nothing is assumed that favours
  one thread, so nothing is claimed of one thread: it may spin for ever while others come and go.
* `IntrinsicContext`: a thread inside `GetInstance` or a destructor is scheduled. No caller is
  forced to call, or to drop its copy. `KeepsServing` is the lock's `KeepsGranting` under this fairness, with
  construction, destruction and exceptions inside the lock.
* `Tracing`, with `Logging` in it: a thread inside a tracing or logging call is scheduled until it
  returns (`WF` on the steps of each thread; a thread that waits for the static's construction has no
  step, so nothing is assumed of it). No thread is forced to call.
* All other runs check safety only and assume no fairness.

## 5. What callers owe

* `MemoryStream`: no chain or cycle of log streams; a released buffer is cleared before it is written;
  a log is emptied before its offset is reset.
* `FlatArray`: `size * sizeof(T)` fits `size_t`; a reference into an array is given up when the array is
  assigned, cleared, destroyed, or resized with success (`size()` tells).
* `TextCodec`: texts to be decoded are ASCII (the table is indexed with a plain `char`).
* `LinearMemory`: what a caller of libc owes. `StaysInMemory` claims nothing beyond it, and the model
  shows that the code leaves the memory without it. `Owed` lists it function by function: texts end inside
  the memory, or within the count; and for `wmemcpy`, `wmemmove`, `wmemset`, `wmemcmp` and `wcsncpy`,
  `count * WCHAR_SIZE` is a 32-bit number (lines 99, 124, 148, 174 and 385 check the wrapped size and then
  use the full count). `wcschr` does not test its pointer, so that its text must be one is all it has.
  `memcpy`, `memmove`, `memset`, `memcmp`, `memchr` and `wmemchr` are owed nothing: `StaysInMemory` holds of them
  for all offsets and counts. `SearchesFind` needs the same of `wmemchr`'s size (line 300); `StringsArrive`
  needs texts that end, the source apart from what is written.
* `DataStream`: of its own streams the reader asks for the types that were written; `skip` goes from
  one value to the next and stays in the buffer;
  elements of containers are primitive (`data-stream.h:63`); sizes are below 2 GiB.
* `SpinLock`: `unlock` is called by the owner (BasicLockable).

## 6. Proofs

`IntrinsicContextProofs`: of the lock alone, for any set of contenders, `LockExcludes` and `LockFlagOwned`; the
two together with the types are inductive (`LockInvariant`). Of the shared context, for any finite set of threads and any sets of blocks and versions (the
assumptions are `VersionsAssumption`, `ThreadsAssumption`, `NoneAssumption`): `TypeCorrect`,
`GetInstanceExcludes`, `HoldersAreSafe`, `OwnershipHolds`, and the two refinements `LockRefined` and
`ServiceRefined`. `HolderSafe` is not inductive: a `Drop` may destroy what another thread holds
unless the count is the number of owners, two threads may replace at once unless the lock
excludes them, and `Copy` may hand out a half-built context unless every stage of the construction
is known. So

    IInv == TypeOK /\ LockPart /\ ThreadPart /\ BlockPart /\ SharedPart /\ HolderSafe /\ CountPart

is shown to hold initially and to be kept, with one lemma per group of actions; `CountFacts` turns
counts of zero and one into statements about owners with the library's theorems on finite sets.
The refinement of `ContextService` maps most steps to stutters; the interesting ones are the
`Replace` and `Check` that serve a request, and the failures.

`FileStreamProofs`: for any sets of streams, files and bytes and any bounds (`FilesDiffer`: standard output
is not a `FILE` that `fopen` returns anew, and null is neither; `BoundsAreNumbers`): `FilesHaveOneCloser` and
`PositionsAreKnown`. `OneCloser` alone is not inductive: that closing a `FILE` leaves nobody pointing to it
needs `ClosePart` (a live stream closes exactly what streams opened), that a newly opened one is at its
beginning needs `FreshPart`, and that a dropped one is not opened again needs that it stays open.

    IInv == TypeOK /\ FreshPart /\ ClosePart /\ OneCloser /\ PositionKnown

Moves have one lemma (`TakeKeeps`) for construction and assignment, self-assignment included; writes
one (`WritingKeeps`) for all that moves a position, a `FILE` or its error indicator.

`FlatArrayProofs`: for any arrays, addresses, values and sizes (`NullIsNoAddress`, `SizesAreNumbers`,
`ElementsAreNumbers`): `BlocksAreOwned`, `ReferencesLive` and `ArrayValuesRefined`. The invariant

    IInv == TypeOK /\ BlockPart /\ ReferenceLives

states ownership as an agreement (`Agree`) between a heap and the blocks and sizes of a set of arrays:
freeing a block leaves agreement about all arrays but one (`FreeAgrees`), a new block restores it
(`PlacedAgrees`), so that each action is the one, the other, or both. For the refinement, `OthersKeepElements`
says that a step which leaves the other arrays' blocks alone changes one value only.

`LRUCacheProofs`: for any keys, values, nodes, limits and width of the counter (`LimitsAssumption`: a limit
is a number of that width; `NoneAssumption`): `TypeCorrect`, `IndexIsLive` and `IndexIsComplete`. What is
true of the nodes and the index depends on which nodes the list holds, not on their order, so

    IInv == ... /\ IsList(items_list_) /\ Agree(ToSet(items_list_), items_indexing_map_, item, ~thrown)

splits into facts about sets (`KeepAgrees`, `DropAgrees`) and facts about lists (`Linked`,
`UnlinkedIsList`, `FrontIsList`), and each operation is a combination of the two; `Put` over the limit is
`KeepAgrees` followed by `DropAgrees`. `NeverGrowsBeyond` and `LRUMapRefined` need the counter as well:

    CountInv == ~thrown => Len(items_list_) <= cur_size_ /\ cur_size_ + 1 < SizeMod

It holds only if no limit is the largest number of its width (`LimitsBelow`, a hypothesis of these two
theorems): with a limit of `SIZE_MAX` the counter would wrap before it reached the limit. The refinement
rests on two facts about lists of items: what `Put` and `Get` move to the front is the entry of its key
(`InsertedEntries`), and what is left without it are the entries of other keys, in order (`OthersAre`).

`TracingProofs`: for any finite or infinite set of threads, any names, levels and buffer
(`LevelsAssumption`: levels are those of log4cplus; `LengthsAssumption`: lengths are numbers). Of the logging
below, `LogInvariant` and `FiltersAlwaysAgree`, with

    LogInv == LogPart /\ FiltersAgree

where `LogPart` says that one thread at most constructs the static logger and what it has set so far. Of
the tracing, `TraceInvariant` and `MarksAlwaysTell`. That the trace tells the scopes of a thread is not
inductive, for a call is cut at every step, and the buffer belongs to everybody. `TraceInv` says of
each thread that the steps it has yet to make are in their order (`Ordered`) and that it has formatted
what it is about to mark (`Prepared`), and, if the marker file is open, that its begin and end records
balance against its scopes, its failed calls and the steps to come (`Balanced`, `Opening`), and tell the
scopes unless a race is on record (`Told`). One lemma per action carries it over a step; `OwnStays` says
what a step of one thread leaves alone of another's.

`LinearMemoryProofs`: for any size of memory, width of wide chars and of words (`SizesAssumption`;
`WidthsAssumption`: a long is at least twice a word) and offsets and counts of a word's width
(`ArgumentsAssumption`): `AlwaysInMemory`, `AlwaysFinds`, `AlwaysNarrows` and `StringsAlwaysArrive`. The properties
speak of the last call alone, so the induction is that of the functions: `CallAnswers` has one lemma for each
shape (`CopyAnswers`, `AppendTextAnswers`, `SeekAnswers`...) that the bytes it touches are in the memory if it
got what it is owed. A size that is owed to be a word is the one that was checked (`SizesFit`); where a text
does not end, something owed is missing (`RunOnAnswers`, `StoreOnAnswers`). `AlwaysFinds` has the hypothesis that the memory is
smaller than what a word counts: `libc-module.cc:188` keeps what is left of the memory in 32 bits, so
in one of 2^32 bytes a search from its beginning would look at nothing. `StringsAlwaysArrive` compares the
memory before and after a copy unit by unit: what is laid out in units is read back unit by unit
(`Placed`, `WrittenIsThere`), a text ends at its first unit of zeros, before the copy and after it, and what
`strncpy` pads it with are such units (`CopyTextArrives`, `AppendTextArrives`).

`StreamProofs`, of `DataStream`: for any values, radix, sizes of elements and limits (`SizesAssumption`, `ItemsAssumption`:
elements have the size of their type; `ForeignAssumption`: bytes are below twice the radix): `StreamKept`,
`LossIsNoticed`, `WhatWasWrittenIsRead` and `OnlyValuesAreAccepted`. That losses are
noticed is not inductive: after a loss, later and smaller values may stand where the lost one should,
and the reader must not take them for it. The proof compares the buffer with the stream an endless
buffer would hold (`Ideal`). Until a chunk is missing, the one begins the other (`Begins`); a chunk that is
missing leaves a buffer too short for it, and what stands there later is no longer than what was left
(`Damaged`). A reader is `OnCourse` as long as its position is the end of as many values of that stream as it
got, and the buffer holds them;

    StreamInv == \* stage by stage: NewPart, WriterPart (whole or damaged), ReaderPart (on course, or an error)

is inductive. Below it are the codecs: a count is read back from its digits, whatever follows
(`JoinedNumber`, `CountReadWhole`), and refused if it is cut (`CountReadShort`); elements of a container are
the even pieces of its bytes; sets and maps are in order already, so inserting their elements in
order of their keys leaves them as they are.

For `AcceptsOnlyValues` little of the state matters: `ForeignPart` says that the reader of foreign bytes is
before its one value or behind it. The rest are converses of the lemmas about codecs. Bytes that are
accepted as a count are no fewer than its digits, and if as many, they are the digits (`JoinedRests`,
`DigitsWithin`, `CountAccepted`); what is cut off, or comes out of undefined shifts, is a word, whose digits are
no more than what was read (`CutOff`). What is accepted as elements is some, of that number (`ElementsAccepted`). Sets
and maps are put in order whatever the order of arrival: keys that differ have ranks that differ
(`KeysDiffer`), an element goes behind the smaller ones (`RankTaken`, `RankGrows`), and so what comes out ascends
(`EmplacedAscends`). What was read is thus a value within the limits, and writing it takes no more bytes
than were read (`CountedAccepted`, `UnpackedAccepted`).

Of `MemoryStream`: for any streams, bytes and descriptions, and lines of whole groups (`LinesAssumption`):
`MemoryKept` and `LogsTell`, from

    MemoryInv == BufferPart /\ LogPart

`LogTellsContents` needs that a log has no log itself, for then the text of a write is in place before the data, and nothing else is. What remains is
that a dump can be read. `Picked` and `CellsConcat` select the cells of one kind from a text that is composed,
`OctetsOfGroups` puts the octets of a line together again from its groups and blanks, `LineShaped` and
`LineTold` say what one line tells, `TellsUpTo` what the lines up to one tell, by induction on lines, and
`DumpLegible` what the whole dump does; `WrittenFound` finds in it what was written.

`CodecProofs`: for all words of 32 and 64 bits, byte strings, texts, foreign streams and whatever follows
a number (`DataAssumption` says what these are, and that a call has no more arguments than the macros
count): `AlwaysRoundTrip`, `AlwaysExact` and `AlwaysInRoom`, for all twelve codecs. The state machine is simple: the
invariant `CodecInv` says where the stream came from and that the reader's answer is what it makes of it.
The rest is about the codecs, one after the other:

* A number of `w` bits is held by the first bytes of a stream (`Holds`, `Value`), a notion in which no shift
  occurs. The readers are exact with respect to it (`UnsignedExact`, `SignedExact`), the writers end in time and
  write a stream that holds the word (`LengthEnough`, `GroupsEnough`, `NumberWritten`), and what follows does not
  matter (`FollowedHolds`). `VarUInt` and `VarInt` are compared with LEB128 (`VarUIntRead`, `VarIntRead`, the latter up
  to four bytes, which is where the code stops being right).
* Of base 64, `Sextets` says what each digit holds, `Parts` that the parts of a byte add up, `DigitPlaces` which two
  digits a byte is in, `TakenRuns` what a turn of the loop does, `TakenBounded` that there are never more digits
  than places without padding, from which `RoomEnough` follows for every text.
* The index sequences built by halves count on from zero (`IndexesCount`), and a method of up to nine
  arguments receives them in order (`CallReceived`).

What a recursive function yields is proved by naming the closed form, showing that it satisfies the
recursion, and induction over the set of the arguments where the two agree (`Induction`, from the library's
theorem on well-founded sets).

Only model-checked:

* All liveness: `KeepsGranting`, `KeepsServing`, `Reclaimed`, `EveryCallReturns` (TLAPS has no fairness rules here).
* The two properties that are violated, of course.

## 7. Not modelled

* Wording and numerals of log records, `printf` formatting (`my_printf` beyond its tracing), log4cplus.
* `Context`, `EngineInstance`: factories without state over an engine that is not here. Plugins:
  `plugin_intance.h` declares functions defined outside the repository, and the two sources under
  `plugins/` that use it only pass calls on. Options, features, limits: constants and flags without
  operations. Command line, tests, CI: placeholders.
* `OutputBuffer::WriteToFile`, a const function: what it says of a file is its own few lines, and the
  result of its `fclose` is ignored.
* The results of registered host functions and the accessors of `IntrinsicContext`; the charge for gas
  and `abortStackOverflow` in `libc-module.cc`.
* `DataStream`: `seekp` and `skip` to places where no value begins, and beyond the end, which the code
  does not test; containers of containers (the source's own FIXME).
* The builds with `LOG_TRACER`, and the build of the tracer with `PLUGINS_SANDBOX`.

## 8. Plan

Done, in the order of importance: the shared context with its lock (models, refinements, proofs);
cache (model, refinement, proofs); streams; codecs (models, proofs); logging and tracing (models, proofs);
linear memory (model, proofs, those of `StringsArrive` last); serialiser, with streams of unknown origin;
arrays (model, refinement, proofs); formatted lengths; arguments; proofs about file streams, about the
serialiser and about memory streams.

Every invariant and every action property that a passing run checks is now a theorem. Left is what
the prover cannot do (liveness), and the parts of section 7.
