------------------------------ MODULE FlatArray ------------------------------
(***************************************************************************)
(* base::FlatArray (types/flat-array.h): arrays of trivial objects in      *)
(* blocks of malloc, calloc and realloc, each of which may fail, with one  *)
(* spare element per array for every access out of range.  One client      *)
(* creates, copies, resizes and destroys arrays, and writes through a      *)
(* reference that operator[] gave it some calls ago.                       *)
(*                                                                         *)
(* The heap maps the address of each block to its elements, which are two  *)
(* bytes wide, so that memset's bytes and the elements they make differ.   *)
(***************************************************************************)
EXTENDS Integers, Sequences

CONSTANTS Arrays,
          Addresses, NULL,
          Base,             \* the number of values of a byte
          Values,           \* the elements the client writes
          Chars,            \* the arguments ch of the filling constructor
          MaxSize           \* bound: the largest size asked for

ASSUME NullIsNoAddress == NULL \notin Addresses
ASSUME SizesAreNumbers == MaxSize \in Nat
ASSUME ElementsAreNumbers == Base \in Nat \ {0} /\ Values \subseteq Int /\ Chars \subseteq Int

Junk == -1                  \* memory nobody wrote

VARIABLES alive, contents_, size_, end_, heap,
          ref               \* the client's reference: <<>> or <<array, block or NULL for end_, index>>

vars == <<alive, contents_, size_, end_, heap, ref>>

Elements(a) == IF contents_[a] = NULL THEN <<>> ELSE heap[contents_[a]]

Placed(h, p, s) == [q \in DOMAIN h \cup {p} |-> IF q = p THEN s ELSE h[q]]
free(h, p) == [q \in DOMAIN h \ {p} |-> h[q]]

Init == /\ alive = [a \in Arrays |-> FALSE]
        /\ contents_ = [a \in Arrays |-> NULL]
        /\ size_ = [a \in Arrays |-> 0]
        /\ end_ = [a \in Arrays |-> Junk]
        /\ heap = [p \in {} |-> <<>>]
        /\ ref = <<>>

\* The client knows that references into an array die with its block.
Dropped(a) == IF ref # <<>> /\ ref[1] = a THEN <<>> ELSE ref

\* a gets a block with s in it, at an address that h leaves free, or none at all.
malloc(a, h, s) ==
    \/ /\ contents_' = [contents_ EXCEPT ![a] = NULL]
       /\ size_' = [size_ EXCEPT ![a] = 0]
       /\ heap' = h
    \/ \E p \in Addresses \ DOMAIN h :
          /\ contents_' = [contents_ EXCEPT ![a] = p]
          /\ size_' = [size_ EXCEPT ![a] = Len(s)]
          /\ heap' = Placed(h, p, s)

\* The element whose bytes are all ch: calloc's zero, or memset's.
Filled(ch) == (ch % Base) * (Base + 1)

Uninitialised(n) == [i \in 1..n |-> Junk]

Construct(a, s) ==
    /\ ~alive[a] /\ alive' = [alive EXCEPT ![a] = TRUE]
    /\ malloc(a, heap, s)
    /\ end_' = [end_ EXCEPT ![a] = Junk]
    /\ UNCHANGED ref

NewSized(a) == \E n \in 0..MaxSize : Construct(a, Uninitialised(n))
NewFilled(a) == \E n \in 0..MaxSize, ch \in Chars : Construct(a, [i \in 1..n |-> Filled(ch)])
NewCopy(a, b) == alive[b] /\ Construct(a, Elements(b))

\* operator=, which the array itself may be given.
Assign_Leaks(a, b) ==   \* (mutant) without the call of clear
    /\ alive[a] /\ alive[b]
    /\ IF a = b THEN UNCHANGED <<contents_, size_, heap, ref>>
       ELSE malloc(a, heap, Elements(b)) /\ ref' = Dropped(a)
    /\ UNCHANGED <<alive, end_>>

Assign(a, b) ==
    /\ alive[a] /\ alive[b]
    /\ IF a = b THEN UNCHANGED <<contents_, size_, heap, ref>>
       ELSE malloc(a, free(heap, contents_[a]), Elements(b)) /\ ref' = Dropped(a)
    /\ UNCHANGED <<alive, end_>>

clear(a) ==
    /\ contents_' = [contents_ EXCEPT ![a] = NULL]
    /\ size_' = [size_ EXCEPT ![a] = 0]
    /\ heap' = free(heap, contents_[a])
    /\ ref' = Dropped(a)

Clear(a) == alive[a] /\ clear(a) /\ UNCHANGED <<alive, end_>>

Destroy(a) == /\ alive[a] /\ alive' = [alive EXCEPT ![a] = FALSE]
              /\ clear(a)
              /\ end_' = [end_ EXCEPT ![a] = Junk]

Resized(s, n) == [i \in 1..n |-> IF i <= Len(s) THEN s[i] ELSE 0]

\* realloc keeps the block where it is or moves it.  The client, who is told
\* nothing, sees from size() that a resize failed.
Reallocate(a, n) ==
    \E p \in (Addresses \ DOMAIN heap) \cup ({contents_[a]} \ {NULL}) :
        /\ contents_' = [contents_ EXCEPT ![a] = p]
        /\ size_' = [size_ EXCEPT ![a] = n]
        /\ heap' = Placed(free(heap, contents_[a]), p, Resized(Elements(a), n))
        /\ ref' = Dropped(a)

OutOfMemory_Forgets(a, n) ==   \* (mutant) contents_ = realloc(contents_, ...), size_ kept
    /\ contents_' = [contents_ EXCEPT ![a] = NULL]
    /\ ref' = IF size_[a] = n THEN Dropped(a) ELSE ref
    /\ UNCHANGED <<size_, heap>>

OutOfMemory(a, n) ==
    /\ ref' = IF size_[a] = n THEN Dropped(a) ELSE ref
    /\ UNCHANGED <<contents_, size_, heap>>

Resize(a, n) == /\ alive[a]
                /\ IF n = 0 THEN clear(a) ELSE Reallocate(a, n) \/ OutOfMemory(a, n)
                /\ UNCHANGED <<alive, end_>>

\* operator[] and at.
At_OffByOne(a, i) ==   \* (mutant)
    /\ alive[a]
    /\ ref' = <<a, IF i <= size_[a] THEN contents_[a] ELSE NULL, i>>
    /\ UNCHANGED <<alive, contents_, size_, end_, heap>>

At(a, i) == /\ alive[a]
            /\ ref' = <<a, IF i < size_[a] THEN contents_[a] ELSE NULL, i>>
            /\ UNCHANGED <<alive, contents_, size_, end_, heap>>

\* The client assigns to the reference.
Store(v) ==
    /\ ref # <<>>
    /\ IF ref[2] = NULL
       THEN end_' = [end_ EXCEPT ![ref[1]] = v] /\ UNCHANGED heap
       ELSE heap' = [heap EXCEPT ![ref[2]][ref[3] + 1] = v] /\ UNCHANGED end_
    /\ UNCHANGED <<alive, contents_, size_, ref>>

Next == \/ \E a \in Arrays :
              \/ NewSized(a) \/ NewFilled(a)
              \/ \E b \in Arrays : NewCopy(a, b) \/ Assign(a, b)
              \/ Clear(a) \/ Destroy(a)
              \/ \E n \in 0..MaxSize : Resize(a, n) \/ At(a, n)
        \/ \E v \in Values : Store(v)

Spec == Init /\ [][Next]_vars

-----------------------------------------------------------------------------
\* Every block of the heap belongs to exactly one array, whose size_ is its length;
\* arrays without a block are empty.  So nothing leaks, is shared or freed twice.
BlocksOwned ==
    /\ DOMAIN heap = {contents_[a] : a \in Arrays} \ {NULL}
    /\ \A a \in Arrays :
          /\ size_[a] = Len(Elements(a))
          /\ contents_[a] # NULL => /\ alive[a]
                                    /\ \A b \in Arrays \ {a} : contents_[a] # contents_[b]

\* A reference the client may still use denotes an element of its array or the
\* array's spare one, in particular after a resize that found no memory.
ReferenceLives ==
    ref # <<>> =>
        /\ alive[ref[1]]
        /\ ref[2] # NULL => ref[2] = contents_[ref[1]] /\ ref[3] < size_[ref[1]]

\* Arrays are values: what is written to one, and out of range, shows in no other
\* element; a copy, resize or assignment that finds no memory loses nothing else.
Refers == IF ref = <<>> THEN <<>> ELSE <<ref[1], ref[3], ref[2] # NULL>>
Promise == INSTANCE ArrayValues WITH value <- [a \in Arrays |-> Elements(a)], spare <- end_,
                                     held <- Refers, Fills <- {Filled(ch) : ch \in Chars},
                                     Unset <- Junk
ImplementsArrayValues == Promise!Spec
=============================================================================
