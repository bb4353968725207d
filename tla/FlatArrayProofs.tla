--------------------------- MODULE FlatArrayProofs ---------------------------
(***************************************************************************)
(* FlatArray for any arrays, addresses and sizes: blocks have one owner    *)
(* each, references that are still good point into them, and the arrays    *)
(* are the values that ArrayValues promises.                               *)
(***************************************************************************)
EXTENDS FlatArray, TLAPS

MaybeBlock == Addresses \cup {NULL}

IsHeap(h) == /\ DOMAIN h \subseteq Addresses
             /\ \A p \in DOMAIN h : h[p] \in Seq(Int)

TypeOK ==
    /\ alive \in [Arrays -> BOOLEAN]
    /\ contents_ \in [Arrays -> MaybeBlock]
    /\ size_ \in [Arrays -> Nat]
    /\ end_ \in [Arrays -> Int]
    /\ IsHeap(heap)
    /\ ref # <<>> => ref \in Arrays \X MaybeBlock \X Nat

\* Of the arrays in S, heap h and the blocks and sizes c and n tell the same.
Agree(S, h, c, n) ==
    /\ \A a \in S : IF c[a] = NULL THEN n[a] = 0 ELSE c[a] \in DOMAIN h /\ n[a] = Len(h[c[a]])
    /\ \A p \in DOMAIN h : \E a \in S : c[a] = p
    /\ \A a, b \in S : c[a] = c[b] /\ c[a] # NULL => a = b

BlockPart ==
    /\ Agree(Arrays, heap, contents_, size_)
    /\ \A a \in Arrays : contents_[a] # NULL => alive[a]

IInv == TypeOK /\ BlockPart /\ ReferenceLives

\* The empty sequence has no elements.
LEMMA NoLength == Len(<<>>) = 0
  OBVIOUS

\* The part of the invariant about blocks says what BlocksOwned does.
LEMMA BlockPartImplies == IInv => BlocksOwned
  <1> SUFFICES ASSUME IInv PROVE BlocksOwned
    OBVIOUS
  <1> USE NullIsNoAddress DEF IInv, TypeOK, IsHeap, BlockPart, Agree, MaybeBlock
  <1>1. DOMAIN heap = {contents_[a] : a \in Arrays} \ {NULL}
    <2>1. ASSUME NEW p \in DOMAIN heap PROVE p \in {contents_[a] : a \in Arrays} \ {NULL}
      OBVIOUS
    <2>2. ASSUME NEW a \in Arrays, contents_[a] # NULL PROVE contents_[a] \in DOMAIN heap
      BY <2>2
    <2>3. QED
      BY ONLY <2>1, <2>2, Zenon
  <1>2. \A a \in Arrays : size_[a] = Len(Elements(a))
    BY NoLength DEF Elements
  <1>3. QED
    BY <1>1, <1>2 DEF BlocksOwned

\* No array exists at first, so no block does.
LEMMA InitIInv == Init => IInv
  BY DEF Init, IInv, TypeOK, IsHeap, BlockPart, Agree, ReferenceLives, MaybeBlock, Junk

\* Giving up a's block leaves the others' blocks, and them only.
LEMMA FreeAgrees ==
  ASSUME TypeOK, BlockPart, NEW a \in Arrays
  PROVE  /\ Agree(Arrays \ {a}, free(heap, contents_[a]), contents_, size_)
         /\ IsHeap(free(heap, contents_[a]))
         /\ contents_[a] \notin DOMAIN free(heap, contents_[a])
  <1> DEFINE h == free(heap, contents_[a])
  <1>1. DOMAIN h = DOMAIN heap \ {contents_[a]} /\ \A p \in DOMAIN h : h[p] = heap[p]
    BY DEF free
  <1> HIDE DEF h
  <1>2. IsHeap(h) /\ contents_[a] \notin DOMAIN h
    BY <1>1 DEF TypeOK, IsHeap
  <1>3. Agree(Arrays \ {a}, h, contents_, size_)
    BY <1>1 DEF TypeOK, BlockPart, Agree
  <1>4. QED
    BY <1>2, <1>3 DEF h

\* A block for a, in a heap that holds the others' blocks.
LEMMA PlacedAgrees ==
  ASSUME NEW c \in [Arrays -> MaybeBlock], NEW n \in [Arrays -> Nat], NEW a \in Arrays,
         NEW h, NEW p \in Addresses, p \notin DOMAIN h, NEW s \in Seq(Int), IsHeap(h),
         Agree(Arrays \ {a}, h, c, n)
  PROVE  /\ Agree(Arrays, Placed(h, p, s), [c EXCEPT ![a] = p], [n EXCEPT ![a] = Len(s)])
         /\ IsHeap(Placed(h, p, s))
  <1> DEFINE g == Placed(h, p, s)
             d == [c EXCEPT ![a] = p]
             m == [n EXCEPT ![a] = Len(s)]
  <1>1. /\ DOMAIN g = DOMAIN h \cup {p} /\ g[p] = s
        /\ \A q \in DOMAIN h : g[q] = h[q]
    BY DEF Placed
  <1>2. d[a] = p /\ m[a] = Len(s) /\ \A b \in Arrays \ {a} : d[b] = c[b] /\ m[b] = n[b]
    OBVIOUS
  <1> HIDE DEF g, d, m
  <1>3. IsHeap(g)
    BY <1>1 DEF IsHeap
  <1>4. \A b \in Arrays : IF d[b] = NULL THEN m[b] = 0 ELSE d[b] \in DOMAIN g /\ m[b] = Len(g[d[b]])
    <2>1. TAKE b \in Arrays
    <2>2. CASE b = a
      BY <1>1, <1>2, <2>2, NullIsNoAddress
    <2>3. CASE b # a
      BY <1>1, <1>2, <2>3 DEF Agree
    <2>4. QED
      BY <2>2, <2>3
  <1>5. \A q \in DOMAIN g : \E b \in Arrays : d[b] = q
    BY <1>1, <1>2 DEF Agree
  <1>6. \A x, y \in Arrays : d[x] = d[y] /\ d[x] # NULL => x = y
    BY <1>1, <1>2 DEF Agree
  <1>7. Agree(Arrays, g, d, m)
    BY <1>4, <1>5, <1>6 DEF Agree
  <1>8. QED
    BY <1>3, <1>7 DEF g, d, m

\* What malloc leaves: a with the block or without, the others as they were.
Others(a) == \A b \in Arrays \ {a} : contents_'[b] = contents_[b] /\ size_'[b] = size_[b]

\* malloc, with or without success, leaves heap, contents_ and size_ in agreement.
LEMMA MallocKeeps ==
  ASSUME TypeOK, NEW a \in Arrays, NEW h, NEW s \in Seq(Int), IsHeap(h),
         Agree(Arrays \ {a}, h, contents_, size_), malloc(a, h, s)
  PROVE  /\ Agree(Arrays, heap', contents_', size_') /\ IsHeap(heap')
         /\ contents_' \in [Arrays -> MaybeBlock] /\ size_' \in [Arrays -> Nat]
         /\ Others(a)
  <1>1. CASE /\ contents_' = [contents_ EXCEPT ![a] = NULL]
             /\ size_' = [size_ EXCEPT ![a] = 0]
             /\ heap' = h
    BY <1>1 DEF TypeOK, MaybeBlock, Agree, Others
  <1>2. ASSUME NEW p \in Addresses \ DOMAIN h,
               contents_' = [contents_ EXCEPT ![a] = p],
               size_' = [size_ EXCEPT ![a] = Len(s)],
               heap' = Placed(h, p, s)
        PROVE  /\ Agree(Arrays, heap', contents_', size_') /\ IsHeap(heap')
               /\ contents_' \in [Arrays -> MaybeBlock] /\ size_' \in [Arrays -> Nat]
               /\ Others(a)
    <2>1. contents_ \in [Arrays -> MaybeBlock] /\ size_ \in [Arrays -> Nat]
      BY DEF TypeOK
    <2>2. Agree(Arrays, heap', contents_', size_') /\ IsHeap(heap')
      BY <1>2, <2>1, PlacedAgrees
    <2>3. QED
      BY <1>2, <2>1, <2>2 DEF MaybeBlock, Others
  <1>3. QED
    BY <1>1, <1>2 DEF malloc

\* The elements of an array are a sequence of size_ numbers.
LEMMA ElementsAreSequences ==
  ASSUME TypeOK, BlockPart, NEW a \in Arrays
  PROVE  Elements(a) \in Seq(Int) /\ size_[a] = Len(Elements(a))
  BY NoLength DEF TypeOK, BlockPart, Agree, IsHeap, Elements

RefType == ref # <<>> => ref \in Arrays \X MaybeBlock \X Nat

\* References into a are dropped, those into the others remain good.
LEMMA DroppedLives ==
  ASSUME TypeOK, ReferenceLives, NEW a \in Arrays, ref' = Dropped(a), Others(a),
         \A b \in Arrays \ {a} : alive'[b] = alive[b]
  PROVE  ReferenceLives' /\ RefType'
  <1>1. CASE ref' = <<>>
    BY <1>1 DEF ReferenceLives, RefType
  <1>2. CASE ref' # <<>>
    <2>1. ref' = ref /\ ref # <<>> /\ ref[1] # a
      BY <1>2 DEF Dropped
    <2>2. ref[1] \in Arrays \ {a} /\ ref \in Arrays \X MaybeBlock \X Nat
      BY <2>1 DEF TypeOK
    <2>3. QED
      BY <2>1, <2>2 DEF ReferenceLives, RefType, Others
  <1>3. QED
    BY <1>1, <1>2

-----------------------------------------------------------------------------
(* The actions. *)

\* After a step that concerns a, what remains to be shown is about a and ref.
LEMMA Together ==
  ASSUME TypeOK, BlockPart, NEW a \in Arrays,
         alive' \in [Arrays -> BOOLEAN], end_' \in [Arrays -> Int],
         contents_' \in [Arrays -> MaybeBlock], size_' \in [Arrays -> Nat],
         Agree(Arrays, heap', contents_', size_'), IsHeap(heap'), Others(a),
         \A b \in Arrays \ {a} : alive'[b] = alive[b],
         contents_'[a] # NULL => alive'[a],
         ReferenceLives', RefType'
  PROVE  IInv'
  <1>1. TypeOK'
    BY DEF TypeOK, RefType
  <1>2. \A b \in Arrays : contents_'[b] # NULL => alive'[b]
    BY DEF BlockPart, Others
  <1>3. BlockPart'
    BY <1>2 DEF BlockPart
  <1>4. QED
    BY <1>1, <1>3 DEF IInv

\* The constructors keep the invariant.
LEMMA ConstructKeeps ==
  ASSUME IInv, NEW a \in Arrays, NEW s \in Seq(Int), Construct(a, s)
  PROVE  IInv'
  <1> USE DEF IInv
  <1>1. contents_[a] = NULL
    BY DEF Construct, BlockPart
  <1>2. Agree(Arrays \ {a}, heap, contents_, size_) /\ IsHeap(heap)
    BY <1>1, NullIsNoAddress DEF BlockPart, Agree, TypeOK, IsHeap
  <1>3. /\ Agree(Arrays, heap', contents_', size_') /\ IsHeap(heap')
        /\ contents_' \in [Arrays -> MaybeBlock] /\ size_' \in [Arrays -> Nat]
        /\ Others(a)
    BY <1>2, MallocKeeps DEF Construct
  <1>4. /\ alive' \in [Arrays -> BOOLEAN] /\ alive'[a]
        /\ end_' \in [Arrays -> Int]
        /\ \A b \in Arrays \ {a} : alive'[b] = alive[b]
    BY DEF Construct, TypeOK, Junk
  <1>5. ref' = Dropped(a)
    BY DEF Construct, ReferenceLives, Dropped
  <1>6. ReferenceLives' /\ RefType'
    BY <1>3, <1>4, <1>5, DroppedLives
  <1>7. QED
    BY <1>3, <1>4, <1>6, Together

\* operator= keeps the invariant, when it is given its own array too.
LEMMA AssignKeeps ==
  ASSUME IInv, NEW a \in Arrays, NEW b \in Arrays, Assign(a, b)
  PROVE  IInv'
  <1> USE DEF IInv
  <1>1. CASE a = b
    BY <1>1 DEF Assign, TypeOK, BlockPart, ReferenceLives
  <1>2. CASE a # b
    <2>1. Elements(b) \in Seq(Int)
      BY ElementsAreSequences
    <2>2. malloc(a, free(heap, contents_[a]), Elements(b)) /\ ref' = Dropped(a)
      BY <1>2 DEF Assign
    <2>3. /\ Agree(Arrays, heap', contents_', size_') /\ IsHeap(heap')
          /\ contents_' \in [Arrays -> MaybeBlock] /\ size_' \in [Arrays -> Nat]
          /\ Others(a)
      BY <2>1, <2>2, FreeAgrees, MallocKeeps
    <2>4. alive' = alive /\ end_' = end_ /\ alive[a]
      BY DEF Assign
    <2>5. ReferenceLives' /\ RefType'
      BY <2>2, <2>3, <2>4, DroppedLives
    <2>6. QED
      BY <2>3, <2>4, <2>5, Together DEF TypeOK
  <1>3. QED
    BY <1>1, <1>2

\* clear, by itself, in the destructor and in resize.
LEMMA ClearKeeps ==
  ASSUME IInv, NEW a \in Arrays, clear(a),
         alive' \in [Arrays -> BOOLEAN], end_' \in [Arrays -> Int],
         \A b \in Arrays \ {a} : alive'[b] = alive[b]
  PROVE  IInv'
  <1> USE DEF IInv
  <1>1. /\ contents_' \in [Arrays -> MaybeBlock] /\ size_' \in [Arrays -> Nat]
        /\ contents_'[a] = NULL /\ size_'[a] = 0 /\ Others(a)
    BY DEF clear, TypeOK, MaybeBlock, Others
  <1>2. Agree(Arrays \ {a}, heap', contents_, size_) /\ IsHeap(heap')
    BY FreeAgrees DEF clear
  <1>3. Agree(Arrays, heap', contents_', size_')
    <2>1. \A b \in Arrays : IF contents_'[b] = NULL THEN size_'[b] = 0
                           ELSE /\ contents_'[b] \in DOMAIN heap'
                                /\ size_'[b] = Len(heap'[contents_'[b]])
      <3>1. TAKE b \in Arrays
      <3>2. CASE b = a
        BY <1>1, <3>2
      <3>3. CASE b # a
        <4>1. contents_'[b] = contents_[b] /\ size_'[b] = size_[b]
          BY <1>1, <3>3 DEF Others
        <4>2. IF contents_[b] = NULL THEN size_[b] = 0
              ELSE contents_[b] \in DOMAIN heap' /\ size_[b] = Len(heap'[contents_[b]])
          BY <1>2, <3>3 DEF Agree
        <4>3. QED
          BY <4>1, <4>2
      <3>4. QED
        BY <3>2, <3>3
    <2>2. \A q \in DOMAIN heap' : \E b \in Arrays : contents_'[b] = q
      BY <1>1, <1>2 DEF Agree, Others
    <2>3. \A x, y \in Arrays : contents_'[x] = contents_'[y] /\ contents_'[x] # NULL => x = y
      BY <1>1, <1>2 DEF Agree, Others
    <2>4. QED
      BY <2>1, <2>2, <2>3 DEF Agree
  <1>4. ReferenceLives' /\ RefType'
    BY <1>1, DroppedLives DEF clear
  <1>5. QED
    BY <1>1, <1>2, <1>3, <1>4, Together

\* resize makes a sequence of the length that was asked for.
LEMMA ResizedLength ==
  ASSUME NEW s \in Seq(Int), NEW n \in Nat
  PROVE  Resized(s, n) \in Seq(Int) /\ Len(Resized(s, n)) = n
  BY DEF Resized

\* resize keeps the invariant, when realloc moves the block, keeps it or fails.
LEMMA ResizeKeeps ==
  ASSUME IInv, NEW a \in Arrays, NEW n \in Nat, Resize(a, n)
  PROVE  IInv'
  <1> USE DEF IInv
  <1>1. alive' = alive /\ end_' = end_ /\ alive[a] /\ alive \in [Arrays -> BOOLEAN] /\ end_ \in [Arrays -> Int]
    BY DEF Resize, TypeOK
  <1>2. CASE clear(a)
    BY <1>1, <1>2, ClearKeeps
  <1>3. CASE Reallocate(a, n)
    <2> DEFINE h == free(heap, contents_[a])
               s == Resized(Elements(a), n)
    <2>1. PICK p \in (Addresses \ DOMAIN heap) \cup ({contents_[a]} \ {NULL}) :
             /\ contents_' = [contents_ EXCEPT ![a] = p]
             /\ size_' = [size_ EXCEPT ![a] = n]
             /\ heap' = Placed(h, p, s)
             /\ ref' = Dropped(a)
      BY <1>3 DEF Reallocate
    <2>2. s \in Seq(Int) /\ Len(s) = n
      BY ElementsAreSequences, ResizedLength
    <2>3. contents_ \in [Arrays -> MaybeBlock] /\ size_ \in [Arrays -> Nat]
      BY DEF TypeOK
    <2>4. p \in Addresses /\ p \notin DOMAIN h
      BY <2>3, FreeAgrees DEF free, MaybeBlock
    <2>5. Agree(Arrays \ {a}, h, contents_, size_) /\ IsHeap(h)
      BY FreeAgrees
    <2> HIDE DEF h, s
    <2>6. /\ Agree(Arrays, Placed(h, p, s), [contents_ EXCEPT ![a] = p], [size_ EXCEPT ![a] = Len(s)])
          /\ IsHeap(Placed(h, p, s))
      BY <2>2, <2>3, <2>4, <2>5, PlacedAgrees
    <2>7. Agree(Arrays, heap', contents_', size_') /\ IsHeap(heap')
      BY <2>1, <2>2, <2>6
    <2>8. contents_' \in [Arrays -> MaybeBlock] /\ size_' \in [Arrays -> Nat] /\ Others(a)
      BY <2>1, <2>3, <2>4 DEF MaybeBlock, Others
    <2>9. ReferenceLives' /\ RefType'
      BY <2>1, <2>8, <1>1, DroppedLives
    <2>10. QED
      BY <1>1, <2>7, <2>8, <2>9, Together
  <1>4. CASE OutOfMemory(a, n)
    <2>1. contents_' = contents_ /\ size_' = size_ /\ heap' = heap
      BY <1>4 DEF OutOfMemory
    <2>2. ReferenceLives' /\ RefType'
      <3>1. CASE ref' = ref
        BY <1>1, <2>1, <3>1 DEF ReferenceLives, TypeOK, RefType
      <3>2. CASE ref' = Dropped(a)
        BY <1>1, <2>1, <3>2, DroppedLives DEF Others
      <3>3. QED
        BY <1>4, <3>1, <3>2 DEF OutOfMemory
    <2>3. QED
      BY <1>1, <2>1, <2>2, Together DEF TypeOK, BlockPart, Others
  <1>5. QED
    BY <1>2, <1>3, <1>4 DEF Resize

\* The reference operator[] gives is good.
LEMMA AtKeeps ==
  ASSUME IInv, NEW a \in Arrays, NEW i \in Nat, At(a, i)
  PROVE  IInv'
  <1> USE DEF IInv
  <1>1. ref' \in Arrays \X MaybeBlock \X Nat
    BY DEF At, TypeOK, MaybeBlock
  <1>2. ReferenceLives'
    BY DEF At, ReferenceLives
  <1>3. QED
    BY <1>1, <1>2 DEF At, TypeOK, BlockPart

\* A write through the reference stays in its block.
LEMMA StoreKeeps ==
  ASSUME IInv, NEW v \in Int, Store(v)
  PROVE  IInv'
  <1> USE DEF IInv
  <1>1. /\ alive' = alive /\ contents_' = contents_ /\ size_' = size_ /\ ref' = ref
        /\ ref # <<>> /\ ref \in Arrays \X MaybeBlock \X Nat
    BY DEF Store, TypeOK
  <1> DEFINE a == ref[1]  p == ref[2]  i == ref[3] + 1
  <1>2. CASE p = NULL
    BY <1>1, <1>2 DEF Store, TypeOK, BlockPart, ReferenceLives
  <1>3. CASE p # NULL
    <2>1. end_' = end_ /\ heap' = [heap EXCEPT ![p][i] = v]
      BY <1>3 DEF Store
    <2>2. a \in Arrays /\ p = contents_[a] /\ p \in DOMAIN heap /\ heap[p] \in Seq(Int)
      BY <1>1, <1>3 DEF ReferenceLives, BlockPart, Agree, TypeOK, IsHeap
    <2>3. i \in 1..Len(heap[p])
      BY <1>1, <1>3, <2>2 DEF ReferenceLives, BlockPart, Agree, TypeOK
    <2>4. /\ DOMAIN heap' = DOMAIN heap
          /\ \A q \in DOMAIN heap \ {p} : heap'[q] = heap[q]
          /\ heap'[p] = [heap[p] EXCEPT ![i] = v]
      BY <2>1, <2>2
    <2>5. heap'[p] \in Seq(Int) /\ Len(heap'[p]) = Len(heap[p])
      BY <2>2, <2>3, <2>4
    <2> HIDE DEF a, p, i
    <2>6. IsHeap(heap')
      BY <2>4, <2>5 DEF TypeOK, IsHeap
    <2>7. Agree(Arrays, heap', contents_', size_')
      BY <1>1, <2>4, <2>5 DEF BlockPart, Agree
    <2>8. QED
      BY <1>1, <2>1, <2>6, <2>7 DEF TypeOK, BlockPart, ReferenceLives
  <1>4. QED
    BY <1>2, <1>3

-----------------------------------------------------------------------------
\* The invariant is inductive.
LEMMA NextKeeps == IInv /\ [Next]_vars => IInv'
  <1> SUFFICES ASSUME IInv, [Next]_vars PROVE IInv'
    OBVIOUS
  <1> USE SizesAreNumbers, ElementsAreNumbers
  <1>1. ASSUME NEW a \in Arrays, NewSized(a) PROVE IInv'
    <2>1. PICK n \in 0..MaxSize : Construct(a, Uninitialised(n))
      BY <1>1 DEF NewSized
    <2>2. Uninitialised(n) \in Seq(Int)
      BY DEF Uninitialised, Junk
    <2>3. QED
      BY <2>1, <2>2, ConstructKeeps
  <1>2. ASSUME NEW a \in Arrays, NewFilled(a) PROVE IInv'
    <2>1. PICK n \in 0..MaxSize, ch \in Chars : Construct(a, [i \in 1..n |-> Filled(ch)])
      BY <1>2 DEF NewFilled
    <2>2. Filled(ch) \in Int
      BY DEF Filled
    <2>3. [i \in 1..n |-> Filled(ch)] \in Seq(Int)
      BY <2>2
    <2>4. QED
      BY <2>1, <2>3, ConstructKeeps
  <1>3. ASSUME NEW a \in Arrays, NEW b \in Arrays, NewCopy(a, b) PROVE IInv'
    <2>1. Elements(b) \in Seq(Int)
      BY ElementsAreSequences DEF IInv
    <2>2. QED
      BY <1>3, <2>1, ConstructKeeps DEF NewCopy
  <1>4. ASSUME NEW a \in Arrays, NEW b \in Arrays, Assign(a, b) PROVE IInv'
    BY <1>4, AssignKeeps
  <1>5. ASSUME NEW a \in Arrays, Clear(a) PROVE IInv'
    BY <1>5, ClearKeeps DEF Clear, IInv, TypeOK
  <1>6. ASSUME NEW a \in Arrays, Destroy(a) PROVE IInv'
    <2>1. /\ clear(a) /\ alive' \in [Arrays -> BOOLEAN] /\ end_' \in [Arrays -> Int]
          /\ \A b \in Arrays \ {a} : alive'[b] = alive[b]
      BY <1>6 DEF Destroy, IInv, TypeOK, Junk
    <2>2. QED
      BY <2>1, ClearKeeps
  <1>7. ASSUME NEW a \in Arrays, NEW n \in 0..MaxSize, Resize(a, n) PROVE IInv'
    BY <1>7, ResizeKeeps
  <1>8. ASSUME NEW a \in Arrays, NEW i \in 0..MaxSize, At(a, i) PROVE IInv'
    BY <1>8, AtKeeps
  <1>9. ASSUME NEW v \in Values, Store(v) PROVE IInv'
    <2>1. v \in Int
      OBVIOUS
    <2>2. QED
      BY <1>9, <2>1, StoreKeeps
  <1>10. CASE UNCHANGED vars
    BY <1>10 DEF vars, IInv, TypeOK, IsHeap, BlockPart, ReferenceLives, Agree
  <1>11. QED
    BY <1>1, <1>2, <1>3, <1>4, <1>5, <1>6, <1>7, <1>8, <1>9, <1>10 DEF Next

\* The invariant holds in every state, of any arrays, addresses and sizes.
THEOREM Invariant == Spec => []IInv
  BY InitIInv, NextKeeps, PTL DEF Spec

\* Of any arrays, none leaks its block, shares it or frees it twice.
THEOREM BlocksAreOwned == Spec => []BlocksOwned
  BY Invariant, BlockPartImplies, PTL

\* A reference that was not given up by a change of its array is good.
THEOREM ReferencesLive == Spec => []ReferenceLives
  BY Invariant, PTL DEF IInv

-----------------------------------------------------------------------------
(* The refinement of ArrayValues.                                           *)

Value == [a \in Arrays |-> Elements(a)]
Fills == {Filled(ch) : ch \in Chars}

\* Only a's elements change in a step that leaves the blocks of the others alone.
LEMMA OthersKeepElements ==
  ASSUME IInv, IInv', NEW a \in Arrays, Others(a),
         \A b \in Arrays \ {a} : contents_[b] # NULL => heap'[contents_[b]] = heap[contents_[b]]
  PROVE  Value' = [Value EXCEPT ![a] = Elements(a)']
  <1>1. \A b \in Arrays \ {a} : Elements(b)' = Elements(b)
    BY DEF Others, Elements
  <1>2. QED
    BY <1>1 DEF Value

\* What malloc makes of a, and of nothing else.
LEMMA MallocElements ==
  ASSUME IInv, IInv', NEW a \in Arrays, NEW h, NEW s \in Seq(Int), malloc(a, h, s), Others(a),
         DOMAIN h \subseteq Addresses,
         \A b \in Arrays \ {a} :
            contents_[b] # NULL => contents_[b] \in DOMAIN h /\ h[contents_[b]] = heap[contents_[b]]
  PROVE  Value' = [Value EXCEPT ![a] = <<>>] \/ Value' = [Value EXCEPT ![a] = s]
  <1>1. CASE contents_' = [contents_ EXCEPT ![a] = NULL] /\ heap' = h
    <2>1. Elements(a)' = <<>>
      BY <1>1 DEF IInv, TypeOK, Elements
    <2>2. QED
      BY <1>1, <2>1, OthersKeepElements
  <1>2. ASSUME NEW p \in Addresses \ DOMAIN h,
               contents_' = [contents_ EXCEPT ![a] = p], heap' = Placed(h, p, s)
        PROVE  Value' = [Value EXCEPT ![a] = s]
    <2>1. Elements(a)' = s
      BY <1>2, NullIsNoAddress DEF IInv, TypeOK, Elements, Placed
    <2>2. \A b \in Arrays \ {a} : contents_[b] # NULL => heap'[contents_[b]] = heap[contents_[b]]
      BY <1>2 DEF Placed
    <2>3. QED
      BY <2>1, <2>2, OthersKeepElements
  <1>3. QED
    BY <1>1, <1>2 DEF malloc

\* Dropping the references into a lets go of what the promise calls held.
LEMMA HeldOf ==
  ASSUME NEW a \in Arrays, ref' = Dropped(a)
  PROVE  Refers' = IF Refers # <<>> /\ Refers[1] = a THEN <<>> ELSE Refers
  <1>1. ref = <<>> => Refers = <<>>
    BY DEF Refers
  <1>2. ref # <<>> => Refers # <<>> /\ Refers[1] = ref[1]
    BY DEF Refers
  <1>3. QED
    BY <1>1, <1>2 DEF Refers, Dropped

\* A constructor makes the array it was asked for, or an empty one.
LEMMA ConstructImplements ==
  ASSUME IInv, IInv', NEW a \in Arrays, NEW s \in Seq(Int), Construct(a, s),
         \/ \E n \in 0..MaxSize, e \in Fills \cup {Junk} : s = [i \in 1..n |-> e]
         \/ \E b \in Arrays : alive[b] /\ s = Elements(b)
  PROVE  Promise!Create(a)
  <1>1. contents_[a] = NULL /\ malloc(a, heap, s) /\ IsHeap(heap) /\ IsHeap(heap)'
    BY DEF Construct, IInv, BlockPart, TypeOK
  <1>2. Agree(Arrays \ {a}, heap, contents_, size_)
    BY <1>1, NullIsNoAddress DEF IInv, BlockPart, Agree, TypeOK, IsHeap
  <1>3. Others(a)
    BY <1>1, <1>2, MallocKeeps DEF IInv
  <1>4. Value' = [Value EXCEPT ![a] = <<>>] \/ Value' = [Value EXCEPT ![a] = s]
    BY <1>1, <1>2, <1>3, MallocElements DEF Agree, IsHeap
  <1>5. Refers' = Refers
    BY DEF Construct, Refers
  <1>6. /\ ~alive[a] /\ alive' = [alive EXCEPT ![a] = TRUE]
        /\ end_' = [end_ EXCEPT ![a] = Junk]
    BY DEF Construct
  <1>7. \/ Promise!Becomes(a, <<>>)
        \/ \E n \in 0..MaxSize, e \in Fills \cup {Junk} : Promise!Becomes(a, Promise!Same(n, e))
        \/ \E b \in Arrays : alive[b] /\ Promise!Becomes(a, Value[b])
    <2>1. CASE Value' = [Value EXCEPT ![a] = <<>>]
      BY <2>1 DEF Promise!Becomes, Value
    <2>2. ASSUME Value' = [Value EXCEPT ![a] = s],
                 NEW n \in 0..MaxSize, NEW e \in Fills \cup {Junk}, s = [i \in 1..n |-> e]
          PROVE  Promise!Becomes(a, Promise!Same(n, e))
      BY <2>2 DEF Promise!Becomes, Promise!Same, Value
    <2>3. ASSUME Value' = [Value EXCEPT ![a] = s],
                 NEW b \in Arrays, s = Elements(b)
          PROVE  Promise!Becomes(a, Value[b])
      BY <2>3 DEF Promise!Becomes, Value
    <2>4. QED
      BY <1>4, <2>1, <2>2, <2>3
  <1>8. QED
    BY <1>5, <1>6, <1>7 DEF Promise!Create, Value, Fills

\* operator= makes a copy, or an empty array.
LEMMA AssignImplements ==
  ASSUME IInv, IInv', NEW a \in Arrays, NEW b \in Arrays, a # b, Assign(a, b)
  PROVE  Promise!Assign(a, b)
  <1>1. /\ malloc(a, free(heap, contents_[a]), Elements(b)) /\ ref' = Dropped(a)
        /\ alive[a] /\ alive[b] /\ alive' = alive /\ end_' = end_
    BY DEF Assign
  <1>2. Elements(b) \in Seq(Int)
    BY ElementsAreSequences DEF IInv
  <1>3. /\ Agree(Arrays \ {a}, free(heap, contents_[a]), contents_, size_)
        /\ IsHeap(free(heap, contents_[a]))
    BY FreeAgrees DEF IInv
  <1>4. Others(a)
    BY <1>1, <1>2, <1>3, MallocKeeps DEF IInv
  <1>5. \A p \in DOMAIN free(heap, contents_[a]) : free(heap, contents_[a])[p] = heap[p]
    BY DEF free
  <1>6. Value' = [Value EXCEPT ![a] = <<>>] \/ Value' = [Value EXCEPT ![a] = Elements(b)]
    BY <1>1, <1>2, <1>3, <1>4, <1>5, MallocElements DEF Agree, IsHeap
  <1>7. Refers' = IF Refers # <<>> /\ Refers[1] = a THEN <<>> ELSE Refers
    BY <1>1, HeldOf
  <1>8. QED
    BY <1>1, <1>6, <1>7 DEF Promise!Assign, Promise!Becomes, Promise!LetGo, Value

\* clear empties a and nothing else.
LEMMA ClearImplements ==
  ASSUME IInv, IInv', NEW a \in Arrays, clear(a)
  PROVE  /\ Value' = [Value EXCEPT ![a] = <<>>]
         /\ Refers' = IF Refers # <<>> /\ Refers[1] = a THEN <<>> ELSE Refers
  <1>1. Others(a) /\ Elements(a)' = <<>>
    BY DEF clear, IInv, TypeOK, Others, Elements
  <1>2. Agree(Arrays \ {a}, heap', contents_, size_)
    BY FreeAgrees DEF clear, IInv
  <1>3. \A b \in Arrays \ {a} : contents_[b] # NULL => heap'[contents_[b]] = heap[contents_[b]]
    BY <1>2 DEF Agree, clear, free
  <1>4. Value' = [Value EXCEPT ![a] = <<>>]
    BY <1>1, <1>3, OthersKeepElements
  <1>5. QED
    BY <1>4, HeldOf DEF clear

\* The destructor ends one array only.
LEMMA DestroyImplements ==
  ASSUME IInv, IInv', NEW a \in Arrays, Destroy(a)
  PROVE  Promise!Destroy(a)
  <1>1. /\ alive[a] /\ alive' = [alive EXCEPT ![a] = FALSE]
        /\ clear(a) /\ end_' = [end_ EXCEPT ![a] = Junk]
    BY DEF Destroy
  <1>2. QED
    BY <1>1, ClearImplements DEF Promise!Destroy, Promise!Becomes, Promise!LetGo, Value

\* Nothing is left of an array resized to nothing.
LEMMA NothingResized ==
  ASSUME NEW s PROVE [i \in 1..0 |-> IF i <= Len(s) THEN s[i] ELSE 0] = <<>>
  OBVIOUS

\* To the promise, clear is a resize to nothing.
LEMMA ClearIsResize ==
  ASSUME IInv, IInv', NEW a \in Arrays, clear(a), alive[a], alive' = alive, end_' = end_
  PROVE  Promise!Resize(a, 0)
  <1>1. Value' = [Value EXCEPT ![a] = [i \in 1..0 |-> IF i <= Len(Value[a]) THEN Value[a][i] ELSE 0]]
    BY ClearImplements, NothingResized
  <1>2. QED
    BY <1>1, ClearImplements DEF Promise!Resize, Promise!Becomes, Promise!LetGo, Value

\* resize keeps what stays, whether or not realloc finds memory.
LEMMA ResizeImplements ==
  ASSUME IInv, IInv', NEW a \in Arrays, NEW n \in 0..MaxSize, Resize(a, n)
  PROVE  Promise!Resize(a, n)
  <1>1. alive[a] /\ alive' = alive /\ end_' = end_
    BY DEF Resize
  <1>2. CASE n = 0
    BY <1>1, <1>2, ClearIsResize DEF Resize
  <1>3. CASE n # 0 /\ Reallocate(a, n)
    <2> DEFINE h == free(heap, contents_[a])
               s == Resized(Elements(a), n)
    <2>1. PICK p \in (Addresses \ DOMAIN heap) \cup ({contents_[a]} \ {NULL}) :
             /\ contents_' = [contents_ EXCEPT ![a] = p]
             /\ size_' = [size_ EXCEPT ![a] = n]
             /\ heap' = Placed(h, p, s)
             /\ ref' = Dropped(a)
      BY <1>3 DEF Reallocate
    <2>2. Others(a)
      BY <2>1 DEF IInv, TypeOK, Others
    <2>3. p # NULL /\ Elements(a)' = s
      BY <2>1, NullIsNoAddress DEF IInv, TypeOK, Elements, Placed
    <2>4. \A b \in Arrays \ {a} : contents_[b] # NULL => heap'[contents_[b]] = heap[contents_[b]]
      <3>1. TAKE b \in Arrays \ {a}
      <3>2. HAVE contents_[b] # NULL
      <3>3. contents_[b] \in DOMAIN heap /\ contents_[b] # contents_[a] /\ contents_[b] # p
        BY <2>1, <3>2 DEF IInv, BlockPart, Agree
      <3>4. contents_[b] \in DOMAIN h /\ h[contents_[b]] = heap[contents_[b]]
        BY <3>3 DEF free
      <3>5. QED
        BY <2>1, <3>3, <3>4 DEF Placed
    <2>5. Value' = [Value EXCEPT ![a] = s]
      BY <2>2, <2>3, <2>4, OthersKeepElements
    <2>6. s = [i \in 1..n |-> IF i <= Len(Value[a]) THEN Value[a][i] ELSE 0]
      BY DEF Resized, Value
    <2>7. Refers' = IF Refers # <<>> /\ Refers[1] = a THEN <<>> ELSE Refers
      BY <2>1, HeldOf
    <2>8. QED
      BY <1>1, <2>5, <2>6, <2>7 DEF Promise!Resize, Promise!Becomes, Promise!LetGo, Value
  <1>4. CASE n # 0 /\ OutOfMemory(a, n)
    <2>1. contents_' = contents_ /\ heap' = heap
      BY <1>4 DEF OutOfMemory
    <2>2. Value' = Value
      BY <2>1 DEF Value, Elements
    <2>3. n > 0
      BY <1>4, SizesAreNumbers
    <2>4. CASE size_[a] = n
      <3>1. Refers' = IF Refers # <<>> /\ Refers[1] = a THEN <<>> ELSE Refers
        BY <1>4, <2>4, HeldOf DEF OutOfMemory
      <3>2. QED
        BY <1>1, <2>2, <2>3, <3>1 DEF Promise!Resize, Promise!LetGo, Value
    <2>5. CASE size_[a] # n
      <3>1. Refers' = Refers
        BY <1>4, <2>5 DEF OutOfMemory, Refers
      <3>2. Len(Value[a]) # n
        BY <2>5, ElementsAreSequences DEF IInv, Value
      <3>3. QED
        BY <1>1, <2>2, <2>3, <3>1, <3>2 DEF Promise!Resize, Value
    <2>6. QED
      BY <2>4, <2>5
  <1>5. QED
    BY <1>2, <1>3, <1>4 DEF Resize

\* operator[] refers to the element asked for, or to the spare one.
LEMMA AtImplements ==
  ASSUME IInv, NEW a \in Arrays, NEW i \in Nat, At(a, i)
  PROVE  Promise!Take(a, i)
  <1>1. /\ alive[a] /\ UNCHANGED <<alive, contents_, size_, end_, heap>>
        /\ ref' = <<a, IF i < size_[a] THEN contents_[a] ELSE NULL, i>>
    BY DEF At
  <1>2. Value' = Value
    BY <1>1 DEF Value, Elements
  <1>3. size_[a] = Len(Value[a]) /\ (i < size_[a] => contents_[a] # NULL)
    BY ElementsAreSequences DEF IInv, TypeOK, BlockPart, Agree, Value
  <1>4. Refers' = <<a, i, ref'[2] # NULL>>
    BY <1>1 DEF Refers
  <1>5. Refers' = <<a, i, i < Len(Value[a])>>
    BY <1>1, <1>3, <1>4
  <1>6. QED
    BY <1>1, <1>2, <1>5 DEF Promise!Take, Value

\* A write through the reference shows in one element of one array.
LEMMA StoreImplements ==
  ASSUME IInv, IInv', NEW v \in Values, Store(v)
  PROVE  Promise!Store(v)
  <1>1. /\ ref # <<>> /\ ref \in Arrays \X MaybeBlock \X Nat
        /\ UNCHANGED <<alive, contents_, size_, ref>>
    BY DEF Store, IInv, TypeOK
  <1>2. PICK a \in Arrays, p \in MaybeBlock, i \in Nat : ref = <<a, p, i>>
    BY <1>1
  <1>3. /\ Refers' = Refers /\ Refers # <<>>
        /\ Refers[1] = a /\ Refers[2] = i /\ Refers[3] = (p # NULL)
    BY <1>1, <1>2 DEF Refers
  <1>4. CASE p = NULL
    <2>1. end_' = [end_ EXCEPT ![a] = v] /\ heap' = heap
      BY <1>2, <1>4 DEF Store
    <2>2. Value' = Value
      BY <1>1, <2>1 DEF Value, Elements
    <2>3. QED
      BY <1>1, <1>3, <1>4, <2>1, <2>2 DEF Promise!Store, Value
  <1>5. CASE p # NULL
    <2>1. end_' = end_ /\ heap' = [heap EXCEPT ![p][i + 1] = v]
      BY <1>2, <1>5 DEF Store
    <2>2. p = contents_[a] /\ p \in DOMAIN heap
      BY <1>1, <1>2, <1>5 DEF IInv, ReferenceLives, BlockPart, Agree
    <2>3. Others(a)
      BY <1>1 DEF Others
    <2>4. \A b \in Arrays \ {a} : contents_[b] # NULL => heap'[contents_[b]] = heap[contents_[b]]
      BY <2>1, <2>2, <1>5 DEF IInv, BlockPart, Agree
    <2>5. Elements(a)' = [Elements(a) EXCEPT ![i + 1] = v] /\ Value[a] = Elements(a)
      BY <1>1, <1>5, <2>1, <2>2 DEF Elements, Value
    <2>6. Value' = [Value EXCEPT ![a] = [Value[a] EXCEPT ![i + 1] = v]]
      BY <2>3, <2>4, <2>5, OthersKeepElements
    <2>7. QED
      BY <1>1, <1>3, <1>5, <2>1, <2>6 DEF Promise!Store, Value
  <1>6. QED
    BY <1>4, <1>5

\* Every step of the arrays is one of the promise's, or changes nothing it knows of.
LEMMA StepImplements ==
  ASSUME IInv, IInv', [Next]_vars
  PROVE  [Promise!Next]_Promise!vars
  <1> USE SizesAreNumbers, ElementsAreNumbers
  <1>1. ASSUME NEW a \in Arrays, NewSized(a) PROVE Promise!Create(a)
    <2>1. PICK n \in 0..MaxSize : Construct(a, Uninitialised(n))
      BY <1>1 DEF NewSized
    <2>2. Uninitialised(n) \in Seq(Int) /\ Uninitialised(n) = [j \in 1..n |-> Junk]
      BY DEF Uninitialised, Junk
    <2>3. QED
      BY <2>1, <2>2, ConstructImplements
  <1>2. ASSUME NEW a \in Arrays, NewFilled(a) PROVE Promise!Create(a)
    <2>1. PICK n \in 0..MaxSize, ch \in Chars : Construct(a, [j \in 1..n |-> Filled(ch)])
      BY <1>2 DEF NewFilled
    <2>2. Filled(ch) \in Int /\ Filled(ch) \in Fills
      BY DEF Filled, Fills
    <2>3. [j \in 1..n |-> Filled(ch)] \in Seq(Int)
      BY <2>2
    <2>4. QED
      BY <2>1, <2>2, <2>3, ConstructImplements
  <1>3. ASSUME NEW a \in Arrays, NEW b \in Arrays, NewCopy(a, b) PROVE Promise!Create(a)
    <2>1. Elements(b) \in Seq(Int)
      BY ElementsAreSequences DEF IInv
    <2>2. QED
      BY <1>3, <2>1, ConstructImplements DEF NewCopy
  <1>4. ASSUME NEW a \in Arrays, NEW b \in Arrays, Assign(a, b)
        PROVE  Promise!Assign(a, b) \/ UNCHANGED Promise!vars
    <2>1. CASE a = b
      BY <1>4, <2>1 DEF Assign, Promise!vars, Elements, Refers
    <2>2. QED
      BY <1>4, <2>1, AssignImplements
  <1>5. ASSUME NEW a \in Arrays, Clear(a) PROVE Promise!Resize(a, 0)
    BY <1>5, ClearIsResize DEF Clear
  <1>6. UNCHANGED vars => UNCHANGED Promise!vars
    BY DEF vars, Promise!vars, Elements, Refers
  <1>7. ASSUME NEW a \in Arrays, NEW i \in 0..MaxSize, At(a, i) PROVE Promise!Take(a, i)
    BY <1>7, AtImplements
  <1>8. 0 \in 0..MaxSize
    OBVIOUS
  <1>9. QED
    BY <1>1, <1>2, <1>3, <1>4, <1>5, <1>6, <1>7, <1>8, DestroyImplements, ResizeImplements,
       StoreImplements DEF Next, Promise!Next

\* For any arrays and any sizes, FlatArray's arrays are values.
THEOREM ArrayValuesRefined == Spec => ImplementsArrayValues
  <1>1. Init => Promise!Init
    BY DEF Init, Promise!Init, Elements, Refers
  <1>2. IInv /\ IInv' /\ [Next]_vars => [Promise!Next]_Promise!vars
    BY StepImplements
  <1>3. QED
    BY <1>1, <1>2, Invariant, PTL DEF Spec, ImplementsArrayValues, Promise!Spec
=============================================================================
