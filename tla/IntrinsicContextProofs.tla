----------------------- MODULE IntrinsicContextProofs -----------------------
(***************************************************************************)
(* The spin lock, and what GetInstance, which takes it, guarantees to its  *)
(* callers, for any number of threads, blocks and versions.                *)
(*                                                                         *)
(* HolderSafe is not inductive: a Drop may destroy the context of another  *)
(* holder unless use_count really is the number of owners, a Replace may   *)
(* be done by two threads at once unless the lock excludes, and a Copy may *)
(* hand out a half-built context unless every stage of the construction is *)
(* known.  IInv adds those facts.                                          *)
(***************************************************************************)
EXTENDS IntrinsicContext, SpinLock, FiniteSetTheorems, TLAPS

(***************************************************************************)
(* The spin lock by itself, for any set of threads.  The two invariants    *)
(* are proved together: the flag being clear says nobody is inside, which  *)
(* is what a successful test_and_set needs, and exclusion says that the    *)
(* thread that clears the flag was the only one inside.                    *)
(***************************************************************************)
LockInv == LockTypeOK /\ MutualExclusion /\ FlagHasOwner

\* The three parts of LockInv are inductive together.
THEOREM LockInvariant == LockSafeSpec => []LockInv
<1>1. LockInit => LockInv
  BY DEF LockInit, LockInv, LockTypeOK, MutualExclusion, FlagHasOwner
<1>2. LockInv /\ [LockNext]_lockVars => LockInv'
  <2> SUFFICES ASSUME LockInv, [LockNext]_lockVars PROVE LockInv'
    OBVIOUS
  <2> USE DEF LockInv, LockTypeOK, MutualExclusion, FlagHasOwner
  <2>1. ASSUME NEW t \in Contenders, Begin(t) PROVE LockInv'
    BY <2>1 DEF Begin
  <2>2. ASSUME NEW t \in Contenders, TestAndSet(t) PROVE LockInv'
    <3>1. CASE flags_
      BY <2>2, <3>1 DEF TestAndSet
    <3>2. CASE ~flags_
      BY <2>2, <3>2 DEF TestAndSet
    <3>3. QED
      BY <3>1, <3>2
  <2>3. ASSUME NEW t \in Contenders, TryLock(t) PROVE LockInv'
    <3>1. CASE flags_
      BY <2>3, <3>1 DEF TryLock
    <3>2. CASE ~flags_
      BY <2>3, <3>2 DEF TryLock
    <3>3. QED
      BY <3>1, <3>2
  <2>4. ASSUME NEW t \in Contenders, Unlock(t) PROVE LockInv'
    BY <2>4 DEF Unlock
  <2>5. CASE UNCHANGED lockVars
    BY <2>5 DEF lockVars
  <2>6. QED
    BY <2>1, <2>2, <2>3, <2>4, <2>5 DEF LockNext
<1>3. QED
  BY <1>1, <1>2, PTL DEF LockSafeSpec

\* At most one thread is ever inside the lock, whatever their number.
THEOREM LockExcludes == LockSpec => []MutualExclusion
  BY LockInvariant, PTL DEF LockSpec, LockInv

\* The flag never outlives its owner, so the lock cannot stay shut by itself.
THEOREM LockFlagOwned == LockSpec => []FlagHasOwner
  BY LockInvariant, PTL DEF LockSpec, LockInv

-----------------------------------------------------------------------------

\* The lock: one thread at most between its acquisition and its release.
LockPart == /\ OneInside
            /\ locker <=> \E t \in Threads : pc[t] \in Locked

\* What a thread has in its hands at each point of its program.
ThreadPart ==
    \A t \in Threads :
        /\ pc[t] \in {"idle", "dropped"} => asked[t] = None
        /\ pc[t] \notin {"idle", "dropped", "unlock"} => asked[t] # None
        /\ handle[t] # None <=> \/ pc[t] = "using"
                                \/ pc[t] = "unlock" /\ asked[t] # None
        /\ block[t] # None <=> pc[t] \in Building \cup {"replaced", "dropped"}
        /\ pc[t] \in {"check", "replaced", "copy"} => instance # None
        /\ pc[t] \in {"replaced", "copy"} => version_[instance] = asked[t]

\* What the constructor has exported when it reaches each point.
Exported(label, v) == IF label = "env" THEN {}
                      ELSE IF label = "register" THEN {"env"}
                      ELSE IF label = "level" THEN {"env", "base"}
                      ELSE ExportsOf(v)

\* Who has a block in hand, and in which state: no block in two hands.
BlockPart ==
    /\ \A t \in Threads :
          pc[t] \in Building =>
             /\ life[block[t]] = "built" /\ use_count[block[t]] = 0
             /\ version_[block[t]] = asked[t]
             /\ exports[block[t]] = Exported(pc[t], asked[t])
             /\ pc[t] = "level" => AtLevel(asked[t])
    /\ \A t \in Threads :
          pc[t] \in {"replaced", "dropped"} =>
             life[block[t]] = "live" /\ use_count[block[t]] = 0
    /\ \A t, u \in Threads : block[t] # None /\ block[t] = block[u] => t = u
    /\ \A c \in Contexts : life[c] = "free" => exports[c] = {}

\* The shared context is complete.
SharedPart == instance # None => /\ life[instance] = "live"
                                 /\ version_[instance] \in Versions
                                 /\ exports[instance] = ExportsOf(version_[instance])

\* use_count is the number of owners; nothing allocated is without an owner.
CountPart ==
    \A c \in Contexts :
        /\ use_count[c] = Cardinality(Holders(c)) + (IF instance = c THEN 1 ELSE 0)
        /\ life[c] # "live" => use_count[c] = 0
        /\ life[c] # "free" /\ use_count[c] = 0 => \E t \in Threads : block[t] = c

IInv == /\ TypeOK /\ LockPart /\ ThreadPart /\ BlockPart /\ SharedPart
        /\ HolderSafe /\ CountPart

-----------------------------------------------------------------------------
LEMMA HoldersFinite == \A c : IsFiniteSet(Holders(c)) /\ Cardinality(Holders(c)) \in Nat
  BY ThreadsAssumption, FS_Subset, FS_CardinalityType DEF Holders

\* What a use_count of zero or one says about the owners.
LEMMA CountFacts ==
  ASSUME TypeOK, CountPart, NEW c \in Contexts
  PROVE  /\ use_count[c] \in Nat
         /\ use_count[c] = 0 => instance # c /\ \A t \in Threads : handle[t] # c
         /\ instance = c => use_count[c] >= 1
         /\ instance = c /\ use_count[c] = 1 => \A t \in Threads : handle[t] # c
         /\ \A t \in Threads : handle[t] = c => use_count[c] >= 1
         /\ \A t \in Threads : handle[t] = c /\ use_count[c] = 1 =>
               instance # c /\ \A u \in Threads : handle[u] = c => u = t
<1> DEFINE n == Cardinality(Holders(c))
<1>1. n \in Nat /\ IsFiniteSet(Holders(c))
  BY HoldersFinite
<1>2. use_count[c] = n + (IF instance = c THEN 1 ELSE 0)
  BY DEF CountPart
<1>3. n = 0 => Holders(c) = {}
  BY <1>1, FS_EmptySet
<1>4. \A t \in Threads : handle[t] = c => n >= 1
  BY <1>1, <1>3 DEF Holders
<1>5. \A t, u \in Threads : handle[t] = c /\ handle[u] = c /\ n = 1 => t = u
  <2> SUFFICES ASSUME NEW t \in Threads, NEW u \in Threads,
                      handle[t] = c, handle[u] = c, n = 1
               PROVE  t = u
    OBVIOUS
  <2>1. PICK x : Holders(c) = {x}
    BY <1>1, FS_Singleton
  <2>2. QED
    BY <2>1 DEF Holders
<1> HIDE DEF n
<1>6. QED
  BY <1>1, <1>2, <1>3, <1>4, <1>5 DEF Holders

-----------------------------------------------------------------------------
LEMMA InitIInv == Init => IInv
<1> SUFFICES ASSUME Init PROVE IInv
  OBVIOUS
<1> USE DEF Init
<1>1. TypeOK
  BY DEF TypeOK, Labels, Groups
<1>2. LockPart
  BY DEF LockPart, OneInside, Locked, Building
<1>3. ThreadPart
  BY NoneAssumption DEF ThreadPart, Building
<1>4. BlockPart /\ SharedPart /\ HolderSafe
  BY DEF BlockPart, SharedPart, HolderSafe, Building
<1>5. CountPart
  <2>1. \A c \in Contexts : Holders(c) = {}
    BY NoneAssumption DEF Holders
  <2>2. Cardinality({}) = 0
    BY FS_EmptySet
  <2>3. instance = None /\ \A c \in Contexts : /\ use_count[c] = 0 /\ life[c] = "free"
                                                /\ Cardinality(Holders(c)) = 0
    BY <2>1, <2>2
  <2>4. \A c \in Contexts : instance # c
    BY NoneAssumption
  <2> QED
    BY <2>3, <2>4 DEF CountPart
<1>6. QED
  BY <1>1, <1>2, <1>3, <1>4, <1>5 DEF IInv

\* Steps that touch neither the blocks nor who owns them.
LEMMA QuietStep ==
  ASSUME IInv, NEW t \in Threads,
         \/ \E v \in Versions : Call(t, v)
         \/ Acquire(t) \/ Static(t) \/ Check(t) \/ Release(t)
  PROVE  IInv'
<1> USE DEF IInv
<1>0. UNCHANGED <<block, instance, handle, life, version_, exports, use_count>>
  BY DEF Call, Acquire, Static, Check, Release, heap
<1>1. TypeOK'
  BY <1>0 DEF TypeOK, Labels, Call, Acquire, Static, Check, Release, Goto
<1>2. LockPart'
  BY DEF LockPart, OneInside, TypeOK, Locked, Building,
         Call, Acquire, Static, Check, Release, Goto
<1>3. ThreadPart'
  BY <1>0, NoneAssumption DEF ThreadPart, TypeOK, Building,
         Call, Acquire, Static, Check, Release, Goto
<1>4. BlockPart'
  BY <1>0 DEF BlockPart, TypeOK, Building, Exported,
         Call, Acquire, Static, Check, Release, Goto
<1>5. SharedPart' /\ CountPart'
  BY <1>0 DEF SharedPart, CountPart, Holders
<1>6. HolderSafe'
  BY <1>0 DEF HolderSafe, ThreadPart, TypeOK,
         Call, Acquire, Static, Check, Release
<1>7. QED
  BY <1>1, <1>2, <1>3, <1>4, <1>5, <1>6

\* operator new: a free block has no owner, so nobody else has it in hand.
LEMMA AllocateStep ==
  ASSUME IInv, NEW t \in Threads, Allocate(t)
  PROVE  IInv'
<1> USE DEF IInv
<1>1. PICK c \in Contexts :
         /\ life[c] = "free"
         /\ life' = [life EXCEPT ![c] = "built"]
         /\ version_' = [version_ EXCEPT ![c] = asked[t]]
         /\ block' = [block EXCEPT ![t] = c]
  BY DEF Allocate
<1>2. /\ pc[t] = "new" /\ pc' = [pc EXCEPT ![t] = "env"]
      /\ UNCHANGED <<locker, asked, instance, handle, exports, use_count>>
  BY DEF Allocate, Goto
<1>3. /\ use_count[c] = 0 /\ instance # c
      /\ \A u \in Threads : handle[u] # c /\ block[u] # c
  BY <1>1, CountFacts, NoneAssumption DEF CountPart, BlockPart, ThreadPart, TypeOK
<1>4. asked[t] \in Versions /\ exports[c] = {}
  BY <1>1, <1>2 DEF TypeOK, ThreadPart, BlockPart
<1>5. TypeOK'
  BY <1>1, <1>2 DEF TypeOK, Labels
<1>6. LockPart'
  BY <1>2 DEF LockPart, OneInside, TypeOK, Locked, Building
<1>7. ThreadPart'
  <2>1. instance # None => version_'[instance] = version_[instance]
    BY <1>1, <1>3 DEF TypeOK
  <2>2. c # None
    BY NoneAssumption
  <2>3. QED
    BY <1>1, <1>2, <2>1, <2>2 DEF ThreadPart, TypeOK, Building
<1>8. BlockPart'
  <2>1. \A u \in Threads : block[u] # c
    BY <1>3
  <2>2. ASSUME NEW u \in Threads, pc'[u] \in Building
        PROVE  /\ life'[block'[u]] = "built" /\ use_count'[block'[u]] = 0
               /\ version_'[block'[u]] = asked'[u]
               /\ exports'[block'[u]] = Exported(pc'[u], asked'[u])
               /\ pc'[u] = "level" => AtLevel(asked'[u])
    <3>1. CASE u = t
      BY <1>1, <1>2, <1>3, <1>4, <3>1 DEF TypeOK, Exported
    <3>2. CASE u # t
      <4>1. pc'[u] = pc[u] /\ block'[u] = block[u] /\ block[u] \in Contexts \ {c}
        BY <1>1, <1>2, <2>1, <2>2, <3>2 DEF TypeOK, ThreadPart
      <4>2. QED
        BY <1>1, <1>2, <2>2, <4>1 DEF TypeOK, BlockPart
    <3>3. QED
      BY <3>1, <3>2
  <2>3. ASSUME NEW u \in Threads, pc'[u] \in {"replaced", "dropped"}
        PROVE  life'[block'[u]] = "live" /\ use_count'[block'[u]] = 0
    BY <1>1, <1>2, <2>1, <2>3 DEF TypeOK, BlockPart, ThreadPart
  <2>4. \A u, w \in Threads : block'[u] # None /\ block'[u] = block'[w] => u = w
    BY <1>1, <2>1 DEF TypeOK, BlockPart
  <2>5. QED
    BY <1>1, <1>2, <2>2, <2>3, <2>4 DEF BlockPart, TypeOK
<1>9. SharedPart' /\ HolderSafe'
  BY <1>1, <1>2, <1>3 DEF SharedPart, HolderSafe, TypeOK
<1>10. CountPart'
  <2>1. ASSUME NEW d \in Contexts, NEW u \in Threads, block[u] = d PROVE block'[u] = d
    <3>1. u # t
      BY <1>2, <2>1, NoneAssumption DEF ThreadPart, Building
    <3>2. QED
      BY <1>1, <2>1, <3>1 DEF TypeOK
  <2>2. ASSUME NEW d \in Contexts
        PROVE  /\ life'[d] # "live" => use_count'[d] = 0
               /\ life'[d] # "free" /\ use_count'[d] = 0 => \E u \in Threads : block'[u] = d
    <3>1. CASE d = c
      BY <1>1, <1>2, <1>3, <3>1 DEF TypeOK
    <3>2. CASE d # c
      BY <1>1, <1>2, <2>1, <3>2 DEF CountPart, TypeOK
    <3>3. QED
      BY <3>1, <3>2
  <2>3. QED
    BY <1>2, <2>2 DEF CountPart, Holders
<1>11. QED
  BY <1>5, <1>6, <1>7, <1>8, <1>9, <1>10

LEMMA AllocationFailsStep ==
  ASSUME IInv, NEW t \in Threads, AllocationFails(t)
  PROVE  IInv'
<1> USE DEF IInv
<1>1. /\ pc[t] = "new" /\ pc' = [pc EXCEPT ![t] = "unlock"]
      /\ asked' = [asked EXCEPT ![t] = None]
      /\ UNCHANGED <<locker, block, instance, handle, life, version_, exports, use_count>>
  BY DEF AllocationFails, Goto, heap
<1>2. TypeOK'
  BY <1>1 DEF TypeOK, Labels
<1>3. LockPart'
  BY <1>1 DEF LockPart, OneInside, TypeOK, Locked, Building
<1>4. ThreadPart'
  BY <1>1 DEF ThreadPart, TypeOK, Building
<1>5. BlockPart'
  BY <1>1 DEF BlockPart, TypeOK, Building
<1>6. SharedPart' /\ CountPart'
  BY <1>1 DEF SharedPart, CountPart, Holders
<1>7. HolderSafe'
  BY <1>1 DEF HolderSafe, ThreadPart, TypeOK
<1>8. QED
  BY <1>2, <1>3, <1>4, <1>5, <1>6, <1>7

\* The stages of the constructor change only the block under construction.
LEMMA ConstructStep ==
  ASSUME IInv, NEW t \in Threads, Construct(t)
  PROVE  IInv'
<1> USE DEF IInv
<1> DEFINE c == block[t]
           label == pc'[t]
<1>1. /\ pc[t] \in {"env", "register", "level"}
      /\ c \in Contexts /\ life[c] = "built" /\ use_count[c] = 0
      /\ instance # c /\ \A u \in Threads : handle[u] # c
  BY CountFacts DEF Construct, CreateEnv, RegisterBase, RegisterLevel,
     ThreadPart, BlockPart, TypeOK, Building
<1>2. /\ label \in {"register", "level", "publish"} /\ pc' = [pc EXCEPT ![t] = label]
      /\ exports' = [exports EXCEPT ![c] = Exported(label, asked[t])]
      /\ label = "level" => AtLevel(asked[t])
      /\ UNCHANGED <<locker, asked, block, instance, handle, life, version_, use_count>>
  <2>1. CASE CreateEnv(t)
    BY <2>1 DEF CreateEnv, Export, Goto, TypeOK, BlockPart, Building, Exported
  <2>2. CASE RegisterBase(t)
    BY <2>2 DEF RegisterBase, Export, Goto, TypeOK, BlockPart, Building, Exported,
       ExportsOf
  <2>3. CASE RegisterLevel(t)
    BY <2>3 DEF RegisterLevel, Export, Goto, TypeOK, BlockPart, Building, Exported,
       ExportsOf
  <2>4. QED
    BY <2>1, <2>2, <2>3 DEF Construct
<1>3. Exported(label, asked[t]) \in SUBSET Groups
  BY DEF Exported, ExportsOf, Groups
<1> HIDE DEF c, label
<1>4. TypeOK'
  BY <1>1, <1>2, <1>3 DEF TypeOK, Labels
<1>5. LockPart'
  BY <1>1, <1>2 DEF LockPart, OneInside, TypeOK, Locked, Building
<1>6. ThreadPart'
  BY <1>1, <1>2 DEF ThreadPart, TypeOK, Building
<1>7. BlockPart'
  <2>1. ASSUME NEW u \in Threads, pc'[u] \in Building
        PROVE  /\ life'[block'[u]] = "built" /\ use_count'[block'[u]] = 0
               /\ version_'[block'[u]] = asked'[u]
               /\ exports'[block'[u]] = Exported(pc'[u], asked'[u])
               /\ pc'[u] = "level" => AtLevel(asked'[u])
    <3>1. CASE u = t
      BY <1>1, <1>2, <3>1 DEF TypeOK, BlockPart, Building, c
    <3>2. CASE u # t
      <4>1. pc'[u] = pc[u] /\ block[u] # c /\ block[u] \in Contexts
        BY <1>1, <1>2, <2>1, <3>2 DEF TypeOK, ThreadPart, BlockPart, c
      <4>2. QED
        BY <1>1, <1>2, <2>1, <4>1 DEF TypeOK, BlockPart
    <3>3. QED
      BY <3>1, <3>2
  <2>2. ASSUME NEW u \in Threads, pc'[u] \in {"replaced", "dropped"}
        PROVE  life'[block'[u]] = "live" /\ use_count'[block'[u]] = 0
    BY <1>1, <1>2, <2>2 DEF TypeOK, BlockPart
  <2>3. \A d \in Contexts : life'[d] = "free" => exports'[d] = {}
    BY <1>1, <1>2 DEF TypeOK, BlockPart
  <2>4. QED
    BY <1>2, <2>1, <2>2, <2>3 DEF BlockPart
<1>8. SharedPart' /\ HolderSafe'
  BY <1>1, <1>2 DEF SharedPart, HolderSafe, TypeOK
<1>9. CountPart'
  BY <1>2 DEF CountPart, Holders
<1>10. QED
  BY <1>4, <1>5, <1>6, <1>7, <1>8, <1>9

\* A block whose use_count is zero is released by the one thread that has it.
LEMMA ReleaseStep ==
  ASSUME IInv, NEW t \in Threads, Throw(t) \/ Destroy(t)
  PROVE  IInv'
<1> USE DEF IInv
<1> DEFINE c == block[t]
           label == pc'[t]
<1>1. /\ c \in Contexts /\ use_count[c] = 0
      /\ instance # c /\ \A u \in Threads : handle[u] # c
  BY CountFacts DEF Throw, Destroy, ThreadPart, BlockPart, TypeOK, Building
<1>2. /\ pc' = [pc EXCEPT ![t] = label]
      /\ \/ /\ pc[t] \in Building /\ label = "unlock"
            /\ asked' = [asked EXCEPT ![t] = None]
         \/ /\ asked' = asked
            /\ \/ pc[t] = "replaced" /\ label = "copy"
               \/ pc[t] = "dropped" /\ label = "idle"
      /\ life' = [life EXCEPT ![c] = "free"]
      /\ version_' = [version_ EXCEPT ![c] = None]
      /\ exports' = [exports EXCEPT ![c] = {}]
      /\ block' = [block EXCEPT ![t] = None]
      /\ UNCHANGED <<locker, instance, handle, use_count>>
  BY DEF Throw, Destroy, ReleaseBlock, Goto, TypeOK
<1>3. \A u \in Threads \ {t} : block[u] # c
  BY <1>1, NoneAssumption DEF BlockPart, c
<1> HIDE DEF c, label
<1>4. TypeOK'
  BY <1>1, <1>2 DEF TypeOK, Labels
<1>5. LockPart'
  BY <1>2 DEF LockPart, OneInside, TypeOK, Locked, Building
<1>6. ThreadPart'
  <2>1. instance # None => version_'[instance] = version_[instance]
    BY <1>1, <1>2 DEF TypeOK
  <2>2. QED
    BY <1>1, <1>2, <2>1 DEF ThreadPart, TypeOK, Building
<1>7. BlockPart'
  <2>1. ASSUME NEW u \in Threads, pc'[u] \in Building \cup {"replaced", "dropped"}
        PROVE  u # t /\ pc'[u] = pc[u] /\ block'[u] = block[u] /\ block[u] \in Contexts \ {c}
    BY <1>2, <1>3, <2>1 DEF TypeOK, ThreadPart, Building
  <2>2. ASSUME NEW u \in Threads, pc'[u] \in Building
        PROVE  /\ life'[block'[u]] = "built" /\ use_count'[block'[u]] = 0
               /\ version_'[block'[u]] = asked'[u]
               /\ exports'[block'[u]] = Exported(pc'[u], asked'[u])
               /\ pc'[u] = "level" => AtLevel(asked'[u])
    BY <1>1, <1>2, <2>1, <2>2 DEF TypeOK, BlockPart
  <2>3. ASSUME NEW u \in Threads, pc'[u] \in {"replaced", "dropped"}
        PROVE  life'[block'[u]] = "live" /\ use_count'[block'[u]] = 0
    BY <1>1, <1>2, <2>1, <2>3 DEF TypeOK, BlockPart
  <2>4. \A u, w \in Threads : block'[u] # None /\ block'[u] = block'[w] => u = w
    BY <1>2 DEF TypeOK, BlockPart
  <2>5. \A d \in Contexts : life'[d] = "free" => exports'[d] = {}
    BY <1>2 DEF TypeOK, BlockPart
  <2>6. QED
    BY <2>2, <2>3, <2>4, <2>5 DEF BlockPart
<1>8. SharedPart'
  BY <1>1, <1>2 DEF SharedPart, TypeOK
<1>9. HolderSafe'
  BY <1>1, <1>2 DEF HolderSafe, ThreadPart, TypeOK, Building
<1>10. CountPart'
  <2> SUFFICES ASSUME NEW d \in Contexts
               PROVE  /\ use_count'[d] = Cardinality(Holders(d)') + (IF instance' = d THEN 1 ELSE 0)
                      /\ life'[d] # "live" => use_count'[d] = 0
                      /\ life'[d] # "free" /\ use_count'[d] = 0 => \E u \in Threads : block'[u] = d
    BY DEF CountPart
  <2>1. Holders(d)' = Holders(d) /\ use_count'[d] = use_count[d] /\ instance' = instance
    BY <1>2 DEF Holders
  <2>2. life'[d] = IF d = c THEN "free" ELSE life[d]
    BY <1>2 DEF TypeOK
  <2>3. \A u \in Threads : block[u] = d /\ d # c => block'[u] = d
    BY <1>2 DEF TypeOK, c
  <2>4. QED
    BY <1>1, <2>1, <2>2, <2>3 DEF CountPart
<1>11. QED
  BY <1>4, <1>5, <1>6, <1>7, <1>8, <1>9, <1>10

\* The static takes a finished context; nobody holds a copy of it yet.
LEMMA PublishFirstStep ==
  ASSUME IInv, NEW t \in Threads, PublishFirst(t)
  PROVE  IInv'
<1> USE DEF IInv
<1> DEFINE c == block[t]
<1>1. /\ pc[t] = "publish" /\ instance = None
      /\ c \in Contexts /\ life[c] = "built" /\ use_count[c] = 0
      /\ version_[c] = asked[t] /\ asked[t] \in Versions
      /\ exports[c] = ExportsOf(asked[t])
      /\ \A u \in Threads : handle[u] # c
  BY CountFacts DEF PublishFirst, ThreadPart, BlockPart, TypeOK, Building, Exported
<1>2. /\ pc' = [pc EXCEPT ![t] = "check"]
      /\ instance' = c
      /\ life' = [life EXCEPT ![c] = "live"]
      /\ use_count' = [use_count EXCEPT ![c] = 1]
      /\ block' = [block EXCEPT ![t] = None]
      /\ UNCHANGED <<locker, asked, handle, version_, exports>>
  BY DEF PublishFirst, Goto
<1>3. \A u \in Threads \ {t} : block[u] # c /\ pc[u] \notin Locked
  BY <1>1, NoneAssumption DEF BlockPart, LockPart, OneInside, Locked, Building, c
<1> HIDE DEF c
<1>4. TypeOK'
  BY <1>1, <1>2 DEF TypeOK, Labels
<1>5. LockPart'
  BY <1>1, <1>2 DEF LockPart, OneInside, TypeOK, Locked, Building
<1>6. ThreadPart'
  BY <1>1, <1>2, <1>3, NoneAssumption DEF ThreadPart, TypeOK, Building, Locked
<1>7. BlockPart'
  <2>1. ASSUME NEW u \in Threads, pc'[u] \in Building \cup {"replaced", "dropped"}
        PROVE  u # t /\ pc'[u] = pc[u] /\ block'[u] = block[u] /\ block[u] \in Contexts \ {c}
    BY <1>2, <1>3, <2>1 DEF TypeOK, ThreadPart, Building
  <2>2. QED
    BY <1>1, <1>2, <2>1 DEF TypeOK, BlockPart
<1>8. SharedPart' /\ HolderSafe'
  BY <1>1, <1>2 DEF SharedPart, HolderSafe, TypeOK
<1>9. CountPart'
  <2>1. Holders(c) = {} /\ \A d : Holders(d)' = Holders(d)
    BY <1>1, <1>2 DEF Holders
  <2>2. Cardinality(Holders(c)) = 0
    BY <2>1, FS_EmptySet
  <2>3. \A d \in Contexts : Cardinality(Holders(d)) \in Nat
    BY HoldersFinite
  <2>4. ASSUME NEW d \in Contexts
        PROVE  use_count'[d] = Cardinality(Holders(d)) + (IF instance' = d THEN 1 ELSE 0)
    <3>1. instance # d
      BY <1>1, NoneAssumption
    <3>2. QED
      BY <1>1, <1>2, <2>2, <2>3, <3>1 DEF CountPart, TypeOK
  <2>5. ASSUME NEW d \in Contexts
        PROVE  /\ life'[d] # "live" => use_count'[d] = 0
               /\ life'[d] # "free" /\ use_count'[d] = 0 => \E u \in Threads : block'[u] = d
    BY <1>1, <1>2, <1>3 DEF CountPart, TypeOK, c
  <2>6. QED
    BY <2>1, <2>4, <2>5 DEF CountPart
<1>10. QED
  BY <1>4, <1>5, <1>6, <1>7, <1>8, <1>9

\* The static takes a finished context and gives up the old one, which the
\* thread keeps in hand exactly if no caller has a copy of it.
LEMMA ReplaceStep ==
  ASSUME IInv, NEW t \in Threads, Replace(t)
  PROVE  IInv'
<1> USE DEF IInv
<1> DEFINE c == block[t]
           label == pc'[t]
<1>1. /\ pc[t] = "publish" /\ instance \in Contexts
      /\ c \in Contexts /\ life[c] = "built" /\ use_count[c] = 0 /\ c # instance
      /\ version_[c] = asked[t] /\ asked[t] \in Versions
      /\ exports[c] = ExportsOf(asked[t])
      /\ \A u \in Threads : handle[u] # c
      /\ life[instance] = "live" /\ use_count[instance] \in Nat \ {0}
  BY CountFacts DEF Replace, ThreadPart, BlockPart, TypeOK, Building, Exported, SharedPart
<1>2. /\ pc' = [pc EXCEPT ![t] = label]
      /\ instance' = c
      /\ life' = [life EXCEPT ![c] = "live"]
      /\ use_count' = [use_count EXCEPT ![c] = 1, ![instance] = use_count[instance] - 1]
      /\ \/ /\ use_count[instance] = 1 /\ label = "replaced"
            /\ block' = [block EXCEPT ![t] = instance]
         \/ /\ use_count[instance] # 1 /\ label = "copy"
            /\ block' = [block EXCEPT ![t] = None]
      /\ UNCHANGED <<locker, asked, handle, version_, exports>>
  BY DEF Replace, Goto, TypeOK
<1>3. \A u \in Threads \ {t} : block[u] # c /\ pc[u] \notin Locked
  BY <1>1, NoneAssumption DEF BlockPart, LockPart, OneInside, Locked, Building, c
<1>4. \A u \in Threads : block[u] # instance
  BY <1>1, NoneAssumption DEF ThreadPart, BlockPart, TypeOK, Building
<1>5. use_count[instance] = 1 => \A u \in Threads : handle[u] # instance
  BY <1>1, CountFacts
<1> HIDE DEF c, label
<1>6. TypeOK'
  BY <1>1, <1>2 DEF TypeOK, Labels
<1>7. LockPart'
  BY <1>1, <1>2 DEF LockPart, OneInside, TypeOK, Locked, Building
<1>8. ThreadPart'
  BY <1>1, <1>2, <1>3, NoneAssumption DEF ThreadPart, TypeOK, Building, Locked
<1>9. BlockPart'
  <2>1. ASSUME NEW u \in Threads \ {t}, pc'[u] \in Building \cup {"replaced", "dropped"}
        PROVE  /\ pc'[u] = pc[u] /\ block'[u] = block[u]
               /\ block[u] \in Contexts \ {c, instance}
    BY <1>2, <1>3, <1>4, <2>1 DEF TypeOK, ThreadPart, Building
  <2>2. ASSUME NEW u \in Threads, pc'[u] \in Building
        PROVE  /\ life'[block'[u]] = "built" /\ use_count'[block'[u]] = 0
               /\ version_'[block'[u]] = asked'[u]
               /\ exports'[block'[u]] = Exported(pc'[u], asked'[u])
               /\ pc'[u] = "level" => AtLevel(asked'[u])
    <3>1. u # t
      BY <1>2, <2>2 DEF TypeOK, Building
    <3>2. QED
      BY <1>1, <1>2, <2>1, <2>2, <3>1 DEF TypeOK, BlockPart
  <2>3. ASSUME NEW u \in Threads, pc'[u] \in {"replaced", "dropped"}
        PROVE  life'[block'[u]] = "live" /\ use_count'[block'[u]] = 0
    <3>1. CASE u = t
      BY <1>1, <1>2, <2>3, <3>1 DEF TypeOK
    <3>2. CASE u # t
      BY <1>1, <1>2, <2>1, <2>3, <3>2 DEF TypeOK, BlockPart
    <3>3. QED
      BY <3>1, <3>2
  <2>4. \A u, w \in Threads : block'[u] # None /\ block'[u] = block'[w] => u = w
    BY <1>2, <1>4 DEF TypeOK, BlockPart
  <2>5. \A d \in Contexts : life'[d] = "free" => exports'[d] = {}
    BY <1>2 DEF TypeOK, BlockPart
  <2>6. QED
    BY <2>2, <2>3, <2>4, <2>5 DEF BlockPart
<1>10. SharedPart' /\ HolderSafe'
  BY <1>1, <1>2 DEF SharedPart, HolderSafe, TypeOK
<1>11. CountPart'
  <2>1. Holders(c) = {} /\ \A d : Holders(d)' = Holders(d)
    BY <1>1, <1>2 DEF Holders
  <2>2. Cardinality(Holders(c)) = 0
    BY <2>1, FS_EmptySet
  <2>3. \A d \in Contexts : Cardinality(Holders(d)) \in Nat
    BY HoldersFinite
  <2>4. ASSUME NEW d \in Contexts
        PROVE  use_count'[d] = Cardinality(Holders(d)) + (IF instance' = d THEN 1 ELSE 0)
    BY <1>1, <1>2, <2>2, <2>3 DEF CountPart, TypeOK
  <2>5. ASSUME NEW d \in Contexts
        PROVE  /\ life'[d] # "live" => use_count'[d] = 0
               /\ life'[d] # "free" /\ use_count'[d] = 0 => \E u \in Threads : block'[u] = d
    BY <1>1, <1>2, <1>3 DEF CountPart, TypeOK, c
  <2>6. QED
    BY <2>1, <2>4, <2>5 DEF CountPart
<1>12. QED
  BY <1>6, <1>7, <1>8, <1>9, <1>10, <1>11

\* The copy returned is one more owner, counted while the lock is still held.
LEMMA CopyStep ==
  ASSUME IInv, NEW t \in Threads, Copy(t)
  PROVE  IInv'
<1> USE DEF IInv
<1>1. /\ pc[t] = "copy" /\ instance \in Contexts /\ handle[t] = None
      /\ life[instance] = "live" /\ version_[instance] = asked[t]
      /\ exports[instance] = ExportsOf(asked[t])
      /\ use_count[instance] \in Nat \ {0}
  BY CountFacts DEF Copy, ThreadPart, SharedPart, TypeOK
<1>2. /\ pc' = [pc EXCEPT ![t] = "unlock"]
      /\ use_count' = [use_count EXCEPT ![instance] = use_count[instance] + 1]
      /\ handle' = [handle EXCEPT ![t] = instance]
      /\ UNCHANGED <<locker, asked, block, instance, life, version_, exports>>
  BY DEF Copy, Goto
<1>3. \A u \in Threads : block[u] # instance
  BY <1>1, NoneAssumption DEF ThreadPart, BlockPart, TypeOK, Building
<1>4. TypeOK'
  BY <1>1, <1>2 DEF TypeOK, Labels
<1>5. LockPart'
  BY <1>1, <1>2 DEF LockPart, OneInside, TypeOK, Locked, Building
<1>6. ThreadPart'
  BY <1>1, <1>2, NoneAssumption DEF ThreadPart, TypeOK, Building
<1>7. BlockPart'
  BY <1>1, <1>2, <1>3, NoneAssumption DEF BlockPart, ThreadPart, TypeOK, Building
<1>8. SharedPart' /\ HolderSafe'
  BY <1>1, <1>2 DEF SharedPart, HolderSafe, TypeOK
<1>9. CountPart'
  <2>1. Holders(instance)' = Holders(instance) \cup {t} /\ t \notin Holders(instance)
    BY <1>1, <1>2, NoneAssumption DEF Holders, TypeOK
  <2>2. Cardinality(Holders(instance)') = Cardinality(Holders(instance)) + 1
    BY <2>1, HoldersFinite, FS_AddElement
  <2>3. \A d \in Contexts \ {instance} : Holders(d)' = Holders(d)
    BY <1>1, <1>2, NoneAssumption DEF Holders, TypeOK
  <2>4. ASSUME NEW d \in Contexts
        PROVE  use_count'[d] = Cardinality(Holders(d)') + (IF instance' = d THEN 1 ELSE 0)
    <3>1. CASE d = instance
      BY <1>1, <1>2, <2>2, <3>1, HoldersFinite DEF CountPart, TypeOK
    <3>2. CASE d # instance
      BY <1>1, <1>2, <2>3, <3>2 DEF CountPart, TypeOK
    <3>3. QED
      BY <3>1, <3>2
  <2>5. ASSUME NEW d \in Contexts
        PROVE  /\ life'[d] # "live" => use_count'[d] = 0
               /\ life'[d] # "free" /\ use_count'[d] = 0 => \E u \in Threads : block'[u] = d
    BY <1>1, <1>2 DEF CountPart, TypeOK
  <2>6. QED
    BY <2>4, <2>5 DEF CountPart
<1>10. QED
  BY <1>4, <1>5, <1>6, <1>7, <1>8, <1>9

\* A caller lets go; if it was the last owner it has the block in hand.
LEMMA DropStep ==
  ASSUME IInv, NEW t \in Threads, Drop(t)
  PROVE  IInv'
<1> USE DEF IInv
<1> DEFINE label == pc'[t]
<1>0. PICK c : c = handle[t]
  OBVIOUS
<1>1. /\ pc[t] = "using" /\ c \in Contexts /\ block[t] = None
      /\ life[c] = "live" /\ use_count[c] \in Nat \ {0}
  BY <1>0, CountFacts DEF Drop, ThreadPart, HolderSafe, TypeOK, Building
<1>2. /\ pc' = [pc EXCEPT ![t] = label]
      /\ use_count' = [use_count EXCEPT ![c] = use_count[c] - 1]
      /\ \/ /\ use_count[c] = 1 /\ label = "dropped"
            /\ block' = [block EXCEPT ![t] = c]
         \/ /\ use_count[c] # 1 /\ label = "idle"
            /\ block' = block
      /\ handle' = [handle EXCEPT ![t] = None]
      /\ asked' = [asked EXCEPT ![t] = None]
      /\ UNCHANGED <<locker, instance, life, version_, exports>>
  BY <1>0 DEF Drop, Goto, TypeOK
<1>3. \A u \in Threads : block[u] # c
  BY <1>1, NoneAssumption DEF ThreadPart, BlockPart, TypeOK, Building
<1>4. use_count[c] = 1 => instance # c /\ \A u \in Threads \ {t} : handle[u] # c
  BY <1>0, <1>1, CountFacts
<1>5. t \in Holders(c) /\ Holders(c)' = Holders(c) \ {t}
  BY <1>0, <1>1, <1>2, NoneAssumption DEF Holders, TypeOK
<1>6. \A d \in Contexts \ {c} : Holders(d)' = Holders(d)
  BY <1>0, <1>1, <1>2, NoneAssumption DEF Holders, TypeOK
<1>7. Cardinality(Holders(c)') = Cardinality(Holders(c)) - 1
  BY <1>5, HoldersFinite, FS_RemoveElement
<1>8. CountPart!(c)
  BY <1>1 DEF CountPart
<1> HIDE DEF label
<1>9. TypeOK'
  BY <1>1, <1>2 DEF TypeOK, Labels
<1>10. LockPart'
  BY <1>1, <1>2 DEF LockPart, OneInside, TypeOK, Locked, Building
<1>11. ThreadPart'
  BY <1>1, <1>2, NoneAssumption DEF ThreadPart, TypeOK, Building
<1>12. BlockPart'
  <2>1. ASSUME NEW u \in Threads \ {t}, pc'[u] \in Building \cup {"replaced", "dropped"}
        PROVE  /\ pc'[u] = pc[u] /\ block'[u] = block[u] /\ asked'[u] = asked[u]
               /\ block[u] \in Contexts \ {c}
    BY <1>1, <1>2, <1>3, <2>1 DEF TypeOK, ThreadPart, Building
  <2>2. ASSUME NEW u \in Threads, pc'[u] \in Building
        PROVE  /\ life'[block'[u]] = "built" /\ use_count'[block'[u]] = 0
               /\ version_'[block'[u]] = asked'[u]
               /\ exports'[block'[u]] = Exported(pc'[u], asked'[u])
               /\ pc'[u] = "level" => AtLevel(asked'[u])
    <3>1. u # t
      BY <1>2, <2>2 DEF TypeOK, Building
    <3>2. QED
      BY <1>1, <1>2, <2>1, <2>2, <3>1 DEF TypeOK, BlockPart
  <2>3. ASSUME NEW u \in Threads, pc'[u] \in {"replaced", "dropped"}
        PROVE  life'[block'[u]] = "live" /\ use_count'[block'[u]] = 0
    <3>1. CASE u = t
      BY <1>1, <1>2, <2>3, <3>1 DEF TypeOK
    <3>2. CASE u # t
      BY <1>1, <1>2, <2>1, <2>3, <3>2 DEF TypeOK, BlockPart
    <3>3. QED
      BY <3>1, <3>2
  <2>4. \A u, w \in Threads : block'[u] # None /\ block'[u] = block'[w] => u = w
    BY <1>2, <1>3 DEF TypeOK, BlockPart
  <2>5. \A d \in Contexts : life'[d] = "free" => exports'[d] = {}
    BY <1>2 DEF TypeOK, BlockPart
  <2>6. QED
    BY <2>2, <2>3, <2>4, <2>5 DEF BlockPart
<1>13. SharedPart' /\ HolderSafe'
  BY <1>1, <1>2, NoneAssumption DEF SharedPart, HolderSafe, TypeOK
<1>14. CountPart'
  <2>1. ASSUME NEW d \in Contexts
        PROVE  use_count'[d] = Cardinality(Holders(d)') + (IF instance' = d THEN 1 ELSE 0)
    <3>1. CASE d = c
      BY <1>1, <1>2, <1>7, <1>8, <3>1, HoldersFinite DEF TypeOK
    <3>2. CASE d # c
      BY <1>1, <1>2, <1>6, <3>2 DEF CountPart, TypeOK
    <3>3. QED
      BY <3>1, <3>2
  <2>2. ASSUME NEW d \in Contexts
        PROVE  /\ life'[d] # "live" => use_count'[d] = 0
               /\ life'[d] # "free" /\ use_count'[d] = 0 => \E u \in Threads : block'[u] = d
    <3>1. CASE d = c
      BY <1>1, <1>2, <3>1 DEF TypeOK
    <3>2. CASE d # c
      BY <1>1, <1>2, <3>2, NoneAssumption DEF CountPart, TypeOK
    <3>3. QED
      BY <3>1, <3>2
  <2>3. QED
    BY <2>1, <2>2 DEF CountPart
<1>15. QED
  BY <1>9, <1>10, <1>11, <1>12, <1>13, <1>14

-----------------------------------------------------------------------------
LEMMA StepIInv == IInv /\ [Next]_vars => IInv'
<1> SUFFICES ASSUME IInv, [Next]_vars PROVE IInv'
  OBVIOUS
<1>1. CASE UNCHANGED vars
  <2> USE <1>1 DEF vars, control, heap, IInv
  <2>1. TypeOK' /\ LockPart' /\ ThreadPart'
    BY DEF TypeOK, LockPart, OneInside, ThreadPart
  <2>2. BlockPart' /\ SharedPart' /\ HolderSafe'
    BY DEF BlockPart, SharedPart, HolderSafe
  <2>3. CountPart'
    BY DEF CountPart, Holders
  <2>4. QED
    BY <2>1, <2>2, <2>3
<1>2. ASSUME NEW t \in Threads, GetInstance(t) PROVE IInv'
  BY <1>2, QuietStep, AllocateStep, AllocationFailsStep, ConstructStep, ReleaseStep,
     PublishFirstStep, ReplaceStep, CopyStep DEF GetInstance
<1>3. QED
  BY <1>1, <1>2, QuietStep, ReleaseStep, DropStep DEF Next

\* Every part of IInv holds in every reachable state.
THEOREM Invariance == SafeSpec => []IInv
  BY InitIInv, StepIInv, PTL DEF SafeSpec

\* The state keeps its types, use_count included: it never goes below zero.
THEOREM TypeCorrect == Spec => []TypeOK
  BY Invariance, PTL DEF Spec, IInv

\* One thread at a time is between the lock_guard's two ends.
THEOREM GetInstanceExcludes == Spec => []OneInside
  BY Invariance, PTL DEF Spec, IInv, LockPart

\* A caller's context stays alive, of its version and completely registered.
THEOREM HoldersAreSafe == Spec => []HolderSafe
  BY Invariance, PTL DEF Spec, IInv

\* use_count is the number of owners, and every block that is not free has
\* owners or is in the hands of exactly one thread.
THEOREM OwnershipHolds == Spec => []Ownership
<1>1. IInv => Ownership
  <2> SUFFICES ASSUME IInv, NEW c \in Contexts PROVE Ownership!(c)
    BY DEF Ownership
  <2> USE DEF IInv
  <2>1. \A t \in Threads : block[t] = c => life[c] # "free" /\ use_count[c] = 0
    BY NoneAssumption DEF ThreadPart, BlockPart, TypeOK, Building
  <2>2. ASSUME life[c] # "free", use_count[c] = 0 PROVE Cardinality(Keepers(c)) = 1
    <3>1. PICK t \in Threads : block[t] = c
      BY <2>2 DEF CountPart
    <3>2. Keepers(c) = {t}
      BY <3>1, NoneAssumption DEF Keepers, BlockPart
    <3>3. QED
      BY <3>2, FS_Singleton
  <2>3. QED
    BY <2>1, <2>2 DEF CountPart, Keepers, TypeOK
<1>2. QED
  BY <1>1, Invariance, PTL DEF Spec

-----------------------------------------------------------------------------
\* A step of a thread that stays on its side of the lock is invisible to it.
LEMMA LockStep ==
  ASSUME IInv, [Next]_vars
  PROVE  [Lock!LockNext]_Lock!lockVars
<1> USE DEF IInv
<1> SUFFICES \/ UNCHANGED <<locker, LockAt>>
             \/ \E t \in Threads : Lock!Begin(t) \/ Lock!TestAndSet(t) \/ Lock!Unlock(t)
  BY DEF Lock!LockNext, Lock!lockVars
<1>1. ASSUME NEW t \in Threads, NEW v \in Versions, Call(t, v) PROVE Lock!Begin(t)
  BY <1>1 DEF Call, Goto, Lock!Begin, LockAt, Locked, Building, TypeOK
<1>2. ASSUME NEW t \in Threads, Acquire(t) PROVE Lock!TestAndSet(t)
  BY <1>2 DEF Acquire, Goto, Lock!TestAndSet, LockAt, Locked, Building, TypeOK
<1>3. ASSUME NEW t \in Threads, Release(t) PROVE Lock!Unlock(t)
  BY <1>3 DEF Release, Goto, Lock!Unlock, LockAt, Locked, Building, TypeOK
<1>4. ASSUME NEW t \in Threads,
             \/ Static(t) \/ Check(t) \/ Allocate(t) \/ AllocationFails(t)
             \/ Construct(t) \/ Throw(t) \/ PublishFirst(t) \/ Replace(t)
             \/ Copy(t) \/ Destroy(t) \/ Drop(t)
      PROVE  UNCHANGED <<locker, LockAt>>
  <2>1. /\ UNCHANGED locker
        /\ \E label \in Labels \ {"lock"} :
              /\ pc' = [pc EXCEPT ![t] = label]
              /\ pc[t] # "lock" /\ (label \in Locked <=> pc[t] \in Locked)
    BY <1>4 DEF Static, Check, Allocate, AllocationFails, Construct, CreateEnv,
       RegisterBase, RegisterLevel, Export, Throw, PublishFirst, Replace, Copy, Destroy,
       Drop, Goto, Labels, Locked, Building
  <2>2. QED
    BY <2>1 DEF LockAt, TypeOK
<1>5. CASE UNCHANGED vars
  BY <1>5 DEF vars, control, LockAt
<1>6. QED
  BY <1>1, <1>2, <1>3, <1>4, <1>5 DEF Next, GetInstance

\* GetInstance uses the lock as SpinLock specifies it, on every path.
THEOREM LockRefined == Spec => ImplementsSpinLock
<1>1. Init => Lock!LockInit
  BY DEF Init, Lock!LockInit, LockAt, Locked, Building
<1>2. QED
  BY <1>1, LockStep, Invariance, PTL DEF Spec, SafeSpec, ImplementsSpinLock, Lock!LockSafeSpec

-----------------------------------------------------------------------------
StepOf(t) == \/ \E v \in Versions : Call(t, v)
             \/ GetInstance(t) \/ Destroy(t) \/ Drop(t)

\* No step changes the version of a context that somebody uses or shares.
LEMMA VersionKept ==
  ASSUME IInv, NEW t \in Threads, StepOf(t)
  PROVE  /\ instance # None => version_'[instance] = version_[instance]
         /\ \A u \in Threads : handle[u] # None =>
               version_'[handle[u]] = version_[handle[u]]
<1> USE DEF IInv
<1> SUFFICES ASSUME NEW c \in Contexts, c = instance \/ \E u \in Threads : handle[u] = c
             PROVE  version_'[c] = version_[c]
  BY DEF TypeOK
<1>1. /\ life[c] = "live" /\ use_count[c] >= 1
      /\ \A u \in Threads : block[u] # c
  BY CountFacts, NoneAssumption DEF CountPart, ThreadPart, BlockPart, TypeOK, Building
<1>2. CASE UNCHANGED version_
  BY <1>2
<1>4. CASE Allocate(t)
  <2>1. PICK d \in Contexts : life[d] = "free" /\ version_' = [version_ EXCEPT ![d] = asked[t]]
    BY <1>4 DEF Allocate
  <2>2. QED
    BY <1>1, <2>1 DEF TypeOK
<1>5. CASE Throw(t) \/ Destroy(t)
  BY <1>1, <1>5 DEF Throw, Destroy, ReleaseBlock, TypeOK
<1>6. QED
  BY <1>2, <1>4, <1>5 DEF StepOf, GetInstance, Call, Acquire, Static, Check,
     AllocationFails, Construct, CreateEnv, RegisterBase, RegisterLevel, Export,
     PublishFirst, Replace, Copy, Release, Drop, heap

\* A step of one thread is invisible in what the service owes the others.
LEMMA OthersKept ==
  ASSUME IInv, NEW t \in Threads, StepOf(t), NEW u \in Threads \ {t}
  PROVE  Wanted'[u] = Wanted[u] /\ Held'[u] = Held[u]
<1> USE DEF IInv
<1>1. pc'[u] = pc[u] /\ asked'[u] = asked[u] /\ handle'[u] = handle[u]
  BY DEF StepOf, GetInstance, Call, Acquire, Static, Check, Allocate,
     AllocationFails, Construct, CreateEnv, RegisterBase, RegisterLevel, Export, Throw,
     PublishFirst, Replace, Copy, Release, Drop, Destroy, Goto, TypeOK
<1>2. Ref(handle[u])' = Ref(handle[u])
  BY <1>1, VersionKept DEF Ref
<1>3. Served(u) => instance' = instance
  BY DEF Served, LockPart, OneInside, Locked, Building, StepOf, GetInstance, Call,
     Acquire, Static, Check, Allocate, AllocationFails, Construct, CreateEnv,
     RegisterBase, RegisterLevel, Export, Throw, PublishFirst, Replace, Copy, Release,
     Drop, Destroy
<1>4. Served(u)' <=> Served(u)
  <2>1. pc[u] \in {"check", "replaced", "copy"} => instance' = instance
    BY DEF LockPart, OneInside, Locked, Building, StepOf, GetInstance, Call,
       Acquire, Static, Check, Allocate, AllocationFails, Construct, CreateEnv,
       RegisterBase, RegisterLevel, Export, Throw, PublishFirst, Replace, Copy, Release,
       Drop, Destroy
  <2>2. QED
    BY <1>1, <2>1, VersionKept DEF Served
<1>5. Served(u) => Ref(instance)' = Ref(instance)
  BY <1>3, VersionKept DEF Ref, Served
<1>6. QED
  BY <1>1, <1>2, <1>4, <1>5 DEF Wanted, Held

\* What the service owes thread t, in terms of the thread's own state.
LEMMA ServiceOf ==
  ASSUME IInv, NEW t \in Threads, StepOf(t)
  PROVE  /\ Wanted' = [Wanted EXCEPT ![t] = Wanted'[t]]
         /\ Held' = [Held EXCEPT ![t] = Held'[t]]
<1>1. \A u \in Threads \ {t} : Wanted'[u] = Wanted[u] /\ Held'[u] = Held[u]
  BY OthersKept
<1>2. /\ Wanted = [u \in Threads |-> Wanted[u]] /\ Held = [u \in Threads |-> Held[u]]
      /\ Wanted' = [u \in Threads |-> Wanted'[u]] /\ Held' = [u \in Threads |-> Held'[u]]
  BY DEF Wanted, Held
<1> HIDE DEF Wanted, Held
<1>3. QED
  BY <1>1, <1>2

LEMMA InUseOwned ==
  ASSUME IInv, NEW r \in Service!InUse
  PROVE  r = instance \/ \E t \in Threads : handle[t] = r
<1>1. /\ \A t \in Threads : Held[t] \in {Ref(instance), Ref(handle[t])}
      /\ \A c : Ref(c) # None => c # None /\ Ref(c).id = c
  BY DEF Held, Ref
<1>2. QED
  BY <1>1 DEF Service!InUse

\* A context is built only for a version the shared one does not have.
NewPart == \A t \in Threads : pc[t] \in {"new"} \cup Building /\ instance # None
                                 => version_[instance] # asked[t]

LEMMA NewPartHolds == SafeSpec => []NewPart
<1>1. Init => NewPart
  BY DEF Init, NewPart, Building
<1>2. IInv /\ NewPart /\ [Next]_vars => NewPart'
  <2> SUFFICES ASSUME IInv, NewPart, [Next]_vars PROVE NewPart'
    OBVIOUS
  <2>1. CASE UNCHANGED vars
    BY <2>1 DEF vars, control, heap, NewPart
  <2>2. ASSUME NEW t \in Threads, StepOf(t) PROVE NewPart'
    <3> SUFFICES ASSUME NEW u \in Threads, pc'[u] \in {"new"} \cup Building, instance' # None
                 PROVE  version_'[instance'] # asked'[u]
      BY DEF NewPart
    <3>1. instance' = instance
      BY <2>2 DEF IInv, LockPart, OneInside, Locked, Building, TypeOK, StepOf,
         GetInstance, Call, Acquire, Static, Check, Allocate, AllocationFails,
         Construct, CreateEnv, RegisterBase, RegisterLevel, Export, Throw, PublishFirst,
         Replace, Copy, Release, Drop, Destroy, Goto
    <3>2. \/ pc[u] \in {"new"} \cup Building /\ asked'[u] = asked[u]
          \/ version_[instance] # asked[u] /\ asked'[u] = asked[u]
      BY <2>2, <3>1 DEF IInv, LockPart, OneInside, Locked, Building, TypeOK, StepOf,
         GetInstance, Call, Acquire, Static, Check, Allocate, AllocationFails,
         Construct, CreateEnv, RegisterBase, RegisterLevel, Export, Throw, PublishFirst,
         Replace, Copy, Release, Drop, Destroy, Goto
    <3>3. QED
      BY <2>2, <3>1, <3>2, VersionKept DEF NewPart
  <2>3. QED
    BY <2>1, <2>2 DEF Next, StepOf
<1>3. QED
  BY <1>1, <1>2, Invariance, PTL DEF SafeSpec

LEMMA ServiceStep ==
  ASSUME IInv, NewPart, [Next]_vars
  PROVE  [Service!Next]_Service!serviceVars
<1> USE DEF IInv
<1> DEFINE Still == UNCHANGED <<Wanted, Ref(instance), Held>>
<1>1. CASE UNCHANGED vars
  BY <1>1 DEF vars, control, heap, Wanted, Held, Ref, Served, Service!serviceVars
<1>2. ASSUME NEW t \in Threads, NEW v \in Versions, Call(t, v) PROVE Service!Request(t, v)
  <2>1. StepOf(t) /\ pc[t] = "idle" /\ handle[t] = None /\ asked[t] = None /\ v # None
    BY <1>2, NoneAssumption DEF StepOf, Call, ThreadPart
  <2>2. /\ pc'[t] = "lock" /\ asked'[t] = v
        /\ UNCHANGED <<instance, handle, version_>>
    BY <1>2 DEF Call, Goto, heap, TypeOK
  <2>3. /\ Wanted[t] = None /\ Held[t] = None /\ Wanted'[t] = v /\ Held'[t] = None
        /\ Ref(instance)' = Ref(instance)
    BY <2>1, <2>2 DEF Wanted, Held, Served, Ref
  <2>4. QED
    BY <2>1, <2>3, ServiceOf DEF Service!Request, Held
<1>3. ASSUME NEW t \in Threads, AllocationFails(t) \/ Throw(t) PROVE Service!Fail(t)
  <2>1. /\ StepOf(t) /\ pc[t] \in {"new"} \cup Building
        /\ handle[t] = None /\ asked[t] # None
    BY <1>3 DEF StepOf, GetInstance, AllocationFails, Throw, ThreadPart, Building
  <2>2. /\ pc'[t] = "unlock" /\ asked'[t] = None
        /\ UNCHANGED <<instance, handle>>
    BY <1>3 DEF AllocationFails, Throw, Goto, TypeOK
  <2>3. Ref(instance)' = Ref(instance)
    BY <2>1, <2>2, VersionKept DEF Ref
  <2>4. Wanted[t] = asked[t] /\ Held[t] = None /\ Wanted'[t] = None /\ Held'[t] = None
    BY <2>1, <2>2 DEF Wanted, Held, Served, Ref, Building
  <2>5. Held' = Held
    BY <2>1, <2>4, OthersKept DEF Held
  <2>6. QED
    BY <2>1, <2>3, <2>4, <2>5, ServiceOf DEF Service!Fail
<1>4. ASSUME NEW t \in Threads, Drop(t) PROVE Service!Release(t)
  <2>1. StepOf(t) /\ pc[t] = "using" /\ handle[t] \in Contexts /\ handle[t] # None
    BY <1>4 DEF StepOf, Drop, ThreadPart, TypeOK
  <2>2. /\ pc'[t] \in {"idle", "dropped"} /\ asked'[t] = None /\ handle'[t] = None
        /\ UNCHANGED instance
    BY <1>4 DEF Drop, Goto, TypeOK
  <2>3. Ref(instance)' = Ref(instance)
    BY <2>1, <2>2, VersionKept DEF Ref
  <2>4. Held[t] = Ref(handle[t]) /\ Held'[t] = None /\ Wanted[t] = None /\ Wanted'[t] = None
    BY <2>1, <2>2 DEF Wanted, Held, Served, Ref
  <2>5. Wanted' = Wanted
    BY <2>1, <2>4, OthersKept DEF Wanted
  <2>6. Held[t] # None
    <3>1. Held[t] \in [id : Contexts, version : Versions]
      BY <2>1, <2>4 DEF Ref, HolderSafe, ThreadPart, TypeOK
    <3>2. QED
      BY <3>1, NoneAssumption
  <2>7. QED
    BY <2>1, <2>3, <2>4, <2>5, <2>6, ServiceOf DEF Service!Release

\* Serving: on the version test that succeeds, or when a new context is stored.
<1>5. ASSUME NEW t \in Threads, Static(t) PROVE Still \/ Service!Serve(t)
  <2>1. /\ StepOf(t) /\ pc[t] = "static" /\ asked[t] # None /\ handle[t] = None
        /\ UNCHANGED <<asked, instance, handle, version_>>
        /\ pc'[t] = IF instance = None THEN "new" ELSE "check"
    BY <1>5 DEF StepOf, GetInstance, Static, Goto, heap, ThreadPart, TypeOK
  <2>2. Ref(instance)' = Ref(instance)
    BY <2>1 DEF Ref
  <2>3. Wanted[t] = asked[t] /\ Held[t] = None
    BY <2>1 DEF Wanted, Held, Served, Ref
  <2>4. CASE instance # None /\ version_[instance] = asked[t]
    <3>1. Wanted'[t] = None /\ Held'[t] = Ref(instance)'
      BY <2>1, <2>4 DEF Wanted, Held, Served, Ref
    <3>2. Ref(instance) # None /\ Ref(instance).version = asked[t]
      <4>1. Ref(instance) \in [id : Contexts, version : Versions]
        BY <2>4 DEF Ref, SharedPart, TypeOK
      <4>2. QED
        BY <2>4, <4>1, NoneAssumption DEF Ref
    <3>3. QED
      BY <2>1, <2>2, <2>3, <3>1, <3>2, ServiceOf DEF Service!Serve
  <2>5. CASE ~(instance # None /\ version_[instance] = asked[t])
    <3>1. Wanted'[t] = Wanted[t] /\ Held'[t] = Held[t]
      BY <2>1, <2>3, <2>5 DEF Wanted, Held, Served, Ref
    <3>2. QED
      BY <2>1, <2>2, <3>1, OthersKept DEF Wanted, Held
  <2>6. QED
    BY <2>4, <2>5
<1>6. ASSUME NEW t \in Threads, PublishFirst(t) \/ Replace(t) PROVE Service!Serve(t)
  <2>1. PICK c : c = block[t]
    OBVIOUS
  <2>2. /\ StepOf(t) /\ pc[t] = "publish" /\ asked[t] \in Versions /\ asked[t] # None
        /\ handle[t] = None /\ c \in Contexts /\ c # None /\ version_[c] = asked[t]
        /\ instance # c /\ \A u \in Threads : handle[u] # c
    BY <1>6, <2>1, CountFacts, NoneAssumption DEF StepOf, GetInstance, PublishFirst,
       Replace, ThreadPart, BlockPart, TypeOK, Building
  <2>3. /\ pc'[t] \in {"check", "replaced", "copy"} /\ instance' = c
        /\ UNCHANGED <<asked, handle, version_>>
    BY <1>6, <2>1 DEF PublishFirst, Replace, Goto, TypeOK
  <2>4. Wanted[t] = asked[t] /\ Held[t] = None
    BY <2>2 DEF Wanted, Held, Served, Ref
  <2>5. /\ Ref(instance)' = [id |-> c, version |-> asked[t]]
        /\ Wanted'[t] = None /\ Held'[t] = Ref(instance)'
    BY <2>2, <2>3 DEF Wanted, Held, Served, Ref
  <2>6. c \notin Service!InUse
    BY <2>2, InUseOwned
  <2>7. Ref(instance)' \in [id : Contexts \ Service!InUse, version : {asked[t]}]
    BY <2>2, <2>5, <2>6
  <2>8. ~(Ref(instance) # None /\ Ref(instance).version = asked[t])
    <3>1. instance # None => version_[instance] # asked[t]
      BY <2>2 DEF NewPart, Building
    <3>2. QED
      BY <3>1 DEF Ref
  <2>9. QED
    BY <2>2, <2>4, <2>5, <2>7, <2>8, ServiceOf DEF Service!Serve

\* Everything else moves nothing the service knows of.
<1>7. ASSUME NEW t \in Threads,
             \/ Acquire(t) \/ Check(t) \/ Allocate(t) \/ Construct(t) \/ Destroy(t)
             \/ Copy(t) \/ Release(t)
      PROVE  Still
  <2>1. StepOf(t) /\ UNCHANGED <<instance, asked>>
    BY <1>7 DEF StepOf, GetInstance, Acquire, Check, Allocate, Construct, CreateEnv,
       RegisterBase, RegisterLevel, Export, Destroy, Copy, Release
  <2>2. Ref(instance)' = Ref(instance)
    BY <2>1, VersionKept DEF Ref
  <2>3. Wanted'[t] = Wanted[t] /\ Held'[t] = Held[t]
    <3>1. CASE Copy(t)
      <4>1. /\ pc[t] = "copy" /\ pc'[t] = "unlock" /\ handle[t] = None
            /\ handle'[t] = instance /\ instance # None /\ version_[instance] = asked[t]
        BY <3>1 DEF Copy, Goto, ThreadPart, TypeOK
      <4>2. QED
        BY <2>1, <2>2, <4>1 DEF Wanted, Held, Served, Ref
    <3>2. CASE ~Copy(t)
      <4>1. UNCHANGED handle
        BY <1>7, <3>2 DEF Acquire, Check, Allocate, Construct, CreateEnv,
           RegisterBase, RegisterLevel, Export, Destroy, Release
      <4>2. Ref(handle[t])' = Ref(handle[t])
        BY <2>1, <4>1, VersionKept DEF Ref
      <4>3. Served(t)' <=> Served(t)
        <5>1. pc'[t] \in {"check", "replaced", "copy"} /\ Served(t)
              <=> pc[t] \in {"check", "replaced", "copy"} /\ Served(t)
          BY <1>7, <3>2 DEF Acquire, Check, Allocate, Construct, CreateEnv,
             RegisterBase, RegisterLevel, Export, Destroy, Release, Goto, TypeOK, Served,
             ThreadPart, Building
        <5>2. pc'[t] \in {"check", "replaced", "copy"} =>
                 pc[t] \in {"check", "replaced", "copy"}
          BY <1>7, <3>2 DEF Acquire, Check, Allocate, Construct, CreateEnv,
             RegisterBase, RegisterLevel, Export, Destroy, Release, Goto, TypeOK
        <5>3. QED
          BY <2>1, <5>1, <5>2, VersionKept DEF Served
      <4>4. QED
        BY <2>1, <2>2, <4>1, <4>2, <4>3 DEF Wanted, Held
    <3>3. QED
      BY <3>1, <3>2
  <2>4. QED
    BY <2>1, <2>2, <2>3, OthersKept DEF Wanted, Held
<1>8. QED
  BY <1>1, <1>2, <1>3, <1>4, <1>5, <1>6, <1>7
  DEF Next, GetInstance, Service!Next, Service!serviceVars

\* GetInstance is one atomic request to the service, for any number of threads.
THEOREM ServiceRefined == Spec => ImplementsContextService
<1>1. Init => Service!Init
  BY DEF Init, Service!Init, Wanted, Held, Served, Ref
<1>2. IInv /\ NewPart /\ [Next]_vars => [Service!Next]_Service!serviceVars
  BY ServiceStep
<1>3. QED
  BY <1>1, <1>2, Invariance, NewPartHolds, PTL
  DEF Spec, SafeSpec, ImplementsContextService, Service!Spec
=============================================================================
