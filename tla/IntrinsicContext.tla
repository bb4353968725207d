-------------------------- MODULE IntrinsicContext --------------------------
(***************************************************************************)
(* engine::IntrinsicContext (src/engine/context/intrinsics.cc and          *)
(* include/engine/intrinsics.h): the host context the threads of the       *)
(* process share.  GetInstance(version) takes a static spin lock, builds   *)
(* the static instance on the first call, replaces it when another version *)
(* is asked for, and returns a std::shared_ptr copy of it.  Callers use    *)
(* the copy without the lock and drop it whenever they like; the last      *)
(* owner to let go runs the destructor.                                    *)
(*                                                                         *)
(* pc[t] is the point thread t has reached:                                *)
(*   idle      outside, holding nothing         lock   spinning, line 34   *)
(*   static    before the static's initialiser, line 35                    *)
(*   check     before the version test, line 39                            *)
(*   new       before operator new              env    constructor, 51-52  *)
(*   register  LibcModule, the base exports     level  its versioned ones  *)
(*   publish   before the shared_ptr is stored                             *)
(*   replaced  the old instance lost its last owner in the assignment, 42  *)
(*   copy      before the copy returned, 45     unlock before ~lock_guard  *)
(*   using     the caller has its copy                                     *)
(*   dropped   the caller's copy was the last one                          *)
(***************************************************************************)
EXTENDS Integers, FiniteSets

CONSTANTS Threads,      \* the threads that call GetInstance
          Versions,     \* the XVersion values they ask for
          Word,         \* how many values a uint32_t has: 2^32
          Contexts,     \* the memory blocks a context can be built in
          None

ASSUME VersionsAssumption == Word \in Nat /\ Versions \subseteq 0..Word - 1
ASSUME ThreadsAssumption == IsFiniteSet(Threads)
ASSUME NoneAssumption == /\ None \notin Contexts /\ None \notin Versions
                         /\ None \notin [id : Contexts, version : Versions]

V01070 == 3             \* the API level that opens the second export group

VARIABLES locker,       \* s_intrinsic_context_locker's flag
          pc, asked,    \* where each thread is and the version it asked for
          block,        \* the block each thread is building or destroying
          instance,     \* the static intrinsic_context_, None until it is built
          handle,       \* the shared_ptr copy each caller holds
          life,         \* each block: free, under construction or live
          version_,     \* the version of the context in it
          exports,      \* what its host module exports so far
          use_count     \* the number of its shared_ptr owners

control == <<locker, pc, asked>>
heap == <<life, version_, exports, use_count>>
vars == <<control, block, instance, handle, heap>>

Labels == {"idle", "lock", "static", "check", "new", "env", "register", "level",
           "publish", "replaced", "copy", "unlock", "using", "dropped"}
Building == {"env", "register", "level", "publish"}
Locked == {"static", "check", "new", "replaced", "copy", "unlock"} \cup Building
Groups == {"env", "base", "v01070"}

\* RegisterInstrinsics takes the uint32_t version as an int32_t, so that the
\* upper half of the versions are negative numbers, below every level.
Signed(v) == IF v < Word \div 2 THEN v ELSE v - Word

AtLevel(v) == Signed(v) >= V01070

\* What a context of version v exports once LibcModule is done with it.
ExportsOf(v) == {"env", "base"} \cup (IF AtLevel(v) THEN {"v01070"} ELSE {})

TypeOK ==
    /\ locker \in BOOLEAN
    /\ pc \in [Threads -> Labels]
    /\ asked \in [Threads -> Versions \cup {None}]
    /\ block \in [Threads -> Contexts \cup {None}]
    /\ instance \in Contexts \cup {None}
    /\ handle \in [Threads -> Contexts \cup {None}]
    /\ life \in [Contexts -> {"free", "built", "live"}]
    /\ version_ \in [Contexts -> Versions \cup {None}]
    /\ exports \in [Contexts -> SUBSET Groups]
    /\ use_count \in [Contexts -> Nat]

Init ==
    /\ locker = FALSE
    /\ pc = [t \in Threads |-> "idle"]
    /\ asked = [t \in Threads |-> None]
    /\ block = [t \in Threads |-> None]
    /\ instance = None
    /\ handle = [t \in Threads |-> None]
    /\ life = [c \in Contexts |-> "free"]
    /\ version_ = [c \in Contexts |-> None]
    /\ exports = [c \in Contexts |-> {}]
    /\ use_count = [c \in Contexts |-> 0]

Goto(t, label) == pc' = [pc EXCEPT ![t] = label]

Call(t, v) ==
    /\ pc[t] = "idle"
    /\ Goto(t, "lock")
    /\ asked' = [asked EXCEPT ![t] = v]
    /\ UNCHANGED <<locker, block, instance, handle, heap>>

\* The lock_guard's constructor: one turn of SpinLock::lock().
Acquire(t) ==
    /\ pc[t] = "lock"
    /\ locker' = TRUE
    /\ Goto(t, IF locker THEN "lock" ELSE "static")
    /\ UNCHANGED <<asked, block, instance, handle, heap>>

Static(t) ==
    /\ pc[t] = "static"
    /\ Goto(t, IF instance = None THEN "new" ELSE "check")
    /\ UNCHANGED <<locker, asked, block, instance, handle, heap>>

Check_Any(t) ==                  \* (mutant) whatever instance there is will do
    /\ pc[t] = "check"
    /\ Goto(t, "copy")
    /\ UNCHANGED <<locker, asked, block, instance, handle, heap>>

Check(t) ==
    /\ pc[t] = "check"
    /\ Goto(t, IF version_[instance] = asked[t] THEN "copy" ELSE "new")
    /\ UNCHANGED <<locker, asked, block, instance, handle, heap>>

Allocate(t) ==
    /\ pc[t] = "new"
    /\ \E c \in Contexts :
          /\ life[c] = "free"
          /\ life' = [life EXCEPT ![c] = "built"]
          /\ version_' = [version_ EXCEPT ![c] = asked[t]]
          /\ block' = [block EXCEPT ![t] = c]
    /\ Goto(t, "env")
    /\ UNCHANGED <<locker, asked, instance, handle, exports, use_count>>

\* operator new finds no memory: the exception leaves through the lock_guard.
AllocationFails(t) ==
    /\ pc[t] = "new"
    /\ asked' = [asked EXCEPT ![t] = None]
    /\ Goto(t, "unlock")
    /\ UNCHANGED <<locker, block, instance, handle, heap>>

\* ~IntrinsicContext drops env_ and with it the host module and its exports.
ReleaseBlock(c) ==
    /\ life' = [life EXCEPT ![c] = "free"]
    /\ version_' = [version_ EXCEPT ![c] = None]
    /\ exports' = [exports EXCEPT ![c] = {}]

Export(t, group, label) ==
    /\ exports' = [exports EXCEPT ![block[t]] = @ \cup {group}]
    /\ Goto(t, label)
    /\ UNCHANGED <<locker, asked, block, instance, handle, life, version_, use_count>>

\* The constructor's body: the Environment with its "env" host module, then
\* LibcModule::RegisterInstrinsics, whose second half is for V01070 and later.
CreateEnv(t) == pc[t] = "env" /\ Export(t, "env", "register")

RegisterBase_OffByOne(t) ==      \* (mutant) > for >= in the API-level test
    /\ pc[t] = "register"
    /\ Export(t, "base", IF Signed(asked[t]) > V01070 THEN "level" ELSE "publish")

RegisterBase(t) ==
    /\ pc[t] = "register"
    /\ Export(t, "base", IF AtLevel(asked[t]) THEN "level" ELSE "publish")

RegisterLevel(t) == pc[t] = "level" /\ Export(t, "v01070", "publish")

Throw_KeepsLock(t) ==            \* (mutant) the exception passes no lock_guard
    /\ pc[t] \in Building
    /\ ReleaseBlock(block[t])
    /\ block' = [block EXCEPT ![t] = None]
    /\ asked' = [asked EXCEPT ![t] = None]
    /\ Goto(t, "idle")
    /\ UNCHANGED <<locker, instance, handle, use_count>>

\* The constructor or the making of the shared_ptr throws: what was built is
\* undone and the block released, the static keeps its value (or stays
\* uninitialised) and the exception leaves through the lock_guard.
Throw(t) ==
    /\ pc[t] \in Building
    /\ ReleaseBlock(block[t])
    /\ block' = [block EXCEPT ![t] = None]
    /\ asked' = [asked EXCEPT ![t] = None]
    /\ Goto(t, "unlock")
    /\ UNCHANGED <<locker, instance, handle, use_count>>

\* The end of the static's initialiser.
PublishFirst(t) ==
    /\ pc[t] = "publish" /\ instance = None
    /\ instance' = block[t]
    /\ life' = [life EXCEPT ![block[t]] = "live"]
    /\ use_count' = [use_count EXCEPT ![block[t]] = 1]
    /\ block' = [block EXCEPT ![t] = None]
    /\ Goto(t, "check")
    /\ UNCHANGED <<locker, asked, handle, version_, exports>>

\* The assignment: the static takes the new context and lets go of the old one,
\* which this thread must destroy if no caller holds it any more.
Replace(t) ==
    /\ pc[t] = "publish" /\ instance # None
    /\ instance' = block[t]
    /\ life' = [life EXCEPT ![block[t]] = "live"]
    /\ use_count' = [use_count EXCEPT ![block[t]] = 1, ![instance] = @ - 1]
    /\ IF use_count[instance] = 1
         THEN block' = [block EXCEPT ![t] = instance] /\ Goto(t, "replaced")
         ELSE block' = [block EXCEPT ![t] = None] /\ Goto(t, "copy")
    /\ UNCHANGED <<locker, asked, handle, version_, exports>>

\* ~IntrinsicContext and the release of its block, inside or outside the lock.
Destroy(t) ==
    /\ pc[t] \in {"replaced", "dropped"}
    /\ ReleaseBlock(block[t])
    /\ block' = [block EXCEPT ![t] = None]
    /\ Goto(t, IF pc[t] = "replaced" THEN "copy" ELSE "idle")
    /\ UNCHANGED <<locker, asked, instance, handle, use_count>>

Copy_AfterUnlock(t) ==           \* (mutant) the copy is made with the lock released
    /\ pc[t] = "copy"
    /\ use_count' = [use_count EXCEPT ![instance] = @ + 1]
    /\ handle' = [handle EXCEPT ![t] = instance]
    /\ locker' = FALSE
    /\ Goto(t, "unlock")
    /\ UNCHANGED <<asked, block, instance, life, version_, exports>>

Copy_Uncounted(t) ==             \* (mutant) a raw pointer instead of a counted copy
    /\ pc[t] = "copy"
    /\ handle' = [handle EXCEPT ![t] = instance]
    /\ Goto(t, "unlock")
    /\ UNCHANGED <<locker, asked, block, instance, heap>>

\* return intrinsic_context_: the copy is made before the lock is released.
Copy(t) ==
    /\ pc[t] = "copy"
    /\ use_count' = [use_count EXCEPT ![instance] = @ + 1]
    /\ handle' = [handle EXCEPT ![t] = instance]
    /\ Goto(t, "unlock")
    /\ UNCHANGED <<locker, asked, block, instance, life, version_, exports>>

Release(t) ==
    /\ pc[t] = "unlock"
    /\ locker' = FALSE
    /\ Goto(t, IF handle[t] = None THEN "idle" ELSE "using")
    /\ UNCHANGED <<asked, block, instance, handle, heap>>

Drop_Leaks(t) ==                 \* (mutant) the last owner does not destroy
    /\ pc[t] = "using"
    /\ use_count' = [use_count EXCEPT ![handle[t]] = @ - 1]
    /\ Goto(t, "idle")
    /\ handle' = [handle EXCEPT ![t] = None]
    /\ asked' = [asked EXCEPT ![t] = None]
    /\ UNCHANGED <<locker, block, instance, life, version_, exports>>

\* The caller drops its copy, without the lock.
Drop(t) ==
    /\ pc[t] = "using"
    /\ use_count' = [use_count EXCEPT ![handle[t]] = @ - 1]
    /\ IF use_count[handle[t]] = 1
         THEN block' = [block EXCEPT ![t] = handle[t]] /\ Goto(t, "dropped")
         ELSE UNCHANGED block /\ Goto(t, "idle")
    /\ handle' = [handle EXCEPT ![t] = None]
    /\ asked' = [asked EXCEPT ![t] = None]
    /\ UNCHANGED <<locker, instance, life, version_, exports>>

Construct(t) == CreateEnv(t) \/ RegisterBase(t) \/ RegisterLevel(t)

GetInstance(t) ==
    \/ Acquire(t) \/ Static(t) \/ Check(t) \/ Allocate(t) \/ Construct(t)
    \/ AllocationFails(t) \/ Throw(t) \/ PublishFirst(t) \/ Replace(t) \/ Copy(t) \/ Release(t)

Next == \E t \in Threads : \/ \E v \in Versions : Call(t, v)
                           \/ GetInstance(t) \/ Destroy(t) \/ Drop(t)

(***************************************************************************)
(* A thread that is inside GetInstance, or inside the destructor, is never *)
(* stopped for good.  Nothing makes a caller call or let go.               *)
(***************************************************************************)
Fairness == \A t \in Threads : WF_vars(GetInstance(t)) /\ WF_vars(Destroy(t))

SafeSpec == Init /\ [][Next]_vars
Spec == SafeSpec /\ Fairness

-----------------------------------------------------------------------------
\* The lock as its own specification sees it.
LockAt == [t \in Threads |-> IF pc[t] = "lock" THEN "spin"
                             ELSE IF pc[t] \in Locked THEN "in" ELSE "out"]

Lock == INSTANCE SpinLock WITH Contenders <- Threads, flags_ <- locker, at <- LockAt

\* Every path through GetInstance, the exceptional ones included, takes and
\* leaves the lock as SpinLock allows: nobody slips in, nobody forgets it.
ImplementsSpinLock == Lock!LockSafeSpec

\* At most one thread is between the lock_guard's constructor and destructor.
OneInside == \A t, u \in Threads : pc[t] \in Locked /\ pc[u] \in Locked => t = u

\* What a caller holds stays usable whatever the other threads replace or drop:
\* alive, of the version it asked for and with that version's exports complete.
HolderSafe ==
    \A t \in Threads : handle[t] # None =>
        /\ life[handle[t]] = "live"
        /\ version_[handle[t]] = asked[t]
        /\ exports[handle[t]] = ExportsOf(asked[t])

Holders(c) == {t \in Threads : handle[t] = c}
Keepers(c) == {t \in Threads : block[t] = c}

\* Each block is free, or in the hands of one thread that builds or destroys it,
\* or shared; use_count is the number of its owners, so no context is freed
\* early, freed twice or forgotten, in any order of replacing and dropping.
Ownership ==
    \A c \in Contexts :
        /\ use_count[c] = Cardinality(Holders(c)) + (IF instance = c THEN 1 ELSE 0)
        /\ life[c] = "free" => Keepers(c) = {} /\ use_count[c] = 0
        /\ use_count[c] > 0 => life[c] = "live" /\ Keepers(c) = {}
        /\ life[c] # "free" /\ use_count[c] = 0 => Cardinality(Keepers(c)) = 1

\* The abstract service: a request is served when the static holds a context of
\* its version and the thread is past the point where it could be refused.
Served(t) == /\ pc[t] \in {"check", "replaced", "copy"}
             /\ instance # None /\ version_[instance] = asked[t]

Ref(c) == IF c = None THEN None ELSE [id |-> c, version |-> version_[c]]

Wanted == [t \in Threads |-> IF handle[t] # None \/ Served(t) THEN None ELSE asked[t]]
Held == [t \in Threads |-> IF Served(t) THEN Ref(instance) ELSE Ref(handle[t])]

Service == INSTANCE ContextService
    WITH want <- Wanted, shared <- Ref(instance), held <- Held

\* GetInstance behaves as one atomic request: callers of one version share one
\* context, a failed construction leaves the shared context as it was, and a
\* replacement is never a context that somebody still holds.
ImplementsContextService == Service!Spec

\* GetInstance lets go of the lock again and again, although construction and
\* destruction run, and may throw, with the lock held; and while threads keep
\* waiting for it, it keeps being granted.
KeepsServing == Lock!KeepsGranting

\* A context that has lost its last owner is destroyed and its block released.
Reclaimed == \A c \in Contexts :
                (life[c] = "live" /\ use_count[c] = 0) ~> life[c] = "free"
=============================================================================
