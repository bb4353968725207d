------------------------------ MODULE SpinLock ------------------------------
(***************************************************************************)
(* base::SpinLock (libraries/base/include/threads/spinlock.h): one         *)
(* std::atomic_flag.  Every access to the flag is an atomic read-modify-   *)
(* write or an atomic store, and acquire/release order the data the lock   *)
(* protects, so each access is one step here.                              *)
(***************************************************************************)
EXTENDS Naturals, FiniteSets

CONSTANTS Contenders    \* the threads that share the lock

VARIABLES flags_,       \* the atomic flag: TRUE while somebody has set it
          at            \* where each thread is: outside, in lock()'s loop, inside

lockVars == <<flags_, at>>

LockTypeOK == /\ flags_ \in BOOLEAN
              /\ at \in [Contenders -> {"out", "spin", "in"}]

LockInit == /\ flags_ = FALSE
            /\ at = [t \in Contenders |-> "out"]

\* A thread calls lock().
Begin(t) == /\ at[t] = "out"
            /\ at' = [at EXCEPT ![t] = "spin"]
            /\ UNCHANGED flags_

\* One turn of lock()'s loop: set the flag, and leave the loop only if it was
\* clear.  A turn that finds it set yields the processor and changes nothing.
TestAndSet(t) == /\ at[t] = "spin"
                 /\ flags_' = TRUE
                 /\ at' = [at EXCEPT ![t] = IF flags_ THEN "spin" ELSE "in"]

TryLock_Untested(t) ==           \* (mutant) the flag's old value is ignored
    /\ at[t] = "out"
    /\ flags_' = TRUE
    /\ at' = [at EXCEPT ![t] = "in"]

TryLock_Resets(t) ==             \* (mutant) a failed attempt clears the flag
    /\ at[t] = "out"
    /\ flags_' = ~flags_
    /\ at' = [at EXCEPT ![t] = IF flags_ THEN "out" ELSE "in"]

\* try_lock(): a single turn, whose answer may be "no".
TryLock(t) == /\ at[t] = "out"
              /\ flags_' = TRUE
              /\ at' = [at EXCEPT ![t] = IF flags_ THEN "out" ELSE "in"]

Unlock_Keeps(t) ==               \* (mutant) the flag is left set
    /\ at[t] = "in"
    /\ at' = [at EXCEPT ![t] = "out"]
    /\ UNCHANGED flags_

\* unlock() clears the flag.  BasicLockable lets only the owner call it.
Unlock(t) == /\ at[t] = "in"
             /\ flags_' = FALSE
             /\ at' = [at EXCEPT ![t] = "out"]

LockNext == \E t \in Contenders : Begin(t) \/ TestAndSet(t) \/ TryLock(t) \/ Unlock(t)

(***************************************************************************)
(* A thread inside lock()'s loop keeps running, and every owner in this    *)
(* code is a lock_guard, whose destructor unlocks on every path.           *)
(***************************************************************************)
LockFairness == \A t \in Contenders : WF_lockVars(TestAndSet(t)) /\ WF_lockVars(Unlock(t))

LockSafeSpec == LockInit /\ [][LockNext]_lockVars
LockSpec == LockSafeSpec /\ LockFairness

-----------------------------------------------------------------------------
\* No two threads are inside at once, whether they came by lock or try_lock.
MutualExclusion == \A t, u \in Contenders : at[t] = "in" /\ at[u] = "in" => t = u

\* The flag is set exactly while a thread is inside: an unlock is never lost
\* to a concurrent test_and_set, so the lock cannot stay shut with nobody in.
FlagHasOwner == flags_ <=> \E t \in Contenders : at[t] = "in"

\* Nobody keeps the lock for ever, and while threads keep waiting in lock() it
\* keeps being granted: the flag is taken anew, not just once and never again.
\* (Nothing makes it fair to one thread: an unlucky one may spin for ever.)
KeepsGranting ==
    /\ []<>~flags_
    /\ []<>(\E t \in Contenders : at[t] = "spin") => []<><<~flags_ /\ flags_'>>_lockVars
=============================================================================
