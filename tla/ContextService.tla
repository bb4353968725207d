--------------------------- MODULE ContextService ---------------------------
(***************************************************************************)
(* What engine::IntrinsicContext::GetInstance(version) promises its        *)
(* callers, with no lock, no reference count and no construction: each     *)
(* request is answered in one step, either with the shared context of that *)
(* version or with a failure that changes nothing.                         *)
(***************************************************************************)
CONSTANTS Threads, Versions,
          Contexts,     \* identities a context can have
          None

VARIABLES want,         \* the version each thread is asking for, or None
          shared,       \* the context the process shares: identity and version
          held          \* the context each thread holds, or None

serviceVars == <<want, shared, held>>

ContextRefs == [id : Contexts, version : Versions]

Init == /\ want = [t \in Threads |-> None]
        /\ shared = None
        /\ held = [t \in Threads |-> None]

InUse == {r.id : r \in ({held[t] : t \in Threads} \cup {shared}) \ {None}}

Request(t, v) == /\ want[t] = None /\ held[t] = None
                 /\ want' = [want EXCEPT ![t] = v]
                 /\ UNCHANGED <<shared, held>>

\* The shared context is handed out as long as its version is the one asked
\* for; another version replaces it by a context nobody else knows of.
Serve(t) ==
    /\ want[t] # None
    /\ IF shared # None /\ shared.version = want[t]
         THEN UNCHANGED shared
         ELSE shared' \in [id : Contexts \ InUse, version : {want[t]}]
    /\ held' = [held EXCEPT ![t] = shared']
    /\ want' = [want EXCEPT ![t] = None]

Fail(t) == /\ want[t] # None
           /\ want' = [want EXCEPT ![t] = None]
           /\ UNCHANGED <<shared, held>>

Release(t) == /\ held[t] # None
              /\ held' = [held EXCEPT ![t] = None]
              /\ UNCHANGED <<want, shared>>

Next == \E t \in Threads : \/ \E v \in Versions : Request(t, v)
                           \/ Serve(t) \/ Fail(t) \/ Release(t)

Spec == Init /\ [][Next]_serviceVars
=============================================================================
