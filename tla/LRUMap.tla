------------------------------- MODULE LRUMap -------------------------------
(***************************************************************************)
(* What base::LRUCache is to its user: a map kept in order of use, most    *)
(* recent first, that gives up its last entry when a Put leaves it with    *)
(* more entries than it has room for.                                      *)
(***************************************************************************)
EXTENDS Integers, SequencesExt

CONSTANTS Keys, Values, Limits, None

VARIABLES entries,      \* <<key, value>> pairs, the most recently used first
          room,         \* how many entries are kept
          out           \* what the last Get answered

mapVars == <<entries, room, out>>

\* Where the entry of a key is, what it says, and the entries without it.
At(k) == {i \in DOMAIN entries : entries[i][1] = k}
ValuesOf(k) == {entries[i][2] : i \in At(k)}
Others(k) == IF At(k) = {} THEN entries ELSE RemoveAt(entries, CHOOSE i \in At(k) : TRUE)

Init == /\ entries = <<>> /\ out = None
        /\ room \in Limits

Put(k, v) ==
    /\ LET new == <<<<k, v>>>> \o Others(k)
       IN  entries' = IF Len(new) > room THEN SubSeq(new, 1, Len(new) - 1) ELSE new
    /\ UNCHANGED <<room, out>>

Get(k) == /\ IF ValuesOf(k) = {}
               THEN out' = None /\ UNCHANGED entries
               ELSE /\ out' \in ValuesOf(k)
                    /\ entries' = <<<<k, out'>>>> \o Others(k)
          /\ UNCHANGED room

Erase(k) == /\ entries' = Others(k)
            /\ UNCHANGED <<room, out>>

\* Clearing does not give back the room the entries had taken.
Clear == /\ entries' = <<>>
         /\ room' = room - Len(entries)
         /\ UNCHANGED out

\* A larger limit starts from an empty cache, a smaller one throws nothing away.
Resize(change) ==
    /\ IF change > 0
         THEN entries' = <<>> /\ room' = room + change - Len(entries)
         ELSE room' = room + change /\ UNCHANGED entries
    /\ UNCHANGED out

\* A Put that throws promises nothing about what comes after it.
Fail == entries' = <<>> /\ room' = 0 /\ out' = None

Next == \/ \E k \in Keys : (\E v \in Values : Put(k, v)) \/ Get(k) \/ Erase(k)
        \/ Clear \/ Fail
        \/ \E m, n \in Limits : Resize(m - n)

Spec == Init /\ [][Next]_mapVars
=============================================================================
