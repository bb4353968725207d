----------------------------- MODULE ArrayValues -----------------------------
(***************************************************************************)
(* What base::FlatArray promises: arrays that are values.  Each has        *)
(* elements of its own, an operation that runs out of memory leaves either *)
(* what was there or nothing, and an access out of range goes to a spare   *)
(* element of the same array.                                              *)
(***************************************************************************)
EXTENDS Integers, Sequences

CONSTANTS Arrays, Values, MaxSize,
          Fills,            \* the elements the filling constructor can make
          Unset             \* an element nobody wrote

VARIABLES alive, value, spare,
          held              \* <<>>, or the element referred to: <<array, index, in range>>

vars == <<alive, value, spare, held>>

Same(n, e) == [i \in 1..n |-> e]

Init == /\ alive = [a \in Arrays |-> FALSE]
        /\ value = [a \in Arrays |-> <<>>]
        /\ spare = [a \in Arrays |-> Unset]
        /\ held = <<>>

Becomes(a, s) == value' = [value EXCEPT ![a] = s]
LetGo(a) == held' = IF held # <<>> /\ held[1] = a THEN <<>> ELSE held

\* A new array has the elements it was asked for, or none.
Create(a) ==
    /\ ~alive[a] /\ alive' = [alive EXCEPT ![a] = TRUE]
    /\ \/ Becomes(a, <<>>)
       \/ \E n \in 0..MaxSize, e \in Fills \cup {Unset} : Becomes(a, Same(n, e))
       \/ \E b \in Arrays : alive[b] /\ Becomes(a, value[b])
    /\ spare' = [spare EXCEPT ![a] = Unset]
    /\ UNCHANGED held

\* An array that is assigned another one has its elements, or none.
Assign(a, b) ==
    /\ alive[a] /\ alive[b] /\ a # b
    /\ Becomes(a, value[b]) \/ Becomes(a, <<>>)
    /\ LetGo(a)
    /\ UNCHANGED <<alive, spare>>

\* Elements that stay keep their values and new ones are zero, or nothing happens.
Resize(a, n) ==
    /\ alive[a]
    /\ \/ Becomes(a, [i \in 1..n |-> IF i <= Len(value[a]) THEN value[a][i] ELSE 0])
       \/ n > 0 /\ UNCHANGED value
    /\ LetGo(a) \/ (Len(value[a]) # n /\ UNCHANGED <<value, held>>)
    /\ UNCHANGED <<alive, spare>>

Destroy(a) ==
    /\ alive[a] /\ alive' = [alive EXCEPT ![a] = FALSE]
    /\ Becomes(a, <<>>)
    /\ spare' = [spare EXCEPT ![a] = Unset]
    /\ LetGo(a)

Take(a, i) ==
    /\ alive[a]
    /\ held' = <<a, i, i < Len(value[a])>>
    /\ UNCHANGED <<alive, value, spare>>

Store(v) ==
    /\ held # <<>>
    /\ IF held[3]
       THEN value' = [value EXCEPT ![held[1]][held[2] + 1] = v] /\ UNCHANGED spare
       ELSE spare' = [spare EXCEPT ![held[1]] = v] /\ UNCHANGED value
    /\ UNCHANGED <<alive, held>>

Next == \/ \E a \in Arrays : \/ Create(a) \/ Destroy(a)
                             \/ \E b \in Arrays : Assign(a, b)
                             \/ \E n \in 0..MaxSize : Resize(a, n) \/ Take(a, n)
        \/ \E v \in Values : Store(v)

Spec == Init /\ [][Next]_vars
=============================================================================
