----------------------------- MODULE Arguments ------------------------------
(***************************************************************************)
(* How the arguments of a call reach an exported host function: the engine *)
(* has them as a list, apply_intrinsic (engine/intrinsics.h) expands the   *)
(* list by an index sequence built by halves (utils/index-sequence.h), and *)
(* a class method is bound with one placeholder per parameter, counted and *)
(* listed by macros (utils/util.h), of which there are ten.                *)
(***************************************************************************)
EXTENDS Naturals, Sequences

Joined(left, right) == left \o [i \in DOMAIN right |-> Len(left) + right[i]]

make_index_sequence[n \in Nat] ==
    IF n <= 1 THEN [i \in 1..n |-> 0]
    ELSE Joined(make_index_sequence[n \div 2], make_index_sequence[n - n \div 2])

apply_impl(thread, c, indexes) == <<thread>> \o [i \in DOMAIN indexes |-> c[indexes[i] + 1]]

\* What a function of params parameters, its thread among them, is called with.
apply_intrinsic(thread, args, params) ==
    apply_impl(thread, args, make_index_sequence[params - 1])

-----------------------------------------------------------------------------
\* The arguments push the right one of the numbers behind them into the place of N.
ARG_COUNT_PRIVATE(list) == list[12]
ARGS_COUNT_PLUGIN_1(types) == ARG_COUNT_PRIVATE(<<0>> \o types \o [k \in 1..11 |-> 12 - k])

MACRO_REPEAT[n \in Nat] == IF n = 0 THEN <<>> ELSE Append(MACRO_REPEAT[n - 1], n)

\* std::bind of a method whose parameters after the thread have the types given.
Bound(passed, types) ==
    [k \in 1..ARGS_COUNT_PLUGIN_1(types) |->
        passed[MACRO_REPEAT[ARGS_COUNT_PLUGIN_1(types)][k]]]

\* The arguments a bound method receives of the list args.
Received(args) == Tail(Bound(apply_intrinsic("thread", args, Len(args) + 1), args))
=============================================================================
