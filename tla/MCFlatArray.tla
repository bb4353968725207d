---------------------------- MODULE MCFlatArray -----------------------------
(* FlatArray for TLC: arrays are interchangeable, and so are addresses. *)
EXTENDS FlatArray, TLC

Symmetry == Permutations(Arrays) \cup Permutations(Addresses)
=============================================================================
