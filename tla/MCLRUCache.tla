----------------------------- MODULE MCLRUCache -----------------------------
(***************************************************************************)
(* LRUCache for TLC: the memory for list nodes and the values are          *)
(* interchangeable.                                                        *)
(***************************************************************************)
EXTENDS LRUCache

Interchangeable == Permutations(Nodes) \cup Permutations(Values)
=============================================================================
