---------------------------- MODULE MCFileStream ----------------------------
(* FileStream for TLC: streams and files are interchangeable. *)
EXTENDS FileStream, TLC

Symmetry == Permutations(Streams) \cup Permutations(Files)
=============================================================================
