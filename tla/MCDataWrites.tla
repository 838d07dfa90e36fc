---------------------------- MODULE MCDataWrites ----------------------------
(* DataWrites on a small instance. *)
EXTENDS DataWrites, TLC

Sym == Permutations(Writes) \cup Permutations(Operators) \cup Permutations(Surfaces)
=============================================================================
