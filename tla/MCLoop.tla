------------------------------- MODULE MCLoop -------------------------------
(* Small instances of Loop for TLC. *)
EXTENDS Loop, TLC

Symmetry == Permutations(Tasks) \cup Permutations(Threads)
=============================================================================
