------------------------------ MODULE MCUring ------------------------------
(* Instances of Uring for TLC: requests are interchangeable. *)
EXTENDS Uring, TLC

Symmetry == Permutations(Ops)
=============================================================================
