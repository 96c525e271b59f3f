------------------------------- MODULE Inputs -------------------------------
(***************************************************************************)
(* What the structured joins (When) are given.                             *)
(***************************************************************************)
EXTENDS Naturals

CONSTANTS N,       \* largest number of inputs
          Modes,   \* "all" and "any"
          Timers   \* the inputs that are the sleep of a timeout()

ASSUME InputsKnown == N \in Nat /\ Timers \subseteq 1..N
ASSUME ModesKnown == Modes \subseteq {"all", "any"}
=============================================================================
