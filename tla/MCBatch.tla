------------------------------ MODULE MCBatch ------------------------------
(* Two objects, a group of two, and a table of two slots. *)
EXTENDS Submissions

\* Every object may be a pipelined send; all but one, also any other request.
Kinds == [o \in Objects |-> IF o = CHOOSE x \in Objects : TRUE THEN {"split"} ELSE {"fixed", "zc", "split"}]

\* A behaviour with groups leaves the table alone.
MCInit == AllInit /\ (part = "groups" => \A i \in 1..Slots : registered[i] = NoRegion)
MCSpec == MCInit /\ [][AllNext]_all /\ Fairness
=============================================================================
