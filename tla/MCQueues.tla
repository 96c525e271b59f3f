------------------------------ MODULE MCQueues ------------------------------
(***************************************************************************)
(* Both queues with three tasks: two share a loop, the third has its own   *)
(* when the queue is a mailbox.                                            *)
(***************************************************************************)
EXTENDS Queues, TLC

CONSTANTS t1, t2, t3, l1, l2

MCTasks == {t1, t2, t3}
MCLoops == {l1, l2}
MCHome == [t \in MCTasks |-> IF t = t3 THEN l2 ELSE l1]

\* Capacity 0 is the rendezvous, 2 the smallest buffer that wraps while it holds two.
MCInit == Init /\ Capacity(ring) \in (IF IsChannel THEN {0, 2} ELSE {1})

MCSpec == MCInit /\ [][Next]_vars

Symmetry == Permutations(Values) \cup Permutations({t1, t2})
=============================================================================
