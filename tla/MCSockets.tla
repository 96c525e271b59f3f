----------------------------- MODULE MCSockets -----------------------------
(***************************************************************************)
(* Sockets for TLC.  Requests and descriptors are interchangeable.         *)
(***************************************************************************)
EXTENDS Sockets, Functions, TLC

\* Bound: streams and datagram sockets take turns, on the same descriptors.
OneKind == ("bound" \in Range(sock)) => Range(sock) \subseteq {"bound", "closed"}

MCNext == Next /\ OneKind'

MCSpec == Init /\ [][MCNext]_vars

Symmetry == Permutations(Ops) \cup Permutations(Socks)
=============================================================================
