------------------------------ MODULE Bridges -------------------------------
(***************************************************************************)
(* A program that calls coroutines and waits for their results through     *)
(* spawn and sync_wait (B), and what these promise it.  The state of a     *)
(* coroutine is cst here: Loop has an st of its own, and proofs can be     *)
(* about both.                                                             *)
(***************************************************************************)
CONSTANTS Frames, Roots, User, None

ASSUME HoldersDistinct ==
  /\ Frames \cap Roots = {} /\ User \notin Frames \cup Roots
  /\ None \notin Frames \cup Roots \cup {User}

VARIABLES cst, handle, cont, ended, heard, way, pro, con, slot, done, got, refs

B == INSTANCE Spawn WITH st <- cst

BridgeSpec == B!FairSpec
-----------------------------------------------------------------------------
\* Unique ownership: every live frame has exactly one handle, in a task object or in an
\* awaiter, and no handle refers to a frame that is gone; nothing leaks and nothing is
\* destroyed twice.
OneOwner ==
  /\ \A p, q \in B!Holders, x, y \in B!Slots :
       handle[p][x] # None /\ handle[p][x] = handle[q][y] => p = q /\ x = y
  /\ \A f \in Frames : f \in B!Live <=> \E p \in B!Holders, x \in B!Slots : handle[p][x] = f

\* A frame is destroyed before it has begun or after it has ended, never while it runs,
\* awaits a child or is known to an operation of the loop; and ~task only meets the first.
QuietDestroy ==
  [][\A f \in Frames : cst'[f] = "freed" => cst[f] \in {"initial", "final", "freed"}]_(B!taskVars)

\* The state is there when the producer touches it: a shared one because publish
\* keeps a reference over notify_all, the caller's because wait_task notifies
\* before it unlocks and touches nothing afterwards.  And the task's frames are gone, with
\* all they own, before its completion can be seen: what the consumer does next (return
\* from sync_wait, release the allocator of the frames) cannot meet one.
LifetimesNested ==
  \A r \in B!Results :
    /\ pro[r] \notin {"idle", "gone"} => refs[r] # {}
    /\ done[r] => handle[r] = B!Empty

\* get, sync_wait and an awaited handle return once the task has ended.
ConsumerReturns ==
  \A r \in B!Results : con[r] \in {"blocked", "asking", "parked"} ~> con[r] = "took"
=============================================================================
