------------------------------ MODULE Natives -------------------------------
(***************************************************************************)
(* A program with native request objects (N), and what these promise it.   *)
(* Their completion queue is ncq here: Batch and Uring have a cq too.      *)
(***************************************************************************)
CONSTANTS Objects, KindOf, Slots, Regions, NoRegion

VARIABLES obj, ncq, writing, pins, regions, registered

N == INSTANCE Native WITH cq <- ncq

objectVars == <<obj, ncq, writing, pins, regions, registered>>
ObjectSpec == N!NativeInit /\ [][N!NativeNext]_objectVars
-----------------------------------------------------------------------------
\* The memory of a send is the kernel's as long as the kernel may look at it, and then the
\* caller's again.  The slot a request names holds the memory the request was built for:
\* tables do not change under pinned requests, and the mirror handed out by at() is what
\* the kernel has registered, after a partial update too.  When a send has returned or has
\* thrown, the kernel has no reference to its memory or to the object, and no completion
\* is on its way.
MemoryOwned ==
  \A o \in Objects :
    /\ obj[o].kern \in {"queued", "held", "notif"} => registered[obj[o].slot] = obj[o].mem
    /\ obj[o].u \in {"none", "built", "failed", "done"} =>
         /\ obj[o].kern \in {"no", "free"} /\ ~obj[o].asked
         /\ \A i \in DOMAIN ncq : ncq[i].o # o

\* The direction flag is exact although pipelined sends overlap: it is set if and only if
\* one object has claimed it, and the send the kernel works on has.
DirectionExact ==
  /\ writing <=> \E o \in Objects : obj[o].reserved
  /\ \A o, p \in Objects : obj[o].reserved /\ obj[p].reserved => o = p
  /\ \A o \in Objects : N!Directed(o) /\ obj[o].kern \in {"queued", "held"} => obj[o].reserved

\* sent() and join() return: a failed send too reports to the coroutine that waits for
\* its primary completion.
SendEnds ==
  \A o \in Objects : obj[o].u \in {"sent", "join"} ~> obj[o].u \in {"mid", "failed", "done"}
=============================================================================
