---------------------------- MODULE Submissions ----------------------------
(***************************************************************************)
(* The two users of native submissions: a behaviour has either groups      *)
(* (Batch) or single request objects (Native) on its ring.                 *)
(***************************************************************************)
EXTENDS Batch, Natives

VARIABLE part

all == <<vars, objectVars, part>>

AllInit == Init /\ N!NativeInit /\ part \in {"groups", "objects"}

AllNext ==
  /\ UNCHANGED part
  /\ \/ part = "groups" /\ Next /\ UNCHANGED objectVars
     \/ part = "objects" /\ N!NativeNext /\ UNCHANGED vars

\* The owner keeps polling, handles what it finds, and scans before every poll; the
\* kernel serves cancel requests.
GroupsFair ==
  /\ WF_vars(part = "groups" /\ Poll) /\ WF_vars(part = "groups" /\ PollReturns) /\ SF_vars(part = "groups" /\ Handle)
  /\ \A i \in Group : SF_vars(part = "groups" /\ Cancel(i)) /\ WF_vars(part = "groups" /\ KernelCancels(i))

\* The owner polls and resumes; the kernel ends every send and releases its memory.
ObjectsFair ==
  /\ WF_objectVars(part = "objects" /\ N!Handle)
  /\ \A o \in Objects : WF_objectVars(part = "objects" /\ N!Progress(o))

Fairness == GroupsFair /\ ObjectsFair
=============================================================================
