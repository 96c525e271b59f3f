------------------------------- MODULE MCPool -------------------------------
(* Two separate systems in one model: tasks that call run() on a pool that *)
(* may be destroyed, and tasks that write files through the shared pool.   *)
EXTENDS File

VARIABLE part   \* "jobs" or "files"
mcVars == <<vars, fileVars, part>>

MCInit == part \in {"jobs", "files"} /\ Init /\ FileInit
MCNext ==
  \/ part = "jobs" /\ Next /\ UNCHANGED <<fileVars, part>>
  \/ part = "files" /\ FileNext /\ UNCHANGED part

\* Threads run and functions return; nobody has to call run(), stop or close.
MCSpec ==
  /\ MCInit /\ [][MCNext]_mcVars
  /\ \A t \in Tasks : WF_vars(part = "jobs" /\ CallerStep(t))
  /\ \A w \in Workers : WF_vars(part = "jobs" /\ WorkerStep(w))
  /\ WF_vars(part = "jobs" /\ (CloseNotify \/ CloseJoin))

\* run() of a pool that may be destroyed ends (see RunReturns in Pool).
JobsReturn == part = "jobs" => RunReturns
=============================================================================
