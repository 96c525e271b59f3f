------------------------------- MODULE Spawn -------------------------------
(***************************************************************************)
(* How the result of a task reaches its single consumer: spawn and         *)
(* join_handle of src/include/snowy/spawn.hpp, sync_wait of sync_wait.hpp. *)
(* The producer is a root of Task: publish (run by loop::start) or         *)
(* wait_task awaits the task, writes the result, completes it under the    *)
(* state's mutex and, for a spawned task, then notifies the futex on which *)
(* a coroutine may wait.  The consumer blocks on the condition variable,   *)
(* awaits on a loop, or lets go of the handle.                             *)
(*                                                                         *)
(* A spawn_state is shared and lives as long as somebody refers to it; a   *)
(* wait_state is a local of the caller and dies when sync_wait returns.    *)
(***************************************************************************)
EXTENDS Task

Results == Roots   \* one bridge for each result

VARIABLES
  way,    \* "spawn" or "sync"; "none" before the call
  pro,    \* the producer: "idle", "running", "publish", "notify", "unlink" or "gone"
  con,    \* the consumer: "holds" the handle; waits ("blocked" in the condition variable,
          \* "woken" from it, "asking" and "parked" in the futex, "mailed" its delivery);
          \* "took" the result or "dropped" the handle
  slot,   \* value or error of the state
  done,   \* done and complete
  got,    \* what the consumer took
  refs    \* who refers to the state

joinVars == <<way, pro, con, slot, done, got, refs>>
vars == <<taskVars, joinVars>>

Init ==
  /\ TaskInit
  /\ way = [r \in Results |-> "none"]
  /\ pro = [r \in Results |-> "idle"] /\ con = [r \in Results |-> "idle"]
  /\ slot = [r \in Results |-> "none"] /\ done = [r \in Results |-> FALSE]
  /\ got = [r \in Results |-> "none"]
  /\ refs = [r \in Results |-> {}]
-----------------------------------------------------------------------------
\* spawn or sync_wait of the task in variable x: publish keeps a reference to its
\* state, wait_task has the caller's.  An empty task is refused, or throws.
Call(r, x, w) ==
  /\ Adopt(r, x) /\ w \in {"spawn", "sync"}
  /\ way' = [way EXCEPT ![r] = w]
  /\ pro' = [pro EXCEPT ![r] = "running"] /\ con' = [con EXCEPT ![r] = "holds"]
  /\ refs' = [refs EXCEPT ![r] = IF w = "spawn" THEN {"producer", "consumer"} ELSE {"consumer"}]
  /\ UNCHANGED <<slot, done, got>>

\* The child ended: the value is stored, or the error; the child's frame goes.
Produce(r) ==
  /\ Continue(r)
  /\ slot' = [slot EXCEPT ![r] = heard'[r]]
  /\ pro' = [pro EXCEPT ![r] = "publish"]
  /\ UNCHANGED <<way, con, done, got, refs>>

\* Mutant: the condition variable is notified after the unlock.
CompleteUnlocked(r) ==
  /\ pro[r] = "publish"
  /\ done' = [done EXCEPT ![r] = TRUE]
  /\ UNCHANGED con
  /\ pro' = [pro EXCEPT ![r] = "notify"]

\* Under the mutex: done, complete and the notification of the condition
\* variable.  wait_task does not touch its state after the unlock.
Complete(r) ==
  /\ pro[r] = "publish"
  /\ done' = [done EXCEPT ![r] = TRUE]
  /\ con' = [con EXCEPT ![r] = IF @ = "blocked" THEN "woken" ELSE @]
  /\ pro' = [pro EXCEPT ![r] = IF way[r] = "spawn" THEN "notify" ELSE "gone"]

Publish(r) == Complete(r) /\ UNCHANGED <<taskVars, way, slot, got, refs>>

\* signal.notify_all, under the queue's mutex.
NotifyAll(r) ==
  /\ pro[r] = "notify"
  /\ con' = [con EXCEPT ![r] = IF @ = "parked" THEN "mailed" ELSE @]
  /\ pro' = [pro EXCEPT ![r] = "unlink"]
  /\ UNCHANGED <<taskVars, way, slot, done, got, refs>>

\* The frame of publish goes, and its reference.
Release(r) ==
  /\ pro[r] = "unlink"
  /\ pro' = [pro EXCEPT ![r] = "gone"]
  /\ refs' = [refs EXCEPT ![r] = @ \ {"producer"}]
  /\ UNCHANGED <<taskVars, way, con, slot, done, got>>
-----------------------------------------------------------------------------
\* take(), then the consumer's reference goes.
Take(r) ==
  /\ con' = [con EXCEPT ![r] = "took"]
  /\ got' = [got EXCEPT ![r] = slot[r]]
  /\ slot' = [slot EXCEPT ![r] = IF @ = "value" THEN "moved" ELSE @]
  /\ refs' = [refs EXCEPT ![r] = @ \ {"consumer"}]

\* get() and sync_wait under the mutex: wait until done.
Get(r) ==
  /\ con[r] \in {"holds", "woken"}
  /\ IF done[r] THEN Take(r)
     ELSE con' = [con EXCEPT ![r] = "blocked"] /\ UNCHANGED <<got, slot, refs>>
  /\ UNCHANGED <<taskVars, way, pro, done>>

\* A condition variable may wake for no reason.
Spurious(r) ==
  /\ con[r] = "blocked"
  /\ con' = [con EXCEPT ![r] = "woken"]
  /\ UNCHANGED <<taskVars, way, pro, slot, done, got, refs>>

\* co_await of the handle: release() and the constructor of the awaiter.
Join(r) ==
  /\ way[r] = "spawn" /\ con[r] = "holds"
  /\ con' = [con EXCEPT ![r] = "asking"]
  /\ UNCHANGED <<taskVars, way, pro, slot, done, got, refs>>

\* Mutant: the awaiter parks without looking at complete.
CompletedNever(r) == FALSE

\* The look at complete under the queue's mutex.
Completed(r) == done[r]

\* futex::awaiter::await_suspend with the expected value false; not interruptible.
Park(r) ==
  /\ con[r] = "asking"
  /\ IF Completed(r) THEN Take(r)
     ELSE con' = [con EXCEPT ![r] = "parked"] /\ UNCHANGED <<got, slot, refs>>
  /\ UNCHANGED <<taskVars, way, pro, done>>

\* The delivery reaches the consumer's loop.
Resume(r) ==
  /\ con[r] = "mailed" /\ Take(r)
  /\ UNCHANGED <<taskVars, way, pro, done>>

\* detach, or the destructor of the handle: the task runs on.
Detach(r) ==
  /\ way[r] = "spawn" /\ con[r] = "holds"
  /\ con' = [con EXCEPT ![r] = "dropped"]
  /\ refs' = [refs EXCEPT ![r] = @ \ {"consumer"}]
  /\ UNCHANGED <<taskVars, way, pro, slot, done, got>>

Producer(r) == Produce(r) \/ Publish(r) \/ NotifyAll(r) \/ Release(r)
Consumer(r) == Get(r) \/ Park(r) \/ Resume(r)

Next ==
  \/ TaskStep /\ UNCHANGED joinVars
  \/ \E r \in Results : \/ Producer(r) \/ Consumer(r) \/ Spurious(r) \/ Join(r) \/ Detach(r)
                        \/ \E x \in Locals, w \in {"spawn", "sync"} : Call(r, x, w)

Spec == Init /\ [][Next]_vars

\* The task ends and publishes; a consumer that has begun to wait goes on.
FairSpec ==
  /\ Spec /\ TaskFairness
  /\ \A r \in Results : WF_vars(Producer(r)) /\ WF_vars(con[r] # "holds" /\ Consumer(r))
=============================================================================
