-------------------------------- MODULE Pool --------------------------------
(***************************************************************************)
(* The worker pool of src/include/snowy/pool.hpp and src/src/pool.cpp:     *)
(* pool::run on the calling loop, the job it enqueues, the workers behind  *)
(* one mutex and one condition variable, and the destructor.               *)
(*                                                                         *)
(* A task calls run() again and again, each task on a loop of its own.     *)
(* The event, the slot and the error a job writes live in the task's       *)
(* coroutine frame: they exist until the task has resumed.                 *)
(***************************************************************************)
EXTENDS Naturals, Sequences, FiniteSets, Functions

CONSTANTS Tasks, Workers

ASSUME WorkersStarted == IsFiniteSet(Workers) /\ Workers # {}
ASSUME NoneIsNoTask == "none" \notin Tasks

VARIABLES
  jobs,              \* jobs_
  closing,           \* ~pool: "open", "flag" (stopping_ is set), "join", "closed"
  wk, job,           \* each worker: "lock", "wait", "start", "busy", "post" or "exited",
                     \* and the job it is inside of, or "none"
  st,                \* each task: "idle", "pushed", "joined" or "ready"
  slot, mail,        \* its result slot, the post of its job
  tok, stopping,     \* its stop token and the stop of its loop
  res                \* what its last run() returned; "empty" if it read an empty slot

vars == <<jobs, closing, wk, job, st, slot, mail, tok, stopping, res>>

Init ==
  /\ jobs = <<>> /\ closing = "open"
  /\ wk = [w \in Workers |-> "lock"] /\ job = [w \in Workers |-> "none"]
  /\ st = [t \in Tasks |-> "idle"] /\ slot = [t \in Tasks |-> "none"]
  /\ mail = [t \in Tasks |-> FALSE]
  /\ tok = [t \in Tasks |-> FALSE] /\ stopping = [t \in Tasks |-> FALSE]
  /\ res = [t \in Tasks |-> "none"]

Canceled(t) == tok[t] \/ stopping[t]
-----------------------------------------------------------------------------
\* run() up to the push under the pool's mutex.  It throws on a stop and on a
\* pool that is being destroyed; a destroyed pool is not called.
Enqueue(t) ==
  /\ st[t] = "idle" /\ closing # "closed"
  /\ IF Canceled(t) \/ closing # "open"
     THEN /\ res' = [res EXCEPT ![t] = IF Canceled(t) THEN "canceled" ELSE "closed"]
          /\ UNCHANGED <<jobs, st>>
     ELSE /\ jobs' = Append(jobs, t)
          /\ st' = [st EXCEPT ![t] = "pushed"]
          /\ res' = [res EXCEPT ![t] = "none"]
  /\ UNCHANGED <<closing, wk, job, slot, mail, tok, stopping>>

\* std::condition_variable::notify_one: a waiting worker, if there is one.
Woken == {w \in Workers : wk[w] = "wait"}
Wake(S) == wk' = [w \in Workers |-> IF w \in S THEN "lock" ELSE wk[w]]

\* Mutant: the notification is left out.
NotifySilent(t) ==
  /\ st[t] = "pushed"
  /\ st' = [st EXCEPT ![t] = "joined"]
  /\ UNCHANGED <<jobs, closing, wk, job, slot, mail, tok, stopping, res>>

\* The notification after the unlock; then run() suspends in done.join().
Notify(t) ==
  /\ st[t] = "pushed"
  /\ \/ Woken = {} /\ UNCHANGED wk
     \/ \E w \in Woken : Wake({w})
  /\ st' = [st EXCEPT ![t] = "joined"]
  /\ UNCHANGED <<jobs, closing, job, slot, mail, tok, stopping, res>>

\* Mutant: a stop interrupts the wait for the job.
SetOrStopped(t) == mail[t] \/ Canceled(t)

\* The loop runs the post, whose done.set() resumes the task; join() is not
\* interruptible.
Set(t) == mail[t]

Joined(t) ==
  /\ st[t] = "joined" /\ Set(t)
  /\ st' = [st EXCEPT ![t] = "ready"]
  /\ mail' = [mail EXCEPT ![t] = FALSE]
  /\ UNCHANGED <<jobs, closing, wk, job, slot, tok, stopping, res>>

\* Mutant: only the token is looked at again.
OutcomeTokenOnly(t) ==
  IF tok[t] THEN "canceled" ELSE IF slot[t] = "none" THEN "empty" ELSE slot[t]

\* What run() returns or throws; "empty" would be the dereference of a slot that
\* holds nothing.
Outcome(t) ==
  IF Canceled(t) THEN "canceled" ELSE IF slot[t] = "none" THEN "empty" ELSE slot[t]

Return(t) ==
  /\ st[t] = "ready"
  /\ st' = [st EXCEPT ![t] = "idle"]
  /\ res' = [res EXCEPT ![t] = Outcome(t)]
  /\ slot' = [slot EXCEPT ![t] = "none"]
  /\ UNCHANGED <<jobs, closing, wk, job, mail, tok, stopping>>
-----------------------------------------------------------------------------
\* The locked part of work(): take the oldest job, leave when the pool is closing
\* and drained, or block.
Take(w) ==
  IF jobs # <<>>
  THEN /\ wk' = [wk EXCEPT ![w] = "start"]
       /\ job' = [job EXCEPT ![w] = Head(jobs)] /\ jobs' = Tail(jobs)
  ELSE /\ wk' = [wk EXCEPT ![w] = IF closing = "open" THEN "wait" ELSE "exited"]
       /\ UNCHANGED <<jobs, job>>

Work(w) ==
  /\ wk[w] = "lock" /\ Take(w)
  /\ UNCHANGED <<closing, st, slot, mail, tok, stopping, res>>

\* A condition variable may wake a waiter for no reason.
Spurious(w) ==
  /\ wk[w] = "wait" /\ Wake({w})
  /\ UNCHANGED <<jobs, closing, job, st, slot, mail, tok, stopping, res>>

\* The job begins: a stop skips the function.
Start(w) ==
  /\ wk[w] = "start"
  /\ wk' = [wk EXCEPT ![w] = IF Canceled(job[w]) THEN "post" ELSE "busy"]
  /\ UNCHANGED <<jobs, closing, job, st, slot, mail, tok, stopping, res>>

\* The function returns a value or throws.
Call(w, r) ==
  /\ wk[w] = "busy" /\ r \in {"value", "error"}
  /\ slot' = [slot EXCEPT ![job[w]] = r]
  /\ wk' = [wk EXCEPT ![w] = "post"]
  /\ UNCHANGED <<jobs, closing, job, st, mail, tok, stopping, res>>

\* loop.post, the last thing the job does.
Post(w) ==
  /\ wk[w] = "post"
  /\ mail' = [mail EXCEPT ![job[w]] = TRUE]
  /\ wk' = [wk EXCEPT ![w] = "lock"] /\ job' = [job EXCEPT ![w] = "none"]
  /\ UNCHANGED <<jobs, closing, st, slot, tok, stopping, res>>
-----------------------------------------------------------------------------
\* close(): set stopping_ under the mutex, notify_all, join every worker.
Close ==
  /\ closing = "open" /\ closing' = "flag"
  /\ UNCHANGED <<jobs, wk, job, st, slot, mail, tok, stopping, res>>

CloseNotify ==
  /\ closing = "flag" /\ closing' = "join"
  /\ Wake(Woken)
  /\ UNCHANGED <<jobs, job, st, slot, mail, tok, stopping, res>>

CloseJoin ==
  /\ closing = "join" /\ \A w \in Workers : wk[w] = "exited"
  /\ closing' = "closed"
  /\ UNCHANGED <<jobs, wk, job, st, slot, mail, tok, stopping, res>>

\* A stop is permanent; a token belongs to one call of run().
RequestStop(t) ==
  /\ st[t] # "idle" /\ ~tok[t]
  /\ tok' = [tok EXCEPT ![t] = TRUE]
  /\ UNCHANGED <<jobs, closing, wk, job, st, slot, mail, stopping, res>>

NewToken(t) ==
  /\ st[t] = "idle" /\ tok[t]
  /\ tok' = [tok EXCEPT ![t] = FALSE]
  /\ UNCHANGED <<jobs, closing, wk, job, st, slot, mail, stopping, res>>

Stop(t) ==
  /\ ~stopping[t]
  /\ stopping' = [stopping EXCEPT ![t] = TRUE]
  /\ UNCHANGED <<jobs, closing, wk, job, st, slot, mail, tok, res>>

WorkerStep(w) ==
  Work(w) \/ Start(w) \/ Post(w) \/ \E r \in {"value", "error"} : Call(w, r)
CallerStep(t) == Notify(t) \/ Joined(t) \/ Return(t)

Next ==
  \/ \E t \in Tasks : Enqueue(t) \/ CallerStep(t) \/ RequestStop(t) \/ NewToken(t) \/ Stop(t)
  \/ \E w \in Workers : WorkerStep(w) \/ Spurious(w)
  \/ Close \/ CloseNotify \/ CloseJoin

Spec == Init /\ [][Next]_vars
-----------------------------------------------------------------------------
\* The lifetime barrier of run(): while a job is queued or a worker is inside one,
\* the task that owns its event, slot and error is still suspended, and no task
\* has two jobs.  Nothing of a job runs after its post.
FrameOutlivesJob ==
  LET held == [w \in {v \in Workers : job[v] # "none"} |-> job[w]] IN
  /\ IsInjective(jobs) /\ IsInjective(held) /\ Range(jobs) \cap Range(held) = {}
  /\ \A t \in Range(jobs) \cup Range(held) : st[t] \in {"pushed", "joined"} /\ ~mail[t]

\* run() dereferences its slot only when the function has run: a job that skips
\* the function saw a stop, and run() sees the same stop again.
NeverEmpty == \A t \in Tasks : res[t] # "empty"

\* run() ends however stops, the destructor and other jobs interleave with it.
RunReturns == \A t \in Tasks : st[t] # "idle" ~> st[t] = "idle"
=============================================================================
