-------------------------------- MODULE Loop --------------------------------
(***************************************************************************)
(* The event loop of src/src/loop.cpp and src/include/snowy/loop.hpp: one  *)
(* owner thread executing run(), any number of foreign threads calling     *)
(* post, stop, keep_alive, request_stop and message::send, a clock and the *)
(* native driver behind poll().                                            *)
(*                                                                         *)
(* A task is a root coroutine.  It awaits one operation at a time, so the  *)
(* task also names its current operation.  st[t] is where the task is; an  *)
(* operation is active exactly when st[t] is one of the operation kinds,   *)
(* and the kind says which list of the loop holds it.  Every foreign step  *)
(* that is not under a lock is an action of its own.                       *)
(***************************************************************************)
EXTENDS Naturals, Sequences, Functions

CONSTANTS Tasks,    \* coroutine frames a root can live in, reused once free
          Threads,  \* foreign threads; each has at most one post queued
          Kinds,    \* the operation kinds tasks may await
          Budget,   \* budget_: resumes and messages per iteration
          Faults    \* whether the native calls inside run() may throw

\* "timer" is in timers_, "io" in io_, the others in waits_: "wait" is
\* event.wait, "join" the uninterruptible event.join, "remote" a remote_wait.
AllKinds == {"timer", "io", "wait", "join", "remote"}

ASSUME KindsKnown == Kinds \subseteq AllKinds
ASSUME BudgetPositive == Budget \in Nat \ {0}
ASSUME FaultsBoolean == Faults \in BOOLEAN

VARIABLES
  \* the owner thread: its place in run() and its locals
  pc, left, batch, inbox, scan, all, posted, delay, woke, thrown,
  \* tasks, their operations, the ready queue and the root count
  st, cb, mark, tok, ready, roots, error,
  \* fields other threads write
  posts, messages, event, cancel, stopping, holds,
  \* foreign threads inside stop() or holding a guard
  th

ownerVars == <<pc, left, batch, inbox, scan, all, posted, delay, woke, thrown>>
taskVars == <<st, cb, mark, tok, ready, roots, error>>
sharedVars == <<posts, messages, event, cancel, stopping, holds>>
vars == <<ownerVars, taskVars, sharedVars, th>>

PCs == {"idle", "take", "posts", "messages", "exchange", "load", "scan",
        "fire", "resume", "decide", "poll", "retire"}
Places == {"none", "ready", "running", "away", "mail"}
Marks == {"canceled", "sent", "due", "complete", "linked"}
CbStates == {"none", "armed", "mark", "flag", "wake"}

\* Type invariant.  cb[t] is the stop_callback of the current operation:
\* registered ("armed"), or executing on a foreign thread before one of its
\* three steps.  mark[t] holds the operation's flags.
TypeOK ==
  /\ pc \in PCs /\ left \in 0..Budget
  /\ batch \in Seq(Threads) /\ inbox \in Seq(Tasks)
  /\ scan \subseteq Tasks
  /\ all \in BOOLEAN /\ posted \in BOOLEAN /\ woke \in BOOLEAN /\ thrown \in BOOLEAN
  /\ delay \in {"zero", "timed", "forever"}
  /\ st \in [Tasks -> Places \cup AllKinds]
  /\ cb \in [Tasks -> CbStates] /\ mark \in [Tasks -> SUBSET Marks]
  /\ tok \in [Tasks -> BOOLEAN]
  /\ ready \in Seq(Tasks) /\ roots \in Nat /\ error \in BOOLEAN
  /\ posts \in Seq(Threads) /\ messages \in Seq(Tasks)
  /\ event \in BOOLEAN /\ cancel \in BOOLEAN /\ stopping \in BOOLEAN
  /\ holds \in Nat
  /\ th \in [Threads -> {"idle", "flag", "wake", "held"}]

Init ==
  /\ pc = "idle" /\ left = 0 /\ batch = <<>> /\ inbox = <<>> /\ scan = {}
  /\ all = FALSE /\ posted = FALSE /\ delay = "zero" /\ woke = FALSE
  /\ thrown = FALSE
  /\ st = [t \in Tasks |-> "none"] /\ cb = [t \in Tasks |-> "none"]
  /\ mark = [t \in Tasks |-> {}] /\ tok = [t \in Tasks |-> FALSE]
  /\ ready = <<>> /\ roots = 0 /\ error = FALSE
  /\ posts = <<>> /\ messages = <<>> /\ event = FALSE /\ cancel = FALSE
  /\ stopping = FALSE /\ holds = 0
  /\ th = [x \in Threads |-> "idle"]
-----------------------------------------------------------------------------
Smaller(a, b) == IF a < b THEN a ELSE b

Timers == {t \in Tasks : st[t] = "timer"}
Ios == {t \in Tasks : st[t] = "io"}
Waits == {t \in Tasks : st[t] \in {"wait", "join", "remote"}}
Active(t) == st[t] \in AllKinds

\* The owner thread is between coroutines, so run() itself may proceed.
Free == \A t \in Tasks : st[t] # "running"
\* Owner-thread user code may run: outside run(), in a posted function, in a task.
UserCode == pc = "idle" \/ (pc = "posts" /\ batch # <<>>) \/ ~Free

\* callback.reset() returns: the callback is not executing on another thread.
Quiet(t) == cb[t] \in {"none", "armed"}

\* Mutant: the callback is not reset, so finish does not wait for it.
FinishKeepsCallback(t) ==
  /\ st' = [st EXCEPT ![t] = "ready"]
  /\ mark' = [mark EXCEPT ![t] = {}]
  /\ ready' = Append(ready, t)
  /\ UNCHANGED cb

\* loop::finish (and wait::notify, loop::complete, which unlink and finish).
Finish(t) ==
  /\ Quiet(t)
  /\ cb' = [cb EXCEPT ![t] = "none"]
  /\ st' = [st EXCEPT ![t] = "ready"]
  /\ mark' = [mark EXCEPT ![t] = {}]
  /\ ready' = Append(ready, t)

\* Mutant: empty is read after the push, so nobody is woken.
SendSilent(t) == messages' = Append(messages, t) /\ UNCHANGED event

\* message::send, under target.mutex_.
Send(t) ==
  /\ messages' = Append(messages, t)
  /\ event' = (event \/ messages = <<>>)

\* loop::stop as called on the owner thread.
StopHere == stopping' = TRUE /\ cancel' = TRUE /\ event' = TRUE
-----------------------------------------------------------------------------
\* Tasks on the owner thread.

\* spawn and the eager part of start(): count the root, queue its first yield.
Spawn(t) ==
  /\ UserCode /\ st[t] = "none"
  /\ st' = [st EXCEPT ![t] = "ready"]
  /\ tok' = [tok EXCEPT ![t] = FALSE]
  /\ ready' = Append(ready, t)
  /\ roots' = roots + 1
  /\ UNCHANGED <<ownerVars, cb, mark, error, sharedVars, th>>

\* schedule().  Also an operation that finishes inside its await_suspend: a
\* transfer of zero bytes, an event already set.
Yield(t) ==
  /\ st[t] = "running"
  /\ st' = [st EXCEPT ![t] = "ready"]
  /\ ready' = Append(ready, t)
  /\ UNCHANGED <<ownerVars, cb, mark, tok, roots, error, sharedVars, th>>

\* arm: refused while stopping or once the token is stopped.  The task then
\* keeps running with operation_canceled, which changes no state here; so does
\* a submit() that throws, after io::await_suspend has undone its links.
Arm(t, k) == k = "join" \/ ~(stopping \/ tok[t])

\* await_suspend of timer, io and wait: arm, link, suspend.
Await(t, k) ==
  /\ st[t] = "running" /\ Arm(t, k)
  /\ st' = [st EXCEPT ![t] = k]
  /\ cb' = [cb EXCEPT ![t] = IF k = "join" THEN "none" ELSE "armed"]
  /\ mark' = [mark EXCEPT ![t] = IF k = "remote" THEN {"linked"} ELSE {}]
  /\ UNCHANGED <<ownerVars, tok, ready, roots, error, sharedVars, th>>

\* event::set for an event one task waits on.
Set(u) ==
  /\ UserCode /\ st[u] \in {"wait", "join"}
  /\ Finish(u)
  /\ UNCHANGED <<ownerVars, tok, roots, error, sharedVars, th>>

\* hop::await_suspend towards another loop.
Leave(t) ==
  /\ st[t] = "running"
  /\ st' = [st EXCEPT ![t] = "away"]
  /\ UNCHANGED <<ownerVars, cb, mark, tok, ready, roots, error, sharedVars, th>>

\* The end of start(): record a failure and stop, release the root.
End(t, failed) ==
  /\ st[t] = "running"
  /\ st' = [st EXCEPT ![t] = "none"]
  /\ roots' = roots - 1
  /\ IF failed THEN error' = TRUE /\ StopHere
               ELSE UNCHANGED <<error, stopping, cancel, event>>
  /\ UNCHANGED <<ownerVars, cb, mark, tok, ready, posts, messages, holds, th>>

TaskStep(t) ==
  \/ Yield(t) \/ Leave(t)
  \/ \E k \in Kinds : Await(t, k)
  \/ \E f \in BOOLEAN : End(t, f)
-----------------------------------------------------------------------------
\* loop::run, statement by statement.  A local of run(), expire() or poll() goes
\* back to its initial value when its scope ends.

\* run() may be called again after a normal exit only.
Run ==
  /\ pc = "idle" /\ ~thrown
  /\ pc' = "take"
  /\ UNCHANGED <<left, batch, inbox, scan, all, posted, delay, woke, thrown,
                 taskVars, sharedVars, th>>

\* Swap the posts and detach at most budget_ messages, under mutex_.
Take ==
  /\ pc = "take"
  /\ LET n == Smaller(Budget, Len(messages)) IN
       /\ inbox' = SubSeq(messages, 1, n)
       /\ messages' = SubSeq(messages, n + 1, Len(messages))
  /\ batch' = posts /\ posts' = <<>>
  /\ pc' = "posts"
  /\ UNCHANGED <<left, scan, all, posted, delay, woke, thrown, taskVars, event,
                 cancel, stopping, holds, th>>

\* A posted function returns, or throws into fail().
RunPost(failed) ==
  /\ pc = "posts" /\ batch # <<>>
  /\ batch' = Tail(batch)
  /\ IF failed THEN error' = TRUE /\ StopHere
               ELSE UNCHANGED <<error, stopping, cancel, event>>
  /\ UNCHANGED <<pc, left, inbox, scan, all, posted, delay, woke, thrown, st, cb,
                 mark, tok, ready, roots, posts, messages, holds, th>>

PostsDone ==
  /\ pc = "posts" /\ batch = <<>>
  /\ pc' = "messages"
  /\ UNCHANGED <<left, batch, inbox, scan, all, posted, delay, woke, thrown,
                 taskVars, sharedVars, th>>

\* msg.run(msg): a hop resumes its coroutine in place, a remote_wait notifies.
RunMessage ==
  /\ pc = "messages" /\ Free /\ inbox # <<>>
  /\ inbox' = Tail(inbox)
  /\ LET t == Head(inbox) IN
       IF st[t] = "mail"
       THEN st' = [st EXCEPT ![t] = "running"] /\ UNCHANGED <<cb, mark, ready>>
       ELSE IF Active(t) THEN Finish(t) ELSE UNCHANGED <<st, cb, mark, ready>>
  /\ UNCHANGED <<pc, left, batch, scan, all, posted, delay, woke, thrown, tok,
                 roots, error, sharedVars, th>>

MessagesDone ==
  /\ pc = "messages" /\ Free /\ inbox = <<>>
  /\ pc' = "exchange"
  /\ UNCHANGED <<left, batch, inbox, scan, all, posted, delay, woke, thrown,
                 taskVars, sharedVars, th>>

\* expire: consume cancel_.  A consumed flag starts one scan of all operations,
\* which covers every one of them if stopping_ is set when it is read next.
Exchange ==
  /\ pc = "exchange"
  /\ cancel' = FALSE
  /\ pc' = IF cancel THEN "load" ELSE "scan"
  /\ UNCHANGED <<left, batch, inbox, scan, all, posted, delay, woke, thrown,
                 taskVars, posts, messages, event, stopping, holds, th>>

\* Mutant: the scan serves only operations whose own token was stopped.
LoadTokensOnly ==
  /\ pc = "load"
  /\ all' = FALSE
  /\ scan' = {t \in Tasks : Active(t)}
  /\ pc' = "scan"
  /\ UNCHANGED <<left, batch, inbox, posted, delay, woke, thrown, taskVars,
                 sharedVars, th>>

\* The reading of stopping_, and where the scan begins.
Load ==
  /\ pc = "load"
  /\ all' = stopping
  /\ scan' = {t \in Tasks : Active(t)}
  /\ pc' = "scan"
  /\ UNCHANGED <<left, batch, inbox, posted, delay, woke, thrown, taskVars,
                 sharedVars, th>>

\* Mutant: the scan interrupts a remote_wait whose delivery is in flight.
ScanUnlinked(t) ==
  /\ pc = "scan" /\ t \in scan
  /\ scan' = scan \ {t}
  /\ IF st[t] = "join" \/ ~(all \/ "canceled" \in mark[t])
     THEN UNCHANGED <<st, cb, mark, ready>>
     ELSE IF st[t] = "io"
     THEN /\ mark' = [mark EXCEPT ![t] = @ \cup {"sent"}]
          /\ UNCHANGED <<st, cb, ready>>
     ELSE Finish(t)
  /\ UNCHANGED <<pc, left, batch, inbox, all, posted, delay, woke, thrown, tok,
                 roots, error, sharedVars, th>>

\* One operation of the scan.  An I/O operation is only asked to cancel, once;
\* a remote_wait that is no longer linked has a delivery in flight.
Scan(t) ==
  /\ pc = "scan" /\ t \in scan
  /\ scan' = scan \ {t}
  /\ IF st[t] = "join" \/ ~(all \/ "canceled" \in mark[t])
        \/ (st[t] = "remote" /\ "linked" \notin mark[t])
     THEN UNCHANGED <<st, cb, mark, ready>>
     ELSE IF st[t] = "io"
     THEN /\ mark' = [mark EXCEPT ![t] = @ \cup {"sent"}]
          /\ UNCHANGED <<st, cb, ready>>
     ELSE Finish(t)
  /\ UNCHANGED <<pc, left, batch, inbox, all, posted, delay, woke, thrown, tok,
                 roots, error, sharedVars, th>>

\* Mutant: cancel_ is cleared after the scan instead of exchanged before it.
DueClearsCancel ==
  /\ pc = "scan" /\ scan = {}
  /\ scan' = {t \in Timers : "due" \in mark[t]}
  /\ pc' = "fire" /\ all' = FALSE /\ cancel' = FALSE
  /\ UNCHANGED <<left, batch, inbox, posted, delay, woke, thrown, taskVars, posts,
                 messages, event, stopping, holds, th>>

\* clock::now(): the timers due at this instant will be finished.
Due ==
  /\ pc = "scan" /\ scan = {}
  /\ scan' = {t \in Timers : "due" \in mark[t]}
  /\ pc' = "fire" /\ all' = FALSE
  /\ UNCHANGED <<left, batch, inbox, posted, delay, woke, thrown, taskVars,
                 sharedVars, th>>

Fire(t) ==
  /\ pc = "fire" /\ t \in scan
  /\ scan' = scan \ {t}
  /\ Finish(t)
  /\ UNCHANGED <<pc, left, batch, inbox, all, posted, delay, woke, thrown, tok,
                 roots, error, sharedVars, th>>

Expired ==
  /\ pc = "fire" /\ scan = {}
  /\ pc' = "resume" /\ left' = Budget
  /\ UNCHANGED <<batch, inbox, scan, all, posted, delay, woke, thrown, taskVars,
                 sharedVars, th>>

Resume ==
  /\ pc = "resume" /\ Free /\ left > 0 /\ ready # <<>>
  /\ left' = left - 1
  /\ ready' = Tail(ready)
  /\ st' = [st EXCEPT ![Head(ready)] = "running"]
  /\ UNCHANGED <<pc, batch, inbox, scan, all, posted, delay, woke, thrown, cb,
                 mark, tok, roots, error, sharedVars, th>>

\* Budget spent or nothing ready: read posted under mutex_.
Check ==
  /\ pc = "resume" /\ Free /\ (left = 0 \/ ready = <<>>)
  /\ posted' = (posts # <<>> \/ messages # <<>>)
  /\ pc' = "decide" /\ left' = 0
  /\ UNCHANGED <<batch, inbox, scan, all, delay, woke, thrown, taskVars,
                 sharedVars, th>>

\* Mutant: the break condition does not count the roots.
AtIdleNoRoots ==
  /\ Ios = {} /\ Waits = {} /\ Timers = {} /\ ready = <<>>
  /\ ~posted /\ (holds = 0 \/ stopping)

\* The break condition of run().
AtIdle ==
  /\ roots = 0 /\ Ios = {} /\ Waits = {} /\ Timers = {} /\ ready = <<>>
  /\ ~posted /\ (holds = 0 \/ stopping)

\* Leave run(), rethrowing and clearing error_.
Exit ==
  /\ pc = "decide" /\ AtIdle
  /\ pc' = "idle" /\ error' = FALSE
  /\ UNCHANGED <<left, batch, inbox, scan, all, posted, delay, woke, thrown, st,
                 cb, mark, tok, ready, roots, sharedVars, th>>

\* Skip the poll when only ready or posted work remains.
Again ==
  /\ pc = "decide" /\ ~AtIdle /\ Ios = {} /\ (ready # <<>> \/ posted)
  /\ pc' = "take" /\ posted' = FALSE
  /\ UNCHANGED <<left, batch, inbox, scan, all, delay, woke, thrown, taskVars,
                 sharedVars, th>>

\* Mutant: the delay ignores the timers.
BlockNoTimers ==
  /\ pc = "decide" /\ ~AtIdle /\ ~(Ios = {} /\ (ready # <<>> \/ posted))
  /\ delay' = IF ready # <<>> \/ posted THEN "zero" ELSE "forever"
  /\ pc' = "poll" /\ posted' = FALSE
  /\ UNCHANGED <<left, batch, inbox, scan, all, woke, thrown, taskVars,
                 sharedVars, th>>

\* Compute the delay and enter poll().
Block ==
  /\ pc = "decide" /\ ~AtIdle /\ ~(Ios = {} /\ (ready # <<>> \/ posted))
  /\ delay' = IF ready # <<>> \/ posted THEN "zero"
              ELSE IF Timers # {} THEN "timed" ELSE "forever"
  /\ pc' = "poll" /\ posted' = FALSE
  /\ UNCHANGED <<left, batch, inbox, scan, all, woke, thrown, taskVars,
                 sharedVars, th>>

Completed == {t \in Ios : "complete" \in mark[t]}

\* poll returns: the wake source fired, requests completed, or time is up.  The
\* wake source may be seen in this snapshot or in a later one.
Poll ==
  /\ pc = "poll"
  /\ woke' \in {b \in BOOLEAN : b => event}
  /\ \/ woke' \/ Completed # {} \/ delay = "zero"
     \/ delay = "timed" /\ \E t \in Timers : "due" \in mark[t]
  /\ scan' = Completed
  /\ pc' = "retire" /\ delay' = "zero"
  /\ UNCHANGED <<left, batch, inbox, all, posted, thrown, taskVars,
                 sharedVars, th>>

\* A signal interrupts the wait early (EINTR); what has completed is still taken.
Interrupted ==
  /\ pc = "poll"
  /\ woke' = FALSE /\ scan' = Completed
  /\ pc' = "retire" /\ delay' = "zero"
  /\ UNCHANGED <<left, batch, inbox, all, posted, thrown, taskVars, sharedVars,
                 th>>

\* loop::complete for one request of the snapshot.
Retire(t) ==
  /\ pc = "retire" /\ t \in scan
  /\ scan' = scan \ {t}
  /\ Finish(t)
  /\ UNCHANGED <<pc, left, batch, inbox, all, posted, delay, woke, thrown, tok,
                 roots, error, sharedVars, th>>

\* A seen wake source is read, which resets it; then the next iteration.
Drain ==
  /\ pc = "retire" /\ scan = {}
  /\ event' = (event /\ ~woke)
  /\ pc' = "take" /\ woke' = FALSE
  /\ UNCHANGED <<left, batch, inbox, scan, all, posted, delay, thrown, taskVars,
                 posts, messages, cancel, stopping, holds, th>>

\* A native call throws: cancel() inside the scan or poll() itself.
Throw ==
  /\ Faults
  /\ \/ pc = "poll"
     \/ pc = "scan" /\ \E t \in scan \cap Ios : /\ all \/ "canceled" \in mark[t]
                                             /\ "sent" \notin mark[t]
  /\ pc' = "idle" /\ thrown' = TRUE
  /\ scan' = {} /\ all' = FALSE /\ delay' = "zero"
  /\ UNCHANGED <<left, batch, inbox, posted, woke, taskVars,
                 sharedVars, th>>

OwnerStep ==
  \/ Take \/ PostsDone \/ RunMessage \/ MessagesDone
  \/ Exchange \/ Load \/ Due \/ Expired \/ Resume \/ Check
  \/ Exit \/ Again \/ Block \/ Poll \/ Drain
  \/ \E f \in BOOLEAN : RunPost(f)
  \/ \E t \in Tasks : Scan(t) \/ Fire(t) \/ Retire(t) \/ TaskStep(t)
-----------------------------------------------------------------------------
\* Foreign threads.

\* loop::post, under mutex_.
Post(x) ==
  /\ th[x] = "idle" /\ x \notin Range(posts)
  /\ posts' = Append(posts, x)
  /\ event' = (event \/ posts = <<>>)
  /\ UNCHANGED <<ownerVars, taskVars, messages, cancel, stopping, holds, th>>

\* loop::stop: three stores, each visible on its own.
StopFirst(x) ==
  /\ th[x] = "idle"
  /\ stopping' = TRUE /\ th' = [th EXCEPT ![x] = "flag"]
  /\ UNCHANGED <<ownerVars, taskVars, posts, messages, event, cancel, holds>>

StopSecond(x) ==
  /\ th[x] = "flag"
  /\ cancel' = TRUE /\ th' = [th EXCEPT ![x] = "wake"]
  /\ UNCHANGED <<ownerVars, taskVars, posts, messages, event, stopping, holds>>

\* keep_alive, and the two steps of ~guard.
Hold(x) ==
  /\ th[x] = "idle"
  /\ holds' = holds + 1 /\ th' = [th EXCEPT ![x] = "held"]
  /\ UNCHANGED <<ownerVars, taskVars, posts, messages, event, cancel, stopping>>

Release(x) ==
  /\ th[x] = "held"
  /\ holds' = holds - 1 /\ th' = [th EXCEPT ![x] = "wake"]
  /\ UNCHANGED <<ownerVars, taskVars, posts, messages, event, cancel, stopping>>

\* The wake() that ends stop() and ~guard.
Wake(x) ==
  /\ th[x] = "wake"
  /\ event' = TRUE /\ th' = [th EXCEPT ![x] = "idle"]
  /\ UNCHANGED <<ownerVars, taskVars, posts, messages, cancel, stopping, holds>>

\* The task's code on the other loop ends in co_await on().
Return(t) ==
  /\ st[t] = "away"
  /\ st' = [st EXCEPT ![t] = "mail"]
  /\ Send(t)
  /\ UNCHANGED <<ownerVars, cb, mark, tok, ready, roots, error, posts, cancel,
                 stopping, holds, th>>

\* remote_wait::deliver, under the queue's mutex.
Deliver(t) ==
  /\ st[t] = "remote" /\ "linked" \in mark[t]
  /\ mark' = [mark EXCEPT ![t] = @ \ {"linked"}]
  /\ Send(t)
  /\ UNCHANGED <<ownerVars, st, cb, tok, ready, roots, error, posts, cancel,
                 stopping, holds, th>>

\* std::stop_source::request_stop, then the registered callback: cancel_fn.
RequestStop(t) ==
  /\ ~tok[t] /\ st[t] # "none"
  /\ tok' = [tok EXCEPT ![t] = TRUE]
  /\ UNCHANGED <<ownerVars, st, cb, mark, ready, roots, error, sharedVars, th>>

CallbackStart(t) ==
  /\ tok[t] /\ cb[t] = "armed"
  /\ cb' = [cb EXCEPT ![t] = "mark"]
  /\ UNCHANGED <<ownerVars, st, mark, tok, ready, roots, error, sharedVars, th>>

CallbackMark(t) ==
  /\ cb[t] = "mark"
  /\ mark' = [mark EXCEPT ![t] = @ \cup {"canceled"}]
  /\ cb' = [cb EXCEPT ![t] = "flag"]
  /\ UNCHANGED <<ownerVars, st, tok, ready, roots, error, sharedVars, th>>

CallbackFlag(t) ==
  /\ cb[t] = "flag"
  /\ cancel' = TRUE
  /\ cb' = [cb EXCEPT ![t] = "wake"]
  /\ UNCHANGED <<ownerVars, st, mark, tok, ready, roots, error, posts, messages,
                 event, stopping, holds, th>>

CallbackWake(t) ==
  /\ cb[t] = "wake"
  /\ event' = TRUE
  /\ cb' = [cb EXCEPT ![t] = "none"]
  /\ UNCHANGED <<ownerVars, st, mark, tok, ready, roots, error, posts, messages,
                 cancel, stopping, holds, th>>

\* The clock reaches a deadline; the kernel completes a request.
Tick(t) ==
  /\ st[t] = "timer" /\ "due" \notin mark[t]
  /\ mark' = [mark EXCEPT ![t] = @ \cup {"due"}]
  /\ UNCHANGED <<ownerVars, st, cb, tok, ready, roots, error, sharedVars, th>>

Complete(t) ==
  /\ st[t] = "io" /\ "complete" \notin mark[t]
  /\ mark' = [mark EXCEPT ![t] = @ \cup {"complete"}]
  /\ UNCHANGED <<ownerVars, st, cb, tok, ready, roots, error, sharedVars, th>>

Callback(t) == CallbackStart(t) \/ CallbackMark(t) \/ CallbackFlag(t) \/ CallbackWake(t)

Next ==
  \/ Run \/ OwnerStep \/ Interrupted \/ Throw
  \/ \E t \in Tasks : \/ Spawn(t) \/ Set(t) \/ Return(t) \/ Deliver(t)
                      \/ RequestStop(t) \/ Callback(t) \/ Tick(t) \/ Complete(t)
  \/ \E x \in Threads : \/ Post(x) \/ StopFirst(x) \/ StopSecond(x)
                        \/ Hold(x) \/ Release(x) \/ Wake(x)

Spec == Init /\ [][Next]_vars

\* The owner thread runs, native callbacks run to their end, foreign calls that
\* have begun return, and the kernel completes what it was asked to cancel.
\* User code never has to spawn, post, stop, set, release or come back.
FairSpec ==
  /\ Spec
  /\ WF_vars(OwnerStep)
  /\ \A t \in Tasks : /\ WF_vars(Callback(t))
                      /\ WF_vars("sent" \in mark[t] /\ Complete(t))
  /\ \A x \in Threads : WF_vars(StopSecond(x) \/ Wake(x))
-----------------------------------------------------------------------------
\* An operation that must still be told of a stop: it is interruptible, it or
\* the whole loop was canceled, and no cancel request or delivery is under way.
Unserved(t) ==
  /\ Active(t) /\ st[t] # "join"
  /\ stopping \/ "canceled" \in mark[t]
  /\ ~(st[t] = "io" /\ "sent" \in mark[t])
  /\ ~(st[t] = "remote" /\ "linked" \notin mark[t])

\* poll() will not return by itself before the next deadline.
Sleeping == pc = "poll" /\ delay # "zero"

\* The wake source is signalled, or a foreign call that has begun will do it.
WakeComing ==
  \/ event
  \/ \E x \in Threads : th[x] \in {"flag", "wake"}
  \/ \E t \in Tasks : cb[t] \in {"flag", "wake"}

\* No lost wakeup (message::send, post, stop, ~guard and run's delay): the loop
\* never sleeps over queued posts or messages, an unread cancel_, or a break
\* condition that has become true, unless a wake is already on its way.
NoLostWakeup ==
  Sleeping /\ \/ posts # <<>> \/ messages # <<>> \/ cancel
              \/ roots = 0 /\ Waits = {} /\ Timers = {} /\ Ios = {}
                 /\ (holds = 0 \/ stopping)
  => WakeComing

\* No lost cancellation (cancel_fn, stop and expire): the loop never sleeps over
\* an operation that was canceled and has not been served.
NoLostCancel == Sleeping /\ (\E t \in Tasks : Unserved(t)) => WakeComing

\* finish() waits for the stop callback: a callback that is registered or
\* executing refers to an operation that is still active, never to a frame that
\* has been made ready, resumed or destroyed.
CallbackOnLiveOp == \A t \in Tasks : cb[t] # "none" => Active(t)

\* ready_queue links a node at most once (its assert): a task is in the ready
\* queue exactly while it is ready, and in the message queues exactly while a
\* hop or a delivery is outstanding, never twice.
OneQueue ==
  /\ IsInjective(ready) /\ Range(ready) = {t \in Tasks : st[t] = "ready"}
  /\ IsInjective(inbox \o messages)
  /\ Range(inbox \o messages) =
       {t \in Tasks : st[t] = "mail" \/ (st[t] = "remote" /\ "linked" \notin mark[t])}

\* run() returns normally only when nothing is left: no task is suspended, away
\* or being delivered, so nothing can be resumed or touched after the return
\* (tasks spawned since wait for the next run).
NothingAbandoned ==
  pc = "idle" /\ ~thrown =>
    /\ \A t \in Tasks : st[t] \in {"none", "ready"} /\ cb[t] = "none"
    /\ messages = <<>> /\ inbox = <<>> /\ batch = <<>>
-----------------------------------------------------------------------------
Interruptible == AllKinds \ {"join"}

\* stop() is permanent: from some moment on no interruptible operation is
\* pending, although tasks keep running and awaiting.
StopQuiesces == stopping ~> [](\A t \in Tasks : st[t] \notin Interruptible)

\* Nothing starves although tasks keep the ready queue busy for ever (the budget of
\* run()): a timer whose deadline has passed is finished, a queued post is taken and run,
\* or the loop has gone idle and the post waits for the next run().
NothingStarves ==
  /\ \A t \in Tasks : (st[t] = "timer" /\ "due" \in mark[t]) ~> st[t] # "timer"
  /\ \A x \in Threads : /\ x \in Range(posts) ~> (x \in Range(batch) \/ pc = "idle")
                        /\ x \in Range(batch) ~> x \notin Range(batch)
=============================================================================
