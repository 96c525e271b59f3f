-------------------------------- MODULE When --------------------------------
(***************************************************************************)
(* The structured joins of src/include/snowy/when.hpp: when_all, when_any  *)
(* and timeout.  The parent launches one collect() bridge per input and    *)
(* then waits, uninterruptibly, for the last of them.  Everything but the  *)
(* inputs themselves runs on the parent's loop; an input may end on        *)
(* another loop, from where its bridge hops back before it publishes.      *)
(*                                                                         *)
(* One call is one behaviour, with n inputs.  log is a history variable:   *)
(* the inputs in the order in which their bridges published.               *)
(***************************************************************************)
EXTENDS Inputs, Sequences, FiniteSets, Functions

Children == 1..N
Failures == {"error", "canceled"}

VARIABLES
  mode, n,
  parent,    \* "launch", "join", "ready" or "ended"
  child,     \* the bridges: "none", "queued", "running", "away" or "home" (the input
             \* ended on another loop or on this one), "gone"
  outcome,   \* how the input ended
  value,     \* the engaged slots
  pending, winner,
  error,     \* the input whose failure state.error holds, 0 for none, and N + 1 for the
             \* failure to launch a bridge of when_all
  startup,   \* the local of when_any
  stop, done, stopping, result, log

vars == <<mode, n, parent, child, outcome, value, pending, winner, error, startup,
          stop, done, stopping, result, log>>

Init ==
  /\ mode \in Modes /\ n \in 0..N /\ parent = "launch"
  /\ child = [c \in Children |-> "none"] /\ outcome = [c \in Children |-> "none"]
  /\ value = {} /\ pending = 0 /\ winner = 0 /\ error = 0
  /\ startup = FALSE /\ stop = FALSE /\ done = FALSE /\ stopping = FALSE
  /\ result = <<"none">> /\ log = <<>>
-----------------------------------------------------------------------------
\* Mutant: a failed start of when_any does not stop the bridges already started.
LaunchUnstopped(k) ==
  /\ pending' = k
  /\ child' = [c \in Children |-> IF c <= k THEN "queued" ELSE "none"]
  /\ startup' = (k < n /\ mode = "any")
  /\ error' = IF k < n /\ mode = "all" THEN N + 1 ELSE error
  /\ UNCHANGED stop

\* The launch loop: the first k bridges run up to their schedule(); a k below n
\* is the input whose factory or bridge throws, after which no other is started.
Launch(k) ==
  /\ pending' = k
  /\ child' = [c \in Children |-> IF c <= k THEN "queued" ELSE "none"]
  /\ startup' = (k < n /\ mode = "any")
  /\ error' = IF k < n /\ mode = "all" THEN N + 1 ELSE error
  /\ stop' = (stop \/ (k < n /\ mode = "any"))

\* The parent up to co_await state.done.join(), which it skips with nothing
\* pending.  An empty race is refused.
Call(k) ==
  /\ parent = "launch"
  /\ IF mode = "any" /\ n = 0
     THEN /\ parent' = "ended" /\ result' = <<"invalid">>
          /\ UNCHANGED <<child, pending, error, startup, stop>>
     ELSE /\ Launch(k)
          /\ parent' = IF k = 0 THEN "ready" ELSE "join"
          /\ UNCHANGED result
  /\ UNCHANGED <<mode, n, outcome, value, winner, done, stopping, log>>

\* The loop resumes a bridge, which awaits its input.
Start(c) ==
  /\ parent # "launch" /\ child[c] = "queued"
  /\ child' = [child EXCEPT ![c] = "running"]
  /\ UNCHANGED <<mode, n, parent, outcome, value, pending, winner, error, startup,
                 stop, done, stopping, result, log>>

\* How an input may end: the sleep of timeout() throws timed_out, and any input
\* may honour its token, if the join gave it one, or the stop of the loop.
Ends(c) ==
  (IF c \in Timers THEN {"error"} ELSE {"ok", "error"})
    \cup (IF (mode = "any" /\ stop) \/ stopping THEN {"canceled"} ELSE {})

\* The input ends, on this loop or on another one.
End(c, r, p) ==
  /\ child[c] = "running" /\ r \in Ends(c)
  /\ p \in {"away", "home"} /\ (c \in Timers => p = "home")
  /\ child' = [child EXCEPT ![c] = p]
  /\ outcome' = [outcome EXCEPT ![c] = r]
  /\ UNCHANGED <<mode, n, parent, value, pending, winner, error, startup, stop,
                 done, stopping, result, log>>

\* co_await state.owner.on() from another loop.
Hop(c) ==
  /\ child[c] = "away"
  /\ child' = [child EXCEPT ![c] = "home"]
  /\ UNCHANGED <<mode, n, parent, outcome, value, pending, winner, error, startup,
                 stop, done, stopping, result, log>>

\* Mutant: the last publication wins.
RecordLast(c, r) ==
  IF mode = "any"
  THEN /\ winner' = c /\ error' = (IF r = "ok" THEN 0 ELSE c) /\ stop' = TRUE
  ELSE /\ error' = IF r # "ok" THEN c ELSE error
       /\ UNCHANGED <<winner, stop>>

\* What collect leaves in the parent's state: a race keeps the first completion
\* and stops the others, a join keeps the first failure.
Record(c, r) ==
  IF mode = "any"
  THEN IF winner = 0
       THEN winner' = c /\ error' = (IF r = "ok" THEN 0 ELSE c) /\ stop' = TRUE
       ELSE UNCHANGED <<winner, error, stop>>
  ELSE /\ error' = IF r # "ok" /\ error = 0 THEN c ELSE error
       /\ UNCHANGED <<winner, stop>>

\* The end of collect, on the parent's loop.  Moving the value into its slot may
\* throw (moved is FALSE).  The frame is gone when the step is over, and
\* done.set() only queues the parent.
Publish(c, moved) ==
  LET r == IF outcome[c] = "ok" /\ ~moved THEN "error" ELSE outcome[c] IN
  /\ child[c] = "home"
  /\ outcome' = [outcome EXCEPT ![c] = r]
  /\ value' = IF r = "ok" THEN value \cup {c} ELSE value
  /\ Record(c, r)
  /\ pending' = pending - 1
  /\ done' = (done \/ pending = 1)
  /\ child' = [child EXCEPT ![c] = "gone"]
  /\ log' = Append(log, c)
  /\ UNCHANGED <<mode, n, parent, startup, stopping, result>>

\* Mutant: the barrier is an interruptible wait.
JoinedOrStopped == done \/ stopping

\* done.join() is not interruptible.
Joined == done

Resume ==
  /\ parent = "join" /\ Joined
  /\ parent' = "ready"
  /\ UNCHANGED <<mode, n, child, outcome, value, pending, winner, error, startup,
                 stop, done, stopping, result, log>>

\* What when_all rethrows or returns: state.error, or every value.
JoinResult ==
  IF error = N + 1 THEN <<"startup">> ELSE IF error # 0 THEN <<"error", error>> ELSE <<"values">>

\* What when_any rethrows or returns: startup, state.error, or the winner's value.
RaceResult ==
  IF startup THEN <<"startup">> ELSE IF error # 0 THEN <<"error", error>> ELSE <<"value", winner>>

\* The end of the parent.
Finish ==
  /\ parent = "ready"
  /\ parent' = "ended"
  /\ result' = IF mode = "all" THEN JoinResult ELSE RaceResult
  /\ UNCHANGED <<mode, n, child, outcome, value, pending, winner, error, startup,
                 stop, done, stopping, log>>

\* loop.stop() by anybody.
Stop ==
  /\ ~stopping /\ parent \notin {"launch", "ended"}
  /\ stopping' = TRUE
  /\ UNCHANGED <<mode, n, parent, child, outcome, value, pending, winner, error,
                 startup, stop, done, result, log>>

ChildStep(c) ==
  \/ Start(c) \/ Hop(c) \/ \E m \in BOOLEAN : Publish(c, m)
  \/ \E r \in {"ok"} \cup Failures, p \in {"away", "home"} : End(c, r, p)

Next ==
  \/ \E k \in 0..n : Call(k)
  \/ \E c \in Children : ChildStep(c)
  \/ Resume \/ Finish \/ Stop

Spec == Init /\ [][Next]_vars

\* What the documentation asks of the inputs: once stopped they end, one way or
\* another, and so does a sleep.  The rest is the loop's scheduling.
FairSpec ==
  /\ Spec
  /\ WF_vars(Resume \/ Finish)
  /\ \A c \in Children :
       /\ WF_vars(Start(c) \/ Hop(c) \/ \E m \in BOOLEAN : Publish(c, m))
       /\ WF_vars((c \in Timers \/ "canceled" \in Ends(c))
                  /\ \E r \in {"ok"} \cup Failures, p \in {"away", "home"} : End(c, r, p))
=============================================================================
