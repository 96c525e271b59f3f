------------------------------ MODULE Mailbox ------------------------------
(***************************************************************************)
(* mailbox<T> (src/include/snowy/mailbox.hpp) over the shared queue of     *)
(* waiters of detail/wait_queue.hpp: a bounded FIFO used from several      *)
(* loops.  An operation looks at its own loop and token, then locks        *)
(* queue.mutex; what it does under the lock is one action.  It finishes a  *)
(* waiter of another loop by a message, and that loop may meanwhile see a  *)
(* cancellation of the same waiter.                                        *)
(***************************************************************************)
EXTENDS Ring, Functions

CONSTANTS Tasks, Loops, Home   \* Home[t]: the loop that task t runs on

VARIABLES
  ring, closed,
  line,      \* queue.first ... queue.last
  st,        \* "idle", "asking" (not locked yet), "parked" (linked), "mailed"
             \* (unlinked, the message on its way) or "done"
  want,      \* "recv" or the value offered
  value,     \* node.value
  err,       \* op.error
  tok,       \* the token is stopped, and with it op.canceled
  stopping   \* the loops that are stopped

vars == <<ring, closed, line, st, want, value, err, tok, stopping>>

Init ==
  /\ ring \in {EmptyRing(n) : n \in Capacities}
  /\ closed = FALSE /\ line = <<>>
  /\ st = [t \in Tasks |-> "idle"] /\ want = [t \in Tasks |-> "none"]
  /\ value = [t \in Tasks |-> "none"] /\ err = [t \in Tasks |-> "none"]
  /\ tok = [t \in Tasks |-> FALSE] /\ stopping = {}
-----------------------------------------------------------------------------
Sends(t) == want[t] # "recv"
Stopped(t) == tok[t] \/ Home[t] \in stopping

\* Mutant: a stopped head is left in the queue and hides the waiters behind it.
FrontNoPrune(sending) ==
  LET match == IF line # <<>> /\ ~Stopped(line[1]) /\ Sends(line[1]) = sending
               THEN {line[1]} ELSE {}
  IN [pruned |-> {}, match |-> match, line |-> SubSeq(line, IF match = {} THEN 1 ELSE 2, Len(line))]

\* remote_wait::front: deliver the cancellation to stopped heads, stop at the first
\* live waiter; mailbox::front accepts it if it goes in the desired direction.
Front(sending) ==
  LET Prefix == {k \in 0..Len(line) : \A i \in 1..k : Stopped(line[i])}
      n == CHOOSE k \in Prefix : \A j \in Prefix : j <= k
      match == IF n < Len(line) /\ Sends(line[n + 1]) = sending THEN {line[n + 1]} ELSE {}
  IN [pruned |-> {line[i] : i \in 1..n}, match |-> match,
      line |-> SubSeq(line, IF match = {} THEN n + 1 ELSE n + 2, Len(line))]

\* push(v), under the lock.
Push(v) ==
  LET k == Front(FALSE)
      room == k.match = {} /\ ~Full(ring)
  IN [line |-> k.line, pruned |-> k.pruned, met |-> k.match,
      ok |-> k.match # {} \/ room,
      ring |-> IF room THEN Put(ring, v) ELSE ring,
      value |-> v]

\* pop(), under the lock.
Pop ==
  LET k == Front(TRUE)
      some == ring.size # 0
      given == IF k.match = {} THEN "none" ELSE value[CHOOSE t \in k.match : TRUE]
      left == IF some THEN Drop(ring) ELSE ring
  IN [line |-> k.line, pruned |-> k.pruned, met |-> k.match,
      ok |-> some \/ k.match # {},
      ring |-> IF some /\ k.match # {} THEN Put(left, given) ELSE left,
      value |-> IF some THEN First(ring) ELSE given]

\* deliver: unlink, store the error, send the message to the owner.
Delivered(r, t, s) ==
  [u \in Tasks |-> IF u = t THEN s ELSE IF u \in r.pruned \cup r.met THEN "mailed" ELSE st[u]]
Failure(r, t, e) ==
  [u \in Tasks |-> IF u = t THEN e ELSE IF u \in r.pruned THEN "canceled" ELSE err[u]]
Received(r, t, v) ==
  [u \in Tasks |-> IF u = t THEN v ELSE
                   IF u \in r.met THEN (IF Sends(u) THEN "none" ELSE r.value) ELSE value[u]]

\* await_suspend up to the lock: canceled_now.
Begin(t, w) ==
  /\ st[t] = "idle"
  /\ want' = [want EXCEPT ![t] = w]
  /\ value' = [value EXCEPT ![t] = IF w = "recv" THEN "none" ELSE w]
  /\ st' = [st EXCEPT ![t] = IF Stopped(t) THEN "done" ELSE "asking"]
  /\ err' = [err EXCEPT ![t] = IF Stopped(t) THEN "canceled" ELSE "none"]
  /\ UNCHANGED <<ring, closed, line, tok, stopping>>

\* The operation does not wait: e is its error, v the value it is left with.
Return(t, r, e, v) ==
  /\ ring' = r.ring /\ line' = r.line
  /\ st' = Delivered(r, t, "done") /\ err' = Failure(r, t, e)
  /\ value' = Received(r, t, v)

\* enqueue: park and link, or the refusal of arm.
Enqueue(t, r) ==
  IF Stopped(t) THEN Return(t, r, "canceled", value[t])
  ELSE /\ ring' = r.ring /\ line' = Append(r.line, t)
       /\ st' = Delivered(r, t, "parked") /\ err' = Failure(r, t, "none")
       /\ value' = Received(r, t, value[t])

\* await_suspend of send under the lock.
SendLocked(t) ==
  /\ st[t] = "asking" /\ Sends(t)
  /\ IF closed
     THEN /\ st' = [st EXCEPT ![t] = "done"] /\ err' = [err EXCEPT ![t] = "broken"]
          /\ UNCHANGED <<ring, line, value>>
     ELSE LET r == Push(value[t]) IN
            IF r.ok THEN Return(t, r, "none", "none") ELSE Enqueue(t, r)
  /\ UNCHANGED <<closed, want, tok, stopping>>

\* await_suspend of recv under the lock.
RecvLocked(t) ==
  /\ st[t] = "asking" /\ ~Sends(t)
  /\ LET r == Pop IN
       IF r.ok \/ closed THEN Return(t, r, "none", r.value) ELSE Enqueue(t, r)
  /\ UNCHANGED <<closed, want, tok, stopping>>

\* try_send and try_recv look at neither the loop nor the token.  One that fails may
\* still have pruned the line; one that succeeds is recorded as an outcome.
TrySend(t, v) ==
  /\ st[t] = "idle" /\ ~closed
  /\ LET r == Push(v) IN
       /\ Return(t, r, "none", "none")
       /\ r.ok /\ want' = [want EXCEPT ![t] = v]
  /\ UNCHANGED <<closed, tok, stopping>>

TryRecv(t) ==
  /\ st[t] = "idle"
  /\ LET r == Pop IN
       /\ Return(t, r, "none", r.value)
       /\ r.ok /\ want' = [want EXCEPT ![t] = "recv"]
  /\ UNCHANGED <<closed, tok, stopping>>

\* A try that finds nothing.
TryFails(t, r) ==
  /\ st[t] = "idle" /\ ~r.ok
  /\ line' = r.line
  /\ st' = Delivered(r, t, "idle") /\ err' = Failure(r, t, "none")
  /\ UNCHANGED <<ring, closed, want, value, tok, stopping>>

\* close: waiters that are stopped when they come to the front are canceled.
Close ==
  /\ closed' = TRUE /\ line' = <<>>
  /\ st' = [t \in Tasks |-> IF t \in Range(line) THEN "mailed" ELSE st[t]]
  /\ err' = [t \in Tasks |-> IF t \notin Range(line) THEN err[t] ELSE
                             IF Stopped(t) THEN "canceled" ELSE
                             IF Sends(t) THEN "broken" ELSE "none"]
  /\ UNCHANGED <<ring, want, value, tok, stopping>>

\* The owner loop runs the message: notify.
Notify(t) ==
  /\ st[t] = "mailed" /\ st' = [st EXCEPT ![t] = "done"]
  /\ UNCHANGED <<ring, closed, line, want, value, err, tok, stopping>>

\* unlink, from anywhere in the queue.
Unlinked(t) ==
  LET i == CHOOSE i \in DOMAIN line : line[i] = t
  IN SubSeq(line, 1, i - 1) \o SubSeq(line, i + 1, Len(line))

\* Mutant: the hook does not look whether the waiter is still linked.
InterruptDelivered(t) ==
  /\ st[t] \in {"parked", "mailed"} /\ Stopped(t)
  /\ line' = (IF t \in Range(line) THEN Unlinked(t) ELSE line)
  /\ st' = [st EXCEPT ![t] = "done"] /\ err' = [err EXCEPT ![t] = "canceled"]
  /\ UNCHANGED <<ring, closed, want, value, tok, stopping>>

\* The owner loop's scan meets the wait: the interrupt hook, which leaves a waiter
\* alone that is no longer linked.
Interrupt(t) ==
  /\ st[t] = "parked" /\ Stopped(t)
  /\ line' = Unlinked(t)
  /\ st' = [st EXCEPT ![t] = "done"] /\ err' = [err EXCEPT ![t] = "canceled"]
  /\ UNCHANGED <<ring, closed, want, value, tok, stopping>>

\* The task resumes and destroys its awaiter.
Finish(t) ==
  /\ st[t] = "done"
  /\ st' = [st EXCEPT ![t] = "idle"] /\ want' = [want EXCEPT ![t] = "none"]
  /\ value' = [value EXCEPT ![t] = "none"] /\ err' = [err EXCEPT ![t] = "none"]
  /\ tok' = [tok EXCEPT ![t] = FALSE]
  /\ UNCHANGED <<ring, closed, line, stopping>>

\* request_stop, as long as the operation may still notice it.
RequestStop(t) ==
  /\ st[t] # "done" /\ ~tok[t] /\ tok' = [tok EXCEPT ![t] = TRUE]
  /\ UNCHANGED <<ring, closed, line, st, want, value, err, stopping>>

Stop(l) ==
  /\ l \notin stopping /\ stopping' = stopping \cup {l}
  /\ UNCHANGED <<ring, closed, line, st, want, value, err, tok>>

Next ==
  \/ Close
  \/ \E l \in Loops : Stop(l)
  \/ \E t \in Tasks :
       \/ SendLocked(t) \/ RecvLocked(t) \/ TryRecv(t) \/ TryFails(t, Pop)
       \/ Notify(t) \/ Interrupt(t) \/ Finish(t) \/ RequestStop(t) \/ Begin(t, "recv")
       \/ \E v \in Values :
            Begin(t, v) \/ TrySend(t, v) \/ (~closed /\ TryFails(t, Push(v)))

Spec == Init /\ [][Next]_vars
-----------------------------------------------------------------------------
Waiting(t) == st[t] = "parked" /\ ~Stopped(t)

\* Before the lock an operation has not happened; from the moment it is delivered it
\* has its outcome, whether or not its loop knows.
Outcome(t) ==
  IF st[t] \notin {"mailed", "done"} THEN "none" ELSE
  IF err[t] # "none" THEN err[t] ELSE
  IF Sends(t) THEN "sent" ELSE
  IF value[t] # "none" THEN value[t] ELSE "closed"

Asked == {t \in Tasks : Stopped(t)}
=============================================================================
