------------------------------- MODULE Futex -------------------------------
(***************************************************************************)
(* futex<T> (src/include/snowy/futex.hpp) over the queue of waiters of     *)
(* detail/wait_queue.hpp: tasks wait, on loops of their own, while an      *)
(* atomic has an expected value; writers store to the atomic outside the   *)
(* queue's mutex and notify afterwards.  What happens under queue.mutex is *)
(* one action.                                                             *)
(***************************************************************************)
EXTENDS Naturals, Sequences, FiniteSets, Functions

CONSTANTS Tasks, Writers,
          Values     \* values of the atomic

\* The expected value of a task that does not wait.
Unset == CHOOSE v \in Values : TRUE

VARIABLES
  value,      \* the atomic
  line,       \* queue.first ... queue.last
  st,         \* "idle", "asking" (not locked yet), "parked" (linked) or "mailed"
              \* (unlinked, the message on its way)
  old, join,  \* the expected value; the wait is not interruptible
  err,        \* op.error as deliver or interrupt left it
  res,        \* how the last wait ended
  tok, mark,  \* the token is stopped; its callback has set op.canceled
  stopping,   \* the loop of the task is stopped
  wakes,      \* whether the program's writers call notify_one or notify_all
  owes        \* the writers between a store and their notification

vars == <<value, line, st, old, join, err, res, tok, mark, stopping, wakes, owes>>

Init ==
  /\ value \in Values /\ line = <<>>
  /\ st = [t \in Tasks |-> "idle"] /\ old = [t \in Tasks |-> Unset]
  /\ join = [t \in Tasks |-> FALSE] /\ err = [t \in Tasks |-> "none"]
  /\ res = [t \in Tasks |-> "none"]
  /\ tok = [t \in Tasks |-> FALSE] /\ mark = [t \in Tasks |-> FALSE]
  /\ stopping = {} /\ wakes \in {"one", "all"} /\ owes = {}
-----------------------------------------------------------------------------
\* canceled_now and arm look at the token, front and expire at op.canceled.
Stopped(t) == ~join[t] /\ (tok[t] \/ t \in stopping)

Canceled(t) == ~join[t] /\ (mark[t] \/ t \in stopping)

\* The wait ends with result r; its awaiter is destroyed, and with it the callback.
Ends(t, r) ==
  /\ st' = [st EXCEPT ![t] = "idle"]
  /\ res' = [res EXCEPT ![t] = r]
  /\ err' = [err EXCEPT ![t] = "none"]
  /\ mark' = [mark EXCEPT ![t] = FALSE] /\ join' = [join EXCEPT ![t] = FALSE]
  /\ old' = [old EXCEPT ![t] = Unset]

\* wait and join up to the lock; a wait that is already canceled ends at once.
Begin(t, o, j) ==
  /\ st[t] = "idle"
  /\ IF ~j /\ (tok[t] \/ t \in stopping)
     THEN Ends(t, "canceled")
     ELSE /\ st' = [st EXCEPT ![t] = "asking"]
          /\ old' = [old EXCEPT ![t] = o] /\ join' = [join EXCEPT ![t] = j]
          /\ res' = [res EXCEPT ![t] = "none"]
          /\ UNCHANGED <<err, mark>>
  /\ UNCHANGED <<value, line, tok, stopping, owes, wakes>>

\* Mutant: the value is not looked at under the lock.
ChangedIgnored(t) == FALSE

\* The look at the atomic under the lock.
Changed(t) == value # old[t]

\* await_suspend under the lock: return if the value has changed, else park and
\* link, unless arm refuses.
Enqueue(t) ==
  /\ st[t] = "asking"
  /\ IF Changed(t) THEN Ends(t, "changed") /\ UNCHANGED line
     ELSE IF Stopped(t) THEN Ends(t, "canceled") /\ UNCHANGED line
     ELSE /\ st' = [st EXCEPT ![t] = "parked"] /\ line' = Append(line, t)
          /\ UNCHANGED <<old, join, err, res, mark>>
  /\ UNCHANGED <<value, tok, stopping, owes, wakes>>

\* deliver to the first k waiters: unlink, store the error, send the message.
Deliver(k, canceled) ==
  /\ st' = [t \in Tasks |-> IF \E i \in 1..k : t = line[i] THEN "mailed" ELSE st[t]]
  /\ err' = [t \in Tasks |-> IF t \in canceled THEN "canceled" ELSE err[t]]
  /\ line' = SubSeq(line, k + 1, Len(line))

\* Mutant: front does not prune.
PruneNone == 0

\* front: how many canceled waiters are at the head of the queue.
Prune ==
  LET Prefix == {k \in 0..Len(line) : \A i \in 1..k : Canceled(line[i])}
  IN CHOOSE k \in Prefix : \A j \in Prefix : j <= k

\* notify_one: prune canceled heads, wake the first live waiter.
NotifyOne(x) ==
  LET n == IF Prune < Len(line) THEN Prune + 1 ELSE Prune
  IN /\ wakes = "one" /\ x \in owes
     /\ Deliver(n, {line[i] : i \in 1..Prune})
     /\ owes' = owes \ {x}
     /\ UNCHANGED <<value, old, join, res, tok, mark, stopping, wakes>>

\* Mutant: notify_all ends at the first canceled waiter.
AllUntilCanceled(x) ==
  LET live == {k \in DOMAIN line : \A i \in 1..k : ~Canceled(line[i])}
  IN /\ wakes = "all" /\ x \in owes
     /\ Deliver(Cardinality(live), {})
     /\ owes' = owes \ {x}
     /\ UNCHANGED <<value, old, join, res, tok, mark, stopping, wakes>>

\* notify_all: every waiter is delivered; those found canceled, as such.
NotifyAll(x) ==
  /\ wakes = "all" /\ x \in owes
  /\ Deliver(Len(line), {t \in Range(line) : Canceled(t)})
  /\ owes' = owes \ {x}
  /\ UNCHANGED <<value, old, join, res, tok, mark, stopping, wakes>>

\* A writer stores, and notifies later.
Store(x, v) ==
  /\ x \notin owes /\ v # value
  /\ value' = v /\ owes' = owes \cup {x}
  /\ UNCHANGED <<line, st, old, join, err, res, tok, mark, stopping, wakes>>

\* The owner loop runs the message: notify, and the task resumes.
Notified(t) ==
  /\ st[t] = "mailed"
  /\ Ends(t, IF err[t] = "none" THEN "notified" ELSE "canceled")
  /\ UNCHANGED <<value, line, tok, stopping, owes, wakes>>

\* unlink, from anywhere in the queue.
Unlinked(t) ==
  LET i == CHOOSE i \in DOMAIN line : line[i] = t
  IN SubSeq(line, 1, i - 1) \o SubSeq(line, i + 1, Len(line))

\* expire on the owner loop calls interrupt: only a linked waiter is canceled.
Interrupt(t) ==
  /\ st[t] = "parked" /\ Canceled(t)
  /\ line' = Unlinked(t)
  /\ Ends(t, "canceled")
  /\ UNCHANGED <<value, tok, stopping, owes, wakes>>

\* request_stop, and the callback that a waiter has registered: cancel_fn.
RequestStop(t) ==
  /\ ~tok[t] /\ tok' = [tok EXCEPT ![t] = TRUE]
  /\ UNCHANGED <<value, line, st, old, join, err, res, mark, stopping, owes, wakes>>

NewToken(t) ==
  /\ st[t] = "idle" /\ tok[t] /\ tok' = [tok EXCEPT ![t] = FALSE]
  /\ UNCHANGED <<value, line, st, old, join, err, res, mark, stopping, owes, wakes>>

Callback(t) ==
  /\ tok[t] /\ ~mark[t] /\ ~join[t] /\ st[t] \in {"parked", "mailed"}
  /\ mark' = [mark EXCEPT ![t] = TRUE]
  /\ UNCHANGED <<value, line, st, old, join, err, res, tok, stopping, owes, wakes>>

Stop(t) ==
  /\ t \notin stopping /\ stopping' = stopping \cup {t}
  /\ UNCHANGED <<value, line, st, old, join, err, res, tok, mark, owes, wakes>>

Next ==
  \/ \E t \in Tasks :
       \/ \E o \in Values, j \in BOOLEAN : Begin(t, o, j)
       \/ Enqueue(t) \/ Notified(t) \/ Interrupt(t)
       \/ RequestStop(t) \/ NewToken(t) \/ Callback(t) \/ Stop(t)
  \/ \E x \in Writers :
       \/ \E v \in Values : Store(x, v)
       \/ NotifyOne(x) \/ NotifyAll(x)

Spec == Init /\ [][Next]_vars

\* Loops serve their waiters, callbacks run, and a writer notifies after it
\* stored; nobody has to store, stop or wait.
FairSpec ==
  /\ Spec
  /\ \A t \in Tasks : WF_vars(Enqueue(t) \/ Notified(t)) /\ WF_vars(Interrupt(t))
                      /\ WF_vars(Callback(t))
  /\ \A x \in Writers : WF_vars(NotifyOne(x) \/ NotifyAll(x))
=============================================================================
