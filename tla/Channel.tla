------------------------------ MODULE Channel ------------------------------
(***************************************************************************)
(* channel<T> of src/include/snowy/channel.hpp: a bounded FIFO of one      *)
(* loop.  Its operations run on the owner thread, so each is one action;   *)
(* the stop of the loop and of a token come from other threads, and may    *)
(* also happen between the two places where an operation looks at them.    *)
(* The waiting itself (callbacks, wakes, the scan of expire) is in Loop.   *)
(***************************************************************************)
EXTENDS Ring, Functions

CONSTANT Tasks  \* tasks of the loop, each with one operation at a time

VARIABLES
  ring, closed,
  line,   \* first_ ... last_: the linked nodes
  st,     \* "idle", "parked" (op.active), or "done": finished, node still alive
  want,   \* the direction of the node: "recv" or the value offered
  value,  \* node.value
  err,    \* op.error
  tok,    \* the token is stopped, and with it op.canceled
  stopping

vars == <<ring, closed, line, st, want, value, err, tok, stopping>>

Init ==
  /\ ring \in {EmptyRing(n) : n \in Capacities}
  /\ closed = FALSE /\ stopping = FALSE /\ line = <<>>
  /\ st = [t \in Tasks |-> "idle"] /\ want = [t \in Tasks |-> "none"]
  /\ value = [t \in Tasks |-> "none"] /\ err = [t \in Tasks |-> "none"]
  /\ tok = [t \in Tasks |-> FALSE]
-----------------------------------------------------------------------------
Sends(t) == want[t] # "recv"

\* take skips a node that is finished, canceled or on a stopped loop.
Live(t, stopped) == st[t] = "parked" /\ ~tok[t] /\ ~stopped

\* Mutant: the newest waiter is served first.
TakeNewest(sending, stopped) ==
  LET n == Len(line)
      match == IF n # 0 /\ Live(line[n], stopped) /\ Sends(line[n]) = sending
               THEN {line[n]} ELSE {}
  IN [pruned |-> {}, match |-> match, line |-> SubSeq(line, 1, IF match = {} THEN n ELSE n - 1)]

\* take(sending): prune the dead nodes in front of the first live one, and unlink
\* that one if it goes in the desired direction.
Take(sending, stopped) ==
  LET Prefix == {k \in 0..Len(line) : \A i \in 1..k : ~Live(line[i], stopped)}
      n == CHOOSE k \in Prefix : \A j \in Prefix : j <= k
      match == IF n < Len(line) /\ Sends(line[n + 1]) = sending THEN {line[n + 1]} ELSE {}
  IN [pruned |-> {line[i] : i \in 1..n} \cap {t \in Tasks : st[t] = "parked"},
      match |-> match,
      line |-> SubSeq(line, IF match = {} THEN n + 1 ELSE n + 2, Len(line))]

\* push(v): to a waiting receiver, else into the buffer, else nothing.
Push(v, stopped) ==
  LET k == Take(FALSE, stopped)
      room == k.match = {} /\ ~Full(ring)
  IN [line |-> k.line, pruned |-> k.pruned, met |-> k.match,
      ok |-> k.match # {} \/ room,
      ring |-> IF room THEN Put(ring, v) ELSE ring,
      value |-> v]

\* pop(): the first buffered value, whose slot a waiting sender refills, else the
\* value of a waiting sender, else nothing.
Pop(stopped) ==
  LET k == Take(TRUE, stopped)
      some == ring.size # 0
      given == IF k.match = {} THEN "none" ELSE value[CHOOSE t \in k.match : TRUE]
      left == IF some THEN Drop(ring) ELSE ring
  IN [line |-> k.line, pruned |-> k.pruned, met |-> k.match,
      ok |-> some \/ k.match # {},
      ring |-> IF some /\ k.match # {} THEN Put(left, given) ELSE left,
      value |-> IF some THEN First(ring) ELSE given]

\* The waiters that push or pop has finished: matched, or pruned and canceled.
Settled(r, t, e) ==
  [u \in Tasks |-> IF u = t THEN e ELSE IF u \in r.pruned THEN "canceled" ELSE err[u]]
Awake(r, t, s) ==
  [u \in Tasks |-> IF u = t THEN s ELSE IF u \in r.pruned \cup r.met THEN "done" ELSE st[u]]

\* Other threads may stop the loop or the token before the second look at them.
Later(t) ==
  /\ stopping' \in {stopping, TRUE}
  /\ tok' \in {tok, [tok EXCEPT ![t] = TRUE]}

\* await_suspend refuses at once: stopped, or (sending) closed.
Refuse(t, w, e) ==
  /\ st' = [st EXCEPT ![t] = "done"] /\ want' = [want EXCEPT ![t] = w]
  /\ value' = [value EXCEPT ![t] = IF w = "recv" THEN "none" ELSE w]
  /\ err' = [err EXCEPT ![t] = e]
  /\ UNCHANGED <<ring, closed, line, tok, stopping>>

\* park and link at the end of the line, or the refusal of arm.
Park(r, t) ==
  IF stopping' \/ tok'[t]
  THEN /\ st' = Awake(r, t, "done") /\ err' = Settled(r, t, "canceled") /\ line' = r.line
  ELSE /\ st' = Awake(r, t, "parked") /\ err' = Settled(r, t, "none")
       /\ line' = Append(r.line, t)

\* co_await send(v): node::await_suspend for a sender.
Send(t, v) ==
  /\ st[t] = "idle"
  /\ IF stopping \/ tok[t] THEN Refuse(t, v, "canceled")
     ELSE IF closed THEN Refuse(t, v, "broken")
     ELSE /\ Later(t)
          /\ LET r == Push(v, stopping') IN
               /\ ring' = r.ring
               /\ want' = [want EXCEPT ![t] = v]
               /\ IF r.ok
                  THEN /\ st' = Awake(r, t, "done") /\ err' = Settled(r, t, "none")
                       /\ line' = r.line
                       /\ value' = [u \in Tasks |-> IF u \in r.met THEN v ELSE
                                                    IF u = t THEN "none" ELSE value[u]]
                  ELSE Park(r, t) /\ value' = [value EXCEPT ![t] = v]
          /\ UNCHANGED closed

\* co_await recv(): node::await_suspend for a receiver.
Recv(t) ==
  /\ st[t] = "idle"
  /\ IF stopping \/ tok[t] THEN Refuse(t, "recv", "canceled")
     ELSE /\ Later(t)
          /\ LET r == Pop(stopping') IN
               /\ ring' = r.ring
               /\ want' = [want EXCEPT ![t] = "recv"]
               /\ value' = [u \in Tasks |-> IF u \in r.met THEN "none" ELSE
                                            IF u = t THEN r.value ELSE value[u]]
               /\ IF r.ok \/ closed
                  THEN /\ st' = Awake(r, t, "done") /\ err' = Settled(r, t, "none")
                       /\ line' = r.line
                  ELSE Park(r, t)
          /\ UNCHANGED closed

\* try_send and try_recv by a task that then goes on at once.  One that fails may
\* still have pruned the line.
TrySend(t, v) ==
  /\ st[t] = "idle" /\ ~closed /\ ~stopping
  /\ stopping' \in {stopping, TRUE}
  /\ LET r == Push(v, stopping') IN
       /\ ring' = r.ring /\ line' = r.line
       /\ st' = Awake(r, t, IF r.ok THEN "done" ELSE "idle")
       /\ want' = IF r.ok THEN [want EXCEPT ![t] = v] ELSE want
       /\ value' = [u \in Tasks |-> IF u \in r.met THEN v ELSE value[u]]
       /\ err' = Settled(r, t, "none")
  /\ UNCHANGED <<closed, tok>>

TryRecv(t) ==
  /\ st[t] = "idle" /\ ~stopping
  /\ stopping' \in {stopping, TRUE}
  /\ LET r == Pop(stopping') IN
       /\ ring' = r.ring /\ line' = r.line
       /\ st' = Awake(r, t, IF r.ok THEN "done" ELSE "idle")
       /\ want' = IF r.ok THEN [want EXCEPT ![t] = "recv"] ELSE want
       /\ value' = [u \in Tasks |-> IF u \in r.met THEN "none" ELSE
                                    IF u = t THEN r.value ELSE value[u]]
       /\ err' = Settled(r, t, "none")
  /\ UNCHANGED <<closed, tok>>

\* close(): every linked node is unlinked, and finished unless it already is.
Close ==
  /\ closed' = TRUE /\ line' = <<>>
  /\ LET W == {t \in Range(line) : st[t] = "parked"} IN
       /\ st' = [t \in Tasks |-> IF t \in W THEN "done" ELSE st[t]]
       /\ err' = [t \in Tasks |-> IF t \in W /\ Sends(t) THEN "broken" ELSE err[t]]
  /\ UNCHANGED <<ring, want, value, tok, stopping>>

\* The loop's scan finishes a canceled wait; the node stays linked.
Expire(t) ==
  /\ st[t] = "parked" /\ (stopping \/ tok[t])
  /\ st' = [st EXCEPT ![t] = "done"] /\ err' = [err EXCEPT ![t] = "canceled"]
  /\ UNCHANGED <<ring, closed, line, want, value, tok, stopping>>

\* unlink, from anywhere in the line.
Unlinked(t) ==
  LET i == CHOOSE i \in DOMAIN line : line[i] = t
  IN SubSeq(line, 1, i - 1) \o SubSeq(line, i + 1, Len(line))

\* The task resumes, await_resume moves the value out and ~node unlinks.
Finish(t) ==
  /\ st[t] = "done"
  /\ st' = [st EXCEPT ![t] = "idle"] /\ want' = [want EXCEPT ![t] = "none"]
  /\ value' = [value EXCEPT ![t] = "none"] /\ err' = [err EXCEPT ![t] = "none"]
  /\ tok' = [tok EXCEPT ![t] = FALSE]
  /\ line' = (IF t \in Range(line) THEN Unlinked(t) ELSE line)
  /\ UNCHANGED <<ring, closed, stopping>>

\* request_stop, as long as the operation may still notice it.
RequestStop(t) ==
  /\ st[t] # "done" /\ ~tok[t] /\ tok' = [tok EXCEPT ![t] = TRUE]
  /\ UNCHANGED <<ring, closed, line, st, want, value, err, stopping>>

Stop ==
  /\ ~stopping /\ stopping' = TRUE
  /\ UNCHANGED <<ring, closed, line, st, want, value, err, tok>>

Next ==
  \/ Close \/ Stop
  \/ \E t \in Tasks :
       \/ Recv(t) \/ TryRecv(t) \/ Expire(t) \/ Finish(t) \/ RequestStop(t)
       \/ \E v \in Values : Send(t, v) \/ TrySend(t, v)

Spec == Init /\ [][Next]_vars
-----------------------------------------------------------------------------
Waiting(t) == Live(t, stopping)

Outcome(t) ==
  IF st[t] # "done" THEN "none" ELSE
  IF err[t] # "none" THEN err[t] ELSE
  IF Sends(t) THEN "sent" ELSE
  IF value[t] # "none" THEN value[t] ELSE "closed"

Asked == {t \in Tasks : stopping \/ tok[t]}
=============================================================================
