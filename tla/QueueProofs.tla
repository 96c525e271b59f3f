---------------------------- MODULE QueueProofs -----------------------------
(***************************************************************************)
(* Proofs about channel<T> and mailbox<T> (Queues), for any number of      *)
(* tasks, loops and values and any capacity: both implement the bounded    *)
(* FIFO, nobody waits for what is there and nobody overtakes.  What their  *)
(* operations have in common is in LineProofs.                             *)
(***************************************************************************)
EXTENDS LineProofs

\* As in LineProofs.
USE Zenon
-----------------------------------------------------------------------------
\* The line as it is.
LEMMA LineStays == QueueInv /\ line' = line => \A t : Leaves(t)
BY DEF QueueInv, Leaves

\* A function changed in one place, written out.
LEMMA OneChange ==
  ASSUME NEW D, NEW T, NEW f \in [D -> T], NEW t \in D, NEW y
  PROVE  [f EXCEPT ![t] = y] = [u \in D |-> IF u = t THEN y ELSE f[u]]
OBVIOUS

\* channel: an operation that does not even start.
LEMMA RefuseKeeps ==
  ASSUME QueueInv, kind = "channel", kind' = kind, NEW t \in Tasks, NEW w \in Values \cup {"recv"}, NEW e,
         st[t] = "idle", C!Refuse(t, w, e),
         (e = "canceled" /\ (stopping \/ tok[t])) \/ (e = "broken" /\ closed /\ w \in Values)
  PROVE  Kept
<1> DEFINE x == IF w = "recv" THEN "none" ELSE w
<1>1. Alone(t, "done", e, w, x) /\ line' = line /\ tok' = tok BY DEF C!Refuse, Alone, QueueInv
<1>2. Leaves(t) BY <1>1, LineStays
<1>3. t \notin Range(line') /\ want[t] = "none"
  <2>1. NodeOk(st[t], want[t], value[t], err[t], t \in Range(line)) BY DEF QueueInv
  <2>2. st[t] \notin {"parked", "done"} BY SMT
  <2> QED BY <1>1, <2>1, <2>2 DEF NodeOk
<1>4. w # "none" BY PlainWords, SMT
<1>5. x \in Optional /\ NodeOk("done", w, x, e, t \in Range(line')) /\ e \in {"none", "canceled", "broken"}
  BY <1>3, <1>4, SMT DEF Optional, NodeOk
<1> HIDE DEF x
<1>6. QueueInv' BY <1>1, <1>2, <1>3, <1>5, AloneKeeps, SMT
<1>7. Ordered BY <1>1, AloneOrders, SMT
<1>8. Results[t] = "none"
  <2>1. st[t] \notin {"mailed", "done"} BY SMT
  <2> QED BY <2>1, ResultsAre DEF OutcomeOf
<1>9. OutcomeOf("done", e, w, x) = e BY SMT DEF OutcomeOf
<1>10. e = "canceled" => t \in Asked BY AskedIs
<1>11. Promise!Work BY <1>1, <1>3, <1>4, <1>6, <1>8, <1>9, <1>10, AloneWorks, SMT
<1> QED BY <1>6, <1>7, <1>11 DEF Kept

\* channel: what other threads do meanwhile.
LEMMA ChannelAsked ==
  ASSUME QueueInv, kind = "channel", kind' = kind, stopping' \in BOOLEAN, stopping => stopping',
         \A u \in Tasks : tok[u] => tok'[u]
  PROVE  /\ Asked \subseteq Asked' /\ (\A u \in Tasks : tok[u] \/ stopping' => u \in Asked')
         /\ \A u \in Tasks : tok'[u] \/ stopping' => u \in Asked'
BY AskedIs, AskedNext

LEMMA LaterFacts ==
  ASSUME QueueInv, kind = "channel", kind' = kind, NEW t \in Tasks, C!Later(t)
  PROVE  /\ stopping' \in BOOLEAN /\ tok' \in [Tasks -> BOOLEAN] /\ Asked \subseteq Asked'
         /\ \A u \in Tasks : (tok[u] \/ stopping' => u \in Asked') /\ (tok'[u] \/ stopping' => u \in Asked')
<1>1. tok \in [Tasks -> BOOLEAN] /\ stopping \in BOOLEAN BY DEF QueueInv
<1>2. stopping' \in BOOLEAN /\ (stopping => stopping') BY <1>1 DEF C!Later
<1>3. tok' \in [Tasks -> BOOLEAN] /\ \A u \in Tasks : tok[u] => tok'[u] BY <1>1 DEF C!Later
<1> QED BY <1>2, <1>3, ChannelAsked

\* channel: what push or pop leaves behind.
LEMMA ChannelServed ==
  ASSUME NEW t \in Tasks, NEW r, NEW s, NEW e, NEW w, NEW x, kind' = kind, closed' = closed, ring' = r.ring,
         line' = (IF s = "parked" THEN Append(r.line, t) ELSE r.line),
         st' = C!Awake(r, t, s), err' = C!Settled(r, t, e),
         want' = [u \in Tasks |-> IF u = t THEN w ELSE want[u]],
         value' = [u \in Tasks |-> value'[u]], value'[t] = x,
         \A u \in Tasks : u # t => value'[u] = IF u \in r.met THEN (IF Sends(u) THEN "none" ELSE r.value) ELSE value[u]
  PROVE  Served(t, r, s, e, w, x, "done")
<1>1. value' = [u \in Tasks |-> IF u = t THEN x ELSE
                                IF u \in r.met THEN (IF Sends(u) THEN "none" ELSE r.value) ELSE value[u]]
  OBVIOUS
<1> QED BY <1>1 DEF Served, C!Awake, C!Settled

\* A task that is not in line is not met or pruned there.
LEMMA NotInLine ==
  ASSUME QueueInv, NEW t \in Tasks, st[t] \in {"idle", "asking"}
  PROVE  /\ t \notin Range(line) /\ Results[t] = "none"
         /\ \A r, sending : Cleared(r, sending) => t \notin r.pruned /\ t \notin r.met
<1>1. st[t] \notin {"parked", "done"} /\ st[t] \notin {"mailed", "done"} BY SMT
<1>2. Results[t] = "none" BY <1>1, ResultsAre DEF OutcomeOf
<1>3. t \notin Range(line)
  <2>1. NodeOk(st[t], want[t], value[t], err[t], t \in Range(line)) BY DEF QueueInv
  <2> QED BY <1>1, <2>1 DEF NodeOk
<1> QED BY <1>2, <1>3 DEF Cleared

\* channel: co_await send(v).
LEMMA SendKeeps ==
  ASSUME QueueInv, kind = "channel", kind' = kind, NEW t \in Tasks, NEW v \in Values, C!Send(t, v)
  PROVE  Kept
<1>1. st[t] = "idle" BY DEF C!Send
<1>2. CASE stopping \/ tok[t]
  <2>1. C!Refuse(t, v, "canceled") BY <1>2 DEF C!Send
  <2> QED BY <1>1, <1>2, <2>1, RefuseKeeps, SMT
<1>3. CASE ~(stopping \/ tok[t]) /\ closed
  <2>1. C!Refuse(t, v, "broken") BY <1>3 DEF C!Send
  <2> QED BY <1>1, <1>3, <2>1, RefuseKeeps, SMT
<1>4. CASE ~(stopping \/ tok[t]) /\ ~closed
  <2> DEFINE r == C!Push(v, stopping')
  <2>1. C!Later(t) /\ ring' = r.ring /\ want' = [want EXCEPT ![t] = v] /\ closed' = closed
    BY <1>4 DEF C!Send
  <2>2. /\ stopping' \in BOOLEAN /\ tok' \in [Tasks -> BOOLEAN] /\ Asked \subseteq Asked'
        /\ \A u \in Tasks : (tok[u] \/ stopping' => u \in Asked') /\ (tok'[u] \/ stopping' => u \in Asked')
    BY <2>1, LaterFacts
  <2>3. /\ Cleared(r, TRUE) /\ Agreed(r, TRUE) /\ Passed(r, TRUE, v)
        /\ \A u \in r.pruned : u \in Tasks /\ (tok[u] \/ stopping')
    BY <2>2, ChannelServes
  <2>4. IF r.ok
        THEN /\ st' = C!Awake(r, t, "done") /\ err' = C!Settled(r, t, "none") /\ line' = r.line
             /\ value' = [u \in Tasks |-> IF u \in r.met THEN v ELSE
                                          IF u = t THEN "none" ELSE value[u]]
        ELSE C!Park(r, t) /\ value' = [value EXCEPT ![t] = v]
    BY <1>4 DEF C!Send
  <2> HIDE DEF r
  <2>5. /\ want \in [Tasks -> Values \cup {"none", "recv"}] /\ value \in [Tasks -> Optional]
        /\ NodeOk(st[t], want[t], value[t], err[t], t \in Range(line))
    BY DEF QueueInv
  <2>6. want[t] = "none" /\ t \notin r.met /\ v # "none" /\ v # "recv"
    <3>1. v # "none" /\ v # "recv" BY PlainWords, SMT
    <3>2. t \notin r.met BY <1>1, <2>3, NotInLine
    <3>3. want[t] = "none" BY <1>1, <2>5 DEF NodeOk
    <3> QED BY <3>1, <3>2, <3>3
  <2>7. want' = [u \in Tasks |-> IF u = t THEN v ELSE want[u]] BY <2>1, <2>5, OneChange
  <2>8. \A u \in Tasks : u \in r.met => ~Sends(u) /\ r.value = v BY <2>3 DEF Cleared, Passed, Sends
  <2>9. r.pruned \subseteq Asked' BY <2>2, <2>3
  <2>10. CASE r.ok
    <3>1. Served(t, r, "done", "none", v, "none", "done")
      <4>1. /\ st' = C!Awake(r, t, "done") /\ err' = C!Settled(r, t, "none") /\ line' = r.line
            /\ value' = [u \in Tasks |-> IF u \in r.met THEN v ELSE IF u = t THEN "none" ELSE value[u]]
        BY <2>4, <2>10
      <4>2. value' = [u \in Tasks |-> value'[u]] /\ value'[t] = "none" BY <2>6, <4>1
      <4>3. \A u \in Tasks : u # t =>
              value'[u] = IF u \in r.met THEN (IF Sends(u) THEN "none" ELSE r.value) ELSE value[u]
        BY <2>8, <4>1
      <4> QED BY <2>1, <2>7, <4>1, <4>2, <4>3, ChannelServed
    <3>2. Sane(t, r, TRUE, "done", "none", v, "none", "done")
      BY <1>1, <2>2, <2>6, <2>10, SMT DEF Sane, NodeOk, Optional
    <3>3. Reports(t, r, TRUE, v, "done", "none", v, "none")
      BY <1>4, <2>2, <2>6, <2>9, <2>10 DEF Reports
    <3>4. Handled(t, r, TRUE, v, "done", "none", v, "none", "done") BY <2>3, <3>1, <3>2, <3>3 DEF Handled
    <3> QED BY <3>4, HandledKeeps
  <2>11. CASE ~r.ok
    <3>1. C!Park(r, t) /\ value' = [value EXCEPT ![t] = v] /\ r.met = {} BY <2>3, <2>4, <2>11 DEF Agreed
    <3>2. value' = [u \in Tasks |-> value'[u]] /\ value'[t] = v BY <2>5, <3>1
    <3>3. \A u \in Tasks : u # t =>
            value'[u] = IF u \in r.met THEN (IF Sends(u) THEN "none" ELSE r.value) ELSE value[u]
      BY <2>5, <3>1
    <3>4. CASE stopping' \/ tok'[t]
      <4>1. st' = C!Awake(r, t, "done") /\ err' = C!Settled(r, t, "canceled") /\ line' = r.line
        BY <3>1, <3>4 DEF C!Park
      <4>2. Served(t, r, "done", "canceled", v, v, "done") BY <2>1, <2>7, <3>2, <3>3, <4>1, ChannelServed
      <4>3. Sane(t, r, TRUE, "done", "canceled", v, v, "done")
        BY <1>1, <2>2, <2>6, <2>11, SMT DEF Sane, NodeOk, Optional
      <4>4. Reports(t, r, TRUE, v, "done", "canceled", v, v)
        BY <2>2, <2>6, <2>9, <2>11, <3>4 DEF Reports
      <4>5. Handled(t, r, TRUE, v, "done", "canceled", v, v, "done") BY <2>3, <4>2, <4>3, <4>4 DEF Handled
      <4> QED BY <4>5, HandledKeeps
    <3>5. CASE ~(stopping' \/ tok'[t])
      <4>1. st' = C!Awake(r, t, "parked") /\ err' = C!Settled(r, t, "none") /\ line' = Append(r.line, t)
        BY <3>1, <3>5 DEF C!Park
      <4>2. Served(t, r, "parked", "none", v, v, "done") BY <2>1, <2>7, <3>2, <3>3, <4>1, ChannelServed
      <4>3. Sane(t, r, TRUE, "parked", "none", v, v, "done")
        BY <1>1, <1>4, <2>2, <2>6, <2>11, SMT DEF Sane, NodeOk, Optional, Offer
      <4>4. Reports(t, r, TRUE, v, "parked", "none", v, v)
        BY <2>2, <2>6, <2>9, <2>11, SMT DEF Reports
      <4>5. Handled(t, r, TRUE, v, "parked", "none", v, v, "done") BY <2>3, <4>2, <4>3, <4>4 DEF Handled
      <4> QED BY <4>5, HandledKeeps
    <3> QED BY <3>4, <3>5
  <2> QED BY <2>10, <2>11
<1> QED BY <1>2, <1>3, <1>4

\* channel: co_await recv().
LEMMA RecvKeeps ==
  ASSUME QueueInv, kind = "channel", kind' = kind, NEW t \in Tasks, C!Recv(t)
  PROVE  Kept
<1>1. st[t] = "idle" BY DEF C!Recv
<1>2. CASE stopping \/ tok[t]
  <2>1. C!Refuse(t, "recv", "canceled") BY <1>2 DEF C!Recv
  <2> QED BY <1>1, <1>2, <2>1, RefuseKeeps, SMT
<1>3. CASE ~(stopping \/ tok[t])
  <2> DEFINE r == C!Pop(stopping')
  <2>1. /\ C!Later(t) /\ ring' = r.ring /\ want' = [want EXCEPT ![t] = "recv"] /\ closed' = closed
        /\ value' = [u \in Tasks |-> IF u \in r.met THEN "none" ELSE IF u = t THEN r.value ELSE value[u]]
    BY <1>3 DEF C!Recv
  <2>2. /\ stopping' \in BOOLEAN /\ tok' \in [Tasks -> BOOLEAN] /\ Asked \subseteq Asked'
        /\ \A u \in Tasks : (tok[u] \/ stopping' => u \in Asked') /\ (tok'[u] \/ stopping' => u \in Asked')
    BY <2>1, LaterFacts
  <2>3. /\ Cleared(r, FALSE) /\ Agreed(r, FALSE) /\ Passed(r, FALSE, "none")
        /\ \A u \in r.pruned : u \in Tasks /\ (tok[u] \/ stopping')
    BY <2>2, ChannelServes
  <2>4. IF r.ok \/ closed
        THEN st' = C!Awake(r, t, "done") /\ err' = C!Settled(r, t, "none") /\ line' = r.line
        ELSE C!Park(r, t)
    BY <1>3 DEF C!Recv
  <2> HIDE DEF r
  <2>5. /\ want \in [Tasks -> Values \cup {"none", "recv"}]
        /\ NodeOk(st[t], want[t], value[t], err[t], t \in Range(line))
    BY DEF QueueInv
  <2>6. want[t] = "none" /\ t \notin r.met
    <3>1. t \notin r.met BY <1>1, <2>3, NotInLine
    <3> QED BY <1>1, <2>5, <3>1 DEF NodeOk
  <2>7. want' = [u \in Tasks |-> IF u = t THEN "recv" ELSE want[u]] BY <2>1, <2>5, OneChange
  <2>8. \A u \in Tasks : u \in r.met => Sends(u) BY <2>3 DEF Cleared, Sends
  <2>9. r.pruned \subseteq Asked' BY <2>2, <2>3
  <2>10. r.value \in Optional /\ (~r.ok => r.value = "none") BY <2>3 DEF Passed
  <2>11. value' = [u \in Tasks |-> value'[u]] /\ value'[t] = r.value BY <2>1, <2>6
  <2>12. \A u \in Tasks : u # t =>
           value'[u] = IF u \in r.met THEN (IF Sends(u) THEN "none" ELSE r.value) ELSE value[u]
    BY <2>1, <2>8
  <2>13. CASE r.ok \/ closed
    <3>1. Served(t, r, "done", "none", "recv", r.value, "done")
      BY <2>1, <2>4, <2>7, <2>11, <2>12, <2>13, ChannelServed
    <3>2. Sane(t, r, FALSE, "done", "none", "recv", r.value, "done")
      BY <1>1, <2>2, <2>10, SMT DEF Sane, NodeOk
    <3>3. Reports(t, r, FALSE, "none", "done", "none", "recv", r.value)
      BY <2>2, <2>6, <2>9, <2>10, <2>13 DEF Reports
    <3>4. Handled(t, r, FALSE, "none", "done", "none", "recv", r.value, "done")
      BY <2>3, <3>1, <3>2, <3>3 DEF Handled
    <3> QED BY <3>4, HandledKeeps
  <2>14. CASE ~(r.ok \/ closed) /\ (stopping' \/ tok'[t])
    <3>1. st' = C!Awake(r, t, "done") /\ err' = C!Settled(r, t, "canceled") /\ line' = r.line
      BY <2>4, <2>14 DEF C!Park
    <3>2. Served(t, r, "done", "canceled", "recv", r.value, "done")
      BY <2>1, <2>7, <2>11, <2>12, <3>1, ChannelServed
    <3>3. Sane(t, r, FALSE, "done", "canceled", "recv", r.value, "done")
      BY <1>1, <2>2, <2>10, SMT DEF Sane, NodeOk
    <3>4. Reports(t, r, FALSE, "none", "done", "canceled", "recv", r.value)
      BY <2>2, <2>6, <2>9, <2>14 DEF Reports
    <3>5. Handled(t, r, FALSE, "none", "done", "canceled", "recv", r.value, "done")
      BY <2>3, <3>2, <3>3, <3>4 DEF Handled
    <3> QED BY <3>5, HandledKeeps
  <2>15. CASE ~(r.ok \/ closed) /\ ~(stopping' \/ tok'[t])
    <3>1. st' = C!Awake(r, t, "parked") /\ err' = C!Settled(r, t, "none") /\ line' = Append(r.line, t)
      BY <2>4, <2>15 DEF C!Park
    <3>2. Served(t, r, "parked", "none", "recv", r.value, "done")
      BY <2>1, <2>7, <2>11, <2>12, <3>1, ChannelServed
    <3>3. Sane(t, r, FALSE, "parked", "none", "recv", r.value, "done")
      BY <1>1, <2>2, <2>10, <2>15, SMT DEF Sane, NodeOk, Offer
    <3>4. Reports(t, r, FALSE, "none", "parked", "none", "recv", r.value)
      BY <2>2, <2>6, <2>9, <2>15, SMT DEF Reports
    <3>5. Handled(t, r, FALSE, "none", "parked", "none", "recv", r.value, "done")
      BY <2>3, <3>2, <3>3, <3>4 DEF Handled
    <3> QED BY <3>5, HandledKeeps
  <2> QED BY <2>13, <2>14, <2>15
<1> QED BY <1>2, <1>3

\* channel: a try, by a task that goes on at once.
LEMMA TryKeeps ==
  ASSUME QueueInv, kind = "channel", kind' = kind, NEW t \in Tasks, st[t] = "idle", NEW r, NEW sending \in BOOLEAN,
         NEW v, NEW w, Cleared(r, sending), Agreed(r, sending), Passed(r, sending, v), tok' = tok,
         stopping' \in {stopping, TRUE}, \A u \in r.pruned : u \in Tasks /\ (tok[u] \/ stopping'),
         closed' = closed, sending => ~closed, ring' = r.ring, line' = r.line,
         st' = C!Awake(r, t, IF r.ok THEN "done" ELSE "idle"), err' = C!Settled(r, t, "none"),
         want' = (IF r.ok THEN [want EXCEPT ![t] = w] ELSE want), w = (IF sending THEN v ELSE "recv"),
         NEW x, x = (IF sending THEN "none" ELSE r.value),
         value' = [u \in Tasks |-> value'[u]], value'[t] = x,
         \A u \in Tasks : u # t =>
           value'[u] = IF u \in r.met THEN (IF Sends(u) THEN "none" ELSE r.value) ELSE value[u]
  PROVE  Kept
<1>1. /\ want \in [Tasks -> Values \cup {"none", "recv"}] /\ tok \in [Tasks -> BOOLEAN] /\ stopping \in BOOLEAN
      /\ NodeOk(st[t], want[t], value[t], err[t], t \in Range(line))
  BY DEF QueueInv
<1>2. want[t] = "none" BY <1>1 DEF NodeOk
<1>3. stopping' \in BOOLEAN /\ (stopping => stopping') BY <1>1
<1>4. Asked \subseteq Asked' /\ \A u \in Tasks : tok[u] \/ stopping' => u \in Asked' BY <1>3, ChannelAsked
<1>5. r.pruned \subseteq Asked' BY <1>4
<1>6. CASE r.ok
  <2>1. want' = [u \in Tasks |-> IF u = t THEN w ELSE want[u]] BY <1>1, <1>6, OneChange
  <2>2. Served(t, r, "done", "none", w, x, "done") BY <1>6, <2>1, ChannelServed
  <2>3. w \in Values \cup {"recv"} /\ w # "none" /\ x \in Optional BY <1>6, PlainWords, SMT DEF Passed, Optional
  <2>4. Sane(t, r, sending, "done", "none", w, x, "done") BY <1>1, <1>3, <2>3, SMT DEF Sane, NodeOk
  <2>5. Reports(t, r, sending, v, "done", "none", w, x) BY <1>2, <1>4, <1>5, <1>6 DEF Reports
  <2>6. Handled(t, r, sending, v, "done", "none", w, x, "done") BY <2>2, <2>4, <2>5 DEF Handled
  <2> QED BY <2>6, HandledKeeps, SMT
<1>7. CASE ~r.ok
  <2>1. want' = [u \in Tasks |-> IF u = t THEN "none" ELSE want[u]] BY <1>1, <1>2, <1>7
  <2>2. x = "none" BY <1>7 DEF Passed
  <2>3. Served(t, r, "idle", "none", "none", x, "done") BY <1>7, <2>1, ChannelServed, SMT
  <2>4. Sane(t, r, sending, "idle", "none", "none", x, "done") BY <1>1, <1>3, <2>2, SMT DEF Sane, NodeOk, Optional
  <2>5. Reports(t, r, sending, v, "idle", "none", "none", x) BY <1>2, <1>4, <1>5, <1>7, SMT DEF Reports
  <2>6. Handled(t, r, sending, v, "idle", "none", "none", x, "done") BY <2>3, <2>4, <2>5 DEF Handled
  <2> QED BY <2>6, HandledKeeps, SMT
<1> QED BY <1>6, <1>7

LEMMA ChannelTryKeeps ==
  ASSUME QueueInv, kind = "channel", kind' = kind, NEW t \in Tasks,
         C!TryRecv(t) \/ \E v \in Values : C!TrySend(t, v)
  PROVE  Kept
<1>1. stopping \in BOOLEAN /\ value \in [Tasks -> Optional]
      /\ NodeOk(st[t], want[t], value[t], err[t], t \in Range(line))
  BY DEF QueueInv
<1>2. ASSUME NEW v \in Values, C!TrySend(t, v) PROVE Kept
  <2> DEFINE r == C!Push(v, stopping')
  <2>1. /\ st[t] = "idle" /\ ~closed /\ stopping' \in {stopping, TRUE} /\ ring' = r.ring /\ line' = r.line
        /\ st' = C!Awake(r, t, IF r.ok THEN "done" ELSE "idle") /\ err' = C!Settled(r, t, "none")
        /\ want' = (IF r.ok THEN [want EXCEPT ![t] = v] ELSE want)
        /\ value' = [u \in Tasks |-> IF u \in r.met THEN v ELSE value[u]] /\ closed' = closed /\ tok' = tok
    BY <1>2 DEF C!TrySend
  <2>2. /\ Cleared(r, TRUE) /\ Agreed(r, TRUE) /\ Passed(r, TRUE, v)
        /\ \A u \in r.pruned : u \in Tasks /\ (tok[u] \/ stopping')
    <3>1. stopping' \in BOOLEAN BY <1>1, <2>1
    <3> QED BY <3>1, ChannelServes
  <2> HIDE DEF r
  <2>3. t \notin r.met /\ value[t] = "none"
    <3>1. t \notin r.met BY <2>1, <2>2, NotInLine
    <3> QED BY <1>1, <2>1, <3>1 DEF NodeOk
  <2>4. value' = [u \in Tasks |-> value'[u]] /\ value'[t] = "none" BY <2>1, <2>3
  <2>5. \A u \in Tasks : u \in r.met => ~Sends(u) /\ r.value = v BY <2>2 DEF Cleared, Passed, Sends
  <2>6. \A u \in Tasks : u # t =>
          value'[u] = IF u \in r.met THEN (IF Sends(u) THEN "none" ELSE r.value) ELSE value[u]
    BY <2>1, <2>5
  <2> QED BY <2>1, <2>2, <2>4, <2>6, TryKeeps
<1>3. ASSUME C!TryRecv(t) PROVE Kept
  <2> DEFINE r == C!Pop(stopping')
  <2>1. /\ st[t] = "idle" /\ stopping' \in {stopping, TRUE} /\ ring' = r.ring /\ line' = r.line
        /\ st' = C!Awake(r, t, IF r.ok THEN "done" ELSE "idle") /\ err' = C!Settled(r, t, "none")
        /\ want' = (IF r.ok THEN [want EXCEPT ![t] = "recv"] ELSE want)
        /\ value' = [u \in Tasks |-> IF u \in r.met THEN "none" ELSE IF u = t THEN r.value ELSE value[u]]
        /\ closed' = closed /\ tok' = tok
    BY <1>3 DEF C!TryRecv
  <2>2. /\ Cleared(r, FALSE) /\ Agreed(r, FALSE) /\ Passed(r, FALSE, "none")
        /\ \A u \in r.pruned : u \in Tasks /\ (tok[u] \/ stopping')
    <3>1. stopping' \in BOOLEAN BY <1>1, <2>1
    <3> QED BY <3>1, ChannelServes
  <2> HIDE DEF r
  <2>3. t \notin r.met BY <2>1, <2>2, NotInLine
  <2>4. value' = [u \in Tasks |-> value'[u]] /\ value'[t] = r.value BY <2>1, <2>3
  <2>5. \A u \in Tasks : u \in r.met => Sends(u) BY <2>2 DEF Cleared, Sends
  <2>6. \A u \in Tasks : u # t =>
          value'[u] = IF u \in r.met THEN (IF Sends(u) THEN "none" ELSE r.value) ELSE value[u]
    BY <2>1, <2>5
  <2> QED BY <2>1, <2>2, <2>4, <2>6, TryKeeps
<1> QED BY <1>2, <1>3

\* A step that starts no operation.
LEMMA WorksOn ==
  ASSUME QueueInv', Bound' = Bound, closed => closed', Asked \subseteq Asked', want' = want, Promise!Settle
  PROVE  Promise!Work
<1>1. /\ Promise!AtMostOne({u \in Tasks : want'[u] # want[u]})
      /\ \A u \in {y \in Tasks : want'[y] # want[y]} : want[u] = "none"
  BY DEF Promise!AtMostOne
<1>2. Results' \in [Tasks -> Promise!Outcomes] /\ want' \in [Tasks -> Promise!Wants] BY ResultsTyped
<1> QED BY <1>1, <1>2 DEF Promise!Work

\* close ends the operations W that wait: a canceled one as canceled, a send as broken,
\* a receive without a value.
Closes(W, X) ==
  /\ kind' = kind /\ closed' = TRUE /\ line' = <<>>
  /\ ring' = ring /\ want' = want /\ value' = value /\ tok' = tok /\ stopping' = stopping
  /\ \A u : u \in W <=> u \in Range(line) /\ st[u] = "parked"
  /\ X \in {"mailed", "done"} /\ (kind = "channel" => X = "done")
  /\ st' = [u \in Tasks |-> IF u \in W THEN X ELSE st[u]]
  /\ err' \in [Tasks -> {"none", "canceled", "broken"}]
  /\ \A u \in Tasks : u \notin W => err'[u] = err[u]
  /\ \A u \in W : \/ err'[u] = "canceled" /\ u \in Asked
                  \/ err'[u] = "broken" /\ Sends(u)
                  \/ err'[u] = "none" /\ ~Sends(u)

LEMMA ClosesKeeps ==
  ASSUME QueueInv, NEW W, NEW X, Closes(W, X)
  PROVE  Kept
<1>1. /\ line \in Seq(Tasks) /\ kind \in {"channel", "mailbox"} /\ Sound(ring)
      /\ st \in [Tasks -> {"idle", "asking", "parked", "mailed", "done"}]
      /\ want \in [Tasks -> Values \cup {"none", "recv"}] /\ value \in [Tasks -> Optional]
      /\ tok \in [Tasks -> BOOLEAN]
      /\ \A u \in Tasks : NodeOk(st[u], want[u], value[u], err[u], u \in Range(line))
      /\ \A u \in Range(line) : ring.size = IF Sends(u) THEN Capacity(ring) ELSE 0
  BY DEF QueueInv
<1>2. Range(line) \subseteq Tasks BY <1>1, SMT DEF Range
<1>3. X \in {"idle", "asking", "parked", "mailed", "done"} /\ X \notin {"idle", "asking", "parked"}
      /\ X \in {"mailed", "done"} /\ X # "parked"
  BY SMT DEF Closes
<1>4. Range(line') = {} /\ line' \in Seq(Tasks) /\ IsInjective(line') BY SMT DEF Range, IsInjective, Closes
<1>5. \A u \in W : u \in Tasks /\ st[u] = "parked" /\ st'[u] = X BY <1>2 DEF Closes
<1>6. \A u \in Tasks : u \notin W => st'[u] = st[u] /\ err'[u] = err[u] /\ st[u] # "parked"
  BY <1>1 DEF Closes, NodeOk
<1>7. \A u \in W : st[u] # "idle" /\ st[u] \in {"asking", "parked"} /\ st[u] \notin {"mailed", "done"} BY <1>5, SMT
<1>8. \A u \in W : want[u] # "none" /\ value[u] = Offer(want[u]) BY <1>1, <1>5, <1>7 DEF NodeOk
<1>9. \A u \in Tasks : NodeOk(st'[u], want'[u], value'[u], err'[u], u \in Range(line'))
  <2> SUFFICES ASSUME NEW u \in Tasks PROVE NodeOk(st'[u], want[u], value[u], err'[u], FALSE)
    BY <1>4 DEF Closes, NodeOk
  <2>1. CASE u \in W BY <1>3, <1>5, <1>8, <2>1 DEF NodeOk
  <2>2. CASE u \notin W BY <1>1, <1>6, <2>2 DEF NodeOk
  <2> QED BY <2>1, <2>2
<1>10. st' \in [Tasks -> {"idle", "asking", "parked", "mailed", "done"}] BY <1>1, <1>3 DEF Closes
<1>11. kind' = "channel" => stopping' \in BOOLEAN /\ \A u \in Tasks : st'[u] \in {"idle", "parked", "done"}
  <2>1. kind = "channel" => stopping \in BOOLEAN /\ \A u \in Tasks : st[u] \in {"idle", "parked", "done"}
    BY DEF QueueInv
  <2> QED BY <2>1 DEF Closes
<1>12. QueueInv' BY <1>1, <1>4, <1>9, <1>10, <1>11 DEF QueueInv, Closes
<1>13. Ordered
  <2> SUFFICES ASSUME NEW i \in 1..Len(line), Waiting(line[i]) PROVE st'[line[i]] # "parked"
    BY DEF Ordered
  <2>1. line[i] \in Tasks BY <1>1, SMT
  <2> QED BY <1>3, <1>5, <1>6, <2>1
<1>14. Bound' = Bound /\ Buffered' = Buffered /\ Buffered = Contents(ring) /\ closed'
  BY DEF Bound, Buffered, Closes
<1>15. Asked' = Asked BY AskedIs, AskedNext DEF Closes
<1>16. \A u \in Tasks : u \notin W => Results'[u] = Results[u]
  <2>1. want' = want /\ value' = value BY DEF Closes
  <2> QED BY <1>6, <1>12, <2>1, ResultsAre, ResultsNext
<1>17. \A u \in W : Results'[u] \in {"canceled", "broken", "closed"} /\ Promise!Allowed(u, Results'[u])
  <2> SUFFICES ASSUME NEW u \in W
               PROVE  Results'[u] \in {"canceled", "broken", "closed"} /\ Promise!Allowed(u, Results'[u])
    OBVIOUS
  <2>1. Results[u] = "none" BY <1>5, <1>7, ResultsAre DEF OutcomeOf
  <2>2. Results'[u] = OutcomeOf(X, err'[u], want[u], value[u]) /\ want'[u] = want[u]
    BY <1>5, <1>12, ResultsNext DEF Closes
  <2>3. CASE err'[u] = "canceled" /\ u \in Asked
    <3>1. Results'[u] = "canceled" BY <1>3, <2>2, <2>3, SMT DEF OutcomeOf
    <3> QED BY <1>5, <1>8, <1>15, <2>1, <2>2, <2>3, <3>1, AllowedCases
  <2>4. CASE err'[u] = "broken" /\ Sends(u)
    <3>1. Results'[u] = "broken" BY <1>3, <2>2, <2>4, SMT DEF OutcomeOf
    <3>2. want[u] \in Values BY <1>1, <1>5, <1>8, <2>4 DEF Sends
    <3> QED BY <1>5, <1>14, <2>1, <2>2, <3>1, <3>2, AllowedCases
  <2>5. CASE err'[u] = "none" /\ ~Sends(u)
    <3>1. want[u] = "recv" /\ value[u] = "none" BY <1>8, <2>5 DEF Sends, Offer
    <3>2. Results'[u] = "closed" BY <1>3, <2>2, <2>5, <3>1, SMT DEF OutcomeOf
    <3>3. ring.size = 0 BY <1>1, <2>5 DEF Closes
    <3>4. Buffered' = <<>> BY <1>1, <1>14, <3>3, ContentsFacts
    <3> QED BY <1>5, <1>14, <2>1, <2>2, <3>1, <3>2, <3>4, AllowedCases
  <2> QED BY <2>3, <2>4, <2>5 DEF Closes
<1>18. Promise!Settle BY <1>12, <1>14, <1>16, <1>17, SettlesQuietly
<1>19. Promise!Work BY <1>12, <1>14, <1>15, <1>18, WorksOn DEF Closes
<1> QED BY <1>12, <1>13, <1>19 DEF Kept

\* A token or a loop is stopped, and nothing else happens.
LEMMA StopsKeeps ==
  ASSUME QueueInv, kind' = kind, ring' = ring, closed' = closed, line' = line, st' = st, want' = want,
         value' = value, err' = err, tok' \in [Tasks -> BOOLEAN], kind = "channel" => stopping' \in BOOLEAN,
         Asked \subseteq Asked'
  PROVE  Kept
<1>1. QueueInv' BY DEF QueueInv, Sends
<1>2. Ordered BY DEF Ordered
<1>3. Bound' = Bound /\ Buffered' = Buffered BY DEF Bound, Buffered
<1>4. \A u \in Tasks : Results'[u] = Results[u] BY <1>1, ResultsAre, ResultsNext
<1>5. Promise!Settle BY <1>1, <1>3, <1>4, SettlesQuietly
<1>6. Promise!Work BY <1>1, <1>3, <1>5, WorksOn
<1> QED BY <1>1, <1>2, <1>6 DEF Kept

\* A wait ends because it has been canceled.
LEMMA CanceledKeeps ==
  ASSUME QueueInv, NEW t \in Tasks, st[t] = "parked", t \in Asked, Alone(t, "done", "canceled", want[t], value[t]),
         tok' = tok, Leaves(t), t \in Range(line') => kind = "channel"
  PROVE  Kept
<1>1. want[t] \in Values \cup {"none", "recv"} /\ value[t] \in Optional
      /\ NodeOk(st[t], want[t], value[t], err[t], t \in Range(line))
  BY DEF QueueInv
<1>2. want[t] # "none"
  <2>1. st[t] # "idle" BY SMT
  <2> QED BY <1>1, <2>1 DEF NodeOk
<1>3. NodeOk("done", want[t], value[t], "canceled", t \in Range(line')) BY <1>2, SMT DEF NodeOk
<1>4. QueueInv' BY <1>1, <1>3, AloneKeeps, SMT
<1>5. Ordered BY AloneOrders, SMT
<1>6. OutcomeOf("done", "canceled", want[t], value[t]) = "canceled" BY SMT DEF OutcomeOf
<1>7. Results[t] = "none"
  <2>1. st[t] \notin {"mailed", "done"} BY SMT
  <2> QED BY <2>1, ResultsAre DEF OutcomeOf
<1>8. Promise!Work BY <1>2, <1>4, <1>6, <1>7, AloneWorks, SMT
<1> QED BY <1>4, <1>5, <1>8 DEF Kept

\* An operation ends.
LEMMA FinishKeeps ==
  ASSUME QueueInv, NEW t \in Tasks, st[t] = "done", Alone(t, "idle", "none", "none", "none"),
         tok' = [tok EXCEPT ![t] = FALSE], Leaves(t), t \notin Range(line')
  PROVE  QueueInv' /\ Ordered /\ Promise!Finish(t)
<1>1. NodeOk("idle", "none", "none", "none", t \in Range(line')) /\ "none" \in Optional BY SMT DEF NodeOk, Optional
<1>2. QueueInv' BY <1>1, AloneKeeps, SMT
<1>3. Ordered BY AloneOrders, SMT
<1>4. Promise!Finish(t) BY <1>2, AloneFinishes
<1> QED BY <1>2, <1>3, <1>4
-----------------------------------------------------------------------------
\* What every step does.
Progress == QueueInv' /\ Ordered /\ (Promise!Work \/ \E t \in Tasks : Promise!Finish(t))

LEMMA ChannelStep ==
  ASSUME QueueInv, kind = "channel", kind' = kind, C!Next
  PROVE  Progress
<1>1. /\ st \in [Tasks -> {"idle", "asking", "parked", "mailed", "done"}]
      /\ want \in [Tasks -> Values \cup {"none", "recv"}] /\ value \in [Tasks -> Optional]
      /\ err \in [Tasks -> {"none", "canceled", "broken"}]
      /\ tok \in [Tasks -> BOOLEAN] /\ stopping \in BOOLEAN
  BY DEF QueueInv
<1>2. Kept => Progress BY DEF Kept, Progress
<1>3. CASE C!Close
  <2> DEFINE W == {t \in Range(line) : st[t] = "parked"}
  <2>1. /\ closed' = TRUE /\ line' = <<>> /\ st' = [t \in Tasks |-> IF t \in W THEN "done" ELSE st[t]]
        /\ err' = [t \in Tasks |-> IF t \in W /\ Sends(t) THEN "broken" ELSE err[t]]
        /\ ring' = ring /\ want' = want /\ value' = value /\ tok' = tok /\ stopping' = stopping
    BY <1>3, ChannelRing DEF C!Close, C!Sends, Sends
  <2>2. \A u : u \in W <=> u \in Range(line) /\ st[u] = "parked" OBVIOUS
  <2> HIDE DEF W
  <2>3. err' \in [Tasks -> {"none", "canceled", "broken"}] BY <1>1, <2>1, SMT
  <2>4. \A u \in Tasks : u \notin W => err'[u] = err[u] BY <2>1
  <2>5. ASSUME NEW u \in W PROVE (err'[u] = "broken" /\ Sends(u)) \/ (err'[u] = "none" /\ ~Sends(u))
    <3>1. u \in Range(line) /\ st[u] = "parked" BY <2>2, <2>5
    <3>2. u \in Tasks
      <4>1. line \in Seq(Tasks) BY DEF QueueInv
      <4>2. Range(line) \subseteq Tasks BY <4>1, SMT DEF Range
      <4> QED BY <3>1, <4>2
    <3>3. err[u] = "none"
      <4>1. st[u] \in {"asking", "parked"} BY <3>1, SMT
      <4> QED BY <3>2, <4>1 DEF QueueInv, NodeOk
    <3> QED BY <2>1, <2>5, <3>2, <3>3
  <2>6. Closes(W, "done") BY <2>1, <2>2, <2>3, <2>4, <2>5 DEF Closes
  <2> QED BY <1>2, <2>6, ClosesKeeps
<1>4. CASE C!Stop
  <2>1. /\ stopping' = TRUE /\ ring' = ring /\ closed' = closed /\ line' = line /\ st' = st /\ want' = want
        /\ value' = value /\ err' = err /\ tok' = tok
    BY <1>4 DEF C!Stop
  <2>2. Asked \subseteq Asked' BY <2>1, ChannelAsked
  <2> QED BY <1>1, <1>2, <2>1, <2>2, StopsKeeps
<1>5. ASSUME NEW t \in Tasks, C!RequestStop(t) PROVE Progress
  <2>1. /\ tok' = [tok EXCEPT ![t] = TRUE] /\ ring' = ring /\ closed' = closed /\ line' = line /\ st' = st
        /\ want' = want /\ value' = value /\ err' = err /\ stopping' = stopping
    BY <1>5 DEF C!RequestStop
  <2>2. tok' \in [Tasks -> BOOLEAN] /\ \A u \in Tasks : tok[u] => tok'[u] BY <1>1, <2>1
  <2>3. Asked \subseteq Asked' BY <1>1, <2>1, <2>2, ChannelAsked
  <2> QED BY <1>1, <1>2, <2>1, <2>2, <2>3, StopsKeeps
<1>6. ASSUME NEW t \in Tasks, C!Expire(t) PROVE Progress
  <2>1. Alone(t, "done", "canceled", want[t], value[t]) /\ line' = line /\ tok' = tok /\ st[t] = "parked"
    BY <1>1, <1>6 DEF C!Expire, Alone
  <2>2. Leaves(t) BY <2>1, LineStays
  <2>3. t \in Asked BY <1>6, AskedIs DEF C!Expire
  <2> QED BY <1>2, <2>1, <2>2, <2>3, CanceledKeeps
<1>7. ASSUME NEW t \in Tasks, C!Finish(t) PROVE Progress
  <2>1. /\ Alone(t, "idle", "none", "none", "none") /\ tok' = [tok EXCEPT ![t] = FALSE] /\ st[t] = "done"
        /\ line' = (IF t \in Range(line) THEN C!Unlinked(t) ELSE line)
    BY <1>1, <1>7, ChannelRing DEF C!Finish, Alone
  <2>2. CASE t \in Range(line)
    <3>1. line' \in Seq(Tasks) /\ IsInjective(line') /\ \A u : u \in Range(line') <=> u \in Range(line) /\ u # t
      BY <2>1, <2>2, UnlinkFacts DEF C!Unlinked
    <3>2. Leaves(t) /\ t \notin Range(line') BY <3>1 DEF Leaves
    <3> QED BY <2>1, <3>2, FinishKeeps DEF Progress
  <2>3. CASE t \notin Range(line)
    <3>1. line' = line BY <2>1, <2>3
    <3>2. Leaves(t) /\ t \notin Range(line') BY <2>3, <3>1, LineStays
    <3> QED BY <2>1, <3>2, FinishKeeps DEF Progress
  <2> QED BY <2>2, <2>3
<1>8. ASSUME NEW t \in Tasks, C!Recv(t) PROVE Progress BY <1>2, <1>8, RecvKeeps
<1>9. ASSUME NEW t \in Tasks, C!TryRecv(t) PROVE Progress BY <1>2, <1>9, ChannelTryKeeps
<1>10. ASSUME NEW t \in Tasks, NEW v \in Values, C!Send(t, v) PROVE Progress BY <1>2, <1>10, SendKeeps
<1>11. ASSUME NEW t \in Tasks, NEW v \in Values, C!TrySend(t, v) PROVE Progress
  BY <1>2, <1>11, ChannelTryKeeps
<1> QED BY <1>3, <1>4, <1>5, <1>6, <1>7, <1>8, <1>9, <1>10, <1>11 DEF C!Next
-----------------------------------------------------------------------------
\* mailbox: what push or pop leaves behind.
LEMMA MailboxServed ==
  ASSUME NEW t \in Tasks, NEW r, NEW s, NEW e, NEW w, NEW x, kind' = kind, closed' = closed, ring' = r.ring,
         line' = (IF s = "parked" THEN Append(r.line, t) ELSE r.line),
         st' = M!Delivered(r, t, s), err' = M!Failure(r, t, e), value' = M!Received(r, t, x),
         want' = [u \in Tasks |-> IF u = t THEN w ELSE want[u]]
  PROVE  Served(t, r, s, e, w, x, "mailed")
BY DEF Served, M!Delivered, M!Failure, M!Received, M!Sends, Sends

\* mailbox: an operation under the lock, of a task that is in state s with error e,
\* direction w and value x afterwards.
Locked(t, r, s, e, w, x) ==
  /\ kind' = kind /\ closed' = closed /\ ring' = r.ring
  /\ line' = (IF s = "parked" THEN Append(r.line, t) ELSE r.line)
  /\ st' = M!Delivered(r, t, s) /\ err' = M!Failure(r, t, e) /\ value' = M!Received(r, t, x)
  /\ want' = [u \in Tasks |-> IF u = t THEN w ELSE want[u]]
  /\ tok' = tok /\ stopping' = stopping

\* mailbox: the handler of such an operation, sending v or receiving, with the
\* outcome it stores.
Operates(t, r, sending, v, s, e, w, x) ==
  /\ Cleared(r, sending) /\ Agreed(r, sending) /\ Passed(r, sending, v)
  /\ \A u \in r.pruned : u \in Tasks /\ M!Stopped(u)
  /\ Locked(t, r, s, e, w, x)
  /\ s \in {"idle", "parked", "done"} /\ e \in {"none", "canceled"} /\ w \in Values \cup {"none", "recv"} /\ x \in Optional
  /\ NodeOk(s, w, x, e, s = "parked") /\ (s = "parked" => ~r.ok /\ ~closed /\ ((w # "recv") <=> sending))
  /\ (want[t] = "none" \/ w = want[t]) /\ (s # "done" => ~r.ok)
  /\ (s = "done" =>
        \/ e = "canceled" /\ ~r.ok /\ M!Stopped(t)
        \/ e = "none" /\ r.ok /\ sending /\ w = v /\ ~closed
        \/ e = "none" /\ r.ok /\ ~sending /\ w = "recv" /\ x = r.value
        \/ e = "none" /\ ~r.ok /\ ~sending /\ w = "recv" /\ x = "none" /\ closed)

LEMMA LockedKeeps ==
  ASSUME QueueInv, kind = "mailbox", NEW t \in Tasks, st[t] \in {"idle", "asking"}, NEW sending \in BOOLEAN,
         NEW r, NEW v, NEW s, NEW e, NEW w, NEW x, Operates(t, r, sending, v, s, e, w, x)
  PROVE  Kept
<1>1. kind # "channel" /\ tok \in [Tasks -> BOOLEAN]
  <2>1. kind # "channel" BY SMT
  <2> QED BY <2>1 DEF QueueInv
<1>2. Asked' = Asked /\ \A u \in Tasks : M!Stopped(u) => u \in Asked
  BY <1>1, AskedIs, AskedNext DEF Operates, Locked, M!Stopped
<1>3. Served(t, r, s, e, w, x, "mailed") BY MailboxServed DEF Operates, Locked
<1>4. "mailed" \in {"mailed", "done"} BY SMT
<1>5. Sane(t, r, sending, s, e, w, x, "mailed") BY <1>1, <1>4 DEF Sane, Operates, Locked
<1>6. Reports(t, r, sending, v, s, e, w, x) BY <1>2 DEF Reports, Operates
<1>7. Handled(t, r, sending, v, s, e, w, x, "mailed") BY <1>3, <1>5, <1>6 DEF Handled, Operates
<1> QED BY <1>7, HandledKeeps, SMT

\* mailbox: await_suspend up to the lock.
LEMMA BeginKeeps ==
  ASSUME QueueInv, kind = "mailbox", kind' = kind, NEW t \in Tasks, NEW w \in Values \cup {"recv"}, M!Begin(t, w)
  PROVE  Kept
<1> DEFINE x == IF w = "recv" THEN "none" ELSE w
           s == IF M!Stopped(t) THEN "done" ELSE "asking"
           e == IF M!Stopped(t) THEN "canceled" ELSE "none"
<1>1. Alone(t, s, e, w, x) /\ line' = line /\ tok' = tok /\ st[t] = "idle" BY DEF M!Begin, Alone, QueueInv
<1>2. Leaves(t) BY <1>1, LineStays
<1>3. t \notin Range(line') /\ want[t] = "none" /\ Results[t] = "none"
  <2>1. st[t] \in {"idle", "asking"} BY <1>1, SMT
  <2>2. NodeOk(st[t], want[t], value[t], err[t], t \in Range(line)) BY DEF QueueInv
  <2>3. want[t] = "none" BY <1>1, <2>2 DEF NodeOk
  <2> QED BY <1>1, <2>1, <2>3, NotInLine
<1>4. w # "none" /\ w \in Values \cup {"none", "recv"} BY PlainWords, SMT
<1>5. x \in Optional /\ x = Offer(w) BY SMT DEF Optional, Offer
<1>6. s \in {"asking", "done"} /\ e \in {"none", "canceled"} /\ (s = "asking" <=> e = "none")
      /\ (e = "canceled" => M!Stopped(t))
  <2>1. CASE M!Stopped(t) BY <2>1, SMT
  <2>2. CASE ~M!Stopped(t) BY <2>2, SMT
  <2> QED BY <2>1, <2>2
<1> HIDE DEF x, s, e
<1>7. NodeOk(s, w, x, e, t \in Range(line')) BY <1>3, <1>4, <1>5, <1>6, SMT DEF NodeOk
<1>8. kind # "channel" BY SMT
<1>9. QueueInv'
  <2>1. s \in {"idle", "asking", "mailed", "done"} /\ e \in {"none", "canceled", "broken"} BY <1>6, SMT
  <2> QED BY <1>1, <1>2, <1>3, <1>4, <1>5, <1>7, <1>8, <2>1, AloneKeeps
<1>10. st[t] # "parked" BY <1>1, SMT
<1>11. Ordered BY <1>1, <1>10, AloneOrders
<1>12. OutcomeOf(s, e, w, x) = "none" \/ (OutcomeOf(s, e, w, x) = "canceled" /\ M!Stopped(t))
  BY <1>6, SMT DEF OutcomeOf
<1>13. M!Stopped(t) => t \in Asked BY <1>8, AskedIs DEF M!Stopped
<1>14. Promise!Work BY <1>1, <1>3, <1>4, <1>9, <1>12, <1>13, AloneWorks
<1> QED BY <1>9, <1>11, <1>14 DEF Kept

\* mailbox: send under the lock.
LEMMA SendLockedKeeps ==
  ASSUME QueueInv, kind = "mailbox", kind' = kind, NEW t \in Tasks, M!SendLocked(t)
  PROVE  Kept
<1> DEFINE v == value[t]
<1>1. st[t] = "asking" /\ want[t] # "recv" /\ closed' = closed /\ want' = want /\ tok' = tok /\ stopping' = stopping
  BY DEF M!SendLocked, M!Sends
<1>2. /\ want \in [Tasks -> Values \cup {"none", "recv"}] /\ value \in [Tasks -> Optional]
      /\ st \in [Tasks -> {"idle", "asking", "parked", "mailed", "done"}]
      /\ err \in [Tasks -> {"none", "canceled", "broken"}] /\ tok \in [Tasks -> BOOLEAN]
      /\ NodeOk(st[t], want[t], value[t], err[t], t \in Range(line))
  BY DEF QueueInv
<1>3. v = want[t] /\ v \in Values /\ v # "none" /\ v # "recv" /\ v \in Optional
  <2>1. st[t] # "idle" /\ st[t] \in {"asking", "parked"} BY <1>1, SMT
  <2>2. want[t] # "none" /\ v = Offer(want[t]) BY <1>2, <2>1 DEF NodeOk
  <2>3. v = want[t] BY <1>1, <2>2 DEF Offer
  <2> QED BY <1>1, <1>2, <2>2, <2>3
<1>4. st[t] \in {"idle", "asking"} BY <1>1, SMT
<1>5. t \notin Range(line) /\ Results[t] = "none" BY <1>4, NotInLine
<1>6. want' = [u \in Tasks |-> IF u = t THEN v ELSE want[u]] BY <1>1, <1>2, <1>3
<1>7. CASE closed
  <2>1. Alone(t, "done", "broken", v, v) /\ line' = line
    <3>1. want' = [want EXCEPT ![t] = v] /\ value' = [value EXCEPT ![t] = v]
      BY <1>1, <1>2, <1>3, <1>7 DEF M!SendLocked
    <3> QED BY <1>1, <1>2, <1>7, <3>1 DEF M!SendLocked, Alone
  <2>2. Leaves(t) BY <2>1, LineStays
  <2>3. NodeOk("done", v, v, "broken", t \in Range(line')) BY <1>3, SMT DEF NodeOk
  <2>4. QueueInv' BY <1>3, <1>5, <2>1, <2>2, <2>3, AloneKeeps, SMT
  <2>5. Ordered BY <1>1, <2>1, AloneOrders, SMT
  <2>6. OutcomeOf("done", "broken", v, v) = "broken" BY SMT DEF OutcomeOf
  <2>7. Promise!Work BY <1>1, <1>3, <1>5, <1>7, <2>1, <2>4, <2>6, AloneWorks, SMT
  <2> QED BY <2>4, <2>5, <2>7 DEF Kept
<1>8. CASE ~closed
  <2> DEFINE r == M!Push(v)
  <2>1. IF r.ok THEN M!Return(t, r, "none", "none") ELSE M!Enqueue(t, r) BY <1>8 DEF M!SendLocked
  <2>2. /\ Cleared(r, TRUE) /\ Agreed(r, TRUE) /\ Passed(r, TRUE, v)
        /\ \A u \in r.pruned : u \in Tasks /\ M!Stopped(u)
    BY <1>3, MailboxServes
  <2> HIDE DEF r, v
  <2>3. CASE r.ok
    <3>1. Locked(t, r, "done", "none", v, "none")
      BY <1>1, <1>6, <2>1, <2>3, SMT DEF Locked, M!Return
    <3>2. NodeOk("done", v, "none", "none", FALSE) /\ "none" \in Optional BY <1>3, SMT DEF NodeOk, Optional
    <3>3. Operates(t, r, TRUE, v, "done", "none", v, "none") BY <1>3, <1>8, <2>2, <2>3, <3>1, <3>2 DEF Operates
    <3> QED BY <1>4, <3>3, LockedKeeps
  <2>4. CASE ~r.ok /\ M!Stopped(t)
    <3>1. Locked(t, r, "done", "canceled", v, v)
      BY <1>1, <1>6, <2>1, <2>4, SMT DEF Locked, M!Return, M!Enqueue, v
    <3>2. NodeOk("done", v, v, "canceled", FALSE) BY <1>3, SMT DEF NodeOk
    <3>3. Operates(t, r, TRUE, v, "done", "canceled", v, v) BY <1>3, <1>8, <2>2, <2>4, <3>1, <3>2 DEF Operates
    <3> QED BY <1>4, <3>3, LockedKeeps
  <2>5. CASE ~r.ok /\ ~M!Stopped(t)
    <3>1. Locked(t, r, "parked", "none", v, v)
      BY <1>1, <1>6, <2>1, <2>5, SMT DEF Locked, M!Enqueue, v
    <3>2. NodeOk("parked", v, v, "none", TRUE) BY <1>3, SMT DEF NodeOk, Offer
    <3>3. Operates(t, r, TRUE, v, "parked", "none", v, v) BY <1>3, <1>8, <2>2, <2>5, <3>1, <3>2 DEF Operates
    <3> QED BY <1>4, <3>3, LockedKeeps
  <2> QED BY <2>3, <2>4, <2>5
<1> QED BY <1>7, <1>8

\* mailbox: recv under the lock.
LEMMA RecvLockedKeeps ==
  ASSUME QueueInv, kind = "mailbox", kind' = kind, NEW t \in Tasks, M!RecvLocked(t)
  PROVE  Kept
<1> DEFINE r == M!Pop
<1>1. /\ st[t] = "asking" /\ want[t] = "recv" /\ closed' = closed /\ want' = want /\ tok' = tok /\ stopping' = stopping
      /\ IF r.ok \/ closed THEN M!Return(t, r, "none", r.value) ELSE M!Enqueue(t, r)
  BY DEF M!RecvLocked, M!Sends
<1>2. /\ want \in [Tasks -> Values \cup {"none", "recv"}]
      /\ NodeOk(st[t], want[t], value[t], err[t], t \in Range(line))
  BY DEF QueueInv
<1>3. value[t] = "none"
  <2>1. st[t] \in {"asking", "parked"} BY <1>1, SMT
  <2> QED BY <1>1, <1>2, <2>1 DEF NodeOk, Offer
<1>4. st[t] \in {"idle", "asking"} /\ "recv" \in Values \cup {"none", "recv"} /\ "none" \in Optional
  BY <1>1, SMT DEF Optional
<1>5. want' = [u \in Tasks |-> IF u = t THEN "recv" ELSE want[u]] BY <1>1, <1>2
<1>6. /\ Cleared(r, FALSE) /\ Agreed(r, FALSE) /\ Passed(r, FALSE, "none")
      /\ \A u \in r.pruned : u \in Tasks /\ M!Stopped(u)
  BY MailboxServes
<1> HIDE DEF r
<1>7. r.value \in Optional /\ (~r.ok => r.value = "none") BY <1>6 DEF Passed
<1>8. CASE r.ok \/ closed
  <2>1. Locked(t, r, "done", "none", "recv", r.value) BY <1>1, <1>5, <1>8, SMT DEF Locked, M!Return
  <2>2. NodeOk("done", "recv", r.value, "none", FALSE) BY SMT DEF NodeOk
  <2>3. Operates(t, r, FALSE, "none", "done", "none", "recv", r.value)
    BY <1>1, <1>4, <1>6, <1>7, <1>8, <2>1, <2>2 DEF Operates
  <2> QED BY <1>4, <2>3, LockedKeeps
<1>9. CASE ~(r.ok \/ closed) /\ M!Stopped(t)
  <2>1. Locked(t, r, "done", "canceled", "recv", "none")
    BY <1>1, <1>3, <1>5, <1>9, SMT DEF Locked, M!Enqueue, M!Return
  <2>2. NodeOk("done", "recv", "none", "canceled", FALSE) BY SMT DEF NodeOk
  <2>3. Operates(t, r, FALSE, "none", "done", "canceled", "recv", "none")
    BY <1>1, <1>4, <1>6, <1>9, <2>1, <2>2 DEF Operates
  <2> QED BY <1>4, <2>3, LockedKeeps
<1>10. CASE ~(r.ok \/ closed) /\ ~M!Stopped(t)
  <2>1. Locked(t, r, "parked", "none", "recv", "none") BY <1>1, <1>3, <1>5, <1>10, SMT DEF Locked, M!Enqueue
  <2>2. NodeOk("parked", "recv", "none", "none", TRUE) BY SMT DEF NodeOk, Offer
  <2>3. Operates(t, r, FALSE, "none", "parked", "none", "recv", "none")
    BY <1>1, <1>4, <1>6, <1>10, <2>1, <2>2 DEF Operates
  <2> QED BY <1>4, <2>3, LockedKeeps
<1> QED BY <1>8, <1>9, <1>10

\* mailbox: try_send and try_recv.
LEMMA MailboxTryKeeps ==
  ASSUME QueueInv, kind = "mailbox", kind' = kind, NEW t \in Tasks
  PROVE  /\ \A v \in Values : M!TrySend(t, v) \/ (~closed /\ M!TryFails(t, M!Push(v))) => Kept
         /\ M!TryRecv(t) \/ M!TryFails(t, M!Pop) => Kept
<1>1. /\ want \in [Tasks -> Values \cup {"none", "recv"}] /\ value \in [Tasks -> Optional]
      /\ NodeOk(st[t], want[t], value[t], err[t], t \in Range(line))
  BY DEF QueueInv
<1>2. "none" \in Optional /\ "none" \in Values \cup {"none", "recv"} /\ "recv" \in Values \cup {"none", "recv"}
  BY SMT DEF Optional
<1>3. st[t] = "idle" => want[t] = "none" /\ value[t] = "none" BY <1>1 DEF NodeOk
<1>4. ASSUME NEW r, NEW sending \in BOOLEAN, NEW v, Cleared(r, sending), Agreed(r, sending), Passed(r, sending, v),
             \A u \in r.pruned : u \in Tasks /\ M!Stopped(u), M!TryFails(t, r)
      PROVE  Kept
  <2>1. /\ st[t] = "idle" /\ ~r.ok /\ line' = r.line /\ st' = M!Delivered(r, t, "idle") /\ err' = M!Failure(r, t, "none")
        /\ ring' = ring /\ closed' = closed /\ want' = want /\ value' = value /\ tok' = tok /\ stopping' = stopping
    BY <1>4 DEF M!TryFails
  <2>2. r.met = {} /\ r.ring = ring BY <1>4, <2>1 DEF Agreed
  <2>3. want' = [u \in Tasks |-> IF u = t THEN "none" ELSE want[u]] BY <1>1, <1>3, <2>1
  <2>4. value' = M!Received(r, t, "none") BY <1>1, <1>3, <2>1, <2>2 DEF M!Received
  <2>5. Locked(t, r, "idle", "none", "none", "none") BY <2>1, <2>2, <2>3, <2>4, SMT DEF Locked
  <2>6. NodeOk("idle", "none", "none", "none", FALSE) BY SMT DEF NodeOk
  <2>7. Operates(t, r, sending, v, "idle", "none", "none", "none")
    BY <1>2, <1>3, <1>4, <2>1, <2>5, <2>6 DEF Operates
  <2>8. st[t] \in {"idle", "asking"} BY <2>1, SMT
  <2> QED BY <2>7, <2>8, LockedKeeps, SMT
<1>5. ASSUME NEW r, NEW sending \in BOOLEAN, NEW v, Cleared(r, sending), Agreed(r, sending), Passed(r, sending, v),
             \A u \in r.pruned : u \in Tasks /\ M!Stopped(u), NEW w, NEW x, w = (IF sending THEN v ELSE "recv"),
             x = (IF sending THEN "none" ELSE r.value), sending => ~closed, st[t] = "idle", r.ok,
             M!Return(t, r, "none", x), want' = [want EXCEPT ![t] = w], closed' = closed, tok' = tok,
             stopping' = stopping
      PROVE  Kept
  <2>1. want' = [u \in Tasks |-> IF u = t THEN w ELSE want[u]] BY <1>1, <1>5, OneChange
  <2>2. Locked(t, r, "done", "none", w, x) BY <1>5, <2>1 DEF Locked, M!Return
  <2>3. w \in Values \cup {"none", "recv"} /\ w # "none" /\ x \in Optional
    BY <1>2, <1>5, PlainWords, SMT DEF Passed
  <2>4. NodeOk("done", w, x, "none", FALSE) BY <2>3, SMT DEF NodeOk
  <2>5. want[t] = "none" BY <1>3, <1>5, SMT
  <2>6. CASE sending
    <3>1. Operates(t, r, sending, v, "done", "none", w, x) BY <1>5, <2>2, <2>3, <2>4, <2>5, <2>6 DEF Operates
    <3> QED BY <1>5, <3>1, LockedKeeps, SMT
  <2>7. CASE ~sending
    <3>1. Operates(t, r, sending, v, "done", "none", w, x) BY <1>5, <2>2, <2>3, <2>4, <2>5, <2>7 DEF Operates
    <3> QED BY <1>5, <3>1, LockedKeeps, SMT
  <2> QED BY <2>6, <2>7
<1>6. ASSUME NEW v \in Values PROVE M!TrySend(t, v) \/ (~closed /\ M!TryFails(t, M!Push(v))) => Kept
  <2> DEFINE r == M!Push(v)
  <2>1. /\ Cleared(r, TRUE) /\ Agreed(r, TRUE) /\ Passed(r, TRUE, v)
        /\ \A u \in r.pruned : u \in Tasks /\ M!Stopped(u)
    BY MailboxServes
  <2>2. M!TrySend(t, v) =>
          /\ st[t] = "idle" /\ ~closed /\ M!Return(t, r, "none", "none") /\ r.ok /\ want' = [want EXCEPT ![t] = v]
          /\ closed' = closed /\ tok' = tok /\ stopping' = stopping
    BY DEF M!TrySend
  <2> HIDE DEF r
  <2>3. M!TrySend(t, v) => Kept BY <1>5, <2>1, <2>2
  <2>4. M!TryFails(t, r) => Kept BY <1>4, <2>1
  <2> QED BY <2>3, <2>4 DEF r
<1>7. M!TryRecv(t) \/ M!TryFails(t, M!Pop) => Kept
  <2> DEFINE r == M!Pop
  <2>1. /\ Cleared(r, FALSE) /\ Agreed(r, FALSE) /\ Passed(r, FALSE, "none")
        /\ \A u \in r.pruned : u \in Tasks /\ M!Stopped(u)
    BY MailboxServes
  <2>2. M!TryRecv(t) =>
          /\ st[t] = "idle" /\ M!Return(t, r, "none", r.value) /\ r.ok /\ want' = [want EXCEPT ![t] = "recv"]
          /\ closed' = closed /\ tok' = tok /\ stopping' = stopping
    BY DEF M!TryRecv
  <2> HIDE DEF r
  <2>3. M!TryRecv(t) => Kept BY <1>5, <2>1, <2>2
  <2>4. M!TryFails(t, r) => Kept BY <1>4, <2>1
  <2> QED BY <2>3, <2>4 DEF r
<1> QED BY <1>6, <1>7

LEMMA MailboxStep ==
  ASSUME QueueInv, kind = "mailbox", kind' = kind, M!Next
  PROVE  Progress
<1>1. /\ st \in [Tasks -> {"idle", "asking", "parked", "mailed", "done"}] /\ line \in Seq(Tasks)
      /\ want \in [Tasks -> Values \cup {"none", "recv"}] /\ value \in [Tasks -> Optional]
      /\ err \in [Tasks -> {"none", "canceled", "broken"}] /\ tok \in [Tasks -> BOOLEAN]
      /\ \A u \in Tasks : NodeOk(st[u], want[u], value[u], err[u], u \in Range(line))
      /\ \A u \in Range(line) : st[u] = "parked"
  BY DEF QueueInv
<1>2. Kept => Progress BY DEF Kept, Progress
<1>3. kind # "channel" /\ "mailed" \in {"mailed", "done"} BY SMT
<1>4. Range(line) \subseteq Tasks BY <1>1, SMT DEF Range
<1>5. \A u \in Tasks : M!Stopped(u) <=> u \in Asked BY <1>3, AskedIs DEF M!Stopped
<1>6. CASE M!Close
  <2>1. /\ closed' = TRUE /\ line' = <<>> /\ st' = [t \in Tasks |-> IF t \in Range(line) THEN "mailed" ELSE st[t]]
        /\ err' = [t \in Tasks |-> IF t \notin Range(line) THEN err[t] ELSE
                                   IF M!Stopped(t) THEN "canceled" ELSE IF Sends(t) THEN "broken" ELSE "none"]
        /\ ring' = ring /\ want' = want /\ value' = value /\ tok' = tok /\ stopping' = stopping
    BY <1>6, MailboxRing DEF M!Close, M!Sends, Sends
  <2>2. \A u : u \in Range(line) <=> u \in Range(line) /\ st[u] = "parked" BY <1>1
  <2>3. err' \in [Tasks -> {"none", "canceled", "broken"}]
    <3>1. \A u \in Tasks : err[u] \in {"none", "canceled", "broken"} BY <1>1
    <3>2. "none" \in {"none", "canceled", "broken"} /\ "canceled" \in {"none", "canceled", "broken"}
          /\ "broken" \in {"none", "canceled", "broken"}
      BY SMT
    <3> QED BY <2>1, <3>1, <3>2
  <2>4. \A u \in Tasks : u \notin Range(line) => err'[u] = err[u] BY <2>1
  <2>5. \A u \in Range(line) : \/ err'[u] = "canceled" /\ u \in Asked
                               \/ err'[u] = "broken" /\ Sends(u)
                               \/ err'[u] = "none" /\ ~Sends(u)
    BY <1>4, <1>5, <2>1
  <2>6. Closes(Range(line), "mailed") BY <1>3, <2>1, <2>2, <2>3, <2>4, <2>5 DEF Closes
  <2> QED BY <1>2, <2>6, ClosesKeeps
<1>7. ASSUME NEW l \in Loops, M!Stop(l) PROVE Progress
  <2>1. /\ stopping' = stopping \cup {l} /\ ring' = ring /\ closed' = closed /\ line' = line /\ st' = st /\ want' = want
        /\ value' = value /\ err' = err /\ tok' = tok
    BY <1>7 DEF M!Stop
  <2>2. Asked \subseteq Asked' BY <1>3, <2>1, AskedIs, AskedNext
  <2> QED BY <1>1, <1>2, <1>3, <2>1, <2>2, StopsKeeps
<1>8. ASSUME NEW t \in Tasks, M!RequestStop(t) PROVE Progress
  <2>1. /\ tok' = [tok EXCEPT ![t] = TRUE] /\ ring' = ring /\ closed' = closed /\ line' = line /\ st' = st
        /\ want' = want /\ value' = value /\ err' = err /\ stopping' = stopping
    BY <1>8 DEF M!RequestStop
  <2>2. tok' \in [Tasks -> BOOLEAN] /\ \A u \in Tasks : tok[u] => tok'[u] BY <1>1, <2>1
  <2>3. Asked \subseteq Asked' BY <1>3, <2>1, <2>2, AskedIs, AskedNext
  <2> QED BY <1>1, <1>2, <1>3, <2>1, <2>2, <2>3, StopsKeeps
<1>9. ASSUME NEW t \in Tasks, M!Notify(t) PROVE Progress
  <2>1. st[t] = "mailed" /\ st' = [st EXCEPT ![t] = "done"] /\ line' = line /\ tok' = tok
    BY <1>9 DEF M!Notify
  <2>2. Alone(t, "done", err[t], want[t], value[t]) BY <1>1, <1>9 DEF M!Notify, Alone
  <2>3. st[t] \notin {"idle", "asking", "parked"} /\ st[t] # "parked" /\ st[t] # "idle" BY <2>1, SMT
  <2>4. t \notin Range(line') BY <1>1, <2>1, <2>3
  <2>5. want[t] # "none" BY <1>1, <2>3 DEF NodeOk
  <2>6. NodeOk("done", want[t], value[t], err[t], t \in Range(line')) BY <2>4, <2>5, SMT DEF NodeOk
  <2>7. Leaves(t) BY <2>1, LineStays
  <2>8. QueueInv' BY <1>1, <2>2, <2>4, <2>6, <2>7, AloneKeeps, SMT
  <2>9. Ordered BY <2>2, <2>3, AloneOrders, SMT
  <2>10. OutcomeOf("done", err[t], want[t], value[t]) = Results[t]
    <3>1. Results[t] = OutcomeOf("mailed", err[t], want[t], value[t]) BY <2>1, ResultsAre
    <3> QED BY <3>1, SMT DEF OutcomeOf
  <2>11. Promise!Work BY <2>1, <2>2, <2>8, <2>10, AloneWorks
  <2> QED BY <2>8, <2>9, <2>11 DEF Progress
<1>10. ASSUME NEW t \in Tasks, M!Interrupt(t) PROVE Progress
  <2>1. Alone(t, "done", "canceled", want[t], value[t]) /\ line' = M!Unlinked(t) /\ tok' = tok /\ st[t] = "parked"
    BY <1>1, <1>10 DEF M!Interrupt, Alone
  <2>2. t \in Range(line) BY <1>1, <2>1 DEF NodeOk
  <2>3. line' \in Seq(Tasks) /\ IsInjective(line') /\ \A u : u \in Range(line') <=> u \in Range(line) /\ u # t
    BY <2>1, <2>2, UnlinkFacts DEF M!Unlinked
  <2>4. Leaves(t) /\ t \notin Range(line') BY <2>3 DEF Leaves
  <2>5. t \in Asked BY <1>5, <1>10 DEF M!Interrupt
  <2> QED BY <1>2, <2>1, <2>4, <2>5, CanceledKeeps
<1>11. ASSUME NEW t \in Tasks, M!Finish(t) PROVE Progress
  <2>1. /\ Alone(t, "idle", "none", "none", "none") /\ tok' = [tok EXCEPT ![t] = FALSE] /\ st[t] = "done"
        /\ line' = line
    BY <1>1, <1>11 DEF M!Finish, Alone
  <2>2. st[t] # "parked" BY <2>1, SMT
  <2>3. Leaves(t) /\ t \notin Range(line') BY <1>1, <2>1, <2>2, LineStays
  <2> QED BY <2>1, <2>3, FinishKeeps DEF Progress
<1>12. ASSUME NEW t \in Tasks, M!SendLocked(t) \/ M!RecvLocked(t) PROVE Progress
  BY <1>2, <1>12, SendLockedKeeps, RecvLockedKeeps
<1>13. ASSUME NEW t \in Tasks, M!TryRecv(t) \/ M!TryFails(t, M!Pop) PROVE Progress
  BY <1>2, <1>13, MailboxTryKeeps
<1>14. ASSUME NEW t \in Tasks, NEW v \in Values, M!TrySend(t, v) \/ (~closed /\ M!TryFails(t, M!Push(v)))
       PROVE  Progress
  BY <1>2, <1>14, MailboxTryKeeps
<1>15. ASSUME NEW t \in Tasks, M!Begin(t, "recv") PROVE Progress BY <1>2, <1>15, BeginKeeps, SMT
<1>16. ASSUME NEW t \in Tasks, NEW v \in Values, M!Begin(t, v) PROVE Progress BY <1>2, <1>16, BeginKeeps, SMT
<1> QED BY <1>6, <1>7, <1>8, <1>9, <1>10, <1>11, <1>12, <1>13, <1>14, <1>15, <1>16 DEF M!Next
-----------------------------------------------------------------------------
LEMMA QueueInit ==
  ASSUME Init
  PROVE  QueueInv /\ Promise!FifoInit
<1>1. /\ kind \in {"channel", "mailbox"} /\ closed = FALSE /\ line = <<>>
      /\ st = [t \in Tasks |-> "idle"] /\ want = [t \in Tasks |-> "none"]
      /\ value = [t \in Tasks |-> "none"] /\ err = [t \in Tasks |-> "none"] /\ tok = [t \in Tasks |-> FALSE]
      /\ (kind = "channel" => stopping = FALSE) /\ (kind = "mailbox" => stopping = {})
  BY SMT DEF Init, C!Init, M!Init
<1>2. PICK n \in Capacities : ring = EmptyRing(n)
  BY ChannelRing, MailboxRing DEF Init, C!Init, M!Init
<1>3. Sound(ring) /\ Contents(ring) = <<>> /\ Capacity(ring) \in Nat
  <2>1. Sound(ring) /\ Contents(ring) = <<>> BY <1>2, EmptyRingFacts
  <2> QED BY <2>1 DEF Sound
<1>4. Range(line) = {} /\ line \in Seq(Tasks) /\ IsInjective(line) BY <1>1, SMT DEF Range, IsInjective
<1>5. \A t \in Tasks : NodeOk(st[t], want[t], value[t], err[t], t \in Range(line)) BY <1>1, <1>4, SMT DEF NodeOk
<1>6. /\ st \in [Tasks -> {"idle", "asking", "parked", "mailed", "done"}]
      /\ want \in [Tasks -> Values \cup {"none", "recv"}] /\ value \in [Tasks -> Optional]
      /\ err \in [Tasks -> {"none", "canceled", "broken"}] /\ tok \in [Tasks -> BOOLEAN] /\ closed \in BOOLEAN
  BY <1>1 DEF Optional
<1>7. kind = "channel" => stopping \in BOOLEAN /\ \A t \in Tasks : st[t] \in {"idle", "parked", "done"} BY <1>1
<1>8. QueueInv BY <1>1, <1>3, <1>4, <1>5, <1>6, <1>7 DEF QueueInv
<1>9. Asked = {}
  <2>1. CASE kind = "channel" BY <1>1, <2>1, AskedIs
  <2>2. CASE kind # "channel"
    <3>1. stopping = {} BY <1>1, <2>2, SMT
    <3> QED BY <1>1, <2>2, <3>1, AskedIs
  <2> QED BY <2>1, <2>2
<1>10. Results = [t \in Tasks |-> "none"]
  <2>1. \A t \in Tasks : Results[t] = "none"
    <3>1. \A t \in Tasks : Results[t] = OutcomeOf("idle", "none", "none", "none") BY <1>1, <1>8, ResultsAre
    <3>2. OutcomeOf("idle", "none", "none", "none") = "none" BY SMT DEF OutcomeOf
    <3> QED BY <3>1, <3>2
  <2> QED BY <2>1 DEF Results
<1>11. Promise!FifoInit BY <1>1, <1>3, <1>9, <1>10 DEF Promise!FifoInit, Bound, Buffered
<1> QED BY <1>8, <1>11

\* Every step of the library's queues is a step of the FIFO, or leaves it alone.
LEMMA QueueStep ==
  ASSUME QueueInv, [Next]_vars
  PROVE  /\ QueueInv' /\ (Ordered \/ UNCHANGED vars)
         /\ Promise!Work \/ (\E t \in Tasks : Promise!Finish(t)) \/ UNCHANGED Promise!fifoVars
<1>1. CASE kind = "channel" /\ C!Next /\ UNCHANGED kind BY <1>1, ChannelStep DEF Progress
<1>2. CASE kind = "mailbox" /\ M!Next /\ UNCHANGED kind BY <1>2, MailboxStep DEF Progress
<1>3. CASE UNCHANGED vars
  <2>1. /\ kind' = kind /\ ring' = ring /\ closed' = closed /\ line' = line /\ st' = st /\ want' = want
        /\ value' = value /\ err' = err /\ tok' = tok /\ stopping' = stopping
    BY <1>3, SMT DEF vars
  <2>2. QueueInv' BY <2>1 DEF QueueInv, Sends
  <2>3. Bound' = Bound /\ Buffered' = Buffered BY <2>1 DEF Bound, Buffered
  <2>4. Asked' = Asked BY <2>1, AskedIs, AskedNext
  <2>5. \A u \in Tasks : Outcome(u)' = Outcome(u)
    BY <2>1 DEF Outcome, IsChannel, C!Outcome, M!Outcome, C!Sends, M!Sends
  <2>6. Results' = Results BY <2>5 DEF Results
  <2>7. UNCHANGED Promise!fifoVars BY <2>1, <2>3, <2>4, <2>6 DEF Promise!fifoVars
  <2> QED BY <1>3, <2>2, <2>7
<1> QED BY <1>1, <1>2, <1>3 DEF Next

\* The inductive invariant of both queues: what the node of an operation holds agrees
\* with its state, and all nodes in line go in the one direction that the buffer is not
\* ready for (push, pop, enqueue, close and unlink of channel.hpp and mailbox.hpp).
THEOREM QueueInductive == Spec => []QueueInv
<1>1. Init => QueueInv BY QueueInit, SMT
<1>2. QueueInv /\ [Next]_vars => QueueInv' BY QueueStep, SMT
<1> QED BY <1>1, <1>2, PTL DEF Spec

\* Whatever the capacity and however many tasks: nobody waits on a channel or a mailbox
\* for what is there, a receiver only while the buffer is empty, a sender only while it
\* is full, never both, and nobody once the queue is closed.
THEOREM NobodyIdles == Spec => []NoIdleWait
<1>1. QueueInv => NoIdleWait
  <2> SUFFICES ASSUME QueueInv PROVE NoIdleWait BY SMT
  <2>1. \A t \in Tasks : Waiting(t) => t \in Range(line)
    BY WaitingParked DEF QueueInv, NodeOk
  <2>2. closed => Range(line) = {}
    <3>1. closed => line = <<>> BY DEF QueueInv
    <3> QED BY <3>1, SMT DEF Range
  <2>3. /\ \A t \in Range(line) : ring.size = IF Sends(t) THEN Capacity(ring) ELSE 0
        /\ \A t, u \in Range(line) : Sends(t) <=> Sends(u)
    BY DEF QueueInv
  <2>4. \A t, u \in Range(line) : Sends(u) = Sends(t) BY <2>3, SMT DEF Sends
  <2> QED BY <2>1, <2>2, <2>3, <2>4 DEF NoIdleWait
<1> QED BY <1>1, QueueInductive, PTL

\* take and front serve the line in order: no operation in line succeeds while one that
\* waits in front of it goes on waiting.
THEOREM NobodyOvertakes == Spec => NoOvertaking
<1>1. QueueInv /\ [Next]_vars => [Ordered]_vars BY QueueStep
<1>2. QueueInv /\ [Next]_vars =>
        [\A i, j \in 1..Len(line) :
           /\ i < j /\ Waiting(line[i])
           /\ st[line[j]] = "parked" /\ st'[line[j]] # "parked" /\ err'[line[j]] = "none"
           => st'[line[i]] # "parked"]_vars
  BY <1>1 DEF Ordered
<1> QED BY <1>2, QueueInductive, PTL DEF Spec, NoOvertaking

\* channel<T> and mailbox<T> implement the bounded FIFO, for every capacity and any
\* number of tasks, loops and values: values leave in the order in which they entered,
\* each once, to a receiver that reports it, whatever is canceled, stopped or closed
\* in between.
THEOREM QueuesAreFifo == Spec => ImplementsFifo
<1>1. Init => Promise!FifoInit BY QueueInit, SMT
<1>2. QueueInv /\ [Next]_vars =>
        [Promise!Work \/ \E t \in Tasks : Promise!Finish(t)]_(Promise!fifoVars)
  BY QueueStep
<1> QED BY <1>1, <1>2, QueueInductive, PTL DEF Spec, ImplementsFifo, Promise!FifoSpec
=============================================================================
