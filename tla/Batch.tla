-------------------------------- MODULE Batch --------------------------------
(***************************************************************************)
(* uring::submit of src/src/uring_ops.cpp: a group of requests that goes to *)
(* the kernel in one piece, perhaps as a chain of links, and is awaited as  *)
(* a whole.  The kernel is external: it takes the submission queue all at   *)
(* once, ends a chain where a submission ends, runs a chain one request     *)
(* after the other, and cancels the rest of a soft chain when one fails.    *)
(*                                                                         *)
(* The group shares the ring with cancel requests and one other request    *)
(* (number 0).  Uring has the wake poll and DRAIN.                         *)
(***************************************************************************)
EXTENDS Naturals, Sequences, FiniteSets, Functions

CONSTANTS Size,      \* requests of the group
          Entries    \* submission slots

ASSUME Fits == Size \in Nat \ {0} /\ Entries \in Nat /\ Size <= Entries

VARIABLES
  sq, cq,      \* prepared submissions, completions poll has not handled
  chains,      \* kernel: what is left of each submitted chain
  killed,      \* kernel: requests that it was told to cancel
  order,       \* link
  phase,       \* the coroutine: "idle", "joining" or "ready"
  node,        \* the requests
  pending,     \* of the group: requests that have not retired
  results,     \* the vector the coroutine returns
  token,       \* a stop was requested: the nodes are marked
  ran,         \* kernel history: requests of the group it has executed, in order
  pc           \* "run" or "reap"

vars == <<sq, cq, chains, killed, order, phase, node, pending, results, token, ran, pc>>

Group == 1..Size
Nodes == 0..Size
Orders == {"none", "soft", "hard"}
Unlinked == [in |-> FALSE, sent |-> FALSE, canceling |-> FALSE, done |-> FALSE]
Entry(i, more) == [op |-> i, cancel |-> FALSE, link |-> more]
Cancellation(i) == [op |-> i, cancel |-> TRUE, link |-> FALSE]
Outcomes == {"ok", "fail", "canceled"}

Init ==
  /\ sq = <<>> /\ cq = <<>> /\ chains = {} /\ killed = {}
  /\ order = "none" /\ phase = "idle" /\ node = [i \in Nodes |-> Unlinked]
  /\ pending = 0 /\ results = [i \in Group |-> "unset"] /\ token = FALSE
  /\ ran = <<>> /\ pc = "run"
-----------------------------------------------------------------------------
\* The kernel.

\* A submission falls into chains: each goes on while its entries are linked.
Taken(s) ==
  LET whole(a, b) == /\ \A i \in a..b - 1 : s[i].link
                     /\ a = 1 \/ ~s[a - 1].link
                     /\ b = Len(s) \/ ~s[b].link
  IN UNION {{SubSeq(s, a, b) : b \in {x \in a..Len(s) : whole(a, x)}} : a \in DOMAIN s}

Posted(e, r) == [op |-> e.op, cancel |-> e.cancel, res |-> r]

\* A cancel request finds what has been started, no link that still waits.
Kill(c) ==
  /\ Head(c).cancel /\ chains' = chains \ {c} /\ cq' = Append(cq, Posted(Head(c), "ok"))
  /\ killed' = killed \cup {i \in {Head(c).op} : \E d \in chains : ~Head(d).cancel /\ Head(d).op = i}
  /\ UNCHANGED <<sq, order, phase, node, pending, results, token, ran, pc>>

\* The request at the head of a chain runs or is canceled.
Run(c, r) ==
  /\ ~Head(c).cancel /\ (r = "canceled" <=> Head(c).op \in killed)
  /\ killed' = killed \ {Head(c).op}
  /\ LET broken == order = "soft" /\ r # "ok"
     IN /\ chains' = (chains \ {c}) \cup (IF broken \/ Len(c) = 1 THEN {} ELSE {Tail(c)})
        /\ cq' = Append(cq, Posted(Head(c), r)) \o
                 (IF broken THEN [i \in DOMAIN Tail(c) |-> Posted(Tail(c)[i], "canceled")] ELSE <<>>)
  /\ ran' = (IF r # "canceled" /\ Head(c).op \in Group THEN Append(ran, Head(c).op) ELSE ran)
  /\ UNCHANGED <<sq, order, phase, node, pending, results, token, pc>>
-----------------------------------------------------------------------------
\* driver::sqe: the queue is submitted when it is full.
Enter(e) ==
  IF Len(sq) = Entries THEN sq' = <<e>> /\ chains' = chains \cup Taken(sq)
  ELSE sq' = Append(sq, e) /\ UNCHANGED chains

\* The submissions of the group: all but the last are linked if an order is asked for.
Chain(o) == [i \in Group |-> Entry(i, o # "none" /\ i < Size)]

\* Mutant: space is not reserved, and sqe submits what it has when the queue is full.
ReserveNone(o) ==
  LET whole == sq \o Chain(o) IN
  IF Len(whole) <= Entries THEN sq' = whole /\ UNCHANGED chains
  ELSE /\ sq' = SubSeq(whole, Entries + 1, Len(whole))
       /\ chains' = chains \cup Taken(SubSeq(whole, 1, Entries))

\* access::reserve makes room for the whole group, access::start then fills it.
Reserve(o) ==
  IF Len(sq) + Size <= Entries THEN sq' = sq \o Chain(o) /\ UNCHANGED chains
  ELSE sq' = Chain(o) /\ chains' = chains \cup Taken(sq)

\* uring::submit up to its barrier.
Submit(o) ==
  /\ pc = "run" /\ phase = "idle" /\ phase' = "joining" /\ order' = o
  /\ Reserve(o)
  /\ node' = [i \in Nodes |-> IF i \in Group THEN [Unlinked EXCEPT !.in = TRUE] ELSE node[i]]
  /\ pending' = Size /\ results' = [i \in Group |-> "unset"]
  /\ UNCHANGED <<cq, killed, token, ran, pc>>

\* Some other task's request on the same ring.
Other ==
  /\ pc = "run" /\ ~node[0].in /\ Enter(Entry(0, FALSE))
  /\ node' = [node EXCEPT ![0].in = TRUE]
  /\ UNCHANGED <<cq, killed, order, phase, pending, results, token, ran, pc>>

\* Another thread requests a stop, also in the middle of submit: the callbacks mark the
\* nodes.
RequestStop ==
  /\ phase = "joining" /\ ~token /\ token' = TRUE
  /\ UNCHANGED <<sq, cq, chains, killed, order, phase, node, pending, results, ran, pc>>

\* Mutant: the completion of the cancel request is not waited for.
CancelAlone(i) ==
  /\ pc = "run" /\ token /\ i \in Group /\ node[i].in /\ ~node[i].sent
  /\ Enter(Cancellation(i))
  /\ node' = [node EXCEPT ![i].sent = TRUE]
  /\ UNCHANGED <<cq, killed, order, phase, pending, results, token, ran, pc>>

\* Mutant: the scan is done with a node that it has not canceled.
CancelSkipped(i) ==
  /\ pc = "run" /\ token /\ i \in Group /\ node[i].in /\ ~node[i].sent
  /\ node' = [node EXCEPT ![i].sent = TRUE]
  /\ UNCHANGED <<sq, cq, chains, killed, order, phase, pending, results, token, ran, pc>>

\* The scan of expire cancels a marked node.
Cancel(i) ==
  /\ pc = "run" /\ token /\ i \in Group /\ node[i].in /\ ~node[i].sent
  /\ Enter(Cancellation(i))
  /\ node' = [node EXCEPT ![i].sent = TRUE, ![i].canceling = TRUE]
  /\ UNCHANGED <<cq, killed, order, phase, pending, results, token, ran, pc>>

\* poll submits the queue; completions are handled until it returns.
Poll ==
  /\ pc = "run" /\ pc' = "reap" /\ sq' = <<>> /\ chains' = chains \cup Taken(sq)
  /\ UNCHANGED <<cq, killed, order, phase, node, pending, results, token, ran>>

\* The retire hook of a node of the group: the last one sets the event.
Retire(i) ==
  /\ pending' = (IF i \in Group THEN pending - 1 ELSE pending)
  /\ phase' = (IF i \in Group /\ pending = 1 THEN "ready" ELSE phase)

\* poll handles a completion: a request retires when it and its cancel request are done.
Handle ==
  /\ pc = "reap" /\ cq # <<>> /\ cq' = Tail(cq)
  /\ LET e == Head(cq)
         n == node[e.op]
         over == IF e.cancel THEN n.done ELSE ~n.canceling
     IN /\ node' = [node EXCEPT ![e.op] =
             IF over THEN Unlinked
             ELSE [n EXCEPT !.done = @ \/ ~e.cancel, !.canceling = @ /\ ~e.cancel]]
        /\ results' = (IF e.op \in Group /\ ~e.cancel THEN [results EXCEPT ![e.op] = e.res] ELSE results)
        /\ IF over THEN Retire(e.op) ELSE UNCHANGED <<pending, phase>>
  /\ UNCHANGED <<sq, chains, killed, order, token, ran, pc>>

PollReturns ==
  /\ pc = "reap" /\ pc' = "run"
  /\ UNCHANGED <<sq, cq, chains, killed, order, phase, node, pending, results, token, ran>>

\* The coroutine returns its results; the nodes are destroyed with its frame.
Resume ==
  /\ pc = "run" /\ phase = "ready" /\ phase' = "idle" /\ token' = FALSE /\ ran' = <<>>
  /\ results' = [i \in Group |-> "unset"]
  /\ UNCHANGED <<sq, cq, chains, killed, order, node, pending, pc>>

Next ==
  \/ \E c \in chains : Kill(c) \/ \E r \in Outcomes : Run(c, r)
  \/ \E o \in Orders : Submit(o)
  \/ \E i \in Group : Cancel(i)
  \/ Other \/ RequestStop \/ Poll \/ Handle \/ PollReturns \/ Resume

Spec == Init /\ [][Next]_vars

\* The kernel acts on cancel requests, and a request ends if it is canceled, perhaps
\* only then.
KernelCancels(i) == \E c \in chains : Head(c).op = i /\ (Kill(c) \/ Run(c, "canceled"))
-----------------------------------------------------------------------------
\* Whatever the ring or the kernel still has of the group, and every cancel request for
\* it, belongs to a group whose coroutine is still suspended: no completion reaches a
\* destroyed node (co_await done.join(), which a stop does not end).
NodesOutlive ==
  phase # "joining" =>
    \A i \in Group : /\ \A e \in Range(sq) \cup Range(cq) : e.op # i
                     /\ \A c \in chains : \A e \in Range(c) : e.op # i

\* The coroutine gets a result for every request, and for a soft chain nothing but
\* cancellations behind a request that did not succeed ("never flush a partial chain");
\* a chain is executed in its order, whatever else fills the queue.
ChainWhole ==
  /\ phase = "ready" =>
       /\ \A i \in Group : results[i] # "unset"
       /\ order = "soft" => \A i \in 1..Size - 1 : results[i] # "ok" => results[i + 1] = "canceled"
  /\ order # "none" => \A i, j \in DOMAIN ran : i < j => ran[i] < ran[j]

\* A stop ends a group without links even if none of its requests ends by itself.  With
\* links it may not: a cancel request misses a link that has not started, and is not
\* repeated (op.cancel_sent).
StopEndsGroup == phase = "joining" /\ order = "none" /\ token ~> phase = "ready"
=============================================================================
