------------------------------- MODULE Queues -------------------------------
(***************************************************************************)
(* The two bounded queues of the library side by side: each behaviour is   *)
(* one of channel<T> or one of mailbox<T>, and both keep the same promise, *)
(* which is Fifo.                                                          *)
(***************************************************************************)
EXTENDS Ring

CONSTANTS Tasks, Loops, Home

VARIABLES kind, ring, closed, line, st, want, value, err, tok, stopping

vars == <<kind, ring, closed, line, st, want, value, err, tok, stopping>>

C == INSTANCE Channel
M == INSTANCE Mailbox

Init ==
  \/ kind = "channel" /\ C!Init
  \/ kind = "mailbox" /\ M!Init

Next ==
  \/ kind = "channel" /\ C!Next /\ UNCHANGED kind
  \/ kind = "mailbox" /\ M!Next /\ UNCHANGED kind

Spec == Init /\ [][Next]_vars
-----------------------------------------------------------------------------
IsChannel == kind = "channel"
Sends(t) == want[t] # "recv"
Waiting(t) == IF IsChannel THEN C!Waiting(t) ELSE M!Waiting(t)
Outcome(t) == IF IsChannel THEN C!Outcome(t) ELSE M!Outcome(t)
Asked == IF IsChannel THEN C!Asked ELSE M!Asked

\* Nobody waits for what is there: a waiting receiver means an empty buffer and no
\* waiting sender, a waiting sender a full one, and after close nobody waits (take
\* and front prune the dead waiters that would hide a live one).
NoIdleWait ==
  \A t \in Tasks : Waiting(t) =>
    /\ ~closed /\ ring.size = (IF Sends(t) THEN Capacity(ring) ELSE 0)
    /\ \A u \in Tasks : Waiting(u) => Sends(u) = Sends(t)

\* Nobody overtakes: if an operation in the line succeeds, so does every operation
\* that waits in front of it (take, front).
NoOvertaking ==
  [][\A i, j \in 1..Len(line) :
       /\ i < j /\ Waiting(line[i])
       /\ st[line[j]] = "parked" /\ st'[line[j]] # "parked" /\ err'[line[j]] = "none"
       => st'[line[i]] # "parked"]_vars

\* What the users of either queue see.
Bound == Capacity(ring)
Buffered == Contents(ring)
Results == [t \in Tasks |-> Outcome(t)]

Promise == INSTANCE Fifo WITH capacity <- Bound, q <- Buffered, res <- Results, asked <- Asked

\* Both queues implement the bounded FIFO: values leave in the order in which they
\* entered, each exactly once, to a receiver that reports it; a send that reports
\* failure has not entered; only a stopped operation is canceled.  In particular a
\* cancellation of a mailbox waiter that arrives while its delivery is in flight
\* neither takes the value from its receiver nor reports an accepted one as canceled.
ImplementsFifo == Promise!FifoSpec
=============================================================================
