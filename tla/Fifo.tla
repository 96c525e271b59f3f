-------------------------------- MODULE Fifo --------------------------------
(***************************************************************************)
(* What a bounded channel promises its users (src/include/snowy/           *)
(* channel.hpp and mailbox.hpp), with no waiters' list, ring buffer, loop  *)
(* or message.  A task asks for one operation at a time: want[t] is        *)
(* "recv", the value it offers, or "none"; res[t] is the outcome, and      *)
(* "none" while the operation is pending.  q holds the values accepted and *)
(* not yet received, at most capacity of them.                             *)
(***************************************************************************)
EXTENDS Naturals, Sequences

CONSTANTS Tasks, Values

VARIABLES capacity, q, closed, want, res, asked

fifoVars == <<capacity, q, closed, want, res, asked>>

FifoInit ==
  /\ capacity \in Nat /\ q = <<>> /\ closed = FALSE /\ asked = {}
  /\ want = [t \in Tasks |-> "none"] /\ res = [t \in Tasks |-> "none"]

AtMostOne(S) == \A a, b \in S : a = b

\* When a pending operation may end with outcome r.
Allowed(t, r) ==
  /\ res[t] = "none"
  /\ CASE r = "sent"     -> want'[t] \in Values /\ ~closed
       [] r = "broken"   -> want'[t] \in Values /\ closed'
       [] r = "closed"   -> want'[t] = "recv" /\ closed' /\ q' = <<>>
       [] r = "canceled" -> want'[t] # "none" /\ t \in asked'
       [] OTHER          -> want'[t] = "recv"

\* One step ends some pending operations, possibly one that starts in this very
\* step.  At most one value enters the queue and at most one leaves it, in order.
Settle ==
  \/ res' = res /\ q' = q
  \/ LET Ends == {t \in Tasks : res'[t] # res[t]}
         Sent == {t \in Ends : res'[t] = "sent"}
         Got == {t \in Ends : res'[t] \in Values}
         seq == IF Sent = {} THEN q ELSE Append(q, want'[CHOOSE t \in Sent : TRUE])
     IN /\ \A t \in Ends : Allowed(t, res'[t])
        /\ AtMostOne(Sent) /\ AtMostOne(Got)
        /\ IF Got = {} THEN q' = seq
           ELSE seq # <<>> /\ q' = Tail(seq) /\ \A t \in Got : res'[t] = Head(seq)
        /\ Len(q') <= capacity

Outcomes == Values \cup {"none", "sent", "canceled", "broken", "closed"}
Wants == Values \cup {"none", "recv"}

\* A task starts an operation, somebody asks for cancellation, or close is called.
Work ==
  /\ capacity' = capacity
  /\ closed => closed'
  /\ asked \subseteq asked'
  /\ LET Starts == {t \in Tasks : want'[t] # want[t]}
     IN AtMostOne(Starts) /\ \A t \in Starts : want[t] = "none"
  /\ want' \in [Tasks -> Wants] /\ res' \in [Tasks -> Outcomes]
  /\ Settle

\* The task takes its outcome; its next operation comes with a new stop token.
Finish(t) ==
  /\ res[t] # "none"
  /\ want' = [want EXCEPT ![t] = "none"] /\ res' = [res EXCEPT ![t] = "none"]
  /\ asked' \in {asked, asked \ {t}}
  /\ UNCHANGED <<capacity, q, closed>>

FifoSpec == FifoInit /\ [][Work \/ \E t \in Tasks : Finish(t)]_fifoVars
=============================================================================
