------------------------------- MODULE Uring -------------------------------
(***************************************************************************)
(* The io_uring driver of src/src/uring.cpp: how requests, their cancel    *)
(* requests and the poll of the wake event go to the kernel and come back, *)
(* and when a request may be given back to its coroutine.  The owner       *)
(* thread alternates between running tasks (pc = "run") and poll.  The     *)
(* kernel is external: it takes submissions in order, holds back whatever  *)
(* IOSQE_IO_DRAIN orders, and posts completions in any order otherwise.    *)
(***************************************************************************)
EXTENDS Naturals, Sequences, FiniteSets, Functions

CONSTANTS
  Ops,      \* requests (detail::io), reused after their coroutine is done with them
  Entries,  \* submission slots
  Batch,    \* options::submit_batch, or 0
  Peek,     \* completions looked at in one poll (128 in the code)
  Posted,   \* bound: a multishot request does not outrun the queue beyond this
  Lost,     \* bound: so many failing submissions are followed
  Drains,   \* whether programs use IOSQE_IO_DRAIN
  Faults    \* whether io_uring_submit may fail when a slot is needed

ASSUME Bounds ==
  /\ Entries \in Nat \ {0} /\ Peek \in Nat \ {0} /\ {Posted, Lost} \subseteq Nat
  /\ Batch \in 0..Entries /\ {Drains, Faults} \subseteq BOOLEAN /\ IsFiniteSet(Ops)

VARIABLES
  iopoll,   \* IORING_SETUP_IOPOLL: no wake poll on the ring
  sq, kq, cq,  \* prepared, submitted and not completed, completed and not seen
  event,    \* the eventfd is readable
  watching, waking,  \* watching, watch_waking
  drains,
  st,       \* "free", "linked" (in io_, the kernel may write to it), "ready"
  drain, sent, canceling, done,  \* op.draining, cancel_sent, canceling, done
  killed,   \* kernel: canceled requests, about to complete
  pc,       \* "run", "wait" (in the kernel) or "reap"
  timed,    \* the wait has a timeout
  left, seen  \* completions of the snapshot still to handle, wake_seen

flags == <<drain, sent, canceling>>
control == <<pc, timed, left, seen>>
vars == <<iopoll, sq, kq, cq, event, watching, waking, drains, st, flags, done, killed, control>>

Watch == <<"watch">>
Request(o) == <<"op", o>>
Cancellation(o) == <<"cancel", o>>
More(o) == <<"more", o>>
Submissions == {Watch} \cup {Request(o) : o \in Ops} \cup {Cancellation(o) : o \in Ops}

\* The constructor: an ordinary ring has its wake poll prepared.
Init ==
  /\ iopoll \in BOOLEAN
  /\ sq = (IF iopoll THEN <<>> ELSE <<Watch>>) /\ watching = ~iopoll
  /\ kq = <<>> /\ cq = <<>> /\ event = FALSE /\ waking = FALSE /\ drains = 0
  /\ st = [o \in Ops |-> "free"] /\ killed = {}
  /\ drain = [o \in Ops |-> FALSE] /\ sent = [o \in Ops |-> FALSE]
  /\ canceling = [o \in Ops |-> FALSE] /\ done = [o \in Ops |-> FALSE]
  /\ pc = "run" /\ timed = FALSE /\ left = 0 /\ seen = FALSE
-----------------------------------------------------------------------------
Pending == {o \in Ops : st[o] = "linked"}

\* driver::sqe: a full or batched-up submission queue is submitted first.
MustFlush == Len(sq) >= (IF Batch = 0 THEN Entries ELSE Batch)
Enter(e) ==
  IF MustFlush THEN sq' = <<e>> /\ kq' = kq \o sq ELSE sq' = Append(sq, e) /\ kq' = kq

\* A DRAIN has to wake the wake poll that is in front of it.
Blocked(d) == d /\ watching /\ ~waking

\* Mutant: a DRAIN does not wake the poll in front of it.
SubmitQuiet(o, d) ==
  /\ pc = "run" /\ st[o] = "free" /\ d \in {FALSE, Drains}
  /\ drains' = (IF d THEN drains + 1 ELSE drains)
  /\ Enter(Request(o))
  /\ st' = [st EXCEPT ![o] = "linked"] /\ drain' = [drain EXCEPT ![o] = d]
  /\ UNCHANGED <<iopoll, cq, event, watching, waking, sent, canceling, done, killed, control>>

\* loop::submit of a request o, draining if d.
Submit(o, d) ==
  /\ pc = "run" /\ st[o] = "free" /\ d \in {FALSE, Drains}
  /\ event' = (event \/ Blocked(d)) /\ waking' = (waking \/ Blocked(d))
  /\ drains' = (IF d THEN drains + 1 ELSE drains)
  /\ Enter(Request(o))
  /\ st' = [st EXCEPT ![o] = "linked"] /\ drain' = [drain EXCEPT ![o] = d]
  /\ UNCHANGED <<iopoll, cq, watching, sent, canceling, done, killed, control>>

\* The kernel refuses to take the queue: reserve throws before anything happened, sqe
\* after the request has been counted.  io::await_suspend unlinks it and rethrows.
SubmitFails(o, d) ==
  /\ Faults /\ pc = "run" /\ st[o] = "free" /\ d \in {FALSE, Drains}
  /\ MustFlush /\ ~(Blocked(d) /\ Len(sq) = Entries) /\ drains < Cardinality(Ops) + Lost
  /\ event' = (event \/ Blocked(d)) /\ waking' = (waking \/ Blocked(d))
  /\ drains' = (IF d THEN drains + 1 ELSE drains)
  /\ UNCHANGED <<iopoll, sq, kq, cq, watching, st, flags, done, killed, control>>

\* Mutant: the cancel request is not waited for.
CancelAlone(o) ==
  /\ pc = "run" /\ o \in Pending /\ ~sent[o]
  /\ Enter(Cancellation(o))
  /\ sent' = [sent EXCEPT ![o] = TRUE]
  /\ UNCHANGED <<iopoll, cq, event, watching, waking, drains, st, drain, canceling, done, killed, control>>

\* loop::cancel, called by the scan of expire at most once for a request.
Cancel(o) ==
  /\ pc = "run" /\ o \in Pending /\ ~sent[o]
  /\ Enter(Cancellation(o))
  /\ sent' = [sent EXCEPT ![o] = TRUE] /\ canceling' = [canceling EXCEPT ![o] = TRUE]
  /\ UNCHANGED <<iopoll, cq, event, watching, waking, drains, st, drain, done, killed, control>>

\* A finished request is resumed and destroyed with its awaiter.
Resume(o) ==
  /\ pc = "run" /\ st[o] = "ready"
  /\ st' = [st EXCEPT ![o] = "free"]
  /\ drain' = [drain EXCEPT ![o] = FALSE] /\ sent' = [sent EXCEPT ![o] = FALSE]
  /\ done' = [done EXCEPT ![o] = FALSE]
  /\ UNCHANGED <<iopoll, sq, kq, cq, event, watching, waking, drains, canceling, killed, control>>

\* Mutant: the delay is not capped while the wake poll is suppressed.
PollUncapped(t) ==
  /\ pc = "run" /\ pc' = "wait"
  /\ timed' = (t \/ (iopoll /\ Pending # {}))
  /\ kq' = kq \o sq /\ sq' = <<>>
  /\ UNCHANGED <<iopoll, cq, event, watching, waking, drains, st, flags, done, killed, left, seen>>

\* poll(delay) up to the kernel: t says whether the loop itself asked for a timeout;
\* while a DRAIN suppresses the wake poll there is one in any case.  A storage ring
\* with pending requests does not wait at all.
Poll(t) ==
  /\ pc = "run" /\ pc' = "wait"
  /\ timed' = (t \/ drains # 0 \/ (iopoll /\ Pending # {}))
  /\ kq' = kq \o sq /\ sq' = <<>>
  /\ UNCHANGED <<iopoll, cq, event, watching, waking, drains, st, flags, done, killed, left, seen>>

\* peek_batch takes the snapshot; on a storage ring the event has been read before it.
Snapshot ==
  /\ pc = "wait" /\ pc' = "reap" /\ timed' = FALSE
  /\ event' = (event /\ ~iopoll)
  /\ left' = (IF Len(cq) <= Peek THEN Len(cq) ELSE Peek)
  /\ UNCHANGED <<iopoll, sq, kq, cq, watching, waking, drains, st, flags, done, killed, seen>>

\* The wait returns: a completion, the timeout, or (storage) the event.
Return == (timed \/ IF iopoll THEN event ELSE cq # <<>>) /\ Snapshot

\* A signal ends the wait (EINTR), which is no error.
Interrupted == Snapshot

\* retire and loop::complete.
Retire(o) ==
  /\ st' = [st EXCEPT ![o] = "ready"]
  /\ drains' = (IF drain[o] THEN drains - 1 ELSE drains)
Keep == UNCHANGED <<st, drains>>

\* One completion of the snapshot.  A request is retired when its last completion and
\* that of its cancel request have both been seen.
Reap ==
  /\ pc = "reap" /\ left > 0 /\ left' = left - 1 /\ cq' = Tail(cq)
  /\ LET e == Head(cq) IN
       \/ /\ e = Watch /\ seen' = TRUE
          /\ Keep /\ UNCHANGED <<canceling, done>>
       \/ \E o \in Ops :
            \/ /\ e = Cancellation(o) /\ canceling' = [canceling EXCEPT ![o] = FALSE]
               /\ IF done[o] THEN Retire(o) ELSE Keep
               /\ UNCHANGED <<done, seen>>
            \/ /\ e \in {Request(o), More(o)}
               /\ done' = [done EXCEPT ![o] = e = Request(o)]
               /\ IF done'[o] /\ ~canceling[o] THEN Retire(o) ELSE Keep
               /\ UNCHANGED <<canceling, seen>>
  /\ UNCHANGED <<iopoll, sq, kq, event, watching, waking, drain, sent, killed, pc, timed>>

\* The end of poll: read the event if its completion was seen, and watch it again
\* unless a DRAIN is pending.
EndPoll ==
  /\ pc = "reap" /\ left = 0 /\ pc' = "run" /\ seen' = FALSE
  /\ event' = (event /\ ~seen) /\ waking' = (waking /\ ~seen)
  /\ IF ~iopoll /\ (~watching \/ seen) /\ drains = 0
     THEN Enter(Watch) /\ watching' = TRUE
     ELSE watching' = (watching /\ ~seen) /\ UNCHANGED <<sq, kq>>
  /\ UNCHANGED <<iopoll, cq, drains, st, flags, done, killed, timed, left>>

\* loop::wake, from any thread.
Wake ==
  /\ event' = TRUE
  /\ UNCHANGED <<iopoll, sq, kq, cq, watching, waking, drains, st, flags, done, killed, control>>
-----------------------------------------------------------------------------
(* The kernel. *)
Draining(e) == \E o \in Ops : e = Request(o) /\ drain[o]
Started(i) == (\A j \in 1..i - 1 : ~Draining(kq[j])) /\ (Draining(kq[i]) => i = 1)
Without(i) == SubSeq(kq, 1, i - 1) \o SubSeq(kq, i + 1, Len(kq))

\* A started submission completes; the wake poll only when the event is readable.
Complete(i) ==
  /\ i \in DOMAIN kq /\ Started(i) /\ (kq[i] = Watch => event)
  /\ kq' = Without(i) /\ cq' = Append(cq, kq[i])
  /\ killed' = {o \in Ops : \/ kq[i] = Cancellation(o) /\ Request(o) \in Range(kq)
                            \/ o \in killed /\ kq[i] # Request(o)}
  /\ UNCHANGED <<iopoll, sq, event, watching, waking, drains, st, flags, done, control>>

\* A multishot request completes once more and goes on.
CompleteMore(i) ==
  /\ i \in DOMAIN kq /\ Started(i) /\ Len(cq) < Posted
  /\ \E o \in Ops : kq[i] = Request(o) /\ ~drain[o] /\ cq' = Append(cq, More(o))
  /\ UNCHANGED <<iopoll, sq, kq, event, watching, waking, drains, st, flags, done, killed, control>>

Kernel == \E i \in DOMAIN kq : Complete(i) \/ CompleteMore(i)
Next ==
  \/ \E o \in Ops : Cancel(o) \/ Resume(o) \/ \E d \in BOOLEAN : Submit(o, d) \/ SubmitFails(o, d)
  \/ \E t \in BOOLEAN : Poll(t)
  \/ Return \/ Interrupted \/ Reap \/ EndPoll \/ Wake \/ Kernel

Spec == Init /\ [][Next]_vars
-----------------------------------------------------------------------------
InFlight == Range(sq) \cup Range(kq) \cup Range(cq)

\* The kernel and the completion queue never refer to a request that has been given
\* back to its coroutine (done/canceling in poll).
NoDanglingRequest ==
  \A o \in Ops : {Request(o), Cancellation(o), More(o)} \cap InFlight # {} => o \in Pending

\* A wait without timeout is always one that a wake from another thread ends: the wake
\* poll is with the kernel or has completed (watch, the delay cap of poll).
WakeObservable ==
  pc = "wait" /\ ~timed /\ ~iopoll => Watch \in Range(kq) \cup Range(cq)

\* A wake poll in front of a DRAIN is one that completes: its event is readable.
DrainNotBlocked ==
  \A i, j \in DOMAIN (kq \o sq) :
    i < j /\ (kq \o sq)[i] = Watch /\ Draining((kq \o sq)[j]) => event

\* "Native DRAIN temporarily suppresses the wake poll" (io.hpp): it is suppressed only
\* while a draining request is pending.
SuppressionTemporary == drains = Cardinality({o \in Pending : drain[o]})
=============================================================================
