------------------------------ MODULE Futexes -------------------------------
(***************************************************************************)
(* A program that uses a futex (F), and what the futex promises it.  Those *)
(* that wait are the Waiters, and the state that a futex and the pool      *)
(* (Pool) both have has an f in front, so that proofs can be about both.   *)
(***************************************************************************)
EXTENDS Naturals, Functions

CONSTANTS Waiters, Writers, Values

VARIABLES value, line, fst, old, join, err, fres, ftok, mark, fstopping, wakes, owes

F == INSTANCE Futex WITH Tasks <- Waiters, st <- fst, res <- fres, tok <- ftok,
                         stopping <- fstopping

FutexSpec == F!FairSpec
-----------------------------------------------------------------------------
\* No lost notification: with notify_all, a waiter sleeps on a value that is no
\* longer there only while a writer that stored still has to notify.  The look at
\* the atomic and the link are one step under the lock that notify takes.
NoStaleWait ==
  wakes = "all" /\ (\E t \in Waiters : fst[t] = "parked" /\ value # old[t]) => owes # {}

\* A notification is not swallowed: a notify that finds live waiters delivers
\* one of them without an error, behind however many canceled ones; and a stop that
\* comes later does not turn the delivery into a cancellation.
NotSwallowed ==
  [][/\ owes' \subseteq owes /\ owes' # owes /\ (\E t \in Range(line) : ~F!Canceled(t))
        => \E t \in Range(line) : ~F!Canceled(t) /\ fst'[t] = "mailed" /\ err'[t] = "none"
     /\ \A t \in Waiters : fst[t] = "mailed" /\ err[t] = "none" /\ fst'[t] # "mailed"
          => fres'[t] = "notified"]_(F!vars)

\* A waiter that is told to stop resumes; with notify_all so does one whose value has
\* changed, unless it changes back before the notification comes.
WaitEnds ==
  \A t \in Waiters :
    /\ fst[t] = "parked" /\ F!Canceled(t) ~> fst[t] # "parked"
    /\ wakes = "all" /\ fst[t] = "parked" /\ value # old[t] ~> fst[t] # "parked" \/ value = old[t]
=============================================================================
