------------------------------- MODULE Joins --------------------------------
(***************************************************************************)
(* A call of a structured join (W), and what it promises.  The state that  *)
(* a join and a futex (Futexes) or the pool (Pool) both have has a j in    *)
(* front, so that proofs can be about all of them.                         *)
(***************************************************************************)
EXTENDS Inputs, Functions

VARIABLES mode, n, parent, child, outcome, jvalue, pending, winner, error, startup, stop, done,
          jstopping, result, log

W == INSTANCE When WITH value <- jvalue, stopping <- jstopping

JoinSpec == W!FairSpec
-----------------------------------------------------------------------------
\* Joins never abandon a child: when the parent passes its barrier no bridge is
\* alive that could touch the result slots, the factories or the state in the
\* parent's frame, whatever failed and whoever stopped the loop.
NoneAbandoned ==
  parent \in {"ready", "ended"} => \A c \in W!Children : child[c] \in {"none", "gone"}

\* The result is the first one observed: a race returns or throws what its first
\* publication ended with, a join throws its first failure; and the optionals the parent
\* dereferences are engaged: every slot of a join that does not throw, the winner's slot
\* of a race that does not throw.
FirstObserved ==
  /\ parent = "ready" /\ ~startup /\ error = 0 =>
       IF mode = "all" THEN jvalue = 1..n ELSE winner \in jvalue
  /\ parent = "ended" /\ result # <<"invalid">> =>
       IF startup \/ error = N + 1 THEN result = <<"startup">>
       ELSE IF mode = "any"
       THEN result = <<IF outcome[log[1]] = "ok" THEN "value" ELSE "error", log[1]>>
       ELSE \/ result = <<"values">> /\ \A c \in Range(log) : outcome[c] = "ok"
            \/ \E i \in DOMAIN log :
                 /\ result = <<"error", log[i]>> /\ outcome[log[i]] # "ok"
                 /\ \A j \in 1..i - 1 : outcome[log[j]] = "ok"

\* A race that is decided, whose launch failed, or that has a timeout's sleep among its
\* inputs, drains and returns: whatever ends first stops the others.
RaceDrains ==
  mode = "any" /\ (winner # 0 \/ startup \/ (parent = "join" /\ Timers \cap 1..n # {}))
    ~> parent = "ended"
=============================================================================
