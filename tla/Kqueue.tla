------------------------------- MODULE Kqueue -------------------------------
(***************************************************************************)
(* The kqueue driver of src/src/kqueue.cpp.  A request is tried at once; if *)
(* it would block, a one-shot filter for its descriptor and direction is   *)
(* registered with the request as its user data, and the request is tried  *)
(* again when the filter fires.  The kernel is external: it has one filter *)
(* for a descriptor and direction, reports those that fire in any order,   *)
(* and drops the filters of a descriptor that is closed.                   *)
(***************************************************************************)
EXTENDS Requests

VARIABLES
  ready,   \* kernel: directions that would not block
  knote,   \* kernel: the user data of each registered filter
  active,  \* kernel: fired filters and the wake event
  batch    \* events that poll still has to handle: filters and their user data

kernel == <<ready, knote, active>>

User == <<None, "user">>

KInit ==
  /\ RequestsInit
  /\ ready = {} /\ knote = [k \in Keys |-> None] /\ active = {} /\ batch = {} /\ timed = FALSE
-----------------------------------------------------------------------------
\* The kernel.

Arrive(k) ==
  /\ sock[k[1]] \in {"open", "bound", "dialing"} /\ k \notin ready /\ ready' = ready \cup {k}
  /\ UNCHANGED <<base, knote, active, batch, timed>>

\* What was there is gone again, but a connection attempt that ended stays ended.
Vanish(k) ==
  /\ k \in ready /\ sock[k[1]] \in {"open", "bound"} /\ ready' = ready \ {k}
  /\ UNCHANGED <<base, knote, active, batch, timed>>

Fire(k) ==
  /\ knote[k] # None /\ k \in ready /\ k \notin active
  /\ active' = active \cup {k}
  /\ UNCHANGED <<base, ready, knote, batch, timed>>

\* Closing a descriptor drops all that the kernel has for it.
Drop ==
  /\ ready' = {k \in ready : sock'[k[1]] # "closed"}
  /\ knote' = [k \in Keys |-> IF sock'[k[1]] = "closed" THEN None ELSE knote[k]]
  /\ active' = {k \in active : k = User \/ sock'[k[1]] # "closed"}
-----------------------------------------------------------------------------
\* loop::wake triggers the user event, once however often it is called.
KWake == active' = active \cup {User}

\* The results of the system call in submit, its first try or a later one.  Only the
\* first try of a connect calls connect; later ones read the socket's error, which is
\* clear also while the attempt goes on.  A filter that cannot be registered is an error,
\* and so is a datagram that does not fit, and a file, which has no readiness.
Results(c, s, first) ==
  IF c = "nop" THEN {"ok"} ELSE
  IF c = "file" THEN {"error"} ELSE
  IF c = "connect" THEN {"ok", "error"} \cup {r \in {"again"} : first}
  ELSE {"error", IF Key(c, s) \in ready THEN "ok" ELSE "again"}

\* The descriptors an accept can come back with.
KAccepts(c, r) == IF c = "accept" /\ r = "ok" THEN Unused ELSE {None}

\* await_suspend: submit's first try, and the registration of the filter.
KStart(o, c, s) ==
  /\ Startable(o, c, s)
  /\ \E r \in Results(c, s, TRUE) :
    /\ IF r = "again"
       THEN Begin(o, c, s, "none", None) /\ knote' = [knote EXCEPT ![Key(c, s)] = o]
       ELSE knote' = knote /\ \E a \in KAccepts(c, r) : Begin(o, c, s, r, a)
    /\ ready' = (IF c = "connect" /\ r = "ok" THEN ready \cup {Key(c, s)} ELSE ready)
    /\ UNCHANGED <<active, batch, timed>>

\* await_suspend of a read or write (not a datagram) of nothing, which does not reach submit.
KNothing(o, c, s) ==
  /\ c \in {"read", "write"} /\ Startable(o, c, s) /\ Begin(o, c, s, "ok", None)
  /\ UNCHANGED <<kernel, batch, timed>>

KResume(o) == Release(o) /\ Drop /\ UNCHANGED <<batch, timed>>
KNewSocket(s) == (Listen(s) \/ Bind(s)) /\ UNCHANGED <<kernel, batch, timed>>
KEndSocket(s) == Close(s) /\ Drop /\ UNCHANGED <<batch, timed>>

\* Another thread asks for a request, or all, to be canceled.
KRequestStop(o) == Mark(o) /\ KWake /\ UNCHANGED <<ready, knote, batch, timed>>
KStop == MarkAll /\ KWake /\ UNCHANGED <<ready, knote, batch, timed>>

\* Another thread posts work: the loop has to come out of its wait.
KPost == KWake /\ UNCHANGED <<base, ready, knote, batch, timed>>

KStartScan == Expire /\ UNCHANGED <<kernel, batch, timed>>
KEndScan == Scanned /\ UNCHANGED <<kernel, batch, timed>>

\* Mutant: the filter stays registered.
CancelKeepsFilter(o) ==
  /\ pc = "scan" /\ Doomed(o)
  /\ req' = [req EXCEPT ![o] = Ended(req[o], "canceled", req[o].accepted, TRUE)]
  /\ todo' = todo \ {o}
  /\ UNCHANGED <<busy, sock, cancel, stopping, all, pc, kernel, batch, timed>>

\* loop::cancel deletes the filter and completes the request itself.
KCancel(o) ==
  /\ pc = "scan" /\ Doomed(o)
  /\ req' = [req EXCEPT ![o] = Ended(req[o], "canceled", req[o].accepted, TRUE)]
  /\ todo' = todo \ {o}
  /\ LET k == Key(req[o].code, req[o].fd)
     IN knote' = [knote EXCEPT ![k] = None] /\ active' = active \ {k}
  /\ UNCHANGED <<busy, sock, cancel, stopping, all, pc, ready, batch, timed>>

\* poll(delay): with tasks to resume the delay is zero.
KPoll(t) ==
  /\ pc = "run" /\ pc' = "wait" /\ timed' = t
  /\ t \/ \A o \in Ops : req[o].st # "ready"
  /\ UNCHANGED <<req, busy, sock, cancel, stopping, all, todo, kernel, batch>>

\* kevent returns: the events taken, and their filters, are gone from the kernel.
KReturn ==
  /\ pc = "wait" /\ pc' = "reap" /\ timed' = FALSE
  /\ timed \/ active # {}
  /\ \E taken \in SUBSET active :
       /\ Cardinality(taken) = Peek \/ (taken = active /\ Cardinality(active) < Peek)
       /\ active' = active \ taken
       /\ batch' = {<<k, knote[k]>> : k \in taken \ {User}}
       /\ knote' = [k \in Keys |-> IF k \in taken THEN None ELSE knote[k]]
  /\ UNCHANGED <<req, busy, sock, cancel, stopping, all, todo, ready>>

\* kevent returns EINTR.
Interrupted ==
  /\ pc = "wait" /\ pc' = "expire" /\ timed' = FALSE
  /\ UNCHANGED <<req, busy, sock, cancel, stopping, all, todo, kernel, batch>>

\* An event of the batch: an error (also EV_ERROR) or success completes the request,
\* what still blocks is registered again.
KHandle ==
  /\ pc = "reap"
  /\ \E e \in batch :
       LET o == e[2] q == req[o] IN
       /\ batch' = batch \ {e}
       /\ \E r \in Results(q.code, q.fd, FALSE) :
            IF r = "again" THEN knote' = [knote EXCEPT ![Key(q.code, q.fd)] = o] /\ UNCHANGED <<req, sock>>
            ELSE knote' = knote /\ \E a \in KAccepts(q.code, r) : Complete(o, r, a)
  /\ UNCHANGED <<busy, cancel, stopping, all, todo, pc, ready, active, timed>>

KReaped ==
  /\ pc = "reap" /\ batch = {} /\ pc' = "expire"
  /\ UNCHANGED <<req, busy, sock, cancel, stopping, all, todo, kernel, batch, timed>>

KNext ==
  \/ \E k \in Keys : Arrive(k) \/ Vanish(k) \/ Fire(k)
  \/ \E o \in Ops : \/ \E c \in Opcodes, s \in Socks \cup {None} : KStart(o, c, s) \/ KNothing(o, c, s)
                    \/ KResume(o) \/ KRequestStop(o) \/ KCancel(o)
  \/ \E s \in Socks : KNewSocket(s) \/ KEndSocket(s)
  \/ KStop \/ KPost \/ KStartScan \/ KEndScan \/ KReturn \/ Interrupted \/ KHandle \/ KReaped
  \/ \E t \in BOOLEAN : KPoll(t)
-----------------------------------------------------------------------------
\* What will complete a request: its filter in the kernel, if that is registered with
\* this request, and the events for it that poll has taken and not handled.
KSources(o) ==
  ({"filter"} \X {k \in Keys : knote[k] = o}) \cup ({"event"} \X {e \in batch : e[2] = o})

\* Exactly one thing will complete a pending request, its one-shot filter or the event
\* taken for it, and neither names a request whose coroutine has gone on (submit,
\* loop::cancel, poll).
KOneSource ==
  \A o \in Ops :
    LET sources == KSources(o)
    IN IF o \in Pending THEN \E x \in sources : sources = {x} ELSE sources = {}

\* A connect() reports success only when the attempt is over: SO_ERROR, which is clear also
\* while the attempt goes on, is read after the filter has fired for it, and not on an
\* event of another request or direction.
KConnectEnded ==
  \A o \in Ops : req[o].st = "ready" /\ req[o].code = "connect" /\ req[o].outcome = "ok"
    => <<req[o].fd, "out">> \in ready
=============================================================================
