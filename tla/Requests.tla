------------------------------ MODULE Requests ------------------------------
(***************************************************************************)
(* What the socket drivers share: the requests (detail::io) on the list    *)
(* io_, the direction of a socket that a request occupies, the descriptors *)
(* that sockets and requests own, and the scan of loop::expire that cancels *)
(* requests.  Kqueue and Iocp add the kernel and poll.                      *)
(*                                                                         *)
(* The owner thread goes round "expire", "scan", "run", "wait" and "reap". *)
(* A stop callback is one step here; Loop has its single stores.  A submit *)
(* that throws is undone before the thread does anything else (the handler *)
(* in io::await_suspend, then ~io), so it is no step.                      *)
(***************************************************************************)
EXTENDS Naturals, Sequences, FiniteSets

CONSTANTS Ops,    \* requests, reused once their coroutine is done with them
          Socks,  \* descriptors, reused once closed
          Peek,   \* events or packets taken in one poll (128 in the code)
          None

ASSUME PeekPositive == Peek \in Nat \ {0}
ASSUME NoneIsNothing == None \notin Ops \cup Socks

VARIABLES
  req,      \* the requests
  busy,     \* reading_ and writing_ of the sockets
  sock,     \* owner of a descriptor: "closed" for none, a socket ("open") or udp ("bound")
            \* object, connect() ("dialing") or the request of an accept ("held")
  cancel, stopping,  \* cancel_, stopping_
  all, todo,  \* of the scan: its reading of stopping_, requests it has not reached
  pc,
  timed     \* poll's wait has a timeout

base == <<req, busy, sock, cancel, stopping, all, todo, pc>>

Datagram == {"recv_from", "send_to"}
Opcodes == {"nop", "file", "read", "write", "accept", "connect"} \cup Datagram
\* Mutant: a connect waits for data.
DirectionIn(c) == IF c \in {"read", "accept", "recv_from", "connect"} THEN "in" ELSE "out"

\* filter(op), or the side of the socket.
Direction(c) == IF c \in {"read", "accept", "recv_from"} THEN "in" ELSE "out"
Keys == Socks \X {"in", "out"}
Key(c, s) == <<s, Direction(c)>>

\* The flag that a request is bound to: connect() has its socket for itself.
Slots(c, s) == IF c \in {"read", "write", "accept"} \cup Datagram THEN {Key(c, s)} ELSE {}

\* A request that no coroutine uses.
Idle == [st |-> "free", code |-> "nop", fd |-> None, accepted |-> None,
         outcome |-> "none", canceled |-> FALSE, sent |-> FALSE]

RequestsInit ==
  /\ req = [o \in Ops |-> Idle] /\ busy = {} /\ sock = [s \in Socks |-> "closed"]
  /\ cancel = FALSE /\ stopping = FALSE /\ all = FALSE /\ todo = {} /\ pc = "run"

Pending == {o \in Ops : req[o].st = "pending"}
InUse == {o \in Ops : req[o].st # "free"}
Unused == {s \in Socks : sock[s] = "closed"}
-----------------------------------------------------------------------------
\* io::await_suspend goes on if the direction is free and arm accepts the request.
Startable(o, c, s) ==
  /\ pc = "run" /\ req[o].st = "free" /\ ~stopping
  /\ IF c \in {"nop", "file"} THEN s = None
     ELSE s \in Socks /\ sock[s] = (IF c = "connect" THEN "closed" ELSE
                                     IF c \in Datagram THEN "bound" ELSE "open")
  /\ Slots(c, s) \cap busy = {}

\* It is linked, and completed at once (outcome r, descriptor a) or left to the kernel.
Begin(o, c, s, r, a) ==
  /\ req' = [req EXCEPT ![o] =
       [st |-> IF r = "none" THEN "pending" ELSE "ready", code |-> c, fd |-> s, accepted |-> a,
        outcome |-> r, canceled |-> FALSE, sent |-> FALSE]]
  /\ busy' = busy \cup Slots(c, s)
  /\ sock' = [x \in Socks |-> IF x = a THEN "held" ELSE
                               IF x = s /\ c = "connect" THEN "dialing" ELSE sock[x]]
  /\ UNCHANGED <<cancel, stopping, all, todo, pc>>

\* A request q that is completed.
Ended(q, r, a, sent) ==
  [st |-> "ready", code |-> q.code, fd |-> q.fd, accepted |-> a,
   outcome |-> r, canceled |-> q.canceled, sent |-> sent]

\* loop::complete, with outcome r and, for an accept, descriptor a.
Complete(o, r, a) ==
  /\ req' = [req EXCEPT ![o] = Ended(req[o], r, a, req[o].sent)]
  /\ sock' = [x \in Socks |-> IF x = a THEN "held" ELSE sock[x]]

\* Mutant: only a socket the coroutine took over is accounted for.
ReleaseLeaky(o) ==
  /\ pc = "run" /\ req[o].st = "ready"
  /\ req' = [req EXCEPT ![o] = Idle]
  /\ busy' = busy \ Slots(req[o].code, req[o].fd)
  /\ sock' = [x \in Socks |->
       IF req[o].outcome = "ok" /\ (x = req[o].accepted \/ (x = req[o].fd /\ req[o].code = "connect"))
       THEN "open" ELSE sock[x]]
  /\ UNCHANGED <<cancel, stopping, all, todo, pc>>

\* The coroutine resumes: await_resume frees the direction and returns or throws,
\* accept() and connect() hand out their socket or close it, and ~io ends the request.
Release(o) ==
  /\ pc = "run" /\ req[o].st = "ready"
  /\ req' = [req EXCEPT ![o] = Idle]
  /\ busy' = busy \ Slots(req[o].code, req[o].fd)
  /\ sock' = [x \in Socks |->
       IF x = req[o].accepted \/ (x = req[o].fd /\ req[o].code = "connect")
       THEN IF req[o].outcome = "ok" THEN "open" ELSE "closed" ELSE sock[x]]
  /\ UNCHANGED <<cancel, stopping, all, todo, pc>>

\* socket::listen makes a socket.
Listen(s) ==
  /\ pc = "run" /\ sock[s] = "closed" /\ sock' = [sock EXCEPT ![s] = "open"]
  /\ UNCHANGED <<req, busy, cancel, stopping, all, todo, pc>>

\* udp::udp makes a datagram socket; if bind fails its member socket_ closes it again.
Bind(s) ==
  /\ pc = "run" /\ sock[s] = "closed" /\ sock' = [sock EXCEPT ![s] = "bound"]
  /\ UNCHANGED <<req, busy, cancel, stopping, all, todo, pc>>

\* ~socket: with a direction in use the program would be terminated.
Close(s) ==
  /\ pc = "run" /\ sock[s] \in {"open", "bound"} /\ ({s} \X {"in", "out"}) \cap busy = {}
  /\ sock' = [sock EXCEPT ![s] = "closed"]
  /\ UNCHANGED <<req, busy, cancel, stopping, all, todo, pc>>

\* The stores of cancel_fn; the callback is there while the request is pending.
Mark(o) ==
  /\ o \in Pending /\ ~req[o].canceled
  /\ req' = [req EXCEPT ![o].canceled = TRUE] /\ cancel' = TRUE
  /\ UNCHANGED <<busy, sock, stopping, all, todo, pc>>

\* The stores of loop::stop.
MarkAll ==
  /\ ~stopping /\ stopping' = TRUE /\ cancel' = TRUE
  /\ UNCHANGED <<req, busy, sock, all, todo, pc>>

\* expire: the flag is cleared before the requests are looked at.
Expire ==
  /\ pc = "expire" /\ pc' = "scan" /\ cancel' = FALSE /\ all' = stopping
  /\ todo' = (IF cancel THEN Pending ELSE {})
  /\ UNCHANGED <<req, busy, sock, stopping>>

\* The scan calls cancel for these, and passes the others.
Doomed(o) == o \in todo /\ ~req[o].sent /\ (all \/ req[o].canceled)

\* The scan is through.
Scanned ==
  /\ pc = "scan" /\ pc' = "run" /\ todo' = {} /\ all' = FALSE
  /\ \A o \in todo : ~Doomed(o)
  /\ UNCHANGED <<req, busy, sock, cancel, stopping>>

-----------------------------------------------------------------------------
\* A descriptor that accept() or connect() is still working on has exactly one request
\* that will hand it out or close it: none leaks, none is closed twice (~io, ~socket).
DescriptorOwned ==
  \A s \in Socks :
    LET owners == {o \in InUse : req[o].accepted = s \/ (req[o].code = "connect" /\ req[o].fd = s)}
    IN IF sock[s] \in {"held", "dialing"} THEN \E o \in owners : owners = {o} ELSE owners = {}
=============================================================================
