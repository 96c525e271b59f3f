-------------------------------- MODULE Iocp --------------------------------
(***************************************************************************)
(* The completion-port driver of src/src/iocp.cpp.  A request that the     *)
(* system accepts ends with exactly one packet on the port, also if it     *)
(* succeeds at once; only a request that it refuses is completed by submit. *)
(* A canceled request is waited for like any other.  The system is         *)
(* external.                                                               *)
(***************************************************************************)
EXTENDS Requests

CONSTANT Wakes   \* bound: wake packets on the port

VARIABLES
  kern, killed,  \* system: requests it works on, those of them that CancelIoEx named
  port,    \* packets on the port, in order
  packets  \* packets that poll still has to handle

WakePacket == [op |-> None, status |-> "ok"]
Packet(o, r) == [op |-> o, status |-> r]
PInit == RequestsInit /\ kern = {} /\ killed = {} /\ port = <<>> /\ packets = <<>> /\ timed = FALSE
-----------------------------------------------------------------------------
\* The system ends a request; it reports an abort only if it was asked for one, and may
\* have been too late for that.
Finish(o, r) ==
  /\ o \in kern /\ (r = "aborted" => o \in killed)
  /\ kern' = kern \ {o} /\ killed' = killed \ {o} /\ port' = Append(port, Packet(o, r))
  /\ UNCHANGED <<base, packets, timed>>
-----------------------------------------------------------------------------
\* loop::wake posts a packet of its own.  Beyond the bound it is left out: all it could
\* do is end one more wait for nothing.
PWake ==
  port' = IF Cardinality({i \in DOMAIN port : port[i] = WakePacket}) < Wakes
          THEN Append(port, WakePacket) ELSE port

\* The socket that an accept makes for its peer before it asks the system.
PAccepts(c) == IF c = "accept" THEN Unused ELSE {None}

\* submit, accepted: the system works on the request, or is done and has posted its packet;
\* a nop posts its packet itself.
Queue(o, c, s) ==
  /\ \E a \in PAccepts(c) : Begin(o, c, s, "none", a)
  /\ \/ c # "nop" /\ kern' = kern \cup {o} /\ port' = port
     \/ port' = Append(port, Packet(o, "ok")) /\ kern' = kern
  /\ UNCHANGED <<killed, packets, timed>>

\* submit, refused; for a read at the end of a file this is no error.
Refuse(o, c, s) ==
  /\ c # "nop"
  /\ \E a \in PAccepts(c), r \in {"error"} \cup {x \in {"ok"} : c = "file"} : Begin(o, c, s, r, a)
  /\ UNCHANGED <<kern, killed, port, packets, timed>>

\* await_suspend of a read or write (not a datagram) of nothing, which the system never sees.
PNothing(o, c, s) ==
  /\ c \in {"read", "write"} /\ Begin(o, c, s, "ok", None)
  /\ UNCHANGED <<kern, killed, port, packets, timed>>

PStart(o, c, s) == Startable(o, c, s) /\ (Queue(o, c, s) \/ Refuse(o, c, s) \/ PNothing(o, c, s))

PResume(o) == Release(o) /\ UNCHANGED <<kern, killed, port, packets, timed>>
PNewSocket(s) == (Listen(s) \/ Bind(s)) /\ UNCHANGED <<kern, killed, port, packets, timed>>
PEndSocket(s) == Close(s) /\ UNCHANGED <<kern, killed, port, packets, timed>>

\* Another thread asks for a request, or all, to be canceled.
PRequestStop(o) == Mark(o) /\ PWake /\ UNCHANGED <<kern, killed, packets, timed>>
PStop == MarkAll /\ PWake /\ UNCHANGED <<kern, killed, packets, timed>>

\* Another thread posts work: the loop has to come out of its wait.
PPost == PWake /\ UNCHANGED <<base, kern, killed, packets, timed>>

PStartScan == Expire /\ UNCHANGED <<kern, killed, port, packets, timed>>
PEndScan == Scanned /\ UNCHANGED <<kern, killed, port, packets, timed>>

\* loop::cancel: CancelIoEx does not find a request whose packet is already posted, and a
\* nop has always posted its own.
PCancel(o) ==
  /\ pc = "scan" /\ Doomed(o)
  /\ req' = [req EXCEPT ![o].sent = TRUE] /\ todo' = todo \ {o}
  /\ killed' = killed \cup ({o} \cap kern)
  /\ UNCHANGED <<busy, sock, cancel, stopping, all, pc, kern, port, packets, timed>>

\* poll(delay): with tasks to resume the delay is zero.
PPoll(t) ==
  /\ pc = "run" /\ pc' = "wait" /\ timed' = t
  /\ t \/ \A o \in Ops : req[o].st # "ready"
  /\ UNCHANGED <<req, busy, sock, cancel, stopping, all, todo, kern, killed, port, packets>>

Taken == IF Len(port) <= Peek THEN Len(port) ELSE Peek

\* GetQueuedCompletionStatusEx returns, with packets or because the time is over.
PReturn ==
  /\ pc = "wait" /\ pc' = "reap" /\ timed' = FALSE
  /\ timed \/ port # <<>>
  /\ packets' = SubSeq(port, 1, Taken) /\ port' = SubSeq(port, Taken + 1, Len(port))
  /\ UNCHANGED <<req, busy, sock, cancel, stopping, all, todo, kern, killed>>

\* What a packet means for a request: an accept or connect can still fail when its socket
\* is updated, the end of a file is no error, an abort is a cancellation.
Outcomes(c, status) ==
  IF status = "ok" THEN {"ok"} \cup {r \in {"error"} : c \in {"accept", "connect"}} ELSE
  IF status = "error" THEN {"error"} \cup {r \in {"ok"} : c = "file"} ELSE {"canceled"}

\* A packet of the batch: the request is completed with what the packet says.
PHandle ==
  /\ pc = "reap" /\ packets # <<>> /\ packets' = Tail(packets)
  /\ LET p == Head(packets) IN
     \/ p = WakePacket /\ UNCHANGED <<req, sock>>
     \/ p # WakePacket /\ \E r \in Outcomes(req[p.op].code, p.status) :
          Complete(p.op, r, req[p.op].accepted)
  /\ UNCHANGED <<busy, cancel, stopping, all, todo, pc, kern, killed, port, timed>>

PReaped ==
  /\ pc = "reap" /\ packets = <<>> /\ pc' = "expire"
  /\ UNCHANGED <<req, busy, sock, cancel, stopping, all, todo, kern, killed, port, packets, timed>>

PNext ==
  \/ \E o \in Ops : \/ \E r \in {"ok", "error", "aborted"} : Finish(o, r)
                    \/ \E c \in Opcodes, s \in Socks \cup {None} : PStart(o, c, s)
                    \/ PResume(o) \/ PRequestStop(o) \/ PCancel(o)
  \/ \E s \in Socks : PNewSocket(s) \/ PEndSocket(s)
  \/ PStop \/ PPost \/ PStartScan \/ PEndScan \/ PReturn \/ PHandle \/ PReaped
  \/ \E t \in BOOLEAN : PPoll(t)
-----------------------------------------------------------------------------
\* What will complete a request: the system, or its packets.
PSources(o) ==
  LET posted == packets \o port
  IN ({"system"} \X ({o} \cap kern)) \cup ({"packet"} \X {i \in DOMAIN posted : posted[i].op = o})

\* Exactly one thing will complete a pending request, the system or one packet, and neither
\* names a request whose coroutine has gone on (submit: "never resume it twice").
POneSource ==
  \A o \in Ops :
    LET sources == PSources(o)
    IN IF o \in Pending THEN \E x \in sources : sources = {x} ELSE sources = {}
=============================================================================
