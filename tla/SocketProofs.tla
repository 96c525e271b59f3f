---------------------------- MODULE SocketProofs ----------------------------
(***************************************************************************)
(* Proofs about socket requests on kqueue and on a completion port, for    *)
(* any number of requests and descriptors and any number of events or      *)
(* packets taken in one poll: every pending request has exactly one source *)
(* of completion, every descriptor in flight one owner, and a connection   *)
(* is reported only when it is made.                                       *)
(***************************************************************************)
EXTENDS Sockets, TLAPS

Request ==
  [st : {"free", "pending", "ready"}, code : Opcodes, fd : Socks \cup {None},
   accepted : Socks \cup {None}, outcome : {"none", "ok", "error", "canceled"},
   canceled : BOOLEAN, sent : BOOLEAN]

SockTypes ==
  /\ req \in [Ops -> Request]
  /\ sock \in [Socks -> {"closed", "open", "bound", "dialing", "held"}]

\* A descriptor that a connect() dials or that a request holds for accept() is named by one
\* request, and the other way round.
Used(o) == req[o].st # "free"
Dials(o, s) == Used(o) /\ req[o].code = "connect" /\ req[o].fd = s
Holds(o, s) == Used(o) /\ req[o].accepted = s

Owned ==
  /\ \A s \in Socks : /\ sock[s] = "dialing" <=> \E o \in Ops : Dials(o, s)
                      /\ sock[s] = "held" <=> \E o \in Ops : Holds(o, s)
  /\ \A o, p \in Ops, s \in Socks :
       (Dials(o, s) \/ Holds(o, s)) /\ (Dials(p, s) \/ Holds(p, s)) => o = p
  /\ \A o \in Ops : Used(o) /\ req[o].code = "connect" => req[o].fd \in Socks
-----------------------------------------------------------------------------
\* The fields of a request have their types.
LEMMA RequestFields ==
  ASSUME SockTypes, NEW o \in Ops
  PROVE  /\ req[o].st \in {"free", "pending", "ready"} /\ req[o].code \in Opcodes
         /\ req[o].fd \in Socks \cup {None} /\ req[o].accepted \in Socks \cup {None}
         /\ req[o].canceled \in BOOLEAN /\ req[o].sent \in BOOLEAN
BY Zenon DEF SockTypes, Request

\* A step that neither starts nor ends a request and leaves the descriptors alone.
LEMMA OwnersKept ==
  ASSUME SockTypes, Owned, UNCHANGED sock, req' \in [Ops -> Request],
         \A o \in Ops : /\ req'[o].code = req[o].code /\ req'[o].fd = req[o].fd
                        /\ req'[o].accepted = req[o].accepted
                        /\ req'[o].st = "free" <=> req[o].st = "free"
  PROVE  SockTypes' /\ Owned'
<1>1. SockTypes' BY Zenon DEF SockTypes
<1>2. \A o \in Ops : /\ Used(o)' <=> Used(o)
                     /\ \A s : (Dials(o, s)' <=> Dials(o, s)) /\ (Holds(o, s)' <=> Holds(o, s))
  BY Zenon DEF Used, Dials, Holds
<1>3. Owned' BY <1>2, Zenon DEF Owned
<1> QED BY <1>1, <1>3, Zenon

\* A request begins: connect() dials an unused descriptor, an accept may hold one.
LEMMA BeginOwns ==
  ASSUME SockTypes, Owned, NEW o \in Ops, NEW c \in Opcodes, NEW s \in Socks \cup {None},
         NEW r \in {"none", "ok", "error"}, NEW a \in Unused \cup {None}, a # None => c = "accept",
         Startable(o, c, s), Begin(o, c, s, r, a)
  PROVE  /\ SockTypes' /\ Owned'
         /\ \A p \in Ops : p # o => req'[p] = req[p]
         /\ req'[o].st = IF r = "none" THEN "pending" ELSE "ready"
         /\ req'[o].code = c /\ req'[o].fd = s /\ req'[o].accepted = a /\ req'[o].outcome = r
<1> DEFINE new == [st |-> IF r = "none" THEN "pending" ELSE "ready", code |-> c, fd |-> s,
                   accepted |-> a, outcome |-> r, canceled |-> FALSE, sent |-> FALSE]
<1>0. a \in Socks \cup {None} /\ (a \in Socks => sock[a] = "closed") /\ None \notin Socks
  BY NoneIsNothing, Zenon DEF Unused
<1>1. new \in Request BY <1>0, Zenon DEF Request
<1>2. req' = [req EXCEPT ![o] = new] BY Zenon DEF Begin
<1>3. /\ new.st # "free" /\ new.code = c /\ new.fd = s /\ new.accepted = a BY Zenon
<1> HIDE DEF new
<1>4. req' \in [Ops -> Request] /\ req'[o] = new /\ \A p \in Ops : p # o => req'[p] = req[p]
  BY <1>1, <1>2, Zenon DEF SockTypes
<1>5. sock' = [x \in Socks |-> IF x = a THEN "held" ELSE IF x = s /\ c = "connect" THEN "dialing" ELSE sock[x]]
  BY Zenon DEF Begin
<1>6. SockTypes' BY <1>4, <1>5, Zenon DEF SockTypes
<1>7. ~Used(o) /\ (c = "connect" => s \in Socks /\ sock[s] = "closed")
  BY Zenon DEF Startable, Used
<1>8. /\ \A p \in Ops : p # o => /\ Used(p)' <=> Used(p)
                                 /\ \A x : (Dials(p, x)' <=> Dials(p, x)) /\ (Holds(p, x)' <=> Holds(p, x))
      /\ \A x : (Dials(o, x)' <=> c = "connect" /\ x = s) /\ (Holds(o, x)' <=> x = a)
  BY <1>3, <1>4, Zenon DEF Used, Dials, Holds
<1>9. \A x : ~Dials(o, x) /\ ~Holds(o, x) BY <1>7, Zenon DEF Dials, Holds
<1>10. ASSUME NEW x \in Socks PROVE /\ sock'[x] = "dialing" <=> \E p \in Ops : Dials(p, x)'
                                    /\ sock'[x] = "held" <=> \E p \in Ops : Holds(p, x)'
  <2>1. sock'[x] = IF x = a THEN "held" ELSE IF x = s /\ c = "connect" THEN "dialing" ELSE sock[x]
    BY <1>5, Zenon
  <2>2. /\ sock[x] = "dialing" <=> \E p \in Ops : Dials(p, x)
        /\ sock[x] = "held" <=> \E p \in Ops : Holds(p, x)
    BY Zenon DEF Owned
  <2>3. CASE x = a
    <3>1. sock[x] = "closed" /\ ~(c = "connect") BY <1>0, <2>3, NoneIsNothing, Zenon
    <3> QED BY <1>8, <2>1, <2>2, <2>3, <3>1, Zenon
  <2>4. CASE x # a /\ x = s /\ c = "connect"
    BY <1>7, <1>8, <2>1, <2>2, <2>4, Zenon
  <2>5. CASE x # a /\ ~(x = s /\ c = "connect")
    BY <1>8, <1>9, <2>1, <2>2, <2>5, Zenon
  <2> QED BY <2>3, <2>4, <2>5, Zenon
<1>11. ASSUME NEW p \in Ops, NEW q \in Ops, NEW x \in Socks,
              Dials(p, x)' \/ Holds(p, x)', Dials(q, x)' \/ Holds(q, x)'
       PROVE  p = q
  <2>1. ASSUME NEW y \in Ops, Dials(y, x) \/ Holds(y, x) PROVE sock[x] \in {"dialing", "held"}
    BY <2>1, Zenon DEF Owned
  <2>2. Dials(o, x)' \/ Holds(o, x)' => sock[x] = "closed" BY <1>0, <1>7, <1>8, Zenon
  <2>3. CASE p = o /\ q # o BY <1>8, <1>11, <2>1, <2>2, <2>3, Zenon
  <2>4. CASE p # o /\ q = o BY <1>8, <1>11, <2>1, <2>2, <2>4, Zenon
  <2>5. CASE p # o /\ q # o BY <1>8, <1>11, <2>5, Zenon DEF Owned
  <2> QED BY <2>3, <2>4, <2>5, Zenon
<1>12. \A p \in Ops : Used(p)' /\ req'[p].code = "connect" => req'[p].fd \in Socks
  BY <1>3, <1>4, <1>7, <1>8, Zenon DEF Owned
<1>13. Owned' BY <1>10, <1>11, <1>12, Zenon DEF Owned
<1> QED BY <1>4, <1>6, <1>13 DEF new

\* A request is completed: an accept may come back with an unused descriptor.
LEMMA CompleteOwns ==
  ASSUME SockTypes, Owned, NEW o \in Ops, Used(o),
         NEW r \in {"ok", "error", "canceled"}, NEW a \in Socks \cup {None}, NEW t \in BOOLEAN,
         a = req[o].accepted \/ (req[o].accepted = None /\ a \in Unused),
         req' = [req EXCEPT ![o] = Ended(req[o], r, a, t)],
         sock' = [x \in Socks |-> IF x = a THEN "held" ELSE sock[x]]
  PROVE  /\ SockTypes' /\ Owned'
         /\ \A p \in Ops : p # o => req'[p] = req[p]
         /\ req'[o] = Ended(req[o], r, a, t)
<1> DEFINE new == Ended(req[o], r, a, t)
<1>0. a \in Socks \cup {None} /\ None \notin Socks
  BY RequestFields, NoneIsNothing, Zenon DEF Unused
<1>1. new \in Request BY <1>0, RequestFields, Zenon DEF Request, Ended
<1>2. /\ new.st = "ready" /\ new.code = req[o].code /\ new.fd = req[o].fd /\ new.accepted = a
  BY Zenon DEF Ended
<1> HIDE DEF new
<1>3. req' \in [Ops -> Request] /\ req'[o] = new /\ \A p \in Ops : p # o => req'[p] = req[p]
  BY <1>1, Zenon DEF SockTypes, new
<1>4. SockTypes' BY <1>3, Zenon DEF SockTypes
<1>5. /\ \A p \in Ops : /\ Used(p)' <=> Used(p)
                        /\ \A x : Dials(p, x)' <=> Dials(p, x)
      /\ \A p \in Ops : p # o => \A x : Holds(p, x)' <=> Holds(p, x)
      /\ \A x : Holds(o, x)' <=> x = a
  BY <1>2, <1>3, Zenon DEF Used, Dials, Holds
<1>6. \A x : Holds(o, x) <=> x = req[o].accepted BY Zenon DEF Holds
<1>7. a \in Socks => (sock[a] = "held" /\ a = req[o].accepted) \/ sock[a] = "closed"
  BY <1>6, Zenon DEF Owned, Unused
<1>8. ASSUME NEW x \in Socks PROVE /\ sock'[x] = "dialing" <=> \E p \in Ops : Dials(p, x)'
                                   /\ sock'[x] = "held" <=> \E p \in Ops : Holds(p, x)'
  <2>1. sock'[x] = IF x = a THEN "held" ELSE sock[x] BY Zenon
  <2>2. /\ sock[x] = "dialing" <=> \E p \in Ops : Dials(p, x)
        /\ sock[x] = "held" <=> \E p \in Ops : Holds(p, x)
    BY Zenon DEF Owned
  <2>3. CASE x = a
    BY <1>5, <1>7, <2>1, <2>2, <2>3, Zenon
  <2>4. CASE x # a
    <3>1. ~Holds(o, x)' /\ (Holds(o, x) => FALSE) BY <1>0, <1>5, <1>6, <2>4, Zenon
    <3> QED BY <1>5, <2>1, <2>2, <2>4, <3>1, Zenon
  <2> QED BY <2>3, <2>4, Zenon
<1>9. ASSUME NEW p \in Ops, NEW q \in Ops, NEW x \in Socks,
             Dials(p, x)' \/ Holds(p, x)', Dials(q, x)' \/ Holds(q, x)'
      PROVE  p = q
  <2>1. ASSUME NEW y \in Ops, Dials(y, x) \/ Holds(y, x) PROVE sock[x] \in {"dialing", "held"}
    BY <2>1, Zenon DEF Owned
  <2>2. CASE x = a /\ sock[a] = "closed"
    BY <1>5, <1>9, <2>1, <2>2, Zenon
  <2>3. CASE ~(x = a /\ sock[a] = "closed")
    <3>1. \A y \in Ops : Dials(y, x)' \/ Holds(y, x)' => Dials(y, x) \/ Holds(y, x)
      BY <1>5, <1>6, <1>7, <2>3, Zenon
    <3> QED BY <1>9, <3>1, Zenon DEF Owned
  <2> QED BY <2>2, <2>3, Zenon
<1>10. \A p \in Ops : Used(p)' /\ req'[p].code = "connect" => req'[p].fd \in Socks
  BY <1>2, <1>3, <1>5 DEF Owned
<1>11. Owned' BY <1>8, <1>9, <1>10, Zenon DEF Owned
<1> QED BY <1>3, <1>4, <1>11, Zenon DEF new

\* The same for loop::complete.
LEMMA CompletesOwn ==
  ASSUME SockTypes, Owned, NEW o \in Ops, Used(o),
         NEW r \in {"ok", "error", "canceled"}, NEW a \in Socks \cup {None},
         a = req[o].accepted \/ (req[o].accepted = None /\ a \in Unused), Complete(o, r, a)
  PROVE  /\ SockTypes' /\ Owned'
         /\ \A p \in Ops : p # o => req'[p] = req[p]
         /\ req'[o] = Ended(req[o], r, a, req[o].sent)
<1>1. PICK t \in BOOLEAN : t = req[o].sent BY RequestFields, Zenon
<1>2. /\ req' = [req EXCEPT ![o] = Ended(req[o], r, a, t)]
      /\ sock' = [x \in Socks |-> IF x = a THEN "held" ELSE sock[x]]
  BY <1>1, Zenon DEF Complete
<1> QED BY <1>1, <1>2, CompleteOwns, Zenon

\* A request is given up: its descriptors become sockets or are closed.
LEMMA ReleaseOwns ==
  ASSUME SockTypes, Owned, NEW o \in Ops, Release(o)
  PROVE  /\ SockTypes' /\ Owned'
         /\ \A p \in Ops : p # o => req'[p] = req[p]
         /\ req'[o].st = "free" /\ req[o].st = "ready"
         /\ \A x \in Socks : sock'[x] # sock[x] => sock[x] \in {"dialing", "held"}
         /\ \A x \in Socks : sock[x] \in {"dialing", "held"} /\ ~(Dials(o, x) \/ Holds(o, x)) => sock'[x] = sock[x]
<1>1. Idle \in Request BY Zenon DEF Idle, Request, Opcodes
<1>2. req' = [req EXCEPT ![o] = Idle] /\ req[o].st = "ready" /\ Idle.st = "free" BY Zenon DEF Release, Idle
<1>3. req' \in [Ops -> Request] /\ req'[o] = Idle /\ \A p \in Ops : p # o => req'[p] = req[p]
  BY <1>1, <1>2, Zenon DEF SockTypes
<1>4. /\ \A p \in Ops : p # o => /\ Used(p)' <=> Used(p)
                                 /\ \A x : (Dials(p, x)' <=> Dials(p, x)) /\ (Holds(p, x)' <=> Holds(p, x))
      /\ ~Used(o)' /\ \A x : ~Dials(o, x)' /\ ~Holds(o, x)'
  BY <1>2, <1>3, Zenon DEF Used, Dials, Holds
<1>5. \A x \in Socks : /\ Dials(o, x) \/ Holds(o, x) => sock'[x] \in {"open", "closed"}
                       /\ ~(Dials(o, x) \/ Holds(o, x)) => sock'[x] = sock[x]
  BY <1>2, Zenon DEF Release, Dials, Holds, Used
<1>6. SockTypes'
  <2>1. sock' = [x \in Socks |-> sock'[x]] BY Zenon DEF Release
  <2>2. \A x \in Socks : sock'[x] \in {"closed", "open", "bound", "dialing", "held"}
    BY <1>5, Zenon DEF SockTypes
  <2> QED BY <1>3, <2>1, <2>2, Zenon DEF SockTypes
<1>7. ASSUME NEW x \in Socks PROVE /\ sock'[x] = "dialing" <=> \E p \in Ops : Dials(p, x)'
                                   /\ sock'[x] = "held" <=> \E p \in Ops : Holds(p, x)'
  <2>1. /\ sock[x] = "dialing" <=> \E p \in Ops : Dials(p, x)
        /\ sock[x] = "held" <=> \E p \in Ops : Holds(p, x)
    BY Zenon DEF Owned
  <2>2. CASE Dials(o, x) \/ Holds(o, x)
    <3>1. \A p \in Ops : Dials(p, x) \/ Holds(p, x) => p = o BY <2>2, Zenon DEF Owned
    <3> QED BY <1>4, <1>5, <2>2, <3>1, Zenon
  <2>3. CASE ~(Dials(o, x) \/ Holds(o, x))
    BY <1>4, <1>5, <2>1, <2>3, Zenon
  <2> QED BY <2>2, <2>3, Zenon
<1>8. \A p, q \in Ops, x \in Socks :
        (Dials(p, x)' \/ Holds(p, x)') /\ (Dials(q, x)' \/ Holds(q, x)') => p = q
  BY <1>4 DEF Owned
<1>9. \A p \in Ops : Used(p)' /\ req'[p].code = "connect" => req'[p].fd \in Socks
  BY <1>3, <1>4, Zenon DEF Owned
<1>10. Owned' BY <1>7, <1>8, <1>9, Zenon DEF Owned
<1>11. \A x \in Socks : sock'[x] # sock[x] => sock[x] \in {"dialing", "held"}
  BY <1>5, Zenon DEF Owned
<1> QED BY <1>2, <1>3, <1>5, <1>6, <1>10, <1>11, Zenon

\* A socket object is made or destroyed.
LEMMA SocketOwns ==
  ASSUME SockTypes, Owned, UNCHANGED req, NEW s \in Socks, NEW v \in {"closed", "open", "bound"},
         sock[s] \in {"closed", "open", "bound"}, sock' = [sock EXCEPT ![s] = v]
  PROVE  SockTypes' /\ Owned'
<1>1. \A x \in Socks : sock'[x] = IF x = s THEN v ELSE sock[x] BY Zenon DEF SockTypes
<1>2. SockTypes' BY Zenon DEF SockTypes
<1>3. \A o \in Ops : /\ Used(o)' <=> Used(o)
                     /\ \A x : (Dials(o, x)' <=> Dials(o, x)) /\ (Holds(o, x)' <=> Holds(o, x))
  BY Zenon DEF Used, Dials, Holds
<1>4. ASSUME NEW x \in Socks PROVE /\ sock'[x] = "dialing" <=> sock[x] = "dialing"
                                   /\ sock'[x] = "held" <=> sock[x] = "held"
  BY <1>1, Zenon
<1>5. Owned' BY <1>3, <1>4, Zenon DEF Owned
<1> QED BY <1>2, <1>5, Zenon

\* A stop request marks a request and changes nothing else about it.
LEMMA MarkFacts ==
  ASSUME SockTypes, NEW o \in Ops, req' = [req EXCEPT ![o].canceled = TRUE]
  PROVE  /\ req' \in [Ops -> Request]
         /\ \A p \in Ops : /\ req'[p].code = req[p].code /\ req'[p].fd = req[p].fd
                           /\ req'[p].accepted = req[p].accepted /\ req'[p].outcome = req[p].outcome
                           /\ req'[p].st = req[p].st
<1> DEFINE new == [req[o] EXCEPT !.canceled = TRUE]
<1>1. new \in Request /\ new.code = req[o].code /\ new.fd = req[o].fd /\ new.accepted = req[o].accepted
      /\ new.outcome = req[o].outcome /\ new.st = req[o].st
  BY Zenon DEF SockTypes, Request
<1>2. req' = [req EXCEPT ![o] = new] BY Zenon
<1> HIDE DEF new
<1>3. \A p \in Ops : req'[p] = IF p = o THEN new ELSE req[p] BY <1>2, Zenon DEF SockTypes
<1> QED BY <1>1, <1>2, <1>3, Zenon DEF SockTypes

\* So does CancelIoEx.
LEMMA SentFacts ==
  ASSUME SockTypes, NEW o \in Ops, req' = [req EXCEPT ![o].sent = TRUE]
  PROVE  /\ req' \in [Ops -> Request]
         /\ \A p \in Ops : /\ req'[p].code = req[p].code /\ req'[p].fd = req[p].fd
                           /\ req'[p].accepted = req[p].accepted /\ req'[p].outcome = req[p].outcome
                           /\ req'[p].st = req[p].st
<1> DEFINE new == [req[o] EXCEPT !.sent = TRUE]
<1>1. new \in Request /\ new.code = req[o].code /\ new.fd = req[o].fd /\ new.accepted = req[o].accepted
      /\ new.outcome = req[o].outcome /\ new.st = req[o].st
  BY Zenon DEF SockTypes, Request
<1>2. req' = [req EXCEPT ![o] = new] BY Zenon
<1> HIDE DEF new
<1>3. \A p \in Ops : req'[p] = IF p = o THEN new ELSE req[p] BY <1>2, Zenon DEF SockTypes
<1> QED BY <1>1, <1>2, <1>3, Zenon DEF SockTypes

\* The owners are as many as there should be.
LEMMA OwnersCounted ==
  ASSUME SockTypes, Owned
  PROVE  DescriptorOwned
<1>1. SUFFICES ASSUME NEW s \in Socks
               PROVE  LET owners == {o \in InUse : req[o].accepted = s \/ (req[o].code = "connect" /\ req[o].fd = s)}
                      IN IF sock[s] \in {"held", "dialing"} THEN \E o \in owners : owners = {o} ELSE owners = {}
  BY Zenon DEF DescriptorOwned
<1> DEFINE owners == {o \in InUse : req[o].accepted = s \/ (req[o].code = "connect" /\ req[o].fd = s)}
<1>2. \A o : o \in owners <=> o \in Ops /\ (Dials(o, s) \/ Holds(o, s))
  BY Zenon DEF InUse, Dials, Holds, Used
<1> HIDE DEF owners
<1>3. CASE sock[s] \in {"held", "dialing"}
  <2>1. PICK o \in Ops : Dials(o, s) \/ Holds(o, s) BY <1>3, Zenon DEF Owned
  <2>2. o \in owners /\ owners = {o} BY <1>2, <2>1 DEF Owned
  <2> QED BY <1>3, <2>2, Zenon DEF owners
<1>4. CASE sock[s] \notin {"held", "dialing"}
  <2>1. \A o \in Ops : ~(Dials(o, s) \/ Holds(o, s)) BY <1>4, Zenon DEF Owned
  <2>2. owners = {} BY <1>2, <2>1, Zenon
  <2> QED BY <1>4, <2>2, Zenon DEF owners
<1> QED BY <1>3, <1>4, Zenon

\* Nothing is in use when a loop is made.
LEMMA RequestsStart ==
  ASSUME RequestsInit
  PROVE  SockTypes /\ Owned /\ \A o \in Ops : req[o].st = "free" /\ ~Used(o)
<1>1. Idle \in Request /\ Idle.st = "free" BY Zenon DEF Idle, Request, Opcodes
<1>2. req = [o \in Ops |-> Idle] /\ sock = [s \in Socks |-> "closed"] BY Zenon DEF RequestsInit
<1> HIDE DEF Idle
<1>3. \A o \in Ops : req[o].st = "free" /\ ~Used(o) BY <1>1, <1>2, Zenon DEF Used
<1>4. SockTypes BY <1>1, <1>2, Zenon DEF SockTypes
<1>5. Owned BY <1>2, <1>3, Zenon DEF Owned, Dials, Holds
<1> QED BY <1>3, <1>4, <1>5, Zenon
-----------------------------------------------------------------------------
\* The completion port.

\* On a completion port: what poll has taken and what is still on the port, in order.
PacketSet == [op : Ops, status : {"ok", "error", "aborted"}] \cup {WakePacket}
Posted == packets \o port

\* A request is named by a packet; and by no two.
Named(q, o) == \E i \in DOMAIN q : q[i].op = o
Once(q) == \A i, j \in DOMAIN q : q[i].op = q[j].op /\ q[i].op # None => i = j

\* A request is pending as long as the system works on it or its packet is not handled.
Packets ==
  /\ packets \in Seq(PacketSet) /\ port \in Seq(PacketSet) /\ Once(Posted)
  /\ \A o \in Ops : /\ req[o].st = "pending" <=> o \in kern \/ Named(Posted, o)
                    /\ ~(o \in kern /\ Named(Posted, o))
  /\ pc # "reap" => packets = <<>>
-----------------------------------------------------------------------------
\* Queues of packets: what is posted at the end, taken from the front, or moved by a poll.
LEMMA QueueFacts ==
  ASSUME NEW S, NEW s \in Seq(S), NEW u \in Seq(S)
  PROVE  /\ s \o u \in Seq(S) /\ <<>> \o u = u
         /\ \A e \in S : Append(u, e) \in Seq(S) /\ s \o Append(u, e) = Append(s \o u, e)
         /\ s # <<>> => /\ Head(s) \in S /\ Tail(s) \in Seq(S) /\ s \o u # <<>>
                        /\ Head(s \o u) = Head(s) /\ Tail(s \o u) = Tail(s) \o u
<1>1. /\ s \o u \in Seq(S) /\ Len(s \o u) = Len(s) + Len(u)
      /\ Len(s) \in Nat /\ Len(u) \in Nat
      /\ DOMAIN s = 1..Len(s) /\ DOMAIN u = 1..Len(u)
      /\ DOMAIN (s \o u) = 1..Len(s) + Len(u)
      /\ \A i \in 1..Len(s) + Len(u) : (s \o u)[i] = IF i <= Len(s) THEN s[i] ELSE u[i - Len(s)]
  OBVIOUS
<1>2. <<>> \o u = u OBVIOUS
<1>3. ASSUME NEW e \in S PROVE Append(u, e) \in Seq(S) /\ s \o Append(u, e) = Append(s \o u, e)
  OBVIOUS
<1>4. ASSUME s # <<>>
      PROVE  /\ Head(s) \in S /\ Tail(s) \in Seq(S) /\ s \o u # <<>>
             /\ Head(s \o u) = Head(s) /\ Tail(s \o u) = Tail(s) \o u
  <2>1. Head(s) \in S /\ Tail(s) \in Seq(S) BY <1>4
  <2>2. Len(s) > 0 /\ s \o u # <<>> BY <1>1, <1>4
  <2>3. Head(s \o u) = Head(s) BY <1>1, <1>4, <2>2
  <2>4. Tail(s \o u) = Tail(s) \o u BY <1>1, <1>4, <2>1, <2>2
  <2> QED BY <2>1, <2>2, <2>3, <2>4, Zenon
<1> QED BY <1>1, <1>2, <1>3, <1>4, Zenon

\* The packets that a poll takes and those that it leaves.
LEMMA SplitFacts ==
  ASSUME NEW S, NEW s \in Seq(S), NEW n \in 0..Len(s)
  PROVE  /\ SubSeq(s, 1, n) \in Seq(S) /\ SubSeq(s, n + 1, Len(s)) \in Seq(S)
         /\ SubSeq(s, 1, n) \o SubSeq(s, n + 1, Len(s)) = s
<1>1. Len(s) \in Nat /\ \A i \in 1..Len(s) : s[i] \in S OBVIOUS
<1>2. SubSeq(s, 1, n) \in Seq(S) /\ SubSeq(s, n + 1, Len(s)) \in Seq(S) BY <1>1
<1>3. SubSeq(s, 1, n) \o SubSeq(s, n + 1, Len(s)) = s
  <2> DEFINE a == SubSeq(s, 1, n)
             b == SubSeq(s, n + 1, Len(s))
  <2>1. /\ Len(a) = n /\ \A i \in 1..n : a[i] = s[i]
        /\ Len(b) = Len(s) - n /\ \A i \in 1..Len(s) - n : b[i] = s[i + n]
    BY <1>1
  <2>2. a \in Seq(S) /\ b \in Seq(S) BY <1>2, Zenon
  <2> HIDE DEF a, b
  <2>3. /\ a \o b \in Seq(S) /\ Len(a \o b) = Len(s)
        /\ \A i \in 1..Len(s) : (a \o b)[i] = IF i <= n THEN a[i] ELSE b[i - n]
    BY <1>1, <2>1, <2>2
  <2>4. ASSUME NEW i \in 1..Len(s) PROVE (a \o b)[i] = s[i]
    <3>1. CASE i <= n BY <1>1, <2>1, <2>3, <3>1
    <3>2. CASE ~(i <= n)
      <4>1. i - n \in 1..Len(s) - n /\ (i - n) + n = i BY <1>1, <3>2
      <4> QED BY <2>1, <2>3, <3>2, <4>1, Zenon
    <3> QED BY <3>1, <3>2, Zenon
  <2>5. \A c, d \in Seq(S) : Len(c) = Len(d) /\ (\A i \in 1..Len(d) : c[i] = d[i]) => c = d
    OBVIOUS
  <2>6. a \o b = s BY <2>3, <2>4, <2>5, Zenon
  <2> QED BY <2>6, Zenon DEF a, b
<1> QED BY <1>2, <1>3, Zenon

\* A packet is posted.
LEMMA PostFacts ==
  ASSUME NEW q \in Seq(PacketSet), NEW e \in PacketSet
  PROVE  /\ \A o : Named(Append(q, e), o) <=> Named(q, o) \/ e.op = o
         /\ Once(q) /\ (e.op = None \/ ~Named(q, e.op)) => Once(Append(q, e))
<1>1. /\ Len(q) \in Nat /\ DOMAIN q = 1..Len(q) /\ DOMAIN Append(q, e) = 1..Len(q) + 1
      /\ \A i \in 1..Len(q) : Append(q, e)[i] = q[i]
      /\ Append(q, e)[Len(q) + 1] = e
  OBVIOUS
<1>2. \A o : Named(Append(q, e), o) <=> Named(q, o) \/ e.op = o BY <1>1 DEF Named
<1>3. ASSUME Once(q), e.op = None \/ ~Named(q, e.op) PROVE Once(Append(q, e))
  <2>1. SUFFICES ASSUME NEW i \in 1..Len(q) + 1, NEW j \in 1..Len(q) + 1,
                        Append(q, e)[i].op = Append(q, e)[j].op, Append(q, e)[i].op # None
                 PROVE  i = j
    BY <1>1, Zenon DEF Once
  <2>2. \A x \in 1..Len(q) : q[x].op = e.op => e.op = None BY <1>1, <1>3, Zenon DEF Named
  <2>3. CASE i \in 1..Len(q) /\ j \in 1..Len(q) BY <1>1, <1>3, <2>1, <2>3, Zenon DEF Once
  <2>4. CASE i = Len(q) + 1 /\ j \in 1..Len(q) BY <1>1, <2>1, <2>2, <2>4, Zenon
  <2>5. CASE i \in 1..Len(q) /\ j = Len(q) + 1 BY <1>1, <2>1, <2>2, <2>5, Zenon
  <2> QED BY <1>1, <2>3, <2>4, <2>5
<1> QED BY <1>2, <1>3, Zenon

\* The first packet is taken.
LEMMA TakeFacts ==
  ASSUME NEW q \in Seq(PacketSet), q # <<>>, Once(q)
  PROVE  /\ Once(Tail(q))
         /\ \A o : o # None => (Named(Tail(q), o) <=> Named(q, o) /\ o # Head(q).op)
<1>1. /\ Len(q) \in Nat /\ Len(q) > 0 /\ DOMAIN q = 1..Len(q) /\ DOMAIN Tail(q) = 1..Len(q) - 1
      /\ \A i \in 1..Len(q) - 1 : Tail(q)[i] = q[i + 1]
      /\ Head(q) = q[1]
  OBVIOUS
<1>2. \A i \in 1..Len(q) - 1 : i + 1 \in DOMAIN q /\ 1 \in DOMAIN q BY <1>1
<1>3. Once(Tail(q))
  <2>1. SUFFICES ASSUME NEW i \in 1..Len(q) - 1, NEW j \in 1..Len(q) - 1,
                        Tail(q)[i].op = Tail(q)[j].op, Tail(q)[i].op # None
                 PROVE  i = j
    BY <1>1, Zenon DEF Once
  <2>2. i + 1 = j + 1 BY <1>1, <1>2, <2>1 DEF Once
  <2> QED BY <2>2
<1>4. ASSUME NEW o, o # None PROVE Named(Tail(q), o) <=> Named(q, o) /\ o # Head(q).op
  <2>1. ASSUME NEW i \in 1..Len(q) - 1, Tail(q)[i].op = o PROVE Named(q, o) /\ o # q[1].op
    <3>1. q[i + 1].op = o /\ i + 1 \in DOMAIN q /\ i + 1 # 1 BY <1>1, <1>2, <2>1
    <3> QED BY <1>2, <1>4, <3>1, Zenon DEF Named, Once
  <2>2. ASSUME NEW i \in 1..Len(q), q[i].op = o, o # q[1].op PROVE Named(Tail(q), o)
    <3>1. i # 1 BY <2>2, Zenon
    <3>2. i - 1 \in 1..Len(q) - 1 /\ (i - 1) + 1 = i BY <1>1, <3>1
    <3>3. Tail(q)[i - 1].op = o BY <1>1, <2>2, <3>2, Zenon
    <3> QED BY <1>1, <3>2, <3>3, Zenon DEF Named
  <2> QED BY <1>1, <2>1, <2>2, Zenon DEF Named
<1> QED BY <1>3, <1>4, Zenon

\* The packets of the model are packets; the wake packet names no request.
LEMMA PacketFacts ==
  /\ WakePacket \in PacketSet /\ WakePacket.op = None
  /\ \A o \in Ops, r \in {"ok", "error", "aborted"} :
       Packet(o, r) \in PacketSet /\ Packet(o, r).op = o /\ o # None
  /\ \A e \in PacketSet : e # WakePacket =>
       e.op \in Ops /\ e.status \in {"ok", "error", "aborted"} /\ e.op # None
<1>1. WakePacket \in PacketSet /\ WakePacket.op = None BY Zenon DEF PacketSet, WakePacket
<1>2. \A o \in Ops : o # None BY NoneIsNothing, Zenon
<1>3. \A o \in Ops, r \in {"ok", "error", "aborted"} : Packet(o, r) \in PacketSet /\ Packet(o, r).op = o
  BY Zenon DEF PacketSet, Packet
<1>4. \A e \in PacketSet : e # WakePacket => e.op \in Ops /\ e.status \in {"ok", "error", "aborted"}
  BY Zenon DEF PacketSet
<1> QED BY <1>1, <1>2, <1>3, <1>4, Zenon

\* A step that posts at most a wake packet, and neither starts nor ends what is pending.
LEMMA PacketsKept ==
  ASSUME Packets, UNCHANGED kern, \A o \in Ops : req'[o].st = "pending" <=> req[o].st = "pending",
         packets' \in Seq(PacketSet), port' \in Seq(PacketSet), pc' # "reap" => packets' = <<>>,
         Posted' = Posted \/ Posted' = Append(Posted, WakePacket)
  PROVE  Packets'
<1>1. Posted \in Seq(PacketSet) BY QueueFacts, Zenon DEF Packets, Posted
<1>2. Once(Posted') /\ \A o \in Ops : Named(Posted', o) <=> Named(Posted, o)
  <2>1. CASE Posted' = Posted BY <2>1, Zenon DEF Packets
  <2>2. CASE Posted' = Append(Posted, WakePacket)
    BY <1>1, <2>2, PostFacts, PacketFacts, NoneIsNothing, Zenon DEF Packets
  <2> QED BY <2>1, <2>2, Zenon
<1> QED BY <1>2, Zenon DEF Packets, Once, Named

\* wake posts a wake packet, or finds enough of them.
LEMMA WakePosts ==
  ASSUME Packets, PWake, UNCHANGED packets
  PROVE  /\ port' \in Seq(PacketSet)
         /\ Posted' = Posted \/ Posted' = Append(Posted, WakePacket)
<1>1. port' = port \/ port' = Append(port, WakePacket) BY Zenon DEF PWake
<1>2. WakePacket \in PacketSet BY PacketFacts, Zenon
<1>3. packets \o Append(port, WakePacket) = Append(packets \o port, WakePacket)
  BY <1>2, QueueFacts, SMTT(30) DEF Packets
<1>4. Append(port, WakePacket) \in Seq(PacketSet) BY <1>2, QueueFacts, Zenon DEF Packets
<1> QED BY <1>1, <1>3, <1>4, Zenon DEF Packets, Posted

\* The marks, the moves of the loop and the sockets leave the requests as they are.
LEMMA IocpMoves ==
  ASSUME SockTypes, Owned, Packets,
         \/ \E o \in Ops : PRequestStop(o) \/ PCancel(o)
         \/ \E s \in Socks : PNewSocket(s) \/ PEndSocket(s)
         \/ PStop \/ PPost \/ PStartScan \/ PEndScan \/ PReturn \/ PReaped
         \/ \E t \in BOOLEAN : PPoll(t)
  PROVE  SockTypes' /\ Owned' /\ Packets'
<1> USE DEF Packets
<1>1. ASSUME NEW o \in Ops, PRequestStop(o) PROVE SockTypes' /\ Owned' /\ Packets'
  <2>1. UNCHANGED sock /\ UNCHANGED kern /\ packets' = packets /\ pc' = pc /\ PWake
        /\ req' = [req EXCEPT ![o].canceled = TRUE]
    BY <1>1, Zenon DEF PRequestStop, Mark
  <2>2. /\ req' \in [Ops -> Request]
        /\ \A p \in Ops : /\ req'[p].code = req[p].code /\ req'[p].fd = req[p].fd
                          /\ req'[p].accepted = req[p].accepted /\ req'[p].st = req[p].st
    BY <2>1, MarkFacts, Zenon
  <2>3. SockTypes' /\ Owned' BY <2>1, <2>2, OwnersKept, Zenon
  <2>4. port' \in Seq(PacketSet) /\ (Posted' = Posted \/ Posted' = Append(Posted, WakePacket))
    BY <2>1, WakePosts, Zenon
  <2> QED BY <2>1, <2>2, <2>3, <2>4, PacketsKept, Zenon
<1>2. ASSUME NEW o \in Ops, PCancel(o) PROVE SockTypes' /\ Owned' /\ Packets'
  <2>1. UNCHANGED sock /\ UNCHANGED kern /\ packets' = packets /\ port' = port /\ pc' = pc
        /\ req' = [req EXCEPT ![o].sent = TRUE]
    BY <1>2, Zenon DEF PCancel
  <2>2. /\ req' \in [Ops -> Request]
        /\ \A p \in Ops : /\ req'[p].code = req[p].code /\ req'[p].fd = req[p].fd
                          /\ req'[p].accepted = req[p].accepted /\ req'[p].st = req[p].st
    BY <2>1, SentFacts, Zenon
  <2>3. SockTypes' /\ Owned' BY <2>1, <2>2, OwnersKept, Zenon
  <2>4. Posted' = Posted BY <2>1, Zenon DEF Posted
  <2> QED BY <2>1, <2>2, <2>3, <2>4, PacketsKept, Zenon
<1>3. ASSUME NEW s \in Socks, PNewSocket(s) \/ PEndSocket(s) PROVE SockTypes' /\ Owned' /\ Packets'
  <2>1. UNCHANGED req /\ UNCHANGED kern /\ packets' = packets /\ port' = port /\ pc' = pc
        /\ sock[s] \in {"closed", "open", "bound"}
    BY <1>3, Zenon DEF PNewSocket, PEndSocket, Listen, Bind, Close
  <2>2. PICK v \in {"closed", "open", "bound"} : sock' = [sock EXCEPT ![s] = v]
    BY <1>3, Zenon DEF PNewSocket, PEndSocket, Listen, Bind, Close
  <2>3. SockTypes' /\ Owned' BY <2>1, <2>2, SocketOwns, Zenon
  <2>4. Posted' = Posted BY <2>1, Zenon DEF Posted
  <2> QED BY <2>1, <2>3, <2>4, PacketsKept, Zenon
<1>4. ASSUME req' = req, sock' = sock PROVE SockTypes' /\ Owned'
  BY <1>4, OwnersKept, Zenon DEF SockTypes
<1>5. ASSUME PStop \/ PPost PROVE SockTypes' /\ Owned' /\ Packets'
  <2>1. req' = req /\ sock' = sock /\ UNCHANGED kern /\ packets' = packets /\ pc' = pc /\ PWake
    BY <1>5, Zenon DEF PStop, MarkAll, PPost, base
  <2>2. port' \in Seq(PacketSet) /\ (Posted' = Posted \/ Posted' = Append(Posted, WakePacket))
    BY <2>1, WakePosts, Zenon
  <2> QED BY <1>4, <2>1, <2>2, PacketsKept, Zenon
<1>6. ASSUME PStartScan \/ PEndScan \/ PReaped \/ \E t \in BOOLEAN : PPoll(t)
      PROVE  SockTypes' /\ Owned' /\ Packets'
  <2>1. req' = req /\ sock' = sock /\ UNCHANGED kern /\ packets' = packets /\ port' = port
        /\ packets = <<>>
    BY <1>6, Zenon DEF PStartScan, Expire, PEndScan, Scanned, PReaped, PPoll
  <2>2. Posted' = Posted BY <2>1, Zenon DEF Posted
  <2> QED BY <1>4, <2>1, <2>2, PacketsKept, Zenon
<1>7. ASSUME PReturn PROVE SockTypes' /\ Owned' /\ Packets'
  <2>1. req' = req /\ sock' = sock /\ UNCHANGED kern /\ pc' = "reap" /\ packets = <<>>
        /\ packets' = SubSeq(port, 1, Taken) /\ port' = SubSeq(port, Taken + 1, Len(port))
    BY <1>7, Zenon DEF PReturn
  <2>2. Taken \in 0..Len(port)
    <3>1. \A n \in Nat : (IF n <= Peek THEN n ELSE Peek) \in 0..n BY PeekPositive
    <3> QED BY <3>1 DEF Taken
  <2>3. /\ packets' \in Seq(PacketSet) /\ port' \in Seq(PacketSet) /\ packets' \o port' = port
    BY <2>1, <2>2, SplitFacts, Zenon
  <2>4. Posted = port BY <2>1, QueueFacts, Zenon DEF Posted
  <2>5. Posted' = Posted BY <2>3, <2>4, Zenon DEF Posted
  <2> QED BY <1>4, <2>1, <2>3, <2>5, PacketsKept, Zenon
<1> QED BY <1>1, <1>2, <1>3, <1>5, <1>6, <1>7, Zenon

\* The system ends a request: a packet for it takes the system's place.
LEMMA IocpFinishes ==
  ASSUME SockTypes, Owned, Packets,
         NEW o \in Ops, NEW r \in {"ok", "error", "aborted"}, Finish(o, r)
  PROVE  SockTypes' /\ Owned' /\ Packets'
<1> USE DEF Packets
<1>1. /\ o \in kern /\ kern' = kern \ {o} /\ port' = Append(port, Packet(o, r)) /\ packets' = packets
      /\ req' = req /\ sock' = sock /\ pc' = pc
  BY Zenon DEF Finish, base
<1>2. SockTypes' /\ Owned' BY <1>1, OwnersKept, Zenon DEF SockTypes
<1>3. Packet(o, r) \in PacketSet /\ Packet(o, r).op = o /\ o # None BY PacketFacts, Zenon
<1>4. port' \in Seq(PacketSet) BY <1>1, <1>3, QueueFacts, Zenon
<1>5. Posted \in Seq(PacketSet) /\ Posted' = Append(Posted, Packet(o, r))
  BY <1>1, <1>3, QueueFacts DEF Posted
<1>6. Once(Posted') /\ \A p \in Ops : Named(Posted', p) <=> Named(Posted, p) \/ p = o
  BY <1>1, <1>3, <1>5, PostFacts, Zenon
<1>7. Packets' BY <1>1, <1>4, <1>6, Zenon DEF Once, Named
<1> QED BY <1>2, <1>7, Zenon

\* A request begins: pending, with the system or its packet, or refused.
LEMMA IocpStarts ==
  ASSUME SockTypes, Owned, Packets,
         NEW o \in Ops, NEW c \in Opcodes, NEW s \in Socks \cup {None}, PStart(o, c, s)
  PROVE  SockTypes' /\ Owned' /\ Packets'
<1> USE DEF Packets
<1>1. Startable(o, c, s) /\ packets' = packets /\ req[o].st = "free"
  BY Zenon DEF PStart, Queue, Refuse, PNothing, Startable
<1>2. o \notin kern /\ ~Named(Posted, o) BY <1>1, Zenon
<1>3. Posted \in Seq(PacketSet) BY QueueFacts, Zenon DEF Posted
<1>4. PICK r \in {"none", "ok", "error"}, a \in Unused \cup {None} :
        /\ Begin(o, c, s, r, a) /\ (a # None => c = "accept")
        /\ r = "none" <=> Queue(o, c, s)
        /\ r # "none" => kern' = kern /\ port' = port
  <2>1. \A a \in PAccepts(c) : a \in Unused \cup {None} /\ (a # None => c = "accept")
    BY NoneIsNothing, Zenon DEF PAccepts, Unused
  <2>2. CASE Queue(o, c, s)
    <3>1. PICK a \in PAccepts(c) : Begin(o, c, s, "none", a) BY <2>2, Zenon DEF Queue
    <3>2. Begin(o, c, s, "none", a) BY <3>1, Zenon
    <3> QED BY <2>1, <2>2, <3>2, Zenon
  <2>3. CASE ~Queue(o, c, s) /\ Refuse(o, c, s)
    <3>1. PICK a \in PAccepts(c), r \in {"ok", "error"} : Begin(o, c, s, r, a) BY <2>3, Zenon DEF Refuse
    <3>2. Begin(o, c, s, r, a) BY <3>1, Zenon
    <3> QED BY <2>1, <2>3, <3>2, Zenon DEF Refuse
  <2>4. CASE ~Queue(o, c, s) /\ PNothing(o, c, s)
    <3>1. Begin(o, c, s, "ok", None) BY <2>4, Zenon DEF PNothing
    <3>2. Begin(o, c, s, "ok", None) BY <3>1, Zenon
    <3> QED BY <2>4, <3>2, Zenon DEF PNothing
  <2> QED BY <2>2, <2>3, <2>4, Zenon DEF PStart
<1>5. /\ SockTypes' /\ Owned' /\ \A p \in Ops : p # o => req'[p] = req[p]
      /\ req'[o].st = IF r = "none" THEN "pending" ELSE "ready"
  BY <1>1, <1>4, BeginOwns
<1>6. pc' = pc BY <1>4, Zenon DEF Begin
<1>7. CASE r # "none"
  <2>1. Posted' = Posted BY <1>1, <1>4, <1>7, Zenon DEF Posted
  <2>2. \A p \in Ops : req'[p].st = "pending" <=> req[p].st = "pending" BY <1>1, <1>5, <1>7, Zenon
  <2> QED BY <1>1, <1>4, <1>5, <1>6, <1>7, <2>1, <2>2, PacketsKept, Zenon
<1>8. CASE r = "none" /\ kern' = kern \cup {o} /\ port' = port
  <2>1. Posted' = Posted BY <1>1, <1>8, Zenon DEF Posted
  <2>2. Packets' BY <1>1, <1>2, <1>5, <1>6, <1>8, <2>1 DEF Once, Named
  <2> QED BY <1>5, <2>2, Zenon
<1>9. CASE r = "none" /\ kern' = kern /\ port' = Append(port, Packet(o, "ok"))
  <2>1. Packet(o, "ok") \in PacketSet /\ Packet(o, "ok").op = o /\ o # None BY PacketFacts, Zenon
  <2>2. port' \in Seq(PacketSet) BY <1>9, <2>1, QueueFacts, Zenon
  <2>3. Posted' = Append(Posted, Packet(o, "ok")) BY <1>1, <1>9, <2>1, QueueFacts, SMTT(30) DEF Posted
  <2>4. Once(Posted') /\ \A p \in Ops : Named(Posted', p) <=> Named(Posted, p) \/ p = o
    BY <1>2, <1>3, <2>1, <2>3, PostFacts, Zenon
  <2>5. Packets' BY <1>1, <1>2, <1>5, <1>6, <1>9, <2>2, <2>4 DEF Once, Named
  <2> QED BY <1>5, <2>5, Zenon
<1> QED BY <1>4, <1>7, <1>8, <1>9, Zenon DEF Queue

\* The coroutine goes on: its request was not pending.
LEMMA IocpResumes ==
  ASSUME SockTypes, Owned, Packets, NEW o \in Ops, PResume(o)
  PROVE  SockTypes' /\ Owned' /\ Packets'
<1>1. Release(o) /\ UNCHANGED kern /\ packets' = packets /\ port' = port BY Zenon DEF PResume
<1>2. /\ SockTypes' /\ Owned' /\ \A p \in Ops : p # o => req'[p] = req[p]
      /\ req'[o].st = "free" /\ req[o].st = "ready"
  BY <1>1, ReleaseOwns, Zenon
<1>3. \A p \in Ops : req'[p].st = "pending" <=> req[p].st = "pending" BY <1>2, Zenon
<1>4. Posted' = Posted /\ pc' = pc BY <1>1, Zenon DEF Posted, Release
<1> QED BY <1>1, <1>2, <1>3, <1>4, PacketsKept, Zenon DEF Packets

\* A packet is handled: its request, which no other packet names, is completed.
LEMMA IocpHandles ==
  ASSUME SockTypes, Owned, Packets, PHandle
  PROVE  SockTypes' /\ Owned' /\ Packets'
<1> USE DEF Packets
<1> DEFINE h == Head(packets)
<1>1. packets # <<>> /\ packets' = Tail(packets) /\ kern' = kern /\ port' = port /\ pc' = pc /\ pc = "reap"
  BY Zenon DEF PHandle
<1>2. h \in PacketSet /\ packets' \in Seq(PacketSet) BY <1>1, QueueFacts, Zenon
<1>3. /\ Posted \in Seq(PacketSet) /\ Posted # <<>> /\ Head(Posted) = h /\ Posted' = Tail(Posted)
  BY <1>1, QueueFacts, SMTT(30) DEF Posted
<1>4. Once(Posted') /\ \A o \in Ops : Named(Posted', o) <=> Named(Posted, o) /\ o # h.op
  BY <1>3, TakeFacts, NoneIsNothing, Zenon
<1>5. CASE h = WakePacket
  <2>1. req' = req /\ sock' = sock BY <1>5, Zenon DEF PHandle
  <2>2. SockTypes' /\ Owned' BY <2>1, OwnersKept, Zenon DEF SockTypes
  <2>3. \A o \in Ops : o # h.op BY <1>5, PacketFacts, NoneIsNothing, Zenon
  <2>4. Packets' BY <1>1, <1>2, <1>4, <2>1, <2>3, Zenon DEF Once, Named
  <2> QED BY <2>2, <2>4, Zenon
<1>6. CASE h # WakePacket
  <2>1. PICK o \in Ops : o = h.op BY <1>2, <1>6, PacketFacts, Zenon
  <2>2. h.status \in {"ok", "error", "aborted"} BY <1>2, <1>6, PacketFacts, Zenon
  <2>3. PICK r \in {"ok", "error", "canceled"} : Complete(o, r, req[o].accepted)
    <3>1. \A c : Outcomes(c, h.status) \subseteq {"ok", "error", "canceled"} BY Zenon DEF Outcomes
    <3> QED BY <1>6, <2>1, <3>1, Zenon DEF PHandle
  <2>4. Named(Posted, o)
    <3>1. Posted[1] = h /\ 1 \in DOMAIN Posted BY <1>3
    <3> QED BY <2>1, <3>1, Zenon DEF Named
  <2>5. req[o].st = "pending" /\ Used(o) /\ o \notin kern BY <2>4, Zenon DEF Used
  <2>6. PICK a \in Socks \cup {None} : a = req[o].accepted BY RequestFields, Zenon
  <2>7. Complete(o, r, a) BY <2>3, <2>6, Zenon
  <2>8. /\ SockTypes' /\ Owned' /\ \A p \in Ops : p # o => req'[p] = req[p]
        /\ req'[o] = Ended(req[o], r, a, req[o].sent)
    BY <2>5, <2>6, <2>7, CompletesOwn, Zenon
  <2>9. req'[o].st = "ready" BY <2>8 DEF Ended
  <2>10. Packets' BY <1>1, <1>2, <1>4, <2>1, <2>5, <2>8, <2>9, SMTT(30) DEF Once, Named
  <2> QED BY <2>8, <2>10, Zenon
<1> QED BY <1>5, <1>6, Zenon

\* Every step of a loop on a completion port.
LEMMA IocpStep ==
  ASSUME SockTypes, Owned, Packets, PNext
  PROVE  SockTypes' /\ Owned' /\ Packets'
<1>1. CASE \E o \in Ops, r \in {"ok", "error", "aborted"} : Finish(o, r) BY <1>1, IocpFinishes, Zenon
<1>2. CASE \E o \in Ops, c \in Opcodes, s \in Socks \cup {None} : PStart(o, c, s)
  BY <1>2, IocpStarts, Zenon
<1>3. CASE \E o \in Ops : PResume(o) BY <1>3, IocpResumes, Zenon
<1>4. CASE PHandle BY <1>4, IocpHandles, Zenon
<1>5. CASE \/ \E o \in Ops : PRequestStop(o) \/ PCancel(o)
           \/ \E s \in Socks : PNewSocket(s) \/ PEndSocket(s)
           \/ PStop \/ PPost \/ PStartScan \/ PEndScan \/ PReturn \/ PReaped
           \/ \E t \in BOOLEAN : PPoll(t)
  BY <1>5, IocpMoves, Zenon
<1> QED BY <1>1, <1>2, <1>3, <1>4, <1>5, Zenon DEF PNext
-----------------------------------------------------------------------------
\* What the invariant says, as one formula.
PSound == SockTypes /\ Owned /\ Packets

\* Nothing is on the port when a loop is made.
LEMMA IocpInit ==
  ASSUME PInit
  PROVE  PSound
<1>1. RequestsInit /\ kern = {} /\ port = <<>> /\ packets = <<>> BY Zenon DEF PInit
<1>2. SockTypes /\ Owned /\ \A o \in Ops : req[o].st = "free" BY <1>1, RequestsStart, Zenon
<1>3. Packets
  <2>1. Posted = <<>> BY <1>1 DEF Posted
  <2>2. Once(Posted) /\ \A o : ~Named(Posted, o) BY <2>1 DEF Once, Named
  <2> QED BY <1>1, <1>2, <2>2 DEF Packets
<1> QED BY <1>2, <1>3, Zenon DEF PSound

\* Nothing that the invariant is about changes.
LEMMA IocpStutter ==
  ASSUME PSound, UNCHANGED vars
  PROVE  PSound'
<1>1. UNCHANGED <<req, busy, sock, todo, pc, kern, port, packets>> BY Zenon DEF vars, base, iocpOnly
<1>2. SockTypes' /\ Owned' BY <1>1, OwnersKept, Zenon DEF PSound, SockTypes
<1>3. Posted' = Posted BY <1>1, Zenon DEF Posted
<1>4. Packets' BY <1>1, <1>3, PacketsKept, Zenon DEF PSound, Packets
<1> QED BY <1>2, <1>4, Zenon DEF PSound

\* A pending request has exactly one source of completion and any other none: the system,
\* or one packet on the port or in poll's batch (submit: "never resume it twice").
LEMMA IocpSourcesUnique == PSound => POneSource
<1>1. SUFFICES ASSUME PSound, NEW o \in Ops
               PROVE  IF o \in Pending THEN \E x : PSources(o) = {x} ELSE PSources(o) = {}
  BY Zenon DEF POneSource
<1>2. o \in Pending <=> req[o].st = "pending" BY Zenon DEF Pending
<1>3. o # None BY NoneIsNothing, Zenon
<1> DEFINE working == {o} \cap kern
           named == {i \in DOMAIN Posted : Posted[i].op = o}
<1>4. Packets BY <1>1, Zenon DEF PSound
<1>5. PSources(o) = ({"system"} \X working) \cup ({"packet"} \X named) BY Zenon DEF PSources, Posted
<1>6. Named(Posted, o) <=> named # {} BY Zenon DEF Named
<1>7. \A i, j : i \in named /\ j \in named => i = j BY <1>3, <1>4, Zenon DEF Packets, Once
<1>8. working = IF o \in kern THEN {o} ELSE {} BY Zenon
<1> HIDE DEF working, named
<1>9. CASE o \in kern
  <2>1. named = {} /\ o \in Pending BY <1>2, <1>4, <1>6, <1>9, Zenon DEF Packets
  <2>2. PSources(o) = {<<"system", o>>} BY <1>5, <1>8, <1>9, <2>1
  <2> QED BY <2>1, <2>2, Zenon
<1>10. CASE o \notin kern /\ named # {}
  <2>1. PICK i : named = {i} BY <1>7, <1>10, Zenon
  <2>2. o \in Pending BY <1>2, <1>4, <1>6, <1>10, Zenon DEF Packets
  <2>3. PSources(o) = {<<"packet", i>>} BY <1>5, <1>8, <1>10, <2>1
  <2> QED BY <2>2, <2>3, Zenon
<1>11. CASE o \notin kern /\ named = {}
  <2>1. o \notin Pending BY <1>2, <1>4, <1>6, <1>11, Zenon DEF Packets
  <2>2. PSources(o) = {} BY <1>5, <1>8, <1>11, Zenon
  <2> QED BY <2>1, <2>2, Zenon
<1> QED BY <1>9, <1>10, <1>11, Zenon
-----------------------------------------------------------------------------
\* Kqueue.

\* The requests that use a filter, and which.
Filtered(o) == Used(o) /\ req[o].code \notin {"nop", "file"}
Filter(o) == Key(req[o].code, req[o].fd)

\* On kqueue: a direction that is in use is marked busy (or belongs to a connect) and its
\* descriptor stays open, so that no other request can take its filter over.
Reserved ==
  /\ \A o \in Ops : Filtered(o) =>
       /\ req[o].fd \in Socks
       /\ req[o].code # "connect" => Filter(o) \in busy /\ sock[req[o].fd] \in {"open", "bound"}
  /\ \A o, p \in Ops : Filtered(o) /\ Filtered(p) /\ Filter(o) = Filter(p) => o = p
  /\ \A o \in Ops : req[o].st = "pending" => Filtered(o) /\ req[o].accepted = None

\* A filter is registered for the pending request it names; an event that poll has taken
\* has unregistered its filter; and a pending request has the one or the other.
Filters ==
  /\ knote \in [Keys -> Ops \cup {None}] /\ batch \in SUBSET (Keys \X Ops)
  /\ \A k \in Keys : knote[k] # None => req[knote[k]].st = "pending" /\ Filter(knote[k]) = k
  /\ \A k \in Keys, o \in Ops : <<k, o>> \in batch =>
       req[o].st = "pending" /\ Filter(o) = k /\ knote[k] = None
  /\ \A o \in Ops : req[o].st = "pending" => knote[Filter(o)] = o \/ <<Filter(o), o>> \in batch
  /\ \A k \in active : k # User => k \in Keys /\ knote[k] # None

\* The scan looks only at pending requests; events are handled before anything else.
Scans ==
  /\ todo \subseteq Pending /\ (pc # "scan" => todo = {})
  /\ pc # "reap" => batch = {}

\* A connection attempt that has fired is over and stays over.
Attempts ==
  /\ \A k \in active : k # User /\ sock[k[1]] = "dialing" => k \in ready
  /\ \A k \in Keys, o \in Ops : <<k, o>> \in batch /\ req[o].code = "connect" => k \in ready
  /\ \A o \in Ops : req[o].st = "ready" /\ req[o].code = "connect" /\ req[o].outcome = "ok"
       => Filter(o) \in ready

KqueueInv == Reserved /\ Filters /\ Scans /\ Attempts
-----------------------------------------------------------------------------
\* What a filtered request says about its descriptor.
LEMMA FilterFacts ==
  ASSUME SockTypes, Owned, Reserved, NEW o \in Ops, Filtered(o)
  PROVE  /\ Filter(o) \in Keys /\ Filter(o) = <<req[o].fd, Direction(req[o].code)>>
         /\ req[o].fd \in Socks /\ sock[req[o].fd] \in {"open", "bound", "dialing"}
         /\ req[o].code = "connect" => sock[req[o].fd] = "dialing" /\ Filter(o) = <<req[o].fd, "out">>
         /\ req[o].code # "connect" => sock[req[o].fd] \in {"open", "bound"} /\ Filter(o) \in busy
<1>1. req[o].fd \in Socks BY Zenon DEF Reserved
<1>2. req[o].code = "connect" => sock[req[o].fd] = "dialing"
  BY <1>1, Zenon DEF Owned, Dials, Filtered
<1> QED BY <1>1, <1>2, Zenon DEF Reserved, Filter, Key, Keys, Direction

\* A step that leaves the filters, the descriptors and what the requests are for alone:
\* the wake event, a mark on a request, the moves of the loop.
LEMMA KqueueQuiet ==
  ASSUME SockTypes, Owned, KqueueInv, UNCHANGED <<sock, busy, ready, knote, batch>>,
         req' \in [Ops -> Request],
         \A o \in Ops : /\ req'[o].code = req[o].code /\ req'[o].fd = req[o].fd
                        /\ req'[o].accepted = req[o].accepted /\ req'[o].outcome = req[o].outcome
                        /\ req'[o].st = req[o].st,
         active' \subseteq active \cup {User},
         todo' \subseteq Pending, pc' # "scan" => todo' = {}, pc' # "reap" => batch = {}
  PROVE  SockTypes' /\ Owned' /\ KqueueInv'
<1>1. SockTypes' /\ Owned' BY OwnersKept, Zenon
<1>2. \A o \in Ops : (Filtered(o)' <=> Filtered(o)) /\ Filter(o)' = Filter(o)
  BY Zenon DEF Filtered, Used, Filter, Key, Direction
<1>3. Reserved' BY <1>2, Zenon DEF KqueueInv, Reserved
<1>4. Filters'
  <2>1. knote' \in [Keys -> Ops \cup {None}] /\ batch' \in SUBSET (Keys \X Ops) BY Zenon DEF KqueueInv, Filters
  <2>2. \A k \in Keys : knote'[k] # None => req'[knote'[k]].st = "pending" /\ Filter(knote[k])' = k
    <3>1. ASSUME NEW k \in Keys, knote[k] # None PROVE req'[knote[k]].st = "pending" /\ Filter(knote[k])' = k
      <4>1. PICK o \in Ops : o = knote[k] BY <2>1, <3>1, Zenon
      <4>2. req[o].st = "pending" /\ Filter(o) = k BY <3>1, <4>1, Zenon DEF KqueueInv, Filters
      <4>3. Filter(knote[k])' = Filter(o)' BY <4>1, Zenon DEF Filter
      <4> QED BY <1>2, <4>1, <4>2, <4>3, Zenon
    <3> QED BY <3>1, Zenon
  <2>3. \A k \in Keys, o \in Ops : <<k, o>> \in batch' =>
           req'[o].st = "pending" /\ Filter(o)' = k /\ knote'[k] = None
    BY <1>2 DEF KqueueInv, Filters
  <2>4. \A o \in Ops : req'[o].st = "pending" => knote'[Filter(o)'] = o \/ <<Filter(o)', o>> \in batch'
    BY <1>2, Zenon DEF KqueueInv, Filters
  <2>5. \A k \in active' : k # User => k \in Keys /\ knote'[k] # None
    BY Zenon DEF KqueueInv, Filters
  <2>6. User' = User BY Zenon DEF User
  <2> QED BY <2>1, <2>2, <2>3, <2>4, <2>5, <2>6, Zenon DEF Filters
<1>5. Scans' BY Zenon DEF Scans, Pending
<1>6. Attempts'
  <2>1. User' = User BY Zenon DEF User
  <2> QED BY <1>2, <2>1, Zenon DEF KqueueInv, Attempts
<1> QED BY <1>1, <1>3, <1>4, <1>5, <1>6, Zenon DEF KqueueInv

\* The kernel on its own: it gets ready, is no longer ready, or fires a filter.
LEMMA KernelKeeps ==
  ASSUME SockTypes, Owned, KqueueInv, NEW k \in Keys,
         Arrive(k) \/ Vanish(k) \/ Fire(k)
  PROVE  SockTypes' /\ Owned' /\ KqueueInv'
<1>1. UNCHANGED <<req, sock, busy, knote, batch, todo, pc>>
  BY Zenon DEF Arrive, Vanish, Fire, base
<1>2. SockTypes' /\ Owned'
  BY <1>1, OwnersKept, Zenon DEF SockTypes
<1>3. \A o \in Ops : (Filtered(o)' <=> Filtered(o)) /\ Filter(o)' = Filter(o)
  BY <1>1, Zenon DEF Filtered, Used, Filter, Key, Direction
<1>4. Reserved' BY <1>1, <1>3 DEF KqueueInv, Reserved
<1>5. User' = User BY Zenon DEF User
<1>6. \A x \in active' : x \in active \/ (x = k /\ knote[k] # None /\ k \in ready)
  BY Zenon DEF Arrive, Vanish, Fire
<1>7. Filters' BY <1>1, <1>3, <1>5, <1>6 DEF KqueueInv, Filters
<1>8. Scans' BY <1>1, Zenon DEF KqueueInv, Scans, Pending
<1>9. \A x \in Keys : x \in ready => x \in ready' \/ sock[x[1]] \in {"open", "bound"}
  BY Zenon DEF Arrive, Vanish, Fire
<1>10. \A x \in Keys : x \in ready /\ sock[x[1]] = "dialing" => x \in ready'
  BY <1>9, Zenon
<1>11. Attempts'
  <2>1. \A x \in active' : x # User /\ sock[x[1]] = "dialing" => x \in ready'
    BY <1>6, <1>10 DEF KqueueInv, Attempts, Filters
  <2>2. \A o \in Ops : Used(o) /\ req[o].code = "connect" => sock[Filter(o)[1]] = "dialing" /\ Filter(o) \in Keys
    BY FilterFacts DEF KqueueInv, Filtered
  <2>3. \A x \in Keys, o \in Ops : <<x, o>> \in batch /\ req[o].code = "connect" => x \in ready'
    BY <1>10, <2>2 DEF KqueueInv, Attempts, Filters, Used
  <2>4. \A o \in Ops : req[o].st = "ready" /\ req[o].code = "connect" /\ req[o].outcome = "ok"
          => Filter(o) \in ready'
    BY <1>10, <2>2, Zenon DEF KqueueInv, Attempts, Used
  <2> QED BY <1>1, <1>3, <1>5, <2>1, <2>3, <2>4, Zenon DEF Attempts
<1> QED BY <1>2, <1>4, <1>7, <1>8, <1>11, Zenon DEF KqueueInv

\* A request begins: no other request has its filter, whose direction was free.
LEMMA KqueueBegins ==
  ASSUME SockTypes, Owned, KqueueInv, UNCHANGED <<active, batch>>,
         NEW o \in Ops, NEW c \in Opcodes, NEW s \in Socks \cup {None},
         NEW r \in {"none", "ok", "error"}, NEW a \in Unused \cup {None}, a # None => c = "accept",
         Startable(o, c, s), Begin(o, c, s, r, a),
         r = "none" => a = None /\ c \notin {"nop", "file"} /\ knote' = [knote EXCEPT ![Key(c, s)] = o],
         r # "none" => knote' = knote,
         \A k \in ready : k \in ready', c = "connect" /\ r = "ok" => Key(c, s) \in ready'
  PROVE  SockTypes' /\ Owned' /\ KqueueInv'
<1>0. USE DEF KqueueInv
<1>1. /\ SockTypes' /\ Owned'
      /\ \A p \in Ops : p # o => req'[p] = req[p]
      /\ req'[o].st = IF r = "none" THEN "pending" ELSE "ready"
      /\ req'[o].code = c /\ req'[o].fd = s /\ req'[o].accepted = a /\ req'[o].outcome = r
  BY BeginOwns
<1>2. /\ req[o].st = "free" /\ pc = "run" /\ pc' = pc /\ todo' = todo /\ busy' = busy \cup Slots(c, s)
      /\ batch = {} /\ todo = {}
  BY Zenon DEF Startable, Begin, Scans
<1>3. c \notin {"nop", "file"} => s \in Socks /\ Key(c, s) \in Keys
  BY Zenon DEF Startable, Key, Keys, Direction
<1>4. c \notin {"nop", "file", "connect"} =>
        sock[s] \in {"open", "bound"} /\ Key(c, s) \notin busy /\ Key(c, s) \in busy'
  BY <1>2, Zenon DEF Startable, Slots, Opcodes, Datagram
<1>5. c = "connect" => sock[s] = "closed" BY Zenon DEF Startable
<1>6. \A p \in Ops : p # o => /\ Used(p)' <=> Used(p)
                              /\ Filtered(p)' <=> Filtered(p)
                              /\ Filter(p)' = Filter(p)
  BY <1>1, Zenon DEF Used, Filtered, Filter, Key, Direction
<1>7. Filter(o)' = Key(c, s) /\ (Filtered(o)' <=> c \notin {"nop", "file"}) /\ ~Filtered(o)
  BY <1>1, <1>2, Zenon DEF Filter, Filtered, Used, Key, Direction
<1>8. ASSUME NEW p \in Ops, p # o, Filtered(p), c \notin {"nop", "file"} PROVE Filter(p) # Key(c, s)
  <2>1. SUFFICES ASSUME Filter(p) = Key(c, s) PROVE FALSE BY Zenon
  <2>2. req[p].fd = s BY <1>8, <2>1, FilterFacts DEF Key
  <2>3. sock[s] \in {"open", "bound", "dialing"} /\ (req[p].code = "connect" => sock[s] = "dialing")
    BY <1>8, <2>2, FilterFacts, Zenon
  <2>4. c # "connect" BY <1>5, <2>3, Zenon
  <2>5. req[p].code # "connect" BY <1>4, <1>8, <2>3, <2>4, Zenon
  <2> QED BY <1>4, <1>8, <2>1, <2>4, <2>5, FilterFacts, Zenon
<1>9. \A p \in Ops : p # o /\ Filtered(p) => sock'[req[p].fd] = sock[req[p].fd]
  <2>1. \A x \in Socks : sock[x] # "closed" => sock'[x] = sock[x]
    BY <1>5, NoneIsNothing, Zenon DEF Begin, Unused
  <2> QED BY <2>1, FilterFacts, Zenon
<1>10. Reserved'
  <2>1. ASSUME NEW p \in Ops, Filtered(p)'
        PROVE  /\ req'[p].fd \in Socks
               /\ req'[p].code # "connect" => Filter(p)' \in busy' /\ sock'[req'[p].fd] \in {"open", "bound"}
    <3>1. CASE p = o
      <4>1. sock[s] \in {"open", "bound"} => sock'[s] \in {"open", "bound"}
        <5>1. sock[s] \in {"open", "bound"} => c # "connect" /\ s # a
          BY <1>5, <1>3, <1>7, <2>1, <3>1, NoneIsNothing, Zenon DEF Unused
        <5> QED BY <1>3, <1>7, <2>1, <3>1, <5>1, Zenon DEF Begin
      <4> QED BY <1>1, <1>3, <1>4, <1>7, <2>1, <3>1, <4>1, Zenon
    <3>2. CASE p # o
      BY <1>1, <1>2, <1>6, <1>9, <2>1, <3>2, ZenonT(40) DEF Reserved
    <3> QED BY <3>1, <3>2, Zenon
  <2>2. \A p, q \in Ops : Filtered(p)' /\ Filtered(q)' /\ Filter(p)' = Filter(q)' => p = q
    BY <1>6, <1>7, <1>8, Zenon DEF Reserved
  <2>3. \A p \in Ops : req'[p].st = "pending" => Filtered(p)' /\ req'[p].accepted = None
    BY <1>1, <1>6, <1>7, Zenon DEF Reserved
  <2> QED BY <2>1, <2>2, <2>3, Zenon DEF Reserved
<1>11. r = "none" => knote[Key(c, s)] = None
  BY <1>3, <1>7, <1>8, Zenon DEF Filters, Reserved
<1>12. \A k \in Keys : knote'[k] = IF r = "none" /\ k = Key(c, s) THEN o ELSE knote[k]
  BY Zenon DEF Filters
<1>13. \A k \in Keys : knote[k] # None => knote[k] \in Ops /\ knote[k] # o
  BY <1>2, Zenon DEF Filters
<1>14. Filters'
  <2>1. knote' \in [Keys -> Ops \cup {None}] BY DEF Filters
  <2>2. ASSUME NEW k \in Keys, knote'[k] # None
        PROVE  req'[knote'[k]].st = "pending" /\ Filter(knote[k])' = k
    <3>1. PICK p \in Ops : p = knote'[k] BY <2>1, <2>2, Zenon
    <3>2. Filter(knote[k])' = Filter(p)' BY <3>1, Zenon DEF Filter
    <3>3. CASE p = o
      <4>1. r = "none" /\ k = Key(c, s) BY <1>12, <1>13, <3>1, <3>3, <2>2, Zenon
      <4> QED BY <1>1, <1>7, <3>1, <3>2, <3>3, <4>1, Zenon
    <3>4. CASE p # o
      <4>1. req[p].st = "pending" /\ Filter(p) = k BY <1>12, <3>1, <3>4, <2>2, Zenon DEF Filters
      <4> QED BY <1>1, <1>6, <3>1, <3>2, <3>4, <4>1, Zenon
    <3> QED BY <3>3, <3>4, Zenon
  <2>3. \A p \in Ops : req'[p].st = "pending" => knote'[Filter(p)'] = p
    <3>1. ASSUME NEW p \in Ops, req'[p].st = "pending", p # o PROVE knote'[Filter(p)'] = p
      <4>1. Filtered(p) /\ knote[Filter(p)] = p BY <1>1, <1>2, <3>1, Zenon DEF Filters, Reserved
      <4>2. Filter(p) \in Keys BY <4>1, FilterFacts, Zenon
      <4> QED BY <1>6, <1>8, <1>12, <3>1, <4>1, <4>2, Zenon
    <3> QED BY <1>1, <1>3, <1>7, <1>12, <3>1, Zenon
  <2>4. \A k \in active : k # User => k \in Keys /\ knote'[k] # None
    BY <1>11, <1>12, Zenon DEF Filters
  <2>5. User' = User BY Zenon DEF User
  <2> QED BY <1>2, <2>1, <2>2, <2>3, <2>4, <2>5, Zenon DEF Filters
<1>15. Scans' BY <1>2, Zenon DEF Scans
<1>16. Attempts'
  <2>1. ASSUME NEW k \in active, k # User, sock'[k[1]] = "dialing" PROVE k \in ready'
    <3>1. PICK p \in Ops : p = knote[k] /\ k \in Keys /\ req[p].st = "pending" /\ Filter(p) = k /\ p # o
      BY <1>13, <2>1, Zenon DEF Filters
    <3>2. Filtered(p) /\ k[1] = req[p].fd BY <3>1, FilterFacts DEF Reserved
    <3> QED BY <1>9, <2>1, <3>1, <3>2, Zenon DEF Attempts
  <2>2. \A p \in Ops : req'[p].st = "ready" /\ req'[p].code = "connect" /\ req'[p].outcome = "ok"
          => Filter(p)' \in ready'
    BY <1>1, <1>6, <1>7, Zenon DEF Attempts
  <2>3. User' = User BY Zenon DEF User
  <2> QED BY <1>2, <2>1, <2>2, <2>3, Zenon DEF Attempts
<1> QED BY <1>1, <1>10, <1>14, <1>15, <1>16, Zenon

\* A step in which requests may end and descriptors be closed, and the kernel drops what it
\* has for those: no request still uses one of them.
LEMMA DropKeeps ==
  ASSUME SockTypes, Owned, KqueueInv, SockTypes', Owned', Drop, UNCHANGED <<batch, todo, pc>>, pc = "run",
         \A p \in Ops : req'[p] = req[p] \/ (req[p].st = "ready" /\ req'[p].st = "free"),
         \A p \in Ops : Filtered(p)' => sock'[req[p].fd] # "closed"
  PROVE  Filters' /\ Scans' /\ Attempts'
<1>0. USE DEF KqueueInv
<1>1. batch = {} /\ todo = {} BY Zenon DEF Scans
<1>2. User' = User BY Zenon DEF User
<1>3. /\ ready' = {k \in ready : sock'[k[1]] # "closed"}
      /\ knote' = [k \in Keys |-> IF sock'[k[1]] = "closed" THEN None ELSE knote[k]]
      /\ active' = {k \in active : k = User \/ sock'[k[1]] # "closed"}
  BY <1>2, Zenon DEF Drop
<1>4. \A p \in Ops : Used(p)' => /\ req'[p] = req[p] /\ Used(p) /\ (Filtered(p)' <=> Filtered(p))
                                 /\ Filter(p)' = Filter(p)
  BY Zenon DEF Used, Filtered, Filter, Key, Direction
<1>5. \A p \in Ops : Filtered(p)' => /\ Filter(p) \in Keys /\ sock'[Filter(p)[1]] # "closed"
                                     /\ Filtered(p) /\ Used(p)'
  BY <1>4, FilterFacts DEF Filtered, Used
<1>6. \A p \in Ops : req[p].st = "pending" => req'[p] = req[p] /\ req'[p].st = "pending" /\ Filtered(p)'
  BY <1>4, Zenon DEF Reserved, Used
<1>7. Filters'
  <2>1. knote' \in [Keys -> Ops \cup {None}] BY <1>3, Zenon DEF Filters
  <2>2. ASSUME NEW k \in Keys, knote'[k] # None
        PROVE  req'[knote'[k]].st = "pending" /\ Filter(knote[k])' = k
    <3>1. PICK p \in Ops : p = knote'[k] BY <2>1, <2>2, Zenon
    <3>2. Filter(knote[k])' = Filter(p)' BY <3>1, Zenon DEF Filter
    <3>3. knote[k] = p BY <1>3, <2>2, <3>1, Zenon
    <3>4. req[p].st = "pending" /\ Filter(p) = k BY <3>3, NoneIsNothing, Zenon DEF Filters
    <3> QED BY <1>4, <1>5, <1>6, <3>1, <3>2, <3>4, Zenon
  <2>3. ASSUME NEW p \in Ops, req'[p].st = "pending" PROVE knote'[Filter(p)'] = p
    <3>1. req[p].st = "pending" /\ Filtered(p)' BY <1>6, <2>3, Zenon
    <3>2. knote[Filter(p)] = p BY <1>1, <3>1, Zenon DEF Filters
    <3> QED BY <1>3, <1>4, <1>5, <3>1, <3>2, Zenon
  <2>4. \A k \in active' : k # User => k \in Keys /\ knote'[k] # None
    BY <1>3, Zenon DEF Filters
  <2> QED BY <1>1, <1>2, <2>1, <2>2, <2>3, <2>4, Zenon DEF Filters
<1>8. Scans' BY <1>1, Zenon DEF Scans
<1>9. Attempts'
  <2>1. ASSUME NEW k \in active', k # User, sock'[k[1]] = "dialing" PROVE k \in ready'
    <3>1. PICK p \in Ops : k \in Keys /\ req[p].st = "pending" /\ Filter(p) = k
      BY <1>3, <2>1 DEF Filters
    <3>2. Filtered(p) /\ k[1] = req[p].fd /\ Used(p)' /\ req'[p] = req[p]
      BY <1>5, <1>6, <3>1, FilterFacts
    <3>3. req[p].code = "connect" => sock[k[1]] = "dialing" BY <3>2, FilterFacts, Zenon
    <3>4. sock[k[1]] = "dialing"
      <4>1. k[1] \in Socks BY <3>1, Zenon DEF Keys
      <4>2. PICK q \in Ops : Dials(q, k[1])' BY <2>1, <4>1, Zenon DEF Owned
      <4>3. Dials(q, k[1]) BY <1>4, <4>2, Zenon DEF Dials
      <4> QED BY <4>1, <4>3, Zenon DEF Owned
    <3> QED BY <1>3, <2>1, <3>4, Zenon DEF Attempts
  <2>2. ASSUME NEW p \in Ops, req'[p].st = "ready", req'[p].code = "connect", req'[p].outcome = "ok"
        PROVE  Filter(p)' \in ready'
    <3>1. Used(p)' /\ Filtered(p)' BY <2>2, Zenon DEF Used, Filtered
    <3>2. Filter(p) \in ready BY <1>4, <2>2, <3>1, Zenon DEF Attempts
    <3> QED BY <1>3, <1>4, <1>5, <3>1, <3>2, Zenon
  <2> QED BY <1>1, <1>2, <2>1, <2>2, Zenon DEF Attempts
<1> QED BY <1>7, <1>8, <1>9, Zenon

\* A request is given up, and its descriptor perhaps with it.
LEMMA KqueueResumes ==
  ASSUME SockTypes, Owned, KqueueInv, NEW o \in Ops, KResume(o)
  PROVE  SockTypes' /\ Owned' /\ KqueueInv'
<1>0. USE DEF KqueueInv
<1>1. Release(o) /\ Drop /\ UNCHANGED batch BY Zenon DEF KResume
<1>2. /\ SockTypes' /\ Owned' /\ \A p \in Ops : p # o => req'[p] = req[p]
      /\ req'[o].st = "free" /\ req[o].st = "ready"
      /\ \A x \in Socks : sock'[x] # sock[x] => sock[x] \in {"dialing", "held"}
      /\ \A x \in Socks : sock[x] \in {"dialing", "held"} /\ ~(Dials(o, x) \/ Holds(o, x)) => sock'[x] = sock[x]
  BY <1>1, ReleaseOwns, Zenon
<1>3. UNCHANGED <<todo, pc>> /\ pc = "run" /\ busy' = busy \ Slots(req[o].code, req[o].fd)
  BY <1>1, Zenon DEF Release
<1>4. ASSUME NEW p \in Ops, Filtered(p)'
      PROVE  /\ p # o /\ req'[p] = req[p] /\ Filtered(p) /\ Filter(p)' = Filter(p)
             /\ req[p].fd \in Socks /\ sock'[req[p].fd] = sock[req[p].fd] /\ sock[req[p].fd] # "closed"
  <2>1. p # o /\ req'[p] = req[p] /\ Filtered(p) /\ Filter(p)' = Filter(p)
    BY <1>2, <1>4, Zenon DEF Filtered, Used, Filter, Key, Direction
  <2>2. req[p].fd \in Socks /\ sock[req[p].fd] \in {"open", "bound", "dialing"}
    BY <2>1, FilterFacts, Zenon
  <2>3. CASE req[p].code = "connect"
    <3>1. Dials(p, req[p].fd) /\ sock[req[p].fd] = "dialing" BY <2>1, <2>3, FilterFacts, Zenon DEF Dials, Filtered
    <3>2. ~(Dials(o, req[p].fd) \/ Holds(o, req[p].fd)) BY <2>1, <2>2, <3>1, Zenon DEF Owned
    <3> QED BY <1>2, <2>1, <2>2, <3>1, <3>2, Zenon
  <2>4. CASE req[p].code # "connect"
    <3>1. sock[req[p].fd] \in {"open", "bound"} BY <2>1, <2>4, FilterFacts, Zenon
    <3> QED BY <1>2, <2>1, <2>2, <3>1, Zenon
  <2> QED BY <2>3, <2>4, Zenon
<1>5. Reserved'
  <2>1. ASSUME NEW p \in Ops, Filtered(p)', req[p].code # "connect" PROVE Filter(p) \in busy'
    <3>1. Filter(p) \in busy BY <1>4, <2>1, Zenon DEF Reserved
    <3>2. Filter(p) \notin Slots(req[o].code, req[o].fd)
      <4>1. SUFFICES ASSUME Filter(p) \in Slots(req[o].code, req[o].fd) PROVE FALSE BY Zenon
      <4>2. Filtered(o) /\ Filter(o) = Filter(p)
        BY <1>2, <4>1, Zenon DEF Slots, Filtered, Used, Filter, Datagram
      <4> QED BY <1>4, <2>1, <4>2, Zenon DEF Reserved
    <3> QED BY <1>3, <3>1, <3>2, Zenon
  <2>2. \A p \in Ops : Filtered(p)' =>
          /\ req'[p].fd \in Socks
          /\ req'[p].code # "connect" => Filter(p)' \in busy' /\ sock'[req'[p].fd] \in {"open", "bound"}
    BY <1>4, <2>1 DEF Reserved
  <2>3. \A p, q \in Ops : Filtered(p)' /\ Filtered(q)' /\ Filter(p)' = Filter(q)' => p = q
    BY <1>4, SMTT(30) DEF Reserved
  <2>4. \A p \in Ops : req'[p].st = "pending" => Filtered(p)' /\ req'[p].accepted = None
    BY <1>2 DEF Reserved, Filtered, Used
  <2> QED BY <2>2, <2>3, <2>4, Zenon DEF Reserved
<1>6. Filters' /\ Scans' /\ Attempts'
  <2>1. \A p \in Ops : req'[p] = req[p] \/ (req[p].st = "ready" /\ req'[p].st = "free") BY <1>2, Zenon
  <2>2. \A p \in Ops : Filtered(p)' => sock'[req[p].fd] # "closed" BY <1>4, Zenon
  <2>3. UNCHANGED <<batch, todo, pc>> BY <1>1, <1>3, Zenon
  <2> QED BY <1>1, <1>2, <1>3, <2>1, <2>2, <2>3, DropKeeps, Zenon
<1> QED BY <1>2, <1>5, <1>6, Zenon

\* A socket object is made or destroyed: no request is using its descriptor.
LEMMA KqueueSockets ==
  ASSUME SockTypes, Owned, KqueueInv, NEW s \in Socks, KNewSocket(s) \/ KEndSocket(s)
  PROVE  SockTypes' /\ Owned' /\ KqueueInv'
<1>0. USE DEF KqueueInv
<1>1. UNCHANGED <<req, busy, todo, pc, batch>> /\ pc = "run"
  BY Zenon DEF KNewSocket, KEndSocket, Listen, Bind, Close
<1>2. PICK v \in {"closed", "open", "bound"} : sock' = [sock EXCEPT ![s] = v]
  BY Zenon DEF KNewSocket, KEndSocket, Listen, Bind, Close
<1>3. sock[s] \in {"closed", "open", "bound"} /\ (sock[s] # "closed" => ({s} \X {"in", "out"}) \cap busy = {})
  BY Zenon DEF KNewSocket, KEndSocket, Listen, Bind, Close
<1>4. SockTypes' /\ Owned'
  <2>1. UNCHANGED req BY <1>1, Zenon
  <2> QED BY <1>2, <1>3, <2>1, SocketOwns, Zenon
<1>5. \A p \in Ops : /\ Used(p)' <=> Used(p)
                     /\ Filtered(p)' <=> Filtered(p)
                     /\ Filter(p)' = Filter(p) /\ req'[p] = req[p]
  BY <1>1, Zenon DEF Used, Filtered, Filter, Key, Direction
<1>6. ASSUME NEW p \in Ops, Filtered(p) PROVE req[p].fd # s /\ sock'[req[p].fd] = sock[req[p].fd]
  <2>1. SUFFICES req[p].fd # s BY <1>2, <1>6, FilterFacts, Zenon DEF SockTypes
  <2>2. SUFFICES ASSUME req[p].fd = s PROVE FALSE BY Zenon
  <2>3. sock[s] \in {"open", "bound"} /\ Filter(p) \in busy /\ Filter(p) \in {s} \X {"in", "out"}
    BY <1>3, <1>6, <2>2, FilterFacts, Zenon DEF Direction
  <2> QED BY <1>3, <2>3, Zenon
<1>7. Reserved' BY <1>1, <1>5, <1>6, SMTT(30) DEF Reserved
<1>8. CASE KNewSocket(s)
  <2>1. UNCHANGED <<ready, knote, active>> BY <1>8, Zenon DEF KNewSocket, kernel
  <2>2. User' = User BY Zenon DEF User
  <2>3. Filters'
    <3>1. \A p : Filter(p)' = Filter(p) BY <1>1, Zenon DEF Filter, Key, Direction
    <3>2. req' = req /\ knote' = knote /\ batch' = batch /\ active' = active BY <1>1, <2>1, Zenon
    <3> QED BY <2>2, <3>1, <3>2, Zenon DEF Filters
  <2>4. Scans' BY <1>1, Zenon DEF Scans, Pending
  <2>5. \A x \in Socks : sock'[x] = "dialing" <=> sock[x] = "dialing"
    BY <1>2, <1>3, Zenon DEF SockTypes
  <2>6. Attempts'
    <3>1. \A k \in active' : k # User => k[1] \in Socks BY <2>1, Zenon DEF Filters, Keys
    <3> QED BY <1>1, <1>5, <2>1, <2>2, <2>5, <3>1, Zenon DEF Attempts
  <2> QED BY <1>4, <1>7, <2>3, <2>4, <2>6, Zenon
<1>9. CASE KEndSocket(s)
  <2>1. Drop BY <1>9, Zenon DEF KEndSocket
  <2>2. \A p \in Ops : Filtered(p)' => sock'[req[p].fd] # "closed" BY <1>5, <1>6, FilterFacts, Zenon
  <2>3. UNCHANGED <<batch, todo, pc>> /\ pc = "run" BY <1>1, Zenon
  <2>4. \A p \in Ops : req'[p] = req[p] \/ (req[p].st = "ready" /\ req'[p].st = "free") BY <1>5, Zenon
  <2>5. Filters' /\ Scans' /\ Attempts' BY <1>4, <2>1, <2>2, <2>3, <2>4, DropKeeps, Zenon
  <2> QED BY <1>4, <1>7, <2>5, Zenon
<1> QED BY <1>8, <1>9, Zenon

\* The scan cancels a request: its filter goes with it.
LEMMA KqueueCancels ==
  ASSUME SockTypes, Owned, KqueueInv, NEW o \in Ops, KCancel(o)
  PROVE  SockTypes' /\ Owned' /\ KqueueInv'
<1>0. USE DEF KqueueInv
<1>1. /\ pc = "scan" /\ o \in todo /\ todo' = todo \ {o} /\ UNCHANGED <<busy, sock, pc, ready, batch>>
      /\ knote' = [knote EXCEPT ![Filter(o)] = None] /\ active' = active \ {Filter(o)}
      /\ req' = [req EXCEPT ![o] = Ended(req[o], "canceled", req[o].accepted, TRUE)]
  BY Zenon DEF KCancel, Doomed, Filter
<1>2. batch = {} /\ req[o].st = "pending" /\ Used(o) /\ Filtered(o) /\ req[o].accepted = None
  BY <1>1, Zenon DEF Scans, Pending, Used, Reserved
<1>3. /\ SockTypes' /\ Owned' /\ \A p \in Ops : p # o => req'[p] = req[p]
      /\ req'[o] = Ended(req[o], "canceled", None, TRUE)
  <2>1. sock' = [x \in Socks |-> IF x = None THEN "held" ELSE sock[x]]
    BY <1>1, NoneIsNothing, Zenon DEF SockTypes
  <2>2. req' = [req EXCEPT ![o] = Ended(req[o], "canceled", None, TRUE)] BY <1>1, <1>2, Zenon
  <2>3. None = req[o].accepted BY <1>2, Zenon
  <2> QED BY <1>2, <2>1, <2>2, <2>3, CompleteOwns, Zenon
<1>4. req'[o].st = "ready" /\ req'[o].code = req[o].code /\ req'[o].fd = req[o].fd /\ req'[o].outcome = "canceled"
  BY <1>3 DEF Ended
<1>5. \A p \in Ops : (Filtered(p)' <=> Filtered(p)) /\ Filter(p)' = Filter(p)
  BY <1>2, <1>3, <1>4, Zenon DEF Used, Filtered, Filter, Key, Direction
<1>6. Reserved'
  <2>1. \A p \in Ops : req'[p].fd = req[p].fd /\ req'[p].code = req[p].code BY <1>3, <1>4, Zenon
  <2>2. \A p \in Ops : req'[p].st = "pending" => Filtered(p)' /\ req'[p].accepted = None
    BY <1>3, <1>4, <1>5, Zenon DEF Reserved
  <2> QED BY <1>1, <1>5, <2>1, <2>2, Zenon DEF Reserved
<1>7. \A k \in Keys : knote'[k] = IF k = Filter(o) THEN None ELSE knote[k]
  BY <1>1, Zenon DEF Filters
<1>8. Filters'
  <2>1. knote' \in [Keys -> Ops \cup {None}] BY <1>1, Zenon DEF Filters
  <2>2. ASSUME NEW k \in Keys, knote'[k] # None
        PROVE  req'[knote'[k]].st = "pending" /\ Filter(knote[k])' = k
    <3>1. PICK p \in Ops : p = knote'[k] BY <2>1, <2>2, Zenon
    <3>2. Filter(knote[k])' = Filter(p)' BY <3>1, Zenon DEF Filter
    <3>3. knote[k] = p /\ k # Filter(o) BY <1>7, <2>2, <3>1, Zenon
    <3>4. req[p].st = "pending" /\ Filter(p) = k BY <3>3, NoneIsNothing, Zenon DEF Filters
    <3> QED BY <1>3, <1>5, <3>1, <3>2, <3>3, <3>4, Zenon
  <2>3. ASSUME NEW p \in Ops, req'[p].st = "pending" PROVE knote'[Filter(p)'] = p
    <3>1. p # o /\ req[p].st = "pending" /\ Filtered(p) BY <1>3, <1>4, <2>3, Zenon DEF Reserved
    <3>2. knote[Filter(p)] = p /\ Filter(p) \in Keys BY <1>2, <3>1, FilterFacts, Zenon DEF Filters
    <3>3. Filter(p) # Filter(o) BY <1>2, <3>1, Zenon DEF Reserved
    <3> QED BY <1>5, <1>7, <3>2, <3>3, Zenon
  <2>4. \A k \in active' : k # User => k \in Keys /\ knote'[k] # None
    BY <1>1, <1>7, Zenon DEF Filters
  <2>5. User' = User BY Zenon DEF User
  <2> QED BY <1>1, <1>2, <2>1, <2>2, <2>3, <2>4, <2>5, Zenon DEF Filters
<1>9. Scans' BY <1>1, <1>2, <1>3, Zenon DEF Scans, Pending
<1>10. Attempts'
  <2>1. User' = User BY Zenon DEF User
  <2>2. \A p \in Ops : req'[p].st = "ready" /\ req'[p].code = "connect" /\ req'[p].outcome = "ok"
          => Filter(p)' \in ready'
    BY <1>1, <1>3, <1>4, <1>5, Zenon DEF Attempts
  <2> QED BY <1>1, <1>2, <2>1, <2>2, Zenon DEF Attempts
<1> QED BY <1>3, <1>6, <1>8, <1>9, <1>10, Zenon

\* kevent returns: the filters of the events it hands over are no longer registered.
LEMMA KqueueReturns ==
  ASSUME SockTypes, Owned, KqueueInv, KReturn
  PROVE  SockTypes' /\ Owned' /\ KqueueInv'
<1>0. USE DEF KqueueInv
<1>1. pc = "wait" /\ pc' = "reap" /\ UNCHANGED <<req, busy, sock, todo, ready>> /\ batch = {} /\ todo = {}
  BY Zenon DEF KReturn, Scans
<1>2. SockTypes' /\ Owned' BY <1>1, OwnersKept, Zenon DEF SockTypes
<1>3. \A p \in Ops : (Filtered(p)' <=> Filtered(p)) /\ Filter(p)' = Filter(p)
  BY <1>1, Zenon DEF Used, Filtered, Filter, Key, Direction
<1>4. Reserved' BY <1>1, <1>3, SMTT(30) DEF Reserved
<1>5. PICK taken \in SUBSET active :
        /\ active' = active \ taken
        /\ batch' = {<<k, knote[k]>> : k \in taken \ {User}}
        /\ knote' = [k \in Keys |-> IF k \in taken THEN None ELSE knote[k]]
  BY Zenon DEF KReturn
<1>6. \A k \in taken : k # User => k \in Keys /\ knote[k] \in Ops
  BY DEF Filters
<1>7. \A k \in Keys, o \in Ops : <<k, o>> \in batch' <=> k \in taken /\ k # User /\ knote[k] = o
  BY <1>5, Zenon
<1>8. User' = User /\ \A k \in Keys : k # User BY DEF User, Keys
<1>9. Filters'
  <2>1. knote' \in [Keys -> Ops \cup {None}] BY <1>5, Zenon DEF Filters
  <2>2. batch' \in SUBSET (Keys \X Ops) BY <1>5, <1>6
  <2>3. ASSUME NEW k \in Keys, knote'[k] # None
        PROVE  req'[knote'[k]].st = "pending" /\ Filter(knote[k])' = k
    <3>1. PICK p \in Ops : p = knote'[k] BY <2>1, <2>3, Zenon
    <3>2. Filter(knote[k])' = Filter(p)' BY <3>1, Zenon DEF Filter
    <3>3. knote[k] = p BY <1>5, <2>3, <3>1, Zenon
    <3>4. req[p].st = "pending" /\ Filter(p) = k BY <3>3, NoneIsNothing, Zenon DEF Filters
    <3> QED BY <1>1, <1>3, <3>1, <3>2, <3>4, Zenon
  <2>4. \A k \in Keys, o \in Ops : <<k, o>> \in batch' =>
          req'[o].st = "pending" /\ Filter(o)' = k /\ knote'[k] = None
    BY <1>1, <1>3, <1>5, <1>7, NoneIsNothing, SMTT(30) DEF Filters
  <2>5. ASSUME NEW p \in Ops, req'[p].st = "pending"
        PROVE  knote'[Filter(p)'] = p \/ <<Filter(p)', p>> \in batch'
    <3>1. req[p].st = "pending" /\ Filtered(p) BY <1>1, <2>5, Zenon DEF Reserved
    <3>2. knote[Filter(p)] = p /\ Filter(p) \in Keys BY <1>1, <3>1, FilterFacts, Zenon DEF Filters
    <3> QED BY <1>3, <1>5, <1>7, <1>8, <3>2, Zenon
  <2>6. \A k \in active' : k # User => k \in Keys /\ knote'[k] # None
    BY <1>5, Zenon DEF Filters
  <2> QED BY <1>8, <2>1, <2>2, <2>3, <2>4, <2>5, <2>6, Zenon DEF Filters
<1>10. Scans' BY <1>1, Zenon DEF Scans
<1>11. Attempts'
  <2>1. ASSUME NEW k \in Keys, NEW o \in Ops, <<k, o>> \in batch', req[o].code = "connect" PROVE k \in ready
    <3>1. k \in active /\ k # User /\ knote[k] = o BY <1>7, <2>1, Zenon
    <3>2. Filtered(o) /\ Filter(o) = k BY <2>1, <3>1, NoneIsNothing, Zenon DEF Filters, Reserved
    <3>3. sock[k[1]] = "dialing" BY <2>1, <3>2, FilterFacts, SMTT(30)
    <3> QED BY <3>1, <3>3, Zenon DEF Attempts
  <2>2. \A k \in active' : k # User /\ sock'[k[1]] = "dialing" => k \in ready'
    BY <1>1, <1>5, Zenon DEF Attempts
  <2>3. \A p \in Ops : req'[p].st = "ready" /\ req'[p].code = "connect" /\ req'[p].outcome = "ok"
          => Filter(p)' \in ready'
    BY <1>1, <1>3, Zenon DEF Attempts
  <2> QED BY <1>1, <1>8, <2>1, <2>2, <2>3, Zenon DEF Attempts
<1> QED BY <1>2, <1>4, <1>9, <1>10, <1>11, Zenon

\* An event is handled: its request is completed, or registered again.
LEMMA KqueueHandles ==
  ASSUME SockTypes, Owned, KqueueInv, KHandle
  PROVE  SockTypes' /\ Owned' /\ KqueueInv'
<1>0. USE DEF KqueueInv
<1>1. pc = "reap" /\ UNCHANGED <<busy, todo, pc, ready, active>> /\ todo = {}
  BY Zenon DEF KHandle, Scans
<1>2. PICK k \in Keys, o \in Ops, r \in {"ok", "error", "again"} :
        /\ <<k, o>> \in batch /\ batch' = batch \ {<<k, o>>}
        /\ IF r = "again" THEN knote' = [knote EXCEPT ![Filter(o)] = o] /\ UNCHANGED <<req, sock>>
           ELSE knote' = knote /\ \E a \in KAccepts(req[o].code, r) : Complete(o, r, a)
  <2>1. PICK e \in batch :
          /\ batch' = batch \ {e}
          /\ \E r \in Results(req[e[2]].code, req[e[2]].fd, FALSE) :
               IF r = "again" THEN knote' = [knote EXCEPT ![Key(req[e[2]].code, req[e[2]].fd)] = e[2]]
                                   /\ UNCHANGED <<req, sock>>
               ELSE knote' = knote /\ \E a \in KAccepts(req[e[2]].code, r) : Complete(e[2], r, a)
    BY Zenon DEF KHandle
  <2>0. \A c, x : Results(c, x, FALSE) \subseteq {"ok", "error", "again"} BY Zenon DEF Results
  <2>2. PICK k \in Keys, o \in Ops : e = <<k, o>> BY DEF Filters
  <2>3. e[2] = o BY <2>2, Zenon
  <2>4. Key(req[o].code, req[o].fd) = Filter(o) BY Zenon DEF Filter
  <2>6. PICK r \in {"ok", "error", "again"} :
          IF r = "again" THEN knote' = [knote EXCEPT ![Filter(o)] = o] /\ UNCHANGED <<req, sock>>
          ELSE knote' = knote /\ \E a \in KAccepts(req[o].code, r) : Complete(o, r, a)
    BY <2>0, <2>1, <2>3, <2>4, Zenon
  <2> QED BY <2>1, <2>2, <2>6, Zenon
<1>3. /\ req[o].st = "pending" /\ Filter(o) = k /\ knote[k] = None /\ Filtered(o) /\ Used(o)
      /\ req[o].accepted = None
  BY <1>2, Zenon DEF Filters, Reserved, Filtered
<1>4. \A p \in Ops : p # o /\ Filtered(p) => Filter(p) # k BY <1>3, Zenon DEF Reserved
<1>5. User' = User BY Zenon DEF User
<1>6. CASE r = "again"
  <2>1. knote' = [knote EXCEPT ![k] = o] /\ UNCHANGED <<req, sock>> BY <1>2, <1>3, <1>6, Zenon
  <2>2. SockTypes' /\ Owned' BY <2>1, OwnersKept, Zenon DEF SockTypes
  <2>3. \A p \in Ops : (Filtered(p)' <=> Filtered(p)) /\ Filter(p)' = Filter(p)
    BY <2>1, Zenon DEF Used, Filtered, Filter, Key, Direction
  <2>4. Reserved' BY <1>1, <2>1, <2>3, ZenonT(40) DEF Reserved
  <2>5. \A x \in Keys : knote'[x] = IF x = k THEN o ELSE knote[x] BY <2>1, Zenon DEF Filters
  <2>6. Filters'
    <3>1. knote' \in [Keys -> Ops \cup {None}] BY <2>1, Zenon DEF Filters
    <3>2. ASSUME NEW x \in Keys, knote'[x] # None
          PROVE  req'[knote'[x]].st = "pending" /\ Filter(knote[x])' = x
      <4>1. PICK p \in Ops : p = knote'[x] BY <3>1, <3>2, Zenon
      <4>2. Filter(knote[x])' = Filter(p)' BY <4>1, Zenon DEF Filter
      <4>3. req[p].st = "pending" /\ Filter(p) = x BY <1>3, <2>5, <4>1, NoneIsNothing DEF Filters
      <4> QED BY <2>1, <2>3, <4>1, <4>2, <4>3, Zenon
    <3>3. ASSUME NEW x \in Keys, NEW p \in Ops, <<x, p>> \in batch'
          PROVE  req'[p].st = "pending" /\ Filter(p)' = x /\ knote'[x] = None
      <4>1. <<x, p>> \in batch /\ <<x, p>> # <<k, o>> BY <1>2, <3>3, Zenon
      <4>2. req[p].st = "pending" /\ Filter(p) = x /\ knote[x] = None BY <4>1, Zenon DEF Filters
      <4>3. x # k
        <5>1. Filtered(p) BY <4>2, Zenon DEF Reserved
        <5> QED BY <1>3, <1>4, <4>1, <4>2, <5>1, Zenon
      <4> QED BY <2>1, <2>3, <2>5, <4>2, <4>3, Zenon
    <3>4. ASSUME NEW p \in Ops, req'[p].st = "pending"
          PROVE  knote'[Filter(p)'] = p \/ <<Filter(p)', p>> \in batch'
      <4>1. req[p].st = "pending" /\ Filtered(p) BY <2>1, <3>4, Zenon DEF Reserved
      <4>2. Filter(p) \in Keys /\ (knote[Filter(p)] = p \/ <<Filter(p), p>> \in batch)
        BY <4>1, FilterFacts, Zenon DEF Filters
      <4> QED BY <1>2, <1>3, <1>4, <2>3, <2>5, <4>1, <4>2, Zenon
    <3>5. \A x \in active' : x # User => x \in Keys /\ knote'[x] # None
      BY <1>1, <2>5, NoneIsNothing, Zenon DEF Filters
    <3>6. batch' \in SUBSET (Keys \X Ops) BY <1>2, Zenon DEF Filters
    <3> QED BY <1>5, <3>1, <3>2, <3>3, <3>4, <3>5, <3>6, Zenon DEF Filters
  <2>7. Scans' BY <1>1, Zenon DEF Scans
  <2>8. Attempts' BY <1>1, <1>2, <1>5, <2>1, <2>3, Zenon DEF Attempts
  <2> QED BY <2>2, <2>4, <2>6, <2>7, <2>8, Zenon
<1>7. CASE r # "again"
  <2>1. PICK a \in KAccepts(req[o].code, r) : Complete(o, r, a) BY <1>2, <1>7, Zenon
  <2>2. r \in {"ok", "error"} BY <1>7, Zenon
  <2>3. a = None \/ a \in Unused BY Zenon DEF KAccepts, Unused
  <2>4. /\ req' = [req EXCEPT ![o] = Ended(req[o], r, a, req[o].sent)]
        /\ sock' = [x \in Socks |-> IF x = a THEN "held" ELSE sock[x]]
    BY <2>1, Zenon DEF Complete
  <2>5. /\ SockTypes' /\ Owned' /\ \A p \in Ops : p # o => req'[p] = req[p]
        /\ req'[o] = Ended(req[o], r, a, req[o].sent)
    <3>1. a \in Socks \cup {None} BY <2>3, Zenon DEF Unused
    <3>2. a = req[o].accepted \/ (req[o].accepted = None /\ a \in Unused) BY <1>3, <2>3, Zenon
    <3>3. r \in {"ok", "error", "canceled"} BY <2>2, Zenon
    <3> QED BY <1>3, <2>1, <3>1, <3>2, <3>3, CompletesOwn, Zenon
  <2>6. req'[o].st = "ready" /\ req'[o].code = req[o].code /\ req'[o].fd = req[o].fd
    BY <2>5, SMTT(30) DEF Ended
  <2>7. \A p \in Ops : (Filtered(p)' <=> Filtered(p)) /\ Filter(p)' = Filter(p)
    BY <1>3, <2>5, <2>6, Zenon DEF Used, Filtered, Filter, Key, Direction
  <2>8. \A x \in Socks : sock[x] # "closed" => sock'[x] = sock[x] BY <2>3, <2>4, NoneIsNothing, Zenon DEF Unused
  <2>9. Reserved'
    <3>1. \A p \in Ops : req'[p].fd = req[p].fd /\ req'[p].code = req[p].code BY <2>5, <2>6, Zenon
    <3>2. \A p \in Ops : req'[p].st = "pending" => Filtered(p)' /\ req'[p].accepted = None
      BY <2>5, <2>6, <2>7, Zenon DEF Reserved
    <3>3. \A p \in Ops : Filtered(p) => sock'[req[p].fd] = sock[req[p].fd] BY <2>8, FilterFacts, Zenon
    <3>4. \A p \in Ops : Filtered(p)' =>
            /\ req'[p].fd \in Socks
            /\ req'[p].code # "connect" => Filter(p)' \in busy' /\ sock'[req'[p].fd] \in {"open", "bound"}
      BY <1>1, <1>2, <2>7, <3>1, <3>3, Zenon DEF Reserved
    <3>5. \A p, u \in Ops : Filtered(p)' /\ Filtered(u)' /\ Filter(p)' = Filter(u)' => p = u
      BY <2>7, Zenon DEF Reserved
    <3> QED BY <3>2, <3>4, <3>5, Zenon DEF Reserved
  <2>10. knote' = knote BY <1>2, <1>7, Zenon
  <2>11. Filters'
    <3>1. knote' \in [Keys -> Ops \cup {None}] BY <2>10, Zenon DEF Filters
    <3>2. ASSUME NEW x \in Keys, knote'[x] # None
          PROVE  req'[knote'[x]].st = "pending" /\ Filter(knote[x])' = x
      <4>1. PICK p \in Ops : p = knote'[x] BY <3>1, <3>2, Zenon
      <4>2. Filter(knote[x])' = Filter(p)' BY <4>1, Zenon DEF Filter
      <4>3. req[p].st = "pending" /\ Filter(p) = x BY <2>10, <4>1, NoneIsNothing, ZenonT(40) DEF Filters
      <4>4. p # o BY <1>3, <2>10, <4>1, <4>3, NoneIsNothing, Zenon
      <4> QED BY <2>5, <2>7, <4>1, <4>2, <4>3, <4>4, Zenon
    <3>3. ASSUME NEW x \in Keys, NEW p \in Ops, <<x, p>> \in batch'
          PROVE  req'[p].st = "pending" /\ Filter(p)' = x /\ knote'[x] = None
      <4>1. <<x, p>> \in batch /\ <<x, p>> # <<k, o>> BY <1>2, <3>3, Zenon
      <4>2. req[p].st = "pending" /\ Filter(p) = x /\ knote[x] = None BY <4>1, Zenon DEF Filters
      <4>3. p # o BY <1>3, <4>1, <4>2, Zenon
      <4> QED BY <2>5, <2>7, <2>10, <4>2, <4>3, Zenon
    <3>4. ASSUME NEW p \in Ops, req'[p].st = "pending"
          PROVE  knote'[Filter(p)'] = p \/ <<Filter(p)', p>> \in batch'
      <4>1. req[p].st = "pending" /\ p # o BY <2>5, <2>6, <3>4, Zenon
      <4>2. knote[Filter(p)] = p \/ <<Filter(p), p>> \in batch BY <4>1, Zenon DEF Filters
      <4> QED BY <1>2, <2>7, <2>10, <4>1, <4>2, Zenon
    <3>5. batch' \in SUBSET (Keys \X Ops) BY <1>2, Zenon DEF Filters
    <3>6. \A x \in active' : x # User => x \in Keys /\ knote'[x] # None BY <1>1, <2>10, Zenon DEF Filters
    <3> QED BY <1>5, <3>1, <3>2, <3>3, <3>4, <3>5, <3>6, Zenon DEF Filters
  <2>12. Scans' BY <1>1, Zenon DEF Scans
  <2>13. Attempts'
    <3>1. ASSUME NEW x \in active', x # User, sock'[x[1]] = "dialing" PROVE x \in ready'
      <4>1. x[1] \in Socks BY <1>1, <3>1, Zenon DEF Filters, Keys
      <4> QED BY <1>1, <2>4, <3>1, <4>1, Zenon DEF Attempts
    <3>2. \A x \in Keys, p \in Ops : <<x, p>> \in batch' /\ req'[p].code = "connect" => x \in ready'
      BY <1>1, <1>2, <2>5, <2>6, Zenon DEF Attempts
    <3>3. \A p \in Ops : req'[p].st = "ready" /\ req'[p].code = "connect" /\ req'[p].outcome = "ok"
            => Filter(p)' \in ready'
      BY <1>1, <1>2, <1>3, <2>5, <2>6, <2>7, Zenon DEF Attempts
    <3> QED BY <1>5, <3>1, <3>2, <3>3, Zenon DEF Attempts
  <2> QED BY <2>5, <2>9, <2>11, <2>12, <2>13, Zenon
<1> QED BY <1>6, <1>7, Zenon

\* The moves of the loop, the wake event and the marks.
LEMMA KqueueMoves ==
  ASSUME SockTypes, Owned, KqueueInv,
         \/ \E o \in Ops : KRequestStop(o)
         \/ KStop \/ KPost \/ KStartScan \/ KEndScan \/ Interrupted \/ KReaped
         \/ \E t \in BOOLEAN : KPoll(t)
  PROVE  SockTypes' /\ Owned' /\ KqueueInv'
<1> DEFINE Same == /\ UNCHANGED <<sock, busy, ready, knote, batch>> /\ active' \subseteq active \cup {User}
                   /\ todo' \subseteq Pending /\ (pc' # "scan" => todo' = {}) /\ (pc' # "reap" => batch = {})
<1>1. CASE \E o \in Ops : KRequestStop(o)
  <2>1. PICK o \in Ops : KRequestStop(o) BY <1>1, Zenon
  <2>2. Same BY <2>1, Zenon DEF KRequestStop, Mark, KWake, KqueueInv, Scans
  <2>3. req' = [req EXCEPT ![o].canceled = TRUE] BY <2>1, Zenon DEF KRequestStop, Mark
  <2> QED BY <2>2, <2>3, MarkFacts, KqueueQuiet, Zenon
<1>2. CASE KStop \/ KPost \/ KStartScan \/ KEndScan \/ Interrupted \/ KReaped \/ \E t \in BOOLEAN : KPoll(t)
  <2>1. req' = req
    BY <1>2, Zenon DEF KStop, MarkAll, KPost, base, KStartScan, Expire, KEndScan, Scanned,
                Interrupted, KReaped, KPoll
  <2>2. Same
    <3>1. CASE KStop \/ KPost
      BY <3>1, Zenon DEF KStop, MarkAll, KPost, base, KWake, KqueueInv, Scans
    <3>2. CASE KStartScan
      BY <3>2, Zenon DEF KStartScan, Expire, kernel, Pending, KqueueInv, Scans
    <3>3. CASE KEndScan \/ Interrupted \/ KReaped \/ \E t \in BOOLEAN : KPoll(t)
      BY <3>3, Zenon DEF KEndScan, Scanned, Interrupted, KReaped, KPoll, kernel, KqueueInv, Scans
    <3> QED BY <1>2, <3>1, <3>2, <3>3, Zenon
  <2>3. req' \in [Ops -> Request] BY <2>1, Zenon DEF SockTypes
  <2> QED BY <2>1, <2>2, <2>3, KqueueQuiet, Zenon
<1> QED BY <1>1, <1>2, Zenon

\* Every step of a loop on kqueue.
LEMMA KqueueStep ==
  ASSUME SockTypes, Owned, KqueueInv, KNext
  PROVE  SockTypes' /\ Owned' /\ KqueueInv'
<1>1. CASE \E k \in Keys : Arrive(k) \/ Vanish(k) \/ Fire(k)
  BY <1>1, KernelKeeps, Zenon
<1>2. CASE \E o \in Ops, c \in Opcodes, s \in Socks \cup {None} : KStart(o, c, s) \/ KNothing(o, c, s)
  <2>1. PICK o \in Ops, c \in Opcodes, s \in Socks \cup {None} : KStart(o, c, s) \/ KNothing(o, c, s)
    BY <1>2, Zenon
  <2>2. Startable(o, c, s) /\ UNCHANGED <<active, batch>>
    BY <2>1, Zenon DEF KStart, KNothing, kernel
  <2>3. CASE KNothing(o, c, s)
    <3>1. Begin(o, c, s, "ok", None) /\ knote' = knote /\ ready' = ready /\ c # "connect"
      BY <2>3, Zenon DEF KNothing, kernel
    <3> QED BY <2>2, <3>1, KqueueBegins, Zenon
  <2>4. CASE KStart(o, c, s)
    <3>1. PICK r \in Results(c, s, TRUE) :
            /\ IF r = "again"
               THEN Begin(o, c, s, "none", None) /\ knote' = [knote EXCEPT ![Key(c, s)] = o]
               ELSE knote' = knote /\ \E a \in KAccepts(c, r) : Begin(o, c, s, r, a)
            /\ ready' = (IF c = "connect" /\ r = "ok" THEN ready \cup {Key(c, s)} ELSE ready)
      BY <2>4, Zenon DEF KStart
    <3>2. (\A k \in ready : k \in ready') /\ (c = "connect" /\ r = "ok" => Key(c, s) \in ready')
      BY <3>1, Zenon
    <3>3. CASE r = "again"
      <4>1. Begin(o, c, s, "none", None) /\ knote' = [knote EXCEPT ![Key(c, s)] = o]
        BY <3>1, <3>3, Zenon
      <4>2. c \notin {"nop", "file"} BY <3>1, <3>3, Zenon DEF Results
      <4> QED BY <2>2, <3>2, <3>3, <4>1, <4>2, KqueueBegins, Zenon
    <3>4. CASE r # "again"
      <4>1. r \in {"ok", "error"} BY <3>1, <3>4, Zenon DEF Results
      <4>2. PICK a \in KAccepts(c, r) : Begin(o, c, s, r, a) BY <3>1, <3>4, Zenon
      <4>3. Begin(o, c, s, r, a) BY <4>2, Zenon
      <4>4. a \in Unused \cup {None} /\ (a # None => c = "accept")
        BY NoneIsNothing, Zenon DEF KAccepts, Unused
      <4> QED BY <2>2, <3>1, <3>2, <3>4, <4>1, <4>3, <4>4, KqueueBegins, Zenon
    <3> QED BY <3>3, <3>4, Zenon
  <2> QED BY <2>1, <2>3, <2>4, Zenon
<1>3. CASE \E o \in Ops : KResume(o) BY <1>3, KqueueResumes, Zenon
<1>4. CASE \E o \in Ops : KCancel(o) BY <1>4, KqueueCancels, Zenon
<1>5. CASE \E s \in Socks : KNewSocket(s) \/ KEndSocket(s) BY <1>5, KqueueSockets, Zenon
<1>6. CASE KReturn BY <1>6, KqueueReturns, Zenon
<1>7. CASE KHandle BY <1>7, KqueueHandles, Zenon
<1>8. CASE \/ \E o \in Ops : KRequestStop(o)
           \/ KStop \/ KPost \/ KStartScan \/ KEndScan \/ Interrupted \/ KReaped
           \/ \E t \in BOOLEAN : KPoll(t)
  BY <1>8, KqueueMoves, Zenon
<1> QED BY <1>1, <1>2, <1>3, <1>4, <1>5, <1>6, <1>7, <1>8, Zenon DEF KNext
-----------------------------------------------------------------------------
\* What the invariant says, as one formula.
KSound == SockTypes /\ Owned /\ KqueueInv

\* No filter is registered when a loop is made.
LEMMA KqueueInit ==
  ASSUME KInit
  PROVE  KSound
<1>1. /\ RequestsInit /\ ready = {} /\ knote = [k \in Keys |-> None] /\ active = {} /\ batch = {}
      /\ todo = {} /\ pc = "run"
  BY Zenon DEF KInit, RequestsInit
<1>2. SockTypes /\ Owned /\ \A o \in Ops : req[o].st = "free" /\ ~Used(o) BY <1>1, RequestsStart, Zenon
<1>3. Reserved BY <1>2, Zenon DEF Reserved, Filtered
<1>4. Filters BY <1>1, <1>2, Zenon DEF Filters
<1>5. Scans BY <1>1, Zenon DEF Scans
<1>6. Attempts BY <1>1, <1>2, Zenon DEF Attempts
<1> QED BY <1>2, <1>3, <1>4, <1>5, <1>6, Zenon DEF KSound, KqueueInv

\* Nothing that the invariant is about changes.
LEMMA KqueueStutter ==
  ASSUME KSound, UNCHANGED vars
  PROVE  KSound'
<1>1. UNCHANGED <<req, busy, sock, todo, pc, ready, knote, active, batch>> BY Zenon DEF vars, base, kqueueOnly, kernel
<1>2. todo' \subseteq Pending /\ (pc' # "scan" => todo' = {}) /\ (pc' # "reap" => batch = {})
  BY <1>1, Zenon DEF KSound, KqueueInv, Scans
<1>3. req' \in [Ops -> Request] BY <1>1, Zenon DEF KSound, SockTypes
<1>4. active' \subseteq active \cup {User} BY <1>1, Zenon
<1> QED BY <1>1, <1>2, <1>3, <1>4, KqueueQuiet, Zenon DEF KSound

\* A pending request has exactly one source of completion and any other none: its filter,
\* or the event that poll took for it (submit, loop::cancel, poll).
LEMMA KqueueSourcesUnique == KSound => KOneSource
<1>1. SUFFICES ASSUME KSound, NEW o \in Ops
               PROVE  IF o \in Pending THEN \E x : KSources(o) = {x} ELSE KSources(o) = {}
  BY Zenon DEF KOneSource
<1>2. o \in Pending <=> req[o].st = "pending" BY Zenon DEF Pending
<1>3. o # None BY NoneIsNothing, Zenon
<1> DEFINE kept == {k \in Keys : knote[k] = o}
           taken == {e \in batch : e[2] = o}
<1>4. SockTypes /\ Owned /\ Reserved /\ Filters BY <1>1, Zenon DEF KSound, KqueueInv
<1>5. KSources(o) = ({"filter"} \X kept) \cup ({"event"} \X taken) BY Zenon DEF KSources
<1>6. \A k : k \in kept => o \in Pending /\ k = Filter(o) /\ knote[Filter(o)] = o
  BY <1>2, <1>3, <1>4, Zenon DEF Filters
<1>7. \A e : e \in taken <=> \E k \in Keys : e = <<k, o>> /\ e \in batch BY <1>4 DEF Filters
<1>8. \A e : e \in taken => o \in Pending /\ e = <<Filter(o), o>> /\ knote[Filter(o)] = None
  BY <1>2, <1>4, <1>7 DEF Filters
<1>9. o \in Pending => Filter(o) \in Keys /\ (Filter(o) \in kept \/ <<Filter(o), o>> \in taken)
  <2>1. o \in Pending => Filtered(o) BY <1>2, <1>4, Zenon DEF Reserved
  <2>2. o \in Pending => Filter(o) \in Keys BY <1>4, <2>1, FilterFacts, Zenon
  <2> QED BY <1>2, <1>4, <2>2, Zenon DEF Filters
<1> HIDE DEF kept, taken
<1>10. CASE o \notin Pending
  <2>1. kept = {} /\ taken = {} BY <1>6, <1>8, <1>10, Zenon
  <2> QED BY <1>5, <1>10, <2>1, Zenon
<1>11. CASE o \in Pending /\ Filter(o) \in kept
  <2>1. kept = {Filter(o)} /\ taken = {} BY <1>3, <1>6, <1>8, <1>11, Zenon
  <2>2. KSources(o) = {<<"filter", Filter(o)>>} BY <1>5, <2>1
  <2> QED BY <1>11, <2>2, Zenon
<1>12. CASE o \in Pending /\ Filter(o) \notin kept
  <2>1. kept = {} /\ taken = {<<Filter(o), o>>} BY <1>6, <1>8, <1>9, <1>12, Zenon
  <2>2. KSources(o) = {<<"event", <<Filter(o), o>>>>} BY <1>5, <2>1
  <2> QED BY <1>12, <2>2, Zenon
<1> QED BY <1>10, <1>11, <1>12, Zenon

\* A connection is reported only when it is made: the filter of a connect() fires for its
\* own descriptor and direction, and what has fired has been waited for (submit, poll).
LEMMA KqueueConnects == KSound => KConnectEnded
BY Zenon DEF KSound, KqueueInv, Attempts, KConnectEnded, Filter, Key, Direction
-----------------------------------------------------------------------------
\* The invariant of the driver that the loop has.
SocketInv == driver \in {"kqueue", "iocp"} /\ IF OnKqueue THEN KSound ELSE PSound

\* The invariant holds for any requests and descriptors, any number of events or packets
\* taken by poll, and any bound on the wake packets.
THEOREM SocketsInductive == Spec => []SocketInv
<1>1. Init => SocketInv BY KqueueInit, IocpInit, Zenon DEF Init, SocketInv
<1>2. SocketInv /\ [Next]_vars => SocketInv'
  <2>1. ASSUME SocketInv, Next PROVE SocketInv'
    <3>1. CASE driver = "kqueue" /\ KNext /\ UNCHANGED <<driver, iocpOnly>>
      <4>1. KSound /\ driver' = "kqueue" BY <2>1, <3>1, Zenon DEF SocketInv, OnKqueue
      <4>2. KSound' BY <3>1, <4>1, KqueueStep, Zenon DEF KSound
      <4> QED BY <4>1, <4>2, Zenon DEF SocketInv, OnKqueue
    <3>2. CASE driver = "iocp" /\ PNext /\ UNCHANGED <<driver, kqueueOnly>>
      <4>1. PSound /\ driver' = "iocp" /\ driver' # "kqueue"
        <5>1. driver # "kqueue" BY <3>2
        <5> QED BY <2>1, <3>2, <5>1, Zenon DEF SocketInv, OnKqueue
      <4>2. PSound' BY <3>2, <4>1, IocpStep, Zenon DEF PSound
      <4> QED BY <4>1, <4>2, Zenon DEF SocketInv, OnKqueue
    <3> QED BY <2>1, <3>1, <3>2, Zenon DEF Next
  <2>2. ASSUME SocketInv, UNCHANGED vars PROVE SocketInv'
    <3>1. driver' = driver BY <2>2, Zenon DEF vars
    <3> QED BY <2>2, <3>1, KqueueStutter, IocpStutter, Zenon DEF SocketInv, OnKqueue
  <2> QED BY <2>1, <2>2, Zenon
<1> QED BY <1>1, <1>2, PTL DEF Spec

\* A descriptor in the hands of accept() or connect() has exactly one request that will
\* hand it out or close it (submit, poll, loop::cancel, ~io).
THEOREM DescriptorsOwned == Spec => []DescriptorOwned
<1>1. SocketInv => DescriptorOwned BY OwnersCounted, Zenon DEF SocketInv, KSound, PSound
<1> QED BY <1>1, SocketsInductive, PTL

\* A pending request has exactly one source of completion and any other none, whichever
\* the driver (submit: "never resume it twice").
THEOREM SourcesUnique == Spec => []OneSource
<1>1. SocketInv => OneSource BY KqueueSourcesUnique, IocpSourcesUnique, Zenon DEF SocketInv, OneSource
<1> QED BY <1>1, SocketsInductive, PTL

\* A connection on kqueue is reported only when it is made (submit, poll).
THEOREM ConnectsEnded == Spec => []ConnectEnded
<1>1. SocketInv => ConnectEnded BY KqueueConnects, Zenon DEF SocketInv, ConnectEnded
<1> QED BY <1>1, SocketsInductive, PTL
=============================================================================
