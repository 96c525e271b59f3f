------------------------------ MODULE Provided ------------------------------
(***************************************************************************)
(* Multishot requests and the ring of provided buffers: stream and the     *)
(* loops over it in src/include/snowy/uring.hpp and uring_multi.hpp        *)
(* (receive, recvmsg, accept, watch, ticks), and uring::provided           *)
(* (src/src/uring_net.cpp).  The kernel fills published buffers in the     *)
(* order of their publication and reports a bundle by its first buffer     *)
(* only; each() finds the others through next_.  The consumer may keep a   *)
(* chunk as long as it likes and returns chunks in any order, also from    *)
(* inside its callback.                                                    *)
(*                                                                         *)
(* All actions but the kernel's are steps of the owner thread; no task     *)
(* resumes while poll() dispatches a completion (dec).                     *)
(***************************************************************************)
EXTENDS Naturals, Sequences, FiniteSets, Functions

CONSTANTS Count,       \* count_
          Receivers,   \* loops over multishot requests
          KindOf,      \* what each may run: "recv", "recvmsg", "accept", "watch" or "ticks"
          Ticks,       \* bound: the largest count of ticks
          Posted       \* bound: completions the kernel posts ahead of poll()

ASSUME Sizes == Count \in Nat \ {0} /\ Posted \in Nat \ {0} /\ Ticks \in Nat

VARIABLES
  kring,               \* kernel: published buffers that are not filled yet
  cq,                  \* completions that poll() has not dispatched
  next, tail, held, leases,   \* next_, tail_, held_, leases_
  dec,                 \* each() at work: <<>>, or receiver, buffer and what is left
  kind,                \* of each loop, since it started
  tick,                \* of ticks: count and received; armed: what the kernel will still
                       \* deliver, 0 for no limit
  rx,                  \* each loop: "idle", "armed", "ended", "rearm", "waiting",
                       \* or the ending it has been handed
  stopped              \* request.stopped: drop what still comes

ringVars == <<kring, next, tail, held, leases>>
vars == <<ringVars, cq, dec, kind, tick, rx, stopped>>

Leasing == {"recv", "recvmsg"}   \* the loops that take buffers

Ids == 0..Count - 1
\* Why a request ended; the others of its completions say "more".
Endings == {"early", "nobufs", "eof", "canceled"}

\* The constructor publishes every buffer in the order of its number.
Init ==
  /\ kring = [i \in 1..Count |-> i - 1] /\ cq = <<>>
  /\ next = [i \in Ids |-> (i + 1) % Count] /\ tail = Count - 1
  /\ held = {} /\ leases = 0 /\ dec = <<>>
  /\ kind = [r \in Receivers |-> "none"]
  /\ tick = [r \in Receivers |-> [count |-> 0, received |-> 0, armed |-> 0]]
  /\ rx = [r \in Receivers |-> "idle"] /\ stopped = [r \in Receivers |-> FALSE]
-----------------------------------------------------------------------------
\* The kernel (io_uring, not under src/).

Post(r, ids, shot, end) ==
  /\ Len(cq) < Posted
  /\ cq' = Append(cq, [rx |-> r, ids |-> ids, shot |-> shot, end |-> end])
  /\ rx' = [rx EXCEPT ![r] = IF end = "more" THEN @ ELSE "ended"]

\* Data fills the next n buffers, a datagram one; the kernel may end the shot with it.
Fill(r, n, end) ==
  /\ rx[r] = "armed" /\ kind[r] \in Leasing /\ end \in {"more", "early"}
  /\ n \in 1..Len(kring) /\ (kind[r] = "recvmsg" => n = 1)
  /\ Post(r, SubSeq(kring, 1, n), FALSE, end)
  /\ kring' = SubSeq(kring, n + 1, Len(kring))
  /\ UNCHANGED <<next, tail, held, leases, dec, kind, tick, stopped>>

\* A connection, readiness or a tick; the last tick of a limited number ends the shot.
Shoot(r, end) ==
  /\ rx[r] = "armed" /\ kind[r] \notin Leasing /\ end \in {"more", "early"}
  /\ kind[r] = "ticks" /\ tick[r].armed = 1 => end = "early"
  /\ Post(r, <<>>, TRUE, end)
  /\ tick' = [tick EXCEPT ![r].armed = IF @ = 0 THEN 0 ELSE @ - 1]
  /\ UNCHANGED <<ringVars, dec, kind, stopped>>

\* The shot ends without data: no buffer is published, end of file, or it was
\* canceled.
Terminate(r, end) ==
  /\ rx[r] = "armed"
  /\ end = "nobufs" => kring = <<>> /\ kind[r] \in Leasing
  /\ end = "eof" => kind[r] = "recv"
  /\ Post(r, <<>>, FALSE, end)
  /\ UNCHANGED <<ringVars, dec, kind, tick, stopped>>
-----------------------------------------------------------------------------
\* The buffers a return publishes, and who is told of it: put.

\* Mutant: a return wakes one of the loops that wait.
PutOne(id, h, n) ==
  /\ held' = h \ {id} /\ leases' = n - 1
  /\ next' = [next EXCEPT ![tail] = id] /\ tail' = id
  /\ kring' = Append(kring, id)
  /\ LET W == {r \in Receivers : rx[r] = "waiting"}
     IN rx' = [r \in Receivers |-> IF W # {} /\ r = (CHOOSE w \in W : TRUE) THEN "rearm" ELSE rx[r]]

\* put(id) with h held and n leases; returned_.set() notifies every waiter.
Put(id, h, n) ==
  /\ held' = h \ {id} /\ leases' = n - 1
  /\ next' = [next EXCEPT ![tail] = id] /\ tail' = id
  /\ kring' = Append(kring, id)
  /\ rx' = [r \in Receivers |-> IF rx[r] = "waiting" THEN "rearm" ELSE rx[r]]

\* The consumer destroys a chunk: in its callback, or in another task.
Return(id) ==
  /\ id \in held
  /\ Put(id, held, leases)
  /\ UNCHANGED <<cq, dec, kind, tick, stopped>>

\* poll() dispatches a completion to stream's result, which calls the consumer: of a
\* bundle it is told the first buffer and how many there are.
Dispatch ==
  /\ dec = <<>> /\ cq # <<>>
  /\ LET c == Head(cq)
     IN dec' = [rx |-> c.rx, ids |-> c.ids, shot |-> c.shot, end |-> c.end,
                id |-> IF c.ids = <<>> THEN 0 ELSE c.ids[1]]
  /\ cq' = Tail(cq)
  /\ UNCHANGED <<ringVars, kind, tick, rx, stopped>>

\* Mutant: the buffers of a bundle are taken to be numbered one after the other.
SuccessorById(id) == (id + 1) % Count

\* next_[id], read before the lease is handed out.
Successor(id) == next[id]

\* take(): the buffer is leased.
Lease(id) == held \cup {id}

\* stream::stop, when a callback asks for it or throws.
Stop(r, halt) == [stopped EXCEPT ![r] = @ \/ halt]

\* One round of each(): take the buffer and hand it to the callback, which keeps
\* or destroys the chunk and may ask to stop.  After a stop, or after a callback
\* has thrown, chunks are destroyed at once.
Part(keep, halt) ==
  /\ dec # <<>> /\ dec.ids # <<>>
  /\ stopped[dec.rx] => ~keep /\ ~halt
  /\ IF keep
     THEN /\ held' = Lease(dec.id) /\ leases' = leases + 1
          /\ UNCHANGED <<kring, next, tail, rx>>
     ELSE Put(dec.id, Lease(dec.id), leases + 1)
  /\ stopped' = Stop(dec.rx, halt)
  /\ dec' = [dec EXCEPT !.ids = Tail(@), !.id = Successor(@)]
  /\ UNCHANGED <<cq, kind, tick>>

\* The consumer of ticks counts before it calls; without a limit the count is not used.
Counted(t) == [t EXCEPT !.received = IF t.count = 0 THEN 0 ELSE @ + 1]

\* The consumer of accept, watch or ticks: unless the loop has been stopped, the callback
\* is called; it may ask to stop, or throw.  (A connection that comes later is closed.)
Called(halt) ==
  /\ dec # <<>> /\ dec.shot
  /\ stopped[dec.rx] => ~halt
  /\ tick' = [tick EXCEPT ![dec.rx] = IF stopped[dec.rx] THEN @ ELSE Counted(@)]
  /\ stopped' = Stop(dec.rx, halt)
  /\ dec' = [dec EXCEPT !.shot = FALSE]
  /\ UNCHANGED <<ringVars, cq, kind, rx>>

\* Mutant: a completion that more will follow retires the request.
RetireAny == dec.end

\* With the last completion the request retires, and the loop learns why.
RetireLast == IF dec.end = "more" THEN rx[dec.rx] ELSE dec.end

\* The consumer returns.
Dispatched ==
  /\ dec # <<>> /\ dec.ids = <<>> /\ ~dec.shot
  /\ dec' = <<>>
  /\ rx' = [rx EXCEPT ![dec.rx] = RetireLast]
  /\ UNCHANGED <<ringVars, cq, kind, tick, stopped>>

\* available(): go on if some buffer is not leased, else reset returned_ and wait.
Available(r) == rx' = [rx EXCEPT ![r] = IF leases = Count THEN "waiting" ELSE "armed"]

\* Mutant: the kernel is asked for the whole count again.
RearmedWhole(t) == [t EXCEPT !.armed = t.count]

\* The count of the next request of ticks: what has not been delivered, or no limit.
Rearmed(t) == [t EXCEPT !.armed = IF t.count = 0 THEN 0 ELSE t.count - t.received]

\* When each of the loops returns or throws: it was stopped from inside, or canceled from
\* outside; the peer of receive has closed; ticks has delivered its count.
ReceiveOver(r) == stopped[r] \/ rx[r] \in {"eof", "canceled"}
RecvmsgOver(r) == stopped[r] \/ rx[r] = "canceled"
AcceptOver(r)  == stopped[r] \/ rx[r] = "canceled"
WatchOver(r)   == stopped[r] \/ rx[r] = "canceled"
TicksOver(r)   ==
  stopped[r] \/ rx[r] = "canceled" \/ (tick[r].count # 0 /\ tick[r].received >= tick[r].count)

Over(r) ==
  CASE kind[r] = "recv" -> ReceiveOver(r) [] kind[r] = "recvmsg" -> RecvmsgOver(r)
    [] kind[r] = "accept" -> AcceptOver(r) [] kind[r] = "watch" -> WatchOver(r)
    [] kind[r] = "ticks" -> TicksOver(r)

\* The rest of the loop, once its request is over: return or throw, or submit again, with
\* buffers not before there is one.
Resume(r) ==
  /\ dec = <<>> /\ rx[r] \in Endings \cup {"rearm"}
  /\ IF rx[r] # "rearm" /\ Over(r)
     THEN rx' = [rx EXCEPT ![r] = "idle"] /\ stopped' = [stopped EXCEPT ![r] = FALSE] /\ UNCHANGED tick
     ELSE /\ IF kind[r] \in Leasing THEN Available(r) ELSE rx' = [rx EXCEPT ![r] = "armed"]
          /\ tick' = [tick EXCEPT ![r] = Rearmed(@)]
          /\ UNCHANGED stopped
  /\ UNCHANGED <<ringVars, cq, dec, kind>>

\* A stop ends the wait for a buffer, and with it the loop.
CancelWait(r) ==
  /\ dec = <<>> /\ rx[r] = "waiting"
  /\ rx' = [rx EXCEPT ![r] = "idle"]
  /\ UNCHANGED <<ringVars, cq, dec, kind, tick, stopped>>

\* A loop submits its first request.
Start(r, k, c) ==
  /\ dec = <<>> /\ rx[r] = "idle" /\ k \in KindOf[r] /\ (k # "ticks" => c = 0)
  /\ rx' = [rx EXCEPT ![r] = "armed"] /\ kind' = [kind EXCEPT ![r] = k]
  /\ tick' = [tick EXCEPT ![r] = [count |-> c, received |-> 0, armed |-> c]]
  /\ UNCHANGED <<ringVars, cq, dec, stopped>>

Next ==
  \/ \E r \in Receivers :
       \/ Resume(r) \/ CancelWait(r) \/ \E k \in KindOf[r], c \in 0..Ticks : Start(r, k, c)
       \/ \E end \in {"more", "early"} : Shoot(r, end)
       \/ \E n \in 1..Count, end \in {"more", "early"} : Fill(r, n, end)
       \/ \E end \in Endings \ {"early"} : Terminate(r, end)
  \/ Dispatch \/ Dispatched
  \/ \E keep, halt \in BOOLEAN : Part(keep, halt)
  \/ \E halt \in BOOLEAN : Called(halt)
  \/ \E id \in Ids : Return(id)

Spec == Init /\ [][Next]_vars
-----------------------------------------------------------------------------
Remaining == IF dec = <<>> THEN <<>> ELSE dec.ids

\* Every buffer is in one place: published to the kernel, in a completion that is not
\* decoded yet, or leased and counted in leases_; and each() decodes exactly the buffers
\* the kernel filled, in their order, although chunks come back in any order meanwhile.
\* None is lost and none is published twice, so no lease is overwritten.
BuffersConserved ==
  LET places == <<Range(kring), Range(Remaining), held>>
                  \o [i \in DOMAIN cq |-> Range(cq[i].ids)]
  IN /\ IsInjective(kring)
     /\ UNION Range(places) = Ids /\ leases = Cardinality(held)
     /\ \A i, j \in DOMAIN places : i # j => places[i] \cap places[j] = {}
     /\ Remaining # <<>> => dec.id = Head(Remaining)

\* A receive loop waits only while every buffer is leased: a return that comes
\* between the ENOBUFS and the wait, or during it, is not missed.
NoStall == \A r \in Receivers : rx[r] = "waiting" => leases = Count

\* A loop goes on, or returns, only when its request has no completion to come and none
\* that is not handled: the stream on its frame is drained.
StreamDrained ==
  \A r \in Receivers : rx[r] \notin {"armed", "ended"} =>
    /\ \A i \in DOMAIN cq : cq[i].rx # r
    /\ dec # <<>> => dec.rx # r

\* Ticks posted by the kernel for loop r and not handled yet.
Unhandled(r) ==
  Cardinality({i \in DOMAIN cq : cq[i].rx = r}) + IF dec # <<>> /\ dec.rx = r /\ dec.shot THEN 1 ELSE 0

\* Ticks with a limit are delivered as often as asked: what the kernel will deliver, what
\* waits in the queue and what the callback has had add up to the count across re-arming,
\* and the kernel is never asked for zero more, which means forever.
TicksExact ==
  \A r \in Receivers : kind[r] = "ticks" /\ tick[r].count # 0 /\ rx[r] = "armed" =>
    /\ tick[r].armed > 0
    /\ ~stopped[r] => tick[r].armed + Unhandled(r) + tick[r].received = tick[r].count
=============================================================================
