------------------------------- MODULE Native -------------------------------
(***************************************************************************)
(* Native request objects of src/include/snowy/uring.hpp: uring::op with   *)
(* its pins on registered tables, zero-copy sends awaited as a whole       *)
(* (send_zc) or in two halves (zc_send), and the table of registered       *)
(* buffers with its mirror in user space.                                  *)
(*                                                                         *)
(* A zero-copy send completes twice: the primary completion has the byte   *)
(* count, a later notification says that the kernel has let go of the      *)
(* memory.  A pipelined sender goes on after the first, and the socket's   *)
(* direction is free again then.  The kernel is external.  All sends use   *)
(* one socket.                                                             *)
(***************************************************************************)
EXTENDS Naturals, Sequences, FiniteSets

CONSTANTS Objects,    \* request objects; an identity is reused once its object is gone
          KindOf,     \* what each may be: "fixed" (an op without a socket), "zc" or "split"
          Slots,      \* slots of the buffer table, 1..Slots
          Regions,    \* memory that may be registered
          NoRegion    \* an empty slot

VARIABLES obj,        \* the objects, and the awaiter and the kernel's part of each
          cq,         \* completions poll has not handled
          writing,    \* writing_ of the socket
          pins,       \* active_ of the table
          regions,    \* regions_, what at() hands out
          registered  \* kernel: the table

nativeVars == <<obj, cq, writing, pins, regions, registered>>

Tables == [1..Slots -> Regions \cup {NoRegion}]

\* u is where the object's coroutine is: it has "built" the request; is suspended in
\* "await", "sent" or "join", or queued to go on after it ("awaitq", "sentq", "joinq"); is
\* "mid" between sent() and join(); is "done"; or has caught an exception ("failed").
\* kern: the submission is "queued"; the kernel has the request ("held"), only its memory
\* ("notif"), or nothing more ("free").
Fresh ==
  [kind |-> "fixed", slot |-> 1, mem |-> NoRegion, u |-> "none", kern |-> "no", asked |-> FALSE,
   active |-> FALSE, csent |-> FALSE, canceling |-> FALSE, done |-> FALSE,
   reserved |-> FALSE, out |-> "none", released |-> FALSE]

NativeInit ==
  /\ obj = [o \in Objects |-> Fresh] /\ cq = <<>> /\ writing = FALSE /\ pins = 0
  /\ registered \in Tables /\ regions = registered

Sends == {"zc", "split"}
Directed(o) == obj[o].kind \in Sends
-----------------------------------------------------------------------------
\* The table after the first n regions of new have been put at offset off.
Updated(t, off, new, n) == [i \in 1..Slots |-> IF i \in off + 1..off + n THEN new[i - off] ELSE t[i]]

\* buffers::update throws while objects refer to the table, or out of range.
Updatable(off, new) == pins = 0 /\ off \in 0..Slots /\ Len(new) <= Slots - off

\* The kernel may stop after n regions; the mirror follows.
Update(off, new, n) ==
  /\ Updatable(off, new) /\ n \in 1..Len(new)
  /\ registered' = [i \in 1..Slots |-> IF i \in off + 1..off + n THEN new[i - off] ELSE registered[i]]
  /\ regions' = Updated(regions, off, new, n)
  /\ UNCHANGED <<obj, cq, writing, pins>>

\* buffers::at refuses an empty slot.
At(s) == regions[s]

\* op::op for memory of slot s.  (A request for memory
\* that is not registered differs in having no pin.)
Build(o, k, s) ==
  /\ obj[o].u = "none" /\ At(s) # NoRegion
  /\ obj' = [obj EXCEPT ![o] = [Fresh EXCEPT !.u = "built", !.kind = k, !.slot = s, !.mem = At(s)]]
  /\ pins' = pins + 1
  /\ UNCHANGED <<cq, writing, regions, registered>>

\* ~op and ~io.  Destroying an active request terminates: the caller awaits it first.
Destroy(o) ==
  /\ obj[o].u \in {"built", "mid", "failed", "done"} /\ ~obj[o].active
  /\ obj' = [obj EXCEPT ![o] = Fresh]
  /\ pins' = pins - 1
  /\ writing' = (writing /\ ~obj[o].reserved)
  /\ UNCHANGED <<cq, regions, registered>>
-----------------------------------------------------------------------------
\* Where the coroutine waits after a start that went well, and where it goes after one
\* that was refused: sent() parks first and is notified at once.
Waits(o)   == IF obj[o].kind = "split" THEN "sent" ELSE "await"
Refused(o) == IF obj[o].kind = "split" THEN "sentq" ELSE "failed"

\* io::await_suspend, by co_await of an op or by zc_send::start.
Start(o) ==
  /\ obj[o].u = "built" /\ ~(Directed(o) /\ writing)
  /\ obj' = [obj EXCEPT ![o] = [@ EXCEPT !.u = Waits(o), !.active = TRUE, !.reserved = Directed(o), !.kern = "queued"]]
  /\ writing' = (writing \/ Directed(o))
  /\ UNCHANGED <<cq, pins, regions, registered>>

\* The loop is stopping or the token has been used: an error, and no request.
StartRefused(o) ==
  /\ obj[o].u = "built" /\ ~(Directed(o) /\ writing)
  /\ obj' = [obj EXCEPT ![o] = [@ EXCEPT !.u = Refused(o), !.out = "error", !.released = TRUE]]
  /\ UNCHANGED <<cq, writing, pins, regions, registered>>

\* The direction is in use, or submit fails, which leaves the direction with the object.
StartThrows(o) ==
  /\ obj[o].u = "built"
  /\ LET owns == Directed(o) /\ ~writing IN
       /\ obj' = [obj EXCEPT ![o] = [@ EXCEPT !.u = "failed", !.reserved = owns, !.released = TRUE]]
       /\ writing' = (writing \/ owns)
  /\ UNCHANGED <<cq, pins, regions, registered>>

\* A token is used, and the scan of expire sends a cancel request, once.
Cancel(o) ==
  /\ obj[o].active /\ ~obj[o].csent
  /\ obj' = [obj EXCEPT ![o] = [@ EXCEPT !.csent = TRUE, !.canceling = TRUE, !.asked = TRUE]]
  /\ UNCHANGED <<cq, writing, pins, regions, registered>>
-----------------------------------------------------------------------------
\* The kernel takes the submission, ...
Take(o) ==
  /\ obj[o].kern = "queued" /\ obj' = [obj EXCEPT ![o] = [@ EXCEPT !.kern = "held"]]
  /\ UNCHANGED <<cq, writing, pins, regions, registered>>

\* ... ends the request, with a notification to come if it is a zero-copy send, ...
Post(o, what, res) == cq' = Append(cq, [o |-> o, what |-> what, res |-> res])
Primary(o, res, more) ==
  /\ obj[o].kern = "held" /\ (more => Directed(o))
  /\ obj' = [obj EXCEPT ![o] = [@ EXCEPT !.kern = IF more THEN "notif" ELSE "free"]]
  /\ Post(o, IF more THEN "more" ELSE "last", res)
  /\ UNCHANGED <<writing, pins, regions, registered>>

\* ... lets go of the memory, ...
Notify(o) ==
  /\ obj[o].kern = "notif" /\ obj' = [obj EXCEPT ![o] = [@ EXCEPT !.kern = "free"]]
  /\ Post(o, "notif", "ok") /\ UNCHANGED <<writing, pins, regions, registered>>

\* ... and answers the cancel request.
Answer(o) ==
  /\ obj[o].asked /\ obj[o].kern # "queued" /\ obj' = [obj EXCEPT ![o] = [@ EXCEPT !.asked = FALSE]]
  /\ Post(o, "cancel", "ok") /\ UNCHANGED <<writing, pins, regions, registered>>
-----------------------------------------------------------------------------
\* event::set: a waiter that is suspended is queued, once.  Nobody asks sent_ afterwards.
SetSent(r) == [r EXCEPT !.u = IF @ = "sent" THEN "sentq" ELSE @]
SetReleased(r) == [r EXCEPT !.released = TRUE, !.u = IF @ = "join" THEN "joinq" ELSE @]

\* The result hook of op: a notification carries no result.
OpResult(r, e) ==
  [r EXCEPT !.out = IF e.what = "notif" THEN @ ELSE IF e.res = "ok" THEN "ok" ELSE "error"]

\* Mutant: the direction is given up, but not the object's claim to it.
ResultClaimed(r, e) ==
  IF e.what = "notif" \/ r.kind # "split" THEN OpResult(r, e)
  ELSE IF e.res = "ok" THEN SetSent(OpResult(r, e)) ELSE OpResult(r, e)

\* Mutant: an error is reported with the primary completion.
ResultEarly(r, e) ==
  IF e.what = "notif" \/ r.kind # "split" THEN OpResult(r, e)
  ELSE SetSent([OpResult(r, e) EXCEPT !.reserved = FALSE])

\* That of a split send also gives up the direction, and a success is reported.
Result(r, e) ==
  IF e.what = "notif" \/ r.kind # "split" THEN OpResult(r, e)
  ELSE LET s == [OpResult(r, e) EXCEPT !.reserved = FALSE]
       IN IF e.res = "ok" THEN SetSent(s) ELSE s

\* Mutant: the retire hook only tells who waits for the memory.
RetiredSilent(r) ==
  LET s == [r EXCEPT !.active = FALSE, !.csent = FALSE, !.done = FALSE, !.kern = "no",
                     !.u = IF @ = "await" THEN "awaitq" ELSE @]
  IN IF r.kind = "split" THEN SetReleased(s) ELSE s

\* complete(), which ends the use of the request's flags: the retire hook of a split send
\* sets both events, another request's coroutine is queued.
Retired(r) ==
  LET s == [r EXCEPT !.active = FALSE, !.csent = FALSE, !.done = FALSE, !.kern = "no",
                     !.u = IF @ = "await" THEN "awaitq" ELSE @]
  IN IF r.kind = "split" THEN SetReleased(SetSent(s)) ELSE s

\* poll handles a completion: the object is retired when nothing more will come.
Handle ==
  /\ cq # <<>> /\ cq' = Tail(cq)
  /\ LET e == Head(cq)
         r == obj[e.o]
         s == IF e.what = "cancel" THEN [r EXCEPT !.canceling = FALSE]
              ELSE Result([r EXCEPT !.done = e.what # "more"], e)
     IN /\ obj' = [obj EXCEPT ![e.o] = IF s.done /\ ~s.canceling THEN Retired(s) ELSE s]
        /\ writing' = (writing /\ ~(r.kind = "split" /\ r.reserved /\ e.what \in {"more", "last"}))
  /\ UNCHANGED <<pins, regions, registered>>

\* zc_send::join.
Join(o) ==
  /\ obj[o].u = "mid" /\ obj' = [obj EXCEPT ![o] = [@ EXCEPT !.u = IF obj[o].released THEN "joinq" ELSE "join"]]
  /\ UNCHANGED <<cq, writing, pins, regions, registered>>

\* await_resume: io's gives up the direction and throws the error.
Resume(o) ==
  /\ obj[o].u \in {"awaitq", "sentq", "joinq"}
  /\ LET io == obj[o].u # "joinq" IN
       /\ obj' = [obj EXCEPT ![o] = [@ EXCEPT
                    !.reserved = obj[o].reserved /\ ~io, !.out = "none",
                    !.u = IF io /\ obj[o].out = "error" THEN "failed"
                          ELSE IF obj[o].u = "sentq" THEN "mid" ELSE "done"]]
       /\ writing' = (writing /\ ~(io /\ obj[o].reserved))
  /\ UNCHANGED <<cq, pins, regions, registered>>

Object(o) ==
  \/ \E k \in KindOf[o], s \in 1..Slots : Build(o, k, s)
  \/ Start(o) \/ StartRefused(o) \/ StartThrows(o) \/ Cancel(o) \/ Join(o) \/ Resume(o) \/ Destroy(o)
  \/ Take(o) \/ Notify(o) \/ Answer(o)
  \/ \E res \in {"ok", "error"}, more \in BOOLEAN : Primary(o, res, more)

NativeNext ==
  \/ \E o \in Objects : Object(o)
  \/ Handle
  \/ \E off \in 0..Slots, new \in UNION {[1..n -> Regions \cup {NoRegion}] : n \in 1..Slots}, n \in 1..Slots :
       Update(off, new, n)

\* What goes on by itself: the owner resumes; the kernel takes what is submitted, ends a
\* send sooner or later, and lets go of its memory.
Progress(o) ==
  \/ Take(o) \/ Notify(o) \/ Answer(o) \/ Resume(o)
  \/ \E res \in {"ok", "error"}, more \in BOOLEAN : Primary(o, res, more)
=============================================================================
