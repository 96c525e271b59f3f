----------------------------- MODULE LoopProofs -----------------------------
(***************************************************************************)
(* Proofs of the safety properties of Loop for every set of tasks and      *)
(* threads, every budget and with or without faulting native calls: wakes  *)
(* and cancellations are not lost, and run() leaves nothing behind.  First *)
(* the inductive invariant, how the actions group by what they leave alone, *)
(* and the lemmas about types, counters, phases, callbacks and queues.     *)
(*                                                                         *)
(* Then proofs about the ownership of coroutine frames and about the state *)
(* that spawn, join_handle and sync_wait share (Bridges), for any number   *)
(* of frames and results: every live frame has one owner, no frame is      *)
(* destroyed while it runs or waits, and the state outlives the producer's *)
(* use of it.                                                              *)
(***************************************************************************)
EXTENDS Loop, Bridges, TLAPS

Live == {t \in Tasks : st[t] # "none"}
Holding == {x \in Threads : th[x] = "held"}

\* n is the number of members of S.
Counts(n, S) == n \in Nat /\ \E f \in [1..n -> S] : IsInjective(f) /\ Range(f) = S

\* The two counters count what they stand for.
CountInv == Counts(roots, Live) /\ Counts(holds, Holding)

\* A coroutine runs only inside the message and the resume phase; locals are
\* empty outside their phases; a loop that has thrown is never entered again.
PhaseInv ==
  /\ \A t \in Tasks : st[t] = "running" => pc \in {"messages", "resume"}
  /\ pc # "posts" => batch = <<>>
  /\ pc \notin {"posts", "messages"} => inbox = <<>>
  /\ pc \notin {"scan", "fire", "retire"} => scan = {}
  /\ thrown => pc = "idle"
  /\ pc = "scan" => \A t \in scan : Active(t)
  /\ pc = "fire" => \A t \in scan : st[t] = "timer"
  /\ pc = "retire" => \A t \in scan : st[t] = "io"

ThreadWaking == \E x \in Threads : th[x] = "wake"
CallbackWaking == \E t \in Tasks : cb[t] = "wake"

\* A wake() has been made, or its caller has nothing left to do but make it.
Signalled == event \/ ThreadWaking \/ CallbackWaking

\* Where a queued post, a queued message and an unread cancel_ are noticed.
PostsSeen == posts # <<>> => event \/ pc = "take"
MailSeen ==
  messages # <<>> =>
    \/ event \/ thrown \/ pc \notin {"idle", "decide", "poll"}
    \/ pc = "decide" /\ posted
    \/ pc = "poll" /\ delay = "zero"
CancelSeen == cancel => Signalled \/ pc \in {"take", "posts", "messages", "exchange"}

\* A loop that could leave run() does not sleep, or is about to be woken.
ExitInv ==
  Sleeping /\ roots = 0 /\ Waits = {} /\ Timers = {} /\ Ios = {}
           /\ (holds = 0 \/ stopping)
  => WakeComing

\* An unserved operation is the business of the current scan, or cancel_ is set
\* or about to be set.
CancelInv ==
  \A t \in Tasks : Unserved(t) =>
    \/ cancel \/ thrown \/ cb[t] = "flag"
    \/ \E x \in Threads : th[x] = "flag"
    \/ pc = "load"
    \/ pc = "scan" /\ t \in scan /\ (all \/ "canceled" \in mark[t])

LoopInv ==
  /\ TypeOK /\ CallbackOnLiveOp /\ CountInv /\ PhaseInv /\ OneQueue
  /\ PostsSeen /\ MailSeen /\ CancelSeen /\ ExitInv /\ CancelInv /\ NothingAbandoned
-----------------------------------------------------------------------------
\* The actions, grouped by what they leave alone.

\* Bookkeeping of run(), expire() and poll().
LoopOnly ==
  \/ Run \/ PostsDone \/ MessagesDone \/ Load \/ Due \/ Expired \/ Check \/ Again \/ Block
  \/ Poll \/ Interrupted \/ Throw
Foreign(x) ==
  Post(x) \/ StopFirst(x) \/ StopSecond(x) \/ Hold(x) \/ Release(x) \/ Wake(x)
\* Steps that change only flags of an operation, or its token.
Flagging(t) ==
  \/ RequestStop(t) \/ CallbackStart(t) \/ CallbackMark(t)
  \/ Tick(t) \/ Complete(t)
\* Steps of the owner thread that may finish an operation.
Finishing(t) == Scan(t) \/ Fire(t) \/ Retire(t) \/ Set(t)
\* Every step of one task, its operation, its callback or its carrier.
TaskSide(t) ==
  \/ Flagging(t) \/ Finishing(t) \/ TaskStep(t) \/ Spawn(t) \/ Return(t) \/ Deliver(t)
  \/ CallbackFlag(t) \/ CallbackWake(t)

-----------------------------------------------------------------------------
\* Facts about FIFO queues kept as sequences: which elements they hold and when they hold
\* none twice.  An intrusive queue links a node at most once, so both matter wherever a
\* node changes queues.  And facts about counters that stand for the size of a set.

\* push: ready_queue::push adds its node at the tail.
LEMMA AppendFacts ==
  ASSUME NEW S, NEW s \in Seq(S), NEW e \in S
  PROVE  /\ Append(s, e) \in Seq(S)
         /\ Append(s, e) # <<>>
         /\ Range(Append(s, e)) = Range(s) \cup {e}
         /\ IsInjective(s) /\ e \notin Range(s) => IsInjective(Append(s, e))
<1>1. /\ Append(s, e) \in Seq(S) /\ Len(Append(s, e)) = Len(s) + 1 /\ Len(s) \in Nat
      /\ DOMAIN s = 1..Len(s) /\ DOMAIN Append(s, e) = 1..Len(s) + 1
      /\ \A i \in 1..Len(s) : Append(s, e)[i] = s[i]
      /\ Append(s, e)[Len(s) + 1] = e
  OBVIOUS
<1>2. Append(s, e) # <<>>
  BY <1>1
<1>3. Range(Append(s, e)) = Range(s) \cup {e}
  BY <1>1 DEF Range
<1>4. ASSUME IsInjective(s), e \notin Range(s) PROVE IsInjective(Append(s, e))
  BY <1>1, <1>4 DEF Range, IsInjective
<1> QED
  BY <1>1, <1>2, <1>3, <1>4, Zenon

\* pop: ready_queue::pop removes the head.
LEMMA TailFacts ==
  ASSUME NEW S, NEW s \in Seq(S), s # <<>>
  PROVE  /\ Head(s) \in S /\ Tail(s) \in Seq(S)
         /\ Head(s) \in Range(s)
         /\ Range(s) = {Head(s)} \cup Range(Tail(s))
         /\ IsInjective(s) => IsInjective(Tail(s)) /\ Head(s) \notin Range(Tail(s))
<1>1. /\ Head(s) = s[1] /\ Tail(s) \in Seq(S) /\ Len(Tail(s)) = Len(s) - 1
      /\ Len(s) \in Nat /\ Len(s) > 0
      /\ DOMAIN s = 1..Len(s) /\ DOMAIN Tail(s) = 1..Len(s) - 1
      /\ \A i \in 1..Len(s) - 1 : Tail(s)[i] = s[i + 1]
      /\ s[1] \in S
  OBVIOUS
<1>2. Head(s) \in Range(s)
  BY <1>1 DEF Range
<1>3. Range(s) = {Head(s)} \cup Range(Tail(s))
  <2>1. Range(Tail(s)) \subseteq Range(s)
    BY <1>1 DEF Range
  <2>2. ASSUME NEW i \in 1..Len(s) PROVE s[i] \in {Head(s)} \cup Range(Tail(s))
    <3>1. CASE i = 1
      BY <1>1, <3>1, Zenon
    <3>2. CASE i # 1
      <4>1. i - 1 \in 1..Len(s) - 1 /\ Tail(s)[i - 1] = s[i]
        BY <1>1, <3>2
      <4> QED
        BY <1>1, <4>1, Zenon DEF Range
    <3> QED
      BY <3>1, <3>2, Zenon
  <2> QED
    BY <1>1, <1>2, <2>1, <2>2 DEF Range
<1>4. ASSUME IsInjective(s) PROVE IsInjective(Tail(s)) /\ Head(s) \notin Range(Tail(s))
  BY <1>1, <1>4 DEF Range, IsInjective
<1> QED
  BY <1>1, <1>2, <1>3, <1>4, Zenon

\* An empty queue holds nothing.
LEMMA EmptyRange == Range(<<>>) = {} /\ IsInjective(<<>>)
<1>1. DOMAIN <<>> = {}
  OBVIOUS
<1>2. Range(<<>>) = {}
  BY <1>1, Zenon DEF Range
<1>3. IsInjective(<<>>)
  BY <1>1, Zenon DEF IsInjective
<1> QED
  BY <1>2, <1>3, Zenon

\* A queue that holds nothing is empty.
LEMMA EmptyFacts ==
  ASSUME NEW S, NEW s \in Seq(S)
  PROVE  Range(s) = {} <=> s = <<>>
<1>1. DOMAIN s = 1..Len(s) /\ Len(s) \in Nat
  OBVIOUS
<1>2. ASSUME s # <<>> PROVE s[1] \in Range(s)
  <2>1. 1 \in 1..Len(s)
    BY <1>2
  <2> QED
    BY <1>1, <2>1, Zenon DEF Range
<1> QED
  BY <1>2, EmptyRange, Zenon

\* Two queues read one after the other.
LEMMA ConcatFacts ==
  ASSUME NEW S, NEW s \in Seq(S), NEW u \in Seq(S)
  PROVE  /\ s \o u \in Seq(S)
         /\ Range(s \o u) = Range(s) \cup Range(u)
         /\ \A e \in S : s \o Append(u, e) = Append(s \o u, e)
         /\ s # <<>> => Head(s \o u) = Head(s) /\ Tail(s \o u) = Tail(s) \o u
         /\ (s \o u = <<>> <=> s = <<>> /\ u = <<>>)
         /\ <<>> \o u = u
<1>1. /\ s \o u \in Seq(S) /\ Len(s \o u) = Len(s) + Len(u)
      /\ Len(s) \in Nat /\ Len(u) \in Nat
      /\ DOMAIN s = 1..Len(s) /\ DOMAIN u = 1..Len(u)
      /\ DOMAIN (s \o u) = 1..Len(s) + Len(u)
      /\ \A i \in 1..Len(s) + Len(u) : (s \o u)[i] = IF i <= Len(s) THEN s[i] ELSE u[i - Len(s)]
  OBVIOUS
<1>2. Range(s \o u) = Range(s) \cup Range(u)
  <2>1. Range(s) \subseteq Range(s \o u)
    BY <1>1 DEF Range
  <2>2. ASSUME NEW i \in 1..Len(u) PROVE u[i] \in Range(s \o u)
    <3>1. i + Len(s) \in 1..Len(s) + Len(u) /\ (s \o u)[i + Len(s)] = u[i]
      BY <1>1
    <3> QED
      BY <1>1, <3>1, Zenon DEF Range
  <2>3. ASSUME NEW i \in 1..Len(s) + Len(u) PROVE (s \o u)[i] \in Range(s) \cup Range(u)
    <3>1. CASE i <= Len(s)
      BY <1>1, <3>1 DEF Range
    <3>2. CASE i > Len(s)
      <4>1. i - Len(s) \in 1..Len(u) /\ (s \o u)[i] = u[i - Len(s)]
        BY <1>1, <3>2
      <4> QED
        BY <1>1, <4>1, Zenon DEF Range
    <3> QED
      BY <1>1, <3>1, <3>2
  <2> QED
    BY <1>1, <2>1, <2>2, <2>3, Zenon DEF Range
<1>3. \A e \in S : s \o Append(u, e) = Append(s \o u, e)
  OBVIOUS
<1>4. s # <<>> => Head(s \o u) = Head(s) /\ Tail(s \o u) = Tail(s) \o u
  OBVIOUS
<1>5. (s \o u = <<>> <=> s = <<>> /\ u = <<>>) /\ <<>> \o u = u
  <2>1. s = <<>> <=> Len(s) = 0
    OBVIOUS
  <2>2. u = <<>> <=> Len(u) = 0
    OBVIOUS
  <2>3. s \o u = <<>> <=> Len(s \o u) = 0
    BY <1>1
  <2>4. <<>> \o u = u
    OBVIOUS
  <2> QED
    BY <1>1, <2>1, <2>2, <2>3, <2>4
<1> QED
  BY <1>1, <1>2, <1>3, <1>4, <1>5, Zenon

\* Detaching a prefix and keeping the rest loses and repeats nothing.
LEMMA SplitFacts ==
  ASSUME NEW S, NEW s \in Seq(S), NEW n \in 0..Len(s)
  PROVE  /\ SubSeq(s, 1, n) \in Seq(S) /\ SubSeq(s, n + 1, Len(s)) \in Seq(S)
         /\ SubSeq(s, 1, n) \o SubSeq(s, n + 1, Len(s)) = s
<1>1. Len(s) \in Nat /\ \A i \in 1..Len(s) : s[i] \in S
  OBVIOUS
<1>2. SubSeq(s, 1, n) \in Seq(S) /\ SubSeq(s, n + 1, Len(s)) \in Seq(S)
  BY <1>1
<1>3. SubSeq(s, 1, n) \o SubSeq(s, n + 1, Len(s)) = s
  <2> DEFINE a == SubSeq(s, 1, n)
             b == SubSeq(s, n + 1, Len(s))
  <2>1. /\ Len(a) = n /\ \A i \in 1..n : a[i] = s[i]
        /\ Len(b) = Len(s) - n /\ \A i \in 1..Len(s) - n : b[i] = s[i + n]
    BY <1>1
  <2>2. a \in Seq(S) /\ b \in Seq(S)
    BY <1>2, Zenon
  <2> HIDE DEF a, b
  <2>3. /\ a \o b \in Seq(S) /\ Len(a \o b) = Len(s)
        /\ \A i \in 1..Len(s) : (a \o b)[i] = IF i <= n THEN a[i] ELSE b[i - n]
    BY <1>1, <2>1, <2>2
  <2>4. ASSUME NEW i \in 1..Len(s) PROVE (a \o b)[i] = s[i]
    <3>1. CASE i <= n
      BY <1>1, <2>1, <2>3, <3>1
    <3>2. CASE ~(i <= n)
      <4>1. i - n \in 1..Len(s) - n /\ (i - n) + n = i
        BY <1>1, <3>2
      <4> QED
        BY <2>1, <2>3, <3>2, <4>1, Zenon
    <3> QED
      BY <3>1, <3>2, Zenon
  <2>5. \A c, d \in Seq(S) : Len(c) = Len(d) /\ (\A i \in 1..Len(d) : c[i] = d[i]) => c = d
    OBVIOUS
  <2>6. a \o b = s
    BY <2>3, <2>4, <2>5, Zenon
  <2> QED
    BY <2>6, Zenon DEF a, b
<1> QED
  BY <1>2, <1>3, Zenon

\* A push on the second of two queues.
LEMMA ConcatPush ==
  ASSUME NEW S, NEW s \in Seq(S), NEW u \in Seq(S), NEW e \in S
  PROVE  /\ Range(s \o Append(u, e)) = Range(s \o u) \cup {e}
         /\ IsInjective(s \o u) /\ e \notin Range(s \o u) => IsInjective(s \o Append(u, e))
<1>1. s \o u \in Seq(S) /\ s \o Append(u, e) = Append(s \o u, e)
  BY ConcatFacts
<1>2. ASSUME NEW q \in Seq(S)
      PROVE  /\ Range(Append(q, e)) = Range(q) \cup {e}
             /\ IsInjective(q) /\ e \notin Range(q) => IsInjective(Append(q, e))
  BY AppendFacts
<1> QED
  BY <1>1, <1>2, Zenon

\* A pop of the first of two queues.
LEMMA ConcatPop ==
  ASSUME NEW S, NEW s \in Seq(S), NEW u \in Seq(S), s # <<>>, IsInjective(s \o u)
  PROVE  /\ Range(Tail(s) \o u) = Range(s \o u) \ {Head(s)}
         /\ IsInjective(Tail(s) \o u)
<1>1. /\ s \o u \in Seq(S) /\ s \o u # <<>>
      /\ Head(s \o u) = Head(s) /\ Tail(s \o u) = Tail(s) \o u
  BY ConcatFacts
<1>2. ASSUME NEW q \in Seq(S), q # <<>>, IsInjective(q)
      PROVE  Range(Tail(q)) = Range(q) \ {Head(q)} /\ IsInjective(Tail(q))
  BY <1>2, TailFacts
<1> QED
  BY <1>1, <1>2, Zenon

\* Numbering the members of a set without repetition counts them.
LEMMA Enumerated ==
  ASSUME NEW m \in Nat, NEW T, NEW g \in [1..m -> T],
         \A i, j \in 1..m : g[i] = g[j] => i = j,
         \A x \in T : \E i \in 1..m : g[i] = x
  PROVE  Counts(m, T)
<1>1. DOMAIN g = 1..m /\ \A i \in 1..m : g[i] \in T
  BY Zenon
<1>2. IsInjective(g)
  BY <1>1 DEF IsInjective
<1>3. Range(g) = T
  BY <1>1 DEF Range
<1> QED
  BY <1>2, <1>3, Zenon DEF Counts

\* A counter goes up with a new member, down with an old one, and is zero exactly
\* when nothing is counted.
LEMMA CountFacts ==
  ASSUME NEW n, NEW S, NEW e, Counts(n, S)
  PROVE  /\ n \in Nat /\ n = 0 <=> S = {}
         /\ e \notin S => Counts(n + 1, S \cup {e})
         /\ e \in S => n # 0 /\ Counts(n - 1, S \ {e})
<1>1. PICK f \in [1..n -> S] : IsInjective(f) /\ Range(f) = S
  BY Zenon DEF Counts
<1>2. /\ n \in Nat /\ DOMAIN f = 1..n
      /\ \A i, j \in 1..n : f[i] = f[j] => i = j
      /\ \A x \in S : \E i \in 1..n : f[i] = x
  BY <1>1, Zenon DEF Counts, IsInjective, Range
<1>3. n = 0 <=> S = {}
  BY <1>2
<1>4. ASSUME e \notin S PROVE Counts(n + 1, S \cup {e})
  <2> DEFINE g == [i \in 1..n + 1 |-> IF i = n + 1 THEN e ELSE f[i]]
  <2>1. g \in [1..n + 1 -> S \cup {e}]
    BY <1>2
  <2>2. \A i, j \in 1..n + 1 : g[i] = g[j] => i = j
    BY <1>2, <1>4
  <2>3. \A x \in S \cup {e} : \E i \in 1..n + 1 : g[i] = x
    BY <1>2
  <2> HIDE DEF g
  <2>4. n + 1 \in Nat
    BY <1>2
  <2> QED
    BY <2>1, <2>2, <2>3, <2>4, Enumerated
<1>5. ASSUME e \in S PROVE n # 0 /\ Counts(n - 1, S \ {e})
  <2>1. PICK k \in 1..n : f[k] = e
    BY <1>2, <1>5, Zenon
  <2> DEFINE g == [i \in 1..n - 1 |-> IF i = k THEN f[n] ELSE f[i]]
  <2>2. g \in [1..n - 1 -> S \ {e}]
    BY <1>2, <2>1
  <2>3. \A i, j \in 1..n - 1 : g[i] = g[j] => i = j
    BY <1>2
  <2>4. ASSUME NEW x \in S \ {e} PROVE \E i \in 1..n - 1 : g[i] = x
    <3>1. PICK m \in 1..n : f[m] = x
      BY <1>2, Zenon
    <3>2. m # k
      BY <2>1, <3>1, Zenon
    <3>3. CASE m = n
      BY <1>2, <2>1, <3>1, <3>2, <3>3
    <3>4. CASE m # n
      BY <1>2, <3>1, <3>2, <3>4
    <3> QED
      BY <3>3, <3>4, Zenon
  <2> HIDE DEF g
  <2>5. n # 0 /\ n - 1 \in Nat
    BY <1>2, <2>1
  <2> QED
    BY <2>2, <2>3, <2>4, <2>5, Enumerated
<1> QED
  BY <1>2, <1>3, <1>4, <1>5, Zenon

\* Nothing is counted by zero.
LEMMA CountNone == Counts(0, {})
<1> DEFINE g == [i \in 1..0 |-> 0]
<1>1. g \in [1..0 -> {}] /\ IsInjective(g) /\ Range(g) = {}
  BY DEF IsInjective, Range
<1> QED
  BY <1>1, Zenon DEF Counts
-----------------------------------------------------------------------------
\* What the groups of steps leave alone: moving on in run(), the foreign threads'
\* stores, and the steps that only set a flag of an operation.
LEMMA FrameConditions ==
  /\ LoopOnly => UNCHANGED <<batch, inbox, taskVars, sharedVars, th>>
  /\ \A x \in Threads : Foreign(x) => UNCHANGED <<ownerVars, taskVars, messages>>
  /\ \A t \in Tasks : Flagging(t) =>
       UNCHANGED <<ownerVars, st, ready, roots, error, sharedVars, th>>
<1>1. LoopOnly => UNCHANGED <<batch, inbox, taskVars, sharedVars, th>>
  BY Zenon DEF LoopOnly, Run, PostsDone, MessagesDone, Load, Due, Expired, Check, Again, Block,
         Poll, Interrupted, Throw, taskVars, sharedVars
<1>2. ASSUME NEW x \in Threads, Foreign(x)
      PROVE  UNCHANGED <<ownerVars, taskVars, messages>>
  BY <1>2, Zenon DEF Foreign, Post, StopFirst, StopSecond, Hold, Release, Wake
<1>3. ASSUME NEW t \in Tasks, Flagging(t)
      PROVE  UNCHANGED <<ownerVars, st, ready, roots, error, sharedVars, th>>
  BY <1>3, Zenon DEF Flagging, RequestStop, CallbackStart, CallbackMark, Tick, Complete
<1> QED
  BY <1>1, <1>2, <1>3, Zenon

\* Every step is of one of these forms.
LEMMA Cases ==
  ASSUME [Next]_vars
  PROVE  \/ UNCHANGED vars \/ LoopOnly
         \/ \E x \in Threads : Foreign(x)
         \/ \E t \in Tasks : TaskSide(t)
         \/ \E f \in BOOLEAN : RunPost(f)
         \/ Take \/ RunMessage \/ Exchange \/ Resume \/ Exit \/ Drain
BY Zenon DEF Next, OwnerStep, LoopOnly, Foreign, TaskSide, Flagging, Finishing, Callback

\* roots_ counts the live roots and holds_ the guards: start(), keep_alive() and
\* ~guard pair their increments with their decrements.
LEMMA CountStep ==
  ASSUME TypeOK, CountInv, CallbackOnLiveOp, PhaseInv, OneQueue, [Next]_vars
  PROVE  CountInv' /\ roots' \in Nat /\ holds' \in Nat
<1> USE DEF TypeOK
<1>1. Counts(roots, Live) /\ Counts(holds, Holding) /\ roots \in Nat /\ holds \in Nat
  BY Zenon DEF CountInv
<1>2. ASSUME Live' = Live, Holding' = Holding, roots' = roots, holds' = holds
      PROVE  CountInv' /\ roots' \in Nat /\ holds' \in Nat
  BY <1>1, <1>2, Zenon DEF CountInv
<1>3. ASSUME NEW x \in Threads, Hold(x) PROVE CountInv' /\ roots' \in Nat /\ holds' \in Nat
  <2>1. /\ Holding' = Holding \cup {x} /\ x \notin Holding /\ holds' = holds + 1
        /\ Live' = Live /\ roots' = roots
    BY <1>3, Zenon DEF Hold, Holding, Live, taskVars
  <2>2. Counts(holds + 1, Holding \cup {x})
    BY <1>1, <2>1, CountFacts, Zenon
  <2> QED
    BY <1>1, <2>1, <2>2 DEF CountInv
<1>4. ASSUME NEW x \in Threads, Release(x) PROVE CountInv' /\ roots' \in Nat /\ holds' \in Nat
  <2>1. /\ Holding' = Holding \ {x} /\ x \in Holding /\ holds' = holds - 1
        /\ Live' = Live /\ roots' = roots
    BY <1>4, Zenon DEF Release, Holding, Live, taskVars
  <2>2. holds # 0 /\ Counts(holds - 1, Holding \ {x})
    BY <1>1, <2>1, CountFacts, Zenon
  <2> QED
    BY <1>1, <2>1, <2>2 DEF CountInv
<1>5. ASSUME NEW t \in Tasks, Spawn(t) PROVE CountInv' /\ roots' \in Nat /\ holds' \in Nat
  <2>1. /\ Live' = Live \cup {t} /\ t \notin Live /\ roots' = roots + 1
        /\ Holding' = Holding /\ holds' = holds
    BY <1>5, Zenon DEF Spawn, Holding, Live, sharedVars
  <2>2. Counts(roots + 1, Live \cup {t})
    BY <1>1, <2>1, CountFacts, Zenon
  <2> QED
    BY <1>1, <2>1, <2>2 DEF CountInv
<1>6. ASSUME NEW t \in Tasks, NEW f \in BOOLEAN, End(t, f)
      PROVE  CountInv' /\ roots' \in Nat /\ holds' \in Nat
  <2>1. /\ Live' = Live \ {t} /\ t \in Live /\ roots' = roots - 1
        /\ Holding' = Holding /\ holds' = holds
    BY <1>6, Zenon DEF End, Holding, Live
  <2>2. roots # 0 /\ Counts(roots - 1, Live \ {t})
    BY <1>1, <2>1, CountFacts, Zenon
  <2> QED
    BY <1>1, <2>1, <2>2 DEF CountInv
<1>7. ASSUME LoopOnly PROVE CountInv' /\ roots' \in Nat /\ holds' \in Nat
  BY <1>2, <1>7, FrameConditions, Zenon DEF Live, Holding, taskVars, sharedVars
<1>8. ASSUME NEW x \in Threads, Post(x) \/ StopFirst(x) \/ StopSecond(x) \/ Wake(x)
      PROVE  CountInv' /\ roots' \in Nat /\ holds' \in Nat
  BY <1>2, <1>8, Zenon DEF Post, StopFirst, StopSecond, Wake, Live, Holding, taskVars
<1>9. ASSUME NEW t \in Tasks,
             \/ Flagging(t) \/ Return(t) \/ Deliver(t) \/ CallbackFlag(t) \/ CallbackWake(t)
             \/ Yield(t) \/ Leave(t) \/ \E k \in Kinds : Await(t, k)
      PROVE  CountInv' /\ roots' \in Nat /\ holds' \in Nat
  BY <1>2, <1>9, FrameConditions, KindsKnown, Zenon
     DEF Return, Deliver, CallbackFlag, CallbackWake, Yield, Leave, Await, AllKinds, Live,
         Holding, sharedVars
<1>10. ASSUME NEW t \in Tasks, Finishing(t)
       PROVE  CountInv' /\ roots' \in Nat /\ holds' \in Nat
  <2>1. Active(t)
    BY <1>10, Zenon DEF Finishing, Scan, Fire, Retire, Set, Active, AllKinds, PhaseInv
  <2> QED
    BY <1>2, <1>10, <2>1, Zenon
       DEF Finishing, Scan, Fire, Retire, Set, Finish, Active, AllKinds, Live, Holding, sharedVars
<1>11. CASE RunMessage
  <2>1. Head(inbox) \in Tasks
    BY <1>11, TailFacts, Zenon DEF RunMessage
  <2> QED
    BY <1>2, <1>11, <2>1, Zenon DEF RunMessage, Finish, Active, AllKinds, Live, Holding, sharedVars
<1>12. CASE Resume
  <2>1. Head(ready) \in Tasks /\ st[Head(ready)] = "ready"
    BY <1>12, TailFacts, Zenon DEF Resume, OneQueue
  <2> QED
    BY <1>2, <1>12, <2>1, Zenon DEF Resume, Live, Holding, sharedVars
<1>13. CASE UNCHANGED vars \/ Take \/ Exchange \/ Exit \/ Drain \/ \E f \in BOOLEAN : RunPost(f)
  BY <1>2, <1>13, Zenon
    DEF vars, taskVars, sharedVars, Take, Exchange, Exit, Drain, RunPost, Live, Holding
<1> HIDE DEF TypeOK
<1> QED
  BY Cases, <1>3, <1>4, <1>5, <1>6, <1>7, <1>8, <1>9, <1>10, <1>11, <1>12, <1>13, Zenon
     DEF Foreign, TaskSide, TaskStep
-----------------------------------------------------------------------------
\* What the head of a queue is: ready() resumes only ready tasks, and a message is
\* a hop or the delivery of a remote_wait that is still waiting for it.
LEMMA Heads ==
  ASSUME TypeOK, OneQueue
  PROVE  /\ ready # <<>> => Head(ready) \in Tasks /\ st[Head(ready)] = "ready"
         /\ inbox # <<>> =>
              /\ Head(inbox) \in Tasks
              /\ \/ st[Head(inbox)] = "mail"
                 \/ st[Head(inbox)] = "remote" /\ "linked" \notin mark[Head(inbox)]
<1>1. ready # <<>> => Head(ready) \in Tasks /\ st[Head(ready)] = "ready"
  BY TailFacts, Zenon DEF TypeOK, OneQueue
<1>2. ASSUME inbox # <<>>
      PROVE  Head(inbox) \in Tasks /\ Head(inbox) \in Range(inbox \o messages)
  BY <1>2, TailFacts, ConcatFacts, SMTT(30) DEF TypeOK
<1> QED
  BY <1>1, <1>2, Zenon DEF OneQueue

\* Every step keeps every field of the loop in its type.
LEMMA TypeStep ==
  ASSUME TypeOK, CountInv, CallbackOnLiveOp, PhaseInv, OneQueue, [Next]_vars
  PROVE  TypeOK'
<1> USE KindsKnown, BudgetPositive
    DEF TypeOK, PCs, Places, AllKinds, CbStates, Marks, ownerVars, taskVars, sharedVars
<1>1. roots' \in Nat /\ holds' \in Nat
  BY CountStep, Zenon
<1>2. CASE LoopOnly
  <2>1. CASE Due
    BY <2>1, Zenon DEF Due, Timers
  <2>2. CASE Poll
    BY <2>2, Zenon DEF Poll, Completed, Ios
  <2>9. CASE Interrupted
    BY <2>9, Zenon DEF Interrupted, Completed, Ios
  <2>3. CASE Load
    BY <2>3, Zenon DEF Load
  <2>4. CASE Throw
    BY <2>4, Zenon DEF Throw
  <2>5. CASE Run \/ PostsDone \/ MessagesDone \/ Expired
    BY <2>5, SMTT(30) DEF Run, PostsDone, MessagesDone, Expired
  <2>6. CASE Check
    BY <2>6 DEF Check
  <2>7. CASE Again
    BY <2>7, Zenon DEF Again
  <2>8. CASE Block
    <3>1. delay' \in {"zero", "timed", "forever"}
      BY <2>8, Zenon DEF Block
    <3> QED
      BY <2>8, <3>1, Zenon DEF Block
  <2> QED
    BY <1>2, <2>1, <2>2, <2>3, <2>4, <2>5, <2>6, <2>7, <2>8, <2>9, Zenon DEF LoopOnly
<1>3. ASSUME NEW x \in Threads, Foreign(x) PROVE TypeOK'
  <2>1. CASE Post(x)
    BY <2>1, AppendFacts DEF Post
  <2>2. CASE StopFirst(x)
    BY <2>2 DEF StopFirst
  <2>3. CASE StopSecond(x)
    BY <2>3 DEF StopSecond
  <2>4. CASE Wake(x)
    BY <2>4 DEF Wake
  <2>5. CASE Hold(x)
    BY <2>5, <1>1 DEF Hold
  <2>6. CASE Release(x)
    BY <2>6, <1>1 DEF Release
  <2> QED
    BY <1>3, <2>1, <2>2, <2>3, <2>4, <2>5, <2>6, Zenon DEF Foreign
<1>4. ASSUME NEW t \in Tasks, Flagging(t) \/ CallbackFlag(t) \/ CallbackWake(t) PROVE TypeOK'
  <2>1. CASE RequestStop(t)
    BY <2>1 DEF RequestStop
  <2>2. CASE CallbackStart(t)
    BY <2>2 DEF CallbackStart
  <2>3. CASE CallbackMark(t)
    BY <2>3 DEF CallbackMark
  <2>4. CASE Tick(t)
    BY <2>4 DEF Tick
  <2>5. CASE Complete(t)
    BY <2>5 DEF Complete
  <2>6. CASE CallbackFlag(t)
    BY <2>6 DEF CallbackFlag
  <2>7. CASE CallbackWake(t)
    BY <2>7 DEF CallbackWake
  <2> QED
    BY <1>4, <2>1, <2>2, <2>3, <2>4, <2>5, <2>6, <2>7, Zenon DEF Flagging
<1>5. ASSUME NEW t \in Tasks, Finish(t)
      PROVE  /\ cb' \in [Tasks -> CbStates] /\ mark' \in [Tasks -> SUBSET Marks]
             /\ st' \in [Tasks -> Places \cup AllKinds] /\ ready' \in Seq(Tasks)
  BY <1>5, AppendFacts, Zenon DEF Finish
<1>6. ASSUME NEW t \in Tasks, Finishing(t) PROVE TypeOK'
  <2>1. CASE Scan(t)
    <3>1. CASE Finish(t)
      BY <1>5, <2>1, <3>1, SMTT(30) DEF Scan
    <3>2. CASE /\ mark' = [mark EXCEPT ![t] = @ \cup {"sent"}]
               /\ UNCHANGED <<st, cb, ready>>
      BY <2>1, <3>2, SMTT(30) DEF Scan
    <3>3. CASE UNCHANGED <<st, cb, mark, ready>>
      BY <2>1, <3>3, SMTT(30) DEF Scan
    <3> QED
      BY <2>1, <3>1, <3>2, <3>3, Zenon DEF Scan
  <2>2. CASE Fire(t) \/ Retire(t) \/ Set(t)
    BY <1>5, <2>2, SMTT(30) DEF Fire, Retire, Set
  <2> QED
    BY <1>6, <2>1, <2>2, Zenon DEF Finishing
<1>7. ASSUME NEW t \in Tasks, TaskStep(t) PROVE TypeOK'
  <2>1. CASE Yield(t)
    BY <2>1, AppendFacts DEF Yield
  <2>4. CASE Leave(t)
    BY <2>4, AppendFacts, SMTT(30) DEF Leave
  <2>2. ASSUME NEW k \in Kinds, Await(t, k) PROVE TypeOK'
    BY <2>2 DEF Await
  <2>3. ASSUME NEW f \in BOOLEAN, End(t, f) PROVE TypeOK'
    <3>1. CASE f
      BY <1>1, <2>3, <3>1, SMTT(30) DEF End, StopHere
    <3>2. CASE ~f
      BY <1>1, <2>3, <3>2 DEF End
    <3> QED
      BY <3>1, <3>2, Zenon
  <2> QED
    BY <1>7, <2>1, <2>2, <2>3, <2>4, Zenon DEF TaskStep
<1>8. ASSUME NEW t \in Tasks, Spawn(t) \/ Return(t) \/ Deliver(t) PROVE TypeOK'
  <2>1. CASE Spawn(t)
    BY <2>1, <1>1, AppendFacts, SMTT(30) DEF Spawn
  <2>2. CASE Return(t)
    BY <2>2, <1>1, AppendFacts, SMTT(30) DEF Return, Send
  <2>3. CASE Deliver(t)
    BY <2>3, <1>1, AppendFacts DEF Deliver, Send
  <2> QED
    BY <1>8, <2>1, <2>2, <2>3, Zenon
<1>9. ASSUME NEW f \in BOOLEAN, RunPost(f) PROVE TypeOK'
  <2>1. batch' \in Seq(Threads)
    BY <1>9, TailFacts, Zenon DEF RunPost
  <2>2. error' \in BOOLEAN /\ stopping' \in BOOLEAN /\ cancel' \in BOOLEAN /\ event' \in BOOLEAN
    BY <1>9, Zenon DEF RunPost, StopHere
  <2> QED
    BY <1>9, <2>1, <2>2, Zenon DEF RunPost
<1>10. CASE Take
  <2>1. Smaller(Budget, Len(messages)) \in 0..Len(messages)
    BY DEF Smaller
  <2>2. inbox' \in Seq(Tasks) /\ messages' \in Seq(Tasks)
    BY <1>10, <2>1, SplitFacts, Zenon DEF Take
  <2> QED
    BY <1>10, <2>2, SMTT(30) DEF Take
<1>11. CASE RunMessage
  <2>1. inbox' \in Seq(Tasks) /\ Head(inbox) \in Tasks
    BY <1>11, TailFacts, Zenon DEF RunMessage
  <2>2. CASE Finish(Head(inbox))
    BY <1>5, <1>11, <2>1, <2>2, SMTT(30) DEF RunMessage
  <2>3. CASE /\ st' = [st EXCEPT ![Head(inbox)] = "running"]
             /\ UNCHANGED <<cb, mark, ready>>
    BY <1>11, <2>1, <2>3 DEF RunMessage
  <2>4. CASE UNCHANGED <<st, cb, mark, ready>>
    BY <1>11, <2>1, <2>4, ZenonT(40) DEF RunMessage
  <2> QED
    BY <1>11, <2>2, <2>3, <2>4, Zenon DEF RunMessage
<1>12. CASE Resume
  BY <1>12, TailFacts DEF Resume
<1>13. CASE Exchange
  <2>1. pc' \in PCs /\ cancel' \in BOOLEAN
    BY <1>13, Zenon DEF Exchange
  <2> QED
    BY <1>13, <2>1, ZenonT(40) DEF Exchange
<1>14. CASE Exit
  BY <1>14, ZenonT(40) DEF Exit
<1>15. CASE Drain
  BY <1>15, Zenon DEF Drain
<1>16. CASE UNCHANGED vars
  BY <1>16 DEF vars
<1> HIDE DEF TypeOK, PCs, Places, AllKinds, CbStates, Marks, ownerVars, taskVars, sharedVars
<1> QED
  BY Cases, <1>2, <1>3, <1>4, <1>6, <1>7, <1>8, <1>9, <1>10, <1>11, <1>12, <1>13, <1>14, <1>15, <1>16,
    Zenon
     DEF TaskSide

\* arm() registers a stop callback together with active, and finish() resets it
\* before it clears active.
LEMMA CallbackStep ==
  ASSUME TypeOK, CallbackOnLiveOp, PhaseInv, OneQueue, [Next]_vars
  PROVE  CallbackOnLiveOp'
<1> USE DEF TypeOK, CallbackOnLiveOp, Active, AllKinds
<1>1. CASE LoopOnly \/ \E x \in Threads : Foreign(x)
  BY <1>1, FrameConditions, Zenon DEF taskVars
<1>2. ASSUME NEW t \in Tasks, Flagging(t) \/ CallbackFlag(t) \/ CallbackWake(t)
      PROVE  CallbackOnLiveOp'
  BY <1>2, Zenon DEF Flagging, RequestStop, CallbackStart, CallbackMark, Tick, Complete,
              CallbackFlag, CallbackWake
<1>3. ASSUME NEW t \in Tasks, Finishing(t) PROVE CallbackOnLiveOp'
  BY <1>3, Zenon DEF Finishing, Scan, Fire, Retire, Set, Finish
<1>4. ASSUME NEW t \in Tasks, TaskStep(t) PROVE CallbackOnLiveOp'
  BY <1>4, KindsKnown, Zenon DEF TaskStep, Yield, Leave, Await, End
<1>5. ASSUME NEW t \in Tasks, Spawn(t) \/ Return(t) \/ Deliver(t) PROVE CallbackOnLiveOp'
  BY <1>5, Zenon DEF Spawn, Return, Deliver
<1>6. CASE RunMessage
  BY <1>6, Heads, Zenon DEF RunMessage, Finish
<1>7. CASE Resume
  BY <1>7, Heads, Zenon DEF Resume
<1>8. CASE Take \/ Exchange \/ Exit \/ Drain \/ UNCHANGED vars \/ \E f \in BOOLEAN : RunPost(f)
  BY <1>8, Zenon DEF Take, Exchange, Exit, Drain, RunPost, vars, taskVars
<1> HIDE DEF TypeOK, CallbackOnLiveOp, Active, AllKinds
<1> QED
  BY Cases, <1>1, <1>2, <1>3, <1>4, <1>5, <1>6, <1>7, <1>8, Zenon
     DEF TaskSide

\* What a local of run(), expire() or poll() holds at each place of run(): the
\* operations still to be scanned, fired or retired are active.
LEMMA PhaseStep ==
  ASSUME TypeOK, PhaseInv, OneQueue, [Next]_vars
  PROVE  PhaseInv'
<1>1. ASSUME UNCHANGED <<pc, batch, inbox, scan, thrown, st>> PROVE PhaseInv'
  BY <1>1, Zenon DEF PhaseInv, Active
<1>2. ASSUME UNCHANGED <<pc, batch, inbox, scan, thrown>>, scan = {},
             \A t \in Tasks : st'[t] = "running" => pc \in {"messages", "resume"}
      PROVE  PhaseInv'
  BY <1>2, Zenon DEF PhaseInv
<1>3. pc \in {"messages", "resume", "idle"} => scan = {}
  BY Zenon DEF PhaseInv
<1>4. CASE LoopOnly
  <2>1. UNCHANGED <<st, batch, inbox>>
    BY <1>4, FrameConditions, Zenon DEF taskVars
  <2>2. CASE Run \/ PostsDone \/ MessagesDone \/ Expired
    BY <2>1, <2>2, SMTT(30) DEF Run, PostsDone, MessagesDone, Expired, Free, PhaseInv
  <2>3. CASE Load \/ Due
    BY <2>1, <2>3 DEF Load, Due, Timers, PhaseInv, Active
  <2>4. CASE Check \/ Again \/ Block
    BY <2>1, <2>4, SMTT(30) DEF Check, Again, Block, Free, PhaseInv
  <2>5. CASE Poll \/ Interrupted
    BY <2>1, <2>5 DEF Poll, Interrupted, Completed, Ios, PhaseInv
  <2>6. CASE Throw
    BY <2>1, <2>6, Zenon DEF Throw, PhaseInv
  <2> QED
    BY <1>4, <2>2, <2>3, <2>4, <2>5, <2>6, Zenon DEF LoopOnly
<1>5. ASSUME NEW x \in Threads, Foreign(x) PROVE PhaseInv'
  BY <1>1, <1>5, FrameConditions, Zenon DEF ownerVars, taskVars
<1>6. ASSUME NEW t \in Tasks, Flagging(t) PROVE PhaseInv'
  BY <1>1, <1>6, FrameConditions, Zenon DEF ownerVars
<1>7. ASSUME NEW t \in Tasks, CallbackFlag(t) \/ CallbackWake(t) PROVE PhaseInv'
  <2>1. UNCHANGED <<ownerVars, st>>
    BY <1>7, Zenon DEF CallbackFlag, CallbackWake
  <2> QED
    BY <1>1, <2>1, Zenon DEF ownerVars
<1>8. ASSUME NEW t \in Tasks, Finishing(t) PROVE PhaseInv'
  <2>1. CASE Scan(t)
    BY <2>1, Zenon DEF Scan, Finish, TypeOK, PhaseInv, Active, AllKinds
  <2>2. CASE Fire(t)
    BY <2>2, Zenon DEF Fire, Finish, TypeOK, PhaseInv, Active, AllKinds
  <2>3. CASE Retire(t)
    BY <2>3, Zenon DEF Retire, Finish, TypeOK, PhaseInv, Active, AllKinds
  <2>4. CASE Set(t)
    BY <2>4, Zenon DEF Set, Finish, UserCode, Free, ownerVars, TypeOK, PhaseInv, Active, AllKinds
  <2> QED
    BY <1>8, <2>1, <2>2, <2>3, <2>4, Zenon DEF Finishing
<1>9. ASSUME NEW t \in Tasks, TaskStep(t) \/ Spawn(t) \/ Return(t) \/ Deliver(t) PROVE PhaseInv'
  <2>1. UNCHANGED ownerVars
    BY <1>9, Zenon DEF TaskStep, Yield, Leave, Await, End, Spawn, Return, Deliver
  <2>2. CASE TaskStep(t)
    <3>1. pc \in {"messages", "resume"}
      BY <2>2, Zenon DEF TaskStep, Yield, Leave, Await, End, PhaseInv
    <3> QED
      BY <1>2, <1>3, <2>1, <3>1, Zenon DEF ownerVars
  <2>3. CASE Spawn(t)
    BY <2>1, <2>3, SMTT(30) DEF Spawn, UserCode, Free, ownerVars, TypeOK, PhaseInv, Active, AllKinds
  <2>4. CASE Return(t)
    BY <2>1, <2>4, SMTT(30) DEF Return, ownerVars, TypeOK, PhaseInv, Active, AllKinds
  <2>5. CASE Deliver(t)
    BY <2>1, <2>5 DEF Deliver, ownerVars, TypeOK, PhaseInv, Active, AllKinds
  <2> QED
    BY <1>9, <2>2, <2>3, <2>4, <2>5, Zenon
<1>10. CASE RunMessage
  BY <1>10, Heads, Zenon DEF RunMessage, Finish, TypeOK, PhaseInv, Active, AllKinds
<1>11. CASE Resume
  BY <1>11, Heads, Zenon DEF Resume, TypeOK, PhaseInv, Active, AllKinds
<1>12. CASE Take \/ Exchange
  BY <1>12 DEF Take, Exchange, taskVars, PhaseInv, Active
<1>13. CASE Exit \/ Drain
  BY <1>13 DEF Exit, Drain, taskVars, PhaseInv, Active
<1>14. CASE UNCHANGED vars
  BY <1>1, <1>14, Zenon DEF vars, ownerVars, taskVars
<1>15. ASSUME NEW f \in BOOLEAN, RunPost(f) PROVE PhaseInv'
  BY <1>15, Zenon DEF RunPost, PhaseInv, Active
<1> QED
  BY Cases, <1>4, <1>5, <1>6, <1>7, <1>8, <1>9, <1>10, <1>11, <1>12, <1>13, <1>14, <1>15, Zenon
     DEF TaskSide
-----------------------------------------------------------------------------
\* push and pop keep ready_ and the message queues free of duplicates and in step
\* with where the tasks are.
LEMMA QueueStep ==
  ASSUME TypeOK, PhaseInv, OneQueue, [Next]_vars
  PROVE  OneQueue'
<1> DEFINE mail ==
             {t \in Tasks : st[t] = "mail" \/ (st[t] = "remote" /\ "linked" \notin mark[t])}
           due == {t \in Tasks : st[t] = "ready"}
<1> USE DEF TypeOK, OneQueue
<1>1. ASSUME UNCHANGED <<ready, inbox, messages>>, due' = due, mail' = mail
      PROVE  OneQueue'
  BY <1>1, Zenon
<1>3. ASSUME NEW t \in Tasks, UNCHANGED <<inbox, messages>>, mail' = mail,
             ready' = Append(ready, t), t \notin due, due' = due \cup {t}
      PROVE  OneQueue'
  BY <1>3, AppendFacts, SMTT(30)
<1>4. ASSUME NEW t \in Tasks, UNCHANGED <<ready, inbox>>, due' = due, Send(t),
             t \notin mail, mail' = mail \cup {t}
      PROVE  OneQueue'
  BY <1>4, ConcatPush, SMTT(30) DEF Send
<1>5. CASE LoopOnly
  BY <1>1, <1>5, FrameConditions, Zenon DEF taskVars, sharedVars
<1>6. ASSUME NEW x \in Threads, Foreign(x) PROVE OneQueue'
  BY <1>1, <1>6, FrameConditions, Zenon DEF taskVars, ownerVars
<1>7. ASSUME NEW t \in Tasks, Flagging(t) \/ CallbackFlag(t) \/ CallbackWake(t)
      PROVE  OneQueue'
  <2>1. \/ UNCHANGED mark
        \/ \E f \in Marks \ {"linked"} : mark' = [mark EXCEPT ![t] = @ \cup {f}]
    BY <1>7, Zenon DEF Flagging, RequestStop, CallbackStart, CallbackMark, Tick, Complete,
                CallbackFlag, CallbackWake, Marks
  <2>2. UNCHANGED <<st, ready, inbox, messages>>
    BY <1>7, FrameConditions, Zenon DEF CallbackFlag, CallbackWake, ownerVars, sharedVars
  <2>3. \A u \in Tasks : "linked" \in mark'[u] <=> "linked" \in mark[u]
    <3>1. CASE UNCHANGED mark
      BY <3>1, Zenon
    <3>2. ASSUME NEW f \in Marks \ {"linked"}, mark' = [mark EXCEPT ![t] = @ \cup {f}]
          PROVE  \A u \in Tasks : "linked" \in mark'[u] <=> "linked" \in mark[u]
      <4> SUFFICES ASSUME NEW u \in Tasks PROVE "linked" \in mark'[u] <=> "linked" \in mark[u]
        BY Zenon
      <4>1. CASE u = t
        BY <3>2, <4>1, Zenon
      <4>2. CASE u # t
        BY <3>2, <4>2, Zenon
      <4> QED
        BY <4>1, <4>2, Zenon
    <3> QED
      BY <2>1, <3>1, <3>2, Zenon
  <2>4. mail' = mail
    BY <2>2, <2>3, Zenon
  <2> QED
    BY <1>1, <2>2, <2>4, Zenon
<1>8. ASSUME NEW t \in Tasks, t \notin mail, Active(t), Finish(t), UNCHANGED <<inbox, messages>>
      PROVE  OneQueue'
  <2>1. t \notin due /\ due' = due \cup {t} /\ mail' = mail
    BY <1>8 DEF Active, AllKinds, Finish
  <2> QED
    BY <1>3, <1>8, <2>1, Zenon DEF Finish
<1>9. ASSUME NEW t \in Tasks, Finishing(t) PROVE OneQueue'
  <2>1. Active(t) /\ UNCHANGED <<inbox, messages>>
    BY <1>9, Zenon DEF Finishing, Scan, Fire, Retire, Set, PhaseInv, Active, AllKinds, ownerVars,
                sharedVars
  <2>2. CASE Finish(t)
    <3>1. t \notin mail
      BY <1>9, <2>1, <2>2, Zenon
        DEF Finishing, Scan, Fire, Retire, Set, PhaseInv, Finish, Active, AllKinds
    <3> QED
      BY <1>8, <2>1, <2>2, <3>1, Zenon
  <2>3. CASE Scan(t) /\ ~Finish(t)
    <3>1. UNCHANGED <<st, ready>> /\ mail' = mail
      BY <2>3, Zenon DEF Scan
    <3> QED
      BY <1>1, <2>1, <3>1, Zenon
  <2> QED
    BY <1>9, <2>2, <2>3, Zenon DEF Finishing, Fire, Retire, Set
<1>10. ASSUME NEW t \in Tasks, Yield(t) \/ Spawn(t) PROVE OneQueue'
  <2>1. t \notin due /\ due' = due \cup {t} /\ mail' = mail /\ UNCHANGED <<inbox, messages>>
    BY <1>10, SMTT(30) DEF Yield, Spawn, ownerVars, sharedVars
  <2> QED
    BY <1>3, <1>10, <2>1, Zenon DEF Yield, Spawn
<1>11. ASSUME NEW t \in Tasks, \/ Leave(t) \/ \E k \in Kinds : Await(t, k)
                               \/ \E f \in BOOLEAN : End(t, f)
       PROVE  OneQueue'
  <2>1. due' = due /\ mail' = mail
    BY <1>11, KindsKnown, SMTT(30) DEF Leave, Await, End, AllKinds
  <2> QED
    BY <1>1, <1>11, <2>1, Zenon DEF Leave, Await, End, ownerVars, sharedVars
<1>12. ASSUME NEW t \in Tasks, Return(t) \/ Deliver(t) PROVE OneQueue'
  <2>1. t \notin mail /\ mail' = mail \cup {t} /\ due' = due
    BY <1>12, SMTT(30) DEF Return, Deliver
  <2> QED
    BY <1>4, <1>12, <2>1, Zenon DEF Return, Deliver, ownerVars
<1>13. CASE Take
  <2>1. Smaller(Budget, Len(messages)) \in 0..Len(messages)
    BY BudgetPositive DEF Smaller
  <2>2. inbox' \o messages' = messages
    BY <1>13, <2>1, SplitFacts, Zenon DEF Take
  <2>3. inbox \o messages = messages
    BY <1>13, ConcatFacts, Zenon DEF Take, PhaseInv
  <2> QED
    BY <1>13, <2>2, <2>3, Zenon DEF Take, taskVars
<1>14. CASE RunMessage
  <2> DEFINE t == Head(inbox)
  <2>1. t \in Tasks /\ t \in mail /\ inbox # <<>> /\ UNCHANGED messages
    BY <1>14, Heads, Zenon DEF RunMessage, sharedVars
  <2>3. /\ IsInjective(inbox' \o messages')
        /\ Range(inbox' \o messages') = mail \ {t}
    BY <1>14, <2>1, ConcatPop DEF RunMessage
  <2>4. mail' = mail \ {t}
    BY <1>14, <2>1, Zenon DEF RunMessage, Finish, Active, AllKinds
  <2>5. IsInjective(ready') /\ Range(ready') = due'
    <3>1. CASE st[t] = "mail"
      BY <1>14, <2>1, <3>1, SMTT(30) DEF RunMessage
    <3>2. CASE st[t] # "mail"
      <4>1. Finish(t) /\ t \notin due /\ due' = due \cup {t}
        BY <1>14, <2>1, <3>2, SMTT(30) DEF RunMessage, Finish, Active, AllKinds
      <4> QED
        BY <2>1, <4>1, AppendFacts, SMTT(30) DEF Finish
    <3> QED
      BY <3>1, <3>2, Zenon
  <2> QED
    BY <2>3, <2>4, <2>5, Zenon
<1>15. CASE Resume
  <2>1. Head(ready) \in due /\ due' = due \ {Head(ready)} /\ mail' = mail
    BY <1>15, Heads, Zenon DEF Resume
  <2>2. IsInjective(ready') /\ Range(ready') = due'
    BY <1>15, <2>1, TailFacts, SMTT(30) DEF Resume
  <2> QED
    BY <1>15, <2>1, <2>2, Zenon DEF Resume, sharedVars
<1>16. CASE Exchange \/ Exit \/ Drain \/ UNCHANGED vars \/ \E f \in BOOLEAN : RunPost(f)
  BY <1>1, <1>16, ZenonT(40) DEF Exchange, Exit, Drain, RunPost, vars, taskVars, ownerVars, sharedVars
<1> HIDE DEF TypeOK, OneQueue
<1> QED
  BY Cases, <1>5, <1>6, <1>7, <1>9, <1>10, <1>11, <1>12, <1>13, <1>14, <1>15, <1>16, Zenon
     DEF TaskSide, TaskStep
-----------------------------------------------------------------------------
\* Only the read of the wake source in poll() takes a signal back.
LEMMA WakeStays ==
  ASSUME TypeOK, CallbackOnLiveOp, PhaseInv, OneQueue, [Next]_vars, ~Drain
  PROVE  (Signalled => Signalled') /\ (WakeComing => WakeComing')
<1> USE DEF TypeOK, Signalled, ThreadWaking, CallbackWaking, WakeComing
<1>1. CASE LoopOnly
  BY <1>1, FrameConditions DEF taskVars, sharedVars
<1>2. ASSUME NEW x \in Threads, Foreign(x)
      PROVE  (Signalled => Signalled') /\ (WakeComing => WakeComing')
  BY <1>2, Zenon DEF Foreign, Post, StopFirst, StopSecond, Hold, Release, Wake, taskVars
<1>3. ASSUME NEW t \in Tasks, Flagging(t) \/ CallbackFlag(t) \/ CallbackWake(t)
      PROVE  (Signalled => Signalled') /\ (WakeComing => WakeComing')
  BY <1>3, Zenon DEF Flagging, RequestStop, CallbackStart, CallbackMark, Tick, Complete,
              CallbackFlag, CallbackWake, sharedVars
<1>4. ASSUME NEW t \in Tasks, Finishing(t)
      PROVE  (Signalled => Signalled') /\ (WakeComing => WakeComing')
  BY <1>4, Zenon DEF Finishing, Scan, Fire, Retire, Set, Finish, Quiet, sharedVars
<1>5. ASSUME NEW t \in Tasks, TaskStep(t)
      PROVE  (Signalled => Signalled') /\ (WakeComing => WakeComing')
  BY <1>5, Zenon DEF TaskStep, Yield, Leave, Await, End, StopHere, CallbackOnLiveOp, Active, AllKinds,
              sharedVars
<1>6. ASSUME NEW t \in Tasks, Spawn(t) \/ Return(t) \/ Deliver(t)
      PROVE  (Signalled => Signalled') /\ (WakeComing => WakeComing')
  BY <1>6, Zenon DEF Spawn, Return, Deliver, Send, sharedVars
<1>7. CASE RunMessage
  BY <1>7, Heads, Zenon DEF RunMessage, Finish, Quiet, sharedVars
<1>8. CASE Resume \/ Take \/ Exchange \/ Exit \/ UNCHANGED vars
  BY <1>8, Zenon DEF Resume, Take, Exchange, Exit, vars, taskVars, sharedVars
<1>9. ASSUME NEW f \in BOOLEAN, RunPost(f)
      PROVE  (Signalled => Signalled') /\ (WakeComing => WakeComing')
  BY <1>9, Zenon DEF RunPost, StopHere
<1> HIDE DEF TypeOK, Signalled, ThreadWaking, CallbackWaking, WakeComing
<1> QED
  BY Cases, <1>1, <1>2, <1>3, <1>4, <1>5, <1>6, <1>7, <1>8, <1>9, Zenon
     DEF TaskSide

\* No step of a task's side moves the loop, touches posts_ or takes a wake back.
LEMMA TaskFrame ==
  ASSUME NEW t \in Tasks, TaskSide(t)
  PROVE  UNCHANGED <<pc, posted, delay, thrown, posts>> /\ (event => event')
<1>1. CASE Flagging(t) \/ CallbackFlag(t) \/ CallbackWake(t) \/ Spawn(t)
  BY <1>1, FrameConditions DEF CallbackFlag, CallbackWake, Spawn, ownerVars, sharedVars
<1>2. CASE Return(t) \/ Deliver(t)
  BY <1>2, Zenon DEF Return, Deliver, Send, ownerVars
<1>3. CASE Finishing(t)
  BY <1>3 DEF Finishing, Scan, Fire, Retire, Set, ownerVars, sharedVars
<1>4. CASE TaskStep(t)
  BY <1>4, Zenon DEF TaskStep, Yield, Leave, Await, End, StopHere, ownerVars, sharedVars
<1> QED
  BY <1>1, <1>2, <1>3, <1>4, ZenonT(40) DEF TaskSide

\* Queued posts are noticed.
LEMMA PostsStep ==
  ASSUME TypeOK, PostsSeen, [Next]_vars
  PROVE  PostsSeen'
<1> USE DEF TypeOK, PostsSeen
<1>1. CASE LoopOnly
  BY <1>1, Zenon DEF LoopOnly, Run, PostsDone, MessagesDone, Load, Due, Expired, Check, Again, Block,
              Poll, Interrupted, Throw, sharedVars
<1>2. ASSUME NEW x \in Threads, Foreign(x) PROVE PostsSeen'
  BY <1>2, Zenon DEF Foreign, Post, StopFirst, StopSecond, Hold, Release, Wake, ownerVars
<1>3. ASSUME NEW t \in Tasks, TaskSide(t)
      PROVE  PostsSeen'
  BY <1>3, TaskFrame, Zenon
<1>4. CASE Take \/ RunMessage \/ Exchange \/ Resume \/ Exit \/ Drain \/ UNCHANGED vars
  BY <1>4, Zenon DEF Take, RunMessage, Exchange, Resume, Exit, Drain, vars, ownerVars, sharedVars
<1>5. ASSUME NEW f \in BOOLEAN, RunPost(f) PROVE PostsSeen'
  BY <1>5, Zenon DEF RunPost, StopHere
<1> HIDE DEF TypeOK, PostsSeen
<1> QED
  BY Cases, <1>1, <1>2, <1>3, <1>4, <1>5, Zenon

\* Queued messages are noticed.
LEMMA MessagesStep ==
  ASSUME TypeOK, MailSeen, [Next]_vars
  PROVE  MailSeen'
<1> USE DEF TypeOK, MailSeen
<1>1. CASE LoopOnly
  BY <1>1, Zenon DEF LoopOnly, Run, PostsDone, MessagesDone, Load, Due, Expired, Check, Again, Block,
              Poll, Interrupted, Throw, sharedVars
<1>2. ASSUME NEW x \in Threads, Foreign(x) PROVE MailSeen'
  BY <1>2, Zenon DEF Foreign, Post, StopFirst, StopSecond, Hold, Release, Wake, ownerVars
<1>3. ASSUME NEW t \in Tasks, TaskSide(t)
      PROVE  MailSeen'
  <2>1. UNCHANGED <<pc, posted, delay, thrown>> /\ (event => event')
    BY <1>3, TaskFrame, Zenon
  <2>2. \/ messages' = messages
        \/ event' = (event \/ messages = <<>>)
    BY <1>3, FrameConditions, Zenon
      DEF TaskSide, Finishing, Scan, Fire, Retire, Set, TaskStep, Yield, Leave, Await, End,
       Spawn, Return, Deliver, Send, CallbackFlag, CallbackWake, sharedVars
  <2> QED
    BY <2>1, <2>2, Zenon
<1>4. CASE Take \/ RunMessage \/ Exchange \/ Resume \/ Exit \/ Drain \/ UNCHANGED vars
  BY <1>4, Zenon
    DEF Take, RunMessage, Exchange, Resume, Exit, AtIdle, Drain, vars, ownerVars, sharedVars
<1>5. ASSUME NEW f \in BOOLEAN, RunPost(f) PROVE MailSeen'
  BY <1>5, Zenon DEF RunPost, StopHere
<1> HIDE DEF TypeOK, MailSeen
<1> QED
  BY Cases, <1>1, <1>2, <1>3, <1>4, <1>5, Zenon

\* An unread cancel_ is noticed.
LEMMA CancelSeenStep ==
  ASSUME TypeOK, CallbackOnLiveOp, PhaseInv, OneQueue, CancelSeen, [Next]_vars
  PROVE  CancelSeen'
<1>2. CASE Drain
  BY <1>2, Zenon DEF Drain, CancelSeen
<1>3. ASSUME ~Drain PROVE Signalled => Signalled'
  BY <1>3, WakeStays, Zenon
<1> USE DEF TypeOK, CancelSeen
<1>4. CASE LoopOnly
  BY <1>3, <1>4, Zenon
     DEF LoopOnly, Run, PostsDone, MessagesDone, Load, Due, Expired, Check, Again, Block,
         Poll, Interrupted, Throw, Drain, sharedVars
<1>5. ASSUME NEW x \in Threads, Foreign(x) PROVE CancelSeen'
  <2>1. pc' = pc /\ (cancel' = cancel \/ Signalled')
    BY <1>5, Zenon DEF Foreign, Post, StopFirst, StopSecond, Hold, Release, Wake, ownerVars, Signalled,
                ThreadWaking
  <2> QED
    BY <1>2, <1>3, <2>1, Zenon
<1>6. ASSUME NEW t \in Tasks, TaskSide(t)
      PROVE  CancelSeen'
  <2>1. pc' = pc
    BY <1>6, TaskFrame, Zenon
  <2>2. cancel' = cancel \/ Signalled'
    BY <1>6, FrameConditions, Zenon
      DEF TaskSide, Finishing, Scan, Fire, Retire, Set, TaskStep, Yield, Leave, Await, End,
       StopHere, Spawn, Return, Deliver, CallbackFlag, CallbackWake, sharedVars, Signalled,
       CallbackWaking
  <2> QED
    BY <1>2, <1>3, <2>1, <2>2, Zenon
<1>7. CASE Take \/ RunMessage \/ Exchange \/ Resume \/ Exit \/ UNCHANGED vars
  BY <1>2, <1>3, <1>7, Zenon
     DEF Take, RunMessage, Exchange, Resume, Exit, vars, ownerVars, sharedVars
<1>8. ASSUME NEW f \in BOOLEAN, RunPost(f) PROVE CancelSeen'
  BY <1>2, <1>3, <1>8, Zenon DEF RunPost, StopHere, Signalled
<1> HIDE DEF TypeOK, CancelSeen
<1> QED
  BY Cases, <1>2, <1>4, <1>5, <1>6, <1>7, <1>8, Zenon

\* A loop that goes to sleep has just seen that it must not leave run(); while it
\* sleeps no root, wait, timer or request of it ends, so only a foreign thread can
\* make the break condition true, and it wakes the loop afterwards.
LEMMA ExitStep ==
  ASSUME TypeOK, CallbackOnLiveOp, CountInv, PhaseInv, OneQueue, ExitInv, [Next]_vars
  PROVE  ExitInv'
<1> DEFINE empty == roots = 0 /\ Waits = {} /\ Timers = {} /\ Ios = {}
<1> USE DEF TypeOK, ExitInv, Sleeping
<1>1. ASSUME UNCHANGED <<pc, delay, roots, st, holds, stopping>>, ~Drain PROVE ExitInv'
  BY <1>1, WakeStays, Zenon DEF Waits, Timers, Ios
<1>2. CASE LoopOnly
  <2>1. CASE Block
    BY <2>1, Zenon DEF Block, AtIdle, Ios, Waits, Timers, taskVars, sharedVars
  <2>2. CASE ~Block
    BY <1>2, <2>2, Zenon DEF LoopOnly, Run, PostsDone, MessagesDone, Load, Due, Expired, Check, Again,
                      Poll, Interrupted, Throw
  <2> QED
    BY <2>1, <2>2, Zenon
<1>3. ASSUME NEW x \in Threads, Foreign(x) PROVE ExitInv'
  <2>1. UNCHANGED <<pc, delay, roots, st>>
    BY <1>3, FrameConditions, Zenon DEF ownerVars, taskVars
  <2>2. CASE Post(x) \/ StopSecond(x) \/ Wake(x)
    BY <1>1, <2>1, <2>2, Zenon DEF Post, StopSecond, Wake, Drain, ownerVars
  <2>3. CASE StopFirst(x) \/ Release(x)
    BY <2>3, Zenon DEF StopFirst, Release, WakeComing
  <2>4. CASE Hold(x)
    <3>1. (holds' = 0 \/ stopping') => stopping
      BY <2>4 DEF Hold
    <3>2. WakeComing => WakeComing'
      BY <2>4, WakeStays, Zenon DEF Hold, Drain, ownerVars
    <3> QED
      BY <2>1, <3>1, <3>2, Zenon DEF Waits, Timers, Ios
  <2> QED
    BY <1>3, <2>2, <2>3, <2>4, Zenon DEF Foreign
<1>4. ASSUME NEW t \in Tasks, TaskSide(t) PROVE ExitInv'
  <2>1. UNCHANGED <<pc, delay>>
    BY <1>4, TaskFrame, Zenon
  <2>2. ASSUME pc = "poll" PROVE ~Drain /\ ~TaskStep(t) /\ ~Finishing(t) /\ ~Spawn(t)
    BY <2>2, Zenon DEF PhaseInv, Drain, TaskStep, Yield, Leave, Await, End, Finishing, Scan, Fire,
                Retire, Set, Spawn, UserCode, Free
  <2>3. ASSUME pc = "poll" PROVE UNCHANGED <<roots, holds, stopping>>
    BY <1>4, <2>2, <2>3, FrameConditions, Zenon
       DEF TaskSide, Return, Deliver, CallbackFlag, CallbackWake, sharedVars
  <2>4. ASSUME pc = "poll" PROVE Waits' = Waits /\ Timers' = Timers /\ Ios' = Ios
    BY <1>4, <2>2, <2>4, FrameConditions, Zenon
       DEF TaskSide, Return, Deliver, CallbackFlag, CallbackWake, Waits, Timers, Ios
  <2> QED
    BY <2>1, <2>2, <2>3, <2>4, WakeStays, Zenon
<1>5. CASE Take \/ RunMessage \/ Exchange \/ Resume \/ Exit \/ Drain \/ \E f \in BOOLEAN : RunPost(f)
  BY <1>5, Zenon DEF Take, RunMessage, Exchange, Resume, Exit, Drain, RunPost
<1>6. CASE UNCHANGED vars
  BY <1>6, Zenon DEF vars, ownerVars, taskVars, sharedVars, Waits, Timers, Ios, WakeComing
<1> HIDE DEF TypeOK, ExitInv, Sleeping
<1> QED
  BY Cases, <1>2, <1>3, <1>4, <1>5, <1>6, Zenon

\* expire() serves every operation that was canceled before it read cancel_; what
\* is canceled later sets cancel_ again.
LEMMA CancelStep ==
  ASSUME TypeOK, CallbackOnLiveOp, PhaseInv, OneQueue, CancelInv, [Next]_vars
  PROVE  CancelInv'
<1> USE DEF TypeOK, CancelInv
<1>1. CASE LoopOnly
  <2>1. \A t \in Tasks : Unserved(t)' = Unserved(t)
    BY <1>1, FrameConditions DEF Unserved, Active, taskVars, sharedVars
  <2>2. UNCHANGED <<cancel, cb, mark, th>>
    BY <1>1, FrameConditions, Zenon DEF taskVars, sharedVars
  <2>3. CASE Load
    BY <2>1, <2>2, <2>3, Zenon DEF Load, Unserved
  <2>4. CASE Throw
    BY <2>1, <2>2, <2>4, Zenon DEF Throw
  <2>5. CASE ~Load /\ ~Throw
    BY <1>1, <2>1, <2>2, <2>5, Zenon
       DEF LoopOnly, Run, PostsDone, MessagesDone, Due, Expired, Check, Again, Block, Poll, Interrupted
  <2> QED
    BY <2>3, <2>4, <2>5, ZenonT(40)
<1>2. ASSUME NEW x \in Threads, Foreign(x) PROVE CancelInv'
  <2>1. UNCHANGED <<pc, scan, all, thrown, st, cb, mark>>
    BY <1>2, FrameConditions, Zenon DEF ownerVars, taskVars
  <2>2. CASE StopFirst(x)
    BY <2>2, Zenon DEF StopFirst
  <2>3. CASE StopSecond(x)
    BY <2>3, Zenon DEF StopSecond
  <2>4. CASE Post(x) \/ Hold(x) \/ Release(x) \/ Wake(x)
    <3>1. /\ UNCHANGED <<stopping, cancel>>
          /\ \A y \in Threads : th[y] = "flag" => th'[y] = "flag"
      BY <2>4, Zenon DEF Post, Hold, Release, Wake
    <3> QED
      BY <2>1, <3>1, Zenon DEF Unserved, Active
  <2> QED
    BY <1>2, <2>2, <2>3, <2>4, Zenon DEF Foreign
<1>3. ASSUME NEW t \in Tasks, TaskSide(t) PROVE CancelInv'
  <2>1. UNCHANGED <<pc, thrown>>
    BY <1>3, TaskFrame, Zenon
  <2>2. cancel' \/ UNCHANGED <<cancel, stopping, th, all>>
    BY <1>3, FrameConditions, Zenon
      DEF TaskSide, Finishing, Scan, Fire, Retire, Set, TaskStep, Yield, Leave,
       Await, End, StopHere, Spawn, Return, Deliver, CallbackFlag, CallbackWake, ownerVars, sharedVars
  <2>3. \A u \in Tasks \ {t} : /\ cb'[u] = cb[u] /\ mark'[u] = mark[u] /\ st'[u] = st[u]
                              /\ (u \in scan' <=> u \in scan)
    <3>1. CASE Flagging(t) \/ CallbackFlag(t) \/ CallbackWake(t)
      BY <3>1, Zenon DEF Flagging, RequestStop, CallbackStart, CallbackMark, Tick, Complete,
         CallbackFlag, CallbackWake, ownerVars
    <3>2. CASE Finishing(t)
      BY <3>2, Zenon DEF Finishing, Scan, Fire, Retire, Set, Finish, ownerVars
    <3>3. CASE TaskStep(t)
      BY <3>3, Zenon DEF TaskStep, Yield, Leave, Await, End, ownerVars
    <3>4. CASE Spawn(t) \/ Return(t) \/ Deliver(t)
      BY <3>4, Zenon DEF Spawn, Return, Deliver, ownerVars
    <3> QED
      BY <1>3, <3>1, <3>2, <3>3, <3>4, Zenon DEF TaskSide
  <2>4. CASE cancel'
    BY <2>4, Zenon
  <2>5. ASSUME UNCHANGED <<cancel, stopping, th, all>>, Unserved(t)'
        PROVE  \/ cancel' \/ thrown' \/ cb'[t] = "flag" \/ pc' = "load"
               \/ \E x \in Threads : th'[x] = "flag"
               \/ pc' = "scan" /\ t \in scan' /\ (all' \/ "canceled" \in mark'[t])
    <3>1. CASE Flagging(t) \/ CallbackFlag(t) \/ CallbackWake(t)
      <4>1. CASE RequestStop(t) \/ CallbackStart(t) \/ Tick(t) \/ Complete(t)
        BY <2>1, <2>5, <4>1, SMTT(30)
          DEF RequestStop, CallbackStart, Tick, Complete, Unserved, Active, ownerVars
      <4>2. CASE CallbackMark(t)
        BY <2>1, <2>5, <4>2, Zenon DEF CallbackMark, Unserved, Active, ownerVars
      <4>3. CASE CallbackFlag(t)
        BY <2>1, <2>5, <4>3, Zenon DEF CallbackFlag, Unserved, Active, ownerVars
      <4>4. CASE CallbackWake(t)
        BY <2>1, <2>5, <4>4, SMTT(30) DEF CallbackWake, Unserved, Active, ownerVars
      <4> QED BY <3>1, <4>1, <4>2, <4>3, <4>4, ZenonT(40) DEF Flagging
    <3>2. CASE Scan(t)
      BY <2>1, <2>5, <3>2 DEF Scan, Finish, Unserved, Active, AllKinds
    <3>3. CASE Fire(t) \/ Retire(t) \/ Set(t)
      BY <2>5, <3>3, ZenonT(40) DEF Fire, Retire, Set, Finish, Unserved, Active, AllKinds
    <3>4. CASE TaskStep(t)
      BY <2>5, <3>4 DEF TaskStep, Yield, Leave, Await, Arm, End, Unserved, Active, AllKinds
    <3>5. CASE Spawn(t) \/ Return(t) \/ Deliver(t)
      BY <2>5, <3>5, Zenon DEF Spawn, Return, Deliver, Unserved, Active, AllKinds
    <3> QED
      BY <1>3, <3>1, <3>2, <3>3, <3>4, <3>5, Zenon DEF TaskSide, Finishing
  <2>6. CASE UNCHANGED <<cancel, stopping, th, all>>
    <3> SUFFICES ASSUME NEW u \in Tasks, Unserved(u)'
        PROVE  \/ cancel' \/ thrown' \/ cb'[u] = "flag" \/ pc' = "load"
               \/ \E x \in Threads : th'[x] = "flag"
               \/ pc' = "scan" /\ u \in scan' /\ (all' \/ "canceled" \in mark'[u])
      BY Zenon DEF CancelInv
    <3>1. CASE u = t
      BY <2>5, <2>6, <3>1, Zenon
    <3>2. CASE u # t
      BY <2>1, <2>3, <2>6, <3>2, Zenon DEF Unserved, Active
    <3> QED
      BY <3>1, <3>2, Zenon
  <2> QED
    BY <2>2, <2>4, <2>6, Zenon
<1>4. CASE RunMessage
  <2>1. /\ Head(inbox) \in Tasks /\ UNCHANGED <<cancel, stopping, th, pc, thrown, scan, all>>
        /\ \A t \in Tasks : t # Head(inbox) => st'[t] = st[t] /\ cb'[t] = cb[t] /\ mark'[t] = mark[t]
    BY <1>4, Heads, Zenon DEF RunMessage, Finish, sharedVars
  <2>2. st'[Head(inbox)] \notin AllKinds
    BY <1>4, <2>1, Heads, Zenon DEF RunMessage, Finish, Active, AllKinds
  <2>3. \A t \in Tasks : Unserved(t)' => t # Head(inbox)
    BY <2>2, Zenon DEF Unserved, Active
  <2>4. \A t \in Tasks : t # Head(inbox) => (Unserved(t)' <=> Unserved(t))
    BY <2>1, Zenon DEF Unserved, Active
  <2> QED
    BY <2>1, <2>3, <2>4, Zenon
<1>5. CASE Resume
  BY <1>5, Heads, Zenon DEF Resume, Unserved, Active, AllKinds, sharedVars
<1>6. CASE Exchange
  BY <1>6, Zenon DEF Exchange, Unserved, Active, taskVars
<1>7. CASE Take \/ Exit \/ Drain \/ UNCHANGED vars
  BY <1>7, Zenon DEF Take, Exit, Drain, vars, Unserved, Active, ownerVars, taskVars, sharedVars
<1>8. ASSUME NEW f \in BOOLEAN, RunPost(f) PROVE CancelInv'
  BY <1>8, Zenon DEF RunPost, StopHere, Unserved, Active
<1> HIDE DEF TypeOK, CancelInv
<1> QED
  BY Cases, <1>1, <1>2, <1>3, <1>4, <1>5, <1>6, <1>7, <1>8, Zenon

\* The break of run() leaves nothing behind, and nothing but a spawn happens to a
\* task between two runs.
LEMMA AbandonStep ==
  ASSUME TypeOK, CallbackOnLiveOp, CountInv, PhaseInv, OneQueue, NothingAbandoned, [Next]_vars
  PROVE  NothingAbandoned'
<1> USE DEF TypeOK, NothingAbandoned
<1>1. CASE Exit
  <2>1. \A t \in Tasks : st[t] = "none"
    <3>1. roots = 0 /\ Counts(roots, Live)
      BY <1>1, Zenon DEF Exit, AtIdle, CountInv
    <3>2. Live = {}
      BY <3>1, CountFacts, Zenon
    <3> QED
      BY <3>2, Zenon DEF Live
  <2>2. Range(inbox \o messages) = {}
    BY <2>1, Zenon DEF OneQueue
  <2>3. inbox \o messages = <<>>
    BY <2>2, EmptyFacts, ConcatFacts
  <2>4. inbox = <<>> /\ messages = <<>> /\ batch = <<>>
    BY <1>1, <2>3, ConcatFacts, Zenon DEF Exit, PhaseInv
  <2> QED
    BY <1>1, <2>1, <2>4, Zenon DEF Exit, CallbackOnLiveOp, Active, AllKinds, sharedVars
<1>2. CASE LoopOnly
  BY <1>2, Zenon DEF LoopOnly, Run, PostsDone, MessagesDone, Load, Due, Expired, Check, Again, Block,
              Poll, Interrupted, Throw
<1>3. ASSUME NEW x \in Threads, Foreign(x) PROVE NothingAbandoned'
  BY <1>3, FrameConditions, Zenon DEF ownerVars, taskVars
<1>4. ASSUME NEW t \in Tasks, TaskSide(t) PROVE NothingAbandoned'
  <2> SUFFICES ASSUME pc = "idle", ~thrown PROVE NothingAbandoned'
    BY <1>4, TaskFrame, Zenon
  <2>1. st[t] \in {"none", "ready"} /\ cb[t] = "none"
    BY Zenon
  <2>2. CASE Flagging(t)
    BY <2>1, <2>2, FrameConditions, Zenon
       DEF Flagging, RequestStop, CallbackStart, CallbackMark, Tick, Complete, ownerVars, sharedVars
  <2>3. CASE Spawn(t)
    BY <2>3, Zenon DEF Spawn, ownerVars, sharedVars
  <2>4. ~(Finishing(t) \/ TaskStep(t) \/ Return(t) \/ Deliver(t) \/ CallbackFlag(t) \/ CallbackWake(t))
    BY <2>1, Zenon DEF Finishing, Scan, Fire, Retire, Set, TaskStep, Yield, Leave, Await, End, Return,
                Deliver, CallbackFlag, CallbackWake
  <2> QED
    BY <1>4, <2>2, <2>3, <2>4, Zenon DEF TaskSide
<1>5. CASE Take \/ RunMessage \/ Exchange \/ Resume \/ Drain \/ \E f \in BOOLEAN : RunPost(f)
  BY <1>5, Zenon DEF Take, RunMessage, Exchange, Resume, Drain, RunPost
<1>6. CASE UNCHANGED vars
  BY <1>6, Zenon DEF vars, ownerVars, taskVars, sharedVars
<1> HIDE DEF TypeOK, NothingAbandoned
<1> QED
  BY Cases, <1>1, <1>2, <1>3, <1>4, <1>5, <1>6, Zenon
-----------------------------------------------------------------------------
\* A loop that was just constructed satisfies the inductive invariant.
LEMMA InitInv == Init => LoopInv
<1> SUFFICES ASSUME Init PROVE LoopInv
  BY Zenon
<1> USE DEF Init
<1>1. TypeOK
  <2>1. /\ batch \in Seq(Threads) /\ inbox \in Seq(Tasks) /\ ready \in Seq(Tasks)
        /\ posts \in Seq(Threads) /\ messages \in Seq(Tasks)
    OBVIOUS
  <2>2. /\ st \in [Tasks -> Places \cup AllKinds] /\ cb \in [Tasks -> CbStates]
        /\ mark \in [Tasks -> SUBSET Marks] /\ tok \in [Tasks -> BOOLEAN]
        /\ th \in [Threads -> {"idle", "flag", "wake", "held"}]
    BY Zenon DEF Places, CbStates
  <2>3. left \in 0..Budget /\ roots \in Nat /\ holds \in Nat
    BY BudgetPositive
  <2> QED
    BY <2>1, <2>2, <2>3, Zenon DEF TypeOK, PCs
<1>2. CountInv
  <2>1. Live = {} /\ Holding = {}
    BY Zenon DEF Live, Holding
  <2> QED
    BY <2>1, CountNone, Zenon DEF CountInv
<1>3. OneQueue
  <2>1. ready = <<>> /\ inbox \o messages = <<>>
    OBVIOUS
  <2>2. Range(<<>>) = {} /\ IsInjective(<<>>)
    BY EmptyRange, Zenon
  <2> QED
    BY <2>1, <2>2, Zenon DEF OneQueue
<1>4. CallbackOnLiveOp /\ PhaseInv /\ PostsSeen /\ MailSeen /\ CancelSeen
  BY Zenon DEF CallbackOnLiveOp, PhaseInv, PostsSeen, MailSeen, CancelSeen
<1>5. ExitInv /\ CancelInv /\ NothingAbandoned
  BY Zenon DEF ExitInv, Sleeping, CancelInv, Unserved, Active, AllKinds, NothingAbandoned
<1> HIDE DEF Init
<1> QED
  BY <1>1, <1>2, <1>3, <1>4, <1>5, Zenon DEF LoopInv

\* The inductive invariant of the loop holds in every reachable state.
THEOREM Inductive == Spec => []LoopInv
<1>1. LoopInv /\ [Next]_vars => LoopInv'
  BY TypeStep, CallbackStep, CountStep, PhaseStep, QueueStep, PostsStep, MessagesStep,
     CancelSeenStep, ExitStep, CancelStep, AbandonStep, Zenon DEF LoopInv
<1> QED
  BY InitInv, <1>1, PTL DEF Spec

\* The counters roots_ and holds_ never go below zero, and every field of the loop
\* keeps its type, for any number of tasks and threads.
THEOREM TypeCorrect == Spec => []TypeOK
<1>1. LoopInv => TypeOK
  BY Zenon DEF LoopInv
<1> QED
  BY Inductive, <1>1, PTL

\* finish() never frees a frame a stop callback still uses.
THEOREM CallbacksSafe == Spec => []CallbackOnLiveOp
<1>1. LoopInv => CallbackOnLiveOp
  BY Zenon DEF LoopInv
<1> QED
  BY Inductive, <1>1, PTL

\* No node is linked twice in ready_ or in the message queues, and none is lost.
THEOREM QueuesSound == Spec => []OneQueue
<1>1. LoopInv => OneQueue
  BY Zenon DEF LoopInv
<1> QED
  BY Inductive, <1>1, PTL

\* run() never sleeps over queued posts or messages, an unread cancel_ or a break
\* condition that has become true, however many threads post, send, stop and
\* release at once.
THEOREM WakeupsKept == Spec => []NoLostWakeup
<1>1. LoopInv => NoLostWakeup
  BY Zenon DEF LoopInv, NoLostWakeup, Sleeping, PostsSeen, MailSeen, CancelSeen, Signalled,
         ThreadWaking, CallbackWaking, WakeComing, ExitInv, PhaseInv
<1> QED
  BY Inductive, <1>1, PTL

\* run() never sleeps over an operation that was canceled and not served.
THEOREM CancelsKept == Spec => []NoLostCancel
<1>1. LoopInv => NoLostCancel
  <2> SUFFICES ASSUME LoopInv, Sleeping, NEW t \in Tasks, Unserved(t) PROVE WakeComing
    BY Zenon DEF NoLostCancel
  <2>1. ~thrown /\ pc = "poll"
    BY Zenon DEF LoopInv, PhaseInv, Sleeping
  <2>2. \/ cancel \/ cb[t] = "flag" \/ \E x \in Threads : th[x] = "flag"
    BY <2>1, Zenon DEF LoopInv, CancelInv
  <2> QED
    BY <2>1, <2>2, Zenon DEF LoopInv, CancelSeen, Signalled, ThreadWaking, CallbackWaking, WakeComing
<1> QED
  BY Inductive, <1>1, PTL

\* run() returns normally only when no task, callback, message or post batch is left.
THEOREM RunLeavesNothing == Spec => []NothingAbandoned
<1>1. LoopInv => NothingAbandoned
  BY Zenon DEF LoopInv
<1> QED
  BY Inductive, <1>1, PTL
-----------------------------------------------------------------------------
States == {"none", "initial", "running", "parked", "awaiting", "resumed", "final", "freed"}

TaskTypes ==
  /\ cst \in [B!Coros -> States]
  /\ handle \in [B!Holders -> [B!Slots -> Frames \cup {None}]]
  /\ cont \in [Frames -> B!Coros \cup {None}]

\* No two variables hold the same frame.
Unique ==
  \A p, q \in B!Holders, x, y \in B!Slots :
    handle[p][x] # None /\ handle[p][x] = handle[q][y] => p = q /\ x = y

\* Somebody holds frame f.
Held(f) == \E p \in B!Holders, x \in B!Slots : handle[p][x] = f

Owners == \A f \in Frames : cst[f] \notin {"none", "freed"} <=> Held(f)

\* A task variable holds a frame that has not begun.
Fresh == \A p \in B!Holders, x \in B!Locals : handle[p][x] # None => cst[handle[p][x]] = "initial"

\* What a frame can hold that has not begun, has ended or is not there.
Still ==
  \A f \in Frames :
    /\ cst[f] \in {"none", "freed", "initial", "final"} => handle[f]["local"] = None
    /\ cst[f] \in {"none", "freed"} => handle[f]["param"] = None

\* Caller p waits for its child f, or has been resumed by it.
Calls(p, f) ==
  /\ p \in B!Coros
  /\ \/ cst[p] = "awaiting" /\ cst[f] \in {"running", "parked", "awaiting", "resumed"} /\ cont[f] = p
     \/ cst[p] = "resumed" /\ cst[f] = "final"

\* An awaiter has its child as long as the caller is in co_await.
Awaits ==
  /\ \A p \in B!Holders : handle[p]["await"] # None => Calls(p, handle[p]["await"])
  /\ \A p \in B!Coros : cst[p] \in {"awaiting", "resumed"} => handle[p]["await"] # None

\* A root has its parameter until it awaits it, and no other variable.
Bridged ==
  \A r \in Roots :
    /\ cst[r] \in {"none", "initial", "awaiting", "resumed", "running"}
    /\ handle[r]["local"] = None
    /\ handle[r]["param"] # None <=> cst[r] = "initial"

TaskInv == TaskTypes /\ Unique /\ Owners /\ Fresh /\ Still /\ Awaits /\ Bridged
-----------------------------------------------------------------------------
JoinTypes ==
  /\ way \in [B!Results -> {"none", "spawn", "sync"}]
  /\ pro \in [B!Results -> {"idle", "running", "publish", "notify", "unlink", "gone"}]
  /\ con \in [B!Results -> {"idle", "holds", "blocked", "woken", "asking", "parked", "mailed", "took", "dropped"}]
  /\ done \in [B!Results -> BOOLEAN]
  /\ refs \in [B!Results -> SUBSET {"producer", "consumer"}]

\* How far a producer has come tells what its root does, and who refers to the state.
Joined(r) ==
  /\ pro[r] = "idle" <=> cst[r] = "none"
  /\ pro[r] = "running" <=> cst[r] \in {"initial", "awaiting", "resumed"}
  /\ pro[r] # "idle" => way[r] # "none"
  /\ pro[r] \in {"notify", "unlink"} => way[r] = "spawn"
  /\ done[r] => pro[r] \in {"notify", "unlink", "gone"}
  /\ way[r] = "spawn" /\ pro[r] # "gone" => "producer" \in refs[r]
  /\ way[r] = "sync" /\ pro[r] # "gone" => "consumer" \in refs[r]
  /\ con[r] \in {"asking", "parked", "mailed", "dropped"} => way[r] = "spawn"

JoinInv == JoinTypes /\ \A r \in B!Results : Joined(r)

SpawnInv == TaskInv /\ JoinInv

\* A step of a task moves a root between the states in which its producer runs.
RootsRun ==
  \A r \in Roots : cst'[r] = cst[r] \/ {cst[r], cst'[r]} \subseteq {"initial", "awaiting", "resumed"}

\* What a step destroys has not begun, or has ended.
QuietStep == \A f \in Frames : cst'[f] = "freed" => cst[f] \in {"initial", "final", "freed"}
-----------------------------------------------------------------------------
\* The variables of a holder are three, and the holders are told apart.
LEMMA Names ==
  /\ B!Locals \subseteq B!Slots /\ "await" \in B!Slots /\ "param" \in B!Locals /\ "local" \in B!Locals
  /\ \A x \in B!Locals : x # "await" /\ x \in B!Slots
  /\ Frames \subseteq B!Coros /\ Roots \subseteq B!Coros /\ B!Coros \subseteq B!Holders /\ User \in B!Holders
  /\ User \notin B!Coros /\ None \notin B!Holders /\ \A f \in Frames : f \notin Roots /\ f # None
BY HoldersDistinct, Zenon DEF B!Locals, B!Slots, B!Coros, B!Holders

\* destroy takes the frames it is called for and what they own, and nothing else.
LEMMA DestroyedFacts ==
  ASSUME NEW F \in SUBSET Frames
  PROVE  /\ F \subseteq B!Destroyed(F) /\ B!Destroyed(F) \subseteq Frames
         /\ B!Owned(B!Destroyed(F)) \subseteq B!Destroyed(F)
         /\ \A S \in SUBSET Frames : F \subseteq S /\ B!Owned(S) \subseteq S => B!Destroyed(F) \subseteq S
         /\ \A g \in B!Destroyed(F) : g \in F \/ g \in B!Owned(B!Destroyed(F))
<1> DEFINE G == B!Destroyed(F)
<1>1. F \subseteq G /\ G \subseteq Frames BY Zenon DEF B!Destroyed
<1>2. \A S \in SUBSET Frames : F \subseteq S /\ B!Owned(S) \subseteq S => G \subseteq S
  BY Zenon DEF B!Destroyed
<1>3. \A S, U : S \subseteq U => B!Owned(S) \subseteq B!Owned(U) BY Zenon DEF B!Owned
<1>4. B!Owned(G) \subseteq G
  <2>1. SUFFICES ASSUME NEW g \in B!Owned(G), NEW S \in SUBSET Frames, F \subseteq S, B!Owned(S) \subseteq S
                 PROVE  g \in S
    <3>1. \A g \in B!Owned(G) : g \in Frames BY Zenon DEF B!Owned
    <3> QED BY <3>1, Zenon DEF B!Destroyed
  <2>2. G \subseteq S BY <1>2, <2>1, Zenon
  <2> QED BY <1>3, <2>1, <2>2, Zenon
<1>5. ASSUME NEW g \in G, g \notin F, g \notin B!Owned(G) PROVE FALSE
  <2> DEFINE S == G \ {g}
  <2>1. S \in SUBSET Frames /\ F \subseteq S BY <1>1, <1>5, Zenon
  <2>2. B!Owned(S) \subseteq S BY <1>3, <1>4, <1>5, Zenon
  <2>3. G \subseteq S BY <1>2, <2>1, <2>2, Zenon
  <2> QED BY <2>3, Zenon
<1> QED BY <1>1, <1>2, <1>4, <1>5, Zenon

\* What ~task destroys has not begun, what ~awaiter destroys has ended or not begun, and
\* it is what nobody else holds.
LEMMA VictimFacts ==
  ASSUME TaskInv, NEW p \in B!Holders, NEW x \in B!Slots, x = "await" => cst[p] = "resumed"
  PROVE  /\ B!Victims(p, x) \subseteq
              {f \in Frames : cst[f] = "initial" \/ (x = "await" /\ f = handle[p][x] /\ cst[f] = "final")}
         /\ handle[p][x] # None => handle[p][x] \in B!Victims(p, x)
         /\ \A q \in B!Holders, z \in B!Slots : handle[q][z] \in B!Victims(p, x) =>
              q \in B!Victims(p, x) \/ (q = p /\ z = x)
         /\ \A q \in B!Victims(p, x), z \in B!Slots : handle[q][z] # None => handle[q][z] \in B!Victims(p, x)
<1>1. handle \in [B!Holders -> [B!Slots -> Frames \cup {None}]] /\ Unique /\ Fresh /\ Still /\ Awaits
  BY Zenon DEF TaskInv, TaskTypes
<1>2. CASE handle[p][x] = None BY <1>1, <1>2, Names, Zenon DEF B!Victims
<1>3. CASE handle[p][x] # None
  <2> DEFINE v == handle[p][x] G == B!Destroyed({v})
             I == {f \in Frames : cst[f] = "initial" \/ (x = "await" /\ f = v /\ cst[f] = "final")}
  <2>1. v \in I
    <3>1. v \in Frames BY <1>1, <1>3, Zenon
    <3>2. CASE x = "await" BY <1>1, <1>3, <3>1, <3>2, Zenon DEF Awaits, Calls
    <3>3. CASE x # "await"
      <4>1. x \in B!Locals BY <3>3, Zenon DEF B!Slots
      <4> QED BY <1>1, <1>3, <3>1, <4>1, Zenon DEF Fresh
    <3> QED BY <3>2, <3>3, Zenon
  <2>2. B!Owned(I) \subseteq I
    <3> SUFFICES ASSUME NEW f \in Frames, NEW h \in I, NEW z \in B!Slots, handle[h][z] = f PROVE f \in I
      BY Zenon DEF B!Owned
    <3>1. f # None /\ h \in B!Holders /\ h \in B!Coros /\ cst[h] \in {"initial", "final"}
      BY Names, Zenon
    <3>2. z # "await" BY <1>1, <3>1, Zenon DEF Awaits, Calls
    <3>3. z \in B!Locals BY <3>2, Zenon DEF B!Slots
    <3> QED BY <1>1, <3>1, <3>3, Zenon DEF Fresh
  <2>3. {v} \in SUBSET Frames /\ {v} \subseteq I /\ I \in SUBSET Frames BY <2>1, Zenon
  <2>4. G \subseteq I
    <3> HIDE DEF I, v
    <3> QED BY <2>2, <2>3, DestroyedFacts, Zenon
  <2>5. v \in G /\ G \subseteq Frames /\ B!Owned(G) \subseteq G /\ \A g \in G : g = v \/ g \in B!Owned(G)
    BY <2>3, DestroyedFacts, Zenon
  <2>6. B!Victims(p, x) = G BY <1>3, Zenon DEF B!Victims
  <2> HIDE DEF G, I
  <2>7. ASSUME NEW q \in B!Holders, NEW z \in B!Slots, handle[q][z] \in G PROVE q \in G \/ (q = p /\ z = x)
    <3>1. CASE handle[q][z] = v BY <1>1, <1>3, <3>1, Names DEF Unique
    <3>2. CASE handle[q][z] \in B!Owned(G)
      <4>1. PICK h \in G, y \in B!Slots : handle[h][y] = handle[q][z] BY <3>2, Zenon DEF B!Owned
      <4>2. h \in B!Holders /\ handle[q][z] # None BY <2>5, <2>7, Names, Zenon
      <4> QED BY <1>1, <4>1, <4>2 DEF Unique
    <3> QED BY <2>5, <2>7, <3>1, <3>2, Zenon
  <2>8. ASSUME NEW q \in G, NEW z \in B!Slots, handle[q][z] # None PROVE handle[q][z] \in G
    <3>1. q \in B!Holders BY <2>5, Names, Zenon
    <3>2. handle[q][z] \in Frames BY <1>1, <2>8, <3>1, Zenon
    <3>3. handle[q][z] \in B!Owned(G) BY <3>2, Zenon DEF B!Owned
    <3> QED BY <2>5, <3>3, Zenon
  <2> QED BY <2>4, <2>5, <2>6, <2>7, <2>8, Zenon DEF I
<1> QED BY <1>2, <1>3, Zenon

\* Nothing moves.
LEMMA Idle ==
  ASSUME TaskInv, cst' = cst, handle' = handle, cont' = cont
  PROVE  TaskInv' /\ RootsRun /\ QuietStep
<1>1. TaskTypes' /\ Unique' /\ Still' /\ Bridged' BY DEF TaskInv, TaskTypes, Unique, Still, Bridged
<1>2. Owners' /\ Fresh' BY Zenon DEF TaskInv, Owners, Held, Fresh
<1>3. Awaits' BY Zenon DEF TaskInv, Awaits, Calls
<1>4. RootsRun /\ QuietStep BY Zenon DEF RootsRun, QuietStep
<1> QED BY <1>1, <1>2, <1>3, <1>4, Zenon DEF TaskInv

\* A call of a coroutine function: the new frame has one owner, its argument moves into it.
LEMMA CreateStep ==
  ASSUME TaskInv, NEW p \in B!Holders, NEW f \in Frames, NEW x \in B!Locals, NEW y \in B!Locals, B!Create(p, f, x, y)
  PROVE  TaskInv' /\ RootsRun /\ QuietStep
<1>1. TaskTypes /\ Unique /\ Owners /\ Fresh /\ Still /\ Awaits /\ Bridged BY Zenon DEF TaskInv
<1>2. /\ cst[f] = "none" /\ handle[p][x] = None /\ y # x /\ p # f /\ p \notin Roots
      /\ p # User => cst[p] = "running"
      /\ cst' = [cst EXCEPT ![f] = "initial"] /\ cont' = cont
  BY Names, SMTT(20) DEF B!Create, B!Running
<1>3. /\ x \in B!Slots /\ y \in B!Slots /\ x # "await" /\ y # "await" /\ f \in B!Holders /\ f \in B!Coros
      /\ f # None /\ f \notin Roots /\ f # User
  BY Names, Zenon
<1>4. /\ handle' \in [B!Holders -> [B!Slots -> Frames \cup {None}]]
      /\ \A q \in B!Holders, z \in B!Slots : handle'[q][z] =
           IF q = f /\ z = "param" THEN handle[p][y] ELSE
           IF q = p /\ z = x THEN f ELSE IF q = p /\ z = y THEN None ELSE handle[q][z]
  <2> DEFINE a == [handle[f] EXCEPT !["param"] = handle[p][y]] b == [handle[p] EXCEPT ![x] = f, ![y] = None]
  <2>1. a \in [B!Slots -> Frames \cup {None}] /\ \A z \in B!Slots : a[z] = IF z = "param" THEN handle[p][y] ELSE handle[f][z]
    BY <1>1, <1>3, Names DEF TaskTypes
  <2>2. /\ b \in [B!Slots -> Frames \cup {None}]
        /\ \A z \in B!Slots : b[z] = IF z = x THEN f ELSE IF z = y THEN None ELSE handle[p][z]
    BY <1>1, <1>2, <1>3, Names, Zenon DEF TaskTypes
  <2>3. handle' = [handle EXCEPT ![f] = a, ![p] = b] BY <1>1, <1>2, <1>3, Zenon DEF B!Create, TaskTypes
  <2> HIDE DEF a, b
  <2> QED BY <1>1, <1>2, <1>3, <2>1, <2>2, <2>3, Zenon DEF TaskTypes
<1>5. TaskTypes' BY <1>1, <1>2, <1>3, <1>4, Zenon DEF TaskTypes, States
<1>6. /\ \A c \in B!Coros : cst'[c] = IF c = f THEN "initial" ELSE cst[c]
      /\ \A q \in B!Holders, z \in B!Slots : handle[q][z] # f
      /\ \A z \in B!Slots : handle[f][z] = None
  BY <1>1, <1>2, <1>3, Names, SMTT(30) DEF TaskTypes, Owners, Held, Still, Awaits, Calls, B!Slots, B!Locals
<1>7. Unique'
  <2>1. SUFFICES ASSUME NEW q \in B!Holders, NEW r \in B!Holders, NEW z \in B!Slots, NEW w \in B!Slots,
                        handle'[q][z] # None, handle'[q][z] = handle'[r][w]
                 PROVE  q = r /\ z = w
    BY DEF Unique
  <2> QED BY <1>1, <1>2, <1>3, <1>4, <1>6, <2>1, SMTT(30) DEF Unique
<1>8. Owners'
  <2>1. ASSUME NEW g \in Frames PROVE cst'[g] \notin {"none", "freed"} <=> Held(g)'
    <3>1. CASE g = f BY <1>2, <1>3, <1>4, <1>6, <3>1 DEF Held
    <3>2. CASE g # f
      <4>1. g # None /\ cst'[g] = cst[g] BY <1>6, <3>2, Names, Zenon
      <4>2. ASSUME NEW q \in B!Holders, NEW z \in B!Slots, handle[q][z] = g PROVE Held(g)'
        <5>1. CASE q = p /\ z = y BY <1>3, <1>4, <4>2, <5>1, Names, Zenon DEF Held
        <5>2. CASE ~(q = p /\ z = y)
          <6>1. handle'[q][z] = g BY <1>2, <1>4, <1>6, <4>1, <4>2, <5>2, ZenonT(40)
          <6> QED BY <6>1, Zenon DEF Held
        <5> QED BY <5>1, <5>2, Zenon
      <4>3. ASSUME NEW q \in B!Holders, NEW z \in B!Slots, handle'[q][z] = g PROVE Held(g)
        BY <1>3, <1>4, <3>2, <4>1, <4>3 DEF Held
      <4> QED BY <1>1, <4>1, <4>2, <4>3, Zenon DEF Owners, Held
    <3> QED BY <3>1, <3>2, ZenonT(40)
  <2> QED BY <2>1, Zenon DEF Owners
<1>9. Fresh'
  <2>1. ASSUME NEW q \in B!Holders, NEW z \in B!Locals, handle'[q][z] # None PROVE cst'[handle'[q][z]] = "initial"
    <3>1. z \in B!Slots BY Names, Zenon
    <3>2. handle'[q][z] \in Frames BY <1>4, <2>1, <3>1, SMTT(30)
    <3>3. handle'[q][z] = f \/ cst[handle'[q][z]] = "initial"
      BY <1>1, <1>3, <1>4, <2>1, <3>1 DEF Fresh
    <3> QED BY <1>6, <3>2, <3>3, Names, Zenon
  <2> QED BY <2>1, Zenon DEF Fresh
<1>10. Still'
  <2>1. ASSUME NEW g \in Frames
        PROVE  /\ cst'[g] \in {"none", "freed", "initial", "final"} => handle'[g]["local"] = None
               /\ cst'[g] \in {"none", "freed"} => handle'[g]["param"] = None
    <3>1. g \in B!Holders /\ g \in B!Coros /\ g # User BY Names, Zenon
    <3>2. g # f => cst'[g] = cst[g] BY <1>6, <3>1, Zenon
    <3>3. handle'[g]["local"] = None \/ g = p \/ handle'[g]["local"] = handle[g]["local"]
      BY <1>4, <3>1, Names, Zenon
    <3>4. g = f \/ g = p \/ handle'[g]["param"] = handle[g]["param"] BY <1>4, <3>1, Names, Zenon
    <3>5. handle'[f]["local"] = None BY <1>2, <1>3, <1>4, <1>6, Names, ZenonT(40)
    <3>6. CASE g = f
      <4>1. cst'[g] = "initial" BY <1>6, <3>1, <3>6, Zenon
      <4> QED BY <3>5, <3>6, <4>1
    <3>7. CASE g = p
      <4>1. cst'[g] = "running" BY <1>2, <3>1, <3>2, <3>7, Zenon
      <4> QED BY <4>1
    <3>8. CASE g # f /\ g # p
      <4>1. /\ cst'[g] = cst[g]
            /\ handle'[g]["local"] = None \/ handle'[g]["local"] = handle[g]["local"]
            /\ handle'[g]["param"] = handle[g]["param"]
        BY <3>2, <3>3, <3>4, <3>8, Zenon
      <4> QED BY <1>1, <4>1, Zenon DEF Still
    <3> QED BY <3>6, <3>7, <3>8, Zenon
  <2> QED BY <2>1, ZenonT(40) DEF Still
<1>11. Awaits'
  <2>1. ASSUME NEW q \in B!Holders PROVE handle'[q]["await"] = handle[q]["await"]
    BY <1>3, <1>4, Names, Zenon
  <2>2. ASSUME NEW q \in B!Holders, handle'[q]["await"] # None PROVE Calls(q, handle[q]["await"])'
    <3>1. Calls(q, handle[q]["await"]) BY <1>1, <2>1, <2>2, ZenonT(40) DEF Awaits
    <3>2. handle[q]["await"] # f /\ handle[q]["await"] \in Frames /\ q # f
      BY <1>1, <1>6, <2>1, <2>2, Names DEF TaskTypes
    <3>3. q \in B!Coros /\ cst'[q] = cst[q] /\ cst'[handle[q]["await"]] = cst[handle[q]["await"]]
      BY <1>6, <3>1, <3>2, Names, Zenon DEF Calls
    <3> QED BY <1>2, <2>1, <3>1, <3>3, Zenon DEF Calls
  <2>3. ASSUME NEW q \in B!Coros, cst'[q] \in {"awaiting", "resumed"} PROVE handle'[q]["await"] # None
    BY <1>1, <1>6, <2>1, <2>3, Names, Zenon DEF Awaits
  <2> QED BY <2>2, <2>3, Zenon DEF Awaits
<1>12. Bridged'
  <2>1. ASSUME NEW r \in Roots
        PROVE  cst'[r] = cst[r] /\ handle'[r]["local"] = handle[r]["local"] /\ handle'[r]["param"] = handle[r]["param"]
    BY <1>2, <1>3, <1>4, <1>6, Names
  <2> QED BY <1>1, <2>1, ZenonT(40) DEF Bridged
<1>13. RootsRun /\ QuietStep
  BY <1>1, <1>3, <1>6, Names, Zenon DEF RootsRun, QuietStep, Owners
<1> QED BY <1>5, <1>7, <1>8, <1>9, <1>10, <1>11, <1>12, <1>13, Zenon DEF TaskInv

\* Move assignment destroys the target's frame, which has not begun, with what it owns.
LEMMA AssignStep ==
  ASSUME TaskInv, NEW p \in B!Holders, NEW x \in B!Locals, NEW y \in B!Locals, B!Assign(p, x, y)
  PROVE  TaskInv' /\ RootsRun /\ QuietStep
<1> DEFINE G == B!Victims(p, x)
<1>1. TaskTypes /\ Unique /\ Owners /\ Fresh /\ Still /\ Awaits /\ Bridged BY Zenon DEF TaskInv
<1>2. /\ x # y /\ p \notin Roots /\ (p # User => cst[p] = "running")
      /\ cst' = [c \in B!Coros |-> IF c \in G THEN "freed" ELSE cst[c]] /\ cont' = cont
      /\ handle' = [B!Cleared(G, {}) EXCEPT ![p] = [@ EXCEPT ![x] = handle[p][y], ![y] = None]]
  BY Names, SMTT(20) DEF B!Assign, B!Running
<1>3. /\ x \in B!Slots /\ y \in B!Slots /\ x # "await" /\ y # "await" BY Names, Zenon
<1>4. /\ G \subseteq {f \in Frames : cst[f] = "initial"} /\ (handle[p][x] # None => handle[p][x] \in G)
      /\ \A q \in B!Holders, z \in B!Slots : handle[q][z] \in G => q \in G \/ (q = p /\ z = x)
      /\ \A q \in G, z \in B!Slots : handle[q][z] # None => handle[q][z] \in G
  BY <1>3, VictimFacts, Zenon
<1> HIDE DEF G
<1>5. /\ p \notin G /\ None \notin G /\ handle[p][y] \notin G /\ handle[p][y] \in Frames \cup {None}
      /\ G \subseteq B!Coros /\ G \subseteq B!Holders /\ \A r \in Roots : r \notin G /\ r # p
  BY <1>1, <1>2, <1>3, <1>4, Names, SMTT(30) DEF TaskTypes
<1>6. /\ handle' \in [B!Holders -> [B!Slots -> Frames \cup {None}]]
      /\ \A q \in B!Holders, z \in B!Slots : handle'[q][z] =
           IF q \in G THEN None ELSE IF q = p /\ z = x THEN handle[p][y] ELSE
           IF q = p /\ z = y THEN None ELSE handle[q][z]
  <2> DEFINE h == B!Cleared(G, {}) b == [h[p] EXCEPT ![x] = handle[p][y], ![y] = None]
  <2>1. /\ h \in [B!Holders -> [B!Slots -> Frames \cup {None}]]
        /\ \A q \in B!Holders, z \in B!Slots : h[q][z] = IF q \in G THEN None ELSE handle[q][z]
    <3>1. ASSUME NEW q \in B!Holders
          PROVE  [z \in B!Slots |-> IF q \in G \/ <<q, z>> \in {} THEN None ELSE handle[q][z]]
                   \in [B!Slots -> Frames \cup {None}]
      BY <1>1, Zenon DEF TaskTypes
    <3> QED BY <3>1, Zenon DEF B!Cleared
  <2> HIDE DEF h
  <2>2. /\ b \in [B!Slots -> Frames \cup {None}]
        /\ \A z \in B!Slots : b[z] = IF z = x THEN handle[p][y] ELSE IF z = y THEN None ELSE h[p][z]
    BY <1>2, <1>3, <1>5, <2>1, Zenon
  <2>3. handle' = [h EXCEPT ![p] = b] BY <1>2, <2>1, Zenon DEF h
  <2> HIDE DEF b
  <2> QED BY <1>5, <2>1, <2>2, <2>3
<1>7. TaskTypes' BY <1>1, <1>2, <1>6, Zenon DEF TaskTypes, States
<1>8. \A c \in B!Coros : cst'[c] = IF c \in G THEN "freed" ELSE cst[c] BY <1>2, Zenon
<1>9. Unique'
  <2>1. SUFFICES ASSUME NEW q \in B!Holders, NEW r \in B!Holders, NEW z \in B!Slots, NEW w \in B!Slots,
                        handle'[q][z] # None, handle'[q][z] = handle'[r][w]
                 PROVE  q = r /\ z = w
    BY DEF Unique
  <2>2. ASSUME NEW g \in B!Holders, NEW v \in B!Slots, handle'[g][v] # None
        PROVE  \/ g = p /\ v = x /\ handle'[g][v] = handle[p][y]
               \/ ~(g = p /\ v = x) /\ ~(g = p /\ v = y) /\ handle'[g][v] = handle[g][v]
    BY <1>6, <2>2
  <2>3. \/ r = p /\ w = x /\ handle'[r][w] = handle[p][y]
        \/ ~(r = p /\ w = x) /\ ~(r = p /\ w = y) /\ handle'[r][w] = handle[r][w]
    BY <2>1, <2>2, Zenon
  <2>4. CASE q = p /\ z = x /\ handle'[q][z] = handle[p][y]
    BY <1>1, <1>3, <2>1, <2>3, <2>4, SMTT(30) DEF Unique
  <2>5. CASE ~(q = p /\ z = x) /\ ~(q = p /\ z = y) /\ handle'[q][z] = handle[q][z]
    BY <1>1, <1>3, <2>1, <2>3, <2>5 DEF Unique
  <2> QED BY <2>1, <2>2, <2>4, <2>5, Zenon
<1>10. Owners'
  <2>1. ASSUME NEW g \in Frames PROVE cst'[g] \notin {"none", "freed"} <=> Held(g)'
    <3>0. g # None /\ cst'[g] = IF g \in G THEN "freed" ELSE cst[g] BY <1>8, Names, Zenon
    <3>1. CASE g \in G
      <4>1. ASSUME NEW q \in B!Holders, NEW z \in B!Slots, handle'[q][z] = g PROVE FALSE
        <5>1. q \notin G /\ ~(q = p /\ z = x) /\ ~(q = p /\ z = y) /\ handle[q][z] = g
          BY <1>5, <1>6, <3>0, <3>1, <4>1, ZenonT(30)
        <5> QED BY <1>4, <3>1, <4>1, <5>1, Zenon
      <4> QED BY <3>0, <3>1, <4>1, ZenonT(40) DEF Held
    <3>2. CASE g \notin G
      <4>2. ASSUME NEW q \in B!Holders, NEW z \in B!Slots, handle[q][z] = g PROVE Held(g)'
        <5>1. CASE q = p /\ z = y BY <1>3, <1>5, <1>6, <4>2, <5>1, Zenon DEF Held
        <5>2. CASE ~(q = p /\ z = y)
          <6>1. handle'[q][z] = g BY <1>4, <1>6, <3>0, <3>2, <4>2, <5>2
          <6> QED BY <6>1, Zenon DEF Held
        <5> QED BY <5>1, <5>2, Zenon
      <4>3. ASSUME NEW q \in B!Holders, NEW z \in B!Slots, handle'[q][z] = g PROVE Held(g)
        BY <1>3, <1>6, <3>0, <4>3, ZenonT(40) DEF Held
      <4> QED BY <1>1, <3>0, <3>2, <4>2, <4>3, Zenon DEF Owners, Held
    <3> QED BY <3>1, <3>2, Zenon
  <2> QED BY <2>1, Zenon DEF Owners
<1>11. Fresh'
  <2>1. ASSUME NEW q \in B!Holders, NEW z \in B!Locals, handle'[q][z] # None PROVE cst'[handle'[q][z]] = "initial"
    <3>1. z \in B!Slots BY Names, Zenon
    <3>2. handle'[q][z] \in B!Coros BY <1>6, <2>1, <3>1, Names, SMTT(30)
    <3>3. cst[handle'[q][z]] = "initial" BY <1>1, <1>6, <2>1, <3>1, SMTT(30) DEF Fresh
    <3>4. handle'[q][z] \notin G BY <1>4, <1>5, <1>6, <2>1, <3>1
    <3> QED BY <1>8, <3>2, <3>3, <3>4, Zenon
  <2> QED BY <2>1, Zenon DEF Fresh
<1>12. Still'
  <2>1. ASSUME NEW g \in Frames
        PROVE  /\ cst'[g] \in {"none", "freed", "initial", "final"} => handle'[g]["local"] = None
               /\ cst'[g] \in {"none", "freed"} => handle'[g]["param"] = None
    <3>1. g \in B!Holders /\ g \in B!Coros /\ g # User BY Names, Zenon
    <3>2. g \in G => handle'[g]["local"] = None /\ handle'[g]["param"] = None
      BY <1>6, <3>1, Names, Zenon
    <3>3. g \notin G /\ g # p => handle'[g]["local"] = handle[g]["local"] /\ handle'[g]["param"] = handle[g]["param"]
      BY <1>6, <3>1, Names, Zenon
    <3> QED BY <1>1, <1>2, <1>8, <3>1, <3>2, <3>3, Zenon DEF Still
  <2> QED BY <2>1, Zenon DEF Still
<1>13. Awaits'
  <2>1. ASSUME NEW q \in B!Holders, q \notin G PROVE handle'[q]["await"] = handle[q]["await"]
    BY <1>3, <1>6, <2>1, Names, Zenon
  <2>2. ASSUME NEW q \in B!Holders, handle'[q]["await"] # None PROVE Calls(q, handle[q]["await"])'
    <3>1. q \notin G BY <1>6, <2>2, Names, Zenon
    <3>2. Calls(q, handle[q]["await"]) BY <1>1, <2>1, <2>2, <3>1, Zenon DEF Awaits
    <3>3. handle[q]["await"] \notin G BY <1>3, <1>4, <3>1, Names, ZenonT(40)
    <3>4. handle[q]["await"] \in B!Coros /\ q \in B!Coros
      BY <1>1, <2>1, <2>2, <3>1, <3>2, Names DEF TaskTypes, Calls
    <3>5. cst'[q] = cst[q] /\ cst'[handle[q]["await"]] = cst[handle[q]["await"]]
      BY <1>8, <3>1, <3>3, <3>4, Zenon
    <3> QED BY <1>2, <2>1, <3>1, <3>2, <3>5, Zenon DEF Calls
  <2>3. ASSUME NEW q \in B!Coros, cst'[q] \in {"awaiting", "resumed"} PROVE handle'[q]["await"] # None
    BY <1>1, <1>8, <2>1, <2>3, Names, Zenon DEF Awaits
  <2> QED BY <2>2, <2>3, Zenon DEF Awaits
<1>14. Bridged'
  <2>1. ASSUME NEW r \in Roots
        PROVE  cst'[r] = cst[r] /\ handle'[r]["local"] = handle[r]["local"] /\ handle'[r]["param"] = handle[r]["param"]
    BY <1>5, <1>6, <1>8, Names, Zenon
  <2> QED BY <1>1, <2>1, Zenon DEF Bridged
<1>15. RootsRun /\ QuietStep
  BY <1>4, <1>5, <1>8, Names, Zenon DEF RootsRun, QuietStep
<1> QED BY <1>7, <1>9, <1>10, <1>11, <1>12, <1>13, <1>14, <1>15, Zenon DEF TaskInv

\* co_await: the handle moves into the awaiter, and the child runs with its caller as continuation.
LEMMA TransferStep ==
  ASSUME TaskInv, NEW p \in B!Coros, NEW x \in B!Locals, handle[p][x] # None, B!Transfer(p, x),
         (p \in Frames /\ cst[p] = "running") \/ (p \in Roots /\ cst[p] = "initial" /\ x = "param")
  PROVE  TaskInv' /\ RootsRun /\ QuietStep
<1> DEFINE c == handle[p][x]
<1>1. TaskTypes /\ Unique /\ Owners /\ Fresh /\ Still /\ Awaits /\ Bridged BY Zenon DEF TaskInv
<1>2. x \in B!Slots /\ x # "await" /\ p \in B!Holders /\ p # None BY Names, Zenon
<1>3. c \in Frames /\ cst[c] = "initial" /\ c # p /\ c # None /\ c \in B!Coros /\ c \in B!Holders
  BY <1>1, <1>2, Names DEF TaskTypes, Fresh
<1>4. handle[p]["await"] = None BY <1>1, <1>2, Zenon DEF Awaits, Calls
<1>5. handle' = [handle EXCEPT ![p] = [@ EXCEPT ![x] = None, !["await"] = c]]
  BY Zenon DEF B!Transfer
<1>6. cont' = [cont EXCEPT ![c] = p] /\ cst' = [cst EXCEPT ![p] = "awaiting", ![c] = "running"]
  BY Zenon DEF B!Transfer
<1> HIDE DEF c
<1>7. /\ handle' \in [B!Holders -> [B!Slots -> Frames \cup {None}]]
      /\ \A q \in B!Holders, z \in B!Slots : handle'[q][z] =
           IF q = p /\ z = x THEN None ELSE IF q = p /\ z = "await" THEN c ELSE handle[q][z]
  <2> DEFINE b == [handle[p] EXCEPT ![x] = None, !["await"] = c]
  <2>1. /\ b \in [B!Slots -> Frames \cup {None}]
        /\ \A z \in B!Slots : b[z] = IF z = x THEN None ELSE IF z = "await" THEN c ELSE handle[p][z]
    BY <1>1, <1>2, <1>3, Names, Zenon DEF TaskTypes
  <2>2. handle' = [handle EXCEPT ![p] = b] BY <1>1, <1>2, <1>5, Zenon DEF TaskTypes
  <2> HIDE DEF b
  <2> QED BY <1>1, <1>2, <2>1, <2>2, Zenon DEF TaskTypes
<1>8. \A k \in B!Coros : cst'[k] = IF k = c THEN "running" ELSE IF k = p THEN "awaiting" ELSE cst[k]
  BY <1>1, <1>3, <1>6, Zenon DEF TaskTypes
<1>9. cont'[c] = p /\ \A f \in Frames : f # c => cont'[f] = cont[f]
  BY <1>1, <1>3, <1>6, Zenon DEF TaskTypes
<1>10. TaskTypes' BY <1>1, <1>3, <1>6, <1>7, ZenonT(40) DEF TaskTypes, States
<1>11. ASSUME NEW q \in B!Holders, NEW z \in B!Slots, handle[q][z] = c PROVE q = p /\ z = x
  BY <1>1, <1>2, <1>3, <1>11, SMTT(30) DEF Unique, c
<1>12. Unique'
  <2>1. SUFFICES ASSUME NEW q \in B!Holders, NEW r \in B!Holders, NEW z \in B!Slots, NEW w \in B!Slots,
                        handle'[q][z] # None, handle'[q][z] = handle'[r][w]
                 PROVE  q = r /\ z = w
    BY DEF Unique
  <2> QED BY <1>1, <1>2, <1>7, <1>11, <2>1, SMTT(30) DEF Unique
<1>13. Owners'
  <2>1. ASSUME NEW g \in Frames PROVE cst'[g] \notin {"none", "freed"} <=> Held(g)'
    <3>1. CASE g = c
      <4>1. "await" \in B!Slots /\ handle'[p]["await"] = c BY <1>2, <1>7, Names, Zenon
      <4> QED BY <1>2, <1>3, <1>8, <3>1, <4>1, Zenon DEF Held
    <3>2. CASE g # c
      <4>1. g # None /\ (cst'[g] \in {"none", "freed"} <=> cst[g] \in {"none", "freed"})
        BY <1>8, <3>2, Names, Zenon
      <4>2. ASSUME NEW q \in B!Holders, NEW z \in B!Slots PROVE handle'[q][z] = g <=> handle[q][z] = g
        BY <1>4, <1>7, <3>2, <4>1, Zenon DEF c
      <4> QED BY <1>1, <4>1, <4>2, Zenon DEF Owners, Held
    <3> QED BY <3>1, <3>2, Zenon
  <2> QED BY <2>1, Zenon DEF Owners
<1>14. Fresh'
  <2>1. ASSUME NEW q \in B!Holders, NEW z \in B!Locals, handle'[q][z] # None PROVE cst'[handle'[q][z]] = "initial"
    <3>1. z \in B!Slots /\ z # "await" BY Names, Zenon
    <3>2. handle'[q][z] = handle[q][z] /\ handle[q][z] # c /\ handle[q][z] \in Frames
      BY <1>1, <1>7, <1>11, <2>1, <3>1 DEF TaskTypes
    <3>3. cst[handle[q][z]] = "initial" BY <1>1, <2>1, <3>2, Zenon DEF Fresh
    <3>4. handle[q][z] # p BY <3>2, <3>3, Names, Zenon
    <3> QED BY <1>8, <3>2, <3>3, <3>4, Names, Zenon
  <2> QED BY <2>1, Zenon DEF Fresh
<1>15. Still'
  <2>1. ASSUME NEW g \in Frames
        PROVE  /\ cst'[g] \in {"none", "freed", "initial", "final"} => handle'[g]["local"] = None
               /\ cst'[g] \in {"none", "freed"} => handle'[g]["param"] = None
    <3>1. g \in B!Holders /\ g \in B!Coros BY Names, Zenon
    <3>2. g # p => handle'[g]["local"] = handle[g]["local"] /\ handle'[g]["param"] = handle[g]["param"]
      BY <1>7, <3>1, Names, Zenon
    <3> QED BY <1>1, <1>8, <3>1, <3>2, Zenon DEF Still
  <2> QED BY <2>1, Zenon DEF Still
<1>16. Awaits'
  <2>1. ASSUME NEW q \in B!Holders, q # p PROVE handle'[q]["await"] = handle[q]["await"]
    BY <1>7, <2>1, Names, Zenon
  <2>2. handle'[p]["await"] = c BY <1>2, <1>7, Names, Zenon
  <2>3. ASSUME NEW q \in B!Holders, handle'[q]["await"] # None PROVE Calls(q, handle[q]["await"])'
    <3>1. CASE q = p BY <1>3, <1>8, <1>9, <2>2, <3>1, Zenon DEF Calls
    <3>2. CASE q # p
      <4> DEFINE f == handle[q]["await"]
      <4>1. Calls(q, f) BY <1>1, <2>1, <2>3, <3>2, ZenonT(40) DEF Awaits
      <4>2. f \in Frames /\ f # c /\ q # c
        BY <1>1, <1>3, <1>11, <2>1, <2>3, <3>2, <4>1, Names DEF TaskTypes, Calls
      <4>3. cst'[q] = cst[q] /\ cont'[f] = cont[f] /\ (f # p => cst'[f] = cst[f]) /\ (f = p => cst'[f] = "awaiting" /\ cst[f] = "running")
        BY <1>8, <1>9, <3>2, <4>1, <4>2, Names, Zenon DEF Calls
      <4>4. handle'[q]["await"] = f BY <2>1, <3>2, Zenon
      <4> HIDE DEF f
      <4> QED BY <4>1, <4>3, <4>4, Zenon DEF Calls
    <3> QED BY <3>1, <3>2, Zenon
  <2>4. ASSUME NEW q \in B!Coros, cst'[q] \in {"awaiting", "resumed"} PROVE handle'[q]["await"] # None
    BY <1>1, <1>3, <1>8, <2>1, <2>2, <2>4, Names, Zenon DEF Awaits
  <2> QED BY <2>3, <2>4, Zenon DEF Awaits
<1>17. Bridged'
  <2>1. ASSUME NEW r \in Roots
        PROVE  /\ cst'[r] \in {"none", "initial", "awaiting", "resumed", "running"}
               /\ handle'[r]["local"] = None /\ (handle'[r]["param"] # None <=> cst'[r] = "initial")
    <3>1. r \in B!Holders /\ r \in B!Coros /\ r # c BY <1>3, Names, ZenonT(40)
    <3>2. CASE r = p BY <1>1, <1>7, <1>8, <3>1, <3>2, Names, SMTT(30) DEF Bridged
    <3>3. CASE r # p BY <1>1, <1>7, <1>8, <3>1, <3>3, Names DEF Bridged
    <3> QED BY <3>2, <3>3, Zenon
  <2> QED BY <2>1, Zenon DEF Bridged
<1>18. RootsRun /\ QuietStep
  BY <1>3, <1>8, Names, Zenon DEF RootsRun, QuietStep
<1> QED BY <1>10, <1>12, <1>13, <1>14, <1>15, <1>16, <1>17, <1>18, Zenon DEF TaskInv

\* An operation of the loop suspends a coroutine, or resumes it.
LEMMA ParkStep ==
  ASSUME TaskInv, NEW f \in Frames, NEW k \in {"running", "parked"}, cst[f] \in {"running", "parked"},
         cst' = [cst EXCEPT ![f] = k], handle' = handle, cont' = cont
  PROVE  TaskInv' /\ RootsRun /\ QuietStep
<1>1. TaskTypes /\ Unique /\ Owners /\ Fresh /\ Still /\ Awaits /\ Bridged BY Zenon DEF TaskInv
<1>2. f \in B!Coros /\ \A c \in B!Coros : cst'[c] = IF c = f THEN k ELSE cst[c]
  BY <1>1, Names, Zenon DEF TaskTypes
<1>3. TaskTypes' BY <1>1, <1>2, Zenon DEF TaskTypes, States
<1>4. Unique' BY <1>1, SMTT(30) DEF Unique
<1>5. Owners' BY <1>1, <1>2, Names DEF Owners, Held
<1>6. Fresh' 
  <2>1. ASSUME NEW p \in B!Holders, NEW x \in B!Locals, handle[p][x] # None PROVE cst'[handle[p][x]] = "initial"
    <3>1. cst[handle[p][x]] = "initial" /\ handle[p][x] \in B!Coros
      BY <1>1, <2>1, Names DEF Fresh, TaskTypes
    <3> QED BY <1>2, <3>1, Zenon
  <2> QED BY <2>1, Zenon DEF Fresh
<1>7. Still' BY <1>1, <1>2, Names, Zenon DEF Still
<1>8. Awaits'
  <2>1. ASSUME NEW p \in B!Holders, handle[p]["await"] # None PROVE Calls(p, handle[p]["await"])'
    <3>1. Calls(p, handle[p]["await"]) /\ handle[p]["await"] \in B!Coros
      BY <1>1, <2>1, Names DEF Awaits, TaskTypes
    <3> QED BY <1>2, <3>1, Zenon DEF Calls
  <2>2. ASSUME NEW p \in B!Coros, cst'[p] \in {"awaiting", "resumed"} PROVE handle[p]["await"] # None
    BY <1>1, <1>2, <2>2, Zenon DEF Awaits
  <2> QED BY <2>1, <2>2, Zenon DEF Awaits
<1>9. Bridged' BY <1>1, <1>2, Names, Zenon DEF Bridged
<1>10. RootsRun /\ QuietStep
  BY <1>2, Names, Zenon DEF RootsRun, QuietStep
<1> QED BY <1>3, <1>4, <1>5, <1>6, <1>7, <1>8, <1>9, <1>10, Zenon DEF TaskInv

\* ~task and ~awaiter: the frames that go are held no longer, the others as before.
LEMMA ClearFacts ==
  ASSUME TaskInv, NEW p \in B!Holders, NEW x \in B!Slots, x = "await" => cst[p] = "resumed",
         \A q \in B!Holders, z \in B!Slots : handle'[q][z] =
           IF q \in B!Victims(p, x) \/ (q = p /\ z = x) THEN None ELSE handle[q][z]
  PROVE  Unique' /\ \A g \in Frames : Held(g)' <=> Held(g) /\ g \notin B!Victims(p, x)
<1> DEFINE G == B!Victims(p, x)
<1>1. TaskTypes /\ Unique BY Zenon DEF TaskInv
<1>2. /\ handle[p][x] # None => handle[p][x] \in G
      /\ \A q \in B!Holders, z \in B!Slots : handle[q][z] \in G => q \in G \/ (q = p /\ z = x)
      /\ \A q \in G, z \in B!Slots : handle[q][z] # None => handle[q][z] \in G
  BY VictimFacts, Zenon
<1>3. \A q \in B!Holders, z \in B!Slots : handle'[q][z] = IF q \in G \/ (q = p /\ z = x) THEN None ELSE handle[q][z]
  BY Zenon
<1> HIDE DEF G
<1>4. Unique'
  <2>1. SUFFICES ASSUME NEW q \in B!Holders, NEW r \in B!Holders, NEW z \in B!Slots, NEW w \in B!Slots,
                        handle'[q][z] # None, handle'[q][z] = handle'[r][w]
                 PROVE  q = r /\ z = w
    BY DEF Unique
  <2> QED BY <1>1, <1>3, <2>1, SMTT(30) DEF Unique
<1>5. ASSUME NEW g \in Frames PROVE Held(g)' <=> Held(g) /\ g \notin G
  <2>1. ASSUME NEW q \in B!Holders, NEW z \in B!Slots PROVE handle'[q][z] = g <=> handle[q][z] = g /\ g \notin G
    BY <1>2, <1>3, <2>1, Names
  <2> QED BY <2>1, Zenon DEF Held
<1> QED BY <1>4, <1>5, Zenon DEF G

\* The end of a coroutine: its locals are destroyed and its caller, which holds it, is resumed.
LEMMA ReturnStep ==
  ASSUME TaskInv, NEW f \in Frames, NEW o, B!Return(f, o)
  PROVE  TaskInv' /\ RootsRun /\ QuietStep
<1> DEFINE G == B!Victims(f, "local")
<1>1. TaskTypes /\ Unique /\ Owners /\ Fresh /\ Still /\ Awaits /\ Bridged BY Zenon DEF TaskInv
<1>2. /\ cst[f] = "running" /\ cont' = cont
      /\ cst' = [c \in B!Coros |-> IF c \in G THEN "freed" ELSE B!Resumed(f)[c]]
      /\ handle' = B!Cleared(G, {<<f, "local">>})
  BY Zenon DEF B!Return
<1>3. f \in B!Holders /\ f \in B!Coros /\ f # None /\ f # User /\ "local" \in B!Slots /\ "param" \in B!Slots /\ "await" \in B!Slots
  BY Names, Zenon
<1>4. PICK p \in B!Coros : handle[p]["await"] = f /\ cst[p] = "awaiting" /\ cont[f] = p /\ p \in B!Holders
  <2>1. PICK p \in B!Holders, z \in B!Slots : handle[p][z] = f BY <1>1, <1>2, Zenon DEF Owners, Held
  <2>2. z = "await" BY <1>1, <1>2, <1>3, <2>1, Zenon DEF Fresh, B!Slots
  <2> QED BY <1>1, <1>2, <1>3, <2>1, <2>2, Zenon DEF Awaits, Calls
<1>5. /\ G \subseteq {g \in Frames : cst[g] = "initial"}
      /\ \A q \in B!Holders, z \in B!Slots : handle[q][z] \in G => q \in G \/ (q = f /\ z = "local")
  <2>1. "local" # "await" BY Zenon
  <2> QED BY <1>3, <2>1, VictimFacts, Zenon
<1>6. /\ handle' \in [B!Holders -> [B!Slots -> Frames \cup {None}]]
      /\ \A q \in B!Holders, z \in B!Slots : handle'[q][z] =
           IF q \in G \/ (q = f /\ z = "local") THEN None ELSE handle[q][z]
  <2> HIDE DEF G
  <2>1. ASSUME NEW q \in B!Holders
        PROVE  [z \in B!Slots |-> IF q \in G \/ <<q, z>> \in {<<f, "local">>} THEN None ELSE handle[q][z]]
                 \in [B!Slots -> Frames \cup {None}]
    BY <1>1, Zenon DEF TaskTypes
  <2> QED BY <1>2, <2>1, Zenon DEF B!Cleared
<1>7. Unique' /\ \A g \in Frames : Held(g)' <=> Held(g) /\ g \notin G
  <2>1. "local" # "await" BY Zenon
  <2> QED BY <1>3, <1>6, <2>1, ClearFacts, Zenon
<1> HIDE DEF G
<1>8. \A c \in B!Coros : cst'[c] = IF c \in G THEN "freed" ELSE IF c = f THEN "final" ELSE IF c = p THEN "resumed" ELSE cst[c]
  BY <1>2, <1>4, Zenon DEF B!Resumed
<1>9. p # f /\ f \notin G /\ p \notin G /\ None \notin G /\ \A r \in Roots : r \notin G /\ r # f
  BY <1>2, <1>4, <1>5, Names, Zenon
<1>10. TaskTypes' BY <1>1, <1>2, <1>6, <1>8, Zenon DEF TaskTypes, States
<1>11. Owners'
  <2>1. ASSUME NEW g \in Frames PROVE cst'[g] \notin {"none", "freed"} <=> Held(g)'
    <3>1. g \in B!Coros BY Names, Zenon
    <3>2. cst'[g] \in {"none", "freed"} <=> cst[g] \in {"none", "freed"} \/ g \in G
      BY <1>2, <1>4, <1>8, <1>9, <3>1, Zenon
    <3> QED BY <1>1, <1>7, <3>2, Zenon DEF Owners
  <2> QED BY <2>1, Zenon DEF Owners
<1>12. Fresh'
  <2>1. ASSUME NEW q \in B!Holders, NEW z \in B!Locals, handle'[q][z] # None PROVE cst'[handle'[q][z]] = "initial"
    <3>1. z \in B!Slots BY Names, ZenonT(40)
    <3>2. handle'[q][z] = handle[q][z] /\ handle'[q][z] \in B!Coros BY <1>6, <2>1, <3>1, Names
    <3>3. cst[handle[q][z]] = "initial" BY <1>1, <2>1, <3>2, Zenon DEF Fresh
    <3>4. handle[q][z] \notin G BY <1>5, <1>6, <2>1, <3>1, Zenon
    <3> QED BY <1>2, <1>4, <1>8, <3>2, <3>3, <3>4, Zenon
  <2> QED BY <2>1, Zenon DEF Fresh
<1>13. Still'
  <2>1. ASSUME NEW g \in Frames
        PROVE  /\ cst'[g] \in {"none", "freed", "initial", "final"} => handle'[g]["local"] = None
               /\ cst'[g] \in {"none", "freed"} => handle'[g]["param"] = None
    <3>1. g \in B!Holders /\ g \in B!Coros BY Names, Zenon
    <3>2. g \in G => handle'[g]["local"] = None /\ handle'[g]["param"] = None BY <1>3, <1>6, <3>1, Zenon
    <3>3. g \notin G /\ g # f => handle'[g]["local"] = handle[g]["local"] /\ handle'[g]["param"] = handle[g]["param"]
      BY <1>3, <1>6, <3>1, Zenon
    <3>4. handle'[f]["local"] = None BY <1>3, <1>6, Zenon
    <3> QED BY <1>1, <1>8, <1>9, <3>1, <3>2, <3>3, <3>4, Zenon DEF Still
  <2> QED BY <2>1, Zenon DEF Still
<1>14. Awaits'
  <2>1. ASSUME NEW q \in B!Holders, q \notin G PROVE handle'[q]["await"] = handle[q]["await"]
    BY <1>3, <1>6, <2>1, Zenon
  <2>2. ASSUME NEW q \in B!Holders, handle'[q]["await"] # None PROVE Calls(q, handle[q]["await"])'
    <3> DEFINE c == handle[q]["await"]
    <3>1. q \notin G BY <1>3, <1>6, <2>2, Zenon
    <3>2. Calls(q, c) /\ c # None /\ handle'[q]["await"] = c BY <1>1, <2>1, <2>2, <3>1, ZenonT(40) DEF Awaits
    <3>3. c \in Frames /\ c \notin G BY <1>1, <1>3, <1>5, <3>1, <3>2 DEF TaskTypes
    <3>4. q \in B!Coros /\ q # f /\ c \in B!Coros BY <1>2, <3>2, <3>3, Names, ZenonT(40) DEF Calls
    <3>5. c = f <=> q = p BY <1>1, <1>3, <1>4, <3>2 DEF Unique
    <3> HIDE DEF c
    <3>6. CASE q = p BY <1>3, <1>4, <1>8, <1>9, <3>2, <3>5, <3>6, Zenon DEF Calls
    <3>7. CASE q # p
      <4>1. cst'[q] = cst[q] BY <1>8, <3>1, <3>4, <3>7, Zenon
      <4>2. IF c = p THEN cst'[c] = "resumed" /\ cst[c] = "awaiting" ELSE cst'[c] = cst[c]
        BY <1>4, <1>8, <1>9, <3>3, <3>4, <3>5, <3>7, Zenon
      <4> QED BY <1>2, <3>2, <4>1, <4>2, Zenon DEF Calls
    <3> QED BY <3>6, <3>7, Zenon
  <2>3. ASSUME NEW q \in B!Coros, cst'[q] \in {"awaiting", "resumed"} PROVE handle'[q]["await"] # None
    <3>1. q \notin G /\ q \in B!Holders BY <1>8, <2>3, Names, Zenon
    <3>2. cst[q] \in {"awaiting", "resumed"} BY <1>4, <1>8, <2>3, <3>1, Zenon
    <3> QED BY <1>1, <2>1, <3>1, <3>2, Zenon DEF Awaits
  <2> QED BY <2>2, <2>3, Zenon DEF Awaits
<1>15. Bridged'
  <2>1. ASSUME NEW r \in Roots
        PROVE  /\ cst'[r] = IF r = p THEN "resumed" ELSE cst[r]
               /\ handle'[r]["local"] = handle[r]["local"] /\ handle'[r]["param"] = handle[r]["param"]
    BY <1>3, <1>6, <1>8, <1>9, Names, Zenon
  <2> QED BY <1>1, <1>4, <2>1, Zenon DEF Bridged
<1>16. RootsRun /\ QuietStep
  BY <1>4, <1>5, <1>8, <1>9, Names, Zenon DEF RootsRun, QuietStep
<1> QED BY <1>7, <1>10, <1>11, <1>12, <1>13, <1>14, <1>15, <1>16, Zenon DEF TaskInv

\* await_resume and ~awaiter: the child, which has ended, goes with its parameters.
LEMMA ContinueStep ==
  ASSUME TaskInv, NEW p \in B!Coros, B!Continue(p)
  PROVE  TaskInv' /\ QuietStep /\ \A r \in Roots : cst'[r] = IF r = p THEN "running" ELSE cst[r]
<1> DEFINE G == B!Victims(p, "await")
<1>1. TaskTypes /\ Unique /\ Owners /\ Fresh /\ Still /\ Awaits /\ Bridged BY Zenon DEF TaskInv
<1>2. /\ cst[p] = "resumed" /\ cont' = cont
      /\ cst' = [c \in B!Coros |-> IF c = p THEN "running" ELSE IF c \in G THEN "freed" ELSE cst[c]]
      /\ handle' = B!Cleared(G, {<<p, "await">>})
  BY Zenon DEF B!Continue
<1>3. p \in B!Holders /\ "local" \in B!Slots /\ "param" \in B!Slots /\ "await" \in B!Slots
  BY Names, Zenon
<1>4. /\ G \subseteq {g \in Frames : cst[g] = "initial" \/ cst[g] = "final"}
      /\ \A q \in B!Holders, z \in B!Slots : handle[q][z] \in G => q \in G \/ (q = p /\ z = "await")
  BY <1>2, <1>3, VictimFacts, ZenonT(40)
<1>5. /\ handle' \in [B!Holders -> [B!Slots -> Frames \cup {None}]]
      /\ \A q \in B!Holders, z \in B!Slots : handle'[q][z] =
           IF q \in G \/ (q = p /\ z = "await") THEN None ELSE handle[q][z]
  <2> HIDE DEF G
  <2>1. ASSUME NEW q \in B!Holders
        PROVE  [z \in B!Slots |-> IF q \in G \/ <<q, z>> \in {<<p, "await">>} THEN None ELSE handle[q][z]]
                 \in [B!Slots -> Frames \cup {None}]
    BY <1>1, Zenon DEF TaskTypes
  <2> QED BY <1>2, <2>1, Zenon DEF B!Cleared
<1>6. Unique' /\ \A g \in Frames : Held(g)' <=> Held(g) /\ g \notin G
  BY <1>2, <1>3, <1>5, ClearFacts, Zenon
<1> HIDE DEF G
<1>7. \A c \in B!Coros : cst'[c] = IF c = p THEN "running" ELSE IF c \in G THEN "freed" ELSE cst[c]
  BY <1>2, Zenon
<1>8. p \notin G /\ None \notin G /\ \A r \in Roots : r \notin G BY <1>2, <1>4, Names, Zenon
<1>9. TaskTypes' BY <1>1, <1>2, <1>5, <1>7, Zenon DEF TaskTypes, States
<1>10. Owners'
  <2>1. ASSUME NEW g \in Frames PROVE cst'[g] \notin {"none", "freed"} <=> Held(g)'
    <3>1. g \in B!Coros BY Names, Zenon
    <3>2. cst'[g] \in {"none", "freed"} <=> cst[g] \in {"none", "freed"} \/ g \in G
      BY <1>2, <1>7, <1>8, <3>1, Zenon
    <3> QED BY <1>1, <1>6, <3>2, Zenon DEF Owners
  <2> QED BY <2>1, Zenon DEF Owners
<1>11. Fresh'
  <2>1. ASSUME NEW q \in B!Holders, NEW z \in B!Locals, handle'[q][z] # None PROVE cst'[handle'[q][z]] = "initial"
    <3>1. z \in B!Slots /\ z # "await" BY Names, Zenon
    <3>2. handle'[q][z] = handle[q][z] /\ handle'[q][z] \in B!Coros BY <1>5, <2>1, <3>1, Names
    <3>3. cst[handle[q][z]] = "initial" BY <1>1, <2>1, <3>2, Zenon DEF Fresh
    <3>4. handle[q][z] \notin G BY <1>4, <1>5, <2>1, <3>1, Zenon
    <3> QED BY <1>2, <1>7, <3>2, <3>3, <3>4, Zenon
  <2> QED BY <2>1, Zenon DEF Fresh
<1>12. Still'
  <2>1. ASSUME NEW g \in Frames
        PROVE  /\ cst'[g] \in {"none", "freed", "initial", "final"} => handle'[g]["local"] = None
               /\ cst'[g] \in {"none", "freed"} => handle'[g]["param"] = None
    <3>1. g \in B!Holders /\ g \in B!Coros BY Names, Zenon
    <3>2. g \in G => handle'[g]["local"] = None /\ handle'[g]["param"] = None BY <1>3, <1>5, <3>1, Zenon
    <3>3. g \notin G => handle'[g]["local"] = handle[g]["local"] /\ handle'[g]["param"] = handle[g]["param"]
      BY <1>3, <1>5, <3>1, Zenon
    <3> QED BY <1>1, <1>7, <3>1, <3>2, <3>3, Zenon DEF Still
  <2> QED BY <2>1, Zenon DEF Still
<1>13. Awaits'
  <2>1. ASSUME NEW q \in B!Holders, q \notin G, q # p PROVE handle'[q]["await"] = handle[q]["await"]
    BY <1>3, <1>5, <2>1, Zenon
  <2>2. ASSUME NEW q \in B!Holders, handle'[q]["await"] # None PROVE Calls(q, handle[q]["await"])'
    <3> DEFINE c == handle[q]["await"]
    <3>1. q \notin G /\ q # p BY <1>3, <1>5, <2>2, Zenon
    <3>2. Calls(q, c) /\ c # None /\ handle'[q]["await"] = c BY <1>1, <2>1, <2>2, <3>1, ZenonT(40) DEF Awaits
    <3>3. c \in B!Coros /\ c \notin G BY <1>1, <1>3, <1>4, <3>1, <3>2, Names DEF TaskTypes
    <3> HIDE DEF c
    <3>4. cst'[q] = cst[q] /\ (IF c = p THEN cst'[c] = "running" /\ cst[c] = "resumed" ELSE cst'[c] = cst[c])
      BY <1>2, <1>7, <3>1, <3>2, <3>3, Zenon DEF Calls
    <3> QED BY <1>2, <3>2, <3>4, Zenon DEF Calls
  <2>3. ASSUME NEW q \in B!Coros, cst'[q] \in {"awaiting", "resumed"} PROVE handle'[q]["await"] # None
    <3>1. q \notin G /\ q # p /\ q \in B!Holders /\ cst[q] \in {"awaiting", "resumed"}
      BY <1>7, <2>3, Names, Zenon
    <3> QED BY <1>1, <2>1, <3>1, Zenon DEF Awaits
  <2> QED BY <2>2, <2>3, Zenon DEF Awaits
<1>14. Bridged'
  <2>1. ASSUME NEW r \in Roots
        PROVE  /\ cst'[r] = IF r = p THEN "running" ELSE cst[r]
               /\ handle'[r]["local"] = handle[r]["local"] /\ handle'[r]["param"] = handle[r]["param"]
    BY <1>3, <1>5, <1>7, <1>8, Names, ZenonT(40)
  <2>2. ASSUME NEW r \in Roots
        PROVE  /\ cst'[r] \in {"none", "initial", "awaiting", "resumed", "running"}
               /\ handle'[r]["local"] = None /\ (handle'[r]["param"] # None <=> cst'[r] = "initial")
    <3>1. /\ cst[r] \in {"none", "initial", "awaiting", "resumed", "running"}
          /\ handle[r]["local"] = None /\ (handle[r]["param"] # None <=> cst[r] = "initial")
      BY <1>1, Zenon DEF Bridged
    <3> QED BY <1>2, <2>1, <3>1, SMTT(30)
  <2> QED BY <2>2, Zenon DEF Bridged
<1>15. QuietStep /\ \A r \in Roots : cst'[r] = IF r = p THEN "running" ELSE cst[r]
  BY <1>4, <1>7, <1>8, Names, Zenon DEF QuietStep
<1> QED BY <1>6, <1>9, <1>10, <1>11, <1>12, <1>13, <1>14, <1>15, Zenon DEF TaskInv

\* spawn and sync_wait: the user's task moves into the parameter of the root.
LEMMA AdoptStep ==
  ASSUME TaskInv, NEW r \in Roots, NEW x \in B!Locals, B!Adopt(r, x)
  PROVE  TaskInv' /\ QuietStep /\ \A s \in Roots : cst'[s] = IF s = r THEN "initial" ELSE cst[s]
<1> DEFINE c == handle[User][x]
<1>1. TaskTypes /\ Unique /\ Owners /\ Fresh /\ Still /\ Awaits /\ Bridged BY Zenon DEF TaskInv
<1>2. /\ cst[r] = "none" /\ c # None /\ cont' = cont /\ cst' = [cst EXCEPT ![r] = "initial"]
      /\ handle' = [handle EXCEPT ![User] = [@ EXCEPT ![x] = None], ![r] = [@ EXCEPT !["param"] = c]]
  BY Zenon DEF B!Adopt
<1>3. /\ x \in B!Slots /\ x # "await" /\ "param" \in B!Slots /\ "local" \in B!Slots /\ "await" \in B!Slots
      /\ User \in B!Holders /\ r \in B!Holders /\ r \in B!Coros /\ r # User /\ r \notin Frames
  BY Names, Zenon
<1>4. c \in Frames /\ c # r /\ \A z \in B!Slots : handle[r][z] = None
  BY <1>1, <1>2, <1>3 DEF TaskTypes, Bridged, Awaits, Calls, B!Slots, B!Locals
<1>5. ASSUME NEW q \in B!Holders, NEW z \in B!Slots, handle[q][z] = c PROVE q = User /\ z = x
  BY <1>1, <1>2, <1>3, <1>5 DEF Unique
<1> HIDE DEF c
<1>6. /\ handle' \in [B!Holders -> [B!Slots -> Frames \cup {None}]]
      /\ \A q \in B!Holders, z \in B!Slots : handle'[q][z] =
           IF q = User /\ z = x THEN None ELSE IF q = r /\ z = "param" THEN c ELSE handle[q][z]
  <2> DEFINE a == [handle[User] EXCEPT ![x] = None] b == [handle[r] EXCEPT !["param"] = c]
  <2>1. a \in [B!Slots -> Frames \cup {None}] /\ \A z \in B!Slots : a[z] = IF z = x THEN None ELSE handle[User][z]
    BY <1>1, <1>3, Zenon DEF TaskTypes
  <2>2. b \in [B!Slots -> Frames \cup {None}] /\ \A z \in B!Slots : b[z] = IF z = "param" THEN c ELSE handle[r][z]
    BY <1>1, <1>3, <1>4, Zenon DEF TaskTypes
  <2>3. handle' = [handle EXCEPT ![User] = a, ![r] = b] BY <1>1, <1>2, <1>3, Zenon DEF TaskTypes
  <2> HIDE DEF a, b
  <2> QED BY <1>1, <1>3, <2>1, <2>2, <2>3, Zenon DEF TaskTypes
<1>7. \A k \in B!Coros : cst'[k] = IF k = r THEN "initial" ELSE cst[k]
  BY <1>1, <1>2, Zenon DEF TaskTypes
<1>8. TaskTypes' BY <1>1, <1>2, <1>6, Zenon DEF TaskTypes, States
<1>9. Unique'
  <2>1. SUFFICES ASSUME NEW q \in B!Holders, NEW s \in B!Holders, NEW z \in B!Slots, NEW w \in B!Slots,
                        handle'[q][z] # None, handle'[q][z] = handle'[s][w]
                 PROVE  q = s /\ z = w
    BY SMTT(30) DEF Unique
  <2>2. ASSUME NEW p \in B!Holders, NEW v \in B!Slots, handle'[p][v] # None
        PROVE  \/ p = r /\ v = "param" /\ handle'[p][v] = c
               \/ ~(p = User /\ v = x) /\ handle'[p][v] = handle[p][v]
    BY <1>6, <2>2
  <2>3. \/ s = r /\ w = "param" /\ handle'[s][w] = c
        \/ ~(s = User /\ w = x) /\ handle'[s][w] = handle[s][w]
    BY <2>1, <2>2, Zenon
  <2>4. CASE q = r /\ z = "param" /\ handle'[q][z] = c BY <1>5, <2>1, <2>3, <2>4, SMTT(30)
  <2>5. CASE ~(q = User /\ z = x) /\ handle'[q][z] = handle[q][z]
    BY <1>1, <1>5, <2>1, <2>3, <2>5 DEF Unique
  <2> QED BY <2>1, <2>2, <2>4, <2>5, Zenon
<1>10. Owners'
  <2>1. ASSUME NEW g \in Frames PROVE cst'[g] \notin {"none", "freed"} <=> Held(g)'
    <3>1. cst'[g] = cst[g] /\ g # None BY <1>3, <1>7, Names, Zenon
    <3>2. CASE g = c
      <4>1. handle'[r]["param"] = c /\ Held(c) BY <1>3, <1>6, Zenon DEF Held, c
      <4> QED BY <1>1, <1>3, <3>1, <3>2, <4>1, Zenon DEF Owners, Held
    <3>3. CASE g # c
      <4>1. ASSUME NEW q \in B!Holders, NEW z \in B!Slots PROVE handle'[q][z] = g <=> handle[q][z] = g
        BY <1>4, <1>6, <3>1, <3>3, Zenon DEF c
      <4>2. cst[g] \notin {"none", "freed"} <=> Held(g) BY <1>1, Zenon DEF Owners
      <4>3. Held(g)' <=> Held(g) BY <4>1, Zenon DEF Held
      <4> QED BY <3>1, <4>2, <4>3, Zenon
    <3> QED BY <3>2, <3>3, Zenon
  <2> QED BY <2>1, Zenon DEF Owners
<1>11. Fresh'
  <2>1. ASSUME NEW q \in B!Holders, NEW z \in B!Locals, handle'[q][z] # None PROVE cst'[handle'[q][z]] = "initial"
    <3>1. z \in B!Slots BY Names, Zenon
    <3>2. handle'[q][z] \in Frames BY <1>6, <2>1, <3>1, SMTT(30)
    <3>3. cst[handle'[q][z]] = "initial" BY <1>1, <1>3, <1>6, <2>1, <3>1 DEF Fresh, c
    <3> QED BY <1>3, <1>7, <3>2, <3>3, Names, Zenon
  <2> QED BY <2>1, Zenon DEF Fresh
<1>12. Still'
  <2>1. ASSUME NEW g \in Frames
        PROVE  /\ cst'[g] = cst[g] /\ handle'[g]["local"] = handle[g]["local"] /\ handle'[g]["param"] = handle[g]["param"]
    BY <1>3, <1>6, <1>7, Names, Zenon
  <2> QED BY <1>1, <2>1, Zenon DEF Still
<1>13. Awaits'
  <2>1. ASSUME NEW q \in B!Holders PROVE handle'[q]["await"] = handle[q]["await"] BY <1>3, <1>6, Zenon
  <2>2. ASSUME NEW q \in B!Holders, handle'[q]["await"] # None PROVE Calls(q, handle[q]["await"])'
    <3>1. Calls(q, handle[q]["await"]) /\ handle[q]["await"] \in Frames
      BY <1>1, <1>3, <2>1, <2>2 DEF Awaits, TaskTypes
    <3>2. cst'[q] = cst[q] /\ cst'[handle[q]["await"]] = cst[handle[q]["await"]] /\ q \in B!Coros
      BY <1>2, <1>3, <1>7, <3>1, Names, Zenon DEF Calls
    <3> QED BY <1>2, <2>1, <3>1, <3>2, ZenonT(40) DEF Calls
  <2>3. ASSUME NEW q \in B!Coros, cst'[q] \in {"awaiting", "resumed"} PROVE handle'[q]["await"] # None
    BY <1>1, <1>7, <2>1, <2>3, Names, Zenon DEF Awaits
  <2> QED BY <2>2, <2>3, Zenon DEF Awaits
<1>14. Bridged'
  <2>1. ASSUME NEW s \in Roots
        PROVE  /\ cst'[s] \in {"none", "initial", "awaiting", "resumed", "running"}
               /\ handle'[s]["local"] = None /\ (handle'[s]["param"] # None <=> cst'[s] = "initial")
    <3>1. s \in B!Holders /\ s \in B!Coros /\ s # User BY Names, Zenon
    <3> QED BY <1>1, <1>2, <1>3, <1>6, <1>7, <3>1 DEF Bridged
  <2> QED BY <2>1, ZenonT(40) DEF Bridged
<1>15. QuietStep /\ \A s \in Roots : cst'[s] = IF s = r THEN "initial" ELSE cst[s]
  BY <1>7, Names, Zenon DEF QuietStep
<1> QED BY <1>8, <1>9, <1>10, <1>11, <1>12, <1>13, <1>14, <1>15, Zenon DEF TaskInv
-----------------------------------------------------------------------------
\* co_await of a task, which starts the task or, when it is empty, throws.
LEMMA AwaitStep ==
  ASSUME TaskInv, NEW p \in Frames, NEW x \in B!Locals, B!Await(p, x)
  PROVE  TaskInv' /\ RootsRun /\ QuietStep
<1>1. p \in B!Coros /\ cst[p] = "running" BY Names, Zenon DEF B!Await, B!Running
<1>2. CASE handle[p][x] # None
  <2>1. B!Transfer(p, x) BY <1>2, Zenon DEF B!Await
  <2> QED BY <1>1, <1>2, <2>1, TransferStep, Zenon
<1>3. CASE handle[p][x] = None
  <2>1. cst' = cst /\ handle' = handle /\ cont' = cont BY <1>3, Zenon DEF B!Await
  <2> QED BY <2>1, Idle, Zenon
<1> QED BY <1>2, <1>3, Zenon

\* Every step of the tasks, the bridges' last apart.
LEMMA TaskSteps ==
  ASSUME TaskInv, B!TaskStep
  PROVE  TaskInv' /\ RootsRun /\ QuietStep
<1>1. ASSUME B!UserStep PROVE TaskInv' /\ RootsRun /\ QuietStep
  BY <1>1, CreateStep, AssignStep, Names, Zenon DEF B!UserStep
<1>2. ASSUME NEW f \in Frames, B!Body(f) PROVE TaskInv' /\ RootsRun /\ QuietStep
  <2>1. f \in B!Holders BY Names, Zenon
  <2>2. ASSUME B!Suspend(f) PROVE TaskInv' /\ RootsRun /\ QuietStep
    BY <2>2, ParkStep, Zenon DEF B!Suspend
  <2> QED BY <1>2, <2>1, <2>2, CreateStep, AssignStep, AwaitStep, ReturnStep, Zenon DEF B!Body
<1>3. ASSUME NEW f \in Frames, B!Wake(f) PROVE TaskInv' /\ RootsRun /\ QuietStep
  BY <1>3, ParkStep, Zenon DEF B!Wake
<1>4. ASSUME NEW f \in Frames, B!Continue(f) PROVE TaskInv' /\ RootsRun /\ QuietStep
  <2>1. f \in B!Coros /\ \A r \in Roots : r # f BY Names, Zenon
  <2>2. TaskInv' /\ QuietStep /\ \A r \in Roots : cst'[r] = IF r = f THEN "running" ELSE cst[r]
    BY <1>4, <2>1, ContinueStep, Zenon
  <2> QED BY <2>1, <2>2, Zenon DEF RootsRun
<1>5. ASSUME NEW r \in Roots, B!Begin(r) PROVE TaskInv' /\ RootsRun /\ QuietStep
  <2>1. r \in B!Coros /\ "param" \in B!Locals BY Names, Zenon
  <2>2. cst[r] = "initial" /\ B!Transfer(r, "param") BY <1>5, Zenon DEF B!Begin
  <2>3. handle[r]["param"] # None BY <2>2, Zenon DEF TaskInv, Bridged
  <2> QED BY <2>1, <2>2, <2>3, TransferStep, Zenon
<1> QED BY <1>1, <1>2, <1>3, <1>4, <1>5, Zenon DEF B!TaskStep
-----------------------------------------------------------------------------
\* The steps of the tasks leave the producers where they are.
LEMMA RootSteps ==
  ASSUME JoinInv, RootsRun, UNCHANGED B!joinVars
  PROVE  JoinInv'
<1>1. way' = way /\ pro' = pro /\ con' = con /\ done' = done /\ refs' = refs BY Zenon DEF B!joinVars
<1>2. JoinTypes' BY <1>1, Zenon DEF JoinInv, JoinTypes
<1>3. ASSUME NEW r \in B!Results PROVE Joined(r)'
  <2>1. Joined(r) /\ (cst'[r] = cst[r] \/ {cst[r], cst'[r]} \subseteq {"initial", "awaiting", "resumed"})
    BY Zenon DEF JoinInv, RootsRun, B!Results
  <2> QED BY <1>1, <2>1, Zenon DEF Joined
<1> QED BY <1>2, <1>3, Zenon DEF JoinInv

\* The producer's last steps.
LEMMA ProducerSteps ==
  ASSUME JoinInv, TaskInv, NEW r \in B!Results, B!Publish(r) \/ B!NotifyAll(r) \/ B!Release(r)
  PROVE  JoinInv' /\ UNCHANGED B!taskVars
<1>1. JoinTypes /\ \A s \in B!Results : Joined(s) BY Zenon DEF JoinInv
<1>2. CASE B!Publish(r)
  <2>1. /\ pro[r] = "publish" /\ done' = [done EXCEPT ![r] = TRUE]
        /\ con' = [con EXCEPT ![r] = IF @ = "blocked" THEN "woken" ELSE @]
        /\ pro' = [pro EXCEPT ![r] = IF way[r] = "spawn" THEN "notify" ELSE "gone"]
        /\ way' = way /\ refs' = refs /\ cst' = cst /\ UNCHANGED B!taskVars
    BY <1>2, Zenon DEF B!Publish, B!Complete, B!taskVars
  <2>2. JoinTypes' BY <1>1, <2>1, Zenon DEF JoinTypes
  <2>3. ASSUME NEW s \in B!Results PROVE Joined(s)' BY <1>1, <2>1, Zenon DEF JoinTypes, Joined
  <2> QED BY <2>1, <2>2, <2>3, Zenon DEF JoinInv
<1>3. CASE B!NotifyAll(r)
  <2>1. /\ pro[r] = "notify" /\ pro' = [pro EXCEPT ![r] = "unlink"]
        /\ con' = [con EXCEPT ![r] = IF @ = "parked" THEN "mailed" ELSE @]
        /\ way' = way /\ refs' = refs /\ done' = done /\ cst' = cst /\ UNCHANGED B!taskVars
    BY <1>3, Zenon DEF B!NotifyAll, B!taskVars
  <2>2. JoinTypes' BY <1>1, <2>1, Zenon DEF JoinTypes
  <2>3. ASSUME NEW s \in B!Results PROVE Joined(s)' BY <1>1, <2>1, Zenon DEF JoinTypes, Joined
  <2> QED BY <2>1, <2>2, <2>3, Zenon DEF JoinInv
<1>4. CASE B!Release(r)
  <2>1. /\ pro[r] = "unlink" /\ pro' = [pro EXCEPT ![r] = "gone"]
        /\ refs' = [refs EXCEPT ![r] = @ \ {"producer"}]
        /\ way' = way /\ con' = con /\ done' = done /\ cst' = cst /\ UNCHANGED B!taskVars
    BY <1>4, Zenon DEF B!Release, B!taskVars
  <2>2. JoinTypes' BY <1>1, <2>1, Zenon DEF JoinTypes
  <2>3. ASSUME NEW s \in B!Results PROVE Joined(s)' BY <1>1, <2>1, Zenon DEF JoinTypes, Joined
  <2> QED BY <2>1, <2>2, <2>3, Zenon DEF JoinInv
<1> QED BY <1>2, <1>3, <1>4, Zenon

\* The consumer lets go of a state that the producer keeps, or has left.
LEMMA ConsumerMoves ==
  ASSUME JoinInv, NEW r \in B!Results,
         NEW k \in {"holds", "blocked", "woken", "asking", "parked", "mailed", "took", "dropped"},
         k \in {"asking", "parked", "mailed", "dropped"} => way[r] = "spawn",
         con' = [con EXCEPT ![r] = k], way' = way, pro' = pro, done' = done, cst' = cst,
         refs' = refs \/ (refs' = [refs EXCEPT ![r] = @ \ {"consumer"}] /\ (way[r] = "sync" => pro[r] = "gone"))
  PROVE  JoinInv'
<1>1. JoinTypes /\ \A s \in B!Results : Joined(s) BY Zenon DEF JoinInv
<1>2. refs' \in [B!Results -> SUBSET {"producer", "consumer"}] BY <1>1 DEF JoinTypes
<1>3. JoinTypes' BY <1>1, <1>2, Zenon DEF JoinTypes
<1>4. ASSUME NEW s \in B!Results PROVE Joined(s)'
  <2>1. CASE refs' = refs BY <1>1, <2>1, Zenon DEF JoinTypes, Joined
  <2>2. CASE refs' = [refs EXCEPT ![r] = @ \ {"consumer"}] /\ (way[r] = "sync" => pro[r] = "gone")
    <3>1. /\ "producer" \in refs'[s] <=> "producer" \in refs[s]
          /\ s # r => refs'[s] = refs[s]
      BY <1>1, <2>2, Zenon DEF JoinTypes
    <3> QED BY <1>1, <2>2, <3>1, Zenon DEF JoinTypes, Joined
  <2> QED BY <2>1, <2>2, Zenon
<1> QED BY <1>3, <1>4, Zenon DEF JoinInv

\* What the holder of the future does leaves the tasks alone.
LEMMA ConsumerSteps ==
  ASSUME JoinInv, NEW r \in B!Results, B!Consumer(r) \/ B!Spurious(r) \/ B!Join(r) \/ B!Detach(r)
  PROVE  JoinInv' /\ UNCHANGED B!taskVars
<1>1. Joined(r) BY Zenon DEF JoinInv
<1>2. way' = way /\ pro' = pro /\ done' = done /\ cst' = cst /\ UNCHANGED B!taskVars
  BY Zenon DEF B!Consumer, B!Get, B!Park, B!Resume, B!Spurious, B!Join, B!Detach, B!taskVars
<1>3. ASSUME B!Take(r), done[r] \/ way[r] = "spawn" PROVE JoinInv'
  <2>1. con' = [con EXCEPT ![r] = "took"] /\ refs' = [refs EXCEPT ![r] = @ \ {"consumer"}]
    BY <1>3, Zenon DEF B!Take
  <2>2. way[r] = "sync" => pro[r] = "gone" BY <1>1, <1>3, Zenon DEF Joined
  <2> QED BY <1>2, <2>1, <2>2, ConsumerMoves, Zenon
<1>4. CASE B!Get(r)
  <2>1. done[r] => B!Take(r) BY <1>4, Zenon DEF B!Get
  <2>2. ~done[r] => con' = [con EXCEPT ![r] = "blocked"] /\ refs' = refs BY <1>4, Zenon DEF B!Get
  <2>3. CASE ~done[r] BY <1>2, <2>2, <2>3, ConsumerMoves, Zenon
  <2> QED BY <1>2, <1>3, <2>1, <2>3, Zenon
<1>5. CASE B!Park(r)
  <2>1. way[r] = "spawn" BY <1>1, <1>5, Zenon DEF Joined, B!Park
  <2>2. B!Take(r) \/ (con' = [con EXCEPT ![r] = "parked"] /\ refs' = refs) BY <1>5, Zenon DEF B!Park
  <2>3. CASE con' = [con EXCEPT ![r] = "parked"] /\ refs' = refs
    BY <1>2, <2>1, <2>3, ConsumerMoves, Zenon
  <2> QED BY <1>2, <1>3, <2>1, <2>2, <2>3, Zenon
<1>6. CASE B!Resume(r)
  <2>1. way[r] = "spawn" BY <1>1, <1>6, Zenon DEF Joined, B!Resume
  <2> QED BY <1>2, <1>3, <1>6, <2>1, Zenon DEF B!Resume
<1>7. CASE B!Spurious(r)
  <2>1. con' = [con EXCEPT ![r] = "woken"] /\ refs' = refs BY <1>7, Zenon DEF B!Spurious
  <2> QED BY <1>2, <2>1, ConsumerMoves, Zenon
<1>8. CASE B!Join(r)
  <2>1. way[r] = "spawn" /\ con' = [con EXCEPT ![r] = "asking"] /\ refs' = refs
    BY <1>8, Zenon DEF B!Join
  <2> QED BY <1>2, <2>1, ConsumerMoves, Zenon
<1>9. CASE B!Detach(r)
  <2>1. /\ way[r] = "spawn" /\ con' = [con EXCEPT ![r] = "dropped"] 
        /\ refs' = [refs EXCEPT ![r] = @ \ {"consumer"}]
    BY <1>9, Zenon DEF B!Detach
  <2> QED BY <1>2, <2>1, ConsumerMoves, Zenon
<1> QED BY <1>4, <1>5, <1>6, <1>7, <1>8, <1>9, Zenon DEF B!Consumer

\* The root has its child's result and has destroyed the child before it publishes.
LEMMA ProduceStep ==
  ASSUME SpawnInv, NEW r \in B!Results, B!Produce(r)
  PROVE  SpawnInv' /\ QuietStep
<1>1. TaskInv /\ JoinTypes /\ (\A s \in B!Results : Joined(s)) /\ r \in B!Coros /\ r \in Roots
  BY Names, Zenon DEF SpawnInv, JoinInv, B!Results
<1>2. /\ B!Continue(r) /\ cst[r] = "resumed" /\ pro' = [pro EXCEPT ![r] = "publish"]
      /\ way' = way /\ con' = con /\ done' = done /\ refs' = refs
  BY Zenon DEF B!Produce, B!Continue
<1>3. TaskInv' /\ QuietStep /\ \A s \in Roots : cst'[s] = IF s = r THEN "running" ELSE cst[s]
  BY <1>1, <1>2, ContinueStep, Zenon
<1>4. JoinTypes' BY <1>1, <1>2, Zenon DEF JoinTypes
<1>5. ASSUME NEW s \in B!Results PROVE Joined(s)'
  <2>1. Joined(s) /\ Joined(r) /\ s \in Roots BY <1>1, Zenon DEF B!Results
  <2> QED BY <1>1, <1>2, <1>3, <2>1, Zenon DEF JoinTypes, Joined
<1> QED BY <1>3, <1>4, <1>5, Zenon DEF SpawnInv, JoinInv

\* spawn and sync_wait.
LEMMA CallStep ==
  ASSUME SpawnInv, NEW r \in B!Results, NEW x \in B!Locals, NEW w \in {"spawn", "sync"}, B!Call(r, x, w)
  PROVE  SpawnInv' /\ QuietStep
<1>1. TaskInv /\ JoinTypes /\ (\A s \in B!Results : Joined(s)) /\ r \in Roots
  BY Zenon DEF SpawnInv, JoinInv, B!Results
<1>2. /\ B!Adopt(r, x) /\ cst[r] = "none" /\ way' = [way EXCEPT ![r] = w]
      /\ pro' = [pro EXCEPT ![r] = "running"] /\ con' = [con EXCEPT ![r] = "holds"] /\ done' = done
      /\ refs' = [refs EXCEPT ![r] = IF w = "spawn" THEN {"producer", "consumer"} ELSE {"consumer"}]
  BY Zenon DEF B!Call, B!Adopt
<1>3. TaskInv' /\ QuietStep /\ \A s \in Roots : cst'[s] = IF s = r THEN "initial" ELSE cst[s]
  BY <1>1, <1>2, AdoptStep, Zenon
<1>4. JoinTypes' BY <1>1, <1>2, Zenon DEF JoinTypes
<1>5. ASSUME NEW s \in B!Results PROVE Joined(s)'
  <2>1. Joined(s) /\ Joined(r) /\ s \in Roots BY <1>1, Zenon DEF B!Results
  <2>2. s = r => refs'[s] = IF w = "spawn" THEN {"producer", "consumer"} ELSE {"consumer"}
    BY <1>1, <1>2, Zenon DEF JoinTypes
  <2>3. s # r => refs'[s] = refs[s] BY <1>1, <1>2, Zenon DEF JoinTypes
  <2>4. CASE s = r BY <1>1, <1>2, <1>3, <2>1, <2>2, <2>4, Zenon DEF JoinTypes, Joined
  <2>5. CASE s # r BY <1>1, <1>2, <1>3, <2>1, <2>3, <2>5, Zenon DEF JoinTypes, Joined
  <2> QED BY <2>4, <2>5, Zenon
<1> QED BY <1>3, <1>4, <1>5, Zenon DEF SpawnInv, JoinInv

\* The invariant is inductive, and no step destroys a frame that runs or waits.
LEMMA SpawnSteps ==
  ASSUME SpawnInv, [B!Next]_(B!vars)
  PROVE  SpawnInv' /\ QuietStep
<1>1. TaskInv /\ JoinInv BY Zenon DEF SpawnInv
<1>2. ASSUME UNCHANGED B!taskVars PROVE TaskInv' /\ RootsRun /\ QuietStep
  <2>1. cst' = cst /\ handle' = handle /\ cont' = cont BY <1>2, Zenon DEF B!taskVars
  <2> QED BY <1>1, <2>1, Idle, Zenon
<1>3. CASE B!TaskStep /\ UNCHANGED B!joinVars BY <1>1, <1>3, TaskSteps, RootSteps, Zenon DEF SpawnInv
<1>4. CASE \E r \in B!Results : \/ B!Producer(r) \/ B!Consumer(r) \/ B!Spurious(r) \/ B!Join(r) \/ B!Detach(r)
                              \/ \E x \in B!Locals, w \in {"spawn", "sync"} : B!Call(r, x, w)
  <2>1. PICK r \in B!Results : \/ B!Producer(r) \/ B!Consumer(r) \/ B!Spurious(r) \/ B!Join(r) \/ B!Detach(r)
                             \/ \E x \in B!Locals, w \in {"spawn", "sync"} : B!Call(r, x, w)
    BY <1>4, Zenon
  <2>2. ASSUME B!Publish(r) \/ B!NotifyAll(r) \/ B!Release(r) PROVE SpawnInv' /\ QuietStep
    BY <1>1, <1>2, <2>2, ProducerSteps, Zenon DEF SpawnInv
  <2>3. ASSUME B!Consumer(r) \/ B!Spurious(r) \/ B!Join(r) \/ B!Detach(r) PROVE SpawnInv' /\ QuietStep
    BY <1>1, <1>2, <2>3, ConsumerSteps, Zenon DEF SpawnInv
  <2> QED BY <2>1, <2>2, <2>3, ProduceStep, CallStep, Zenon DEF B!Producer
<1>5. CASE UNCHANGED B!vars
  <2>1. UNCHANGED B!taskVars /\ UNCHANGED B!joinVars BY <1>5, Zenon DEF B!vars
  <2> QED BY <1>1, <1>2, <2>1, RootSteps, Zenon DEF SpawnInv
<1> QED BY <1>3, <1>4, <1>5, Zenon DEF B!Next

\* What the ownership of frames and the hand-over of a result rest on, with any number of
\* frames and results and whatever the tasks do.
THEOREM SpawnInductive == B!Spec => []SpawnInv
<1>1. ASSUME B!Init PROVE SpawnInv
  <2>1. /\ cst = [c \in B!Coros |-> "none"] /\ handle = [p \in B!Holders |-> B!Empty]
        /\ cont = [f \in Frames |-> None]
    BY <1>1, Zenon DEF B!Init, B!TaskInit
  <2>2. /\ \A c \in B!Coros : cst[c] = "none"
        /\ \A p \in B!Holders, x \in B!Slots : handle[p][x] = None
    BY <2>1, Zenon DEF B!Empty
  <2>3. TaskTypes BY <2>1, Zenon DEF TaskTypes, States, B!Empty
  <2>4. Unique /\ Owners BY <2>2, Names, Zenon DEF Unique, Owners, Held
  <2>5. Fresh /\ Still /\ Awaits /\ Bridged BY <2>2, Names, Zenon DEF Fresh, Still, Awaits, Bridged
  <2>6. JoinTypes BY <1>1, Zenon DEF B!Init, JoinTypes
  <2>7. ASSUME NEW r \in B!Results PROVE Joined(r)
    <3>1. cst[r] = "none" BY <2>2, Names, Zenon DEF B!Results
    <3> QED BY <1>1, <3>1, Zenon DEF B!Init, Joined
  <2> QED BY <2>3, <2>4, <2>5, <2>6, <2>7, Zenon DEF SpawnInv, TaskInv, JoinInv
<1>2. SpawnInv /\ [B!Next]_(B!vars) => SpawnInv' BY SpawnSteps, Zenon
<1> QED BY <1>1, <1>2, PTL DEF B!Spec

\* Every live frame has exactly one handle, and no handle refers to a frame that is gone:
\* task's moves, its awaiter and its destructors neither leak a frame nor destroy it twice.
THEOREM FramesOwned == B!Spec => []OneOwner
<1>1. SpawnInv => OneOwner
  <2> SUFFICES ASSUME SpawnInv PROVE OneOwner BY Zenon
  <2>1. Unique /\ Owners BY Zenon DEF SpawnInv, TaskInv
  <2> QED BY <2>1, Zenon DEF OneOwner, Unique, Owners, Held, B!Live
<1> QED BY <1>1, SpawnInductive, PTL

\* ~task and ~awaiter destroy frames that have not begun or have ended.
THEOREM DestroyedQuietly == B!Spec => QuietDestroy
<1>1. SpawnInv /\ [B!Next]_(B!vars) =>
        [\A f \in Frames : cst'[f] = "freed" => cst[f] \in {"initial", "final", "freed"}]_(B!taskVars)
  BY SpawnSteps, Zenon DEF QuietStep
<1> QED BY <1>1, SpawnInductive, PTL DEF B!Spec, QuietDestroy

\* The state of spawn and of sync_wait is there as long as the producer uses it, and the frames of
\* the task are gone once the completion can be seen.
THEOREM StateOutlives == B!Spec => []LifetimesNested
<1>1. SpawnInv => LifetimesNested
  <2>1. SUFFICES ASSUME SpawnInv, NEW r \in B!Results
                 PROVE  /\ pro[r] \notin {"idle", "gone"} => refs[r] # {}
                        /\ done[r] => handle[r] = B!Empty
    BY Zenon DEF LifetimesNested
  <2>2. TaskTypes /\ Awaits /\ Bridged /\ JoinTypes /\ Joined(r) /\ r \in Roots /\ r \in B!Holders /\ r \in B!Coros
    BY <2>1, Names, Zenon DEF SpawnInv, TaskInv, JoinInv, B!Results
  <2>3. pro[r] \notin {"idle", "gone"} => refs[r] # {} BY <2>2, Zenon DEF JoinTypes, Joined
  <2>4. ASSUME done[r] PROVE handle[r] = B!Empty
    <3>1. cst[r] = "running" BY <2>2, <2>4, Zenon DEF Joined, Bridged
    <3>2. \A x \in B!Slots : handle[r][x] = None
      BY <2>2, <3>1, Zenon DEF Bridged, Awaits, Calls, B!Slots, B!Locals
    <3>3. handle[r] \in [B!Slots -> Frames \cup {None}] BY <2>2, Zenon DEF TaskTypes
    <3> QED BY <3>2, <3>3, Zenon DEF B!Empty
  <2> QED BY <2>3, <2>4, Zenon
<1> QED BY <1>1, SpawnInductive, PTL
=============================================================================
