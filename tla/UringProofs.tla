----------------------------- MODULE UringProofs -----------------------------
(***************************************************************************)
(* Proofs about the io_uring driver, for any number of requests, any queue *)
(* and batch sizes, with and without DRAIN and failing submissions: the    *)
(* kernel never refers to a request that was given back, every wait can be *)
(* ended by a wake, and no wake poll holds up a DRAIN.  And proofs about   *)
(* native request objects (Natives), for any objects, slots and regions:   *)
(* memory and direction of zero-copy sends are accounted for.              *)
(***************************************************************************)
EXTENDS Uring, Natives, FiniteSetTheorems, TLAPS

Completions == Submissions \cup {More(o) : o \in Ops}

\* What the kernel still has to complete and what it still has to be told, in order.
Line == kq \o sq

In(q, e) == \E i \in DOMAIN q : q[i] = e
Single(q, e) == \A i, j \in DOMAIN q : q[i] = e /\ q[j] = e => i = j

\* A submission is somewhere between its preparation and the handling of its completion;
\* and at one place only.
Flying(e) == In(Line, e) \/ In(cq, e)
Unique(e) == Single(Line, e) /\ Single(cq, e) /\ ~(In(Line, e) /\ In(cq, e))

Types ==
  /\ sq \in Seq(Submissions) /\ kq \in Seq(Submissions) /\ cq \in Seq(Completions)
  /\ {iopoll, event, watching, waking, timed, seen} \subseteq BOOLEAN
  /\ st \in [Ops -> {"free", "linked", "ready"}]
  /\ drain \in [Ops -> BOOLEAN] /\ sent \in [Ops -> BOOLEAN]
  /\ canceling \in [Ops -> BOOLEAN] /\ done \in [Ops -> BOOLEAN]
  /\ pc \in {"run", "wait", "reap"} /\ left \in Nat /\ left <= Len(cq)

\* canceling and done say which completions of a linked request are still to come; those of
\* a multishot request come before its last one.
Tracks(o) ==
  /\ Unique(Request(o)) /\ Unique(Cancellation(o))
  /\ Flying(Request(o)) <=> st[o] = "linked" /\ ~done[o]
  /\ Flying(Cancellation(o)) <=> canceling[o]
  /\ canceling[o] => st[o] = "linked" /\ sent[o]
  /\ st[o] = "linked" /\ done[o] => canceling[o]
  /\ st[o] = "free" => ~done[o] /\ ~sent[o]
MoreBefore(o) ==
  \A i \in DOMAIN cq : cq[i] = More(o) =>
    In(Line, Request(o)) \/ \E j \in DOMAIN cq : i < j /\ cq[j] = Request(o)
Tracked == \A o \in Ops : Tracks(o) /\ MoreBefore(o)

\* watching says whether there is a wake poll; there is one whenever no DRAIN suppresses it,
\* and poll waits without a timeout only then.
Watched ==
  /\ Unique(Watch) /\ (Flying(Watch) <=> watching /\ ~seen)
  /\ seen => pc = "reap" /\ watching
  /\ iopoll => ~watching /\ ~waking
  /\ waking => event
  /\ pc # "run" => sq = <<>>
  /\ pc = "run" /\ ~iopoll /\ drains = 0 => watching
  /\ pc = "wait" /\ ~timed /\ ~iopoll => watching

\* The draining requests that are pending, and the counter for them: a submission that
\* fails may leave it too high, nothing makes it too low.
Draws == {o \in Pending : drain[o]}
Counted ==
  /\ drains \in Nat /\ Cardinality(Draws) <= drains
  /\ ~Faults => drains = Cardinality(Draws)

UringInv == Types /\ Tracked /\ Watched /\ Counted /\ DrainNotBlocked
-----------------------------------------------------------------------------
\* The user data of submissions and completions tell them apart.
LEMMA Names ==
  /\ \A o, p \in Ops : /\ Request(o) = Request(p) => o = p
                       /\ Cancellation(o) = Cancellation(p) => o = p
                       /\ More(o) = More(p) => o = p
                       /\ Request(o) # Cancellation(p) /\ Request(o) # More(p)
                       /\ Cancellation(o) # More(p)
  /\ \A o \in Ops : Request(o) # Watch /\ Cancellation(o) # Watch /\ More(o) # Watch
  /\ Watch \in Submissions
  /\ \A o \in Ops : Request(o) \in Submissions /\ Cancellation(o) \in Submissions
<1>1. \A o, p \in Ops : /\ Request(o) = Request(p) => o = p
                        /\ Cancellation(o) = Cancellation(p) => o = p
                        /\ More(o) = More(p) => o = p
                        /\ Request(o) # Cancellation(p) /\ Request(o) # More(p)
                        /\ Cancellation(o) # More(p)
  BY Zenon DEF Request, Cancellation, More
<1>2. \A o \in Ops : Request(o) # Watch /\ Cancellation(o) # Watch /\ More(o) # Watch
  BY Zenon DEF Request, Cancellation, More, Watch
<1>3. Watch \in Submissions /\ \A o \in Ops : Request(o) \in Submissions /\ Cancellation(o) \in Submissions
  BY Zenon DEF Submissions
<1> QED BY <1>1, <1>2, <1>3, Zenon

\* What every completion is.
LEMMA Kinds ==
  ASSUME NEW e \in Completions
  PROVE  e = Watch \/ \E o \in Ops : e \in {Request(o), Cancellation(o), More(o)}
BY Zenon DEF Completions, Submissions

\* What a queue holds after a push.
LEMMA Pushed ==
  ASSUME NEW S, NEW q \in Seq(S), NEW x \in S
  PROVE  /\ Append(q, x) \in Seq(S)
         /\ \A e : In(Append(q, x), e) <=> In(q, e) \/ e = x
         /\ \A e : Single(q, e) /\ (e = x => ~In(q, e)) => Single(Append(q, x), e)
<1>1. /\ Append(q, x) \in Seq(S) /\ Len(q) \in Nat /\ DOMAIN q = 1..Len(q)
      /\ DOMAIN Append(q, x) = 1..Len(q) + 1
      /\ \A i \in 1..Len(q) : Append(q, x)[i] = q[i]
      /\ Append(q, x)[Len(q) + 1] = x
  OBVIOUS
<1>2. \A e : In(Append(q, x), e) <=> In(q, e) \/ e = x BY <1>1 DEF In
<1>3. ASSUME NEW e, Single(q, e), e = x => ~In(q, e) PROVE Single(Append(q, x), e)
  <2>1. SUFFICES ASSUME NEW i \in 1..Len(q) + 1, NEW j \in 1..Len(q) + 1,
                        Append(q, x)[i] = e, Append(q, x)[j] = e
                 PROVE  i = j
    BY <1>1, Zenon DEF Single
  <2>2. \A k \in 1..Len(q) : q[k] = e => e # x BY <1>1, <1>3, Zenon DEF In
  <2>3. CASE i \in 1..Len(q) /\ j \in 1..Len(q) BY <1>1, <1>3, <2>1, <2>3, Zenon DEF Single
  <2>4. CASE i = Len(q) + 1 /\ j \in 1..Len(q) BY <1>1, <2>1, <2>2, <2>4, Zenon
  <2>5. CASE i \in 1..Len(q) /\ j = Len(q) + 1 BY <1>1, <2>1, <2>2, <2>5, Zenon
  <2> QED BY <1>1, <2>3, <2>4, <2>5
<1> QED BY <1>1, <1>2, <1>3, Zenon

\* What a queue holds without one of its places.
LEMMA Removed ==
  ASSUME NEW S, NEW q \in Seq(S), NEW w \in Seq(S), NEW k \in 1..Len(q), Len(w) = Len(q) - 1,
         \A i \in 1..Len(w) : w[i] = IF i < k THEN q[i] ELSE q[i + 1], NEW e, Single(q, e)
  PROVE  Single(w, e) /\ (In(w, e) <=> In(q, e) /\ e # q[k])
<1>1. Len(q) \in Nat /\ DOMAIN q = 1..Len(q) /\ DOMAIN w = 1..Len(q) - 1 OBVIOUS
<1>2. \A i \in 1..Len(q) - 1 : i \in 1..Len(q) /\ i + 1 \in 1..Len(q) BY <1>1
<1>3. Single(w, e)
  <2>1. SUFFICES ASSUME NEW i \in 1..Len(q) - 1, NEW j \in 1..Len(q) - 1, w[i] = e, w[j] = e
                 PROVE  i = j
    BY <1>1, Zenon DEF Single
  <2>2. (IF i < k THEN i ELSE i + 1) = (IF j < k THEN j ELSE j + 1)
    BY <1>1, <1>2, <2>1, Zenon DEF Single
  <2> QED BY <2>2
<1>4. ASSUME NEW i \in 1..Len(q) - 1, w[i] = e PROVE In(q, e) /\ e # q[k]
  <2> DEFINE n == IF i < k THEN i ELSE i + 1
  <2>1. n \in 1..Len(q) /\ n # k /\ q[n] = e BY <1>1, <1>2, <1>4
  <2> HIDE DEF n
  <2> QED BY <1>1, <2>1, Zenon DEF In, Single
<1>5. ASSUME NEW i \in 1..Len(q), q[i] = e, e # q[k] PROVE In(w, e)
  <2>1. i # k BY <1>5, Zenon
  <2>2. CASE i < k
    <3>1. i \in 1..Len(q) - 1 /\ w[i] = e BY <1>1, <1>5, <2>2
    <3> QED BY <1>1, <3>1, Zenon DEF In
  <2>3. CASE i > k
    <3>1. i - 1 \in 1..Len(q) - 1 /\ ~(i - 1 < k) /\ (i - 1) + 1 = i BY <1>1, <2>3
    <3>2. w[i - 1] = e BY <1>1, <1>5, <3>1, Zenon
    <3> QED BY <1>1, <3>1, <3>2, Zenon DEF In
  <2> QED BY <2>1, <2>2, <2>3
<1> QED BY <1>1, <1>3, <1>4, <1>5, Zenon DEF In

\* Two parts of a queue read one after the other.
LEMMA Parts ==
  ASSUME NEW S, NEW s \in Seq(S), NEW u \in Seq(S)
  PROVE  /\ s \o u \in Seq(S) /\ Len(s \o u) = Len(s) + Len(u)
         /\ Len(s) \in Nat /\ Len(u) \in Nat
         /\ \A i \in 1..Len(s) + Len(u) : (s \o u)[i] = IF i <= Len(s) THEN s[i] ELSE u[i - Len(s)]
         /\ <<>> \o u = u /\ s \o <<>> = s /\ (s \o u) \o <<>> = s \o u
         /\ \A x \in S : s \o Append(u, x) = Append(s \o u, x) /\ (s \o u) \o <<x>> = Append(s \o u, x)
<1>1. /\ s \o u \in Seq(S) /\ Len(s \o u) = Len(s) + Len(u)
      /\ Len(s) \in Nat /\ Len(u) \in Nat
      /\ \A i \in 1..Len(s) + Len(u) : (s \o u)[i] = IF i <= Len(s) THEN s[i] ELSE u[i - Len(s)]
  OBVIOUS
<1>2. \A q \in Seq(S) : q \o <<>> = q /\ <<>> \o q = q OBVIOUS
<1>3. \A q \in Seq(S), x \in S : q \o <<x>> = Append(q, x) OBVIOUS
<1>4. \A x \in S : s \o Append(u, x) = Append(s \o u, x) OBVIOUS
<1> QED BY <1>1, <1>2, <1>3, <1>4, Zenon

\* driver::sqe adds a submission at the end, whether it submits the others first or not.
LEMMA EnterLine ==
  ASSUME Types, NEW x \in Submissions, Enter(x)
  PROVE  /\ sq' \in Seq(Submissions) /\ kq' \in Seq(Submissions)
         /\ Line \in Seq(Submissions) /\ Line' = Append(Line, x)
<1>1. sq \in Seq(Submissions) /\ kq \in Seq(Submissions) BY Zenon DEF Types
<1>2. Line \in Seq(Submissions) BY <1>1, Parts, Zenon DEF Line
<1>3. CASE MustFlush
  <2>1. sq' = <<x>> /\ kq' = kq \o sq BY <1>3, Zenon DEF Enter
  <2>2. kq' \o sq' = Append(kq \o sq, x) BY <1>1, <2>1, Parts
  <2>3. <<x>> \in Seq(Submissions) OBVIOUS
  <2> QED BY <1>2, <2>1, <2>2, <2>3, Zenon DEF Line
<1>4. CASE ~MustFlush
  <2>1. sq' = Append(sq, x) /\ kq' = kq BY <1>4, Zenon DEF Enter
  <2>2. kq \o Append(sq, x) = Append(kq \o sq, x) BY <1>1, Parts
  <2>3. Append(sq, x) \in Seq(Submissions) BY <1>1
  <2> QED BY <1>1, <1>2, <2>1, <2>2, <2>3, Zenon DEF Line
<1> QED BY <1>3, <1>4, Zenon

\* poll hands over what is prepared.
LEMMA PollLine ==
  ASSUME Types, kq' = kq \o sq, sq' = <<>>
  PROVE  sq' \in Seq(Submissions) /\ kq' \in Seq(Submissions) /\ Line' = Line
<1>1. sq \in Seq(Submissions) /\ kq \in Seq(Submissions) BY Zenon DEF Types
<1>2. kq \o sq \in Seq(Submissions) /\ (kq \o sq) \o <<>> = kq \o sq BY <1>1, Parts, Zenon
<1>3. <<>> \in Seq(Submissions) OBVIOUS
<1> QED BY <1>2, <1>3, Zenon DEF Line

\* The kernel takes a submission out of the line.
LEMMA CompleteLine ==
  ASSUME Types, NEW k \in DOMAIN kq, kq' = Without(k), UNCHANGED sq
  PROVE  /\ kq' \in Seq(Submissions) /\ Line \in Seq(Submissions) /\ Line' \in Seq(Submissions)
         /\ k \in 1..Len(Line) /\ Line[k] = kq[k] /\ Len(Line') = Len(Line) - 1
         /\ \A i \in 1..Len(Line') : Line'[i] = IF i < k THEN Line[i] ELSE Line[i + 1]
<1>1. sq \in Seq(Submissions) /\ kq \in Seq(Submissions) /\ k \in 1..Len(kq) /\ Len(kq) \in Nat
  BY DEF Types
<1> DEFINE a == SubSeq(kq, 1, k - 1)
           b == SubSeq(kq, k + 1, Len(kq))
<1>2. /\ a \in Seq(Submissions) /\ Len(a) = k - 1 /\ \A i \in 1..k - 1 : a[i] = kq[i]
      /\ b \in Seq(Submissions) /\ Len(b) = Len(kq) - k /\ \A i \in 1..Len(kq) - k : b[i] = kq[i + k]
  BY <1>1, SMTT(30)
<1>3. kq' = a \o b BY Zenon DEF Without
<1> HIDE DEF a, b
<1>4. /\ kq' \in Seq(Submissions) /\ Len(kq') = Len(kq) - 1
      /\ \A i \in 1..Len(kq) - 1 : kq'[i] = IF i <= k - 1 THEN a[i] ELSE b[i - (k - 1)]
  <2>1. /\ a \o b \in Seq(Submissions) /\ Len(a \o b) = Len(a) + Len(b)
        /\ \A i \in 1..Len(a) + Len(b) : (a \o b)[i] = IF i <= Len(a) THEN a[i] ELSE b[i - Len(a)]
    BY <1>2, SMTT(30)
  <2>2. Len(a) + Len(b) = Len(kq) - 1 BY <1>1, <1>2
  <2> QED BY <1>2, <1>3, <2>1, <2>2, Zenon
<1>5. ASSUME NEW i \in 1..Len(kq) - 1 PROVE kq'[i] = IF i < k THEN kq[i] ELSE kq[i + 1]
  <2>1. CASE i < k BY <1>1, <1>2, <1>4, <2>1, SMTT(30)
  <2>2. CASE ~(i < k)
    <3>1. i - (k - 1) \in 1..Len(kq) - k /\ (i - (k - 1)) + k = i + 1 /\ ~(i <= k - 1) BY <1>1, <2>2
    <3> QED BY <1>2, <1>4, <2>2, <3>1, Zenon
  <2> QED BY <2>1, <2>2, Zenon
<1>6. /\ Line \in Seq(Submissions) /\ Len(Line) = Len(kq) + Len(sq) /\ Len(sq) \in Nat
      /\ \A i \in 1..Len(kq) + Len(sq) : Line[i] = IF i <= Len(kq) THEN kq[i] ELSE sq[i - Len(kq)]
  BY <1>1, Parts DEF Line
<1>7. /\ Line' \in Seq(Submissions) /\ Len(Line') = Len(kq) - 1 + Len(sq)
      /\ \A i \in 1..Len(kq) - 1 + Len(sq) :
           Line'[i] = IF i <= Len(kq) - 1 THEN kq'[i] ELSE sq[i - (Len(kq) - 1)]
  <2>1. ASSUME NEW s \in Seq(Submissions)
        PROVE  /\ s \o sq \in Seq(Submissions) /\ Len(s \o sq) = Len(s) + Len(sq)
               /\ \A i \in 1..Len(s) + Len(sq) : (s \o sq)[i] = IF i <= Len(s) THEN s[i] ELSE sq[i - Len(s)]
    BY <1>1
  <2>2. /\ kq' \o sq \in Seq(Submissions) /\ Len(kq' \o sq) = Len(kq') + Len(sq)
        /\ \A i \in 1..Len(kq') + Len(sq) : (kq' \o sq)[i] = IF i <= Len(kq') THEN kq'[i] ELSE sq[i - Len(kq')]
    BY <1>4, <2>1, Zenon
  <2> QED BY <1>4, <2>2, Zenon DEF Line
<1>8. ASSUME NEW i \in 1..Len(Line') PROVE Line'[i] = IF i < k THEN Line[i] ELSE Line[i + 1]
  <2>1. i \in 1..Len(kq) - 1 + Len(sq) /\ i + 1 \in 1..Len(kq) + Len(sq) /\ i \in 1..Len(kq) + Len(sq)
    BY <1>1, <1>6, <1>7
  <2>2. CASE i <= Len(kq) - 1
    <3>1. i + 1 <= Len(kq) /\ i <= Len(kq) /\ i \in 1..Len(kq) - 1 BY <1>1, <2>2
    <3> QED BY <1>5, <1>6, <1>7, <2>1, <2>2, <3>1, Zenon
  <2>3. CASE ~(i <= Len(kq) - 1)
    <3>1. ~(i < k) /\ ~(i + 1 <= Len(kq)) /\ i - (Len(kq) - 1) = (i + 1) - Len(kq) BY <1>1, <2>1, <2>3
    <3> QED BY <1>6, <1>7, <2>1, <2>3, <3>1, Zenon
  <2> QED BY <2>2, <2>3, Zenon
<1>9. k \in 1..Len(Line) /\ Line[k] = kq[k] /\ Len(Line') = Len(Line) - 1 BY <1>1, <1>6, <1>7
<1> QED BY <1>4, <1>6, <1>7, <1>8, <1>9, Zenon
-----------------------------------------------------------------------------
\* A submission is prepared.
LEMMA Entered ==
  ASSUME Types, NEW x \in Submissions, Enter(x), UNCHANGED cq
  PROVE  /\ \A e : Flying(e)' <=> Flying(e) \/ e = x
         /\ \A e : In(Line, e) => In(Line, e)'
         /\ \A e : Unique(e) /\ (e = x => ~Flying(e)) => Unique(e)'
<1>1. Line \in Seq(Submissions) /\ Line' = Append(Line, x) BY EnterLine, Zenon
<1>2. /\ \A e : In(Append(Line, x), e) <=> In(Line, e) \/ e = x
      /\ \A e : Single(Line, e) /\ (e = x => ~In(Line, e)) => Single(Append(Line, x), e)
  BY <1>1, Pushed, Zenon
<1>3. \A e : (In(Line, e)' <=> In(Line', e)) /\ (Single(Line, e)' <=> Single(Line', e)) BY Zenon DEF In, Single
<1>4. \A e : (In(cq, e)' <=> In(cq, e)) /\ (Single(cq, e)' <=> Single(cq, e)) BY Zenon DEF In, Single
<1> QED BY <1>1, <1>2, <1>3, <1>4, Zenon DEF Flying, Unique

\* The queues are only moved.
LEMMA Moved ==
  ASSUME Line' = Line, UNCHANGED cq
  PROVE  \A e : /\ Flying(e)' <=> Flying(e)
                /\ Unique(e)' <=> Unique(e)
                /\ In(Line, e)' <=> In(Line, e)
BY Zenon DEF Flying, Unique, In, Single

\* The first completion is taken.
LEMMA Taken ==
  ASSUME Types, cq # <<>>, UNCHANGED <<sq, kq>>, cq' = Tail(cq)
  PROVE  /\ Head(cq) \in Completions /\ cq' \in Seq(Completions) /\ Len(cq') = Len(cq) - 1
         /\ Flying(Head(cq)) /\ cq[1] = Head(cq)
         /\ \A i \in 1..Len(cq') : cq'[i] = cq[i + 1]
         /\ \A e : In(Line, e)' <=> In(Line, e)
         /\ \A e : Unique(e) => Unique(e)' /\ (Flying(e)' <=> Flying(e) /\ e # Head(cq))
<1>1. /\ cq \in Seq(Completions) /\ Len(cq) \in Nat /\ DOMAIN cq = 1..Len(cq) /\ 1 \in 1..Len(cq)
      /\ Head(cq) = cq[1] /\ Head(cq) \in Completions
      /\ Tail(cq) \in Seq(Completions) /\ Len(Tail(cq)) = Len(cq) - 1
      /\ \A i \in 1..Len(Tail(cq)) : Tail(cq)[i] = cq[i + 1]
  BY DEF Types
<1>2. \A i \in 1..Len(Tail(cq)) : Tail(cq)[i] = IF i < 1 THEN cq[i] ELSE cq[i + 1] BY <1>1
<1>3. ASSUME NEW e, Single(cq, e) PROVE Single(cq', e) /\ (In(cq', e) <=> In(cq, e) /\ e # cq[1])
  <2> DEFINE w == Tail(cq)
  <2>1. /\ w \in Seq(Completions) /\ Len(w) = Len(cq) - 1
        /\ \A i \in 1..Len(w) : w[i] = IF i < 1 THEN cq[i] ELSE cq[i + 1]
    BY <1>1, <1>2, Zenon
  <2> HIDE DEF w
  <2>2. Single(w, e) /\ (In(w, e) <=> In(cq, e) /\ e # cq[1]) BY <1>1, <1>3, <2>1, Removed, SMTT(30)
  <2> QED BY <2>2, Zenon DEF w
<1>4. \A e : (In(cq, e)' <=> In(cq', e)) /\ (Single(cq, e)' <=> Single(cq', e)) BY Zenon DEF In, Single
<1>5. \A e : (In(Line, e)' <=> In(Line, e)) /\ (Single(Line, e)' <=> Single(Line, e)) BY Zenon DEF In, Single, Line
<1>6. In(cq, Head(cq)) BY <1>1, Zenon DEF In
<1>7. ASSUME NEW e, Unique(e) PROVE Unique(e)' /\ (Flying(e)' <=> Flying(e) /\ e # Head(cq))
  BY <1>1, <1>3, <1>4, <1>5, <1>6, <1>7, Zenon DEF Flying, Unique
<1> QED BY <1>1, <1>5, <1>6, <1>7, Zenon DEF Flying

\* The kernel completes a submission.
LEMMA Finished ==
  ASSUME Types, NEW k \in DOMAIN kq, kq' = Without(k), cq' = Append(cq, kq[k]), UNCHANGED sq
  PROVE  /\ kq' \in Seq(Submissions) /\ cq' \in Seq(Completions) /\ Len(cq') = Len(cq) + 1
         /\ kq[k] \in Submissions /\ In(Line, kq[k])
         /\ cq'[Len(cq) + 1] = kq[k] /\ \A i \in 1..Len(cq) : cq'[i] = cq[i]
         /\ \A e : Unique(e) => /\ Unique(e)'
                                /\ Flying(e)' <=> Flying(e)
                                /\ In(Line, e)' <=> In(Line, e) /\ e # kq[k]
<1>1. /\ kq' \in Seq(Submissions) /\ Line \in Seq(Submissions) /\ Line' \in Seq(Submissions)
      /\ k \in 1..Len(Line) /\ Line[k] = kq[k] /\ Len(Line') = Len(Line) - 1
      /\ \A i \in 1..Len(Line') : Line'[i] = IF i < k THEN Line[i] ELSE Line[i + 1]
  BY CompleteLine, Zenon
<1>2. \A e : Single(Line, e) => Single(Line', e) /\ (In(Line', e) <=> In(Line, e) /\ e # Line[k])
  <2>0. Line \in Seq(Submissions) /\ k \in 1..Len(Line) BY <1>1, Zenon
  <2>1. ASSUME NEW w \in Seq(Submissions), Len(w) = Len(Line) - 1,
               \A i \in 1..Len(w) : w[i] = IF i < k THEN Line[i] ELSE Line[i + 1],
               NEW e, Single(Line, e)
        PROVE  Single(w, e) /\ (In(w, e) <=> In(Line, e) /\ e # Line[k])
    BY <2>0, <2>1, Removed, Zenon
  <2> QED BY <1>1, <2>1, Zenon
<1>3. kq[k] \in Submissions /\ kq[k] \in Completions /\ cq \in Seq(Completions)
  <2>1. kq \in Seq(Submissions) /\ cq \in Seq(Completions) BY Zenon DEF Types
  <2>2. kq[k] \in Submissions BY <2>1
  <2> QED BY <2>1, <2>2, Zenon DEF Completions
<1>4. /\ cq' \in Seq(Completions) /\ Len(cq') = Len(cq) + 1
      /\ cq'[Len(cq) + 1] = kq[k] /\ \A i \in 1..Len(cq) : cq'[i] = cq[i]
  BY <1>3
<1>5. /\ \A e : In(Append(cq, kq[k]), e) <=> In(cq, e) \/ e = kq[k]
      /\ \A e : Single(cq, e) /\ (e = kq[k] => ~In(cq, e)) => Single(Append(cq, kq[k]), e)
  BY <1>3, Pushed, Zenon
<1>6. \A e : /\ (In(Line, e)' <=> In(Line', e)) /\ (Single(Line, e)' <=> Single(Line', e))
             /\ (In(cq, e)' <=> In(cq', e)) /\ (Single(cq, e)' <=> Single(cq', e))
  BY Zenon DEF In, Single
<1>7. In(Line, kq[k]) BY <1>1 DEF In
<1>8. ASSUME NEW e, Unique(e)
      PROVE  /\ Unique(e)'
             /\ Flying(e)' <=> Flying(e)
             /\ In(Line, e)' <=> In(Line, e) /\ e # kq[k]
  BY <1>1, <1>2, <1>5, <1>6, <1>7, <1>8, Zenon DEF Flying, Unique
<1> QED BY <1>1, <1>3, <1>4, <1>7, <1>8, Zenon

\* The kernel posts a completion of a multishot request.
LEMMA Repeated ==
  ASSUME Types, NEW o \in Ops, cq' = Append(cq, More(o)), UNCHANGED <<sq, kq>>
  PROVE  /\ cq' \in Seq(Completions) /\ Len(cq') = Len(cq) + 1
         /\ cq'[Len(cq) + 1] = More(o) /\ \A i \in 1..Len(cq) : cq'[i] = cq[i]
         /\ \A e : In(Line, e)' <=> In(Line, e)
         /\ \A e : e # More(o) => (Flying(e)' <=> Flying(e)) /\ (Unique(e) => Unique(e)')
<1>1. More(o) \in Completions /\ cq \in Seq(Completions) BY Zenon DEF Types, Completions
<1>2. /\ cq' \in Seq(Completions) /\ Len(cq') = Len(cq) + 1
      /\ cq'[Len(cq) + 1] = More(o) /\ \A i \in 1..Len(cq) : cq'[i] = cq[i]
  BY <1>1
<1>3. /\ \A e : In(Append(cq, More(o)), e) <=> In(cq, e) \/ e = More(o)
      /\ \A e : Single(cq, e) /\ (e = More(o) => ~In(cq, e)) => Single(Append(cq, More(o)), e)
  BY <1>1, Pushed, Zenon
<1>4. \A e : (In(cq, e)' <=> In(cq', e)) /\ (Single(cq, e)' <=> Single(cq', e)) BY Zenon DEF In, Single
<1>5. \A e : (In(Line, e)' <=> In(Line, e)) /\ (Single(Line, e)' <=> Single(Line, e)) BY Zenon DEF In, Single, Line
<1> QED BY <1>2, <1>3, <1>4, <1>5, Zenon DEF Flying, Unique
-----------------------------------------------------------------------------
\* Nothing is submitted in front of what is there, and a wake poll that is there keeps its
\* readable event.
LEMMA OrderEntered ==
  ASSUME Types, DrainNotBlocked, NEW x \in Submissions, Enter(x),
         In(Line, Watch) /\ event => event',
         \A o \in Ops : In(Line, Request(o)) /\ drain'[o] => drain[o],
         \A o \in Ops : In(Line, Watch) /\ x = Request(o) /\ drain'[o] => event'
  PROVE  DrainNotBlocked'
<1>1. Line \in Seq(Submissions) /\ Line' = Append(Line, x) BY EnterLine, Zenon
<1>2. /\ Len(Line) \in Nat /\ DOMAIN Line = 1..Len(Line) /\ DOMAIN Line' = 1..Len(Line) + 1
      /\ Line'[Len(Line) + 1] = x /\ \A i \in 1..Len(Line) : Line'[i] = Line[i]
  BY <1>1
<1>3. ASSUME NEW i \in 1..Len(Line) + 1, NEW j \in 1..Len(Line) + 1, NEW o \in Ops,
             i < j, Line'[i] = Watch, Line'[j] = Request(o), drain'[o]
      PROVE  event'
  <2>1. i \in 1..Len(Line) /\ Line[i] = Watch /\ In(Line, Watch) BY <1>2, <1>3 DEF In
  <2>2. CASE j \in 1..Len(Line)
    <3>1. Line[j] = Request(o) /\ In(Line, Request(o)) BY <1>2, <1>3, <2>2, Zenon DEF In
    <3>2. Draining(Line[j]) BY <1>3, <3>1, Zenon DEF Draining
    <3> QED BY <1>2, <1>3, <2>1, <2>2, <3>2, Zenon DEF DrainNotBlocked, Line
  <2>3. CASE j = Len(Line) + 1
    BY <1>2, <1>3, <2>1, <2>3, Zenon
  <2> QED BY <1>2, <2>2, <2>3
<1> QED BY <1>2, <1>3, Zenon DEF DrainNotBlocked, Line, Draining

\* The line stays as it is.
LEMMA OrderKept ==
  ASSUME DrainNotBlocked, Line' = Line, In(Line, Watch) /\ event => event',
         \A o \in Ops : In(Line, Request(o)) /\ drain'[o] => drain[o]
  PROVE  DrainNotBlocked'
<1>1. ASSUME NEW i \in DOMAIN Line, NEW j \in DOMAIN Line, NEW o \in Ops,
             i < j, Line[i] = Watch, Line[j] = Request(o), drain'[o]
      PROVE  event'
  <2>1. In(Line, Watch) /\ In(Line, Request(o)) BY <1>1, Zenon DEF In
  <2>2. Draining(Line[j]) BY <1>1, <2>1, Zenon DEF Draining
  <2> QED BY <1>1, <2>1, <2>2, Zenon DEF DrainNotBlocked, Line
<1> QED BY <1>1, Zenon DEF DrainNotBlocked, Line, Draining

\* A submission leaves the line.
LEMMA OrderRemoved ==
  ASSUME Types, DrainNotBlocked, NEW k \in DOMAIN kq, kq' = Without(k), UNCHANGED <<sq, event, drain>>
  PROVE  DrainNotBlocked'
<1>1. /\ Line \in Seq(Submissions) /\ Line' \in Seq(Submissions)
      /\ k \in 1..Len(Line) /\ Len(Line') = Len(Line) - 1
      /\ \A i \in 1..Len(Line') : Line'[i] = IF i < k THEN Line[i] ELSE Line[i + 1]
  BY CompleteLine, Zenon
<1>2. Len(Line) \in Nat /\ DOMAIN Line = 1..Len(Line) /\ DOMAIN Line' = 1..Len(Line) - 1
  BY <1>1
<1>3. ASSUME NEW i \in 1..Len(Line) - 1, NEW j \in 1..Len(Line) - 1, NEW o \in Ops,
             i < j, Line'[i] = Watch, Line'[j] = Request(o), drain[o]
      PROVE  event
  <2> DEFINE m == IF i < k THEN i ELSE i + 1
             n == IF j < k THEN j ELSE j + 1
  <2>1. m \in 1..Len(Line) /\ n \in 1..Len(Line) /\ m < n BY <1>1, <1>2, <1>3
  <2>2. Line[m] = Watch /\ Line[n] = Request(o) BY <1>1, <1>2, <1>3, Zenon
  <2> HIDE DEF m, n
  <2>3. Draining(Line[n]) BY <1>3, <2>2, Zenon DEF Draining
  <2> QED BY <1>2, <2>1, <2>2, <2>3, Zenon DEF DrainNotBlocked, Line
<1> QED BY <1>2, <1>3, Zenon DEF DrainNotBlocked, Line, Draining
-----------------------------------------------------------------------------
\* A request that is not linked has no submission anywhere.
LEMMA Idle ==
  ASSUME Tracked, NEW o \in Ops, st[o] # "linked"
  PROVE  ~Flying(Request(o)) /\ ~Flying(Cancellation(o)) /\ ~canceling[o]
BY Zenon DEF Tracked, Tracks

\* Completions of a multishot request still come before its last one while the completion
\* queue stays and the line loses nothing.
LEMMA MoreKept ==
  ASSUME NEW o \in Ops, MoreBefore(o), UNCHANGED cq, In(Line, Request(o)) => In(Line, Request(o))'
  PROVE  MoreBefore(o)'
BY Zenon DEF MoreBefore

\* The flags of a request stay, and where its submissions are.
LEMMA TracksKept ==
  ASSUME NEW o \in Ops, Tracks(o), st'[o] = st[o], done'[o] = done[o],
         canceling'[o] = canceling[o], sent'[o] = sent[o],
         Unique(Request(o)) => Unique(Request(o))', Flying(Request(o))' <=> Flying(Request(o)),
         Unique(Cancellation(o)) => Unique(Cancellation(o))',
         Flying(Cancellation(o))' <=> Flying(Cancellation(o))
  PROVE  Tracks(o)'
BY Zenon DEF Tracks

\* The draining requests are a part of finitely many, counted as they come and go.
LEMMA DrawFacts ==
  /\ IsFiniteSet(Draws) /\ Cardinality(Draws) \in Nat
  /\ \A o : o \notin Draws => Cardinality(Draws \cup {o}) = Cardinality(Draws) + 1
  /\ \A o \in Draws : Cardinality(Draws \ {o}) = Cardinality(Draws) - 1 /\ Cardinality(Draws) # 0
<1>1. IsFiniteSet(Draws)
  <2>1. Draws \subseteq Ops /\ IsFiniteSet(Ops) BY Bounds, Zenon DEF Draws, Pending
  <2> QED BY <2>1, FS_Subset, Zenon
<1>2. Cardinality(Draws) \in Nat /\ (Cardinality(Draws) = 0 <=> Draws = {})
  BY <1>1, FS_CardinalityType, FS_EmptySet, Zenon
<1>3. ASSUME NEW o, o \notin Draws PROVE Cardinality(Draws \cup {o}) = Cardinality(Draws) + 1
  BY <1>1, <1>3, FS_AddElement, Zenon
<1>4. ASSUME NEW o \in Draws PROVE Cardinality(Draws \ {o}) = Cardinality(Draws) - 1
  BY <1>1, FS_RemoveElement, Zenon
<1> QED BY <1>1, <1>2, <1>3, <1>4, Zenon

\* The counter and the requests it is for stay.
LEMMA CountKept ==
  ASSUME Counted, UNCHANGED drains, Draws' = Draws
  PROVE  Counted'
BY Zenon DEF Counted

\* loop::submit links the request and counts it if it drains.
LEMMA SubmitStep ==
  ASSUME UringInv, NEW o \in Ops, NEW d \in BOOLEAN, Submit(o, d)
  PROVE  UringInv'
<1>1. /\ pc = "run" /\ st[o] = "free" /\ Enter(Request(o))
      /\ event' = (event \/ Blocked(d)) /\ waking' = (waking \/ Blocked(d))
      /\ drains' = (IF d THEN drains + 1 ELSE drains)
      /\ st' = [st EXCEPT ![o] = "linked"] /\ drain' = [drain EXCEPT ![o] = d]
      /\ UNCHANGED <<iopoll, cq, watching, sent, canceling, done, pc, timed, left, seen>>
  BY Zenon DEF Submit, control
<1>2. Types /\ Tracked /\ Watched /\ Counted /\ DrainNotBlocked BY Zenon DEF UringInv
<1>3. Request(o) \in Submissions BY Names, Zenon
<1>4. ~Flying(Request(o)) /\ ~Flying(Cancellation(o)) /\ ~canceling[o] BY <1>1, <1>2, Idle, Zenon
<1>5. /\ \A e : Flying(e)' <=> Flying(e) \/ e = Request(o)
      /\ \A e : In(Line, e) => In(Line, e)'
      /\ \A e : Unique(e) /\ (e = Request(o) => ~Flying(e)) => Unique(e)'
  BY <1>1, <1>2, <1>3, Entered, Zenon
<1>6. Types'
  <2>1. sq' \in Seq(Submissions) /\ kq' \in Seq(Submissions) BY <1>1, <1>2, <1>3, EnterLine, Zenon
  <2>2. event' \in BOOLEAN /\ waking' \in BOOLEAN BY <1>1, <1>2, Zenon DEF Types, Blocked
  <2> QED BY <1>1, <1>2, <2>1, <2>2, Zenon DEF Types
<1>7. Tracked'
  <2>1. ASSUME NEW p \in Ops PROVE Tracks(p)'
    <3>1. Tracks(p) BY <1>2, Zenon DEF Tracked
    <3>2. CASE p = o
      <4>1. Flying(Request(o))' /\ Unique(Request(o))' BY <1>4, <1>5, <3>1, <3>2, Zenon DEF Tracks
      <4>2. ~Flying(Cancellation(o))' /\ Unique(Cancellation(o))'
        BY <1>4, <1>5, <3>1, <3>2, Names, Zenon DEF Tracks
      <4>3. st'[o] = "linked" /\ ~done'[o] /\ ~canceling'[o] BY <1>1, <1>2, <1>4, <3>1, <3>2, Zenon DEF Tracks, Types
      <4> QED BY <3>2, <4>1, <4>2, <4>3, Zenon DEF Tracks
    <3>3. CASE p # o
      <4>1. Request(p) # Request(o) /\ Cancellation(p) # Request(o) BY <3>3, Names, Zenon
      <4>2. st'[p] = st[p] BY <1>1, <1>2, <3>3, Zenon DEF Types
      <4> QED BY <1>1, <1>5, <3>1, <4>1, <4>2, TracksKept, Zenon
    <3> QED BY <3>2, <3>3, Zenon
  <2>2. ASSUME NEW p \in Ops PROVE MoreBefore(p)' BY <1>1, <1>2, <1>5, MoreKept, Zenon DEF Tracked
  <2> QED BY <2>1, <2>2, Zenon DEF Tracked
<1>8. Watched'
  <2>1. Unique(Watch)' /\ (Flying(Watch)' <=> Flying(Watch)) BY <1>2, <1>5, Names, Zenon DEF Watched
  <2>2. drains' = 0 => drains = 0 BY <1>1, <1>2 DEF Counted
  <2> QED BY <1>1, <1>2, <2>1, <2>2, Zenon DEF Watched, Blocked
<1>9. Counted'
  <2>1. o \notin Draws BY <1>1, Zenon DEF Draws, Pending
  <2>2. CASE d
    <3>1. Draws' = Draws \cup {o} BY <1>1, <1>2, <2>2, Zenon DEF Draws, Pending, Types
    <3> QED BY <1>1, <1>2, <2>1, <2>2, <3>1, DrawFacts, SMTT(30) DEF Counted
  <2>3. CASE ~d
    <3>1. Draws' = Draws BY <1>1, <1>2, <2>3, Zenon DEF Draws, Pending, Types
    <3> QED BY <1>1, <1>2, <2>3, <3>1, CountKept, Zenon
  <2> QED BY <2>2, <2>3, Zenon
<1>10. DrainNotBlocked'
  <2>1. In(Line, Watch) /\ event => event' BY <1>1, Zenon
  <2>2. \A p \in Ops : In(Line, Request(p)) /\ drain'[p] => drain[p]
    BY <1>1, <1>2, <1>4, Zenon DEF Types, Flying
  <2>3. ASSUME NEW p \in Ops, In(Line, Watch), Request(o) = Request(p), drain'[p] PROVE event'
    <3>1. p = o /\ d BY <1>1, <1>2, <2>3, Names, Zenon DEF Types
    <3>2. watching BY <1>2, <2>3, Zenon DEF Watched, Flying
    <3> QED BY <1>1, <1>2, <3>1, <3>2, Zenon DEF Blocked, Watched
  <2> QED BY <1>1, <1>2, <1>3, <2>1, <2>2, <2>3, OrderEntered, Zenon
<1> QED BY <1>6, <1>7, <1>8, <1>9, <1>10, Zenon DEF UringInv

\* Nothing happens to the requests: the queues at most move.
LEMMA TrackedKept ==
  ASSUME Tracked, Line' = Line, UNCHANGED <<cq, st, sent, canceling, done>>
  PROVE  Tracked'
<1>1. \A e : /\ Flying(e)' <=> Flying(e)
             /\ Unique(e)' <=> Unique(e)
             /\ In(Line, e)' <=> In(Line, e)
  BY Moved, Zenon
<1>2. ASSUME NEW o \in Ops PROVE Tracks(o)' BY <1>1, TracksKept, Zenon DEF Tracked
<1>3. ASSUME NEW o \in Ops PROVE MoreBefore(o)' BY <1>1, MoreKept, Zenon DEF Tracked
<1> QED BY <1>2, <1>3, Zenon DEF Tracked

\* A submission that fails leaves its count behind and no request.
LEMMA SubmitFailsStep ==
  ASSUME UringInv, NEW o \in Ops, NEW d \in BOOLEAN, SubmitFails(o, d)
  PROVE  UringInv'
<1>1. /\ Faults /\ pc = "run"
      /\ event' = (event \/ Blocked(d)) /\ waking' = (waking \/ Blocked(d))
      /\ drains' = (IF d THEN drains + 1 ELSE drains)
      /\ UNCHANGED <<iopoll, sq, kq, cq, watching, st, drain, sent, canceling, done, pc, timed, left, seen>>
  BY Zenon DEF SubmitFails, control, flags
<1>2. Types /\ Tracked /\ Watched /\ Counted /\ DrainNotBlocked BY Zenon DEF UringInv
<1>3. Line' = Line BY <1>1, Zenon DEF Line
<1>4. Types'
  <2>1. event' \in BOOLEAN /\ waking' \in BOOLEAN BY <1>1, <1>2, Zenon DEF Types, Blocked
  <2> QED BY <1>1, <1>2, <2>1, Zenon DEF Types
<1>5. Tracked' BY <1>1, <1>2, <1>3, TrackedKept, Zenon
<1>6. Watched'
  <2>1. Unique(Watch)' /\ (Flying(Watch)' <=> Flying(Watch)) BY <1>1, <1>2, <1>3, Moved, Zenon DEF Watched
  <2>2. drains' = 0 => drains = 0 BY <1>1, <1>2 DEF Counted
  <2> QED BY <1>1, <1>2, <2>1, <2>2, Zenon DEF Watched, Blocked
<1>7. Counted'
  <2>1. Draws' = Draws BY <1>1, Zenon DEF Draws, Pending
  <2> QED BY <1>1, <1>2, <2>1, DrawFacts DEF Counted
<1>8. DrainNotBlocked' BY <1>1, <1>2, <1>3, OrderKept, Zenon
<1> QED BY <1>4, <1>5, <1>6, <1>7, <1>8, Zenon DEF UringInv

\* loop::cancel sends a cancel request and waits for its completion, too.
LEMMA CancelStep ==
  ASSUME UringInv, NEW o \in Ops, Cancel(o)
  PROVE  UringInv'
<1>1. /\ pc = "run" /\ st[o] = "linked" /\ ~sent[o] /\ Enter(Cancellation(o))
      /\ sent' = [sent EXCEPT ![o] = TRUE] /\ canceling' = [canceling EXCEPT ![o] = TRUE]
      /\ UNCHANGED <<iopoll, cq, event, watching, waking, drains, st, drain, done, pc, timed, left, seen>>
  BY Zenon DEF Cancel, control, Pending
<1>2. Types /\ Tracked /\ Watched /\ Counted /\ DrainNotBlocked BY Zenon DEF UringInv
<1>3. Cancellation(o) \in Submissions BY Names, Zenon
<1>4. ~Flying(Cancellation(o)) BY <1>1, <1>2, Zenon DEF Tracked, Tracks
<1>5. /\ \A e : Flying(e)' <=> Flying(e) \/ e = Cancellation(o)
      /\ \A e : In(Line, e) => In(Line, e)'
      /\ \A e : Unique(e) /\ (e = Cancellation(o) => ~Flying(e)) => Unique(e)'
  BY <1>1, <1>2, <1>3, Entered, Zenon
<1>6. Types'
  <2>1. sq' \in Seq(Submissions) /\ kq' \in Seq(Submissions) BY <1>1, <1>2, <1>3, EnterLine, Zenon
  <2> QED BY <1>1, <1>2, <2>1, Zenon DEF Types
<1>7. Tracked'
  <2>1. ASSUME NEW p \in Ops PROVE Tracks(p)'
    <3>1. Tracks(p) BY <1>2, Zenon DEF Tracked
    <3>2. CASE p = o
      <4>1. Flying(Cancellation(o))' /\ Unique(Cancellation(o))' BY <1>4, <1>5, <3>1, <3>2, Zenon DEF Tracks
      <4>2. (Flying(Request(o))' <=> Flying(Request(o))) /\ Unique(Request(o))'
        BY <1>5, <3>1, <3>2, Names, Zenon DEF Tracks
      <4>3. sent'[o] /\ canceling'[o] BY <1>1, <1>2, Zenon DEF Types
      <4> QED BY <1>1, <3>1, <3>2, <4>1, <4>2, <4>3, Zenon DEF Tracks
    <3>3. CASE p # o
      <4>1. Request(p) # Cancellation(o) /\ Cancellation(p) # Cancellation(o) BY <3>3, Names, Zenon
      <4>2. sent'[p] = sent[p] /\ canceling'[p] = canceling[p] BY <1>1, <1>2, <3>3, Zenon DEF Types
      <4> QED BY <1>1, <1>5, <3>1, <4>1, <4>2, TracksKept, Zenon
    <3> QED BY <3>2, <3>3, Zenon
  <2>2. ASSUME NEW p \in Ops PROVE MoreBefore(p)' BY <1>1, <1>2, <1>5, MoreKept, Zenon DEF Tracked
  <2> QED BY <2>1, <2>2, Zenon DEF Tracked
<1>8. Watched'
  <2>1. Unique(Watch)' /\ (Flying(Watch)' <=> Flying(Watch)) BY <1>2, <1>5, Names, Zenon DEF Watched
  <2> QED BY <1>1, <1>2, <2>1, Zenon DEF Watched
<1>9. Counted'
  <2>1. Draws' = Draws BY <1>1, Zenon DEF Draws, Pending
  <2> QED BY <1>1, <1>2, <2>1, CountKept, Zenon
<1>10. DrainNotBlocked'
  <2>1. \A p \in Ops : Cancellation(o) # Request(p) BY Names, Zenon
  <2> QED BY <1>1, <1>2, <1>3, <2>1, OrderEntered, Zenon
<1> QED BY <1>6, <1>7, <1>8, <1>9, <1>10, Zenon DEF UringInv

\* A finished request is given back.
LEMMA ResumeStep ==
  ASSUME UringInv, NEW o \in Ops, Resume(o)
  PROVE  UringInv'
<1>1. /\ st[o] = "ready" /\ st' = [st EXCEPT ![o] = "free"]
      /\ drain' = [drain EXCEPT ![o] = FALSE] /\ sent' = [sent EXCEPT ![o] = FALSE]
      /\ done' = [done EXCEPT ![o] = FALSE]
      /\ UNCHANGED <<iopoll, sq, kq, cq, event, watching, waking, drains, canceling, pc, timed, left, seen>>
  BY Zenon DEF Resume, control
<1>2. Types /\ Tracked /\ Watched /\ Counted /\ DrainNotBlocked BY Zenon DEF UringInv
<1>3. Line' = Line BY <1>1, Zenon DEF Line
<1>4. \A e : /\ Flying(e)' <=> Flying(e)
             /\ Unique(e)' <=> Unique(e)
             /\ In(Line, e)' <=> In(Line, e)
  BY <1>1, <1>3, Moved, Zenon
<1>5. ~Flying(Request(o)) /\ ~Flying(Cancellation(o)) /\ ~canceling[o] BY <1>1, <1>2, Idle, Zenon
<1>6. Types' BY <1>1, <1>2, Zenon DEF Types
<1>7. Tracked'
  <2>1. ASSUME NEW p \in Ops PROVE Tracks(p)'
    <3>1. Tracks(p) BY <1>2, Zenon DEF Tracked
    <3>2. CASE p = o
      <4>1. st'[o] = "free" /\ ~done'[o] /\ ~sent'[o] /\ ~canceling'[o] BY <1>1, <1>2, <1>5, Zenon DEF Types
      <4> QED BY <1>4, <1>5, <3>1, <3>2, <4>1, Zenon DEF Tracks
    <3>3. CASE p # o
      <4>1. st'[p] = st[p] /\ done'[p] = done[p] /\ sent'[p] = sent[p] BY <1>1, <1>2, <3>3, Zenon DEF Types
      <4> QED BY <1>1, <1>4, <3>1, <4>1, TracksKept, Zenon
    <3> QED BY <3>2, <3>3, Zenon
  <2>2. ASSUME NEW p \in Ops PROVE MoreBefore(p)' BY <1>1, <1>2, <1>4, MoreKept, Zenon DEF Tracked
  <2> QED BY <2>1, <2>2, Zenon DEF Tracked
<1>8. Watched' BY <1>1, <1>2, <1>4, Zenon DEF Watched
<1>9. Counted'
  <2>1. Draws' = Draws BY <1>1, <1>2, Zenon DEF Draws, Pending, Types
  <2> QED BY <1>1, <1>2, <2>1, CountKept, Zenon
<1>10. DrainNotBlocked'
  <2>1. \A p \in Ops : In(Line, Request(p)) /\ drain'[p] => drain[p] BY <1>1, <1>2, Zenon DEF Types
  <2> QED BY <1>1, <1>2, <1>3, <2>1, OrderKept, Zenon
<1> QED BY <1>6, <1>7, <1>8, <1>9, <1>10, Zenon DEF UringInv

\* poll submits, and waits without a timeout only if nothing suppresses the wake poll.
LEMMA PollStep ==
  ASSUME UringInv, NEW t \in BOOLEAN, Poll(t)
  PROVE  UringInv'
<1>1. /\ pc = "run" /\ pc' = "wait" /\ timed' = (t \/ drains # 0 \/ (iopoll /\ Pending # {}))
      /\ kq' = kq \o sq /\ sq' = <<>>
      /\ UNCHANGED <<iopoll, cq, event, watching, waking, drains, st, drain, sent, canceling, done, left, seen>>
  BY Zenon DEF Poll, flags
<1>2. Types /\ Tracked /\ Watched /\ Counted /\ DrainNotBlocked BY Zenon DEF UringInv
<1>3. sq' \in Seq(Submissions) /\ kq' \in Seq(Submissions) /\ Line' = Line BY <1>1, <1>2, PollLine, Zenon
<1>4. Types'
  <2>1. timed' \in BOOLEAN BY <1>1, Zenon
  <2> QED BY <1>1, <1>2, <1>3, <2>1, Zenon DEF Types
<1>5. Tracked' BY <1>1, <1>2, <1>3, TrackedKept, Zenon
<1>6. Watched'
  <2>1. Unique(Watch)' /\ (Flying(Watch)' <=> Flying(Watch)) BY <1>1, <1>2, <1>3, Moved, Zenon DEF Watched
  <2> QED BY <1>1, <1>2, <2>1, Zenon DEF Watched
<1>7. Counted'
  <2>1. Draws' = Draws BY <1>1, Zenon DEF Draws, Pending
  <2> QED BY <1>1, <1>2, <2>1, CountKept, Zenon
<1>8. DrainNotBlocked' BY <1>1, <1>2, <1>3, OrderKept, Zenon
<1> QED BY <1>4, <1>5, <1>6, <1>7, <1>8, Zenon DEF UringInv

\* The wait ends, and the completions to be handled are counted.
LEMMA SnapshotStep ==
  ASSUME UringInv, Snapshot
  PROVE  UringInv'
<1>1. /\ pc = "wait" /\ pc' = "reap" /\ timed' = FALSE /\ event' = (event /\ ~iopoll)
      /\ left' = (IF Len(cq) <= Peek THEN Len(cq) ELSE Peek)
      /\ UNCHANGED <<iopoll, sq, kq, cq, watching, waking, drains, st, drain, sent, canceling, done, seen>>
  BY Zenon DEF Snapshot, flags
<1>2. Types /\ Tracked /\ Watched /\ Counted /\ DrainNotBlocked BY Zenon DEF UringInv
<1>3. Line' = Line BY <1>1, Zenon DEF Line
<1>4. Types'
  <2>1. Len(cq) \in Nat BY <1>2 DEF Types
  <2>2. left' \in Nat /\ left' <= Len(cq) BY <1>1, <2>1, Bounds
  <2>3. event' \in BOOLEAN /\ timed' \in BOOLEAN BY <1>1, Zenon
  <2> QED BY <1>1, <1>2, <2>2, <2>3, Zenon DEF Types
<1>5. Tracked' BY <1>1, <1>2, <1>3, TrackedKept, Zenon
<1>6. Watched'
  <2>1. Unique(Watch)' /\ (Flying(Watch)' <=> Flying(Watch)) BY <1>1, <1>2, <1>3, Moved, Zenon DEF Watched
  <2> QED BY <1>1, <1>2, <2>1, Zenon DEF Watched
<1>7. Counted'
  <2>1. Draws' = Draws BY <1>1, Zenon DEF Draws, Pending
  <2> QED BY <1>1, <1>2, <2>1, CountKept, Zenon
<1>8. DrainNotBlocked'
  <2>1. In(Line, Watch) /\ event => event' BY <1>1, <1>2, Zenon DEF Watched, Flying
  <2> QED BY <1>1, <1>2, <1>3, <2>1, OrderKept, Zenon
<1> QED BY <1>4, <1>5, <1>6, <1>7, <1>8, Zenon DEF UringInv

\* Another thread makes the event readable.
LEMMA WakeStep ==
  ASSUME UringInv, Wake
  PROVE  UringInv'
<1>1. /\ event' = TRUE
      /\ UNCHANGED <<iopoll, sq, kq, cq, watching, waking, drains, st, drain, sent, canceling, done,
                     pc, timed, left, seen>>
  BY Zenon DEF Wake, flags, control
<1>2. Types /\ Tracked /\ Watched /\ Counted /\ DrainNotBlocked BY Zenon DEF UringInv
<1>3. Line' = Line BY <1>1, Zenon DEF Line
<1>4. Types' BY <1>1, <1>2, Zenon DEF Types
<1>5. Tracked' BY <1>1, <1>2, <1>3, TrackedKept, Zenon
<1>6. Watched'
  <2>1. Unique(Watch)' /\ (Flying(Watch)' <=> Flying(Watch)) BY <1>1, <1>2, <1>3, Moved, Zenon DEF Watched
  <2> QED BY <1>1, <1>2, <2>1, Zenon DEF Watched
<1>7. Counted'
  <2>1. Draws' = Draws BY <1>1, Zenon DEF Draws, Pending
  <2> QED BY <1>1, <1>2, <2>1, CountKept, Zenon
<1>8. DrainNotBlocked' BY <1>1, <1>2, <1>3, OrderKept, Zenon
<1> QED BY <1>4, <1>5, <1>6, <1>7, <1>8, Zenon DEF UringInv

\* The event is watched again at the end of a poll, unless a DRAIN is pending.
LEMMA EndPollStep ==
  ASSUME UringInv, EndPoll
  PROVE  UringInv'
<1> DEFINE renew == ~iopoll /\ (~watching \/ seen) /\ drains = 0
<1>1. /\ pc = "reap" /\ left = 0 /\ pc' = "run" /\ seen' = FALSE
      /\ event' = (event /\ ~seen) /\ waking' = (waking /\ ~seen)
      /\ IF renew THEN Enter(Watch) /\ watching' = TRUE
         ELSE watching' = (watching /\ ~seen) /\ UNCHANGED <<sq, kq>>
      /\ UNCHANGED <<iopoll, cq, drains, st, drain, sent, canceling, done, timed, left>>
  BY Zenon DEF EndPoll, flags
<1> HIDE DEF renew
<1>2. Types /\ Tracked /\ Watched /\ Counted /\ DrainNotBlocked BY Zenon DEF UringInv
<1>3. Watch \in Submissions BY Names, Zenon
<1>4. Flying(Watch) <=> watching /\ ~seen BY <1>2, Zenon DEF Watched
<1>5. In(Line, Watch) /\ event => event' BY <1>1, <1>4, Zenon DEF Flying
<1>6. Counted'
  <2>1. Draws' = Draws BY <1>1, Zenon DEF Draws, Pending
  <2> QED BY <1>1, <1>2, <2>1, CountKept, Zenon
<1>7. event' \in BOOLEAN /\ waking' \in BOOLEAN /\ watching' \in BOOLEAN BY <1>1, Zenon
<1>8. CASE renew
  <2>1. Enter(Watch) /\ watching' = TRUE /\ ~Flying(Watch) /\ ~iopoll BY <1>1, <1>4, <1>8, Zenon DEF renew
  <2>2. /\ \A e : Flying(e)' <=> Flying(e) \/ e = Watch
        /\ \A e : In(Line, e) => In(Line, e)'
        /\ \A e : Unique(e) /\ (e = Watch => ~Flying(e)) => Unique(e)'
    BY <1>1, <1>2, <1>3, <2>1, Entered, Zenon
  <2>3. Types'
    <3>1. sq' \in Seq(Submissions) /\ kq' \in Seq(Submissions) BY <1>2, <1>3, <2>1, EnterLine, Zenon
    <3> QED BY <1>1, <1>2, <1>7, <3>1, Zenon DEF Types
  <2>4. Tracked'
    <3>1. ASSUME NEW o \in Ops PROVE Tracks(o)'
      <4>1. Request(o) # Watch /\ Cancellation(o) # Watch BY Names, Zenon
      <4> QED BY <1>1, <1>2, <2>2, <4>1, TracksKept, Zenon DEF Tracked
    <3>2. ASSUME NEW o \in Ops PROVE MoreBefore(o)' BY <1>1, <1>2, <2>2, MoreKept, Zenon DEF Tracked
    <3> QED BY <3>1, <3>2, Zenon DEF Tracked
  <2>5. Watched'
    <3>1. Unique(Watch)' /\ Flying(Watch)' BY <1>2, <2>1, <2>2, Zenon DEF Watched
    <3> QED BY <1>1, <1>2, <2>1, <3>1, Zenon DEF Watched
  <2>6. DrainNotBlocked'
    <3>1. \A o \in Ops : Watch # Request(o) BY Names, Zenon
    <3> QED BY <1>1, <1>2, <1>3, <1>5, <2>1, <3>1, OrderEntered, Zenon
  <2> QED BY <1>6, <2>3, <2>4, <2>5, <2>6, Zenon DEF UringInv
<1>9. CASE ~renew
  <2>1. watching' = (watching /\ ~seen) /\ UNCHANGED <<sq, kq>> BY <1>1, <1>9, Zenon
  <2>2. Line' = Line BY <2>1, Zenon DEF Line
  <2>3. Types' BY <1>1, <1>2, <1>7, <2>1, Zenon DEF Types
  <2>4. Tracked' BY <1>1, <1>2, <2>2, TrackedKept, Zenon
  <2>5. Watched'
    <3>1. Unique(Watch)' /\ (Flying(Watch)' <=> watching') BY <1>1, <1>2, <1>4, <2>1, <2>2, Moved, Zenon DEF Watched
    <3>2. ~iopoll /\ drains = 0 => watching' BY <1>9, <2>1, Zenon DEF renew
    <3> QED BY <1>1, <1>2, <2>1, <3>1, <3>2, Zenon DEF Watched
  <2>6. DrainNotBlocked' BY <1>1, <1>2, <1>5, <2>2, OrderKept, Zenon
  <2> QED BY <1>6, <2>3, <2>4, <2>5, <2>6, Zenon DEF UringInv
<1> QED BY <1>8, <1>9, Zenon
-----------------------------------------------------------------------------
\* The order of a multishot request's completions survives the handling of the first one.
LEMMA MoreTaken ==
  ASSUME Types, NEW o \in Ops, MoreBefore(o), cq # <<>>, UNCHANGED <<sq, kq>>, cq' = Tail(cq)
  PROVE  MoreBefore(o)'
<1>1. /\ cq' \in Seq(Completions) /\ Len(cq') = Len(cq) - 1
      /\ \A i \in 1..Len(cq') : cq'[i] = cq[i + 1]
      /\ \A e : In(Line, e)' <=> In(Line, e)
  BY Taken, Zenon
<1>2. Len(cq) \in Nat /\ DOMAIN cq = 1..Len(cq) /\ DOMAIN cq' = 1..Len(cq) - 1 BY <1>1 DEF Types
<1>3. ASSUME NEW i \in 1..Len(cq) - 1, cq'[i] = More(o), ~In(Line, Request(o))
      PROVE  \E j \in 1..Len(cq) - 1 : i < j /\ cq'[j] = Request(o)
  <2>1. i + 1 \in 1..Len(cq) /\ cq[i + 1] = More(o) BY <1>1, <1>2, <1>3
  <2>2. PICK j \in 1..Len(cq) : i + 1 < j /\ cq[j] = Request(o) BY <1>2, <1>3, <2>1, Zenon DEF MoreBefore
  <2>3. j - 1 \in 1..Len(cq) - 1 /\ i < j - 1 /\ (j - 1) + 1 = j BY <1>2, <2>2
  <2>4. cq'[j - 1] = Request(o) BY <1>1, <1>2, <2>2, <2>3, Zenon
  <2> QED BY <2>3, <2>4, Zenon
<1> QED BY <1>1, <1>2, <1>3, Zenon DEF MoreBefore

\* A request of which a completion with more to come is in the queue has not ended.
LEMMA MoreLive ==
  ASSUME Tracked, NEW o \in Ops, In(cq, More(o))
  PROVE  Flying(Request(o)) /\ st[o] = "linked" /\ ~done[o]
BY Zenon DEF Tracked, Tracks, MoreBefore, In, Flying

\* Which completion poll handles, and what it does to the request: after the last of its
\* completions the request is retired.
LEMMA ReapCases ==
  ASSUME UringInv, Reap
  PROVE  \/ Head(cq) = Watch /\ seen' = TRUE /\ UNCHANGED <<st, drains, canceling, done>>
         \/ \E o \in Ops :
              /\ UNCHANGED seen
              /\ \/ Head(cq) = Cancellation(o) /\ canceling' = [canceling EXCEPT ![o] = FALSE]
                    /\ UNCHANGED done /\ (IF done[o] THEN Retire(o) ELSE Keep)
                 \/ Head(cq) = Request(o) /\ done' = [done EXCEPT ![o] = TRUE]
                    /\ UNCHANGED canceling /\ (IF ~canceling[o] THEN Retire(o) ELSE Keep)
                 \/ Head(cq) = More(o) /\ UNCHANGED <<done, canceling>> /\ Keep
<1>1. Types /\ Tracked BY Zenon DEF UringInv
<1>2. CASE Head(cq) = Watch /\ seen' = TRUE /\ Keep /\ UNCHANGED <<canceling, done>>
  BY <1>2, Zenon DEF Keep
<1>3. ASSUME NEW o \in Ops, Head(cq) = Cancellation(o), canceling' = [canceling EXCEPT ![o] = FALSE],
             IF done[o] THEN Retire(o) ELSE Keep, UNCHANGED <<done, seen>>
      PROVE  \E p \in Ops :
               /\ UNCHANGED seen
               /\ Head(cq) = Cancellation(p) /\ canceling' = [canceling EXCEPT ![p] = FALSE]
                  /\ UNCHANGED done /\ (IF done[p] THEN Retire(p) ELSE Keep)
  BY <1>3, Zenon
<1>4. ASSUME NEW o \in Ops, Head(cq) \in {Request(o), More(o)},
             done' = [done EXCEPT ![o] = Head(cq) = Request(o)],
             IF done'[o] /\ ~canceling[o] THEN Retire(o) ELSE Keep, UNCHANGED <<canceling, seen>>
      PROVE  \/ Head(cq) = Request(o) /\ done' = [done EXCEPT ![o] = TRUE]
                /\ UNCHANGED canceling /\ (IF ~canceling[o] THEN Retire(o) ELSE Keep)
             \/ Head(cq) = More(o) /\ UNCHANGED <<done, canceling>> /\ Keep
  <2>1. done \in [Ops -> BOOLEAN] BY <1>1, Zenon DEF Types
  <2>2. CASE Head(cq) = Request(o)
    <3>1. done' = [done EXCEPT ![o] = TRUE] BY <1>4, <2>2, Zenon
    <3>2. done'[o] = TRUE BY <2>1, <3>1, Zenon
    <3> QED BY <1>4, <2>2, <3>1, <3>2, Zenon
  <2>3. CASE Head(cq) = More(o)
    <3>1. More(o) # Request(o) BY Names, Zenon
    <3>2. In(cq, More(o))
      <4>1. cq # <<>> BY <1>1 DEF Reap, Types
      <4>2. 1 \in DOMAIN cq /\ Head(cq) = cq[1] BY <1>1, <4>1 DEF Types
      <4> QED BY <2>3, <4>2, Zenon DEF In
    <3>3. ~done[o] BY <1>1, <3>2, MoreLive, Zenon
    <3>4. (Head(cq) = Request(o)) = FALSE BY <2>3, <3>1, Zenon
    <3>5. done' = [done EXCEPT ![o] = FALSE] BY <1>4, <3>4, Zenon
    <3>6. done'[o] = FALSE /\ done' = done BY <2>1, <3>3, <3>5, Zenon
    <3> QED BY <1>4, <2>3, <3>6, Zenon
  <2> QED BY <1>4, <2>2, <2>3, Zenon
<1> QED BY <1>2, <1>3, <1>4, Zenon DEF Reap

\* A retired request is counted no more.
LEMMA RetireCounts ==
  ASSUME Types, Counted, NEW o \in Ops, st[o] = "linked", Retire(o), UNCHANGED drain
  PROVE  Counted'
<1>1. st' = [st EXCEPT ![o] = "ready"] /\ drains' = (IF drain[o] THEN drains - 1 ELSE drains) BY Zenon DEF Retire
<1>2. CASE drain[o]
  <2>1. o \in Draws /\ Draws' = Draws \ {o} BY <1>1, <1>2, Zenon DEF Draws, Pending, Types
  <2> QED BY <1>1, <1>2, <2>1, DrawFacts DEF Counted
<1>3. CASE ~drain[o]
  <2>1. Draws' = Draws BY <1>1, <1>3, Zenon DEF Draws, Pending, Types
  <2> QED BY <1>1, <1>3, <2>1, CountKept, Zenon
<1> QED BY <1>2, <1>3, Zenon

\* poll handles one completion.
LEMMA ReapStep ==
  ASSUME UringInv, Reap
  PROVE  UringInv'
<1>1. /\ pc = "reap" /\ left > 0 /\ left' = left - 1 /\ cq' = Tail(cq)
      /\ UNCHANGED <<iopoll, sq, kq, event, watching, waking, drain, sent, pc, timed>>
  BY Zenon DEF Reap
<1>2. Types /\ Tracked /\ Watched /\ Counted /\ DrainNotBlocked BY Zenon DEF UringInv
<1>3. cq # <<>> BY <1>1, <1>2 DEF Types
<1>4. /\ Head(cq) \in Completions /\ cq' \in Seq(Completions) /\ Len(cq') = Len(cq) - 1
      /\ Flying(Head(cq))
      /\ \A e : Unique(e) => Unique(e)' /\ (Flying(e)' <=> Flying(e) /\ e # Head(cq))
  BY <1>1, <1>2, <1>3, Taken, Zenon
<1>5. Line' = Line BY <1>1, Zenon DEF Line
<1>6. DrainNotBlocked' BY <1>1, <1>2, <1>5, OrderKept, Zenon
<1>7. \A o \in Ops : MoreBefore(o)' BY <1>1, <1>2, <1>3, MoreTaken, Zenon DEF Tracked
<1>8. left' \in Nat /\ left' <= Len(cq')
  <2>1. Len(cq) \in Nat BY <1>2 DEF Types
  <2> QED BY <1>1, <1>2, <1>4, <2>1, SMTT(30) DEF Types
<1>9. ASSUME NEW o \in Ops, Head(cq) # Request(o), Head(cq) # Cancellation(o),
             st'[o] = st[o], done'[o] = done[o], canceling'[o] = canceling[o]
      PROVE  Tracks(o)'
  <2>1. Tracks(o) BY <1>2, Zenon DEF Tracked
  <2>2. Unique(Request(o)) /\ Unique(Cancellation(o)) BY <2>1, Zenon DEF Tracks
  <2> QED BY <1>1, <1>4, <1>9, <2>1, <2>2, TracksKept, Zenon
<1>10. Unique(Watch)' /\ (Flying(Watch)' <=> Flying(Watch) /\ Watch # Head(cq)) BY <1>2, <1>4, Zenon DEF Watched
<1>11. CASE Head(cq) = Watch /\ seen' = TRUE /\ UNCHANGED <<st, drains, canceling, done>>
  <2>1. Types' BY <1>1, <1>2, <1>4, <1>8, <1>11, Zenon DEF Types
  <2>2. \A o \in Ops : Tracks(o)' BY <1>9, <1>11, Names, Zenon
  <2>3. watching BY <1>2, <1>4, <1>11, Zenon DEF Watched
  <2>4. Watched' BY <1>1, <1>2, <1>10, <1>11, <2>3, Zenon DEF Watched
  <2>5. Draws' = Draws BY <1>1, <1>11, Zenon DEF Draws, Pending
  <2>6. Counted' BY <1>2, <1>11, <2>5, CountKept, Zenon
  <2> QED BY <1>6, <1>7, <2>1, <2>2, <2>4, <2>6, Zenon DEF UringInv, Tracked
<1>12. ASSUME NEW o \in Ops, UNCHANGED seen,
              \/ Head(cq) = Cancellation(o) /\ canceling' = [canceling EXCEPT ![o] = FALSE]
                 /\ UNCHANGED done /\ (IF done[o] THEN Retire(o) ELSE Keep)
              \/ Head(cq) = Request(o) /\ done' = [done EXCEPT ![o] = TRUE]
                 /\ UNCHANGED canceling /\ (IF ~canceling[o] THEN Retire(o) ELSE Keep)
              \/ Head(cq) = More(o) /\ UNCHANGED <<done, canceling>> /\ Keep
       PROVE  UringInv'
  <2>1. Tracks(o) BY <1>2, Zenon DEF Tracked
  <2>2. st[o] = "linked"
    <3>1. CASE Head(cq) \in {Cancellation(o), Request(o)} BY <1>4, <2>1, <3>1, Zenon DEF Tracks
    <3>2. CASE Head(cq) = More(o)
      <4>1. 1 \in DOMAIN cq /\ Head(cq) = cq[1] BY <1>2, <1>3, SMTT(30) DEF Types
      <4>2. In(cq, More(o)) BY <3>2, <4>1, Zenon DEF In
      <4> QED BY <1>2, <4>2, MoreLive, Zenon
    <3> QED BY <1>12, <3>1, <3>2, Zenon
  <2>3. /\ st' \in [Ops -> {"free", "linked", "ready"}]
        /\ done' \in [Ops -> BOOLEAN] /\ canceling' \in [Ops -> BOOLEAN]
    BY <1>2, <1>12, Zenon DEF Retire, Keep, Types
  <2>4. Types'
    BY <1>1, <1>2, <1>4, <1>8, <1>12, <2>3, Zenon DEF Types
  <2>5. Retire(o) \/ Keep BY <1>12, Zenon
  <2>6. Counted'
    <3>1. CASE Retire(o) BY <1>1, <1>2, <2>2, <3>1, RetireCounts, Zenon
    <3>2. CASE Keep
      <4>1. Draws' = Draws /\ drains' = drains BY <1>1, <3>2, Zenon DEF Draws, Pending, Keep
      <4> QED BY <1>2, <4>1, CountKept, Zenon
    <3> QED BY <2>5, <3>1, <3>2, Zenon
  <2>7. Watched'
    <3>1. Head(cq) # Watch BY <1>12, Names, Zenon
    <3> QED BY <1>1, <1>2, <1>10, <1>12, <3>1, Zenon DEF Watched
  <2>8. ASSUME NEW p \in Ops, p # o PROVE Tracks(p)'
    <3>1. Head(cq) # Request(p) /\ Head(cq) # Cancellation(p) BY <1>12, <2>8, Names, Zenon
    <3>2. st'[p] = st[p] /\ done'[p] = done[p] /\ canceling'[p] = canceling[p]
      BY <1>2, <1>12, <2>8, Zenon DEF Retire, Keep, Types
    <3> QED BY <1>9, <3>1, <3>2, Zenon
  <2>9. Tracks(o)'
    <3>1. Unique(Request(o)) /\ Unique(Cancellation(o)) BY <2>1, Zenon DEF Tracks
    <3>2. /\ Unique(Request(o))' /\ Unique(Cancellation(o))'
          /\ Flying(Request(o))' <=> Flying(Request(o)) /\ Request(o) # Head(cq)
          /\ Flying(Cancellation(o))' <=> Flying(Cancellation(o)) /\ Cancellation(o) # Head(cq)
      BY <1>4, <3>1, Zenon
    <3>3. Request(o) # Cancellation(o) /\ Request(o) # More(o) /\ Cancellation(o) # More(o) BY Names, Zenon
    <3>4. CASE Head(cq) = Cancellation(o) /\ canceling' = [canceling EXCEPT ![o] = FALSE]
               /\ UNCHANGED done /\ (IF done[o] THEN Retire(o) ELSE Keep)
      <4>1. ~canceling'[o] /\ st'[o] = (IF done[o] THEN "ready" ELSE st[o])
        BY <1>2, <3>4, Zenon DEF Types, Retire, Keep
      <4> QED BY <1>1, <2>1, <2>2, <3>2, <3>3, <3>4, <4>1, Zenon DEF Tracks
    <3>5. CASE Head(cq) = Request(o) /\ done' = [done EXCEPT ![o] = TRUE]
               /\ UNCHANGED canceling /\ (IF ~canceling[o] THEN Retire(o) ELSE Keep)
      <4>1. done'[o] /\ st'[o] = (IF canceling[o] THEN st[o] ELSE "ready")
        BY <1>2, <3>5, Zenon DEF Types, Retire, Keep
      <4> QED BY <1>1, <2>1, <2>2, <3>2, <3>3, <3>5, <4>1, Zenon DEF Tracks
    <3>6. CASE Head(cq) = More(o) /\ UNCHANGED <<done, canceling>> /\ Keep
      <4>1. Head(cq) # Request(o) /\ Head(cq) # Cancellation(o) BY <3>3, <3>6, Zenon
      <4> QED BY <1>9, <3>6, <4>1, Zenon DEF Keep
    <3> QED BY <1>12, <3>4, <3>5, <3>6, Zenon
  <2> QED BY <1>6, <1>7, <2>4, <2>6, <2>7, <2>8, <2>9, Zenon DEF UringInv, Tracked
<1> QED BY <1>11, <1>12, ReapCases, Zenon

\* The kernel completes a submission: its completion follows all that are there.
LEMMA CompleteStep ==
  ASSUME UringInv, NEW k \in DOMAIN kq, Complete(k)
  PROVE  UringInv'
<1>1. /\ kq' = Without(k) /\ cq' = Append(cq, kq[k])
      /\ UNCHANGED <<iopoll, sq, event, watching, waking, drains, st, drain, sent, canceling, done,
                     pc, timed, left, seen>>
  BY Zenon DEF Complete, flags, control
<1>2. Types /\ Tracked /\ Watched /\ Counted /\ DrainNotBlocked BY Zenon DEF UringInv
<1>3. /\ kq' \in Seq(Submissions) /\ cq' \in Seq(Completions) /\ Len(cq') = Len(cq) + 1
      /\ kq[k] \in Submissions
      /\ cq'[Len(cq) + 1] = kq[k] /\ \A i \in 1..Len(cq) : cq'[i] = cq[i]
      /\ \A e : Unique(e) => /\ Unique(e)'
                             /\ Flying(e)' <=> Flying(e)
                             /\ In(Line, e)' <=> In(Line, e) /\ e # kq[k]
  BY <1>1, <1>2, Finished, Zenon
<1>4. Len(cq) \in Nat /\ DOMAIN cq = 1..Len(cq) /\ DOMAIN cq' = 1..Len(cq) + 1 BY <1>2, <1>3, SMTT(30) DEF Types
<1>5. Types' BY <1>1, <1>2, <1>3, <1>4, SMTT(30) DEF Types
<1>6. Tracked'
  <2>1. ASSUME NEW o \in Ops PROVE Tracks(o)'
    <3>1. Tracks(o) /\ Unique(Request(o)) /\ Unique(Cancellation(o)) BY <1>2, Zenon DEF Tracked, Tracks
    <3> QED BY <1>1, <1>3, <3>1, TracksKept, Zenon
  <2>2. ASSUME NEW o \in Ops PROVE MoreBefore(o)'
    <3>1. MoreBefore(o) /\ Unique(Request(o)) BY <1>2, Zenon DEF Tracked, Tracks
    <3>2. SUFFICES ASSUME NEW i \in 1..Len(cq) + 1, cq'[i] = More(o), ~In(Line, Request(o))'
                   PROVE  \E j \in 1..Len(cq) + 1 : i < j /\ cq'[j] = Request(o)
      BY <1>4, ZenonT(40) DEF MoreBefore
    <3>3. i \in 1..Len(cq) /\ cq[i] = More(o)
      <4>1. kq[k] # More(o) BY <1>3, Names, SMTT(30) DEF Submissions
      <4> QED BY <1>3, <1>4, <3>2, <4>1, SMTT(30)
    <3>4. CASE In(Line, Request(o))
      <4>1. kq[k] = Request(o) BY <1>3, <3>1, <3>2, <3>4, Zenon
      <4> QED BY <1>3, <1>4, <3>3, <4>1, SMTT(30)
    <3>5. CASE ~In(Line, Request(o))
      <4>1. PICK j \in 1..Len(cq) : i < j /\ cq[j] = Request(o) BY <1>4, <3>1, <3>3, <3>5, Zenon DEF MoreBefore
      <4> QED BY <1>3, <1>4, <4>1
    <3> QED BY <3>4, <3>5, Zenon
  <2> QED BY <2>1, <2>2, Zenon DEF Tracked
<1>7. Watched'
  <2>1. Unique(Watch)' /\ (Flying(Watch)' <=> Flying(Watch)) BY <1>2, <1>3, Zenon DEF Watched
  <2> QED BY <1>1, <1>2, <2>1, Zenon DEF Watched
<1>8. Counted'
  <2>1. Draws' = Draws BY <1>1, Zenon DEF Draws, Pending
  <2> QED BY <1>1, <1>2, <2>1, CountKept, Zenon
<1>9. DrainNotBlocked' BY <1>1, <1>2, OrderRemoved, Zenon
<1> QED BY <1>5, <1>6, <1>7, <1>8, <1>9, Zenon DEF UringInv

\* The kernel posts one of several completions of a request that it still works on.
LEMMA CompleteMoreStep ==
  ASSUME UringInv, NEW k \in DOMAIN kq, CompleteMore(k)
  PROVE  UringInv'
<1>1. PICK o \in Ops : kq[k] = Request(o) /\ cq' = Append(cq, More(o)) BY Zenon DEF CompleteMore
<1>2. UNCHANGED <<iopoll, sq, kq, event, watching, waking, drains, st, drain, sent, canceling, done,
                  pc, timed, left, seen>>
  BY Zenon DEF CompleteMore, flags, control
<1>3. Types /\ Tracked /\ Watched /\ Counted /\ DrainNotBlocked BY Zenon DEF UringInv
<1>4. /\ cq' \in Seq(Completions) /\ Len(cq') = Len(cq) + 1
      /\ cq'[Len(cq) + 1] = More(o) /\ \A i \in 1..Len(cq) : cq'[i] = cq[i]
      /\ \A e : In(Line, e)' <=> In(Line, e)
      /\ \A e : e # More(o) => (Flying(e)' <=> Flying(e)) /\ (Unique(e) => Unique(e)')
  BY <1>1, <1>2, <1>3, Repeated, Zenon
<1>5. Len(cq) \in Nat /\ DOMAIN cq = 1..Len(cq) /\ DOMAIN cq' = 1..Len(cq) + 1 BY <1>3, <1>4 DEF Types
<1>6. Line' = Line BY <1>2, ZenonT(40) DEF Line
<1>7. Types' BY <1>2, <1>3, <1>4, <1>5, SMTT(30) DEF Types
<1>8. Tracked'
  <2>1. ASSUME NEW p \in Ops PROVE Tracks(p)'
    <3>1. Request(p) # More(o) /\ Cancellation(p) # More(o) BY Names, Zenon
    <3> QED BY <1>2, <1>3, <1>4, <3>1, TracksKept, Zenon DEF Tracked
  <2>2. In(Line, Request(o))
    <3>1. kq \in Seq(Submissions) /\ sq \in Seq(Submissions) /\ k \in 1..Len(kq) BY <1>3 DEF Types
    <3>2. k \in DOMAIN (kq \o sq) /\ (kq \o sq)[k] = kq[k] BY <3>1
    <3> QED BY <1>1, <3>2, Zenon DEF In, Line
  <2>3. ASSUME NEW p \in Ops PROVE MoreBefore(p)'
    <3>1. MoreBefore(p) BY <1>3, Zenon DEF Tracked
    <3>2. SUFFICES ASSUME NEW i \in 1..Len(cq) + 1, cq'[i] = More(p), ~In(Line, Request(p))'
                   PROVE  \E j \in 1..Len(cq) + 1 : i < j /\ cq'[j] = Request(p)
      BY <1>5, Zenon DEF MoreBefore
    <3>3. p # o BY <1>4, <2>2, <3>2, Zenon
    <3>4. i \in 1..Len(cq) /\ cq[i] = More(p) BY <1>4, <1>5, <3>2, <3>3, Names
    <3>5. PICK j \in 1..Len(cq) : i < j /\ cq[j] = Request(p)
      BY <1>4, <1>5, <3>1, <3>2, <3>4, Zenon DEF MoreBefore
    <3> QED BY <1>4, <1>5, <3>5
  <2> QED BY <2>1, <2>3, Zenon DEF Tracked
<1>9. Watched'
  <2>1. Watch # More(o) BY Names, Zenon
  <2>2. Unique(Watch)' /\ (Flying(Watch)' <=> Flying(Watch)) BY <1>3, <1>4, <2>1, Zenon DEF Watched
  <2> QED BY <1>2, <1>3, <2>2, Zenon DEF Watched
<1>10. Counted'
  <2>1. Draws' = Draws BY <1>2, Zenon DEF Draws, Pending
  <2> QED BY <1>2, <1>3, <2>1, CountKept, Zenon
<1>11. DrainNotBlocked' BY <1>2, <1>3, <1>6, OrderKept, Zenon
<1> QED BY <1>7, <1>8, <1>9, <1>10, <1>11, Zenon DEF UringInv
-----------------------------------------------------------------------------
\* The constructor leaves a ring in which nothing but the wake poll is under way.
LEMMA Start ==
  ASSUME Init
  PROVE  UringInv
<1>1. sq = (IF iopoll THEN <<>> ELSE <<Watch>>) /\ kq = <<>> /\ cq = <<>> BY Zenon DEF Init
<1>2. Watch \in Submissions BY Names, Zenon
<1>3. sq \in Seq(Submissions) /\ kq \in Seq(Submissions) /\ cq \in Seq(Completions) BY <1>1, <1>2
<1>4. Line = sq BY <1>1, <1>3 DEF Line
<1>5. Len(sq) \in {0, 1} /\ (\A i \in DOMAIN sq : i = 1 /\ sq[i] = Watch) /\ DOMAIN cq = {}
  BY <1>1
<1>6. \A e : Single(Line, e) /\ Single(cq, e) /\ ~In(cq, e) BY <1>4, <1>5, Zenon DEF Single, In
<1>7. \A e : Unique(e) BY <1>6, Zenon DEF Unique
<1>8. \A e : Flying(e) => e = Watch BY <1>4, <1>5, <1>6, Zenon DEF Flying, In
<1>9. Flying(Watch) <=> ~iopoll
  <2>1. CASE iopoll
    <3>1. DOMAIN sq = {} BY <1>1, <2>1
    <3> QED BY <1>4, <1>6, <2>1, <3>1, Zenon DEF Flying, In
  <2>2. CASE ~iopoll
    <3>1. 1 \in DOMAIN sq /\ sq[1] = Watch BY <1>1, <2>2
    <3> QED BY <1>4, <2>2, <3>1, Zenon DEF Flying, In
  <2> QED BY <2>1, <2>2, Zenon
<1>10. Types
  <2>1. left = 0 /\ 0 <= Len(cq) BY <1>1 DEF Init
  <2>2. {iopoll, event, watching, waking, timed, seen} \subseteq BOOLEAN BY Zenon DEF Init
  <2> QED BY <1>3, <2>1, <2>2 DEF Init, Types
<1>11. Tracked
  <2>1. ASSUME NEW o \in Ops PROVE Tracks(o)
    <3>1. ~Flying(Request(o)) /\ ~Flying(Cancellation(o)) BY <1>8, Names, Zenon
    <3> QED BY <1>7, <3>1, Zenon DEF Init, Tracks
  <2>2. ASSUME NEW o \in Ops PROVE MoreBefore(o) BY <1>5, Zenon DEF MoreBefore
  <2> QED BY <2>1, <2>2, Zenon DEF Tracked
<1>12. Watched BY <1>7, <1>9, Zenon DEF Init, Watched
<1>13. Counted
  <2>1. Draws = {} BY Zenon DEF Init, Draws, Pending
  <2>2. Cardinality({}) = 0 BY FS_EmptySet, Zenon
  <2> QED BY <2>1, <2>2 DEF Init, Counted
<1>14. DrainNotBlocked
  <2>1. \A i, j \in DOMAIN Line : ~(i < j) BY <1>4, <1>5
  <2> QED BY <2>1, Zenon DEF DrainNotBlocked, Line
<1> QED BY <1>10, <1>11, <1>12, <1>13, <1>14, Zenon DEF UringInv

\* No step of the driver, of another thread or of the kernel breaks the invariant.
LEMMA UringStep ==
  ASSUME UringInv, [Next]_vars
  PROVE  UringInv'
<1>1. CASE UNCHANGED vars
  <2>1. UNCHANGED <<iopoll, sq, kq, cq, event, watching, waking, drains, st, drain, sent, canceling,
                    done, pc, timed, left, seen>>
    BY <1>1, Zenon DEF vars, flags, control
  <2>2. Types /\ Tracked /\ Watched /\ Counted /\ DrainNotBlocked BY Zenon DEF UringInv
  <2>3. Line' = Line BY <2>1, Zenon DEF Line
  <2>4. Types' BY <2>1, <2>2, Zenon DEF Types
  <2>5. Tracked' BY <2>1, <2>2, <2>3, TrackedKept, Zenon
  <2>6. Unique(Watch)' /\ (Flying(Watch)' <=> Flying(Watch)) BY <2>1, <2>2, <2>3, Moved, Zenon DEF Watched
  <2>7. Watched' BY <2>1, <2>2, <2>6, Zenon DEF Watched
  <2>8. Draws' = Draws BY <2>1, Zenon DEF Draws, Pending
  <2>9. Counted' BY <2>1, <2>2, <2>8, CountKept, Zenon
  <2>10. DrainNotBlocked' BY <2>1, <2>2, <2>3, OrderKept, Zenon
  <2> QED BY <2>4, <2>5, <2>7, <2>9, <2>10, Zenon DEF UringInv
<1>2. CASE \E o \in Ops : Cancel(o) \/ Resume(o) \/ \E d \in BOOLEAN : Submit(o, d) \/ SubmitFails(o, d)
  BY <1>2, CancelStep, ResumeStep, SubmitStep, SubmitFailsStep, Zenon
<1>3. CASE \E t \in BOOLEAN : Poll(t) BY <1>3, PollStep, Zenon
<1>4. CASE Return \/ Interrupted BY <1>4, SnapshotStep, Zenon DEF Return, Interrupted
<1>5. CASE Reap \/ EndPoll \/ Wake BY <1>5, ReapStep, EndPollStep, WakeStep, Zenon
<1>6. CASE Kernel BY <1>6, CompleteStep, CompleteMoreStep, Zenon DEF Kernel
<1> QED BY <1>1, <1>2, <1>3, <1>4, <1>5, <1>6, Zenon DEF Next

\* The invariant of the driver: its flags tell exactly which submissions and completions of a
\* request are under way, whether there is a wake poll, and how many DRAINs are pending.
THEOREM UringInductive == Spec => []UringInv
<1>1. Init => UringInv BY Start, Zenon
<1>2. UringInv /\ [Next]_vars => UringInv' BY UringStep, Zenon
<1> QED BY <1>1, <1>2, PTL DEF Spec

\* poll and loop::cancel: neither the kernel nor a completion that is still to be handled
\* names a request whose coroutine has been resumed.
THEOREM RequestsOutlive == Spec => []NoDanglingRequest
<1>1. UringInv => NoDanglingRequest
  <2> SUFFICES ASSUME UringInv, NEW o \in Ops, NEW e \in {Request(o), Cancellation(o), More(o)},
                      e \in InFlight
               PROVE  st[o] = "linked"
    BY Zenon DEF NoDanglingRequest, Pending
  <2>1. Types /\ Tracked BY Zenon DEF UringInv
  <2>2. In(sq, e) \/ In(kq, e) \/ In(cq, e) BY Zenon DEF InFlight, Range, In
  <2>3. In(sq, e) \/ In(kq, e) => In(Line, e)
    <3>1. sq \in Seq(Submissions) /\ kq \in Seq(Submissions) BY <2>1, Zenon DEF Types
    <3>2. ASSUME NEW i \in DOMAIN kq PROVE i \in DOMAIN (kq \o sq) /\ (kq \o sq)[i] = kq[i]
      BY <3>1
    <3>3. ASSUME NEW i \in DOMAIN sq
          PROVE  Len(kq) + i \in DOMAIN (kq \o sq) /\ (kq \o sq)[Len(kq) + i] = sq[i]
      BY <3>1
    <3> QED BY <3>2, <3>3, Zenon DEF In, Line
  <2>4. CASE e = More(o)
    <3>1. ~In(Line, e)
      <4>1. Line \in Seq(Submissions) BY <2>1, Parts, Zenon DEF Types, Line
      <4>2. e \notin Submissions BY <2>4, Names, Zenon DEF Submissions
      <4> QED BY <4>1, <4>2 DEF In
    <3> QED BY <2>1, <2>2, <2>3, <2>4, <3>1, MoreLive, Zenon
  <2>5. CASE e \in {Request(o), Cancellation(o)}
    BY <2>1, <2>2, <2>3, <2>5, Zenon DEF Tracked, Tracks, Flying
  <2> QED BY <2>4, <2>5, Zenon
<1> QED BY <1>1, UringInductive, PTL

\* poll never waits without a timeout unless the wake poll is with the kernel or has
\* completed: loop::wake from another thread ends every such wait.
THEOREM WaitsEndable == Spec => []WakeObservable
<1>1. UringInv => WakeObservable
  <2> SUFFICES ASSUME UringInv, pc = "wait", ~timed, ~iopoll
               PROVE  Watch \in Range(kq) \cup Range(cq)
    BY Zenon DEF WakeObservable
  <2>1. Types /\ Watched BY Zenon DEF UringInv
  <2>2. sq = <<>> /\ Flying(Watch) BY <2>1, Zenon DEF Watched
  <2>3. Line = kq
    <3>1. kq \in Seq(Submissions) BY <2>1, Zenon DEF Types
    <3> QED BY <2>2, <3>1 DEF Line
  <2> QED BY <2>2, <2>3, Zenon DEF Flying, In, Range
<1> QED BY <1>1, UringInductive, PTL

\* loop::submit of a DRAIN: a wake poll in front of one has its event readable, so it
\* completes and the DRAIN behind it is not held up by a poll that nothing ends.
THEOREM DrainsProgress == Spec => []DrainNotBlocked
<1>1. UringInv => DrainNotBlocked BY Zenon DEF UringInv
<1> QED BY <1>1, UringInductive, PTL

\* Unless io_uring_submit fails, the driver's count of pending DRAINs is exact, so the wake
\* poll is suppressed only while one is pending.
THEOREM SuppressionExact == ~Faults => (Spec => []SuppressionTemporary)
<1> SUFFICES ASSUME ~Faults PROVE Spec => []SuppressionTemporary
  BY Zenon
<1>1. UringInv => SuppressionTemporary BY Zenon DEF UringInv, Counted, SuppressionTemporary, Draws
<1> QED BY <1>1, UringInductive, PTL
-----------------------------------------------------------------------------
\* A completion of this kind is on its way to the object.
Coming(s, o, what) == \E i \in DOMAIN s : s[i].o = o /\ s[i].what = what

Whats == {"more", "last", "notif", "cancel"}
ObjectCompletions == [o : Objects, what : Whats, res : {"ok", "error"}]

\* Each comes at most once, and the final one after the primary one.
Stream(s) ==
  /\ s \in Seq(ObjectCompletions)
  /\ \A i, j \in DOMAIN s : i < j /\ s[i].o = s[j].o =>
       s[i].what # s[j].what /\ (s[j].what = "more" => s[i].what = "cancel")

KernStates == {"no", "queued", "held", "notif", "free"}
UserStates == {"none", "built", "await", "awaitq", "sent", "sentq", "mid", "join", "joinq", "failed", "done"}
AllKinds == {"fixed"} \cup UNION {KindOf[o] : o \in Objects}

Records ==
  [kind : AllKinds, slot : {1} \cup 1..Slots, mem : Regions \cup {NoRegion},
   u : UserStates, kern : KernStates, asked : BOOLEAN, active : BOOLEAN, csent : BOOLEAN,
   canceling : BOOLEAN, done : BOOLEAN, reserved : BOOLEAN,
   out : {"none", "ok", "error"}, released : BOOLEAN]

\* An object and what is still to come for it.  A request is active from its start until
\* everything has come; until then its coroutine cannot have got past join or the error.
Accounted(r, more, last, notif, cancel) ==
  /\ r.active <=> r.kern # "no"
  /\ ~r.active => ~r.asked /\ ~r.canceling /\ ~r.done /\ ~more /\ ~last /\ ~notif /\ ~cancel
  /\ r.canceling <=> r.asked \/ cancel
  /\ ~(r.asked /\ cancel) /\ (r.canceling => r.csent)
  /\ more => r.kern \in {"notif", "free"} /\ ~last
  /\ last => r.kern = "free" /\ ~r.done /\ ~notif
  /\ notif => r.kern = "free" /\ ~r.done
  /\ r.done => r.kern = "free" /\ ~more
  /\ r.u \in {"none", "built", "failed", "done", "awaitq", "joinq"} => ~r.active
  /\ r.u \in {"sentq", "mid", "join"} /\ r.active => r.kern \in {"notif", "free"} /\ ~more /\ ~last
  /\ r.u = "sentq" /\ r.active => r.out # "error"
  /\ r.released => ~r.active
  /\ r.u \in {"none", "built"} => ~r.released /\ ~r.reserved
  /\ r.kind \in N!Sends /\ r.kern \in {"queued", "held"} => r.reserved

ObjectOk(o) ==
  Accounted(obj[o], Coming(ncq, o, "more"), Coming(ncq, o, "last"), Coming(ncq, o, "notif"), Coming(ncq, o, "cancel"))

\* The objects that hold a pin.
Built == {o \in Objects : obj[o].u # "none"}

PinsCount == IsFiniteSet(Built) /\ pins = Cardinality(Built)

NativeInv ==
  /\ obj \in [Objects -> Records]
  /\ Stream(ncq) /\ \A o \in Objects : ObjectOk(o)
  /\ PinsCount
  /\ registered \in N!Tables /\ regions = registered
  /\ \A o \in Built : obj[o].slot \in 1..Slots /\ registered[obj[o].slot] = obj[o].mem
  /\ DirectionExact
-----------------------------------------------------------------------------
\* The kernel posts a completion.
LEMMA StreamAppend ==
  ASSUME NEW s, Stream(s), NEW e \in ObjectCompletions, ~Coming(s, e.o, e.what),
         e.what = "more" => ~Coming(s, e.o, "last") /\ ~Coming(s, e.o, "notif")
  PROVE  /\ Stream(Append(s, e))
         /\ \A o, w : Coming(Append(s, e), o, w) <=> Coming(s, o, w) \/ (o = e.o /\ w = e.what)
<1>1. s \in Seq(ObjectCompletions) BY Zenon DEF Stream
<1>2. /\ Append(s, e) \in Seq(ObjectCompletions) /\ Len(s) \in Nat
      /\ DOMAIN s = 1..Len(s) /\ DOMAIN Append(s, e) = 1..Len(s) + 1
      /\ \A i \in 1..Len(s) : Append(s, e)[i] = s[i]
      /\ Append(s, e)[Len(s) + 1] = e
  BY <1>1
<1>3. \A i \in 1..Len(s) + 1 : i = Len(s) + 1 \/ i \in 1..Len(s) BY <1>2
<1>4. \A i \in 1..Len(s) : i \in 1..Len(s) + 1 BY <1>2
<1>5. Len(s) + 1 \in 1..Len(s) + 1 BY <1>2
<1>6. \A o, w : Coming(Append(s, e), o, w) <=> Coming(s, o, w) \/ (o = e.o /\ w = e.what)
  BY <1>2, <1>3, <1>4, <1>5, Zenon DEF Coming
<1>7. ASSUME NEW i \in DOMAIN Append(s, e), NEW j \in DOMAIN Append(s, e), i < j,
             Append(s, e)[i].o = Append(s, e)[j].o
      PROVE  /\ Append(s, e)[i].what # Append(s, e)[j].what
             /\ Append(s, e)[j].what = "more" => Append(s, e)[i].what = "cancel"
  <2>1. i \in 1..Len(s) BY <1>2, <1>7
  <2>2. CASE j \in 1..Len(s)
    BY <1>2, <1>7, <2>1, <2>2, Zenon DEF Stream
  <2>3. CASE j = Len(s) + 1
    <3>1. s[i] = Append(s, e)[i] /\ e = Append(s, e)[j] BY <1>2, <2>1, <2>3, Zenon
    <3>0. s[i] \in ObjectCompletions BY <1>1, <1>2, <2>1
    <3>2. s[i].o = e.o /\ s[i].what \in Whats BY <1>7, <3>0, <3>1, Zenon DEF ObjectCompletions
    <3>3. Coming(s, e.o, s[i].what) BY <1>2, <2>1, <3>2, Zenon DEF Coming
    <3>4. s[i].what # e.what BY <3>3, Zenon
    <3>5. e.what = "more" => s[i].what = "cancel" BY <3>2, <3>3, <3>4, Zenon DEF Whats
    <3> QED BY <3>1, <3>4, <3>5, Zenon
  <2> QED BY <1>2, <1>3, <2>2, <2>3, Zenon
<1> QED BY <1>2, <1>6, <1>7, Zenon DEF Stream

\* poll takes the first completion.
LEMMA StreamTail ==
  ASSUME NEW s, Stream(s), s # <<>>
  PROVE  /\ Stream(Tail(s)) /\ Head(s) \in ObjectCompletions /\ Coming(s, Head(s).o, Head(s).what)
         /\ ~Coming(Tail(s), Head(s).o, Head(s).what)
         /\ \A o, w : o # Head(s).o \/ w # Head(s).what => (Coming(Tail(s), o, w) <=> Coming(s, o, w))
         /\ Head(s).what # "cancel" => ~Coming(Tail(s), Head(s).o, "more")
<1> DEFINE n == Len(s)
           e == Head(s)
<1>1. s \in Seq(ObjectCompletions) BY Zenon DEF Stream
<1>2. /\ Tail(s) \in Seq(ObjectCompletions) /\ e \in ObjectCompletions /\ n \in Nat /\ n # 0
      /\ DOMAIN s = 1..n /\ DOMAIN Tail(s) = 1..n - 1
      /\ \A i \in 1..n - 1 : Tail(s)[i] = s[i + 1] /\ i + 1 \in 1..n /\ 1 < i + 1
      /\ e = s[1] /\ 1 \in 1..n
  BY <1>1
<1>3. \A i \in 1..n : i = 1 \/ (i - 1 \in 1..n - 1 /\ s[i] = Tail(s)[i - 1]) BY <1>2
<1> HIDE DEF n, e
<1>4. \A o, w : o # e.o \/ w # e.what => (Coming(Tail(s), o, w) <=> Coming(s, o, w))
  <2> SUFFICES ASSUME NEW o, NEW w, o # e.o \/ w # e.what
               PROVE  Coming(Tail(s), o, w) <=> Coming(s, o, w)
    BY Zenon
  <2>1. ASSUME Coming(s, o, w) PROVE Coming(Tail(s), o, w)
    <3>1. PICK i \in 1..n : s[i].o = o /\ s[i].what = w BY <1>2, <2>1, Zenon DEF Coming
    <3>2. i # 1 BY <1>2, <3>1, Zenon
    <3>3. i - 1 \in DOMAIN Tail(s) /\ s[i] = Tail(s)[i - 1] BY <1>2, <1>3, <3>2, Zenon
    <3> QED BY <3>1, <3>3, Zenon DEF Coming
  <2>2. ASSUME Coming(Tail(s), o, w) PROVE Coming(s, o, w)
    <3>1. PICK i \in 1..n - 1 : Tail(s)[i].o = o /\ Tail(s)[i].what = w BY <1>2, <2>2, Zenon DEF Coming
    <3>2. i + 1 \in DOMAIN s /\ Tail(s)[i] = s[i + 1] BY <1>2, Zenon
    <3> QED BY <3>1, <3>2, Zenon DEF Coming
  <2> QED BY <2>1, <2>2, Zenon
<1>5. Coming(s, e.o, e.what) BY <1>2, Zenon DEF Coming
<1>6. \A i \in 1..n - 1 : Tail(s)[i].o = e.o => Tail(s)[i].what # e.what
                            /\ (Tail(s)[i].what = "more" => e.what = "cancel")
  <2> SUFFICES ASSUME NEW i \in 1..n - 1, Tail(s)[i].o = e.o
               PROVE  Tail(s)[i].what # e.what /\ (Tail(s)[i].what = "more" => e.what = "cancel")
    BY Zenon
  <2>1. Tail(s)[i] = s[i + 1] /\ i + 1 \in DOMAIN s /\ 1 < i + 1 /\ e = s[1] /\ 1 \in DOMAIN s BY <1>2, Zenon
  <2>2. s[1].o = s[i + 1].o BY <2>1, Zenon
  <2>3. s[1].what # s[i + 1].what /\ (s[i + 1].what = "more" => s[1].what = "cancel")
    BY <2>1, <2>2, Zenon DEF Stream
  <2> QED BY <2>1, <2>3, Zenon
<1>7. ~Coming(Tail(s), e.o, e.what) /\ (e.what # "cancel" => ~Coming(Tail(s), e.o, "more"))
  BY <1>2, <1>6, Zenon DEF Coming
<1>8. ASSUME NEW i \in DOMAIN Tail(s), NEW j \in DOMAIN Tail(s), i < j, Tail(s)[i].o = Tail(s)[j].o
      PROVE  /\ Tail(s)[i].what # Tail(s)[j].what
             /\ Tail(s)[j].what = "more" => Tail(s)[i].what = "cancel"
  <2>1. i + 1 < j + 1 BY <1>2, <1>8
  <2>2. /\ Tail(s)[i] = s[i + 1] /\ i + 1 \in DOMAIN s /\ Tail(s)[j] = s[j + 1] /\ j + 1 \in DOMAIN s
    BY <1>2, <1>8, Zenon
  <2>3. s[i + 1].o = s[j + 1].o BY <1>8, <2>2, Zenon
  <2>4. s[i + 1].what # s[j + 1].what /\ (s[j + 1].what = "more" => s[i + 1].what = "cancel")
    BY <2>1, <2>2, <2>3, Zenon DEF Stream
  <2> QED BY <2>2, <2>4, Zenon
<1> QED BY <1>2, <1>4, <1>5, <1>7, <1>8, Zenon DEF Stream, e
-----------------------------------------------------------------------------
\* A step that changes one object keeps the invariant if it keeps that object's account, its
\* claim to the direction, and the pins.
LEMMA OneObject ==
  ASSUME NativeInv, NEW o \in Objects, NEW r \in Records, obj' = [obj EXCEPT ![o] = r],
         Stream(ncq'), \A p \in Objects, w \in Whats : p # o => (Coming(ncq', p, w) <=> Coming(ncq, p, w)),
         Accounted(r, Coming(ncq', o, "more"), Coming(ncq', o, "last"),
                      Coming(ncq', o, "notif"), Coming(ncq', o, "cancel")),
         PinsCount', UNCHANGED <<regions, registered>>,
         r.u # "none" => r.slot \in 1..Slots /\ registered[r.slot] = r.mem,
         \/ (r.reserved <=> obj[o].reserved) /\ (writing' <=> writing)
         \/ ~r.reserved /\ (writing' <=> writing /\ ~obj[o].reserved)
         \/ r.reserved /\ ~writing /\ writing'
  PROVE  NativeInv'
<1>0. /\ obj' \in [Objects -> Records] /\ obj'[o] = r
      /\ \A p \in Objects : p # o => obj'[p] = obj[p]
  BY Zenon DEF NativeInv
<1>1. ASSUME NEW p \in Objects PROVE ObjectOk(p)'
  <2>1. CASE p = o BY <1>0, <2>1, Zenon DEF ObjectOk
  <2>2. CASE p # o
    <3>1. ObjectOk(p) /\ obj'[p] = obj[p] BY <1>0, <2>2, Zenon DEF NativeInv
    <3>2. \A w \in Whats : Coming(ncq', p, w) <=> Coming(ncq, p, w) BY <2>2, Zenon
    <3> QED BY <3>1, <3>2, Zenon DEF ObjectOk, Accounted, Whats
  <2> QED BY <2>1, <2>2, Zenon
<1>2. \A p \in Built' : obj'[p].slot \in 1..Slots /\ registered'[obj'[p].slot] = obj'[p].mem
  BY <1>0, Zenon DEF NativeInv, Built
<1>3. /\ writing <=> \E p \in Objects : obj[p].reserved
      /\ \A p, q \in Objects : obj[p].reserved /\ obj[q].reserved => p = q
  BY Zenon DEF NativeInv, DirectionExact
<1>4. /\ writing' <=> \E p \in Objects : obj'[p].reserved
      /\ \A p, q \in Objects : obj'[p].reserved /\ obj'[q].reserved => p = q
  BY <1>0, <1>3, Zenon
<1>5. \A p \in Objects : obj'[p].kind \in N!Sends /\ obj'[p].kern \in {"queued", "held"} => obj'[p].reserved
  BY <1>1, Zenon DEF ObjectOk, Accounted
<1>6. DirectionExact' BY <1>4, <1>5, Zenon DEF DirectionExact, N!Directed
<1> QED BY <1>0, <1>1, <1>2, <1>6, Zenon DEF NativeInv

\* The pin and the memory stay with the object.
LEMMA SameObject ==
  ASSUME NativeInv, NEW o \in Objects, NEW r \in Records, obj' = [obj EXCEPT ![o] = r],
         obj[o].u # "none", r.u # "none", r.slot = obj[o].slot, r.mem = obj[o].mem,
         Stream(ncq'), \A p \in Objects, w \in Whats : p # o => (Coming(ncq', p, w) <=> Coming(ncq, p, w)),
         Accounted(r, Coming(ncq', o, "more"), Coming(ncq', o, "last"),
                      Coming(ncq', o, "notif"), Coming(ncq', o, "cancel")),
         UNCHANGED <<pins, regions, registered>>,
         \/ (r.reserved <=> obj[o].reserved) /\ (writing' <=> writing)
         \/ ~r.reserved /\ (writing' <=> writing /\ ~obj[o].reserved)
         \/ r.reserved /\ ~writing /\ writing'
  PROVE  NativeInv'
<1>1. obj'[o] = r /\ \A p \in Objects : p # o => obj'[p] = obj[p] BY Zenon DEF NativeInv
<1>2. Built' = Built BY <1>1, Zenon DEF Built
<1>3. PinsCount' BY <1>2, Zenon DEF PinsCount, NativeInv
<1>4. r.slot \in 1..Slots /\ registered[r.slot] = r.mem BY Zenon DEF NativeInv, Built
<1> QED BY <1>3, <1>4, OneObject, Zenon
-----------------------------------------------------------------------------
\* The steps of an object's owner that leave the pins alone.
LEMMA StartKeeps ==
  ASSUME NativeInv, NEW o \in Objects, N!Start(o) PROVE NativeInv'
<1> DEFINE r == obj[o]
           s == [r EXCEPT !.u = N!Waits(o), !.active = TRUE, !.reserved = N!Directed(o), !.kern = "queued"]
<1>1. r \in Records /\ ObjectOk(o) /\ Stream(ncq) BY Zenon DEF NativeInv
<1>2. /\ r.u = "built" /\ ~(N!Directed(o) /\ writing) /\ obj' = [obj EXCEPT ![o] = s]
      /\ writing' = (writing \/ N!Directed(o)) /\ UNCHANGED <<ncq, pins, regions, registered>>
  BY Zenon DEF N!Start
<1>3. N!Directed(o) \in BOOLEAN /\ N!Waits(o) \in {"sent", "await"}
  BY DEF N!Waits, N!Directed
<1>4. s \in Records
  BY <1>1, <1>3, Zenon DEF Records, UserStates, KernStates
<1>5. s.u = N!Waits(o) /\ s.slot = r.slot /\ s.mem = r.mem /\ (s.reserved <=> N!Directed(o))
  BY <1>1, <1>3 DEF Records, UserStates, KernStates
<1>6. Accounted(s, Coming(ncq, o, "more"), Coming(ncq, o, "last"), Coming(ncq, o, "notif"), Coming(ncq, o, "cancel"))
  BY <1>1, <1>2, Zenon DEF ObjectOk, Accounted, N!Waits, N!Directed, Records
<1> HIDE DEF s
<1>7. ~r.reserved BY <1>1, <1>2, Zenon DEF ObjectOk, Accounted
<1> QED BY <1>1, <1>2, <1>3, <1>4, <1>5, <1>6, <1>7, SameObject, Zenon

\* The start is refused: no request comes into being.
LEMMA RefusedKeeps ==
  ASSUME NativeInv, NEW o \in Objects, N!StartRefused(o) PROVE NativeInv'
<1> DEFINE r == obj[o]
           s == [r EXCEPT !.u = N!Refused(o), !.out = "error", !.released = TRUE]
<1>1. r \in Records /\ ObjectOk(o) /\ Stream(ncq) BY Zenon DEF NativeInv
<1>2. /\ r.u = "built" /\ obj' = [obj EXCEPT ![o] = s]
      /\ writing' = writing /\ UNCHANGED <<ncq, pins, regions, registered>>
  BY Zenon DEF N!StartRefused
<1>3. N!Refused(o) \in {"sentq", "failed"} BY Zenon DEF N!Refused
<1>4. s \in Records
  BY <1>1, <1>3, Zenon DEF Records, UserStates, KernStates
<1>5. s.slot = r.slot /\ s.mem = r.mem /\ s.u # "none" /\ (s.reserved <=> r.reserved)
  BY <1>1, <1>2, <1>3 DEF Records, UserStates, KernStates
<1>6. Accounted(s, Coming(ncq, o, "more"), Coming(ncq, o, "last"), Coming(ncq, o, "notif"), Coming(ncq, o, "cancel"))
  BY <1>1, <1>2, <1>3 DEF ObjectOk, Accounted, Records
<1>7. r.u # "none" /\ (r.u = "built" => ~r.reserved) BY <1>1, <1>2, Zenon DEF ObjectOk, Accounted
<1> HIDE DEF s
<1> QED BY <1>1, <1>2, <1>3, <1>4, <1>5, <1>6, <1>7, SameObject, Zenon

\* The start throws: a send that has claimed the direction keeps it until it is destroyed.
LEMMA ThrowsKeeps ==
  ASSUME NativeInv, NEW o \in Objects, N!StartThrows(o) PROVE NativeInv'
<1> DEFINE r == obj[o]
           s == [r EXCEPT !.u = "failed", !.reserved = N!Directed(o) /\ ~writing, !.released = TRUE]
<1>1. r \in Records /\ ObjectOk(o) /\ Stream(ncq) BY Zenon DEF NativeInv
<1>2. /\ r.u = "built" /\ obj' = [obj EXCEPT ![o] = s]
      /\ writing' = (writing \/ (N!Directed(o) /\ ~writing)) /\ UNCHANGED <<ncq, pins, regions, registered>>
  BY Zenon DEF N!StartThrows
<1>3. (N!Directed(o) /\ ~writing) \in BOOLEAN OBVIOUS
<1>4. s \in Records
  BY <1>1, <1>3, Zenon DEF Records, UserStates, KernStates
<1>5. s.slot = r.slot /\ s.mem = r.mem /\ s.u # "none" /\ (s.reserved <=> N!Directed(o) /\ ~writing)
  BY <1>1, <1>2, <1>3, Zenon DEF Records, UserStates, KernStates
<1>6. Accounted(s, Coming(ncq, o, "more"), Coming(ncq, o, "last"), Coming(ncq, o, "notif"), Coming(ncq, o, "cancel"))
  BY <1>1, <1>2, <1>3 DEF ObjectOk, Accounted, Records
<1>7. r.u # "none" /\ (r.u = "built" => ~r.reserved) BY <1>1, <1>2, Zenon DEF ObjectOk, Accounted
<1> HIDE DEF s
<1> QED BY <1>1, <1>2, <1>3, <1>4, <1>5, <1>6, <1>7, SameObject, Zenon

\* expire sends a cancel request.
LEMMA CancelKeeps ==
  ASSUME NativeInv, NEW o \in Objects, N!Cancel(o) PROVE NativeInv'
<1> DEFINE r == obj[o]
           s == [r EXCEPT !.csent = TRUE, !.canceling = TRUE, !.asked = TRUE]
<1>1. r \in Records /\ ObjectOk(o) /\ Stream(ncq) BY Zenon DEF NativeInv
<1>2. /\ r.active /\ ~r.csent /\ obj' = [obj EXCEPT ![o] = s]
      /\ writing' = writing /\ UNCHANGED <<ncq, pins, regions, registered>>
  BY Zenon DEF N!Cancel
<1>4. s \in Records
  BY <1>1, Zenon DEF Records, UserStates, KernStates
<1>5. s.slot = r.slot /\ s.mem = r.mem /\ s.u = r.u /\ (s.reserved <=> r.reserved)
  BY <1>1, <1>2 DEF Records, UserStates, KernStates
<1>6. Accounted(s, Coming(ncq, o, "more"), Coming(ncq, o, "last"), Coming(ncq, o, "notif"), Coming(ncq, o, "cancel"))
  BY <1>1, <1>2 DEF ObjectOk, Accounted, Records
<1>7. r.u # "none" /\ (r.u = "built" => ~r.reserved) BY <1>1, <1>2, Zenon DEF ObjectOk, Accounted
<1> HIDE DEF s
<1> QED BY <1>1, <1>2, <1>4, <1>5, <1>6, <1>7, SameObject, Zenon

\* The kernel takes the submission.
LEMMA TakeKeeps ==
  ASSUME NativeInv, NEW o \in Objects, N!Take(o) PROVE NativeInv'
<1> DEFINE r == obj[o]
           s == [r EXCEPT !.kern = "held"]
<1>1. r \in Records /\ ObjectOk(o) /\ Stream(ncq) BY Zenon DEF NativeInv
<1>2. /\ r.kern = "queued" /\ obj' = [obj EXCEPT ![o] = s]
      /\ writing' = writing /\ UNCHANGED <<ncq, pins, regions, registered>>
  BY Zenon DEF N!Take
<1>4. s \in Records
  BY <1>1 DEF Records, UserStates, KernStates
<1>5. s.slot = r.slot /\ s.mem = r.mem /\ s.u = r.u /\ (s.reserved <=> r.reserved)
  BY <1>1, <1>2 DEF Records, UserStates, KernStates
<1>6. Accounted(s, Coming(ncq, o, "more"), Coming(ncq, o, "last"), Coming(ncq, o, "notif"), Coming(ncq, o, "cancel"))
  BY <1>1, <1>2 DEF ObjectOk, Accounted, Records
<1>7. r.u # "none" /\ (r.u = "built" => ~r.reserved) BY <1>1, <1>2, Zenon DEF ObjectOk, Accounted
<1> HIDE DEF s
<1> QED BY <1>1, <1>2, <1>4, <1>5, <1>6, <1>7, SameObject, Zenon

\* join waits for the release of the memory, unless it has been released.
LEMMA JoinKeeps ==
  ASSUME NativeInv, NEW o \in Objects, N!Join(o) PROVE NativeInv'
<1> DEFINE r == obj[o]
           s == [r EXCEPT !.u = IF r.released THEN "joinq" ELSE "join"]
<1>1. r \in Records /\ ObjectOk(o) /\ Stream(ncq) BY Zenon DEF NativeInv
<1>2. /\ r.u = "mid" /\ obj' = [obj EXCEPT ![o] = s]
      /\ writing' = writing /\ UNCHANGED <<ncq, pins, regions, registered>>
  BY Zenon DEF N!Join
<1>4. s \in Records
  BY <1>1 DEF Records, UserStates, KernStates
<1>5. s.slot = r.slot /\ s.mem = r.mem /\ s.u # "none" /\ (s.reserved <=> r.reserved)
  BY <1>1, <1>2 DEF Records, UserStates, KernStates
<1>6. Accounted(s, Coming(ncq, o, "more"), Coming(ncq, o, "last"), Coming(ncq, o, "notif"), Coming(ncq, o, "cancel"))
  BY <1>1, <1>2 DEF ObjectOk, Accounted, Records
<1>7. r.u # "none" /\ (r.u = "built" => ~r.reserved) BY <1>1, <1>2, Zenon DEF ObjectOk, Accounted
<1> HIDE DEF s
<1> QED BY <1>1, <1>2, <1>4, <1>5, <1>6, <1>7, SameObject, Zenon

\* The kernel posts a completion for an object.
LEMMA PostKeeps ==
  ASSUME NativeInv, NEW o \in Objects, NEW s \in Records, NEW w \in Whats, NEW x \in {"ok", "error"},
         N!Post(o, w, x), obj' = [obj EXCEPT ![o] = s], UNCHANGED <<writing, pins, regions, registered>>,
         s.u = obj[o].u, s.slot = obj[o].slot, s.mem = obj[o].mem, s.reserved <=> obj[o].reserved,
         obj[o].u # "none", ~Coming(ncq, o, w),
         w = "more" => ~Coming(ncq, o, "last") /\ ~Coming(ncq, o, "notif"),
         Accounted(s, Coming(ncq, o, "more") \/ w = "more", Coming(ncq, o, "last") \/ w = "last",
                      Coming(ncq, o, "notif") \/ w = "notif", Coming(ncq, o, "cancel") \/ w = "cancel")
  PROVE  NativeInv'
<1> DEFINE e == [o |-> o, what |-> w, res |-> x]
<1>1. e \in ObjectCompletions /\ e.o = o /\ e.what = w BY DEF ObjectCompletions
<1>2. ncq' = Append(ncq, e) /\ Stream(ncq) BY Zenon DEF N!Post, NativeInv
<1> HIDE DEF e
<1>3. /\ Stream(ncq')
      /\ \A p, v : Coming(ncq', p, v) <=> Coming(ncq, p, v) \/ (p = o /\ v = w)
  BY <1>1, <1>2, StreamAppend, Zenon
<1>4. Accounted(s, Coming(ncq', o, "more"), Coming(ncq', o, "last"), Coming(ncq', o, "notif"), Coming(ncq', o, "cancel"))
  BY <1>3, Zenon DEF Accounted
<1>5. \A p \in Objects, v \in Whats : p # o => (Coming(ncq', p, v) <=> Coming(ncq, p, v)) BY <1>3
<1> QED BY <1>3, <1>4, <1>5, SameObject, Zenon

\* The kernel ends the request, ...
LEMMA PrimaryKeeps ==
  ASSUME NativeInv, NEW o \in Objects, NEW x \in {"ok", "error"}, NEW more \in BOOLEAN, N!Primary(o, x, more)
  PROVE  NativeInv'
<1> DEFINE r == obj[o]
           s == [r EXCEPT !.kern = IF more THEN "notif" ELSE "free"]
           w == IF more THEN "more" ELSE "last"
<1>1. r \in Records /\ ObjectOk(o) BY Zenon DEF NativeInv
<1>2. r.kern = "held" /\ obj' = [obj EXCEPT ![o] = s] /\ N!Post(o, w, x) /\ UNCHANGED <<writing, pins, regions, registered>>
  BY Zenon DEF N!Primary
<1>3. s \in Records /\ s.u = r.u /\ s.slot = r.slot /\ s.mem = r.mem /\ (s.reserved <=> r.reserved)
  BY <1>1 DEF Records, KernStates
<1>4. /\ r.u # "none" /\ ~Coming(ncq, o, "more") /\ ~Coming(ncq, o, "last") /\ ~Coming(ncq, o, "notif")
  BY <1>1, <1>2 DEF ObjectOk, Accounted
<1>5. w \in Whats /\ ~Coming(ncq, o, w) BY <1>4 DEF Whats
<1>6. Accounted(s, Coming(ncq, o, "more") \/ w = "more", Coming(ncq, o, "last") \/ w = "last",
                      Coming(ncq, o, "notif") \/ w = "notif", Coming(ncq, o, "cancel") \/ w = "cancel")
  BY <1>1, <1>2, <1>4 DEF ObjectOk, Accounted, Records
<1> HIDE DEF s, w
<1> QED BY <1>2, <1>3, <1>4, <1>5, <1>6, PostKeeps, Zenon

\* ... lets go of the memory, ...
LEMMA NotifyKeeps ==
  ASSUME NativeInv, NEW o \in Objects, N!Notify(o) PROVE NativeInv'
<1> DEFINE r == obj[o]
           s == [r EXCEPT !.kern = "free"]
<1>1. r \in Records /\ ObjectOk(o) BY Zenon DEF NativeInv
<1>2. r.kern = "notif" /\ obj' = [obj EXCEPT ![o] = s] /\ N!Post(o, "notif", "ok") /\ UNCHANGED <<writing, pins, regions, registered>>
  BY Zenon DEF N!Notify
<1>3. s \in Records /\ s.u = r.u /\ s.slot = r.slot /\ s.mem = r.mem /\ (s.reserved <=> r.reserved)
  BY <1>1 DEF Records, KernStates
<1>4. r.u # "none" /\ ~Coming(ncq, o, "last") /\ ~Coming(ncq, o, "notif")
  BY <1>1, <1>2 DEF ObjectOk, Accounted
<1>5. Accounted(s, Coming(ncq, o, "more") \/ "notif" = "more", Coming(ncq, o, "last") \/ "notif" = "last",
                      Coming(ncq, o, "notif") \/ "notif" = "notif", Coming(ncq, o, "cancel") \/ "notif" = "cancel")
  BY <1>1, <1>2, <1>4 DEF ObjectOk, Accounted, Records
<1> HIDE DEF s
<1> QED BY <1>2, <1>3, <1>4, <1>5, PostKeeps, Zenon DEF Whats

\* ... and answers the cancel request.
LEMMA AnswerKeeps ==
  ASSUME NativeInv, NEW o \in Objects, N!Answer(o) PROVE NativeInv'
<1> DEFINE r == obj[o]
           s == [r EXCEPT !.asked = FALSE]
<1>1. r \in Records /\ ObjectOk(o) BY Zenon DEF NativeInv
<1>2. r.asked /\ obj' = [obj EXCEPT ![o] = s] /\ N!Post(o, "cancel", "ok") /\ UNCHANGED <<writing, pins, regions, registered>>
  BY Zenon DEF N!Answer
<1>3. s \in Records /\ s.u = r.u /\ s.slot = r.slot /\ s.mem = r.mem /\ (s.reserved <=> r.reserved)
  BY <1>1, Zenon DEF Records
<1>4. r.u # "none" /\ ~Coming(ncq, o, "cancel")
  BY <1>1, <1>2 DEF ObjectOk, Accounted
<1>5. Accounted(s, Coming(ncq, o, "more") \/ "cancel" = "more", Coming(ncq, o, "last") \/ "cancel" = "last",
                      Coming(ncq, o, "notif") \/ "cancel" = "notif", Coming(ncq, o, "cancel") \/ "cancel" = "cancel")
  BY <1>1, <1>2, <1>4 DEF ObjectOk, Accounted, Records
<1> HIDE DEF s
<1> QED BY <1>2, <1>3, <1>4, <1>5, PostKeeps, Zenon DEF Whats

\* The owner goes on.
LEMMA ResumeKeeps ==
  ASSUME NativeInv, NEW o \in Objects, N!Resume(o) PROVE NativeInv'
<1> DEFINE r == obj[o]
           io == r.u # "joinq"
           z == r.reserved /\ ~io
           y == IF io /\ r.out = "error" THEN "failed" ELSE IF r.u = "sentq" THEN "mid" ELSE "done"
           s == [r EXCEPT !.reserved = z, !.out = "none", !.u = y]
<1>1. r \in Records /\ ObjectOk(o) /\ Stream(ncq) BY Zenon DEF NativeInv
<1>2. /\ r.u \in {"awaitq", "sentq", "joinq"} /\ obj' = [obj EXCEPT ![o] = s]
      /\ writing' = (writing /\ ~(io /\ r.reserved)) /\ UNCHANGED <<ncq, pins, regions, registered>>
  BY Zenon DEF N!Resume
<1>0. z \in BOOLEAN /\ y \in {"failed", "mid", "done"} OBVIOUS
<1>y. /\ y = "failed" \/ y = "done" \/ (y = "mid" /\ r.u = "sentq")
      /\ y = "mid" => r.out # "error"
      /\ y = "done" => r.u # "sentq"
      /\ r.u = "sentq" /\ r.out = "error" => y = "failed"
      /\ r.u = "sentq" /\ y = "failed" => r.out = "error"
      /\ (z <=> r.reserved /\ r.u = "joinq")
  OBVIOUS
<1> HIDE DEF z, y
<1>3. s \in Records BY <1>0, <1>1, Zenon DEF Records, UserStates
<1>4. s.u # "none" /\ s.slot = r.slot /\ s.mem = r.mem /\ (s.reserved <=> r.reserved /\ ~io)
  BY <1>0, <1>1, <1>y, Zenon DEF Records
<1>5. Accounted(s, Coming(ncq, o, "more"), Coming(ncq, o, "last"), Coming(ncq, o, "notif"), Coming(ncq, o, "cancel"))
  BY <1>0, <1>y, <1>1, <1>2 DEF ObjectOk, Accounted, Records
<1>6. r.u # "none" BY <1>2, Zenon
<1> HIDE DEF s
<1> QED BY <1>1, <1>2, <1>3, <1>4, <1>5, <1>6, SameObject, Zenon
-----------------------------------------------------------------------------
\* event::set moves the coroutine and nothing else, ...
Kept(q, t) ==
  /\ q.kind = t.kind /\ q.slot = t.slot /\ q.mem = t.mem /\ q.asked = t.asked /\ q.canceling = t.canceling

LEMMA SetFacts ==
  ASSUME NEW t \in Records
  PROVE  /\ N!SetSent(t) \in Records /\ Kept(N!SetSent(t), t)
         /\ N!SetSent(t).kern = t.kern /\ N!SetSent(t).active = t.active /\ N!SetSent(t).csent = t.csent
         /\ N!SetSent(t).done = t.done /\ N!SetSent(t).reserved = t.reserved /\ N!SetSent(t).out = t.out
         /\ N!SetSent(t).released = t.released /\ N!SetSent(t).u = (IF t.u = "sent" THEN "sentq" ELSE t.u)
         /\ N!SetReleased(t) \in Records /\ Kept(N!SetReleased(t), t)
         /\ N!SetReleased(t).kern = t.kern /\ N!SetReleased(t).active = t.active /\ N!SetReleased(t).csent = t.csent
         /\ N!SetReleased(t).done = t.done /\ N!SetReleased(t).reserved = t.reserved
         /\ N!SetReleased(t).u = (IF t.u = "join" THEN "joinq" ELSE t.u)
<1>0. N!SetSent(t) \in Records /\ N!SetReleased(t) \in Records
  <2> DEFINE x == IF t.u = "sent" THEN "sentq" ELSE t.u
             y == IF t.u = "join" THEN "joinq" ELSE t.u
  <2>1. t.u \in UserStates BY Zenon DEF Records
  <2>2. x \in UserStates /\ y \in UserStates BY <2>1, Zenon DEF UserStates
  <2>3. N!SetSent(t) = [t EXCEPT !.u = x] BY Zenon DEF N!SetSent
  <2>4. N!SetReleased(t) = [t EXCEPT !.released = TRUE, !.u = y] BY Zenon DEF N!SetReleased
  <2> HIDE DEF x, y
  <2>5. [t EXCEPT !.u = x] \in Records BY <2>2, Zenon DEF Records
  <2>6. [t EXCEPT !.released = TRUE, !.u = y] \in Records BY <2>2, Zenon DEF Records
  <2> QED BY <2>3, <2>4, <2>5, <2>6, Zenon
<1>1. /\ Kept(N!SetSent(t), t)
      /\ N!SetSent(t).kern = t.kern /\ N!SetSent(t).active = t.active /\ N!SetSent(t).csent = t.csent
      /\ N!SetSent(t).done = t.done /\ N!SetSent(t).reserved = t.reserved /\ N!SetSent(t).out = t.out
      /\ N!SetSent(t).released = t.released /\ N!SetSent(t).u = (IF t.u = "sent" THEN "sentq" ELSE t.u)
  BY Zenon DEF N!SetSent, Records, Kept
<1>2. /\ Kept(N!SetReleased(t), t)
      /\ N!SetReleased(t).kern = t.kern /\ N!SetReleased(t).active = t.active /\ N!SetReleased(t).csent = t.csent
      /\ N!SetReleased(t).done = t.done /\ N!SetReleased(t).reserved = t.reserved
      /\ N!SetReleased(t).u = (IF t.u = "join" THEN "joinq" ELSE t.u)
  BY Zenon DEF N!SetReleased, Records, Kept
<1> QED BY <1>0, <1>1, <1>2, Zenon

\* ... the result hook leaves the request's flags alone, ...
LEMMA ResultFacts ==
  ASSUME NEW t \in Records, NEW e \in ObjectCompletions
  PROVE  LET q == N!Result(t, e) IN
         /\ q \in Records /\ Kept(q, t)
         /\ q.kern = t.kern /\ q.active = t.active /\ q.csent = t.csent /\ q.done = t.done /\ q.released = t.released
         /\ q.reserved <=> t.reserved /\ ~(t.kind = "split" /\ e.what # "notif")
         /\ q.out = IF e.what = "notif" THEN t.out ELSE e.res
         /\ q.u = IF t.u = "sent" /\ t.kind = "split" /\ e.what # "notif" /\ e.res = "ok" THEN "sentq" ELSE t.u
<1> DEFINE a == N!OpResult(t, e)
           b == [a EXCEPT !.reserved = FALSE]
<1>1. e.res \in {"ok", "error"} BY DEF ObjectCompletions
<1>0. a \in Records BY <1>1 DEF N!OpResult, Records
<1>2. /\ Kept(a, t)
      /\ a.kern = t.kern /\ a.active = t.active /\ a.csent = t.csent /\ a.done = t.done /\ a.released = t.released
      /\ a.reserved = t.reserved /\ a.u = t.u
      /\ a.out = IF e.what = "notif" THEN t.out ELSE e.res
  BY <1>1, Zenon DEF N!OpResult, Records, Kept
<1> HIDE DEF a
<1>b. b \in Records BY <1>0, Zenon DEF Records
<1>3. /\ Kept(b, a)
      /\ b.kern = a.kern /\ b.active = a.active /\ b.csent = a.csent /\ b.done = a.done /\ b.released = a.released
      /\ ~b.reserved /\ b.u = a.u /\ b.out = a.out
  BY <1>0, Zenon DEF Records, Kept
<1>4. N!Result(t, e) = IF e.what = "notif" \/ t.kind # "split" THEN a
                       ELSE IF e.res = "ok" THEN N!SetSent(b) ELSE b
  BY Zenon DEF N!Result, a
<1> HIDE DEF b
<1>5. CASE e.what = "notif" \/ t.kind # "split"
  BY <1>0, <1>2, <1>4, <1>5, Zenon
<1>6. CASE ~(e.what = "notif" \/ t.kind # "split") /\ e.res # "ok"
  BY <1>b, <1>2, <1>3, <1>4, <1>6, Zenon DEF Kept
<1>7. CASE ~(e.what = "notif" \/ t.kind # "split") /\ e.res = "ok"
  <2> DEFINE c == N!SetSent(b)
  <2>1. /\ c \in Records /\ Kept(c, b) /\ c.kern = b.kern /\ c.active = b.active /\ c.csent = b.csent
        /\ c.done = b.done /\ c.reserved = b.reserved /\ c.out = b.out /\ c.released = b.released
        /\ c.u = (IF b.u = "sent" THEN "sentq" ELSE b.u)
    BY <1>b, SetFacts, Zenon
  <2>2. N!Result(t, e) = c BY <1>4, <1>7, Zenon
  <2> HIDE DEF c
  <2> QED BY <1>2, <1>3, <1>7, <2>1, <2>2, Zenon DEF Kept
<1> QED BY <1>5, <1>6, <1>7, Zenon

\* ... and the retire hook clears them.
LEMMA RetiredFacts ==
  ASSUME NEW t \in Records
  PROVE  LET q == N!Retired(t) IN
         /\ q \in Records /\ Kept(q, t)
         /\ ~q.active /\ ~q.csent /\ ~q.done /\ q.kern = "no" /\ q.reserved = t.reserved
         /\ q.u \in {"none", "built"} <=> t.u \in {"none", "built"}
         /\ q.u = "none" <=> t.u = "none"
<1> DEFINE a == [t EXCEPT !.active = FALSE, !.csent = FALSE, !.done = FALSE, !.kern = "no",
                          !.u = IF @ = "await" THEN "awaitq" ELSE @]
<1>0. a \in Records
  <2> DEFINE x == IF t.u = "await" THEN "awaitq" ELSE t.u
  <2>1. t.u \in UserStates BY Zenon DEF Records
  <2>2. x \in UserStates BY <2>1, Zenon DEF UserStates
  <2>3. a = [t EXCEPT !.active = FALSE, !.csent = FALSE, !.done = FALSE, !.kern = "no", !.u = x]
    BY Zenon
  <2>4. "no" \in KernStates BY Zenon DEF KernStates
  <2> HIDE DEF x, a
  <2> QED BY <2>2, <2>3, <2>4, Zenon DEF Records
<1>1. /\ Kept(a, t)
      /\ ~a.active /\ ~a.csent /\ ~a.done /\ a.kern = "no" /\ a.reserved = t.reserved
      /\ a.u = IF t.u = "await" THEN "awaitq" ELSE t.u
  BY Zenon DEF Records, Kept
<1>2. N!Retired(t) = IF t.kind = "split" THEN N!SetReleased(N!SetSent(a)) ELSE a
  BY Zenon DEF N!Retired
<1> HIDE DEF a
<1> DEFINE b == N!SetSent(a)
<1>3. /\ b \in Records /\ Kept(b, a) /\ b.kern = a.kern /\ b.active = a.active /\ b.csent = a.csent
      /\ b.done = a.done /\ b.reserved = a.reserved /\ b.u = (IF a.u = "sent" THEN "sentq" ELSE a.u)
  BY <1>0, SetFacts, Zenon
<1> HIDE DEF b
<1> DEFINE c == N!SetReleased(b)
<1>4. /\ c \in Records /\ Kept(c, b) /\ c.kern = b.kern /\ c.active = b.active /\ c.csent = b.csent
      /\ c.done = b.done /\ c.reserved = b.reserved /\ c.u = (IF b.u = "join" THEN "joinq" ELSE b.u)
  BY <1>3, SetFacts, Zenon
<1>5. N!Retired(t) = IF t.kind = "split" THEN c ELSE a BY <1>2, Zenon DEF b
<1> HIDE DEF c
<1>6. Kept(c, t) BY <1>1, <1>3, <1>4, Zenon DEF Kept
<1>7. ~c.active /\ ~c.csent /\ ~c.done /\ c.kern = "no" /\ c.reserved = t.reserved
  BY <1>1, <1>3, <1>4, Zenon
<1>8. /\ a.u \in {"none", "built"} <=> t.u \in {"none", "built"}
      /\ a.u = "none" <=> t.u = "none"
  BY <1>1
<1>9. /\ c.u \in {"none", "built"} <=> a.u \in {"none", "built"}
      /\ c.u = "none" <=> a.u = "none"
  BY <1>3, <1>4
<1> QED BY <1>0, <1>1, <1>4, <1>5, <1>6, <1>7, <1>8, <1>9, Zenon
-----------------------------------------------------------------------------
\* poll handles a completion.
LEMMA HandleKeeps ==
  ASSUME NativeInv, N!Handle PROVE NativeInv'
<1> DEFINE e == Head(ncq)
           o == e.o
           r == obj[o]
           d == [r EXCEPT !.done = e.what # "more"]
           s == IF e.what = "cancel" THEN [r EXCEPT !.canceling = FALSE] ELSE N!Result(d, e)
           f == IF s.done /\ ~s.canceling THEN N!Retired(s) ELSE s
<1>1. ncq # <<>> /\ ncq' = Tail(ncq) /\ Stream(ncq) BY Zenon DEF N!Handle, NativeInv
<1>2. /\ Stream(ncq') /\ e \in ObjectCompletions /\ Coming(ncq, o, e.what) /\ ~Coming(ncq', o, e.what)
      /\ \A p, w : p # o \/ w # e.what => (Coming(ncq', p, w) <=> Coming(ncq, p, w))
      /\ e.what # "cancel" => ~Coming(ncq', o, "more")
  BY <1>1, StreamTail, Zenon
<1>3. /\ obj' = [obj EXCEPT ![o] = f] /\ UNCHANGED <<pins, regions, registered>>
      /\ writing' = (writing /\ ~(r.kind = "split" /\ r.reserved /\ e.what \in {"more", "last"}))
  BY Zenon DEF N!Handle
<1> HIDE DEF e
<1>4. o \in Objects /\ e.what \in Whats /\ e.res \in {"ok", "error"} BY <1>2 DEF ObjectCompletions
<1> HIDE DEF o
<1>5. r \in Records /\ ObjectOk(o) BY <1>4, Zenon DEF NativeInv
<1> DEFINE more == Coming(ncq, o, "more")
           last == Coming(ncq, o, "last")
           notif == Coming(ncq, o, "notif")
           cancel == Coming(ncq, o, "cancel")
           more1 == Coming(ncq', o, "more")
           last1 == Coming(ncq', o, "last")
           notif1 == Coming(ncq', o, "notif")
           cancel1 == Coming(ncq', o, "cancel")
<1>6. Accounted(r, more, last, notif, cancel) BY <1>5, Zenon DEF ObjectOk
<1>7. /\ e.what # "more" => (more1 <=> more)
      /\ e.what # "last" => (last1 <=> last)
      /\ e.what # "notif" => (notif1 <=> notif)
      /\ e.what # "cancel" => (cancel1 <=> cancel) /\ ~more1
      /\ e.what = "more" => more /\ ~more1
      /\ e.what = "last" => last /\ ~last1
      /\ e.what = "notif" => notif /\ ~notif1
      /\ e.what = "cancel" => cancel /\ ~cancel1
  BY <1>2, Zenon
<1> HIDE DEF more, last, notif, cancel, more1, last1, notif1, cancel1
<1>8. r.active /\ r.u \notin {"none", "built"} BY <1>4, <1>6, <1>7, Zenon DEF Accounted, Whats
<1>9. /\ s \in Records /\ s.kind = r.kind /\ s.slot = r.slot /\ s.mem = r.mem /\ s.kern = r.kern
      /\ (s.asked <=> r.asked) /\ (s.active <=> r.active) /\ (s.csent <=> r.csent) /\ (s.released <=> r.released)
      /\ s.canceling <=> r.canceling /\ e.what # "cancel"
      /\ s.done <=> IF e.what = "cancel" THEN r.done ELSE e.what # "more"
      /\ s.reserved <=> r.reserved /\ ~(r.kind = "split" /\ e.what \in {"more", "last"})
      /\ s.out = IF e.what \in {"cancel", "notif"} THEN r.out ELSE e.res
      /\ s.u = IF r.u = "sent" /\ r.kind = "split" /\ e.what \in {"more", "last"} /\ e.res = "ok"
               THEN "sentq" ELSE r.u
  <2>1. CASE e.what = "cancel"
    <3> DEFINE a == [r EXCEPT !.canceling = FALSE]
    <3>1. s = a BY <2>1, Zenon
    <3>2. a \in Records BY <1>5, Zenon DEF Records
    <3>3. /\ a.kind = r.kind /\ a.slot = r.slot /\ a.mem = r.mem /\ a.kern = r.kern /\ a.asked = r.asked
          /\ a.active = r.active /\ a.csent = r.csent /\ a.released = r.released /\ ~a.canceling /\ a.done = r.done
          /\ a.reserved = r.reserved /\ a.out = r.out /\ a.u = r.u
      BY <1>5, Zenon DEF Records
    <3> HIDE DEF a, s
    <3> QED BY <2>1, <3>1, <3>2, <3>3, Zenon
  <2>2. CASE e.what # "cancel"
    <3>1. s = N!Result(d, e) BY <2>2, Zenon
    <3>2. d \in Records BY <1>5, Zenon DEF Records
    <3>3. /\ d.kind = r.kind /\ d.slot = r.slot /\ d.mem = r.mem /\ d.kern = r.kern /\ d.asked = r.asked
          /\ d.active = r.active /\ d.csent = r.csent /\ d.released = r.released /\ d.canceling = r.canceling
          /\ d.done = (e.what # "more") /\ d.reserved = r.reserved /\ d.out = r.out /\ d.u = r.u
      BY <1>5, Zenon DEF Records
    <3>4. e.what \in {"more", "last"} <=> e.what # "notif" BY <1>4, <2>2, Zenon DEF Whats
    <3> HIDE DEF d, s
    <3>5. /\ s \in Records /\ Kept(s, d)
          /\ s.kern = d.kern /\ s.active = d.active /\ s.csent = d.csent /\ s.done = d.done /\ s.released = d.released
          /\ s.reserved <=> d.reserved /\ ~(d.kind = "split" /\ e.what # "notif")
          /\ s.out = IF e.what = "notif" THEN d.out ELSE e.res
          /\ s.u = IF d.u = "sent" /\ d.kind = "split" /\ e.what # "notif" /\ e.res = "ok" THEN "sentq" ELSE d.u
      BY <1>2, <3>1, <3>2, ResultFacts, Zenon
    <3> QED BY <2>2, <3>3, <3>4, <3>5, Zenon DEF Kept
  <2> QED BY <2>1, <2>2, Zenon
<1> HIDE DEF s
<1>d. \/ (s.reserved <=> r.reserved) /\ (writing' <=> writing)
      \/ ~s.reserved /\ (writing' <=> writing /\ ~r.reserved)
  BY <1>3, <1>9, Zenon
<1>c. \A p \in Objects, w \in Whats : p # o => (Coming(ncq', p, w) <=> Coming(ncq, p, w)) BY <1>2, Zenon
<1>10. CASE ~(s.done /\ ~s.canceling)
  <2>1. Accounted(s, more1, last1, notif1, cancel1)
    BY <1>4, <1>6, <1>7, <1>8, <1>9, <1>10 DEF Accounted, Whats
  <2>2. obj' = [obj EXCEPT ![o] = s] BY <1>3, <1>10, Zenon
  <2> QED BY <1>c, <1>d, <1>2, <1>3, <1>4, <1>8, <1>9, <2>1, <2>2, SameObject, Zenon DEF more1, last1, notif1, cancel1
<1>11. CASE s.done /\ ~s.canceling
  <2> DEFINE q == N!Retired(s)
  <2>1. /\ q \in Records /\ Kept(q, s)
        /\ ~q.active /\ ~q.csent /\ ~q.done /\ q.kern = "no" /\ q.reserved = s.reserved
        /\ q.u \in {"none", "built"} <=> s.u \in {"none", "built"}
        /\ q.u = "none" <=> s.u = "none"
    BY <1>9, RetiredFacts, Zenon
  <2> HIDE DEF q
  <2>2. ~more1 /\ ~last1 /\ ~notif1 /\ ~cancel1 /\ ~r.asked
    BY <1>4, <1>6, <1>7, <1>8, <1>9, <1>11 DEF Accounted, Whats
  <2>3. s.u \notin {"none", "built"} BY <1>8, <1>9, Zenon
  <2>4. Accounted(q, more1, last1, notif1, cancel1)
    BY <1>9, <1>11, <2>1, <2>2, <2>3, Zenon DEF Accounted, Kept
  <2>5. obj' = [obj EXCEPT ![o] = q] BY <1>3, <1>11, Zenon DEF q
  <2>6. q.slot = r.slot /\ q.mem = r.mem /\ q.u # "none" BY <1>9, <2>1, <2>3, Zenon DEF Kept
  <2>7. \/ (q.reserved <=> r.reserved) /\ (writing' <=> writing)
        \/ ~q.reserved /\ (writing' <=> writing /\ ~r.reserved)
    BY <1>d, <2>1, Zenon
  <2> QED BY <1>c, <1>2, <1>3, <1>4, <1>8, <2>1, <2>4, <2>5, <2>6, <2>7, SameObject, Zenon DEF more1, last1, notif1, cancel1
<1> QED BY <1>10, <1>11, Zenon
-----------------------------------------------------------------------------
\* A new object takes a pin, ...
LEMMA BuildKeeps ==
  ASSUME NativeInv, NEW o \in Objects, NEW k \in KindOf[o], NEW i \in 1..Slots, N!Build(o, k, i) PROVE NativeInv'
<1> DEFINE s == [N!Fresh EXCEPT !.u = "built", !.kind = k, !.slot = i, !.mem = N!At(i)]
<1>1. obj[o] \in Records /\ ObjectOk(o) /\ Stream(ncq) BY Zenon DEF NativeInv
<1>2. /\ obj[o].u = "none" /\ obj' = [obj EXCEPT ![o] = s] /\ pins' = pins + 1
      /\ UNCHANGED <<ncq, writing, regions, registered>>
  BY Zenon DEF N!Build
<1>3. N!At(i) = registered[i] /\ N!At(i) \in Regions \cup {NoRegion} /\ k \in AllKinds
  BY DEF NativeInv, N!Tables, N!At, AllKinds
<1>4. s \in Records BY <1>3, Zenon DEF N!Fresh, Records, UserStates, KernStates
<1>5. /\ s.u = "built" /\ s.slot = i /\ s.mem = N!At(i) /\ ~s.reserved /\ ~s.active /\ s.kern = "no" /\ ~s.asked
      /\ ~s.canceling /\ ~s.done /\ ~s.released
  BY DEF N!Fresh
<1> HIDE DEF s
<1>6. /\ ~obj[o].reserved /\ ~Coming(ncq, o, "more") /\ ~Coming(ncq, o, "last")
      /\ ~Coming(ncq, o, "notif") /\ ~Coming(ncq, o, "cancel")
  BY <1>1, <1>2, Zenon DEF ObjectOk, Accounted
<1>7. Accounted(s, Coming(ncq, o, "more"), Coming(ncq, o, "last"), Coming(ncq, o, "notif"), Coming(ncq, o, "cancel"))
  BY <1>5, <1>6, Zenon DEF Accounted
<1>8. PinsCount'
  <2>1. obj'[o] = s /\ \A p \in Objects : p # o => obj'[p] = obj[p] BY <1>2, Zenon DEF NativeInv
  <2>2. Built' = Built \cup {o} /\ o \notin Built BY <1>2, <1>5, <2>1 DEF Built
  <2>3. IsFiniteSet(Built) /\ pins = Cardinality(Built) BY Zenon DEF NativeInv, PinsCount
  <2>4. IsFiniteSet(Built \cup {o}) /\ Cardinality(Built \cup {o}) = Cardinality(Built) + 1
    BY <2>2, <2>3, FS_AddElement, Zenon
  <2> QED BY <1>2, <2>2, <2>3, <2>4, Zenon DEF PinsCount
<1> QED BY <1>1, <1>2, <1>3, <1>4, <1>5, <1>6, <1>7, <1>8, OneObject, Zenon

\* ... which its destructor gives back.
LEMMA DestroyKeeps ==
  ASSUME NativeInv, NEW o \in Objects, N!Destroy(o) PROVE NativeInv'
<1>1. obj[o] \in Records /\ ObjectOk(o) /\ Stream(ncq) BY Zenon DEF NativeInv
<1>2. /\ obj[o].u # "none" /\ ~obj[o].active /\ obj' = [obj EXCEPT ![o] = N!Fresh] /\ pins' = pins - 1
      /\ writing' = (writing /\ ~obj[o].reserved) /\ UNCHANGED <<ncq, regions, registered>>
  BY Zenon DEF N!Destroy
<1>3. N!Fresh \in Records BY DEF N!Fresh, Records, UserStates, KernStates, AllKinds
<1>4. /\ N!Fresh.u = "none" /\ ~N!Fresh.reserved /\ ~N!Fresh.active /\ N!Fresh.kern = "no" /\ ~N!Fresh.asked
      /\ ~N!Fresh.canceling /\ ~N!Fresh.done /\ ~N!Fresh.released
  BY DEF N!Fresh
<1>5. /\ ~Coming(ncq, o, "more") /\ ~Coming(ncq, o, "last") /\ ~Coming(ncq, o, "notif") /\ ~Coming(ncq, o, "cancel")
  BY <1>1, <1>2, Zenon DEF ObjectOk, Accounted
<1>6. Accounted(N!Fresh, Coming(ncq, o, "more"), Coming(ncq, o, "last"), Coming(ncq, o, "notif"), Coming(ncq, o, "cancel"))
  BY <1>4, <1>5, Zenon DEF Accounted
<1>7. PinsCount'
  <2>1. obj'[o] = N!Fresh /\ \A p \in Objects : p # o => obj'[p] = obj[p] BY <1>2, Zenon DEF NativeInv
  <2>2. Built' = Built \ {o} /\ o \in Built BY <1>2, <1>4, <2>1 DEF Built
  <2>3. IsFiniteSet(Built) /\ pins = Cardinality(Built) BY Zenon DEF NativeInv, PinsCount
  <2>4. IsFiniteSet(Built \ {o}) /\ Cardinality(Built \ {o}) = Cardinality(Built) - 1
    BY <2>2, <2>3, FS_RemoveElement, Zenon
  <2> QED BY <1>2, <2>2, <2>3, <2>4, Zenon DEF PinsCount
<1> QED BY <1>1, <1>2, <1>3, <1>4, <1>6, <1>7, OneObject, Zenon

\* The table changes only while no object refers to it, and its mirror with it.
LEMMA UpdateKeeps ==
  ASSUME NativeInv, NEW off, NEW new \in UNION {[1..m -> Regions \cup {NoRegion}] : m \in 1..Slots},
         NEW n, N!Update(off, new, n)
  PROVE  NativeInv'
<1>1. pins = 0 /\ off \in 0..Slots /\ Len(new) <= Slots - off /\ n \in 1..Len(new) /\ UNCHANGED <<obj, ncq, writing, pins>>
      /\ registered' = [i \in 1..Slots |-> IF i \in off + 1..off + n THEN new[i - off] ELSE registered[i]]
      /\ regions' = [i \in 1..Slots |-> IF i \in off + 1..off + n THEN new[i - off] ELSE regions[i]]
  BY Zenon DEF N!Update, N!Updatable, N!Updated
<1>2. regions' = registered' BY <1>1, Zenon DEF NativeInv
<1>3. registered' \in N!Tables
  <2>1. PICK m \in 1..Slots : new \in [1..m -> Regions \cup {NoRegion}] OBVIOUS
  <2>2. Len(new) = m /\ m \in Nat /\ off \in Int BY <1>1, <2>1
  <2>3. \A i \in 1..Slots : i \in off + 1..off + n => i - off \in 1..m BY <1>1, <2>2
  <2>4. \A i \in 1..Slots : registered'[i] \in Regions \cup {NoRegion}
    BY <1>1, <2>1, <2>3, Zenon DEF NativeInv, N!Tables
  <2> QED BY <1>1, <2>4, Zenon DEF N!Tables
<1>4. Built = {} /\ Built' = Built
  <2>1. IsFiniteSet(Built) /\ Cardinality(Built) = 0 BY <1>1, Zenon DEF NativeInv, PinsCount
  <2> QED BY <1>1, <2>1, FS_EmptySet, Zenon DEF Built
<1>5. \A p \in Objects : ObjectOk(p)' BY <1>1, Zenon DEF NativeInv, ObjectOk
<1>6. DirectionExact' BY <1>1, Zenon DEF NativeInv, DirectionExact, N!Directed
<1>7. PinsCount' BY <1>1, <1>4, Zenon DEF NativeInv, PinsCount
<1> QED BY <1>1, <1>2, <1>3, <1>4, <1>5, <1>6, <1>7, Zenon DEF NativeInv

LEMMA NativeInit == N!NativeInit => NativeInv
<1> SUFFICES ASSUME N!NativeInit PROVE NativeInv
  BY Zenon
<1>1. N!Fresh \in Records BY DEF N!Fresh, Records, UserStates, KernStates, AllKinds
<1>2. /\ N!Fresh.u = "none" /\ ~N!Fresh.reserved /\ ~N!Fresh.active /\ N!Fresh.kern = "no" /\ ~N!Fresh.asked
      /\ ~N!Fresh.canceling /\ ~N!Fresh.done /\ ~N!Fresh.released
  BY DEF N!Fresh
<1>3. /\ obj \in [Objects -> Records] /\ (\A p \in Objects : obj[p] = N!Fresh) /\ ncq = <<>> /\ ~writing /\ pins = 0
      /\ registered \in N!Tables /\ regions = registered
  BY <1>1, Zenon DEF N!NativeInit
<1>4. Stream(ncq) /\ \A p, w : ~Coming(ncq, p, w) BY <1>3 DEF Stream, Coming
<1>5. \A p \in Objects : ObjectOk(p) BY <1>2, <1>3, <1>4, Zenon DEF ObjectOk, Accounted
<1>6. Built = {} BY <1>2, <1>3, Zenon DEF Built
<1>7. PinsCount BY <1>3, <1>6, FS_EmptySet, Zenon DEF PinsCount
<1>8. DirectionExact BY <1>2, <1>3, Zenon DEF DirectionExact
<1> QED BY <1>3, <1>4, <1>5, <1>6, <1>7, <1>8, Zenon DEF NativeInv

\* Every step of an object, of the kernel and of poll keeps the account.
LEMMA NativeStep == NativeInv /\ [N!NativeNext]_objectVars => NativeInv'
<1> SUFFICES ASSUME NativeInv, [N!NativeNext]_objectVars PROVE NativeInv'
  BY Zenon
<1>1. CASE UNCHANGED objectVars
  <2>1. UNCHANGED <<obj, ncq, writing, pins, regions, registered>> BY <1>1, Zenon DEF objectVars
  <2>2. \A p \in Objects : ObjectOk(p)' BY <2>1, Zenon DEF NativeInv, ObjectOk
  <2>3. Built' = Built /\ PinsCount' BY <2>1, Zenon DEF NativeInv, PinsCount, Built
  <2>4. DirectionExact' BY <2>1, Zenon DEF NativeInv, DirectionExact, N!Directed
  <2> QED BY <2>1, <2>2, <2>3, <2>4, Zenon DEF NativeInv
<1>2. CASE N!NativeNext
  <2>1. ASSUME NEW o \in Objects, N!Object(o) PROVE NativeInv'
    BY <2>1, BuildKeeps, StartKeeps, RefusedKeeps, ThrowsKeeps, CancelKeeps, JoinKeeps, ResumeKeeps, DestroyKeeps,
       TakeKeeps, NotifyKeeps, AnswerKeeps, PrimaryKeeps, Zenon DEF N!Object
  <2> QED BY <1>2, <2>1, HandleKeeps, UpdateKeeps, Zenon DEF N!NativeNext
<1> QED BY <1>1, <1>2, Zenon

\* writing_ is set exactly while one send has claimed the socket's direction.
THEOREM DirectionAccounted == ObjectSpec => []DirectionExact
<1>1. NativeInv => DirectionExact BY Zenon DEF NativeInv
<1> QED BY <1>1, NativeInit, NativeStep, PTL DEF ObjectSpec

\* The kernel looks only at memory that is registered and pinned, and has let go of a
\* request's memory when its coroutine goes on.
THEOREM MemoryAccounted == ObjectSpec => []MemoryOwned
<1>1. NativeInv => MemoryOwned
  <2> SUFFICES ASSUME NativeInv, NEW o \in Objects
               PROVE  /\ obj[o].kern \in {"queued", "held", "notif"} => registered[obj[o].slot] = obj[o].mem
                      /\ obj[o].u \in {"none", "built", "failed", "done"} =>
                           /\ obj[o].kern \in {"no", "free"} /\ ~obj[o].asked
                           /\ \A i \in DOMAIN ncq : ncq[i].o # o
    BY Zenon DEF MemoryOwned
  <2>1. ObjectOk(o) /\ obj[o] \in Records BY Zenon DEF NativeInv
  <2>2. obj[o].kern \in {"queued", "held", "notif"} => o \in Built BY <2>1, Zenon DEF ObjectOk, Accounted, Built
  <2>3. obj[o].kern \in {"queued", "held", "notif"} => registered[obj[o].slot] = obj[o].mem
    BY <2>2, Zenon DEF NativeInv
  <2>4. ASSUME obj[o].u \in {"none", "built", "failed", "done"}
        PROVE  /\ obj[o].kern \in {"no", "free"} /\ ~obj[o].asked
               /\ \A i \in DOMAIN ncq : ncq[i].o # o
    <3>1. /\ ~obj[o].active /\ obj[o].kern = "no" /\ ~obj[o].asked
          /\ \A w \in Whats : ~Coming(ncq, o, w)
      BY <2>1, <2>4, Zenon DEF ObjectOk, Accounted, Whats
    <3>2. \A i \in DOMAIN ncq : ncq[i].what \in Whats
      <4>1. ncq \in Seq(ObjectCompletions) BY Zenon DEF NativeInv, Stream
      <4>2. \A i \in DOMAIN ncq : ncq[i] \in ObjectCompletions BY <4>1
      <4> QED BY <4>2, Zenon DEF ObjectCompletions
    <3>3. \A i \in DOMAIN ncq : ncq[i].o # o BY <3>1, <3>2, Zenon DEF Coming
    <3> QED BY <3>1, <3>3, Zenon
  <2> QED BY <2>3, <2>4, Zenon
<1> QED BY <1>1, NativeInit, NativeStep, PTL DEF ObjectSpec
=============================================================================
