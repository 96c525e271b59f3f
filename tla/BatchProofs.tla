---------------------------- MODULE BatchProofs ----------------------------
(***************************************************************************)
(* Proofs about groups of native submissions (Batch), for any size of the  *)
(* group and of the ring: a group stays whole, its results are those of    *)
(* its requests, and it outlives whatever the ring has of it.              *)
(***************************************************************************)
EXTENDS Batch, FiniteSetTheorems, TLAPS

\* A submission or a completion is known by its request and by whether it is
\* the request itself or the cancel request for it.
Submitted == [op : Nodes, cancel : BOOLEAN, link : BOOLEAN]
Completed == [op : Nodes, cancel : BOOLEAN, res : Outcomes]
Flags == [in : BOOLEAN, sent : BOOLEAN, canceling : BOOLEAN, done : BOOLEAN]

Itself == FALSE
ItsCancel == TRUE

On(s, i, x) == \E k \in DOMAIN s : s[k].op = i /\ s[k].cancel = x
Within(C, i, x) == \E c \in C : On(c, i, x)
Distinct(s) == \A k, l \in DOMAIN s : s[k].op = s[l].op /\ s[k].cancel = s[l].cancel => k = l

\* A request of the group itself.
Mine(e) == e.cancel = Itself /\ e.op \in Group

\* All requests of an ordered group but the last are linked to the next.
Linked(s, o) ==
  \A k \in DOMAIN s :
    /\ s[k].link <=> o # "none" /\ Mine(s[k]) /\ s[k].op # Size
    /\ s[k].link => k + 1 \in DOMAIN s /\ Mine(s[k + 1]) /\ s[k + 1].op = s[k].op + 1

\* The submission queue: a group is in it as a whole.
Queued(s, o) ==
  /\ s \in Seq(Submitted) /\ Distinct(s) /\ Linked(s, o)
  /\ o # "none" =>
       \A k \in DOMAIN s : Mine(s[k]) /\ s[k].op # 1 => k - 1 \in DOMAIN s /\ s[k - 1].link

\* What the kernel has: its chains are whole, and an ordered group is in one of them.
ChainOk(c, o) == c \in Seq(Submitted) /\ c # <<>> /\ Linked(c, o) /\ \A k \in 1..Len(c) - 1 : c[k].link

Alien(c, d) ==
  \A k \in DOMAIN c, l \in DOMAIN d : c[k].op = d[l].op /\ c[k].cancel = d[l].cancel => c = d /\ k = l

Chained(C, o) ==
  /\ \A c \in C : ChainOk(c, o)
  /\ \A c, d \in C : Alien(c, d)
  /\ o # "none" => \A c, d \in C : \A k \in DOMAIN d :
       Mine(c[1]) /\ Mine(d[k]) => c[1].op <= d[k].op

\* Nothing is in two places.
Apart(s, C, q) ==
  \A i, x :
    /\ On(s, i, x) => ~Within(C, i, x) /\ ~On(q, i, x)
    /\ Within(C, i, x) => ~On(q, i, x)

\* The history of an ordered group: what has been executed precedes what the kernel
\* still has, and what is queued precedes it all.
History(s, C, o, r) ==
  /\ r \in Seq(Group)
  /\ o # "none" =>
       /\ \A i, j \in DOMAIN r : i < j => r[i] < r[j]
       /\ \A i \in DOMAIN r, j \in Group : Within(C, j, Itself) => r[i] < j
       /\ (\E k \in DOMAIN s : Mine(s[k])) => r = <<>> /\ \A j \in Group : ~Within(C, j, Itself)

Shared(s, C, q, o, r) ==
  /\ Queued(s, o) /\ Chained(C, o) /\ q \in Seq(Completed) /\ Distinct(q)
  /\ Apart(s, C, q) /\ History(s, C, o, r)

\* A completion will come.
Owed(s, C, q, i, x) == On(s, i, x) \/ Within(C, i, x) \/ On(q, i, x)
-----------------------------------------------------------------------------
LEMMA OnAppend ==
  ASSUME NEW T, NEW s \in Seq(T), NEW e \in T
  PROVE  /\ \A i, x : On(Append(s, e), i, x) <=> On(s, i, x) \/ (e.op = i /\ e.cancel = x)
         /\ Distinct(s) /\ ~On(s, e.op, e.cancel) => Distinct(Append(s, e))
<1>1. /\ DOMAIN Append(s, e) = 1..Len(s) + 1 /\ DOMAIN s = 1..Len(s) /\ Len(s) \in Nat
      /\ Append(s, e)[Len(s) + 1] = e /\ \A k \in 1..Len(s) : Append(s, e)[k] = s[k]
  OBVIOUS
<1> DEFINE a == Append(s, e)
<1> HIDE DEF a
<1>2. \A k \in DOMAIN a : (k \in DOMAIN s /\ a[k] = s[k]) \/ (k = Len(s) + 1 /\ a[k] = e) BY <1>1 DEF a
<1>3. \A k \in DOMAIN s : k \in DOMAIN a /\ a[k] = s[k] BY <1>1 DEF a
<1>4. Len(s) + 1 \in DOMAIN a /\ a[Len(s) + 1] = e BY <1>1 DEF a
<1>5. \A i, x : On(a, i, x) <=> On(s, i, x) \/ (e.op = i /\ e.cancel = x) BY <1>2, <1>3, <1>4, Zenon DEF On
<1>6. ASSUME Distinct(s), ~On(s, e.op, e.cancel) PROVE Distinct(a)
  BY <1>2, <1>6, Zenon DEF Distinct, On
<1> QED BY <1>5, <1>6, Zenon DEF a

LEMMA OnTail ==
  ASSUME NEW T, NEW s \in Seq(T), s # <<>>
  PROVE  /\ 1 \in DOMAIN s /\ Head(s) = s[1] /\ Tail(s) \in Seq(T)
         /\ \A i, x : On(s, i, x) <=> On(Tail(s), i, x) \/ (s[1].op = i /\ s[1].cancel = x)
         /\ Distinct(s) => Distinct(Tail(s)) /\ ~On(Tail(s), s[1].op, s[1].cancel)
<1> DEFINE t == Tail(s)
<1>1. /\ DOMAIN t = 1..Len(s) - 1 /\ DOMAIN s = 1..Len(s) /\ Len(s) \in Nat /\ Len(s) # 0 /\ t \in Seq(T)
      /\ Head(s) = s[1] /\ \A k \in 1..Len(s) - 1 : t[k] = s[k + 1]
  OBVIOUS
<1> HIDE DEF t
<1>2. \A k \in DOMAIN t : k + 1 \in DOMAIN s /\ t[k] = s[k + 1] /\ k + 1 # 1 BY <1>1
<1>3. \A k \in DOMAIN s : k # 1 => k - 1 \in DOMAIN t /\ t[k - 1] = s[k] BY <1>1
<1>4. 1 \in DOMAIN s BY <1>1
<1>5. \A i, x : On(s, i, x) <=> On(t, i, x) \/ (s[1].op = i /\ s[1].cancel = x)
  <2>1. \A k \in DOMAIN t : \E l \in DOMAIN s : t[k] = s[l] BY <1>2, SMT
  <2>2. \A l \in DOMAIN s : l # 1 => \E k \in DOMAIN t : t[k] = s[l] BY <1>3, SMT
  <2> TAKE i, x
  <2>3. On(t, i, x) => On(s, i, x) BY <2>1, Zenon DEF On
  <2>4. s[1].op = i /\ s[1].cancel = x => On(s, i, x) BY <1>4, Zenon DEF On
  <2>5. ASSUME On(s, i, x), ~(s[1].op = i /\ s[1].cancel = x) PROVE On(t, i, x)
    <3>1. PICK l \in DOMAIN s : s[l].op = i /\ s[l].cancel = x BY <2>5, Zenon DEF On
    <3>2. l # 1 BY <2>5, <3>1, Zenon
    <3>3. PICK k \in DOMAIN t : t[k] = s[l] BY <2>2, <3>2, Zenon
    <3> QED BY <3>1, <3>3, Zenon DEF On
  <2> QED BY <2>3, <2>4, <2>5, Zenon
<1>6. ASSUME Distinct(s) PROVE Distinct(t) /\ ~On(t, s[1].op, s[1].cancel)
  <2>1. ~On(t, s[1].op, s[1].cancel) BY <1>2, <1>4, <1>6, Zenon DEF On, Distinct
  <2>2. \A k, l \in DOMAIN t : k + 1 = l + 1 => k = l BY <1>1
  <2>3. Distinct(t)
    <3> SUFFICES ASSUME NEW k \in DOMAIN t, NEW l \in DOMAIN t, t[k].op = t[l].op, t[k].cancel = t[l].cancel PROVE k = l
      BY Zenon DEF Distinct
    <3>1. k + 1 \in DOMAIN s /\ l + 1 \in DOMAIN s /\ t[k] = s[k + 1] /\ t[l] = s[l + 1] BY <1>2
    <3>2. k + 1 = l + 1 BY <1>6, <3>1, Zenon DEF Distinct
    <3> QED BY <2>2, <3>2, Zenon
  <2> QED BY <2>1, <2>3, Zenon
<1> QED BY <1>1, <1>4, <1>5, <1>6, Zenon DEF t

LEMMA OnConcat ==
  ASSUME NEW T, NEW s \in Seq(T), NEW t \in Seq(T)
  PROVE  /\ \A i, x : On(s \o t, i, x) <=> On(s, i, x) \/ On(t, i, x)
         /\ Distinct(s) /\ Distinct(t) /\ (\A i, x : On(s, i, x) => ~On(t, i, x)) => Distinct(s \o t)
         /\ s \o t \in Seq(T) /\ DOMAIN s = 1..Len(s) /\ DOMAIN t = 1..Len(t) /\ Len(s) \in Nat /\ Len(t) \in Nat
         /\ DOMAIN (s \o t) = 1..Len(s) + Len(t)
         /\ \A k \in DOMAIN (s \o t) : \/ k \in DOMAIN s /\ (s \o t)[k] = s[k]
                                       \/ k - Len(s) \in DOMAIN t /\ (s \o t)[k] = t[k - Len(s)]
<1> DEFINE a == s \o t
<1>1. /\ DOMAIN a = 1..Len(s) + Len(t) /\ DOMAIN s = 1..Len(s) /\ DOMAIN t = 1..Len(t) /\ a \in Seq(T)
      /\ Len(s) \in Nat /\ Len(t) \in Nat
      /\ \A k \in 1..Len(s) + Len(t) : a[k] = IF k <= Len(s) THEN s[k] ELSE t[k - Len(s)]
  OBVIOUS
<1> HIDE DEF a
<1>2. \A k \in DOMAIN a : \/ k \in DOMAIN s /\ a[k] = s[k]
                          \/ k - Len(s) \in DOMAIN t /\ a[k] = t[k - Len(s)]
  BY <1>1
<1>3. \A k \in DOMAIN s : k \in DOMAIN a /\ a[k] = s[k] BY <1>1
<1>4. \A k \in DOMAIN t : k + Len(s) \in DOMAIN a /\ a[k + Len(s)] = t[k] BY <1>1
<1>5. \A i, x : On(a, i, x) <=> On(s, i, x) \/ On(t, i, x)
  <2>1. \A k \in DOMAIN a : (\E l \in DOMAIN s : a[k] = s[l]) \/ (\E l \in DOMAIN t : a[k] = t[l]) BY <1>2, SMT
  <2>2. \A l \in DOMAIN s : \E k \in DOMAIN a : a[k] = s[l] BY <1>3, Zenon
  <2>3. \A l \in DOMAIN t : \E k \in DOMAIN a : a[k] = t[l] BY <1>4, SMT
  <2>4. ASSUME NEW i, NEW x, On(a, i, x) PROVE On(s, i, x) \/ On(t, i, x) BY <2>1, <2>4, Zenon DEF On
  <2>5. ASSUME NEW i, NEW x, On(s, i, x) PROVE On(a, i, x) BY <2>2, <2>5, Zenon DEF On
  <2>6. ASSUME NEW i, NEW x, On(t, i, x) PROVE On(a, i, x) BY <2>3, <2>6, Zenon DEF On
  <2> QED BY <2>4, <2>5, <2>6, Zenon
<1>6. ASSUME Distinct(s), Distinct(t), \A i, x : On(s, i, x) => ~On(t, i, x) PROVE Distinct(a)
  <2>1. \A k, l \in DOMAIN a : k - Len(s) = l - Len(s) => k = l BY <1>1
  <2> SUFFICES ASSUME NEW k \in DOMAIN a, NEW l \in DOMAIN a, a[k].op = a[l].op, a[k].cancel = a[l].cancel PROVE k = l
    BY Zenon DEF Distinct
  <2> DEFINE x == k - Len(s)
             y == l - Len(s)
  <2>2. (k \in DOMAIN s /\ a[k] = s[k]) \/ (x \in DOMAIN t /\ a[k] = t[x]) BY <1>2
  <2>3. (l \in DOMAIN s /\ a[l] = s[l]) \/ (y \in DOMAIN t /\ a[l] = t[y]) BY <1>2
  <2>4. x = y => k = l BY <2>1
  <2> HIDE DEF x, y
  <2>5. k \in DOMAIN s => On(s, s[k].op, s[k].cancel) BY Zenon DEF On
  <2>6. l \in DOMAIN s => On(s, s[l].op, s[l].cancel) BY Zenon DEF On
  <2>7. x \in DOMAIN t => On(t, t[x].op, t[x].cancel) BY Zenon DEF On
  <2>8. y \in DOMAIN t => On(t, t[y].op, t[y].cancel) BY Zenon DEF On
  <2>9. CASE k \in DOMAIN s /\ a[k] = s[k] /\ l \in DOMAIN s /\ a[l] = s[l] BY <1>6, <2>9, Zenon DEF Distinct
  <2>10. CASE x \in DOMAIN t /\ a[k] = t[x] /\ y \in DOMAIN t /\ a[l] = t[y] BY <1>6, <2>4, <2>10, Zenon DEF Distinct
  <2>11. CASE k \in DOMAIN s /\ a[k] = s[k] /\ y \in DOMAIN t /\ a[l] = t[y] BY <1>6, <2>5, <2>8, <2>11, Zenon
  <2>12. CASE x \in DOMAIN t /\ a[k] = t[x] /\ l \in DOMAIN s /\ a[l] = s[l] BY <1>6, <2>6, <2>7, <2>12, Zenon
  <2> QED BY <2>2, <2>3, <2>9, <2>10, <2>11, <2>12, Zenon
<1> QED BY <1>1, <1>2, <1>5, <1>6, Zenon DEF a

\* A chain of a submission is a piece of it.
Piece(s, a, b, c) ==
  /\ a \in 1..Len(s) /\ b \in a..Len(s) /\ c = SubSeq(s, a, b)
  /\ \A i \in a..b - 1 : s[i].link
  /\ a = 1 \/ ~s[a - 1].link
  /\ b = Len(s) \/ ~s[b].link

Part(s, a, b, c) ==
  /\ c \in Seq(Submitted) /\ c # <<>> /\ Len(c) = b - a + 1 /\ DOMAIN c = 1..Len(c) /\ a <= b
  /\ \A k \in DOMAIN c : a + k - 1 \in DOMAIN s /\ a + k - 1 \in a..b /\ c[k] = s[a + k - 1]
  /\ \A k \in 1..Len(c) - 1 : c[k].link
  /\ c[1] = s[a]

LEMMA PieceFacts ==
  ASSUME NEW s \in Seq(Submitted), NEW a \in 1..Len(s), NEW b \in 1..Len(s), NEW c, Piece(s, a, b, c)
  PROVE  Part(s, a, b, c)
<1>1. a \in Nat /\ b \in Nat /\ 1 <= a /\ a <= b /\ b <= Len(s) /\ c = SubSeq(s, a, b) /\ Len(s) \in Nat BY DEF Piece
<1>2. /\ Len(c) = b - a + 1 /\ c \in Seq(Submitted) /\ DOMAIN c = 1..Len(c)
      /\ \A k \in 1..b - a + 1 : c[k] = s[a + k - 1]
  BY <1>1
<1>3. \A k \in DOMAIN c : a + k - 1 \in DOMAIN s /\ a + k - 1 \in a..b /\ c[k] = s[a + k - 1] BY <1>1, <1>2
<1>4. c # <<>> /\ c[1] = s[a]
  <2>1. Len(c) # 0 /\ 1 \in 1..b - a + 1 BY <1>1, <1>2
  <2>2. c[1] = s[a + 1 - 1] /\ a + 1 - 1 = a BY <1>1, <1>2, <2>1
  <2> QED BY <2>1, <2>2
<1>5. \A k \in 1..Len(c) - 1 : c[k].link
  <2> SUFFICES ASSUME NEW k \in 1..Len(c) - 1 PROVE c[k].link OBVIOUS
  <2>1. k \in DOMAIN c /\ a + k - 1 \in a..b - 1 BY <1>1, <1>2
  <2> QED BY <1>3, <2>1, Zenon DEF Piece
<1> QED BY <1>1, <1>2, <1>3, <1>4, <1>5, Zenon DEF Part

LEMMA TakenPiece ==
  ASSUME NEW s \in Seq(Submitted), NEW c \in Taken(s)
  PROVE  \E a, b \in 1..Len(s) : Piece(s, a, b, c) /\ Part(s, a, b, c)
<1>1. DOMAIN s = 1..Len(s) /\ Len(s) \in Nat OBVIOUS
<1>2. PICK a \in DOMAIN s : c \in {SubSeq(s, a, b) : b \in {x \in a..Len(s) :
                 /\ \A i \in a..x - 1 : s[i].link
                 /\ a = 1 \/ ~s[a - 1].link
                 /\ x = Len(s) \/ ~s[x].link}}
  BY Zenon DEF Taken
<1>3. PICK b \in a..Len(s) : /\ c = SubSeq(s, a, b) /\ (\A i \in a..b - 1 : s[i].link)
                             /\ (a = 1 \/ ~s[a - 1].link) /\ (b = Len(s) \/ ~s[b].link)
  BY <1>2, Zenon
<1>4. b \in 1..Len(s) /\ a \in 1..Len(s) BY <1>1
<1>5. Piece(s, a, b, c) BY <1>3, <1>4, Zenon DEF Piece
<1>6. Part(s, a, b, c) BY <1>4, <1>5, PieceFacts
<1> QED BY <1>4, <1>5, <1>6, Zenon

\* A submission that is queued in good order falls into good chains, which share nothing.
LEMMA TakenFacts ==
  ASSUME NEW s, NEW o, Queued(s, o)
  PROVE  /\ \A c \in Taken(s) : /\ ChainOk(c, o) /\ \A i, x : On(c, i, x) => On(s, i, x)
                                /\ o # "none" /\ Mine(c[1]) => c[1].op = 1
         /\ \A c, d \in Taken(s) : Alien(c, d)
<1>1. s \in Seq(Submitted) /\ Distinct(s) /\ Linked(s, o) BY Zenon DEF Queued
<1>2. DOMAIN s = 1..Len(s) /\ Len(s) \in Nat BY <1>1
<1>3. ASSUME NEW c \in Taken(s)
      PROVE  /\ ChainOk(c, o) /\ \A i, x : On(c, i, x) => On(s, i, x)
             /\ o # "none" /\ Mine(c[1]) => c[1].op = 1
  <2>1. PICK a, b \in 1..Len(s) : Piece(s, a, b, c) /\ Part(s, a, b, c) BY <1>1, <1>3, TakenPiece, Zenon
  <2>2. /\ c \in Seq(Submitted) /\ c # <<>> /\ Len(c) = b - a + 1 /\ DOMAIN c = 1..Len(c) /\ a <= b
        /\ \A k \in DOMAIN c : a + k - 1 \in DOMAIN s /\ a + k - 1 \in a..b /\ c[k] = s[a + k - 1]
        /\ \A k \in 1..Len(c) - 1 : c[k].link
        /\ c[1] = s[a]
    BY <2>1, Zenon DEF Part
  <2>3. ~s[b].link
    <3>1. b = Len(s) => b + 1 \notin DOMAIN s BY <1>2
    <3>2. b \in DOMAIN s BY <1>2
    <3> QED BY <1>1, <2>1, <3>1, <3>2, Zenon DEF Linked, Piece
  <2>4. Linked(c, o)
    <3> SUFFICES ASSUME NEW k \in DOMAIN c
                 PROVE  /\ c[k].link <=> o # "none" /\ Mine(c[k]) /\ c[k].op # Size
                        /\ c[k].link => k + 1 \in DOMAIN c /\ Mine(c[k + 1]) /\ c[k + 1].op = c[k].op + 1
      BY DEF Linked
    <3> DEFINE j == a + k - 1
    <3>1. j \in DOMAIN s /\ c[k] = s[j] BY <2>2
    <3>2. /\ s[j].link <=> o # "none" /\ Mine(s[j]) /\ s[j].op # Size
          /\ s[j].link => j + 1 \in DOMAIN s /\ Mine(s[j + 1]) /\ s[j + 1].op = s[j].op + 1
      BY <1>1, <3>1, Zenon DEF Linked
    <3>3. c[k].link => k + 1 \in DOMAIN c /\ c[k + 1] = s[j + 1]
      <4> SUFFICES ASSUME c[k].link PROVE k + 1 \in DOMAIN c /\ c[k + 1] = s[j + 1] OBVIOUS
      <4>1. j # b BY <2>3, <3>1
      <4>2. k + 1 \in DOMAIN c BY <1>2, <2>2, <4>1
      <4>3. c[k + 1] = s[a + (k + 1) - 1] BY <2>2, <4>2
      <4>4. a + (k + 1) - 1 = j + 1 BY <1>2, <2>2
      <4> QED BY <4>2, <4>3, <4>4, Zenon
    <3> HIDE DEF j
    <3> QED BY <3>1, <3>2, <3>3, Zenon
  <2>5. \A i, x : On(c, i, x) => On(s, i, x)
    <3>1. \A k \in DOMAIN c : \E j \in DOMAIN s : c[k] = s[j] BY <2>2, SMT
    <3> QED BY <3>1, Zenon DEF On
  <2>6. ASSUME o # "none", Mine(c[1]) PROVE c[1].op = 1
    <3>1. c[1].op # 1 => a - 1 \in DOMAIN s /\ s[a - 1].link BY <1>2, <2>2, <2>6, Zenon DEF Queued
    <3>2. a - 1 \in DOMAIN s => a # 1 BY <1>2
    <3> QED BY <2>1, <3>1, <3>2, Zenon DEF Piece
  <2> QED BY <2>2, <2>4, <2>5, <2>6, Zenon DEF ChainOk
<1>4. ASSUME NEW c \in Taken(s), NEW d \in Taken(s) PROVE Alien(c, d)
  <2> SUFFICES ASSUME NEW k \in DOMAIN c, NEW l \in DOMAIN d, c[k].op = d[l].op, c[k].cancel = d[l].cancel
               PROVE  c = d /\ k = l
    BY Zenon DEF Alien
  <2>1. PICK a, b \in 1..Len(s) : Piece(s, a, b, c) /\ Part(s, a, b, c) BY <1>1, <1>4, TakenPiece, Zenon
  <2>2. PICK e, f \in 1..Len(s) : Piece(s, e, f, d) /\ Part(s, e, f, d) BY <1>1, <1>4, TakenPiece, Zenon
  <2>3. a + k - 1 \in DOMAIN s /\ a + k - 1 \in a..b /\ c[k] = s[a + k - 1] /\ a <= b BY <1>4, <2>1, Zenon DEF Part
  <2>4. e + l - 1 \in DOMAIN s /\ e + l - 1 \in e..f /\ d[l] = s[e + l - 1] /\ e <= f BY <1>4, <2>2, Zenon DEF Part
  <2>5. a + k - 1 = e + l - 1
    <3> DEFINE x == a + k - 1
               y == e + l - 1
    <3> SUFFICES x = y OBVIOUS
    <3>1. x \in DOMAIN s /\ c[k] = s[x] /\ y \in DOMAIN s /\ d[l] = s[y] BY <2>3, <2>4
    <3> HIDE DEF x, y
    <3> QED BY <1>1, <1>4, <3>1, Zenon DEF Distinct
  <2>6. a = e
    <3>1. ~(a < e)
      <4> SUFFICES ASSUME a < e PROVE FALSE OBVIOUS
      <4>1. e - 1 \in a..b - 1 /\ e # 1 BY <1>2, <2>3, <2>4, <2>5
      <4> QED BY <2>1, <2>2, <4>1, Zenon DEF Piece
    <3>2. ~(e < a)
      <4> SUFFICES ASSUME e < a PROVE FALSE OBVIOUS
      <4>1. a - 1 \in e..f - 1 /\ a # 1 BY <1>2, <2>3, <2>4, <2>5
      <4> QED BY <2>1, <2>2, <4>1, Zenon DEF Piece
    <3> QED BY <1>2, <3>1, <3>2
  <2>7. b = f
    <3>0. a <= b /\ e <= f BY <2>3, <2>4, Zenon
    <3> DEFINE n == Len(s)
    <3>3. b <= n /\ f <= n /\ n \in Nat /\ b \in Nat /\ f \in Nat /\ a \in Nat /\ e \in Nat BY <1>2
    <3> HIDE DEF n
    <3>1. ~(b < f)
      <4> SUFFICES ASSUME b < f PROVE FALSE OBVIOUS
      <4>2. b # n BY <3>3
      <4>1. b \in e..f - 1 BY <2>6, <3>0, <3>3
      <4> QED BY <2>1, <2>2, <4>1, <4>2, Zenon DEF Piece, n
    <3>2. ~(f < b)
      <4> SUFFICES ASSUME f < b PROVE FALSE OBVIOUS
      <4>2. f # n BY <3>3
      <4>1. f \in a..b - 1 BY <2>6, <3>0, <3>3
      <4> QED BY <2>1, <2>2, <4>1, <4>2, Zenon DEF Piece, n
    <3> QED BY <1>2, <3>1, <3>2
  <2>8. k = l
    <3>1. k \in Int /\ l \in Int
      <4>1. DOMAIN c = 1..Len(c) /\ DOMAIN d = 1..Len(d) BY <2>1, <2>2, Zenon DEF Part
      <4> QED BY <4>1
    <3> QED BY <1>2, <2>5, <2>6, <3>1
  <2>9. c = d BY <2>1, <2>2, <2>6, <2>7, Zenon DEF Piece
  <2> QED BY <2>8, <2>9, Zenon
<1> QED BY <1>3, <1>4, Zenon
-----------------------------------------------------------------------------
LEMMA EmptyOn == (\A i, x : ~On(<<>>, i, x)) /\ DOMAIN <<>> = {} /\ Distinct(<<>>)
<1>1. DOMAIN <<>> = {} OBVIOUS
<1> QED BY <1>1, Zenon DEF On, Distinct

\* The kernel takes all that is queued.
LEMMA SharedFlush ==
  ASSUME NEW s, NEW C, NEW q, NEW o, NEW r, Shared(s, C, q, o, r)
  PROVE  /\ Shared(<<>>, C \cup Taken(s), q, o, r)
         /\ \A i, x : Owed(<<>>, C \cup Taken(s), q, i, x) => Owed(s, C, q, i, x)
<1> DEFINE D == C \cup Taken(s)
<1>1. Queued(s, o) /\ Chained(C, o) /\ Apart(s, C, q) /\ History(s, C, o, r) /\ q \in Seq(Completed) /\ Distinct(q)
  BY Zenon DEF Shared
<1>2. /\ \A c \in Taken(s) : /\ ChainOk(c, o) /\ \A i, x : On(c, i, x) => On(s, i, x)
                             /\ o # "none" /\ Mine(c[1]) => c[1].op = 1
      /\ \A c, d \in Taken(s) : Alien(c, d)
  BY <1>1, TakenFacts, Zenon
<1>3. \A i, x : Within(D, i, x) => Within(C, i, x) \/ On(s, i, x) BY <1>2, Zenon DEF Within
<1>4. ASSUME NEW c \in C, NEW d \in Taken(s) PROVE Alien(c, d) /\ Alien(d, c)
  <2>1. \A k \in DOMAIN c : Within(C, c[k].op, c[k].cancel) BY <1>4, Zenon DEF Within, On
  <2>2. \A l \in DOMAIN d : On(s, d[l].op, d[l].cancel)
    <3>1. \A l \in DOMAIN d : On(d, d[l].op, d[l].cancel) BY Zenon DEF On
    <3> QED BY <1>2, <1>4, <3>1, Zenon
  <2>3. \A l \in DOMAIN d : ~Within(C, d[l].op, d[l].cancel) BY <1>1, <2>2, Zenon DEF Apart
  <2> QED BY <2>1, <2>3, Zenon DEF Alien
<1>5. ASSUME o # "none", NEW c \in D, NEW d \in D, NEW k \in DOMAIN d, Mine(c[1]), Mine(d[k])
      PROVE  c[1].op <= d[k].op
  <2>1. CASE c \in Taken(s)
    <3>1. c[1].op = 1 /\ d[k].op \in Group BY <1>2, <1>5, <2>1, Zenon DEF Mine
    <3> QED BY <3>1, Fits DEF Group
  <2>2. CASE c \in C /\ d \in C BY <1>1, <1>5, <2>2, Zenon DEF Chained
  <2>3. CASE c \in C /\ d \in Taken(s)
    <3>0. On(d, d[k].op, d[k].cancel) BY <1>5, Zenon DEF On
    <3>6. On(s, d[k].op, d[k].cancel) BY <1>2, <2>3, <3>0, Zenon
    <3>1. PICK j \in DOMAIN s : s[j].op = d[k].op /\ s[j].cancel = d[k].cancel BY <3>6, Zenon DEF On
    <3>2. Mine(s[j]) BY <1>5, <3>1, Zenon DEF Mine
    <3>3. \A i \in Group : ~Within(C, i, Itself) BY <1>1, <1>5, <3>2, Zenon DEF History
    <3>4. 1 \in DOMAIN c
      <4>1. c \in Seq(Submitted) /\ c # <<>> BY <1>1, <2>3, Zenon DEF Chained, ChainOk
      <4> QED BY <4>1
    <3>5. Within(C, c[1].op, Itself) /\ c[1].op \in Group BY <1>5, <2>3, <3>4, Zenon DEF Within, On, Mine
    <3> QED BY <3>3, <3>5, Zenon
  <2> QED BY <1>5, <2>1, <2>2, <2>3, Zenon
<1>6. Chained(D, o)
  <2>1. \A c \in D : ChainOk(c, o) BY <1>1, <1>2, Zenon DEF Chained
  <2>2. \A c, d \in D : Alien(c, d) BY <1>1, <1>2, <1>4, Zenon DEF Chained
  <2> QED BY <1>5, <2>1, <2>2, Zenon DEF Chained
<1>7. Queued(<<>>, o)
  <2>1. <<>> \in Seq(Submitted) OBVIOUS
  <2> QED BY <2>1, EmptyOn, Zenon DEF Queued, Linked
<1>8. Apart(<<>>, D, q) BY <1>1, <1>3, EmptyOn, Zenon DEF Apart
<1>9. History(<<>>, D, o, r)
  <2>1. r \in Seq(Group) /\ (o # "none" => \A i, j \in DOMAIN r : i < j => r[i] < r[j]) BY <1>1, Zenon DEF History
  <2>2. ASSUME o # "none", NEW i \in DOMAIN r, NEW j \in Group, Within(D, j, Itself) PROVE r[i] < j
    <3>1. CASE Within(C, j, Itself) BY <1>1, <2>2, <3>1, Zenon DEF History
    <3>2. CASE On(s, j, Itself)
      <4>1. \E k \in DOMAIN s : Mine(s[k]) BY <2>2, <3>2, Zenon DEF On, Mine
      <4>2. r = <<>> BY <1>1, <2>2, <4>1, Zenon DEF History
      <4> QED BY <2>2, <4>2, EmptyOn, Zenon
    <3> QED BY <1>3, <2>2, <3>1, <3>2, Zenon
  <2> QED BY <2>1, <2>2, EmptyOn, Zenon DEF History
<1>10. Shared(<<>>, D, q, o, r) BY <1>1, <1>6, <1>7, <1>8, <1>9, Zenon DEF Shared
<1>11. \A i, x : Owed(<<>>, D, q, i, x) => Owed(s, C, q, i, x) BY <1>3, EmptyOn, Zenon DEF Owed
<1> QED BY <1>10, <1>11, Zenon

\* Something that belongs to no group is queued.
LEMMA SharedEnter ==
  ASSUME NEW s, NEW C, NEW q, NEW o, NEW r, Shared(s, C, q, o, r),
         NEW e \in Submitted, ~e.link, ~Mine(e), ~Owed(s, C, q, e.op, e.cancel)
  PROVE  /\ Shared(Append(s, e), C, q, o, r)
         /\ \A i, x : Owed(Append(s, e), C, q, i, x) => Owed(s, C, q, i, x) \/ (i = e.op /\ x = e.cancel)
<1> DEFINE a == Append(s, e)
<1>1. Queued(s, o) /\ Chained(C, o) /\ Apart(s, C, q) /\ History(s, C, o, r) /\ q \in Seq(Completed) /\ Distinct(q)
  BY Zenon DEF Shared
<1>2. s \in Seq(Submitted) /\ Distinct(s) /\ Linked(s, o) BY <1>1, Zenon DEF Queued
<1>3. /\ \A i, x : On(a, i, x) <=> On(s, i, x) \/ (e.op = i /\ e.cancel = x)
      /\ Distinct(a)
  <2>1. ~On(s, e.op, e.cancel) BY Zenon DEF Owed
  <2> QED BY <1>2, <2>1, OnAppend, Zenon
<1>4. /\ a \in Seq(Submitted) /\ DOMAIN s = 1..Len(s) /\ DOMAIN a = 1..Len(s) + 1 /\ Len(s) \in Nat
      /\ a[Len(s) + 1] = e /\ \A k \in 1..Len(s) : a[k] = s[k]
  BY <1>2
<1> HIDE DEF a
<1>5. \A k \in DOMAIN a : (k \in DOMAIN s /\ a[k] = s[k]) \/ a[k] = e BY <1>4
<1>6. \A k \in DOMAIN s : k \in DOMAIN a /\ a[k] = s[k] BY <1>4
<1>7. Linked(a, o)
  <2> SUFFICES ASSUME NEW k \in DOMAIN a
               PROVE  /\ a[k].link <=> o # "none" /\ Mine(a[k]) /\ a[k].op # Size
                      /\ a[k].link => k + 1 \in DOMAIN a /\ Mine(a[k + 1]) /\ a[k + 1].op = a[k].op + 1
    BY Zenon DEF Linked
  <2>1. CASE a[k] = e BY <2>1, Zenon
  <2>2. CASE k \in DOMAIN s /\ a[k] = s[k] BY <1>2, <1>6, <2>2, Zenon DEF Linked
  <2> QED BY <1>5, <2>1, <2>2, Zenon
<1>8. ASSUME o # "none", NEW k \in DOMAIN a, Mine(a[k]), a[k].op # 1 PROVE k - 1 \in DOMAIN a /\ a[k - 1].link
  <2>1. k \in DOMAIN s /\ a[k] = s[k] BY <1>5, <1>8, Zenon
  <2>2. k - 1 \in DOMAIN s /\ s[k - 1].link BY <1>1, <1>8, <2>1, Zenon DEF Queued
  <2> QED BY <1>6, <2>2, Zenon
<1>9. Queued(a, o) BY <1>3, <1>4, <1>7, <1>8, Zenon DEF Queued
<1>10. Apart(a, C, q) BY <1>1, <1>3, Zenon DEF Apart, Owed
<1>11. (\E k \in DOMAIN a : Mine(a[k])) => \E k \in DOMAIN s : Mine(s[k]) BY <1>5, Zenon
<1>12. History(a, C, o, r) BY <1>1, <1>11, Zenon DEF History
<1>13. Shared(a, C, q, o, r) BY <1>1, <1>9, <1>10, <1>12, Zenon DEF Shared
<1>14. \A i, x : Owed(a, C, q, i, x) => Owed(s, C, q, i, x) \/ (i = e.op /\ x = e.cancel) BY <1>3, Zenon DEF Owed
<1> QED BY <1>13, <1>14, Zenon DEF a

\* Without a request of the group there are no links.
LEMMA Unordered ==
  ASSUME NEW s, NEW o, NEW p, Linked(s, p), \A k \in DOMAIN s : ~Mine(s[k])
  PROVE  Linked(s, o) /\ \A k \in DOMAIN s : ~s[k].link
BY Zenon DEF Linked

LEMMA ChainFacts ==
  ASSUME NEW o
  PROVE  /\ Chain(o) \in Seq(Submitted) /\ Len(Chain(o)) = Size /\ Distinct(Chain(o))
         /\ DOMAIN Chain(o) = Group
         /\ \A i, x : On(Chain(o), i, x) <=> i \in Group /\ x = Itself
         /\ \A k \in Group : /\ Mine(Chain(o)[k]) /\ Chain(o)[k].op = k
                             /\ Chain(o)[k].link <=> o # "none" /\ k # Size
<1> DEFINE c == Chain(o)
<1>1. DOMAIN c = Group /\ \A k \in Group : c[k] = Entry(k, o # "none" /\ k < Size) BY Zenon DEF Chain
<1>2. \A k \in Group : k < Size <=> k # Size BY Fits DEF Group
<1>3. \A k \in Group : c[k].op = k /\ c[k].cancel = Itself /\ c[k].link = (o # "none" /\ k < Size)
  BY <1>1 DEF Entry, Itself
<1>4. \A k \in Group : c[k] \in Submitted
  <2> SUFFICES ASSUME NEW k \in Group PROVE c[k] \in Submitted OBVIOUS
  <2> DEFINE b == o # "none" /\ k < Size
  <2>1. k \in Nodes BY Fits DEF Group, Nodes
  <2>2. c[k] = [op |-> k, cancel |-> FALSE, link |-> b] BY <1>1, Zenon DEF Entry
  <2>3. b = TRUE \/ b = FALSE BY Zenon
  <2> HIDE DEF b, c
  <2>4. CASE b = TRUE
    <3>1. c[k] = [op |-> k, cancel |-> FALSE, link |-> TRUE] BY <2>2, <2>4, Zenon
    <3> QED BY <2>1, <3>1 DEF Submitted
  <2>5. CASE b = FALSE
    <3>1. c[k] = [op |-> k, cancel |-> FALSE, link |-> FALSE] BY <2>2, <2>5, Zenon
    <3> QED BY <2>1, <3>1 DEF Submitted
  <2> QED BY <2>3, <2>4, <2>5, Zenon
<1>5. c \in Seq(Submitted) /\ Len(c) = Size
  <2>1. c = [k \in 1..Size |-> c[k]] BY <1>1, Zenon DEF Chain, Group
  <2>2. \A k \in 1..Size : c[k] \in Submitted BY <1>4, Zenon DEF Group
  <2>3. Size \in Nat BY Fits
  <2> HIDE DEF c
  <2>4. c \in [1..Size -> Submitted] BY <2>1, <2>2, Zenon
  <2>5. c \in Seq(Submitted) BY <2>3, <2>4
  <2> QED BY <2>3, <2>4, <2>5
<1> HIDE DEF c
<1>6. Distinct(c) BY <1>1, <1>3, ZenonT(40) DEF Distinct
<1>7. \A i, x : On(c, i, x) <=> i \in Group /\ x = Itself BY <1>1, <1>3, Zenon DEF On
<1>8. \A k \in Group : /\ Mine(c[k]) /\ c[k].op = k
                       /\ c[k].link <=> o # "none" /\ k # Size
  BY <1>2, <1>3, Zenon DEF Mine
<1> QED BY <1>1, <1>5, <1>6, <1>7, <1>8, Zenon DEF c

\* A group is queued when nothing of it is left.
LEMMA SharedGroup ==
  ASSUME NEW s, NEW C, NEW q, NEW p, NEW r, Shared(s, C, q, p, r), NEW o,
         \A i \in Group : ~Owed(s, C, q, i, Itself), r = <<>>
  PROVE  /\ Shared(s \o Chain(o), C, q, o, r)
         /\ \A i, x : Owed(s \o Chain(o), C, q, i, x) => Owed(s, C, q, i, x) \/ (i \in Group /\ x = Itself)
<1> DEFINE c == Chain(o)
           a == s \o c
<1>1. Queued(s, p) /\ Chained(C, p) /\ Apart(s, C, q) /\ History(s, C, p, r) /\ q \in Seq(Completed) /\ Distinct(q)
  BY Zenon DEF Shared
<1>2. s \in Seq(Submitted) /\ Distinct(s) /\ Linked(s, p) BY <1>1, Zenon DEF Queued
<1>3. /\ c \in Seq(Submitted) /\ Len(c) = Size /\ Distinct(c) /\ DOMAIN c = Group
      /\ \A i, x : On(c, i, x) <=> i \in Group /\ x = Itself
      /\ \A k \in Group : /\ Mine(c[k]) /\ c[k].op = k
                          /\ c[k].link <=> o # "none" /\ k # Size
  BY ChainFacts, Zenon
<1> HIDE DEF c
<1>17. \A i, x : On(c, i, x) => ~Owed(s, C, q, i, x)
  <2> SUFFICES ASSUME NEW i, NEW x, On(c, i, x) PROVE ~Owed(s, C, q, i, x) BY Zenon
  <2>1. i \in Group /\ x = Itself BY <1>3
  <2>2. ~Owed(s, C, q, i, Itself) BY <2>1, Zenon
  <2> QED BY <2>1, <2>2, Zenon
<1>4. \A i, x : On(s, i, x) => ~On(c, i, x) BY <1>17, Zenon DEF Owed
<1>5. /\ \A i, x : On(a, i, x) <=> On(s, i, x) \/ On(c, i, x)
      /\ Distinct(a) /\ a \in Seq(Submitted) /\ DOMAIN s = 1..Len(s) /\ Len(s) \in Nat
      /\ DOMAIN a = 1..Len(s) + Size
      /\ \A k \in DOMAIN a : \/ k \in DOMAIN s /\ a[k] = s[k]
                             \/ k - Len(s) \in DOMAIN c /\ a[k] = c[k - Len(s)]
  BY <1>2, <1>3, <1>4, OnConcat, Zenon
<1>6. \A k \in DOMAIN a : k - Len(s) \in Group => a[k] = c[k - Len(s)]
  <2>1. \A k \in DOMAIN a : k - Len(s) \in Group => k \notin DOMAIN s BY <1>5, Fits DEF Group
  <2> QED BY <1>3, <1>5, <2>1, Zenon
<1> HIDE DEF a
<1>7. (\A k \in DOMAIN s : ~Mine(s[k])) /\ \A d \in C : \A k \in DOMAIN d : ~Mine(d[k])
  BY Zenon DEF Owed, On, Within, Mine
<1>8. Linked(s, o) /\ \A k \in DOMAIN s : ~s[k].link BY <1>2, <1>7, Unordered, Zenon
<1>9. Linked(a, o)
  <2> SUFFICES ASSUME NEW k \in DOMAIN a
               PROVE  /\ a[k].link <=> o # "none" /\ Mine(a[k]) /\ a[k].op # Size
                      /\ a[k].link => k + 1 \in DOMAIN a /\ Mine(a[k + 1]) /\ a[k + 1].op = a[k].op + 1
    BY Zenon DEF Linked
  <2> DEFINE j == k - Len(s)
  <2>1. CASE k \in DOMAIN s /\ a[k] = s[k] BY <1>7, <1>8, <2>1, Zenon DEF Linked
  <2>2. CASE j \in Group /\ a[k] = c[j]
    <3>1. Mine(a[k]) /\ a[k].op = j /\ (a[k].link <=> o # "none" /\ j # Size) BY <1>3, <2>2, Zenon
    <3>2. a[k].link => k + 1 \in DOMAIN a /\ j + 1 \in Group /\ k + 1 - Len(s) = j + 1
      <4>1. j # Size => k + 1 \in DOMAIN a /\ j + 1 \in Group /\ k + 1 - Len(s) = j + 1 BY <1>5, <2>2, Fits DEF Group
      <4> HIDE DEF j
      <4> QED BY <3>1, <4>1, Zenon
    <3>3. a[k].link => a[k + 1] = c[j + 1] BY <1>6, <3>2, SMTT(30)
    <3>4. a[k].link => Mine(a[k + 1]) /\ a[k + 1].op = j + 1 BY <1>3, <3>2, <3>3, Zenon
    <3> HIDE DEF j
    <3> QED BY <3>1, <3>2, <3>4, Zenon
  <2> QED BY <1>3, <1>5, <2>1, <2>2, Zenon
<1>10. ASSUME o # "none", NEW k \in DOMAIN a, Mine(a[k]), a[k].op # 1 PROVE k - 1 \in DOMAIN a /\ a[k - 1].link
  <2> DEFINE j == k - Len(s)
  <2>1. j \in Group /\ a[k] = c[j] BY <1>3, <1>5, <1>7, <1>10, Zenon
  <2>2. j # 1 BY <1>3, <1>10, <2>1, Zenon
  <2>3. k - 1 \in DOMAIN a /\ j - 1 \in Group /\ k - 1 - Len(s) = j - 1 /\ j - 1 # Size
    BY <1>5, <2>1, <2>2, Fits DEF Group
  <2>4. a[k - 1] = c[j - 1] BY <1>6, <2>3, Zenon
  <2>5. c[j - 1].link BY <1>3, <1>10, <2>3, Zenon
  <2> QED BY <2>3, <2>4, <2>5, Zenon
<1>11. Queued(a, o) BY <1>5, <1>9, <1>10, Zenon DEF Queued
<1>12. Chained(C, o)
  <2>1. ASSUME NEW d \in C PROVE ChainOk(d, o) /\ ~Mine(d[1])
    <3>1. ChainOk(d, p) BY <1>1, <2>1, Zenon DEF Chained
    <3>2. Linked(d, o) BY <1>7, <2>1, <3>1, Unordered, Zenon DEF ChainOk
    <3>3. 1 \in DOMAIN d
      <4>1. d \in Seq(Submitted) /\ d # <<>> BY <3>1, Zenon DEF ChainOk
      <4> QED BY <4>1
    <3> QED BY <1>7, <2>1, <3>1, <3>2, <3>3, Zenon DEF ChainOk
  <2> QED BY <1>1, <2>1, Zenon DEF Chained
<1>18. \A i, x : On(a, i, x) => On(s, i, x) \/ On(c, i, x) BY <1>5, Zenon
<1>13. Apart(a, C, q)
  <2> SUFFICES ASSUME NEW i, NEW x
               PROVE  /\ On(a, i, x) => ~Within(C, i, x) /\ ~On(q, i, x)
                      /\ Within(C, i, x) => ~On(q, i, x)
    BY Zenon DEF Apart
  <2>1. On(s, i, x) => ~Within(C, i, x) /\ ~On(q, i, x) BY <1>1, Zenon DEF Apart
  <2>2. Within(C, i, x) => ~On(q, i, x) BY <1>1, Zenon DEF Apart
  <2>3. On(c, i, x) => ~Within(C, i, x) /\ ~On(q, i, x) BY <1>17, Zenon DEF Owed
  <2> QED BY <1>18, <2>1, <2>2, <2>3, Zenon
<1>14. History(a, C, o, r)
  <2>1. \A j \in Group : ~Within(C, j, Itself) BY Zenon DEF Owed
  <2>2. DOMAIN r = {} /\ r \in Seq(Group) BY <1>1, EmptyOn, Zenon DEF History
  <2> QED BY <2>1, <2>2, Zenon DEF History
<1>15. Shared(a, C, q, o, r) BY <1>1, <1>11, <1>12, <1>13, <1>14, Zenon DEF Shared
<1>16. \A i, x : Owed(a, C, q, i, x) => Owed(s, C, q, i, x) \/ (i \in Group /\ x = Itself)
  <2>1. \A i, x : On(c, i, x) => i \in Group /\ x = Itself BY <1>3
  <2> QED BY <1>18, <2>1 DEF Owed
<1> QED BY <1>15, <1>16, Zenon DEF a, c

\* The kernel posts completions P for what it no longer has.
LEMMA SharedPost ==
  ASSUME NEW s, NEW C, NEW q, NEW o, NEW r, Shared(s, C, q, o, r), NEW D, Chained(D, o),
         NEW P \in Seq(Completed), Distinct(P), \A i, x : Within(D, i, x) => Within(C, i, x),
         \A i, x : On(P, i, x) => Within(C, i, x) /\ ~Within(D, i, x)
  PROVE  /\ Shared(s, D, q \o P, o, r)
         /\ \A i, x : Owed(s, D, q \o P, i, x) => Owed(s, C, q, i, x)
<1> DEFINE a == q \o P
<1>1. Queued(s, o) /\ Apart(s, C, q) /\ History(s, C, o, r) /\ q \in Seq(Completed) /\ Distinct(q) BY Zenon DEF Shared
<1>2. \A i, x : On(q, i, x) => ~On(P, i, x) BY <1>1, Zenon DEF Apart
<1>3. (\A i, x : On(a, i, x) <=> On(q, i, x) \/ On(P, i, x)) /\ Distinct(a) /\ a \in Seq(Completed)
  BY <1>1, <1>2, OnConcat, Zenon
<1> HIDE DEF a
<1>4. Apart(s, D, a) BY <1>1, <1>3, Zenon DEF Apart
<1>5. History(s, D, o, r) BY <1>1, Zenon DEF History
<1>6. Shared(s, D, a, o, r) BY <1>1, <1>3, <1>4, <1>5, Zenon DEF Shared
<1>7. \A i, x : Owed(s, D, a, i, x) => Owed(s, C, q, i, x) BY <1>3, Zenon DEF Owed
<1> QED BY <1>6, <1>7, Zenon DEF a

\* poll takes a completion.
LEMMA SharedPop ==
  ASSUME NEW s, NEW C, NEW q, NEW o, NEW r, Shared(s, C, q, o, r), q # <<>>
  PROVE  /\ Shared(s, C, Tail(q), o, r) /\ q[1] \in Completed
         /\ On(q, q[1].op, q[1].cancel)
         /\ \A i, x : Owed(s, C, Tail(q), i, x) => Owed(s, C, q, i, x) /\ ~(i = q[1].op /\ x = q[1].cancel)
<1> DEFINE t == Tail(q)
<1>1. Queued(s, o) /\ Chained(C, o) /\ Apart(s, C, q) /\ History(s, C, o, r) /\ q \in Seq(Completed) /\ Distinct(q)
  BY Zenon DEF Shared
<1>2. /\ 1 \in DOMAIN q /\ t \in Seq(Completed)
      /\ \A i, x : On(q, i, x) <=> On(t, i, x) \/ (q[1].op = i /\ q[1].cancel = x)
      /\ Distinct(t) /\ ~On(t, q[1].op, q[1].cancel)
  BY <1>1, OnTail, Zenon
<1>3. q[1] \in Completed BY <1>1, <1>2
<1> HIDE DEF t
<1>4. On(q, q[1].op, q[1].cancel) BY <1>2, Zenon DEF On
<1>5. \A i, x : On(t, i, x) => On(q, i, x) BY <1>2, Zenon
<1>6. Apart(s, C, t) BY <1>1, <1>5, Zenon DEF Apart
<1>7. Shared(s, C, t, o, r) BY <1>1, <1>2, <1>6, Zenon DEF Shared
<1>8. \A i, x : Owed(s, C, t, i, x) => Owed(s, C, q, i, x) BY <1>5, Zenon DEF Owed
<1>9. ~Owed(s, C, t, q[1].op, q[1].cancel) BY <1>1, <1>2, <1>4, Zenon DEF Owed, Apart
<1> QED BY <1>3, <1>4, <1>7, <1>8, <1>9, Zenon DEF t

\* The coroutine forgets the history.
LEMMA SharedReset ==
  ASSUME NEW s, NEW C, NEW q, NEW o, NEW r, Shared(s, C, q, o, r)
  PROVE  Shared(s, C, q, o, <<>>)
<1>1. Queued(s, o) /\ Chained(C, o) /\ Apart(s, C, q) /\ History(s, C, o, r) /\ q \in Seq(Completed) /\ Distinct(q)
  BY Zenon DEF Shared
<1>2. <<>> \in Seq(Group) OBVIOUS
<1>3. History(s, C, o, <<>>) BY <1>1, <1>2, EmptyOn, Zenon DEF History
<1> QED BY <1>1, <1>3, Zenon DEF Shared

\* The kernel is done with a chain.
LEMMA Removed ==
  ASSUME NEW C, NEW o, Chained(C, o), NEW c \in C
  PROVE  Chained(C \ {c}, o) /\ \A i, x : Within(C \ {c}, i, x) => Within(C, i, x) /\ ~On(c, i, x)
<1>1. Chained(C \ {c}, o) BY Zenon DEF Chained
<1>2. ASSUME NEW d \in C \ {c}, NEW i, NEW x, On(d, i, x) PROVE ~On(c, i, x)
  <2>1. Alien(c, d) /\ c # d BY <1>2, Zenon DEF Chained
  <2> QED BY <1>2, <2>1, Zenon DEF Alien, On
<1>3. \A i, x : Within(C \ {c}, i, x) => Within(C, i, x) BY Zenon DEF Within
<1>4. \A i, x : Within(C \ {c}, i, x) => ~On(c, i, x) BY <1>2, Zenon DEF Within
<1> QED BY <1>1, <1>3, <1>4, Zenon

\* The kernel goes on to the next request of a chain.
LEMMA Advanced ==
  ASSUME NEW C, NEW o, Chained(C, o), NEW c \in C, Len(c) # 1
  PROVE  LET D == (C \ {c}) \cup {Tail(c)}
         IN Chained(D, o) /\ \A i, x : Within(D, i, x) => Within(C, i, x) /\ ~(c[1].op = i /\ c[1].cancel = x)
<1> DEFINE t == Tail(c)
           D == (C \ {c}) \cup {t}
<1>1. ChainOk(c, o) /\ \A d \in C : ChainOk(d, o) /\ Alien(c, d) /\ Alien(d, c) BY Zenon DEF Chained
<1>2. c \in Seq(Submitted) /\ c # <<>> /\ Linked(c, o) /\ \A k \in 1..Len(c) - 1 : c[k].link BY <1>1, Zenon DEF ChainOk
<1>3. /\ DOMAIN c = 1..Len(c) /\ Len(c) \in Nat /\ Len(c) > 1 /\ t \in Seq(Submitted) /\ t # <<>>
      /\ Len(t) = Len(c) - 1 /\ DOMAIN t = 1..Len(c) - 1 /\ \A k \in 1..Len(c) - 1 : t[k] = c[k + 1]
  <2>5. DOMAIN c = 1..Len(c) /\ Len(c) \in Nat /\ Len(c) # 0 BY <1>2
  <2> DEFINE n == Len(c)
  <2>6. n \in Nat /\ n # 0 /\ n # 1 BY <2>5
  <2> HIDE DEF n
  <2>7. n > 1 BY <2>6
  <2>1. DOMAIN c = 1..Len(c) /\ Len(c) \in Nat /\ Len(c) > 1 BY <2>5, <2>7 DEF n
  <2>2. t \in Seq(Submitted) /\ Len(t) = Len(c) - 1 BY <1>2
  <2>3. DOMAIN t = 1..Len(c) - 1 /\ t # <<>> BY <2>1, <2>2
  <2>4. \A k \in 1..Len(c) - 1 : t[k] = c[k + 1] BY <1>2, <2>1
  <2> QED BY <2>1, <2>2, <2>3, <2>4
<1> HIDE DEF t
<1>4. \A k \in DOMAIN t : k + 1 \in DOMAIN c /\ t[k] = c[k + 1] /\ k + 1 # 1 BY <1>3
<1>5. Linked(t, o)
  <2> SUFFICES ASSUME NEW k \in DOMAIN t
               PROVE  /\ t[k].link <=> o # "none" /\ Mine(t[k]) /\ t[k].op # Size
                      /\ t[k].link => k + 1 \in DOMAIN t /\ Mine(t[k + 1]) /\ t[k + 1].op = t[k].op + 1
    BY Zenon DEF Linked
  <2> DEFINE j == k + 1
  <2>1. j \in DOMAIN c /\ t[k] = c[j] BY <1>4
  <2>2. /\ c[j].link <=> o # "none" /\ Mine(c[j]) /\ c[j].op # Size
        /\ c[j].link => j + 1 \in DOMAIN c /\ Mine(c[j + 1]) /\ c[j + 1].op = c[j].op + 1
    BY <1>2, <2>1, Zenon DEF Linked
  <2>3. j + 1 \in DOMAIN c => k + 1 \in DOMAIN t /\ t[k + 1] = c[j + 1] BY <1>3
  <2>4. t[k].link => k + 1 \in DOMAIN t /\ t[k + 1] = c[j + 1] BY <2>1, <2>2, <2>3, Zenon
  <2> QED BY <2>1, <2>2, <2>4, Zenon
<1>6. ChainOk(t, o)
  <2>1. \A k \in 1..Len(t) - 1 : t[k] = c[k + 1] /\ k + 1 \in 1..Len(c) - 1 BY <1>3
  <2>2. \A k \in 1..Len(t) - 1 : t[k].link BY <1>2, <2>1, Zenon
  <2> QED BY <1>3, <1>5, <2>2, Zenon DEF ChainOk
<1>7. c[1].link /\ o # "none" /\ Mine(c[1]) /\ Mine(t[1]) /\ t[1].op = c[1].op + 1
  <2>1. 1 \in 1..Len(c) - 1 /\ 1 \in DOMAIN c /\ 1 + 1 = 2 /\ t[1] = c[1 + 1] BY <1>3
  <2>2. c[1].link BY <1>2, <2>1, Zenon
  <2> QED BY <1>2, <2>1, <2>2, Zenon DEF Linked
<1>8. \A i, x : On(t, i, x) => On(c, i, x) /\ ~(c[1].op = i /\ c[1].cancel = x)
  <2>1. 1 \in DOMAIN c BY <1>3
  <2>2. Distinct(c) BY <1>1, Zenon DEF Alien, Distinct
  <2>3. \A k \in DOMAIN t : \E l \in DOMAIN c : t[k] = c[l] /\ l # 1 BY <1>4, SMT
  <2> TAKE i, x
  <2> HAVE On(t, i, x)
  <2>4. PICK k \in DOMAIN t : t[k].op = i /\ t[k].cancel = x BY Zenon DEF On
  <2>5. PICK l \in DOMAIN c : t[k] = c[l] /\ l # 1 BY <2>3, Zenon
  <2>6. c[l].op = i /\ c[l].cancel = x BY <2>4, <2>5, Zenon
  <2>7. ~(c[1].op = i /\ c[1].cancel = x) BY <2>1, <2>2, <2>5, <2>6, Zenon DEF Distinct
  <2> QED BY <2>6, <2>7, Zenon DEF On
<1>9. ASSUME NEW d \in C \ {c} PROVE Alien(t, d) /\ Alien(d, t)
  <2>1. Alien(c, d) /\ Alien(d, c) /\ c # d BY <1>1, <1>9, Zenon
  <2>2. \A k \in DOMAIN t : \E l \in DOMAIN c : t[k] = c[l] BY <1>4, SMT
  <2>3. \A k \in DOMAIN t, l \in DOMAIN d : ~(t[k].op = d[l].op /\ t[k].cancel = d[l].cancel)
    BY <2>1, <2>2, Zenon DEF Alien
  <2> QED BY <2>3, Zenon DEF Alien
<1>10. Alien(t, t)
  <2> SUFFICES ASSUME NEW k \in DOMAIN t, NEW l \in DOMAIN t, t[k].op = t[l].op, t[k].cancel = t[l].cancel
               PROVE  k = l
    BY Zenon DEF Alien
  <2>1. k + 1 \in DOMAIN c /\ l + 1 \in DOMAIN c /\ t[k] = c[k + 1] /\ t[l] = c[l + 1] BY <1>4
  <2>2. Alien(c, c) BY <1>1, Zenon
  <2>3. k + 1 = l + 1 BY <2>1, <2>2, Zenon DEF Alien
  <2> QED BY <1>3, <2>3
<1>11. \A i, x : Within(C \ {c}, i, x) => Within(C, i, x) /\ ~On(c, i, x) BY Removed, Zenon
<1>12. \A i, x : Within(D, i, x) => Within(C, i, x) /\ ~(c[1].op = i /\ c[1].cancel = x)
  <2>1. 1 \in DOMAIN c BY <1>3
  <2>2. On(c, c[1].op, c[1].cancel) BY <2>1, Zenon DEF On
  <2>3. ASSUME NEW i, NEW x, Within(C \ {c}, i, x) PROVE Within(C, i, x) /\ ~(c[1].op = i /\ c[1].cancel = x)
    BY <1>11, <2>2, <2>3, Zenon
  <2>4. ASSUME NEW i, NEW x, On(t, i, x) PROVE Within(C, i, x) /\ ~(c[1].op = i /\ c[1].cancel = x)
    BY <1>8, <2>4, Zenon DEF Within
  <2>5. \A i, x : Within(D, i, x) => Within(C \ {c}, i, x) \/ On(t, i, x) BY Zenon DEF Within
  <2> QED BY <2>3, <2>4, <2>5, Zenon
<1>13. ASSUME NEW d \in D, NEW e \in D, NEW k \in DOMAIN e, Mine(d[1]), Mine(e[k]) PROVE d[1].op <= e[k].op
  <2>1. On(e, e[k].op, e[k].cancel) BY <1>13, Zenon DEF On
  <2>2. Within(D, e[k].op, e[k].cancel) BY <1>13, <2>1, Zenon DEF Within
  <2>3. Within(C, e[k].op, e[k].cancel) /\ ~(c[1].op = e[k].op /\ c[1].cancel = e[k].cancel) BY <1>12, <2>2, Zenon
  <2>4. PICK f \in C : On(f, e[k].op, e[k].cancel) BY <2>3, Zenon DEF Within
  <2>5. PICK l \in DOMAIN f : f[l].op = e[k].op /\ f[l].cancel = e[k].cancel BY <2>4, Zenon DEF On
  <2>6. Mine(f[l]) BY <1>13, <2>5, Zenon DEF Mine
  <2>7. CASE d \in C BY <1>7, <1>13, <2>5, <2>6, <2>7, Zenon DEF Chained
  <2>8. CASE d = t
    <3>1. c[1].op <= e[k].op BY <1>7, <2>5, <2>6, Zenon DEF Chained
    <3>2. c[1].op # e[k].op BY <1>7, <1>13, <2>3, Zenon DEF Mine
    <3>3. c[1].op \in Group /\ e[k].op \in Group BY <1>7, <1>13, Zenon DEF Mine
    <3>4. d[1].op = c[1].op + 1 BY <1>7, <2>8, Zenon
    <3> QED BY <3>1, <3>2, <3>3, <3>4, Fits DEF Group
  <2> QED BY <2>7, <2>8, Zenon
<1>14. Chained(D, o)
  <2>1. \A d \in D : ChainOk(d, o) BY <1>1, <1>6, Zenon
  <2>2. \A d, e \in D : Alien(d, e)
    <3>1. \A d, e \in C : Alien(d, e) BY Zenon DEF Chained
    <3> QED BY <1>9, <1>10, <3>1, Zenon
  <2> QED BY <1>13, <2>1, <2>2, Zenon DEF Chained
<1> QED BY <1>12, <1>14, Zenon DEF t

\* The kernel posts a completion for the head of a chain, or for all of it.
One(c, v) == <<Posted(c[1], v)>>
All(c, v) == [k \in DOMAIN c |-> Posted(c[k], IF k = 1 THEN v ELSE "canceled")]

LEMMA PostOne ==
  ASSUME NEW c \in Seq(Submitted), c # <<>>, NEW v \in Outcomes
  PROVE  /\ One(c, v) \in Seq(Completed) /\ Distinct(One(c, v))
         /\ \A i, x : On(One(c, v), i, x) <=> c[1].op = i /\ c[1].cancel = x
         /\ DOMAIN One(c, v) = {1} /\ One(c, v)[1] = Posted(c[1], v)
<1> DEFINE p == Posted(c[1], v)
<1>1. 1 \in DOMAIN c BY SMT
<1>2. c[1] \in Submitted BY <1>1
<1>3. p \in Completed /\ p.op = c[1].op /\ p.cancel = c[1].cancel BY <1>2 DEF Posted, Submitted, Completed
<1> HIDE DEF p
<1>4. <<p>> \in Seq(Completed) /\ DOMAIN <<p>> = {1} /\ <<p>>[1] = p BY <1>3
<1>5. Distinct(<<p>>) BY <1>4, Zenon DEF Distinct
<1>6. \A i, x : On(<<p>>, i, x) <=> c[1].op = i /\ c[1].cancel = x BY <1>3, <1>4, Zenon DEF On
<1> QED BY <1>4, <1>5, <1>6, Zenon DEF One, p

LEMMA PostAll ==
  ASSUME NEW c \in Seq(Submitted), Distinct(c), NEW v \in Outcomes
  PROVE  /\ All(c, v) \in Seq(Completed) /\ Distinct(All(c, v)) /\ DOMAIN All(c, v) = DOMAIN c
         /\ \A i, x : On(All(c, v), i, x) <=> On(c, i, x)
         /\ \A k \in DOMAIN c : All(c, v)[k] = Posted(c[k], IF k = 1 THEN v ELSE "canceled")
<1> DEFINE a == All(c, v)
<1>1. /\ DOMAIN a = DOMAIN c /\ DOMAIN c = 1..Len(c) /\ Len(c) \in Nat
      /\ \A k \in DOMAIN c : a[k] = Posted(c[k], IF k = 1 THEN v ELSE "canceled") /\ c[k] \in Submitted
  BY DEF All
<1>2. \A k \in DOMAIN c : a[k] \in Completed /\ a[k].op = c[k].op /\ a[k].cancel = c[k].cancel
  <2>1. \A e \in Submitted, w \in Outcomes :
          Posted(e, w) \in Completed /\ Posted(e, w).op = e.op /\ Posted(e, w).cancel = e.cancel
    BY DEF Posted, Submitted, Completed
  <2>2. "canceled" \in Outcomes BY DEF Outcomes
  <2>3. \A k \in DOMAIN c : (IF k = 1 THEN v ELSE "canceled") \in Outcomes BY <2>2
  <2> HIDE DEF a
  <2> QED BY <1>1, <2>1, <2>3
<1>3. a \in Seq(Completed)
  <2>1. a = [k \in 1..Len(c) |-> a[k]] BY <1>1 DEF All
  <2>2. a \in [1..Len(c) -> Completed] BY <1>1, <1>2, <2>1
  <2> HIDE DEF a
  <2> QED BY <1>1, <2>2
<1> HIDE DEF a
<1>4. Distinct(a) BY <1>1, <1>2, Zenon DEF Distinct
<1>5. \A i, x : On(a, i, x) <=> On(c, i, x) BY <1>1, <1>2, Zenon DEF On
<1> QED BY <1>1, <1>3, <1>4, <1>5, Zenon DEF a

\* A failure cancels what is left of a soft chain.
LEMMA PostBroken ==
  ASSUME NEW c \in Seq(Submitted), c # <<>>, NEW v \in Outcomes, NEW q \in Seq(Completed)
  PROVE  Append(q, Posted(c[1], v)) \o [i \in DOMAIN Tail(c) |-> Posted(Tail(c)[i], "canceled")] = q \o All(c, v)
<1> DEFINE t == Tail(c)
           n == Len(c)
           m == Len(q)
           h == Append(q, Posted(c[1], v))
           u == [i \in DOMAIN t |-> Posted(t[i], "canceled")]
           a == All(c, v)
<1>1. n \in Nat /\ n # 0 /\ DOMAIN c = 1..n BY DEF n
<1>2. m \in Nat /\ DOMAIN q = 1..m BY DEF m
<1>3. DOMAIN t = 1..n - 1 /\ \A k \in 1..n - 1 : t[k] = c[k + 1] BY <1>1
<1>4. 1 \in DOMAIN c /\ c[1] \in Submitted /\ \A k \in DOMAIN c : c[k] \in Submitted BY <1>1
<1>5. \A e \in Submitted, w \in Outcomes : Posted(e, w) \in Completed BY DEF Posted, Submitted, Completed
<1>6. "canceled" \in Outcomes BY DEF Outcomes
<1>7. h \in Seq(Completed) /\ Len(h) = m + 1
  <2>1. Posted(c[1], v) \in Completed BY <1>4, <1>5
  <2> QED BY <2>1 DEF m
<1>8. \A k \in 1..m + 1 : h[k] = IF k = m + 1 THEN Posted(c[1], v) ELSE q[k]
  <2>1. Posted(c[1], v) \in Completed BY <1>4, <1>5
  <2> QED BY <2>1 DEF m
<1>9. DOMAIN u = 1..n - 1 /\ \A k \in 1..n - 1 : u[k] = Posted(c[k + 1], "canceled") BY <1>3
<1>10. u \in Seq(Completed) /\ Len(u) = n - 1
  <2>1. \A k \in 1..n - 1 : u[k] \in Completed
    <3>1. \A k \in 1..n - 1 : k + 1 \in DOMAIN c BY <1>1
    <3> HIDE DEF u, t
    <3> QED BY <1>4, <1>5, <1>6, <1>9, <3>1, Zenon
  <2>2. u \in [1..n - 1 -> Completed] /\ n - 1 \in Nat
    <3>1. u = [k \in 1..n - 1 |-> u[k]] BY <1>9
    <3> HIDE DEF u
    <3> QED BY <1>1, <2>1, <3>1
  <2> HIDE DEF u, n
  <2> QED BY <2>2
<1>11. a \in Seq(Completed) /\ Len(a) = n /\ \A k \in 1..n : a[k] = Posted(c[k], IF k = 1 THEN v ELSE "canceled")
  <2>1. a = [k \in 1..n |-> a[k]] /\ DOMAIN a = 1..n BY <1>1 DEF All
  <2>2. \A k \in 1..n : a[k] = Posted(c[k], IF k = 1 THEN v ELSE "canceled") BY <1>1 DEF All
  <2>3. \A k \in 1..n : a[k] \in Completed
    <3> HIDE DEF a
    <3> QED BY <1>1, <1>4, <1>5, <1>6, <2>2, Zenon
  <2> HIDE DEF a, n
  <2>4. a \in [1..n -> Completed] BY <2>1, <2>3
  <2> QED BY <1>1, <2>2, <2>4
<1> HIDE DEF t, n, h, u, a
<1>12. h \o u \in Seq(Completed) /\ Len(h \o u) = m + n /\ \A k \in 1..m + n : (h \o u)[k] = IF k <= m + 1 THEN h[k] ELSE u[k - (m + 1)]
  <2> HIDE DEF m
  <2>1. h \o u \in Seq(Completed) /\ Len(h \o u) = Len(h) + Len(u) BY <1>7, <1>10
  <2>2. \A k \in 1..Len(h) + Len(u) : (h \o u)[k] = IF k <= Len(h) THEN h[k] ELSE u[k - Len(h)]
    <3>1. h \in Seq(Completed) /\ u \in Seq(Completed) BY <1>7, <1>10, Zenon
    <3> QED BY <3>1
  <2>3. Len(h) + Len(u) = m + n BY <1>1, <1>2, <1>7, <1>10
  <2> QED BY <1>7, <2>1, <2>2, <2>3
<1>13. q \o a \in Seq(Completed) /\ Len(q \o a) = m + n /\ \A k \in 1..m + n : (q \o a)[k] = IF k <= m THEN q[k] ELSE a[k - m]
  BY <1>1, <1>2, <1>11, SMTT(30)
<1> HIDE DEF m
<1>14. ASSUME NEW k \in 1..m + n PROVE (h \o u)[k] = (q \o a)[k]
  <2>1. CASE k <= m BY <1>1, <1>2, <1>8, <1>12, <1>13, <2>1
  <2>2. CASE k = m + 1
    <3>1. (h \o u)[k] = Posted(c[1], v) BY <1>1, <1>2, <1>8, <1>12, <2>2, SMTT(30)
    <3>2. (q \o a)[k] = a[1] BY <1>1, <1>2, <1>13, <2>2
    <3>3. a[1] = Posted(c[1], v) BY <1>1, <1>11
    <3> QED BY <3>1, <3>2, <3>3, Zenon
  <2>3. CASE k > m + 1
    <3> DEFINE j == k - (m + 1)
    <3>1. j \in 1..n - 1 /\ k - m = j + 1 /\ j + 1 \in 1..n /\ j + 1 # 1 /\ ~(k <= m + 1) /\ ~(k <= m) BY <1>1, <1>2, <2>3
    <3>2. (h \o u)[k] = u[j] BY <1>12, <3>1
    <3>3. u[j] = Posted(c[j + 1], "canceled") BY <1>9, <3>1, Zenon
    <3>4. (q \o a)[k] = a[j + 1] BY <1>13, <3>1
    <3>5. a[j + 1] = Posted(c[j + 1], "canceled") BY <1>11, <3>1, Zenon
    <3> QED BY <3>2, <3>3, <3>4, <3>5, Zenon
  <2>4. k <= m \/ k = m + 1 \/ k > m + 1 BY <1>1, <1>2
  <2> QED BY <2>1, <2>2, <2>3, <2>4, Zenon
<1>15. h \o u = q \o a
  <2> DEFINE s == h \o u  z == q \o a
  <2>1. s \in Seq(Completed) /\ z \in Seq(Completed) /\ Len(s) = Len(z) /\ \A k \in 1..Len(s) : s[k] = z[k]
    BY <1>12, <1>13, <1>14, Zenon
  <2> HIDE DEF s, z
  <2>2. s = z BY <2>1
  <2> QED BY <2>2, Zenon DEF s, z
<1> QED BY <1>15, Zenon DEF h, u, a, t

\* The kernel executes a request of the group.
LEMMA SharedRan ==
  ASSUME NEW s, NEW C, NEW q, NEW o, NEW r, Shared(s, C, q, o, r), NEW i \in Group,
         o # "none" => /\ \A m \in DOMAIN r : r[m] < i
                       /\ \A j \in Group : Within(C, j, Itself) => i < j
                       /\ \A k \in DOMAIN s : ~Mine(s[k])
  PROVE  Shared(s, C, q, o, Append(r, i))
<1> DEFINE a == Append(r, i)
<1>1. Queued(s, o) /\ Chained(C, o) /\ Apart(s, C, q) /\ History(s, C, o, r) /\ q \in Seq(Completed) /\ Distinct(q)
  BY Zenon DEF Shared
<1>2. r \in Seq(Group) BY <1>1, Zenon DEF History
<1>3. /\ a \in Seq(Group) /\ DOMAIN r = 1..Len(r) /\ Len(r) \in Nat /\ DOMAIN a = 1..Len(r) + 1
      /\ a[Len(r) + 1] = i /\ \A k \in DOMAIN r : a[k] = r[k]
  BY <1>2
<1> HIDE DEF a
<1>4. \A k \in DOMAIN a : (k \in DOMAIN r /\ a[k] = r[k]) \/ (k = Len(r) + 1 /\ a[k] = i) BY <1>3
<1>5. ASSUME o # "none", NEW k \in DOMAIN a, NEW l \in DOMAIN a, k < l PROVE a[k] < a[l]
  <2>1. k \in DOMAIN r /\ a[k] = r[k] BY <1>3, <1>5
  <2>2. CASE l \in DOMAIN r /\ a[l] = r[l] BY <1>1, <1>5, <2>1, <2>2, Zenon DEF History
  <2>3. CASE a[l] = i BY <1>5, <2>1, <2>3, Zenon
  <2> QED BY <1>4, <2>2, <2>3, Zenon
<1>6. ASSUME o # "none", NEW k \in DOMAIN a, NEW j \in Group, Within(C, j, Itself) PROVE a[k] < j
  BY <1>1, <1>4, <1>6, Zenon DEF History
<1>7. History(s, C, o, a) BY <1>3, <1>5, <1>6, Zenon DEF History
<1> QED BY <1>1, <1>7, Zenon DEF Shared, a

\* What was executed before the head of a chain, and what the kernel has after it.
LEMMA HeadOrder ==
  ASSUME NEW s, NEW C, NEW q, NEW o, NEW r, Shared(s, C, q, o, r), NEW c \in C, Mine(c[1]), o # "none",
         NEW D, \A i, x : Within(D, i, x) => Within(C, i, x) /\ ~(c[1].op = i /\ c[1].cancel = x)
  PROVE  /\ \A m \in DOMAIN r : r[m] < c[1].op
         /\ \A j \in Group : Within(D, j, Itself) => c[1].op < j
         /\ \A k \in DOMAIN s : ~Mine(s[k])
<1>1. Chained(C, o) /\ History(s, C, o, r) BY Zenon DEF Shared
<1>2. c[1].op \in Group /\ c[1].cancel = Itself BY Zenon DEF Mine
<1>3. 1 \in DOMAIN c
  <2>1. c \in Seq(Submitted) /\ c # <<>> BY <1>1, Zenon DEF Chained, ChainOk
  <2> QED BY <2>1
<1>4. Within(C, c[1].op, Itself) BY <1>2, <1>3, Zenon DEF Within, On
<1>5. \A m \in DOMAIN r : r[m] < c[1].op BY <1>1, <1>2, <1>4, Zenon DEF History
<1>6. \A k \in DOMAIN s : ~Mine(s[k]) BY <1>1, <1>2, <1>4, Zenon DEF History
<1>7. ASSUME NEW j \in Group, Within(D, j, Itself) PROVE c[1].op < j
  <2>1. Within(C, j, Itself) /\ c[1].op # j BY <1>2, <1>7, Zenon
  <2>2. PICK d \in C : On(d, j, Itself) BY <2>1, Zenon DEF Within
  <2>3. PICK k \in DOMAIN d : d[k].op = j /\ d[k].cancel = Itself BY <2>2, Zenon DEF On
  <2>4. Mine(d[k]) BY <1>7, <2>3, Zenon DEF Mine
  <2>5. c[1].op <= j BY <1>1, <2>3, <2>4, Zenon DEF Chained
  <2> QED BY <1>2, <2>1, <2>5, Fits DEF Group
<1> QED BY <1>5, <1>6, <1>7, Zenon

\* The completion of the head of a chain: the kernel drops the chain or goes on with it.
LEMMA SharedHead ==
  ASSUME NEW s, NEW C, NEW q, NEW o, NEW r, Shared(s, C, q, o, r), NEW c \in C, NEW v \in Outcomes,
         NEW D, D = C \ {c} \/ (D = (C \ {c}) \cup {Tail(c)} /\ Len(c) # 1)
  PROVE  /\ Shared(s, D, q \o One(c, v), o, r)
         /\ \A i, x : Owed(s, D, q \o One(c, v), i, x) => Owed(s, C, q, i, x)
         /\ \A i, x : Within(D, i, x) => Within(C, i, x) /\ ~(c[1].op = i /\ c[1].cancel = x)
<1>1. Chained(C, o) BY Zenon DEF Shared
<1>2. c \in Seq(Submitted) /\ c # <<>> BY <1>1, Zenon DEF Chained, ChainOk
<1>3. 1 \in DOMAIN c BY <1>2
<1>4. On(c, c[1].op, c[1].cancel) BY <1>3, Zenon DEF On
<1>5. Within(C, c[1].op, c[1].cancel) BY <1>4, Zenon DEF Within
<1>6. Chained(D, o) /\ \A i, x : Within(D, i, x) => Within(C, i, x) /\ ~(c[1].op = i /\ c[1].cancel = x)
  <2>1. CASE D = C \ {c}
    <3>1. Chained(D, o) /\ \A i, x : Within(D, i, x) => Within(C, i, x) /\ ~On(c, i, x) BY <1>1, <2>1, Removed, Zenon
    <3> QED BY <1>4, <3>1, Zenon
  <2>2. CASE D = (C \ {c}) \cup {Tail(c)} /\ Len(c) # 1 BY <1>1, <2>2, Advanced, Zenon
  <2> QED BY <2>1, <2>2, Zenon
<1> DEFINE P == One(c, v)
<1>7. P \in Seq(Completed) /\ Distinct(P) /\ \A i, x : On(P, i, x) <=> c[1].op = i /\ c[1].cancel = x
  BY <1>2, PostOne, Zenon
<1> HIDE DEF P
<1>8. \A i, x : On(P, i, x) => Within(C, i, x) /\ ~Within(D, i, x) BY <1>5, <1>6, <1>7, Zenon
<1>9. /\ Shared(s, D, q \o P, o, r)
      /\ \A i, x : Owed(s, D, q \o P, i, x) => Owed(s, C, q, i, x)
  BY <1>6, <1>7, <1>8, SharedPost
<1> QED BY <1>6, <1>9, Zenon DEF P

\* The kernel drops a chain and cancels what is left of it.
LEMMA SharedBroken ==
  ASSUME NEW s, NEW C, NEW q, NEW o, NEW r, Shared(s, C, q, o, r), NEW c \in C, NEW v \in Outcomes
  PROVE  /\ Shared(s, C \ {c}, q \o All(c, v), o, r)
         /\ \A i, x : Owed(s, C \ {c}, q \o All(c, v), i, x) => Owed(s, C, q, i, x)
<1> DEFINE D == C \ {c}
           P == All(c, v)
<1>1. Chained(C, o) BY Zenon DEF Shared
<1>2. c \in Seq(Submitted) /\ Distinct(c)
  <2>1. ChainOk(c, o) /\ Alien(c, c) BY <1>1, Zenon DEF Chained
  <2>2. c \in Seq(Submitted) BY <2>1, Zenon DEF ChainOk
  <2>3. Distinct(c) BY <2>1, Zenon DEF Alien, Distinct
  <2> QED BY <2>2, <2>3, Zenon
<1>3. Chained(D, o) /\ \A i, x : Within(D, i, x) => Within(C, i, x) /\ ~On(c, i, x) BY <1>1, Removed, Zenon
<1>4. P \in Seq(Completed) /\ Distinct(P) /\ \A i, x : On(P, i, x) <=> On(c, i, x) BY <1>2, PostAll, Zenon
<1> HIDE DEF P, D
<1>5. \A i, x : On(P, i, x) => Within(C, i, x) /\ ~Within(D, i, x) BY <1>3, <1>4, Zenon DEF Within
<1>6. /\ Shared(s, D, q \o P, o, r)
      /\ \A i, x : Owed(s, D, q \o P, i, x) => Owed(s, C, q, i, x)
  BY <1>3, <1>4, <1>5, SharedPost
<1> QED BY <1>6, Zenon DEF P, D
-----------------------------------------------------------------------------
\* A completion of request i with one of the results V waits to be handled.
Says(q, i, V) == \E k \in DOMAIN q : q[k].op = i /\ q[k].cancel = Itself /\ q[k].res \in V

Poor == {"fail", "canceled"}
Dead == {"canceled"}

\* Request i has, or is about to get, one of the results V.
Gets(f, q, i, V) == f[i] \in V \/ Says(q, i, V)

\* Behind a failure in a soft chain there is a cancellation.
Severed(f, q, o) == o = "soft" => \A i \in Group : i # Size /\ Gets(f, q, i, Poor) => Gets(f, q, i + 1, Dead)

\* The flags of request i say what the ring still owes it.
Tracked(n, s, C, q, i) ==
  /\ Owed(s, C, q, i, Itself) => n.in /\ ~n.done
  /\ Owed(s, C, q, i, ItsCancel) => n.canceling
  /\ n.canceling => n.sent
  /\ n.done => n.canceling
  /\ n.sent => n.in

InFlight(n) == {i \in Group : n[i].in}

Awaited(n, p, ph) == p = Cardinality(InFlight(n)) /\ (ph # "joining" => InFlight(n) = {})

\* A request has its result when its own completion has been handled.
Reported(f, n, s, C, q, ph) ==
  /\ f \in [Group -> Outcomes \cup {"unset"}]
  /\ \A i \in Group : Owed(s, C, q, i, Itself) => f[i] = "unset"
  /\ ph # "idle" => \A i \in Group : f[i] = "unset" => n[i].in /\ ~n[i].done
  /\ ph = "idle" => \A i \in Group : f[i] = "unset"

Phases == {"idle", "joining", "ready"}

GroupInv ==
  /\ order \in Orders /\ phase \in Phases /\ node \in [Nodes -> Flags]
  /\ Shared(sq, chains, cq, order, ran)
  /\ \A i \in Nodes : Tracked(node[i], sq, chains, cq, i)
  /\ Awaited(node, pending, phase)
  /\ phase = "idle" => ran = <<>>
  /\ Reported(results, node, sq, chains, cq, phase)
  /\ Severed(results, cq, order)

LEMMA SaysConcat ==
  ASSUME NEW q \in Seq(Completed), NEW P \in Seq(Completed)
  PROVE  \A i, V : Says(q \o P, i, V) <=> Says(q, i, V) \/ Says(P, i, V)
<1> DEFINE a == q \o P
           n == Len(q)
           m == Len(P)
<1>1. n \in Nat /\ m \in Nat /\ DOMAIN q = 1..n /\ DOMAIN P = 1..m OBVIOUS
<1>2. DOMAIN a = 1..n + m /\ \A k \in 1..n + m : a[k] = IF k <= n THEN q[k] ELSE P[k - n] OBVIOUS
<1> HIDE DEF a, n, m
<1>3. \A k \in DOMAIN a : (\E l \in DOMAIN q : a[k] = q[l]) \/ (\E l \in DOMAIN P : a[k] = P[l])
  <2> TAKE k \in DOMAIN a
  <2>1. CASE k <= n
    <3>1. k \in DOMAIN q /\ a[k] = q[k] BY <1>1, <1>2, <2>1
    <3> QED BY <3>1, Zenon
  <2>2. CASE ~(k <= n)
    <3>1. k - n \in DOMAIN P /\ a[k] = P[k - n] BY <1>1, <1>2, <2>2
    <3> QED BY <3>1, Zenon
  <2> QED BY <2>1, <2>2, Zenon
<1>4. \A l \in DOMAIN q : \E k \in DOMAIN a : a[k] = q[l]
  <2>1. \A l \in DOMAIN q : l \in DOMAIN a /\ a[l] = q[l] BY <1>1, <1>2
  <2> QED BY <2>1, Zenon
<1>5. \A l \in DOMAIN P : \E k \in DOMAIN a : a[k] = P[l]
  <2> TAKE l \in DOMAIN P
  <2> DEFINE j == l + n
  <2>1. j \in 1..n + m /\ ~(j <= n) /\ j - n = l BY <1>1
  <2> HIDE DEF j
  <2>2. j \in DOMAIN a /\ a[j] = P[l] BY <1>2, <2>1
  <2> QED BY <2>2, Zenon
<1>6. ASSUME NEW i, NEW V PROVE Says(a, i, V) <=> Says(q, i, V) \/ Says(P, i, V)
  <2> DEFINE Ok(e) == e.op = i /\ e.cancel = Itself /\ e.res \in V
  <2>1. Says(a, i, V) <=> \E k \in DOMAIN a : Ok(a[k]) BY Zenon DEF Says
  <2>2. Says(q, i, V) <=> \E k \in DOMAIN q : Ok(q[k]) BY Zenon DEF Says
  <2>3. Says(P, i, V) <=> \E k \in DOMAIN P : Ok(P[k]) BY Zenon DEF Says
  <2> HIDE DEF Ok
  <2>4. (\E k \in DOMAIN q : Ok(q[k])) => \E k \in DOMAIN a : Ok(a[k]) BY <1>4, Zenon
  <2>5. (\E k \in DOMAIN P : Ok(P[k])) => \E k \in DOMAIN a : Ok(a[k]) BY <1>5, Zenon
  <2>6. (\E k \in DOMAIN a : Ok(a[k])) => (\E k \in DOMAIN q : Ok(q[k])) \/ \E k \in DOMAIN P : Ok(P[k]) BY <1>3, Zenon
  <2> QED BY <2>1, <2>2, <2>3, <2>4, <2>5, <2>6, Zenon
<1> QED BY <1>6, Zenon DEF a

LEMMA SaysTail ==
  ASSUME NEW q \in Seq(Completed), q # <<>>
  PROVE  \A i, V : Says(q, i, V) <=>
           Says(Tail(q), i, V) \/ (q[1].op = i /\ q[1].cancel = Itself /\ q[1].res \in V)
<1> DEFINE t == Tail(q)
           n == Len(q)
<1>1. n \in Nat /\ n # 0 /\ DOMAIN q = 1..n OBVIOUS
<1>2. DOMAIN t = 1..n - 1 /\ \A k \in 1..n - 1 : t[k] = q[k + 1] BY <1>1
<1> HIDE DEF t, n
<1>3. 1 \in DOMAIN q BY <1>1
<1>4. \A k \in DOMAIN t : \E l \in DOMAIN q : t[k] = q[l]
  <2> TAKE k \in DOMAIN t
  <2>1. k + 1 \in DOMAIN q /\ t[k] = q[k + 1] BY <1>1, <1>2
  <2> QED BY <2>1, Zenon
<1>5. \A l \in DOMAIN q : l # 1 => \E k \in DOMAIN t : q[l] = t[k]
  <2> SUFFICES ASSUME NEW l \in DOMAIN q, l # 1 PROVE \E k \in DOMAIN t : q[l] = t[k] BY Zenon
  <2>1. l - 1 \in DOMAIN t /\ l - 1 + 1 = l BY <1>1, <1>2
  <2>2. t[l - 1] = q[l] BY <1>2, <2>1
  <2> QED BY <2>1, <2>2, Zenon
<1>6. \A i, V : Says(q, i, V) <=> Says(t, i, V) \/ (q[1].op = i /\ q[1].cancel = Itself /\ q[1].res \in V)
  BY <1>3, <1>4, <1>5, ZenonT(40) DEF Says
<1> QED BY <1>6, Zenon DEF t

LEMMA SaysOn ==
  ASSUME NEW q, NEW i, NEW V, Says(q, i, V)
  PROVE  On(q, i, Itself)
BY Zenon DEF Says, On

LEMMA SeveredMore ==
  ASSUME NEW f, NEW q \in Seq(Completed), NEW o, Severed(f, q, o), NEW P \in Seq(Completed),
         o = "soft" => \A i \in Group : i # Size /\ Says(P, i, Poor) => Says(P, i + 1, Dead)
  PROVE  Severed(f, q \o P, o)
<1> SUFFICES ASSUME o = "soft", NEW i \in Group, i # Size, Gets(f, q \o P, i, Poor)
             PROVE  Gets(f, q \o P, i + 1, Dead)
  BY Zenon DEF Severed
<1>1. \A j, V : Says(q \o P, j, V) <=> Says(q, j, V) \/ Says(P, j, V) BY SaysConcat, Zenon
<1>2. Gets(f, q, i, Poor) \/ Says(P, i, Poor) BY <1>1, Zenon DEF Gets
<1>3. Gets(f, q, i + 1, Dead) \/ Says(P, i + 1, Dead) BY <1>2, Zenon DEF Severed
<1> QED BY <1>1, <1>3, Zenon DEF Gets

\* Steps that leave the coroutine and its nodes alone.
LEMMA Behind ==
  ASSUME GroupInv, UNCHANGED <<order, phase, node, pending, results>>, Shared(sq', chains', cq', order, ran'),
         \A i, x : Owed(sq', chains', cq', i, x) => Owed(sq, chains, cq, i, x),
         Severed(results, cq', order), phase = "idle" => ran' = <<>>
  PROVE  GroupInv'
<1>1. order' = order /\ phase' = phase /\ node' = node /\ pending' = pending /\ results' = results OBVIOUS
<1>2. \A i \in Nodes : Tracked(node[i], sq', chains', cq', i) BY Zenon DEF GroupInv, Tracked
<1>3. Reported(results, node, sq', chains', cq', phase) BY Zenon DEF GroupInv, Reported
<1>4. /\ order \in Orders /\ phase \in Phases /\ node \in [Nodes -> Flags] /\ Awaited(node, pending, phase)
  BY Zenon DEF GroupInv
<1>5. /\ order' \in Orders /\ phase' \in Phases /\ node' \in [Nodes -> Flags] /\ Awaited(node', pending', phase')
  BY <1>1, <1>4
<1>6. \A i \in Nodes : Tracked(node'[i], sq', chains', cq', i) BY <1>1, <1>2
<1>7. Reported(results', node', sq', chains', cq', phase') BY <1>1, <1>3
<1>8. Shared(sq', chains', cq', order', ran') /\ Severed(results', cq', order') BY <1>1
<1>9. phase' = "idle" => ran' = <<>> BY <1>1
<1> QED BY <1>5, <1>6, <1>7, <1>8, <1>9, Zenon DEF GroupInv

\* Nothing of the group is owed unless the coroutine waits for it.
LEMMA OwedJoining ==
  ASSUME GroupInv, NEW i \in Group, NEW x \in {Itself, ItsCancel}, Owed(sq, chains, cq, i, x)
  PROVE  phase = "joining" /\ node[i].in
<1>1. i \in Nodes BY Fits DEF Group, Nodes
<1>2. Tracked(node[i], sq, chains, cq, i) /\ Awaited(node, pending, phase) BY <1>1, Zenon DEF GroupInv
<1>3. CASE x = Itself
  <2>1. node[i].in BY <1>2, <1>3 DEF Tracked
  <2> QED BY <1>2, <2>1 DEF Awaited, InFlight
<1>4. CASE x = ItsCancel
  <2>1. node[i].in BY <1>2, <1>4 DEF Tracked
  <2> QED BY <1>2, <2>1 DEF Awaited, InFlight
<1> QED BY <1>3, <1>4

LEMMA ChainHead ==
  ASSUME GroupInv, NEW c \in chains
  PROVE  /\ c \in Seq(Submitted) /\ c # <<>> /\ 1 \in DOMAIN c /\ Head(c) = c[1] /\ c[1] \in Submitted
         /\ Distinct(c) /\ Linked(c, order) /\ cq \in Seq(Completed)
         /\ Owed(sq, chains, cq, c[1].op, c[1].cancel)
<1>1. Shared(sq, chains, cq, order, ran) BY Zenon DEF GroupInv
<1>2. Chained(chains, order) /\ cq \in Seq(Completed) BY <1>1, Zenon DEF Shared
<1>3. ChainOk(c, order) /\ Alien(c, c) BY <1>2, Zenon DEF Chained
<1>4. c \in Seq(Submitted) /\ c # <<>> /\ Linked(c, order) BY <1>3, Zenon DEF ChainOk
<1>5. 1 \in DOMAIN c /\ Head(c) = c[1] BY <1>4
<1>6. c[1] \in Submitted BY <1>4, <1>5
<1>7. Distinct(c) BY <1>3, Zenon DEF Alien, Distinct
<1>8. On(c, c[1].op, c[1].cancel) BY <1>5, Zenon DEF On
<1>9. Owed(sq, chains, cq, c[1].op, c[1].cancel) BY <1>8, Zenon DEF Owed, Within
<1> QED BY <1>2, <1>4, <1>5, <1>6, <1>7, <1>9, Zenon

LEMMA AppendOne ==
  ASSUME NEW q \in Seq(Completed), NEW c \in Seq(Submitted), c # <<>>, NEW v \in Outcomes
  PROVE  Append(q, Posted(c[1], v)) = q \o One(c, v)
<1> DEFINE p == Posted(c[1], v)
<1>1. 1 \in DOMAIN c OBVIOUS
<1>4. c[1] \in Submitted BY <1>1
<1>2. p \in Completed BY <1>4 DEF Posted, Submitted, Completed
<1> HIDE DEF p
<1>3. Append(q, p) = q \o <<p>> BY <1>2
<1> QED BY <1>3, Zenon DEF One, p

LEMMA GroupKill ==
  ASSUME GroupInv, NEW c \in chains, Kill(c)
  PROVE  GroupInv'
<1> DEFINE P == One(c, "ok")
<1>1. /\ c \in Seq(Submitted) /\ c # <<>> /\ 1 \in DOMAIN c /\ Head(c) = c[1] /\ c[1] \in Submitted
      /\ cq \in Seq(Completed)
  BY ChainHead, Zenon
<1>2. Shared(sq, chains, cq, order, ran) BY Zenon DEF GroupInv
<1>3. c[1].cancel /\ chains' = chains \ {c} /\ cq' = Append(cq, Posted(c[1], "ok")) BY <1>1 DEF Kill
<1>4. "ok" \in Outcomes BY DEF Outcomes
<1>5. cq' = cq \o P BY <1>1, <1>3, <1>4, AppendOne
<1>6. P \in Seq(Completed) /\ DOMAIN P = {1} /\ P[1] = Posted(c[1], "ok") BY <1>1, <1>4, PostOne
<1>7. /\ Shared(sq, chains', cq', order, ran)
      /\ \A i, x : Owed(sq, chains', cq', i, x) => Owed(sq, chains, cq, i, x)
  <2> HIDE DEF P
  <2>1. /\ Shared(sq, chains', cq \o One(c, "ok"), order, ran)
        /\ \A i, x : Owed(sq, chains', cq \o One(c, "ok"), i, x) => Owed(sq, chains, cq, i, x)
    BY <1>2, <1>3, <1>4, SharedHead
  <2> QED BY <1>5, <2>1 DEF P
<1> HIDE DEF P
<1>8. \A i, V : ~Says(P, i, V)
  <2>1. P[1].cancel # Itself BY <1>1, <1>3, <1>6 DEF Posted, Itself, Submitted
  <2> QED BY <1>6, <2>1, Zenon DEF Says
<1>9. Severed(results, cq', order)
  <2>1. Severed(results, cq, order) BY Zenon DEF GroupInv
  <2>2. Severed(results, cq \o P, order) BY <1>1, <1>6, <1>8, <2>1, SeveredMore, Zenon
  <2> QED BY <1>5, <2>2
<1>10. UNCHANGED <<sq, order, phase, node, pending, results, ran>> BY DEF Kill
<1>11. Shared(sq', chains', cq', order, ran') /\ \A i, x : Owed(sq', chains', cq', i, x) => Owed(sq, chains, cq, i, x)
  BY <1>7, <1>10
<1>12. phase = "idle" => ran' = <<>> BY <1>10 DEF GroupInv
<1> QED BY <1>9, <1>10, <1>11, <1>12, Behind

\* What a chain leaves behind when its head has run.
Left(c, D, Q) ==
  /\ Shared(sq, D, Q, order, ran) /\ Severed(results, Q, order)
  /\ \A i, x : Owed(sq, D, Q, i, x) => Owed(sq, chains, cq, i, x)
  /\ \A i, x : Within(D, i, x) => Within(chains, i, x) /\ ~(c[1].op = i /\ c[1].cancel = x)

LEMMA RunOn ==
  ASSUME GroupInv, NEW c \in chains, NEW v \in Outcomes, ~(order = "soft" /\ v # "ok"),
         NEW D, D = chains \ {c} \/ (D = (chains \ {c}) \cup {Tail(c)} /\ Len(c) # 1)
  PROVE  Left(c, D, cq \o One(c, v))
<1> DEFINE P == One(c, v)
<1>1. /\ c \in Seq(Submitted) /\ c # <<>> /\ 1 \in DOMAIN c /\ c[1] \in Submitted /\ cq \in Seq(Completed)
  BY ChainHead, Zenon
<1>2. Shared(sq, chains, cq, order, ran) /\ Severed(results, cq, order) BY Zenon DEF GroupInv
<1>3. /\ Shared(sq, D, cq \o P, order, ran)
      /\ \A i, x : Owed(sq, D, cq \o P, i, x) => Owed(sq, chains, cq, i, x)
      /\ \A i, x : Within(D, i, x) => Within(chains, i, x) /\ ~(c[1].op = i /\ c[1].cancel = x)
  BY <1>2, SharedHead, Zenon
<1>4. P \in Seq(Completed) /\ DOMAIN P = {1} /\ P[1] = Posted(c[1], v) BY <1>1, PostOne
<1> HIDE DEF P
<1>5. order = "soft" => \A i : ~Says(P, i, Poor)
  <2>1. order = "soft" => P[1].res = "ok" BY <1>4 DEF Posted
  <2>2. order = "soft" => P[1].res \notin Poor BY <2>1 DEF Poor
  <2> QED BY <1>4, <2>2, Zenon DEF Says
<1>6. Severed(results, cq \o P, order) BY <1>1, <1>2, <1>4, <1>5, SeveredMore, Zenon
<1> QED BY <1>3, <1>6, Zenon DEF Left, P

LEMMA RunBroken ==
  ASSUME GroupInv, NEW c \in chains, NEW v \in Outcomes, order = "soft"
  PROVE  Left(c, chains \ {c}, cq \o All(c, v))
<1> DEFINE P == All(c, v)
           D == chains \ {c}
<1>1. /\ c \in Seq(Submitted) /\ c # <<>> /\ 1 \in DOMAIN c /\ c[1] \in Submitted /\ cq \in Seq(Completed)
      /\ Distinct(c) /\ Linked(c, order)
  BY ChainHead, Zenon
<1>2. Shared(sq, chains, cq, order, ran) /\ Severed(results, cq, order) BY Zenon DEF GroupInv
<1>3. /\ Shared(sq, D, cq \o P, order, ran)
      /\ \A i, x : Owed(sq, D, cq \o P, i, x) => Owed(sq, chains, cq, i, x)
  BY <1>2, SharedBroken
<1>4. \A i, x : Within(D, i, x) => Within(chains, i, x) /\ ~(c[1].op = i /\ c[1].cancel = x)
  <2>1. Chained(chains, order) BY <1>2, Zenon DEF Shared
  <2>2. \A i, x : Within(D, i, x) => Within(chains, i, x) /\ ~On(c, i, x) BY <2>1, Removed, Zenon
  <2>3. On(c, c[1].op, c[1].cancel) BY <1>1, Zenon DEF On
  <2> QED BY <2>2, <2>3, Zenon
<1>5. /\ P \in Seq(Completed) /\ DOMAIN P = DOMAIN c
      /\ \A k \in DOMAIN c : P[k] = Posted(c[k], IF k = 1 THEN v ELSE "canceled")
  BY <1>1, PostAll, Zenon
<1>6. \A k \in DOMAIN c : k # 1 => P[k].res = "canceled" BY <1>5 DEF Posted
<1>7. \A k \in DOMAIN c : P[k].op = c[k].op /\ P[k].cancel = c[k].cancel BY <1>5 DEF Posted
<1> HIDE DEF P, D
<1>8. ASSUME NEW i \in Group, i # Size, Says(P, i, Poor) PROVE Says(P, i + 1, Dead)
  <2>1. PICK k \in DOMAIN c : c[k].op = i /\ c[k].cancel = Itself BY <1>5, <1>7, <1>8, Zenon DEF Says
  <2>2. Mine(c[k]) BY <2>1, Zenon DEF Mine
  <2>3. c[k].link
    <3>1. order # "none" OBVIOUS
    <3> QED BY <1>1, <1>8, <2>1, <2>2, <3>1, Zenon DEF Linked
  <2>4. k + 1 \in DOMAIN c /\ Mine(c[k + 1]) /\ c[k + 1].op = c[k].op + 1 BY <1>1, <2>3, Zenon DEF Linked
  <2>5. k + 1 # 1 BY <1>1, <2>1
  <2>6. P[k + 1].op = i + 1 /\ P[k + 1].cancel = Itself BY <1>7, <2>1, <2>4, Zenon DEF Mine
  <2>7. P[k + 1].res \in Dead
    <3>1. P[k + 1].res = "canceled" BY <1>6, <2>4, <2>5, Zenon
    <3> QED BY <3>1 DEF Dead
  <2> QED BY <1>5, <2>4, <2>6, <2>7, Zenon DEF Says
<1>9. Severed(results, cq \o P, order) BY <1>1, <1>2, <1>5, <1>8, SeveredMore, Zenon
<1> QED BY <1>3, <1>4, <1>9, Zenon DEF Left, P, D

LEMMA GroupRun ==
  ASSUME GroupInv, NEW c \in chains, NEW v \in Outcomes, Run(c, v)
  PROVE  GroupInv'
<1>1. /\ c \in Seq(Submitted) /\ c # <<>> /\ 1 \in DOMAIN c /\ Head(c) = c[1] /\ c[1] \in Submitted
      /\ cq \in Seq(Completed) /\ Owed(sq, chains, cq, c[1].op, c[1].cancel)
  BY ChainHead, Zenon
<1>2. UNCHANGED <<sq, order, phase, node, pending, results>> BY DEF Run
<1>3. Left(c, chains', cq')
  <2>1. CASE order = "soft" /\ v # "ok"
    <3>1. chains' = chains \ {c} BY <1>1, <2>1 DEF Run
    <3>2. cq' = Append(cq, Posted(c[1], v)) \o [i \in DOMAIN Tail(c) |-> Posted(Tail(c)[i], "canceled")]
      BY <1>1, <2>1, Zenon DEF Run
    <3>3. cq' = cq \o All(c, v) BY <1>1, <3>2, PostBroken, Zenon
    <3>4. Left(c, chains \ {c}, cq \o All(c, v)) BY <2>1, RunBroken, Zenon
    <3> QED BY <3>1, <3>3, <3>4
  <2>2. CASE ~(order = "soft" /\ v # "ok")
    <3>1. chains' = chains \ {c} \/ (chains' = (chains \ {c}) \cup {Tail(c)} /\ Len(c) # 1)
      <4>1. chains' = (chains \ {c}) \cup (IF Len(c) = 1 THEN {} ELSE {Tail(c)}) BY <1>1, <2>2, Zenon DEF Run
      <4>2. CASE Len(c) = 1
        <5>1. chains' = (chains \ {c}) \cup {} BY <4>1, <4>2, Zenon
        <5> QED BY <5>1, Zenon
      <4>3. CASE Len(c) # 1 BY <4>1, <4>3, Zenon
      <4> QED BY <4>2, <4>3, Zenon
    <3>2. cq' = Append(cq, Posted(c[1], v)) \o <<>> BY <1>1, <2>2, Zenon DEF Run
    <3>3. cq' = cq \o One(c, v)
      <4> DEFINE P == One(c, v)
      <4>1. P \in Seq(Completed) BY <1>1, PostOne, Zenon
      <4>2. Append(cq, Posted(c[1], v)) = cq \o P BY <1>1, AppendOne, Zenon
      <4> HIDE DEF P
      <4>3. cq' = (cq \o P) \o <<>> BY <3>2, <4>2, Zenon
      <4>4. (cq \o P) \in Seq(Completed) BY <1>1, <4>1
      <4>5. cq' = cq \o P BY <4>3, <4>4
      <4> QED BY <4>5 DEF P
    <3>4. Left(c, chains', cq \o One(c, v)) BY <2>2, <3>1, RunOn, Zenon
    <3> QED BY <3>3, <3>4
  <2> QED BY <2>1, <2>2, Zenon
<1>4. /\ Shared(sq, chains', cq', order, ran) /\ Severed(results, cq', order)
      /\ \A i, x : Owed(sq, chains', cq', i, x) => Owed(sq, chains, cq, i, x)
      /\ \A i, x : Within(chains', i, x) => Within(chains, i, x) /\ ~(c[1].op = i /\ c[1].cancel = x)
  BY <1>3, Zenon DEF Left
<1>5. c[1].cancel = Itself BY <1>1 DEF Run, Itself, Submitted
<1>6. CASE ran' = ran
  <2>1. Shared(sq', chains', cq', order, ran') /\ \A i, x : Owed(sq', chains', cq', i, x) => Owed(sq, chains, cq, i, x)
    BY <1>2, <1>4, <1>6
  <2>2. phase = "idle" => ran' = <<>> BY <1>6 DEF GroupInv
  <2> QED BY <1>2, <1>4, <2>1, <2>2, Behind, SMTT(30)
<1>7. CASE c[1].op \in Group /\ ran' = Append(ran, c[1].op)
  <2>1. Mine(c[1]) BY <1>5, <1>7, Zenon DEF Mine
  <2>2. Shared(sq, chains, cq, order, ran) BY Zenon DEF GroupInv
  <2>3. order # "none" => /\ \A m \in DOMAIN ran : ran[m] < c[1].op
                          /\ \A j \in Group : Within(chains', j, Itself) => c[1].op < j
                          /\ \A k \in DOMAIN sq : ~Mine(sq[k])
    <3> SUFFICES ASSUME order # "none"
                 PROVE  /\ \A m \in DOMAIN ran : ran[m] < c[1].op
                        /\ \A j \in Group : Within(chains', j, Itself) => c[1].op < j
                        /\ \A k \in DOMAIN sq : ~Mine(sq[k])
      BY Zenon
    <3> DEFINE D == chains'
    <3>1. \A i, x : Within(D, i, x) => Within(chains, i, x) /\ ~(c[1].op = i /\ c[1].cancel = x) BY <1>4, Zenon
    <3> HIDE DEF D
    <3>2. /\ \A m \in DOMAIN ran : ran[m] < c[1].op
          /\ \A j \in Group : Within(D, j, Itself) => c[1].op < j
          /\ \A k \in DOMAIN sq : ~Mine(sq[k])
      BY <2>1, <2>2, <3>1, HeadOrder, SMTT(30)
    <3> QED BY <3>2, Zenon DEF D
  <2>4. Shared(sq, chains', cq', order, Append(ran, c[1].op)) BY <1>4, <1>7, <2>3, SharedRan, Zenon
  <2>5. phase # "idle"
    <3>1. Owed(sq, chains, cq, c[1].op, Itself) BY <1>1, <1>5
    <3> QED BY <1>7, <3>1, OwedJoining
  <2>6. Shared(sq', chains', cq', order, ran') /\ \A i, x : Owed(sq', chains', cq', i, x) => Owed(sq, chains, cq, i, x)
    BY <1>2, <1>4, <1>7, <2>4
  <2> QED BY <1>2, <1>4, <2>5, <2>6, Behind
<1> QED BY <1>1, <1>6, <1>7 DEF Run

\* driver::sqe.
LEMMA SharedSqe ==
  ASSUME NEW s, NEW C, NEW q, NEW o, NEW r, Shared(s, C, q, o, r), NEW S, NEW D,
         NEW e \in Submitted, ~e.link, ~Mine(e), ~Owed(s, C, q, e.op, e.cancel),
         (S = <<e>> /\ D = C \cup Taken(s)) \/ (S = Append(s, e) /\ D = C)
  PROVE  /\ Shared(S, D, q, o, r)
         /\ \A i, x : Owed(S, D, q, i, x) => Owed(s, C, q, i, x) \/ (i = e.op /\ x = e.cancel)
<1>1. CASE S = <<e>> /\ D = C \cup Taken(s)
  <2>1. Shared(<<>>, D, q, o, r) /\ \A i, x : Owed(<<>>, D, q, i, x) => Owed(s, C, q, i, x) BY <1>1, SharedFlush, Zenon
  <2>2. ~Owed(<<>>, D, q, e.op, e.cancel) BY <2>1, Zenon
  <2>3. S = Append(<<>>, e) BY <1>1
  <2>4. /\ Shared(Append(<<>>, e), D, q, o, r)
        /\ \A i, x : Owed(Append(<<>>, e), D, q, i, x) => Owed(<<>>, D, q, i, x) \/ (i = e.op /\ x = e.cancel)
    BY <2>1, <2>2, SharedEnter, Zenon
  <2> QED BY <2>1, <2>3, <2>4, Zenon
<1>2. CASE S = Append(s, e) /\ D = C BY <1>2, SharedEnter
<1> QED BY <1>1, <1>2

\* A node j gets flags n and submits for y.
Marks(j, y, n) ==
  /\ node' = [node EXCEPT ![j] = n] /\ UNCHANGED <<cq, order, phase, pending, results, ran>>
  /\ Shared(sq', chains', cq, order, ran)
  /\ \A i, x : Owed(sq', chains', cq, i, x) => Owed(sq, chains, cq, i, x) \/ (i = j /\ x = y)
  /\ Tracked(n, sq', chains', cq, j)
  /\ j \in Group => y # Itself /\ (n.in <=> node[j].in) /\ (n.done <=> node[j].done)

LEMMA Marked ==
  ASSUME GroupInv, NEW j \in Nodes, NEW y, NEW n \in Flags, Marks(j, y, n)
  PROVE  GroupInv'
<1>1. node \in [Nodes -> Flags] BY Zenon DEF GroupInv
<1>2. node' \in [Nodes -> Flags] /\ node'[j] = n /\ \A i \in Nodes : i # j => node'[i] = node[i] BY <1>1 DEF Marks
<1>3. \A i \in Group : i \in Nodes BY Fits DEF Group, Nodes
<1>4. \A i \in Group : (node'[i].in <=> node[i].in) /\ (node'[i].done <=> node[i].done) BY <1>2, <1>3, Zenon DEF Marks
<1>5. cq' = cq /\ order' = order /\ phase' = phase /\ pending' = pending /\ results' = results /\ ran' = ran BY DEF Marks
<1>6. order' \in Orders /\ phase' \in Phases BY <1>5 DEF GroupInv
<1>7. Shared(sq', chains', cq', order', ran') BY <1>5 DEF Marks
<1>8. ASSUME NEW i \in Nodes PROVE Tracked(node'[i], sq', chains', cq', i)
  <2>1. CASE i = j BY <1>2, <1>5, <2>1 DEF Marks
  <2>2. CASE i # j
    <3>1. \A x : Owed(sq', chains', cq, i, x) => Owed(sq, chains, cq, i, x) BY <2>2, Zenon DEF Marks
    <3>2. Tracked(node[i], sq, chains, cq, i) BY <1>8, Zenon DEF GroupInv
    <3>3. Tracked(node[i], sq', chains', cq, i) BY <3>1, <3>2, Zenon DEF Tracked
    <3> QED BY <1>2, <1>5, <2>2, <3>3
  <2> QED BY <2>1, <2>2, Zenon
<1>9. Awaited(node', pending', phase')
  <2>1. Awaited(node, pending, phase) BY Zenon DEF GroupInv
  <2>2. InFlight(node') = InFlight(node) BY <1>4, Zenon DEF InFlight
  <2> QED BY <1>5, <2>1, <2>2 DEF Awaited
<1>10. phase' = "idle" => ran' = <<>> BY <1>5 DEF GroupInv
<1>11. Reported(results', node', sq', chains', cq', phase')
  <2>1. Reported(results, node, sq, chains, cq, phase) BY Zenon DEF GroupInv
  <2>2. \A i \in Group : Owed(sq', chains', cq, i, Itself) => Owed(sq, chains, cq, i, Itself) BY Zenon DEF Marks
  <2>3. Reported(results, node', sq', chains', cq, phase) BY <1>4, <2>1, <2>2, Zenon DEF Reported
  <2> QED BY <1>5, <2>3
<1>12. Severed(results', cq', order') BY <1>5 DEF GroupInv
<1> QED BY <1>2, <1>6, <1>7, <1>8, <1>9, <1>10, <1>11, <1>12, Zenon DEF GroupInv

LEMMA GroupOther ==
  ASSUME GroupInv, Other
  PROVE  GroupInv'
<1> DEFINE e == Entry(0, FALSE)
           n == [node[0] EXCEPT !.in = TRUE]
<1>1. 0 \in Nodes /\ 0 \notin Group BY Fits DEF Nodes, Group
<1>2. node \in [Nodes -> Flags] /\ node[0] \in Flags BY <1>1 DEF GroupInv
<1>3. n \in Flags /\ n.in /\ (n.done <=> node[0].done) /\ (n.sent <=> node[0].sent) /\ (n.canceling <=> node[0].canceling)
  BY <1>2, Zenon DEF Flags
<1>4. e \in Submitted /\ e.op = 0 /\ e.cancel = Itself /\ ~e.link BY <1>1 DEF Entry, Submitted, Itself
<1>5. ~Mine(e) BY <1>1, <1>4, Zenon DEF Mine
<1>6. node' = [node EXCEPT ![0] = n] BY <1>1, <1>2 DEF Other
<1> HIDE DEF e, n
<1>7. Tracked(node[0], sq, chains, cq, 0) /\ ~node[0].in BY <1>1, Zenon DEF GroupInv, Other
<1>8. ~Owed(sq, chains, cq, 0, Itself) /\ ~Owed(sq, chains, cq, 0, ItsCancel) /\ ~node[0].done BY <1>7, Zenon DEF Tracked
<1>9. (sq' = <<e>> /\ chains' = chains \cup Taken(sq)) \/ (sq' = Append(sq, e) /\ chains' = chains)
  BY Zenon DEF Other, Enter, e
<1>10. /\ Shared(sq', chains', cq, order, ran)
       /\ \A i, x : Owed(sq', chains', cq, i, x) => Owed(sq, chains, cq, i, x) \/ (i = 0 /\ x = Itself)
  <2>1. Shared(sq, chains, cq, order, ran) BY Zenon DEF GroupInv
  <2>2. ~Owed(sq, chains, cq, e.op, e.cancel) BY <1>4, <1>8
  <2> DEFINE S == sq'
             D == chains'
  <2>3. (S = <<e>> /\ D = chains \cup Taken(sq)) \/ (S = Append(sq, e) /\ D = chains) BY <1>9
  <2> HIDE DEF S, D
  <2>4. /\ Shared(S, D, cq, order, ran)
        /\ \A i, x : Owed(S, D, cq, i, x) => Owed(sq, chains, cq, i, x) \/ (i = e.op /\ x = e.cancel)
    BY <1>4, <1>5, <2>1, <2>2, <2>3, SharedSqe, SMTT(30)
  <2> QED BY <1>4, <2>4 DEF S, D
<1>11. Tracked(n, sq', chains', cq, 0)
  <2>1. Itself # ItsCancel BY DEF Itself, ItsCancel
  <2>2. ~Owed(sq', chains', cq, 0, ItsCancel) BY <1>8, <1>10, <2>1
  <2> QED BY <1>3, <1>7, <1>8, <2>2, Zenon DEF Tracked
<1>12. UNCHANGED <<cq, order, phase, pending, results, ran>> BY DEF Other
<1>13. Marks(0, Itself, n) BY <1>1, <1>6, <1>10, <1>11, <1>12, SMTT(30) DEF Marks
<1> QED BY <1>1, <1>3, <1>13, Marked

LEMMA GroupCancel ==
  ASSUME GroupInv, NEW j \in Group, Cancel(j)
  PROVE  GroupInv'
<1> DEFINE e == Cancellation(j)
           n == [node[j] EXCEPT !.sent = TRUE, !.canceling = TRUE]
<1>1. j \in Nodes BY Fits DEF Nodes, Group
<1>2. node \in [Nodes -> Flags] /\ node[j] \in Flags BY <1>1 DEF GroupInv
<1>3. n \in Flags /\ n.sent /\ n.canceling /\ (n.in <=> node[j].in) /\ (n.done <=> node[j].done)
  BY <1>2, Zenon DEF Flags
<1>4. e \in Submitted /\ e.op = j /\ e.cancel = ItsCancel /\ ~e.link BY <1>1 DEF Cancellation, Submitted, ItsCancel
<1>5. ~Mine(e) BY <1>4 DEF Mine, Itself, ItsCancel
<1>6. node' = [node EXCEPT ![j] = n] BY <1>1, <1>2, Zenon DEF Cancel
<1> HIDE DEF e, n
<1>7. Tracked(node[j], sq, chains, cq, j) /\ node[j].in /\ ~node[j].sent BY <1>1, Zenon DEF GroupInv, Cancel
<1>8. ~Owed(sq, chains, cq, j, ItsCancel) BY <1>7, Zenon DEF Tracked
<1>9. (sq' = <<e>> /\ chains' = chains \cup Taken(sq)) \/ (sq' = Append(sq, e) /\ chains' = chains)
  BY DEF Cancel, Enter, e
<1>10. /\ Shared(sq', chains', cq, order, ran)
       /\ \A i, x : Owed(sq', chains', cq, i, x) => Owed(sq, chains, cq, i, x) \/ (i = j /\ x = ItsCancel)
  <2>1. Shared(sq, chains, cq, order, ran) BY Zenon DEF GroupInv
  <2>2. ~Owed(sq, chains, cq, e.op, e.cancel) BY <1>4, <1>8
  <2> DEFINE S == sq'
             D == chains'
  <2>3. (S = <<e>> /\ D = chains \cup Taken(sq)) \/ (S = Append(sq, e) /\ D = chains) BY <1>9
  <2> HIDE DEF S, D
  <2>4. /\ Shared(S, D, cq, order, ran)
        /\ \A i, x : Owed(S, D, cq, i, x) => Owed(sq, chains, cq, i, x) \/ (i = e.op /\ x = e.cancel)
    BY <1>4, <1>5, <2>1, <2>2, <2>3, SharedSqe, SMTT(30)
  <2> QED BY <1>4, <2>4 DEF S, D
<1>14. Itself # ItsCancel BY DEF Itself, ItsCancel
<1>11. Tracked(n, sq', chains', cq, j)
  <2>2. Owed(sq', chains', cq, j, Itself) => Owed(sq, chains, cq, j, Itself) BY <1>10, <1>14
  <2> QED BY <1>3, <1>7, <2>2, Zenon DEF Tracked
<1>12. UNCHANGED <<cq, order, phase, pending, results, ran>> BY DEF Cancel
<1>13. Marks(j, ItsCancel, n) BY <1>3, <1>6, <1>10, <1>11, <1>12, <1>14, Zenon DEF Marks
<1> QED BY <1>1, <1>3, <1>13, Marked, SMTT(30)

LEMMA GroupStays ==
  ASSUME GroupInv, UNCHANGED <<sq, cq, chains, order, phase, node, pending, results, ran>>
  PROVE  GroupInv'
<1>1. Shared(sq', chains', cq', order, ran') /\ \A i, x : Owed(sq', chains', cq', i, x) => Owed(sq, chains, cq, i, x)
  BY DEF GroupInv
<1>2. Severed(results, cq', order) /\ (phase = "idle" => ran' = <<>>) BY DEF GroupInv
<1> QED BY <1>1, <1>2, Behind

LEMMA GroupPoll ==
  ASSUME GroupInv, Poll
  PROVE  GroupInv'
<1>1. Shared(sq, chains, cq, order, ran) BY Zenon DEF GroupInv
<1>2. sq' = <<>> /\ chains' = chains \cup Taken(sq) /\ UNCHANGED <<cq, order, phase, node, pending, results, ran>>
  BY DEF Poll
<1>3. /\ Shared(<<>>, chains \cup Taken(sq), cq, order, ran)
      /\ \A i, x : Owed(<<>>, chains \cup Taken(sq), cq, i, x) => Owed(sq, chains, cq, i, x)
  BY <1>1, SharedFlush
<1>4. Shared(sq', chains', cq', order, ran') /\ \A i, x : Owed(sq', chains', cq', i, x) => Owed(sq, chains, cq, i, x)
  BY <1>2, <1>3, Zenon
<1>5. Severed(results, cq', order) /\ (phase = "idle" => ran' = <<>>) BY <1>2 DEF GroupInv
<1> QED BY <1>2, <1>4, <1>5, Behind, Zenon

LEMMA SharedReserve ==
  ASSUME NEW s, NEW C, NEW q, NEW p, NEW r, Shared(s, C, q, p, r), NEW o, NEW S, NEW D,
         \A i \in Group : ~Owed(s, C, q, i, Itself), r = <<>>,
         (S = s \o Chain(o) /\ D = C) \/ (S = Chain(o) /\ D = C \cup Taken(s))
  PROVE  /\ Shared(S, D, q, o, r)
         /\ \A i, x : Owed(S, D, q, i, x) => Owed(s, C, q, i, x) \/ (i \in Group /\ x = Itself)
<1>1. CASE S = s \o Chain(o) /\ D = C BY <1>1, SharedGroup
<1>2. CASE S = Chain(o) /\ D = C \cup Taken(s)
  <2> DEFINE c == Chain(o)
  <2>1. Shared(<<>>, D, q, p, r) /\ \A i, x : Owed(<<>>, D, q, i, x) => Owed(s, C, q, i, x) BY <1>2, SharedFlush
  <2>2. \A i \in Group : ~Owed(<<>>, D, q, i, Itself) BY <2>1, Zenon
  <2>3. c \in Seq(Submitted) BY ChainFacts, Zenon
  <2> HIDE DEF c
  <2>4. <<>> \o c = c BY <2>3
  <2>5. /\ Shared(<<>> \o Chain(o), D, q, o, r)
        /\ \A i, x : Owed(<<>> \o Chain(o), D, q, i, x) => Owed(<<>>, D, q, i, x) \/ (i \in Group /\ x = Itself)
    BY <2>1, <2>2, SharedGroup, Zenon
  <2>6. S = <<>> \o Chain(o) BY <1>2, <2>4 DEF c
  <2> QED BY <2>1, <2>5, <2>6, Zenon
<1> QED BY <1>1, <1>2, SMTT(30)

LEMMA NothingOwed ==
  ASSUME GroupInv, phase # "joining"
  PROVE  /\ \A i \in Group : ~Owed(sq, chains, cq, i, Itself) /\ ~Owed(sq, chains, cq, i, ItsCancel) /\ ~node[i].in
         /\ \A i \in Group : \A V : ~Says(cq, i, V)
<1>1. \A i \in Group : ~Owed(sq, chains, cq, i, Itself) /\ ~Owed(sq, chains, cq, i, ItsCancel) BY OwedJoining
<1>2. InFlight(node) = {} BY DEF GroupInv, Awaited
<1>3. \A i \in Group : ~node[i].in BY <1>2 DEF InFlight
<1>4. \A i \in Group : ~On(cq, i, Itself) BY <1>1, Zenon DEF Owed
<1>5. \A i \in Group : \A V : ~Says(cq, i, V) BY <1>4, Zenon DEF On, Says
<1> QED BY <1>1, <1>3, <1>5, Zenon

LEMMA Fresh ==
  ASSUME NEW f, f = [i \in Group |-> "unset"], NEW q, NEW o, \A i \in Group : \A V : ~Says(q, i, V)
  PROVE  Severed(f, q, o)
<1>1. \A i \in Group : f[i] \notin Poor BY DEF Poor
<1> QED BY <1>1, Zenon DEF Severed, Gets

LEMMA GroupSubmit ==
  ASSUME GroupInv, NEW o \in Orders, Submit(o)
  PROVE  GroupInv'
<1> DEFINE n == [Unlinked EXCEPT !.in = TRUE]
           f == [i \in Group |-> "unset"]
<1>1. phase = "idle" /\ phase' = "joining" /\ order' = o /\ pending' = Size /\ results' = f /\ cq' = cq /\ ran' = ran
  BY DEF Submit
<1>2. node' = [i \in Nodes |-> IF i \in Group THEN n ELSE node[i]] BY Zenon DEF Submit
<1>3. n \in Flags /\ n.in /\ ~n.done /\ ~n.sent /\ ~n.canceling BY Zenon DEF Unlinked, Flags
<1>4. \A i \in Group : i \in Nodes BY Fits DEF Group, Nodes
<1>5. f \in [Group -> Outcomes \cup {"unset"}] /\ \A i \in Group : f[i] = "unset" OBVIOUS
<1> HIDE DEF n, f
<1>6. node \in [Nodes -> Flags] /\ ran = <<>> /\ Shared(sq, chains, cq, order, ran)
      /\ \A i \in Nodes : Tracked(node[i], sq, chains, cq, i)
  BY <1>1 DEF GroupInv
<1>7. node' \in [Nodes -> Flags] /\ (\A i \in Group : node'[i] = n) /\ \A i \in Nodes : i \notin Group => node'[i] = node[i]
  BY <1>2, <1>3, <1>4, <1>6, SMTT(30)
<1>8. /\ \A i \in Group : ~Owed(sq, chains, cq, i, Itself) /\ ~Owed(sq, chains, cq, i, ItsCancel)
      /\ \A i \in Group : \A V : ~Says(cq, i, V)
  BY <1>1, NothingOwed
<1>9. /\ Shared(sq', chains', cq, o, ran)
      /\ \A i, x : Owed(sq', chains', cq, i, x) => Owed(sq, chains, cq, i, x) \/ (i \in Group /\ x = Itself)
  <2> DEFINE S == sq'
             D == chains'
  <2>1. (S = sq \o Chain(o) /\ D = chains) \/ (S = Chain(o) /\ D = chains \cup Taken(sq)) BY DEF Submit, Reserve
  <2> HIDE DEF S, D
  <2>2. /\ Shared(S, D, cq, o, ran)
        /\ \A i, x : Owed(S, D, cq, i, x) => Owed(sq, chains, cq, i, x) \/ (i \in Group /\ x = Itself)
    <3>1. Shared(sq, chains, cq, order, ran) BY <1>6, Zenon
    <3>2. \A i \in Group : ~Owed(sq, chains, cq, i, Itself) BY <1>8, Zenon
    <3>3. ran = <<>> BY <1>6, Zenon
    <3> QED BY <2>1, <3>1, <3>2, <3>3, SharedReserve, SMTT(30)
  <2> QED BY <2>2 DEF S, D
<1>10. ASSUME NEW i \in Nodes PROVE Tracked(node'[i], sq', chains', cq', i)
  <2>1. CASE i \in Group
    <3>1. Itself # ItsCancel BY DEF Itself, ItsCancel
    <3>2. ~Owed(sq', chains', cq, i, ItsCancel) BY <1>8, <1>9, <2>1, <3>1
    <3>3. Tracked(n, sq', chains', cq, i) BY <1>3, <3>2, Zenon DEF Tracked
    <3> QED BY <1>1, <1>7, <2>1, <3>3, SMTT(30)
  <2>2. CASE i \notin Group
    <3>1. \A x : Owed(sq', chains', cq, i, x) => Owed(sq, chains, cq, i, x) BY <1>9, <2>2, Zenon
    <3>2. Tracked(node[i], sq', chains', cq, i) BY <1>6, <1>10, <3>1, Zenon DEF Tracked
    <3> QED BY <1>1, <1>7, <1>10, <2>2, <3>2, SMTT(30)
  <2> QED BY <2>1, <2>2, Zenon
<1>11. Awaited(node', pending', phase')
  <2>1. InFlight(node') = Group BY <1>3, <1>7, Zenon DEF InFlight
  <2>2. Cardinality(Group) = Size
    <3>1. 1 \in Int /\ Size \in Int /\ ~(1 > Size) /\ Size - 1 + 1 = Size BY Fits
    <3>2. Cardinality(1..Size) = Size BY <3>1, FS_Interval
    <3> QED BY <3>2 DEF Group
  <2> QED BY <1>1, <2>1, <2>2 DEF Awaited
<1>12. Reported(results', node', sq', chains', cq', phase')
  <2>1. \A i \in Group : node'[i].in /\ ~node'[i].done BY <1>3, <1>7, Zenon
  <2>2. phase' # "idle" BY <1>1
  <2>3. Reported(f, node', sq', chains', cq', phase') BY <1>5, <2>1, <2>2, Zenon DEF Reported
  <2> QED BY <1>1, <2>3, Zenon
<1>13. Severed(results', cq', order')
  <2>1. Severed(f, cq, o) BY <1>8, Fresh, Zenon DEF f
  <2> QED BY <1>1, <2>1
<1>14. order' \in Orders /\ phase' \in Phases /\ (phase' = "idle" => ran' = <<>>) BY <1>1 DEF Phases
<1>15. Shared(sq', chains', cq', order', ran') BY <1>1, <1>9
<1> QED BY <1>7, <1>10, <1>11, <1>12, <1>13, <1>14, <1>15, Zenon DEF GroupInv

LEMMA GroupResume ==
  ASSUME GroupInv, Resume
  PROVE  GroupInv'
<1> DEFINE f == [i \in Group |-> "unset"]
<1>1. phase = "ready" /\ phase' = "idle" /\ ran' = <<>> /\ results' = f /\ UNCHANGED <<sq, cq, chains, order, node, pending>>
  BY DEF Resume
<1>2. f \in [Group -> Outcomes \cup {"unset"}] /\ \A i \in Group : f[i] = "unset" OBVIOUS
<1> HIDE DEF f
<1>3. \A i \in Group : \A V : ~Says(cq, i, V) BY <1>1, NothingOwed
<1>4. Shared(sq, chains, cq, order, ran) BY Zenon DEF GroupInv
<1>5. Shared(sq, chains, cq, order, <<>>) BY <1>4, SharedReset, Zenon
<1>6. Shared(sq', chains', cq', order', ran') BY <1>1, <1>5
<1>7. order' \in Orders /\ node' \in [Nodes -> Flags] BY <1>1 DEF GroupInv
<1>8. phase' \in Phases /\ (phase' = "idle" => ran' = <<>>) BY <1>1 DEF Phases
<1>9. \A i \in Nodes : Tracked(node'[i], sq', chains', cq', i) BY <1>1 DEF GroupInv
<1>10. Awaited(node', pending', phase') BY <1>1 DEF GroupInv, Awaited
<1>11. Reported(results', node', sq', chains', cq', phase')
  <2>1. Reported(f, node', sq', chains', cq', "idle") BY <1>2, Zenon DEF Reported
  <2> QED BY <1>1, <2>1
<1>12. Severed(results', cq', order')
  <2>1. Severed(f, cq, order) BY <1>3, Fresh, Zenon DEF f
  <2> QED BY <1>1, <2>1
<1> QED BY <1>6, <1>7, <1>8, <1>9, <1>10, <1>11, <1>12, Zenon DEF GroupInv

\* The retire hook.
LEMMA Retired ==
  ASSUME GroupInv, NEW j \in Nodes, node[j].in, Retire(j), node' = [node EXCEPT ![j] = Unlinked]
  PROVE  Awaited(node', pending', phase') /\ phase' \in Phases /\ (phase' = "idle" <=> phase = "idle")
<1>1. node \in [Nodes -> Flags] /\ phase \in Phases /\ Awaited(node, pending, phase) BY Zenon DEF GroupInv
<1>2. node'[j] = Unlinked /\ ~node'[j].in /\ \A i \in Nodes : i # j => node'[i] = node[i] BY <1>1 DEF Unlinked
<1>3. \A i \in Group : i \in Nodes BY Fits DEF Group, Nodes
<1>4. CASE j \in Group
  <2>1. InFlight(node') = InFlight(node) \ {j}
    <3>1. \A i : i \in InFlight(node') <=> i \in InFlight(node) /\ i # j BY <1>2, <1>3, Zenon DEF InFlight
    <3> QED BY <3>1, Zenon
  <2>2. j \in InFlight(node) BY <1>4 DEF InFlight
  <2>3. phase = "joining" /\ pending = Cardinality(InFlight(node)) BY <1>1, <2>2 DEF Awaited
  <2>4. IsFiniteSet(InFlight(node))
    <3>1. 1 \in Int /\ Size \in Int BY Fits
    <3>2. IsFiniteSet(1..Size) BY <3>1, FS_Interval
    <3>3. IsFiniteSet(Group) BY <3>2 DEF Group
    <3>4. InFlight(node) \in SUBSET Group BY Zenon DEF InFlight
    <3> QED BY <3>3, <3>4, FS_Subset, Zenon
  <2> DEFINE F == InFlight(node)
  <2>5. IsFiniteSet(F \ {j}) /\ Cardinality(F \ {j}) = Cardinality(F) - 1
    <3> HIDE DEF F
    <3>1. IsFiniteSet(F) /\ j \in F BY <2>2, <2>4, Zenon DEF F
    <3>2. /\ IsFiniteSet(F \ {j})
          /\ Cardinality(F \ {j}) = IF j \in F THEN Cardinality(F) - 1 ELSE Cardinality(F)
      BY <3>1, FS_RemoveElement, Zenon
    <3> QED BY <3>1, <3>2, Zenon
  <2>6. pending' = pending - 1 /\ phase' = IF pending = 1 THEN "ready" ELSE phase BY <1>4 DEF Retire
  <2>7. pending' = Cardinality(InFlight(node')) BY <2>1, <2>3, <2>5, <2>6, Zenon
  <2>8. pending = 1 => InFlight(node') = {}
    <3>1. pending = 1 => Cardinality(InFlight(node')) = 0 BY <2>6, <2>7
    <3>2. IsFiniteSet(InFlight(node')) BY <2>1, <2>5, Zenon
    <3> QED BY <3>1, <3>2, FS_EmptySet, Zenon
  <2>9. phase' # "joining" => InFlight(node') = {} BY <2>3, <2>6, <2>8, Zenon
  <2>10. phase' \in Phases /\ phase' # "idle" /\ phase # "idle" BY <2>3, <2>6 DEF Phases
  <2> QED BY <2>7, <2>9, <2>10, Zenon DEF Awaited
<1>5. CASE j \notin Group
  <2>1. InFlight(node') = InFlight(node) BY <1>2, <1>3, <1>5, Zenon DEF InFlight
  <2>2. pending' = pending /\ phase' = phase BY <1>5 DEF Retire
  <2> QED BY <1>1, <2>1, <2>2, Zenon DEF Awaited
<1> QED BY <1>4, <1>5, Zenon

\* A node that stays linked.
LEMMA Lingers ==
  ASSUME GroupInv, NEW j \in Nodes, NEW n, (n.in <=> node[j].in), node' = [node EXCEPT ![j] = n], UNCHANGED <<pending, phase>>
  PROVE  Awaited(node', pending', phase') /\ phase' \in Phases /\ (phase' = "idle" <=> phase = "idle")
<1>1. node \in [Nodes -> Flags] /\ phase \in Phases /\ Awaited(node, pending, phase) BY Zenon DEF GroupInv
<1>2. node'[j] = n /\ \A i \in Nodes : i # j => node'[i] = node[i] BY <1>1
<1>3. \A i \in Group : i \in Nodes BY Fits DEF Group, Nodes
<1>4. InFlight(node') = InFlight(node) BY <1>2, <1>3, Zenon DEF InFlight
<1>5. pending' = pending /\ phase' = phase OBVIOUS
<1> QED BY <1>1, <1>4, <1>5, Zenon DEF Awaited

\* What handling the completion e does to its node j.
Settles(e, j) ==
  /\ j \in Nodes /\ (j \in Group => phase = "joining")
  /\ node' \in [Nodes -> Flags] /\ \A i \in Nodes : i # j => node'[i] = node[i]
  /\ Tracked(node'[j], sq, chains, Tail(cq), j)
  /\ Awaited(node', pending', phase') /\ phase' \in Phases /\ (phase' = "idle" <=> phase = "idle")
  /\ e.cancel = ItsCancel => node[j].done \/ (node'[j].in /\ ~node'[j].done)

LEMMA HandleNode ==
  ASSUME GroupInv, Handle
  PROVE  Settles(cq[1], cq[1].op)
<1> DEFINE e == cq[1]
           j == e.op
           k == node[j]
           q == Tail(cq)
           over == IF e.cancel THEN k.done ELSE ~k.canceling
           n == [k EXCEPT !.done = @ \/ ~e.cancel, !.canceling = @ /\ ~e.cancel]
<1>1. Shared(sq, chains, cq, order, ran) /\ cq # <<>> BY DEF GroupInv, Handle
<1>2. /\ e \in Completed /\ On(cq, j, e.cancel)
      /\ \A i, x : Owed(sq, chains, q, i, x) => Owed(sq, chains, cq, i, x) /\ ~(i = j /\ x = e.cancel)
  BY <1>1, SharedPop, Zenon
<1>3. j \in Nodes /\ e.cancel \in {Itself, ItsCancel} BY <1>2, Zenon DEF Completed, Itself, ItsCancel
<1>4. Owed(sq, chains, cq, j, e.cancel) BY <1>2, Zenon DEF Owed
<1>5. j \in Group => phase = "joining" BY <1>3, <1>4, OwedJoining
<1>6. node \in [Nodes -> Flags] /\ k \in Flags /\ Tracked(k, sq, chains, cq, j) BY <1>3, Zenon DEF GroupInv
<1>7. Head(cq) = e BY <1>1
<1>8. node' = [node EXCEPT ![j] = IF over THEN Unlinked ELSE n] /\ IF over THEN Retire(j) ELSE UNCHANGED <<pending, phase>>
  BY <1>7, Zenon DEF Handle
<1>9. n \in Flags /\ (n.in <=> k.in) /\ (n.sent <=> k.sent)
      /\ (n.done <=> (k.done \/ ~e.cancel)) /\ (n.canceling <=> (k.canceling /\ ~e.cancel))
  <2>1. e.cancel \in BOOLEAN BY <1>2 DEF Completed
  <2> HIDE DEF e, k
  <2> QED BY <1>6, <2>1, Zenon DEF Flags
<1>10. Unlinked \in Flags /\ ~Unlinked.in /\ ~Unlinked.done /\ ~Unlinked.canceling /\ ~Unlinked.sent BY DEF Unlinked, Flags
<1> HIDE DEF n, k, q
<1>11. k.in
  <2>1. CASE e.cancel = Itself BY <1>4, <1>6, <2>1, Zenon DEF Tracked
  <2>2. CASE e.cancel = ItsCancel BY <1>4, <1>6, <2>2, Zenon DEF Tracked
  <2> QED BY <1>3, <2>1, <2>2
<1>12. ~Owed(sq, chains, q, j, e.cancel) /\ \A x : Owed(sq, chains, q, j, x) => Owed(sq, chains, cq, j, x) BY <1>2, Zenon
<1>13. CASE over
  <2>1. node' = [node EXCEPT ![j] = Unlinked] /\ Retire(j) BY <1>8, <1>13, Zenon
  <2>2. Awaited(node', pending', phase') /\ phase' \in Phases /\ (phase' = "idle" <=> phase = "idle")
    BY <1>3, <1>11, <2>1, Retired, Zenon DEF k
  <2>3. node' \in [Nodes -> Flags] /\ node'[j] = Unlinked /\ \A i \in Nodes : i # j => node'[i] = node[i]
    BY <1>3, <1>6, <1>10, <2>1, SMTT(30)
  <2>4. ~Owed(sq, chains, q, j, Itself) /\ ~Owed(sq, chains, q, j, ItsCancel)
    <3>1. CASE e.cancel = Itself
      <4>1. ~k.canceling BY <1>13, <3>1 DEF Itself
      <4> QED BY <1>6, <1>12, <3>1, <4>1, Zenon DEF Tracked
    <3>2. CASE e.cancel = ItsCancel
      <4>1. k.done BY <1>13, <3>2, SMTT(30) DEF ItsCancel
      <4> QED BY <1>6, <1>12, <3>2, <4>1, Zenon DEF Tracked
    <3> QED BY <1>3, <3>1, <3>2
  <2>5. Tracked(node'[j], sq, chains, q, j)
    <3>1. Tracked(Unlinked, sq, chains, q, j) BY <1>10, <2>4, Zenon DEF Tracked
    <3> QED BY <2>3, <3>1
  <2>6. e.cancel = ItsCancel => k.done BY <1>13 DEF ItsCancel
  <2> QED BY <1>3, <1>5, <2>2, <2>3, <2>5, <2>6, Zenon DEF Settles, q, k
<1>14. CASE ~over
  <2>1. node' = [node EXCEPT ![j] = n] /\ UNCHANGED <<pending, phase>> BY <1>8, <1>14, Zenon
  <2>2. Awaited(node', pending', phase') /\ phase' \in Phases /\ (phase' = "idle" <=> phase = "idle")
    <3>1. n.in <=> node[j].in BY <1>9, Zenon DEF k
    <3> QED BY <1>3, <2>1, <3>1, Lingers, Zenon
  <2>3. node' \in [Nodes -> Flags] /\ node'[j] = n /\ \A i \in Nodes : i # j => node'[i] = node[i]
    BY <1>3, <1>6, <1>9, <2>1, SMTT(30)
  <2>4. Tracked(n, sq, chains, q, j) /\ (e.cancel = ItsCancel => n.in /\ ~n.done)
    <3>1. CASE e.cancel = Itself
      <4>1. k.canceling /\ n.done /\ n.canceling BY <1>9, <1>14, <3>1 DEF Itself
      <4>2. Itself # ItsCancel BY DEF Itself, ItsCancel
      <4>3. e.cancel # ItsCancel BY <3>1, <4>2
      <4>4. ~Owed(sq, chains, q, j, Itself) BY <1>12, <3>1, Zenon
      <4> QED BY <1>6, <1>9, <1>11, <4>1, <4>3, <4>4, ZenonT(40) DEF Tracked
    <3>2. CASE e.cancel = ItsCancel
      <4>1. ~k.done /\ ~n.done /\ ~n.canceling BY <1>9, <1>14, <3>2, SMTT(30) DEF ItsCancel
      <4>2. ~Owed(sq, chains, q, j, ItsCancel) BY <1>12, <3>2, Zenon
      <4> QED BY <1>6, <1>9, <1>11, <1>12, <4>1, <4>2, ZenonT(40) DEF Tracked
    <3> QED BY <1>3, <3>1, <3>2
  <2>5. Tracked(node'[j], sq, chains, q, j) /\ (e.cancel = ItsCancel => node'[j].in /\ ~node'[j].done) BY <2>3, <2>4
  <2> QED BY <1>3, <1>5, <2>2, <2>3, <2>5, Zenon DEF Settles, q
<1> QED BY <1>13, <1>14, Zenon

LEMMA GroupHandle ==
  ASSUME GroupInv, Handle
  PROVE  GroupInv'
<1> DEFINE e == cq[1]
           j == e.op
           q == Tail(cq)
<1>1. Shared(sq, chains, cq, order, ran) /\ cq # <<>> BY DEF GroupInv, Handle
<1>2. /\ Shared(sq, chains, q, order, ran) /\ e \in Completed /\ On(cq, j, e.cancel)
      /\ \A i, x : Owed(sq, chains, q, i, x) => Owed(sq, chains, cq, i, x) /\ ~(i = j /\ x = e.cancel)
  BY <1>1, SharedPop, Zenon
<1>3. Settles(e, j) BY HandleNode
<1>4. Head(cq) = e /\ cq \in Seq(Completed) BY <1>1 DEF Shared
<1>5. cq' = q /\ UNCHANGED <<sq, chains, order, ran>> BY DEF Handle
<1>6. e.cancel \in {Itself, ItsCancel} /\ e.res \in Outcomes BY <1>2, Zenon DEF Completed, Itself, ItsCancel
<1>7. results' = IF j \in Group /\ ~e.cancel THEN [results EXCEPT ![j] = e.res] ELSE results BY <1>4, Zenon DEF Handle
<1>8. Reported(results, node, sq, chains, cq, phase) /\ Severed(results, cq, order) BY Zenon DEF GroupInv
<1>9. results \in [Group -> Outcomes \cup {"unset"}] BY <1>8, Zenon DEF Reported
<1>10. j \in Group /\ e.cancel = Itself => results' = [results EXCEPT ![j] = e.res] BY <1>7 DEF Itself
<1>11. ~(j \in Group /\ e.cancel = Itself) => results' = results BY <1>6, <1>7 DEF Itself, ItsCancel
<1>12. \A i, V : Says(cq, i, V) <=> Says(q, i, V) \/ (j = i /\ e.cancel = Itself /\ e.res \in V)
  BY <1>1, <1>4, SaysTail, Zenon
<1>21. Owed(sq, chains, cq, j, e.cancel) BY <1>2, Zenon DEF Owed
<1> HIDE DEF e, j, q
<1>13. results' \in [Group -> Outcomes \cup {"unset"}]
  <2>1. CASE j \in Group /\ e.cancel = Itself BY <1>6, <1>9, <1>10, <2>1, SMTT(30)
  <2>2. CASE ~(j \in Group /\ e.cancel = Itself) BY <1>9, <1>11, <2>2
  <2> QED BY <2>1, <2>2, Zenon
<1>14. \A i \in Group : results'[i] = IF i = j /\ e.cancel = Itself THEN e.res ELSE results[i]
  <2>1. CASE j \in Group /\ e.cancel = Itself BY <1>9, <1>10, <2>1
  <2>2. CASE ~(j \in Group /\ e.cancel = Itself) BY <1>11, <2>2
  <2> QED BY <2>1, <2>2, Zenon
<1>15. Reported(results', node', sq, chains, q, phase')
  <2>1. ASSUME NEW i \in Group, Owed(sq, chains, q, i, Itself) PROVE results'[i] = "unset"
    <3>1. Owed(sq, chains, cq, i, Itself) /\ ~(i = j /\ e.cancel = Itself) BY <1>2, <2>1, Zenon
    <3>2. results[i] = "unset" BY <1>8, <3>1, Zenon DEF Reported
    <3> QED BY <1>14, <3>1, <3>2, Zenon
  <2>2. ASSUME phase' # "idle", NEW i \in Group, results'[i] = "unset" PROVE node'[i].in /\ ~node'[i].done
    <3>1. phase # "idle" BY <1>3, <2>2, Zenon DEF Settles
    <3>2. ~(i = j /\ e.cancel = Itself)
      <4>1. e.res # "unset" BY <1>6 DEF Outcomes
      <4> QED BY <1>14, <2>2, <4>1, Zenon
    <3>3. results[i] = "unset" BY <1>14, <2>2, <3>2, Zenon
    <3>4. node[i].in /\ ~node[i].done BY <1>8, <3>1, <3>3, Zenon DEF Reported
    <3>5. i \in Nodes BY Fits DEF Group, Nodes
    <3>6. CASE i = j
      <4>1. e.cancel = ItsCancel BY <1>6, <3>2, <3>6
      <4> QED BY <1>3, <3>4, <3>6, <4>1, Zenon DEF Settles
    <3>7. CASE i # j BY <1>3, <3>4, <3>5, <3>7, Zenon DEF Settles
    <3> QED BY <3>6, <3>7, Zenon
  <2>3. ASSUME phase' = "idle", NEW i \in Group PROVE results'[i] = "unset"
    <3>1. phase = "idle" BY <1>3, <2>3, Zenon DEF Settles
    <3>2. results[i] = "unset" BY <1>8, <3>1, Zenon DEF Reported
    <3>3. i # j
      <4>1. phase # "joining" BY <3>1
      <4> QED BY <1>3, <4>1, Zenon DEF Settles
    <3> QED BY <1>14, <3>2, <3>3, Zenon
  <2> QED BY <1>13, <2>1, <2>2, <2>3, Zenon DEF Reported
<1>16. Severed(results', q, order)
  <2> SUFFICES ASSUME order = "soft", NEW i \in Group, i # Size, Gets(results', q, i, Poor)
               PROVE  Gets(results', q, i + 1, Dead)
    BY Zenon DEF Severed
  <2>1. Gets(results, cq, i, Poor) BY <1>12, <1>14, Zenon DEF Gets
  <2>2. Gets(results, cq, i + 1, Dead) BY <1>8, <2>1, Zenon DEF Severed
  <2>3. i + 1 \in Group BY Fits DEF Group
  <2> DEFINE l == i + 1
  <2> HIDE DEF l
  <2>4. l \in Group /\ Gets(results, cq, l, Dead) BY <2>2, <2>3 DEF l
  <2>5. Gets(results', q, l, Dead)
    <3>1. CASE Says(cq, l, Dead)
      <4>1. Says(q, l, Dead) \/ (j = l /\ e.cancel = Itself /\ e.res \in Dead) BY <1>12, <3>1, Zenon
      <4> QED BY <1>14, <2>4, <4>1, Zenon DEF Gets
    <3>2. CASE results[l] \in Dead
      <4>1. results[l] # "unset" BY <3>2 DEF Dead
      <4>2. ~(l = j /\ e.cancel = Itself)
        <5>1. ~Owed(sq, chains, cq, l, Itself) BY <1>8, <2>4, <4>1, Zenon DEF Reported
        <5> QED BY <1>21, <5>1, Zenon
      <4> QED BY <1>14, <2>4, <3>2, <4>2, Zenon DEF Gets
    <3> QED BY <2>4, <3>1, <3>2, Zenon DEF Gets
  <2> QED BY <2>5 DEF l
<1>17. \A i \in Nodes : Tracked(node'[i], sq, chains, q, i)
  <2> SUFFICES ASSUME NEW i \in Nodes PROVE Tracked(node'[i], sq, chains, q, i) OBVIOUS
  <2>1. CASE i = j BY <1>3, <2>1 DEF Settles, q
  <2>2. CASE i # j
    <3>1. Tracked(node[i], sq, chains, cq, i) BY Zenon DEF GroupInv
    <3>2. Tracked(node[i], sq, chains, q, i) BY <1>2, <3>1, Zenon DEF Tracked
    <3>3. node'[i] = node[i] BY <1>3, <2>2, Zenon DEF Settles
    <3> QED BY <3>2, <3>3
  <2> QED BY <2>1, <2>2, Zenon
<1>18. phase' \in Phases /\ Awaited(node', pending', phase') /\ node' \in [Nodes -> Flags] BY <1>3, Zenon DEF Settles
<1>19. order' \in Orders /\ (phase' = "idle" => ran' = <<>>) BY <1>3, <1>5, SMTT(30) DEF GroupInv, Settles
<1>20. /\ Shared(sq', chains', cq', order', ran') /\ Reported(results', node', sq', chains', cq', phase')
       /\ Severed(results', cq', order') /\ \A i \in Nodes : Tracked(node'[i], sq', chains', cq', i)
  BY <1>2, <1>5, <1>15, <1>16, <1>17, SMTT(30)
<1> QED BY <1>18, <1>19, <1>20, Zenon DEF GroupInv

LEMMA GroupInit ==
  ASSUME Init
  PROVE  GroupInv
<1>1. /\ sq = <<>> /\ cq = <<>> /\ chains = {} /\ order = "none" /\ phase = "idle" /\ ran = <<>> /\ pending = 0
      /\ node = [i \in Nodes |-> Unlinked] /\ results = [i \in Group |-> "unset"]
  BY DEF Init
<1>2. <<>> \in Seq(Submitted) /\ <<>> \in Seq(Completed) /\ <<>> \in Seq(Group) /\ DOMAIN <<>> = {} OBVIOUS
<1>3. \A i, x : ~On(<<>>, i, x) /\ ~Within({}, i, x) BY <1>2, Zenon DEF On, Within
<1>4. Queued(<<>>, "none") BY <1>2, Zenon DEF Queued, Distinct, Linked
<1>5. Chained({}, "none") BY Zenon DEF Chained
<1>6. Apart(<<>>, {}, <<>>) BY <1>3, Zenon DEF Apart
<1>7. History(<<>>, {}, "none", <<>>) BY <1>2, <1>3, Zenon DEF History
<1>8. Distinct(<<>>) BY <1>2, Zenon DEF Distinct
<1>9. Shared(<<>>, {}, <<>>, "none", <<>>) BY <1>2, <1>4, <1>5, <1>6, <1>7, <1>8, ZenonT(40) DEF Shared
<1>10. Unlinked \in Flags /\ ~Unlinked.in /\ ~Unlinked.done /\ ~Unlinked.canceling /\ ~Unlinked.sent BY DEF Unlinked, Flags
<1>11. \A i, x : ~Owed(<<>>, {}, <<>>, i, x) BY <1>3, Zenon DEF Owed
<1>12. node \in [Nodes -> Flags] /\ \A i \in Nodes : node[i] = Unlinked BY <1>1, <1>10
<1>13. \A i \in Nodes : Tracked(node[i], <<>>, {}, <<>>, i) BY <1>10, <1>11, <1>12, Zenon DEF Tracked
<1>14. \A i \in Group : i \in Nodes BY Fits DEF Group, Nodes
<1>15. InFlight(node) = {} BY <1>10, <1>12, <1>14, Zenon DEF InFlight
<1>16. Awaited(node, pending, phase) BY <1>1, <1>15, FS_EmptySet, Zenon DEF Awaited
<1>17. results \in [Group -> Outcomes \cup {"unset"}] /\ \A i \in Group : results[i] = "unset" BY <1>1
<1>18. Reported(results, node, <<>>, {}, <<>>, phase)
  <2>1. Reported(results, node, <<>>, {}, <<>>, "idle") BY <1>11, <1>17, Zenon DEF Reported
  <2> QED BY <1>1, <2>1
<1>19. Severed(results, <<>>, "none") BY DEF Severed
<1>20. order \in Orders /\ phase \in Phases BY <1>1 DEF Orders, Phases
<1>21. /\ Shared(sq, chains, cq, order, ran) /\ Severed(results, cq, order)
       /\ Reported(results, node, sq, chains, cq, phase) /\ \A i \in Nodes : Tracked(node[i], sq, chains, cq, i)
  BY <1>1, <1>9, <1>13, <1>18, <1>19, SMTT(30)
<1> QED BY <1>1, <1>12, <1>16, <1>20, <1>21, SMTT(30) DEF GroupInv

LEMMA GroupStep ==
  ASSUME GroupInv, [Next]_vars
  PROVE  GroupInv'
<1>1. CASE UNCHANGED vars
  <2>1. UNCHANGED <<sq, cq, chains, order, phase, node, pending, results, ran>> BY <1>1 DEF vars
  <2> QED BY <2>1, GroupStays
<1>2. CASE Next
  <2>1. CASE \E c \in chains : Kill(c) \/ \E r \in Outcomes : Run(c, r) BY <2>1, GroupKill, GroupRun, Zenon
  <2>2. CASE \E o \in Orders : Submit(o) BY <2>2, GroupSubmit, Zenon
  <2>3. CASE \E i \in Group : Cancel(i) BY <2>3, GroupCancel, Zenon
  <2>4. CASE RequestStop
    <3>1. UNCHANGED <<sq, cq, chains, order, phase, node, pending, results, ran>> BY <2>4 DEF RequestStop
    <3> QED BY <3>1, GroupStays
  <2>5. CASE PollReturns
    <3>1. UNCHANGED <<sq, cq, chains, order, phase, node, pending, results, ran>> BY <2>5 DEF PollReturns
    <3> QED BY <3>1, GroupStays
  <2> QED BY <1>2, <2>1, <2>2, <2>3, <2>4, <2>5, GroupOther, GroupPoll, GroupHandle, GroupResume, Zenon DEF Next
<1> QED BY <1>1, <1>2, Zenon

\* The invariant of groups: what the ring owes a request, its flags say; pending counts the
\* linked nodes; a group is queued as a whole and goes to the kernel as one chain.
THEOREM GroupInductive == Spec => []GroupInv
<1> QED BY GroupInit, GroupStep, PTL DEF Spec

\* No completion reaches a destroyed node: the coroutine goes on when neither the ring nor
\* the kernel has anything of the group.
THEOREM GroupsOutlive == Spec => []NodesOutlive
<1>1. GroupInv => NodesOutlive
  <2> SUFFICES ASSUME GroupInv, phase # "joining", NEW i \in Group
               PROVE  /\ \A e \in Range(sq) \cup Range(cq) : e.op # i
                      /\ \A c \in chains : \A e \in Range(c) : e.op # i
    BY Zenon DEF NodesOutlive
  <2>1. ~Owed(sq, chains, cq, i, Itself) /\ ~Owed(sq, chains, cq, i, ItsCancel) BY NothingOwed, Zenon
  <2>2. sq \in Seq(Submitted) /\ cq \in Seq(Completed) /\ \A c \in chains : c \in Seq(Submitted)
    BY Zenon DEF GroupInv, Shared, Queued, Chained, ChainOk
  <2>3. \A e \in Submitted \cup Completed : e.cancel = Itself \/ e.cancel = ItsCancel
    BY DEF Submitted, Completed, Itself, ItsCancel
  <2>4. \A k \in DOMAIN sq : sq[k] \in Submitted BY <2>2
  <2>5. \A k \in DOMAIN cq : cq[k] \in Completed BY <2>2
  <2>6. \A c \in chains : \A k \in DOMAIN c : c[k] \in Submitted BY <2>2
  <2>7. ASSUME NEW e \in Range(sq) PROVE e.op # i
    <3>1. PICK k \in DOMAIN sq : e = sq[k] BY <2>7, Zenon DEF Range
    <3> QED BY <2>1, <2>3, <2>4, <3>1, Zenon DEF Owed, On
  <2>8. ASSUME NEW e \in Range(cq) PROVE e.op # i
    <3>1. PICK k \in DOMAIN cq : e = cq[k] BY <2>8, Zenon DEF Range
    <3> QED BY <2>1, <2>3, <2>5, <3>1, Zenon DEF Owed, On
  <2>9. ASSUME NEW c \in chains, NEW e \in Range(c) PROVE e.op # i
    <3>1. PICK k \in DOMAIN c : e = c[k] BY <2>9, Zenon DEF Range
    <3>2. ~On(c, i, Itself) /\ ~On(c, i, ItsCancel) BY <2>1, Zenon DEF Owed, Within
    <3> QED BY <2>3, <2>6, <3>1, <3>2, Zenon DEF On
  <2> QED BY <2>7, <2>8, <2>9, Zenon
<1> QED BY <1>1, GroupInductive, PTL

\* The coroutine gets every result; behind a failure of a soft chain there are only
\* cancellations, and a chain is executed in its order.
THEOREM ChainsComplete == Spec => []ChainWhole
<1>1. GroupInv => ChainWhole
  <2> SUFFICES ASSUME GroupInv PROVE ChainWhole OBVIOUS
  <2>1. ASSUME phase = "ready", NEW i \in Group PROVE results[i] # "unset"
    <3>1. ~node[i].in BY <2>1, NothingOwed
    <3>2. phase # "idle" BY <2>1
    <3> QED BY <3>1, <3>2, Zenon DEF GroupInv, Reported
  <2>2. ASSUME phase = "ready", order = "soft", NEW i \in 1..Size - 1, results[i] # "ok" PROVE results[i + 1] = "canceled"
    <3>1. i \in Group /\ i + 1 \in Group /\ i # Size BY Fits DEF Group
    <3>2. results[i] # "unset" BY <2>1, <2>2, <3>1, Zenon
    <3>3. results[i] \in Outcomes \cup {"unset"} BY <3>1 DEF GroupInv, Reported
    <3>4. results[i] \in Poor BY <2>2, <3>2, <3>3 DEF Poor, Outcomes
    <3>5. Gets(results, cq, i + 1, Dead) BY <2>2, <3>1, <3>4, Zenon DEF GroupInv, Severed, Gets
    <3>6. phase # "joining" BY <2>2
    <3>7. ~Says(cq, i + 1, Dead) BY <3>1, <3>6, NothingOwed, Zenon
    <3>8. results[i + 1] \in Dead BY <3>5, <3>7, Zenon DEF Gets
    <3> QED BY <3>8 DEF Dead
  <2>3. order # "none" => \A i, j \in DOMAIN ran : i < j => ran[i] < ran[j] BY Zenon DEF GroupInv, Shared, History
  <2> QED BY <2>1, <2>2, <2>3, Zenon DEF ChainWhole
<1> QED BY <1>1, GroupInductive, PTL
=============================================================================
