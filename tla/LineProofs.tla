----------------------------- MODULE LineProofs -----------------------------
(***************************************************************************)
(* Lemmas about channel<T> and mailbox<T> (Queues), for any number of      *)
(* tasks, loops and values and any capacity: the buffer and the line of    *)
(* waiting operations, what pushing and popping do to both, and how an     *)
(* operation that is served, or ends alone, keeps the invariant and the    *)
(* promise of a FIFO.                                                      *)
(***************************************************************************)
EXTENDS Queues, Functions, WellFoundedInduction, TLAPS

\* The buffer: what it holds are values, at most as many as there are slots.
Sound(r) ==
  /\ Capacity(r) \in Nat
  /\ r \in [slots : [0..Capacity(r) - 1 -> Optional], head : Nat, size : 0..Capacity(r)]
  /\ Capacity(r) # 0 => r.head < Capacity(r)
  /\ \A k \in 1..r.size : Contents(r)[k] \in Values

\* The value an operation sets out with.
Offer(w) == IF w = "recv" THEN "none" ELSE w

\* The state of a task agrees with what its node holds.
NodeOk(s, w, x, e, linked) ==
  /\ s = "idle" => w = "none" /\ x = "none" /\ e = "none"
  /\ s # "idle" => w # "none"
  /\ s \in {"asking", "parked"} => x = Offer(w) /\ e = "none"
  /\ s = "parked" => linked
  /\ linked => s \in {"parked", "done"}

\* The nodes in line all go in one direction, which the buffer is not ready for.  On a
\* channel a canceled node stays linked until its task resumes.
QueueInv ==
  /\ kind \in {"channel", "mailbox"} /\ closed \in BOOLEAN /\ Sound(ring)
  /\ line \in Seq(Tasks) /\ IsInjective(line) /\ (closed => line = <<>>)
  /\ st \in [Tasks -> {"idle", "asking", "parked", "mailed", "done"}]
  /\ want \in [Tasks -> Values \cup {"none", "recv"}] /\ value \in [Tasks -> Optional]
  /\ err \in [Tasks -> {"none", "canceled", "broken"}]
  /\ tok \in [Tasks -> BOOLEAN]
  /\ \A t \in Tasks : NodeOk(st[t], want[t], value[t], err[t], t \in Range(line))
  /\ \A t \in Range(line) : ring.size = IF Sends(t) THEN Capacity(ring) ELSE 0
  /\ \A t, u \in Range(line) : Sends(t) <=> Sends(u)
  /\ kind = "channel" => stopping \in BOOLEAN /\ \A t \in Tasks : st[t] \in {"idle", "parked", "done"}
  /\ kind = "mailbox" => \A t \in Range(line) : st[t] = "parked"

\* Zenon is the prover wherever no other one is named.
USE Zenon
-----------------------------------------------------------------------------
\* An index runs over the end of the slots at most once.
LEMMA Wraps ==
  ASSUME NEW n \in Nat \ {0}, NEW m \in Nat, m < 2 * n
  PROVE  m % n = IF m < n THEN m ELSE m - n
<1>1. CASE m < n BY <1>1, SMT
<1>2. CASE ~(m < n)
  <2>1. m = 1 * n + (m - n) /\ m - n \in 0..n - 1 BY <1>2, SMT
  <2> QED BY <1>2, <2>1, SMT
<1> QED BY <1>1, <1>2, SMT

\* A new buffer is empty.
LEMMA EmptyRingFacts ==
  ASSUME NEW n \in Capacities
  PROVE  Sound(EmptyRing(n)) /\ Contents(EmptyRing(n)) = <<>> /\ EmptyRing(n).size = 0
<1> DEFINE r == EmptyRing(n)
<1>0. n \in Nat /\ Capacities \subseteq Nat BY CapacityNat, SMT
<1>1. \A m \in Nat : 0..m - 1 = 0..n - 1 => m = n
  <2> SUFFICES ASSUME NEW m \in Nat, 0..m - 1 = 0..n - 1 PROVE m = n OBVIOUS
  <2>1. \A x \in Nat : \A y \in Nat : x < y => x \in 0..y - 1 /\ x \notin 0..x - 1 BY SMT
  <2>2. ~(m < n) /\ ~(n < m) BY <1>0, <2>1
  <2> QED BY <1>0, <2>2, SMT
<1>2. r.slots = [i \in 0..n - 1 |-> "none"] /\ r.head = 0 /\ r.size = 0 /\ DOMAIN r.slots = 0..n - 1
  BY SMT DEF EmptyRing
<1>3. Capacity(r) = n
  <2> HIDE DEF r
  <2>1. \A m \in Capacities : DOMAIN r.slots = 0..m - 1 <=> m = n BY <1>0, <1>1, <1>2
  <2> QED BY <2>1 DEF Capacity
<1>4. r \in [slots : [0..n - 1 -> Optional], head : Nat, size : 0..n] BY <1>0, SMT DEF EmptyRing, Optional
<1>5. Contents(r) = <<>>
  <2> HIDE DEF r
  <2> QED BY <1>2, SMT DEF Contents
<1>6. \A k \in 1..r.size : Contents(r)[k] \in Values
  <2> HIDE DEF r
  <2> QED BY <1>2, SMT
<1>7. n # 0 => 0 < n BY <1>0, SMT
<1> QED BY <1>0, <1>2, <1>3, <1>4, <1>5, <1>6, <1>7 DEF Sound

\* Sequences are equal if their elements are.
LEMMA SameSequence ==
  ASSUME NEW S, NEW s \in Seq(S), NEW t \in Seq(S), Len(s) = Len(t), \A i \in 1..Len(s) : s[i] = t[i]
  PROVE  s = t
BY SMT

\* A function on 1..n is a sequence of length n.
LEMMA AsSequence ==
  ASSUME NEW S, NEW n \in Nat, NEW f \in [1..n -> S]
  PROVE  f \in Seq(S) /\ Len(f) = n
BY SMT

\* The contents of a sound buffer.
LEMMA ContentsFacts ==
  ASSUME NEW r, Sound(r)
  PROVE  /\ Contents(r) \in Seq(Values) /\ Len(Contents(r)) = r.size
         /\ r.size \in Nat /\ Capacity(r) \in Nat /\ r.size <= Capacity(r)
         /\ Contents(r) = <<>> <=> r.size = 0
<1>1. r.size \in 0..Capacity(r) /\ Capacity(r) \in Nat /\ \A k \in 1..r.size : Contents(r)[k] \in Values
  BY DEF Sound
<1>2. r.size \in Nat /\ r.size <= Capacity(r) BY <1>1, SMT
<1>3. DOMAIN Contents(r) = 1..r.size /\ Contents(r) = [k \in 1..r.size |-> Contents(r)[k]] BY DEF Contents
<1>4. Contents(r) \in [1..r.size -> Values] BY <1>1, <1>3
<1>5. Contents(r) \in Seq(Values) /\ Len(Contents(r)) = r.size BY <1>2, <1>4, AsSequence
<1>6. Contents(r) = <<>> <=> r.size = 0 BY <1>5, SMT
<1> QED BY <1>1, <1>2, <1>5, <1>6

\* Two buffers with as many slots have the same capacity.
LEMMA SlotsFacts ==
  ASSUME NEW r, Sound(r), NEW d, DOMAIN d.slots = DOMAIN r.slots
  PROVE  Capacity(d) = Capacity(r)
BY DEF Capacity

\* push puts a value behind the others.
LEMMA RingPut ==
  ASSUME NEW r, Sound(r), r.size < Capacity(r), NEW v \in Values
  PROVE  /\ Sound(Put(r, v)) /\ Capacity(Put(r, v)) = Capacity(r) /\ Put(r, v).size = r.size + 1
         /\ Contents(Put(r, v)) = Append(Contents(r), v)
<1> DEFINE n == Capacity(r)
           h == r.head
           z == r.size
           d == Put(r, v)
           w == (h + z) % n
<1>1. /\ n \in Nat /\ r \in [slots : [0..n - 1 -> Optional], head : Nat, size : 0..n]
      /\ (n # 0 => h < n)
  BY DEF Sound
<1>2. n \in Nat \ {0} /\ z \in Nat /\ h \in Nat /\ h < n /\ z < n /\ r.slots \in [0..n - 1 -> Optional] BY <1>1, SMT
<1> DEFINE sl == [r.slots EXCEPT ![w] = v]
<1>3. d.slots = sl /\ d.head = h /\ d.size = z + 1 /\ d = [slots |-> d.slots, head |-> d.head, size |-> d.size]
  <2>1. d = [[r EXCEPT !.slots = sl] EXCEPT !.size = z + 1] BY DEF Put
  <2> HIDE DEF sl, d, n
  <2>2. d = [slots |-> sl, head |-> h, size |-> z + 1] BY <1>1, <2>1
  <2> QED BY <2>2, SMT
<1>4. DOMAIN d.slots = DOMAIN r.slots BY <1>3
<1>5. Capacity(d) = n BY <1>4, SlotsFacts
<1> HIDE DEF n, h, z, d
<1>6. w = (IF h + z < n THEN h + z ELSE h + z - n) /\ w \in 0..n - 1
  <2>1. h + z \in Nat /\ h + z < 2 * n BY <1>2, SMT
  <2> DEFINE m == h + z
  <2> HIDE DEF m
  <2>3. m % n = IF m < n THEN m ELSE m - n BY <1>2, <2>1, Wraps DEF m
  <2>2. w = (IF h + z < n THEN h + z ELSE (h + z) - n) BY <2>3 DEF m
  <2> HIDE DEF w
  <2> QED BY <1>2, <2>2, SMT
<1> HIDE DEF w
<1>7. d.slots \in [0..n - 1 -> Optional] BY <1>2, <1>3, <1>6 DEF Optional
<1>8. \A k \in 1..z : (h + k - 1) % n = (IF h + k - 1 < n THEN h + k - 1 ELSE (h + k - 1) - n)
  <2> SUFFICES ASSUME NEW k \in 1..z
               PROVE  (h + k - 1) % n = (IF h + k - 1 < n THEN h + k - 1 ELSE (h + k - 1) - n)
    OBVIOUS
  <2> DEFINE m == h + k - 1
  <2>1. m \in Nat /\ m < 2 * n BY <1>2, SMT
  <2> HIDE DEF m
  <2>2. m % n = IF m < n THEN m ELSE m - n BY <1>2, <2>1, Wraps
  <2> QED BY <2>2 DEF m
<1>9. \A k \in 1..z : (h + k - 1) % n # w /\ (h + k - 1) % n \in 0..n - 1
  <2> SUFFICES ASSUME NEW k \in 1..z PROVE (h + k - 1) % n # w /\ (h + k - 1) % n \in 0..n - 1
    OBVIOUS
  <2> DEFINE x == (h + k - 1) % n
  <2>1. x = (IF h + k - 1 < n THEN h + k - 1 ELSE (h + k - 1) - n) BY <1>8
  <2> HIDE DEF x
  <2>2. x # w /\ x \in 0..n - 1 BY <1>2, <1>6, <2>1, SMT
  <2> QED BY <2>2 DEF x
<1>10. /\ Contents(r) = [k \in 1..z |-> r.slots[(h + k - 1) % n]]
       /\ Contents(d) = [k \in 1..z + 1 |-> d.slots[(h + k - 1) % n]]
  BY <1>3, <1>5 DEF Contents, n, h, z
<1>11. Contents(r) \in Seq(Values) /\ Len(Contents(r)) = z BY ContentsFacts DEF z
<1>12. \A k \in 1..z : Contents(d)[k] = Contents(r)[k] /\ k \in 1..z + 1
  <2> SUFFICES ASSUME NEW k \in 1..z PROVE Contents(d)[k] = Contents(r)[k] /\ k \in 1..z + 1
    OBVIOUS
  <2>1. k \in 1..z + 1 BY <1>2, SMT
  <2>2. d.slots[(h + k - 1) % n] = r.slots[(h + k - 1) % n] BY <1>2, <1>3, <1>9
  <2> QED BY <1>10, <2>1, <2>2
<1>13. Contents(d)[z + 1] = v
  <2>1. z + 1 \in 1..z + 1 /\ h + (z + 1) - 1 = h + z BY <1>2, SMT
  <2>2. Contents(d)[z + 1] = d.slots[(h + (z + 1) - 1) % n] BY <1>10, <2>1
  <2>3. Contents(d)[z + 1] = d.slots[w] BY <2>1, <2>2 DEF w
  <2> QED BY <1>2, <1>3, <1>6, <2>3
<1>14. Contents(d) = Append(Contents(r), v)
  <2> DEFINE a == Contents(r)
             b == Contents(d)
  <2>1. DOMAIN b = 1..z + 1 /\ b = [k \in 1..z + 1 |-> b[k]] BY <1>10
  <2> HIDE DEF a, b
  <2>2. a \in Seq(Values) /\ Len(a) = z BY <1>11 DEF a
  <2>4. \A k \in 1..z + 1 : k = z + 1 \/ k \in 1..z BY <1>2, SMT
  <2>3. b \in [1..z + 1 -> Values]
    <3>2. \A k \in 1..z : a[k] \in Values BY <2>2, SMT
    <3>1. \A k \in 1..z : b[k] \in Values BY <1>12, <3>2 DEF a, b
    <3> QED BY <1>13, <2>1, <2>4, <3>1 DEF b
  <2>5. b \in Seq(Values) /\ Len(b) = z + 1 BY <1>2, <2>3, AsSequence, SMT
  <2>7. /\ Append(a, v) \in Seq(Values) /\ Len(Append(a, v)) = z + 1
        /\ (\A k \in 1..z : Append(a, v)[k] = a[k]) /\ Append(a, v)[z + 1] = v
    BY <1>2, <2>2, SMT
  <2>8. \A k \in 1..Len(b) : b[k] = Append(a, v)[k] BY <1>12, <1>13, <2>4, <2>5, <2>7 DEF a, b
  <2>6. b = Append(a, v) BY <2>5, <2>7, <2>8, SameSequence
  <2> QED BY <2>6 DEF a, b
<1>15. Append(Contents(r), v) \in Seq(Values) /\ Len(Append(Contents(r), v)) = z + 1 BY <1>2, <1>11, SMT
<1>16. \A k \in 1..d.size : Contents(d)[k] \in Values BY <1>2, <1>3, <1>14, <1>15, SMT
<1>17. d \in [slots : [0..n - 1 -> Optional], head : Nat, size : 0..n] BY <1>2, <1>3, <1>7, SMT
<1>18. Sound(d) BY <1>2, <1>3, <1>5, <1>16, <1>17 DEF Sound
<1> QED BY <1>3, <1>5, <1>14, <1>18 DEF d, n, z

\* pop takes the value in front, and leaves room for another.
LEMMA RingDrop ==
  ASSUME NEW r, Sound(r), r.size # 0
  PROVE  /\ Sound(Drop(r)) /\ Capacity(Drop(r)) = Capacity(r) /\ Drop(r).size = r.size - 1
         /\ Drop(r).size < Capacity(r)
         /\ Contents(r) # <<>> /\ First(r) = Head(Contents(r)) /\ First(r) \in Values
         /\ Contents(Drop(r)) = Tail(Contents(r))
<1> DEFINE n == Capacity(r)
           h == r.head
           z == r.size
           d == Drop(r)
           sl == [r.slots EXCEPT ![h] = "none"]
           w == (h + 1) % n
<1>1. /\ n \in Nat /\ r \in [slots : [0..n - 1 -> Optional], head : Nat, size : 0..n]
      /\ (n # 0 => h < n) /\ z # 0
  BY DEF Sound
<1>2. n \in Nat \ {0} /\ z \in Nat /\ z # 0 /\ h \in Nat /\ h < n /\ z <= n /\ r.slots \in [0..n - 1 -> Optional]
  BY <1>1, SMT
<1>3. d.slots = sl /\ d.head = w /\ d.size = z - 1 /\ d = [slots |-> d.slots, head |-> d.head, size |-> d.size]
  <2>1. d = [[[r EXCEPT !.slots = sl] EXCEPT !.head = w] EXCEPT !.size = z - 1]
    <3>1. ([r EXCEPT !.slots = sl]).head = h /\ ([[r EXCEPT !.slots = sl] EXCEPT !.head = w]).size = z
      <4> HIDE DEF sl, w, n
      <4> QED BY <1>1, SMT
    <3> QED BY <3>1 DEF Drop
  <2> HIDE DEF sl, d, n, w
  <2>2. d = [slots |-> sl, head |-> w, size |-> z - 1] BY <1>1, <2>1
  <2> QED BY <2>2, SMT
<1>4. DOMAIN d.slots = DOMAIN r.slots BY <1>3
<1>5. Capacity(d) = n BY <1>4, SlotsFacts
<1> HIDE DEF n, h, z, d
<1>6. w = (IF h + 1 < n THEN h + 1 ELSE 0) /\ w \in 0..n - 1
  <2> DEFINE m == h + 1
  <2>1. m \in Nat /\ m < 2 * n BY <1>2, SMT
  <2> HIDE DEF m
  <2>3. m % n = IF m < n THEN m ELSE m - n BY <1>2, <2>1, Wraps DEF m
  <2>2. w = (IF m < n THEN m ELSE m - n) BY <2>3 DEF m
  <2> HIDE DEF w
  <2> QED BY <1>2, <2>2, SMT DEF m
<1> HIDE DEF w
<1>7. d.slots \in [0..n - 1 -> Optional] BY <1>2, <1>3 DEF Optional
<1>8. \A k \in 1..z - 1 : (w + k - 1) % n = (h + (k + 1) - 1) % n /\ (w + k - 1) % n # h
  <2> SUFFICES ASSUME NEW k \in 1..z - 1
               PROVE  (w + k - 1) % n = (h + (k + 1) - 1) % n /\ (w + k - 1) % n # h
    OBVIOUS
  <2> DEFINE a == w + k - 1
             b == h + (k + 1) - 1
  <2>1. a \in Nat /\ a < 2 * n /\ b \in Nat /\ b < 2 * n BY <1>2, <1>6, SMT
  <2>2. (a = b \/ (a = b - n /\ n <= b)) /\ b # h /\ b # h + n BY <1>2, <1>6, SMT
  <2> HIDE DEF a, b
  <2>3. a % n = IF a < n THEN a ELSE a - n BY <1>2, <2>1, Wraps
  <2>4. b % n = IF b < n THEN b ELSE b - n BY <1>2, <2>1, Wraps
  <2> DEFINE x == a % n
             y == b % n
  <2>5. x = (IF a < n THEN a ELSE a - n) /\ y = (IF b < n THEN b ELSE b - n) BY <2>3, <2>4
  <2> HIDE DEF x, y
  <2>6. x = y /\ x # h BY <1>2, <2>1, <2>2, <2>5, SMT
  <2> QED BY <2>6 DEF a, b, x, y
<1>9. \A k \in 1..z - 1 : (w + k - 1) % n \in 0..n - 1
  <2> SUFFICES ASSUME NEW k \in 1..z - 1 PROVE (w + k - 1) % n \in 0..n - 1
    OBVIOUS
  <2> DEFINE a == w + k - 1
  <2>1. a \in Nat /\ a < 2 * n BY <1>2, <1>6, SMT
  <2> HIDE DEF a
  <2>2. a % n = IF a < n THEN a ELSE a - n BY <1>2, <2>1, Wraps
  <2>3. a % n \in 0..n - 1 BY <1>2, <2>1, <2>2, SMT
  <2> QED BY <2>3 DEF a
<1>10. /\ Contents(r) = [k \in 1..z |-> r.slots[(h + k - 1) % n]]
       /\ Contents(d) = [k \in 1..z - 1 |-> d.slots[(w + k - 1) % n]]
  BY <1>3, <1>5 DEF Contents, n, h, z
<1>11. Contents(r) \in Seq(Values) /\ Len(Contents(r)) = z BY ContentsFacts DEF z
<1>12. \A k \in 1..z - 1 : Contents(d)[k] = Contents(r)[k + 1]
  <2> SUFFICES ASSUME NEW k \in 1..z - 1 PROVE Contents(d)[k] = Contents(r)[k + 1]
    OBVIOUS
  <2>1. k + 1 \in 1..z BY <1>2, SMT
  <2>2. d.slots[(w + k - 1) % n] = r.slots[(w + k - 1) % n] BY <1>2, <1>3, <1>8, <1>9
  <2>3. Contents(d)[k] = r.slots[(h + (k + 1) - 1) % n] BY <1>8, <1>10, <2>2
  <2> QED BY <1>10, <2>1, <2>3
<1>13. First(r) = Contents(r)[1]
  <2>1. 1 \in 1..z /\ h + 1 - 1 = h BY <1>2, SMT
  <2>2. h % n = IF h < n THEN h ELSE h - n
    <3>1. h < 2 * n BY <1>2, SMT
    <3> QED BY <1>2, <3>1, Wraps
  <2>4. h % n = h BY <1>2, <2>2
  <2>5. Contents(r)[1] = r.slots[(h + 1 - 1) % n] BY <1>10, <2>1
  <2>3. Contents(r)[1] = r.slots[h] BY <2>1, <2>4, <2>5
  <2> QED BY <2>3 DEF First, h
<1>14. Contents(d) = Tail(Contents(r)) /\ Contents(r) # <<>> /\ First(r) = Head(Contents(r)) /\ First(r) \in Values
       /\ \A k \in 1..z - 1 : Contents(d)[k] \in Values
  <2> DEFINE a == Contents(r)
             b == Contents(d)
  <2>1. DOMAIN b = 1..z - 1 /\ b = [k \in 1..z - 1 |-> b[k]] BY <1>10
  <2> HIDE DEF a, b
  <2>2. a \in Seq(Values) /\ Len(a) = z BY <1>11 DEF a
  <2>3. \A k \in 1..z - 1 : b[k] = a[k + 1] BY <1>12 DEF a, b
  <2>4. a # <<>> /\ Head(a) = a[1] /\ Head(a) \in Values /\ Tail(a) \in Seq(Values) /\ Len(Tail(a)) = z - 1
        /\ (\A k \in 1..z - 1 : Tail(a)[k] = a[k + 1] /\ a[k + 1] \in Values) /\ z - 1 \in Nat
    BY <1>2, <2>2, SMT
  <2>5. b \in [1..z - 1 -> Values] BY <2>1, <2>3, <2>4
  <2>6. b \in Seq(Values) /\ Len(b) = z - 1 BY <2>4, <2>5, AsSequence
  <2>7. \A k \in 1..Len(b) : b[k] = Tail(a)[k] BY <2>3, <2>4, <2>6
  <2>8. b = Tail(a) BY <2>4, <2>6, <2>7, SameSequence
  <2> QED BY <1>13, <2>3, <2>4, <2>8 DEF a, b
<1>15. d \in [slots : [0..n - 1 -> Optional], head : Nat, size : 0..n]
  <2>1. w \in Nat /\ z - 1 \in 0..n BY <1>2, <1>6, SMT
  <2> QED BY <1>3, <1>7, <2>1
<1>16. w < n /\ z - 1 < n BY <1>2, <1>6, SMT
<1>17. Sound(d) BY <1>2, <1>3, <1>5, <1>14, <1>15, <1>16 DEF Sound
<1> QED BY <1>3, <1>5, <1>14, <1>16, <1>17 DEF d, n, z
-----------------------------------------------------------------------------
\* What is left of a queue when its first k nodes are unlinked.
LEMMA DropFacts ==
  ASSUME NEW s \in Seq(Tasks), IsInjective(s), NEW k \in 0..Len(s)
  PROVE  LET d == SubSeq(s, k + 1, Len(s))
         IN /\ d \in Seq(Tasks) /\ IsInjective(d)
            /\ \A e : e \in Range(d) <=> e \in Range(s) /\ \A i \in 1..k : e # s[i]
<1> DEFINE d == SubSeq(s, k + 1, Len(s))
<1>1. Len(s) \in Nat /\ DOMAIN s = 1..Len(s) /\ \A i \in 1..Len(s) : s[i] \in Tasks
  BY SMT
<1>2. /\ d \in Seq(Tasks) /\ DOMAIN d = 1..Len(s) - k
      /\ \A i \in 1..Len(s) - k : d[i] = s[k + i]
  <2>1. d \in Seq(Tasks) BY <1>1, SMT
  <2>2. Len(d) = Len(s) - k
    <3>1. CASE k = Len(s) BY <1>1, <3>1, SMT
    <3>2. CASE k + 1 <= Len(s) BY <1>1, <3>2, SMT
    <3>3. k = Len(s) \/ k + 1 <= Len(s)
      <4> DEFINE n == Len(s)
      <4>1. n \in Nat /\ k \in 0..n BY <1>1
      <4> HIDE DEF n
      <4>2. k = n \/ k + 1 <= n BY <4>1, SMT
      <4> QED BY <4>2 DEF n
    <3> QED BY <3>1, <3>2, <3>3
  <2>3. \A i \in 1..Len(s) - k : d[i] = s[k + i] BY <1>1, SMT
  <2>4. DOMAIN d = 1..Len(d) BY <2>1, SMT
  <2> QED BY <2>1, <2>2, <2>3, <2>4
<1> HIDE DEF d
<1>3. IsInjective(d)
  <2> SUFFICES ASSUME NEW i \in 1..Len(s) - k, NEW j \in 1..Len(s) - k, d[i] = d[j] PROVE i = j
    BY <1>2 DEF IsInjective
  <2>1. k + i \in 1..Len(s) /\ k + j \in 1..Len(s) /\ s[k + i] = s[k + j] BY <1>1, <1>2, SMT
  <2>2. k + i = k + j BY <1>1, <2>1 DEF IsInjective
  <2> QED BY <1>1, <2>2, SMT
<1>4. ASSUME NEW e, e \in Range(d) PROVE e \in Range(s) /\ \A i \in 1..k : e # s[i]
  <2>1. PICK j \in 1..Len(s) - k : e = s[k + j] BY <1>2, <1>4 DEF Range
  <2> QED BY <1>1, <2>1, SMT DEF Range, IsInjective
<1>5. ASSUME NEW e, e \in Range(s), \A i \in 1..k : e # s[i] PROVE e \in Range(d)
  <2>1. PICK j \in 1..Len(s) : e = s[j] BY <1>1, <1>5 DEF Range
  <2>2. j - k \in 1..Len(s) - k /\ d[j - k] = e BY <1>1, <1>2, <1>5, <2>1, SMT
  <2> QED BY <1>2, <2>2 DEF Range
<1> QED BY <1>2, <1>3, <1>4, <1>5 DEF d

\* One sequence after another.
LEMMA Concats ==
  ASSUME NEW S, NEW a \in Seq(S), NEW b \in Seq(S)
  PROVE  a \o b \in Seq(S) /\ Len(a \o b) = Len(a) + Len(b)
BY SMT

\* What is left when one node is unlinked.
LEMMA RemoveFacts ==
  ASSUME NEW s \in Seq(Tasks), IsInjective(s), NEW k \in 1..Len(s)
  PROVE  LET d == SubSeq(s, 1, k - 1) \o SubSeq(s, k + 1, Len(s))
         IN d \in Seq(Tasks) /\ IsInjective(d) /\ \A e : e \in Range(d) <=> e \in Range(s) /\ e # s[k]
<1> DEFINE a == SubSeq(s, 1, k - 1)
           b == SubSeq(s, k + 1, Len(s))
           d == a \o b
<1>1. Len(s) \in Nat /\ DOMAIN s = 1..Len(s) /\ \A i \in 1..Len(s) : s[i] \in Tasks
  BY SMT
<1>2. a \in Seq(Tasks) /\ Len(a) = k - 1 /\ \A i \in 1..k - 1 : a[i] = s[i]
  BY <1>1, SMT
<1>3. b \in Seq(Tasks) /\ Len(b) = Len(s) - k /\ \A i \in 1..Len(s) - k : b[i] = s[k + i]
  <2>1. Len(b) = IF k + 1 <= Len(s) THEN Len(s) - (k + 1) + 1 ELSE 0 BY <1>1, SMT
  <2>2. b \in Seq(Tasks) BY <1>1, SMT
  <2>3. ASSUME NEW i \in 1..Len(s) - k PROVE b[i] = s[k + i] BY <1>1, SMT
  <2> HIDE DEF b
  <2>4. Len(b) = Len(s) - k
    <3>1. CASE k + 1 <= Len(s)
      <4>1. Len(b) = Len(s) - (k + 1) + 1 BY <2>1, <3>1
      <4> QED BY <1>1, <4>1, SMT
    <3>2. CASE ~(k + 1 <= Len(s))
      <4>1. Len(b) = 0 BY <2>1, <3>2
      <4>2. \A n \in Nat : \A m \in 1..n : ~(m + 1 <= n) => n - m = 0 BY SMT
      <4>3. Len(s) - k = 0 BY <1>1, <3>2, <4>2
      <4> QED BY <4>1, <4>3
    <3> QED BY <3>1, <3>2
  <2> QED BY <2>2, <2>3, <2>4
<1> HIDE DEF a, b
<1>4. /\ d \in Seq(Tasks) /\ DOMAIN d = 1..Len(s) - 1
      /\ \A i \in 1..Len(s) - 1 : d[i] = IF i <= k - 1 THEN a[i] ELSE b[i - (k - 1)]
  <2>1. d \in Seq(Tasks) /\ Len(d) = Len(a) + Len(b) BY <1>2, <1>3, Concats
  <2>2. \A i \in 1..Len(a) + Len(b) : d[i] = IF i <= Len(a) THEN a[i] ELSE b[i - Len(a)]
    BY <1>2, <1>3, SMT
  <2>3. Len(a) + Len(b) = Len(s) - 1 BY <1>1, <1>2, <1>3, SMT
  <2> HIDE DEF d
  <2>4. DOMAIN d = 1..Len(s) - 1 BY <2>1, <2>3, SMT
  <2> QED BY <1>2, <2>1, <2>2, <2>3, <2>4
<1> HIDE DEF d
<1>5. \A i \in 1..Len(s) - 1 : d[i] = IF i < k THEN s[i] ELSE s[i + 1]
  <2> SUFFICES ASSUME NEW i \in 1..Len(s) - 1 PROVE d[i] = IF i < k THEN s[i] ELSE s[i + 1]
    OBVIOUS
  <2>1. CASE i < k BY <1>1, <1>2, <1>4, <2>1, SMT
  <2>2. CASE ~(i < k)
    <3>1. i - (k - 1) \in 1..Len(s) - k /\ k + (i - (k - 1)) = i + 1 BY <1>1, <2>2, SMT
    <3>2. b[i - (k - 1)] = s[i + 1] BY <1>3, <3>1
    <3>3. d[i] = b[i - (k - 1)] BY <1>1, <1>4, <2>2, SMT
    <3> QED BY <2>2, <3>2, <3>3
  <2> QED BY <2>1, <2>2
<1>6. IsInjective(d)
  <2> SUFFICES ASSUME NEW i \in 1..Len(s) - 1, NEW j \in 1..Len(s) - 1, d[i] = d[j] PROVE i = j
    BY <1>4 DEF IsInjective
  <2> DEFINE at(x) == IF x < k THEN x ELSE x + 1
  <2>1. at(i) \in 1..Len(s) /\ at(j) \in 1..Len(s) BY <1>1, SMT
  <2>2. s[at(i)] = s[at(j)] BY <1>5
  <2>3. at(i) = at(j) BY <1>1, <2>1, <2>2 DEF IsInjective
  <2> QED BY <1>1, <2>3, SMT
<1>7. ASSUME NEW e, e \in Range(d) PROVE e \in Range(s) /\ e # s[k]
  <2>1. PICK j \in 1..Len(s) - 1 : e = d[j] BY <1>4, <1>7 DEF Range
  <2> QED BY <1>1, <1>5, <2>1, SMT DEF Range, IsInjective
<1>8. ASSUME NEW e, e \in Range(s), e # s[k] PROVE e \in Range(d)
  <2>1. PICK j \in 1..Len(s) : e = s[j] BY <1>1, <1>8 DEF Range
  <2>2. CASE j < k
    <3>1. j \in 1..Len(s) - 1 /\ d[j] = e BY <1>1, <1>5, <2>1, <2>2, SMT
    <3> QED BY <1>4, <3>1 DEF Range
  <2>3. CASE j > k
    <3>1. j - 1 \in 1..Len(s) - 1 /\ d[j - 1] = e BY <1>1, <1>5, <2>1, <2>3, SMT
    <3> QED BY <1>4, <3>1 DEF Range
  <2> QED BY <1>8, <2>1, <2>2, <2>3, SMT
<1> QED BY <1>4, <1>6, <1>7, <1>8 DEF d, a, b

\* A set of numbers that is not empty has a least one.
LEMMA Least ==
  ASSUME NEW T \in SUBSET Nat, T # {}
  PROVE  \E m \in T : \A j \in T : m <= j
<1>1. PICK m \in T : \A j \in T : ~(<<j, m>> \in OpToRel(<, Nat))
  BY NatLessThanWellFounded, WFMin
<1>2. ASSUME NEW j \in T PROVE m <= j
  <2>1. <<j, m>> \in Nat \X Nat /\ <<j, m>>[1] = j /\ <<j, m>>[2] = m OBVIOUS
  <2>2. ~(j < m) BY <1>1, <2>1 DEF OpToRel
  <2> QED BY <2>2, SMT
<1> QED BY <1>2

\* P are the prefixes of s without a node of L, and the longest of them ends in front of
\* the first node of L.
Prefixes(P, s, L) == \A k : k \in P <=> k \in 0..Len(s) /\ \A i \in 1..k : s[i] \notin L
Longest(P) == CHOOSE k \in P : \A j \in P : j <= k
AtFront(n, s, L) ==
  n \in 0..Len(s) /\ (\A i \in 1..n : s[i] \notin L) /\ (n < Len(s) => s[n + 1] \in L)

LEMMA FrontFacts ==
  ASSUME NEW s \in Seq(Tasks), NEW L, NEW P, Prefixes(P, s, L)
  PROVE  AtFront(Longest(P), s, L)
<1> USE DEF Prefixes
<1> DEFINE n == Longest(P)
           live == {i \in 1..Len(s) : s[i] \in L}
<1>1. Len(s) \in Nat BY SMT
<1>2. \E k \in P : \A j \in P : j <= k
  <2>1. CASE live = {}
    <3>1. Len(s) \in P BY <1>1, <2>1, SMT
    <3> QED BY <1>1, <3>1, SMT
  <2>2. CASE live # {}
    <3>1. live \in SUBSET Nat BY <1>1, SMT
    <3>2. PICK m \in live : \A j \in live : m <= j BY <2>2, <3>1, Least
    <3>3. m \in 1..Len(s) /\ s[m] \in L BY <3>2, SMT
    <3>4. m - 1 \in 0..Len(s) BY <1>1, <3>3, SMT
    <3>5. \A i \in 1..m - 1 : s[i] \notin L BY <1>1, <3>2, <3>3, SMT
    <3>6. m - 1 \in P BY <3>4, <3>5
    <3>7. \A j \in P : j <= m - 1
      <4> SUFFICES ASSUME NEW j \in P PROVE j <= m - 1 OBVIOUS
      <4>1. j \in 0..Len(s) /\ \A i \in 1..j : s[i] \notin L OBVIOUS
      <4>2. m \notin 1..j BY <3>3, <4>1
      <4> QED BY <1>1, <3>3, <4>1, <4>2, SMT
    <3> QED BY <3>6, <3>7
  <2> QED BY <2>1, <2>2
<1>3. n \in P /\ \A j \in P : j <= n BY <1>2 DEF Longest
<1> HIDE DEF n
<1>4. n \in 0..Len(s) /\ \A i \in 1..n : s[i] \notin L BY <1>3
<1>5. n < Len(s) => s[n + 1] \in L
  <2> SUFFICES ASSUME n < Len(s), s[n + 1] \notin L PROVE FALSE OBVIOUS
  <2>1. n + 1 \in 0..Len(s) /\ ~(n + 1 <= n) BY <1>1, <1>4, SMT
  <2>2. \A i \in 1..n + 1 : i \in 1..n \/ i = n + 1 BY <1>1, <1>4, SMT
  <2>3. n + 1 \in P BY <1>4, <2>1, <2>2
  <2> QED BY <1>3, <2>1, <2>3
<1> QED BY <1>4, <1>5 DEF n, AtFront

\* take and front once they have skipped n nodes.
FrontOf(n, sending) ==
  LET match == IF n < Len(line) /\ Sends(line[n + 1]) = sending THEN {line[n + 1]} ELSE {}
  IN [pruned |-> {line[i] : i \in 1..n} \cap {t \in Tasks : st[t] = "parked"},
      match |-> match,
      line |-> SubSeq(line, IF match = {} THEN n + 1 ELSE n + 2, Len(line))]

\* What take and front do to the line: L are the live nodes.
TakeOk(k, L, sending) ==
  /\ k.line \in Seq(Tasks) /\ IsInjective(k.line)
  /\ k.pruned \subseteq Range(line) \ L /\ k.match \subseteq Range(line) \cap L
  /\ \A u \in k.pruned : st[u] = "parked"
  /\ (\A u, v \in k.match : u = v) /\ (\A u \in k.match : Sends(u) = sending)
  /\ k.match = {} => \A u \in Range(k.line) : Sends(u) # sending
  /\ \A u \in Range(k.line) : u \in Range(line) /\ u \notin k.pruned \cup k.match
  /\ \A u \in Range(line) : st[u] = "parked" => u \in Range(k.line) \cup k.pruned \cup k.match
  /\ \A i, j \in 1..Len(line) :
       i < j /\ line[j] \in k.match /\ st[line[i]] = "parked" => line[i] \in k.pruned

LEMMA FrontTaken ==
  ASSUME QueueInv, NEW L, NEW sending \in BOOLEAN, NEW n, AtFront(n, line, L)
  PROVE  TakeOk(FrontOf(n, sending), L, sending)
<1>0. n \in 0..Len(line) /\ (\A i \in 1..n : line[i] \notin L) /\ (n < Len(line) => line[n + 1] \in L)
  BY DEF AtFront
<1> USE <1>0
<1> DEFINE k == FrontOf(n, sending)
           match == IF n < Len(line) /\ Sends(line[n + 1]) = sending THEN {line[n + 1]} ELSE {}
           m == IF match = {} THEN n ELSE n + 1
<1>1. line \in Seq(Tasks) /\ IsInjective(line) /\ (\A t, u \in Range(line) : Sends(t) <=> Sends(u))
  BY DEF QueueInv
<1>2. Len(line) \in Nat /\ DOMAIN line = 1..Len(line) /\ \A i \in 1..Len(line) : line[i] \in Tasks BY <1>1, SMT
<1>3. \A i \in 1..Len(line) : line[i] \in Range(line) BY <1>2 DEF Range
<1>4. \A i, j \in 1..Len(line) : line[i] = line[j] => i = j BY <1>1, <1>2 DEF IsInjective
<1>5. /\ k.pruned = {line[i] : i \in 1..n} \cap {t \in Tasks : st[t] = "parked"}
      /\ k.match = match /\ k.line = SubSeq(line, IF match = {} THEN n + 1 ELSE n + 2, Len(line))
  BY DEF FrontOf
<1> HIDE DEF k
<1>6. /\ (match = {} /\ m = n) \/ (n + 1 \in 1..Len(line) /\ match = {line[n + 1]} /\ m = n + 1)
      /\ (IF match = {} THEN n + 1 ELSE n + 2) = m + 1 /\ m \in 0..Len(line)
  <2>1. CASE n < Len(line) /\ Sends(line[n + 1]) = sending
    <3>1. match = {line[n + 1]} BY <2>1
    <3> HIDE DEF match
    <3> QED BY <1>2, <2>1, <3>1, SMT
  <2>2. CASE ~(n < Len(line) /\ Sends(line[n + 1]) = sending)
    <3>1. match = {} BY <2>2
    <3> HIDE DEF match
    <3> QED BY <1>2, <3>1, SMT
  <2> QED BY <2>1, <2>2
<1>7. (\A u \in match : Sends(u) = sending) /\ (\A u \in match : u \in L)
      /\ (match = {} => ~(n < Len(line) /\ Sends(line[n + 1]) = sending))
  OBVIOUS
<1> HIDE DEF match, m
<1>8. /\ k.line \in Seq(Tasks) /\ IsInjective(k.line)
      /\ \A e : e \in Range(k.line) <=> e \in Range(line) /\ \A i \in 1..m : e # line[i]
  <2>1. k.line = SubSeq(line, m + 1, Len(line)) BY <1>5, <1>6
  <2>2. m \in 0..Len(line) BY <1>6
  <2>3. LET d == SubSeq(line, m + 1, Len(line))
        IN /\ d \in Seq(Tasks) /\ IsInjective(d)
           /\ \A e : e \in Range(d) <=> e \in Range(line) /\ \A i \in 1..m : e # line[i]
    BY <1>1, <2>2, DropFacts
  <2> QED BY <2>1, <2>3
<1>9. \A i \in 1..n : i \in 1..m /\ i \in 1..Len(line) BY <1>2, <1>6, SMT
<1>10. k.pruned \subseteq Range(line) \ L /\ \A u \in k.pruned : st[u] = "parked"
  BY <1>3, <1>5, <1>9
<1>11. k.match \subseteq Range(line) \cap L /\ (\A u, v \in k.match : u = v) /\ \A u \in k.match : Sends(u) = sending
  BY <1>3, <1>5, <1>6, <1>7
<1>12. \A u \in Range(k.line) : u \in Range(line) /\ u \notin k.pruned \cup k.match
  <2> SUFFICES ASSUME NEW u \in Range(k.line) PROVE u \notin k.pruned /\ u \notin k.match
    BY <1>8
  <2>4. \A i \in 1..m : u # line[i] BY <1>8
  <2>1. u \notin k.pruned BY <1>5, <1>9, <2>4
  <2>2. match # {} => n + 1 \in 1..m BY <1>2, <1>6, SMT
  <2>3. u \notin k.match BY <1>5, <1>6, <2>2, <2>4
  <2> QED BY <2>1, <2>3
<1>13. k.match = {} => \A u \in Range(k.line) : Sends(u) # sending
  <2> SUFFICES ASSUME k.match = {}, NEW u \in Range(k.line) PROVE Sends(u) # sending
    OBVIOUS
  <2>1. m = n BY <1>5, <1>6
  <2>8. u \in Range(line) BY <1>8
  <2>2. PICK j \in 1..Len(line) : u = line[j] BY <1>2, <2>8 DEF Range
  <2>3. j \notin 1..n BY <1>8, <2>1, <2>2
  <2>4. n < Len(line) /\ n + 1 \in 1..Len(line) BY <1>2, <2>2, <2>3, SMT
  <2>5. Sends(line[n + 1]) # sending BY <1>5, <1>7, <2>4
  <2>6. Sends(u) <=> Sends(line[n + 1]) BY <1>1, <1>3, <2>2, <2>4
  <2>7. Sends(u) \in BOOLEAN /\ Sends(line[n + 1]) \in BOOLEAN BY DEF Sends
  <2> QED BY <2>5, <2>6, <2>7
<1>14. \A u \in Range(line) : st[u] = "parked" => u \in Range(k.line) \cup k.pruned \cup k.match
  <2> SUFFICES ASSUME NEW u \in Range(line), st[u] = "parked", u \notin Range(k.line)
               PROVE  u \in k.pruned \cup k.match
    OBVIOUS
  <2>1. PICK i \in 1..m : u = line[i] BY <1>8
  <2>2. i \in 1..n \/ (i = n + 1 /\ m = n + 1) BY <1>2, <1>6, <2>1, SMT
  <2>3. CASE i \in 1..n BY <1>2, <1>5, <1>9, <2>1, <2>3
  <2>4. CASE i = n + 1 /\ m = n + 1
    <3>1. m # n BY <2>4, SMT
    <3> QED BY <1>5, <1>6, <2>1, <2>4, <3>1
  <2> QED BY <2>2, <2>3, <2>4
<1>15. \A i, j \in 1..Len(line) :
         i < j /\ line[j] \in k.match /\ st[line[i]] = "parked" => line[i] \in k.pruned
  <2> SUFFICES ASSUME NEW i \in 1..Len(line), NEW j \in 1..Len(line), i < j, line[j] \in k.match,
                      st[line[i]] = "parked"
               PROVE  line[i] \in k.pruned
    OBVIOUS
  <2>1. n + 1 \in 1..Len(line) /\ line[j] = line[n + 1] BY <1>5, <1>6
  <2>2. j = n + 1 BY <1>4, <2>1
  <2>3. i \in 1..n BY <1>2, <2>2, SMT
  <2> QED BY <1>2, <1>5, <2>3
<1> QED BY <1>8, <1>10, <1>11, <1>12, <1>13, <1>14, <1>15 DEF TakeOk, k
-----------------------------------------------------------------------------
\* push and pop once take or front has returned k.
PushOf(k, v) ==
  LET room == k.match = {} /\ ~Full(ring)
  IN [line |-> k.line, pruned |-> k.pruned, met |-> k.match,
      ok |-> k.match # {} \/ room,
      ring |-> IF room THEN Put(ring, v) ELSE ring,
      value |-> v]

PopOf(k) ==
  LET some == ring.size # 0
      given == IF k.match = {} THEN "none" ELSE value[CHOOSE t \in k.match : TRUE]
      left == IF some THEN Drop(ring) ELSE ring
  IN [line |-> k.line, pruned |-> k.pruned, met |-> k.match,
      ok |-> some \/ k.match # {},
      ring |-> IF some /\ k.match # {} THEN Put(left, given) ELSE left,
      value |-> IF some THEN First(ring) ELSE given]

\* What push and pop do to the line.
Cleared(r, sending) ==
  /\ r.line \in Seq(Tasks) /\ IsInjective(r.line)
  /\ r.pruned \cap r.met = {} /\ r.pruned \subseteq Range(line) /\ r.met \subseteq Range(line)
  /\ \A u \in r.pruned \cup r.met : st[u] = "parked"
  /\ (\A u, w \in r.met : u = w) /\ (\A u \in r.met : Sends(u) # sending)
  /\ \A u \in Range(r.line) : u \in Range(line) /\ u \notin r.pruned \cup r.met
  /\ \A u \in Range(line) : st[u] = "parked" => u \in Range(r.line) \cup r.pruned \cup r.met
  /\ \A i, j \in 1..Len(line) :
       i < j /\ line[j] \in r.met /\ st[line[i]] = "parked" => line[i] \in r.pruned

\* What they do to the buffer, and whom they leave in line.
Agreed(r, sending) ==
  /\ Sound(r.ring) /\ Capacity(r.ring) = Capacity(ring)
  /\ \A u \in Range(r.line) : r.ring.size = IF Sends(u) THEN Capacity(ring) ELSE 0
  /\ r.ok \in BOOLEAN
  /\ ~r.ok => /\ r.met = {} /\ r.ring = ring /\ ring.size = (IF sending THEN Capacity(ring) ELSE 0)
              /\ \A u \in Range(r.line) : Sends(u) = sending

\* What goes through the queue: the value v of a send, or of a sender to a receive.
Passed(r, sending, v) ==
  /\ sending => r.value = v /\ v \in Values
  /\ ~sending => r.value \in Optional /\ (r.ok <=> r.value # "none")
  /\ r.ok /\ sending =>
       IF r.met = {} THEN Contents(r.ring) = Append(Contents(ring), v)
       ELSE Contents(ring) = <<>> /\ Contents(r.ring) = <<>>
  /\ r.ok /\ ~sending /\ r.met = {} =>
       /\ Contents(ring) # <<>> /\ Contents(r.ring) = Tail(Contents(ring))
       /\ r.value = Head(Contents(ring))
  /\ ~sending => \A u \in r.met : LET seq == Append(Contents(ring), want[u])
                                  IN Contents(r.ring) = Tail(seq) /\ r.value = Head(seq)

LEMMA TakenClears ==
  ASSUME NEW L, NEW sending \in BOOLEAN, NEW k, TakeOk(k, L, ~sending), NEW r,
         \A u \in Range(line) \cap L : st[u] = "parked",
         r.line = k.line, r.pruned = k.pruned, r.met = k.match
  PROVE  Cleared(r, sending)
<1>1. r.pruned \cap r.met = {} /\ r.pruned \subseteq Range(line) /\ r.met \subseteq Range(line)
  BY DEF TakeOk
<1>2. \A u \in r.pruned \cup r.met : st[u] = "parked" BY DEF TakeOk
<1>3. \A u \in r.met : Sends(u) # sending
  <2> SUFFICES ASSUME NEW u \in r.met PROVE Sends(u) # sending OBVIOUS
  <2>1. Sends(u) = ~sending BY DEF TakeOk
  <2> QED BY <2>1
<1> QED BY <1>1, <1>2, <1>3 DEF TakeOk, Cleared

LEMMA PushServes ==
  ASSUME QueueInv, NEW L, NEW k, TakeOk(k, L, FALSE), NEW v \in Values,
         \A u \in Range(line) \cap L : st[u] = "parked"
  PROVE  LET r == PushOf(k, v) IN Cleared(r, TRUE) /\ Agreed(r, TRUE) /\ Passed(r, TRUE, v)
<1> DEFINE r == PushOf(k, v)
           room == k.match = {} /\ ~Full(ring)
<1>1. /\ r.line = k.line /\ r.pruned = k.pruned /\ r.met = k.match /\ r.ok = (k.match # {} \/ room)
      /\ r.ring = (IF room THEN Put(ring, v) ELSE ring) /\ r.value = v
  BY DEF PushOf
<1> HIDE DEF r
<1>2. Cleared(r, TRUE)
  <2>1. TakeOk(k, L, ~TRUE)
    <3>1. FALSE = ~TRUE BY SMT
    <3> QED BY <3>1
  <2> QED BY <1>1, <2>1, TakenClears
<1>3. Sound(ring) /\ \A t \in Range(line) : ring.size = IF Sends(t) THEN Capacity(ring) ELSE 0
  BY DEF QueueInv
<1>4. /\ Contents(ring) \in Seq(Values) /\ Len(Contents(ring)) = ring.size /\ ring.size \in Nat
      /\ Capacity(ring) \in Nat /\ ring.size <= Capacity(ring) /\ (Contents(ring) = <<>> <=> ring.size = 0)
  BY <1>3, ContentsFacts
<1>5. \A u \in Range(k.line) : u \in Range(line) BY DEF TakeOk
<1>6. r.ok \in BOOLEAN BY <1>1
<1>7. CASE k.match # {}
  <2>1. r.ring = ring /\ r.ok BY <1>1, <1>7
  <2>2. PICK u : u \in k.match BY <1>7
  <2>3. u \in Range(line) /\ ~Sends(u) BY <2>2 DEF TakeOk
  <2>4. ring.size = 0 BY <1>3, <2>3
  <2>5. Agreed(r, TRUE) BY <1>1, <1>3, <1>5, <2>1 DEF Agreed
  <2>6. Passed(r, TRUE, v) BY <1>1, <1>4, <1>7, <2>1, <2>4 DEF Passed
  <2> QED BY <1>2, <2>5, <2>6 DEF r
<1>8. CASE room
  <2>1. ring.size # Capacity(ring) BY <1>8 DEF Full
  <2>2. ring.size < Capacity(ring) BY <1>4, <2>1, SMT
  <2>3. r.ring = Put(ring, v) /\ r.ok /\ r.met = {} BY <1>1, <1>8
  <2>4. Sound(r.ring) /\ Capacity(r.ring) = Capacity(ring) /\ Contents(r.ring) = Append(Contents(ring), v)
    BY <1>3, <2>2, <2>3, RingPut
  <2>5. \A u \in Range(r.line) : FALSE
    <3> SUFFICES ASSUME NEW u \in Range(r.line) PROVE FALSE OBVIOUS
    <3>1. u \in Range(line) /\ Sends(u) # FALSE BY <1>1, <1>5, <1>8 DEF TakeOk
    <3>2. Sends(u) BY <3>1 DEF Sends
    <3> QED BY <1>3, <2>1, <3>1, <3>2
  <2>6. Agreed(r, TRUE) BY <2>3, <2>4, <2>5 DEF Agreed
  <2>7. Passed(r, TRUE, v) BY <1>1, <2>3, <2>4 DEF Passed
  <2> QED BY <1>2, <2>6, <2>7 DEF r
<1>9. CASE k.match = {} /\ ~room
  <2>1. r.ring = ring /\ ~r.ok /\ r.met = {} BY <1>1, <1>9
  <2>2. ring.size = Capacity(ring) BY <1>9 DEF Full
  <2>3. \A u \in Range(r.line) : u \in Range(line) /\ Sends(u) = TRUE
    <3> SUFFICES ASSUME NEW u \in Range(r.line) PROVE u \in Range(line) /\ Sends(u) = TRUE OBVIOUS
    <3>1. u \in Range(line) /\ Sends(u) # FALSE BY <1>1, <1>5, <1>9 DEF TakeOk
    <3> QED BY <3>1 DEF Sends
  <2>4. Agreed(r, TRUE) BY <1>3, <1>6, <2>1, <2>2, <2>3 DEF Agreed
  <2>5. Passed(r, TRUE, v) BY <1>1, <2>1 DEF Passed
  <2> QED BY <1>2, <2>4, <2>5 DEF r
<1> QED BY <1>7, <1>8, <1>9

\* A sequence with a value behind it, without the value in front.
LEMMA ShiftFacts ==
  ASSUME NEW q \in Seq(Values), NEW v \in Values
  PROVE  /\ Append(q, v) # <<>> /\ (q # <<>> => Head(Append(q, v)) = Head(q) /\ Tail(Append(q, v)) = Append(Tail(q), v))
         /\ (q = <<>> => Head(Append(q, v)) = v /\ Tail(Append(q, v)) = <<>>)
<1>1. CASE q = <<>>
  <2>1. Append(q, v) = <<v>> BY <1>1, SMT
  <2> QED BY <1>1, <2>1, SMT
<1>2. CASE q # <<>>
  <2> DEFINE a == Tail(Append(q, v))
             b == Append(Tail(q), v)
  <2>1. Append(q, v) \in Seq(Values) /\ Append(q, v) # <<>> /\ Len(Append(q, v)) = Len(q) + 1 /\ Len(q) \in Nat \ {0}
    BY <1>2, SMT
  <2>2. Head(Append(q, v)) = Head(q) BY <1>2, SMT
  <2>3. a \in Seq(Values) /\ Len(a) = Len(q) BY <2>1, SMT
  <2>4. b \in Seq(Values) /\ Len(b) = Len(q) BY <1>2, SMT
  <2>5. \A i \in 1..Len(q) : a[i] = b[i] BY <1>2, <2>1, SMT
  <2> HIDE DEF a, b
  <2>6. a = b BY <2>3, <2>4, <2>5, SameSequence
  <2> QED BY <1>2, <2>1, <2>2, <2>6 DEF a, b
<1> QED BY <1>1, <1>2

LEMMA PopServes ==
  ASSUME QueueInv, NEW L, NEW k, TakeOk(k, L, TRUE),
         \A u \in Range(line) \cap L : st[u] = "parked"
  PROVE  LET r == PopOf(k) IN Cleared(r, FALSE) /\ Agreed(r, FALSE) /\ Passed(r, FALSE, "none")
<1> DEFINE r == PopOf(k)
           some == ring.size # 0
           given == IF k.match = {} THEN "none" ELSE value[CHOOSE t \in k.match : TRUE]
           left == IF some THEN Drop(ring) ELSE ring
<1>1. /\ r.line = k.line /\ r.pruned = k.pruned /\ r.met = k.match /\ r.ok = (some \/ k.match # {})
      /\ r.ring = (IF some /\ k.match # {} THEN Put(left, given) ELSE left)
      /\ r.value = IF some THEN First(ring) ELSE given
  BY DEF PopOf
<1> HIDE DEF r
<1>2. Cleared(r, FALSE)
  <2>1. TakeOk(k, L, ~FALSE)
    <3>1. TRUE = ~FALSE BY SMT
    <3> QED BY <3>1
  <2> QED BY <1>1, <2>1, TakenClears
<1>3. Sound(ring) /\ \A t \in Range(line) : ring.size = IF Sends(t) THEN Capacity(ring) ELSE 0
  BY DEF QueueInv
<1>4. /\ Contents(ring) \in Seq(Values) /\ Len(Contents(ring)) = ring.size /\ ring.size \in Nat
      /\ Capacity(ring) \in Nat /\ ring.size <= Capacity(ring) /\ (Contents(ring) = <<>> <=> ring.size = 0)
  BY <1>3, ContentsFacts
<1>5. \A u \in Range(k.line) : u \in Range(line) BY DEF TakeOk
<1>6. r.ok \in BOOLEAN BY <1>1
<1>7. "none" \notin Values BY ValuesPlain, SMT
<1>8. some => /\ Sound(Drop(ring)) /\ Capacity(Drop(ring)) = Capacity(ring) /\ Drop(ring).size = ring.size - 1
              /\ Drop(ring).size < Capacity(ring)
              /\ Contents(ring) # <<>> /\ First(ring) = Head(Contents(ring)) /\ First(ring) \in Values
              /\ Contents(Drop(ring)) = Tail(Contents(ring))
  BY <1>3, RingDrop
<1>9. \A u \in k.match : /\ given = want[u] /\ want[u] \in Values /\ u \in Range(line) /\ ring.size = Capacity(ring)
                         /\ k.match = {u} /\ \A w \in Range(k.line) : Sends(w)
  <2> SUFFICES ASSUME NEW u \in k.match
               PROVE  /\ given = want[u] /\ want[u] \in Values /\ u \in Range(line) /\ ring.size = Capacity(ring)
                      /\ k.match = {u} /\ \A w \in Range(k.line) : Sends(w)
    OBVIOUS
  <2>1. k.match = {u} /\ u \in Range(line) /\ u \in L /\ Sends(u) BY DEF TakeOk
  <2>2. (CHOOSE t \in k.match : TRUE) = u BY <2>1
  <2>3. given = value[u] BY <2>2
  <2>4. st[u] = "parked" /\ u \in Tasks
    <3>1. line \in Seq(Tasks) BY DEF QueueInv
    <3>2. Range(line) \subseteq Tasks BY <3>1, SMT DEF Range
    <3> QED BY <2>1, <3>2
  <2>5. NodeOk(st[u], want[u], value[u], err[u], u \in Range(line)) /\ want[u] \in Values \cup {"none", "recv"}
    BY <2>4 DEF QueueInv
  <2>6. value[u] = want[u] /\ want[u] \in Values
    <3>1. want[u] # "recv" BY <2>1 DEF Sends
    <3>2. st[u] # "idle" /\ st[u] \in {"asking", "parked"} BY <2>4, SMT
    <3>3. want[u] # "none" /\ value[u] = Offer(want[u]) BY <2>5, <3>2 DEF NodeOk
    <3> QED BY <2>5, <3>1, <3>3 DEF Offer
  <2>7. ring.size = Capacity(ring) BY <1>3, <2>1
  <2>8. \A w \in Range(k.line) : Sends(w) BY <1>5, <2>1 DEF QueueInv
  <2> QED BY <2>1, <2>3, <2>6, <2>7, <2>8
<1> HIDE DEF given
<1>10. CASE some /\ k.match # {}
  <2>1. PICK u : u \in k.match BY <1>10
  <2>2. left = Drop(ring) /\ r.ring = Put(left, given) /\ r.ok /\ r.value = First(ring)
    BY <1>1, <1>10
  <2>3. Sound(left) /\ left.size < Capacity(left) /\ given \in Values /\ Capacity(left) = Capacity(ring)
    BY <1>8, <1>9, <1>10, <2>1, <2>2
  <2> HIDE DEF left
  <2>4. /\ Sound(r.ring) /\ Capacity(r.ring) = Capacity(ring) /\ r.ring.size = left.size + 1
        /\ Contents(r.ring) = Append(Contents(left), given)
    BY <2>2, <2>3, RingPut
  <2>5. r.ring.size = Capacity(ring)
    <3>1. left.size = ring.size - 1 BY <1>8, <1>10, <2>2
    <3> QED BY <1>4, <1>9, <2>1, <2>4, <3>1, SMT
  <2>6. Agreed(r, FALSE) BY <1>1, <1>6, <1>9, <2>1, <2>2, <2>4, <2>5 DEF Agreed
  <2>7. Passed(r, FALSE, "none")
    <3>1. r.value \in Optional /\ r.value # "none" BY <1>7, <1>8, <1>10, <2>2 DEF Optional
    <3>2. \A w \in r.met : LET seq == Append(Contents(ring), want[w])
                           IN Contents(r.ring) = Tail(seq) /\ r.value = Head(seq)
      <4> SUFFICES ASSUME NEW w \in r.met
                   PROVE  Contents(r.ring) = Tail(Append(Contents(ring), want[w])) /\ r.value = Head(Append(Contents(ring), want[w]))
        OBVIOUS
      <4>1. w \in k.match BY <1>1
      <4>2. given = want[w] /\ want[w] \in Values BY <1>9, <4>1
      <4>3. Contents(left) = Tail(Contents(ring)) /\ r.value = Head(Contents(ring)) /\ Contents(ring) # <<>>
        BY <1>8, <1>10, <2>2
      <4>4. /\ Head(Append(Contents(ring), want[w])) = Head(Contents(ring))
            /\ Tail(Append(Contents(ring), want[w])) = Append(Tail(Contents(ring)), want[w])
        BY <1>4, <4>2, <4>3, ShiftFacts
      <4> QED BY <2>4, <4>2, <4>3, <4>4
    <3> QED BY <1>1, <2>1, <2>2, <3>1, <3>2 DEF Passed
  <2> QED BY <1>2, <2>6, <2>7 DEF r
<1>11. CASE some /\ k.match = {}
  <2>1. left = Drop(ring) /\ r.ring = left /\ r.ok /\ r.value = First(ring) /\ r.met = {} BY <1>1, <1>11
  <2>2. \A u \in Range(r.line) : FALSE
    <3> SUFFICES ASSUME NEW u \in Range(r.line) PROVE FALSE OBVIOUS
    <3>1. u \in Range(line) /\ Sends(u) # TRUE BY <1>1, <1>5, <1>11 DEF TakeOk
    <3>2. ~Sends(u) BY <3>1 DEF Sends
    <3> QED BY <1>3, <1>11, <3>1, <3>2
  <2>3. Agreed(r, FALSE) BY <1>8, <1>11, <2>1, <2>2 DEF Agreed
  <2>4. r.value \in Optional /\ r.value # "none" BY <1>7, <1>8, <1>11, <2>1 DEF Optional
  <2>5. Passed(r, FALSE, "none") BY <1>8, <1>11, <2>1, <2>4 DEF Passed
  <2> QED BY <1>2, <2>3, <2>5 DEF r
<1>12. CASE ~some /\ k.match # {}
  <2>1. PICK u : u \in k.match BY <1>12
  <2>2. r.ring = ring /\ r.ok /\ r.value = given BY <1>1, <1>12
  <2>3. Agreed(r, FALSE) BY <1>1, <1>3, <1>5, <2>2 DEF Agreed
  <2>4. r.value \in Optional /\ r.value # "none" BY <1>7, <1>9, <2>1, <2>2 DEF Optional
  <2>5. \A w \in r.met : LET seq == Append(Contents(ring), want[w])
                         IN Contents(r.ring) = Tail(seq) /\ r.value = Head(seq)
    <3> SUFFICES ASSUME NEW w \in r.met
                 PROVE  Contents(r.ring) = Tail(Append(Contents(ring), want[w])) /\ r.value = Head(Append(Contents(ring), want[w]))
      OBVIOUS
    <3>1. w \in k.match BY <1>1
    <3>2. given = want[w] /\ want[w] \in Values BY <1>9, <3>1
    <3>3. Contents(ring) = <<>> BY <1>4, <1>12
    <3>4. Head(Append(Contents(ring), want[w])) = want[w] /\ Tail(Append(Contents(ring), want[w])) = <<>>
      BY <1>4, <3>2, <3>3, ShiftFacts
    <3> QED BY <2>2, <3>2, <3>3, <3>4
  <2>6. Passed(r, FALSE, "none") BY <1>1, <1>12, <2>2, <2>4, <2>5 DEF Passed
  <2> QED BY <1>2, <2>3, <2>6 DEF r
<1>13. CASE ~some /\ k.match = {}
  <2>1. r.ring = ring /\ ~r.ok /\ r.met = {} /\ r.value = "none" BY <1>1, <1>13 DEF given
  <2>2. \A u \in Range(r.line) : u \in Range(line) /\ Sends(u) = FALSE
    <3> SUFFICES ASSUME NEW u \in Range(r.line) PROVE u \in Range(line) /\ Sends(u) = FALSE OBVIOUS
    <3>1. u \in Range(line) /\ Sends(u) # TRUE BY <1>1, <1>5, <1>13 DEF TakeOk
    <3> QED BY <3>1 DEF Sends
  <2>3. Agreed(r, FALSE) BY <1>3, <1>6, <1>13, <2>1, <2>2 DEF Agreed
  <2>4. Passed(r, FALSE, "none") BY <2>1 DEF Passed, Optional
  <2> QED BY <1>2, <2>3, <2>4 DEF r
<1> QED BY <1>10, <1>11, <1>12, <1>13
-----------------------------------------------------------------------------
\* An operation of task t that got r from push or pop: it is left in state s with
\* error e, direction w and value x, and the nodes it finished are in state X.
Served(t, r, s, e, w, x, X) ==
  /\ kind' = kind /\ closed' = closed /\ ring' = r.ring
  /\ line' = IF s = "parked" THEN Append(r.line, t) ELSE r.line
  /\ st' = [u \in Tasks |-> IF u = t THEN s ELSE IF u \in r.pruned \cup r.met THEN X ELSE st[u]]
  /\ err' = [u \in Tasks |-> IF u = t THEN e ELSE IF u \in r.pruned THEN "canceled" ELSE err[u]]
  /\ value' = [u \in Tasks |-> IF u = t THEN x ELSE
                               IF u \in r.met THEN (IF Sends(u) THEN "none" ELSE r.value) ELSE value[u]]
  /\ want' = [u \in Tasks |-> IF u = t THEN w ELSE want[u]]

\* What the operation may be left with.
Sane(t, r, sending, s, e, w, x, X) ==
  /\ st[t] \in {"idle", "asking"} /\ s \in {"idle", "parked", "done"}
  /\ X \in {"mailed", "done"} /\ (kind = "channel" => X = "done")
  /\ e \in {"none", "canceled"} /\ w \in Values \cup {"none", "recv"} /\ x \in Optional
  /\ NodeOk(s, w, x, e, s = "parked")
  /\ s = "parked" => ~r.ok /\ ~closed /\ ((w # "recv") <=> sending)
  /\ tok' \in [Tasks -> BOOLEAN] /\ (kind = "channel" => stopping' \in BOOLEAN)

\* The line with a task at its end.
LEMMA Enqueued ==
  ASSUME NEW s \in Seq(Tasks), IsInjective(s), NEW t \in Tasks, t \notin Range(s)
  PROVE  LET d == Append(s, t)
         IN d \in Seq(Tasks) /\ IsInjective(d) /\ \A e : e \in Range(d) <=> e \in Range(s) \/ e = t
<1> DEFINE d == Append(s, t)
<1>1. Len(s) \in Nat /\ DOMAIN s = 1..Len(s) /\ \A i \in 1..Len(s) : s[i] \in Tasks
  BY SMT
<1>2. /\ d \in Seq(Tasks) /\ DOMAIN d = 1..Len(s) + 1
      /\ (\A i \in 1..Len(s) : d[i] = s[i]) /\ d[Len(s) + 1] = t
  BY <1>1, SMT
<1> HIDE DEF d
<1>3. \A i \in 1..Len(s) + 1 : i \in 1..Len(s) \/ i = Len(s) + 1 BY <1>1, SMT
<1>4. IsInjective(d)
  BY <1>1, <1>2, <1>3 DEF IsInjective, Range
<1>5. \A e : e \in Range(d) <=> e \in Range(s) \/ e = t
  <2>1. \A i \in 1..Len(s) : i \in 1..Len(s) + 1 BY <1>1, SMT
  <2>2. Len(s) + 1 \in 1..Len(s) + 1 BY <1>1, SMT
  <2> QED BY <1>1, <1>2, <1>3, <2>1, <2>2 DEF Range
<1> QED BY <1>2, <1>4, <1>5 DEF d

LEMMA ServedKeeps ==
  ASSUME QueueInv, NEW t \in Tasks, NEW sending \in BOOLEAN, NEW r, Cleared(r, sending), Agreed(r, sending),
         NEW v, Passed(r, sending, v), NEW s, NEW e, NEW w, NEW x, NEW X,
         Sane(t, r, sending, s, e, w, x, X), Served(t, r, s, e, w, x, X)
  PROVE  QueueInv'
<1>1. /\ line \in Seq(Tasks) /\ (closed => line = <<>>) /\ closed \in BOOLEAN /\ kind \in {"channel", "mailbox"}
      /\ st \in [Tasks -> {"idle", "asking", "parked", "mailed", "done"}]
      /\ want \in [Tasks -> Values \cup {"none", "recv"}] /\ value \in [Tasks -> Optional]
      /\ err \in [Tasks -> {"none", "canceled", "broken"}]
      /\ \A u \in Tasks : NodeOk(st[u], want[u], value[u], err[u], u \in Range(line))
  BY DEF QueueInv
<1>2. Range(line) \subseteq Tasks BY <1>1, SMT DEF Range
<1>3. t \notin Range(line)
  <2>1. st[t] \notin {"parked", "done"} BY SMT DEF Sane
  <2> QED BY <1>1, <2>1 DEF NodeOk
<1>4. /\ r.line \in Seq(Tasks) /\ IsInjective(r.line) /\ t \notin Range(r.line) /\ t \notin r.pruned \cup r.met
      /\ \A u \in Range(r.line) : u \in Tasks /\ u \in Range(line) /\ u \notin r.pruned \cup r.met
  BY <1>2, <1>3 DEF Cleared
<1>5. /\ line' \in Seq(Tasks) /\ IsInjective(line')
      /\ \A u : u \in Range(line') <=> u \in Range(r.line) \/ (s = "parked" /\ u = t)
  <2>1. CASE s = "parked"
    <3>1. line' = Append(r.line, t) BY <2>1 DEF Served
    <3> QED BY <1>4, <2>1, <3>1, Enqueued
  <2>2. CASE s # "parked"
    <3>1. line' = r.line BY <2>2 DEF Served
    <3> QED BY <1>4, <2>2, <3>1
  <2> QED BY <2>1, <2>2
<1>6. closed' => line' = <<>>
  <2> SUFFICES ASSUME closed PROVE line' = <<>> BY DEF Served
  <2>1. line = <<>> BY <1>1
  <2>2. Range(line) = {} BY <2>1, SMT DEF Range
  <2>3. \A u : u \notin Range(r.line) BY <1>4, <2>2
  <2>4. s # "parked" BY DEF Sane
  <2>5. \A u : u \notin Range(line') BY <1>5, <2>3, <2>4
  <2>6. \A i \in 1..Len(line') : line'[i] \in Range(line') BY <1>5, SMT DEF Range
  <2>7. Len(line') \in Nat /\ ~(1 \in 1..Len(line')) BY <1>5, <2>5, <2>6, SMT
  <2> QED BY <1>5, <2>7, SMT
<1>7. /\ st' \in [Tasks -> {"idle", "asking", "parked", "mailed", "done"}]
      /\ want' \in [Tasks -> Values \cup {"none", "recv"}] /\ value' \in [Tasks -> Optional]
      /\ err' \in [Tasks -> {"none", "canceled", "broken"}]
  <2>1. s \in {"idle", "asking", "parked", "mailed", "done"} /\ X \in {"idle", "asking", "parked", "mailed", "done"}
        /\ e \in {"none", "canceled", "broken"} /\ w \in Values \cup {"none", "recv"} /\ x \in Optional
    BY SMT DEF Sane
  <2>2. r.met = {} \/ r.value \in Optional
    BY DEF Passed, Optional
  <2>3. st' \in [Tasks -> {"idle", "asking", "parked", "mailed", "done"}] BY <1>1, <2>1 DEF Served
  <2>4. want' \in [Tasks -> Values \cup {"none", "recv"}] BY <1>1, <2>1 DEF Served
  <2>5. err' \in [Tasks -> {"none", "canceled", "broken"}]
    <3>1. "canceled" \in {"none", "canceled", "broken"} BY SMT
    <3> QED BY <1>1, <2>1, <3>1 DEF Served
  <2>6. value' \in [Tasks -> Optional]
    <3>1. "none" \in Optional BY SMT DEF Optional
    <3> QED BY <1>1, <2>1, <2>2, <3>1 DEF Served
  <2> QED BY <2>3, <2>4, <2>5, <2>6
<1>8. \A u \in Tasks : NodeOk(st'[u], want'[u], value'[u], err'[u], u \in Range(line'))
  <2> SUFFICES ASSUME NEW u \in Tasks PROVE NodeOk(st'[u], want'[u], value'[u], err'[u], u \in Range(line'))
    OBVIOUS
  <2>1. CASE u = t
    <3>1. st'[u] = s /\ want'[u] = w /\ value'[u] = x /\ err'[u] = e BY <2>1 DEF Served
    <3>2. u \in Range(line') <=> s = "parked" BY <1>4, <1>5, <2>1
    <3>3. NodeOk(s, w, x, e, s = "parked") BY DEF Sane
    <3> QED BY <3>1, <3>2, <3>3 DEF NodeOk
  <2>2. CASE u # t /\ u \in r.pruned \cup r.met
    <3>1. st'[u] = X /\ want'[u] = want[u] BY <2>2 DEF Served
    <3>2. u \notin Range(line') BY <1>4, <1>5, <2>2
    <3>3. st[u] = "parked" BY <2>2 DEF Cleared
    <3>4. want[u] # "none"
      <4>1. st[u] # "idle" BY <3>3, SMT
      <4> QED BY <1>1, <4>1 DEF NodeOk
    <3>5. X \notin {"idle", "asking", "parked"} BY SMT DEF Sane
    <3> QED BY <3>1, <3>2, <3>4, <3>5 DEF NodeOk
  <2>3. CASE u # t /\ u \notin r.pruned \cup r.met
    <3>1. st'[u] = st[u] /\ want'[u] = want[u] /\ value'[u] = value[u] /\ err'[u] = err[u]
      BY <2>3 DEF Served
    <3>2. NodeOk(st[u], want[u], value[u], err[u], u \in Range(line)) BY <1>1
    <3>3. u \in Range(line') => u \in Range(line) BY <1>4, <1>5, <2>3
    <3>4. st[u] = "parked" => u \in Range(line') BY <1>5, <2>3, <3>2 DEF NodeOk, Cleared
    <3> QED BY <3>1, <3>2, <3>3, <3>4 DEF NodeOk
  <2> QED BY <2>1, <2>2, <2>3
<1>9. \A u \in Range(line') : want'[u] = IF u = t THEN w ELSE want[u]
  BY <1>4, <1>5 DEF Served
<1>10. \A u \in Range(line') : ring'.size = IF want'[u] # "recv" THEN Capacity(ring') ELSE 0
  <2> SUFFICES ASSUME NEW u \in Range(line') PROVE ring'.size = IF want'[u] # "recv" THEN Capacity(ring') ELSE 0
    OBVIOUS
  <2>1. ring' = r.ring /\ Capacity(r.ring) = Capacity(ring) BY DEF Served, Agreed
  <2>2. CASE u = t
    <3>1. s = "parked" BY <1>4, <1>5, <2>2
    <3>2. ~r.ok /\ ((w # "recv") <=> sending) BY <3>1 DEF Sane
    <3>3. r.ring = ring /\ ring.size = (IF sending THEN Capacity(ring) ELSE 0) BY <3>2 DEF Agreed
    <3> QED BY <1>9, <2>1, <2>2, <3>2, <3>3
  <2>3. CASE u # t
    <3>1. u \in Range(r.line) BY <1>5, <2>3
    <3>2. r.ring.size = IF want[u] # "recv" THEN Capacity(ring) ELSE 0 BY <3>1 DEF Agreed, Sends
    <3> QED BY <1>9, <2>1, <2>3, <3>2
  <2> QED BY <2>2, <2>3
<1>11. \A u, y \in Range(line') : (want'[u] # "recv") <=> (want'[y] # "recv")
  <2>1. \A u, y \in Range(r.line) : (want[u] # "recv") <=> (want[y] # "recv")
    BY <1>4 DEF QueueInv, Sends
  <2>2. s = "parked" => \A u \in Range(r.line) : (want[u] # "recv") <=> (w # "recv")
    <3> SUFFICES ASSUME s = "parked", NEW u \in Range(r.line) PROVE (want[u] # "recv") <=> (w # "recv")
      OBVIOUS
    <3>1. ~r.ok /\ ((w # "recv") <=> sending) BY DEF Sane
    <3>2. Sends(u) = sending BY <3>1 DEF Agreed
    <3> QED BY <3>1, <3>2 DEF Sends
  <2> QED BY <1>4, <1>5, <1>9, <2>1, <2>2
<1>12. kind' = "channel" => stopping' \in BOOLEAN /\ \A u \in Tasks : st'[u] \in {"idle", "parked", "done"}
  <2> SUFFICES ASSUME kind = "channel"
               PROVE  stopping' \in BOOLEAN /\ \A u \in Tasks : st'[u] \in {"idle", "parked", "done"}
    BY DEF Served
  <2>1. X \in {"idle", "parked", "done"} /\ s \in {"idle", "parked", "done"} BY SMT DEF Sane
  <2>2. \A u \in Tasks : st[u] \in {"idle", "parked", "done"} BY DEF QueueInv
  <2>3. stopping' \in BOOLEAN BY DEF Sane
  <2> QED BY <2>1, <2>2, <2>3 DEF Served
<1>13. kind' = "mailbox" => \A u \in Range(line') : st'[u] = "parked"
  <2> SUFFICES ASSUME kind = "mailbox", NEW u \in Range(line') PROVE st'[u] = "parked"
    BY DEF Served
  <2>1. CASE u = t BY <1>4, <1>5, <2>1 DEF Served
  <2>2. CASE u # t
    <3>1. u \in Range(r.line) BY <1>5, <2>2
    <3>2. st[u] = "parked" BY <1>4, <3>1 DEF QueueInv
    <3> QED BY <1>4, <2>2, <3>1, <3>2 DEF Served
  <2> QED BY <2>1, <2>2
<1>14. kind' \in {"channel", "mailbox"} /\ closed' \in BOOLEAN /\ Sound(ring') /\ tok' \in [Tasks -> BOOLEAN]
  BY <1>1 DEF Served, Agreed, Sane
<1>15. \A u : (Sends(u)' <=> want'[u] # "recv") BY DEF Sends
<1> QED BY <1>5, <1>6, <1>7, <1>8, <1>10, <1>11, <1>12, <1>13, <1>14, <1>15 DEF QueueInv, Sends
-----------------------------------------------------------------------------
\* The outcome of an operation, for either queue.
OutcomeOf(s, e, w, x) ==
  IF s \notin {"mailed", "done"} THEN "none" ELSE
  IF e # "none" THEN e ELSE
  IF w # "recv" THEN "sent" ELSE
  IF x # "none" THEN x ELSE "closed"

LEMMA ResultsAre ==
  ASSUME QueueInv
  PROVE  \A u \in Tasks : Results[u] = OutcomeOf(st[u], err[u], want[u], value[u])
<1> SUFFICES ASSUME NEW u \in Tasks PROVE Results[u] = OutcomeOf(st[u], err[u], want[u], value[u])
  OBVIOUS
<1>1. Results[u] = Outcome(u) BY DEF Results
<1>2. CASE kind = "channel"
  <2>1. st[u] \in {"idle", "parked", "done"} BY <1>2 DEF QueueInv
  <2>2. st[u] # "done" <=> st[u] \notin {"mailed", "done"} BY <2>1, SMT
  <2>3. Outcome(u) = C!Outcome(u) BY <1>2 DEF Outcome, IsChannel
  <2> QED BY <1>1, <2>2, <2>3 DEF C!Outcome, C!Sends, OutcomeOf
<1>3. CASE kind # "channel"
  <2>1. Outcome(u) = M!Outcome(u) BY <1>3 DEF Outcome, IsChannel
  <2> QED BY <1>1, <2>1 DEF M!Outcome, M!Sends, OutcomeOf
<1> QED BY <1>2, <1>3

\* The same of the next state.
LEMMA ResultsNext ==
  ASSUME QueueInv'
  PROVE  \A u \in Tasks : Results'[u] = OutcomeOf(st'[u], err'[u], want'[u], value'[u])
<1> SUFFICES ASSUME NEW u \in Tasks PROVE Results'[u] = OutcomeOf(st'[u], err'[u], want'[u], value'[u])
  OBVIOUS
<1>1. Results'[u] = Outcome(u)' BY DEF Results
<1>2. CASE kind' = "channel"
  <2>1. st'[u] \in {"idle", "parked", "done"} BY <1>2 DEF QueueInv
  <2>2. st'[u] # "done" <=> st'[u] \notin {"mailed", "done"} BY <2>1, SMT
  <2>3. Outcome(u)' = C!Outcome(u)' BY <1>2 DEF Outcome, IsChannel
  <2> QED BY <1>1, <2>2, <2>3 DEF C!Outcome, C!Sends, OutcomeOf
<1>3. CASE kind' # "channel"
  <2>1. Outcome(u)' = M!Outcome(u)' BY <1>3 DEF Outcome, IsChannel
  <2> QED BY <1>1, <2>1 DEF M!Outcome, M!Sends, OutcomeOf
<1> QED BY <1>2, <1>3

\* Strings that are no values.
LEMMA PlainWords ==
  \A w \in {"none", "recv", "sent", "canceled", "broken", "closed"} : w \notin Values
BY ValuesPlain

\* The results of the next state are outcomes.
LEMMA ResultsTyped ==
  ASSUME QueueInv'
  PROVE  Results' \in [Tasks -> Promise!Outcomes] /\ want' \in [Tasks -> Promise!Wants]
<1>1. want' \in [Tasks -> Promise!Wants] BY DEF QueueInv, Promise!Wants
<1>2. \A u \in Tasks : OutcomeOf(st'[u], err'[u], want'[u], value'[u]) \in Promise!Outcomes
  <2> SUFFICES ASSUME NEW u \in Tasks PROVE OutcomeOf(st'[u], err'[u], want'[u], value'[u]) \in Promise!Outcomes
    OBVIOUS
  <2>1. err'[u] \in {"none", "canceled", "broken"} /\ value'[u] \in Optional BY DEF QueueInv
  <2>2. OutcomeOf(st'[u], err'[u], want'[u], value'[u]) \in {"none", err'[u], "sent", value'[u], "closed"}
    BY DEF OutcomeOf
  <2> QED BY <2>1, <2>2 DEF Promise!Outcomes, Optional
<1>3. DOMAIN Results' = Tasks /\ Results' = [u \in Tasks |-> Results'[u]] BY DEF Results
<1>4. \A u \in Tasks : Results'[u] \in Promise!Outcomes BY <1>2, ResultsNext
<1> QED BY <1>1, <1>3, <1>4

\* When an operation may end, by outcome.
LEMMA AllowedCases ==
  ASSUME NEW u \in Tasks, Results[u] = "none"
  PROVE  /\ want'[u] \in Values /\ ~closed => Promise!Allowed(u, "sent")
         /\ want'[u] \in Values /\ closed' => Promise!Allowed(u, "broken")
         /\ want'[u] = "recv" /\ closed' /\ Buffered' = <<>> => Promise!Allowed(u, "closed")
         /\ want'[u] # "none" /\ u \in Asked' => Promise!Allowed(u, "canceled")
         /\ \A x \in Values : want'[u] = "recv" => Promise!Allowed(u, x)
<1>1. want'[u] \in Values /\ ~closed => Promise!Allowed(u, "sent") BY SMT DEF Promise!Allowed
<1>2. want'[u] \in Values /\ closed' => Promise!Allowed(u, "broken") BY SMT DEF Promise!Allowed
<1>3. want'[u] = "recv" /\ closed' /\ Buffered' = <<>> => Promise!Allowed(u, "closed") BY SMT DEF Promise!Allowed
<1>4. want'[u] # "none" /\ u \in Asked' => Promise!Allowed(u, "canceled") BY SMT DEF Promise!Allowed
<1>5. ASSUME NEW x \in Values, want'[u] = "recv" PROVE Promise!Allowed(u, x)
  <2>1. x # "sent" /\ x # "canceled" /\ x # "broken" /\ x # "closed" BY PlainWords, SMT
  <2> QED BY <1>5, <2>1, SMT DEF Promise!Allowed
<1> QED BY <1>1, <1>2, <1>3, <1>4, <1>5

\* What enters and leaves the queue in a step: S are the operations that send, G those
\* that receive, and seq is what is there with the value of S.
Moves(S, G, seq) ==
  /\ S \subseteq Tasks /\ \A u \in Tasks : u \in S <=> Results'[u] # Results[u] /\ Results'[u] = "sent"
  /\ G \subseteq Tasks /\ \A u \in Tasks : u \in G <=> Results'[u] # Results[u] /\ Results'[u] \in Values
  /\ (\A a, b \in S : a = b) /\ (\A a, b \in G : a = b)
  /\ S = {} => seq = Buffered
  /\ \A u \in S : seq = Append(Buffered, want'[u])
  /\ G = {} => Buffered' = seq
  /\ G # {} => seq # <<>> /\ Buffered' = Tail(seq) /\ \A u \in G : Results'[u] = Head(seq)

LEMMA Settles ==
  ASSUME QueueInv', Bound' = Bound, NEW S, NEW G, NEW seq, Moves(S, G, seq),
         \A u \in Tasks : Results'[u] # Results[u] => Promise!Allowed(u, Results'[u])
  PROVE  Promise!Settle
<1> DEFINE Ends == {t \in Tasks : Results'[t] # Results[t]}
           Sent == {t \in Ends : Results'[t] = "sent"}
           Got == {t \in Ends : Results'[t] \in Values}
           order == IF Sent = {} THEN Buffered ELSE Append(Buffered, want'[CHOOSE t \in Sent : TRUE])
<1>1. Sent = S /\ Got = G BY DEF Moves
<1>2. order = seq
  <2>1. CASE S = {} BY <1>1, <2>1 DEF Moves
  <2>2. CASE S # {}
    <3> DEFINE c == CHOOSE t \in Sent : TRUE
    <3>1. c \in S BY <1>1, <2>2
    <3>2. order = Append(Buffered, want'[c]) BY <1>1, <2>2
    <3> QED BY <3>1, <3>2 DEF Moves
  <2> QED BY <2>1, <2>2
<1>3. Len(Buffered') <= Bound
  <2>1. Sound(ring') BY DEF QueueInv
  <2>2. Len(Contents(ring')) = ring'.size /\ ring'.size <= Capacity(ring') BY <2>1, ContentsFacts
  <2>3. Buffered' = Contents(ring') /\ Bound' = Capacity(ring') BY DEF Buffered, Bound
  <2> QED BY <2>2, <2>3
<1>4. \A t \in Ends : Promise!Allowed(t, Results'[t]) OBVIOUS
<1>5. Promise!AtMostOne(Sent) /\ Promise!AtMostOne(Got) BY <1>1 DEF Promise!AtMostOne, Moves
<1>6. IF Got = {} THEN Buffered' = order
      ELSE order # <<>> /\ Buffered' = Tail(order) /\ \A t \in Got : Results'[t] = Head(order)
  BY <1>1, <1>2 DEF Moves
<1> QED BY <1>3, <1>4, <1>5, <1>6 DEF Promise!Settle

\* A step that moves no value, and only ends operations that fail or find nothing.
LEMMA SettlesQuietly ==
  ASSUME QueueInv', Bound' = Bound, Buffered' = Buffered,
         \A u \in Tasks : Results'[u] # Results[u] =>
           Results'[u] \in {"canceled", "broken", "closed"} /\ Promise!Allowed(u, Results'[u])
  PROVE  Promise!Settle
<1>1. \A u \in Tasks : Results'[u] # Results[u] => Results'[u] # "sent" /\ Results'[u] \notin Values
  <2>1. \A w \in {"canceled", "broken", "closed"} : w # "sent" /\ w \notin Values BY PlainWords, SMT
  <2> QED BY <2>1
<1>2. Moves({}, {}, Buffered) BY <1>1 DEF Moves
<1> QED BY <1>2, Settles

\* A step in which at most one task starts an operation.
LEMMA Works ==
  ASSUME QueueInv', Bound' = Bound, closed => closed', Asked \subseteq Asked', NEW t \in Tasks,
         \A u \in Tasks : u # t => want'[u] = want[u], want'[t] = want[t] \/ want[t] = "none",
         Promise!Settle
  PROVE  Promise!Work
<1>1. /\ Promise!AtMostOne({u \in Tasks : want'[u] # want[u]})
      /\ \A u \in {y \in Tasks : want'[y] # want[y]} : want[u] = "none"
  BY DEF Promise!AtMostOne
<1>2. Results' \in [Tasks -> Promise!Outcomes] /\ want' \in [Tasks -> Promise!Wants] BY ResultsTyped
<1> QED BY <1>1, <1>2 DEF Promise!Work

\* What an operation that got r reports.
Reports(t, r, sending, v, s, e, w, x) ==
  /\ want[t] = "none" \/ w = want[t]
  /\ Asked \subseteq Asked' /\ r.pruned \subseteq Asked'
  /\ s # "done" => ~r.ok
  /\ s = "done" =>
       \/ e = "canceled" /\ ~r.ok /\ t \in Asked'
       \/ e = "none" /\ r.ok /\ sending /\ w = v /\ ~closed
       \/ e = "none" /\ r.ok /\ ~sending /\ w = "recv" /\ x = r.value
       \/ e = "none" /\ ~r.ok /\ ~sending /\ w = "recv" /\ x = "none" /\ closed

LEMMA ServedWorks ==
  ASSUME QueueInv, QueueInv', NEW t \in Tasks, NEW sending \in BOOLEAN, NEW r, Cleared(r, sending),
         Agreed(r, sending), NEW v, Passed(r, sending, v), NEW s, NEW e, NEW w, NEW x, NEW X,
         Sane(t, r, sending, s, e, w, x, X), Served(t, r, s, e, w, x, X),
         Reports(t, r, sending, v, s, e, w, x)
  PROVE  Promise!Work
<1>1. /\ line \in Seq(Tasks) /\ (closed => line = <<>>)
      /\ \A u \in Tasks : NodeOk(st[u], want[u], value[u], err[u], u \in Range(line))
      /\ want \in [Tasks -> Values \cup {"none", "recv"}]
  BY DEF QueueInv
<1>2. Range(line) \subseteq Tasks BY <1>1, SMT DEF Range
<1>3. t \notin Range(line) /\ Results[t] = "none"
  <2>1. st[t] \notin {"parked", "done"} /\ st[t] \notin {"mailed", "done"} BY SMT DEF Sane
  <2>2. Results[t] = "none" BY <2>1, ResultsAre DEF OutcomeOf
  <2> QED BY <1>1, <2>1, <2>2 DEF NodeOk
<1>4. r.met \subseteq Tasks /\ r.pruned \subseteq Tasks /\ t \notin r.pruned /\ t \notin r.met
  BY <1>2, <1>3 DEF Cleared
<1>5. r.met # {} => ~closed
  <2> SUFFICES ASSUME r.met # {}, closed PROVE FALSE OBVIOUS
  <2>1. Range(line) = {} BY <1>1, SMT DEF Range
  <2> QED BY <2>1 DEF Cleared
<1>6. /\ Bound' = Bound /\ Buffered = Contents(ring) /\ Buffered' = Contents(r.ring) /\ closed' = closed
      /\ want' = [u \in Tasks |-> IF u = t THEN w ELSE want[u]]
  BY DEF Bound, Buffered, Served, Agreed
<1>7. \A u \in r.pruned \cup r.met :
        st[u] = "parked" /\ Results[u] = "none" /\ err[u] = "none" /\ want'[u] = want[u] /\ want[u] # "none"
  <2> SUFFICES ASSUME NEW u \in r.pruned \cup r.met
               PROVE  st[u] = "parked" /\ Results[u] = "none" /\ err[u] = "none" /\ want'[u] = want[u] /\ want[u] # "none"
    OBVIOUS
  <2>1. u \in Tasks /\ u # t BY <1>4
  <2>2. st[u] = "parked" BY DEF Cleared
  <2>3. st[u] \notin {"mailed", "done"} /\ st[u] # "idle" /\ st[u] \in {"asking", "parked"} BY <2>2, SMT
  <2>4. Results[u] = "none" BY <2>1, <2>3, ResultsAre DEF OutcomeOf
  <2>5. err[u] = "none" /\ want[u] # "none" BY <1>1, <2>1, <2>3 DEF NodeOk
  <2> QED BY <1>6, <2>1, <2>2, <2>4, <2>5
<1>8. X \in {"mailed", "done"} BY DEF Sane
<1>9. \A u \in Tasks : u # t /\ u \notin r.pruned \cup r.met => Results'[u] = Results[u]
  <2> SUFFICES ASSUME NEW u \in Tasks, u # t, u \notin r.pruned \cup r.met PROVE Results'[u] = Results[u]
    OBVIOUS
  <2>1. st'[u] = st[u] /\ want'[u] = want[u] /\ value'[u] = value[u] /\ err'[u] = err[u] BY DEF Served
  <2> QED BY <2>1, ResultsAre, ResultsNext
<1>10. \A u \in r.pruned : Results'[u] = "canceled" /\ Promise!Allowed(u, "canceled")
  <2> SUFFICES ASSUME NEW u \in r.pruned PROVE Results'[u] = "canceled" /\ Promise!Allowed(u, "canceled")
    OBVIOUS
  <2>1. u \in Tasks /\ u # t BY <1>4
  <2>2. st'[u] = X /\ err'[u] = "canceled" BY <2>1 DEF Served
  <2>3. OutcomeOf(st'[u], err'[u], want'[u], value'[u]) = "canceled"
    <3>1. "canceled" # "none" BY SMT
    <3> QED BY <1>8, <2>2, <3>1 DEF OutcomeOf
  <2>4. Results'[u] = "canceled" BY <2>1, <2>3, ResultsNext
  <2>5. u \in Asked' BY DEF Reports
  <2> QED BY <1>7, <2>1, <2>4, <2>5, AllowedCases
<1>11. \A u \in r.met : /\ Results'[u] = (IF sending THEN r.value ELSE "sent") /\ Promise!Allowed(u, Results'[u])
                        /\ (~sending => want'[u] \in Values)
  <2> SUFFICES ASSUME NEW u \in r.met
               PROVE  /\ Results'[u] = (IF sending THEN r.value ELSE "sent") /\ Promise!Allowed(u, Results'[u])
                      /\ (~sending => want'[u] \in Values)
    OBVIOUS
  <2>1. u \in Tasks /\ u # t /\ u \notin r.pruned BY <1>4 DEF Cleared
  <2>2. st'[u] = X /\ err'[u] = "none" /\ want'[u] = want[u]
        /\ value'[u] = IF Sends(u) THEN "none" ELSE r.value
    BY <1>7, <2>1 DEF Served
  <2>3. Sends(u) # sending /\ Sends(u) = (want[u] # "recv") BY DEF Cleared, Sends
  <2>4. CASE sending
    <3>1. want[u] = "recv" /\ value'[u] = r.value BY <2>2, <2>3, <2>4
    <3>2. r.value \in Values BY <2>4 DEF Passed
    <3>3. r.value # "none" BY <3>2, PlainWords, SMT
    <3>4. Results'[u] = r.value BY <1>8, <2>1, <2>2, <3>1, <3>3, ResultsNext DEF OutcomeOf
    <3>5. Promise!Allowed(u, r.value) BY <1>7, <2>1, <2>2, <3>1, <3>2, AllowedCases
    <3> QED BY <2>4, <3>4, <3>5
  <2>5. CASE ~sending
    <3>1. want[u] # "recv" BY <2>3, <2>5
    <3>2. want[u] \in Values BY <1>1, <1>7, <2>1, <3>1
    <3>3. Results'[u] = "sent" BY <1>8, <2>1, <2>2, <3>1, ResultsNext DEF OutcomeOf
    <3>4. ~closed BY <1>5
    <3>5. Promise!Allowed(u, "sent") BY <1>7, <2>1, <2>2, <3>2, <3>4, AllowedCases
    <3> QED BY <2>2, <2>5, <3>2, <3>3, <3>5
  <2> QED BY <2>4, <2>5
<1>12. Results'[t] = OutcomeOf(s, e, w, x) /\ want'[t] = w
  <2>1. st'[t] = s /\ want'[t] = w /\ value'[t] = x /\ err'[t] = e BY DEF Served
  <2> QED BY <2>1, ResultsNext
<1>13. CASE s = "done" /\ e = "none" /\ r.ok /\ sending /\ w = v /\ ~closed
  <2> DEFINE S == {t}
             seq == Append(Buffered, v)
  <2>1. v \in Values /\ r.value = v BY <1>13 DEF Passed
  <2>2. v # "recv" /\ v # "sent" /\ "sent" \notin Values /\ "canceled" \notin Values BY <2>1, PlainWords, SMT
  <2>3. Results'[t] = "sent" BY <1>12, <1>13, <2>2, SMT DEF OutcomeOf
  <2>4. Promise!Allowed(t, "sent") BY <1>3, <1>12, <1>13, <2>1, AllowedCases
  <2>5. \A u \in Tasks : Results'[u] # Results[u] => Promise!Allowed(u, Results'[u])
    BY <1>9, <1>10, <1>11, <2>3, <2>4
  <2>6. \A u \in r.met : Results'[u] = v BY <1>11, <1>13, <2>1
  <2>7. "sent" # "none" /\ "canceled" # "sent" /\ v # "none" BY <2>1, PlainWords, SMT
  <2>8. \A u \in Tasks : u \in S <=> Results'[u] # Results[u] /\ Results'[u] = "sent"
    <3> SUFFICES ASSUME NEW u \in Tasks PROVE u = t <=> Results'[u] # Results[u] /\ Results'[u] = "sent"
      OBVIOUS
    <3> QED BY <1>3, <1>9, <1>10, <2>2, <2>3, <2>6, <2>7
  <2>9. \A u \in Tasks : u \in r.met <=> Results'[u] # Results[u] /\ Results'[u] \in Values
    BY <1>4, <1>7, <1>9, <1>10, <2>1, <2>2, <2>3, <2>6, <2>7
  <2>10. (r.met = {} => Buffered' = seq) /\ (r.met # {} => seq # <<>> /\ Buffered' = Tail(seq) /\ \A u \in r.met : Results'[u] = Head(seq))
    <3>1. CASE r.met = {} BY <1>6, <1>13, <3>1 DEF Passed
    <3>2. CASE r.met # {}
      <4>1. Contents(ring) = <<>> /\ Contents(r.ring) = <<>> BY <1>13, <3>2 DEF Passed
      <4>2. Buffered \in Seq(Values) /\ Buffered = <<>> /\ Buffered' = <<>> BY <1>6, <4>1, SMT
      <4>3. seq # <<>> /\ Head(seq) = v /\ Tail(seq) = <<>> BY <2>1, <4>2, ShiftFacts
      <4> QED BY <2>6, <3>2, <4>2, <4>3
    <3> QED BY <3>1, <3>2
  <2>11. \A a, b \in r.met : a = b BY DEF Cleared
  <2>12. S \subseteq Tasks /\ (\A a, b \in S : a = b) /\ S # {} /\ \A u \in S : seq = Append(Buffered, want'[u])
    BY <1>12, <1>13
  <2> HIDE DEF S, seq
  <2>14. Moves(S, r.met, seq) BY <1>4, <2>8, <2>9, <2>10, <2>11, <2>12 DEF Moves
  <2>13. Promise!Settle BY <1>6, <2>5, <2>14, Settles
  <2> QED BY <1>6, <1>12, <2>13, Works DEF Reports
<1>14. CASE s = "done" /\ e = "none" /\ r.ok /\ ~sending /\ w = "recv" /\ x = r.value
  <2> DEFINE G == {t}
             seq == IF r.met = {} THEN Buffered ELSE Append(Buffered, want'[CHOOSE u \in r.met : TRUE])
  <2>1. x \in Values
    <3>1. x \in Optional /\ x # "none" BY <1>14 DEF Passed
    <3> QED BY <3>1 DEF Optional
  <2>2. x # "none" /\ x # "sent" /\ "sent" \notin Values /\ "canceled" \notin Values BY <2>1, PlainWords, SMT
  <2>3. Results'[t] = x BY <1>12, <1>14, <2>2, SMT DEF OutcomeOf
  <2>4. Promise!Allowed(t, x) BY <1>3, <1>12, <1>14, <2>1, AllowedCases
  <2>5. \A u \in Tasks : Results'[u] # Results[u] => Promise!Allowed(u, Results'[u])
    BY <1>9, <1>10, <1>11, <2>3, <2>4
  <2>6. \A u \in r.met : Results'[u] = "sent" BY <1>11, <1>14
  <2>7. "sent" # "none" /\ "canceled" # "sent" BY SMT
  <2>8. \A u \in Tasks : u \in G <=> Results'[u] # Results[u] /\ Results'[u] \in Values
    <3> SUFFICES ASSUME NEW u \in Tasks PROVE u = t <=> Results'[u] # Results[u] /\ Results'[u] \in Values
      OBVIOUS
    <3> QED BY <1>3, <1>9, <1>10, <2>1, <2>2, <2>3, <2>6
  <2>9. \A u \in Tasks : u \in r.met <=> Results'[u] # Results[u] /\ Results'[u] = "sent"
    BY <1>4, <1>7, <1>9, <1>10, <2>2, <2>3, <2>6, <2>7
  <2>10. (r.met = {} => seq = Buffered) /\ \A u \in r.met : seq = Append(Buffered, want'[u])
    BY DEF Cleared
  <2> HIDE DEF seq
  <2>11. seq # <<>> /\ Buffered' = Tail(seq) /\ Head(seq) = x
    <3>1. CASE r.met = {}
      BY <1>6, <1>14, <2>10, <3>1 DEF Passed
    <3>2. CASE r.met # {}
      <4>1. PICK u : u \in r.met BY <3>2
      <4>2. seq = Append(Contents(ring), want[u]) BY <1>6, <1>7, <2>10, <4>1
      <4>3. Contents(r.ring) = Tail(seq) /\ r.value = Head(seq) BY <1>14, <4>1, <4>2 DEF Passed
      <4>4. seq # <<>>
        <5>1. Sound(ring) BY DEF QueueInv
        <5>2. Contents(ring) \in Seq(Values) BY <5>1, ContentsFacts
        <5>3. want[u] \in Values BY <1>7, <1>11, <1>14, <4>1
        <5> QED BY <4>2, <5>2, <5>3, ShiftFacts
      <4> QED BY <1>6, <1>14, <4>3, <4>4
    <3> QED BY <3>1, <3>2
  <2>12. G \subseteq Tasks /\ (\A a, b \in G : a = b) /\ G # {} /\ \A u \in G : Results'[u] = Head(seq)
    BY <2>3, <2>11
  <2>13. \A a, b \in r.met : a = b BY DEF Cleared
  <2> HIDE DEF G
  <2>15. Moves(r.met, G, seq) BY <1>4, <2>8, <2>9, <2>10, <2>11, <2>12, <2>13 DEF Moves
  <2>14. Promise!Settle BY <1>6, <2>5, <2>15, Settles
  <2> QED BY <1>6, <1>12, <2>14, Works DEF Reports
<1>15. CASE ~r.ok
  <2>1. r.met = {} /\ r.ring = ring BY <1>15 DEF Agreed
  <2>2. Buffered' = Buffered BY <1>6, <2>1
  <2>3. Results'[t] # Results[t] =>
          Results'[t] \in {"canceled", "broken", "closed"} /\ Promise!Allowed(t, Results'[t])
    <3>1. CASE s # "done"
      <4>1. s \notin {"mailed", "done"} BY <3>1, SMT DEF Sane
      <4> QED BY <1>3, <1>12, <4>1 DEF OutcomeOf
    <3>2. CASE s = "done" /\ e = "canceled" /\ t \in Asked'
      <4>1. w # "none"
        <5>1. s # "idle" BY <3>2, SMT
        <5> QED BY <5>1 DEF Sane, NodeOk
      <4>2. Results'[t] = "canceled" BY <1>12, <3>2, SMT DEF OutcomeOf
      <4> QED BY <1>3, <1>12, <3>2, <4>1, <4>2, AllowedCases
    <3>3. CASE s = "done" /\ e = "none" /\ ~sending /\ w = "recv" /\ x = "none" /\ closed
      <4>1. Results'[t] = "closed" BY <1>12, <3>3, SMT DEF OutcomeOf
      <4>2. Buffered' = <<>>
        <5>1. ring.size = 0 /\ Sound(ring) BY <1>15, <3>3 DEF Agreed, QueueInv
        <5>2. Contents(ring) = <<>> BY <5>1, ContentsFacts
        <5> QED BY <1>6, <2>1, <5>2
      <4> QED BY <1>3, <1>6, <1>12, <3>3, <4>1, <4>2, AllowedCases
    <3> QED BY <1>15, <3>1, <3>2, <3>3 DEF Reports
  <2>4. \A u \in Tasks : Results'[u] # Results[u] =>
          Results'[u] \in {"canceled", "broken", "closed"} /\ Promise!Allowed(u, Results'[u])
    BY <1>9, <1>10, <2>1, <2>3
  <2>5. Promise!Settle BY <1>6, <2>2, <2>4, SettlesQuietly
  <2> QED BY <1>6, <1>12, <2>5, Works DEF Reports
<1> QED BY <1>13, <1>14, <1>15 DEF Reports

\* Nobody overtakes in this step.
Ordered ==
  \A i, j \in 1..Len(line) :
    /\ i < j /\ Waiting(line[i])
    /\ st[line[j]] = "parked" /\ st'[line[j]] # "parked" /\ err'[line[j]] = "none"
    => st'[line[i]] # "parked"

LEMMA WaitingParked == \A u : Waiting(u) => st[u] = "parked"
<1>1. \A u : C!Waiting(u) => st[u] = "parked" BY DEF C!Waiting, C!Live
<1>2. \A u : M!Waiting(u) => st[u] = "parked" BY DEF M!Waiting
<1> QED BY <1>1, <1>2 DEF Waiting

LEMMA ServedOrders ==
  ASSUME QueueInv, NEW t \in Tasks, NEW sending \in BOOLEAN, NEW r, Cleared(r, sending),
         NEW s, NEW e, NEW w, NEW x, NEW X,
         Sane(t, r, sending, s, e, w, x, X), Served(t, r, s, e, w, x, X)
  PROVE  Ordered
<1> SUFFICES ASSUME NEW i \in 1..Len(line), NEW j \in 1..Len(line), i < j, Waiting(line[i]),
                    st[line[j]] = "parked", st'[line[j]] # "parked", err'[line[j]] = "none"
             PROVE  st'[line[i]] # "parked"
  BY DEF Ordered
<1>1. line \in Seq(Tasks) BY DEF QueueInv
<1>2. line[i] \in Tasks /\ line[j] \in Tasks BY <1>1, SMT
<1>3. st[line[i]] = "parked" BY WaitingParked
<1>4. st[t] # "parked" /\ X # "parked" /\ "canceled" # "none" BY SMT DEF Sane
<1>5. line[i] # t /\ line[j] # t BY <1>3, <1>4
<1>6. line[j] \in r.pruned \cup r.met BY <1>2, <1>5 DEF Served
<1>7. line[j] \notin r.pruned BY <1>2, <1>4, <1>5 DEF Served
<1>8. line[i] \in r.pruned BY <1>3, <1>6, <1>7 DEF Cleared
<1>9. st'[line[i]] = X BY <1>2, <1>5, <1>8 DEF Served
<1> QED BY <1>4, <1>9
-----------------------------------------------------------------------------
\* Both queues have the one buffer.
LEMMA ChannelRing ==
  /\ \A r, v : C!Put(r, v) = Put(r, v)
  /\ \A r : C!Drop(r) = Drop(r) /\ C!First(r) = First(r) /\ C!Full(r) = Full(r)
  /\ \A n : C!EmptyRing(n) = EmptyRing(n)
  /\ \A f : C!Range(f) = Range(f)
<1>1. \A r : C!Capacity(r) = Capacity(r) BY DEF C!Capacity, Capacity
<1>2. \A r, v : C!Put(r, v) = Put(r, v) BY <1>1 DEF C!Put, Put
<1>3. \A r : C!Drop(r) = Drop(r) BY <1>1 DEF C!Drop, Drop
<1>4. \A r : C!First(r) = First(r) /\ C!Full(r) = Full(r) BY <1>1 DEF C!First, First, C!Full, Full
<1>5. \A n : C!EmptyRing(n) = EmptyRing(n) BY DEF C!EmptyRing, EmptyRing
<1>6. \A f : C!Range(f) = Range(f) BY DEF C!Range, Range
<1> QED BY <1>2, <1>3, <1>4, <1>5, <1>6

LEMMA MailboxRing ==
  /\ \A r, v : M!Put(r, v) = Put(r, v)
  /\ \A r : M!Drop(r) = Drop(r) /\ M!First(r) = First(r) /\ M!Full(r) = Full(r)
  /\ \A n : M!EmptyRing(n) = EmptyRing(n)
  /\ \A f : M!Range(f) = Range(f)
<1>1. \A r : M!Capacity(r) = Capacity(r) BY DEF M!Capacity, Capacity
<1>2. \A r, v : M!Put(r, v) = Put(r, v) BY <1>1 DEF M!Put, Put
<1>3. \A r : M!Drop(r) = Drop(r) BY <1>1 DEF M!Drop, Drop
<1>4. \A r : M!First(r) = First(r) /\ M!Full(r) = Full(r) BY <1>1 DEF M!First, First, M!Full, Full
<1>5. \A n : M!EmptyRing(n) = EmptyRing(n) BY DEF M!EmptyRing, EmptyRing
<1>6. \A f : M!Range(f) = Range(f) BY DEF M!Range, Range
<1> QED BY <1>2, <1>3, <1>4, <1>5, <1>6

LEMMA PrunedIs == \A k : PopOf(k).pruned = k.pruned /\ \A v : PushOf(k, v).pruned = k.pruned
BY DEF PopOf, PushOf

\* take, for the live nodes of a channel.
LEMMA ChannelTake ==
  ASSUME QueueInv, NEW sending \in BOOLEAN, NEW stopped
  PROVE  TakeOk(C!Take(sending, stopped), {u \in Tasks : C!Live(u, stopped)}, sending)
<1> DEFINE L == {u \in Tasks : C!Live(u, stopped)}
           P == {k \in 0..Len(line) : \A i \in 1..k : ~C!Live(line[i], stopped)}
           n == Longest(P)
<1>1. line \in Seq(Tasks) BY DEF QueueInv
<1>2. Len(line) \in Nat /\ \A i \in 1..Len(line) : line[i] \in Tasks BY <1>1, SMT
<1>3. \A k \in 0..Len(line) : \A i \in 1..k : i \in 1..Len(line) BY <1>2, SMT
<1>4. Prefixes(P, line, L) BY <1>2, <1>3 DEF Prefixes
<1>5. C!Take(sending, stopped) = FrontOf(n, sending)
  BY DEF C!Take, FrontOf, C!Sends, Sends, Longest
<1> HIDE DEF L, P
<1>6. AtFront(n, line, L) BY <1>1, <1>4, FrontFacts
<1> HIDE DEF n
<1>7. TakeOk(FrontOf(n, sending), L, sending) BY <1>6, FrontTaken
<1> QED BY <1>5, <1>7 DEF L

\* push and pop of a channel: whom they prune has been canceled.
LEMMA ChannelServes ==
  ASSUME QueueInv, NEW stopped \in BOOLEAN
  PROVE  /\ \A v \in Values : LET r == C!Push(v, stopped) IN
              /\ Cleared(r, TRUE) /\ Agreed(r, TRUE) /\ Passed(r, TRUE, v)
              /\ \A u \in r.pruned : u \in Tasks /\ (tok[u] \/ stopped)
         /\ LET r == C!Pop(stopped) IN
              /\ Cleared(r, FALSE) /\ Agreed(r, FALSE) /\ Passed(r, FALSE, "none")
              /\ \A u \in r.pruned : u \in Tasks /\ (tok[u] \/ stopped)
<1> DEFINE L == {u \in Tasks : C!Live(u, stopped)}
<1>1. \A u \in Range(line) \cap L : st[u] = "parked" BY DEF C!Live
<1>2. Range(line) \subseteq Tasks
  <2>1. line \in Seq(Tasks) BY DEF QueueInv
  <2> QED BY <2>1, SMT DEF Range
<1>3. \A u \in Tasks : u \notin L /\ st[u] = "parked" => tok[u] \/ stopped BY DEF C!Live
<1>4. ASSUME NEW v \in Values
      PROVE  LET r == C!Push(v, stopped) IN
              /\ Cleared(r, TRUE) /\ Agreed(r, TRUE) /\ Passed(r, TRUE, v)
              /\ \A u \in r.pruned : u \in Tasks /\ (tok[u] \/ stopped)
  <2> DEFINE k == C!Take(FALSE, stopped)
             r == C!Push(v, stopped)
  <2>1. TakeOk(k, L, FALSE) BY ChannelTake
  <2>2. r = PushOf(k, v) BY ChannelRing DEF C!Push, PushOf
  <2>3. r.pruned = k.pruned BY <2>2, PrunedIs
  <2> HIDE DEF L
  <2>4. Cleared(r, TRUE) /\ Agreed(r, TRUE) /\ Passed(r, TRUE, v) BY <1>1, <2>1, <2>2, PushServes
  <2>5. \A u \in r.pruned : u \in Tasks /\ (tok[u] \/ stopped) BY <1>2, <1>3, <2>1, <2>3 DEF TakeOk
  <2> QED BY <2>4, <2>5 DEF r
<1>5. LET r == C!Pop(stopped) IN
        /\ Cleared(r, FALSE) /\ Agreed(r, FALSE) /\ Passed(r, FALSE, "none")
        /\ \A u \in r.pruned : u \in Tasks /\ (tok[u] \/ stopped)
  <2> DEFINE k == C!Take(TRUE, stopped)
             r == C!Pop(stopped)
  <2>1. TakeOk(k, L, TRUE) BY ChannelTake
  <2>2. r = PopOf(k)
    <3>1. C!Drop(ring) = Drop(ring) /\ C!First(ring) = First(ring) BY ChannelRing
    <3> DEFINE left == IF ring.size # 0 THEN Drop(ring) ELSE ring
               given == IF k.match = {} THEN "none" ELSE value[CHOOSE t \in k.match : TRUE]
    <3>2. C!Put(left, given) = Put(left, given) BY ChannelRing
    <3> QED BY <3>1, <3>2 DEF C!Pop, PopOf
  <2>3. r.pruned = k.pruned BY <2>2, PrunedIs
  <2> HIDE DEF k, r, L
  <2>4. Cleared(r, FALSE) /\ Agreed(r, FALSE) /\ Passed(r, FALSE, "none") BY <1>1, <2>1, <2>2, PopServes
  <2>5. \A u \in r.pruned : u \in Tasks /\ (tok[u] \/ stopped) BY <1>2, <1>3, <2>1, <2>3 DEF TakeOk
  <2> QED BY <2>4, <2>5 DEF r
<1> QED BY <1>4, <1>5

\* front, for the waiters of a mailbox that are not stopped.
LEMMA MailboxFront ==
  ASSUME QueueInv, kind = "mailbox", NEW sending \in BOOLEAN
  PROVE  TakeOk(M!Front(sending), {u \in Tasks : ~M!Stopped(u)}, sending)
<1> DEFINE L == {u \in Tasks : ~M!Stopped(u)}
           P == {k \in 0..Len(line) : \A i \in 1..k : M!Stopped(line[i])}
           n == Longest(P)
<1>1. line \in Seq(Tasks) BY DEF QueueInv
<1>2. Len(line) \in Nat /\ (\A i \in 1..Len(line) : line[i] \in Tasks) /\ \A i \in 1..Len(line) : line[i] \in Range(line)
  BY <1>1, SMT DEF Range
<1>3. \A k \in 0..Len(line) : \A i \in 1..k : i \in 1..Len(line) BY <1>2, SMT
<1>4. Prefixes(P, line, L) BY <1>2, <1>3 DEF Prefixes
<1>5. AtFront(n, line, L)
  <2> HIDE DEF L, P
  <2> QED BY <1>1, <1>4, FrontFacts
<1>6. \A i \in 1..n : line[i] \in Tasks /\ st[line[i]] = "parked"
  <2> HIDE DEF n
  <2>1. n \in 0..Len(line) BY <1>5 DEF AtFront
  <2> QED BY <1>2, <1>3, <2>1 DEF QueueInv
<1>7. {line[i] : i \in 1..n} = {line[i] : i \in 1..n} \cap {t \in Tasks : st[t] = "parked"}
  <2> HIDE DEF n
  <2> QED BY <1>6
<1>8. M!Front(sending) = FrontOf(n, sending)
  BY <1>7 DEF M!Front, FrontOf, M!Sends, Sends, Longest
<1> HIDE DEF L, n
<1>9. TakeOk(FrontOf(n, sending), L, sending) BY <1>5, FrontTaken
<1> QED BY <1>8, <1>9 DEF L

\* push and pop of a mailbox.
LEMMA MailboxServes ==
  ASSUME QueueInv, kind = "mailbox"
  PROVE  /\ \A v \in Values : LET r == M!Push(v) IN
              /\ Cleared(r, TRUE) /\ Agreed(r, TRUE) /\ Passed(r, TRUE, v)
              /\ \A u \in r.pruned : u \in Tasks /\ M!Stopped(u)
         /\ LET r == M!Pop IN
              /\ Cleared(r, FALSE) /\ Agreed(r, FALSE) /\ Passed(r, FALSE, "none")
              /\ \A u \in r.pruned : u \in Tasks /\ M!Stopped(u)
<1> DEFINE L == {u \in Tasks : ~M!Stopped(u)}
<1>1. \A u \in Range(line) \cap L : st[u] = "parked" BY DEF QueueInv
<1>2. Range(line) \subseteq Tasks
  <2>1. line \in Seq(Tasks) BY DEF QueueInv
  <2> QED BY <2>1, SMT DEF Range
<1>3. \A u \in Tasks : u \notin L => M!Stopped(u) OBVIOUS
<1>4. ASSUME NEW v \in Values
      PROVE  LET r == M!Push(v) IN
              /\ Cleared(r, TRUE) /\ Agreed(r, TRUE) /\ Passed(r, TRUE, v)
              /\ \A u \in r.pruned : u \in Tasks /\ M!Stopped(u)
  <2> DEFINE k == M!Front(FALSE)
             r == M!Push(v)
  <2>1. TakeOk(k, L, FALSE) BY MailboxFront
  <2>2. r = PushOf(k, v) BY MailboxRing DEF M!Push, PushOf
  <2>3. r.pruned = k.pruned BY <2>2, PrunedIs
  <2> HIDE DEF k, r, L
  <2>4. Cleared(r, TRUE) /\ Agreed(r, TRUE) /\ Passed(r, TRUE, v) BY <1>1, <2>1, <2>2, PushServes
  <2>5. \A u \in r.pruned : u \in Tasks /\ M!Stopped(u) BY <1>2, <1>3, <2>1, <2>3 DEF TakeOk
  <2> QED BY <2>4, <2>5 DEF r
<1>5. LET r == M!Pop IN
        /\ Cleared(r, FALSE) /\ Agreed(r, FALSE) /\ Passed(r, FALSE, "none")
        /\ \A u \in r.pruned : u \in Tasks /\ M!Stopped(u)
  <2> DEFINE k == M!Front(TRUE)
             r == M!Pop
  <2>1. TakeOk(k, L, TRUE) BY MailboxFront
  <2>2. r = PopOf(k)
    <3>1. M!Drop(ring) = Drop(ring) /\ M!First(ring) = First(ring) BY MailboxRing
    <3> DEFINE left == IF ring.size # 0 THEN Drop(ring) ELSE ring
               given == IF k.match = {} THEN "none" ELSE value[CHOOSE t \in k.match : TRUE]
    <3>2. M!Put(left, given) = Put(left, given) BY MailboxRing
    <3> QED BY <3>1, <3>2 DEF M!Pop, PopOf
  <2>3. r.pruned = k.pruned BY <2>2, PrunedIs
  <2> HIDE DEF k, r, L
  <2>4. Cleared(r, FALSE) /\ Agreed(r, FALSE) /\ Passed(r, FALSE, "none") BY <1>1, <2>1, <2>2, PopServes
  <2>5. \A u \in r.pruned : u \in Tasks /\ M!Stopped(u) BY <1>2, <1>3, <2>1, <2>3 DEF TakeOk
  <2> QED BY <2>4, <2>5 DEF r
<1> QED BY <1>4, <1>5
-----------------------------------------------------------------------------
\* What every step but the last one of an operation does.
Kept == QueueInv' /\ Ordered /\ Promise!Work

Handled(t, r, sending, v, s, e, w, x, X) ==
  /\ Cleared(r, sending) /\ Agreed(r, sending) /\ Passed(r, sending, v)
  /\ Sane(t, r, sending, s, e, w, x, X) /\ Served(t, r, s, e, w, x, X)
  /\ Reports(t, r, sending, v, s, e, w, x)

LEMMA HandledKeeps ==
  ASSUME QueueInv, NEW t \in Tasks, NEW sending \in BOOLEAN, NEW r, NEW v, NEW s, NEW e, NEW w, NEW x, NEW X,
         Handled(t, r, sending, v, s, e, w, x, X)
  PROVE  Kept
<1>1. /\ Cleared(r, sending) /\ Agreed(r, sending) /\ Passed(r, sending, v)
      /\ Sane(t, r, sending, s, e, w, x, X) /\ Served(t, r, s, e, w, x, X)
      /\ Reports(t, r, sending, v, s, e, w, x)
  BY DEF Handled
<1>2. QueueInv' BY <1>1, ServedKeeps, SMT
<1>3. Ordered BY <1>1, ServedOrders, SMT
<1>4. Promise!Work BY <1>1, <1>2, ServedWorks, SMT
<1> QED BY <1>2, <1>3, <1>4 DEF Kept

\* A line that holds nobody.
LEMMA EmptyLine ==
  ASSUME NEW d \in Seq(Tasks), \A u : u \notin Range(d)
  PROVE  d = <<>>
<1>1. \A i \in 1..Len(d) : d[i] \in Range(d) BY SMT DEF Range
<1>2. Len(d) \in Nat /\ ~(1 \in 1..Len(d)) BY <1>1, SMT
<1> QED BY <1>2, SMT

\* A step of one task that moves no value.
Alone(t, s, e, w, x) ==
  /\ kind' = kind /\ closed' = closed /\ ring' = ring
  /\ st' = [st EXCEPT ![t] = s] /\ err' = [err EXCEPT ![t] = e]
  /\ want' = [want EXCEPT ![t] = w] /\ value' = [value EXCEPT ![t] = x]
  /\ tok' \in [Tasks -> BOOLEAN] /\ stopping' = stopping

\* It leaves the line alone, or leaves the line.
Leaves(t) ==
  /\ line' \in Seq(Tasks) /\ IsInjective(line')
  /\ \A u : u \in Range(line') => u \in Range(line)
  /\ \A u : u # t /\ u \in Range(line) => u \in Range(line')

LEMMA AloneKeeps ==
  ASSUME QueueInv, NEW t \in Tasks, NEW s, NEW e, NEW w, NEW x, Alone(t, s, e, w, x), Leaves(t),
         s \in {"idle", "asking", "mailed", "done"}, kind = "channel" => s \in {"idle", "done"},
         e \in {"none", "canceled", "broken"}, w \in Values \cup {"none", "recv"}, x \in Optional,
         NodeOk(s, w, x, e, t \in Range(line')),
         t \in Range(line') => w = want[t] /\ kind = "channel"
  PROVE  QueueInv'
<1>1. /\ line \in Seq(Tasks) /\ (closed => line = <<>>) /\ closed \in BOOLEAN /\ kind \in {"channel", "mailbox"}
      /\ st \in [Tasks -> {"idle", "asking", "parked", "mailed", "done"}]
      /\ want \in [Tasks -> Values \cup {"none", "recv"}] /\ value \in [Tasks -> Optional]
      /\ err \in [Tasks -> {"none", "canceled", "broken"}]
      /\ \A u \in Tasks : NodeOk(st[u], want[u], value[u], err[u], u \in Range(line))
      /\ Sound(ring)
  BY DEF QueueInv
<1>2. line' \in Seq(Tasks) /\ IsInjective(line') BY DEF Leaves
<1>3. closed' => line' = <<>>
  <2> SUFFICES ASSUME closed PROVE line' = <<>> BY DEF Alone
  <2>1. Range(line) = {} BY <1>1, SMT DEF Range
  <2>2. \A u : u \notin Range(line') BY <2>1 DEF Leaves
  <2> QED BY <1>2, <2>2, EmptyLine
<1>4. s \in {"idle", "asking", "parked", "mailed", "done"} BY SMT
<1>5. /\ st' \in [Tasks -> {"idle", "asking", "parked", "mailed", "done"}]
      /\ want' \in [Tasks -> Values \cup {"none", "recv"}] /\ value' \in [Tasks -> Optional]
      /\ err' \in [Tasks -> {"none", "canceled", "broken"}] /\ tok' \in [Tasks -> BOOLEAN]
  BY <1>1, <1>4 DEF Alone
<1>6. st'[t] = s /\ want'[t] = w /\ value'[t] = x /\ err'[t] = e BY <1>1 DEF Alone
<1>7. \A u \in Tasks : u # t => st'[u] = st[u] /\ want'[u] = want[u] /\ value'[u] = value[u] /\ err'[u] = err[u]
  BY <1>1 DEF Alone
<1>8. \A u \in Tasks : NodeOk(st'[u], want'[u], value'[u], err'[u], u \in Range(line'))
  <2> SUFFICES ASSUME NEW u \in Tasks PROVE NodeOk(st'[u], want'[u], value'[u], err'[u], u \in Range(line'))
    OBVIOUS
  <2>1. CASE u = t BY <1>6, <2>1
  <2>2. CASE u # t
    <3>1. NodeOk(st[u], want[u], value[u], err[u], u \in Range(line)) BY <1>1
    <3>2. u \in Range(line) <=> u \in Range(line') BY <2>2 DEF Leaves
    <3> QED BY <1>7, <2>2, <3>1, <3>2 DEF NodeOk
  <2> QED BY <2>1, <2>2
<1>9. \A u \in Range(line') : u \in Tasks /\ u \in Range(line) /\ want'[u] = want[u]
  <2>1. Range(line) \subseteq Tasks BY <1>1, SMT DEF Range
  <2> QED BY <1>6, <1>7, <2>1 DEF Leaves
<1>10. \A u \in Range(line') : ring'.size = IF want'[u] # "recv" THEN Capacity(ring') ELSE 0
  <2>1. \A u \in Range(line) : ring.size = IF want[u] # "recv" THEN Capacity(ring) ELSE 0
    BY DEF QueueInv, Sends
  <2> QED BY <1>9, <2>1 DEF Alone
<1>11. \A u, y \in Range(line') : (want'[u] # "recv") <=> (want'[y] # "recv")
  <2>1. \A u, y \in Range(line) : (want[u] # "recv") <=> (want[y] # "recv") BY DEF QueueInv, Sends
  <2> QED BY <1>9, <2>1
<1>12. kind' = "channel" => stopping' \in BOOLEAN /\ \A u \in Tasks : st'[u] \in {"idle", "parked", "done"}
  <2> SUFFICES ASSUME kind = "channel"
               PROVE  stopping' \in BOOLEAN /\ \A u \in Tasks : st'[u] \in {"idle", "parked", "done"}
    BY DEF Alone
  <2>1. s \in {"idle", "parked", "done"} BY SMT
  <2>2. (\A u \in Tasks : st[u] \in {"idle", "parked", "done"}) /\ stopping \in BOOLEAN BY DEF QueueInv
  <2> QED BY <1>6, <1>7, <2>1, <2>2 DEF Alone
<1>13. kind' = "mailbox" => \A u \in Range(line') : st'[u] = "parked"
  <2> SUFFICES ASSUME kind = "mailbox", NEW u \in Range(line') PROVE st'[u] = "parked"
    BY DEF Alone
  <2>1. kind # "channel" BY SMT
  <2>2. u # t BY <2>1
  <2>3. st[u] = "parked" BY <1>9 DEF QueueInv
  <2> QED BY <1>7, <1>9, <2>2, <2>3
<1>14. kind' \in {"channel", "mailbox"} /\ closed' \in BOOLEAN /\ Sound(ring') BY <1>1 DEF Alone
<1> QED BY <1>2, <1>3, <1>5, <1>8, <1>10, <1>11, <1>12, <1>13, <1>14 DEF QueueInv, Sends

\* Only a task whose token or loop is stopped is asked to stop.
LEMMA AskedIs ==
  /\ kind = "channel" => Asked = {u \in Tasks : stopping \/ tok[u]}
  /\ kind # "channel" => Asked = {u \in Tasks : tok[u] \/ Home[u] \in stopping}
BY DEF Asked, IsChannel, C!Asked, M!Asked, M!Stopped

LEMMA AskedNext ==
  /\ kind' = "channel" => Asked' = {u \in Tasks : stopping' \/ tok'[u]}
  /\ kind' # "channel" => Asked' = {u \in Tasks : tok'[u] \/ Home[u] \in stopping'}
BY DEF Asked, IsChannel, C!Asked, M!Asked, M!Stopped

\* The results, when one task has moved.
LEMMA AloneResults ==
  ASSUME QueueInv, QueueInv', NEW t \in Tasks, NEW s, NEW e, NEW w, NEW x, Alone(t, s, e, w, x)
  PROVE  /\ Results'[t] = OutcomeOf(s, e, w, x) /\ \A u \in Tasks : u # t => Results'[u] = Results[u]
         /\ want'[t] = w /\ (\A u \in Tasks : u # t => want'[u] = want[u])
         /\ Bound' = Bound /\ Buffered' = Buffered
<1>1. st \in [Tasks -> {"idle", "asking", "parked", "mailed", "done"}]
      /\ want \in [Tasks -> Values \cup {"none", "recv"}] /\ value \in [Tasks -> Optional]
      /\ err \in [Tasks -> {"none", "canceled", "broken"}]
  BY DEF QueueInv
<1>2. st'[t] = s /\ want'[t] = w /\ value'[t] = x /\ err'[t] = e BY <1>1 DEF Alone
<1>3. \A u \in Tasks : u # t => st'[u] = st[u] /\ want'[u] = want[u] /\ value'[u] = value[u] /\ err'[u] = err[u]
  BY <1>1 DEF Alone
<1>4. Results'[t] = OutcomeOf(s, e, w, x) BY <1>2, ResultsNext
<1>5. \A u \in Tasks : u # t => Results'[u] = Results[u] BY <1>3, ResultsAre, ResultsNext
<1>6. Bound' = Bound /\ Buffered' = Buffered BY DEF Bound, Buffered, Alone
<1> QED BY <1>2, <1>3, <1>4, <1>5, <1>6

LEMMA AloneWorks ==
  ASSUME QueueInv, QueueInv', NEW t \in Tasks, NEW s, NEW e, NEW w, NEW x, Alone(t, s, e, w, x), tok' = tok,
         want[t] = "none" \/ w = want[t],
         \/ OutcomeOf(s, e, w, x) = Results[t]
         \/ OutcomeOf(s, e, w, x) = "canceled" /\ Results[t] = "none" /\ t \in Asked /\ w # "none"
         \/ OutcomeOf(s, e, w, x) = "broken" /\ Results[t] = "none" /\ closed /\ w \in Values
  PROVE  Promise!Work
<1>1. /\ Results'[t] = OutcomeOf(s, e, w, x) /\ (\A u \in Tasks : u # t => Results'[u] = Results[u])
      /\ want'[t] = w /\ (\A u \in Tasks : u # t => want'[u] = want[u])
      /\ Bound' = Bound /\ Buffered' = Buffered
  BY AloneResults
<1>2. Asked' = Asked /\ closed' = closed BY AskedIs, AskedNext DEF Alone
<1>3. Results'[t] # Results[t] =>
        Results'[t] \in {"canceled", "broken", "closed"} /\ Promise!Allowed(t, Results'[t])
  BY <1>1, <1>2, AllowedCases
<1>4. \A u \in Tasks : Results'[u] # Results[u] =>
        Results'[u] \in {"canceled", "broken", "closed"} /\ Promise!Allowed(u, Results'[u])
  BY <1>1, <1>3
<1>5. Promise!Settle BY <1>1, <1>4, SettlesQuietly
<1> QED BY <1>1, <1>2, <1>5, Works

LEMMA AloneOrders ==
  ASSUME QueueInv, NEW t \in Tasks, NEW s, NEW e, NEW w, NEW x, Alone(t, s, e, w, x), st[t] = "parked" => e # "none"
  PROVE  Ordered
<1> SUFFICES ASSUME NEW i \in 1..Len(line), NEW j \in 1..Len(line), i < j, Waiting(line[i]),
                    st[line[j]] = "parked", st'[line[j]] # "parked", err'[line[j]] = "none"
             PROVE  FALSE
  BY DEF Ordered
<1>1. line \in Seq(Tasks) BY DEF QueueInv
<1>2. line[j] \in Tasks BY <1>1, SMT
<1>3. st \in [Tasks -> {"idle", "asking", "parked", "mailed", "done"}] /\ err \in [Tasks -> {"none", "canceled", "broken"}]
  BY DEF QueueInv
<1>4. line[j] = t BY <1>2, <1>3 DEF Alone
<1> QED BY <1>3, <1>4 DEF Alone

\* A task takes its outcome and forgets its operation.
LEMMA AloneFinishes ==
  ASSUME QueueInv, QueueInv', NEW t \in Tasks, st[t] = "done", Alone(t, "idle", "none", "none", "none"),
         tok' = [tok EXCEPT ![t] = FALSE]
  PROVE  Promise!Finish(t)
<1>1. /\ Results'[t] = OutcomeOf("idle", "none", "none", "none") /\ (\A u \in Tasks : u # t => Results'[u] = Results[u])
      /\ Bound' = Bound /\ Buffered' = Buffered
  BY AloneResults, SMT
<1>2. OutcomeOf("idle", "none", "none", "none") = "none" BY SMT DEF OutcomeOf
<1>3. Results' = [Results EXCEPT ![t] = "none"]
  <2>1. DOMAIN Results = Tasks /\ DOMAIN Results' = Tasks /\ Results' = [u \in Tasks |-> Results'[u]] BY DEF Results
  <2> QED BY <1>1, <1>2, <2>1
<1>4. Results[t] # "none"
  <2>1. Results[t] = OutcomeOf(st[t], err[t], want[t], value[t]) BY ResultsAre
  <2> QED BY <2>1, SMT DEF OutcomeOf
<1>5. Asked' \in {Asked, Asked \ {t}}
  <2>1. tok \in [Tasks -> BOOLEAN] /\ kind' = kind /\ stopping' = stopping BY DEF QueueInv, Alone
  <2>2. ~tok'[t] /\ \A u \in Tasks : u # t => tok'[u] = tok[u] BY <2>1
  <2>3. CASE kind = "channel"
    <3>1. Asked = {u \in Tasks : stopping \/ tok[u]} /\ Asked' = {u \in Tasks : stopping \/ tok'[u]}
      BY <2>1, <2>3, AskedIs, AskedNext
    <3>2. stopping => Asked' = Asked BY <3>1
    <3>3. ~stopping => Asked' = Asked \ {t} BY <2>2, <3>1
    <3> QED BY <3>2, <3>3
  <2>4. CASE kind # "channel"
    <3>1. /\ Asked = {u \in Tasks : tok[u] \/ Home[u] \in stopping}
          /\ Asked' = {u \in Tasks : tok'[u] \/ Home[u] \in stopping}
      BY <2>1, <2>4, AskedIs, AskedNext
    <3>2. Home[t] \in stopping => Asked' = Asked BY <2>2, <3>1
    <3>3. Home[t] \notin stopping => Asked' = Asked \ {t} BY <2>2, <3>1
    <3> QED BY <3>2, <3>3
  <2> QED BY <2>3, <2>4
<1> QED BY <1>1, <1>3, <1>4, <1>5 DEF Promise!Finish, Alone

\* unlink takes one task out of the line.
LEMMA UnlinkFacts ==
  ASSUME QueueInv, NEW t \in Range(line)
  PROVE  LET d == LET i == CHOOSE i \in DOMAIN line : line[i] = t
                  IN SubSeq(line, 1, i - 1) \o SubSeq(line, i + 1, Len(line))
         IN d \in Seq(Tasks) /\ IsInjective(d) /\ \A u : u \in Range(d) <=> u \in Range(line) /\ u # t
<1> DEFINE i == CHOOSE i \in DOMAIN line : line[i] = t
<1>1. line \in Seq(Tasks) /\ IsInjective(line) BY DEF QueueInv
<1>2. DOMAIN line = 1..Len(line) BY <1>1, SMT
<1>3. i \in 1..Len(line) /\ line[i] = t BY <1>2 DEF Range
<1> HIDE DEF i
<1>4. LET d == SubSeq(line, 1, i - 1) \o SubSeq(line, i + 1, Len(line))
      IN d \in Seq(Tasks) /\ IsInjective(d) /\ \A u : u \in Range(d) <=> u \in Range(line) /\ u # line[i]
  BY <1>1, <1>3, RemoveFacts
<1> QED BY <1>3, <1>4 DEF i
=============================================================================
