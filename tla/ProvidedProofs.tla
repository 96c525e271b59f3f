--------------------------- MODULE ProvidedProofs ---------------------------
(***************************************************************************)
(* Proofs of the safety properties of Provided for any number of buffers,  *)
(* of loops and of completions ahead of poll().                            *)
(***************************************************************************)
EXTENDS Provided, FiniteSetTheorems, TLAPS

Result == [rx : Receivers, ids : Seq(Ids), shot : BOOLEAN, end : Endings \cup {"more"}]
Decoded == [rx : Receivers, ids : Seq(Ids), shot : BOOLEAN, end : Endings \cup {"more"}, id : Ids]

RingTypes ==
  /\ kring \in Seq(Ids) /\ next \in [Ids -> Ids] /\ tail \in Ids
  /\ held \in SUBSET Ids /\ leases = Cardinality(held)
  /\ cq \in Seq(Result) /\ (dec = <<>> \/ dec \in Decoded)

LoopTypes ==
  /\ DOMAIN kind = Receivers /\ tick \in [Receivers -> [count : Nat, received : Nat, armed : Nat]]
  /\ rx \in [Receivers -> {"idle", "armed", "ended", "rearm", "waiting"} \cup Endings]
  /\ stopped \in [Receivers -> BOOLEAN]

\* What each() has still to decode, and after it the bundles of the queue in their order.
bundles == [i \in 0..Len(cq) |-> IF i = 0 THEN Remaining ELSE cq[i].ids]

\* No buffer is in two places, nor twice in one.
Apart ==
  /\ \A k, l \in 1..Len(kring) : kring[k] = kring[l] => k = l
  /\ \A k \in 1..Len(kring) : kring[k] \notin held
  /\ \A i \in 0..Len(cq) : \A k \in 1..Len(bundles[i]) :
       bundles[i][k] \notin held /\ \A l \in 1..Len(kring) : bundles[i][k] # kring[l]
  /\ \A i, j \in 0..Len(cq) : \A k \in 1..Len(bundles[i]), l \in 1..Len(bundles[j]) :
       bundles[i][k] = bundles[j][l] => i = j /\ k = l

\* Every buffer is somewhere.
Somewhere ==
  \A b \in Ids :
    \/ b \in held
    \/ \E k \in 1..Len(kring) : kring[k] = b
    \/ \E i \in 0..Len(cq) : \E k \in 1..Len(bundles[i]) : bundles[i][k] = b

\* next_ leads from each buffer of a bundle, and of what is published, to the next one;
\* the next put writes next_[tail_], and no such step starts there.
Linked ==
  /\ \A k \in 1..Len(kring) - 1 : next[kring[k]] = kring[k + 1]
  /\ Len(kring) > 0 => tail = kring[Len(kring)]
  /\ \A i \in 0..Len(cq) : \A k \in 1..Len(bundles[i]) - 1 :
       next[bundles[i][k]] = bundles[i][k + 1] /\ bundles[i][k] # tail
  /\ Len(Remaining) > 0 => dec.id = Remaining[1]

\* A completion that no other follows is the last of its request, and the request has ended.
Final ==
  /\ \A i \in 1..Len(cq) : cq[i].end # "more" =>
       rx[cq[i].rx] = "ended" /\ \A j \in i + 1..Len(cq) : cq[j].rx # cq[i].rx
  /\ dec # <<>> /\ dec.end # "more" =>
       rx[dec.rx] = "ended" /\ \A j \in 1..Len(cq) : cq[j].rx # dec.rx

\* Only ticks have a count, only loops with buffers wait for one, and what a loop without
\* buffers is told of, with more to follow, is a shot.
Kinds ==
  /\ \A r \in Receivers : kind[r] # "ticks" => tick[r].count = 0
  /\ \A r \in Receivers : rx[r] \in {"waiting", "rearm"} => kind[r] \in Leasing
  /\ \A i \in 1..Len(cq) : kind[cq[i].rx] \notin Leasing /\ cq[i].end = "more" => cq[i].shot

\* The completions of loop r in a queue, and how many of them there are now.
Of(q, r) == {i \in DOMAIN q : q[i].rx = r}
Queued(r) == Cardinality(Of(cq, r))

RingInv == RingTypes /\ Apart /\ Somewhere /\ Linked
LoopInv == LoopTypes /\ Final /\ Kinds /\ NoStall /\ StreamDrained /\ TicksExact
ProvidedInv == RingInv /\ LoopInv
-----------------------------------------------------------------------------
\* A completion being decoded is not the empty sequence.
LEMMA DecodedIsSome ==
  ASSUME NEW d \in Decoded
  PROVE  d # <<>>
<1>1. "rx" \in DOMAIN d BY Zenon DEF Decoded
<1>2. DOMAIN <<>> = {} OBVIOUS
<1> QED BY <1>1, <1>2, Zenon

\* A bundle is a sequence of buffers: what is left to decode, or what a completion brings.
LEMMA Bundled ==
  ASSUME RingTypes
  PROVE  /\ Len(cq) \in Nat /\ bundles \in [0..Len(cq) -> Seq(Ids)]
         /\ bundles[0] = Remaining
         /\ \A i \in 1..Len(cq) : bundles[i] = cq[i].ids
<1>1. Len(cq) \in Nat /\ \A i \in 1..Len(cq) : cq[i] \in Result
  BY DEF RingTypes
<1>2. Remaining \in Seq(Ids)
  BY DEF RingTypes, Remaining, Decoded
<1> QED BY <1>1, <1>2 DEF bundles, Result

\* The constructor links the last buffer to the first: what % does to an index.
LEMMA Remainder ==
  ASSUME NEW n \in Nat \ {0}, NEW m \in Nat
  PROVE  m % n \in 0..n - 1 /\ (m < n => m % n = m)
<1>1. m % n \in 0..n - 1 OBVIOUS
<1>2. ASSUME m < n PROVE m % n = m BY <1>2
<1> QED BY <1>1, <1>2, Zenon

\* The constructor.
LEMMA RingInit ==
  ASSUME Init
  PROVE  RingInv
<1>1. /\ kring = [i \in 1..Count |-> i - 1] /\ cq = <<>> /\ dec = <<>> /\ held = {} /\ leases = 0
      /\ next = [i \in Ids |-> (i + 1) % Count] /\ tail = Count - 1 /\ Count \in Nat \ {0}
  BY Sizes, Zenon DEF Init
<1>2. \A i \in Ids : (i + 1) % Count \in Ids /\ (i + 1 < Count => (i + 1) % Count = i + 1)
  <2> SUFFICES ASSUME NEW i \in Ids PROVE (i + 1) % Count \in Ids /\ (i + 1 < Count => (i + 1) % Count = i + 1)
    BY Zenon
  <2>1. i + 1 \in Nat BY <1>1 DEF Ids
  <2> QED BY <1>1, <2>1, Remainder, Zenon DEF Ids
<1>3. RingTypes
  BY <1>1, <1>2, FS_EmptySet DEF RingTypes, Ids
<1>4. Len(kring) = Count /\ Len(cq) = 0 /\ Remaining = <<>> /\ bundles[0] = <<>>
  BY <1>1, <1>3, Bundled DEF Remaining
<1>5. Apart /\ Somewhere
  BY <1>1, <1>4 DEF Apart, Somewhere, Ids
<1>6. \A i \in Ids : i + 1 < Count => next[i] = i + 1
  BY <1>1, <1>2, Zenon
<1>7. \A k \in 1..Count : kring[k] = k - 1
  BY <1>1, Zenon
<1>8. Linked
  <2>1. ASSUME NEW k \in 1..Count - 1 PROVE next[kring[k]] = kring[k + 1]
    <3>1. kring[k] = k - 1 /\ k - 1 \in Ids /\ kring[k + 1] = k /\ k < Count
      BY <1>7, Sizes DEF Ids
    <3>2. (k - 1) + 1 = k BY <3>1
    <3> QED BY <1>6, <3>1, <3>2, Zenon
  <2>2. Count \in 1..Count /\ tail = Count - 1 BY <1>1
  <2>3. tail = kring[Len(kring)] BY <1>4, <1>7, <2>2, Zenon
  <2>4. /\ \A i \in 0..Len(cq) : i = 0
        /\ \A k \in 1..Len(bundles[0]) - 1 : FALSE
        /\ ~(Len(Remaining) > 0)
    BY <1>4
  <2> QED BY <1>4, <2>1, <2>3, <2>4, Zenon DEF Linked
<1> QED BY <1>3, <1>5, <1>8, Zenon DEF RingInv
-----------------------------------------------------------------------------
\* A new completion: its bundle is the last.
LEMMA PostedLast ==
  ASSUME RingTypes, NEW r \in Receivers, NEW ids \in Seq(Ids), NEW shot \in BOOLEAN,
         NEW end \in Endings \cup {"more"}, Post(r, ids, shot, end), dec' = dec
  PROVE  /\ cq' \in Seq(Result) /\ Len(cq') = Len(cq) + 1
         /\ \A i \in 1..Len(cq) : cq'[i] = cq[i]
         /\ cq'[Len(cq) + 1] = [rx |-> r, ids |-> ids, shot |-> shot, end |-> end]
         /\ \A i \in 0..Len(cq) : bundles'[i] = bundles[i]
         /\ bundles'[Len(cq) + 1] = ids
         /\ Remaining' = Remaining
<1> DEFINE c == [rx |-> r, ids |-> ids, shot |-> shot, end |-> end]
<1>1. c \in Result /\ c.ids = ids BY Zenon DEF Result
<1>2. cq' = Append(cq, c) BY Zenon DEF Post
<1> HIDE DEF c
<1>3. /\ cq' \in Seq(Result) /\ Len(cq') = Len(cq) + 1 /\ Len(cq) \in Nat
      /\ \A i \in 1..Len(cq) : cq'[i] = cq[i]
      /\ cq'[Len(cq) + 1] = c
  BY <1>1, <1>2 DEF RingTypes
<1>4. Remaining' = Remaining BY Zenon DEF Remaining
<1>5. \A i \in 0..Len(cq) : bundles'[i] = bundles[i]
  BY <1>3, <1>4 DEF bundles
<1>6. bundles'[Len(cq) + 1] = ids
  BY <1>1, <1>3 DEF bundles
<1> QED BY <1>3, <1>4, <1>5, <1>6, Zenon DEF c

\* A completion without buffers.
LEMMA BareKeeps ==
  ASSUME RingInv, NEW r \in Receivers, NEW shot \in BOOLEAN,
         NEW end \in Endings \cup {"more"}, Post(r, <<>>, shot, end), UNCHANGED <<ringVars, dec>>
  PROVE  RingInv'
<1>1. RingTypes /\ Apart /\ Somewhere /\ Linked BY Zenon DEF RingInv
<1>2. UNCHANGED <<kring, next, tail, held, leases, dec>> BY Zenon DEF ringVars
<1>3. <<>> \in Seq(Ids) /\ Len(<<>>) = 0 OBVIOUS
<1>4. /\ cq' \in Seq(Result) /\ Len(cq') = Len(cq) + 1 /\ Remaining' = Remaining
      /\ \A i \in 0..Len(cq) : bundles'[i] = bundles[i]
      /\ bundles'[Len(cq) + 1] = <<>>
  BY <1>1, <1>2, <1>3, PostedLast, Zenon
<1>5. RingTypes' BY <1>1, <1>2, <1>4, Zenon DEF RingTypes
<1>6. Len(cq) \in Nat BY <1>1, Bundled, Zenon
<1>7. \A i \in 0..Len(cq') : \A k \in 1..Len(bundles'[i]) : i \in 0..Len(cq) /\ bundles'[i] = bundles[i]
  BY <1>3, <1>4, <1>6
<1>8. \A i \in 0..Len(cq) : i \in 0..Len(cq')
  BY <1>4, <1>6
<1>9. Apart'
  <2>1. ASSUME NEW i \in 0..Len(cq'), NEW k \in 1..Len(bundles'[i])
        PROVE  bundles'[i][k] \notin held' /\ \A l \in 1..Len(kring') : bundles'[i][k] # kring'[l]
    <3>1. i \in 0..Len(cq) /\ bundles'[i] = bundles[i] BY <1>7, Zenon
    <3>2. k \in 1..Len(bundles[i]) BY <3>1, Zenon
    <3>3. \A h \in 0..Len(cq) : \A g \in 1..Len(bundles[h]) :
            bundles[h][g] \notin held /\ \A l \in 1..Len(kring) : bundles[h][g] # kring[l]
      BY <1>1, Zenon DEF Apart
    <3>4. bundles[i][k] \notin held /\ \A l \in 1..Len(kring) : bundles[i][k] # kring[l]
      BY <3>1, <3>2, <3>3, Zenon
    <3> QED BY <1>2, <3>1, <3>4, Zenon
  <2>2. ASSUME NEW i \in 0..Len(cq'), NEW j \in 0..Len(cq'), NEW k \in 1..Len(bundles'[i]),
               NEW l \in 1..Len(bundles'[j]), bundles'[i][k] = bundles'[j][l]
        PROVE  i = j /\ k = l
    <3>1. /\ i \in 0..Len(cq) /\ bundles'[i] = bundles[i]
          /\ j \in 0..Len(cq) /\ bundles'[j] = bundles[j]
      BY <1>7, Zenon
    <3>2. k \in 1..Len(bundles[i]) /\ l \in 1..Len(bundles[j]) /\ bundles[i][k] = bundles[j][l]
      BY <2>2, <3>1, Zenon
    <3>3. \A h, g \in 0..Len(cq) : \A x \in 1..Len(bundles[h]), y \in 1..Len(bundles[g]) :
            bundles[h][x] = bundles[g][y] => h = g /\ x = y
      BY <1>1, Zenon DEF Apart
    <3> QED BY <3>1, <3>2, <3>3
  <2> QED BY <1>1, <1>2, <2>1, <2>2, Zenon DEF Apart
<1>10. Somewhere'
  BY <1>1, <1>2, <1>4, <1>8 DEF Somewhere
<1>11. Linked'
  <2>1. \A i \in 0..Len(cq') : \A k \in 1..Len(bundles'[i]) - 1 : i \in 0..Len(cq) /\ bundles'[i] = bundles[i]
    BY <1>3, <1>4, <1>6
  <2> QED BY <1>1, <1>2, <1>4, <2>1 DEF Linked
<1> QED BY <1>5, <1>9, <1>10, <1>11, Zenon DEF RingInv

\* The first n of a sequence, and the others.
LEMMA Split ==
  ASSUME NEW q \in Seq(Ids), NEW n \in 1..Len(q)
  PROVE  /\ SubSeq(q, 1, n) \in Seq(Ids) /\ Len(SubSeq(q, 1, n)) = n
         /\ \A k \in 1..n : SubSeq(q, 1, n)[k] = q[k]
         /\ SubSeq(q, n + 1, Len(q)) \in Seq(Ids) /\ Len(SubSeq(q, n + 1, Len(q))) = Len(q) - n
         /\ \A k \in 1..Len(q) - n : SubSeq(q, n + 1, Len(q))[k] = q[n + k]
<1>1. Len(q) \in Nat /\ \A k \in 1..Len(q) : q[k] \in Ids OBVIOUS
<1>2. \A k \in 1..n : k \in 1..Len(q) BY <1>1
<1>3. \A k \in n + 1..Len(q) : k \in 1..Len(q) BY <1>1
<1> QED BY <1>1, <1>2, <1>3

\* The kernel fills the buffers that have been published longest.
LEMMA FillKeeps ==
  ASSUME RingInv, NEW r \in Receivers, NEW n \in Nat, NEW end \in {"more", "early"}, Fill(r, n, end)
  PROVE  RingInv'
<1> DEFINE m == Len(cq)
           len == Len(kring)
           first == SubSeq(kring, 1, n)
           rest == SubSeq(kring, n + 1, Len(kring))
<1>1. RingTypes /\ Apart /\ Somewhere /\ Linked BY Zenon DEF RingInv
<1>2. /\ Post(r, first, FALSE, end) /\ n \in 1..Len(kring) /\ kring' = rest
      /\ UNCHANGED <<next, tail, held, leases, dec>>
  BY Zenon DEF Fill
<1>3. /\ first \in Seq(Ids) /\ Len(first) = n /\ \A k \in 1..n : first[k] = kring[k]
      /\ rest \in Seq(Ids) /\ Len(rest) = len - n /\ \A k \in 1..len - n : rest[k] = kring[n + k]
      /\ len \in Nat
  BY <1>1, <1>2, Split DEF RingTypes
<1> HIDE DEF first, rest
<1>4. /\ cq' \in Seq(Result) /\ Len(cq') = m + 1 /\ Remaining' = Remaining
      /\ \A i \in 0..m : bundles'[i] = bundles[i]
      /\ bundles'[m + 1] = first
  BY <1>1, <1>2, <1>3, PostedLast, Zenon DEF Endings
<1>5. RingTypes' BY <1>1, <1>2, <1>3, <1>4, Zenon DEF RingTypes
<1>6. m \in Nat BY <1>1, Bundled, Zenon
<1>7. /\ \A i \in 0..m + 1 : i \in 0..m \/ i = m + 1
      /\ \A i \in 0..m : i \in 0..m + 1 /\ i # m + 1
      /\ m + 1 \in 0..m + 1
      /\ \A k \in 1..n : k \in 1..len
      /\ \A k \in 1..len - n : n + k \in 1..len /\ ~(n + k \in 1..n)
      /\ \A k \in 1..len : k \in 1..n \/ (k - n \in 1..len - n /\ n + (k - n) = k)
  BY <1>2, <1>3, <1>6
<1>11. /\ Len(kring') = len - n /\ \A k \in 1..len - n : kring'[k] = kring[n + k]
       /\ \A k, l \in 1..len : kring[k] = kring[l] => k = l
       /\ \A k \in 1..len : kring[k] \notin held
       /\ \A k \in 1..len - 1 : next[kring[k]] = kring[k + 1]
       /\ len > 0 => tail = kring[len]
  BY <1>1, <1>2, <1>3, Zenon DEF Apart, Linked
<1>12. /\ Len(bundles'[m + 1]) = n /\ \A k \in 1..n : bundles'[m + 1][k] = kring[k]
       /\ \A i \in 0..m : \A k \in 1..Len(bundles[i]) :
            bundles[i][k] \notin held /\ \A l \in 1..len : bundles[i][k] # kring[l]
       /\ \A i, j \in 0..m : \A k \in 1..Len(bundles[i]), l \in 1..Len(bundles[j]) :
            bundles[i][k] = bundles[j][l] => i = j /\ k = l
  BY <1>1, <1>3, <1>4, Zenon DEF Apart
<1> HIDE DEF m, len
<1>8. Apart'
  <2>1. ASSUME NEW k \in 1..len - n, NEW l \in 1..len - n, kring'[k] = kring'[l] PROVE k = l
    <3>1. n + k = n + l BY <1>7, <1>11, <2>1, Zenon
    <3> QED BY <1>3, <3>1
  <2>2. \A k \in 1..len - n : kring'[k] \notin held'
    BY <1>2, <1>7, <1>11, Zenon
  <2>3. ASSUME NEW i \in 0..m + 1, NEW k \in 1..Len(bundles'[i])
        PROVE  bundles'[i][k] \notin held' /\ \A l \in 1..len - n : bundles'[i][k] # kring'[l]
    <3>1. CASE i \in 0..m
      <4>1. bundles'[i] = bundles[i] BY <1>4, <3>1, Zenon
      <4>2. /\ bundles[i][k] \notin held /\ \A l \in 1..len : bundles[i][k] # kring[l]
        BY <1>12, <3>1, <4>1
      <4>3. ASSUME NEW l \in 1..len - n PROVE bundles'[i][k] # kring'[l]
        <5>1. n + l \in 1..len /\ kring'[l] = kring[n + l] BY <1>7, <1>11, Zenon
        <5> QED BY <4>1, <4>2, <5>1
      <4> QED BY <1>2, <4>1, <4>2, <4>3, Zenon
    <3>2. CASE i = m + 1
      <4>1. k \in 1..n /\ k \in 1..len /\ bundles'[i][k] = kring[k] BY <1>7, <1>12, <3>2, Zenon
      <4>2. ASSUME NEW l \in 1..len - n PROVE kring[k] # kring'[l]
        <5>1. n + l \in 1..len /\ ~(n + l \in 1..n) /\ kring'[l] = kring[n + l] BY <1>7, <1>11, Zenon
        <5> QED BY <1>11, <4>1, <5>1, Zenon
      <4> QED BY <1>2, <1>11, <4>1, <4>2, Zenon
    <3> QED BY <1>7, <3>1, <3>2, Zenon
  <2>4. ASSUME NEW i \in 0..m, NEW k \in 1..Len(bundles'[i]), NEW l \in 1..n
        PROVE  bundles'[i][k] # bundles'[m + 1][l]
    BY <1>4, <1>7, <1>12
  <2>5. ASSUME NEW i \in 0..m + 1, NEW j \in 0..m + 1, NEW k \in 1..Len(bundles'[i]),
               NEW l \in 1..Len(bundles'[j]), bundles'[i][k] = bundles'[j][l]
        PROVE  i = j /\ k = l
    <3>1. CASE i \in 0..m /\ j \in 0..m
      <4>1. bundles'[i] = bundles[i] /\ bundles'[j] = bundles[j] BY <1>4, <3>1, Zenon
      <4>2. k \in 1..Len(bundles[i]) /\ l \in 1..Len(bundles[j]) /\ bundles[i][k] = bundles[j][l]
        BY <2>5, <4>1, Zenon
      <4>3. \A g, h \in 0..m : \A x \in 1..Len(bundles[g]), y \in 1..Len(bundles[h]) :
              bundles[g][x] = bundles[h][y] => g = h /\ x = y
        BY <1>12, Zenon
      <4> QED BY <3>1, <4>2, <4>3
    <3>2. CASE i = m + 1 /\ j = m + 1
      <4>1. /\ k \in 1..n /\ l \in 1..n /\ k \in 1..len /\ l \in 1..len
            /\ bundles'[i][k] = kring[k] /\ bundles'[j][l] = kring[l]
        BY <1>7, <1>12, <3>2, Zenon
      <4> QED BY <1>11, <2>5, <3>2, <4>1, Zenon
    <3>3. CASE i \in 0..m /\ j = m + 1 BY <1>12, <2>4, <2>5, <3>3
    <3>4. CASE i = m + 1 /\ j \in 0..m BY <1>12, <2>4, <2>5, <3>4
    <3> QED BY <1>7, <3>1, <3>2, <3>3, <3>4, Zenon
  <2> QED BY <1>4, <1>11, <2>1, <2>2, <2>3, <2>5 DEF Apart
<1>9. Somewhere'
  <2> SUFFICES ASSUME NEW b \in Ids
               PROVE  \/ b \in held'
                      \/ \E k \in 1..Len(kring') : kring'[k] = b
                      \/ \E i \in 0..Len(cq') : \E k \in 1..Len(bundles'[i]) : bundles'[i][k] = b
    BY Zenon DEF Somewhere
  <2>1. CASE b \in held BY <1>2, <2>1, Zenon
  <2>2. ASSUME NEW k \in 1..len, kring[k] = b
        PROVE  \/ \E l \in 1..Len(kring') : kring'[l] = b
               \/ \E i \in 0..Len(cq') : \E l \in 1..Len(bundles'[i]) : bundles'[i][l] = b
    <3>1. CASE k \in 1..n BY <1>4, <1>7, <1>12, <2>2, <3>1, Zenon
    <3>2. CASE k - n \in 1..len - n /\ n + (k - n) = k BY <1>11, <2>2, <3>2
    <3> QED BY <1>7, <3>1, <3>2, Zenon
  <2>3. ASSUME NEW i \in 0..m, NEW k \in 1..Len(bundles[i]), bundles[i][k] = b
        PROVE  \E j \in 0..Len(cq') : \E l \in 1..Len(bundles'[j]) : bundles'[j][l] = b
    BY <1>4, <1>7, <2>3, Zenon
  <2> QED BY <1>1, <2>1, <2>2, <2>3, Zenon DEF Somewhere, len, m
<1>10. Linked'
  <2>1. ASSUME NEW k \in 1..(len - n) - 1 PROVE next'[kring'[k]] = kring'[k + 1]
    <3>1. /\ n + k \in 1..len - 1 /\ k \in 1..len - n /\ k + 1 \in 1..len - n
          /\ n + (k + 1) = (n + k) + 1
      BY <1>2, <1>3
    <3>2. kring'[k] = kring[n + k] /\ kring'[k + 1] = kring[(n + k) + 1] BY <1>11, <3>1, Zenon
    <3>3. next[kring[n + k]] = kring[(n + k) + 1] BY <1>11, <3>1, Zenon
    <3> QED BY <1>2, <3>2, <3>3, Zenon
  <2>2. ASSUME len - n > 0 PROVE tail' = kring'[len - n]
    <3>1. len > 0 /\ len - n \in 1..len - n /\ n + (len - n) = len BY <1>2, <1>3, <2>2
    <3> QED BY <1>2, <1>11, <3>1, Zenon
  <2>3. ASSUME NEW i \in 0..m + 1, NEW k \in 1..Len(bundles'[i]) - 1
        PROVE  next'[bundles'[i][k]] = bundles'[i][k + 1] /\ bundles'[i][k] # tail'
    <3>1. CASE i \in 0..m
      <4>1. bundles'[i] = bundles[i] BY <1>4, <3>1, Zenon
      <4>2. k \in 1..Len(bundles[i]) - 1 BY <4>1, Zenon
      <4>3. next[bundles[i][k]] = bundles[i][k + 1] /\ bundles[i][k] # tail
        BY <1>1, <3>1, <4>2 DEF Linked, m
      <4> QED BY <1>2, <4>1, <4>3, Zenon
    <3>2. CASE i = m + 1
      <4>1. k \in 1..n - 1 BY <1>12, <3>2, Zenon
      <4>2. /\ n <= len /\ len \in Nat /\ n \in Nat BY <1>2, <1>3 DEF len
      <4>3. /\ k \in 1..len - 1 /\ k # len /\ len > 0 /\ k \in 1..len /\ len \in 1..len
            /\ k \in 1..n /\ k + 1 \in 1..n
        BY <4>1, <4>2
      <4>4. bundles'[i][k] = kring[k] /\ bundles'[i][k + 1] = kring[k + 1]
        BY <1>12, <3>2, <4>3, Zenon
      <4>5. next[kring[k]] = kring[k + 1] /\ tail = kring[len] /\ kring[k] # kring[len]
        BY <1>11, <4>3, Zenon
      <4> QED BY <1>2, <4>4, <4>5, Zenon
    <3> QED BY <1>7, <3>1, <3>2, Zenon
  <2> QED BY <1>1, <1>2, <1>4, <1>11, <2>1, <2>2, <2>3, Zenon DEF Linked
<1> QED BY <1>5, <1>8, <1>9, <1>10, Zenon DEF RingInv

\* What the head and the tail of a queue that is not empty hold.
LEMMA Popped ==
  ASSUME NEW S, NEW q \in Seq(S), q # <<>>
  PROVE  /\ Head(q) = q[1] /\ q[1] \in S /\ Tail(q) \in Seq(S) /\ Len(q) \in Nat \ {0}
         /\ Len(Tail(q)) = Len(q) - 1
         /\ \A i \in 1..Len(q) - 1 : Tail(q)[i] = q[i + 1]
  OBVIOUS

\* poll() hands a completion over: every bundle moves up by one, and what was left of the
\* one before was empty.
LEMMA Handed ==
  ASSUME RingTypes, Dispatch
  PROVE  /\ Len(cq) \in Nat \ {0} /\ cq' \in Seq(Result) /\ Len(cq') = Len(cq) - 1
         /\ \A i \in 1..Len(cq') : cq'[i] = cq[i + 1]
         /\ cq[1] \in Result /\ dec' \in Decoded /\ dec' # <<>>
         /\ dec'.rx = cq[1].rx /\ dec'.ids = cq[1].ids /\ dec'.shot = cq[1].shot /\ dec'.end = cq[1].end
         /\ Len(dec'.ids) > 0 => dec'.id = dec'.ids[1]
         /\ Remaining' = dec'.ids /\ dec = <<>> /\ Remaining = <<>>
         /\ bundles[0] = <<>> /\ \A i \in 0..Len(cq') : bundles'[i] = bundles[i + 1]
<1>1. /\ dec = <<>> /\ cq # <<>> /\ cq' = Tail(cq)
      /\ dec' = [rx |-> Head(cq).rx, ids |-> Head(cq).ids, shot |-> Head(cq).shot, end |-> Head(cq).end,
                 id |-> IF Head(cq).ids = <<>> THEN 0 ELSE Head(cq).ids[1]]
  BY Zenon DEF Dispatch
<1>2. /\ Head(cq) = cq[1] /\ cq[1] \in Result /\ Len(cq) \in Nat \ {0}
      /\ cq' \in Seq(Result) /\ Len(cq') = Len(cq) - 1
      /\ \A i \in 1..Len(cq') : cq'[i] = cq[i + 1]
  BY <1>1, Popped, Zenon DEF RingTypes
<1> DEFINE c == cq[1]
           b == IF c.ids = <<>> THEN 0 ELSE c.ids[1]
<1>3. dec' = [rx |-> c.rx, ids |-> c.ids, shot |-> c.shot, end |-> c.end, id |-> b]
  BY <1>1, <1>2, Zenon
<1>4. c \in Result BY <1>2, Zenon
<1> HIDE DEF c
<1>5. b \in Ids /\ (Len(c.ids) > 0 => b = c.ids[1])
  BY <1>4, Sizes DEF Result, Ids
<1> HIDE DEF b
<1>6. dec' \in Decoded /\ dec'.rx = c.rx /\ dec'.ids = c.ids /\ dec'.shot = c.shot /\ dec'.end = c.end /\ dec'.id = b
  BY <1>3, <1>4, <1>5, Zenon DEF Decoded, Result
<1>7. dec' # <<>> BY <1>6, DecodedIsSome, Zenon
<1>8. Remaining' = dec'.ids /\ Remaining = <<>> BY <1>1, <1>7, Zenon DEF Remaining
<1>9. bundles[0] = <<>> BY <1>8, Bundled, Zenon
<1>10. ASSUME NEW i \in 0..Len(cq') PROVE bundles'[i] = bundles[i + 1]
  <2>1. i + 1 \in 1..Len(cq) BY <1>2
  <2>2. bundles[i + 1] = cq[i + 1].ids BY <2>1, Bundled, Zenon
  <2>3. bundles'[i] = IF i = 0 THEN Remaining' ELSE cq'[i].ids BY Zenon DEF bundles
  <2>4. CASE i = 0 BY <1>6, <1>8, <2>2, <2>3, <2>4 DEF c
  <2>5. CASE i # 0 BY <1>2, <2>2, <2>3, <2>5
  <2> QED BY <2>4, <2>5, Zenon
<1> QED BY <1>1, <1>2, <1>5, <1>6, <1>7, <1>8, <1>9, <1>10, Zenon DEF c

\* The poll loop takes the oldest completion: its bundle is what is now left to decode.
LEMMA DispatchKeeps ==
  ASSUME RingInv, Dispatch
  PROVE  RingInv'
<1> DEFINE m == Len(cq) - 1
<1>1. RingTypes /\ Apart /\ Somewhere /\ Linked BY Zenon DEF RingInv
<1>2. UNCHANGED <<kring, next, tail, held, leases>> BY Zenon DEF Dispatch, ringVars
<1>3. /\ Len(cq) \in Nat \ {0} /\ cq' \in Seq(Result) /\ Len(cq') = m
      /\ dec' \in Decoded /\ (Len(Remaining') > 0 => dec'.id = Remaining'[1])
      /\ bundles[0] = <<>> /\ \A i \in 0..m : bundles'[i] = bundles[i + 1]
  BY <1>1, Handed, Zenon
<1>4. RingTypes' BY <1>1, <1>2, <1>3, Zenon DEF RingTypes
<1>5. /\ \A i \in 0..m : i + 1 \in 0..Len(cq)
      /\ \A i, j \in 0..m : i + 1 = j + 1 => i = j
      /\ \A i \in 0..Len(cq) : i = 0 \/ (i - 1 \in 0..m /\ (i - 1) + 1 = i)
      /\ Len(<<>>) = 0 /\ \A k : ~(k \in 1..0)
  BY <1>3
<1> HIDE DEF m
<1>6. Apart'
  <2>1. ASSUME NEW i \in 0..m, NEW k \in 1..Len(bundles'[i])
        PROVE  bundles'[i][k] \notin held /\ \A l \in 1..Len(kring) : bundles'[i][k] # kring[l]
    <3>1. bundles'[i] = bundles[i + 1] /\ k \in 1..Len(bundles[i + 1]) BY <1>3, Zenon
    <3> QED BY <1>1, <1>5, <3>1 DEF Apart
  <2>2. ASSUME NEW i \in 0..m, NEW j \in 0..m, NEW k \in 1..Len(bundles'[i]),
               NEW l \in 1..Len(bundles'[j]), bundles'[i][k] = bundles'[j][l]
        PROVE  i = j /\ k = l
    <3>1. bundles'[i] = bundles[i + 1] /\ k \in 1..Len(bundles[i + 1]) BY <1>3, Zenon
    <3>2. bundles'[j] = bundles[j + 1] /\ l \in 1..Len(bundles[j + 1]) BY <1>3, Zenon
    <3>3. i + 1 \in 0..Len(cq) /\ j + 1 \in 0..Len(cq) BY <1>5, Zenon
    <3>4. i + 1 = j + 1 /\ k = l BY <1>1, <2>2, <3>1, <3>2, <3>3 DEF Apart
    <3> QED BY <1>5, <3>4, Zenon
  <2> QED BY <1>1, <1>2, <1>3, <2>1, <2>2 DEF Apart
<1>7. Somewhere'
  <2> SUFFICES ASSUME NEW b \in Ids
               PROVE  \/ b \in held'
                      \/ \E k \in 1..Len(kring') : kring'[k] = b
                      \/ \E i \in 0..Len(cq') : \E k \in 1..Len(bundles'[i]) : bundles'[i][k] = b
    BY Zenon DEF Somewhere
  <2>1. ASSUME NEW i \in 0..Len(cq), NEW k \in 1..Len(bundles[i]), bundles[i][k] = b
        PROVE  \E j \in 0..Len(cq') : \E l \in 1..Len(bundles'[j]) : bundles'[j][l] = b
    <3>1. i # 0 BY <1>3, <1>5, Zenon
    <3>2. i - 1 \in 0..m /\ (i - 1) + 1 = i BY <1>5, <3>1, Zenon
    <3>3. bundles'[i - 1] = bundles[i] BY <1>3, <3>2, Zenon
    <3> QED BY <1>3, <2>1, <3>2, <3>3, Zenon
  <2> QED BY <1>1, <1>2, <2>1, Zenon DEF Somewhere
<1>8. Linked'
  <2>1. ASSUME NEW i \in 0..m, NEW k \in 1..Len(bundles'[i]) - 1
        PROVE  next[bundles'[i][k]] = bundles'[i][k + 1] /\ bundles'[i][k] # tail
    <3>1. bundles'[i] = bundles[i + 1] /\ k \in 1..Len(bundles[i + 1]) - 1 BY <1>3, Zenon
    <3> QED BY <1>1, <1>5, <3>1 DEF Linked
  <2> QED BY <1>1, <1>2, <1>3, <2>1, Zenon DEF Linked
<1> QED BY <1>4, <1>6, <1>7, <1>8, Zenon DEF RingInv

\* put: a buffer that is not published is published after the others.
LEMMA Published ==
  ASSUME RingTypes, Apart, Linked, NEW id \in Ids, NEW h, NEW n, Put(id, h, n),
         \A k \in 1..Len(kring) : kring[k] # id
  PROVE  /\ kring' \in Seq(Ids) /\ next' \in [Ids -> Ids] /\ tail' = id
         /\ Len(kring') = Len(kring) + 1 /\ Len(kring) \in Nat
         /\ \A k \in 1..Len(kring) : k \in 1..Len(kring') /\ kring'[k] = kring[k]
         /\ Len(kring) + 1 \in 1..Len(kring') /\ kring'[Len(kring) + 1] = id
         /\ \A k \in 1..Len(kring') : k \in 1..Len(kring) \/ k = Len(kring) + 1
         /\ \A k, l \in 1..Len(kring') : kring'[k] = kring'[l] => k = l
         /\ \A k \in 1..Len(kring') - 1 : next'[kring'[k]] = kring'[k + 1]
         /\ tail' = kring'[Len(kring')]
         /\ \A b \in Ids : b # tail => next'[b] = next[b]
<1>1. kring' = Append(kring, id) /\ tail' = id /\ next' = [next EXCEPT ![tail] = id]
  BY Zenon DEF Put
<1>2. kring \in Seq(Ids) /\ next \in [Ids -> Ids] /\ tail \in Ids BY Zenon DEF RingTypes
<1> DEFINE len == Len(kring)
<1>3. /\ kring' \in Seq(Ids) /\ Len(kring') = len + 1 /\ len \in Nat
      /\ \A k \in 1..len : kring'[k] = kring[k] /\ kring[k] \in Ids
      /\ kring'[len + 1] = id
  BY <1>1, <1>2
<1>4. /\ next' \in [Ids -> Ids] /\ next'[tail] = id /\ \A b \in Ids : b # tail => next'[b] = next[b]
  BY <1>1, <1>2, Zenon
<1>5. /\ \A k, l \in 1..len : kring[k] = kring[l] => k = l
      /\ \A k \in 1..len - 1 : next[kring[k]] = kring[k + 1]
      /\ len > 0 => tail = kring[len]
  BY Zenon DEF Apart, Linked
<1>6. \A k \in 1..len + 1 : k \in 1..len \/ k = len + 1 BY <1>3
<1>7. \A k \in 1..len : k \in 1..len + 1 BY <1>3
<1>8. len + 1 \in 1..len + 1 BY <1>3
<1> HIDE DEF len
<1>9. ASSUME NEW k \in 1..len + 1, NEW l \in 1..len + 1, kring'[k] = kring'[l] PROVE k = l
  <2>1. \A j \in 1..len : kring[j] # id BY Zenon DEF len
  <2> QED BY <1>3, <1>5, <1>6, <1>9, <2>1
<1>10. ASSUME NEW k \in 1..(len + 1) - 1 PROVE next'[kring'[k]] = kring'[k + 1]
  <2>1. k \in 1..len BY <1>3
  <2>2. CASE k = len
    <3>1. len > 0 BY <1>3, <2>1
    <3> QED BY <1>3, <1>4, <1>5, <2>1, <2>2, <3>1, Zenon
  <2>3. CASE k # len
    <3>1. k \in 1..len - 1 /\ k + 1 \in 1..len /\ len \in 1..len /\ len > 0 BY <1>3, <2>1, <2>3
    <3>2. kring[k] # tail /\ next[kring[k]] = kring[k + 1] BY <1>5, <2>1, <2>3, <3>1, Zenon
    <3>3. next'[kring[k]] = next[kring[k]] BY <1>3, <1>4, <2>1, <3>2, Zenon
    <3>4. kring'[k] = kring[k] /\ kring'[k + 1] = kring[k + 1] BY <1>3, <2>1, <3>1, Zenon
    <3> QED BY <3>2, <3>3, <3>4, Zenon
  <2> QED BY <2>2, <2>3, Zenon
<1> QED BY <1>1, <1>3, <1>4, <1>6, <1>7, <1>8, <1>9, <1>10 DEF len

\* A chunk is destroyed, in a callback or later.
LEMMA ReturnKeeps ==
  ASSUME RingInv, NEW id \in Ids, Return(id)
  PROVE  RingInv'
<1>1. RingTypes /\ Apart /\ Somewhere /\ Linked BY Zenon DEF RingInv
<1>2. /\ id \in held /\ Put(id, held, leases) /\ UNCHANGED <<cq, dec>>
      /\ held' = held \ {id} /\ leases' = leases - 1
  BY Zenon DEF Return, Put
<1>3. Remaining' = Remaining BY <1>2, Zenon DEF Remaining
<1>4. bundles' = bundles BY <1>2, <1>3, Zenon DEF bundles
<1>5. \A k \in 1..Len(kring) : kring[k] # id
  <2>1. \A k \in 1..Len(kring) : kring[k] \notin held BY <1>1, Zenon DEF Apart
  <2> QED BY <1>2, <2>1, Zenon
<1>6. /\ kring' \in Seq(Ids) /\ next' \in [Ids -> Ids] /\ tail' = id
      /\ Len(kring') = Len(kring) + 1 /\ Len(kring) \in Nat
      /\ \A k \in 1..Len(kring) : k \in 1..Len(kring') /\ kring'[k] = kring[k]
      /\ Len(kring) + 1 \in 1..Len(kring') /\ kring'[Len(kring) + 1] = id
      /\ \A k \in 1..Len(kring') : k \in 1..Len(kring) \/ k = Len(kring) + 1
      /\ \A k, l \in 1..Len(kring') : kring'[k] = kring'[l] => k = l
      /\ \A k \in 1..Len(kring') - 1 : next'[kring'[k]] = kring'[k + 1]
      /\ tail' = kring'[Len(kring')]
      /\ \A b \in Ids : b # tail => next'[b] = next[b]
  BY <1>1, <1>2, <1>5, Published, Zenon
<1>7. held' \in SUBSET Ids /\ leases' = Cardinality(held')
  <2>1. IsFiniteSet(Ids) BY Sizes, FS_Interval DEF Ids
  <2>2. held \in SUBSET Ids /\ leases = Cardinality(held) BY <1>1, Zenon DEF RingTypes
  <2>3. IsFiniteSet(held) BY <2>1, <2>2, FS_Subset, Zenon
  <2>4. Cardinality(held \ {id}) = Cardinality(held) - 1 BY <1>2, <2>3, FS_RemoveElement, Zenon
  <2> QED BY <1>2, <2>2, <2>4, Zenon
<1>8. RingTypes' BY <1>1, <1>2, <1>6, <1>7, Zenon DEF RingTypes
<1>9. Apart'
  <2>1. \A k \in 1..Len(kring') : kring'[k] \notin held'
    BY <1>1, <1>2, <1>6, Zenon DEF Apart
  <2>2. ASSUME NEW i \in 0..Len(cq), NEW k \in 1..Len(bundles[i])
        PROVE  bundles[i][k] \notin held' /\ \A l \in 1..Len(kring') : bundles[i][k] # kring'[l]
    <3>1. bundles[i][k] \notin held /\ \A l \in 1..Len(kring) : bundles[i][k] # kring[l]
      BY <1>1, Zenon DEF Apart
    <3> QED BY <1>2, <1>6, <3>1, Zenon
  <2>3. \A i, j \in 0..Len(cq) : \A k \in 1..Len(bundles[i]), l \in 1..Len(bundles[j]) :
          bundles[i][k] = bundles[j][l] => i = j /\ k = l
    BY <1>1, Zenon DEF Apart
  <2> QED BY <1>2, <1>4, <1>6, <2>1, <2>2, <2>3 DEF Apart
<1>10. Somewhere'
  <2> SUFFICES ASSUME NEW b \in Ids
               PROVE  \/ b \in held'
                      \/ \E k \in 1..Len(kring') : kring'[k] = b
                      \/ \E i \in 0..Len(cq) : \E k \in 1..Len(bundles[i]) : bundles[i][k] = b
    BY <1>2, <1>4, Zenon DEF Somewhere
  <2>1. CASE b \in held BY <1>2, <1>6, <2>1, Zenon
  <2>2. CASE \E k \in 1..Len(kring) : kring[k] = b BY <1>6, <2>2, Zenon
  <2> QED BY <1>1, <2>1, <2>2, Zenon DEF Somewhere
<1>11. Linked'
  <2>1. ASSUME NEW i \in 0..Len(cq), NEW k \in 1..Len(bundles[i]) - 1
        PROVE  next'[bundles[i][k]] = bundles[i][k + 1] /\ bundles[i][k] # tail'
    <3>1. bundles[i] \in Seq(Ids) BY <1>1, Bundled, Zenon
    <3>2. k \in 1..Len(bundles[i]) /\ bundles[i][k] \in Ids BY <3>1
    <3>3. bundles[i][k] \notin held /\ bundles[i][k] # tail /\ next[bundles[i][k]] = bundles[i][k + 1]
      BY <1>1, <3>2, Zenon DEF Apart, Linked
    <3> QED BY <1>2, <1>6, <3>2, <3>3, Zenon
  <2> QED BY <1>1, <1>2, <1>3, <1>4, <1>6, <2>1 DEF Linked
<1> QED BY <1>8, <1>9, <1>10, <1>11, Zenon DEF RingInv

\* A round of each() takes the buffer next in the bundle, and next_ leads on to the one after it.
LEMMA Parted ==
  ASSUME RingInv, NEW keep \in BOOLEAN, NEW halt \in BOOLEAN, Part(keep, halt)
  PROVE  /\ dec # <<>> /\ dec \in Decoded /\ dec' # <<>> /\ dec' \in Decoded
         /\ dec'.rx = dec.rx /\ dec'.shot = dec.shot /\ dec'.end = dec.end
         /\ Len(Remaining') > 0 => dec'.id = Remaining'[1]
         /\ Len(cq) \in Nat /\ 0 \in 0..Len(cq) /\ cq' = cq
         /\ Len(bundles[0]) \in Nat \ {0} /\ dec.id = bundles[0][1]
         /\ Len(bundles'[0]) = Len(bundles[0]) - 1
         /\ \A k \in 1..Len(bundles[0]) - 1 : bundles'[0][k] = bundles[0][k + 1]
         /\ \A i \in 0..Len(cq) : i # 0 => bundles'[i] = bundles[i]
<1>1. RingTypes /\ Linked BY Zenon DEF RingInv
<1>2. /\ dec # <<>> /\ dec.ids # <<>> /\ cq' = cq
      /\ dec' = [dec EXCEPT !.ids = Tail(dec.ids), !.id = next[dec.id]]
  BY Zenon DEF Part, Successor
<1>3. dec \in Decoded /\ next \in [Ids -> Ids] BY <1>1, <1>2, Zenon DEF RingTypes
<1>4. dec.ids \in Seq(Ids) /\ dec.id \in Ids BY <1>3, Zenon DEF Decoded
<1>5. /\ Tail(dec.ids) \in Seq(Ids) /\ Len(dec.ids) \in Nat \ {0} /\ Len(Tail(dec.ids)) = Len(dec.ids) - 1
      /\ \A k \in 1..Len(dec.ids) - 1 : Tail(dec.ids)[k] = dec.ids[k + 1]
  BY <1>2, <1>4, Popped, Zenon
<1>6. next[dec.id] \in Ids BY <1>3, <1>4, Zenon
<1>7. /\ dec' \in Decoded /\ dec'.rx = dec.rx /\ dec'.shot = dec.shot /\ dec'.end = dec.end
      /\ dec'.ids = Tail(dec.ids) /\ dec'.id = next[dec.id]
  BY <1>2, <1>3, <1>5, <1>6, Zenon DEF Decoded
<1>8. dec' # <<>> BY <1>7, DecodedIsSome, Zenon
<1>9. Remaining = dec.ids /\ Remaining' = dec'.ids BY <1>2, <1>8, Zenon DEF Remaining
<1>10. Len(cq) \in Nat /\ bundles[0] = Remaining BY <1>1, Bundled, Zenon
<1>11. bundles'[0] = Remaining' /\ \A i \in 0..Len(cq) : i # 0 => bundles'[i] = bundles[i]
  BY <1>2, <1>10 DEF bundles
<1>12. dec.id = bundles[0][1]
  BY <1>1, <1>5, <1>9, <1>10 DEF Linked
<1>13. ASSUME Len(Remaining') > 0 PROVE dec'.id = Remaining'[1]
  <2>1. 1 \in 1..Len(dec.ids) - 1 BY <1>5, <1>7, <1>9, <1>13
  <2>2. 0 \in 0..Len(cq) BY <1>10
  <2>3. next[bundles[0][1]] = bundles[0][1 + 1] BY <1>1, <1>9, <1>10, <2>1, <2>2, Zenon DEF Linked
  <2> QED BY <1>5, <1>7, <1>9, <1>10, <1>12, <2>1, <2>3, Zenon
<1>14. /\ Len(bundles[0]) \in Nat \ {0} /\ Len(bundles'[0]) = Len(bundles[0]) - 1
       /\ \A k \in 1..Len(bundles[0]) - 1 : bundles'[0][k] = bundles[0][k + 1]
  BY <1>5, <1>7, <1>9, <1>10, <1>11, Zenon
<1>15. 0 \in 0..Len(cq) BY <1>10
<1> QED BY <1>2, <1>3, <1>7, <1>8, <1>10, <1>11, <1>12, <1>13, <1>14, <1>15, Zenon

\* The bundles after that round: they have lost that buffer and nothing else.
LEMMA Rest ==
  ASSUME RingInv, NEW keep \in BOOLEAN, NEW halt \in BOOLEAN, Part(keep, halt)
  PROVE  /\ dec.id \in Ids /\ dec.id \notin held /\ \A k \in 1..Len(kring) : kring[k] # dec.id
         /\ \A i \in 0..Len(cq) : Len(bundles'[i]) \in Nat
         /\ \A i \in 0..Len(cq) : \A k \in 1..Len(bundles'[i]) :
              /\ bundles'[i][k] \in Ids /\ bundles'[i][k] # dec.id /\ bundles'[i][k] \notin held
              /\ \A l \in 1..Len(kring) : bundles'[i][k] # kring[l]
         /\ \A i, j \in 0..Len(cq) : \A k \in 1..Len(bundles'[i]), l \in 1..Len(bundles'[j]) :
              bundles'[i][k] = bundles'[j][l] => i = j /\ k = l
         /\ \A i \in 0..Len(cq) : \A k \in 1..Len(bundles'[i]) - 1 :
              next[bundles'[i][k]] = bundles'[i][k + 1] /\ bundles'[i][k] # tail
         /\ \A i \in 0..Len(cq) : \A k \in 1..Len(bundles[i]) :
              \/ bundles[i][k] = dec.id
              \/ \E l \in 1..Len(bundles'[i]) : bundles'[i][l] = bundles[i][k]
<1> DEFINE m == Len(cq)
           n == Len(bundles[0])
           At(i, k) == IF i = 0 THEN k + 1 ELSE k
<1>1. RingTypes /\ Apart /\ Linked BY Zenon DEF RingInv
<1>2. /\ m \in Nat /\ 0 \in 0..m /\ n \in Nat \ {0} /\ dec.id = bundles[0][1]
      /\ Len(bundles'[0]) = n - 1 /\ \A k \in 1..n - 1 : bundles'[0][k] = bundles[0][k + 1]
      /\ \A i \in 0..m : i # 0 => bundles'[i] = bundles[i]
  BY Parted, Zenon
<1>3. \A i \in 0..m : \A k \in 1..Len(bundles[i]) :
        bundles[i][k] \notin held /\ \A l \in 1..Len(kring) : bundles[i][k] # kring[l]
  BY <1>1, Zenon DEF Apart
<1>14. \A i, j \in 0..m : \A k \in 1..Len(bundles[i]), l \in 1..Len(bundles[j]) :
         bundles[i][k] = bundles[j][l] => i = j /\ k = l
  BY <1>1, Zenon DEF Apart
<1>15. \A i \in 0..m : \A k \in 1..Len(bundles[i]) - 1 :
         next[bundles[i][k]] = bundles[i][k + 1] /\ bundles[i][k] # tail
  BY <1>1, Zenon DEF Linked
<1>4. \A i \in 0..m : Len(bundles[i]) \in Nat /\ \A k \in 1..Len(bundles[i]) : bundles[i][k] \in Ids
  BY <1>1, Bundled
<1>5. 1 \in 1..n BY <1>2
<1> HIDE DEF m, n
<1>6. dec.id \in Ids /\ dec.id \notin held /\ \A k \in 1..Len(kring) : kring[k] # dec.id
  BY <1>2, <1>3, <1>4, <1>5 DEF n
<1>7. ASSUME NEW i \in 0..m, NEW k \in 1..Len(bundles'[i])
      PROVE  /\ At(i, k) \in 1..Len(bundles[i]) /\ bundles'[i][k] = bundles[i][At(i, k)]
             /\ i = 0 => At(i, k) # 1
  <2>1. CASE i = 0
    <3>1. k \in 1..n - 1 BY <1>2, <2>1, Zenon
    <3>2. k + 1 \in 1..n /\ k + 1 # 1 BY <1>2, <3>1
    <3> QED BY <1>2, <2>1, <3>1, <3>2, Zenon DEF n
  <2>2. CASE i # 0 BY <1>2, <2>2, Zenon
  <2> QED BY <2>1, <2>2, Zenon
<1>8. ASSUME NEW i \in 0..m, NEW k \in 1..Len(bundles'[i]), NEW l \in 1..Len(bundles'[i]), At(i, k) = At(i, l)
      PROVE  k = l
  <2>1. k \in Int /\ l \in Int OBVIOUS
  <2> QED BY <1>8, <2>1
<1>16. \A i \in 0..m : Len(bundles'[i]) \in Nat
  BY <1>2, <1>4
<1>9. ASSUME NEW i \in 0..m, NEW k \in 1..Len(bundles'[i]) - 1
      PROVE  /\ k \in 1..Len(bundles'[i]) /\ k + 1 \in 1..Len(bundles'[i])
             /\ At(i, k) \in 1..Len(bundles[i]) - 1 /\ At(i, k + 1) = At(i, k) + 1
  <2>1. Len(bundles'[i]) \in Nat BY <1>16, Zenon
  <2>2. k \in 1..Len(bundles'[i]) /\ k + 1 \in 1..Len(bundles'[i]) BY <2>1
  <2>3. At(i, k + 1) = At(i, k) + 1 BY <2>2, Zenon
  <2>4. At(i, k) \in 1..Len(bundles[i]) - 1
    <3>1. At(i, k) \in 1..Len(bundles[i]) /\ At(i, k) + 1 \in 1..Len(bundles[i]) /\ Len(bundles[i]) \in Nat
      BY <1>4, <1>7, <2>2, <2>3, Zenon
    <3> HIDE DEF At
    <3> QED BY <3>1
  <2> QED BY <2>2, <2>3, <2>4, Zenon
<1> HIDE DEF At
<1>10. ASSUME NEW i \in 0..m, NEW k \in 1..Len(bundles'[i])
       PROVE  /\ bundles'[i][k] \in Ids /\ bundles'[i][k] # dec.id /\ bundles'[i][k] \notin held
              /\ \A l \in 1..Len(kring) : bundles'[i][k] # kring[l]
  <2>1. At(i, k) \in 1..Len(bundles[i]) /\ bundles'[i][k] = bundles[i][At(i, k)] /\ (i = 0 => At(i, k) # 1)
    BY <1>7, Zenon
  <2>2. bundles[i][At(i, k)] # dec.id BY <1>2, <1>5, <1>14, <2>1 DEF n
  <2>3. /\ bundles[i][At(i, k)] \in Ids /\ bundles[i][At(i, k)] \notin held
        /\ \A l \in 1..Len(kring) : bundles[i][At(i, k)] # kring[l]
    BY <1>3, <1>4, <2>1, Zenon
  <2> QED BY <2>1, <2>2, <2>3, Zenon
<1>11. ASSUME NEW i \in 0..m, NEW j \in 0..m, NEW k \in 1..Len(bundles'[i]), NEW l \in 1..Len(bundles'[j]),
              bundles'[i][k] = bundles'[j][l]
       PROVE  i = j /\ k = l
  <2>1. At(i, k) \in 1..Len(bundles[i]) /\ bundles'[i][k] = bundles[i][At(i, k)] BY <1>7, Zenon
  <2>2. At(j, l) \in 1..Len(bundles[j]) /\ bundles'[j][l] = bundles[j][At(j, l)] BY <1>7, Zenon
  <2>3. bundles[i][At(i, k)] = bundles[j][At(j, l)] BY <1>11, <2>1, <2>2, Zenon
  <2>4. \A x \in 1..Len(bundles[i]), y \in 1..Len(bundles[j]) : bundles[i][x] = bundles[j][y] => i = j /\ x = y
    BY <1>14, Zenon
  <2>5. i = j /\ At(i, k) = At(j, l) BY <2>1, <2>2, <2>3, <2>4, Zenon
  <2> QED BY <1>8, <2>5, Zenon
<1>12. ASSUME NEW i \in 0..m, NEW k \in 1..Len(bundles'[i]) - 1
       PROVE  next[bundles'[i][k]] = bundles'[i][k + 1] /\ bundles'[i][k] # tail
  <2>1. /\ bundles'[i][k] = bundles[i][At(i, k)] /\ bundles'[i][k + 1] = bundles[i][At(i, k) + 1]
        /\ At(i, k) \in 1..Len(bundles[i]) - 1
    BY <1>7, <1>9, Zenon
  <2>2. next[bundles[i][At(i, k)]] = bundles[i][At(i, k) + 1] /\ bundles[i][At(i, k)] # tail
    BY <1>15, <2>1, Zenon
  <2> QED BY <2>1, <2>2, Zenon
<1>13. ASSUME NEW i \in 0..m, NEW k \in 1..Len(bundles[i])
       PROVE  \/ bundles[i][k] = dec.id
              \/ \E l \in 1..Len(bundles'[i]) : bundles'[i][l] = bundles[i][k]
  <2>1. CASE i = 0 /\ k = 1 BY <1>2, <2>1, Zenon
  <2>2. CASE i = 0 /\ k # 1
    <3>1. k - 1 \in 1..n - 1 /\ (k - 1) + 1 = k BY <1>2, <2>2 DEF n
    <3>2. bundles'[0][k - 1] = bundles[0][k] /\ k - 1 \in 1..Len(bundles'[0]) BY <1>2, <3>1, Zenon
    <3> QED BY <2>2, <3>2, Zenon
  <2>3. CASE i # 0
    <3>1. bundles'[i] = bundles[i] BY <1>2, <2>3, Zenon
    <3> QED BY <3>1, Zenon
  <2> QED BY <2>1, <2>2, <2>3, Zenon
<1> QED BY <1>6, <1>10, <1>11, <1>12, <1>13, <1>16, Zenon DEF m

\* each() decodes one buffer of the bundle, which the callback keeps or drops.
LEMMA PartKeeps ==
  ASSUME RingInv, NEW keep \in BOOLEAN, NEW halt \in BOOLEAN, Part(keep, halt)
  PROVE  RingInv'
<1> DEFINE m == Len(cq)
           id == dec.id
<1>1. RingTypes /\ Apart /\ Somewhere /\ Linked BY Zenon DEF RingInv
<1>2. /\ dec' \in Decoded /\ (Len(Remaining') > 0 => dec'.id = Remaining'[1]) /\ cq' = cq
  BY Parted, Zenon
<1>3. /\ id \in Ids /\ id \notin held /\ \A k \in 1..Len(kring) : kring[k] # id
  BY Rest, Zenon
<1>4. \A i \in 0..m : \A k \in 1..Len(bundles'[i]) :
        /\ bundles'[i][k] \in Ids /\ bundles'[i][k] # id /\ bundles'[i][k] \notin held
        /\ \A l \in 1..Len(kring) : bundles'[i][k] # kring[l]
  BY Rest, Zenon
<1>5. \A i, j \in 0..m : \A k \in 1..Len(bundles'[i]), l \in 1..Len(bundles'[j]) :
        bundles'[i][k] = bundles'[j][l] => i = j /\ k = l
  BY Rest, Zenon
<1>6. \A i \in 0..m : \A k \in 1..Len(bundles'[i]) - 1 :
        next[bundles'[i][k]] = bundles'[i][k + 1] /\ bundles'[i][k] # tail
  BY Rest, Zenon
<1>7. \A i \in 0..m : \A k \in 1..Len(bundles[i]) :
        bundles[i][k] = id \/ \E l \in 1..Len(bundles'[i]) : bundles'[i][l] = bundles[i][k]
  BY Rest, Zenon
<1>8. /\ held \in SUBSET Ids /\ leases = Cardinality(held) /\ IsFiniteSet(held) /\ leases \in Nat
  <2>1. IsFiniteSet(Ids) BY Sizes, FS_Interval DEF Ids
  <2>2. held \in SUBSET Ids /\ leases = Cardinality(held) BY <1>1, Zenon DEF RingTypes
  <2>3. IsFiniteSet(held) BY <2>1, <2>2, FS_Subset, Zenon
  <2> QED BY <2>2, <2>3, FS_CardinalityType, Zenon
<1>9. ASSUME NEW b \in Ids
      PROVE  \/ b \in held \/ b = id \/ \E k \in 1..Len(kring) : kring[k] = b
             \/ \E i \in 0..m : \E k \in 1..Len(bundles'[i]) : bundles'[i][k] = b
  <2>1. ASSUME NEW i \in 0..m, NEW k \in 1..Len(bundles[i]), bundles[i][k] = b
        PROVE  b = id \/ \E j \in 0..m : \E l \in 1..Len(bundles'[j]) : bundles'[j][l] = b
    BY <1>7, <2>1, Zenon
  <2> QED BY <1>1, <2>1, Zenon DEF Somewhere
<1>10. CASE keep
  <2>1. /\ held' = held \cup {id} /\ leases' = leases + 1
        /\ UNCHANGED <<kring, next, tail>>
    BY <1>10, Zenon DEF Part, Lease
  <2>2. held' \in SUBSET Ids /\ leases' = Cardinality(held')
    BY <1>3, <1>8, <2>1, FS_AddElement, Zenon
  <2> HIDE DEF id
  <2>3. RingTypes' BY <1>1, <1>2, <2>1, <2>2, Zenon DEF RingTypes
  <2>4. Apart'
    <3>1. \A k \in 1..Len(kring) : kring[k] \notin held' BY <1>1, <1>3, <2>1, Zenon DEF Apart
    <3>2. \A i \in 0..m : \A k \in 1..Len(bundles'[i]) :
            bundles'[i][k] \notin held' /\ \A l \in 1..Len(kring) : bundles'[i][k] # kring[l]
      BY <1>4, <2>1, Zenon
    <3> QED BY <1>1, <1>2, <1>5, <2>1, <3>1, <3>2 DEF Apart
  <2>5. Somewhere' BY <1>2, <1>9, <2>1, Zenon DEF Somewhere
  <2>6. Linked' BY <1>1, <1>2, <1>6, <2>1, Zenon DEF Linked
  <2> QED BY <2>3, <2>4, <2>5, <2>6, Zenon DEF RingInv
<1>11. CASE ~keep
  <2>1. Put(id, held \cup {id}, leases + 1)
    BY <1>11, Zenon DEF Part, Lease
  <2>2. held' = held /\ leases' = leases
    <3>1. held' = (held \cup {id}) \ {id} /\ leases' = (leases + 1) - 1 BY <2>1, Zenon DEF Put
    <3> QED BY <1>3, <1>8, <3>1
  <2> HIDE DEF id
  <2>3. /\ kring' \in Seq(Ids) /\ next' \in [Ids -> Ids] /\ tail' = id
        /\ Len(kring') = Len(kring) + 1 /\ Len(kring) \in Nat
        /\ \A k \in 1..Len(kring) : k \in 1..Len(kring') /\ kring'[k] = kring[k]
        /\ Len(kring) + 1 \in 1..Len(kring') /\ kring'[Len(kring) + 1] = id
        /\ \A k \in 1..Len(kring') : k \in 1..Len(kring) \/ k = Len(kring) + 1
        /\ \A k, l \in 1..Len(kring') : kring'[k] = kring'[l] => k = l
        /\ \A k \in 1..Len(kring') - 1 : next'[kring'[k]] = kring'[k + 1]
        /\ tail' = kring'[Len(kring')]
        /\ \A b \in Ids : b # tail => next'[b] = next[b]
    BY <1>1, <1>3, <2>1, Published, Zenon
  <2>4. RingTypes' BY <1>1, <1>2, <1>3, <2>2, <2>3, Zenon DEF RingTypes
  <2>5. Apart'
    <3>1. \A k \in 1..Len(kring') : kring'[k] \notin held' BY <1>1, <1>3, <2>2, <2>3, Zenon DEF Apart
    <3>2. ASSUME NEW i \in 0..m, NEW k \in 1..Len(bundles'[i])
          PROVE  bundles'[i][k] \notin held' /\ \A l \in 1..Len(kring') : bundles'[i][k] # kring'[l]
      <4>1. bundles'[i][k] # id /\ bundles'[i][k] \notin held /\ \A l \in 1..Len(kring) : bundles'[i][k] # kring[l]
        BY <1>4, Zenon
      <4> QED BY <2>2, <2>3, <4>1, Zenon
    <3> QED BY <1>2, <1>5, <2>3, <3>1, <3>2, Zenon DEF Apart
  <2>6. Somewhere'
    <3>1. ASSUME NEW b \in Ids
          PROVE  \/ b \in held' \/ \E k \in 1..Len(kring') : kring'[k] = b
                 \/ \E i \in 0..m : \E k \in 1..Len(bundles'[i]) : bundles'[i][k] = b
      <4>1. CASE b \in held BY <2>2, <4>1, Zenon
      <4>2. CASE b = id BY <2>3, <4>2, Zenon
      <4>3. CASE \E k \in 1..Len(kring) : kring[k] = b BY <2>3, <4>3, Zenon
      <4> QED BY <1>9, <4>1, <4>2, <4>3, Zenon
    <3> QED BY <1>2, <3>1, Zenon DEF Somewhere
  <2>7. Linked'
    <3>1. ASSUME NEW i \in 0..m, NEW k \in 1..Len(bundles'[i]) - 1
          PROVE  next'[bundles'[i][k]] = bundles'[i][k + 1] /\ bundles'[i][k] # tail'
      <4>1. Len(bundles'[i]) \in Nat BY Rest, Zenon
      <4>2. k \in 1..Len(bundles'[i]) BY <4>1
      <4>3. bundles'[i][k] \in Ids /\ bundles'[i][k] # id BY <1>4, <4>2, Zenon
      <4>4. next[bundles'[i][k]] = bundles'[i][k + 1] /\ bundles'[i][k] # tail BY <1>6, Zenon
      <4> QED BY <2>3, <4>3, <4>4, Zenon
    <3> QED BY <1>2, <2>3, <3>1, Zenon DEF Linked
  <2> QED BY <2>4, <2>5, <2>6, <2>7, Zenon DEF RingInv
<1> QED BY <1>10, <1>11, Zenon

\* A step that moves no buffer.
LEMMA RingSame ==
  ASSUME RingInv, UNCHANGED <<ringVars, cq>>, Remaining' = Remaining, dec' = <<>> \/ dec' \in Decoded,
         Len(Remaining) > 0 => dec'.id = dec.id
  PROVE  RingInv'
<1>1. RingTypes /\ Apart /\ Somewhere /\ Linked BY Zenon DEF RingInv
<1>2. UNCHANGED <<kring, next, tail, held, leases, cq>> BY Zenon DEF ringVars
<1>3. bundles' = bundles BY <1>2, Zenon DEF bundles
<1>4. RingTypes' BY <1>1, <1>2, Zenon DEF RingTypes
<1>5. Apart' BY <1>1, <1>2, <1>3 DEF Apart
<1>6. Somewhere' BY <1>1, <1>2, <1>3, Zenon DEF Somewhere
<1>7. Linked' BY <1>1, <1>2, <1>3, Zenon DEF Linked
<1> QED BY <1>4, <1>5, <1>6, <1>7, Zenon DEF RingInv

\* The callback of a shot leaves what is being decoded as it was, but for the shot.
LEMMA CalledDec ==
  ASSUME RingTypes, NEW halt \in BOOLEAN, Called(halt)
  PROVE  /\ dec # <<>> /\ dec \in Decoded /\ dec' # <<>> /\ dec' \in Decoded /\ dec.shot /\ ~dec'.shot
         /\ dec'.rx = dec.rx /\ dec'.ids = dec.ids /\ dec'.end = dec.end /\ dec'.id = dec.id
<1>1. dec # <<>> /\ dec' = [dec EXCEPT !.shot = FALSE] /\ dec.shot BY Zenon DEF Called
<1>2. dec \in Decoded BY <1>1, Zenon DEF RingTypes
<1>3. /\ dec' \in Decoded /\ ~dec'.shot
      /\ dec'.rx = dec.rx /\ dec'.ids = dec.ids /\ dec'.end = dec.end /\ dec'.id = dec.id
  BY <1>1, <1>2, Zenon DEF Decoded
<1> QED BY <1>1, <1>2, <1>3, DecodedIsSome, Zenon

\* A step that touches neither the ring nor the completions.
LEMMA Unmoved ==
  ASSUME RingInv, UNCHANGED <<ringVars, cq, dec>>
  PROVE  RingInv'
<1>1. Remaining' = Remaining BY Zenon DEF Remaining
<1>2. dec = <<>> \/ dec \in Decoded BY Zenon DEF RingInv, RingTypes
<1> QED BY <1>1, <1>2, RingSame, Zenon

\* Every step of the module keeps the ring's invariant.
LEMMA RingNext ==
  ASSUME RingInv, Next
  PROVE  RingInv'
<1>1. ASSUME NEW r \in Receivers, Resume(r) \/ CancelWait(r) PROVE RingInv'
  <2>1. UNCHANGED <<ringVars, cq, dec>> BY <1>1, Zenon DEF Resume, CancelWait
  <2> QED BY <2>1, Unmoved, Zenon
<1>2. ASSUME NEW r \in Receivers, NEW k, NEW c, Start(r, k, c) PROVE RingInv'
  <2>1. UNCHANGED <<ringVars, cq, dec>> BY <1>2, Zenon DEF Start
  <2> QED BY <2>1, Unmoved, Zenon
<1>3. ASSUME NEW r \in Receivers, NEW end \in {"more", "early"}, Shoot(r, end) PROVE RingInv'
  <2>1. Post(r, <<>>, TRUE, end) /\ UNCHANGED <<ringVars, dec>> BY <1>3, Zenon DEF Shoot
  <2>2. end \in Endings \cup {"more"} BY Zenon DEF Endings
  <2> QED BY <2>1, <2>2, BareKeeps, Zenon
<1>4. ASSUME NEW r \in Receivers, NEW n \in 1..Count, NEW end \in {"more", "early"}, Fill(r, n, end) PROVE RingInv'
  <2>1. n \in Nat BY Sizes
  <2> QED BY <1>4, <2>1, FillKeeps, Zenon
<1>5. ASSUME NEW r \in Receivers, NEW end \in Endings \ {"early"}, Terminate(r, end) PROVE RingInv'
  <2>1. Post(r, <<>>, FALSE, end) /\ UNCHANGED <<ringVars, dec>> BY <1>5, Zenon DEF Terminate
  <2> QED BY <2>1, BareKeeps, Zenon
<1>6. CASE Dispatch BY <1>6, DispatchKeeps, Zenon
<1>7. CASE Dispatched
  <2>1. /\ dec # <<>> /\ dec.ids = <<>> /\ dec' = <<>> /\ UNCHANGED <<ringVars, cq>> BY <1>7, Zenon DEF Dispatched
  <2>2. Remaining' = Remaining /\ Remaining = <<>> BY <2>1, Zenon DEF Remaining
  <2>3. ~(Len(Remaining) > 0) BY <2>2
  <2> QED BY <2>1, <2>2, <2>3, RingSame, Zenon
<1>8. ASSUME NEW keep \in BOOLEAN, NEW halt \in BOOLEAN, Part(keep, halt) PROVE RingInv'
  BY <1>8, PartKeeps, Zenon
<1>9. ASSUME NEW halt \in BOOLEAN, Called(halt) PROVE RingInv'
  <2>1. UNCHANGED <<ringVars, cq>> BY <1>9, Zenon DEF Called
  <2>2. dec # <<>> /\ dec' # <<>> /\ dec' \in Decoded /\ dec'.ids = dec.ids /\ dec'.id = dec.id
    BY <1>9, CalledDec, Zenon DEF RingInv
  <2>3. Remaining' = Remaining BY <2>2, Zenon DEF Remaining
  <2> QED BY <2>1, <2>2, <2>3, RingSame, Zenon
<1>10. ASSUME NEW id \in Ids, Return(id) PROVE RingInv'
  BY <1>10, ReturnKeeps, Zenon
<1> QED BY <1>1, <1>2, <1>3, <1>4, <1>5, <1>6, <1>7, <1>8, <1>9, <1>10, Zenon DEF Next

\* The buffers of a sequence.
LEMMA InRange ==
  ASSUME NEW q \in Seq(Ids)
  PROVE  /\ Range(q) \in SUBSET Ids
         /\ \A b : b \in Range(q) <=> \E k \in 1..Len(q) : q[k] = b
<1>1. DOMAIN q = 1..Len(q) /\ \A k \in 1..Len(q) : q[k] \in Ids OBVIOUS
<1> QED BY <1>1, Zenon DEF Range

\* Two sequences, one after the other.
LEMMA Joined ==
  ASSUME NEW S, NEW p \in Seq(S), NEW q \in Seq(S)
  PROVE  /\ p \o q \in Seq(S) /\ Len(p \o q) = Len(p) + Len(q)
         /\ \A i \in 1..Len(p) : (p \o q)[i] = p[i]
         /\ \A i \in 1..Len(q) : (p \o q)[Len(p) + i] = q[i]
<1>1. Len(p) \in Nat /\ Len(q) \in Nat OBVIOUS
<1>2. p \o q \in Seq(S) /\ Len(p \o q) = Len(p) + Len(q) OBVIOUS
<1>3. \A i \in 1..Len(p) : (p \o q)[i] = p[i] OBVIOUS
<1>4. ASSUME NEW i \in 1..Len(q) PROVE (p \o q)[Len(p) + i] = q[i] BY <1>1
<1> QED BY <1>2, <1>3, <1>4, Zenon

\* What the invariant says of indices, BuffersConserved says of the sets of buffers.
LEMMA Conserved ==
  ASSUME RingInv
  PROVE  BuffersConserved
<1> DEFINE more == [i \in DOMAIN cq |-> Range(cq[i].ids)]
           first == <<Range(kring), Range(Remaining), held>>
           places == first \o more
           m == Len(cq)
           Bundle(i) == Range(bundles[i])
<1>1. RingTypes /\ Apart /\ Somewhere /\ Linked BY Zenon DEF RingInv
<1>2. /\ m \in Nat /\ bundles[0] = Remaining /\ \A i \in 0..m : bundles[i] \in Seq(Ids)
      /\ \A i \in 1..m : bundles[i] = cq[i].ids
  BY <1>1, Bundled, Zenon
<1>3. kring \in Seq(Ids) /\ held \in SUBSET Ids /\ DOMAIN cq = 1..m
  BY <1>1 DEF RingTypes
<1>4. /\ Range(kring) \in SUBSET Ids /\ \A i \in 0..m : Bundle(i) \in SUBSET Ids
      /\ \A b : b \in Range(kring) <=> \E k \in 1..Len(kring) : kring[k] = b
      /\ \A i \in 0..m : \A b : b \in Bundle(i) <=> \E k \in 1..Len(bundles[i]) : bundles[i][k] = b
  BY <1>2, <1>3, InRange, Zenon
<1>5. 0 \in 0..m /\ \A i \in 1..m : i \in 0..m /\ i # 0 BY <1>2
<1> HIDE DEF Bundle, m
<1>6. first \in Seq(SUBSET Ids) /\ Len(first) = 3 /\ first[1] = Range(kring) /\ first[2] = Bundle(0) /\ first[3] = held
  <2>1. Range(Remaining) = Bundle(0) BY <1>2, Zenon DEF Bundle
  <2> QED BY <1>3, <1>4, <1>5, <2>1
<1>7. more \in Seq(SUBSET Ids) /\ Len(more) = m /\ \A i \in 1..m : more[i] = Bundle(i)
  <2>1. \A i \in 1..m : Range(cq[i].ids) = Bundle(i) /\ Bundle(i) \in SUBSET Ids
    BY <1>2, <1>4, <1>5, Zenon DEF Bundle
  <2>2. more = [i \in 1..m |-> Range(cq[i].ids)] BY <1>3, Zenon
  <2> HIDE DEF more
  <2>3. more = [i \in 1..m |-> Bundle(i)] BY <2>1, <2>2, Zenon
  <2>4. \A i \in 1..m : more[i] = Bundle(i) BY <2>3, Zenon
  <2>5. more \in [1..m -> SUBSET Ids] BY <2>1, <2>3, Zenon
  <2> QED BY <1>2, <2>4, <2>5
<1> HIDE DEF first, more
<1>8. /\ places \in Seq(SUBSET Ids) /\ Len(places) = 3 + m
      /\ places[1] = Range(kring) /\ places[2] = Bundle(0) /\ places[3] = held
      /\ \A i \in 1..m : places[3 + i] = Bundle(i)
  <2>1. /\ places \in Seq(SUBSET Ids) /\ Len(places) = Len(first) + Len(more)
        /\ \A i \in 1..Len(first) : places[i] = first[i]
        /\ \A i \in 1..Len(more) : places[Len(first) + i] = more[i]
    <3> DEFINE Sets == SUBSET Ids
    <3>1. first \in Seq(Sets) /\ more \in Seq(Sets) BY <1>6, <1>7, Zenon
    <3> HIDE DEF Sets
    <3>2. /\ places \in Seq(Sets) /\ Len(places) = Len(first) + Len(more)
          /\ \A i \in 1..Len(first) : places[i] = first[i]
          /\ \A i \in 1..Len(more) : places[Len(first) + i] = more[i]
      BY <3>1, Joined
    <3> HIDE DEF places
    <3> QED BY <3>2, Zenon DEF Sets
  <2>2. 1 \in 1..3 /\ 2 \in 1..3 /\ 3 \in 1..3 OBVIOUS
  <2> HIDE DEF places
  <2> QED BY <1>6, <1>7, <2>1, <2>2, Zenon
<1> HIDE DEF places
<1>9. DOMAIN places = 1..3 + m BY <1>8
<1>10. /\ \A i \in 1..3 + m : i = 1 \/ i = 2 \/ i = 3 \/ (i - 3 \in 1..m /\ 3 + (i - 3) = i)
       /\ \A i \in 1..m : 3 + i \in 1..3 + m
       /\ 1 \in 1..3 + m /\ 2 \in 1..3 + m /\ 3 \in 1..3 + m
  BY <1>2
<1>11. /\ Range(kring) \cap held = {}
       /\ \A i \in 0..m : Bundle(i) \cap held = {} /\ Bundle(i) \cap Range(kring) = {}
  <2>1. ASSUME NEW b, b \in Range(kring) PROVE b \notin held
    <3>1. PICK k \in 1..Len(kring) : kring[k] = b BY <1>4, <2>1, Zenon
    <3>2. kring[k] \notin held BY <1>1, Zenon DEF Apart
    <3> QED BY <3>1, <3>2, Zenon
  <2>2. ASSUME NEW i \in 0..m, NEW b, b \in Bundle(i) PROVE b \notin held /\ b \notin Range(kring)
    <3>1. PICK k \in 1..Len(bundles[i]) : bundles[i][k] = b BY <1>4, <2>2, Zenon
    <3>2. bundles[i][k] \notin held /\ \A l \in 1..Len(kring) : bundles[i][k] # kring[l]
      BY <1>1, Zenon DEF Apart, m
    <3> QED BY <1>4, <3>1, <3>2, Zenon
  <2> QED BY <2>1, <2>2, Zenon
<1>12. ASSUME NEW i \in 0..m, NEW j \in 0..m, i # j PROVE Bundle(i) \cap Bundle(j) = {}
  <2>1. ASSUME NEW b, b \in Bundle(i), b \in Bundle(j) PROVE FALSE
    <3>1. PICK k \in 1..Len(bundles[i]) : bundles[i][k] = b BY <1>4, <2>1, Zenon
    <3>2. PICK l \in 1..Len(bundles[j]) : bundles[j][l] = b BY <1>4, <2>1, Zenon
    <3> QED BY <1>1, <1>12, <3>1, <3>2 DEF Apart, m
  <2> QED BY <2>1, Zenon
<1>13. UNION Range(places) = Ids
  <2>1. ASSUME NEW b \in Ids PROVE \E i \in 1..3 + m : b \in places[i]
    <3>1. CASE b \in held BY <1>8, <1>10, <3>1, Zenon
    <3>2. CASE b \in Range(kring) BY <1>8, <1>10, <3>2, Zenon
    <3>3. ASSUME NEW i \in 0..m, b \in Bundle(i) PROVE \E j \in 1..3 + m : b \in places[j]
      <4>1. CASE i = 0 BY <1>8, <1>10, <3>3, <4>1, Zenon
      <4>2. CASE i # 0
        <5>1. i \in 1..m BY <1>2, <4>2
        <5> QED BY <1>8, <1>10, <3>3, <5>1, Zenon
      <4> QED BY <4>1, <4>2, Zenon
    <3>4. b \in held \/ b \in Range(kring) \/ \E i \in 0..m : b \in Bundle(i)
      BY <1>1, <1>4, Zenon DEF Somewhere, m
    <3> QED BY <3>1, <3>2, <3>3, <3>4, Zenon
  <2>2. \A i \in 1..3 + m : places[i] \in SUBSET Ids BY <1>8
  <2> QED BY <1>9, <2>1, <2>2, Zenon DEF Range
<1>14. ASSUME NEW i \in 1..3 + m, NEW j \in 1..3 + m, i # j PROVE places[i] \cap places[j] = {}
  <2>1. CASE i - 3 \in 1..m /\ 3 + (i - 3) = i /\ j - 3 \in 1..m /\ 3 + (j - 3) = j
    <3>1. places[i] = Bundle(i - 3) /\ places[j] = Bundle(j - 3) BY <1>8, <2>1, Zenon
    <3>2. i - 3 \in 0..m /\ j - 3 \in 0..m /\ i - 3 # j - 3 BY <1>5, <1>14, <2>1, Zenon
    <3> QED BY <1>12, <3>1, <3>2, Zenon
  <2>2. CASE i \in {1, 2, 3} /\ j \in {1, 2, 3} BY <1>5, <1>8, <1>11, <1>14, <2>2
  <2>3. ASSUME NEW u \in {1, 2, 3}, NEW v \in 1..m PROVE places[u] \cap places[3 + v] = {}
    <3>1. places[3 + v] = Bundle(v) /\ v \in 0..m /\ v # 0 BY <1>5, <1>8, Zenon
    <3>2. Bundle(0) \cap Bundle(v) = {} BY <1>5, <1>12, <3>1, Zenon
    <3> QED BY <1>8, <1>11, <3>1, <3>2
  <2>4. CASE i \in {1, 2, 3} /\ j - 3 \in 1..m /\ 3 + (j - 3) = j
    <3>1. places[i] \cap places[3 + (j - 3)] = {} BY <2>3, <2>4, Zenon
    <3> QED BY <2>4, <3>1, Zenon
  <2>5. CASE j \in {1, 2, 3} /\ i - 3 \in 1..m /\ 3 + (i - 3) = i
    <3>1. places[j] \cap places[3 + (i - 3)] = {} BY <2>3, <2>5, Zenon
    <3> QED BY <2>5, <3>1, Zenon
  <2> QED BY <1>10, <2>1, <2>2, <2>4, <2>5, Zenon
<1>15. IsInjective(kring)
  <2>1. DOMAIN kring = 1..Len(kring) BY <1>3
  <2> QED BY <1>1, <2>1, Zenon DEF IsInjective, Apart
<1>16. ASSUME Remaining # <<>> PROVE dec.id = Head(Remaining)
  <2>1. Head(Remaining) = Remaining[1] /\ Len(Remaining) > 0 BY <1>2, <1>5, <1>16, Popped
  <2> QED BY <1>1, <2>1, Zenon DEF Linked
<1>17. leases = Cardinality(held) BY <1>1, Zenon DEF RingTypes
<1> QED BY <1>9, <1>13, <1>14, <1>15, <1>16, <1>17, Zenon DEF BuffersConserved, places, first, more
-----------------------------------------------------------------------------
\* A completion belongs to a loop.
LEMMA QueueTypes ==
  ASSUME RingTypes
  PROVE  /\ Len(cq) \in Nat /\ DOMAIN cq = 1..Len(cq)
         /\ \A i \in 1..Len(cq) : cq[i].rx \in Receivers /\ cq[i].end \in Endings \cup {"more"}
         /\ dec # <<>> => dec.rx \in Receivers /\ dec.shot \in BOOLEAN /\ dec.end \in Endings \cup {"more"}
<1>1. cq \in Seq(Result) BY Zenon DEF RingTypes
<1>2. Len(cq) \in Nat /\ DOMAIN cq = 1..Len(cq) /\ \A i \in 1..Len(cq) : cq[i] \in Result BY <1>1
<1>3. dec # <<>> => dec \in Decoded BY Zenon DEF RingTypes
<1> QED BY <1>2, <1>3, Zenon DEF Result, Decoded

\* A completion more: one more for its loop.
LEMMA CountPosted ==
  ASSUME NEW S, NEW q \in Seq(S), NEW c \in S, NEW r
  PROVE  /\ Cardinality(Of(q, r)) \in Nat
         /\ Cardinality(Of(Append(q, c), r)) = IF c.rx = r THEN Cardinality(Of(q, r)) + 1 ELSE Cardinality(Of(q, r))
<1> DEFINE n == Len(q)
           A == {i \in DOMAIN q : q[i].rx = r}
           B == {i \in DOMAIN Append(q, c) : Append(q, c)[i].rx = r}
<1>1. n \in Nat /\ DOMAIN q = 1..n /\ DOMAIN Append(q, c) = 1..n + 1
  OBVIOUS
<1>2. (\A i \in 1..n : Append(q, c)[i] = q[i]) /\ Append(q, c)[n + 1] = c
  OBVIOUS
<1>3. IsFiniteSet(1..n) BY <1>1, FS_Interval
<1>4. A \in SUBSET (1..n) BY <1>1, Zenon
<1>5. IsFiniteSet(A) BY <1>3, <1>4, FS_Subset, Zenon
<1>6. Cardinality(A) \in Nat BY <1>5, FS_CardinalityType, Zenon
<1>7. n + 1 \notin A BY <1>1
<1>8. \A i \in 1..n + 1 : i \in 1..n \/ i = n + 1 BY <1>1
<1>9. \A i \in 1..n : i \in 1..n + 1 BY <1>1
<1>10. n + 1 \in 1..n + 1 BY <1>1
<1> HIDE DEF n
<1>11. CASE c.rx = r
  <2>1. B = A \cup {n + 1} BY <1>1, <1>2, <1>8, <1>9, <1>10, <1>11, Zenon
  <2>2. Cardinality(A \cup {n + 1}) = Cardinality(A) + 1 BY <1>5, <1>7, FS_AddElement, Zenon
  <2> QED BY <1>6, <1>11, <2>1, <2>2, Zenon DEF Of
<1>12. CASE c.rx # r
  <2>1. B = A BY <1>1, <1>2, <1>8, <1>9, <1>12, Zenon
  <2> QED BY <1>6, <1>12, <2>1, Zenon DEF Of
<1> QED BY <1>11, <1>12, Zenon

\* A completion less: one less for its loop.
LEMMA CountPopped ==
  ASSUME NEW S, NEW q \in Seq(S), q # <<>>, NEW r
  PROVE  /\ Cardinality(Of(Tail(q), r)) \in Nat
         /\ Cardinality(Of(q, r)) = IF q[1].rx = r THEN Cardinality(Of(Tail(q), r)) + 1 ELSE Cardinality(Of(Tail(q), r))
<1> DEFINE n == Len(q)
           A == {i \in DOMAIN q : q[i].rx = r}
           B == {i \in DOMAIN Tail(q) : Tail(q)[i].rx = r}
           T == A \ {1}
           f == [i \in B |-> i + 1]
<1>1. n \in Nat \ {0} /\ DOMAIN q = 1..n /\ Tail(q) \in Seq(S) /\ Len(Tail(q)) = n - 1
      /\ \A i \in 1..n - 1 : Tail(q)[i] = q[i + 1]
  BY Popped
<1>2. DOMAIN Tail(q) = 1..n - 1 BY <1>1
<1>3. IsFiniteSet(1..n - 1) /\ IsFiniteSet(1..n) BY <1>1, FS_Interval
<1>4. A \in SUBSET (1..n) /\ B \in SUBSET (1..n - 1) BY <1>1, <1>2, Zenon
<1>5. IsFiniteSet(A) /\ IsFiniteSet(B) BY <1>3, <1>4, FS_Subset, Zenon
<1>6. Cardinality(B) \in Nat BY <1>5, FS_CardinalityType, Zenon
<1>7. \A i : i \in B <=> i \in 1..n - 1 /\ q[i + 1].rx = r BY <1>1, <1>2, Zenon
<1>8. \A i : i \in A <=> i \in 1..n /\ q[i].rx = r BY <1>1, Zenon
<1> HIDE DEF A, B
<1>9. \A i \in B : f[i] = i + 1 /\ i + 1 \in T
  BY <1>1, <1>7, <1>8
<1>10. \A j \in T : j - 1 \in B /\ (j - 1) + 1 = j
  <2>1. \A j \in T : j \in 1..n /\ j # 1 /\ q[j].rx = r BY <1>8, Zenon
  <2>2. \A j \in 1..n : j # 1 => j - 1 \in 1..n - 1 /\ (j - 1) + 1 = j BY <1>1
  <2> QED BY <1>7, <2>1, <2>2, Zenon
<1> HIDE DEF T
<1>11. \A i, j \in B : i + 1 = j + 1 => i = j BY <1>7
<1>12. f \in [B -> T] BY <1>9, Zenon
<1>13. f \in Bijection(B, T)
  <2>1. \A t \in T : \E i \in B : f[i] = t BY <1>9, <1>10, Zenon
  <2>2. \A i, j \in B : f[i] = f[j] => i = j BY <1>9, <1>11, Zenon
  <2>3. DOMAIN f = B BY Zenon
  <2> HIDE DEF f
  <2> QED BY <1>12, <2>1, <2>2, <2>3, Zenon DEF Bijection, Injection, Surjection, IsInjective
<1>14. Cardinality(T) = Cardinality(B)
  <2> HIDE DEF f
  <2>1. ExistsBijection(B, T) BY <1>13, Zenon DEF ExistsBijection
  <2> QED BY <1>5, <2>1, FS_Bijection, Zenon
<1>15. Cardinality(A \ {1}) = IF 1 \in A THEN Cardinality(A) - 1 ELSE Cardinality(A)
  BY <1>5, FS_RemoveElement, Zenon
<1>16. 1 \in A <=> q[1].rx = r
  <2>1. 1 \in 1..n BY <1>1
  <2> QED BY <1>8, <2>1, Zenon
<1>17. Cardinality(A) \in Nat BY <1>5, FS_CardinalityType, Zenon
<1>18. Cardinality(A) = IF q[1].rx = r THEN Cardinality(B) + 1 ELSE Cardinality(B)
  BY <1>6, <1>14, <1>15, <1>16, <1>17 DEF T
<1> QED BY <1>6, <1>18, Zenon DEF A, B, Of

\* Posting adds one to the completions of its loop, and to no other's.
LEMMA QueuedPosted ==
  ASSUME RingTypes, NEW r \in Receivers, NEW ids \in Seq(Ids), NEW shot \in BOOLEAN,
         NEW end \in Endings \cup {"more"}, Post(r, ids, shot, end), NEW q
  PROVE  /\ Queued(q) \in Nat
         /\ Queued(q)' = IF q = r THEN Queued(q) + 1 ELSE Queued(q)
<1> DEFINE c == [rx |-> r, ids |-> ids, shot |-> shot, end |-> end]
<1>1. c \in Result /\ c.rx = r BY Zenon DEF Result
<1>2. cq' = Append(cq, c) BY Zenon DEF Post
<1>3. cq \in Seq(Result) BY Zenon DEF RingTypes
<1> HIDE DEF c
<1>4. /\ Cardinality(Of(cq, q)) \in Nat
      /\ Cardinality(Of(Append(cq, c), q))
           = IF c.rx = q THEN Cardinality(Of(cq, q)) + 1
                         ELSE Cardinality(Of(cq, q))
  BY <1>1, <1>3, CountPosted, Zenon
<1>5. Queued(q)' = Cardinality(Of(Append(cq, c), q))
  BY <1>2, Zenon DEF Queued
<1> QED BY <1>1, <1>4, <1>5, Zenon DEF Queued

\* Dispatching takes one from the completions of its loop, and from no other's.
LEMMA QueuedPopped ==
  ASSUME RingTypes, Dispatch, NEW q
  PROVE  /\ Queued(q)' \in Nat
         /\ Queued(q) = IF cq[1].rx = q THEN Queued(q)' + 1 ELSE Queued(q)'
<1>1. cq # <<>> /\ cq' = Tail(cq) BY Zenon DEF Dispatch
<1>2. cq \in Seq(Result) BY Zenon DEF RingTypes
<1>3. /\ Cardinality(Of(Tail(cq), q)) \in Nat
      /\ Cardinality(Of(cq, q))
           = IF cq[1].rx = q THEN Cardinality(Of(Tail(cq), q)) + 1
                             ELSE Cardinality(Of(Tail(cq), q))
  BY <1>1, <1>2, CountPopped, Zenon
<1>4. Queued(q)' = Cardinality(Of(Tail(cq), q))
  BY <1>1, Zenon DEF Queued
<1> QED BY <1>3, <1>4, Zenon DEF Queued

\* A loop whose request is over has nothing unhandled.
LEMMA NoneUnhandled ==
  ASSUME StreamDrained, NEW r \in Receivers, rx[r] \notin {"armed", "ended"}
  PROVE  Unhandled(r) = 0
<1>1. {i \in DOMAIN cq : cq[i].rx = r} = {} BY Zenon DEF StreamDrained
<1>2. ~(dec # <<>> /\ dec.rx = r /\ dec.shot) BY Zenon DEF StreamDrained
<1>3. Cardinality({i \in DOMAIN cq : cq[i].rx = r}) = 0 BY <1>1, FS_EmptySet, Zenon
<1> QED BY <1>2, <1>3 DEF Unhandled

\* The ticks that a loop has not counted: those queued and the one in its callback.
LEMMA UnhandledIs ==
  ASSUME RingTypes, NEW r
  PROVE  /\ Queued(r) \in Nat
         /\ Unhandled(r) = Queued(r) + IF dec # <<>> /\ dec.rx = r /\ dec.shot THEN 1 ELSE 0
         /\ Unhandled(r) \in Nat
<1>1. Len(cq) \in Nat /\ DOMAIN cq = 1..Len(cq) BY QueueTypes, Zenon
<1>2. IsFiniteSet(1..Len(cq)) BY <1>1, FS_Interval
<1>3. Of(cq, r) \in SUBSET (1..Len(cq)) BY <1>1, Zenon DEF Of
<1>4. Queued(r) \in Nat BY <1>2, <1>3, FS_Subset, FS_CardinalityType, Zenon DEF Queued
<1>5. Unhandled(r) = Queued(r) + IF dec # <<>> /\ dec.rx = r /\ dec.shot THEN 1 ELSE 0
  BY Zenon DEF Unhandled, Queued, Of
<1>6. CASE dec # <<>> /\ dec.rx = r /\ dec.shot BY <1>4, <1>5, <1>6
<1>7. CASE ~(dec # <<>> /\ dec.rx = r /\ dec.shot) BY <1>4, <1>5, <1>7
<1> QED BY <1>4, <1>5, <1>6, <1>7, Zenon

\* The kernel posts a completion for a request that it has: the others are not concerned.
LEMMA PostLoop ==
  ASSUME RingTypes, LoopInv, NEW r \in Receivers, NEW ids \in Seq(Ids), NEW shot \in BOOLEAN,
         NEW end \in Endings \cup {"more"}, rx[r] = "armed", Post(r, ids, shot, end),
         UNCHANGED <<dec, kind, leases, stopped>>,
         kind[r] \notin Leasing /\ end = "more" => shot
  PROVE  /\ Final' /\ NoStall' /\ StreamDrained'
         /\ rx' \in [Receivers -> {"idle", "armed", "ended", "rearm", "waiting"} \cup Endings]
         /\ rx'[r] = IF end = "more" THEN "armed" ELSE "ended"
         /\ \A q \in Receivers : q # r => rx'[q] = rx[q]
         /\ \A q \in Receivers : Unhandled(q)' = IF q = r THEN Unhandled(q) + 1 ELSE Unhandled(q)
         /\ \A i \in 1..Len(cq') : kind'[cq'[i].rx] \notin Leasing /\ cq'[i].end = "more" => cq'[i].shot
         /\ \A q \in Receivers : rx'[q] \in {"waiting", "rearm"} => kind'[q] \in Leasing
<1> DEFINE n == Len(cq)
<1>1. LoopTypes /\ Final /\ Kinds /\ NoStall /\ StreamDrained BY Zenon DEF LoopInv
<1>2. /\ n \in Nat /\ DOMAIN cq = 1..n
      /\ \A i \in 1..n : cq[i].rx \in Receivers
      /\ dec # <<>> => dec.rx \in Receivers
  BY QueueTypes, Zenon
<1>3. /\ cq' \in Seq(Result) /\ Len(cq') = n + 1
      /\ \A i \in 1..n : cq'[i] = cq[i]
      /\ cq'[n + 1] = [rx |-> r, ids |-> ids, shot |-> shot, end |-> end]
  BY PostedLast
<1>4. cq'[n + 1].rx = r /\ cq'[n + 1].end = end /\ cq'[n + 1].shot = shot BY <1>3
<1>5. DOMAIN cq' = 1..n + 1 BY <1>3
<1>6. /\ \A i \in 1..n + 1 : i \in 1..n \/ i = n + 1
      /\ \A i \in 1..n + 1 : \A j \in i + 1..n + 1 : i \in 1..n /\ (j \in i + 1..n \/ j = n + 1)
      /\ n + 1 \in 1..n + 1 /\ \A i \in 1..n : i \in 1..n + 1
  BY <1>2
<1>7. rx \in [Receivers -> {"idle", "armed", "ended", "rearm", "waiting"} \cup Endings]
  BY <1>1, Zenon DEF LoopTypes
<1>8. rx' = [rx EXCEPT ![r] = IF end = "more" THEN @ ELSE "ended"] BY Zenon DEF Post
<1>9. /\ rx' \in [Receivers -> {"idle", "armed", "ended", "rearm", "waiting"} \cup Endings]
      /\ rx'[r] = (IF end = "more" THEN "armed" ELSE "ended") /\ rx'[r] \in {"armed", "ended"}
      /\ \A q \in Receivers : q # r => rx'[q] = rx[q]
  BY <1>7, <1>8, Zenon
<1> HIDE DEF n
<1>10. Final'
  <2>1. ASSUME NEW i \in 1..n + 1, cq'[i].end # "more"
        PROVE  rx'[cq'[i].rx] = "ended" /\ \A j \in i + 1..n + 1 : cq'[j].rx # cq'[i].rx
    <3>1. CASE i = n + 1
      <4>1. \A j \in i + 1..n + 1 : FALSE BY <1>2, <3>1
      <4> QED BY <1>4, <1>9, <2>1, <3>1, <4>1, Zenon
    <3>2. CASE i \in 1..n
      <4>1. cq'[i] = cq[i] /\ cq[i].rx \in Receivers BY <1>2, <1>3, <3>2, Zenon
      <4>2. rx[cq[i].rx] = "ended" /\ \A j \in i + 1..n : cq[j].rx # cq[i].rx
        BY <1>1, <2>1, <3>2, <4>1, Zenon DEF Final, n
      <4>3. cq[i].rx # r BY <4>2, Zenon
      <4>4. \A j \in i + 1..n : j \in 1..n BY <1>2, <3>2
      <4>5. ASSUME NEW j \in i + 1..n + 1 PROVE cq'[j].rx # cq[i].rx
        <5>1. CASE j \in i + 1..n BY <1>3, <4>2, <4>4, <5>1, Zenon
        <5>2. CASE j = n + 1 BY <1>4, <4>3, <5>2, Zenon
        <5> QED BY <1>6, <5>1, <5>2, Zenon
      <4> QED BY <1>9, <4>1, <4>2, <4>3, <4>5, Zenon
    <3> QED BY <1>6, <3>1, <3>2, Zenon
  <2>2. ASSUME dec # <<>>, dec.end # "more"
        PROVE  rx'[dec.rx] = "ended" /\ \A j \in 1..n + 1 : cq'[j].rx # dec.rx
    <3>1. rx[dec.rx] = "ended" /\ \A j \in 1..n : cq[j].rx # dec.rx
      BY <1>1, <2>2, Zenon DEF Final, n
    <3>2. dec.rx # r /\ dec.rx \in Receivers BY <1>2, <2>2, <3>1, Zenon
    <3>3. ASSUME NEW j \in 1..n + 1 PROVE cq'[j].rx # dec.rx
      <4>1. CASE j \in 1..n BY <1>3, <3>1, <4>1, Zenon
      <4>2. CASE j = n + 1 BY <1>4, <3>2, <4>2, Zenon
      <4> QED BY <1>6, <4>1, <4>2, Zenon
    <3> QED BY <1>9, <3>1, <3>2, <3>3, Zenon
  <2> QED BY <1>3, <2>1, <2>2, Zenon DEF Final
<1>11. NoStall' BY <1>1, <1>9, Zenon DEF NoStall
<1>12. StreamDrained'
  <2> SUFFICES ASSUME NEW q \in Receivers, rx'[q] \notin {"armed", "ended"}
               PROVE  (\A i \in 1..n + 1 : cq'[i].rx # q) /\ (dec # <<>> => dec.rx # q)
    BY <1>5, Zenon DEF StreamDrained
  <2>1. q # r /\ rx[q] \notin {"armed", "ended"} BY <1>9, Zenon
  <2>2. (\A i \in 1..n : cq[i].rx # q) /\ (dec # <<>> => dec.rx # q)
    BY <1>1, <1>2, <2>1, Zenon DEF StreamDrained
  <2>3. ASSUME NEW i \in 1..n + 1 PROVE cq'[i].rx # q
    <3>1. CASE i \in 1..n BY <1>3, <2>2, <3>1, Zenon
    <3>2. CASE i = n + 1 BY <1>4, <2>1, <3>2, Zenon
    <3> QED BY <1>6, <3>1, <3>2, Zenon
  <2> QED BY <2>2, <2>3, Zenon
<1>13. ASSUME NEW q \in Receivers
       PROVE  Unhandled(q)' = IF q = r THEN Unhandled(q) + 1 ELSE Unhandled(q)
  <2>1. /\ Queued(q) \in Nat
        /\ Queued(q)' = IF q = r THEN Queued(q) + 1 ELSE Queued(q)
    BY QueuedPosted, Zenon
  <2>2. Unhandled(q) = Queued(q) + (IF dec # <<>> /\ dec.rx = q /\ dec.shot THEN 1 ELSE 0)
    BY Zenon DEF Unhandled, Queued, Of
  <2>3. Unhandled(q)' = Queued(q)' + (IF dec # <<>> /\ dec.rx = q /\ dec.shot THEN 1 ELSE 0)
    BY Zenon DEF Unhandled, Queued, Of
  <2>4. CASE dec # <<>> /\ dec.rx = q /\ dec.shot BY <2>1, <2>2, <2>3, <2>4, Zenon
  <2>5. CASE ~(dec # <<>> /\ dec.rx = q /\ dec.shot) BY <2>1, <2>2, <2>3, <2>5
  <2> QED BY <2>4, <2>5, Zenon
<1>14. ASSUME NEW i \in 1..n + 1, kind[cq'[i].rx] \notin Leasing, cq'[i].end = "more" PROVE cq'[i].shot
  <2>1. CASE i = n + 1 BY <1>4, <1>14, <2>1, Zenon
  <2>2. CASE i \in 1..n BY <1>1, <1>3, <1>14, <2>2, Zenon DEF Kinds, n
  <2> QED BY <1>6, <2>1, <2>2, Zenon
<1>15. \A q \in Receivers : rx'[q] \in {"waiting", "rearm"} => kind'[q] \in Leasing
  BY <1>1, <1>9, Zenon DEF Kinds
<1> QED BY <1>3, <1>9, <1>10, <1>11, <1>12, <1>13, <1>14, <1>15, Zenon

\* A tick is one of those the kernel still had to deliver, and not the last.
LEMMA ShootLoop ==
  ASSUME RingTypes, LoopInv, NEW r \in Receivers, NEW end \in {"more", "early"}, Shoot(r, end)
  PROVE  LoopInv'
<1>1. LoopTypes /\ Kinds /\ TicksExact BY Zenon DEF LoopInv
<1>2. /\ rx[r] = "armed" /\ Post(r, <<>>, TRUE, end) /\ UNCHANGED <<dec, kind, leases, stopped>>
      /\ kind[r] = "ticks" /\ tick[r].armed = 1 => end = "early"
      /\ tick' = [tick EXCEPT ![r].armed = IF @ = 0 THEN 0 ELSE @ - 1]
  BY Zenon DEF Shoot, ringVars
<1>3. <<>> \in Seq(Ids) /\ end \in Endings \cup {"more"} /\ TRUE \in BOOLEAN BY DEF Endings
<1>4. /\ Final' /\ NoStall' /\ StreamDrained'
      /\ rx' \in [Receivers -> {"idle", "armed", "ended", "rearm", "waiting"} \cup Endings]
      /\ rx'[r] = IF end = "more" THEN "armed" ELSE "ended"
      /\ \A q \in Receivers : q # r => rx'[q] = rx[q]
      /\ \A q \in Receivers : Unhandled(q)' = IF q = r THEN Unhandled(q) + 1 ELSE Unhandled(q)
      /\ \A i \in 1..Len(cq') : kind'[cq'[i].rx] \notin Leasing /\ cq'[i].end = "more" => cq'[i].shot
      /\ \A q \in Receivers : rx'[q] \in {"waiting", "rearm"} => kind'[q] \in Leasing
  BY <1>2, <1>3, PostLoop, Zenon
<1>5. tick \in [Receivers -> [count : Nat, received : Nat, armed : Nat]] BY <1>1, Zenon DEF LoopTypes
<1>6. /\ tick' \in [Receivers -> [count : Nat, received : Nat, armed : Nat]]
      /\ \A q \in Receivers : tick'[q].count = tick[q].count /\ tick'[q].received = tick[q].received
      /\ \A q \in Receivers : q # r => tick'[q].armed = tick[q].armed
      /\ tick'[r].armed = IF tick[r].armed = 0 THEN 0 ELSE tick[r].armed - 1
  BY <1>2, <1>5
<1>7. LoopTypes' BY <1>1, <1>2, <1>4, <1>6, Zenon DEF LoopTypes
<1>8. Kinds' BY <1>1, <1>2, <1>4, <1>6, Zenon DEF Kinds
<1>9. TicksExact'
  <2> SUFFICES ASSUME NEW q \in Receivers, kind[q] = "ticks", tick'[q].count # 0, rx'[q] = "armed"
               PROVE  /\ tick'[q].armed > 0
                      /\ ~stopped[q] => tick'[q].armed + Unhandled(q)' + tick'[q].received = tick'[q].count
    BY <1>2, Zenon DEF TicksExact
  <2>1. rx[q] = "armed" BY <1>2, <1>4, Zenon
  <2>2. tick[q].armed > 0 /\ (~stopped[q] => tick[q].armed + Unhandled(q) + tick[q].received = tick[q].count)
    BY <1>1, <1>6, <2>1, Zenon DEF TicksExact
  <2>3. CASE q # r BY <1>4, <1>6, <2>2, <2>3, Zenon
  <2>4. CASE q = r
    <3>1. end = "more" BY <1>4, <2>4, Zenon
    <3>2. tick[r].armed # 1 BY <1>2, <2>4, <3>1, Zenon
    <3>3. tick[r].armed \in Nat /\ tick[r].received \in Nat /\ tick[r].count \in Nat BY <1>5, Zenon
    <3>4. Unhandled(q) \in Nat /\ Unhandled(q)' = Unhandled(q) + 1 BY <1>4, <2>4, UnhandledIs, Zenon
    <3>5. tick'[r].armed = tick[r].armed - 1 BY <1>6, <2>2, <2>4, <3>3
    <3> QED BY <1>6, <2>2, <2>4, <3>2, <3>3, <3>4, <3>5
  <2> QED BY <2>3, <2>4, Zenon
<1> QED BY <1>4, <1>7, <1>8, <1>9, Zenon DEF LoopInv

\* Data, or the end of a request.
LEMMA DataLoop ==
  ASSUME RingTypes, LoopInv, NEW r \in Receivers, NEW ids \in Seq(Ids), NEW end \in Endings \cup {"more"},
         rx[r] = "armed", Post(r, ids, FALSE, end), UNCHANGED <<dec, kind, leases, stopped, tick>>,
         kind[r] \in Leasing \/ end # "more"
  PROVE  LoopInv'
<1>1. LoopTypes /\ Kinds /\ TicksExact BY Zenon DEF LoopInv
<1>2. FALSE \in BOOLEAN BY Zenon
<1>3. /\ Final' /\ NoStall' /\ StreamDrained'
      /\ rx' \in [Receivers -> {"idle", "armed", "ended", "rearm", "waiting"} \cup Endings]
      /\ rx'[r] = IF end = "more" THEN "armed" ELSE "ended"
      /\ \A q \in Receivers : q # r => rx'[q] = rx[q]
      /\ \A q \in Receivers : Unhandled(q)' = IF q = r THEN Unhandled(q) + 1 ELSE Unhandled(q)
      /\ \A i \in 1..Len(cq') : kind'[cq'[i].rx] \notin Leasing /\ cq'[i].end = "more" => cq'[i].shot
      /\ \A q \in Receivers : rx'[q] \in {"waiting", "rearm"} => kind'[q] \in Leasing
  BY <1>2, PostLoop, Zenon
<1>4. LoopTypes' BY <1>1, <1>3, Zenon DEF LoopTypes
<1>5. Kinds' BY <1>1, <1>3, Zenon DEF Kinds
<1>6. TicksExact'
  <2> SUFFICES ASSUME NEW q \in Receivers, kind[q] = "ticks", tick[q].count # 0, rx'[q] = "armed"
               PROVE  /\ tick[q].armed > 0
                      /\ ~stopped[q] => tick[q].armed + Unhandled(q)' + tick[q].received = tick[q].count
    BY Zenon DEF TicksExact
  <2>1. q # r BY <1>3, Zenon DEF Leasing
  <2> QED BY <1>1, <1>3, <2>1, Zenon DEF TicksExact
<1> QED BY <1>3, <1>4, <1>5, <1>6, Zenon DEF LoopInv

\* poll() hands a completion over: what it tells of stays unhandled.
LEMMA DispatchLoop ==
  ASSUME RingTypes, LoopInv, Dispatch
  PROVE  LoopInv'
<1> DEFINE n == Len(cq)
<1>1. LoopTypes /\ Final /\ Kinds /\ NoStall /\ StreamDrained /\ TicksExact BY Zenon DEF LoopInv
<1>2. UNCHANGED <<leases, kind, tick, rx, stopped>> BY Zenon DEF Dispatch, ringVars
<1>3. /\ n \in Nat \ {0} /\ cq' \in Seq(Result) /\ Len(cq') = n - 1
      /\ \A i \in 1..Len(cq') : cq'[i] = cq[i + 1]
      /\ dec = <<>> /\ dec' # <<>> /\ dec'.rx = cq[1].rx /\ dec'.shot = cq[1].shot /\ dec'.end = cq[1].end
  BY Handed, Zenon
<1>4. DOMAIN cq = 1..n /\ DOMAIN cq' = 1..n - 1 BY <1>3, QueueTypes
<1>5. /\ 1 \in 1..n /\ \A i \in 1..n - 1 : i + 1 \in 1..n /\ i + 1 \in 1 + 1..n
      /\ \A i \in 1..n - 1 : \A j \in i + 1..n - 1 : j \in 1..n - 1 /\ j + 1 \in (i + 1) + 1..n
  BY <1>3
<1>6. \A i \in 1..n - 1 : cq'[i] = cq[i + 1] BY <1>3, Zenon
<1> HIDE DEF n
<1>7. Final'
  <2>1. ASSUME NEW i \in 1..n - 1, cq'[i].end # "more"
        PROVE  rx[cq'[i].rx] = "ended" /\ \A j \in i + 1..n - 1 : cq'[j].rx # cq'[i].rx
    <3>1. rx[cq[i + 1].rx] = "ended" /\ \A j \in (i + 1) + 1..n : cq[j].rx # cq[i + 1].rx
      BY <1>1, <1>5, <1>6, <2>1, Zenon DEF Final, n
    <3> QED BY <1>5, <1>6, <3>1, Zenon
  <2>2. ASSUME cq[1].end # "more" PROVE rx[cq[1].rx] = "ended" /\ \A j \in 1..n - 1 : cq'[j].rx # cq[1].rx
    <3>1. rx[cq[1].rx] = "ended" /\ \A j \in 1 + 1..n : cq[j].rx # cq[1].rx
      BY <1>1, <1>5, <2>2, Zenon DEF Final, n
    <3> QED BY <1>5, <1>6, <3>1, Zenon
  <2> QED BY <1>2, <1>3, <2>1, <2>2, Zenon DEF Final
<1>8. Kinds'
  <2>1. ASSUME NEW i \in 1..n - 1, kind[cq'[i].rx] \notin Leasing, cq'[i].end = "more" PROVE cq'[i].shot
    BY <1>1, <1>5, <1>6, <2>1, Zenon DEF Kinds, n
  <2> QED BY <1>1, <1>2, <1>3, <2>1, Zenon DEF Kinds
<1>9. StreamDrained'
  <2> SUFFICES ASSUME NEW q \in Receivers, rx[q] \notin {"armed", "ended"}
               PROVE  (\A i \in 1..n - 1 : cq'[i].rx # q) /\ dec'.rx # q
    BY <1>2, <1>4, Zenon DEF StreamDrained
  <2>1. \A i \in 1..n : cq[i].rx # q BY <1>1, <1>4, Zenon DEF StreamDrained
  <2> QED BY <1>3, <1>5, <1>6, <2>1, Zenon
<1>10. TicksExact'
  <2> SUFFICES ASSUME NEW q \in Receivers, kind[q] = "ticks", tick[q].count # 0, rx[q] = "armed"
               PROVE  Unhandled(q)' = Unhandled(q)
    BY <1>1, <1>2, Zenon DEF TicksExact
  <2>1. /\ Queued(q)' \in Nat /\ Queued(q) = IF cq[1].rx = q THEN Queued(q)' + 1 ELSE Queued(q)'
    BY QueuedPopped, Zenon
  <2>2. Unhandled(q) = Queued(q) BY <1>3, <2>1, UnhandledIs
  <2>3. Unhandled(q)' = Queued(q)' + (IF cq[1].rx = q /\ cq[1].shot THEN 1 ELSE 0)
    BY <1>3, Zenon DEF Unhandled, Queued, Of
  <2>4. CASE cq[1].rx = q
    <3>1. cq[1].end = "more" BY <1>1, <1>5, <2>4, Zenon DEF Final, n
    <3>2. cq[1].shot BY <1>1, <1>5, <2>4, <3>1, Zenon DEF Kinds, n, Leasing
    <3> QED BY <2>1, <2>2, <2>3, <2>4, <3>2, Zenon
  <2>5. CASE cq[1].rx # q BY <2>1, <2>2, <2>3, <2>5
  <2> QED BY <2>4, <2>5, Zenon
<1>11. LoopTypes' /\ NoStall' BY <1>1, <1>2, Zenon DEF LoopTypes, NoStall
<1> QED BY <1>7, <1>8, <1>9, <1>10, <1>11, Zenon DEF LoopInv

\* A step that takes, keeps or returns a buffer: loops that wait may be told to go on, and
\* the loop of the callback may be stopped.
LEMMA BufferLoop ==
  ASSUME RingTypes, LoopInv, UNCHANGED <<cq, kind, tick>>, NoStall',
         rx' \in [Receivers -> {"idle", "armed", "ended", "rearm", "waiting"} \cup Endings],
         \A q \in Receivers : rx'[q] = rx[q] \/ (rx[q] = "waiting" /\ rx'[q] = "rearm"),
         stopped' \in [Receivers -> BOOLEAN], \A q \in Receivers : stopped[q] => stopped'[q],
         dec = <<>> <=> dec' = <<>>,
         dec # <<>> => dec'.rx = dec.rx /\ dec'.shot = dec.shot /\ dec'.end = dec.end
  PROVE  LoopInv'
<1>1. LoopTypes /\ Final /\ Kinds /\ StreamDrained /\ TicksExact BY Zenon DEF LoopInv
<1>2. /\ \A i \in 1..Len(cq) : cq[i].rx \in Receivers
      /\ dec # <<>> => dec.rx \in Receivers
  BY QueueTypes, Zenon
<1>3. \A q \in Receivers : (rx'[q] = "armed" <=> rx[q] = "armed") /\ (rx'[q] = "ended" <=> rx[q] = "ended")
  BY Zenon
<1>4. LoopTypes' BY <1>1, Zenon DEF LoopTypes
<1>5. Final' BY <1>1, <1>2, <1>3 DEF Final
<1>6. Kinds' BY <1>1, <1>3, Zenon DEF Kinds
<1>7. StreamDrained' BY <1>1, <1>3, Zenon DEF StreamDrained
<1>8. TicksExact'
  <2> SUFFICES ASSUME NEW q \in Receivers, kind[q] = "ticks", tick[q].count # 0, rx'[q] = "armed"
               PROVE  /\ tick[q].armed > 0
                      /\ ~stopped'[q] => tick[q].armed + Unhandled(q)' + tick[q].received = tick[q].count
    BY Zenon DEF TicksExact
  <2>1. Unhandled(q)' = Unhandled(q) BY Zenon DEF Unhandled
  <2> QED BY <1>1, <1>3, <2>1, Zenon DEF TicksExact
<1> QED BY <1>4, <1>5, <1>6, <1>7, <1>8, Zenon DEF LoopInv

\* put notifies every loop that waits.
LEMMA Notified ==
  ASSUME LoopTypes, NEW id, NEW h, NEW n, Put(id, h, n)
  PROVE  /\ rx' \in [Receivers -> {"idle", "armed", "ended", "rearm", "waiting"} \cup Endings]
         /\ \A q \in Receivers : rx'[q] = rx[q] \/ (rx[q] = "waiting" /\ rx'[q] = "rearm")
         /\ NoStall'
<1>1. rx' = [q \in Receivers |-> IF rx[q] = "waiting" THEN "rearm" ELSE rx[q]] BY Zenon DEF Put
<1>2. rx \in [Receivers -> {"idle", "armed", "ended", "rearm", "waiting"} \cup Endings]
  BY Zenon DEF LoopTypes
<1> QED BY <1>1, <1>2, Zenon DEF NoStall

\* A chunk is destroyed, and the loops that wait for a buffer are told.
LEMMA ReturnLoop ==
  ASSUME RingTypes, LoopInv, NEW id \in Ids, Return(id)
  PROVE  LoopInv'
<1>1. LoopTypes BY Zenon DEF LoopInv
<1>2. Put(id, held, leases) /\ UNCHANGED <<cq, dec, kind, tick, stopped>> BY Zenon DEF Return
<1>3. stopped \in [Receivers -> BOOLEAN] BY <1>1, Zenon DEF LoopTypes
<1>4. /\ rx' \in [Receivers -> {"idle", "armed", "ended", "rearm", "waiting"} \cup Endings]
      /\ \A q \in Receivers : rx'[q] = rx[q] \/ (rx[q] = "waiting" /\ rx'[q] = "rearm")
      /\ NoStall'
  BY <1>1, <1>2, Notified, Zenon
<1> QED BY <1>2, <1>3, <1>4, BufferLoop, Zenon

\* While a buffer is being decoded not all of them are leased, so no loop waits.
LEMMA PartLoop ==
  ASSUME RingInv, LoopInv, NEW keep \in BOOLEAN, NEW halt \in BOOLEAN, Part(keep, halt)
  PROVE  LoopInv'
<1>1. RingTypes /\ LoopTypes /\ NoStall BY Zenon DEF RingInv, LoopInv
<1>2. /\ dec # <<>> /\ dec' # <<>> /\ dec \in Decoded
      /\ dec'.rx = dec.rx /\ dec'.shot = dec.shot /\ dec'.end = dec.end
  BY Parted, Zenon
<1>3. UNCHANGED <<cq, kind, tick>> /\ stopped' = [stopped EXCEPT ![dec.rx] = @ \/ halt]
  BY Zenon DEF Part, Stop
<1>4. stopped \in [Receivers -> BOOLEAN] /\ dec.rx \in Receivers
  BY <1>1, <1>2, Zenon DEF LoopTypes, Decoded
<1>5. stopped' \in [Receivers -> BOOLEAN] /\ \A q \in Receivers : stopped[q] => stopped'[q]
  BY <1>3, <1>4, Zenon
<1>6. /\ rx' \in [Receivers -> {"idle", "armed", "ended", "rearm", "waiting"} \cup Endings]
      /\ \A q \in Receivers : rx'[q] = rx[q] \/ (rx[q] = "waiting" /\ rx'[q] = "rearm")
      /\ NoStall'
  <2>1. CASE ~keep
    <3>1. Put(dec.id, Lease(dec.id), leases + 1) BY <2>1, Zenon DEF Part
    <3> QED BY <1>1, <3>1, Notified, Zenon
  <2>2. CASE keep
    <3>1. rx' = rx BY <2>2, Zenon DEF Part
    <3>2. dec.id \in Ids /\ dec.id \notin held BY Rest, Zenon
    <3>3. leases # Count
      <4>1. IsFiniteSet(Ids) /\ Cardinality(Ids) = Count
        <5>1. 0 \in Int /\ Count - 1 \in Int /\ Count \in Nat \ {0} BY Sizes
        <5> QED BY <5>1, FS_Interval DEF Ids
      <4>2. held \in SUBSET Ids /\ leases = Cardinality(held) BY <1>1, Zenon DEF RingTypes
      <4>3. Cardinality(Ids) = Cardinality(held) => Ids = held BY <4>1, <4>2, FS_Subset, Zenon
      <4> QED BY <3>2, <4>1, <4>2, <4>3, Zenon
    <3>4. \A q \in Receivers : rx[q] # "waiting" BY <1>1, <3>3, Zenon DEF NoStall
    <3> QED BY <1>1, <3>1, <3>4, Zenon DEF LoopTypes, NoStall
  <2> QED BY <2>1, <2>2, Zenon
<1> QED BY <1>1, <1>2, <1>3, <1>5, <1>6, BufferLoop, Zenon

\* The callback of a shot: a tick that waited becomes one received.
LEMMA CalledLoop ==
  ASSUME RingTypes, LoopInv, NEW halt \in BOOLEAN, Called(halt)
  PROVE  LoopInv'
<1> DEFINE r == dec.rx
<1>1. LoopTypes /\ Final /\ Kinds /\ NoStall /\ StreamDrained /\ TicksExact BY Zenon DEF LoopInv
<1>2. /\ dec # <<>> /\ dec' # <<>> /\ dec.shot /\ ~dec'.shot
      /\ dec'.rx = r /\ dec'.end = dec.end
  BY CalledDec, Zenon
<1>3. /\ UNCHANGED <<leases, cq, kind, rx>> /\ stopped' = [stopped EXCEPT ![r] = @ \/ halt]
      /\ tick' = [tick EXCEPT ![r] = IF stopped[r] THEN @ ELSE Counted(@)]
  BY Zenon DEF Called, ringVars, Stop
<1>4. r \in Receivers BY <1>2, QueueTypes, Zenon
<1> HIDE DEF r
<1>5. stopped' \in [Receivers -> BOOLEAN] /\ \A q \in Receivers : stopped[q] => stopped'[q]
  BY <1>1, <1>3, <1>4, Zenon DEF LoopTypes
<1>6. tick \in [Receivers -> [count : Nat, received : Nat, armed : Nat]] BY <1>1, Zenon DEF LoopTypes
<1>7. /\ Counted(tick[r]) \in [count : Nat, received : Nat, armed : Nat]
      /\ Counted(tick[r]).count = tick[r].count /\ Counted(tick[r]).armed = tick[r].armed
      /\ Counted(tick[r]).received = IF tick[r].count = 0 THEN 0 ELSE tick[r].received + 1
  <2>1. tick[r] \in [count : Nat, received : Nat, armed : Nat] BY <1>4, <1>6, Zenon
  <2> DEFINE t == tick[r]
  <2>2. t \in [count : Nat, received : Nat, armed : Nat] BY <2>1, Zenon
  <2> HIDE DEF t
  <2>3. /\ Counted(t) \in [count : Nat, received : Nat, armed : Nat]
        /\ Counted(t).count = t.count /\ Counted(t).armed = t.armed
        /\ Counted(t).received = IF t.count = 0 THEN 0 ELSE t.received + 1
    BY <2>2 DEF Counted
  <2> QED BY <2>3, Zenon DEF t
<1>8. /\ tick' \in [Receivers -> [count : Nat, received : Nat, armed : Nat]]
      /\ \A q \in Receivers : q # r => tick'[q] = tick[q]
      /\ tick'[r] = IF stopped[r] THEN tick[r] ELSE Counted(tick[r])
  BY <1>3, <1>4, <1>6, <1>7, Zenon
<1>9. tick'[r].count = tick[r].count /\ tick'[r].armed = tick[r].armed
  BY <1>7, <1>8, Zenon
<1>10. LoopTypes' /\ NoStall' BY <1>1, <1>3, <1>5, <1>8, Zenon DEF LoopTypes, NoStall
<1>11. Final' BY <1>1, <1>2, <1>3, Zenon DEF Final, r
<1>12. Kinds' BY <1>1, <1>3, <1>8, <1>9 DEF Kinds
<1>13. StreamDrained' BY <1>1, <1>2, <1>3, Zenon DEF StreamDrained, r
<1>14. TicksExact'
  <2> SUFFICES ASSUME NEW q \in Receivers, kind[q] = "ticks", tick'[q].count # 0, rx[q] = "armed"
               PROVE  /\ tick'[q].armed > 0
                      /\ ~stopped'[q] => tick'[q].armed + Unhandled(q)' + tick'[q].received = tick'[q].count
    BY <1>3, Zenon DEF TicksExact
  <2>1. Queued(q) \in Nat /\ Unhandled(q) = Queued(q) + IF dec # <<>> /\ r = q /\ dec.shot THEN 1 ELSE 0
    BY UnhandledIs, Zenon DEF r
  <2>2. Unhandled(q)' = Queued(q) + 0 BY <1>2, <1>3, Zenon DEF Unhandled, Queued, Of
  <2>3. /\ tick[q].count = tick'[q].count /\ tick[q].armed = tick'[q].armed BY <1>8, <1>9, Zenon
  <2>4. tick[q].armed > 0 /\ (~stopped[q] => tick[q].armed + Unhandled(q) + tick[q].received = tick[q].count)
    BY <1>1, <2>3, Zenon DEF TicksExact
  <2>5. tick[q].armed \in Nat /\ tick[q].received \in Nat /\ tick[q].count \in Nat BY <1>6, Zenon
  <2>6. CASE q # r
    <3>1. tick'[q].received = tick[q].received /\ Unhandled(q) = Queued(q) + 0 BY <1>8, <2>1, <2>6, Zenon
    <3> QED BY <1>5, <2>2, <2>3, <2>4, <3>1, Zenon
  <2>7. CASE q = r
    <3>1. Unhandled(q) = Queued(q) + 1 BY <1>2, <2>1, <2>7, Zenon
    <3>2. ASSUME ~stopped[q] PROVE tick'[q].received = tick[q].received + 1
      BY <1>7, <1>8, <2>3, <2>7, <3>2, Zenon
    <3>3. tick'[q].armed > 0 BY <2>3, <2>4, Zenon
    <3>4. Queued(q) \in Nat BY <2>1, Zenon
    <3>5. ASSUME ~stopped'[q] PROVE tick'[q].armed + Unhandled(q)' + tick'[q].received = tick'[q].count
      <4>1. ~stopped[q] BY <1>5, <3>5, Zenon
      <4>2. tick[q].armed + (Queued(q) + 1) + tick[q].received = tick[q].count
        BY <2>4, <3>1, <4>1, Zenon
      <4>3. tick[q].armed + (Queued(q) + 0) + (tick[q].received + 1) = tick[q].count
        BY <2>5, <3>4, <4>2
      <4> QED BY <2>2, <2>3, <3>2, <4>1, <4>3, Zenon
    <3> QED BY <3>3, <3>5, Zenon
  <2> QED BY <2>6, <2>7, Zenon
<1> QED BY <1>10, <1>11, <1>12, <1>13, <1>14, Zenon DEF LoopInv

\* The consumer returns; after the last completion nothing of the request is left.
LEMMA DispatchedLoop ==
  ASSUME RingTypes, LoopInv, Dispatched
  PROVE  LoopInv'
<1> DEFINE r == dec.rx
<1>1. LoopTypes /\ Final /\ Kinds /\ NoStall /\ StreamDrained /\ TicksExact BY Zenon DEF LoopInv
<1>2. /\ dec # <<>> /\ ~dec.shot /\ dec' = <<>> /\ UNCHANGED <<leases, cq, kind, tick, stopped>>
      /\ rx' = [rx EXCEPT ![r] = IF dec.end = "more" THEN rx[r] ELSE dec.end]
  BY Zenon DEF Dispatched, ringVars, RetireLast
<1>3. /\ r \in Receivers /\ dec.end \in Endings \cup {"more"} /\ DOMAIN cq = 1..Len(cq)
      /\ \A i \in 1..Len(cq) : cq[i].rx \in Receivers
  BY <1>2, QueueTypes, Zenon
<1>4. rx \in [Receivers -> {"idle", "armed", "ended", "rearm", "waiting"} \cup Endings]
  BY <1>1, Zenon DEF LoopTypes
<1>5. \A q \in Receivers : Unhandled(q)' = Unhandled(q) BY <1>2, Zenon DEF Unhandled
<1>6. CASE dec.end = "more"
  <2>1. rx' = rx BY <1>2, <1>3, <1>4, <1>6, Zenon
  <2>2. LoopTypes' /\ NoStall' BY <1>1, <1>2, <2>1, Zenon DEF LoopTypes, NoStall
  <2>3. Final' BY <1>1, <1>2, <2>1, Zenon DEF Final
  <2>4. Kinds' /\ StreamDrained' BY <1>1, <1>2, <2>1, Zenon DEF Kinds, StreamDrained
  <2>5. TicksExact' BY <1>1, <1>2, <1>5, <2>1, Zenon DEF TicksExact
  <2> QED BY <2>2, <2>3, <2>4, <2>5, Zenon DEF LoopInv
<1>7. CASE dec.end # "more"
  <2>1. dec.end \in Endings BY <1>3, <1>7, Zenon
  <2>2. /\ rx' \in [Receivers -> {"idle", "armed", "ended", "rearm", "waiting"} \cup Endings]
        /\ rx'[r] \in Endings /\ \A q \in Receivers : q # r => rx'[q] = rx[q]
    BY <1>2, <1>3, <1>4, <1>7, <2>1, Zenon
  <2>3. rx'[r] \notin {"idle", "armed", "ended", "rearm", "waiting"} BY <2>2, Zenon DEF Endings
  <2>4. rx[r] = "ended" /\ \A j \in 1..Len(cq) : cq[j].rx # r BY <1>1, <1>2, <1>7, Zenon DEF Final
  <2> HIDE DEF r
  <2>5. LoopTypes' BY <1>1, <1>2, <2>2, Zenon DEF LoopTypes
  <2>6. NoStall' BY <1>1, <1>2, <2>2, <2>3, Zenon DEF NoStall
  <2>7. Final' BY <1>1, <1>2, <1>3, <2>2, <2>4, Zenon DEF Final
  <2>8. Kinds' BY <1>1, <1>2, <2>2, <2>3, Zenon DEF Kinds
  <2>9. StreamDrained' BY <1>1, <1>2, <1>3, <2>2, <2>4, Zenon DEF StreamDrained
  <2>10. TicksExact' BY <1>1, <1>2, <1>5, <2>2, <2>3, Zenon DEF TicksExact
  <2> QED BY <2>5, <2>6, <2>7, <2>8, <2>9, <2>10, Zenon DEF LoopInv
<1> QED BY <1>6, <1>7, Zenon

\* A loop without a request starts, goes on, waits or returns.
LEMMA OwnLoop ==
  ASSUME RingTypes, LoopInv, NEW r \in Receivers, dec = <<>>, rx[r] \notin {"armed", "ended"},
         UNCHANGED <<leases, cq, dec>>, NEW p \in {"idle", "armed", "waiting"}, rx' = [rx EXCEPT ![r] = p],
         DOMAIN kind' = Receivers, \A q \in Receivers : q # r => kind'[q] = kind[q],
         stopped' \in [Receivers -> BOOLEAN], \A q \in Receivers : q # r => stopped'[q] = stopped[q],
         tick' \in [Receivers -> [count : Nat, received : Nat, armed : Nat]],
         \A q \in Receivers : q # r => tick'[q] = tick[q],
         kind'[r] # "ticks" => tick'[r].count = 0,
         p = "waiting" => leases = Count /\ kind'[r] \in Leasing,
         kind'[r] = "ticks" /\ tick'[r].count # 0 /\ p = "armed" =>
           tick'[r].armed > 0 /\ tick'[r].armed + tick'[r].received = tick'[r].count
  PROVE  LoopInv'
<1>1. LoopTypes /\ Final /\ Kinds /\ NoStall /\ StreamDrained /\ TicksExact BY Zenon DEF LoopInv
<1>2. rx \in [Receivers -> {"idle", "armed", "ended", "rearm", "waiting"} \cup Endings]
  BY <1>1, Zenon DEF LoopTypes
<1>3. /\ rx' \in [Receivers -> {"idle", "armed", "ended", "rearm", "waiting"} \cup Endings]
      /\ rx'[r] = p /\ \A q \in Receivers : q # r => rx'[q] = rx[q]
  BY <1>2, Zenon
<1>4. DOMAIN cq = 1..Len(cq) /\ \A i \in 1..Len(cq) : cq[i].rx \in Receivers BY QueueTypes, Zenon
<1>5. \A i \in 1..Len(cq) : cq[i].rx # r BY <1>1, <1>4, Zenon DEF StreamDrained
<1>6. LoopTypes' BY <1>3, Zenon DEF LoopTypes
<1>7. Final' BY <1>1, <1>3, <1>4, <1>5 DEF Final
<1>8. NoStall' BY <1>1, <1>3, Zenon DEF NoStall
<1>9. StreamDrained' BY <1>1, <1>3, <1>4, <1>5 DEF StreamDrained
<1>10. Kinds'
  <2>1. ASSUME NEW q \in Receivers PROVE kind'[q] # "ticks" => tick'[q].count = 0
    BY <1>1, Zenon DEF Kinds
  <2>2. ASSUME NEW q \in Receivers PROVE rx'[q] \in {"waiting", "rearm"} => kind'[q] \in Leasing
    BY <1>1, <1>3, Zenon DEF Kinds
  <2>3. ASSUME NEW i \in 1..Len(cq), kind'[cq[i].rx] \notin Leasing, cq[i].end = "more" PROVE cq[i].shot
    BY <1>1, <1>4, <1>5, <2>3, Zenon DEF Kinds
  <2> QED BY <2>1, <2>2, <2>3, Zenon DEF Kinds
<1>11. TicksExact'
  <2> SUFFICES ASSUME NEW q \in Receivers, kind'[q] = "ticks", tick'[q].count # 0, rx'[q] = "armed"
               PROVE  /\ tick'[q].armed > 0
                      /\ ~stopped'[q] => tick'[q].armed + Unhandled(q)' + tick'[q].received = tick'[q].count
    BY Zenon DEF TicksExact
  <2>1. Unhandled(q)' = Unhandled(q) BY Zenon DEF Unhandled
  <2>2. CASE q # r
    <3>1. /\ kind[q] = "ticks" /\ tick'[q] = tick[q] /\ rx[q] = "armed" /\ stopped'[q] = stopped[q]
      BY <1>3, <2>2, Zenon
    <3> QED BY <1>1, <2>1, <3>1, Zenon DEF TicksExact
  <2>3. CASE q = r
    <3>1. Unhandled(q) = 0 BY <1>1, <2>3, NoneUnhandled, Zenon
    <3>2. /\ tick'[r].armed > 0 /\ tick'[r].armed + tick'[r].received = tick'[r].count
      BY <1>3, <2>3, Zenon
    <3>3. tick'[r].armed \in Nat /\ tick'[r].received \in Nat BY Zenon
    <3> QED BY <2>1, <2>3, <3>1, <3>2, <3>3
  <2> QED BY <2>2, <2>3, Zenon
<1> QED BY <1>6, <1>7, <1>8, <1>9, <1>10, <1>11, Zenon DEF LoopInv

\* A loop runs again: it ends, arms its request again, or waits for a buffer.
LEMMA ResumeLoop ==
  ASSUME RingTypes, LoopInv, NEW r \in Receivers, Resume(r)
  PROVE  LoopInv'
<1> DEFINE Tick == [count : Nat, received : Nat, armed : Nat]
<1>1. LoopTypes /\ Kinds BY Zenon DEF LoopInv
<1>2. /\ dec = <<>> /\ rx[r] \in Endings \cup {"rearm"} /\ UNCHANGED <<leases, cq, dec, kind>>
      /\ IF rx[r] # "rearm" /\ Over(r)
         THEN rx' = [rx EXCEPT ![r] = "idle"] /\ stopped' = [stopped EXCEPT ![r] = FALSE] /\ UNCHANGED tick
         ELSE /\ IF kind[r] \in Leasing THEN Available(r) ELSE rx' = [rx EXCEPT ![r] = "armed"]
              /\ tick' = [tick EXCEPT ![r] = Rearmed(@)]
              /\ UNCHANGED stopped
  BY Zenon DEF Resume, ringVars
<1>3. rx[r] \notin {"armed", "ended"} BY <1>2, Zenon DEF Endings
<1>4. /\ DOMAIN kind = Receivers /\ tick \in [Receivers -> Tick] /\ stopped \in [Receivers -> BOOLEAN]
  BY <1>1, Zenon DEF LoopTypes
<1>5. kind[r] # "ticks" => tick[r].count = 0 BY <1>1, Zenon DEF Kinds
<1>6. CASE rx[r] # "rearm" /\ Over(r)
  <2>1. rx' = [rx EXCEPT ![r] = "idle"] /\ stopped' = [stopped EXCEPT ![r] = FALSE] /\ UNCHANGED tick
    BY <1>2, <1>6, Zenon
  <2>2. stopped' \in [Receivers -> BOOLEAN] /\ \A q \in Receivers : q # r => stopped'[q] = stopped[q]
    BY <1>4, <2>1, Zenon
  <2>3. "idle" \in {"idle", "armed", "waiting"} /\ "idle" # "waiting" /\ "idle" # "armed" BY Zenon
  <2> QED BY <1>2, <1>3, <1>4, <1>5, <2>1, <2>2, <2>3, OwnLoop, Zenon
<1>7. CASE ~(rx[r] # "rearm" /\ Over(r))
  <2>1. /\ IF kind[r] \in Leasing THEN Available(r) ELSE rx' = [rx EXCEPT ![r] = "armed"]
        /\ tick' = [tick EXCEPT ![r] = Rearmed(@)] /\ UNCHANGED stopped
    BY <1>2, <1>7, Zenon
  <2>2. tick[r] \in Tick BY <1>4, Zenon
  <2>3. kind[r] = "ticks" /\ tick[r].count # 0 => tick[r].received < tick[r].count
    <3> SUFFICES ASSUME kind[r] = "ticks", tick[r].count # 0 PROVE tick[r].received < tick[r].count
      BY Zenon
    <3>1. rx[r] # "rearm" BY <1>1, Zenon DEF Kinds, Leasing
    <3>2. ~Over(r) BY <1>7, <3>1, Zenon
    <3>3. ~TicksOver(r) BY <3>2, Zenon DEF Over
    <3>4. ~(tick[r].received >= tick[r].count) BY <3>3, Zenon DEF TicksOver
    <3> QED BY <2>2, <3>4
  <2>4. /\ Rearmed(tick[r]) \in Tick /\ Rearmed(tick[r]).count = tick[r].count
        /\ kind[r] = "ticks" /\ tick[r].count # 0 =>
             Rearmed(tick[r]).armed > 0 /\ Rearmed(tick[r]).armed + Rearmed(tick[r]).received = tick[r].count
    <3> DEFINE t == tick[r]
    <3>1. t \in Tick /\ (t.count # 0 => t.received < t.count) BY <1>5, <2>2, <2>3, Zenon
    <3> HIDE DEF t
    <3>2. /\ Rearmed(t) \in Tick /\ Rearmed(t).count = t.count
          /\ t.count # 0 => Rearmed(t).armed > 0 /\ Rearmed(t).armed + Rearmed(t).received = t.count
      BY <3>1 DEF Rearmed
    <3> QED BY <3>2, Zenon DEF t
  <2>5. /\ tick' \in [Receivers -> Tick] /\ tick'[r] = Rearmed(tick[r])
        /\ \A q \in Receivers : q # r => tick'[q] = tick[q]
    BY <1>4, <2>1, <2>4, Zenon
  <2>6. PICK p \in {"idle", "armed", "waiting"} :
          rx' = [rx EXCEPT ![r] = p] /\ (p = "waiting" => leases = Count /\ kind[r] \in Leasing)
    <3>1. CASE kind[r] \in Leasing /\ leases = Count
      <4>1. rx' = [rx EXCEPT ![r] = "waiting"] BY <2>1, <3>1, Zenon DEF Available
      <4> QED BY <3>1, <4>1, Zenon
    <3>2. CASE ~(kind[r] \in Leasing /\ leases = Count)
      <4>1. rx' = [rx EXCEPT ![r] = "armed"] BY <2>1, <3>2, Zenon DEF Available
      <4>2. "armed" # "waiting" BY Zenon
      <4> QED BY <4>1, <4>2, Zenon
    <3> QED BY <3>1, <3>2, Zenon
  <2>7. /\ kind'[r] # "ticks" => tick'[r].count = 0
        /\ kind'[r] = "ticks" /\ tick'[r].count # 0 =>
             tick'[r].armed > 0 /\ tick'[r].armed + tick'[r].received = tick'[r].count
    BY <1>2, <1>5, <2>4, <2>5, Zenon
  <2> QED BY <1>2, <1>3, <1>4, <2>1, <2>5, <2>6, <2>7, OwnLoop, Zenon
<1> QED BY <1>6, <1>7, Zenon

\* A loop starts, with its first request.
LEMMA StartLoop ==
  ASSUME RingTypes, LoopInv, NEW r \in Receivers, NEW k, NEW c \in Nat, Start(r, k, c)
  PROVE  LoopInv'
<1>1. LoopTypes BY Zenon DEF LoopInv
<1>2. /\ dec = <<>> /\ rx[r] = "idle" /\ (k # "ticks" => c = 0) /\ UNCHANGED <<leases, cq, dec, stopped>>
      /\ rx' = [rx EXCEPT ![r] = "armed"] /\ kind' = [kind EXCEPT ![r] = k]
      /\ tick' = [tick EXCEPT ![r] = [count |-> c, received |-> 0, armed |-> c]]
  BY Zenon DEF Start, ringVars
<1>3. DOMAIN kind = Receivers /\ tick \in [Receivers -> [count : Nat, received : Nat, armed : Nat]]
      /\ stopped \in [Receivers -> BOOLEAN]
  BY <1>1, Zenon DEF LoopTypes
<1>4. DOMAIN kind' = Receivers /\ kind'[r] = k /\ \A q \in Receivers : q # r => kind'[q] = kind[q]
  BY <1>2, <1>3, Zenon
<1>5. /\ tick' \in [Receivers -> [count : Nat, received : Nat, armed : Nat]]
      /\ tick'[r].count = c /\ tick'[r].received = 0 /\ tick'[r].armed = c
      /\ \A q \in Receivers : q # r => tick'[q] = tick[q]
  BY <1>2, <1>3, Zenon
<1>6. rx[r] \notin {"armed", "ended"} /\ "armed" \in {"idle", "armed", "waiting"} /\ "armed" # "waiting" BY <1>2, Zenon
<1>7. c # 0 => c > 0 /\ c + 0 = c OBVIOUS
<1> QED BY <1>2, <1>3, <1>4, <1>5, <1>6, <1>7, OwnLoop, Zenon

\* No loop has started.
LEMMA LoopInit ==
  ASSUME Init
  PROVE  LoopInv
<1>1. /\ cq = <<>> /\ dec = <<>> /\ kind = [r \in Receivers |-> "none"]
      /\ tick = [r \in Receivers |-> [count |-> 0, received |-> 0, armed |-> 0]]
      /\ rx = [r \in Receivers |-> "idle"] /\ stopped = [r \in Receivers |-> FALSE]
  BY Zenon DEF Init
<1>2. Len(cq) = 0 /\ DOMAIN cq = {} BY <1>1
<1>3. LoopTypes BY <1>1, Zenon DEF LoopTypes
<1>4. Final /\ NoStall /\ StreamDrained BY <1>1, <1>2 DEF Final, NoStall, StreamDrained
<1>5. Kinds BY <1>1, <1>2 DEF Kinds
<1>6. TicksExact BY <1>1, Zenon DEF TicksExact
<1> QED BY <1>3, <1>4, <1>5, <1>6, Zenon DEF LoopInv

\* Every step of the module keeps the loops' invariant.
LEMMA LoopNext ==
  ASSUME RingInv, LoopInv, Next
  PROVE  LoopInv'
<1>0. RingTypes BY Zenon DEF RingInv
<1>1. ASSUME NEW r \in Receivers, Resume(r) PROVE LoopInv'
  BY <1>0, <1>1, ResumeLoop, Zenon
<1>2. ASSUME NEW r \in Receivers, CancelWait(r) PROVE LoopInv'
  <2>1. /\ dec = <<>> /\ rx[r] = "waiting" /\ rx' = [rx EXCEPT ![r] = "idle"]
        /\ UNCHANGED <<leases, cq, dec, kind, tick, stopped>>
    BY <1>2, Zenon DEF CancelWait, ringVars
  <2>2. /\ DOMAIN kind = Receivers /\ tick \in [Receivers -> [count : Nat, received : Nat, armed : Nat]]
        /\ stopped \in [Receivers -> BOOLEAN] /\ (kind[r] # "ticks" => tick[r].count = 0)
    BY Zenon DEF LoopInv, LoopTypes, Kinds
  <2>3. /\ rx[r] \notin {"armed", "ended"} /\ "idle" \in {"idle", "armed", "waiting"}
        /\ "idle" # "waiting" /\ "idle" # "armed"
    BY <2>1, Zenon
  <2> QED BY <1>0, <2>1, <2>2, <2>3, OwnLoop, Zenon
<1>3. ASSUME NEW r \in Receivers, NEW k, NEW c \in 0..Ticks, Start(r, k, c) PROVE LoopInv'
  <2>1. c \in Nat BY Sizes
  <2> QED BY <1>0, <1>3, <2>1, StartLoop, Zenon
<1>4. ASSUME NEW r \in Receivers, NEW end \in {"more", "early"}, Shoot(r, end) PROVE LoopInv'
  BY <1>0, <1>4, ShootLoop, Zenon
<1>5. ASSUME NEW r \in Receivers, NEW n \in 1..Count, NEW end \in {"more", "early"}, Fill(r, n, end) PROVE LoopInv'
  <2>1. /\ rx[r] = "armed" /\ Post(r, SubSeq(kring, 1, n), FALSE, end) /\ kind[r] \in Leasing
        /\ n \in 1..Len(kring) /\ UNCHANGED <<dec, kind, leases, stopped, tick>>
    BY <1>5, Zenon DEF Fill
  <2>2. SubSeq(kring, 1, n) \in Seq(Ids) BY <1>0, <2>1, Split, Zenon DEF RingTypes
  <2>3. end \in Endings \cup {"more"} BY Zenon DEF Endings
  <2> QED BY <1>0, <2>1, <2>2, <2>3, DataLoop, Zenon
<1>6. ASSUME NEW r \in Receivers, NEW end \in Endings \ {"early"}, Terminate(r, end) PROVE LoopInv'
  <2>1. /\ rx[r] = "armed" /\ Post(r, <<>>, FALSE, end) /\ UNCHANGED <<dec, kind, leases, stopped, tick>>
    BY <1>6, Zenon DEF Terminate, ringVars
  <2>2. <<>> \in Seq(Ids) /\ end \in Endings \cup {"more"} /\ end # "more" BY DEF Endings
  <2> QED BY <1>0, <2>1, <2>2, DataLoop, Zenon
<1>7. CASE Dispatch BY <1>0, <1>7, DispatchLoop, Zenon
<1>8. CASE Dispatched BY <1>0, <1>8, DispatchedLoop, Zenon
<1>9. ASSUME NEW keep \in BOOLEAN, NEW halt \in BOOLEAN, Part(keep, halt) PROVE LoopInv'
  BY <1>9, PartLoop, Zenon
<1>10. ASSUME NEW halt \in BOOLEAN, Called(halt) PROVE LoopInv'
  BY <1>0, <1>10, CalledLoop, Zenon
<1>11. ASSUME NEW id \in Ids, Return(id) PROVE LoopInv'
  BY <1>0, <1>11, ReturnLoop, Zenon
<1> QED BY <1>1, <1>2, <1>3, <1>4, <1>5, <1>6, <1>7, <1>8, <1>9, <1>10, <1>11, Zenon DEF Next

\* A step that changes no variable.
LEMMA Stutter ==
  ASSUME ProvidedInv, UNCHANGED vars
  PROVE  ProvidedInv'
<1>1. UNCHANGED <<ringVars, cq, dec, kind, tick, rx, stopped>> BY Zenon DEF vars
<1>2. RingInv' BY <1>1, Unmoved, Zenon DEF ProvidedInv
<1>3. UNCHANGED <<leases, cq, dec, kind, tick, rx, stopped>> BY <1>1, Zenon DEF ringVars
<1>4. LoopTypes' /\ NoStall' BY <1>3, Zenon DEF ProvidedInv, LoopInv, LoopTypes, NoStall
<1>5. Final' BY <1>3, Zenon DEF ProvidedInv, LoopInv, Final
<1>6. Kinds' BY <1>3, Zenon DEF ProvidedInv, LoopInv, Kinds
<1>7. StreamDrained' BY <1>3, Zenon DEF ProvidedInv, LoopInv, StreamDrained
<1>8. TicksExact' BY <1>3, Zenon DEF ProvidedInv, LoopInv, TicksExact, Unhandled
<1> QED BY <1>2, <1>4, <1>5, <1>6, <1>7, <1>8, Zenon DEF ProvidedInv, LoopInv
-----------------------------------------------------------------------------
\* The buffers, next_ and the loops always agree as ProvidedInv says, for any number of
\* buffers and loops: provided::put and take, each() and the loops of uring_multi.hpp keep
\* it, whatever the kernel posts and in whatever order chunks are destroyed.
THEOREM ProvidedInductive == Spec => []ProvidedInv
<1>1. Init => ProvidedInv
  BY RingInit, LoopInit, Zenon DEF ProvidedInv
<1>2. ProvidedInv /\ [Next]_vars => ProvidedInv'
  <2>1. ASSUME ProvidedInv, Next PROVE ProvidedInv'
    BY <2>1, RingNext, LoopNext, Zenon DEF ProvidedInv
  <2> QED BY <2>1, Stutter, Zenon
<1> QED BY <1>1, <1>2, PTL DEF Spec

\* No buffer is lost, published twice or leased twice, leases_ counts the leases, and
\* each() finds through next_ exactly the buffers of the bundle it decodes.
THEOREM BuffersAreConserved == Spec => []BuffersConserved
<1>1. ProvidedInv => BuffersConserved
  BY Conserved, Zenon DEF ProvidedInv
<1> QED BY <1>1, ProvidedInductive, PTL

\* available() makes a loop wait only while every buffer is leased: no return is missed.
THEOREM LoopsDoNotStall == Spec => []NoStall
<1>1. ProvidedInv => NoStall
  BY Zenon DEF ProvidedInv, LoopInv
<1> QED BY <1>1, ProvidedInductive, PTL

\* A loop goes on, or returns and destroys its stream, only when its request has no
\* completion to come and none in the hands of poll().
THEOREM StreamsAreDrained == Spec => []StreamDrained
<1>1. ProvidedInv => StreamDrained
  BY Zenon DEF ProvidedInv, LoopInv
<1> QED BY <1>1, ProvidedInductive, PTL

\* Ticks with a limit: while the kernel has the request, it still owes at least one tick,
\* and what it owes, what is unhandled and what was received add up to the count.
THEOREM TicksAreExact == Spec => []TicksExact
<1>1. ProvidedInv => TicksExact
  BY Zenon DEF ProvidedInv, LoopInv
<1> QED BY <1>1, ProvidedInductive, PTL
=============================================================================
