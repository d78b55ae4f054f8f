--------------------------- MODULE TripDaysProofs ---------------------------
(***************************************************************************)
(* Proofs about TripDays, for any trips, plans to start from and bounds.   *)
(*                                                                         *)
(* Every mutation builds new days and new transport and ends in Commit.    *)
(* So the argument has two halves: what each mutation builds is a timeline *)
(* with transport as it should be (SoundDays), and Commit, which trims the *)
(* days and claims their dates, keeps that and makes the dates the trip's  *)
(* (CommitKeeps).                                                          *)
(*                                                                         *)
(* The second half is about RouteQuery (instance Query), the windows, floors*)
(* and rankings within one place.  Its input needs no invariant but its type.*)
(* Each bound of a window is the greatest or least of finitely many instants*)
(* and some pair of times attains it; every comparator is a strict total   *)
(* order where fares compare, so a finite set has one sorted list (OneOrder).*)
(***************************************************************************)
EXTENDS TripDays, SequenceTheorems, FiniteSetTheorems, TLAPS

Node == [id : Nat, visit : BOOLEAN, actual : BOOLEAN]
Day  == [id : Nat, date : Dates, nodes : Seq(Node)]
Edge == [from : Nat, to : Nat, span : Seq(Nat)]

TypeOK ==
    /\ version \in [Trips -> Nat]
    /\ days \in [Trips -> Seq(Day)]
    /\ edges \in [Trips -> SUBSET Edge]
    /\ range \in [Trips -> {<<>>} \cup (Dates \X Dates)]
    /\ ownership \in [DOMAIN ownership -> Trips] /\ DOMAIN ownership \subseteq Dates
    /\ answer \in {"SUCCESS", "SERVER_ERROR"}

\* Ids identify days and nodes.
DaysDiffer(ds)  == \A i, j \in DOMAIN ds : ds[i].id = ds[j].id => i = j
NodesDiffer(ds) == \A p, q \in Places(ds) : NodeAt(ds, p).id = NodeAt(ds, q).id => p = q
Timeline        == {ds \in Seq(Day) : DaysDiffer(ds) /\ NodesDiffer(ds)}

\* Transport as TransportJoinsNeighbours and OccupiedDaysAreEmpty have it.
Joins(ds, es) ==
    \A e \in es : /\ Neighbours(ds, e.from, e.to)
                  /\ NodeRow(ds, e.from).visit /\ NodeRow(ds, e.to).visit
                  /\ \A f \in es : f.from = e.from => f = e
Fills(ds, es) ==
    /\ \A e \in es : Range(e.span) \subseteq DayIds(ds)
    /\ \A i \in DOMAIN ds : ds[i].id \in OccupiedDays(es) => ds[i].nodes = <<>>
SoundDays(ds, es) == ds \in Timeline /\ es \subseteq Edge /\ Joins(ds, es) /\ Fills(ds, es)

IInv == /\ TypeOK
        /\ \A t \in Trips : SoundDays(days[t], edges[t])
        /\ OwnsItsRange

-----------------------------------------------------------------------------
(* Least and greatest numbers.                                             *)

LEMMA LeastNatural ==
    ASSUME NEW S \in SUBSET Nat, S # {}
    PROVE  \E m \in S : \A n \in S : m <= n
<1>1. PICK m \in S : \A n \in S : ~ (<<n, m>> \in OpToRel(<, Nat))
  BY NatLessThanWellFounded, WFMin
<1>2. \A n \in S : ~ (n < m)
  BY <1>1 DEF OpToRel
<1> QED BY <1>2

LEMMA LeastIs ==
    ASSUME NEW S \in SUBSET Nat, S # {}
    PROVE  SetMin(S) \in S /\ \A n \in S : SetMin(S) <= n
BY LeastNatural DEF SetMin

\* What is bounded has a greatest: the least distance from the bound.
LEMMA GreatestIs ==
    ASSUME NEW S \in SUBSET Nat, S # {}, NEW b \in Nat, \A n \in S : n <= b
    PROVE  SetMax(S) \in S /\ \A n \in S : n <= SetMax(S)
<1> DEFINE D == {b - n : n \in S}
<1>1. D \in SUBSET Nat /\ D # {}
  <2>1. \A n \in S : b - n \in Nat
    OBVIOUS
  <2> QED BY <2>1
<1>2. PICK d \in D : \A e \in D : d <= e
  BY <1>1, LeastNatural
<1>3. PICK m \in S : d = b - m
  BY <1>2
<1>4. \A n \in S : n <= m
  <2> SUFFICES ASSUME NEW n \in S
               PROVE  n <= m
    OBVIOUS
  <2>1. b - n \in D
    OBVIOUS
  <2>2. b - m <= b - n
    BY <1>2, <1>3, <2>1
  <2>3. n \in Nat /\ m \in Nat
    OBVIOUS
  <2> HIDE DEF D
  <2> QED BY <2>2, <2>3
<1>5. \E x \in S : \A y \in S : x >= y
  BY <1>4
<1> QED BY <1>5 DEF SetMax

-----------------------------------------------------------------------------
(* Days and places.                                                        *)

LEMMA DaysAre ==
    ASSUME NEW ds \in Seq(Day)
    PROVE  /\ DOMAIN ds = 1..Len(ds) /\ Len(ds) \in Nat
           /\ \A i \in DOMAIN ds : /\ ds[i] \in Day /\ ds[i].id \in Nat /\ ds[i].date \in Dates
                                   /\ ds[i].nodes \in Seq(Node) /\ i \in Nat
                                   /\ DOMAIN ds[i].nodes = 1..Len(ds[i].nodes)
                                   /\ Len(ds[i].nodes) \in Nat
           /\ \A i \in DOMAIN ds : \A k \in DOMAIN ds[i].nodes : ds[i].nodes[k] \in Node
<1>1. DOMAIN ds = 1..Len(ds) /\ Len(ds) \in Nat /\ \A i \in DOMAIN ds : i \in Nat /\ ds[i] \in Day
  OBVIOUS
<1>2. \A d \in Day : d.id \in Nat /\ d.date \in Dates /\ d.nodes \in Seq(Node)
  BY DEF Day
<1>3. \A s \in Seq(Node) : /\ DOMAIN s = 1..Len(s) /\ Len(s) \in Nat
                           /\ \A k \in DOMAIN s : s[k] \in Node
  OBVIOUS
<1> QED BY <1>1, <1>2, <1>3

LEMMA PlacesAre ==
    ASSUME NEW ds \in Seq(Day)
    PROVE  /\ \A p \in Places(ds) : /\ p = <<p[1], p[2]>> /\ p[1] \in DOMAIN ds
                                    /\ p[2] \in DOMAIN ds[p[1]].nodes
                                    /\ p[1] \in Nat /\ p[2] \in Nat
                                    /\ NodeAt(ds, p) \in Node
                                    /\ NodeAt(ds, p) \in NodesOf(ds)
                                    /\ NodeAt(ds, p).id \in NodeIds(ds)
           /\ \A i \in DOMAIN ds : \A k \in DOMAIN ds[i].nodes :
                 <<i, k>> \in Places(ds) /\ NodeAt(ds, <<i, k>>) = ds[i].nodes[k]
           /\ \A n \in NodesOf(ds) : \E p \in Places(ds) : n = NodeAt(ds, p)
           /\ \A n \in NodeIds(ds) : \E p \in Places(ds) : n = NodeAt(ds, p).id
           /\ NodesOf(ds) \subseteq Node /\ NodeIds(ds) \subseteq Nat
<1>1. ASSUME NEW p \in Places(ds)
      PROVE  /\ p = <<p[1], p[2]>> /\ p[1] \in DOMAIN ds
             /\ p[2] \in DOMAIN ds[p[1]].nodes
             /\ p[1] \in Nat /\ p[2] \in Nat
             /\ NodeAt(ds, p) \in Node
             /\ NodeAt(ds, p) \in NodesOf(ds)
             /\ NodeAt(ds, p).id \in NodeIds(ds)
  <2>1. PICK i \in DOMAIN ds : p \in {i} \X DOMAIN ds[i].nodes
    BY DEF Places
  <2>2. p = <<p[1], p[2]>> /\ p[1] = i /\ p[2] \in DOMAIN ds[i].nodes
    BY <2>1
  <2>3. p[1] \in Nat /\ p[2] \in Nat /\ NodeAt(ds, p) \in Node
    BY <2>2, DaysAre DEF NodeAt
  <2>4. NodeAt(ds, p) \in Range(ds[i].nodes)
    BY <2>2 DEF NodeAt, Range
  <2>5. NodeAt(ds, p) \in NodesOf(ds)
    BY <2>4 DEF NodesOf
  <2> QED BY <2>2, <2>3, <2>5 DEF NodeIds
<1>2. ASSUME NEW i \in DOMAIN ds, NEW k \in DOMAIN ds[i].nodes
      PROVE  <<i, k>> \in Places(ds) /\ NodeAt(ds, <<i, k>>) = ds[i].nodes[k]
  BY DEF Places, NodeAt
<1>3. ASSUME NEW n \in NodesOf(ds)
      PROVE  \E p \in Places(ds) : n = NodeAt(ds, p)
  <2>1. PICK i \in DOMAIN ds : n \in Range(ds[i].nodes)
    BY DEF NodesOf
  <2>2. PICK k \in DOMAIN ds[i].nodes : n = ds[i].nodes[k]
    BY <2>1 DEF Range
  <2> QED BY <1>2, <2>2
<1>4. \A n \in NodeIds(ds) : \E p \in Places(ds) : n = NodeAt(ds, p).id
  BY <1>3 DEF NodeIds
<1>5. \A n \in Node : n.id \in Nat
  BY DEF Node
<1>6. NodesOf(ds) \subseteq Node
  BY <1>1, <1>3
<1>7. NodeIds(ds) \subseteq Nat
  BY <1>5, <1>6 DEF NodeIds
<1> QED BY <1>1, <1>2, <1>3, <1>4, <1>6, <1>7

LEMMA DayIndexIs ==
    ASSUME NEW ds \in Timeline
    PROVE  /\ \A d \in DayIds(ds) : DayIndex(ds, d) \in DOMAIN ds /\ ds[DayIndex(ds, d)].id = d
           /\ \A i \in DOMAIN ds : ds[i].id \in DayIds(ds) /\ DayIndex(ds, ds[i].id) = i
<1>1. \A d \in DayIds(ds) : DayIndex(ds, d) \in DOMAIN ds /\ ds[DayIndex(ds, d)].id = d
  BY DEF DayIds, DayIndex
<1>2. \A i \in DOMAIN ds : ds[i].id \in DayIds(ds)
  BY DEF DayIds
<1> QED BY <1>1, <1>2 DEF Timeline, DaysDiffer

\* A node has one place.
LEMMA PlaceIs ==
    ASSUME NEW ds \in Timeline
    PROVE  /\ \A n \in NodeIds(ds) : Place(ds, n) \in Places(ds) /\ NodeAt(ds, Place(ds, n)).id = n
           /\ \A p \in Places(ds) : Place(ds, NodeAt(ds, p).id) = p
           /\ \A r \in NodesOf(ds) : r.id \in NodeIds(ds) /\ NodeRow(ds, r.id) = r
           /\ \A n \in NodeIds(ds) : NodeRow(ds, n) \in NodesOf(ds) /\ NodeRow(ds, n).id = n
<1> ds \in Seq(Day) /\ NodesDiffer(ds)
  BY DEF Timeline
<1>1. \A n \in NodeIds(ds) : Place(ds, n) \in Places(ds) /\ NodeAt(ds, Place(ds, n)).id = n
  BY PlacesAre DEF Place
<1>2. ASSUME NEW p \in Places(ds)
      PROVE  Place(ds, NodeAt(ds, p).id) = p
  <2>1. NodeAt(ds, p).id \in NodeIds(ds)
    BY PlacesAre
  <2>2. PICK q : q = Place(ds, NodeAt(ds, p).id)
    OBVIOUS
  <2>3. q \in Places(ds) /\ NodeAt(ds, q).id = NodeAt(ds, p).id
    BY <1>1, <2>1, <2>2
  <2> QED BY <2>2, <2>3 DEF NodesDiffer
<1>3. \A r \in NodesOf(ds) : r.id \in NodeIds(ds) /\ NodeRow(ds, r.id) = r
  BY <1>2, PlacesAre DEF NodeRow
<1>4. \A n \in NodeIds(ds) : NodeRow(ds, n) \in NodesOf(ds) /\ NodeRow(ds, n).id = n
  BY <1>1, PlacesAre DEF NodeRow
<1> QED BY <1>1, <1>2, <1>3, <1>4

\* Two nodes follow each other one way or the other, so a node has one successor.
LEMMA OneFollows ==
    ASSUME NEW ds \in Timeline, NEW m, NEW n, NEW k, Neighbours(ds, m, n), Neighbours(ds, m, k)
    PROVE  n = k
<1>1. ds \in Seq(Day) /\ {m, n, k} \subseteq NodeIds(ds)
  BY DEF Neighbours, Timeline
<1> DEFINE a == Place(ds, n)
           b == Place(ds, k)
<1>2. /\ a = <<a[1], a[2]>> /\ a[1] \in Nat /\ a[2] \in Nat
      /\ b = <<b[1], b[2]>> /\ b[1] \in Nat /\ b[2] \in Nat
  BY <1>1, PlacesAre, PlaceIs
<1>3. NodeAt(ds, a).id = n /\ NodeAt(ds, b).id = k
  BY <1>1, PlaceIs
<1>4. ~Before(ds, n, k) /\ ~Before(ds, k, n)
  BY <1>1 DEF Neighbours
<1> HIDE DEF a, b
<1>5. a[1] = b[1] /\ a[2] = b[2]
  <2>1. ~(a[1] < b[1] \/ (a[1] = b[1] /\ a[2] < b[2])) /\ ~(b[1] < a[1] \/ (b[1] = a[1] /\ b[2] < a[2]))
    BY <1>4 DEF Before, a, b
  <2> QED BY <1>2, <2>1
<1>6. a = b
  BY <1>2, <1>5
<1> QED BY <1>3, <1>6

-----------------------------------------------------------------------------
(* A node put on a day and taken off one.                                  *)

\* r is s with e put at place k.
Inserted(r, s, k, e) ==
    /\ r \in Seq(Node) /\ Len(r) = Len(s) + 1
    /\ \A i \in 1..(Len(s) + 1) : r[i] = IF i < k THEN s[i] ELSE IF i = k THEN e ELSE s[i - 1]
    /\ Range(r) = Range(s) \cup {e}

LEMMA InsertAtIs ==
    ASSUME NEW s \in Seq(Node), NEW e \in Node, NEW k \in 1..(Len(s) + 1),
           NEW r, r = InsertAt(s, k, e)
    PROVE  Inserted(r, s, k, e)
<1> DEFINE front == SubSeq(s, 1, k - 1)
           back == SubSeq(s, k, Len(s))
<1>1. Len(s) \in Nat /\ k \in Nat /\ k >= 1 /\ k <= Len(s) + 1 /\ DOMAIN s = 1..Len(s)
  OBVIOUS
<1>2. front \in Seq(Node) /\ Len(front) = k - 1 /\ \A i \in 1..(k - 1) : front[i] = s[i]
  BY <1>1
<1>3. back \in Seq(Node) /\ Len(back) = Len(s) + 1 - k /\ \A i \in 1..(Len(s) + 1 - k) : back[i] = s[k + i - 1]
  BY <1>1
<1> DEFINE upTo == front \o <<e>>
<1>4. r = upTo \o back
  BY DEF InsertAt
<1>8. <<e>> \in Seq(Node) /\ Len(<<e>>) = 1 /\ <<e>>[1] = e
  OBVIOUS
<1> HIDE DEF front, back
<1>9. /\ upTo \in Seq(Node) /\ Len(upTo) = k
      /\ \A i \in 1..k : upTo[i] = IF i < k THEN s[i] ELSE e
  <2>1. /\ upTo \in Seq(Node) /\ Len(upTo) = (k - 1) + 1
        /\ \A i \in 1..((k - 1) + 1) : upTo[i] = IF i <= k - 1 THEN front[i] ELSE <<e>>[i - (k - 1)]
    BY <1>1, <1>2, <1>8, ConcatProperties
  <2> HIDE DEF upTo
  <2>2. ASSUME NEW i \in 1..k
        PROVE  upTo[i] = IF i < k THEN s[i] ELSE e
    <3>1. CASE i < k
      <4>1. i \in 1..(k - 1) /\ i \in 1..((k - 1) + 1) /\ i <= k - 1
        BY <1>1, <3>1
      <4>2. upTo[i] = front[i]
        BY <2>1, <4>1
      <4>3. front[i] = s[i]
        BY <1>2, <4>1
      <4> QED BY <3>1, <4>2, <4>3
    <3>2. CASE i >= k
      <4>1. i = k /\ i - (k - 1) = 1 /\ ~(i <= k - 1)
        BY <1>1, <3>2
      <4>2. i \in 1..((k - 1) + 1)
        BY <1>1
      <4>3. upTo[i] = <<e>>[i - (k - 1)]
        BY <2>1, <4>1, <4>2
      <4>4. upTo[i] = e
        BY <1>8, <4>1, <4>3
      <4> QED BY <4>1, <4>4
    <3> QED BY <1>1, <3>1, <3>2
  <2> QED BY <1>1, <2>1, <2>2
<1> HIDE DEF upTo
<1>11. /\ r \in Seq(Node) /\ Len(r) = Len(upTo) + Len(back)
       /\ \A i \in 1..(Len(upTo) + Len(back)) :
             r[i] = IF i <= Len(upTo) THEN upTo[i] ELSE back[i - Len(upTo)]
  <2>1. upTo \in Seq(Node) /\ back \in Seq(Node)
    BY <1>3, <1>9
  <2> QED BY <2>1, <1>4, ConcatProperties
<1>12. Len(upTo) = k /\ Len(upTo) + Len(back) = Len(s) + 1
  BY <1>1, <1>3, <1>9
<1>10. /\ r \in Seq(Node) /\ Len(r) = Len(s) + 1
       /\ \A i \in 1..(Len(s) + 1) : r[i] = IF i <= k THEN upTo[i] ELSE back[i - k]
  BY <1>11, <1>12
<1>5. r \in Seq(Node) /\ Len(r) = Len(s) + 1
  BY <1>1, <1>10
<1>6. ASSUME NEW i \in 1..(Len(s) + 1)
      PROVE  r[i] = IF i < k THEN s[i] ELSE IF i = k THEN e ELSE s[i - 1]
  <2>1. CASE i <= k
    BY <1>1, <1>9, <1>10, <2>1
  <2>2. CASE i > k
    <3>1. i - k \in 1..(Len(s) + 1 - k) /\ k + (i - k) - 1 = i - 1
      BY <1>1, <2>2
    <3>2. r[i] = back[i - k] /\ back[i - k] = s[k + (i - k) - 1]
      BY <1>1, <1>3, <1>10, <2>2, <3>1
    <3> QED BY <1>1, <2>2, <3>1, <3>2
  <2> QED BY <1>1, <2>1, <2>2
<1>7. Range(r) = Range(s) \cup {e}
  <2>1. DOMAIN r = 1..(Len(s) + 1)
    BY <1>5
  <2>2. ASSUME NEW x \in Range(r)
        PROVE  x \in Range(s) \cup {e}
    <3>1. PICK i \in 1..(Len(s) + 1) : x = r[i]
      BY <2>1 DEF Range
    <3>2. i < k => i \in DOMAIN s
      BY <1>1
    <3>3. i > k => i - 1 \in DOMAIN s
      BY <1>1
    <3> QED BY <1>1, <1>6, <3>1, <3>2, <3>3 DEF Range
  <2>3. ASSUME NEW x \in Range(s)
        PROVE  x \in Range(r)
    <3>1. PICK i \in DOMAIN s : x = s[i]
      BY DEF Range
    <3>2. CASE i < k
      <4>1. i \in DOMAIN r /\ r[i] = x
        BY <1>1, <1>6, <2>1, <3>1, <3>2
      <4> QED BY <4>1 DEF Range
    <3>3. CASE i >= k
      <4>1. i + 1 \in DOMAIN r /\ r[i + 1] = x
        BY <1>1, <1>6, <2>1, <3>1, <3>3
      <4> QED BY <4>1 DEF Range
    <3> QED BY <1>1, <3>2, <3>3
  <2>4. e \in Range(r)
    <3>1. k \in DOMAIN r /\ r[k] = e
      BY <1>1, <1>6, <2>1
    <3> QED BY <3>1 DEF Range
  <2> QED BY <2>2, <2>3, <2>4
<1> QED BY <1>5, <1>6, <1>7 DEF Inserted

LEMMA RemoveAtIs ==
    ASSUME NEW S, NEW s \in Seq(S), NEW k \in 1..Len(s)
    PROVE  /\ RemoveAt(s, k) \in Seq(S) /\ Len(RemoveAt(s, k)) = Len(s) - 1
           /\ \A i \in 1..(Len(s) - 1) : RemoveAt(s, k)[i] = IF i < k THEN s[i] ELSE s[i + 1]
<1> DEFINE front == SubSeq(s, 1, k - 1)
           back == SubSeq(s, k + 1, Len(s))
           r == RemoveAt(s, k)
<1>1. Len(s) \in Nat /\ k \in Nat /\ k >= 1 /\ k <= Len(s) /\ DOMAIN s = 1..Len(s)
  OBVIOUS
<1>2. front \in Seq(S) /\ Len(front) = k - 1 /\ \A i \in 1..(k - 1) : front[i] = s[i]
  BY <1>1
<1>3. back \in Seq(S) /\ Len(back) = Len(s) - k /\ \A i \in 1..(Len(s) - k) : back[i] = s[k + i]
  <2>1. \A i \in (k + 1)..Len(s) : s[i] \in S
    BY <1>1
  <2>2. PICK m : m = k + 1
    OBVIOUS
  <2>3. back = SubSeq(s, m, Len(s)) /\ m \in Int /\ Len(s) \in Int
    BY <1>1, <2>2
  <2>4. /\ back \in Seq(S) /\ Len(back) = IF m <= Len(s) THEN Len(s) - m + 1 ELSE 0
        /\ \A i \in 1..(Len(s) - m + 1) : back[i] = s[m + i - 1]
    BY <2>1, <2>2, <2>3, SubSeqProperties
  <2> HIDE DEF back
  <2>5. Len(s) - m + 1 = Len(s) - k /\ \A i \in Nat : m + i - 1 = k + i
    BY <1>1, <2>2
  <2>6. Len(back) = Len(s) - k
    <3>1. \A a, b \in Nat : a <= b =>
             (IF a + 1 <= b THEN b - (a + 1) + 1 ELSE 0) = b - a
      OBVIOUS
    <3> QED BY <1>1, <2>2, <2>4, <3>1
  <2>7. \A i \in 1..(Len(s) - k) : back[i] = s[m + i - 1] /\ m + i - 1 = k + i
    BY <1>1, <2>4, <2>5
  <2> QED BY <2>4, <2>6, <2>7
<1>4. r = front \o back
  BY DEF RemoveAt
<1> HIDE DEF front, back, r
<1>8. /\ r \in Seq(S) /\ Len(r) = Len(front) + Len(back)
      /\ \A i \in 1..(Len(front) + Len(back)) :
             r[i] = IF i <= Len(front) THEN front[i] ELSE back[i - Len(front)]
  BY <1>2, <1>3, <1>4, ConcatProperties
<1>9. Len(front) = k - 1 /\ Len(front) + Len(back) = Len(s) - 1
  BY <1>1, <1>2, <1>3
<1>7. /\ r \in Seq(S) /\ Len(r) = Len(s) - 1
      /\ \A i \in 1..(Len(s) - 1) : r[i] = IF i <= k - 1 THEN front[i] ELSE back[i - (k - 1)]
  BY <1>8, <1>9
<1>5. r \in Seq(S) /\ Len(r) = Len(s) - 1
  BY <1>1, <1>7
<1>6. ASSUME NEW i \in 1..(Len(s) - 1)
      PROVE  r[i] = IF i < k THEN s[i] ELSE s[i + 1]
  <2>1. CASE i < k
    BY <1>1, <1>2, <1>7, <2>1
  <2>2. CASE i >= k
    <3>1. i - (k - 1) \in 1..(Len(s) - k) /\ k + (i - (k - 1)) = i + 1
      BY <1>1, <2>2
    <3>2. r[i] = back[i - (k - 1)] /\ back[i - (k - 1)] = s[k + (i - (k - 1))]
      BY <1>1, <1>3, <1>7, <2>2, <3>1
    <3> QED BY <1>1, <2>2, <3>1, <3>2
  <2> QED BY <1>1, <2>1, <2>2
<1> QED BY <1>5, <1>6 DEF r

\* What changes about the days when one of them gets other nodes.
Redone(ds, x, ns) == [ds EXCEPT ![x].nodes = ns]

LEMMA RedoneIs ==
    ASSUME NEW ds \in Seq(Day), DaysDiffer(ds), NEW x \in DOMAIN ds, NEW ns \in Seq(Node)
    PROVE  LET r == Redone(ds, x, ns)
           IN  /\ r \in Seq(Day) /\ DaysDiffer(r) /\ DOMAIN r = DOMAIN ds /\ Len(r) = Len(ds)
               /\ DayIds(r) = DayIds(ds)
               /\ \A i \in DOMAIN ds : /\ r[i].id = ds[i].id /\ r[i].date = ds[i].date
                                       /\ r[i].nodes = IF i = x THEN ns ELSE ds[i].nodes
<1> DEFINE r == Redone(ds, x, ns)
<1>1. DOMAIN r = DOMAIN ds /\ \A i \in DOMAIN ds : r[i] = IF i = x THEN [ds[i] EXCEPT !.nodes = ns] ELSE ds[i]
  BY DEF Redone
<1>2. \A i \in DOMAIN ds : ds[i] \in Day
  OBVIOUS
<1> HIDE DEF r
<1>3. \A i \in DOMAIN ds : /\ r[i] \in Day /\ r[i].id = ds[i].id /\ r[i].date = ds[i].date
                           /\ r[i].nodes = IF i = x THEN ns ELSE ds[i].nodes
  BY <1>1, <1>2 DEF Day
<1>4. r \in Seq(Day) /\ Len(r) = Len(ds)
  <2> DEFINE d == [ds[x] EXCEPT !.nodes = ns]
  <2>1. d \in Day /\ x \in 1..Len(ds)
    <3>1. ds[x] \in Day
      BY <1>2
    <3>2. d \in Day
      BY <3>1 DEF Day
    <3> QED BY <3>2, DaysAre
  <2>2. r = [ds EXCEPT ![x] = d]
    BY DEF r, Redone
  <2> HIDE DEF d
  <2> QED BY <2>1, <2>2, ExceptSeq
<1>5. DaysDiffer(r) /\ DayIds(r) = DayIds(ds)
  BY <1>1, <1>3 DEF DaysDiffer, DayIds
<1> QED BY <1>1, <1>3, <1>4, <1>5 DEF r

\* The days after a node was put on day d.
PutDay(r, ds, d, n, i) ==
    /\ r[i].id = ds[i].id /\ r[i].date = ds[i].date
    /\ ds[i].id # d => r[i].nodes = ds[i].nodes
    /\ Range(r[i].nodes) = Range(ds[i].nodes) \cup (IF ds[i].id = d THEN {n} ELSE {})

LEMMA PutIs ==
    ASSUME NEW ds \in Timeline, NEW d \in DayIds(ds), NEW n \in Node, n.id \notin NodeIds(ds),
           NEW k \in 1..(Len(ds[DayIndex(ds, d)].nodes) + 1)
    PROVE  LET r == PutNode(ds, d, k, n)
           IN  /\ r \in Timeline /\ DOMAIN r = DOMAIN ds /\ DayIds(r) = DayIds(ds)
               /\ \A i \in DOMAIN ds : PutDay(r, ds, d, n, i)
               /\ NodesOf(r) = NodesOf(ds) \cup {n}
<1> DEFINE x == DayIndex(ds, d)
           s == ds[x].nodes
           ns == InsertAt(s, k, n)
           r == PutNode(ds, d, k, n)
<1>1. /\ ds \in Seq(Day) /\ DaysDiffer(ds) /\ NodesDiffer(ds) /\ x \in DOMAIN ds /\ ds[x].id = d
      /\ s \in Seq(Node) /\ DOMAIN s = 1..Len(s) /\ Len(s) \in Nat /\ x \in Nat /\ k \in Nat
      /\ k \in 1..(Len(s) + 1)
  BY DayIndexIs, DaysAre DEF Timeline
<1>2. r = Redone(ds, x, ns)
  BY DEF PutNode, Redone
<1>3. /\ ns \in Seq(Node) /\ Len(ns) = Len(s) + 1 /\ DOMAIN ns = 1..(Len(s) + 1)
      /\ \A i \in 1..(Len(s) + 1) : ns[i] = IF i < k THEN s[i] ELSE IF i = k THEN n ELSE s[i - 1]
      /\ Range(ns) = Range(s) \cup {n}
  <2>1. s \in Seq(Node) /\ n \in Node /\ k \in 1..(Len(s) + 1) /\ Len(s) \in Nat
    BY <1>1
  <2>2. PICK u : u = ns
    OBVIOUS
  <2>3. PICK v : v = s
    OBVIOUS
  <2>4. Inserted(u, v, k, n)
    <3>1. v \in Seq(Node) /\ n \in Node /\ k \in 1..(Len(v) + 1) /\ u = InsertAt(v, k, n)
      BY <2>1, <2>2, <2>3
    <3> HIDE DEF s, ns
    <3> QED BY <3>1, InsertAtIs
  <2>5. DOMAIN u = 1..(Len(v) + 1)
    BY <2>4, LenProperties DEF Inserted
  <2> HIDE DEF s, ns
  <2> QED BY <2>2, <2>3, <2>4, <2>5 DEF Inserted
<1> HIDE DEF r, ns, x, s
<1>4. /\ r \in Seq(Day) /\ DaysDiffer(r) /\ DOMAIN r = DOMAIN ds /\ DayIds(r) = DayIds(ds)
      /\ \A i \in DOMAIN ds : /\ r[i].id = ds[i].id /\ r[i].date = ds[i].date
                              /\ r[i].nodes = IF i = x THEN ns ELSE ds[i].nodes
  <2>1. ds \in Seq(Day) /\ DaysDiffer(ds) /\ x \in DOMAIN ds /\ ns \in Seq(Node)
    BY <1>1, <1>3
  <2> DEFINE other == Redone(ds, x, ns)
  <2>2. /\ other \in Seq(Day) /\ DaysDiffer(other) /\ DOMAIN other = DOMAIN ds
        /\ DayIds(other) = DayIds(ds)
        /\ \A i \in DOMAIN ds : /\ other[i].id = ds[i].id /\ other[i].date = ds[i].date
                                /\ other[i].nodes = IF i = x THEN ns ELSE ds[i].nodes
    BY <2>1, RedoneIs
  <2>3. r = other
    BY <1>2
  <2> HIDE DEF other
  <2> QED BY <2>2, <2>3
<1>5. \A i \in DOMAIN ds : ds[i].id = d <=> i = x
  BY <1>1 DEF DaysDiffer
<1>6. \A i \in DOMAIN ds :
         /\ ds[i].id # d => r[i].nodes = ds[i].nodes
         /\ Range(r[i].nodes) = Range(ds[i].nodes) \cup (IF ds[i].id = d THEN {n} ELSE {})
  BY <1>3, <1>4, <1>5 DEF s
<1>7. NodesOf(r) = NodesOf(ds) \cup {n}
  <2>1. \A i \in DOMAIN ds : Range(r[i].nodes) \subseteq NodesOf(ds) \cup {n}
    BY <1>6 DEF NodesOf
  <2>2. \A i \in DOMAIN ds : Range(ds[i].nodes) \subseteq NodesOf(r)
    BY <1>4, <1>6 DEF NodesOf
  <2>3. n \in NodesOf(r)
    BY <1>1, <1>4, <1>6 DEF NodesOf
  <2>4. NodesOf(r) \subseteq NodesOf(ds) \cup {n}
    BY <1>4, <2>1 DEF NodesOf
  <2>5. NodesOf(ds) \subseteq NodesOf(r)
    BY <2>2 DEF NodesOf
  <2> QED BY <2>3, <2>4, <2>5
<1> DEFINE new == <<x, k>>
           Back(p) == <<p[1], IF p[1] = x /\ p[2] > k THEN p[2] - 1 ELSE p[2]>>
<1>8. ASSUME NEW p \in Places(r), p # new
      PROVE  Back(p) \in Places(ds) /\ NodeAt(r, p) = NodeAt(ds, Back(p))
  <2>1. p = <<p[1], p[2]>> /\ p[1] \in DOMAIN ds /\ p[2] \in DOMAIN r[p[1]].nodes /\ p[2] \in Nat
    BY <1>4, PlacesAre
  <2>2. CASE p[1] # x
    <3>1. Back(p) = p /\ p[2] \in DOMAIN ds[p[1]].nodes /\ r[p[1]].nodes[p[2]] = ds[p[1]].nodes[p[2]]
      BY <1>4, <2>1, <2>2
    <3>2. p \in Places(ds)
      <4>1. <<p[1], p[2]>> \in Places(ds)
        BY <1>1, <2>1, <3>1, PlacesAre
      <4> QED BY <2>1, <4>1
    <3> QED BY <3>1, <3>2 DEF NodeAt
  <2>3. CASE p[1] = x
    <3>1. p[2] \in 1..(Len(s) + 1) /\ NodeAt(r, p) = ns[p[2]] /\ p[2] # k
      <4>1. r[p[1]].nodes = ns
        BY <1>1, <1>4, <2>3
      <4>2. p[2] # k
        BY <1>8, <2>1, <2>3
      <4> QED BY <1>3, <2>1, <4>1, <4>2 DEF NodeAt
    <3>2. PICK j : j = IF p[2] > k THEN p[2] - 1 ELSE p[2]
      OBVIOUS
    <3>3. j \in DOMAIN s /\ ns[p[2]] = s[j] /\ Back(p) = <<x, j>>
      <4> QED BY <1>1, <1>3, <2>1, <2>3, <3>1, <3>2
    <3> QED BY <1>1, <3>1, <3>3, PlacesAre DEF s
  <2> QED BY <2>2, <2>3
<1>9. \A p \in Places(r) : p = new => NodeAt(r, p) = n
  BY <1>1, <1>3, <1>4 DEF NodeAt
<1>10. NodesDiffer(r)
  <2> SUFFICES ASSUME NEW p \in Places(r), NEW q \in Places(r), NodeAt(r, p).id = NodeAt(r, q).id
               PROVE  p = q
    BY DEF NodesDiffer
  <2>1. /\ p = <<p[1], p[2]>> /\ p[1] \in Nat /\ p[2] \in Nat
        /\ q = <<q[1], q[2]>> /\ q[1] \in Nat /\ q[2] \in Nat
    BY <1>4, PlacesAre
  <2>2. ~(p = new /\ q # new) /\ ~(p # new /\ q = new)
    <3>1. \A y \in Places(r) : y # new => NodeAt(r, y).id \in NodeIds(ds)
      BY <1>1, <1>8, PlacesAre
    <3> QED BY <1>9, <3>1
  <2>3. CASE p # new /\ q # new
    <3>1. Back(p) = Back(q)
      BY <1>1, <1>8, <2>3 DEF NodesDiffer
    <3>2. p[1] = q[1] /\ p[2] = q[2]
      <4>1. /\ p[1] = q[1]
            /\ (IF p[1] = x /\ p[2] > k THEN p[2] - 1 ELSE p[2])
                  = (IF q[1] = x /\ q[2] > k THEN q[2] - 1 ELSE q[2])
        BY <3>1
      <4>2. ~(p[1] = x /\ p[2] = k) /\ ~(q[1] = x /\ q[2] = k)
        BY <2>1, <2>3
      <4> QED BY <1>1, <2>1, <4>1, <4>2
    <3> QED BY <2>1, <3>2
  <2> QED BY <2>2, <2>3
<1>11. \A i \in DOMAIN ds : PutDay(r, ds, d, n, i)
  BY <1>4, <1>6, <1>7, <1>10 DEF PutDay
<1> QED BY <1>4, <1>6, <1>7, <1>10, <1>11 DEF r, Timeline

\* The days after a node was taken off its day.
TakenDay(r, ds, n, i) ==
    /\ r[i].id = ds[i].id /\ r[i].date = ds[i].date
    /\ ds[i].nodes = <<>> => r[i].nodes = <<>>
    /\ Len(r[i].nodes) = Len(ds[i].nodes) - (IF i = Place(ds, n)[1] THEN 1 ELSE 0)
    /\ Range(r[i].nodes) = Range(ds[i].nodes) \ {NodeRow(ds, n)}

LEMMA TakeIs ==
    ASSUME NEW ds \in Timeline, NEW n \in NodeIds(ds)
    PROVE  LET r == TakeNode(ds, n)
           IN  /\ r \in Timeline /\ DOMAIN r = DOMAIN ds /\ DayIds(r) = DayIds(ds)
               /\ \A i \in DOMAIN ds : TakenDay(r, ds, n, i)
               /\ NodesOf(r) = NodesOf(ds) \ {NodeRow(ds, n)}
<1> DEFINE x == Place(ds, n)[1]
           k == Place(ds, n)[2]
           row == NodeRow(ds, n)
           s == ds[x].nodes
           ns == RemoveAt(s, k)
           r == TakeNode(ds, n)
<1>1. /\ ds \in Seq(Day) /\ DaysDiffer(ds) /\ NodesDiffer(ds) /\ x \in DOMAIN ds
      /\ s \in Seq(Node) /\ DOMAIN s = 1..Len(s) /\ Len(s) \in Nat /\ x \in Nat /\ k \in Nat
      /\ k \in 1..Len(s) /\ s[k] = row /\ <<x, k>> \in Places(ds)
  <2>1. ds \in Seq(Day) /\ DaysDiffer(ds) /\ NodesDiffer(ds) /\ Place(ds, n) \in Places(ds)
    BY PlaceIs DEF Timeline
  <2>2. Place(ds, n) = <<x, k>> /\ x \in DOMAIN ds /\ k \in DOMAIN s /\ x \in Nat /\ k \in Nat
    BY <2>1, PlacesAre
  <2>3. s \in Seq(Node) /\ DOMAIN s = 1..Len(s) /\ Len(s) \in Nat
    BY <2>1, <2>2, DaysAre
  <2>4. s[k] = row
    BY DEF NodeRow, NodeAt
  <2> HIDE DEF x, k, s, row
  <2> QED BY <2>1, <2>2, <2>3, <2>4
<1>2. r = Redone(ds, x, ns)
  BY DEF TakeNode, Redone
<1>3. /\ ns \in Seq(Node) /\ Len(ns) = Len(s) - 1 /\ DOMAIN ns = 1..(Len(s) - 1)
      /\ \A i \in 1..(Len(s) - 1) : ns[i] = IF i < k THEN s[i] ELSE s[i + 1]
  <2> HIDE DEF s, k, ns
  <2>1. PICK out : out = RemoveAt(s, k)
    OBVIOUS
  <2>2. /\ out \in Seq(Node) /\ Len(out) = Len(s) - 1
        /\ \A i \in 1..(Len(s) - 1) : out[i] = IF i < k THEN s[i] ELSE s[i + 1]
    BY <1>1, <2>1, RemoveAtIs
  <2>3. ns = out
    BY <2>1 DEF ns
  <2>4. DOMAIN out = 1..Len(out)
    BY <2>2
  <2> QED BY <2>2, <2>3, <2>4
<1> HIDE DEF r, ns, x, k, s, row
<1>4. /\ r \in Seq(Day) /\ DaysDiffer(r) /\ DOMAIN r = DOMAIN ds /\ DayIds(r) = DayIds(ds)
      /\ \A i \in DOMAIN ds : /\ r[i].id = ds[i].id /\ r[i].date = ds[i].date
                              /\ r[i].nodes = IF i = x THEN ns ELSE ds[i].nodes
  <2>1. ds \in Seq(Day) /\ DaysDiffer(ds) /\ x \in DOMAIN ds /\ ns \in Seq(Node)
    BY <1>1, <1>3
  <2> DEFINE other == Redone(ds, x, ns)
  <2>2. /\ other \in Seq(Day) /\ DaysDiffer(other) /\ DOMAIN other = DOMAIN ds
        /\ DayIds(other) = DayIds(ds)
        /\ \A i \in DOMAIN ds : /\ other[i].id = ds[i].id /\ other[i].date = ds[i].date
                                /\ other[i].nodes = IF i = x THEN ns ELSE ds[i].nodes
    BY <2>1, RedoneIs
  <2>3. r = other
    BY <1>2
  <2> HIDE DEF other
  <2> QED BY <2>2, <2>3
<1> DEFINE Back(p) == <<p[1], IF p[1] = x /\ p[2] >= k THEN p[2] + 1 ELSE p[2]>>
<1>5. ASSUME NEW p \in Places(r)
      PROVE  Back(p) \in Places(ds) /\ Back(p) # <<x, k>> /\ NodeAt(r, p) = NodeAt(ds, Back(p))
  <2>1. p = <<p[1], p[2]>> /\ p[1] \in DOMAIN ds /\ p[2] \in DOMAIN r[p[1]].nodes /\ p[2] \in Nat
    BY <1>4, PlacesAre
  <2>2. CASE p[1] # x
    <3>1. Back(p) = p /\ p[2] \in DOMAIN ds[p[1]].nodes /\ r[p[1]].nodes[p[2]] = ds[p[1]].nodes[p[2]]
      BY <1>4, <2>1, <2>2
    <3>2. p \in Places(ds)
      <4>1. <<p[1], p[2]>> \in Places(ds)
        BY <1>1, <2>1, <3>1, PlacesAre
      <4> QED BY <2>1, <4>1
    <3> QED BY <2>2, <3>1, <3>2 DEF NodeAt
  <2>3. CASE p[1] = x
    <3>1. p[2] \in 1..(Len(s) - 1) /\ NodeAt(r, p) = ns[p[2]]
      BY <1>3, <1>4, <2>1, <2>3 DEF NodeAt
    <3>2. PICK j : j = IF p[2] >= k THEN p[2] + 1 ELSE p[2]
      OBVIOUS
    <3>3. j \in DOMAIN s /\ ns[p[2]] = s[j] /\ Back(p) = <<x, j>> /\ j # k
      BY <1>1, <1>3, <2>1, <2>3, <3>1, <3>2
    <3>4. <<x, j>> \in Places(ds) /\ NodeAt(ds, <<x, j>>) = s[j]
      BY <1>1, <3>3, PlacesAre DEF s
    <3> QED BY <3>1, <3>3, <3>4
  <2> QED BY <2>2, <2>3
<1>6. NodesDiffer(r)
  <2> SUFFICES ASSUME NEW p \in Places(r), NEW q \in Places(r), NodeAt(r, p).id = NodeAt(r, q).id
               PROVE  p = q
    BY DEF NodesDiffer
  <2>1. /\ p = <<p[1], p[2]>> /\ p[1] \in Nat /\ p[2] \in Nat
        /\ q = <<q[1], q[2]>> /\ q[1] \in Nat /\ q[2] \in Nat
    BY <1>4, PlacesAre
  <2>2. Back(p) = Back(q)
    BY <1>1, <1>5 DEF NodesDiffer
  <2>3. p[1] = q[1] /\ p[2] = q[2]
    <3>1. /\ p[1] = q[1]
          /\ (IF p[1] = x /\ p[2] >= k THEN p[2] + 1 ELSE p[2])
                = (IF q[1] = x /\ q[2] >= k THEN q[2] + 1 ELSE q[2])
      BY <2>2
    <3> QED BY <1>1, <2>1, <3>1
  <2> QED BY <2>1, <2>3
<1>7. ASSUME NEW i \in DOMAIN ds
      PROVE  Range(r[i].nodes) = Range(ds[i].nodes) \ {row}
  <2>1. ASSUME NEW j \in DOMAIN r[i].nodes
        PROVE  r[i].nodes[j] \in Range(ds[i].nodes) \ {row}
    <3>1. <<i, j>> \in Places(r) /\ NodeAt(r, <<i, j>>) = r[i].nodes[j]
      BY <1>4, PlacesAre
    <3>2. PICK l : Back(<<i, j>>) = <<i, l>>
      OBVIOUS
    <3>3. <<i, l>> \in Places(ds) /\ <<i, l>> # <<x, k>> /\ r[i].nodes[j] = NodeAt(ds, <<i, l>>)
      BY <1>5, <3>1, <3>2
    <3>4. NodeAt(ds, <<i, l>>) # row
      <4>1. row = NodeAt(ds, <<x, k>>)
        BY <1>1, PlacesAre DEF s
      <4> QED BY <1>1, <3>3, <4>1 DEF NodesDiffer
    <3>5. NodeAt(ds, <<i, l>>) \in Range(ds[i].nodes)
      BY <1>1, <3>3, PlacesAre DEF NodeAt, Range
    <3> QED BY <3>3, <3>4, <3>5
  <2>2. ASSUME NEW j \in DOMAIN ds[i].nodes, ds[i].nodes[j] # row
        PROVE  ds[i].nodes[j] \in Range(r[i].nodes)
    <3>1. CASE i # x
      BY <1>4, <3>1 DEF Range
    <3>2. CASE i = x
      <4>1. j \in 1..Len(s) /\ s[j] = ds[i].nodes[j] /\ j # k
        BY <1>1, <2>2, <3>2 DEF s
      <4>2. PICK l : l = IF j > k THEN j - 1 ELSE j
        OBVIOUS
      <4>3. l \in DOMAIN ns /\ ns[l] = s[j]
        <5>1. k \in Nat /\ j \in Nat /\ l \in Nat /\ Len(s) \in Nat /\ j <= Len(s) /\ j >= 1 /\ k >= 1
          BY <1>1, <4>1, <4>2
        <5>2. l \in 1..(Len(s) - 1) /\ (l < k => l = j) /\ (~(l < k) => l + 1 = j)
          BY <1>1, <4>1, <4>2, <5>1
        <5> QED BY <1>3, <5>2
      <4> QED BY <1>4, <3>2, <4>1, <4>3 DEF Range
    <3> QED BY <3>1, <3>2
  <2> QED BY <2>1, <2>2 DEF Range
<1>8. NodesOf(r) = NodesOf(ds) \ {row}
  <2>1. \A i \in DOMAIN ds : Range(r[i].nodes) \subseteq NodesOf(ds) \ {row}
    BY <1>7 DEF NodesOf
  <2>2. \A i \in DOMAIN ds : Range(ds[i].nodes) \ {row} \subseteq NodesOf(r)
    BY <1>4, <1>7 DEF NodesOf
  <2>3. NodesOf(r) \subseteq NodesOf(ds) \ {row}
    BY <1>4, <2>1 DEF NodesOf
  <2>4. NodesOf(ds) \ {row} \subseteq NodesOf(r)
    BY <2>2 DEF NodesOf
  <2> QED BY <2>3, <2>4
<1>9. ASSUME NEW i \in DOMAIN ds
      PROVE  /\ ds[i].nodes = <<>> => r[i].nodes = <<>>
             /\ Len(r[i].nodes) = Len(ds[i].nodes) - (IF i = x THEN 1 ELSE 0)
  <2>1. CASE i = x
    <3>1. ds[i].nodes = s /\ Len(s) # 0
      BY <1>1, <2>1 DEF s
    <3>2. s # <<>>
      BY <3>1
    <3> QED BY <1>1, <1>3, <1>4, <2>1, <3>1, <3>2
  <2>2. CASE i # x
    <3>1. Len(ds[i].nodes) \in Nat
      BY <1>1, DaysAre
    <3> QED BY <1>4, <2>2, <3>1
  <2> QED BY <2>1, <2>2
<1>10. \A i \in DOMAIN ds : TakenDay(r, ds, n, i)
  BY <1>4, <1>7, <1>9 DEF TakenDay, x, row
<1> QED BY <1>4, <1>6, <1>7, <1>8, <1>9, <1>10 DEF r, x, row, Timeline

-----------------------------------------------------------------------------
(* Commit: days without content at the ends go, the dates follow.          *)

LEMMA SubSeqIs ==
    ASSUME NEW S, NEW s \in Seq(S), NEW a \in DOMAIN s, NEW b \in DOMAIN s, a <= b
    PROVE  /\ SubSeq(s, a, b) \in Seq(S) /\ Len(SubSeq(s, a, b)) = b - a + 1
           /\ DOMAIN SubSeq(s, a, b) = 1..(b - a + 1)
           /\ \A i \in 1..(b - a + 1) : SubSeq(s, a, b)[i] = s[a + i - 1]
<1>1. a \in Int /\ b \in Int /\ \A i \in a..b : s[i] \in S
  OBVIOUS
<1>2. PICK r : r = SubSeq(s, a, b)
  OBVIOUS
<1>3. /\ r \in Seq(S) /\ Len(r) = IF a <= b THEN b - a + 1 ELSE 0
      /\ \A i \in 1..(b - a + 1) : r[i] = s[a + i - 1]
  BY <1>1, <1>2, SubSeqProperties
<1>4. DOMAIN r = 1..Len(r) /\ Len(r) = b - a + 1
  BY <1>3
<1> QED BY <1>2, <1>3, <1>4

LEMMA TrimmedIs ==
    ASSUME NEW ds \in Seq(Day), NEW es
    PROVE  LET r == Trimmed(ds, es)
           IN  \/ r = <<>> /\ \A i \in DOMAIN ds : ~HasContent(ds[i], es)
               \/ \E a, b \in DOMAIN ds :
                     /\ a <= b /\ HasContent(ds[a], es) /\ HasContent(ds[b], es)
                     /\ \A i \in DOMAIN ds : HasContent(ds[i], es) => a <= i /\ i <= b
                     /\ r \in Seq(Day) /\ Len(r) = b - a + 1 /\ DOMAIN r = 1..(b - a + 1)
                     /\ \A i \in 1..(b - a + 1) : r[i] = ds[a + i - 1]
<1> DEFINE content == {i \in DOMAIN ds : HasContent(ds[i], es)}
<1>1. CASE content = {}
  BY <1>1 DEF Trimmed
<1>2. CASE content # {}
  <2>1. content \in SUBSET Nat /\ Len(ds) \in Nat /\ \A i \in content : i <= Len(ds)
    BY DaysAre
  <2>2. PICK a : a = SetMin(content)
    OBVIOUS
  <2>3. PICK b : b = SetMax(content)
    OBVIOUS
  <2>4. a \in content /\ \A i \in content : a <= i
    <3> HIDE DEF content
    <3> QED BY <1>2, <2>1, <2>2, LeastIs
  <2>5. b \in content /\ \A i \in content : i <= b
    <3> HIDE DEF content
    <3> QED BY <1>2, <2>1, <2>3, GreatestIs
  <2>6. Trimmed(ds, es) = SubSeq(ds, a, b)
    BY <1>2, <2>2, <2>3 DEF Trimmed
  <2>7. a \in DOMAIN ds /\ b \in DOMAIN ds /\ a <= b
    BY <2>4, <2>5
  <2>8. PICK r : r = Trimmed(ds, es)
    OBVIOUS
  <2>9. /\ r \in Seq(Day) /\ Len(r) = b - a + 1 /\ DOMAIN r = 1..(b - a + 1)
        /\ \A i \in 1..(b - a + 1) : r[i] = ds[a + i - 1]
    BY <2>6, <2>7, <2>8, SubSeqIs
  <2>10. /\ HasContent(ds[a], es) /\ HasContent(ds[b], es)
         /\ \A i \in DOMAIN ds : HasContent(ds[i], es) => a <= i /\ i <= b
    BY <2>4, <2>5
  <2> QED BY <2>7, <2>8, <2>9, <2>10
<1> QED BY <1>1, <1>2

\* Transport joins neighbours wherever the same nodes come in the same order.
LEMMA SameOrderJoins ==
    ASSUME NEW ds \in Timeline, NEW r \in Timeline, NodesOf(r) = NodesOf(ds),
           \A m, n \in NodeIds(ds) : Before(r, m, n) <=> Before(ds, m, n),
           NEW es, Joins(ds, es)
    PROVE  Joins(r, es)
<1>1. NodeIds(r) = NodeIds(ds)
  BY DEF NodeIds
<1>2. \A m, n : Neighbours(ds, m, n) => Neighbours(r, m, n)
  BY <1>1 DEF Neighbours
<1>3. \A n \in NodeIds(ds) : NodeRow(r, n) = NodeRow(ds, n)
  BY <1>1, PlaceIs
<1>4. \A m, n : Neighbours(ds, m, n) => m \in NodeIds(ds) /\ n \in NodeIds(ds)
  BY DEF Neighbours
<1> QED BY <1>2, <1>3, <1>4 DEF Joins

LEMMA EmptyDays == <<>> \in Timeline /\ NodesOf(<<>>) = {} /\ NodeIds(<<>>) = {} /\ DOMAIN <<>> = {}
<1>1. DOMAIN <<>> = {} /\ <<>> \in Seq(Day)
  OBVIOUS
<1>2. Places(<<>>) = {} /\ NodesOf(<<>>) = {}
  BY <1>1 DEF Places, NodesOf
<1> QED BY <1>1, <1>2 DEF Timeline, DaysDiffer, NodesDiffer, NodeIds

LEMMA TrimmedKeeps ==
    ASSUME NEW ds, NEW es, SoundDays(ds, es)
    PROVE  LET r == Trimmed(ds, es)
           IN  /\ SoundDays(r, es)
               /\ r # <<>> => HasContent(r[1], es) /\ HasContent(r[Len(r)], es)
               /\ \A i \in DOMAIN ds : ds[i].nodes # <<>> => \E j \in DOMAIN r : r[j] = ds[i]
<1> DEFINE r == Trimmed(ds, es)
<1>1. ds \in Timeline /\ ds \in Seq(Day) /\ Joins(ds, es) /\ Fills(ds, es) /\ es \subseteq Edge
  BY DEF SoundDays, Timeline
<1>2. CASE r = <<>> /\ \A i \in DOMAIN ds : ~HasContent(ds[i], es)
  <2>1. \A i \in DOMAIN ds : ds[i].nodes = <<>> /\ DOMAIN ds[i].nodes = {}
    BY <1>2 DEF HasContent
  <2>2. NodeIds(ds) = {}
    BY <1>1, <2>1, PlacesAre
  <2>3. es = {}
    BY <1>1, <2>2 DEF Joins, Neighbours
  <2>4. SoundDays(<<>>, {})
    BY EmptyDays DEF SoundDays, Joins, Fills
  <2> QED BY <1>2, <2>1, <2>3, <2>4
<1>3. CASE r # <<>> \/ \E i \in DOMAIN ds : HasContent(ds[i], es)
  <2>1. PICK a \in DOMAIN ds, b \in DOMAIN ds :
                     /\ a <= b /\ HasContent(ds[a], es) /\ HasContent(ds[b], es)
                     /\ \A i \in DOMAIN ds : HasContent(ds[i], es) => a <= i /\ i <= b
                     /\ r \in Seq(Day) /\ Len(r) = b - a + 1 /\ DOMAIN r = 1..(b - a + 1)
                     /\ \A i \in 1..(b - a + 1) : r[i] = ds[a + i - 1]
    BY <1>1, <1>3, TrimmedIs
  <2> HIDE DEF r
  <2>2. a \in Nat /\ b \in Nat /\ DOMAIN ds = 1..Len(ds) /\ Len(ds) \in Nat /\ a >= 1 /\ b <= Len(ds)
    BY <1>1, <2>1, DaysAre
  <2>3. \A i \in DOMAIN r : a + i - 1 \in DOMAIN ds /\ r[i] = ds[a + i - 1] /\ i \in Nat
    BY <2>1, <2>2
  <2>4. ASSUME NEW i \in DOMAIN ds, HasContent(ds[i], es)
        PROVE  /\ i - a + 1 \in DOMAIN r /\ r[i - a + 1] = ds[i]
               /\ i - a + 1 \in Nat
    <3>1. a <= i /\ i <= b /\ i \in Nat
      BY <2>1, <2>2, <2>4
    <3>2. i - a + 1 \in 1..(b - a + 1) /\ a + (i - a + 1) - 1 = i
      BY <2>2, <3>1
    <3> QED BY <2>1, <3>2
  <2>5. \A i \in DOMAIN ds : ds[i].nodes # <<>> => HasContent(ds[i], es)
    BY DEF HasContent
  <2>6. DaysDiffer(r)
    <3> SUFFICES ASSUME NEW i \in DOMAIN r, NEW j \in DOMAIN r, r[i].id = r[j].id
                 PROVE  i = j
      BY DEF DaysDiffer
    <3>1. a + i - 1 = a + j - 1
      BY <1>1, <2>3 DEF Timeline, DaysDiffer
    <3> QED BY <2>2, <2>3, <3>1
  <2>7. ASSUME NEW p \in Places(r)
        PROVE  /\ <<a + p[1] - 1, p[2]>> \in Places(ds) /\ NodeAt(r, p) = NodeAt(ds, <<a + p[1] - 1, p[2]>>)
               /\ p = <<p[1], p[2]>> /\ p[1] \in Nat /\ p[2] \in Nat
    <3>1. p = <<p[1], p[2]>> /\ p[1] \in DOMAIN r /\ p[2] \in DOMAIN r[p[1]].nodes /\ p[1] \in Nat /\ p[2] \in Nat
      BY <2>1, PlacesAre
    <3>2. PICK i : i = a + p[1] - 1
      OBVIOUS
    <3>3. i \in DOMAIN ds /\ r[p[1]] = ds[i]
      BY <2>3, <3>1, <3>2
    <3> QED BY <1>1, <3>1, <3>2, <3>3, PlacesAre DEF NodeAt
  <2>8. NodesDiffer(r)
    <3> SUFFICES ASSUME NEW p \in Places(r), NEW q \in Places(r), NodeAt(r, p).id = NodeAt(r, q).id
                 PROVE  p = q
      BY DEF NodesDiffer
    <3>1. PICK x : x = <<a + p[1] - 1, p[2]>>
      OBVIOUS
    <3>2. PICK y : y = <<a + q[1] - 1, q[2]>>
      OBVIOUS
    <3>3. x \in Places(ds) /\ y \in Places(ds) /\ NodeAt(ds, x).id = NodeAt(ds, y).id
      BY <2>7, <3>1, <3>2
    <3>4. x = y
      BY <1>1, <3>3 DEF Timeline, NodesDiffer
    <3>5. a + p[1] - 1 = a + q[1] - 1 /\ p[2] = q[2]
      BY <3>1, <3>2, <3>4
    <3>6. p[1] \in Nat /\ q[1] \in Nat /\ p = <<p[1], p[2]>> /\ q = <<q[1], q[2]>>
      BY <2>7
    <3>7. p[1] = q[1]
      BY <2>2, <3>5, <3>6
    <3> QED BY <3>5, <3>6, <3>7
  <2>9. r \in Timeline
    BY <2>1, <2>6, <2>8 DEF Timeline
  <2>10. NodesOf(r) = NodesOf(ds)
    <3>1. NodesOf(r) \subseteq NodesOf(ds)
      BY <2>3 DEF NodesOf
    <3>2. ASSUME NEW i \in DOMAIN ds, NEW n \in Range(ds[i].nodes)
          PROVE  n \in NodesOf(r)
      <4>1. ds[i].nodes # <<>>
        BY <3>2 DEF Range
      <4> QED BY <2>4, <2>5, <3>2, <4>1 DEF NodesOf
    <3> QED BY <3>1, <3>2 DEF NodesOf
  <2>11. ASSUME NEW n \in NodeIds(ds)
         PROVE  /\ Place(ds, n)[1] = a + Place(r, n)[1] - 1 /\ Place(ds, n)[2] = Place(r, n)[2]
                /\ Place(r, n)[1] \in Nat /\ Place(r, n)[2] \in Nat
    <3>1. n \in NodeIds(r)
      BY <2>10 DEF NodeIds
    <3>2. PICK p : p = Place(r, n)
      OBVIOUS
    <3>3. p \in Places(r) /\ NodeAt(r, p).id = n
      BY <2>9, <3>1, <3>2, PlaceIs
    <3>4. /\ <<a + p[1] - 1, p[2]>> \in Places(ds) /\ NodeAt(ds, <<a + p[1] - 1, p[2]>>).id = n
          /\ p[1] \in Nat /\ p[2] \in Nat
      BY <2>7, <3>3
    <3>5. Place(ds, n) = <<a + p[1] - 1, p[2]>>
      BY <1>1, <3>4, PlaceIs
    <3> QED BY <3>2, <3>4, <3>5
  <2>12. \A m, n \in NodeIds(ds) : Before(r, m, n) <=> Before(ds, m, n)
    <3> SUFFICES ASSUME NEW m \in NodeIds(ds), NEW n \in NodeIds(ds)
                 PROVE  Before(r, m, n) <=> Before(ds, m, n)
      OBVIOUS
    <3>1. PICK p : p = Place(r, m)
      OBVIOUS
    <3>2. PICK q : q = Place(r, n)
      OBVIOUS
    <3>3. /\ Place(ds, m)[1] = a + p[1] - 1 /\ Place(ds, m)[2] = p[2] /\ p[1] \in Nat /\ p[2] \in Nat
          /\ Place(ds, n)[1] = a + q[1] - 1 /\ Place(ds, n)[2] = q[2] /\ q[1] \in Nat /\ q[2] \in Nat
      BY <2>11, <3>1, <3>2
    <3>4. Before(r, m, n) <=> p[1] < q[1] \/ (p[1] = q[1] /\ p[2] < q[2])
      BY <3>1, <3>2 DEF Before
    <3>5. Before(ds, m, n) <=> a + p[1] - 1 < a + q[1] - 1 \/ (a + p[1] - 1 = a + q[1] - 1 /\ p[2] < q[2])
      BY <3>3 DEF Before
    <3> QED BY <2>2, <3>3, <3>4, <3>5
  <2>13. Joins(r, es)
    BY <1>1, <2>9, <2>10, <2>12, SameOrderJoins
  <2>14. Fills(r, es)
    <3>1. ASSUME NEW e \in es, NEW d \in Range(e.span)
          PROVE  d \in DayIds(r)
      <4>1. PICK i \in DOMAIN ds : ds[i].id = d
        BY <1>1, <3>1 DEF Fills, DayIds
      <4>2. HasContent(ds[i], es)
        BY <3>1, <4>1 DEF HasContent
      <4> QED BY <2>4, <4>1, <4>2 DEF DayIds
    <3>2. \A i \in DOMAIN r : r[i].id \in OccupiedDays(es) => r[i].nodes = <<>>
      BY <1>1, <2>3 DEF Fills
    <3> QED BY <3>1, <3>2 DEF Fills
  <2>15. HasContent(r[1], es) /\ HasContent(r[Len(r)], es)
    <3>1. 1 \in 1..(b - a + 1) /\ a + 1 - 1 = a /\ b - a + 1 \in 1..(b - a + 1) /\ a + (b - a + 1) - 1 = b
      BY <2>1, <2>2
    <3>2. r[1] = ds[a] /\ r[b - a + 1] = ds[b]
      BY <2>1, <3>1
    <3> QED BY <2>1, <3>2
  <2> QED BY <1>1, <2>4, <2>5, <2>9, <2>13, <2>14, <2>15 DEF SoundDays, r
<1> QED BY <1>2, <1>3

LEMMA RangeIs ==
    ASSUME NEW ds \in Seq(Day)
    PROVE  /\ RangeOfDays(ds) \in {<<>>} \cup (Dates \X Dates)
           /\ DatesIn(RangeOfDays(ds)) \subseteq Dates
<1>1. CASE ds = <<>>
  BY <1>1 DEF RangeOfDays, DatesIn
<1>2. CASE ds # <<>>
  <2> DEFINE has == {ds[i].date : i \in DOMAIN ds}
  <2>1. \A i \in DOMAIN ds : ds[i].date \in 1..MaxDate
    BY DaysAre DEF Dates
  <2>2. MaxDate \in Nat
    BY BoundsAssumption DEF BoundsAssumption
  <2>3. has \in SUBSET Nat /\ has # {} /\ has \subseteq 1..MaxDate /\ \A d \in has : d <= MaxDate
    <3>1. 1 \in DOMAIN ds
      <4>1. Len(ds) \in Nat \ {0} /\ DOMAIN ds = 1..Len(ds)
        BY <1>2, EmptySeq, DaysAre
      <4> QED BY <4>1
    <3> QED BY <2>1, <2>2, <3>1
  <2> HIDE DEF has
  <2>4. SetMin(has) \in 1..MaxDate /\ SetMax(has) \in 1..MaxDate
    BY <2>2, <2>3, LeastIs, GreatestIs
  <2>5. RangeOfDays(ds) = <<SetMin(has), SetMax(has)>>
    BY <1>2 DEF RangeOfDays, has
  <2>6. PICK a \in 1..MaxDate : a = SetMin(has)
    BY <2>4
  <2>7. PICK b \in 1..MaxDate : b = SetMax(has)
    BY <2>4
  <2>8. DatesIn(<<a, b>>) = a..b
    BY DEF DatesIn
  <2>9. a..b \subseteq 1..MaxDate
    BY <2>2
  <2> QED BY <2>5, <2>6, <2>7, <2>8, <2>9 DEF Dates
<1> QED BY <1>1, <1>2

\* The rows of the calendar after a claim.
LEMMA ClaimedIs ==
    ASSUME ownership \in [DOMAIN ownership -> Trips], DOMAIN ownership \subseteq Dates,
           NEW t \in Trips, NEW r, DatesIn(r) \subseteq Dates,
           DatesIn(r) \subseteq OwnedBy(Claimed(t, r), t)
    PROVE  LET own == Claimed(t, r)
           IN  /\ own \in [DOMAIN own -> Trips] /\ DOMAIN own \subseteq Dates
               /\ OwnedBy(own, t) = DatesIn(r)
               /\ \A u \in Trips \ {t} : OwnedBy(own, u) = OwnedBy(ownership, u)
<1> DEFINE own == Claimed(t, r)
           left == DOMAIN ownership \ (OwnedBy(ownership, t) \ DatesIn(r))
<1>1. own = [d \in left \cup DatesIn(r) |-> IF d \in left THEN ownership[d] ELSE t]
  BY DEF Claimed
<1>2. \A d \in left : d \in DOMAIN ownership /\ (ownership[d] = t => d \in DatesIn(r)) /\ ownership[d] \in Trips
  BY DEF OwnedBy
<1>3. \A d \in DOMAIN ownership : ownership[d] # t => d \in left
  BY DEF OwnedBy
<1>4. DatesIn(r) \subseteq OwnedBy(own, t)
  OBVIOUS
<1> HIDE DEF own, left
<1>5. DOMAIN own = left \cup DatesIn(r)
  BY <1>1
<1>6. \A d \in DOMAIN own : own[d] = IF d \in left THEN ownership[d] ELSE t
  BY <1>1
<1>7. own \in [DOMAIN own -> Trips]
  <2>1. \A d \in DOMAIN own : own[d] \in Trips
    BY <1>2, <1>6
  <2> QED BY <1>1, <1>5, <2>1
<1>8. DOMAIN own \subseteq Dates
  BY <1>2, <1>5
<1>9. OwnedBy(own, t) = DatesIn(r)
  <2>1. \A d \in DOMAIN own : own[d] = t => d \in DatesIn(r)
    BY <1>2, <1>5, <1>6
  <2> QED BY <1>4, <2>1 DEF OwnedBy
<1>10. ASSUME NEW u \in Trips \ {t}
       PROVE  OwnedBy(own, u) = OwnedBy(ownership, u)
  <2>1. \A d \in DOMAIN own : own[d] = u => d \in DOMAIN ownership /\ ownership[d] = u
    BY <1>2, <1>5, <1>6
  <2>2. \A d \in DOMAIN ownership : ownership[d] = u => d \in DOMAIN own /\ own[d] = u
    BY <1>3, <1>5, <1>6
  <2> QED BY <2>1, <2>2 DEF OwnedBy
<1> QED BY <1>7, <1>8, <1>9, <1>10 DEF own

\* What a mutation makes, if sound, is sound after Commit, and its dates the trip's.
LEMMA CommitKeeps ==
    ASSUME IInv, NEW t \in Trips, NEW ds, NEW es, SoundDays(ds, es), Commit(t, ds, es)
    PROVE  IInv'
<1> DEFINE kept == Trimmed(ds, es)
           r == RangeOfDays(kept)
<1>1. TypeOK /\ OwnsItsRange /\ \A u \in Trips : SoundDays(days[u], edges[u])
  BY DEF IInv
<1>2. /\ SoundDays(kept, es)
      /\ kept # <<>> => HasContent(kept[1], es) /\ HasContent(kept[Len(kept)], es)
  BY TrimmedKeeps
<1>3. kept \in Seq(Day) /\ es \subseteq Edge
  BY <1>2 DEF SoundDays, Timeline
<1>4. r \in {<<>>} \cup (Dates \X Dates) /\ DatesIn(r) \subseteq Dates
  BY <1>3, RangeIs
<1>5. /\ DatesIn(r) \subseteq OwnedBy(Claimed(t, r), t)
      /\ days' = [days EXCEPT ![t] = kept] /\ edges' = [edges EXCEPT ![t] = es]
      /\ range' = [range EXCEPT ![t] = r] /\ ownership' = Claimed(t, r)
      /\ version' = [version EXCEPT ![t] = version[t] + 1] /\ answer' = "SUCCESS"
  BY DEF Commit
<1>6. r = RangeOfDays(kept)
  OBVIOUS
<1> HIDE DEF kept, r
<1>7. /\ ownership' \in [DOMAIN ownership' -> Trips] /\ DOMAIN ownership' \subseteq Dates
      /\ OwnedBy(ownership', t) = DatesIn(r)
      /\ \A u \in Trips \ {t} : OwnedBy(ownership', u) = OwnedBy(ownership, u)
  <2> DEFINE own == Claimed(t, r)
  <2>1. ownership \in [DOMAIN ownership -> Trips] /\ DOMAIN ownership \subseteq Dates
    BY <1>1 DEF TypeOK
  <2>2. /\ own \in [DOMAIN own -> Trips] /\ DOMAIN own \subseteq Dates
        /\ OwnedBy(own, t) = DatesIn(r)
        /\ \A u \in Trips \ {t} : OwnedBy(own, u) = OwnedBy(ownership, u)
    BY <1>4, <1>5, <2>1, ClaimedIs
  <2>3. ownership' = own
    BY <1>5
  <2> HIDE DEF own
  <2> QED BY <2>2, <2>3
<1>8. \A u \in Trips : /\ days'[u] = IF u = t THEN kept ELSE days[u]
                       /\ edges'[u] = IF u = t THEN es ELSE edges[u]
                       /\ range'[u] = IF u = t THEN r ELSE range[u]
  BY <1>1, <1>5 DEF TypeOK
<1>9. TypeOK'
  <2>1. version' \in [Trips -> Nat]
    BY <1>1, <1>5 DEF TypeOK
  <2>2. days' \in [Trips -> Seq(Day)] /\ edges' \in [Trips -> SUBSET Edge]
        /\ range' \in [Trips -> {<<>>} \cup (Dates \X Dates)]
    BY <1>1, <1>3, <1>4, <1>5 DEF TypeOK
  <2> QED BY <1>5, <1>7, <2>1, <2>2 DEF TypeOK
<1>10. \A u \in Trips : SoundDays(days'[u], edges'[u])
  BY <1>1, <1>2, <1>8
<1>11. OwnsItsRange'
  <2> SUFFICES ASSUME NEW u \in Trips
               PROVE  /\ OwnedBy(ownership', u) = DatesIn(range'[u])
                      /\ range'[u] = RangeOfDays(days'[u])
                      /\ days'[u] # <<>> => /\ HasContent(Head(days'[u]), edges'[u])
                                            /\ HasContent(Last(days'[u]), edges'[u])
    BY DEF OwnsItsRange
  <2>1. CASE u = t
    <3>1. Head(kept) = kept[1] /\ Last(kept) = kept[Len(kept)]
      BY <1>3 DEF Last
    <3> QED BY <1>2, <1>6, <1>7, <1>8, <2>1, <3>1
  <2>2. CASE u # t
    BY <1>1, <1>7, <1>8, <2>2 DEF OwnsItsRange
  <2> QED BY <2>1, <2>2
<1>12. (\A u \in Trips : SoundDays(days[u], edges[u]))'
  BY <1>10 DEF SoundDays, Timeline
<1> QED BY <1>9, <1>11, <1>12 DEF IInv

-----------------------------------------------------------------------------
(* New ids.                                                                *)

\* A finite one has a greatest: a smallest subset without one would lose it
\* with any of its elements.
LEMMA GreatestOfFinite ==
    ASSUME NEW S \in SUBSET Nat, IsFiniteSet(S), S # {}
    PROVE  \E m \in S : \A n \in S : n <= m
<1> DEFINE Without == {T \in SUBSET S : T # {} /\ ~ \E m \in T : \A n \in T : n <= m}
<1>1. ASSUME Without # {} PROVE FALSE
  <2>1. Without \subseteq FiniteSubsetsOf(S)
    BY FS_Subset DEF FiniteSubsetsOf
  <2>2. PICK U \in Without : \A T \in Without : ~ (<<T, U>> \in StrictSubsetOrdering(S))
    BY <1>1, <2>1, FS_StrictSubsetOrderingWellFounded, WFMin
  <2>3. PICK x \in U : TRUE
    OBVIOUS
  <2>4. CASE U = {x}
    BY <2>4
  <2>5. CASE U # {x}
    <3>1. U \ {x} # {} /\ U \ {x} \in SUBSET S
      BY <2>3, <2>5
    <3>2. <<U \ {x}, U>> \in StrictSubsetOrdering(S)
      BY <2>3 DEF StrictSubsetOrdering
    <3>3. PICK m \in U \ {x} : \A n \in U \ {x} : n <= m
      BY <2>2, <3>1, <3>2
    <3>4. m \in Nat /\ x \in Nat /\ U \subseteq Nat
      BY <2>3
    <3>5. CASE x <= m
      BY <3>3, <3>4, <3>5
    <3>6. CASE m < x
      BY <2>3, <3>3, <3>4, <3>6
    <3> QED BY <3>4, <3>5, <3>6
  <2> QED BY <2>4, <2>5
<1> QED BY <1>1

LEMMA ImageIsFinite ==
    ASSUME NEW S, IsFiniteSet(S), NEW f
    PROVE  IsFiniteSet({f[x] : x \in S})
<1> DEFINE T == {f[x] : x \in S}
           g == [x \in S |-> f[x]]
<1>1. g \in Surjection(S, T)
  BY DEF Surjection
<1> HIDE DEF T, g
<1>2. IsFiniteSet(T)
  BY <1>1, FS_Surjection
<1> QED BY <1>2 DEF T

LEMMA RangeIsFinite ==
    ASSUME NEW S, NEW s \in Seq(S)
    PROVE  IsFiniteSet(DOMAIN s) /\ IsFiniteSet(Range(s))
<1>1. IsFiniteSet(DOMAIN s)
  <2>1. DOMAIN s = 1..Len(s) /\ 1 \in Int /\ Len(s) \in Int
    OBVIOUS
  <2> QED BY <2>1, FS_Interval
<1> QED BY <1>1, ImageIsFinite DEF Range

LEMMA IdsAreFinite ==
    ASSUME NEW ds \in Seq(Day)
    PROVE  IsFiniteSet(DayIds(ds)) /\ IsFiniteSet(NodeIds(ds))
<1>1. IsFiniteSet(DOMAIN ds)
  BY RangeIsFinite
<1>2. IsFiniteSet(DayIds(ds))
  <2>1. PICK f : f = [i \in DOMAIN ds |-> ds[i].id]
    OBVIOUS
  <2>2. DayIds(ds) = {f[i] : i \in DOMAIN ds}
    BY <2>1 DEF DayIds
  <2> QED BY <1>1, <2>2, ImageIsFinite
<1>3. IsFiniteSet(NodesOf(ds))
  <2> DEFINE Rows == {Range(ds[i].nodes) : i \in DOMAIN ds}
  <2>1. PICK f : f = [i \in DOMAIN ds |-> Range(ds[i].nodes)]
    OBVIOUS
  <2>2. Rows = {f[i] : i \in DOMAIN ds}
    BY <2>1
  <2>3. IsFiniteSet(Rows)
    BY <1>1, <2>2, ImageIsFinite
  <2>4. \A T \in Rows : IsFiniteSet(T)
    BY DaysAre, RangeIsFinite
  <2> HIDE DEF Rows
  <2>5. IsFiniteSet(UNION Rows)
    BY <2>3, <2>4, FS_UNION
  <2> QED BY <2>5 DEF NodesOf, Rows
<1>4. IsFiniteSet(NodeIds(ds))
  <2>1. PICK f : f = [n \in NodesOf(ds) |-> n.id]
    OBVIOUS
  <2>2. NodeIds(ds) = {f[n] : n \in NodesOf(ds)}
    BY <2>1 DEF NodeIds
  <2> QED BY <1>3, <2>2, ImageIsFinite
<1> QED BY <1>2, <1>4

\* New ids follow those in use, one after the other.
LEMMA FreshIs ==
    ASSUME NEW S \in SUBSET Nat, IsFiniteSet(S)
    PROVE  /\ SetMax(S \cup {0}) \in Nat /\ \A x \in S : x <= SetMax(S \cup {0})
           /\ \A n \in Nat : \A k \in 1..n : Fresh(S, n)[k] = SetMax(S \cup {0}) + k
<1>1. S \cup {0} \in SUBSET Nat /\ S \cup {0} # {} /\ IsFiniteSet(S \cup {0})
  BY FS_AddElement
<1>2. PICK m \in S \cup {0} : \A n \in S \cup {0} : n <= m
  BY <1>1, GreatestOfFinite
<1>3. \E x \in S \cup {0} : \A y \in S \cup {0} : x >= y
  BY <1>1, <1>2
<1>4. SetMax(S \cup {0}) \in S \cup {0} /\ \A n \in S \cup {0} : SetMax(S \cup {0}) >= n
  BY <1>3 DEF SetMax
<1>5. \A n \in Nat : \A k \in 1..n : Fresh(S, n)[k] = SetMax(S \cup {0}) + k
  BY DEF Fresh
<1> QED BY <1>1, <1>4, <1>5

LEMMA NewNodeIs ==
    ASSUME NEW ds \in Timeline, NEW visit \in BOOLEAN
    PROVE  NewNode(ds, visit) \in Node /\ NewNode(ds, visit).id \notin NodeIds(ds)
<1>1. NodeIds(ds) \in SUBSET Nat /\ IsFiniteSet(NodeIds(ds))
  BY IdsAreFinite, PlacesAre DEF Timeline
<1>2. PICK m : m = SetMax(NodeIds(ds) \cup {0})
  OBVIOUS
<1>3. m \in Nat /\ (\A x \in NodeIds(ds) : x <= m) /\ Fresh(NodeIds(ds), 1)[1] = m + 1
  BY <1>1, <1>2, FreshIs
<1>4. m + 1 \in Nat /\ m + 1 \notin NodeIds(ds)
  BY <1>1, <1>3
<1> QED BY <1>3, <1>4 DEF NewNode, Node

-----------------------------------------------------------------------------
(* New days.                                                               *)

\* Other days put between the first k and the rest.
Splice(s, k, t) == SubSeq(s, 1, k) \o t \o SubSeq(s, k + 1, Len(s))
Spliced(r, s, k, t, i) ==
    r[i] = IF i <= k THEN s[i] ELSE IF i <= k + Len(t) THEN t[i - k] ELSE s[i - Len(t)]

LEMMA SpliceIs ==
    ASSUME NEW S, NEW s \in Seq(S), NEW t \in Seq(S), NEW k \in 0..Len(s),
           NEW r, r = Splice(s, k, t)
    PROVE  /\ r \in Seq(S) /\ Len(r) = Len(s) + Len(t) /\ DOMAIN r = 1..(Len(s) + Len(t))
           /\ \A i \in 1..(Len(s) + Len(t)) : Spliced(r, s, k, t, i)
<1>1. Len(s) \in Nat /\ Len(t) \in Nat /\ k \in Nat /\ k <= Len(s) /\ \A i \in 1..Len(s) : s[i] \in S
  OBVIOUS
<1>2. PICK front : front = SubSeq(s, 1, k)
  OBVIOUS
<1>3. front \in Seq(S) /\ Len(front) = k /\ \A i \in 1..k : front[i] = s[i]
  BY <1>1, <1>2
<1>4. PICK m : m = k + 1
  OBVIOUS
<1>5. PICK back : back = SubSeq(s, m, Len(s))
  OBVIOUS
<1>6. back \in Seq(S) /\ Len(back) = Len(s) - k /\ \A i \in 1..(Len(s) - k) : back[i] = s[k + i]
  <2>1. m \in Int /\ Len(s) \in Int /\ \A i \in m..Len(s) : s[i] \in S
    BY <1>1, <1>4
  <2>2. /\ back \in Seq(S) /\ Len(back) = IF m <= Len(s) THEN Len(s) - m + 1 ELSE 0
        /\ \A i \in 1..(Len(s) - m + 1) : back[i] = s[m + i - 1]
    BY <1>5, <2>1, SubSeqProperties
  <2>3. \A a, b \in Nat : a <= b => (IF a + 1 <= b THEN b - (a + 1) + 1 ELSE 0) = b - a
    OBVIOUS
  <2>4. Len(back) = Len(s) - k
    BY <1>1, <1>4, <2>2, <2>3
  <2>5. Len(s) - m + 1 = Len(s) - k /\ \A i \in Nat : m + i - 1 = k + i
    BY <1>1, <1>4
  <2>6. ASSUME NEW i \in 1..(Len(s) - k)
        PROVE  back[i] = s[k + i]
    <3>1. i \in Nat /\ i \in 1..(Len(s) - m + 1)
      BY <1>1, <2>5
    <3>2. back[i] = s[m + i - 1]
      BY <2>2, <3>1
    <3> QED BY <2>5, <3>1, <3>2
  <2> QED BY <2>2, <2>4, <2>6
<1>7. PICK upTo : upTo = front \o t
  OBVIOUS
<1>8. /\ upTo \in Seq(S) /\ Len(upTo) = Len(front) + Len(t)
      /\ \A i \in 1..(Len(front) + Len(t)) :
            upTo[i] = IF i <= Len(front) THEN front[i] ELSE t[i - Len(front)]
  BY <1>3, <1>7, ConcatProperties
<1>9. Len(upTo) = k + Len(t) /\ \A i \in 1..(k + Len(t)) : upTo[i] = IF i <= k THEN s[i] ELSE t[i - k]
  BY <1>1, <1>3, <1>8
<1>10. PICK c : c = upTo \o back
  OBVIOUS
<1>11. /\ c \in Seq(S) /\ Len(c) = Len(upTo) + Len(back)
       /\ \A i \in 1..(Len(upTo) + Len(back)) :
             c[i] = IF i <= Len(upTo) THEN upTo[i] ELSE back[i - Len(upTo)]
  <2>1. upTo \in Seq(S) /\ back \in Seq(S)
    BY <1>6, <1>8
  <2> QED BY <1>10, <2>1, ConcatProperties
<1>12. Len(upTo) = k + Len(t) /\ Len(upTo) + Len(back) = Len(s) + Len(t)
  BY <1>1, <1>6, <1>9
<1>13. /\ Len(c) = Len(s) + Len(t) /\ DOMAIN c = 1..Len(c)
       /\ \A i \in 1..(Len(s) + Len(t)) :
             c[i] = IF i <= k + Len(t) THEN upTo[i] ELSE back[i - (k + Len(t))]
  BY <1>11, <1>12
<1>14. ASSUME NEW i \in 1..(Len(s) + Len(t))
       PROVE  c[i] = IF i <= k THEN s[i] ELSE IF i <= k + Len(t) THEN t[i - k] ELSE s[i - Len(t)]
  <2>1. CASE i <= k + Len(t)
    BY <1>1, <1>9, <1>13, <2>1
  <2>2. CASE i > k + Len(t)
    <3>1. i - (k + Len(t)) \in 1..(Len(s) - k) /\ k + (i - (k + Len(t))) = i - Len(t)
      BY <1>1, <2>2
    <3>2. PICK j : j = i - (k + Len(t))
      OBVIOUS
    <3>3. back[j] = s[k + j]
      BY <1>6, <3>1, <3>2
    <3>4. c[i] = back[j]
      BY <1>1, <1>13, <2>2, <3>2
    <3> QED BY <1>1, <2>2, <3>1, <3>2, <3>3, <3>4
  <2> QED BY <1>1, <2>1, <2>2
<1>15. r = c
  BY <1>2, <1>4, <1>5, <1>7, <1>10 DEF Splice
<1>16. \A i \in 1..(Len(s) + Len(t)) : Spliced(r, s, k, t, i)
  BY <1>14, <1>15 DEF Spliced
<1> QED BY <1>11, <1>13, <1>15, <1>16

\* New days: blank, and of ids that come after m.
NewDays(s, m) ==
    s \in Seq(Day) /\ DaysDiffer(s) /\ \A i \in DOMAIN s : s[i].nodes = <<>> /\ s[i].id > m

LEMMA SplicedKeeps ==
    ASSUME NEW ds \in Timeline, NEW k \in 0..Len(ds), NEW m \in Nat, \A d \in DayIds(ds) : d <= m,
           NEW block, NewDays(block, m),
           NEW r, r = Splice(ds, k, block)
    PROVE  /\ r \in Timeline /\ NodesOf(r) = NodesOf(ds)
           /\ DayIds(r) = DayIds(ds) \cup DayIds(block)
           /\ \A i \in DOMAIN ds : \E j \in DOMAIN r : r[j] = ds[i]
           /\ \A j \in DOMAIN r : \/ \E i \in DOMAIN ds : r[j] = ds[i]
                                  \/ r[j].nodes = <<>> /\ r[j].id \notin DayIds(ds)
<1> DEFINE L == Len(block)
           N == Len(ds)
<1>1. /\ ds \in Seq(Day) /\ DaysDiffer(ds) /\ NodesDiffer(ds) /\ N \in Nat /\ DOMAIN ds = 1..N
      /\ block \in Seq(Day) /\ DaysDiffer(block) /\ L \in Nat /\ DOMAIN block = 1..L
      /\ \A i \in DOMAIN block : block[i].nodes = <<>> /\ block[i].id > m /\ block[i].id \in Nat
      /\ k \in Nat /\ k <= N
  BY DaysAre DEF Timeline, NewDays
<1>2. /\ r \in Seq(Day) /\ DOMAIN r = 1..(N + L)
      /\ \A i \in 1..(N + L) :
            r[i] = IF i <= k THEN ds[i] ELSE IF i <= k + L THEN block[i - k] ELSE ds[i - L]
  <2>1. ds \in Seq(Day) /\ block \in Seq(Day) /\ k \in 0..Len(ds)
    BY <1>1
  <2>2. r = Splice(ds, k, block)
    OBVIOUS
  <2>3. r \in Seq(Day) /\ DOMAIN r = 1..(Len(ds) + Len(block))
    <3>1. r \in Seq(Day) /\ Len(r) = Len(ds) + Len(block)
      BY <2>1, <2>2, SpliceIs
    <3>2. DOMAIN r = 1..Len(r)
      BY <3>1, LenProperties
    <3> QED BY <3>1, <3>2
  <2>4. ASSUME NEW i \in 1..(Len(ds) + Len(block))
        PROVE  r[i] = IF i <= k THEN ds[i]
                      ELSE IF i <= k + Len(block) THEN block[i - k] ELSE ds[i - Len(block)]
    <3>1. Spliced(r, ds, k, block, i)
      BY <2>1, <2>2, SpliceIs
    <3> QED BY <3>1 DEF Spliced
  <2> QED BY <2>3, <2>4
<1> HIDE DEF L, N
<1> DEFINE Old(j) == j <= k \/ j > k + L
           At(j) == IF j <= k THEN j ELSE j - L
<1>3. ASSUME NEW j \in DOMAIN r
      PROVE  /\ j \in Nat
             /\ Old(j) => At(j) \in DOMAIN ds /\ r[j] = ds[At(j)]
             /\ ~Old(j) => j - k \in DOMAIN block /\ r[j] = block[j - k]
  <2>1. j \in Nat /\ j >= 1 /\ j <= N + L
    BY <1>1, <1>2
  <2>2. CASE j <= k
    BY <1>1, <1>2, <2>1, <2>2
  <2>3. CASE j > k + L
    <3>1. j - L \in 1..N /\ ~(j <= k) /\ ~(j <= k + L)
      BY <1>1, <2>1, <2>3
    <3>2. r[j] = ds[j - L]
      BY <1>1, <1>2, <3>1
    <3>3. Old(j) /\ At(j) = j - L
      BY <2>3, <3>1
    <3>4. j - L \in DOMAIN ds
      BY <1>1, <3>1
    <3> HIDE DEF Old, At
    <3> QED BY <2>1, <3>2, <3>3, <3>4
  <2>4. CASE ~Old(j)
    <3>1. j - k \in 1..L /\ ~(j <= k) /\ j <= k + L
      BY <1>1, <2>1, <2>4
    <3>2. r[j] = block[j - k]
      BY <1>2, <3>1
    <3> QED BY <1>1, <2>1, <2>4, <3>1, <3>2
  <2> QED BY <2>1, <2>2, <2>3, <2>4
<1>4. \A i, j \in Nat : Old(i) /\ Old(j) /\ At(i) = At(j) => i = j
  BY <1>1
<1>5. \A i \in DOMAIN ds : \E j \in DOMAIN r : Old(j) /\ At(j) = i
  <2> SUFFICES ASSUME NEW i \in DOMAIN ds
               PROVE  \E j \in DOMAIN r : Old(j) /\ At(j) = i
    OBVIOUS
  <2>1. i \in Nat /\ i >= 1 /\ i <= N
    BY <1>1
  <2>2. CASE i <= k
    <3>1. i \in DOMAIN r /\ Old(i) /\ At(i) = i
      <4>1. i <= N + L
        BY <1>1, <2>1
      <4> QED BY <1>2, <2>1, <2>2, <4>1
    <3> QED BY <3>1
  <2>3. CASE i > k
    <3>1. i + L \in DOMAIN r /\ Old(i + L) /\ At(i + L) = i
      <4>1. i + L \in 1..(N + L) /\ i + L > k + L /\ ~(i + L <= k) /\ (i + L) - L = i
        BY <1>1, <2>1, <2>3
      <4> QED BY <1>2, <4>1
    <3> QED BY <3>1
  <2> QED BY <1>1, <2>1, <2>2, <2>3
<1>6. \A i \in DOMAIN block : \E j \in DOMAIN r : ~Old(j) /\ j - k = i
  <2> SUFFICES ASSUME NEW i \in DOMAIN block
               PROVE  \E j \in DOMAIN r : ~Old(j) /\ j - k = i
    OBVIOUS
  <2>1. i + k \in DOMAIN r /\ ~Old(i + k) /\ (i + k) - k = i
    <3>1. i \in Nat /\ i >= 1 /\ i <= L
      BY <1>1
    <3>2. i + k \in 1..(N + L) /\ ~(i + k > k + L) /\ ~(i + k <= k) /\ (i + k) - k = i
      BY <1>1, <3>1
    <3> QED BY <1>2, <3>2
  <2> QED BY <2>1
<1> HIDE DEF Old, At
<1>7. \A j \in DOMAIN r : /\ Old(j) => r[j].id \in DayIds(ds)
                          /\ ~Old(j) => r[j].id \notin DayIds(ds) /\ r[j].nodes = <<>>
  <2>1. \A d \in DayIds(ds) : d \in Nat
    BY <1>1, DaysAre DEF DayIds
  <2>2. \A j \in DOMAIN r : Old(j) => r[j].id \in DayIds(ds)
    BY <1>3 DEF DayIds
  <2>3. \A i \in DOMAIN block : block[i].id \notin DayIds(ds)
    BY <1>1, <2>1
  <2>4. \A i \in DOMAIN block : block[i].nodes = <<>>
    BY <1>1
  <2>5. ASSUME NEW j \in DOMAIN r, ~Old(j)
        PROVE  r[j].id \notin DayIds(ds) /\ r[j].nodes = <<>>
    <3>1. PICK i \in DOMAIN block : r[j] = block[i]
      BY <1>3, <2>5
    <3> QED BY <2>3, <2>4, <3>1
  <2> QED BY <2>2, <2>5
<1>8. DaysDiffer(r)
  <2> SUFFICES ASSUME NEW i \in DOMAIN r, NEW j \in DOMAIN r, r[i].id = r[j].id
               PROVE  i = j
    BY DEF DaysDiffer
  <2>1. CASE Old(i)
    <3>1. Old(j)
      BY <1>7, <2>1
    <3>2. At(i) = At(j)
      <4>1. DaysDiffer(ds)
        BY <1>1
      <4>2. At(i) \in DOMAIN ds /\ r[i] = ds[At(i)] /\ At(j) \in DOMAIN ds /\ r[j] = ds[At(j)]
        BY <1>3, <2>1, <3>1
      <4> QED BY <4>1, <4>2 DEF DaysDiffer
    <3> QED BY <1>3, <1>4, <2>1, <3>1, <3>2
  <2>2. CASE ~Old(i)
    <3>1. ~Old(j)
      BY <1>7, <2>2
    <3>2. i - k = j - k
      <4>1. DaysDiffer(block)
        BY <1>1
      <4>2. PICK a : a = i - k
        OBVIOUS
      <4>3. PICK b : b = j - k
        OBVIOUS
      <4>4. a \in DOMAIN block /\ r[i] = block[a] /\ b \in DOMAIN block /\ r[j] = block[b]
        BY <1>3, <2>2, <3>1, <4>2, <4>3
      <4> QED BY <4>1, <4>2, <4>3, <4>4 DEF DaysDiffer
    <3> QED BY <1>1, <1>3, <3>2
  <2> QED BY <2>1, <2>2
<1>9. ASSUME NEW p \in Places(r)
      PROVE  /\ p = <<p[1], p[2]>> /\ Old(p[1]) /\ p[1] \in Nat
             /\ <<At(p[1]), p[2]>> \in Places(ds) /\ NodeAt(r, p) = NodeAt(ds, <<At(p[1]), p[2]>>)
  <2>1. p = <<p[1], p[2]>> /\ p[1] \in DOMAIN r /\ p[2] \in DOMAIN r[p[1]].nodes
    BY <1>2, PlacesAre
  <2>2. Old(p[1])
    <3>1. r[p[1]].nodes # <<>>
      <4>1. DOMAIN <<>> = {}
        OBVIOUS
      <4> QED BY <2>1, <4>1
    <3> QED BY <1>7, <2>1, <3>1
  <2>3. At(p[1]) \in DOMAIN ds /\ r[p[1]] = ds[At(p[1])] /\ p[1] \in Nat
    BY <1>3, <2>1, <2>2
  <2>4. PICK i : i = At(p[1])
    OBVIOUS
  <2>5. <<i, p[2]>> \in Places(ds) /\ NodeAt(ds, <<i, p[2]>>) = ds[i].nodes[p[2]]
    BY <1>1, <2>1, <2>3, <2>4, PlacesAre
  <2> QED BY <2>1, <2>2, <2>3, <2>4, <2>5 DEF NodeAt
<1>10. NodesDiffer(r)
  <2> SUFFICES ASSUME NEW p \in Places(r), NEW q \in Places(r), NodeAt(r, p).id = NodeAt(r, q).id
               PROVE  p = q
    BY DEF NodesDiffer
  <2>1. PICK x : x = <<At(p[1]), p[2]>>
    OBVIOUS
  <2>2. PICK y : y = <<At(q[1]), q[2]>>
    OBVIOUS
  <2>3. x \in Places(ds) /\ y \in Places(ds) /\ NodeAt(ds, x).id = NodeAt(ds, y).id
    BY <1>9, <2>1, <2>2
  <2>4. x = y
    BY <1>1, <2>3 DEF NodesDiffer
  <2>5. At(p[1]) = At(q[1]) /\ p[2] = q[2]
    BY <2>1, <2>2, <2>4
  <2>6. p[1] = q[1]
    BY <1>4, <1>9, <2>5
  <2> QED BY <1>9, <2>5, <2>6
<1>11. NodesOf(r) = NodesOf(ds)
  <2>1. ASSUME NEW j \in DOMAIN r, NEW n \in Range(r[j].nodes)
        PROVE  n \in NodesOf(ds)
    <3>1. r[j].nodes # <<>>
      <4>1. Range(<<>>) = {}
        BY DEF Range
      <4> QED BY <2>1, <4>1
    <3>2. Old(j)
      BY <1>7, <3>1
    <3> QED BY <1>3, <2>1, <3>2 DEF NodesOf
  <2>2. ASSUME NEW i \in DOMAIN ds, NEW n \in Range(ds[i].nodes)
        PROVE  n \in NodesOf(r)
    <3>1. PICK j \in DOMAIN r : Old(j) /\ At(j) = i
      BY <1>5
    <3> QED BY <1>3, <2>2, <3>1 DEF NodesOf
  <2>3. NodesOf(r) \subseteq NodesOf(ds)
    BY <2>1 DEF NodesOf
  <2>4. NodesOf(ds) \subseteq NodesOf(r)
    BY <2>2 DEF NodesOf
  <2> QED BY <2>3, <2>4
<1>12. DayIds(r) = DayIds(ds) \cup DayIds(block)
  <2>1. \A j \in DOMAIN r : r[j].id \in DayIds(ds) \cup DayIds(block)
    BY <1>3 DEF DayIds
  <2>2. ASSUME NEW i \in DOMAIN ds
        PROVE  ds[i].id \in DayIds(r)
    <3>1. PICK j \in DOMAIN r : Old(j) /\ At(j) = i
      BY <1>5
    <3>2. r[j] = ds[i]
      BY <1>3, <3>1
    <3> QED BY <3>2 DEF DayIds
  <2>3. ASSUME NEW i \in DOMAIN block
        PROVE  block[i].id \in DayIds(r)
    <3>1. PICK j \in DOMAIN r : ~Old(j) /\ j - k = i
      BY <1>6
    <3>2. r[j] = block[i]
      BY <1>3, <3>1
    <3> QED BY <3>2 DEF DayIds
  <2>4. DayIds(ds) \subseteq DayIds(r)
    BY <2>2 DEF DayIds
  <2>5. DayIds(block) \subseteq DayIds(r)
    BY <2>3 DEF DayIds
  <2>6. DayIds(r) \subseteq DayIds(ds) \cup DayIds(block)
    BY <2>1 DEF DayIds
  <2> QED BY <2>4, <2>5, <2>6
<1>13. \A i \in DOMAIN ds : \E j \in DOMAIN r : r[j] = ds[i]
  BY <1>3, <1>5
<1>14. \A j \in DOMAIN r : \/ \E i \in DOMAIN ds : r[j] = ds[i]
                           \/ r[j].nodes = <<>> /\ r[j].id \notin DayIds(ds)
  BY <1>3, <1>7
<1>15. r \in Timeline
  BY <1>2, <1>8, <1>10 DEF Timeline
<1> QED BY <1>11, <1>12, <1>13, <1>14, <1>15

LEMMA NoDays ==
    DOMAIN <<>> = {} /\ Len(<<>>) = 0 /\ <<>> \in Seq(Day) /\ <<>> \in Seq(Dates)
OBVIOUS

LEMMA FromToIs ==
    ASSUME NEW a \in Nat, NEW b \in Nat, a <= b + 1, \A i \in Nat : a <= i /\ i <= b => i \in Dates
    PROVE  FromTo(a, b) \in Seq(Dates)
<1>1. PICK n \in Nat : n = b + 1 - a
  OBVIOUS
<1>2. \A i \in 1..n : a + i - 1 \in Dates
  <2> SUFFICES ASSUME NEW i \in 1..n
               PROVE  a + i - 1 \in Dates
    OBVIOUS
  <2>1. a + i - 1 \in Nat /\ a <= a + i - 1 /\ a + i - 1 <= b
    BY <1>1
  <2> QED BY <2>1
<1>3. FromTo(a, b) = [i \in 1..n |-> a + i - 1]
  BY <1>1 DEF FromTo
<1> QED BY <1>2, <1>3

LEMMA GapIs ==
    ASSUME NEW ds \in Seq(Day), NEW date \in Dates
    PROVE  Gap(ds, date) \in Seq(Dates)
<1> DEFINE has == {ds[i].date : i \in DOMAIN ds}
<1>1. has \subseteq Dates /\ Dates \subseteq Nat /\ MaxDate \in Nat
  BY DaysAre, BoundsAssumption DEF Dates
<1>2. CASE ds = <<>>
  BY <1>2, NoDays DEF Gap
<1>3. CASE ds # <<>>
  <2>1. has # {}
    <3>1. 1 \in DOMAIN ds
      BY <1>3, EmptySeq
    <3> QED BY <3>1
  <2>2. PICK a : a = SetMin(has)
    OBVIOUS
  <2>3. PICK b : b = SetMax(has)
    OBVIOUS
  <2>4. a \in has /\ b \in has /\ \A d \in has : a <= d /\ d <= b
    <3>1. \A d \in has : d <= MaxDate
      BY <1>1 DEF Dates
    <3>2. has \in SUBSET Nat
      BY <1>1
    <3> HIDE DEF has
    <3> QED BY <1>1, <2>1, <2>2, <2>3, <3>1, <3>2, LeastIs, GreatestIs
  <2>5. a \in Dates /\ b \in Dates /\ a \in Nat /\ b \in Nat /\ date \in Nat
    BY <1>1, <2>4
  <2>6. Gap(ds, date) = IF date < a THEN FromTo(date + 1, a - 1)
                        ELSE IF date > b THEN FromTo(b + 1, date - 1) ELSE <<>>
    BY <1>3, <2>2, <2>3 DEF Gap
  <2>7. \A x, y \in Dates : x < y =>
           /\ x + 1 \in Nat /\ y - 1 \in Nat /\ x + 1 <= (y - 1) + 1
           /\ \A i \in Nat : x + 1 <= i /\ i <= y - 1 => i \in Dates
    BY <1>1 DEF Dates
  <2>8. \A x, y \in Dates : x < y => FromTo(x + 1, y - 1) \in Seq(Dates)
    <3> SUFFICES ASSUME NEW x \in Dates, NEW y \in Dates, x < y
                 PROVE  FromTo(x + 1, y - 1) \in Seq(Dates)
      OBVIOUS
    <3>1. PICK p : p = x + 1
      OBVIOUS
    <3>2. PICK q : q = y - 1
      OBVIOUS
    <3>3. p \in Nat /\ q \in Nat /\ p <= q + 1 /\ \A i \in Nat : p <= i /\ i <= q => i \in Dates
      BY <2>7, <3>1, <3>2
    <3> QED BY <3>1, <3>2, <3>3, FromToIs
  <2>9. date > b => b < date
    BY <2>5
  <2> QED BY <2>5, <2>6, <2>8, <2>9, NoDays
<1> QED BY <1>2, <1>3

LEMMA NewDaysReversed ==
    ASSUME NEW s, NEW m \in Nat, NewDays(s, m)
    PROVE  NewDays(Reverse(s), m)
<1>1. PICK n \in Nat : n = Len(s)
  BY DEF NewDays
<1>2. s \in Seq(Day) /\ DOMAIN s = 1..n /\ \A i \in 1..n : s[i] \in Day
  BY <1>1 DEF NewDays
<1>3. PICK r : r = Reverse(s)
  OBVIOUS
<1>4. r = [i \in 1..n |-> s[(n - i) + 1]]
  BY <1>1, <1>3 DEF Reverse
<1>5. \A i \in 1..n : (n - i) + 1 \in 1..n
  BY <1>1
<1>6. r \in Seq(Day) /\ DOMAIN r = 1..n /\ \A i \in 1..n : r[i] = s[(n - i) + 1]
  BY <1>2, <1>4, <1>5
<1>7. DaysDiffer(r)
  <2> SUFFICES ASSUME NEW i \in 1..n, NEW j \in 1..n, r[i].id = r[j].id
               PROVE  i = j
    BY <1>6 DEF DaysDiffer
  <2>1. (n - i) + 1 = (n - j) + 1
    <3>1. PICK a \in 1..n : a = (n - i) + 1
      BY <1>5
    <3>2. PICK b \in 1..n : b = (n - j) + 1
      BY <1>5
    <3>3. s[a].id = s[b].id
      BY <1>6, <3>1, <3>2
    <3> QED BY <1>2, <3>1, <3>2, <3>3 DEF NewDays, DaysDiffer
  <2> QED BY <1>1, <2>1
<1>8. \A i \in 1..n : r[i].nodes = <<>> /\ r[i].id > m
  <2>1. \A i \in 1..n : s[i].nodes = <<>> /\ s[i].id > m
    BY <1>2 DEF NewDays
  <2> QED BY <1>5, <1>6, <2>1
<1> QED BY <1>3, <1>6, <1>7, <1>8 DEF NewDays

\* The new target day and the days of the gap, before or after it.
LEMMA NewDaysJoined ==
    ASSUME NEW m \in Nat, NEW day \in Day, day.id = m + 1, day.nodes = <<>>,
           NEW s, NewDays(s, m + 1), NEW r, r \in {<<day>> \o s, s \o <<day>>}
    PROVE  NewDays(r, m) /\ m + 1 \in DayIds(r)
<1>1. PICK n \in Nat : n = Len(s)
  BY DEF NewDays
<1>2. /\ s \in Seq(Day) /\ DOMAIN s = 1..n
      /\ \A i \in 1..n : s[i].nodes = <<>> /\ s[i].id > m + 1 /\ s[i].id \in Nat
  BY <1>1, DaysAre DEF NewDays
<1>3. <<day>> \in Seq(Day) /\ Len(<<day>>) = 1 /\ <<day>>[1] = day
  OBVIOUS
<1>4. \E x \in 1..(n + 1) :
         /\ r \in Seq(Day) /\ DOMAIN r = 1..(n + 1) /\ r[x] = day
         /\ \A i \in 1..(n + 1) : i # x => \E k \in 1..n :
               /\ r[i] = s[k]
               /\ k = IF i < x THEN i ELSE i - 1
  <2>1. CASE r = <<day>> \o s
    <3>1. /\ r \in Seq(Day) /\ Len(r) = 1 + n
          /\ \A i \in 1..(1 + n) : r[i] = IF i <= 1 THEN <<day>>[i] ELSE s[i - 1]
      BY <1>1, <1>2, <1>3, <2>1, ConcatProperties
    <3>2. DOMAIN r = 1..(n + 1) /\ r[1] = day /\ 1 \in 1..(n + 1)
      BY <1>1, <1>3, <3>1
    <3>3. ASSUME NEW i \in 1..(n + 1), i # 1
          PROVE  i - 1 \in 1..n /\ r[i] = s[i - 1] /\ ~(i < 1)
      BY <1>1, <3>1, <3>3
    <3> QED BY <3>1, <3>2, <3>3
  <2>2. CASE r = s \o <<day>>
    <3>1. /\ r \in Seq(Day) /\ Len(r) = n + 1
          /\ \A i \in 1..(n + 1) : r[i] = IF i <= n THEN s[i] ELSE <<day>>[i - n]
      BY <1>1, <1>2, <1>3, <2>2, ConcatProperties
    <3>2. DOMAIN r = 1..(n + 1) /\ r[n + 1] = day /\ n + 1 \in 1..(n + 1)
      <4>1. (n + 1) - n = 1 /\ ~(n + 1 <= n)
        BY <1>1
      <4> QED BY <1>1, <1>3, <3>1, <4>1
    <3>3. ASSUME NEW i \in 1..(n + 1), i # n + 1
          PROVE  i \in 1..n /\ r[i] = s[i] /\ i < n + 1
      BY <1>1, <3>1, <3>3
    <3> QED BY <3>1, <3>2, <3>3
  <2> QED BY <2>1, <2>2
<1>5. PICK x \in 1..(n + 1) :
         /\ r \in Seq(Day) /\ DOMAIN r = 1..(n + 1) /\ r[x] = day
         /\ \A i \in 1..(n + 1) : i # x => \E k \in 1..n :
               /\ r[i] = s[k]
               /\ k = IF i < x THEN i ELSE i - 1
  BY <1>4
<1>6. \A i \in 1..(n + 1) : r[i].nodes = <<>> /\ r[i].id > m /\ (r[i].id = m + 1 => i = x)
  <2> SUFFICES ASSUME NEW i \in 1..(n + 1)
               PROVE  r[i].nodes = <<>> /\ r[i].id > m /\ (r[i].id = m + 1 => i = x)
    OBVIOUS
  <2>1. CASE i = x
    BY <1>5, <2>1
  <2>2. CASE i # x
    <3>1. PICK k \in 1..n : r[i] = s[k]
      BY <1>5, <2>2
    <3>2. s[k].nodes = <<>> /\ s[k].id > m + 1 /\ s[k].id \in Nat
      BY <1>2
    <3>3. s[k].id > m /\ s[k].id # m + 1
      BY <3>2
    <3> QED BY <3>1, <3>2, <3>3
  <2> QED BY <2>1, <2>2
<1>7. DaysDiffer(r)
  <2> SUFFICES ASSUME NEW i \in 1..(n + 1), NEW j \in 1..(n + 1), r[i].id = r[j].id
               PROVE  i = j
    BY <1>5 DEF DaysDiffer
  <2>1. CASE i = x \/ j = x
    BY <1>5, <1>6, <2>1
  <2>2. CASE i # x /\ j # x
    <3>1. PICK a \in 1..n : r[i] = s[a] /\ a = IF i < x THEN i ELSE i - 1
      BY <1>5, <2>2
    <3>2. PICK b \in 1..n : r[j] = s[b] /\ b = IF j < x THEN j ELSE j - 1
      BY <1>5, <2>2
    <3>3. a = b
      BY <1>2, <3>1, <3>2 DEF NewDays, DaysDiffer
    <3> QED BY <1>1, <2>2, <3>1, <3>2, <3>3
  <2> QED BY <2>1, <2>2
<1>8. m + 1 \in DayIds(r)
  BY <1>5 DEF DayIds
<1> QED BY <1>5, <1>6, <1>7, <1>8 DEF NewDays

\* A new target day is a day of the trip, the old ones stay as they are.
LEMMA WithNewDayIs ==
    ASSUME NEW ds \in Timeline, NEW date \in Dates, NEW s \in 0..Len(ds),
           NEW r, r = WithNewDay(ds, date, s)
    PROVE  /\ r \in Timeline /\ NodesOf(r) = NodesOf(ds)
           /\ DayIds(ds) \subseteq DayIds(r)
           /\ NewDayId(ds) \in DayIds(r) \ DayIds(ds)
           /\ \A i \in DOMAIN ds : \E j \in DOMAIN r : r[j] = ds[i]
           /\ \A j \in DOMAIN r : \/ \E i \in DOMAIN ds : r[j] = ds[i]
                                  \/ r[j].nodes = <<>> /\ r[j].id \notin DayIds(ds)
<1>1. ds \in Seq(Day)
  BY DEF Timeline
<1>2. DayIds(ds) \in SUBSET Nat /\ IsFiniteSet(DayIds(ds))
  BY <1>1, DaysAre, IdsAreFinite DEF DayIds
<1>3. PICK m : m = SetMax(DayIds(ds) \cup {0})
  OBVIOUS
<1>4. PICK gap : gap = Gap(ds, date)
  OBVIOUS
<1>5. gap \in Seq(Dates)
  BY <1>1, <1>4, GapIs
<1>6. PICK n \in Nat : n = Len(gap)
  BY <1>5
<1>7. DOMAIN gap = 1..n /\ \A i \in 1..n : gap[i] \in Dates
  BY <1>5, <1>6
<1>8. PICK ids : ids = Fresh(DayIds(ds), n + 1)
  OBVIOUS
<1>9. m \in Nat /\ \A x \in DayIds(ds) : x <= m
  BY <1>2, <1>3, FreshIs
<1>10. \A k \in 1..(n + 1) : ids[k] = m + k
  BY <1>2, <1>3, <1>8, FreshIs
<1>11. PICK target : target = [id |-> ids[1], date |-> date, nodes |-> <<>>]
  OBVIOUS
<1>12. PICK between : between = [i \in 1..n |-> [id |-> ids[i + 1], date |-> gap[i], nodes |-> <<>>]]
  OBVIOUS
<1>13. target \in Day /\ target.id = m + 1 /\ target.nodes = <<>>
  <2>1. ids[1] = m + 1 /\ m + 1 \in Nat
    BY <1>9, <1>10
  <2>2. <<>> \in Seq(Node)
    OBVIOUS
  <2> QED BY <1>11, <2>1, <2>2 DEF Day
<1>14. NewDays(between, m + 1)
  <2>1. ASSUME NEW i \in 1..n
        PROVE  /\ between[i] \in Day /\ between[i].nodes = <<>>
               /\ between[i].id = m + (i + 1)
    <3>1. ids[i + 1] = m + (i + 1) /\ m + (i + 1) \in Nat
      <4>1. i + 1 \in 1..(n + 1)
        OBVIOUS
      <4>2. PICK k \in 1..(n + 1) : k = i + 1
        BY <4>1
      <4>3. ids[k] = m + k /\ m + k \in Nat
        BY <1>9, <1>10
      <4> QED BY <4>2, <4>3
    <3>2. <<>> \in Seq(Node)
      OBVIOUS
    <3> QED BY <1>7, <1>12, <3>1, <3>2 DEF Day
  <2>2. DOMAIN between = 1..n /\ between \in Seq(Day)
    BY <1>12, <2>1
  <2>3. DaysDiffer(between)
    <3> SUFFICES ASSUME NEW i \in 1..n, NEW j \in 1..n, between[i].id = between[j].id
                 PROVE  i = j
      BY <2>2 DEF DaysDiffer
    <3>1. m + (i + 1) = m + (j + 1)
      BY <2>1
    <3> QED BY <1>9, <3>1
  <2>4. \A i \in 1..n : between[i].id > m + 1
    <3> SUFFICES ASSUME NEW i \in 1..n
                 PROVE  between[i].id > m + 1
      OBVIOUS
    <3>1. m + (i + 1) > m + 1
      BY <1>9
    <3> QED BY <2>1, <3>1
  <2> QED BY <2>1, <2>2, <2>3, <2>4 DEF NewDays
<1>15. PICK block : /\ r = Splice(ds, s, block)
                    /\ \E x \in {between, Reverse(between)} : block \in {<<target>> \o x, x \o <<target>>}
  <2>1. gap = <<>> \/ gap # <<>>
    OBVIOUS
  <2>2. between = [i \in DOMAIN gap |-> [id |-> ids[i + 1], date |-> gap[i], nodes |-> <<>>]]
    BY <1>7, <1>12
  <2> DEFINE earlier == gap # <<>> /\ date < gap[1]
             b == IF s = 0 /\ gap # <<>>
                  THEN <<target>> \o (IF earlier THEN between ELSE Reverse(between))
                  ELSE (IF earlier THEN Reverse(between) ELSE between) \o <<target>>
  <2>3. r = Splice(ds, s, b)
    BY <1>4, <1>6, <1>8, <1>11, <2>2 DEF WithNewDay, Splice
  <2>4. \E x \in {between, Reverse(between)} : b \in {<<target>> \o x, x \o <<target>>}
    OBVIOUS
  <2> QED BY <2>3, <2>4
<1>16. NewDays(block, m) /\ m + 1 \in DayIds(block)
  <2>1. PICK x \in {between, Reverse(between)} : block \in {<<target>> \o x, x \o <<target>>}
    BY <1>15
  <2>2. PICK l \in Nat : l = m + 1
    BY <1>9
  <2>3. NewDays(x, l)
    BY <1>14, <2>1, <2>2, NewDaysReversed
  <2> QED BY <1>9, <1>13, <2>1, <2>2, <2>3, NewDaysJoined
<1>17. /\ r \in Timeline /\ NodesOf(r) = NodesOf(ds)
       /\ DayIds(r) = DayIds(ds) \cup DayIds(block)
       /\ \A i \in DOMAIN ds : \E j \in DOMAIN r : r[j] = ds[i]
       /\ \A j \in DOMAIN r : \/ \E i \in DOMAIN ds : r[j] = ds[i]
                              \/ r[j].nodes = <<>> /\ r[j].id \notin DayIds(ds)
  BY <1>9, <1>15, <1>16, SplicedKeeps
<1>18. NewDayId(ds) = m + 1
  BY <1>2, <1>3, FreshIs DEF NewDayId
<1>19. m + 1 \notin DayIds(ds)
  BY <1>2, <1>9
<1> QED BY <1>16, <1>17, <1>18, <1>19

LEMMA OccupiedAreDays ==
    ASSUME NEW ds, NEW es, es \subseteq Edge, Fills(ds, es)
    PROVE  OccupiedDays(es) \subseteq DayIds(ds)
<1> SUFFICES ASSUME NEW e \in es, NEW i \in 2..(Len(e.span) - 1)
             PROVE  e.span[i] \in DayIds(ds)
  BY DEF OccupiedDays
<1>1. e.span \in Seq(Nat)
  BY DEF Edge
<1>2. i \in DOMAIN e.span
  BY <1>1
<1>3. e.span[i] \in Range(e.span)
  BY <1>2 DEF Range
<1> QED BY <1>3 DEF Fills

\* What a request may name as its target.
LEMMA TargetsAre ==
    ASSUME NEW ds, NEW es, SoundDays(ds, es), NEW g \in Targets(ds, es)
    PROVE  /\ g.ds \in Timeline /\ NodesOf(g.ds) = NodesOf(ds) /\ NodeIds(g.ds) = NodeIds(ds)
           /\ g.day \in DayIds(g.ds) \ OccupiedDays(es)
           /\ DayIds(ds) \subseteq DayIds(g.ds)
           /\ \A i \in DOMAIN ds : \E j \in DOMAIN g.ds : g.ds[j] = ds[i]
           /\ \A j \in DOMAIN g.ds : g.ds[j].id \in OccupiedDays(es) => g.ds[j].nodes = <<>>
<1>1. ds \in Timeline /\ Fills(ds, es) /\ OccupiedDays(es) \subseteq DayIds(ds)
  BY OccupiedAreDays DEF SoundDays
<1>2. CASE \E d \in DayIds(ds) \ OccupiedDays(es) : g = [ds |-> ds, day |-> d]
  BY <1>1, <1>2 DEF Fills
<1>3. ASSUME NEW date \in Dates, NEW s \in 0..Len(ds),
             g = [ds |-> WithNewDay(ds, date, s), day |-> NewDayId(ds)]
      PROVE  /\ g.ds \in Timeline /\ NodesOf(g.ds) = NodesOf(ds)
             /\ g.day \in DayIds(g.ds) \ OccupiedDays(es)
             /\ DayIds(ds) \subseteq DayIds(g.ds)
             /\ \A i \in DOMAIN ds : \E j \in DOMAIN g.ds : g.ds[j] = ds[i]
             /\ \A j \in DOMAIN g.ds : g.ds[j].id \in OccupiedDays(es) => g.ds[j].nodes = <<>>
  <2>1. PICK r : r = WithNewDay(ds, date, s)
    OBVIOUS
  <2>2. /\ r \in Timeline /\ NodesOf(r) = NodesOf(ds)
        /\ DayIds(ds) \subseteq DayIds(r)
        /\ NewDayId(ds) \in DayIds(r) \ DayIds(ds)
        /\ \A i \in DOMAIN ds : \E j \in DOMAIN r : r[j] = ds[i]
        /\ \A j \in DOMAIN r : \/ \E i \in DOMAIN ds : r[j] = ds[i]
                               \/ r[j].nodes = <<>> /\ r[j].id \notin DayIds(ds)
    BY <1>1, <2>1, WithNewDayIs
  <2>3. \A j \in DOMAIN r : r[j].id \in OccupiedDays(es) => r[j].nodes = <<>>
    BY <1>1, <2>2 DEF Fills
  <2>4. g.ds = r /\ g.day = NewDayId(ds)
    BY <1>3, <2>1
  <2> QED BY <1>1, <2>2, <2>3, <2>4
<1>4. \/ \E d \in DayIds(ds) \ OccupiedDays(es) : g = [ds |-> ds, day |-> d]
      \/ \E date \in Dates, s \in 0..Len(ds) :
            g = [ds |-> WithNewDay(ds, date, s), day |-> NewDayId(ds)]
  BY DEF Targets
<1> QED BY <1>2, <1>3, <1>4 DEF NodeIds

-----------------------------------------------------------------------------
(* Mutations.                                                              *)

\* Nodes with a fact keep their row and the id and date of their day.
Stays(before, after) ==
    \A i \in DOMAIN before : \A n \in Range(before[i].nodes) :
        n.actual => \E j \in DOMAIN after :
                       /\ after[j].id = before[i].id /\ after[j].date = before[i].date
                       /\ n \in Range(after[j].nodes)

AllJoin(ds, es) == \A e \in es : Neighbours(ds, e.from, e.to)
EmptyUnder(ds, es) == \A i \in DOMAIN ds : ds[i].id \in OccupiedDays(es) => ds[i].nodes = <<>>
KeepsVisits(ds, r) ==
    \A n \in NodesOf(ds) : n.id \in NodeIds(r) =>
        \E x \in NodesOf(r) : x.id = n.id /\ x.visit = n.visit

\* Other days under transport of which some may have gone.
LEMMA SoundAgain ==
    ASSUME NEW ds, NEW es, SoundDays(ds, es), NEW r \in Timeline, NEW some \in SUBSET es,
           AllJoin(r, some), KeepsVisits(ds, r), DayIds(ds) \subseteq DayIds(r), EmptyUnder(r, es)
    PROVE  SoundDays(r, some)
<1>1. ds \in Timeline /\ es \subseteq Edge /\ Joins(ds, es) /\ Fills(ds, es)
  BY DEF SoundDays
<1>2. OccupiedDays(some) \subseteq OccupiedDays(es)
  BY DEF OccupiedDays
<1>3. Fills(r, some)
  BY <1>1, <1>2 DEF Fills, EmptyUnder
<1>4. ASSUME NEW m \in NodeIds(ds), m \in NodeIds(r), NodeRow(ds, m).visit
      PROVE  NodeRow(r, m).visit
  <2>1. NodeRow(ds, m) \in NodesOf(ds) /\ NodeRow(ds, m).id = m
    BY <1>1, PlaceIs
  <2>2. PICK row : row = NodeRow(ds, m)
    OBVIOUS
  <2>3. row \in NodesOf(ds) /\ row.id = m /\ row.visit /\ row.id \in NodeIds(r)
    BY <1>4, <2>1, <2>2
  <2>4. PICK x \in NodesOf(r) : x.id = m /\ x.visit = row.visit
    BY <2>3 DEF KeepsVisits
  <2>5. NodeRow(r, m) = x
    BY <2>4, PlaceIs
  <2> QED BY <2>3, <2>4, <2>5
<1>5. Joins(r, some)
  <2> SUFFICES ASSUME NEW e \in some
               PROVE  /\ Neighbours(r, e.from, e.to)
                      /\ NodeRow(r, e.from).visit /\ NodeRow(r, e.to).visit
                      /\ \A f \in some : f.from = e.from => f = e
    BY DEF Joins
  <2>1. /\ Neighbours(ds, e.from, e.to)
        /\ NodeRow(ds, e.from).visit /\ NodeRow(ds, e.to).visit
        /\ \A f \in es : f.from = e.from => f = e
    BY <1>1 DEF Joins
  <2>2. Neighbours(r, e.from, e.to)
    BY DEF AllJoin
  <2>3. {e.from, e.to} \subseteq NodeIds(ds) /\ {e.from, e.to} \subseteq NodeIds(r)
    BY <2>1, <2>2 DEF Neighbours
  <2> QED BY <1>4, <2>1, <2>2, <2>3
<1> QED BY <1>1, <1>3, <1>5 DEF SoundDays

\* A node taken off its day and put on one, which may be the same.
LEMMA MovedIs ==
    ASSUME NEW ds \in Timeline, NEW n \in NodeIds(ds), NEW d \in DayIds(ds), NEW k \in Slots(ds, n, d)
    PROVE  LET r == Moved(ds, n, d, k)
           IN  /\ r \in Timeline /\ DOMAIN r = DOMAIN ds /\ DayIds(r) = DayIds(ds)
               /\ NodesOf(r) = NodesOf(ds)
               /\ \A i \in DOMAIN ds :
                     /\ r[i].id = ds[i].id /\ r[i].date = ds[i].date
                     /\ ds[i].id # d /\ ds[i].nodes = <<>> => r[i].nodes = <<>>
                     /\ Range(ds[i].nodes) \ {NodeRow(ds, n)} \subseteq Range(r[i].nodes)
                     /\ ds[i].id = d => NodeRow(ds, n) \in Range(r[i].nodes)
<1>1. PICK u : u = TakeNode(ds, n)
  OBVIOUS
<1>2. PICK row : row = NodeRow(ds, n)
  OBVIOUS
<1>3. /\ u \in Timeline /\ DOMAIN u = DOMAIN ds /\ DayIds(u) = DayIds(ds)
      /\ NodesOf(u) = NodesOf(ds) \ {row}
  BY <1>1, <1>2, TakeIs
<1>4. ASSUME NEW i \in DOMAIN ds
      PROVE  /\ u[i].id = ds[i].id /\ u[i].date = ds[i].date
             /\ ds[i].nodes = <<>> => u[i].nodes = <<>>
             /\ Len(u[i].nodes) = Len(ds[i].nodes) - (IF i = Place(ds, n)[1] THEN 1 ELSE 0)
             /\ Range(u[i].nodes) = Range(ds[i].nodes) \ {row}
  <2>1. TakenDay(u, ds, n, i)
    BY <1>1, TakeIs
  <2> QED BY <1>2, <2>1 DEF TakenDay
<1>5. PICK x : x = DayIndex(ds, d)
  OBVIOUS
<1>6. x \in DOMAIN ds /\ ds[x].id = d /\ DayIndex(u, d) = x
  <2>1. x \in DOMAIN ds /\ ds[x].id = d
    BY <1>5, DayIndexIs
  <2>2. x \in DOMAIN u /\ u[x].id = d
    BY <1>3, <1>4, <2>1
  <2> QED BY <1>3, <2>1, <2>2, DayIndexIs
<1>7. row \in Node /\ row \in NodesOf(ds) /\ row.id = n
  <2>1. row \in NodesOf(ds) /\ row.id = n
    BY <1>2, PlaceIs
  <2> QED BY <2>1, PlacesAre DEF Timeline
<1>8. row.id \notin NodeIds(u)
  <2> SUFFICES ASSUME NEW y \in NodesOf(u), y.id = n
               PROVE  FALSE
    BY <1>7 DEF NodeIds
  <2>1. y \in NodesOf(ds) /\ y # row
    BY <1>3
  <2>2. NodeRow(ds, n) = y
    BY <2>1, PlaceIs
  <2> QED BY <1>2, <2>1, <2>2
<1>9. k \in 1..(Len(u[DayIndex(u, d)].nodes) + 1)
  <2>1. Place(ds, n)[1] \in DOMAIN ds
    <3>1. ds \in Seq(Day) /\ Place(ds, n) \in Places(ds)
      BY PlaceIs DEF Timeline
    <3> QED BY <3>1, PlacesAre
  <2>2. SameDay(ds, n, d) <=> x = Place(ds, n)[1]
    BY <1>5, <1>6, <2>1, DayIndexIs DEF SameDay
  <2>3. Len(ds[x].nodes) \in Nat
    BY <1>6, DaysAre DEF Timeline
  <2>4. k \in 1..(Len(ds[x].nodes) + IF SameDay(ds, n, d) THEN 0 ELSE 1)
    BY <1>5 DEF Slots
  <2>5. Len(u[x].nodes) = Len(ds[x].nodes) - (IF x = Place(ds, n)[1] THEN 1 ELSE 0)
    BY <1>4, <1>6
  <2>6. PICK l \in Nat : l = Len(ds[x].nodes)
    BY <2>3
  <2>7. CASE SameDay(ds, n, d)
    <3>1. Len(u[x].nodes) = l - 1 /\ k \in 1..(l + 0)
      BY <2>2, <2>4, <2>5, <2>6, <2>7
    <3>2. Len(u[x].nodes) + 1 = l /\ k \in 1..l
      BY <3>1
    <3> QED BY <1>6, <3>2
  <2>8. CASE ~SameDay(ds, n, d)
    <3>1. Len(u[x].nodes) = l - 0 /\ k \in 1..(l + 1)
      BY <2>2, <2>4, <2>5, <2>6, <2>8
    <3>2. Len(u[x].nodes) = l
      BY <3>1
    <3> QED BY <1>6, <3>1, <3>2
  <2> QED BY <2>7, <2>8
<1>10. PICK r : r = PutNode(u, d, k, row)
  OBVIOUS
<1>11. /\ r \in Timeline /\ DOMAIN r = DOMAIN u /\ DayIds(r) = DayIds(u)
       /\ \A i \in DOMAIN u :
             /\ r[i].id = u[i].id /\ r[i].date = u[i].date
             /\ u[i].id # d => r[i].nodes = u[i].nodes
             /\ Range(r[i].nodes) = Range(u[i].nodes) \cup (IF u[i].id = d THEN {row} ELSE {})
       /\ NodesOf(r) = NodesOf(u) \cup {row}
  <2>1. u \in Timeline /\ d \in DayIds(u) /\ row \in Node
    BY <1>3, <1>7
  <2>2. r \in Timeline /\ DOMAIN r = DOMAIN u /\ DayIds(r) = DayIds(u)
    BY <1>8, <1>9, <1>10, <2>1, PutIs
  <2>3. \A i \in DOMAIN u :
           /\ r[i].id = u[i].id /\ r[i].date = u[i].date
           /\ u[i].id # d => r[i].nodes = u[i].nodes
           /\ Range(r[i].nodes) = Range(u[i].nodes) \cup (IF u[i].id = d THEN {row} ELSE {})
    <3>1. \A i \in DOMAIN u : PutDay(r, u, d, row, i)
      BY <1>8, <1>9, <1>10, <2>1, PutIs
    <3> QED BY <3>1 DEF PutDay
  <2>4. NodesOf(r) = NodesOf(u) \cup {row}
    BY <1>8, <1>9, <1>10, <2>1, PutIs
  <2> QED BY <2>2, <2>3, <2>4
<1>12. Moved(ds, n, d, k) = r
  BY <1>1, <1>2, <1>10 DEF Moved
<1>13. NodesOf(r) = NodesOf(ds)
  BY <1>3, <1>7, <1>11
<1>14. \A i \in DOMAIN ds :
          /\ r[i].id = ds[i].id /\ r[i].date = ds[i].date
          /\ ds[i].id # d /\ ds[i].nodes = <<>> => r[i].nodes = <<>>
          /\ Range(ds[i].nodes) \ {row} \subseteq Range(r[i].nodes)
          /\ ds[i].id = d => row \in Range(r[i].nodes)
  <2> SUFFICES ASSUME NEW i \in DOMAIN ds
               PROVE  /\ r[i].id = ds[i].id /\ r[i].date = ds[i].date
                      /\ ds[i].id # d /\ ds[i].nodes = <<>> => r[i].nodes = <<>>
                      /\ Range(ds[i].nodes) \ {row} \subseteq Range(r[i].nodes)
                      /\ ds[i].id = d => row \in Range(r[i].nodes)
    OBVIOUS
  <2>1. /\ i \in DOMAIN u /\ u[i].id = ds[i].id /\ u[i].date = ds[i].date
        /\ ds[i].nodes = <<>> => u[i].nodes = <<>>
        /\ Range(ds[i].nodes) \ {row} \subseteq Range(u[i].nodes)
    BY <1>3, <1>4
  <2>2. /\ r[i].id = u[i].id /\ r[i].date = u[i].date
        /\ u[i].id # d => r[i].nodes = u[i].nodes
        /\ Range(r[i].nodes) = Range(u[i].nodes) \cup (IF u[i].id = d THEN {row} ELSE {})
    BY <1>11, <2>1
  <2> QED BY <2>1, <2>2
<1> QED BY <1>2, <1>3, <1>11, <1>12, <1>13, <1>14

\* What most mutations come to.
Change(t) ==
    \E ds, es : SoundDays(ds, es) /\ Stays(days[t], ds) /\ Commit(t, ds, es)

LEMMA SoundAdded ==
    ASSUME NEW ds, NEW es, SoundDays(ds, es), NEW g \in Targets(ds, es), NEW visit \in BOOLEAN,
           NEW k \in 1..(Len(g.ds[DayIndex(g.ds, g.day)].nodes) + 1),
           NEW r, r = PutNode(g.ds, g.day, k, NewNode(ds, visit)),
           NEW some \in SUBSET es, AllJoin(r, some)
    PROVE  SoundDays(r, some) /\ Stays(ds, r)
<1>1. PICK u : u = g.ds
  OBVIOUS
<1>2. PICK d : d = g.day
  OBVIOUS
<1>3. PICK n : n = NewNode(ds, visit)
  OBVIOUS
<1>4. ds \in Timeline
  BY DEF SoundDays
<1>5. /\ u \in Timeline /\ NodesOf(u) = NodesOf(ds) /\ NodeIds(u) = NodeIds(ds)
      /\ d \in DayIds(u) \ OccupiedDays(es)
      /\ DayIds(ds) \subseteq DayIds(u)
      /\ \A i \in DOMAIN ds : \E j \in DOMAIN u : u[j] = ds[i]
      /\ \A j \in DOMAIN u : u[j].id \in OccupiedDays(es) => u[j].nodes = <<>>
  BY <1>1, <1>2, TargetsAre
<1>6. n \in Node /\ n.id \notin NodeIds(u)
  BY <1>3, <1>4, <1>5, NewNodeIs
<1>7. k \in 1..(Len(u[DayIndex(u, d)].nodes) + 1) /\ r = PutNode(u, d, k, n)
  BY <1>1, <1>2, <1>3
<1>8. /\ r \in Timeline /\ DOMAIN r = DOMAIN u /\ DayIds(r) = DayIds(u)
      /\ NodesOf(r) = NodesOf(u) \cup {n}
      /\ \A i \in DOMAIN u : PutDay(r, u, d, n, i)
  BY <1>5, <1>6, <1>7, PutIs
<1>9. \A j \in DOMAIN r : r[j].id \in OccupiedDays(es) => r[j].nodes = <<>>
  BY <1>5, <1>8 DEF PutDay
<1>10. \A x \in NodesOf(ds) : x.id \in NodeIds(r) => \E y \in NodesOf(r) : y.id = x.id /\ y.visit = x.visit
  BY <1>5, <1>8
<1>11. DayIds(ds) \subseteq DayIds(r)
  BY <1>5, <1>8
<1>12. SoundDays(r, some)
  BY <1>8, <1>9, <1>10, <1>11, SoundAgain DEF AllJoin, EmptyUnder, KeepsVisits
<1>13. Stays(ds, r)
  <2> SUFFICES ASSUME NEW i \in DOMAIN ds, NEW x \in Range(ds[i].nodes)
               PROVE  \E j \in DOMAIN r : /\ r[j].id = ds[i].id /\ r[j].date = ds[i].date
                                          /\ x \in Range(r[j].nodes)
    BY DEF Stays
  <2>1. PICK j \in DOMAIN u : u[j] = ds[i]
    BY <1>5
  <2> QED BY <1>8, <2>1 DEF PutDay
<1> QED BY <1>12, <1>13

LEMMA SoundMoved ==
    ASSUME NEW ds, NEW es, SoundDays(ds, es), NEW g \in Targets(ds, es), NEW n \in NodeIds(ds),
           NodeRow(ds, n).actual => g.ds = ds /\ SameDay(ds, n, g.day),
           NEW k \in Slots(g.ds, n, g.day), NEW r, r = Moved(g.ds, n, g.day, k),
           NEW some \in SUBSET es, \A e \in some : Neighbours(r, e.from, e.to)
    PROVE  SoundDays(r, some) /\ Stays(ds, r)
<1>1. PICK u : u = g.ds
  OBVIOUS
<1>2. PICK d : d = g.day
  OBVIOUS
<1>3. PICK row : row = NodeRow(ds, n)
  OBVIOUS
<1>4. ds \in Timeline
  BY DEF SoundDays
<1>5. /\ u \in Timeline /\ NodesOf(u) = NodesOf(ds) /\ NodeIds(u) = NodeIds(ds)
      /\ d \in DayIds(u) \ OccupiedDays(es)
      /\ DayIds(ds) \subseteq DayIds(u)
      /\ \A i \in DOMAIN ds : \E j \in DOMAIN u : u[j] = ds[i]
      /\ \A j \in DOMAIN u : u[j].id \in OccupiedDays(es) => u[j].nodes = <<>>
  BY <1>1, <1>2, TargetsAre
<1>6. NodeRow(u, n) = row
  <2>1. row \in NodesOf(ds) /\ row.id = n
    BY <1>3, <1>4, PlaceIs
  <2> QED BY <1>5, <2>1, PlaceIs
<1>7. k \in Slots(u, n, d) /\ r = Moved(u, n, d, k)
  BY <1>1, <1>2
<1>8. /\ r \in Timeline /\ DOMAIN r = DOMAIN u /\ DayIds(r) = DayIds(u)
      /\ NodesOf(r) = NodesOf(u)
      /\ \A i \in DOMAIN u :
            /\ r[i].id = u[i].id /\ r[i].date = u[i].date
            /\ u[i].id # d /\ u[i].nodes = <<>> => r[i].nodes = <<>>
            /\ Range(u[i].nodes) \ {row} \subseteq Range(r[i].nodes)
            /\ u[i].id = d => row \in Range(r[i].nodes)
  BY <1>5, <1>6, <1>7, MovedIs
<1>9. \A j \in DOMAIN r : r[j].id \in OccupiedDays(es) => r[j].nodes = <<>>
  BY <1>5, <1>8
<1>10. \A x \in NodesOf(ds) : x.id \in NodeIds(r) => \E y \in NodesOf(r) : y.id = x.id /\ y.visit = x.visit
  BY <1>5, <1>8
<1>11. DayIds(ds) \subseteq DayIds(r)
  BY <1>5, <1>8
<1>12. SoundDays(r, some)
  BY <1>8, <1>9, <1>10, <1>11, SoundAgain DEF AllJoin, EmptyUnder, KeepsVisits
<1>13. Stays(ds, r)
  <2> SUFFICES ASSUME NEW i \in DOMAIN ds, NEW x \in Range(ds[i].nodes), x.actual
               PROVE  \E j \in DOMAIN r : /\ r[j].id = ds[i].id /\ r[j].date = ds[i].date
                                          /\ x \in Range(r[j].nodes)
    BY DEF Stays
  <2>1. CASE x # row
    <3>1. PICK j \in DOMAIN u : u[j] = ds[i]
      BY <1>5
    <3> QED BY <1>8, <2>1, <3>1
  <2>2. CASE x = row
    <3>1. u = ds /\ ds[Place(ds, n)[1]].id = d
      BY <1>1, <1>2, <1>3, <2>2 DEF SameDay
    <3>2. PICK q \in DOMAIN ds[i].nodes : x = ds[i].nodes[q]
      BY DEF Range
    <3>3. <<i, q>> \in Places(ds) /\ NodeAt(ds, <<i, q>>) = x
      BY <1>4, <3>2, PlacesAre DEF Timeline
    <3>4. x.id = n
      BY <1>3, <1>4, <2>2, PlaceIs
    <3>5. Place(ds, n) = <<i, q>>
      BY <1>4, <3>3, <3>4, PlaceIs
    <3>6. ds[i].id = d
      BY <3>1, <3>5
    <3> QED BY <1>8, <2>2, <3>1, <3>6
  <2> QED BY <2>1, <2>2
<1> QED BY <1>12, <1>13

LEMMA SoundDeleted ==
    ASSUME NEW ds, NEW es, SoundDays(ds, es), NEW n \in NodeIds(ds), ~NodeRow(ds, n).actual,
           NEW r, r = TakeNode(ds, n),
           NEW some \in SUBSET es, \A e \in some : Neighbours(r, e.from, e.to)
    PROVE  SoundDays(r, some) /\ Stays(ds, r)
<1>1. ds \in Timeline /\ Fills(ds, es)
  BY DEF SoundDays
<1>2. /\ r \in Timeline /\ DOMAIN r = DOMAIN ds /\ DayIds(r) = DayIds(ds)
      /\ NodesOf(r) = NodesOf(ds) \ {NodeRow(ds, n)}
      /\ \A i \in DOMAIN ds : TakenDay(r, ds, n, i)
  BY <1>1, TakeIs
<1>3. \A i \in DOMAIN ds : /\ r[i].id = ds[i].id /\ r[i].date = ds[i].date
                           /\ ds[i].nodes = <<>> => r[i].nodes = <<>>
                           /\ Range(r[i].nodes) = Range(ds[i].nodes) \ {NodeRow(ds, n)}
  BY <1>2 DEF TakenDay
<1>4. \A j \in DOMAIN r : r[j].id \in OccupiedDays(es) => r[j].nodes = <<>>
  BY <1>1, <1>2, <1>3 DEF Fills
<1>5. ASSUME NEW x \in NodesOf(ds), x.id \in NodeIds(r)
      PROVE  \E y \in NodesOf(r) : y.id = x.id /\ y.visit = x.visit
  <2>1. PICK y \in NodesOf(r) : y.id = x.id
    BY <1>5 DEF NodeIds
  <2>2. y \in NodesOf(ds)
    BY <1>2
  <2>3. y = x
    BY <1>1, <2>1, <2>2, PlaceIs
  <2> QED BY <2>1, <2>3
<1>6. SoundDays(r, some)
  BY <1>2, <1>4, <1>5, SoundAgain DEF AllJoin, EmptyUnder, KeepsVisits
<1>7. Stays(ds, r)
  <2> SUFFICES ASSUME NEW i \in DOMAIN ds, NEW x \in Range(ds[i].nodes), x.actual
               PROVE  \E j \in DOMAIN r : /\ r[j].id = ds[i].id /\ r[j].date = ds[i].date
                                          /\ x \in Range(r[j].nodes)
    BY DEF Stays
  <2>1. x # NodeRow(ds, n)
    OBVIOUS
  <2> QED BY <1>2, <1>3, <2>1
<1> QED BY <1>6, <1>7

\* The days as they are, under less transport.
LEMMA SoundReleased ==
    ASSUME NEW ds, NEW es, SoundDays(ds, es), NEW some \in SUBSET es
    PROVE  SoundDays(ds, some) /\ Stays(ds, ds)
<1>1. OccupiedDays(some) \subseteq OccupiedDays(es)
  BY DEF OccupiedDays
<1>2. SoundDays(ds, some)
  BY <1>1 DEF SoundDays, Joins, Fills
<1> QED BY <1>2 DEF Stays

\* New transport between two visits that follow each other, in the place of
\* what joined them.
NoneJoins(es, m, n) == \A e \in es : <<e.from, e.to>> # <<m, n>>

LEMMA SoundJoined ==
    ASSUME NEW ds, NEW es, SoundDays(ds, es), NEW m, NEW n, Neighbours(ds, m, n),
           NodeRow(ds, m).visit, NodeRow(ds, n).visit,
           NEW new \in Edge, new.from = m, new.to = n, Range(new.span) \subseteq DayIds(ds),
           EmptyUnder(ds, {new}), NEW some \in SUBSET es, NoneJoins(some, m, n),
           NEW all, all = some \cup {new}
    PROVE  SoundDays(ds, all) /\ Stays(ds, ds)
<1>1. ds \in Timeline /\ es \subseteq Edge /\ Joins(ds, es) /\ Fills(ds, es)
  BY DEF SoundDays
<1>2. OccupiedDays(some \cup {new}) \subseteq OccupiedDays(es) \cup OccupiedDays({new})
  BY DEF OccupiedDays
<1>3. Fills(ds, some \cup {new})
  BY <1>1, <1>2 DEF Fills, EmptyUnder
<1>4. \A e \in some : e.from # m
  <2> SUFFICES ASSUME NEW e \in some, e.from = m
               PROVE  FALSE
    OBVIOUS
  <2>1. Neighbours(ds, m, e.to)
    BY <1>1 DEF Joins
  <2>2. e.to = n
    BY <1>1, <2>1, OneFollows
  <2> QED BY <2>2 DEF NoneJoins
<1>5. Joins(ds, some \cup {new})
  BY <1>1, <1>4 DEF Joins
<1>6. some \cup {new} \subseteq Edge
  BY <1>1
<1> QED BY <1>1, <1>3, <1>5, <1>6 DEF SoundDays, Stays

LEMMA VisitsAre ==
    ASSUME NEW ds \in Timeline, NEW m \in {x.id : x \in {y \in NodesOf(ds) : y.visit}}
    PROVE  m \in NodeIds(ds) /\ m \in Nat /\ NodeRow(ds, m).visit
<1>1. PICK x \in NodesOf(ds) : x.visit /\ m = x.id
  OBVIOUS
<1>2. m \in NodeIds(ds) /\ NodeRow(ds, m) = x
  BY <1>1, PlaceIs
<1>3. NodeIds(ds) \subseteq Nat
  BY PlacesAre DEF Timeline
<1> QED BY <1>1, <1>2, <1>3

\* The days of an adopted route: those strictly between its ends are empty,
\* or a node on one would stand between the visits.
SpanOf(ds, a, b) == [i \in 1..(b + 1 - a) |-> ds[a + i - 1].id]

LEMMA SpanIs ==
    ASSUME NEW ds \in Timeline, NEW m, NEW n, Neighbours(ds, m, n),
           NEW a, a = Place(ds, m)[1], NEW b, b = Place(ds, n)[1],
           NEW span, span = SpanOf(ds, a, b),
           NEW new, new = [from |-> m, to |-> n, span |-> span]
    PROVE  /\ span \in Seq(Nat) /\ Range(span) \subseteq DayIds(ds)
           /\ \A i \in DOMAIN ds : ds[i].id \in OccupiedDays({new}) => ds[i].nodes = <<>>
<1>1. ds \in Seq(Day) /\ m \in NodeIds(ds) /\ n \in NodeIds(ds)
  BY DEF Timeline, Neighbours
<1>2. DOMAIN ds = 1..Len(ds) /\ Len(ds) \in Nat /\ \A i \in DOMAIN ds : ds[i].id \in Nat /\ ds[i].nodes \in Seq(Node)
  BY <1>1, DaysAre
<1>3. a \in DOMAIN ds /\ b \in DOMAIN ds /\ a \in Nat /\ b \in Nat
  <2>1. Place(ds, m) \in Places(ds) /\ Place(ds, n) \in Places(ds)
    BY <1>1, PlaceIs
  <2> QED BY <1>1, <2>1, PlacesAre
<1>4. a <= b
  <2>1. Before(ds, m, n)
    BY DEF Neighbours
  <2>2. a < b \/ a = b
    BY <2>1 DEF Before
  <2> QED BY <1>3, <2>2
<1>5. PICK l \in Nat : l = b + 1 - a
  BY <1>3, <1>4
<1>6. \A i \in 1..l : a + i - 1 \in DOMAIN ds
  BY <1>2, <1>3, <1>5
<1>7. DOMAIN span = 1..l /\ \A i \in 1..l : span[i] = ds[a + i - 1].id
  BY <1>5 DEF SpanOf
<1>8. span \in Seq(Nat) /\ Len(span) = l
  <2>1. \A i \in 1..l : ds[a + i - 1].id \in Nat
    BY <1>2, <1>6
  <2>2. \A i \in 1..l : span[i] \in Nat
    BY <1>7, <2>1
  <2>3. span = [i \in 1..l |-> span[i]]
    BY <1>5 DEF SpanOf
  <2>4. PICK f : f = span
    OBVIOUS
  <2>5. f \in [1..l -> Nat]
    BY <2>2, <2>3, <2>4
  <2>6. f \in Seq(Nat) /\ Len(f) = l
    BY <2>5
  <2> QED BY <2>4, <2>6
<1>9. Range(span) \subseteq DayIds(ds)
  BY <1>6, <1>7 DEF Range, DayIds
<1>10. ASSUME NEW i \in DOMAIN ds, ds[i].id \in OccupiedDays({new}), ds[i].nodes # <<>>
       PROVE  FALSE
  <2>1. PICK q \in 2..(l - 1) : ds[i].id = span[q]
    <3>1. new.span = span
      OBVIOUS
    <3>2. PICK e \in {new} : ds[i].id \in {e.span[q] : q \in 2..(Len(e.span) - 1)}
      BY <1>10 DEF OccupiedDays
    <3>3. e = new
      BY <3>2
    <3>4. ds[i].id \in {new.span[q] : q \in 2..(Len(new.span) - 1)}
      BY <3>2, <3>3
    <3>5. PICK q \in 2..(Len(new.span) - 1) : ds[i].id = new.span[q]
      BY <3>4
    <3>6. Len(new.span) = l /\ new.span[q] = span[q]
      BY <1>8, <3>1
    <3> QED BY <3>5, <3>6
  <2>2. PICK j \in Nat : j = a + q - 1
    BY <1>3
  <2>3. q \in 1..l /\ a < j /\ j < b /\ j \in DOMAIN ds
    <3>1. q \in 1..l /\ q \in Nat /\ 2 <= q /\ q <= l - 1
      OBVIOUS
    <3>2. a < j /\ j < b
      BY <1>3, <1>5, <2>2, <3>1
    <3>3. j \in DOMAIN ds
      BY <1>6, <2>2, <3>1
    <3> QED BY <3>1, <3>2, <3>3
  <2>4. ds[i].id = ds[j].id
    BY <1>7, <2>1, <2>2, <2>3
  <2>5. i = j
    BY <2>3, <2>4 DEF Timeline, DaysDiffer
  <2>6. 1 \in DOMAIN ds[j].nodes
    <3>1. ds[j].nodes \in Seq(Node) /\ ds[j].nodes # <<>>
      BY <1>2, <1>10, <2>3, <2>5
    <3> QED BY <3>1, EmptySeq
  <2>7. PICK p : p = <<j, 1>>
    OBVIOUS
  <2>8. p \in Places(ds) /\ p[1] = j
    BY <1>1, <2>3, <2>6, <2>7, PlacesAre
  <2>9. PICK k : k = NodeAt(ds, p).id
    OBVIOUS
  <2>10. k \in NodeIds(ds) /\ Place(ds, k) = p
    BY <1>1, <2>8, <2>9, PlacesAre, PlaceIs
  <2>11. Before(ds, m, k) /\ Before(ds, k, n)
    BY <2>3, <2>8, <2>10 DEF Before
  <2> QED BY <2>10, <2>11 DEF Neighbours
<1> QED BY <1>8, <1>9, <1>10

-----------------------------------------------------------------------------
(* What each mutation does is such a change.                               *)

LEMMA NowSound == IInv => \A t \in Trips : SoundDays(days[t], edges[t]) /\ days[t] \in Timeline
BY DEF IInv, SoundDays

LEMMA AdjacentIs ==
    ASSUME NEW ds, NEW es
    PROVE  AdjacentOnly(ds, es) \in SUBSET es /\ \A e \in AdjacentOnly(ds, es) : Neighbours(ds, e.from, e.to)
BY DEF AdjacentOnly

LEMMA AddNodeChanges == ASSUME IInv, NEW t \in Trips, AddNode(t) PROVE Change(t)
<1>1. PICK g \in Targets(days[t], edges[t]), visit \in BOOLEAN :
         \E k \in 1..(Len(g.ds[DayIndex(g.ds, g.day)].nodes) + 1) :
            LET ds == PutNode(g.ds, g.day, k, NewNode(days[t], visit))
            IN Commit(t, ds, AdjacentOnly(ds, edges[t]))
  BY DEF AddNode
<1>2. PICK k \in 1..(Len(g.ds[DayIndex(g.ds, g.day)].nodes) + 1) :
         LET ds == PutNode(g.ds, g.day, k, NewNode(days[t], visit))
         IN Commit(t, ds, AdjacentOnly(ds, edges[t]))
  BY <1>1
<1>3. PICK ds : ds = PutNode(g.ds, g.day, k, NewNode(days[t], visit))
  OBVIOUS
<1>4. PICK some : some = AdjacentOnly(ds, edges[t])
  OBVIOUS
<1>5. Commit(t, ds, some)
  BY <1>2, <1>3, <1>4
<1>6. SoundDays(ds, some) /\ Stays(days[t], ds)
  <2>1. PICK es : es = edges[t]
    OBVIOUS
  <2>2. PICK old : old = days[t]
    OBVIOUS
  <2>3. SoundDays(old, es) /\ some \in SUBSET es /\ AllJoin(ds, some)
    BY <1>4, <2>1, <2>2, NowSound, AdjacentIs DEF AllJoin
  <2>4. /\ ds = PutNode(g.ds, g.day, k, NewNode(old, visit)) /\ g \in Targets(old, es)
        /\ k \in 1..(Len(g.ds[DayIndex(g.ds, g.day)].nodes) + 1) /\ visit \in BOOLEAN
    BY <1>3, <2>1, <2>2
  <2>5. SoundDays(ds, some) /\ Stays(old, ds)
    BY <2>3, <2>4, SoundAdded
  <2> QED BY <2>2, <2>5
<1> QED BY <1>5, <1>6 DEF Change

LEMMA AuthorAddChanges == ASSUME IInv, NEW t \in Trips, AuthorAdd(t) PROVE Change(t)
<1>1. PICK g \in Targets(days[t], edges[t]), visit \in BOOLEAN :
         \E k \in 1..(Len(g.ds[DayIndex(g.ds, g.day)].nodes) + 1) :
            LET ds == PutNode(g.ds, g.day, k, NewNode(days[t], visit))
            IN /\ KeepsTransport(days[t], ds, edges[t])
               /\ Commit(t, ds, edges[t])
  BY DEF AuthorAdd
<1>2. PICK k \in 1..(Len(g.ds[DayIndex(g.ds, g.day)].nodes) + 1) :
         LET ds == PutNode(g.ds, g.day, k, NewNode(days[t], visit))
         IN /\ KeepsTransport(days[t], ds, edges[t])
            /\ Commit(t, ds, edges[t])
  BY <1>1
<1>3. PICK ds : ds = PutNode(g.ds, g.day, k, NewNode(days[t], visit))
  OBVIOUS
<1>4. Commit(t, ds, edges[t]) /\ \A e \in edges[t] : Neighbours(ds, e.from, e.to)
  BY <1>2, <1>3 DEF KeepsTransport
<1>5. SoundDays(days[t], edges[t]) /\ edges[t] \in SUBSET edges[t]
  BY NowSound
<1>6. SoundDays(ds, edges[t]) /\ Stays(days[t], ds)
  <2>1. PICK es : es = edges[t]
    OBVIOUS
  <2>2. PICK old : old = days[t]
    OBVIOUS
  <2>3. PICK some : some = es
    OBVIOUS
  <2>4. /\ SoundDays(old, es) /\ some \in SUBSET es /\ AllJoin(ds, some)
        /\ ds = PutNode(g.ds, g.day, k, NewNode(old, visit)) /\ g \in Targets(old, es)
        /\ k \in 1..(Len(g.ds[DayIndex(g.ds, g.day)].nodes) + 1) /\ visit \in BOOLEAN
    BY <1>3, <1>4, <1>5, <2>1, <2>2, <2>3 DEF AllJoin
  <2>5. SoundDays(ds, some) /\ Stays(old, ds)
    BY <2>4, SoundAdded
  <2> QED BY <2>1, <2>2, <2>3, <2>5
<1> QED BY <1>4, <1>6 DEF Change

LEMMA DeleteNodeChanges == ASSUME IInv, NEW t \in Trips, DeleteNode(t) PROVE Change(t)
<1>1. PICK n \in NodeIds(days[t]) :
         LET ds == TakeNode(days[t], n)
         IN /\ ~NodeRow(days[t], n).actual
            /\ Commit(t, ds, AdjacentOnly(ds, edges[t] \ EndingAt(edges[t], n)))
  BY DEF DeleteNode
<1>2. PICK ds : ds = TakeNode(days[t], n)
  OBVIOUS
<1>3. PICK some : some = AdjacentOnly(ds, edges[t] \ EndingAt(edges[t], n))
  OBVIOUS
<1>4. Commit(t, ds, some) /\ ~NodeRow(days[t], n).actual
  BY <1>1, <1>2, <1>3
<1>5. some \in SUBSET edges[t] /\ \A e \in some : Neighbours(ds, e.from, e.to)
  BY <1>3, AdjacentIs
<1>6. SoundDays(ds, some) /\ Stays(days[t], ds)
  BY <1>2, <1>4, <1>5, NowSound, SoundDeleted
<1> QED BY <1>4, <1>6 DEF Change

LEMMA MoveWithinDayChanges == ASSUME IInv, NEW t \in Trips, MoveWithinDay(t) PROVE Change(t)
<1>1. PICK n \in NodeIds(days[t]) :
         LET d == days[t][Place(days[t], n)[1]].id
         IN /\ d \notin OccupiedDays(edges[t])
            /\ \E k \in Slots(days[t], n, d) :
                  LET ds == Moved(days[t], n, d, k)
                  IN Commit(t, ds, AdjacentOnly(ds, edges[t]))
  BY DEF MoveWithinDay
<1>2. PICK d : d = days[t][Place(days[t], n)[1]].id
  OBVIOUS
<1>3. PICK k \in Slots(days[t], n, d) :
         LET ds == Moved(days[t], n, d, k)
         IN Commit(t, ds, AdjacentOnly(ds, edges[t]))
  BY <1>1, <1>2
<1>4. PICK ds : ds = Moved(days[t], n, d, k)
  OBVIOUS
<1>5. PICK some : some = AdjacentOnly(ds, edges[t])
  OBVIOUS
<1>6. Commit(t, ds, some)
  BY <1>3, <1>4, <1>5
<1>7. PICK g : g = [ds |-> days[t], day |-> d]
  OBVIOUS
<1>8. g \in Targets(days[t], edges[t])
  <2>1. days[t] \in Timeline
    BY NowSound
  <2>2. Place(days[t], n)[1] \in DOMAIN days[t]
    BY <2>1, PlaceIs, PlacesAre DEF Timeline
  <2>3. d \in DayIds(days[t]) \ OccupiedDays(edges[t])
    BY <1>1, <1>2, <2>2 DEF DayIds
  <2> QED BY <1>7, <2>3 DEF Targets
<1>9. g.ds = days[t] /\ g.day = d /\ SameDay(days[t], n, g.day)
  BY <1>2, <1>7 DEF SameDay
<1>10. SoundDays(ds, some) /\ Stays(days[t], ds)
  BY <1>4, <1>5, <1>8, <1>9, NowSound, AdjacentIs, SoundMoved
<1> QED BY <1>6, <1>10 DEF Change

LEMMA MoveAcrossDaysChanges == ASSUME IInv, NEW t \in Trips, MoveAcrossDays(t) PROVE Change(t)
<1>1. PICK n \in NodeIds(days[t]), d \in DayIds(days[t]) \ OccupiedDays(edges[t]) :
         /\ ~NodeRow(days[t], n).actual
         /\ \E k \in Slots(days[t], n, d) :
               LET ds == Moved(days[t], n, d, k)
               IN Commit(t, ds, AdjacentOnly(ds, edges[t]))
  BY DEF MoveAcrossDays
<1>2. PICK k \in Slots(days[t], n, d) :
         LET ds == Moved(days[t], n, d, k)
         IN Commit(t, ds, AdjacentOnly(ds, edges[t]))
  BY <1>1
<1>3. PICK ds : ds = Moved(days[t], n, d, k)
  OBVIOUS
<1>4. PICK some : some = AdjacentOnly(ds, edges[t])
  OBVIOUS
<1>5. Commit(t, ds, some)
  BY <1>2, <1>3, <1>4
<1>6. PICK g : g = [ds |-> days[t], day |-> d]
  OBVIOUS
<1>7. g \in Targets(days[t], edges[t]) /\ g.ds = days[t] /\ g.day = d
  BY <1>6 DEF Targets
<1>8. /\ SoundDays(days[t], edges[t]) /\ ~NodeRow(days[t], n).actual
      /\ some \in SUBSET edges[t] /\ \A e \in some : Neighbours(ds, e.from, e.to)
      /\ k \in Slots(g.ds, n, g.day) /\ ds = Moved(g.ds, n, g.day, k)
  BY <1>1, <1>3, <1>4, <1>7, NowSound, AdjacentIs
<1>9. SoundDays(ds, some) /\ Stays(days[t], ds)
  BY <1>7, <1>8, SoundMoved
<1> QED BY <1>5, <1>9 DEF Change

LEMMA AuthorMoveChanges == ASSUME IInv, NEW t \in Trips, AuthorMove(t) PROVE Change(t)
<1>1. PICK n \in NodeIds(days[t]), g \in Targets(days[t], edges[t]) :
         /\ ~NodeRow(days[t], n).actual
         /\ \E k \in Slots(g.ds, n, g.day) :
               LET ds == Moved(g.ds, n, g.day, k)
               IN /\ KeepsTransport(days[t], ds, edges[t])
                  /\ KeepsExecutedOrder(days[t], ds, n)
                  /\ Commit(t, ds, edges[t])
  BY DEF AuthorMove
<1>2. PICK k \in Slots(g.ds, n, g.day) :
         LET ds == Moved(g.ds, n, g.day, k)
         IN /\ KeepsTransport(days[t], ds, edges[t])
            /\ Commit(t, ds, edges[t])
  BY <1>1
<1>3. PICK ds : ds = Moved(g.ds, n, g.day, k)
  OBVIOUS
<1>4. Commit(t, ds, edges[t]) /\ \A e \in edges[t] : Neighbours(ds, e.from, e.to)
  BY <1>2, <1>3 DEF KeepsTransport
<1>5. SoundDays(days[t], edges[t]) /\ edges[t] \in SUBSET edges[t] /\ ~NodeRow(days[t], n).actual
  BY <1>1, NowSound
<1>6. SoundDays(ds, edges[t]) /\ Stays(days[t], ds)
  <2>1. PICK es : es = edges[t]
    OBVIOUS
  <2>2. PICK old : old = days[t]
    OBVIOUS
  <2>3. /\ SoundDays(old, es) /\ es \in SUBSET es /\ \A e \in es : Neighbours(ds, e.from, e.to)
        /\ n \in NodeIds(old) /\ ~NodeRow(old, n).actual /\ g \in Targets(old, es)
    BY <1>4, <1>5, <2>1, <2>2
  <2>4. SoundDays(ds, es) /\ Stays(old, ds)
    BY <1>3, <2>3, SoundMoved
  <2> QED BY <2>1, <2>2, <2>4
<1> QED BY <1>4, <1>6 DEF Change

LEMMA ReleaseChanges == ASSUME IInv, NEW t \in Trips, ReplacePlace(t) \/ ClearTransport(t) PROVE Change(t)
<1>1. PICK some \in SUBSET edges[t] : Commit(t, days[t], some)
  BY DEF ReplacePlace, ClearTransport
<1>2. SoundDays(days[t], some) /\ Stays(days[t], days[t])
  BY NowSound, SoundReleased
<1> QED BY <1>1, <1>2 DEF Change

LEMMA SetManualTransportChanges == ASSUME IInv, NEW t \in Trips, SetManualTransport(t) PROVE Change(t)
<1>1. PICK m \in {x.id : x \in {y \in NodesOf(days[t]) : y.visit}},
           n \in {x.id : x \in {y \in NodesOf(days[t]) : y.visit}} :
         LET manual == [from |-> m, to |-> n, span |-> <<>>]
         IN /\ Neighbours(days[t], m, n)
            /\ Commit(t, days[t],
                      {e \in edges[t] : <<e.from, e.to>> # <<m, n>>}
                          \cup {manual})
  BY DEF SetManualTransport
<1>2. PICK manual : manual = [from |-> m, to |-> n, span |-> <<>>]
  OBVIOUS
<1>3. PICK some : some = {e \in edges[t] : <<e.from, e.to>> # <<m, n>>}
  OBVIOUS
<1>4. Neighbours(days[t], m, n) /\ Commit(t, days[t], some \cup {manual})
  BY <1>1, <1>2, <1>3
<1>5. m \in Nat /\ n \in Nat /\ NodeRow(days[t], m).visit /\ NodeRow(days[t], n).visit
  BY NowSound, VisitsAre
<1>6. manual \in Edge /\ manual.from = m /\ manual.to = n /\ manual.span = <<>>
  <2>1. <<>> \in Seq(Nat)
    OBVIOUS
  <2> QED BY <1>2, <1>5, <2>1 DEF Edge
<1>7. Range(manual.span) = {} /\ OccupiedDays({manual}) = {}
  <2>1. Range(<<>>) = {}
    BY DEF Range
  <2>2. 2..(Len(<<>>) - 1) = {}
    OBVIOUS
  <2>3. OccupiedDays({manual}) = {}
    BY <1>6, <2>2 DEF OccupiedDays
  <2> QED BY <1>6, <2>1, <2>3
<1>8. some \in SUBSET edges[t] /\ \A e \in some : <<e.from, e.to>> # <<m, n>>
  BY <1>3
<1>9. /\ SoundDays(days[t], edges[t]) /\ Range(manual.span) \subseteq DayIds(days[t])
      /\ \A i \in DOMAIN days[t] : days[t][i].id \in OccupiedDays({manual}) => days[t][i].nodes = <<>>
  BY <1>7, NowSound
<1>10. SoundDays(days[t], some \cup {manual}) /\ Stays(days[t], days[t])
  <2>1. PICK ds : ds = days[t]
    OBVIOUS
  <2>2. PICK es : es = edges[t]
    OBVIOUS
  <2>3. /\ SoundDays(ds, es) /\ Range(manual.span) \subseteq DayIds(ds)
        /\ EmptyUnder(ds, {manual})
        /\ some \in SUBSET es /\ NoneJoins(some, m, n) /\ Neighbours(ds, m, n)
        /\ NodeRow(ds, m).visit /\ NodeRow(ds, n).visit
    BY <1>4, <1>5, <1>8, <1>9, <2>1, <2>2 DEF EmptyUnder, NoneJoins
  <2>4. PICK all : all = some \cup {manual}
    OBVIOUS
  <2>5. manual \in Edge /\ manual.from = m /\ manual.to = n
    BY <1>6
  <2>6. SoundDays(ds, all) /\ Stays(ds, ds)
    BY <2>3, <2>4, <2>5, SoundJoined
  <2> QED BY <2>1, <2>4, <2>6
<1> QED BY <1>4, <1>10 DEF Change

LEMMA AdoptDirectChanges == ASSUME IInv, NEW t \in Trips, AdoptDirect(t) PROVE Change(t)
<1>1. PICK m \in {x.id : x \in {y \in NodesOf(days[t]) : y.visit}},
           n \in {x.id : x \in {y \in NodesOf(days[t]) : y.visit}} :
         LET ds == days[t]
             at == {e \in edges[t] : <<e.from, e.to>> = <<m, n>>}
             first == Place(ds, m)[1]
             last  == Place(ds, n)[1]
             span  == [i \in 1..(last + 1 - first) |-> ds[first + i - 1].id]
         IN /\ Neighbours(ds, m, n)
            /\ Commit(t, ds, (edges[t] \ at)
                                 \cup {[from |-> m, to |-> n, span |-> span]})
  BY DEF AdoptDirect
<1>2. PICK ds : ds = days[t]
  OBVIOUS
<1>3. PICK a : a = Place(ds, m)[1]
  OBVIOUS
<1>4. PICK b : b = Place(ds, n)[1]
  OBVIOUS
<1>5. PICK span : span = SpanOf(ds, a, b)
  OBVIOUS
<1>6. PICK new : new = [from |-> m, to |-> n, span |-> span]
  OBVIOUS
<1>7. PICK some : some = edges[t] \ {e \in edges[t] : <<e.from, e.to>> = <<m, n>>}
  OBVIOUS
<1>8. Neighbours(ds, m, n) /\ Commit(t, days[t], some \cup {new})
  BY <1>1, <1>2, <1>3, <1>4, <1>5, <1>6, <1>7 DEF SpanOf
<1>9. ds \in Timeline /\ SoundDays(ds, edges[t])
  BY <1>2, NowSound
<1>10. m \in Nat /\ n \in Nat /\ NodeRow(ds, m).visit /\ NodeRow(ds, n).visit
  BY <1>2, <1>9, VisitsAre
<1>11. /\ span \in Seq(Nat) /\ Range(span) \subseteq DayIds(ds)
       /\ \A i \in DOMAIN ds : ds[i].id \in OccupiedDays({new}) => ds[i].nodes = <<>>
  BY <1>3, <1>4, <1>5, <1>6, <1>8, <1>9, SpanIs
<1>12. new \in Edge /\ new.from = m /\ new.to = n /\ new.span = span
  BY <1>6, <1>10, <1>11 DEF Edge
<1>13. some \in SUBSET edges[t] /\ \A e \in some : <<e.from, e.to>> # <<m, n>>
  BY <1>7
<1>14. Range(new.span) \subseteq DayIds(ds)
  BY <1>11, <1>12
<1>15. SoundDays(ds, some \cup {new}) /\ Stays(ds, ds)
  <2>1. PICK es : es = edges[t]
    OBVIOUS
  <2>2. /\ SoundDays(ds, es) /\ Range(new.span) \subseteq DayIds(ds) /\ EmptyUnder(ds, {new})
        /\ some \in SUBSET es /\ NoneJoins(some, m, n) /\ Neighbours(ds, m, n)
        /\ NodeRow(ds, m).visit /\ NodeRow(ds, n).visit
    BY <1>8, <1>9, <1>10, <1>11, <1>13, <1>14, <2>1 DEF EmptyUnder, NoneJoins
  <2>3. PICK all : all = some \cup {new}
    OBVIOUS
  <2>4. new \in Edge /\ new.from = m /\ new.to = n
    BY <1>12
  <2>5. SoundDays(ds, all) /\ Stays(ds, ds)
    BY <2>2, <2>3, <2>4, SoundJoined
  <2> QED BY <2>3, <2>5
<1> QED BY <1>2, <1>8, <1>15 DEF Change

\* The days after one of them got other nodes.
RedoneDay(r, ds, x, ns, i) ==
    /\ r[i].id = ds[i].id /\ r[i].date = ds[i].date
    /\ r[i].nodes = IF i = x THEN ns ELSE ds[i].nodes

RedoneAll(r, ds, x, ns) ==
    /\ r \in Seq(Day) /\ DaysDiffer(r) /\ DOMAIN r = DOMAIN ds /\ Len(r) = Len(ds)
    /\ DayIds(r) = DayIds(ds)
    /\ \A i \in DOMAIN ds : RedoneDay(r, ds, x, ns, i)

LEMMA RedoneDays ==
    ASSUME NEW ds \in Seq(Day), DaysDiffer(ds), NEW x \in DOMAIN ds, NEW ns \in Seq(Node),
           NEW r, r = Redone(ds, x, ns)
    PROVE  RedoneAll(r, ds, x, ns)
<1> DEFINE c == Redone(ds, x, ns)
<1>1. /\ c \in Seq(Day) /\ DaysDiffer(c) /\ DOMAIN c = DOMAIN ds /\ Len(c) = Len(ds)
      /\ DayIds(c) = DayIds(ds)
      /\ \A i \in DOMAIN ds : /\ c[i].id = ds[i].id /\ c[i].date = ds[i].date
                              /\ c[i].nodes = IF i = x THEN ns ELSE ds[i].nodes
  BY RedoneIs
<1> HIDE DEF c
<1>2. \A i \in DOMAIN ds : RedoneDay(c, ds, x, ns, i)
  BY <1>1 DEF RedoneDay
<1>3. r = c
  BY DEF c
<1> QED BY <1>1, <1>2, <1>3 DEF RedoneAll

LEMMA SameRange ==
    ASSUME NEW ds \in Seq(Day), NEW r \in Seq(Day), DOMAIN r = DOMAIN ds, Len(r) = Len(ds),
           \A i \in DOMAIN ds : r[i].date = ds[i].date
    PROVE  RangeOfDays(r) = RangeOfDays(ds) /\ (r = <<>> <=> ds = <<>>)
<1>1. r = <<>> <=> ds = <<>>
  <2>1. \A s \in Seq(Day) : s = <<>> <=> Len(s) = 0
    BY EmptySeq
  <2> QED BY <2>1
<1>2. {r[i].date : i \in DOMAIN r} = {ds[i].date : i \in DOMAIN ds}
  OBVIOUS
<1> QED BY <1>1, <1>2 DEF RangeOfDays

\* A fact recorded on a node leaves the timeline as it is.
LEMMA RecordedIs ==
    ASSUME NEW ds, NEW es, SoundDays(ds, es), NEW p \in Places(ds),
           NEW row, row = NodeAt(ds, p), ~row.actual,
           NEW ns, ns = [ds[p[1]].nodes EXCEPT ![p[2]] = [row EXCEPT !.actual = TRUE]],
           NEW r, r = Redone(ds, p[1], ns)
    PROVE  /\ SoundDays(r, es) /\ Stays(ds, r) /\ RangeOfDays(r) = RangeOfDays(ds)
           /\ DOMAIN r = DOMAIN ds /\ Len(r) = Len(ds) /\ r \in Seq(Day)
           /\ r = <<>> <=> ds = <<>>
           /\ \A i \in DOMAIN ds : HasContent(ds[i], es) => HasContent(r[i], es)
<1>1. ds \in Timeline /\ ds \in Seq(Day) /\ DaysDiffer(ds) /\ NodesDiffer(ds) /\ Joins(ds, es) /\ Fills(ds, es)
  BY DEF SoundDays, Timeline
<1>2. PICK x : x = p[1]
  OBVIOUS
<1>3. PICK k : k = p[2]
  OBVIOUS
<1>4. /\ p = <<x, k>> /\ x \in DOMAIN ds /\ k \in DOMAIN ds[x].nodes /\ x \in Nat /\ k \in Nat
      /\ row \in Node /\ row = ds[x].nodes[k]
  BY <1>1, <1>2, <1>3, PlacesAre DEF NodeAt
<1>5. PICK new : new = [row EXCEPT !.actual = TRUE]
  OBVIOUS
<1>6. new \in Node /\ new.id = row.id /\ new.visit = row.visit
  BY <1>4, <1>5 DEF Node
<1>7. PICK s : s = ds[x].nodes
  OBVIOUS
<1>8. s \in Seq(Node) /\ k \in 1..Len(s) /\ ns = [s EXCEPT ![k] = new] /\ r = Redone(ds, x, ns)
  BY <1>1, <1>2, <1>3, <1>4, <1>5, <1>7, DaysAre
<1>9. ns \in Seq(Node) /\ Len(ns) = Len(s) /\ \A j \in 1..Len(s) : ns[j] = IF j = k THEN new ELSE s[j]
  <2> DEFINE c == [s EXCEPT ![k] = new]
  <2>1. /\ c \in Seq(Node) /\ Len(c) = Len(s)
        /\ \A j \in 1..Len(s) : c[j] = IF j = k THEN new ELSE s[j]
    BY <1>6, <1>8, ExceptSeq
  <2>2. ns = c
    BY <1>8
  <2> HIDE DEF c
  <2> QED BY <2>1, <2>2
<1>10. DOMAIN ns = DOMAIN s
  BY <1>8, <1>9, LenProperties
<1>11. /\ r \in Seq(Day) /\ DaysDiffer(r) /\ DOMAIN r = DOMAIN ds /\ Len(r) = Len(ds)
       /\ DayIds(r) = DayIds(ds)
       /\ \A i \in DOMAIN ds : /\ r[i].id = ds[i].id /\ r[i].date = ds[i].date
                               /\ r[i].nodes = IF i = x THEN ns ELSE ds[i].nodes
  <2>1. x \in DOMAIN ds /\ ns \in Seq(Node) /\ r = Redone(ds, x, ns)
    BY <1>4, <1>8, <1>9
  <2>2. RedoneAll(r, ds, x, ns)
    BY <1>1, <2>1, RedoneDays
  <2> QED BY <2>2 DEF RedoneAll, RedoneDay
<1>12. \A i \in DOMAIN ds : DOMAIN r[i].nodes = DOMAIN ds[i].nodes
  BY <1>7, <1>10, <1>11
<1>13. Places(r) = Places(ds)
  <2>1. \A i \in DOMAIN ds : {i} \X DOMAIN r[i].nodes = {i} \X DOMAIN ds[i].nodes
    BY <1>12
  <2>2. ASSUME NEW q \in Places(r)
        PROVE  q \in Places(ds)
    <3>1. PICK i \in DOMAIN r : q \in {i} \X DOMAIN r[i].nodes
      BY DEF Places
    <3>2. i \in DOMAIN ds /\ q \in {i} \X DOMAIN ds[i].nodes
      BY <1>11, <2>1, <3>1
    <3> QED BY <3>2 DEF Places
  <2>3. ASSUME NEW q \in Places(ds)
        PROVE  q \in Places(r)
    <3>1. PICK i \in DOMAIN ds : q \in {i} \X DOMAIN ds[i].nodes
      BY DEF Places
    <3>2. i \in DOMAIN r /\ q \in {i} \X DOMAIN r[i].nodes
      BY <1>11, <2>1, <3>1
    <3> QED BY <3>2 DEF Places
  <2> QED BY <2>2, <2>3
<1>14. ASSUME NEW q \in Places(ds)
       PROVE  /\ NodeAt(r, q) = IF q = p THEN new ELSE NodeAt(ds, q)
              /\ NodeAt(r, q).id = NodeAt(ds, q).id /\ NodeAt(r, q).visit = NodeAt(ds, q).visit
  <2>1. PICK i : i = q[1]
    OBVIOUS
  <2>2. PICK j : j = q[2]
    OBVIOUS
  <2>3. q = <<i, j>> /\ i \in DOMAIN ds /\ j \in DOMAIN ds[i].nodes
    BY <1>1, <2>1, <2>2, PlacesAre
  <2>4. NodeAt(r, q) = r[i].nodes[j] /\ NodeAt(ds, q) = ds[i].nodes[j]
    BY <2>1, <2>2 DEF NodeAt
  <2>5. q = p <=> i = x /\ j = k
    BY <1>4, <2>3
  <2>6. CASE i = x
    <3>1. j \in 1..Len(s) /\ r[i].nodes = ns
      <4>1. j \in DOMAIN s /\ DOMAIN s = 1..Len(s)
        BY <1>7, <1>8, <2>3, <2>6
      <4> QED BY <1>11, <2>3, <2>6, <4>1
    <3>2. r[i].nodes[j] = IF j = k THEN new ELSE s[j]
      BY <1>9, <3>1
    <3> QED BY <1>4, <1>6, <1>7, <2>4, <2>5, <2>6, <3>2
  <2>7. CASE i # x
    <3>1. r[i].nodes = ds[i].nodes
      BY <1>11, <2>3, <2>7
    <3> QED BY <2>4, <2>5, <2>7, <3>1
  <2> QED BY <2>6, <2>7
<1>15. NodesDiffer(r)
  <2> SUFFICES ASSUME NEW q1 \in Places(ds), NEW q2 \in Places(ds),
                      NodeAt(r, q1).id = NodeAt(r, q2).id
               PROVE  q1 = q2
    BY <1>13 DEF NodesDiffer
  <2>1. NodeAt(ds, q1).id = NodeAt(ds, q2).id
    BY <1>14
  <2> QED BY <1>1, <2>1 DEF NodesDiffer
<1>16. r \in Timeline
  BY <1>11, <1>15 DEF Timeline
<1>17. NodeIds(r) = NodeIds(ds)
  <2>1. \A n \in NodeIds(r) : n \in NodeIds(ds)
    <3> SUFFICES ASSUME NEW n \in NodeIds(r)
                 PROVE  n \in NodeIds(ds)
      OBVIOUS
    <3>1. PICK q \in Places(r) : n = NodeAt(r, q).id
      BY <1>11, PlacesAre
    <3>2. q \in Places(ds) /\ n = NodeAt(ds, q).id
      BY <1>13, <1>14, <3>1
    <3> QED BY <1>1, <3>2, PlacesAre
  <2>2. \A n \in NodeIds(ds) : n \in NodeIds(r)
    <3> SUFFICES ASSUME NEW n \in NodeIds(ds)
                 PROVE  n \in NodeIds(r)
      OBVIOUS
    <3>1. PICK q \in Places(ds) : n = NodeAt(ds, q).id
      BY <1>1, PlacesAre
    <3>2. q \in Places(r) /\ n = NodeAt(r, q).id
      BY <1>13, <1>14, <3>1
    <3> QED BY <1>11, <3>2, PlacesAre
  <2> QED BY <2>1, <2>2
<1>18. \A n \in NodeIds(ds) : Place(r, n) = Place(ds, n)
  <2> SUFFICES ASSUME NEW n \in NodeIds(ds)
               PROVE  Place(r, n) = Place(ds, n)
    OBVIOUS
  <2>1. PICK q : q = Place(ds, n)
    OBVIOUS
  <2>2. q \in Places(ds) /\ NodeAt(ds, q).id = n
    BY <1>1, <2>1, PlaceIs
  <2>3. q \in Places(r) /\ NodeAt(r, q).id = n
    BY <1>13, <1>14, <2>2
  <2> QED BY <1>16, <2>1, <2>3, PlaceIs
<1>19. \A m, n \in NodeIds(ds) : Before(r, m, n) <=> Before(ds, m, n)
  BY <1>18 DEF Before
<1>20. \A e \in es : Neighbours(r, e.from, e.to)
  <2> SUFFICES ASSUME NEW e \in es
               PROVE  Neighbours(r, e.from, e.to)
    OBVIOUS
  <2>1. Neighbours(ds, e.from, e.to)
    BY <1>1 DEF Joins
  <2>2. {e.from, e.to} \subseteq NodeIds(ds)
    BY <2>1 DEF Neighbours
  <2> QED BY <1>17, <1>19, <2>1, <2>2 DEF Neighbours
<1>21. ASSUME NEW n \in NodesOf(ds)
       PROVE  \E y \in NodesOf(r) : y.id = n.id /\ y.visit = n.visit
  <2>1. PICK q \in Places(ds) : n = NodeAt(ds, q)
    BY <1>1, PlacesAre
  <2>2. NodeAt(r, q) \in NodesOf(r)
    BY <1>11, <1>13, PlacesAre
  <2> QED BY <1>14, <2>1, <2>2
<1>22. ds[x].nodes # <<>>
  <2>1. DOMAIN <<>> = {}
    OBVIOUS
  <2> QED BY <1>4, <2>1
<1>23. \A j \in DOMAIN r : r[j].id \in OccupiedDays(es) => r[j].nodes = <<>>
  <2>1. \A i \in DOMAIN ds : ds[i].id \in OccupiedDays(es) => ds[i].nodes = <<>>
    BY <1>1 DEF Fills
  <2> SUFFICES ASSUME NEW j \in DOMAIN ds, r[j].id \in OccupiedDays(es)
               PROVE  r[j].nodes = <<>>
    BY <1>11
  <2>2. r[j].id = ds[j].id /\ (j # x => r[j].nodes = ds[j].nodes)
    BY <1>11
  <2>3. ds[j].nodes = <<>>
    BY <2>1, <2>2
  <2>4. j # x
    BY <1>22, <2>3
  <2> QED BY <2>2, <2>3, <2>4
<1>24. SoundDays(r, es)
  <2>1. PICK some : some = es
    OBVIOUS
  <2>2. some \in SUBSET es /\ AllJoin(r, some) /\ DayIds(ds) \subseteq DayIds(r)
    BY <1>11, <1>20, <2>1 DEF AllJoin
  <2>4. KeepsVisits(ds, r) /\ EmptyUnder(r, es)
    BY <1>21, <1>23 DEF KeepsVisits, EmptyUnder
  <2>3. SoundDays(r, some)
    BY <1>16, <2>2, <2>4, SoundAgain
  <2> QED BY <2>1, <2>3
<1>25. Stays(ds, r)
  <2> SUFFICES ASSUME NEW i \in DOMAIN ds, NEW n \in Range(ds[i].nodes), n.actual
               PROVE  \E j \in DOMAIN r : /\ r[j].id = ds[i].id /\ r[j].date = ds[i].date
                                          /\ n \in Range(r[j].nodes)
    BY DEF Stays
  <2>1. PICK q \in DOMAIN ds[i].nodes : n = ds[i].nodes[q]
    BY DEF Range
  <2>2. PICK y : y = <<i, q>>
    OBVIOUS
  <2>3. y \in Places(ds) /\ NodeAt(ds, y) = n /\ y[1] = i /\ y[2] = q
    BY <1>1, <2>1, <2>2, PlacesAre
  <2>4. y # p
    BY <2>3
  <2>5. NodeAt(r, y) = n
    BY <1>14, <2>3, <2>4
  <2>6. r[i].nodes[q] = n /\ q \in DOMAIN r[i].nodes
    BY <1>12, <2>1, <2>3, <2>5 DEF NodeAt
  <2>7. n \in Range(r[i].nodes)
    BY <2>6 DEF Range
  <2> QED BY <1>11, <2>7
<1>26. RangeOfDays(r) = RangeOfDays(ds) /\ (r = <<>> <=> ds = <<>>)
  BY <1>1, <1>11, SameRange
<1>27. \A i \in DOMAIN ds : r[i].nodes = <<>> => ds[i].nodes = <<>>
  <2>1. ns # <<>>
    <3>1. DOMAIN <<>> = {}
      OBVIOUS
    <3> QED BY <1>8, <1>9, <1>10, <3>1
  <2> QED BY <1>11, <2>1
<1>28. \A i \in DOMAIN ds : HasContent(ds[i], es) => HasContent(r[i], es)
  BY <1>11, <1>27 DEF HasContent
<1> QED BY <1>11, <1>24, <1>25, <1>26, <1>28

LEMMA RecordKeeps ==
    ASSUME IInv, NEW t \in Trips, RecordActual(t)
    PROVE  /\ IInv' /\ Stays(days[t], days'[t])
           /\ \A u \in Trips \ {t} : days'[u] = days[u]
           /\ ownership' = ownership
<1>1. TypeOK /\ OwnsItsRange /\ \A u \in Trips : SoundDays(days[u], edges[u])
  BY DEF IInv
<1>2. PICK n \in NodeIds(days[t]) :
         /\ ~NodeRow(days[t], n).actual
         /\ LET p == Place(days[t], n)
            IN days' = [days EXCEPT ![t][p[1]].nodes[p[2]].actual = TRUE]
  BY DEF RecordActual
<1>3. PICK ds : ds = days[t]
  OBVIOUS
<1>4. PICK es : es = edges[t]
  OBVIOUS
<1>5. PICK p : p = Place(ds, n)
  OBVIOUS
<1>6. PICK row : row = NodeAt(ds, p)
  OBVIOUS
<1>7. PICK ns : ns = [ds[p[1]].nodes EXCEPT ![p[2]] = [row EXCEPT !.actual = TRUE]]
  OBVIOUS
<1>8. PICK r : r = Redone(ds, p[1], ns)
  OBVIOUS
<1>9. SoundDays(ds, es) /\ p \in Places(ds) /\ ~row.actual
  BY <1>2, <1>3, <1>4, <1>5, <1>6, NowSound, PlaceIs DEF NodeRow
<1>10. /\ SoundDays(r, es) /\ Stays(ds, r) /\ RangeOfDays(r) = RangeOfDays(ds)
       /\ DOMAIN r = DOMAIN ds /\ Len(r) = Len(ds) /\ r \in Seq(Day)
       /\ (r = <<>> <=> ds = <<>>)
       /\ \A i \in DOMAIN ds : HasContent(ds[i], es) => HasContent(r[i], es)
  BY <1>6, <1>7, <1>8, <1>9, RecordedIs
<1>11. days' = [days EXCEPT ![t] = r]
  <2>1. days' = [days EXCEPT ![t][p[1]].nodes[p[2]].actual = TRUE]
    BY <1>2, <1>3, <1>5
  <2>2. days' = [days EXCEPT ![t] = [days[t] EXCEPT ![p[1]] = [days[t][p[1]] EXCEPT !.nodes =
                   [days[t][p[1]].nodes EXCEPT ![p[2]] = [days[t][p[1]].nodes[p[2]] EXCEPT !.actual = TRUE]]]]]
    BY <2>1
  <2> QED BY <1>3, <1>6, <1>7, <1>8, <2>2 DEF Redone, NodeAt
<1>12. /\ version' = [version EXCEPT ![t] = version[t] + 1] /\ answer' = "SUCCESS"
       /\ edges' = edges /\ range' = range /\ ownership' = ownership
  BY DEF RecordActual
<1>13. days'[t] = r /\ \A u \in Trips \ {t} : days'[u] = days[u]
  BY <1>1, <1>11 DEF TypeOK
<1>14. TypeOK'
  <2>1. days' \in [Trips -> Seq(Day)] /\ version' \in [Trips -> Nat]
    BY <1>1, <1>10, <1>11, <1>12 DEF TypeOK
  <2> QED BY <1>1, <1>12, <2>1 DEF TypeOK
<1>15. (\A u \in Trips : SoundDays(days[u], edges[u]))'
  <2> SUFFICES ASSUME NEW u \in Trips
               PROVE  SoundDays(days[u], edges[u])'
    OBVIOUS
  <2>1. days'[u] = (IF u = t THEN r ELSE days[u]) /\ edges'[u] = edges[u]
    BY <1>12, <1>13
  <2>2. SoundDays(days'[u], edges'[u])
    BY <1>1, <1>4, <1>10, <2>1
  <2> QED BY <2>2
<1>16. OwnsItsRange'
  <2> SUFFICES ASSUME NEW u \in Trips
               PROVE  /\ OwnedBy(ownership', u) = DatesIn(range'[u])
                      /\ range'[u] = RangeOfDays(days'[u])
                      /\ days'[u] # <<>> => /\ HasContent(Head(days'[u]), edges'[u])
                                            /\ HasContent(Last(days'[u]), edges'[u])
    BY DEF OwnsItsRange
  <2>1. /\ OwnedBy(ownership, u) = DatesIn(range[u]) /\ range[u] = RangeOfDays(days[u])
        /\ days[u] # <<>> => /\ HasContent(Head(days[u]), edges[u])
                             /\ HasContent(Last(days[u]), edges[u])
    BY <1>1 DEF OwnsItsRange
  <2>2. CASE u # t
    BY <1>12, <1>13, <2>1, <2>2
  <2>3. CASE u = t
    <3>1. range'[u] = RangeOfDays(r)
      BY <1>3, <1>10, <1>12, <2>1, <2>3
    <3>2. ASSUME r # <<>>
          PROVE  HasContent(Head(r), es) /\ HasContent(Last(r), es)
      <4>1. ds # <<>> /\ ds \in Seq(Day)
        BY <1>9, <1>10, <3>2 DEF SoundDays, Timeline
      <4>2. 1 \in DOMAIN ds /\ Len(ds) \in DOMAIN ds
        BY <4>1, EmptySeq
      <4>3. Head(ds) = ds[1] /\ Last(ds) = ds[Len(ds)] /\ Head(r) = r[1] /\ Last(r) = r[Len(r)]
        BY <1>10, <4>1 DEF Last
      <4>4. HasContent(ds[1], es) /\ HasContent(ds[Len(ds)], es)
        BY <1>3, <1>4, <2>1, <2>3, <4>1, <4>3
      <4> QED BY <1>10, <4>2, <4>3, <4>4
    <3> QED BY <1>4, <1>12, <1>13, <2>1, <2>3, <3>1, <3>2
  <2> QED BY <2>2, <2>3
<1>17. Stays(days[t], days'[t])
  BY <1>3, <1>10, <1>13
<1> QED BY <1>12, <1>13, <1>14, <1>15, <1>16, <1>17 DEF IInv

\* What a mutation leaves of the days, and of the dates of the other trips.
LEMMA ChangeKeeps ==
    ASSUME IInv, NEW t \in Trips, Change(t)
    PROVE  /\ IInv' /\ Stays(days[t], days'[t])
           /\ \A u \in Trips \ {t} : /\ days'[u] = days[u]
                                     /\ OwnedBy(ownership', u) = OwnedBy(ownership, u)
<1>1. PICK ds, es : SoundDays(ds, es) /\ Stays(days[t], ds) /\ Commit(t, ds, es)
  BY DEF Change
<1>2. IInv'
  BY <1>1, CommitKeeps
<1>3. PICK kept : kept = Trimmed(ds, es)
  OBVIOUS
<1>4. PICK r : r = RangeOfDays(kept)
  OBVIOUS
<1>5. /\ days' = [days EXCEPT ![t] = kept] /\ ownership' = Claimed(t, r)
      /\ DatesIn(r) \subseteq OwnedBy(Claimed(t, r), t)
  BY <1>1, <1>3, <1>4 DEF Commit
<1>6. TypeOK
  BY DEF IInv
<1>7. days'[t] = kept /\ \A u \in Trips \ {t} : days'[u] = days[u]
  BY <1>5, <1>6 DEF TypeOK
<1>8. SoundDays(kept, es) /\ \A i \in DOMAIN ds : ds[i].nodes # <<>> => \E j \in DOMAIN kept : kept[j] = ds[i]
  BY <1>1, <1>3, TrimmedKeeps
<1>9. Stays(days[t], kept)
  <2> SUFFICES ASSUME NEW i \in DOMAIN days[t], NEW n \in Range(days[t][i].nodes), n.actual
               PROVE  \E j \in DOMAIN kept :
                         /\ kept[j].id = days[t][i].id /\ kept[j].date = days[t][i].date
                         /\ n \in Range(kept[j].nodes)
    BY DEF Stays
  <2>1. PICK k \in DOMAIN ds : /\ ds[k].id = days[t][i].id /\ ds[k].date = days[t][i].date
                               /\ n \in Range(ds[k].nodes)
    BY <1>1 DEF Stays
  <2>2. ds[k].nodes # <<>>
    <3>1. Range(<<>>) = {}
      BY DEF Range
    <3> QED BY <2>1, <3>1
  <2> QED BY <1>8, <2>1, <2>2
<1>10. \A u \in Trips \ {t} : OwnedBy(ownership', u) = OwnedBy(ownership, u)
  <2>1. kept \in Seq(Day)
    BY <1>8 DEF SoundDays, Timeline
  <2>2. DatesIn(r) \subseteq Dates
    BY <1>4, <2>1, RangeIs
  <2>3. ownership \in [DOMAIN ownership -> Trips] /\ DOMAIN ownership \subseteq Dates
    BY <1>6 DEF TypeOK
  <2> DEFINE own == Claimed(t, r)
  <2>4. \A u \in Trips \ {t} : OwnedBy(own, u) = OwnedBy(ownership, u)
    BY <1>5, <2>2, <2>3, ClaimedIs
  <2>5. ownership' = own
    BY <1>5
  <2> HIDE DEF own
  <2> QED BY <2>4, <2>5
<1> QED BY <1>2, <1>7, <1>9, <1>10

\* Every step leaves the invariant, the facts on their days and the other trips.
LEMMA StepKeeps ==
    ASSUME IInv, Next
    PROVE  /\ IInv'
           /\ \E t \in Trips : /\ Stays(days[t], days'[t])
                               /\ \A u \in Trips \ {t} :
                                     /\ days'[u] = days[u]
                                     /\ OwnedBy(ownership', u) = OwnedBy(ownership, u)
<1>1. PICK t \in Trips :
        \/ AddNode(t) \/ DeleteNode(t)
        \/ MoveWithinDay(t) \/ MoveAcrossDays(t) \/ MoveFails(t)
        \/ ReplacePlace(t) \/ SetManualTransport(t) \/ ClearTransport(t)
        \/ RecordActual(t) \/ AdoptDirect(t)
        \/ AuthorAdd(t) \/ AuthorMove(t)
  BY DEF Next
<1>2. CASE \/ AddNode(t) \/ DeleteNode(t) \/ MoveWithinDay(t) \/ MoveAcrossDays(t)
           \/ ReplacePlace(t) \/ SetManualTransport(t) \/ ClearTransport(t)
           \/ AdoptDirect(t) \/ AuthorAdd(t) \/ AuthorMove(t)
  <2>1. Change(t)
    BY <1>2, AddNodeChanges, DeleteNodeChanges, MoveWithinDayChanges, MoveAcrossDaysChanges,
       ReleaseChanges, SetManualTransportChanges, AdoptDirectChanges, AuthorAddChanges,
       AuthorMoveChanges
  <2> QED BY <2>1, ChangeKeeps
<1>3. CASE RecordActual(t)
  BY <1>3, RecordKeeps
<1>4. CASE MoveFails(t)
  <2>1. UNCHANGED <<version, days, edges, range, ownership>> /\ answer' = "SERVER_ERROR"
    BY <1>4 DEF MoveFails
  <2>2. IInv'
    <3>1. TypeOK'
      BY <2>1 DEF IInv, TypeOK
    <3>2. OwnsItsRange' /\ (\A u \in Trips : SoundDays(days[u], edges[u]))'
      BY <2>1 DEF IInv, OwnsItsRange
    <3> QED BY <3>1, <3>2 DEF IInv
  <2>3. Stays(days[t], days'[t])
    BY <2>1 DEF Stays
  <2> QED BY <2>1, <2>2, <2>3
<1> QED BY <1>1, <1>2, <1>3, <1>4

-----------------------------------------------------------------------------
(* The plans to start from.                                                *)

\* The k-th visit of each of l dates: no two have one number.
LEMMA NumbersDiffer ==
    ASSUME NEW l \in Nat, NEW a \in Nat, NEW b \in Nat, NEW d \in 1..l, NEW e \in 1..l,
           a * l + d = b * l + e
    PROVE  a = b /\ d = e
<1>1. \A x, y \in Nat : x < y => x * l + l <= y * l
  <2> SUFFICES ASSUME NEW x \in Nat, NEW y \in Nat, x < y
               PROVE  x * l + l <= y * l
    OBVIOUS
  <2>1. PICK c \in Nat : y = x + 1 + c
    <3>1. y - x - 1 \in Nat /\ y = x + 1 + (y - x - 1)
      OBVIOUS
    <3> QED BY <3>1
  <2>2. y * l = x * l + l + c * l
    BY <2>1
  <2>3. c * l \in Nat /\ x * l \in Nat
    OBVIOUS
  <2> QED BY <2>2, <2>3
<1>2. a * l \in Nat /\ b * l \in Nat
  OBVIOUS
<1>3. ~(a < b)
  <2> SUFFICES ASSUME a < b
               PROVE  FALSE
    OBVIOUS
  <2>1. a * l + l <= b * l
    BY <1>1
  <2> QED BY <1>2, <2>1
<1>4. ~(b < a)
  <2> SUFFICES ASSUME b < a
               PROVE  FALSE
    OBVIOUS
  <2>1. b * l + l <= a * l
    BY <1>1
  <2> QED BY <1>2, <2>1
<1>5. a = b
  BY <1>3, <1>4
<1> QED BY <1>2, <1>5

LEMMA PlannedIs ==
    ASSUME NEW counts \in Seq(Nat), Len(counts) <= MaxDate
    PROVE  LET r == Planned(counts)
           IN  /\ SoundDays(r, {})
               /\ r # <<>> => HasContent(r[1], {}) /\ HasContent(r[Len(r)], {})
<1>1. PICK l \in Nat : l = Len(counts)
  OBVIOUS
<1>2. DOMAIN counts = 1..l /\ \A d \in 1..l : counts[d] \in Nat
  BY <1>1
<1> DEFINE Visit(d, k) == [id |-> (k - 1) * l + d, visit |-> TRUE, actual |-> FALSE]
           Visits(d) == [k \in 1..counts[d] |-> Visit(d, k)]
<1>3. PICK ds : ds = [d \in 1..l |-> [id |-> d, date |-> d, nodes |-> Visits(d)]]
  OBVIOUS
<1>4. Planned(counts) = Trimmed(ds, {})
  BY <1>1, <1>2, <1>3 DEF Planned
<1>5. ASSUME NEW d \in 1..l
      PROVE  /\ Visits(d) \in Seq(Node) /\ DOMAIN Visits(d) = 1..counts[d]
             /\ \A k \in 1..counts[d] : Visits(d)[k].id = (k - 1) * l + d
  <2>1. ASSUME NEW k \in 1..counts[d]
        PROVE  Visit(d, k) \in Node /\ Visit(d, k).id = (k - 1) * l + d
    <3>1. k - 1 \in Nat
      BY <1>2
    <3>2. PICK j \in Nat : j = k - 1
      BY <3>1
    <3>3. j * l + d \in Nat
      OBVIOUS
    <3> QED BY <3>2, <3>3 DEF Node
  <2>2. PICK f : f = Visits(d)
    OBVIOUS
  <2>3. DOMAIN f = 1..counts[d] /\ \A k \in 1..counts[d] : f[k] = Visit(d, k)
    BY <2>2
  <2> HIDE DEF Visit
  <2>4. f = [k \in 1..counts[d] |-> f[k]] /\ \A k \in 1..counts[d] : f[k] \in Node
    BY <2>1, <2>2, <2>3
  <2>5. f \in [1..counts[d] -> Node] /\ counts[d] \in Nat
    BY <1>2, <2>4
  <2>6. f \in Seq(Node)
    BY <2>5
  <2> QED BY <2>1, <2>2, <2>3, <2>6
<1> HIDE DEF Visits, Visit
<1>6. DOMAIN ds = 1..l /\ \A d \in 1..l : /\ ds[d] \in Day /\ ds[d].id = d /\ ds[d].nodes = Visits(d)
  <2>1. \A d \in 1..l : d \in Dates /\ d \in Nat
    BY <1>1, BoundsAssumption DEF Dates
  <2> QED BY <1>3, <1>5, <2>1 DEF Day
<1>7. ds \in Seq(Day)
  <2>1. ds = [d \in 1..l |-> ds[d]]
    BY <1>3
  <2>2. ds \in [1..l -> Day]
    BY <1>6, <2>1
  <2> QED BY <2>2
<1>8. DaysDiffer(ds)
  BY <1>6 DEF DaysDiffer
<1>9. NodesDiffer(ds)
  <2> SUFFICES ASSUME NEW p \in Places(ds), NEW q \in Places(ds), NodeAt(ds, p).id = NodeAt(ds, q).id
               PROVE  p = q
    BY DEF NodesDiffer
  <2>1. ASSUME NEW y \in Places(ds)
        PROVE  /\ y = <<y[1], y[2]>> /\ y[1] \in 1..l /\ y[2] - 1 \in Nat /\ y[2] \in Nat
               /\ NodeAt(ds, y).id = (y[2] - 1) * l + y[1]
    <3>1. y = <<y[1], y[2]>> /\ y[1] \in 1..l /\ y[2] \in DOMAIN ds[y[1]].nodes
      BY <1>6, <1>7, PlacesAre
    <3>2. PICK d \in 1..l : d = y[1]
      BY <3>1
    <3>3. PICK k : k = y[2]
      OBVIOUS
    <3>4. k \in 1..counts[d] /\ ds[d].nodes[k].id = (k - 1) * l + d
      <4>1. k \in DOMAIN ds[d].nodes /\ ds[d].nodes = Visits(d)
        BY <1>6, <3>1, <3>2, <3>3
      <4> QED BY <1>5, <4>1
    <3>5. k \in Nat /\ k - 1 \in Nat
      BY <1>2, <3>4
    <3> QED BY <3>1, <3>2, <3>3, <3>4, <3>5 DEF NodeAt
  <2>2. PICK a \in Nat : a = p[2] - 1
    BY <2>1
  <2>3. PICK b \in Nat : b = q[2] - 1
    BY <2>1
  <2>4. PICK d \in 1..l : d = p[1]
    BY <2>1
  <2>5. PICK e \in 1..l : e = q[1]
    BY <2>1
  <2>6. a * l + d = b * l + e
    BY <2>1, <2>2, <2>3, <2>4, <2>5
  <2>7. a = b /\ d = e
    BY <2>6, NumbersDiffer
  <2>8. p[2] = q[2]
    <3>1. p[2] \in Nat /\ q[2] \in Nat
      BY <2>1
    <3> QED BY <2>2, <2>3, <2>7, <3>1
  <2> QED BY <2>1, <2>4, <2>5, <2>7, <2>8
<1>10. SoundDays(ds, {})
  <2>1. OccupiedDays({}) = {}
    BY DEF OccupiedDays
  <2> QED BY <1>7, <1>8, <1>9, <2>1 DEF SoundDays, Timeline, Joins, Fills
<1>11. PICK r : r = Trimmed(ds, {})
  OBVIOUS
<1>12. SoundDays(r, {}) /\ (r # <<>> => HasContent(r[1], {}) /\ HasContent(r[Len(r)], {}))
  BY <1>10, <1>11, TrimmedKeeps
<1> QED BY <1>4, <1>11, <1>12

LEMMA Starting == Init => IInv
<1> SUFFICES ASSUME Init
             PROVE  IInv
  OBVIOUS
<1>1. PICK g \in Given : days = [t \in Trips |-> Planned(g[t])]
  BY DEF Init
<1>2. /\ version = [t \in Trips |-> 1] /\ edges = [t \in Trips |-> {}]
      /\ range = [t \in Trips |-> RangeOfDays(days[t])]
      /\ ownership = [d \in UNION {DatesIn(range[t]) : t \in Trips} |->
                        CHOOSE t \in Trips : d \in DatesIn(range[t])]
      /\ answer = "SUCCESS"
  BY DEF Init
<1>3. ASSUME NEW t \in Trips
      PROVE  /\ SoundDays(days[t], edges[t]) /\ days[t] \in Seq(Day)
             /\ days[t] # <<>> => /\ HasContent(Head(days[t]), edges[t])
                                  /\ HasContent(Last(days[t]), edges[t])
             /\ range[t] = RangeOfDays(days[t])
             /\ range[t] \in {<<>>} \cup (Dates \X Dates) /\ DatesIn(range[t]) \subseteq Dates
  <2>1. PICK counts : counts = g[t]
    OBVIOUS
  <2>2. counts \in Seq(Nat) /\ Len(counts) <= MaxDate
    BY <2>1, GivenAssumption
  <2>3. PICK r : r = Planned(counts)
    OBVIOUS
  <2>4. SoundDays(r, {}) /\ (r # <<>> => HasContent(r[1], {}) /\ HasContent(r[Len(r)], {}))
    BY <2>2, <2>3, PlannedIs
  <2>5. days[t] = r /\ edges[t] = {} /\ range[t] = RangeOfDays(r)
    BY <1>1, <1>2, <2>1, <2>3
  <2>6. r \in Seq(Day)
    BY <2>4 DEF SoundDays, Timeline
  <2>7. RangeOfDays(r) \in {<<>>} \cup (Dates \X Dates) /\ DatesIn(RangeOfDays(r)) \subseteq Dates
    BY <2>6, RangeIs
  <2>8. Head(r) = r[1] /\ Last(r) = r[Len(r)]
    BY <2>6 DEF Last
  <2> QED BY <2>4, <2>5, <2>6, <2>7, <2>8
<1>4. DOMAIN ownership = UNION {DatesIn(range[t]) : t \in Trips}
  BY <1>2
<1>5. ASSUME NEW t \in Trips, NEW d \in DatesIn(range[t])
      PROVE  d \in DOMAIN ownership /\ ownership[d] = t
  <2>1. d \in DOMAIN ownership /\ ownership[d] = CHOOSE u \in Trips : d \in DatesIn(range[u])
    BY <1>2, <1>4
  <2>2. ownership[d] \in Trips /\ d \in DatesIn(range[ownership[d]])
    BY <1>5, <2>1
  <2>3. PICK u \in Trips : u = ownership[d]
    BY <2>2
  <2>4. ASSUME u # t
        PROVE  DatesIn(range[t]) \cap DatesIn(range[u]) = {}
    <3>1. DatesIn(RangeOfDays(Planned(g[t]))) \cap DatesIn(RangeOfDays(Planned(g[u]))) = {}
      BY <2>4, GivenAssumption
    <3> QED BY <1>1, <1>2, <3>1
  <2> QED BY <1>5, <2>1, <2>2, <2>3, <2>4
<1>6. \A d \in DOMAIN ownership : d \in Dates /\ \E t \in Trips : d \in DatesIn(range[t]) /\ ownership[d] = t
  BY <1>3, <1>4, <1>5
<1>7. \A t \in Trips : OwnedBy(ownership, t) = DatesIn(range[t])
  BY <1>5, <1>6 DEF OwnedBy
<1>8. TypeOK
  <2>1. days \in [Trips -> Seq(Day)]
    BY <1>1, <1>3
  <2>2. range \in [Trips -> {<<>>} \cup (Dates \X Dates)]
    BY <1>2, <1>3
  <2>3. ownership \in [DOMAIN ownership -> Trips]
    <3>1. ownership = [d \in DOMAIN ownership |-> ownership[d]]
      BY <1>2
    <3> QED BY <1>6, <3>1
  <2>4. version \in [Trips -> Nat] /\ edges \in [Trips -> SUBSET Edge]
    BY <1>2
  <2> QED BY <1>2, <1>6, <2>1, <2>2, <2>3, <2>4 DEF TypeOK
<1>9. OwnsItsRange
  BY <1>3, <1>7 DEF OwnsItsRange
<1> QED BY <1>3, <1>8, <1>9 DEF IInv

-----------------------------------------------------------------------------
(* The results.                                                            *)

LEMMA Stepping == IInv /\ [Next]_vars => IInv'
<1> SUFFICES ASSUME IInv, [Next]_vars
             PROVE  IInv'
  OBVIOUS
<1>1. CASE Next
  BY <1>1, StepKeeps
<1>2. CASE UNCHANGED vars
  <2>1. /\ version' = version /\ days' = days /\ edges' = edges /\ range' = range
        /\ ownership' = ownership /\ answer' = answer
    BY <1>2 DEF vars
  <2>2. TypeOK'
    BY <2>1 DEF IInv, TypeOK
  <2>3. OwnsItsRange' /\ (\A u \in Trips : SoundDays(days[u], edges[u]))'
    BY <2>1 DEF IInv, OwnsItsRange
  <2> QED BY <2>2, <2>3 DEF IInv
<1> QED BY <1>1, <1>2

\* The inductive invariant: sound days and transport, and the calendar.
THEOREM Invariance == Spec => []IInv
BY Starting, Stepping, PTL DEF Spec

\* The types of the rows.
THEOREM Typing == Spec => []TypeOK
<1>1. IInv => TypeOK
  BY DEF IInv
<1> QED BY <1>1, Invariance, PTL

\* The dates of a trip are those of its range, which begins and ends with
\* content, after any mutations of any trips of the owner
\* (reconcileDateOwnership).
THEOREM TripsOwnTheirRange == Spec => []OwnsItsRange
<1>1. IInv => OwnsItsRange
  BY DEF IInv
<1> QED BY <1>1, Invariance, PTL

\* Transport joins two visits that follow each other, whatever is put between
\* them, moved or taken away.
THEOREM TransportStaysJoined == Spec => []TransportJoinsNeighbours
<1>1. IInv => TransportJoinsNeighbours
  BY DEF IInv, SoundDays, Joins, TransportJoinsNeighbours
<1> QED BY <1>1, Invariance, PTL

\* No mutation puts a node on a day that transport fills, and no such day is
\* trimmed away.
THEOREM FilledDaysStayEmpty == Spec => []OccupiedDaysAreEmpty
<1>1. IInv => OccupiedDaysAreEmpty
  BY DEF IInv, SoundDays, Fills, OccupiedDaysAreEmpty
<1> QED BY <1>1, Invariance, PTL

\* A node with a fact keeps its day, and the day its date.
THEOREM FactsStay == Spec => FactsKeepTheirDay
<1> DEFINE Kept == \A t \in Trips : \A i \in DOMAIN days[t] :
                      \A n \in Range(days[t][i].nodes) :
                         n.actual => \E j \in DOMAIN days'[t] :
                                        /\ days'[t][j].id = days[t][i].id
                                        /\ days'[t][j].date = days[t][i].date
                                        /\ n \in Range(days'[t][j].nodes)
<1>1. (\A t \in Trips : Stays(days[t], days'[t])) => Kept
  BY DEF Stays
<1>2. \A u \in Trips : days'[u] = days[u] => Stays(days[u], days'[u])
  BY DEF Stays
<1>3. IInv /\ [Next]_vars => [Kept]_vars
  <2> SUFFICES ASSUME IInv, Next
               PROVE  Kept
    OBVIOUS
  <2>1. PICK t \in Trips : Stays(days[t], days'[t]) /\ \A u \in Trips \ {t} : days'[u] = days[u]
    BY StepKeeps
  <2>2. \A u \in Trips : Stays(days[u], days'[u])
    BY <1>2, <2>1
  <2> HIDE DEF Kept
  <2> QED BY <1>1, <2>2
<1> HIDE DEF Kept
<1>4. Spec => [][Kept]_vars
  BY <1>3, Invariance, PTL DEF Spec
<1> QED BY <1>4 DEF FactsKeepTheirDay, Kept

\* The calendar of the owner is kept: every step changes the run of dates of one
\* trip at most, to dates no other trip holds.
THEOREM CalendarIsKept == Spec => CalendarSpec
<1> DEFINE span == [t \in Trips |-> OwnedBy(ownership, t)]
<1> DEFINE RunOf(t) == span[t] \in Calendar!Runs /\ \A u \in Trips : t # u => span[t] \cap span[u] = {}
           InRuns == \A t \in Trips : RunOf(t)
<1>1. OwnsItsRange /\ TypeOK => InRuns
  <2> SUFFICES ASSUME OwnsItsRange, TypeOK, NEW t \in Trips
               PROVE  RunOf(t)
    OBVIOUS
  <2>1. span[t] = DatesIn(range[t])
    BY DEF OwnsItsRange
  <2>2. range[t] \in {<<>>} \cup (Dates \X Dates)
    BY DEF TypeOK
  <2>3. span[t] \in Calendar!Runs
    <3>1. CASE range[t] = <<>>
      BY <2>1, <3>1 DEF DatesIn, Calendar!Runs
    <3>2. CASE range[t] # <<>>
      <4>1. PICK a, b \in Dates : range[t] = <<a, b>>
        BY <2>2, <3>2
      <4>2. span[t] = a..b
        BY <2>1, <3>2, <4>1 DEF DatesIn
      <4> QED BY <4>2 DEF Calendar!Runs, Dates
    <3> QED BY <3>1, <3>2
  <2>4. \A u \in Trips : t # u => span[t] \cap span[u] = {}
    BY DEF OwnedBy
  <2> QED BY <2>3, <2>4
<1>2. Init => Calendar!Init
  <2> SUFFICES ASSUME Init
               PROVE  Calendar!Init
    OBVIOUS
  <2>1. TypeOK /\ OwnsItsRange
    BY Starting DEF IInv
  <2> QED BY <1>1, <2>1 DEF Calendar!Init
<1>3. IInv /\ [Next]_vars => [Calendar!Next]_span
  <2> SUFFICES ASSUME IInv, [Next]_vars
               PROVE  [Calendar!Next]_span
    OBVIOUS
  <2>1. CASE UNCHANGED vars
    BY <2>1 DEF vars
  <2>2. CASE Next
    <3>1. IInv'
      BY <2>2, StepKeeps
    <3>2. PICK t \in Trips : \A u \in Trips \ {t} : OwnedBy(ownership', u) = OwnedBy(ownership, u)
      BY <2>2, StepKeeps
    <3>3. PICK run : run = OwnedBy(ownership', t)
      OBVIOUS
    <3>4. OwnsItsRange' /\ TypeOK'
      BY <3>1 DEF IInv
    <3>5. run \in Calendar!Runs
      <4>1. (OwnsItsRange /\ TypeOK => InRuns)'
        <5> HIDE DEF InRuns
        <5> QED BY <1>1, PTL
      <4>2. InRuns'
        BY <3>4, <4>1
      <4>3. span'[t] = run /\ span'[t] \in Calendar!Runs
        BY <3>3, <4>2 DEF Calendar!Runs
      <4> QED BY <4>3
    <3>6. \A u \in Trips \ {t} : span[u] \cap run = {}
      BY <3>2, <3>3 DEF OwnedBy
    <3>7. span' = [span EXCEPT ![t] = run]
      BY <3>2, <3>3
    <3>8. Calendar!Hold(t)
      BY <3>5, <3>6, <3>7 DEF Calendar!Hold
    <3> QED BY <3>8 DEF Calendar!Next
  <2> QED BY <2>1, <2>2
<1> QED BY <1>2, <1>3, Invariance, PTL DEF Spec, CalendarSpec, Calendar!Spec

(***************************************************************************)
(* RouteQuery: the windows of a place, the floor of a query and the        *)
(* ranking of its answers, for any requirements, facts, stays and queries. *)
(* They are functions of the input, so all that has to be invariant is     *)
(* what the input is.                                                      *)
(***************************************************************************)
CONSTANTS Instants, Durations, Lookback, MaxFacts, Requests
VARIABLES plan, stay, suggestion, request

Query == INSTANCE RouteQuery

\* What the variables are; one requirement or value by slot, at most one stay of
\* either kind.
QueryInv ==
    /\ plan \in [DOMAIN plan -> Instants] /\ DOMAIN plan \subseteq Query!Slots
    /\ stay \in SUBSET Durations /\ \A x, y \in stay : x = y
    /\ suggestion \in SUBSET Durations /\ \A x, y \in suggestion : x = y
    /\ request \in Requests

\* They are at the start.
LEMMA QueryInit == Query!Init => QueryInv
<1> SUFFICES ASSUME Query!Init PROVE QueryInv
  OBVIOUS
<1>1. DOMAIN plan = {} /\ plan \in [{} -> Instants]
  BY DEF Query!Init
<1> QED BY <1>1 DEF Query!Init, QueryInv

\* An upsert keeps the plan a map of slots.
LEMMA WithFact ==
    ASSUME QueryInv, NEW s \in Query!Slots, NEW t \in Instants, plan' = Query!With(s, t)
    PROVE  plan' \in [DOMAIN plan' -> Instants] /\ DOMAIN plan' \subseteq Query!Slots
BY DEF QueryInv, Query!With

\* The variables are what QueryInv says at all times: every step is an upsert or a removal.
THEOREM QueryInvariance == Query!Spec => []QueryInv
<1>1. ASSUME QueryInv, [Query!Next]_(Query!vars) PROVE QueryInv'
  <2>1. CASE UNCHANGED Query!vars
    BY <1>1, <2>1 DEF Query!vars, QueryInv
  <2>2. CASE \E p \in Query!Points, op \in Query!Operators, t \in Instants : Query!SetTimeIntent(p, op, t)
    <3>1. PICK p \in Query!Points, op \in Query!Operators, t \in Instants :
            Query!SetTimeIntent(p, op, t)
      BY <2>2
    <3>2. <<"USER", p, op>> \in Query!Slots
      BY DEF Query!Slots
    <3>3. plan' \in [DOMAIN plan' -> Instants] /\ DOMAIN plan' \subseteq Query!Slots
      BY <1>1, <3>1, <3>2, WithFact DEF Query!SetTimeIntent
    <3> QED BY <1>1, <3>1, <3>3 DEF Query!SetTimeIntent, QueryInv
  <2>3. CASE \E p \in Query!Points, op \in Query!Operators : Query!RemoveTimeIntent(p, op)
    BY <1>1, <2>3 DEF Query!RemoveTimeIntent, QueryInv
  <2>4. CASE \E d \in Durations : Query!SetMinDwell(d) \/ Query!SetSystemDwellSuggestion(d)
    BY <1>1, <2>4 DEF Query!SetMinDwell, Query!SetSystemDwellSuggestion, QueryInv
  <2>5. CASE Query!RemoveMinDwell
    BY <1>1, <2>5 DEF Query!RemoveMinDwell, QueryInv
  <2>6. CASE \E s \in Query!Slots, t \in Instants : Query!SetTemporalValue(s, t)
    <3>1. PICK s \in Query!Slots, t \in Instants : Query!SetTemporalValue(s, t)
      BY <2>6
    <3>2. plan' \in [DOMAIN plan' -> Instants] /\ DOMAIN plan' \subseteq Query!Slots
      BY <1>1, <3>1, WithFact DEF Query!SetTemporalValue
    <3> QED BY <1>1, <3>1, <3>2 DEF Query!SetTemporalValue, QueryInv
  <2> QED BY <1>1, <2>1, <2>2, <2>3, <2>4, <2>5, <2>6 DEF Query!Next
<1> QED BY QueryInit, <1>1, PTL DEF Query!Spec

(***************************************************************************)
(* Least and greatest integers.                                            *)
(***************************************************************************)
\* An integer set with a bound has a least or a greatest element.
LEMMA LeastInt ==
    ASSUME NEW S \in SUBSET Int, S # {}, NEW b \in Int, \A n \in S : b <= n
    PROVE  \E m \in S : \A n \in S : m <= n
<1> DEFINE D == {n - b : n \in S}
<1>1. D \in SUBSET Nat /\ D # {}
  <2>1. \A n \in S : n - b \in Nat
    OBVIOUS
  <2> QED BY <2>1
<1>2. PICK d \in D : \A e \in D : d <= e
  BY <1>1, LeastNatural
<1>3. PICK m \in S : d = m - b
  BY <1>2
<1>4. ASSUME NEW n \in S PROVE m <= n
  <2>1. n - b \in D
    OBVIOUS
  <2>2. m - b <= n - b
    BY <1>2, <1>3, <2>1
  <2>3. m \in Int /\ n \in Int
    OBVIOUS
  <2> HIDE DEF D
  <2> QED BY <2>2, <2>3
<1> QED BY <1>4

\* Or a greatest.
LEMMA GreatestInt ==
    ASSUME NEW S \in SUBSET Int, S # {}, NEW b \in Int, \A n \in S : n <= b
    PROVE  \E m \in S : \A n \in S : n <= m
<1> DEFINE D == {0 - n : n \in S}
<1>1. D \in SUBSET Int /\ D # {}
  <2>1. \A n \in S : 0 - n \in Int
    OBVIOUS
  <2> QED BY <2>1
<1>2. \A e \in D : 0 - b <= e
  OBVIOUS
<1>3. PICK d \in D : \A e \in D : d <= e
  <2> HIDE DEF D
  <2>1. 0 - b \in Int
    OBVIOUS
  <2> QED BY <1>1, <1>2, <2>1, LeastInt
<1>4. PICK m \in S : d = 0 - m
  BY <1>3
<1>5. ASSUME NEW n \in S PROVE n <= m
  <2>1. 0 - n \in D
    OBVIOUS
  <2>2. 0 - m <= 0 - n
    BY <1>3, <1>4, <2>1
  <2>3. m \in Int /\ n \in Int
    OBVIOUS
  <2> HIDE DEF D
  <2> QED BY <2>2, <2>3
<1> QED BY <1>5

\* Max and Min choose it.
LEMMA QueryMax ==
    ASSUME NEW S \in SUBSET Int, NEW m \in S, \A n \in S : n <= m
    PROVE  Query!Max(S) = m
<1>1. \A y \in S : m >= y
  OBVIOUS
<1>2. ASSUME NEW x \in S, \A y \in S : x >= y PROVE x = m
  BY <1>2
<1> QED BY <1>1, <1>2 DEF Query!Max

\* And Min.
LEMMA QueryMin ==
    ASSUME NEW S \in SUBSET Int, NEW m \in S, \A n \in S : m <= n
    PROVE  Query!Min(S) = m
<1>1. ASSUME NEW x \in S, \A y \in S : x =< y PROVE x = m
  BY <1>1
<1> QED BY <1>1 DEF Query!Min

\* The last instant and the longest stay that are named.
LEMMA HorizonIs ==
    ASSUME Query!QueryAssumption
    PROVE  /\ Query!Max(Instants) \in Nat /\ \A t \in Instants : t \in Nat /\ t <= Query!Max(Instants)
           /\ Query!Min(Instants) \in Nat /\ Query!Min(Instants) <= Query!Max(Instants)
           /\ Query!Max(Durations) \in Nat
           /\ \A d \in Durations : d \in Nat /\ 0 < d /\ d <= Query!Max(Durations)
<1>1. /\ Instants \in SUBSET Nat /\ Instants # {} /\ IsFiniteSet(Instants)
      /\ Durations \in SUBSET (Nat \ {0}) /\ Durations # {} /\ IsFiniteSet(Durations)
  BY DEF Query!QueryAssumption, Query!IsFiniteSet, IsFiniteSet
<1>2. PICK m \in Instants : \A n \in Instants : n <= m
  BY <1>1, GreatestOfFinite
<1>3. PICK l \in Instants : \A n \in Instants : l <= n
  BY <1>1, LeastNatural
<1>4. PICK d \in Durations : \A n \in Durations : n <= d
  <2>1. Durations \in SUBSET Nat
    BY <1>1
  <2> QED BY <1>1, <2>1, GreatestOfFinite
<1>5. Instants \in SUBSET Int /\ Durations \in SUBSET Int
  BY <1>1
<1>6. Query!Max(Instants) = m
  BY <1>2, <1>5, QueryMax
<1>7. Query!Min(Instants) = l
  BY <1>3, <1>5, QueryMin
<1>8. Query!Max(Durations) = d
  BY <1>4, <1>5, QueryMax
<1> QED BY <1>1, <1>2, <1>3, <1>4, <1>6, <1>7, <1>8

(***************************************************************************)
(* The windows.  Bounds are sets of bases; what they say of the instants   *)
(* is that each is tight: no bound of its point is tighter, and it is one  *)
(* of them or derived by the stay from one of the other point.             *)
(***************************************************************************)
\* The instants that bound a point from below and from above.
Lows(p)  == {plan[s] : s \in {q \in DOMAIN plan : q[2] = p /\ Query!BoundsBelow(q)}}
Highs(p) == {plan[s] : s \in {q \in DOMAIN plan : q[2] = p /\ Query!BoundsAbove(q)}}

\* The intent of the stay, in the bases of what it derives.
Stayed == <<"USER", "STAY", "MIN_DWELL">>

\* Tightest bases of a set of them.
LEMMA GreatestBases ==
    ASSUME NEW B, NEW n \in Int, \A b \in B : b.at \in Int /\ b.at <= n, B # {}
    PROVE  \E g \in Query!Greatest(B) : \A b \in B : b.at <= g.at
<1> DEFINE S == {b.at : b \in B}
<1>1. S \in SUBSET Int /\ S # {} /\ \A x \in S : x <= n
  OBVIOUS
<1>2. PICK m \in S : \A x \in S : x <= m
  <2> HIDE DEF S
  <2> QED BY <1>1, GreatestInt
<1>3. PICK g \in B : g.at = m
  BY <1>2
<1>4. \A b \in B : b.at <= g.at
  BY <1>2, <1>3
<1> QED BY <1>4 DEF Query!Greatest

\* And from above.
LEMMA LeastBases ==
    ASSUME NEW B, NEW n \in Int, \A b \in B : b.at \in Int /\ n <= b.at, B # {}
    PROVE  \E g \in Query!Least(B) : \A b \in B : g.at <= b.at
<1> DEFINE S == {b.at : b \in B}
<1>1. S \in SUBSET Int /\ S # {} /\ \A x \in S : n <= x
  OBVIOUS
<1>2. PICK m \in S : \A x \in S : m <= x
  <2> HIDE DEF S
  <2> QED BY <1>1, LeastInt
<1>3. PICK g \in B : g.at = m
  BY <1>2
<1>4. \A b \in B : b.at \in Int
  OBVIOUS
<1>5. \A b \in B : b.at >= g.at
  BY <1>2, <1>3, <1>4
<1> QED BY <1>4, <1>5 DEF Query!Least

\* Instants are in the range that is named.
InRange(S) == \A v \in S : v \in Nat /\ v <= Query!Max(Instants)

\* The bases of a point, by the instants they have.
BasesOf(B, S) ==
    /\ \A v \in S : \E b \in B : b.at = v
    /\ \A b \in B : b.at \in S /\ b.rule # "MIN_DWELL_FORWARD" /\ b.refs # {}

\* The bases of a point that the stay does not derive.
LEMMA DirectBases ==
    ASSUME Query!QueryAssumption, QueryInv, NEW p
    PROVE  /\ BasesOf(Query!Below(p), Lows(p)) /\ BasesOf(Query!Above(p), Highs(p))
           /\ InRange(Lows(p)) /\ InRange(Highs(p))
<1>1. \A s \in DOMAIN plan : plan[s] \in Instants /\ s[1] \in {"USER", "NODE", "VEHICLE"}
  BY DEF QueryInv, Query!Slots
<1>2. InRange(Lows(p)) /\ InRange(Highs(p))
  BY <1>1, HorizonIs DEF InRange, Lows, Highs
<1>3. \A s : Query!Basis(s).at = plan[s] /\ Query!Basis(s).rule = s[1] /\ Query!Basis(s).refs = {s}
  BY DEF Query!Basis
<1> DEFINE P == {q \in DOMAIN plan : q[2] = p /\ Query!BoundsBelow(q)}
           R == {q \in DOMAIN plan : q[2] = p /\ Query!BoundsAbove(q)}
<1>4. /\ Query!Below(p) = {Query!Basis(s) : s \in P} /\ Lows(p) = {plan[s] : s \in P}
      /\ Query!Above(p) = {Query!Basis(s) : s \in R} /\ Highs(p) = {plan[s] : s \in R}
  BY DEF Query!Below, Query!Above, Lows, Highs
<1>5. P \subseteq DOMAIN plan /\ R \subseteq DOMAIN plan
  OBVIOUS
<1> HIDE DEF P, R
<1>6. BasesOf(Query!Below(p), Lows(p))
  <2>1. \A s \in P : Query!Basis(s) \in Query!Below(p) /\ plan[s] \in Lows(p)
    BY <1>4
  <2>2. \A v \in Lows(p) : \E s \in P : v = plan[s]
    BY <1>4
  <2>3. \A b \in Query!Below(p) : \E s \in P : b = Query!Basis(s)
    BY <1>4
  <2>4. \A s \in P : s[1] # "MIN_DWELL_FORWARD"
    BY <1>1, <1>5
  <2>5. \A s \in P : /\ Query!Basis(s).at \in Lows(p) /\ Query!Basis(s).at = plan[s]
                     /\ Query!Basis(s).rule # "MIN_DWELL_FORWARD" /\ Query!Basis(s).refs # {}
    BY <1>3, <2>1, <2>4
  <2>6. \A v \in Lows(p) : \E b \in Query!Below(p) : b.at = v
    BY <2>1, <2>2, <2>5
  <2>7. \A b \in Query!Below(p) : b.at \in Lows(p) /\ b.rule # "MIN_DWELL_FORWARD" /\ b.refs # {}
    BY <2>3, <2>5
  <2> QED BY <2>6, <2>7 DEF BasesOf
<1>7. BasesOf(Query!Above(p), Highs(p))
  <2>1. \A s \in R : Query!Basis(s) \in Query!Above(p) /\ plan[s] \in Highs(p)
    BY <1>4
  <2>2. \A v \in Highs(p) : \E s \in R : v = plan[s]
    BY <1>4
  <2>3. \A b \in Query!Above(p) : \E s \in R : b = Query!Basis(s)
    BY <1>4
  <2>4. \A s \in R : s[1] # "MIN_DWELL_FORWARD"
    BY <1>1, <1>5
  <2>5. \A s \in R : /\ Query!Basis(s).at \in Highs(p) /\ Query!Basis(s).at = plan[s]
                     /\ Query!Basis(s).rule # "MIN_DWELL_FORWARD" /\ Query!Basis(s).refs # {}
    BY <1>3, <2>1, <2>4
  <2>6. \A v \in Highs(p) : \E b \in Query!Above(p) : b.at = v
    BY <2>1, <2>2, <2>5
  <2>7. \A b \in Query!Above(p) : b.at \in Highs(p) /\ b.rule # "MIN_DWELL_FORWARD" /\ b.refs # {}
    BY <2>3, <2>5
  <2> QED BY <2>6, <2>7 DEF BasesOf
<1> QED BY <1>2, <1>6, <1>7

\* What the stay carries forward: from the latest lower bound of the arrival.
ForwardOf(F) ==
    /\ \A f \in F : /\ \E d \in stay, v \in Lows("ARRIVAL") : f.at = v + d
                    /\ \A d \in stay, v \in Lows("ARRIVAL") : v + d <= f.at
                    /\ f.rule = "MIN_DWELL_FORWARD" /\ Stayed \in f.refs
    /\ stay # {} /\ Lows("ARRIVAL") # {} => F # {}

\* What it carries backward: from the earliest upper bound of the departure.
BackwardOf(F) ==
    /\ \A f \in F : /\ \E d \in stay, v \in Highs("DEPARTURE") : f.at = v - d
                    /\ \A d \in stay, v \in Highs("DEPARTURE") : f.at <= v - d
                    /\ Stayed \in f.refs
    /\ stay # {} /\ Highs("DEPARTURE") # {} => F # {}

\* One derived base for each of the tightest ones (derivedDwellBasis).
LEMMA ByDwellIs ==
    ASSUME NEW rule, NEW up, NEW shift
    PROVE  /\ \A f \in Query!ByDwell(rule, up, shift) : \E g \in up :
                 f.at = g.at + shift /\ f.rule = rule /\ Stayed \in f.refs
           /\ up # {} => Query!ByDwell(rule, up, shift) # {}
<1>1. \A g \in up : g.at \in Query!At(up)
  BY DEF Query!At
<1>2. \A t \in Query!At(up) : \E g \in up : t = g.at
  BY DEF Query!At
<1>3. \A t \in Query!At(up) : Query!ByDwell(rule, up, shift) # {}
  BY DEF Query!ByDwell
<1>4. \A f \in Query!ByDwell(rule, up, shift) : \E t \in Query!At(up) :
         f.at = t + shift /\ f.rule = rule /\ Stayed \in f.refs
  BY DEF Query!ByDwell, Stayed
<1> QED BY <1>1, <1>2, <1>3, <1>4

\* Forward is that.
LEMMA ForwardIs ==
    ASSUME Query!QueryAssumption, QueryInv
    PROVE  ForwardOf(Query!Forward)
<1> DEFINE A == Query!Below("ARRIVAL")
<1>1. BasesOf(A, Lows("ARRIVAL")) /\ InRange(Lows("ARRIVAL"))
  BY DirectBases
<1>2. \A d \in stay : d \in Nat
  BY HorizonIs DEF QueryInv
<1>3. Query!Max(Instants) \in Int
  BY HorizonIs
<1>4. \A b \in A : b.at \in Int /\ b.at <= Query!Max(Instants)
  BY <1>1 DEF BasesOf, InRange
<1>5. A # {} => Query!Greatest(A) # {}
  <2> HIDE DEF A
  <2> QED BY <1>3, <1>4, GreatestBases
<1>6. \A g \in Query!Greatest(A) : g.at \in Lows("ARRIVAL") /\ \A v \in Lows("ARRIVAL") : v <= g.at
  BY <1>1 DEF BasesOf, Query!Greatest
<1>7. \A f \in Query!Forward : \E d \in stay, g \in Query!Greatest(A) :
         f.at = g.at + d /\ f.rule = "MIN_DWELL_FORWARD" /\ Stayed \in f.refs
  BY ByDwellIs DEF Query!Forward
<1>8. \A d \in stay, g \in Query!Greatest(A) : Query!Forward # {}
  BY ByDwellIs DEF Query!Forward
<1>9. stay # {} /\ Lows("ARRIVAL") # {} => Query!Forward # {}
  BY <1>1, <1>5, <1>8 DEF BasesOf
<1>10. \A d, e \in stay : d = e
  BY DEF QueryInv
<1>11. ASSUME NEW f \in Query!Forward
       PROVE  /\ \E d \in stay, v \in Lows("ARRIVAL") : f.at = v + d
              /\ \A d \in stay, v \in Lows("ARRIVAL") : v + d <= f.at
              /\ f.rule = "MIN_DWELL_FORWARD" /\ Stayed \in f.refs
  <2>1. PICK d \in stay, g \in Query!Greatest(A) :
           f.at = g.at + d /\ f.rule = "MIN_DWELL_FORWARD" /\ Stayed \in f.refs
    BY <1>7
  <2>2. g.at \in Lows("ARRIVAL") /\ g.at \in Nat /\ \A v \in Lows("ARRIVAL") : v <= g.at /\ v \in Nat
    BY <1>1, <1>6 DEF InRange
  <2> HIDE DEF A
  <2>3. \A v \in Lows("ARRIVAL") : v + d <= f.at
    BY <1>2, <2>1, <2>2
  <2> QED BY <1>10, <2>1, <2>2, <2>3
<1> QED BY <1>9, <1>11 DEF ForwardOf

\* Backward is that.
LEMMA BackwardIs ==
    ASSUME Query!QueryAssumption, QueryInv
    PROVE  BackwardOf(Query!Backward)
<1> DEFINE A == Query!Above("DEPARTURE")
<1>1. BasesOf(A, Highs("DEPARTURE")) /\ InRange(Highs("DEPARTURE"))
  BY DirectBases
<1>2. \A d \in stay : d \in Nat
  BY HorizonIs DEF QueryInv
<1>4. \A b \in A : b.at \in Int /\ 0 <= b.at
  BY <1>1 DEF BasesOf, InRange
<1>5. A # {} => Query!Least(A) # {}
  <2> HIDE DEF A
  <2>1. 0 \in Int
    OBVIOUS
  <2> QED BY <1>4, <2>1, LeastBases
<1>6. \A g \in Query!Least(A) : g.at \in Highs("DEPARTURE") /\ \A v \in Highs("DEPARTURE") : g.at <= v
  BY <1>1 DEF BasesOf, InRange, Query!Least
<1>7. \A f \in Query!Backward : \E d \in stay, g \in Query!Least(A) :
         f.at = g.at + (0 - d) /\ Stayed \in f.refs
  BY <1>2, ByDwellIs DEF Query!Backward
<1>8. \A d \in stay, g \in Query!Least(A) : Query!Backward # {}
  BY ByDwellIs DEF Query!Backward
<1>9. stay # {} /\ Highs("DEPARTURE") # {} => Query!Backward # {}
  BY <1>1, <1>5, <1>8 DEF BasesOf
<1>10. \A d, e \in stay : d = e
  BY DEF QueryInv
<1>11. ASSUME NEW f \in Query!Backward
       PROVE  /\ \E d \in stay, v \in Highs("DEPARTURE") : f.at = v - d
              /\ \A d \in stay, v \in Highs("DEPARTURE") : f.at <= v - d
              /\ Stayed \in f.refs
  <2>1. PICK d \in stay, g \in Query!Least(A) : f.at = g.at + (0 - d) /\ Stayed \in f.refs
    BY <1>7
  <2>2. g.at \in Highs("DEPARTURE") /\ g.at \in Nat /\ \A v \in Highs("DEPARTURE") : g.at <= v /\ v \in Nat
    BY <1>1, <1>6 DEF InRange
  <2> HIDE DEF A
  <2>3. f.at = g.at - d /\ \A v \in Highs("DEPARTURE") : f.at <= v - d
    BY <1>2, <2>1, <2>2
  <2> QED BY <1>10, <2>1, <2>2, <2>3
<1> QED BY <1>9, <1>11 DEF BackwardOf

\* The bounds of a point, by the instants they stand for: the tightest there is, or
\* that of the other point and the stay.
EarliestOf(p, E) ==
    /\ E = {} <=> /\ Lows(p) = {}
                  /\ p = "DEPARTURE" => stay = {} \/ Lows("ARRIVAL") = {}
    /\ \A b \in E :
          /\ b.at \in Nat /\ b.refs # {}
          /\ \A v \in Lows(p) : v <= b.at
          /\ p = "DEPARTURE" => \A d \in stay, v \in Lows("ARRIVAL") : v + d <= b.at
          /\ \/ b.at \in Lows(p)
             \/ p = "DEPARTURE" /\ \E d \in stay, v \in Lows("ARRIVAL") : b.at = v + d

\* The other side.
LatestOf(p, E) ==
    /\ E = {} <=> /\ Highs(p) = {}
                  /\ p = "ARRIVAL" => stay = {} \/ Highs("DEPARTURE") = {}
    /\ \A b \in E :
          /\ b.at \in Int /\ 0 - Query!Max(Durations) <= b.at /\ b.refs # {}
          /\ \A v \in Highs(p) : b.at <= v
          /\ p = "ARRIVAL" => \A d \in stay, v \in Highs("DEPARTURE") : b.at <= v - d
          /\ \/ b.at \in Highs(p)
             \/ p = "ARRIVAL" /\ \E d \in stay, v \in Highs("DEPARTURE") : b.at = v - d

\* The windows of propagateScheduleBounds begin so.
LEMMA EarliestIs ==
    ASSUME Query!QueryAssumption, QueryInv, NEW p \in Query!Points
    PROVE  EarliestOf(p, Query!Earliest(p))
<1> DEFINE F == IF p = "DEPARTURE" THEN Query!Forward ELSE {}
           B == Query!Below(p) \cup F
           n == Query!Max(Instants) + Query!Max(Durations)
<1>1. /\ BasesOf(Query!Below(p), Lows(p)) /\ InRange(Lows(p)) /\ InRange(Lows("ARRIVAL"))
      /\ ForwardOf(Query!Forward)
  BY DirectBases, ForwardIs
<1>2. /\ Query!Max(Instants) \in Nat /\ Query!Max(Durations) \in Nat
      /\ \A d \in stay : d \in Nat /\ d <= Query!Max(Durations)
  BY HorizonIs DEF QueryInv
<1>3. \A f \in F : /\ f.at \in Nat /\ f.at <= n /\ f.refs # {}
                   /\ \E d \in stay, v \in Lows("ARRIVAL") : f.at = v + d
                   /\ \A d \in stay, v \in Lows("ARRIVAL") : v + d <= f.at
                   /\ p = "DEPARTURE"
  BY <1>1, <1>2 DEF ForwardOf, InRange
<1>4. \A b \in Query!Below(p) : /\ b.at \in Nat /\ b.at <= n /\ b.at \in Lows(p) /\ b.refs # {}
  BY <1>1, <1>2 DEF BasesOf, InRange
<1>5. Query!Earliest(p) = Query!Greatest(B)
  BY DEF Query!Earliest
<1>6. F # {} <=> p = "DEPARTURE" /\ stay # {} /\ Lows("ARRIVAL") # {}
  BY <1>1, <1>3 DEF ForwardOf
<1>7. \A v \in Lows(p) : \E b \in B : b.at = v
  BY <1>1 DEF BasesOf
<1>8. \A b \in B : b.at \in Nat /\ b.at <= n /\ b.refs # {}
  BY <1>3, <1>4
<1>9. n \in Int
  BY <1>2
<1>10. B # {} => Query!Greatest(B) # {}
  <2>1. \A b \in B : b.at \in Int
    BY <1>8
  <2> HIDE DEF B, n
  <2> QED BY <1>8, <1>9, <2>1, GreatestBases
<1>11. \A b \in Query!Greatest(B) : b \in B /\ \A c \in B : c.at <= b.at
  BY DEF Query!Greatest
<1>12. Query!Earliest(p) = {} <=> /\ Lows(p) = {}
                                  /\ p = "DEPARTURE" => stay = {} \/ Lows("ARRIVAL") = {}
  <2>1. Query!Earliest(p) = {} <=> B = {}
    BY <1>5, <1>10, <1>11
  <2>2. B = {} <=> Query!Below(p) = {} /\ F = {}
    OBVIOUS
  <2>3. Query!Below(p) = {} <=> Lows(p) = {}
    BY <1>1 DEF BasesOf
  <2> HIDE DEF B, F
  <2> QED BY <1>6, <2>1, <2>2, <2>3
<1>13. ASSUME NEW b \in Query!Greatest(B)
       PROVE  /\ b.at \in Nat /\ b.refs # {}
              /\ \A v \in Lows(p) : v <= b.at
              /\ p = "DEPARTURE" => \A d \in stay, v \in Lows("ARRIVAL") : v + d <= b.at
              /\ \/ b.at \in Lows(p)
                 \/ p = "DEPARTURE" /\ \E d \in stay, v \in Lows("ARRIVAL") : b.at = v + d
  <2>1. b \in B /\ b.at \in Nat /\ b.refs # {}
    BY <1>8, <1>11
  <2>2. \A v \in Lows(p) : v <= b.at
    BY <1>7, <1>11
  <2>3. \A f \in F : f.at <= b.at /\ f.at \in Nat
    BY <1>3, <1>11
  <2>4. p = "DEPARTURE" => \A d \in stay, v \in Lows("ARRIVAL") : v + d <= b.at
    <3> SUFFICES ASSUME p = "DEPARTURE", NEW d \in stay, NEW v \in Lows("ARRIVAL")
                 PROVE  v + d <= b.at
      OBVIOUS
    <3>1. PICK f \in F : TRUE
      BY <1>6
    <3>2. v \in Nat /\ d \in Nat
      BY <1>1, <1>2 DEF InRange
    <3>3. v + d <= f.at
      BY <1>3
    <3>4. f.at <= b.at /\ f.at \in Nat
      BY <2>3
    <3> HIDE DEF B, F, n
    <3> QED BY <2>1, <3>2, <3>3, <3>4
  <2>5. b \in Query!Below(p) \/ b \in F
    BY <2>1
  <2> HIDE DEF B, F, n
  <2>6. \/ b.at \in Lows(p)
        \/ p = "DEPARTURE" /\ \E d \in stay, v \in Lows("ARRIVAL") : b.at = v + d
    BY <1>3, <1>4, <2>5
  <2> QED BY <2>1, <2>2, <2>4, <2>6
<1> HIDE DEF B, F, n
<1> QED BY <1>5, <1>12, <1>13 DEF EarliestOf

\* And end so.
LEMMA LatestIs ==
    ASSUME Query!QueryAssumption, QueryInv, NEW p \in Query!Points
    PROVE  LatestOf(p, Query!Latest(p))
<1> DEFINE F == IF p = "ARRIVAL" THEN Query!Backward ELSE {}
           B == Query!Above(p) \cup F
           n == 0 - Query!Max(Durations)
<1>1. /\ BasesOf(Query!Above(p), Highs(p)) /\ InRange(Highs(p)) /\ InRange(Highs("DEPARTURE"))
      /\ BackwardOf(Query!Backward)
  BY DirectBases, BackwardIs
<1>2. /\ Query!Max(Instants) \in Nat /\ Query!Max(Durations) \in Nat
      /\ \A d \in stay : d \in Nat /\ d <= Query!Max(Durations)
  BY HorizonIs DEF QueryInv
<1>3. \A f \in F : /\ f.at \in Int /\ n <= f.at /\ f.refs # {}
                   /\ \E d \in stay, v \in Highs("DEPARTURE") : f.at = v - d
                   /\ \A d \in stay, v \in Highs("DEPARTURE") : f.at <= v - d
                   /\ p = "ARRIVAL"
  BY <1>1, <1>2 DEF BackwardOf, InRange
<1>4. \A b \in Query!Above(p) : /\ b.at \in Int /\ n <= b.at /\ b.at \in Highs(p) /\ b.refs # {}
  BY <1>1, <1>2 DEF BasesOf, InRange
<1>5. Query!Latest(p) = Query!Least(B)
  BY DEF Query!Latest
<1>6. F # {} <=> p = "ARRIVAL" /\ stay # {} /\ Highs("DEPARTURE") # {}
  BY <1>1, <1>3 DEF BackwardOf
<1>7. \A v \in Highs(p) : \E b \in B : b.at = v
  BY <1>1 DEF BasesOf
<1>8. \A b \in B : b.at \in Int /\ n <= b.at /\ b.refs # {}
  BY <1>3, <1>4
<1>9. n \in Int
  BY <1>2
<1>10. B # {} => Query!Least(B) # {}
  <2>1. \A b \in B : b.at \in Int
    BY <1>8
  <2> HIDE DEF B, n
  <2> QED BY <1>8, <1>9, <2>1, LeastBases
<1>11. \A b \in Query!Least(B) : b \in B /\ \A c \in B : b.at <= c.at
  BY <1>8 DEF Query!Least
<1>12. Query!Latest(p) = {} <=> /\ Highs(p) = {}
                                /\ p = "ARRIVAL" => stay = {} \/ Highs("DEPARTURE") = {}
  <2>1. Query!Latest(p) = {} <=> B = {}
    BY <1>5, <1>10, <1>11
  <2>2. B = {} <=> Query!Above(p) = {} /\ F = {}
    OBVIOUS
  <2>3. Query!Above(p) = {} <=> Highs(p) = {}
    BY <1>1 DEF BasesOf
  <2> HIDE DEF B, F
  <2> QED BY <1>6, <2>1, <2>2, <2>3
<1>13. ASSUME NEW b \in Query!Least(B)
       PROVE  /\ b.at \in Int /\ n <= b.at /\ b.refs # {}
              /\ \A v \in Highs(p) : b.at <= v
              /\ p = "ARRIVAL" => \A d \in stay, v \in Highs("DEPARTURE") : b.at <= v - d
              /\ \/ b.at \in Highs(p)
                 \/ p = "ARRIVAL" /\ \E d \in stay, v \in Highs("DEPARTURE") : b.at = v - d
  <2>1. b \in B /\ b.at \in Int /\ n <= b.at /\ b.refs # {}
    BY <1>8, <1>11
  <2>2. \A v \in Highs(p) : b.at <= v
    BY <1>7, <1>11
  <2>3. \A f \in F : b.at <= f.at /\ f.at \in Int
    BY <1>3, <1>11
  <2>4. p = "ARRIVAL" => \A d \in stay, v \in Highs("DEPARTURE") : b.at <= v - d
    <3> SUFFICES ASSUME p = "ARRIVAL", NEW d \in stay, NEW v \in Highs("DEPARTURE")
                 PROVE  b.at <= v - d
      OBVIOUS
    <3>1. PICK f \in F : TRUE
      BY <1>6
    <3>2. v \in Nat /\ d \in Nat
      BY <1>1, <1>2 DEF InRange
    <3>3. f.at <= v - d
      BY <1>3
    <3>4. b.at <= f.at /\ f.at \in Int
      BY <2>3
    <3> HIDE DEF B, F, n
    <3> QED BY <2>1, <3>2, <3>3, <3>4
  <2>5. b \in Query!Above(p) \/ b \in F
    BY <2>1
  <2> HIDE DEF B, F, n
  <2>6. \/ b.at \in Highs(p)
        \/ p = "ARRIVAL" /\ \E d \in stay, v \in Highs("DEPARTURE") : b.at = v - d
    BY <1>3, <1>4, <2>5
  <2> QED BY <2>1, <2>2, <2>4, <2>6
<1>14. \A b \in Query!Least(B) : 0 - Query!Max(Durations) <= b.at
  BY <1>13
<1> HIDE DEF B, F, n
<1> QED BY <1>5, <1>12, <1>13, <1>14 DEF LatestOf

\* A conflict is told exactly when the bounds of a point cross.
Crossed == \E p \in Query!Points : \E b \in Query!Earliest(p), c \in Query!Latest(p) : b.at > c.at

\* Two intents that contradict each other (conflictingIntentIds).
LEMMA ClashIs ==
    ASSUME NEW p, NEW low \in {"NOT_BEFORE", "EXACT"}, NEW high \in {"NOT_AFTER", "EXACT"},
           Query!Clash(p, low, high) # {}
    PROVE  \E v \in Lows(p), w \in Highs(p) : v > w
<1> DEFINE l == <<"USER", p, low>>
           h == <<"USER", p, high>>
<1>1. l \in DOMAIN plan /\ h \in DOMAIN plan /\ plan[l] > plan[h]
  BY DEF Query!Clash
<1>2. Query!BoundsBelow(l) /\ Query!BoundsAbove(h)
  BY DEF Query!BoundsBelow, Query!BoundsAbove, Query!Fixed
<1>3. plan[l] \in Lows(p) /\ plan[h] \in Highs(p)
  BY <1>1, <1>2 DEF Lows, Highs
<1> QED BY <1>1, <1>3

\* Whether it is told of intents or of windows.
LEMMA ConflictIs ==
    ASSUME Query!QueryAssumption, QueryInv
    PROVE  Query!Conflict <=> Crossed
<1>1. ASSUME Crossed PROVE Query!Conflict
  <2>5. PICK p \in Query!Points : \E b \in Query!Earliest(p), c \in Query!Latest(p) : b.at > c.at
    BY <1>1 DEF Crossed
  <2>1. PICK b \in Query!Earliest(p), c \in Query!Latest(p) : b.at > c.at
    BY <2>5
  <2>2. b.refs # {}
    BY EarliestIs DEF EarliestOf
  <2>3. b.refs \subseteq UNION {e.refs : e \in Query!Earliest(p) \cup Query!Latest(p)}
    OBVIOUS
  <2> QED BY <2>1, <2>2, <2>3 DEF Query!Conflict, Query!WindowsInConflict
<1>2. ASSUME NEW p \in Query!Points, Query!IntentsInConflict(p) # {} PROVE Crossed
  <2>1. PICK v \in Lows(p), w \in Highs(p) : v > w
    BY <1>2, ClashIs DEF Query!IntentsInConflict
  <2>2. EarliestOf(p, Query!Earliest(p)) /\ LatestOf(p, Query!Latest(p))
    BY EarliestIs, LatestIs
  <2>3. PICK b \in Query!Earliest(p), c \in Query!Latest(p) : TRUE
    BY <2>2 DEF EarliestOf, LatestOf
  <2>4. v <= b.at /\ c.at <= w /\ b.at \in Int /\ c.at \in Int
    BY <2>2 DEF EarliestOf, LatestOf
  <2>5. v \in Int /\ w \in Int
    BY DirectBases DEF InRange
  <2>6. b.at > c.at
    BY <2>1, <2>4, <2>5
  <2> QED BY <2>6 DEF Crossed
<1>3. ASSUME NEW p \in Query!Points, Query!WindowsInConflict(p) PROVE Crossed
  BY <1>3 DEF Query!WindowsInConflict, Crossed
<1> QED BY <1>1, <1>2, <1>3 DEF Query!Conflict

\* What a slot requires of the instant x of its point, as Possible has it.
LEMMA SlotMeans ==
    ASSUME NEW s \in Query!Slots, NEW x \in Int, NEW y \in Int
    PROVE  (CASE s[1] = "USER" /\ s[3] = "NOT_BEFORE" -> x >= y
              [] s[1] = "USER" /\ s[3] = "NOT_AFTER" -> x <= y
              [] s[3] \in {"EXACT", "ACTUAL"} \/ s[1] = "VEHICLE" -> x = y
              [] OTHER -> TRUE)
           <=> (Query!BoundsBelow(s) => y <= x) /\ (Query!BoundsAbove(s) => x <= y)
<1>1. CASE s[1] = "USER" /\ s[3] = "NOT_BEFORE"
  BY <1>1 DEF Query!BoundsBelow, Query!BoundsAbove, Query!Fixed
<1>2. CASE s[1] = "USER" /\ s[3] = "NOT_AFTER"
  BY <1>2 DEF Query!BoundsBelow, Query!BoundsAbove, Query!Fixed
<1>3. CASE s[3] \in {"EXACT", "ACTUAL"} \/ s[1] = "VEHICLE"
  <2>1. s[1] = "VEHICLE" => s[1] # "USER"
    OBVIOUS
  <2>2. ~ (s[1] = "USER" /\ s[3] = "NOT_BEFORE") /\ ~ (s[1] = "USER" /\ s[3] = "NOT_AFTER")
    BY <1>3
  <2> QED BY <1>3, <2>2 DEF Query!BoundsBelow, Query!BoundsAbove, Query!Fixed
<1>4. CASE /\ ~ (s[1] = "USER" /\ s[3] = "NOT_BEFORE") /\ ~ (s[1] = "USER" /\ s[3] = "NOT_AFTER")
           /\ ~ (s[3] \in {"EXACT", "ACTUAL"} \/ s[1] = "VEHICLE")
  <2>1. s[3] # "NOT_BEFORE" /\ s[3] # "NOT_AFTER"
    BY <1>4 DEF Query!Slots, Query!Layers, Query!Points
  <2> QED BY <1>4, <2>1 DEF Query!BoundsBelow, Query!BoundsAbove, Query!Fixed
<1> QED BY <1>1, <1>2, <1>3, <1>4

\* The instant x is between what bounds the point p.
Between(p, x) == (\A v \in Lows(p) : v <= x) /\ (\A v \in Highs(p) : x <= v)

\* What Possible says, by point.
LEMMA PossibleIs ==
    ASSUME Query!QueryAssumption, QueryInv, NEW a \in Int, NEW d \in Int
    PROVE  Query!Possible(a, d) <=> /\ Between("ARRIVAL", a) /\ Between("DEPARTURE", d)
                                    /\ \A x \in stay : d - a >= x
<1> DEFINE at(s) == IF s[2] = "ARRIVAL" THEN a ELSE d
           Meets(s) == /\ Query!BoundsBelow(s) => plan[s] <= at(s)
                       /\ Query!BoundsAbove(s) => at(s) <= plan[s]
<1>1. \A s \in DOMAIN plan : s \in Query!Slots /\ plan[s] \in Int
  BY HorizonIs DEF QueryInv
<1>2. \A s : at(s) \in Int
  OBVIOUS
<1>3. Query!Possible(a, d) <=> (\A s \in DOMAIN plan : Meets(s)) /\ \A x \in stay : d - a >= x
  <2> HIDE DEF at
  <2>1. \A s \in DOMAIN plan :
          (CASE s[1] = "USER" /\ s[3] = "NOT_BEFORE" -> at(s) >= plan[s]
             [] s[1] = "USER" /\ s[3] = "NOT_AFTER" -> at(s) <= plan[s]
             [] s[3] \in {"EXACT", "ACTUAL"} \/ s[1] = "VEHICLE" -> at(s) = plan[s]
             [] OTHER -> TRUE) <=> Meets(s)
    BY <1>1, <1>2, SlotMeans
  <2> HIDE DEF Meets
  <2>2. Query!Possible(a, d) <=>
          /\ \A s \in DOMAIN plan :
               (CASE s[1] = "USER" /\ s[3] = "NOT_BEFORE" -> at(s) >= plan[s]
                  [] s[1] = "USER" /\ s[3] = "NOT_AFTER" -> at(s) <= plan[s]
                  [] s[3] \in {"EXACT", "ACTUAL"} \/ s[1] = "VEHICLE" -> at(s) = plan[s]
                  [] OTHER -> TRUE)
          /\ \A x \in stay : d - a >= x
    BY DEF Query!Possible, at
  <2> QED BY <2>1, <2>2
<1>4. \A s \in DOMAIN plan : s[2] = "ARRIVAL" \/ s[2] = "DEPARTURE"
  BY <1>1 DEF Query!Slots, Query!Points
<1>5. (\A s \in DOMAIN plan : Meets(s)) <=> Between("ARRIVAL", a) /\ Between("DEPARTURE", d)
  <2>1. ASSUME \A s \in DOMAIN plan : Meets(s)
        PROVE  Between("ARRIVAL", a) /\ Between("DEPARTURE", d)
    BY <2>1 DEF Between, Lows, Highs
  <2>2. ASSUME Between("ARRIVAL", a), Between("DEPARTURE", d), NEW s \in DOMAIN plan
        PROVE  Meets(s)
    <3>1. CASE s[2] = "ARRIVAL"
      BY <2>2, <3>1 DEF Between, Lows, Highs
    <3>2. CASE s[2] = "DEPARTURE"
      BY <2>2, <3>2 DEF Between, Lows, Highs
    <3> QED BY <1>4, <3>1, <3>2
  <2> QED BY <2>1, <2>2
<1> QED BY <1>3, <1>5

\* The first instant of a window is met together with the last of the other, and both
\* with what lies between.
Extreme(low, high) ==
    /\ low \in Query!Horizon /\ high \in Query!Horizon
    /\ Query!Earliest("ARRIVAL") = {} => low = 0 - 1 - Query!Max(Durations)
    /\ \A b \in Query!Earliest("ARRIVAL") : low = b.at
    /\ Query!Latest("DEPARTURE") = {} => high = Query!Max(Instants) + Query!Max(Durations) + 1
    /\ \A c \in Query!Latest("DEPARTURE") : high = c.at
    /\ Query!Possible(low, high)
    /\ \A b \in Query!Earliest("DEPARTURE") : b.at \in Query!Horizon /\ Query!Possible(low, b.at)
    /\ Query!Earliest("DEPARTURE") = {} => -1 \in Query!Horizon /\ Query!Possible(low, -1)
    /\ \A c \in Query!Latest("ARRIVAL") : c.at \in Query!Horizon /\ Query!Possible(c.at, high)
    /\ Query!Latest("ARRIVAL") = {} =>
          /\ Query!Max(Instants) + 1 \in Query!Horizon
          /\ Query!Possible(Query!Max(Instants) + 1, high)

\* The instant of a bound, or another.
LEMMA InstantOf ==
    ASSUME NEW E, NEW x
    PROVE  \E l : (E = {} => l = x) /\ (E # {} => \E b \in E : l = b.at)
<1>1. CASE E = {}
  BY <1>1
<1>2. CASE E # {}
  BY <1>2
<1> QED BY <1>1, <1>2

\* If no bounds cross, such instants exist: a horizon one instant and one stay wide
\* beyond what is named holds them.
LEMMA BoundsMeet ==
    ASSUME Query!QueryAssumption, QueryInv, ~ Crossed
    PROVE  \E low, high : Extreme(low, high)
<1> DEFINE I == Query!Max(Instants)
           D == Query!Max(Durations)
           EA == Query!Earliest("ARRIVAL")
           ED == Query!Earliest("DEPARTURE")
           LA == Query!Latest("ARRIVAL")
           LD == Query!Latest("DEPARTURE")
<1>1. I \in Nat /\ D \in Nat /\ \A x \in stay : x \in Nat /\ 0 < x /\ x <= D
  BY HorizonIs DEF QueryInv
<1>2. EarliestOf("ARRIVAL", EA) /\ EarliestOf("DEPARTURE", ED)
  BY EarliestIs DEF Query!Points
<1>3. LatestOf("ARRIVAL", LA) /\ LatestOf("DEPARTURE", LD)
  BY LatestIs DEF Query!Points
<1>4. (\A b \in EA, c \in LA : b.at <= c.at) /\ (\A b \in ED, c \in LD : b.at <= c.at)
  <2>1. \A p \in Query!Points : \A b \in Query!Earliest(p), c \in Query!Latest(p) : ~ (b.at > c.at)
    BY DEF Crossed
  <2>2. \A p \in Query!Points : \A b \in Query!Earliest(p), c \in Query!Latest(p) : b.at \in Int /\ c.at \in Int
    BY EarliestIs, LatestIs DEF EarliestOf, LatestOf
  <2>3. \A p \in Query!Points : \A b \in Query!Earliest(p), c \in Query!Latest(p) : b.at <= c.at
    BY <2>1, <2>2
  <2> QED BY <2>3 DEF Query!Points
<1>5. \A p : InRange(Lows(p)) /\ InRange(Highs(p))
  BY DirectBases
<1>6. Query!Horizon = (-1 - D)..(I + D + 1)
  BY DEF Query!Horizon
<1> HIDE DEF I, D, EA, ED, LA, LD
<1>7. /\ \A v \in Lows("ARRIVAL") : v \in Nat /\ v <= I
      /\ \A v \in Lows("DEPARTURE") : v \in Nat /\ v <= I
      /\ \A v \in Highs("ARRIVAL") : v \in Nat /\ v <= I
      /\ \A v \in Highs("DEPARTURE") : v \in Nat /\ v <= I
  BY <1>5 DEF InRange, I
<1>8. PICK low : (EA = {} => low = 0 - 1 - D) /\ (EA # {} => \E b \in EA : low = b.at)
  BY InstantOf
<1>9. PICK high : (LD = {} => high = I + D + 1) /\ (LD # {} => \E b \in LD : high = b.at)
  BY InstantOf
<1>10. \A b \in EA : b.at \in Lows("ARRIVAL") /\ b.at \in Nat /\ b.at <= I /\ \A v \in Lows("ARRIVAL") : v <= b.at
  BY <1>2, <1>7 DEF EarliestOf
<1>11. \A c \in LD : c.at \in Highs("DEPARTURE") /\ c.at \in Nat /\ c.at <= I /\ \A v \in Highs("DEPARTURE") : c.at <= v
  BY <1>3, <1>7 DEF LatestOf
<1>12. /\ low \in Int /\ -1 - D <= low /\ low <= I
       /\ \A b \in EA : low = b.at
  <2>1. CASE EA = {}
    BY <1>1, <1>8, <2>1
  <2>2. CASE EA # {}
    BY <1>1, <1>8, <1>10, <2>2
  <2> QED BY <2>1, <2>2
<1>13. /\ high \in Int /\ 0 <= high /\ high <= I + D + 1
       /\ \A c \in LD : high = c.at
  <2>1. CASE LD = {}
    BY <1>1, <1>9, <2>1
  <2>2. CASE LD # {}
    BY <1>1, <1>9, <1>11, <2>2
  <2> QED BY <2>1, <2>2
<1>14. \A c \in LA : c.at \in Int /\ 0 - D <= c.at /\ c.at <= I
  <2> SUFFICES ASSUME NEW c \in LA PROVE c.at \in Int /\ 0 - D <= c.at /\ c.at <= I
    OBVIOUS
  <2>1. c.at \in Int /\ 0 - D <= c.at
    BY <1>3 DEF LatestOf, D
  <2>2. \/ c.at \in Highs("ARRIVAL") \/ \E d \in stay, v \in Highs("DEPARTURE") : c.at = v - d
    BY <1>3 DEF LatestOf
  <2> QED BY <1>1, <1>7, <2>1, <2>2
<1>15. \A b \in ED : b.at \in Nat /\ b.at <= I + D
  <2> SUFFICES ASSUME NEW b \in ED PROVE b.at \in Nat /\ b.at <= I + D
    OBVIOUS
  <2>1. b.at \in Nat
    BY <1>2 DEF EarliestOf
  <2>2. \/ b.at \in Lows("DEPARTURE") \/ \E d \in stay, v \in Lows("ARRIVAL") : b.at = v + d
    BY <1>2 DEF EarliestOf
  <2> QED BY <1>1, <1>7, <2>1, <2>2
<1>16. /\ LA = {} <=> Highs("ARRIVAL") = {} /\ (stay = {} \/ Highs("DEPARTURE") = {})
       /\ ED = {} <=> Lows("DEPARTURE") = {} /\ (stay = {} \/ Lows("ARRIVAL") = {})
       /\ EA = {} <=> Lows("ARRIVAL") = {}
       /\ LD = {} <=> Highs("DEPARTURE") = {}
  BY <1>2, <1>3 DEF EarliestOf, LatestOf
<1>17. /\ \A c \in LA : \A v \in Highs("ARRIVAL") : c.at <= v
       /\ \A c \in LA : \A d \in stay, v \in Highs("DEPARTURE") : c.at <= v - d
       /\ \A b \in ED : \A v \in Lows("DEPARTURE") : v <= b.at
       /\ \A b \in ED : \A d \in stay, v \in Lows("ARRIVAL") : v + d <= b.at
  BY <1>2, <1>3 DEF EarliestOf, LatestOf
\* low and high lie between the bounds of their points.
<1>18. Between("ARRIVAL", low)
  <2>1. ASSUME NEW v \in Lows("ARRIVAL") PROVE v <= low
    BY <1>10, <1>12, <1>16
  <2>2. ASSUME NEW v \in Highs("ARRIVAL") PROVE low <= v
    <3>1. CASE EA = {}
      BY <1>1, <1>7, <1>8, <3>1
    <3>2. CASE EA # {}
      <4>1. PICK b \in EA, c \in LA : low = b.at
        BY <1>12, <1>16, <3>2
      <4>2. b.at <= c.at /\ c.at <= v /\ b.at \in Int /\ c.at \in Int /\ v \in Int
        BY <1>4, <1>7, <1>10, <1>14, <1>17
      <4> QED BY <4>1, <4>2
    <3> QED BY <3>1, <3>2
  <2> QED BY <2>1, <2>2 DEF Between
<1>19. Between("DEPARTURE", high)
  <2>1. ASSUME NEW v \in Highs("DEPARTURE") PROVE high <= v
    BY <1>11, <1>13, <1>16
  <2>2. ASSUME NEW v \in Lows("DEPARTURE") PROVE v <= high
    <3>1. CASE LD = {}
      BY <1>1, <1>7, <1>9, <3>1
    <3>2. CASE LD # {}
      <4>1. PICK b \in ED, c \in LD : high = c.at
        BY <1>13, <1>16, <3>2
      <4>2. b.at <= c.at /\ v <= b.at /\ b.at \in Int /\ c.at \in Int /\ v \in Int
        BY <1>4, <1>7, <1>11, <1>15, <1>17
      <4> QED BY <4>1, <4>2
    <3> QED BY <3>1, <3>2
  <2> QED BY <2>1, <2>2 DEF Between
<1>20. \A b \in ED : Between("DEPARTURE", b.at)
  <2> SUFFICES ASSUME NEW b \in ED, NEW v \in Highs("DEPARTURE") PROVE b.at <= v
    BY <1>17 DEF Between
  <2>1. PICK c \in LD : TRUE
    BY <1>16
  <2>2. b.at <= c.at /\ c.at <= v /\ b.at \in Int /\ c.at \in Int /\ v \in Int
    BY <1>4, <1>7, <1>11, <1>15
  <2> QED BY <2>2
<1>21. \A c \in LA : Between("ARRIVAL", c.at)
  <2> SUFFICES ASSUME NEW c \in LA, NEW v \in Lows("ARRIVAL") PROVE v <= c.at
    BY <1>17 DEF Between
  <2>1. PICK b \in EA : TRUE
    BY <1>16
  <2>2. b.at <= c.at /\ v <= b.at /\ b.at \in Int /\ c.at \in Int /\ v \in Int
    BY <1>4, <1>7, <1>10, <1>14
  <2> QED BY <2>2
<1>22. ED = {} => Between("DEPARTURE", -1)
  BY <1>7, <1>16 DEF Between
<1>23. LA = {} => Between("ARRIVAL", I + 1)
  BY <1>1, <1>7, <1>16 DEF Between
\* The stay fits in each of the pairs.
<1>24. \A x \in stay : high - low >= x
  <2> SUFFICES ASSUME NEW x \in stay PROVE high - low >= x
    OBVIOUS
  <2>0. x \in Nat /\ x <= D /\ I \in Nat /\ D \in Nat
    BY <1>1
  <2>1. CASE LD = {}
    BY <1>9, <1>12, <2>0, <2>1
  <2>2. CASE LD # {} /\ EA = {}
    BY <1>8, <1>13, <2>0, <2>2
  <2>3. CASE LD # {} /\ EA # {}
    <3>1. PICK c \in LD, e \in LA, b \in EA : high = c.at /\ low = b.at
      BY <1>12, <1>13, <1>16, <2>3
    <3>2. e.at <= c.at - x /\ b.at <= e.at /\ b.at \in Int /\ c.at \in Int /\ e.at \in Int
      BY <1>4, <1>10, <1>11, <1>14, <1>17
    <3> QED BY <2>0, <3>1, <3>2
  <2> QED BY <2>1, <2>2, <2>3
<1>25. \A b \in ED : \A x \in stay : b.at - low >= x
  <2> SUFFICES ASSUME NEW b \in ED, NEW x \in stay PROVE b.at - low >= x
    OBVIOUS
  <2>0. x \in Nat /\ x <= D /\ I \in Nat /\ D \in Nat /\ b.at \in Nat
    BY <1>1, <1>15
  <2>1. CASE EA = {}
    BY <1>8, <2>0, <2>1
  <2>2. CASE EA # {}
    <3>1. PICK e \in EA : low = e.at
      BY <1>12, <2>2
    <3>2. e.at \in Int /\ e.at + x <= b.at
      BY <1>10, <1>17
    <3> QED BY <2>0, <3>1, <3>2
  <2> QED BY <2>1, <2>2
<1>26. ED = {} => \A x \in stay : -1 - low >= x
  <2> SUFFICES ASSUME ED = {}, NEW x \in stay PROVE -1 - low >= x
    OBVIOUS
  <2>0. x \in Nat /\ x <= D /\ D \in Nat
    BY <1>1
  <2>1. low = 0 - 1 - D
    BY <1>8, <1>16
  <2> QED BY <2>0, <2>1
<1>27. \A c \in LA : \A x \in stay : high - c.at >= x
  <2> SUFFICES ASSUME NEW c \in LA, NEW x \in stay PROVE high - c.at >= x
    OBVIOUS
  <2>0. x \in Nat /\ x <= D /\ I \in Nat /\ D \in Nat /\ c.at \in Int /\ c.at <= I
    BY <1>1, <1>14
  <2>1. CASE LD = {}
    BY <1>9, <2>0, <2>1
  <2>2. CASE LD # {}
    <3>1. PICK e \in LD : high = e.at
      BY <1>13, <2>2
    <3>2. e.at \in Int /\ c.at <= e.at - x
      BY <1>11, <1>17
    <3> QED BY <2>0, <3>1, <3>2
  <2> QED BY <2>1, <2>2
<1>28. LA = {} => \A x \in stay : high - (I + 1) >= x
  <2> SUFFICES ASSUME LA = {}, NEW x \in stay PROVE high - (I + 1) >= x
    OBVIOUS
  <2>0. x \in Nat /\ x <= D /\ D \in Nat /\ I \in Nat
    BY <1>1
  <2>1. high = I + D + 1
    BY <1>9, <1>16
  <2> QED BY <2>0, <2>1
<1>29. Query!Possible(low, high)
  BY <1>12, <1>13, <1>18, <1>19, <1>24, PossibleIs
<1>30. \A b \in ED : b.at \in Query!Horizon /\ Query!Possible(low, b.at)
  <2> SUFFICES ASSUME NEW b \in ED PROVE b.at \in Query!Horizon /\ Query!Possible(low, b.at)
    OBVIOUS
  <2>1. b.at \in Int /\ b.at \in Query!Horizon
    BY <1>1, <1>6, <1>15
  <2> QED BY <1>12, <1>18, <1>20, <1>25, <2>1, PossibleIs
<1>31. ED = {} => -1 \in Query!Horizon /\ Query!Possible(low, -1)
  <2> SUFFICES ASSUME ED = {} PROVE -1 \in Query!Horizon /\ Query!Possible(low, -1)
    OBVIOUS
  <2>1. -1 \in Int /\ -1 \in Query!Horizon
    BY <1>1, <1>6
  <2> QED BY <1>12, <1>18, <1>22, <1>26, <2>1, PossibleIs
<1>32. \A c \in LA : c.at \in Query!Horizon /\ Query!Possible(c.at, high)
  <2> SUFFICES ASSUME NEW c \in LA PROVE c.at \in Query!Horizon /\ Query!Possible(c.at, high)
    OBVIOUS
  <2>1. c.at \in Int /\ c.at \in Query!Horizon
    BY <1>1, <1>6, <1>14
  <2> QED BY <1>13, <1>19, <1>21, <1>27, <2>1, PossibleIs
<1>33. LA = {} => I + 1 \in Query!Horizon /\ Query!Possible(I + 1, high)
  <2> SUFFICES ASSUME LA = {} PROVE I + 1 \in Query!Horizon /\ Query!Possible(I + 1, high)
    OBVIOUS
  <2>1. I + 1 \in Int /\ I + 1 \in Query!Horizon
    BY <1>1, <1>6
  <2> QED BY <1>13, <1>19, <1>23, <1>28, <2>1, PossibleIs
<1>34. low \in Query!Horizon /\ high \in Query!Horizon
  BY <1>1, <1>6, <1>12, <1>13
<1>35. Extreme(low, high)
  BY <1>8, <1>9, <1>12, <1>13, <1>29, <1>30, <1>31, <1>32, <1>33, <1>34 DEF Extreme, I, D, EA, ED, LA, LD
<1> QED BY <1>35

\* What meets the requirements is between the bounds of the windows.
LEMMA SolutionsWithin ==
    ASSUME Query!QueryAssumption, QueryInv, NEW a \in Int, NEW d \in Int, Query!Possible(a, d)
    PROVE  /\ \A b \in Query!Earliest("ARRIVAL") : b.at <= a
           /\ \A b \in Query!Earliest("DEPARTURE") : b.at <= d
           /\ \A c \in Query!Latest("ARRIVAL") : a <= c.at
           /\ \A c \in Query!Latest("DEPARTURE") : d <= c.at
<1>1. EarliestOf("ARRIVAL", Query!Earliest("ARRIVAL")) /\ LatestOf("ARRIVAL", Query!Latest("ARRIVAL"))
  BY EarliestIs, LatestIs DEF Query!Points
<1>2. /\ EarliestOf("DEPARTURE", Query!Earliest("DEPARTURE"))
      /\ LatestOf("DEPARTURE", Query!Latest("DEPARTURE"))
  BY EarliestIs, LatestIs DEF Query!Points
<1>3. Between("ARRIVAL", a) /\ Between("DEPARTURE", d) /\ \A x \in stay : d - a >= x
  BY PossibleIs
<1>4. /\ \A v \in Lows("ARRIVAL") : v \in Nat
      /\ \A v \in Highs("DEPARTURE") : v \in Nat
      /\ \A x \in stay : x \in Nat
  BY DirectBases, HorizonIs DEF InRange, QueryInv
<1>5. \A b \in Query!Earliest("ARRIVAL") : b.at <= a
  BY <1>1, <1>3 DEF EarliestOf, Between
<1>6. \A c \in Query!Latest("DEPARTURE") : d <= c.at
  BY <1>2, <1>3 DEF LatestOf, Between
<1>7. ASSUME NEW b \in Query!Earliest("DEPARTURE") PROVE b.at <= d
  <2>1. CASE b.at \in Lows("DEPARTURE")
    BY <1>3, <2>1 DEF Between
  <2>2. ASSUME NEW x \in stay, NEW v \in Lows("ARRIVAL"), b.at = v + x PROVE b.at <= d
    <3>1. v <= a /\ d - a >= x /\ v \in Nat /\ x \in Nat
      BY <1>3, <1>4 DEF Between
    <3> QED BY <2>2, <3>1
  <2> QED BY <1>2, <2>1, <2>2 DEF EarliestOf
<1>8. ASSUME NEW c \in Query!Latest("ARRIVAL") PROVE a <= c.at
  <2>1. CASE c.at \in Highs("ARRIVAL")
    BY <1>3, <2>1 DEF Between
  <2>2. ASSUME NEW x \in stay, NEW v \in Highs("DEPARTURE"), c.at = v - x PROVE a <= c.at
    <3>1. d <= v /\ d - a >= x /\ v \in Nat /\ x \in Nat
      BY <1>3, <1>4 DEF Between
    <3> QED BY <2>2, <3>1
  <2> QED BY <1>1, <2>1, <2>2 DEF LatestOf
<1> QED BY <1>5, <1>6, <1>7, <1>8

\* The arrivals or departures of what meets the requirements.
TimesAt(p) == {IF p = "ARRIVAL" THEN t[1] ELSE t[2] : t \in Query!Solutions}

\* The window of p, exactly.
ExactAt(p) ==
    /\ \A b \in Query!Earliest(p) : b.at = Query!Min(TimesAt(p))
    /\ \A b \in Query!Latest(p) : b.at = Query!Max(TimesAt(p))
    /\ Query!Earliest(p) = {} => Query!Min(TimesAt(p)) < Query!Min(Instants)
    /\ Query!Latest(p) = {} => Query!Max(TimesAt(p)) > Query!Max(Instants)

\* Numbers of the horizon have a least and a greatest.
LEMMA HorizonMinMax ==
    ASSUME Query!QueryAssumption, NEW S \in SUBSET Query!Horizon, NEW x \in S
    PROVE  /\ Query!Min(S) <= x /\ x <= Query!Max(S) /\ Query!Min(S) \in Int /\ Query!Max(S) \in Int
           /\ (\A y \in S : x <= y) => Query!Min(S) = x
           /\ (\A y \in S : y <= x) => Query!Max(S) = x
<1>1. Query!Max(Instants) \in Int /\ Query!Max(Durations) \in Int
  BY HorizonIs
<1>2. PICK l \in Int, h \in Int : Query!Horizon = l..h
  BY <1>1 DEF Query!Horizon
<1>3. S \in SUBSET Int /\ S # {} /\ \A y \in S : l <= y /\ y <= h
  BY <1>2
<1>4. PICK m \in S : \A y \in S : m <= y
  BY <1>3, LeastInt
<1>5. PICK n \in S : \A y \in S : y <= n
  BY <1>3, GreatestInt
<1>6. Query!Min(S) = m /\ Query!Max(S) = n
  BY <1>3, <1>4, <1>5, QueryMin, QueryMax
<1>7. (\A y \in S : x <= y) => Query!Min(S) = x
  BY <1>3, QueryMin
<1>8. (\A y \in S : y <= x) => Query!Max(S) = x
  BY <1>3, QueryMax
<1> QED BY <1>3, <1>4, <1>5, <1>6, <1>7, <1>8

\* Then the windows are exact.
LEMMA WindowsExact ==
    ASSUME Query!QueryAssumption, QueryInv
    PROVE  Query!WindowsAreExact
<1>1. Query!Horizon \subseteq Int
  <2>1. Query!Max(Instants) \in Int /\ Query!Max(Durations) \in Int
    BY HorizonIs
  <2> QED BY <2>1 DEF Query!Horizon
<1>2. \A t \in Query!Solutions : /\ t[1] \in Query!Horizon /\ t[2] \in Query!Horizon
                                 /\ Query!Possible(t[1], t[2])
  BY DEF Query!Solutions
<1>3. \A t \in Query!Solutions :
         /\ \A b \in Query!Earliest("ARRIVAL") : b.at <= t[1]
         /\ \A b \in Query!Earliest("DEPARTURE") : b.at <= t[2]
         /\ \A c \in Query!Latest("ARRIVAL") : t[1] <= c.at
         /\ \A c \in Query!Latest("DEPARTURE") : t[2] <= c.at
  BY <1>1, <1>2, SolutionsWithin
<1>4. ASSUME NEW t \in Query!Solutions PROVE ~ Crossed
  <2> SUFFICES ASSUME Crossed PROVE FALSE
    OBVIOUS
  <2>1. PICK p \in Query!Points : \E b \in Query!Earliest(p), c \in Query!Latest(p) : b.at > c.at
    BY DEF Crossed
  <2>2. PICK b \in Query!Earliest(p), c \in Query!Latest(p) : b.at > c.at
    BY <2>1
  <2>3. b.at \in Int /\ c.at \in Int
    BY EarliestIs, LatestIs DEF EarliestOf, LatestOf
  <2>4. t[1] \in Int /\ t[2] \in Int
    BY <1>1, <1>2
  <2>5. p = "ARRIVAL" \/ p = "DEPARTURE"
    BY DEF Query!Points
  <2>6. (b.at <= t[1] /\ t[1] <= c.at) \/ (b.at <= t[2] /\ t[2] <= c.at)
    BY <1>3, <2>5
  <2> QED BY <2>2, <2>3, <2>4, <2>6
<1>5. ASSUME ~ Crossed
      PROVE  Query!Solutions # {} /\ ExactAt("ARRIVAL") /\ ExactAt("DEPARTURE")
  <2>1. PICK low, high : Extreme(low, high)
    BY <1>5, BoundsMeet
  <2> DEFINE A == TimesAt("ARRIVAL")
             D == TimesAt("DEPARTURE")
  <2>2. A = {t[1] : t \in Query!Solutions} /\ D = {t[2] : t \in Query!Solutions}
    BY DEF TimesAt
  <2>3. \A x, y \in Query!Horizon : Query!Possible(x, y) => x \in A /\ y \in D /\ <<x, y>> \in Query!Solutions
    <3> SUFFICES ASSUME NEW x \in Query!Horizon, NEW y \in Query!Horizon, Query!Possible(x, y)
                 PROVE  x \in A /\ y \in D /\ <<x, y>> \in Query!Solutions
      OBVIOUS
    <3>1. <<x, y>> \in Query!Solutions
      BY DEF Query!Solutions
    <3>2. <<x, y>>[1] = x /\ <<x, y>>[2] = y
      OBVIOUS
    <3> QED BY <2>2, <3>1, <3>2
  <2>4. A \in SUBSET Query!Horizon /\ D \in SUBSET Query!Horizon
    BY <1>2, <2>2
  <2>5. /\ \A x \in A : (\A b \in Query!Earliest("ARRIVAL") : b.at <= x) /\ (\A c \in Query!Latest("ARRIVAL") : x <= c.at)
        /\ \A x \in D : (\A b \in Query!Earliest("DEPARTURE") : b.at <= x) /\ (\A c \in Query!Latest("DEPARTURE") : x <= c.at)
    BY <1>3, <2>2
  <2>6. low \in A /\ high \in D /\ Query!Solutions # {}
    BY <2>1, <2>3 DEF Extreme
  <2>7. /\ Query!Max(Instants) \in Nat /\ Query!Max(Durations) \in Nat /\ Query!Min(Instants) \in Nat
    BY HorizonIs
  <2> HIDE DEF A, D
  <2>8. \A b \in Query!Earliest("ARRIVAL") : b.at = Query!Min(A)
    BY <2>1, <2>4, <2>5, <2>6, HorizonMinMax DEF Extreme
  <2>9. \A b \in Query!Earliest("DEPARTURE") : b.at = Query!Min(D)
    <3> SUFFICES ASSUME NEW b \in Query!Earliest("DEPARTURE") PROVE b.at = Query!Min(D)
      OBVIOUS
    <3>1. b.at \in D
      BY <2>1, <2>3 DEF Extreme
    <3> QED BY <2>4, <2>5, <3>1, HorizonMinMax
  <2>10. \A c \in Query!Latest("ARRIVAL") : c.at = Query!Max(A)
    <3> SUFFICES ASSUME NEW c \in Query!Latest("ARRIVAL") PROVE c.at = Query!Max(A)
      OBVIOUS
    <3>1. c.at \in A
      BY <2>1, <2>3 DEF Extreme
    <3> QED BY <2>4, <2>5, <3>1, HorizonMinMax
  <2>11. \A c \in Query!Latest("DEPARTURE") : c.at = Query!Max(D)
    BY <2>1, <2>4, <2>5, <2>6, HorizonMinMax DEF Extreme
  <2>12. Query!Earliest("ARRIVAL") = {} => Query!Min(A) < Query!Min(Instants)
    <3> SUFFICES ASSUME Query!Earliest("ARRIVAL") = {} PROVE Query!Min(A) < Query!Min(Instants)
      OBVIOUS
    <3>1. low = 0 - 1 - Query!Max(Durations)
      BY <2>1 DEF Extreme
    <3>2. Query!Min(A) <= low /\ Query!Min(A) \in Int
      BY <2>4, <2>6, HorizonMinMax
    <3> QED BY <2>7, <3>1, <3>2
  <2>13. Query!Earliest("DEPARTURE") = {} => Query!Min(D) < Query!Min(Instants)
    <3> SUFFICES ASSUME Query!Earliest("DEPARTURE") = {} PROVE Query!Min(D) < Query!Min(Instants)
      OBVIOUS
    <3>1. -1 \in D
      BY <2>1, <2>3 DEF Extreme
    <3>2. Query!Min(D) <= -1 /\ Query!Min(D) \in Int
      BY <2>4, <3>1, HorizonMinMax
    <3> QED BY <2>7, <3>2
  <2>14. Query!Latest("ARRIVAL") = {} => Query!Max(A) > Query!Max(Instants)
    <3> SUFFICES ASSUME Query!Latest("ARRIVAL") = {} PROVE Query!Max(A) > Query!Max(Instants)
      OBVIOUS
    <3>1. Query!Max(Instants) + 1 \in A
      BY <2>1, <2>3 DEF Extreme
    <3>2. Query!Max(Instants) + 1 <= Query!Max(A) /\ Query!Max(A) \in Int
      BY <2>4, <3>1, HorizonMinMax
    <3> QED BY <2>7, <3>2
  <2>15. Query!Latest("DEPARTURE") = {} => Query!Max(D) > Query!Max(Instants)
    <3> SUFFICES ASSUME Query!Latest("DEPARTURE") = {} PROVE Query!Max(D) > Query!Max(Instants)
      OBVIOUS
    <3>1. high = Query!Max(Instants) + Query!Max(Durations) + 1
      BY <2>1 DEF Extreme
    <3>2. high <= Query!Max(D) /\ Query!Max(D) \in Int
      BY <2>4, <2>6, HorizonMinMax
    <3> QED BY <2>7, <3>1, <3>2
  <2> QED BY <2>6, <2>8, <2>9, <2>10, <2>11, <2>12, <2>13, <2>14, <2>15 DEF ExactAt, A, D
<1>6. Query!Conflict <=> Query!Solutions = {}
  BY <1>4, <1>5, ConflictIs
<1>7. ~ Query!Conflict => \A p \in Query!Points : ExactAt(p)
  BY <1>5, ConflictIs DEF Query!Points
<1> QED BY <1>6, <1>7 DEF Query!WindowsAreExact, ExactAt, TimesAt

\* A conflict is reported exactly when the requirements and facts cannot all be met,
\* and otherwise the windows run from the first to the last instant that meets them
\* (WindowsAreExact, of propagateScheduleBounds and evaluateScheduleConstraints).
THEOREM WindowsAlwaysExact ==
    ASSUME Query!QueryAssumption
    PROVE  Query!Spec => []Query!WindowsAreExact
<1>1. QueryInv => Query!WindowsAreExact
  BY WindowsExact
<1> QED BY <1>1, QueryInvariance, PTL

(***************************************************************************)
(* The floor of a query.                                                   *)
(***************************************************************************)
\* At most one instant.
Single(S) == S \subseteq Int /\ \A x, y \in S : x = y

\* The later of two instants, where there are any.
LEMMA LaterIs ==
    ASSUME NEW S, NEW T, Single(S), Single(T)
    PROVE  /\ Single(Query!Later(S, T))
           /\ \A x \in S \cup T : \E y \in Query!Later(S, T) : TRUE
           /\ \A x \in S \cup T, y \in Query!Later(S, T) : x <= y
<1>1. CASE S \cup T = {}
  BY <1>1 DEF Query!Later, Single
<1>2. CASE S \cup T # {}
  <2>1. PICK m \in S \cup T : \A x \in S \cup T : x <= m
    <3>0. \A x \in S \cup T : x \in Int
      BY DEF Single
    <3>1. CASE S = {} \/ T = {}
      <4>1. PICK m \in S \cup T : \A x \in S \cup T : x = m
        BY <1>2, <3>1 DEF Single
      <4>2. \A x \in S \cup T : x <= m
        BY <3>0, <4>1
      <4> QED BY <4>2
    <3>2. CASE S # {} /\ T # {}
      <4>1. PICK s \in S, t \in T : TRUE
        BY <3>2
      <4>2. s \in Int /\ t \in Int /\ \A x \in S \cup T : x = s \/ x = t
        BY DEF Single
      <4>3. s <= t \/ t <= s
        BY <4>2
      <4>4. s <= s /\ t <= t
        BY <4>2
      <4> QED BY <4>2, <4>3, <4>4
    <3> QED BY <3>1, <3>2
  <2>2. S \cup T \in SUBSET Int
    BY DEF Single
  <2>3. Query!Max(S \cup T) = m
    BY <2>1, <2>2, QueryMax
  <2>4. Query!Later(S, T) = {m}
    BY <1>2, <2>3 DEF Query!Later
  <2> QED BY <2>1, <2>2, <2>4 DEF Single
<1> QED BY <1>1, <1>2

\* The best value of a point that is known, if there is one.
EffectiveOf(p) ==
    /\ \A e, f \in Query!Effective(p) : e = f /\ e.at \in Nat
    /\ <<"NODE", p, "ACTUAL">> \in DOMAIN plan =>
         \E e \in Query!Effective(p) : e.layer = "ACTUAL" /\ e.at = plan[<<"NODE", p, "ACTUAL">>]
    /\ /\ <<"NODE", p, "ACTUAL">> \notin DOMAIN plan
       /\ <<"VEHICLE", p, "ACTUAL">> \in DOMAIN plan
       => \E e \in Query!Effective(p) : e.layer = "ACTUAL" /\ e.at = plan[<<"VEHICLE", p, "ACTUAL">>]

\* projectPoint gives it.
LEMMA EffectiveIs ==
    ASSUME Query!QueryAssumption, QueryInv, NEW p
    PROVE  EffectiveOf(p)
<1> DEFINE best == <<<<"NODE", "ACTUAL">>, <<"VEHICLE", "ACTUAL">>, <<"NODE", "ESTIMATED">>,
                     <<"VEHICLE", "PLANNED">>, <<"NODE", "PLANNED">>>>
           known == {i \in DOMAIN best : <<best[i][1], p, best[i][2]>> \in DOMAIN plan}
           value(i) == [at |-> plan[<<best[i][1], p, best[i][2]>>], layer |-> best[i][2]]
<1>1. Query!Effective(p) = {value(i) : i \in IF known = {} THEN {} ELSE {Query!Min(known)}}
  BY DEF Query!Effective
<1>2. /\ DOMAIN best = 1..5
      /\ best[1] = <<"NODE", "ACTUAL">> /\ best[2] = <<"VEHICLE", "ACTUAL">>
  OBVIOUS
<1>3. /\ 1 \in known <=> <<"NODE", p, "ACTUAL">> \in DOMAIN plan
      /\ 2 \in known <=> <<"VEHICLE", p, "ACTUAL">> \in DOMAIN plan
  BY <1>2
<1>4. /\ value(1) = [at |-> plan[<<"NODE", p, "ACTUAL">>], layer |-> "ACTUAL"]
      /\ value(2) = [at |-> plan[<<"VEHICLE", p, "ACTUAL">>], layer |-> "ACTUAL"]
  BY <1>2
<1>5. known \in SUBSET Nat /\ known \in SUBSET Int /\ 0 \notin known
  BY <1>2
<1>6. \A i \in known : value(i).at \in Nat
  <2> SUFFICES ASSUME NEW i \in known PROVE value(i).at \in Nat
    OBVIOUS
  <2>1. <<best[i][1], p, best[i][2]>> \in DOMAIN plan
    OBVIOUS
  <2>2. plan[<<best[i][1], p, best[i][2]>>] \in Instants
    BY <2>1 DEF QueryInv
  <2> HIDE DEF best
  <2> QED BY <2>2, HorizonIs
<1> HIDE DEF known, value
<1>7. known # {} => \E m \in known : Query!Min(known) = m /\ \A i \in known : m <= i
  <2> SUFFICES ASSUME known # {} PROVE \E m \in known : Query!Min(known) = m /\ \A i \in known : m <= i
    OBVIOUS
  <2>1. PICK m \in known : \A i \in known : m <= i
    BY <1>5, LeastNatural
  <2>2. Query!Min(known) = m
    BY <1>5, <2>1, QueryMin
  <2> QED BY <2>1, <2>2
<1>8. \A e, f \in Query!Effective(p) : e = f /\ e.at \in Nat
  BY <1>1, <1>6, <1>7
<1>9. 1 \in known => Query!Effective(p) = {value(1)}
  BY <1>1, <1>5, <1>7
<1>10. 1 \notin known /\ 2 \in known => Query!Effective(p) = {value(2)}
  <2> SUFFICES ASSUME 1 \notin known, 2 \in known PROVE Query!Effective(p) = {value(2)}
    OBVIOUS
  <2>1. PICK m \in known : Query!Min(known) = m /\ \A i \in known : m <= i
    BY <1>7
  <2>2. m = 2
    BY <1>5, <2>1
  <2> QED BY <1>1, <2>1, <2>2
<1>11. value(1).layer = "ACTUAL" /\ value(1).at = plan[<<"NODE", p, "ACTUAL">>]
  BY <1>4
<1>12. value(2).layer = "ACTUAL" /\ value(2).at = plan[<<"VEHICLE", p, "ACTUAL">>]
  BY <1>4
<1> QED BY <1>3, <1>8, <1>9, <1>10, <1>11, <1>12 DEF EffectiveOf

\* What the query computes from the departure's window has at most one value.
LEMMA EarliestSingle ==
    ASSUME Query!QueryAssumption, QueryInv, NEW p \in Query!Points
    PROVE  Single(Query!At(Query!Earliest(p)))
<1>1. \A b \in Query!Earliest(p) : b.at \in Nat
  BY EarliestIs DEF EarliestOf
<1>2. \A b, c \in Query!Earliest(p) : c.at <= b.at
  BY DEF Query!Earliest, Query!Greatest
<1> QED BY <1>1, <1>2 DEF Single, Query!At

\* One arrival is taken for the time of the place.
LEMMA ArrivalSingle ==
    ASSUME Query!QueryAssumption, QueryInv
    PROVE  Single(Query!Arrival) /\ Single(Query!Arrived) /\ Query!Arrival \subseteq Nat
<1>1. \A e, f \in Query!Effective("ARRIVAL") : e = f /\ e.at \in Nat
  BY EffectiveIs DEF EffectiveOf
<1>2. Query!Arrival \subseteq Nat /\ \A x, y \in Query!Arrival : x = y
  BY <1>1 DEF Query!Arrival
<1>3. Query!Arrived \subseteq Query!Arrival
  BY DEF Query!Arrival, Query!Arrived
<1> QED BY <1>2, <1>3 DEF Single

\* The start that is planned and the floor cover the bounds of the departure.
LEMMA StartSingle ==
    ASSUME Query!QueryAssumption, QueryInv
    PROVE  /\ Single(Query!PlanningStart) /\ Single(Query!Floor)
           /\ \A b \in Query!Earliest("DEPARTURE") : \E t \in Query!PlanningStart : b.at <= t
           /\ \A t \in Query!Arrived : \E f \in Query!Floor : t <= f
           /\ (\E b \in Query!Earliest("DEPARTURE") : b.rule # "MIN_DWELL_FORWARD")
                => \A b \in Query!Earliest("DEPARTURE") : \E f \in Query!Floor : b.at <= f
<1> DEFINE E == Query!At(Query!Earliest("DEPARTURE"))
           L == {t + d : t \in Query!Arrival, d \in Query!PlanningStay}
           F == IF \E b \in Query!Earliest("DEPARTURE") : b.rule # "MIN_DWELL_FORWARD" THEN E ELSE {}
<1>1. Single(E)
  BY EarliestSingle DEF Query!Points
<1>2. \A b \in Query!Earliest("DEPARTURE") : b.at \in E
  BY DEF Query!At
<1>3. Single(L)
  <2>1. /\ \A x, y \in Query!Arrival : x = y /\ x \in Nat
        /\ \A x, y \in Query!PlanningStay : x = y /\ x \in Nat
    BY ArrivalSingle, HorizonIs DEF Query!PlanningStay, QueryInv, Single
  <2> QED BY <2>1 DEF Single
<1>4. Single(F)
  BY <1>1 DEF Single
<1>5. Single(Query!Arrived)
  BY ArrivalSingle
<1>6. Query!PlanningStart = Query!Later(E, L) /\ Query!Floor = Query!Later(F, Query!Arrived)
  BY DEF Query!PlanningStart, Query!Floor
<1>7. (\E b \in Query!Earliest("DEPARTURE") : b.rule # "MIN_DWELL_FORWARD") => F = E
  OBVIOUS
<1> HIDE DEF E, L, F
<1>8. /\ Single(Query!PlanningStart) /\ Single(Query!Floor)
      /\ \A x \in E : \E y \in Query!PlanningStart : x <= y
      /\ \A x \in F \cup Query!Arrived : \E y \in Query!Floor : x <= y
  <2>1. /\ Single(Query!PlanningStart)
        /\ \A x \in E : \E y \in Query!PlanningStart : x <= y
    BY <1>1, <1>3, <1>6, LaterIs
  <2>2. /\ Single(Query!Floor)
        /\ \A x \in F \cup Query!Arrived : \E y \in Query!Floor : x <= y
    BY <1>4, <1>5, <1>6, LaterIs
  <2> QED BY <2>1, <2>2
<1> QED BY <1>2, <1>7, <1>8

\* A candidate is accepted only from the floor on, and no more than the query looks
\* back before the start that was planned.
LEMMA AcceptedStarts ==
    ASSUME Query!QueryAssumption, QueryInv, NEW c \in Query!Accepted
    PROVE  /\ c.departure \in Nat
           /\ \A f \in Query!Floor : f <= c.departure
           /\ \A t \in Query!PlanningStart : t - Lookback <= c.departure
<1> DEFINE B == {t - Lookback : t \in Query!PlanningStart}
           X == Query!ExpandedStart
           H == Query!Hint("DEPART_AT")
<1>1. c.departure \in Nat /\ \A s \in Query!StartOfQuery : c.departure >= s
  BY DEF Query!Accepted, QueryInv, Query!QueryAssumption, Query!RequestOK
<1>2. Lookback \in Nat /\ request.hint.at \in Nat
  BY DEF QueryInv, Query!QueryAssumption, Query!RequestOK
<1>3. Single(Query!PlanningStart) /\ Single(Query!Floor)
  BY StartSingle
<1>4. Single(B) /\ Single(H)
  BY <1>2, <1>3 DEF Single, Query!Hint
<1>5. X = IF Query!PlanningStart = {} THEN Query!Floor ELSE Query!Later(B, Query!Floor)
  BY DEF Query!ExpandedStart
<1>6. \A t \in Query!PlanningStart : t - Lookback \in B
  OBVIOUS
<1>7. Query!StartOfQuery = Query!Later(X, H)
  BY DEF Query!StartOfQuery
<1> HIDE DEF B, X, H
<1>8. Single(X) /\ (\A f \in Query!Floor : \E x \in X : f <= x)
      /\ \A t \in Query!PlanningStart : \E x \in X : t - Lookback <= x
  <2>1. CASE Query!PlanningStart = {}
    BY <1>3, <1>5, <2>1 DEF Single
  <2>2. CASE Query!PlanningStart # {}
    <3>1. X = Query!Later(B, Query!Floor)
      BY <1>5, <2>2
    <3>2. Single(X) /\ \A x \in B \cup Query!Floor : \E y \in X : x <= y
      BY <1>3, <1>4, <3>1, LaterIs
    <3> QED BY <1>6, <3>2
  <2> QED BY <2>1, <2>2
<1>9. \A x \in X : \E s \in Query!StartOfQuery : x <= s
  BY <1>4, <1>7, <1>8, LaterIs
<1>10. Single(Query!StartOfQuery)
  BY <1>4, <1>7, <1>8, LaterIs
<1>11. \A x \in X : x <= c.departure
  BY <1>1, <1>8, <1>9, <1>10 DEF Single
<1> QED BY <1>1, <1>2, <1>3, <1>8, <1>11 DEF Single

\* An arrival that is a fact bounds the floor.
LEMMA ArrivedIs ==
    ASSUME Query!QueryAssumption, QueryInv, ~ Crossed,
           NEW s \in DOMAIN plan, s[2] = "ARRIVAL", s[3] = "ACTUAL"
    PROVE  plan[s] \in Query!Arrived
<1> DEFINE n == <<"NODE", "ARRIVAL", "ACTUAL">>
           v == <<"VEHICLE", "ARRIVAL", "ACTUAL">>
<1>1. s = n \/ s = v
  <2>1. s \in Query!Slots
    BY DEF QueryInv
  <2>2. s \in ({"NODE"} \X Query!Points \X Query!Layers)
           \cup ({"VEHICLE"} \X Query!Points \X {"ACTUAL", "PLANNED"})
    BY <2>1 DEF Query!Slots, Query!Operators
  <2> QED BY <2>2
<1>2. Query!BoundsBelow(n) /\ Query!BoundsAbove(n) /\ Query!BoundsBelow(v) /\ Query!BoundsAbove(v)
  BY DEF Query!BoundsBelow, Query!BoundsAbove, Query!Fixed
<1>3. n[2] = "ARRIVAL" /\ v[2] = "ARRIVAL"
  OBVIOUS
<1> HIDE DEF n, v
<1>4. ASSUME n \in DOMAIN plan, v \in DOMAIN plan PROVE plan[n] = plan[v]
  <2>1. {plan[n], plan[v]} \subseteq Lows("ARRIVAL") /\ {plan[n], plan[v]} \subseteq Highs("ARRIVAL")
    BY <1>2, <1>3, <1>4 DEF Lows, Highs
  <2>2. /\ EarliestOf("ARRIVAL", Query!Earliest("ARRIVAL"))
        /\ LatestOf("ARRIVAL", Query!Latest("ARRIVAL"))
    BY EarliestIs, LatestIs DEF Query!Points
  <2>3. PICK b \in Query!Earliest("ARRIVAL"), c \in Query!Latest("ARRIVAL") : TRUE
    BY <2>1, <2>2 DEF EarliestOf, LatestOf
  <2>4. ~ (b.at > c.at)
    BY DEF Crossed, Query!Points
  <2>5. /\ plan[n] <= b.at /\ plan[v] <= b.at /\ c.at <= plan[n] /\ c.at <= plan[v]
        /\ b.at \in Int /\ c.at \in Int
    BY <2>1, <2>2 DEF EarliestOf, LatestOf
  <2>6. plan[n] \in Int /\ plan[v] \in Int
    BY <2>1, DirectBases DEF InRange
  <2> QED BY <2>4, <2>5, <2>6
<1>5. \E e \in Query!Effective("ARRIVAL") : e.layer = "ACTUAL" /\ e.at = plan[s]
  <2>1. EffectiveOf("ARRIVAL")
    BY EffectiveIs
  <2>2. /\ n \in DOMAIN plan =>
             \E e \in Query!Effective("ARRIVAL") : e.layer = "ACTUAL" /\ e.at = plan[n]
        /\ n \notin DOMAIN plan /\ v \in DOMAIN plan =>
             \E e \in Query!Effective("ARRIVAL") : e.layer = "ACTUAL" /\ e.at = plan[v]
    BY <2>1 DEF EffectiveOf, n, v
  <2>3. CASE n \in DOMAIN plan
    BY <1>1, <1>4, <2>2, <2>3
  <2>4. CASE n \notin DOMAIN plan
    BY <1>1, <2>2, <2>4
  <2> QED BY <2>3, <2>4
<1> QED BY <1>5 DEF Query!Arrived

\* A lower bound of the departure is a floor, unless the stay asks for more.
LEMMA DepartureFloor ==
    ASSUME Query!QueryAssumption, QueryInv, ~ Crossed,
           NEW s \in DOMAIN plan, s[2] = "DEPARTURE", Query!BoundsBelow(s)
    PROVE  \/ \E f \in Query!Floor : plan[s] <= f
           \/ /\ s = <<"USER", "DEPARTURE", "NOT_BEFORE">>
              /\ \E b \in Query!Forward : b \in Query!Earliest("DEPARTURE") /\ plan[s] < b.at
<1> DEFINE E == Query!Earliest("DEPARTURE")
           g == Query!Basis(s)
<1>1. plan[s] \in Lows("DEPARTURE") /\ plan[s] \in Nat
  BY DirectBases DEF Lows, InRange
<1>2. EarliestOf("DEPARTURE", E) /\ LatestOf("DEPARTURE", Query!Latest("DEPARTURE"))
  BY EarliestIs, LatestIs DEF Query!Points
<1>3. \A b \in E : b.at \in Nat /\ plan[s] <= b.at
  BY <1>1, <1>2 DEF EarliestOf
<1>4. E # {}
  BY <1>1, <1>2 DEF EarliestOf
<1>5. CASE \E b \in E : b.rule # "MIN_DWELL_FORWARD"
  <2>1. PICK b \in E, f \in Query!Floor : b.at <= f
    BY <1>4, <1>5, StartSingle
  <2>2. f \in Int
    BY StartSingle DEF Single
  <2>3. plan[s] <= f
    BY <1>1, <1>3, <2>1, <2>2
  <2> QED BY <2>3
<1>6. CASE \A b \in E : b.rule = "MIN_DWELL_FORWARD"
  <2>1. PICK b \in E : TRUE
    BY <1>4
  <2>2. E = Query!Greatest(Query!Below("DEPARTURE") \cup Query!Forward)
    BY DEF Query!Earliest
  <2>3. b \in Query!Forward
    BY <1>6, <2>2, DirectBases DEF Query!Greatest, BasesOf
  <2>4. g \in Query!Below("DEPARTURE") /\ g.at = plan[s]
    BY DEF Query!Below, Query!Basis
  <2>5. plan[s] # b.at
    <3> SUFFICES ASSUME plan[s] = b.at PROVE FALSE
      OBVIOUS
    <3>1. g \in E
      BY <2>2, <2>4 DEF Query!Greatest
    <3>2. g.rule # "MIN_DWELL_FORWARD"
      BY <2>4, DirectBases DEF BasesOf
    <3> QED BY <1>6, <3>1, <3>2
  <2>6. plan[s] < b.at
    BY <1>1, <1>3, <2>5
  <2>7. ~ Query!BoundsAbove(s)
    <3> SUFFICES ASSUME Query!BoundsAbove(s) PROVE FALSE
      OBVIOUS
    <3>1. plan[s] \in Highs("DEPARTURE")
      BY DEF Highs
    <3>2. PICK c \in Query!Latest("DEPARTURE") : c.at <= plan[s] /\ c.at \in Int
      BY <1>2, <3>1 DEF LatestOf
    <3>3. b.at > c.at
      BY <1>1, <1>3, <2>6, <3>2
    <3> QED BY <3>3 DEF Crossed, Query!Points
  <2>8. s[3] = "NOT_BEFORE" /\ s \in Query!Slots
    BY <2>7 DEF Query!BoundsBelow, Query!BoundsAbove, QueryInv
  <2>9. s = <<"USER", "DEPARTURE", "NOT_BEFORE">>
    BY <2>8 DEF Query!Slots, Query!Layers
  <2> QED BY <2>3, <2>6, <2>9
<1> QED BY <1>5, <1>6

\* So no candidate is accepted from before the floor.
LEMMA FloorKept ==
    ASSUME Query!QueryAssumption, QueryInv
    PROVE  Query!FloorHolds
<1> SUFFICES ASSUME Query!Verdict = "ASKED", NEW c \in Query!Accepted, NEW s \in DOMAIN plan,
                    ~ (s[2] = "DEPARTURE" /\ s[3] = "NOT_AFTER"),
                    ~ (s[1] = "NODE" /\ s[3] # "ACTUAL"),
                    ~ (s[2] = "ARRIVAL" /\ s[3] # "ACTUAL")
             PROVE  \/ plan[s] <= c.departure
                    \/ /\ s = <<"USER", "DEPARTURE", "NOT_BEFORE">>
                       /\ \E b \in Query!Forward : plan[s] < b.at /\ b.at < plan[s] + Lookback
  BY DEF Query!FloorHolds
<1>1. ~ Crossed
  <2>1. ~ Query!Conflict
    BY DEF Query!Verdict
  <2> QED BY <2>1, ConflictIs
<1>2. /\ c.departure \in Nat /\ \A f \in Query!Floor : f <= c.departure
      /\ \A t \in Query!PlanningStart : t - Lookback <= c.departure
  BY AcceptedStarts
<1>3. Query!Floor \subseteq Int /\ Query!PlanningStart \subseteq Int
  BY StartSingle DEF Single
<1>4. plan[s] \in Nat /\ s \in Query!Slots /\ Lookback \in Nat
  BY HorizonIs DEF QueryInv, Query!QueryAssumption
<1>5. s[2] = "ARRIVAL" \/ s[2] = "DEPARTURE"
  BY <1>4 DEF Query!Slots, Query!Points
<1>6. CASE s[2] = "ARRIVAL"
  <2>1. plan[s] \in Query!Arrived
    BY <1>1, <1>6, ArrivedIs
  <2>2. PICK f \in Query!Floor : plan[s] <= f
    BY <2>1, StartSingle
  <2> QED BY <1>2, <1>3, <1>4, <2>2
<1>7. CASE s[2] = "DEPARTURE"
  <2>1. Query!BoundsBelow(s)
    <3>1. s[3] # "NOT_AFTER"
      BY <1>7
    <3>2. s[1] = "NODE" => s[3] = "ACTUAL"
      OBVIOUS
    <3>3. s[1] = "USER" => s[3] \in {"EXACT", "NOT_BEFORE", "NOT_AFTER"}
      BY <1>4 DEF Query!Slots, Query!Operators
    <3>4. s[1] \in {"USER", "NODE", "VEHICLE"}
      BY <1>4 DEF Query!Slots
    <3> QED BY <3>1, <3>2, <3>3, <3>4 DEF Query!BoundsBelow, Query!Fixed
  <2>2. CASE \E f \in Query!Floor : plan[s] <= f
    <3>1. PICK f \in Query!Floor : plan[s] <= f
      BY <2>2
    <3> QED BY <1>2, <1>3, <1>4, <3>1
  <2>3. CASE /\ s = <<"USER", "DEPARTURE", "NOT_BEFORE">>
             /\ \E b \in Query!Forward : b \in Query!Earliest("DEPARTURE") /\ plan[s] < b.at
    <3>1. PICK b \in Query!Forward : b \in Query!Earliest("DEPARTURE") /\ plan[s] < b.at
      BY <2>3
    <3>2. PICK t \in Query!PlanningStart : b.at <= t
      BY <3>1, StartSingle
    <3>3. b.at \in Int
      BY <3>1, EarliestIs DEF EarliestOf, Query!Points
    <3>4. b.at < plan[s] + Lookback \/ plan[s] <= c.departure
      <4>1. t \in Int /\ t - Lookback <= c.departure
        BY <1>2, <1>3
      <4> QED BY <1>2, <1>4, <3>2, <3>3, <4>1
    <3> QED BY <2>3, <3>1, <3>4
  <2> QED BY <1>1, <1>7, <2>1, <2>2, <2>3, DepartureFloor
<1> QED BY <1>5, <1>6, <1>7

\* Looking back crosses no fact and no instant the user will not leave before, unless a
\* required stay asks for a later departure by less than the query looks back (FloorHolds,
\* of absoluteDepartureFloor and expandRouteQueryStart).
THEOREM FloorAlwaysHolds ==
    ASSUME Query!QueryAssumption
    PROVE  Query!Spec => []Query!FloorHolds
<1>1. QueryInv => Query!FloorHolds
  BY FloorKept
<1> QED BY <1>1, QueryInvariance, PTL

(***************************************************************************)
(* The ranking.  A finite set has one list in which no neighbours stand    *)
(* the wrong way round under a strict total order; the comparators are     *)
(* such orders where fares compare.                                        *)
(***************************************************************************)
\* Cardinality, in the instance.
LEMMA QueryCardinality ==
    ASSUME NEW S
    PROVE  Query!Cardinality(S) = Cardinality(S)
BY DEF Query!Cardinality, Cardinality

\* What sorts a set is a list of it.
LEMMA QuerySeqs ==
    ASSUME NEW S, IsFiniteSet(S), NEW s \in Query!SetToSeqs(S)
    PROVE  /\ s \in Seq(S) /\ Len(s) = Cardinality(S)
           /\ \A i, j \in 1..Len(s) : s[i] = s[j] => i = j
           /\ \A x \in S : \E i \in 1..Len(s) : s[i] = x
<1> DEFINE n == Cardinality(S)
<1>1. n \in Nat
  BY FS_CardinalityType
<1>2. s \in [1..n -> S] /\ \A i, j \in 1..n : i # j => s[i] # s[j]
  BY QueryCardinality DEF Query!SetToSeqs
<1> HIDE DEF n
<1>3. s \in Seq(S) /\ Len(s) = n
  BY <1>1, <1>2
<1>4. \A x \in S : \E i \in 1..n : s[i] = x
  <2> DEFINE T == {s[i] : i \in 1..n}
  <2>1. T \subseteq S
    BY <1>2
  <2>2. IsFiniteSet(1..n) /\ Cardinality(1..n) = n
    <3>1. 1 \in Int /\ n \in Int /\ (1 > n => n = 0)
      BY <1>1
    <3>2. n - 1 + 1 = n
      BY <1>1
    <3> QED BY <1>1, <3>1, <3>2, FS_Interval
  <2>3. ExistsBijection(1..n, T)
    <3>1. s \in [1..n -> T]
      BY <1>2
    <3>2. s \in Bijection(1..n, T)
      BY <1>2, <3>1 DEF Bijection, Injection, Surjection, IsInjective
    <3> QED BY <3>2 DEF ExistsBijection
  <2> HIDE DEF T
  <2>4. IsFiniteSet(T) /\ Cardinality(T) = n
    BY <2>2, <2>3, FS_Bijection
  <2>5. T = S
    BY <2>1, <2>4, FS_Subset DEF n
  <2> QED BY <2>5 DEF T
<1> QED BY <1>2, <1>3, <1>4 DEF n

\* R is a strict and total order of S.
StrictOrder(S, R) ==
    /\ \A x, y \in S : x = y \/ <<x, y>> \in R \/ <<y, x>> \in R
    /\ \A x, y \in S : ~ (<<x, y>> \in R /\ <<y, x>> \in R)
    /\ \A x, y, z \in S : <<x, y>> \in R /\ <<y, z>> \in R => <<x, z>> \in R

\* No neighbours of s stand the wrong way round.
InOrder(s, R) == \A i \in 1..(Len(s) - 1) : <<s[i + 1], s[i]>> \notin R

\* Neighbours in order, all in order.
LEMMA PairsInOrder ==
    ASSUME NEW S, NEW R, StrictOrder(S, R), NEW s \in Seq(S),
           \A i, j \in 1..Len(s) : s[i] = s[j] => i = j, InOrder(s, R)
    PROVE  \A i, j \in 1..Len(s) : i < j => <<s[i], s[j]>> \in R
<1> DEFINE B == {j \in 1..Len(s) : \E i \in 1..Len(s) : i < j /\ <<s[i], s[j]>> \notin R}
<1>0. Len(s) \in Nat
  OBVIOUS
<1> SUFFICES ASSUME B # {} PROVE FALSE
  OBVIOUS
<1>1. B \in SUBSET Nat
  OBVIOUS
<1>2. PICK j \in B : \A k \in B : j <= k
  <2> HIDE DEF B
  <2> QED BY <1>1, LeastNatural
<1>3. PICK i \in 1..Len(s) : i < j /\ <<s[i], s[j]>> \notin R
  OBVIOUS
<1>4. /\ j \in 1..Len(s) /\ j - 1 \in 1..Len(s) /\ j - 1 \in 1..(Len(s) - 1) /\ j - 1 + 1 = j
      /\ i = j - 1 \/ i < j - 1
  BY <1>0, <1>3
<1>5. <<s[j - 1], s[j]>> \in R
  <2>1. s[j - 1] # s[j]
    BY <1>4
  <2>2. <<s[j], s[j - 1]>> \notin R
    BY <1>4 DEF InOrder
  <2>3. s[j] \in S /\ s[j - 1] \in S
    BY <1>4
  <2> QED BY <2>1, <2>2, <2>3 DEF StrictOrder
<1>6. i < j - 1
  BY <1>3, <1>4, <1>5
<1>7. j - 1 \notin B
  <2>1. ~ (j <= j - 1)
    BY <1>4
  <2> HIDE DEF B
  <2> QED BY <1>2, <2>1
<1>8. <<s[i], s[j - 1]>> \in R
  BY <1>4, <1>6, <1>7
<1>9. s[i] \in S /\ s[j - 1] \in S /\ s[j] \in S
  BY <1>4
<1> QED BY <1>3, <1>5, <1>8, <1>9 DEF StrictOrder

\* A set has one order only.
LEMMA OneOrder ==
    ASSUME NEW S, IsFiniteSet(S), NEW R, StrictOrder(S, R),
           NEW s \in Query!SetToSeqs(S), NEW t \in Query!SetToSeqs(S), InOrder(s, R), InOrder(t, R)
    PROVE  s = t
<1> DEFINE n == Cardinality(S)
           B == {k \in 1..n : s[k] # t[k]}
<1>0. n \in Nat
  BY FS_CardinalityType
<1>1. /\ s \in Seq(S) /\ Len(s) = n
      /\ \A i, j \in 1..n : s[i] = s[j] => i = j
      /\ \A x \in S : \E i \in 1..n : s[i] = x
  BY QuerySeqs
<1>2. /\ t \in Seq(S) /\ Len(t) = n
      /\ \A i, j \in 1..n : t[i] = t[j] => i = j
      /\ \A x \in S : \E i \in 1..n : t[i] = x
  BY QuerySeqs
<1> HIDE DEF n
<1>3. \A i, j \in 1..n : i < j => <<s[i], s[j]>> \in R
  BY <1>1, PairsInOrder
<1>4. \A i, j \in 1..n : i < j => <<t[i], t[j]>> \in R
  BY <1>2, PairsInOrder
<1>5. ASSUME B # {} PROVE FALSE
  <2>1. B \in SUBSET Nat
    BY <1>0
  <2>2. PICK k \in B : \A j \in B : k <= j
    <3> HIDE DEF B
    <3> QED BY <1>5, <2>1, LeastNatural
  <2>3. k \in 1..n /\ s[k] # t[k] /\ s[k] \in S /\ t[k] \in S
    BY <1>1, <1>2
  <2>4. \A j \in 1..n : j < k => s[j] = t[j]
    BY <1>0, <2>2
  <2>5. PICK i \in 1..n : s[i] = t[k]
    BY <1>1, <2>3
  <2>6. PICK j \in 1..n : t[j] = s[k]
    BY <1>2, <2>3
  <2> HIDE DEF B
  <2>7. k < i
    <3>1. i # k
      BY <2>3, <2>5
    <3>2. ~ (i < k)
      <4> SUFFICES ASSUME i < k PROVE FALSE
        OBVIOUS
      <4>1. t[i] = t[k]
        BY <2>4, <2>5
      <4> QED BY <1>2, <2>3, <3>1, <4>1
    <3> QED BY <1>0, <2>3, <3>1, <3>2
  <2>8. k < j
    <3>1. j # k
      BY <2>3, <2>6
    <3>2. ~ (j < k)
      <4> SUFFICES ASSUME j < k PROVE FALSE
        OBVIOUS
      <4>1. s[j] = s[k]
        BY <2>4, <2>6
      <4> QED BY <1>1, <2>3, <3>1, <4>1
    <3> QED BY <1>0, <2>3, <3>1, <3>2
  <2>9. <<s[k], t[k]>> \in R /\ <<t[k], s[k]>> \in R
    BY <1>3, <1>4, <2>3, <2>5, <2>6, <2>7, <2>8
  <2> QED BY <2>3, <2>9 DEF StrictOrder
<1>6. \A k \in 1..n : s[k] = t[k]
  BY <1>5
<1> QED BY <1>0, <1>1, <1>2, <1>6

\* A comparator's list of differences, read out.
LEMMA FourDifferences ==
    ASSUME NEW x \in Int, NEW y \in Int, NEW z \in Int, NEW w \in Int
    PROVE  Query!Precedes(<<x>> \o <<y, z, w>>) <=>
             x < 0 \/ (x = 0 /\ (y < 0 \/ (y = 0 /\ (z < 0 \/ (z = 0 /\ w < 0)))))
<1> DEFINE d == <<x>> \o <<y, z, w>>
<1>1. /\ Len(<<x>>) = 1 /\ Len(<<y, z, w>>) = 3 /\ <<x>> \in Seq(Int) /\ <<y, z, w>> \in Seq(Int)
      /\ <<x>>[1] = x /\ <<y, z, w>>[1] = y /\ <<y, z, w>>[2] = z /\ <<y, z, w>>[3] = w
  OBVIOUS
<1>2. /\ Len(d) = 4 /\ d \in Seq(Int)
      /\ d[1] = <<x>>[1] /\ \A i \in 2..4 : d[i] = <<y, z, w>>[i - 1]
  BY <1>1, ConcatProperties
<1> HIDE DEF d
<1>3. DOMAIN d = 1..4 /\ d[1] = x /\ d[2] = y /\ d[3] = z /\ d[4] = w
  BY <1>1, <1>2
<1>4. Query!Precedes(d) <=> \E i \in 1..4 : d[i] < 0 /\ \A j \in 1..(i - 1) : d[j] = 0
  BY <1>3 DEF Query!Precedes
<1>5. (\E i \in 1..4 : d[i] < 0 /\ \A j \in 1..(i - 1) : d[j] = 0) <=>
         \/ d[1] < 0
         \/ d[2] < 0 /\ d[1] = 0
         \/ d[3] < 0 /\ d[1] = 0 /\ d[2] = 0
         \/ d[4] < 0 /\ d[1] = 0 /\ d[2] = 0 /\ d[3] = 0
  OBVIOUS
<1> QED BY <1>3, <1>4, <1>5 DEF d

\* A comparison by five differences likewise.
LEMMA FiveDifferences ==
    ASSUME NEW u \in Int, NEW x \in Int, NEW y \in Int, NEW z \in Int, NEW w \in Int, NEW d,
           DOMAIN d = 1..5, d[1] = u, d[2] = x, d[3] = y, d[4] = z, d[5] = w
    PROVE  Query!Precedes(d) <=>
             u < 0 \/ (u = 0 /\ (x < 0 \/ (x = 0 /\ (y < 0 \/ (y = 0 /\ (z < 0 \/ (z = 0 /\ w < 0)))))))
<1>1. Query!Precedes(d) <=> \E i \in 1..5 : d[i] < 0 /\ \A j \in 1..(i - 1) : d[j] = 0
  BY DEF Query!Precedes
<1>2. (\E i \in 1..5 : d[i] < 0 /\ \A j \in 1..(i - 1) : d[j] = 0) <=>
         \/ d[1] < 0
         \/ d[2] < 0 /\ d[1] = 0
         \/ d[3] < 0 /\ d[1] = 0 /\ d[2] = 0
         \/ d[4] < 0 /\ d[1] = 0 /\ d[2] = 0 /\ d[3] = 0
         \/ d[5] < 0 /\ d[1] = 0 /\ d[2] = 0 /\ d[3] = 0 /\ d[4] = 0
  OBVIOUS
<1> QED BY <1>1, <1>2

\* The list of arriveByComparator.
LEMMA TwoAndThree ==
    ASSUME NEW u \in Int, NEW x \in Int, NEW y \in Int, NEW z \in Int, NEW w \in Int, NEW d,
           d = <<u, x>> \o <<y, z, w>>
    PROVE  DOMAIN d = 1..5 /\ d[1] = u /\ d[2] = x /\ d[3] = y /\ d[4] = z /\ d[5] = w
<1>1. /\ Len(<<u, x>>) = 2 /\ Len(<<y, z, w>>) = 3 /\ <<u, x>> \in Seq(Int) /\ <<y, z, w>> \in Seq(Int)
      /\ <<u, x>>[1] = u /\ <<u, x>>[2] = x
      /\ <<y, z, w>>[1] = y /\ <<y, z, w>>[2] = z /\ <<y, z, w>>[3] = w
  OBVIOUS
<1>2. /\ Len(d) = 5 /\ d \in Seq(Int)
      /\ \A i \in 1..2 : d[i] = <<u, x>>[i] /\ \A k \in 3..5 : d[k] = <<y, z, w>>[k - 2]
  BY <1>1, ConcatProperties
<1> QED BY <1>1, <1>2

\* The list of the value pool.
LEMMA OneAndFour ==
    ASSUME NEW u \in Int, NEW x \in Int, NEW y \in Int, NEW z \in Int, NEW w \in Int, NEW d,
           d = <<u>> \o (<<x>> \o <<y, z, w>>)
    PROVE  DOMAIN d = 1..5 /\ d[1] = u /\ d[2] = x /\ d[3] = y /\ d[4] = z /\ d[5] = w
<1> DEFINE e == <<x>> \o <<y, z, w>>
<1>1. /\ Len(<<x>>) = 1 /\ Len(<<y, z, w>>) = 3 /\ <<x>> \in Seq(Int) /\ <<y, z, w>> \in Seq(Int)
      /\ <<x>>[1] = x /\ <<y, z, w>>[1] = y /\ <<y, z, w>>[2] = z /\ <<y, z, w>>[3] = w
      /\ Len(<<u>>) = 1 /\ <<u>> \in Seq(Int) /\ <<u>>[1] = u
  OBVIOUS
<1>2. /\ Len(e) = 4 /\ e \in Seq(Int)
      /\ e[1] = <<x>>[1] /\ \A i \in 2..4 : e[i] = <<y, z, w>>[i - 1]
  BY <1>1, ConcatProperties
<1>3. d = <<u>> \o e
  OBVIOUS
<1> HIDE DEF e
<1>4. /\ Len(d) = 5 /\ d \in Seq(Int)
      /\ d[1] = <<u>>[1] /\ \A i \in 2..5 : d[i] = e[i - 1]
  BY <1>1, <1>2, <1>3, ConcatProperties
<1> QED BY <1>1, <1>2, <1>4

\* The amount of a fare.
Amount(c) == IF c.fare = {} THEN 0 ELSE (CHOOSE f \in c.fare : TRUE).amount

\* Candidates as a provider answers them, with different ids.
Candidates(S) ==
    /\ \A c \in S : /\ c.departure \in Int /\ c.arrival \in Int /\ c.transfers \in Int /\ c.id \in Int
                    /\ \A f, g \in c.fare : f = g /\ f.amount \in Int
    /\ \A c, d \in S : c.id = d.id => c = d

\* It is what compareComparableFare takes.
LEMMA AmountIs ==
    ASSUME NEW S, Candidates(S), NEW c \in S
    PROVE  /\ Amount(c) \in Int
           /\ c.fare # {} => Query!Max({f.amount : f \in c.fare}) = Amount(c)
<1>1. \A f, g \in c.fare : f = g /\ f.amount \in Int
  BY DEF Candidates
<1>2. CASE c.fare = {}
  BY <1>2 DEF Amount
<1>3. CASE c.fare # {}
  <2>1. PICK f \in c.fare : Amount(c) = f.amount
    BY <1>3 DEF Amount
  <2>2. {g.amount : g \in c.fare} = {f.amount}
    BY <1>1
  <2>3. f.amount \in Int /\ \A n \in {f.amount} : n <= f.amount
    BY <1>1
  <2>4. Query!Max({f.amount}) = f.amount
    BY <2>3, QueryMax
  <2> QED BY <2>1, <2>2, <2>3, <2>4
<1> QED BY <1>2, <1>3

\* Fares that compare differ by their amounts.
LEMMA FareIs ==
    ASSUME NEW S, Candidates(S), NEW l \in S, NEW r \in S
    PROVE  /\ Query!FareDifference(l, r) \in Int
           /\ Query!Comparable(l, r) => Query!FareDifference(l, r) = Amount(l) - Amount(r)
<1>1. Amount(l) \in Int /\ Amount(r) \in Int
  BY AmountIs
<1>2. CASE \E f \in l.fare, g \in r.fare : f.currency = g.currency
  <2>1. l.fare # {} /\ r.fare # {}
    BY <1>2
  <2>2. Query!FareDifference(l, r) = Amount(l) - Amount(r)
    BY <1>2, <2>1, AmountIs DEF Query!FareDifference
  <2> QED BY <1>1, <2>2
<1>3. CASE ~ \E f \in l.fare, g \in r.fare : f.currency = g.currency
  <2>1. Query!FareDifference(l, r) = 0
    BY <1>3 DEF Query!FareDifference
  <2>2. Query!Comparable(l, r) => l.fare = {} /\ r.fare = {}
    BY <1>3 DEF Query!Comparable
  <2>3. Query!Comparable(l, r) => Amount(l) = 0 /\ Amount(r) = 0
    BY <2>2 DEF Amount
  <2> QED BY <2>1, <2>3
<1> QED BY <1>2, <1>3

\* Candidates that arrive together have fares that compare.
Fares(S) == \A l, r \in S : l.arrival = r.arrival => Query!Comparable(l, r)

\* What the comparators make of two candidates.
EarlyPairs(S) == {p \in S \X S : Query!Precedes(Query!EarlyFirst(p[1], p[2]))}
LatePairs(S)  == {p \in S \X S : Query!Precedes(Query!LateFirst(p[1], p[2]))}
CheapPairs(S) == {p \in S \X S : Query!Precedes(Query!CheapFirst(p[1], p[2]))}

\* primaryComparator is a strict order, if fares of routes that arrive together compare.
LEMMA EarlyOrder ==
    ASSUME NEW S, Candidates(S), Fares(S)
    PROVE  StrictOrder(S, EarlyPairs(S))
<1> DEFINE Sooner(l, r) ==
              \/ l.arrival < r.arrival
              \/ /\ l.arrival = r.arrival
                 /\ \/ Amount(l) < Amount(r)
                    \/ /\ Amount(l) = Amount(r)
                       /\ l.transfers < r.transfers \/ (l.transfers = r.transfers /\ l.id < r.id)
<1>1. \A c \in S : c.arrival \in Int /\ Amount(c) \in Int /\ c.transfers \in Int /\ c.id \in Int
  BY AmountIs DEF Candidates
<1>2. ASSUME NEW l \in S, NEW r \in S
      PROVE  <<l, r>> \in EarlyPairs(S) <=> Sooner(l, r)
  <2> DEFINE x == l.arrival - r.arrival
             y == Query!FareDifference(l, r)
             z == l.transfers - r.transfers
             w == l.id - r.id
  <2>1. x \in Int /\ y \in Int /\ z \in Int /\ w \in Int
    BY <1>1, FareIs
  <2>2. Query!EarlyFirst(l, r) = <<x>> \o <<y, z, w>>
    BY DEF Query!EarlyFirst, Query!FareThenTies
  <2>3. x = 0 => y = Amount(l) - Amount(r)
    <3>1. x = 0 => Query!Comparable(l, r)
      BY <1>1 DEF Fares
    <3> QED BY <3>1, FareIs
  <2>4. <<l, r>> \in EarlyPairs(S) <=> Query!Precedes(<<x>> \o <<y, z, w>>)
    BY <2>2 DEF EarlyPairs
  <2>5. (x < 0 <=> l.arrival < r.arrival) /\ (x = 0 <=> l.arrival = r.arrival)
    BY <1>1
  <2>6. (z < 0 <=> l.transfers < r.transfers) /\ (z = 0 <=> l.transfers = r.transfers)
    BY <1>1
  <2>7. w < 0 <=> l.id < r.id
    BY <1>1
  <2> HIDE DEF x, y, z, w
  <2>8. x = 0 => (y < 0 <=> Amount(l) < Amount(r)) /\ (y = 0 <=> Amount(l) = Amount(r))
    BY <1>1, <2>3
  <2>9. Query!Precedes(<<x>> \o <<y, z, w>>) <=>
          x < 0 \/ (x = 0 /\ (y < 0 \/ (y = 0 /\ (z < 0 \/ (z = 0 /\ w < 0)))))
    BY <2>1, FourDifferences
  <2> QED BY <2>4, <2>5, <2>6, <2>7, <2>8, <2>9
<1>3. \A l, r \in S : l.id = r.id => l = r
  BY DEF Candidates
<1>4. \A l, r \in S : l = r \/ Sooner(l, r) \/ Sooner(r, l)
  BY <1>1, <1>3
<1>5. \A l, r \in S : ~ (Sooner(l, r) /\ Sooner(r, l))
  BY <1>1
<1>6. \A l, m, r \in S : Sooner(l, m) /\ Sooner(m, r) => Sooner(l, r)
  BY <1>1
<1> HIDE DEF Sooner
<1> QED BY <1>2, <1>4, <1>5, <1>6 DEF StrictOrder

\* So is arriveByComparator.
LEMMA LateOrder ==
    ASSUME NEW S, Candidates(S), Fares(S)
    PROVE  StrictOrder(S, LatePairs(S))
<1> DEFINE Sooner(l, r) ==
              \/ r.departure < l.departure
              \/ /\ l.departure = r.departure
                 /\ \/ l.arrival < r.arrival
                    \/ /\ l.arrival = r.arrival
                       /\ \/ Amount(l) < Amount(r)
                          \/ /\ Amount(l) = Amount(r)
                             /\ l.transfers < r.transfers \/ (l.transfers = r.transfers /\ l.id < r.id)
<1>1. \A c \in S : /\ c.departure \in Int /\ c.arrival \in Int /\ Amount(c) \in Int
                   /\ c.transfers \in Int /\ c.id \in Int
  BY AmountIs DEF Candidates
<1>2. ASSUME NEW l \in S, NEW r \in S
      PROVE  <<l, r>> \in LatePairs(S) <=> Sooner(l, r)
  <2> DEFINE u == r.departure - l.departure
             x == (l.arrival - l.departure) - (r.arrival - r.departure)
             y == Query!FareDifference(l, r)
             z == l.transfers - r.transfers
             w == l.id - r.id
  <2>1. u \in Int /\ x \in Int /\ y \in Int /\ z \in Int /\ w \in Int
    BY <1>1, FareIs
  <2>2. PICK d : d = Query!LateFirst(l, r) /\ d = <<u, x>> \o <<y, z, w>>
    BY DEF Query!LateFirst, Query!FareThenTies
  <2>3. u = 0 /\ x = 0 => y = Amount(l) - Amount(r)
    <3>1. u = 0 /\ x = 0 => l.arrival = r.arrival
      BY <1>1
    <3>2. u = 0 /\ x = 0 => Query!Comparable(l, r)
      BY <3>1 DEF Fares
    <3> QED BY <3>2, FareIs
  <2>4. <<l, r>> \in LatePairs(S) <=> Query!Precedes(d)
    BY <2>2 DEF LatePairs
  <2>5. (u < 0 <=> r.departure < l.departure) /\ (u = 0 <=> l.departure = r.departure)
    BY <1>1
  <2>6. u = 0 => (x < 0 <=> l.arrival < r.arrival) /\ (x = 0 <=> l.arrival = r.arrival)
    BY <1>1
  <2>7. (z < 0 <=> l.transfers < r.transfers) /\ (z = 0 <=> l.transfers = r.transfers)
    BY <1>1
  <2>8. w < 0 <=> l.id < r.id
    BY <1>1
  <2> HIDE DEF u, x, y, z, w
  <2>9. u = 0 /\ x = 0 => (y < 0 <=> Amount(l) < Amount(r)) /\ (y = 0 <=> Amount(l) = Amount(r))
    BY <1>1, <2>3
  <2>10. DOMAIN d = 1..5 /\ d[1] = u /\ d[2] = x /\ d[3] = y /\ d[4] = z /\ d[5] = w
    BY <2>1, <2>2, TwoAndThree
  <2>11. Query!Precedes(d) <=>
          u < 0 \/ (u = 0 /\ (x < 0 \/ (x = 0 /\ (y < 0 \/ (y = 0 /\ (z < 0 \/ (z = 0 /\ w < 0)))))))
    BY <2>1, <2>10, FiveDifferences
  <2> QED BY <2>4, <2>5, <2>6, <2>7, <2>8, <2>9, <2>11
<1>3. \A l, r \in S : l.id = r.id => l = r
  BY DEF Candidates
<1>4. \A l, r \in S : l = r \/ Sooner(l, r) \/ Sooner(r, l)
  BY <1>1, <1>3
<1>5. \A l, r \in S : ~ (Sooner(l, r) /\ Sooner(r, l))
  BY <1>1
<1>6. \A l, m, r \in S : Sooner(l, m) /\ Sooner(m, r) => Sooner(l, r)
  BY <1>1
<1> HIDE DEF Sooner
<1> QED BY <1>2, <1>4, <1>5, <1>6 DEF StrictOrder

\* And the order of the value pool, if all fares compare.
LEMMA CheapOrder ==
    ASSUME NEW S, Candidates(S), \A l, r \in S : Query!Comparable(l, r)
    PROVE  StrictOrder(S, CheapPairs(S))
<1> DEFINE Sooner(l, r) ==
              \/ Amount(l) < Amount(r)
              \/ /\ Amount(l) = Amount(r)
                 /\ \/ l.arrival < r.arrival
                    \/ /\ l.arrival = r.arrival
                       /\ l.transfers < r.transfers \/ (l.transfers = r.transfers /\ l.id < r.id)
<1>1. \A c \in S : c.arrival \in Int /\ Amount(c) \in Int /\ c.transfers \in Int /\ c.id \in Int
  BY AmountIs DEF Candidates
<1>2. ASSUME NEW l \in S, NEW r \in S
      PROVE  <<l, r>> \in CheapPairs(S) <=> Sooner(l, r)
  <2> DEFINE x == l.arrival - r.arrival
             y == Query!FareDifference(l, r)
             z == l.transfers - r.transfers
             w == l.id - r.id
  <2>1. x \in Int /\ y \in Int /\ z \in Int /\ w \in Int
    BY <1>1, FareIs
  <2>2. PICK d : d = Query!CheapFirst(l, r) /\ d = <<y>> \o (<<x>> \o <<y, z, w>>)
    BY DEF Query!CheapFirst, Query!EarlyFirst, Query!FareThenTies
  <2>3. y = Amount(l) - Amount(r)
    BY FareIs
  <2>4. <<l, r>> \in CheapPairs(S) <=> Query!Precedes(d)
    BY <2>2 DEF CheapPairs
  <2>5. (x < 0 <=> l.arrival < r.arrival) /\ (x = 0 <=> l.arrival = r.arrival)
    BY <1>1
  <2>6. (z < 0 <=> l.transfers < r.transfers) /\ (z = 0 <=> l.transfers = r.transfers)
    BY <1>1
  <2>7. w < 0 <=> l.id < r.id
    BY <1>1
  <2> HIDE DEF x, y, z, w
  <2>8. (y < 0 <=> Amount(l) < Amount(r)) /\ (y = 0 <=> Amount(l) = Amount(r))
    BY <1>1, <2>3
  <2>9. DOMAIN d = 1..5 /\ d[1] = y /\ d[2] = x /\ d[3] = y /\ d[4] = z /\ d[5] = w
    BY <2>1, <2>2, OneAndFour
  <2>10. Query!Precedes(d) <=>
          y < 0 \/ (y = 0 /\ (x < 0 \/ (x = 0 /\ (y < 0 \/ (y = 0 /\ (z < 0 \/ (z = 0 /\ w < 0)))))))
    BY <2>1, <2>9, FiveDifferences
  <2>11. y < 0 => y # 0
    BY <2>1
  <2> QED BY <2>4, <2>5, <2>6, <2>7, <2>8, <2>10, <2>11
<1>3. \A l, r \in S : l.id = r.id => l = r
  BY DEF Candidates
<1>4. \A l, r \in S : l = r \/ Sooner(l, r) \/ Sooner(r, l)
  BY <1>1, <1>3
<1>5. \A l, r \in S : ~ (Sooner(l, r) /\ Sooner(r, l))
  BY <1>1
<1>6. \A l, m, r \in S : Sooner(l, m) /\ Sooner(m, r) => Sooner(l, r)
  BY <1>1
<1> HIDE DEF Sooner
<1> QED BY <1>2, <1>4, <1>5, <1>6 DEF StrictOrder

\* A sort of either kind has one answer.
Unique(T) == \A s, t \in T : s = t

\* Then what is sorted has one order.
LEMMA SortedOnce ==
    ASSUME NEW S, IsFiniteSet(S), Candidates(S)
    PROVE  /\ Fares(S) => Unique(Query!Sorted(S, Query!EarlyFirst))
           /\ Fares(S) => Unique(Query!Sorted(S, Query!LateFirst))
           /\ (\A l, r \in S : Query!Comparable(l, r)) => Unique(Query!Sorted(S, Query!CheapFirst))
           /\ \A s \in Query!Sorted(S, Query!EarlyFirst) : s \in Query!SetToSeqs(S)
           /\ \A s \in Query!Sorted(S, Query!CheapFirst) : s \in Query!SetToSeqs(S)
<1>1. \A s \in Query!SetToSeqs(S) : \A i \in 1..(Len(s) - 1) : s[i] \in S /\ s[i + 1] \in S
  <2> SUFFICES ASSUME NEW s \in Query!SetToSeqs(S), NEW i \in 1..(Len(s) - 1)
               PROVE  s[i] \in S /\ s[i + 1] \in S
    OBVIOUS
  <2>1. s \in Seq(S)
    BY QuerySeqs
  <2>2. i \in 1..Len(s) /\ i + 1 \in 1..Len(s)
    BY <2>1
  <2> QED BY <2>1, <2>2
<1>2. \A s \in Query!Sorted(S, Query!EarlyFirst) : s \in Query!SetToSeqs(S) /\ InOrder(s, EarlyPairs(S))
  <2> SUFFICES ASSUME NEW s \in Query!Sorted(S, Query!EarlyFirst)
               PROVE  s \in Query!SetToSeqs(S) /\ InOrder(s, EarlyPairs(S))
    OBVIOUS
  <2>1. s \in Query!SetToSeqs(S)
        /\ \A i \in 1..(Len(s) - 1) : ~ Query!Precedes(Query!EarlyFirst(s[i + 1], s[i]))
    BY DEF Query!Sorted
  <2> QED BY <1>1, <2>1 DEF InOrder, EarlyPairs
<1>3. \A s \in Query!Sorted(S, Query!LateFirst) : s \in Query!SetToSeqs(S) /\ InOrder(s, LatePairs(S))
  <2> SUFFICES ASSUME NEW s \in Query!Sorted(S, Query!LateFirst)
               PROVE  s \in Query!SetToSeqs(S) /\ InOrder(s, LatePairs(S))
    OBVIOUS
  <2>1. s \in Query!SetToSeqs(S)
        /\ \A i \in 1..(Len(s) - 1) : ~ Query!Precedes(Query!LateFirst(s[i + 1], s[i]))
    BY DEF Query!Sorted
  <2> QED BY <1>1, <2>1 DEF InOrder, LatePairs
<1>4. \A s \in Query!Sorted(S, Query!CheapFirst) : s \in Query!SetToSeqs(S) /\ InOrder(s, CheapPairs(S))
  <2> SUFFICES ASSUME NEW s \in Query!Sorted(S, Query!CheapFirst)
               PROVE  s \in Query!SetToSeqs(S) /\ InOrder(s, CheapPairs(S))
    OBVIOUS
  <2>1. s \in Query!SetToSeqs(S)
        /\ \A i \in 1..(Len(s) - 1) : ~ Query!Precedes(Query!CheapFirst(s[i + 1], s[i]))
    BY DEF Query!Sorted
  <2> QED BY <1>1, <2>1 DEF InOrder, CheapPairs
<1>5. Fares(S) => Unique(Query!Sorted(S, Query!EarlyFirst))
  BY <1>2, EarlyOrder, OneOrder DEF Unique
<1>6. Fares(S) => Unique(Query!Sorted(S, Query!LateFirst))
  BY <1>3, LateOrder, OneOrder DEF Unique
<1>7. (\A l, r \in S : Query!Comparable(l, r)) => Unique(Query!Sorted(S, Query!CheapFirst))
  BY <1>4, CheapOrder, OneOrder DEF Unique
<1> QED BY <1>2, <1>4, <1>5, <1>6, <1>7

\* The pool of candidates worth their fare has fares in one currency.
LEMMA PoolCompares ==
    ASSUME NEW S, IsFiniteSet(S), Candidates(S), NEW first, NEW start
    PROVE  /\ Query!ValuePool(S, first, start) \in SUBSET S
           /\ \A l, r \in Query!ValuePool(S, first, start) : Query!Comparable(l, r)
<1> DEFINE pool == {c \in S : /\ c.fare # {}
                              /\ Query!TimeFrom(start, c) * 10 <= Query!TimeFrom(start, first) * 14}
           money == {f.currency : f \in UNION {c.fare : c \in pool}}
           g == [c \in S |-> (CHOOSE f \in c.fare : TRUE).currency]
<1>1. Query!ValuePool(S, first, start) = IF Query!Cardinality(money) = 1 THEN pool ELSE {}
  BY DEF Query!ValuePool
<1>2. pool \in SUBSET S /\ \A c \in pool : c.fare # {}
  OBVIOUS
<1>3. money = {f.currency : f \in UNION {c.fare : c \in pool}}
  OBVIOUS
<1>4. \A c \in S : g[c] = (CHOOSE f \in c.fare : TRUE).currency
  OBVIOUS
<1> HIDE DEF pool, money, g
<1>5. \A c \in pool : \A f \in c.fare : f.currency = g[c]
  <2> SUFFICES ASSUME NEW c \in pool, NEW f \in c.fare PROVE f.currency = g[c]
    OBVIOUS
  <2>1. \A h \in c.fare : h = f
    BY <1>2 DEF Candidates
  <2>2. (CHOOSE h \in c.fare : TRUE) = f
    BY <2>1
  <2> QED BY <1>2, <1>4, <2>2
<1>6. \A c \in pool : \A f \in c.fare : f.currency \in money
  BY <1>3
<1>7. IsFiniteSet(money)
  <2>1. money = {g[c] : c \in pool}
    <3>1. \A m \in money : \E c \in pool : \E f \in c.fare : m = f.currency
      BY <1>3
    <3>2. \A m \in money : \E c \in pool : m = g[c]
      BY <1>5, <3>1
    <3>3. \A c \in pool : g[c] \in money
      BY <1>2, <1>5, <1>6
    <3> QED BY <3>2, <3>3
  <2>2. IsFiniteSet(pool)
    BY <1>2, FS_Subset
  <2> QED BY <2>1, <2>2, ImageIsFinite
<1>8. ASSUME Query!Cardinality(money) = 1, NEW l \in pool, NEW r \in pool
      PROVE  Query!Comparable(l, r)
  <2>1. PICK x : money = {x}
    <3>1. Cardinality(money) = 1
      BY <1>8, QueryCardinality
    <3> QED BY <1>7, <3>1, FS_Singleton
  <2>2. \A c \in pool : {f.currency : f \in c.fare} = {x}
    BY <1>2, <1>6, <2>1
  <2> QED BY <2>2 DEF Query!Comparable
<1>9. Query!ValuePool(S, first, start) \subseteq pool
      /\ (Query!ValuePool(S, first, start) # {} => Query!Cardinality(money) = 1)
  BY <1>1
<1> QED BY <1>2, <1>8, <1>9

\* The candidate worth its fare, unless it is the first one.
ValueOf(first, byFare) == IF byFare = <<>> \/ byFare[1] = first THEN <<>> ELSE <<byFare[1]>>

\* All of it holds for some of the candidates.
LEMMA SubsetRanks ==
    ASSUME NEW S, IsFiniteSet(S), Candidates(S), Fares(S), NEW T \in SUBSET S
    PROVE  IsFiniteSet(T) /\ Candidates(T) /\ Fares(T)
<1>1. IsFiniteSet(T)
  BY FS_Subset
<1>2. Candidates(T) /\ Fares(T)
  BY DEF Candidates, Fares
<1> QED BY <1>1, <1>2

\* rankRouteCandidates has one result: the first, the one worth its fare, the rest.
LEMMA DepartAtOnce ==
    ASSUME NEW S, IsFiniteSet(S), Candidates(S), Fares(S), NEW start
    PROVE  Unique(Query!RankDepartAt(S, start))
<1> DEFINE Early(T) == Query!Sorted(T, Query!EarlyFirst)
           Cheap(a) == Query!Sorted(Query!ValuePool(S, a[1], start), Query!CheapFirst)
           Rest(a, b) == S \ ({a[1]} \cup Query!ToSet(ValueOf(a[1], b)))
           Answer(a, b, r) == <<a[1]>> \o ValueOf(a[1], b) \o r
<1>1. \A x \in Query!RankDepartAt(S, start) :
         \E a \in Early(S) : \E b \in Cheap(a) : \E r \in Early(Rest(a, b)) : x = Answer(a, b, r)
  <2>1. Query!RankDepartAt(S, start) =
          UNION {UNION {{Answer(a, b, r) : r \in Early(Rest(a, b))} : b \in Cheap(a)} : a \in Early(S)}
    BY DEF Query!RankDepartAt, ValueOf
  <2> HIDE DEF Early, Cheap, Rest, Answer
  <2> QED BY <2>1
<1>2. Unique(Early(S))
  BY SortedOnce
<1>3. \A a : Unique(Cheap(a))
  <2> SUFFICES ASSUME NEW a PROVE Unique(Cheap(a))
    OBVIOUS
  <2>1. PICK P : P = Query!ValuePool(S, a[1], start)
    OBVIOUS
  <2>2. P \in SUBSET S /\ \A l, r \in P : Query!Comparable(l, r)
    BY <2>1, PoolCompares
  <2>3. IsFiniteSet(P) /\ Candidates(P)
    BY <2>2, SubsetRanks
  <2>4. Unique(Query!Sorted(P, Query!CheapFirst))
    BY <2>2, <2>3, SortedOnce
  <2> QED BY <2>1, <2>4
<1>4. \A a, b : Unique(Early(Rest(a, b)))
  <2> SUFFICES ASSUME NEW a, NEW b PROVE Unique(Early(Rest(a, b)))
    OBVIOUS
  <2>1. PICK T \in SUBSET S : T = Rest(a, b)
    OBVIOUS
  <2>2. Unique(Early(T))
    BY SubsetRanks, SortedOnce
  <2> QED BY <2>1, <2>2
<1> HIDE DEF Early, Cheap, Rest, Answer
<1> SUFFICES ASSUME NEW x \in Query!RankDepartAt(S, start), NEW y \in Query!RankDepartAt(S, start)
             PROVE  x = y
  BY DEF Unique
<1>5. PICK a \in Early(S) : \E b \in Cheap(a) : \E r \in Early(Rest(a, b)) : x = Answer(a, b, r)
  BY <1>1
<1>6. PICK c \in Early(S) : \E b \in Cheap(c) : \E r \in Early(Rest(c, b)) : y = Answer(c, b, r)
  BY <1>1
<1>7. a = c
  BY <1>2 DEF Unique
<1>8. PICK b \in Cheap(a) : \E r \in Early(Rest(a, b)) : x = Answer(a, b, r)
  BY <1>5
<1>9. PICK d \in Cheap(a) : \E r \in Early(Rest(a, d)) : y = Answer(a, d, r)
  BY <1>6, <1>7
<1>10. b = d
  BY <1>3 DEF Unique
<1>11. PICK r \in Early(Rest(a, b)) : x = Answer(a, b, r)
  BY <1>8
<1>12. PICK q \in Early(Rest(a, b)) : y = Answer(a, b, q)
  BY <1>9, <1>10
<1>13. r = q
  BY <1>4 DEF Unique
<1> QED BY <1>11, <1>12, <1>13

\* And so has either ranking.
LEMMA RankOnce ==
    ASSUME NEW S, IsFiniteSet(S), Candidates(S), Fares(S)
    PROVE  Unique(Query!Rank(S))
<1>1. Unique(Query!RankArriveBy(S))
  BY SortedOnce DEF Query!RankArriveBy
<1>2. Unique(Query!RankDepartAt(S, Query!AvailableStart))
  BY DepartAtOnce
<1> QED BY <1>1, <1>2 DEF Query!Rank

\* One list after the other.
Joined(F, N) == {a \o b : a \in F, b \in N}

\* One list of each gives one list.
LEMMA JoinedOnce ==
    ASSUME NEW F, NEW N, Unique(F), Unique(N)
    PROVE  Unique(Joined(F, N))
<1> DEFINE J(a, b) == a \o b
<1>1. \A x : x \in Joined(F, N) => \E a \in F, b \in N : x = J(a, b)
  BY DEF Joined
<1> HIDE DEF J
<1> QED BY <1>1 DEF Unique

\* Hence at most one answer.
LEMMA AnswersOnce ==
    ASSUME Query!QueryAssumption, QueryInv
    PROVE  Query!RankingIsDeterministic
<1> SUFFICES ASSUME Fares(Query!Accepted)
             PROVE  Query!Cardinality(Query!Answers) <= 1
  BY DEF Query!RankingIsDeterministic, Fares
<1> DEFINE A == Query!Accepted
<1>1. IsFiniteSet(A) /\ Candidates(A)
  <2>1. Query!RequestOK(request)
    BY DEF QueryInv, Query!QueryAssumption
  <2>2. A \in SUBSET request.offered
    BY DEF Query!Accepted
  <2>3. IsFiniteSet(request.offered)
    BY <2>1 DEF Query!RequestOK, Query!IsFiniteSet, IsFiniteSet
  <2>4. IsFiniteSet(A)
    BY <2>2, <2>3, FS_Subset
  <2>5. Candidates(A)
    BY <2>1, <2>2 DEF Query!RequestOK, Candidates
  <2> QED BY <2>4, <2>5
<1>2. /\ Query!FullyFeasible \in SUBSET A /\ Query!NeedConsent \in SUBSET A /\ A \in SUBSET A
  BY DEF Query!FullyFeasible, Query!NeedConsent
<1>3. \A T \in SUBSET A : Unique(Query!Rank(T))
  BY <1>1, SubsetRanks, RankOnce
<1>4. /\ Unique(Query!Rank(A)) /\ Unique(Query!Rank(Query!FullyFeasible))
      /\ Unique(Query!Rank(Query!NeedConsent))
  BY <1>2, <1>3
<1>5. Unique(Query!Answers)
  <2>1. Unique(Joined(Query!Rank(Query!FullyFeasible), Query!Rank(Query!NeedConsent)))
    BY <1>4, JoinedOnce
  <2>2. Unique({})
    BY DEF Unique
  <2> QED BY <1>4, <2>1, <2>2 DEF Query!Answers, Joined
<1>6. CASE Query!Answers = {}
  BY <1>6, QueryCardinality, FS_EmptySet
<1>7. CASE Query!Answers # {}
  <2>1. PICK x : Query!Answers = {x}
    BY <1>5, <1>7 DEF Unique
  <2>2. Cardinality({x}) = 1
    BY FS_Singleton
  <2> QED BY <2>1, <2>2, QueryCardinality
<1> QED BY <1>6, <1>7

\* The ranking does not depend on the order the provider answers in, unless routes that
\* arrive together have fares that cannot be compared (RankingIsDeterministic, of
\* rankRouteCandidates and rankArriveByCandidates).
THEOREM RankingAlwaysDeterministic ==
    ASSUME Query!QueryAssumption
    PROVE  Query!Spec => []Query!RankingIsDeterministic
<1>1. QueryInv => Query!RankingIsDeterministic
  BY AnswersOnce
<1> QED BY <1>1, QueryInvariance, PTL

=============================================================================
