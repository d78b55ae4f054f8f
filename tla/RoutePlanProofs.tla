--------------------------- MODULE RoutePlanProofs ---------------------------
(***************************************************************************)
(* Proofs about RoutePlan, for any trip, offers and bounds.                *)
(*                                                                         *)
(* The invariant says that the plan is one line of rows whose ids are      *)
(* older than the version, that every plan an adoption started from was    *)
(* one too, and that what undo would make of the present state is the plan *)
(* its adoption started from (Returns).  The last needs no induction over  *)
(* the steps since: an adoption can be undone only while nothing but       *)
(* queries and previews has happened since, and they leave the plan alone. *)
(*                                                                         *)
(* TraceInv follows the owners of rows, for what an undo must not leave    *)
(* behind, and for the edges an adoption finds: none is its own yet.  With *)
(* both, an adoption is shown to pass every check that undo makes of it    *)
(* (AdoptedUndoable); the corridors undo computes anew are built up from   *)
(* the parts of the line that adoption kept, replaced and archived.        *)
(*                                                                         *)
(* The second half is about ExternalOrigin (instance External), whose line *)
(* of nodes is spliced and undone the same way: the lemmas on positions,   *)
(* lines and splices serve both. A preview stands because what it shows is *)
(* a function of what raises the version. For the rest, OriginAll: the     *)
(* rows are one line with one ACTIVE route, all that dates from a version  *)
(* is no newer than it, and an adoption is reversible in its own version   *)
(* only.                                                                   *)
(***************************************************************************)
EXTENDS RoutePlan, SequenceTheorems, FiniteSetTheorems, TLAPS

NodeIds == Nat \X Nat
Places == {UserStop} \cup UNION {Range(o.stops) : o \in Offers}
Impacts == {"FITS", "SQUEEZES", "INFEASIBLE"}

NodeRows == [source : {"USER_PLANNED", "ROUTE_GENERATED"},
             kind : {"PLACE_VISIT", "FREE_ACTION"}, place : Places,
             route : Nat, op : Nat, touched : BOOLEAN, dwell : 0..2,
             actual : SUBSET {"ARRIVAL", "DEPARTURE"}]
EdgeRows == [id : NodeIds, from : NodeIds, to : NodeIds, route : Nat,
             actual : BOOLEAN, flight : BOOLEAN]
Snapshots == [basis : Nat, from : NodeIds, to : NodeIds,
              stops : {o.stops : o \in Offers}, impact : Impacts]
RouteRow == [from : NodeIds, to : NodeIds,
             status : {"ACTIVE", "REPLACED", "UNDONE"}, snapshot : Snapshots]

\* The nodes are one line of rows.
LineOK(ord, nd) ==
    /\ ord \in Seq(NodeIds)
    /\ IsInjective(ord)
    /\ nd \in [Range(ord) -> NodeRows]

\* The edges join neighbours, and each has one row, here or in the archive.
EdgesOK(ord, es, hs) ==
    /\ es \subseteq EdgeRows /\ hs \subseteq EdgeRows
    /\ \A e \in es : PairOf(e) \in Pairs(ord)
    /\ \A e, f \in es : PairOf(e) = PairOf(f) => e = f
    /\ \A e, f \in es : e.id = f.id => e = f
    /\ \A e, f \in hs : e.id = f.id => e = f
    /\ \A e \in es, f \in hs : e.id # f.id

\* Ids issued before version v.
Older(ord, es, hs, v) ==
    /\ \A n \in Range(ord) : n[1] < v
    /\ \A e \in es \cup hs : e.id[1] < v

PlanOK == /\ version \in 1..MaxVersion
          /\ LineOK(order, node)
          /\ EdgesOK(order, edge, history)
          /\ Older(order, edge, history, version)

RoutesOK ==
    /\ route \in [DOMAIN route -> RouteRow]
    /\ DOMAIN route \subseteq 1..(version - 1)
    /\ DOMAIN receipt \subseteq 1..(version - 1)
    /\ \A r \in DOMAIN route : {route[r].from, route[r].to} \subseteq Range(order)
    /\ \A n \in Range(order) : node[n].route \in DOMAIN route \cup {0}

DraftsOK ==
    /\ snapshot \subseteq Snapshots
    /\ \A p \in preview : /\ p.snapshot \in Snapshots
                          /\ DOMAIN p.plan = DOMAIN p.snapshot.stops
                          /\ p.reused = Range(p.plan) \ {NoNode}
                          /\ p.adjust \subseteq {p.snapshot.to}
                          /\ p.corridor # NoCorridor

\* b has the fields of a plan.
IsPlan(b) == b = [order |-> b.order, node |-> b.node, edge |-> b.edge,
                  history |-> b.history, active |-> b.active,
                  flights |-> b.flights]

\* The plans adoptions started from.
PastOK ==
    \A t \in DOMAIN planBefore :
       LET b == planBefore[t] IN
       /\ t \in DOMAIN route
       /\ IsPlan(b)
       /\ LineOK(b.order, b.node)
       /\ EdgesOK(b.order, b.edge, b.history)
       /\ Older(b.order, b.edge, b.history, t)
       /\ \A n \in Range(b.order) : b.node[n].route \in DOMAIN route \cup {0}

\* What undoing the adoption made at t would make of the edges and routes.
EdgesBack(d) == {e \in edge : e.id \notin d.edges} \cup Histories(d)
ActiveBack(t, d) == (ActiveRoutes \ {t}) \cup ({d.previous} \ {0})

\* Undoing the adoption made at t gives back the plan b.
Returns(t, d, b) ==
    /\ d.order = b.order
    /\ [n \in Range(d.order) |-> RestoredNode(d, n)] = b.node
    /\ {Archived(e) : e \in EdgesBack(d)} = b.edge
    /\ history \ Histories(d) = b.history
    /\ d.previous \in (DOMAIN route \ {t}) \cup {0}
    /\ ActiveBack(t, d) = b.active
    /\ \A r, q \in b.active :
         route[r].from = route[q].from /\ route[r].to = route[q].to => r = q
    /\ \A r \in DOMAIN route : {route[r].from, route[r].to} \subseteq Range(b.order)

UndoOK ==
    \A t \in DOMAIN receipt : Undoable(t) =>
       /\ t \in DOMAIN planBefore
       /\ \A d \in {receipt[t].delta}, b \in {planBefore[t]} : Returns(t, d, b)

IInv == PlanOK /\ RoutesOK /\ DraftsOK /\ PastOK /\ UndoOK /\ OneActiveRoute

-----------------------------------------------------------------------------
(* Joining and splicing sequences.                                         *)

\* s with r in place of what lies between the positions i and j.
Spliced(s, i, r, j) == SubSeq(s, 1, i) \o r \o SubSeq(s, j, Len(s))

\* The elements of three sequences in a row.
LEMMA Joined ==
    ASSUME NEW T, NEW a \in Seq(T), NEW b \in Seq(T)
    PROVE  /\ a \o b \in Seq(T)
           /\ Len(a \o b) = Len(a) + Len(b)
           /\ \A k \in 1..Len(a) : (a \o b)[k] = a[k]
           /\ \A k \in 1..Len(b) : (a \o b)[Len(a) + k] = b[k]
OBVIOUS

\* S is a, r and b joined.
TripleOf(S, T, a, r, b) ==
    /\ S \in Seq(T)
    /\ Len(S) = Len(a) + Len(r) + Len(b)
    /\ \A k \in 1..Len(a) : S[k] = a[k]
    /\ \A k \in 1..Len(r) : S[Len(a) + k] = r[k]
    /\ \A k \in 1..Len(b) : S[Len(a) + Len(r) + k] = b[k]

\* A splice is the part up to i, the insert and the part from j on.
LEMMA Triple ==
    ASSUME NEW T, NEW a \in Seq(T), NEW r \in Seq(T), NEW b \in Seq(T)
    PROVE  TripleOf(a \o r \o b, T, a, r, b)
<1> DEFINE c == a \o r
<1>1. /\ c \in Seq(T) /\ Len(c) = Len(a) + Len(r)
      /\ \A k \in 1..Len(a) : c[k] = a[k]
      /\ \A k \in 1..Len(r) : c[Len(a) + k] = r[k]
  BY Joined
<1>0. c \in Seq(T)
  BY <1>1
<1> HIDE DEF c
<1>2. /\ c \o b \in Seq(T) /\ Len(c \o b) = Len(c) + Len(b)
      /\ \A k \in 1..Len(c) : (c \o b)[k] = c[k]
      /\ \A k \in 1..Len(b) : (c \o b)[Len(c) + k] = b[k]
  BY <1>0, Joined
<1>3. Len(a) \in Nat /\ Len(r) \in Nat /\ Len(b) \in Nat
  BY LenProperties
<1> DEFINE S == c \o b
<1> HIDE DEF S
<1>4. \A k \in 1..Len(r) : S[Len(a) + k] = r[k]
  BY <1>1, <1>2, <1>3 DEF S
<1>5. /\ S \in Seq(T) /\ Len(S) = Len(a) + Len(r) + Len(b)
      /\ \A k \in 1..Len(a) : S[k] = a[k]
      /\ \A k \in 1..Len(b) : S[Len(a) + Len(r) + k] = b[k]
  BY <1>1, <1>2, <1>3 DEF S
<1>6. TripleOf(S, T, a, r, b)
  BY <1>4, <1>5 DEF TripleOf
<1> QED BY <1>6 DEF c, S

\* The elements of S, the result of that.
SplicedOf(S, T, s, i, r, j) ==
    /\ S \in Seq(T)
    /\ Len(S) = i + Len(r) + (Len(s) - j + 1)
    /\ \A k \in 1..i : S[k] = s[k]
    /\ \A k \in 1..Len(r) : S[i + k] = r[k]
    /\ \A k \in j..Len(s) : S[i + Len(r) + (k - j + 1)] = s[k]

\* Which elements a splice holds.
LEMMA SplicedElements ==
    ASSUME NEW T, NEW s \in Seq(T), NEW r \in Seq(T),
           NEW i \in 0..Len(s), NEW j \in (i + 1)..(Len(s) + 1)
    PROVE  SplicedOf(Spliced(s, i, r, j), T, s, i, r, j)
<1> DEFINE a == SubSeq(s, 1, i)
           b == SubSeq(s, j, Len(s))
           S == a \o r \o b
<1>1. /\ a \in Seq(T) /\ Len(a) = i
      /\ \A k \in 1..i : a[k] = s[k]
  OBVIOUS
<1>2. /\ b \in Seq(T) /\ Len(b) = Len(s) - j + 1
      /\ \A k \in j..Len(s) : b[k - j + 1] = s[k]
  OBVIOUS
<1> HIDE DEF a, b
<1>a. a \in Seq(T) /\ b \in Seq(T)
  BY <1>1, <1>2
<1>3. /\ S \in Seq(T)
      /\ Len(S) = Len(a) + Len(r) + Len(b)
      /\ \A k \in 1..Len(a) : S[k] = a[k]
      /\ \A k \in 1..Len(r) : S[Len(a) + k] = r[k]
      /\ \A k \in 1..Len(b) : S[Len(a) + Len(r) + k] = b[k]
  BY <1>a, Triple DEF TripleOf
<1> HIDE DEF S
<1>4. Len(r) \in Nat /\ Len(s) \in Nat
  BY LenProperties
<1>5. ASSUME NEW k \in j..Len(s)
      PROVE  S[i + Len(r) + (k - j + 1)] = s[k]
  BY <1>1, <1>2, <1>3, <1>4
<1>6. SplicedOf(S, T, s, i, r, j)
  BY <1>1, <1>2, <1>3, <1>4, <1>5 DEF SplicedOf
<1> QED BY <1>6 DEF Spliced, S, a, b

\* What is left of a line when a part is replaced by other nodes.
SplicedLineOf(S, T, s, i, r, j) ==
    /\ S \in Seq(T)
    /\ IsInjective(S)
    /\ Range(S) = {s[k] : k \in (1..i) \cup (j..Len(s))} \cup Range(r)

Apart(s, i, r, j) == \A k \in (1..i) \cup (j..Len(s)) : s[k] \notin Range(r)

\* A splice of a line of distinct nodes with nodes not in the rest is such a line.
LEMMA SplicedLine ==
    ASSUME NEW T, NEW s \in Seq(T), NEW r \in Seq(T),
           NEW i \in 0..Len(s), NEW j \in (i + 1)..(Len(s) + 1),
           IsInjective(s), IsInjective(r),
           Apart(s, i, r, j)
    PROVE  SplicedLineOf(Spliced(s, i, r, j), T, s, i, r, j)
<1> DEFINE S == Spliced(s, i, r, j)
<1>0. SplicedOf(S, T, s, i, r, j)
  BY SplicedElements
<1> HIDE DEF S
<1>1. /\ S \in Seq(T)
      /\ Len(S) = i + Len(r) + (Len(s) - j + 1)
      /\ \A k \in 1..i : S[k] = s[k]
      /\ \A k \in 1..Len(r) : S[i + k] = r[k]
      /\ \A k \in j..Len(s) : S[i + Len(r) + (k - j + 1)] = s[k]
  BY <1>0 DEF SplicedOf
<1> DEFINE n == Len(s)
           l == Len(r)
<1>n. n \in Nat /\ l \in Nat
  OBVIOUS
<1>2. n \in Nat /\ l \in Nat /\ i \in 0..n /\ j \in (i + 1)..(n + 1)
  BY <1>n
<1>3. /\ DOMAIN S = 1..(i + l + (n - j + 1))
      /\ DOMAIN r = 1..l
      /\ \A k \in 1..i : S[k] = s[k]
      /\ \A k \in 1..l : S[i + k] = r[k]
      /\ \A k \in j..n : S[i + l + (k - j + 1)] = s[k]
  BY <1>1
<1>4. \A k \in (1..i) \cup (j..n) : k \in DOMAIN s /\ s[k] \notin Range(r)
  <2>1. DOMAIN s = 1..n
    OBVIOUS
  <2> HIDE DEF n
  <2>2. 1..i \subseteq 1..n /\ j..n \subseteq 1..n
    BY <1>2
  <2> QED BY <2>1, <2>2 DEF n, Apart
<1> HIDE DEF n, l
<1>5. \A k \in 1..l : r[k] \in Range(r)
  BY <1>3 DEF Range
<1>6. ASSUME NEW k \in DOMAIN S
      PROVE  \/ k \in 1..i /\ S[k] = s[k]
             \/ \E m \in 1..l : k = i + m /\ S[k] = r[m]
             \/ \E m \in j..n : k = i + l + (m - j + 1) /\ S[k] = s[m]
  <2>1. k \in 1..(i + l + (n - j + 1))
    BY <1>3
  <2>2. CASE k > i /\ k <= i + l
    <3>1. k - i \in 1..l /\ k = i + (k - i)
      BY <1>2, <2>1, <2>2
    <3> QED BY <3>1, <1>3
  <2>3. CASE k > i + l
    <3> DEFINE m == k - i - l + j - 1
    <3>1. m \in j..n /\ k = i + l + (m - j + 1)
      BY <1>2, <2>1, <2>3
    <3> HIDE DEF m
    <3> QED BY <3>1, <1>3
  <2> QED BY <1>2, <1>3, <2>1, <2>2, <2>3
<1>7. Range(S) = {s[k] : k \in (1..i) \cup (j..n)} \cup Range(r)
  <2>1. ASSUME NEW k \in DOMAIN S
        PROVE  S[k] \in {s[m] : m \in (1..i) \cup (j..n)} \cup Range(r)
    BY <1>5, <1>6
  <2>2. ASSUME NEW k \in 1..i PROVE s[k] \in Range(S)
    <3>1. k \in DOMAIN S
      BY <1>2, <1>3
    <3> QED BY <3>1, <1>3 DEF Range
  <2>3. ASSUME NEW k \in j..n PROVE s[k] \in Range(S)
    <3>1. i + l + (k - j + 1) \in DOMAIN S
      BY <1>2, <1>3
    <3> QED BY <3>1, <1>3 DEF Range
  <2>4. ASSUME NEW k \in 1..l PROVE r[k] \in Range(S)
    <3>1. i + k \in DOMAIN S
      BY <1>2, <1>3
    <3> QED BY <3>1, <1>3 DEF Range
  <2>5. \A x \in Range(S) : x \in {s[m] : m \in (1..i) \cup (j..n)} \cup Range(r)
    BY <2>1 DEF Range
  <2>6. \A x \in Range(r) : x \in Range(S)
    BY <2>4, <1>3 DEF Range
  <2> QED BY <2>2, <2>3, <2>5, <2>6
<1>8. ASSUME NEW a \in DOMAIN S, NEW b \in DOMAIN S, S[a] = S[b]
      PROVE  a = b
  <2>1. \A k, m \in (1..i) \cup (j..n) : s[k] = s[m] => k = m
    BY <1>4 DEF IsInjective
  <2>2. \A k, m \in 1..l : r[k] = r[m] => k = m
    BY <1>3 DEF IsInjective
  <2>3. \A k \in 1..i, m \in j..n : k # m
    BY <1>2
  <2>4. \A k \in (1..i) \cup (j..n), m \in 1..l : s[k] # r[m]
    BY <1>4, <1>5
  <2>5. CASE a \in 1..i /\ S[a] = s[a]
    <3>1. CASE b \in 1..i /\ S[b] = s[b]
      BY <2>5, <3>1, <1>8, <2>1
    <3>2. ~\E m \in 1..l : S[b] = r[m]
      BY <2>5, <1>8, <2>4
    <3>3. ~\E m \in j..n : S[b] = s[m]
      BY <2>5, <1>8, <2>1, <2>3
    <3> QED BY <1>6, <3>1, <3>2, <3>3
  <2>6. ASSUME NEW x \in 1..l, a = i + x, S[a] = r[x]
        PROVE  a = b
    <3>1. PICK y \in 1..l : b = i + y /\ S[b] = r[y]
      BY <2>6, <1>6, <1>8, <2>4
    <3> QED BY <2>2, <2>6, <3>1, <1>8
  <2>7. ASSUME NEW x \in j..n, a = i + l + (x - j + 1), S[a] = s[x]
        PROVE  a = b
    <3>1. ~(b \in 1..i /\ S[b] = s[b])
      BY <2>7, <1>8, <2>1, <2>3
    <3>2. ~\E m \in 1..l : S[b] = r[m]
      BY <2>7, <1>8, <2>4
    <3>3. PICK y \in j..n : b = i + l + (y - j + 1) /\ S[b] = s[y]
      BY <1>6, <3>1, <3>2
    <3>4. x = y
      BY <2>1, <2>7, <3>3, <1>8
    <3> QED BY <2>7, <3>3, <3>4
  <2> QED BY <1>6, <2>5, <2>6, <2>7
<1>9. IsInjective(S)
  BY <1>8 DEF IsInjective
<1>10. S \in Seq(T)
  BY <1>1
<1>11. SplicedLineOf(S, T, s, i, r, j)
  BY <1>7, <1>9, <1>10 DEF SplicedLineOf, n
<1> QED BY <1>11 DEF S

\* A node put in, and one taken out.
LEMMA LineInsert ==
    ASSUME NEW T, NEW s \in Seq(T), IsInjective(s),
           NEW e \in T, e \notin Range(s), NEW i \in 1..(Len(s) + 1)
    PROVE  /\ InsertAt(s, i, e) \in Seq(T)
           /\ IsInjective(InsertAt(s, i, e))
           /\ Range(InsertAt(s, i, e)) = Range(s) \cup {e}
<1> DEFINE m == i - 1
           r == <<e>>
<1>1. InsertAt(s, i, e) = Spliced(s, m, r, i)
  BY DEF InsertAt, Spliced
<1>2. m \in 0..Len(s) /\ i \in (m + 1)..(Len(s) + 1)
  OBVIOUS
<1>3. r \in Seq(T) /\ IsInjective(r) /\ Range(r) = {e}
  BY DEF IsInjective, Range
<1>4. (1..m) \cup (i..Len(s)) = 1..Len(s) /\ DOMAIN s = 1..Len(s)
  OBVIOUS
<1> HIDE DEF m, r
<1>5. Apart(s, m, r, i)
  BY <1>3, <1>4 DEF Apart, Range
<1>6. SplicedLineOf(Spliced(s, m, r, i), T, s, m, r, i)
  BY <1>2, <1>3, <1>5, SplicedLine
<1>7. Range(s) = {s[k] : k \in (1..m) \cup (i..Len(s))}
  BY <1>4 DEF Range
<1>8. /\ Spliced(s, m, r, i) \in Seq(T)
      /\ IsInjective(Spliced(s, m, r, i))
      /\ Range(Spliced(s, m, r, i)) = Range(s) \cup {e}
  BY <1>3, <1>6, <1>7 DEF SplicedLineOf
<1> QED BY <1>1, <1>8

\* A line without its k-th node is a line.
LEMMA LineRemove ==
    ASSUME NEW T, NEW s \in Seq(T), IsInjective(s), NEW i \in 1..Len(s)
    PROVE  /\ RemoveAt(s, i) \in Seq(T)
           /\ Len(RemoveAt(s, i)) = Len(s) - 1
           /\ IsInjective(RemoveAt(s, i))
           /\ Range(RemoveAt(s, i)) = Range(s) \ {s[i]}
<1> DEFINE m == i - 1
           j == i + 1
           r == <<>>
<1>1. RemoveAt(s, i) = Spliced(s, m, r, j)
  BY DEF RemoveAt, Spliced
<1>2. m \in 0..Len(s) /\ j \in (m + 1)..(Len(s) + 1)
  OBVIOUS
<1>3. r \in Seq(T) /\ IsInjective(r) /\ Range(r) = {} /\ Len(r) = 0
  BY DEF IsInjective, Range
<1>4. (1..m) \cup (j..Len(s)) = DOMAIN s \ {i} /\ i \in DOMAIN s
  OBVIOUS
<1>5. m + Len(r) + (Len(s) - j + 1) = Len(s) - 1
  BY <1>3
<1> HIDE DEF m, j, r
<1>6. Apart(s, m, r, j)
  BY <1>3 DEF Apart
<1>7. SplicedLineOf(Spliced(s, m, r, j), T, s, m, r, j)
  BY <1>2, <1>3, <1>6, SplicedLine
<1>8. SplicedOf(Spliced(s, m, r, j), T, s, m, r, j)
  BY <1>2, <1>3, SplicedElements
<1>9. {s[k] : k \in (1..m) \cup (j..Len(s))} = Range(s) \ {s[i]}
  BY <1>4 DEF IsInjective, Range
<1> QED BY <1>1, <1>3, <1>5, <1>7, <1>8, <1>9 DEF SplicedLineOf, SplicedOf

\* Where a node is in a line.
LEMMA IndexFound ==
    ASSUME NEW T, NEW s \in Seq(T), NEW n
    PROVE  /\ Index(s, n) \in 0..Len(s)
           /\ n \in Range(s) <=> Index(s, n) # 0
           /\ Index(s, n) # 0 => s[Index(s, n)] = n
<1>1. DOMAIN s = 1..Len(s)
  OBVIOUS
<1>2. CASE \E i \in DOMAIN s : s[i] = n
  <2>1. Index(s, n) \in DOMAIN s /\ s[Index(s, n)] = n
    BY <1>2 DEF Index
  <2> QED BY <1>1, <2>1 DEF Range
<1>3. CASE ~\E i \in DOMAIN s : s[i] = n
  BY <1>3, <1>1 DEF Index, Range
<1> QED BY <1>2, <1>3

\* In a line of distinct nodes a node is at one position only.
LEMMA IndexUnique ==
    ASSUME NEW T, NEW s \in Seq(T), IsInjective(s), NEW i \in 1..Len(s)
    PROVE  Index(s, s[i]) = i
<1>1. i \in DOMAIN s
  OBVIOUS
<1>2. Index(s, s[i]) \in DOMAIN s /\ s[Index(s, s[i])] = s[i]
  BY <1>1 DEF Index
<1> QED BY <1>1, <1>2 DEF IsInjective

-----------------------------------------------------------------------------
(* Edges archived, added and changed.                                      *)

\* An archived edge keeps its row.
LEMMA ArchivedRow ==
    ASSUME NEW e \in EdgeRows
    PROVE  /\ Archived(e) \in EdgeRows
           /\ Archived(e).id = e.id
           /\ PairOf(Archived(e)) = PairOf(e)
           /\ Archived(Archived(e)) = Archived(e)
BY DEF Archived, EdgeRows, PairOf

\* The archive when only some of the edges are kept.
ArchiveOf(es, hs, kept) == hs \cup {Archived(e) : e \in es \ kept}
NoNewIds(rows, old) == \A e \in rows : \E f \in old : e.id = f.id

\* Archiving all edges but those kept leaves sound edges and brings no new id.
LEMMA EdgesArchived ==
    ASSUME NEW ord, NEW es, NEW hs, EdgesOK(ord, es, hs),
           NEW kept \in SUBSET es, NEW ord2,
           \A e \in kept : PairOf(e) \in Pairs(ord2)
    PROVE  /\ EdgesOK(ord2, kept, ArchiveOf(es, hs, kept))
           /\ NoNewIds(kept \cup ArchiveOf(es, hs, kept), es \cup hs)
<1> DEFINE gone == {Archived(e) : e \in es \ kept}
<1>1. /\ es \subseteq EdgeRows /\ hs \subseteq EdgeRows
      /\ \A e, f \in es : PairOf(e) = PairOf(f) => e = f
      /\ \A e, f \in es : e.id = f.id => e = f
      /\ \A e, f \in hs : e.id = f.id => e = f
      /\ \A e \in es, f \in hs : e.id # f.id
  BY DEF EdgesOK
<1>2. \A g \in gone : \E e \in es \ kept :
         g = Archived(e) /\ g \in EdgeRows /\ g.id = e.id
  BY <1>1, ArchivedRow
<1> HIDE DEF gone
<1>3. \A e, f \in hs \cup gone : e.id = f.id => e = f
  BY <1>1, <1>2
<1>4. \A e \in kept, f \in hs \cup gone : e.id # f.id
  BY <1>1, <1>2
<1>5. kept \subseteq EdgeRows /\ hs \cup gone \subseteq EdgeRows
  BY <1>1, <1>2
<1>6. EdgesOK(ord2, kept, hs \cup gone)
  BY <1>1, <1>3, <1>4, <1>5 DEF EdgesOK
<1>7. \A e \in kept \cup (hs \cup gone) : \E f \in es \cup hs : e.id = f.id
  BY <1>2
<1> QED BY <1>6, <1>7 DEF gone, ArchiveOf, NoNewIds

\* New edges with new ids that join neighbours leave sound edges.
LEMMA EdgesAdded ==
    ASSUME NEW ord, NEW es, NEW hs, EdgesOK(ord, es, hs),
           NEW new \in SUBSET EdgeRows,
           \A e \in new : PairOf(e) \in Pairs(ord),
           \A e, f \in new : e.id = f.id \/ PairOf(e) = PairOf(f) => e = f,
           \A e \in new, f \in es : PairOf(e) # PairOf(f),
           \A e \in new, f \in es \cup hs : e.id # f.id
    PROVE  EdgesOK(ord, es \cup new, hs)
<1> DEFINE all == es \cup new
<1>1. /\ es \subseteq EdgeRows /\ hs \subseteq EdgeRows
      /\ \A e \in es : PairOf(e) \in Pairs(ord)
      /\ \A e, f \in es : PairOf(e) = PairOf(f) => e = f
      /\ \A e, f \in es : e.id = f.id => e = f
      /\ \A e, f \in hs : e.id = f.id => e = f
      /\ \A e \in es, f \in hs : e.id # f.id
  BY DEF EdgesOK
<1>2. \A e, f \in all : e.id = f.id \/ PairOf(e) = PairOf(f) => e = f
  BY <1>1
<1>3. \A e \in all : PairOf(e) \in Pairs(ord)
  BY <1>1
<1>4. \A e \in all, f \in hs : e.id # f.id
  BY <1>1
<1>5. all \subseteq EdgeRows
  BY <1>1
<1> HIDE DEF all
<1>6. EdgesOK(ord, all, hs)
  BY <1>1, <1>2, <1>3, <1>4, <1>5 DEF EdgesOK
<1> QED BY <1>6 DEF all

\* So does a changed edge that joins what it joined.
LEMMA EdgeChanged ==
    ASSUME NEW ord, NEW es, NEW hs, EdgesOK(ord, es, hs),
           NEW e \in es, NEW now \in EdgeRows,
           now.id = e.id, PairOf(now) = PairOf(e)
    PROVE  EdgesOK(ord, (es \ {e}) \cup {now}, hs)
<1>1. /\ es \subseteq EdgeRows /\ hs \subseteq EdgeRows
      /\ \A x \in es : PairOf(x) \in Pairs(ord)
      /\ \A x, y \in es : PairOf(x) = PairOf(y) => x = y
      /\ \A x, y \in es : x.id = y.id => x = y
      /\ \A x, y \in hs : x.id = y.id => x = y
      /\ \A x \in es, y \in hs : x.id # y.id
  BY DEF EdgesOK
<1> DEFINE new == {now}
           rest == es \ {e}
<1>2. EdgesOK(ord, rest, hs)
  BY <1>1 DEF EdgesOK
<1>3. /\ new \in SUBSET EdgeRows
      /\ \A x \in new : PairOf(x) \in Pairs(ord)
      /\ \A x, y \in new : x.id = y.id \/ PairOf(x) = PairOf(y) => x = y
      /\ \A x \in new, y \in rest : PairOf(x) # PairOf(y)
      /\ \A x \in new, y \in rest \cup hs : x.id # y.id
  BY <1>1
<1> HIDE DEF new, rest
<1>4. EdgesOK(ord, rest \cup new, hs)
  BY <1>2, <1>3, EdgesAdded
<1> QED BY <1>4 DEF new, rest

-----------------------------------------------------------------------------
(* The corridor a route would replace.                                     *)

\* The pairs of a part of a line are pairs of any longer part.
LEMMA PairsOfPart ==
    ASSUME NEW T, NEW s \in Seq(T), NEW i \in 1..Len(s), NEW j \in i..Len(s),
           NEW h \in 1..i
    PROVE  Pairs(SubSeq(s, i, j)) \subseteq Pairs(SubSeq(s, h, j))
<1>1. Len(s) \in Nat
  OBVIOUS
<1>2. /\ Len(SubSeq(s, i, j)) = j - i + 1
      /\ Len(SubSeq(s, h, j)) = j - h + 1
      /\ \A k \in 1..(j - i + 1) : SubSeq(s, i, j)[k] = s[i + k - 1]
      /\ \A k \in 1..(j - h + 1) : SubSeq(s, h, j)[k] = s[h + k - 1]
  BY <1>1
<1> DEFINE a == SubSeq(s, i, j)
           b == SubSeq(s, h, j)
<1>3. ASSUME NEW k \in 1..(Len(a) - 1)
      PROVE  <<a[k], a[k + 1]>> \in Pairs(b)
  <2> DEFINE m == i - h + k
  <2>1. m \in 1..(Len(b) - 1)
    BY <1>1, <1>2
  <2>2. a[k] = b[m] /\ a[k + 1] = b[m + 1]
    <3>1. k \in 1..(j - i + 1) /\ k + 1 \in 1..(j - i + 1)
      BY <1>1, <1>2
    <3>2. m \in 1..(j - h + 1) /\ m + 1 \in 1..(j - h + 1)
      BY <1>1
    <3>3. h + m - 1 = i + k - 1 /\ h + (m + 1) - 1 = i + (k + 1) - 1
      BY <1>1
    <3> QED BY <1>2, <3>1, <3>2, <3>3
  <2> HIDE DEF m
  <2> QED BY <2>1, <2>2 DEF Pairs
<1> HIDE DEF a, b
<1>4. Pairs(a) \subseteq Pairs(b)
  BY <1>3 DEF Pairs
<1> QED BY <1>4 DEF a, b

\* A set of at most one element is empty or a singleton.
LEMMA AtMostOne ==
    ASSUME NEW S, IsFiniteSet(S), Cardinality(S) <= 1
    PROVE  \A x, y \in S : x = y
<1>1. Cardinality(S) \in Nat
  BY FS_CardinalityType
<1>2. CASE Cardinality(S) = 0
  BY <1>2, FS_EmptySet
<1>3. CASE Cardinality(S) = 1
  <2>1. \E x : S = {x}
    BY <1>3, FS_Singleton
  <2> QED BY <2>1
<1> QED BY <1>1, <1>2, <1>3

\* There are finitely many routes.
LEMMA RoutesFinite ==
    ASSUME RoutesOK, PlanOK
    PROVE  IsFiniteSet({AnchorsOf(r) : r \in ActiveRoutes})
<1> DEFINE A == ActiveRoutes
           S == {AnchorsOf(r) : r \in A}
           f == [r \in A |-> AnchorsOf(r)]
<1>1. version \in Nat /\ A \subseteq 1..(version - 1)
  BY DEF RoutesOK, PlanOK, ActiveRoutes
<1> HIDE DEF A
<1>2. IsFiniteSet(A)
  <2>1. version - 1 \in Int /\ 1 \in Int
    BY <1>1
  <2>2. IsFiniteSet(1..(version - 1))
    BY <2>1, FS_Interval
  <2> QED BY <1>1, <2>2, FS_Subset
<1>3. f \in Surjection(A, S)
  BY DEF Surjection
<1> HIDE DEF f, S
<1>4. IsFiniteSet(S)
  BY <1>2, <1>3, FS_Surjection
<1> QED BY <1>4 DEF S, A

\* The two neighbours at i, as a part of the line.
LEMMA PairPart ==
    ASSUME NEW T, NEW s \in Seq(T), NEW i \in 1..(Len(s) - 1)
    PROVE  SubSeq(s, i, i + 1) = <<s[i], s[i + 1]>>
<1> DEFINE a == SubSeq(s, i, i + 1)
<1>1. Len(s) \in Nat
  OBVIOUS
<1>2. /\ a \in Seq(T) /\ Len(a) = 2
      /\ a[1] = s[i] /\ a[2] = s[i + 1]
  BY <1>1
<1> HIDE DEF a
<1>3. a = <<s[i], s[i + 1]>>
  BY <1>2
<1> QED BY <1>3 DEF a

\* Where a corridor lies, and what it holds.
CorridorPath(c, from, to) ==
    LET i == Index(order, from)
        j == Index(order, to)
    IN /\ i \in 1..Len(order) /\ j \in (i + 1)..Len(order)
       /\ order[i] = from /\ order[j] = to
       /\ c.path = SubSeq(order, i, j)
       /\ c.edges = Ids({e \in edge : PairOf(e) \in Pairs(c.path)})

\* And the route it is a part of.
CorridorFacts(c, from, to) ==
    /\ CorridorPath(c, from, to)
    /\ c.source \in ActiveRoutes \cup {0}
    /\ \A r \in ActiveRoutes :
         route[r].from = from /\ route[r].to = to => r = c.source

\* A corridor between neighbours.
LEMMA FreshCorridorFacts ==
    ASSUME PlanOK, RoutesOK, NEW from, NEW to,
           Index(order, from) # 0, Index(order, to) > Index(order, from),
           RoutesEndingAt(order, {AnchorsOf(r) : r \in ActiveRoutes}, from, to) = {},
           NEW c, c = FreshCorridor(order, edge, from, to), c # NoCorridor
    PROVE  CorridorFacts(c, from, to)
<1> DEFINE i == Index(order, from)
           j == Index(order, to)
           between == {e \in edge : PairOf(e) = <<from, to>>}
<1>1. order \in Seq(NodeIds)
  BY DEF PlanOK, LineOK
<1>2. /\ i \in 0..Len(order) /\ j \in 0..Len(order)
      /\ i # 0 => order[i] = from
      /\ j # 0 => order[j] = to
  BY <1>1, IndexFound
<1>3. /\ i \in 1..Len(order) /\ j \in (i + 1)..Len(order)
      /\ order[i] = from /\ order[j] = to
  BY <1>1, <1>2
<1>4. j = i + 1 /\ c = [scope |-> "FULL_CORRIDOR", source |-> 0,
                        sourceFrom |-> from, path |-> <<from, to>>,
                        edges |-> Ids(between), prefix |-> <<>>,
                        prefixEdges |-> {}]
  BY DEF FreshCorridor
<1>5. c.path = <<from, to>> /\ c.edges = Ids(between) /\ c.source = 0
  BY <1>4
<1>6. SubSeq(order, i, j) = <<from, to>>
  BY <1>1, <1>3, <1>4, PairPart
<1>7. Pairs(<<from, to>>) = {<<from, to>>}
  BY DEF Pairs
<1>8. between = {e \in edge : PairOf(e) \in Pairs(c.path)}
  BY <1>5, <1>7
<1>9. \A r \in ActiveRoutes : ~(route[r].from = from /\ route[r].to = to)
  <2> SUFFICES ASSUME NEW r \in ActiveRoutes, route[r].from = from, route[r].to = to
               PROVE  FALSE
    OBVIOUS
  <2>1. AnchorsOf(r).from = from /\ AnchorsOf(r).to = to
    BY DEF AnchorsOf
  <2>2. i \in 1..i
    BY <1>3
  <2>3. AnchorsOf(r) \in RoutesEndingAt(order, {AnchorsOf(q) : q \in ActiveRoutes},
                                        from, to)
    BY <2>1, <2>2 DEF RoutesEndingAt
  <2> QED BY <2>3
<1> HIDE DEF i, j, between
<1> QED BY <1>3, <1>5, <1>6, <1>8, <1>9 DEF CorridorFacts, CorridorPath, i, j

\* A corridor over an ACTIVE route, or over the rest of one.
LEMMA RouteCorridorFacts ==
    ASSUME PlanOK, RoutesOK, NEW from, NEW to,
           Index(order, from) # 0, Index(order, to) > Index(order, from),
           NEW r \in RoutesEndingAt(order, {AnchorsOf(q) : q \in ActiveRoutes},
                                    from, to),
           NEW c, c = RouteCorridor(order, node, edge, r, from, to),
           c # NoCorridor
    PROVE  /\ CorridorPath(c, from, to)
           /\ c.source \in ActiveRoutes
           /\ c.source = r.id
<1> DEFINE i == Index(order, from)
           j == Index(order, to)
           start == Index(order, r.from)
           path == SubSeq(order, start, j)
           rest == SubSeq(order, i, j)
           own == {e \in edge : e.route = r.id}
           inside == {f \in own : PairOf(f) \in Pairs(rest)}
<1>1. order \in Seq(NodeIds)
  BY DEF PlanOK, LineOK
<1>2. /\ i \in 0..Len(order) /\ j \in 0..Len(order)
      /\ i # 0 => order[i] = from
      /\ j # 0 => order[j] = to
  BY <1>1, IndexFound
<1>3. /\ i \in 1..Len(order) /\ j \in (i + 1)..Len(order) /\ j \in i..Len(order)
      /\ order[i] = from /\ order[j] = to
  BY <1>1, <1>2
<1>4. start \in 1..i /\ r.id \in ActiveRoutes
  BY DEF RoutesEndingAt, AnchorsOf
<1>5. /\ {PairOf(e) : e \in own} = Pairs(path)
      /\ c.path = rest
      /\ c.edges = {e.id : e \in inside}
      /\ c.source = r.id
  BY DEF RouteCorridor
<1>6. Pairs(rest) \subseteq Pairs(path)
  BY <1>1, <1>3, <1>4, PairsOfPart
<1>7. inside = {e \in edge : PairOf(e) \in Pairs(rest)}
  <2>1. \A e, f \in edge : PairOf(e) = PairOf(f) => e = f
    BY DEF PlanOK, EdgesOK
  <2>2. ASSUME NEW e \in edge, PairOf(e) \in Pairs(rest)
        PROVE  e \in own
    <3>1. PairOf(e) \in {PairOf(f) : f \in own}
      BY <2>2, <1>5, <1>6
    <3> QED BY <3>1, <2>1
  <2> QED BY <2>2
<1> HIDE DEF i, j, start, path, rest, own, inside
<1>8. c.edges = Ids({e \in edge : PairOf(e) \in Pairs(c.path)})
  BY <1>5, <1>7 DEF Ids
<1> QED BY <1>3, <1>4, <1>5, <1>8 DEF CorridorPath, i, j, rest

\* What a corridor that still stands is: a part of the line, its edges, its route.
LEMMA CorridorShape ==
    ASSUME PlanOK, RoutesOK, NEW from, NEW to,
           NEW c, c = Corridor(from, to), c # NoCorridor
    PROVE  CorridorFacts(c, from, to)
<1> DEFINE rs == {AnchorsOf(r) : r \in ActiveRoutes}
           matches == RoutesEndingAt(order, rs, from, to)
<1>1. /\ Index(order, from) # 0 /\ ~(Index(order, to) <= Index(order, from))
      /\ ~(Cardinality(matches) > 1)
      /\ c = IF matches = {} THEN FreshCorridor(order, edge, from, to)
             ELSE RouteCorridor(order, node, edge, CHOOSE r \in matches : TRUE,
                                from, to)
  BY DEF Corridor, CorridorIn
<1>2. order \in Seq(NodeIds)
  BY DEF PlanOK, LineOK
<1>3. Index(order, from) \in Nat /\ Index(order, to) \in Nat
  <2>1. Index(order, from) \in 0..Len(order) /\ Index(order, to) \in 0..Len(order)
    BY <1>2, IndexFound
  <2> QED BY <1>2, <2>1
<1>4. Index(order, to) > Index(order, from)
  BY <1>1, <1>3
<1>5. CASE matches = {}
  BY <1>1, <1>4, <1>5, FreshCorridorFacts
<1>6. CASE matches # {}
  <2> DEFINE r == CHOOSE x \in matches : TRUE
  <2>1. r \in matches
    BY <1>6
  <2>2. c = RouteCorridor(order, node, edge, r, from, to)
    BY <1>1, <1>6
  <2> HIDE DEF r
  <2>3. \A x, y \in matches : x = y
    <3>1. IsFiniteSet(rs) /\ matches \in SUBSET rs
      BY RoutesFinite DEF RoutesEndingAt
    <3>2. IsFiniteSet(matches)
      BY <3>1, FS_Subset
    <3>3. Cardinality(matches) \in Nat
      BY <3>2, FS_CardinalityType
    <3> HIDE DEF matches
    <3>4. Cardinality(matches) <= 1
      BY <3>3, <1>1
    <3> QED BY <3>2, <3>4, AtMostOne
  <2>4. /\ CorridorPath(c, from, to)
        /\ c.source \in ActiveRoutes
        /\ c.source = r.id
    BY <1>1, <1>4, <2>1, <2>2, RouteCorridorFacts
  <2>5. ASSUME NEW q \in ActiveRoutes, route[q].from = from, route[q].to = to
        PROVE  q = c.source
    <3>1. AnchorsOf(q).from = from /\ AnchorsOf(q).to = to /\ AnchorsOf(q).id = q
      BY <2>5 DEF AnchorsOf
    <3>2. Index(order, from) \in 1..Index(order, from)
      BY <1>1, <1>3
    <3>3. AnchorsOf(q) \in matches
      BY <3>1, <3>2 DEF RoutesEndingAt
    <3> QED BY <2>1, <2>3, <2>4, <3>1, <3>3
  <2> QED BY <2>4, <2>5 DEF CorridorFacts
<1> QED BY <1>5, <1>6

-----------------------------------------------------------------------------
(* Changes that are no adoption and no undo.                               *)

\* The rows of the plan after a step that made a version.
RowsOK(ord, nd, es, hs, rt, v) ==
    /\ LineOK(ord, nd)
    /\ EdgesOK(ord, es, hs)
    /\ Older(ord, es, hs, v)
    /\ \A r \in DOMAIN rt : {rt[r].from, rt[r].to} \subseteq Range(ord)
    /\ \A n \in Range(ord) : nd[n].route \in DOMAIN rt \cup {0}

\* Nothing can be undone after an edit, and what was adopted is as it was.
LEMMA EditKeeps ==
    ASSUME IInv, Edit, UNCHANGED RouteRows, DraftsOK',
           RowsOK(order', node', edge', history', route', version')
    PROVE  IInv'
<1>1. /\ version \in 1..MaxVersion /\ MaxVersion \in Nat
      /\ version < MaxVersion /\ version' = version + 1
  BY BoundsAssumption DEF IInv, PlanOK, Edit, Advance
<1>2. route' = route /\ receipt' = receipt /\ planBefore' = planBefore
  BY DEF RouteRows
<1>3. PlanOK'
  BY <1>1 DEF PlanOK, RowsOK
<1>4. RoutesOK'
  BY <1>1, <1>2 DEF IInv, RoutesOK, RowsOK
<1>5. PastOK'
  BY <1>2 DEF IInv, PastOK
<1>6. UndoOK'
  <2> SUFFICES ASSUME NEW t \in DOMAIN receipt', Undoable(t)' PROVE FALSE
    BY DEF UndoOK
  <2>1. t \in 1..(version - 1) /\ version' = t + 1
    BY <1>2 DEF IInv, RoutesOK, Undoable
  <2> QED BY <2>1, <1>1
<1>7. OneActiveRoute'
  BY <1>2 DEF IInv, OneActiveRoute, ActiveRoutes
<1> QED BY <1>3, <1>4, <1>5, <1>6, <1>7 DEF IInv

\* Snapshots and previews stay well formed while nodes and routes are only added.
LEMMA DraftsKept ==
    ASSUME DraftsOK, \/ UNCHANGED Drafts
                     \/ \E gone : DraftsWithout(gone)
    PROVE  DraftsOK'
<1>1. CASE UNCHANGED Drafts
  BY <1>1 DEF DraftsOK, Drafts
<1>2. ASSUME NEW gone, DraftsWithout(gone)
      PROVE  DraftsOK'
  <2>1. snapshot' \subseteq snapshot /\ preview' \subseteq preview
    BY <1>2 DEF DraftsWithout
  <2> QED BY <2>1 DEF DraftsOK
<1> QED BY <1>1, <1>2

\* Moving the line archives the edges that no longer join neighbours.
LEMMA ReorderKeeps ==
    ASSUME PlanOK, NEW ord, Reorder(ord)
    PROVE  /\ order' = ord
           /\ EdgesOK(order', edge', history')
           /\ \A e \in edge' \cup history' : e.id[1] < version
<1> DEFINE kept == {e \in edge : PairOf(e) \in Pairs(ord)}
<1>1. /\ order' = ord /\ edge' = kept
      /\ history' = ArchiveOf(edge, history, kept)
  BY DEF Reorder, ArchiveOf
<1>2. kept \in SUBSET edge /\ \A e \in kept : PairOf(e) \in Pairs(ord)
  OBVIOUS
<1>3. EdgesOK(order, edge, history) /\ \A e \in edge \cup history : e.id[1] < version
  BY DEF PlanOK, Older
<1> HIDE DEF kept
<1>4. /\ EdgesOK(ord, kept, ArchiveOf(edge, history, kept))
      /\ NoNewIds(kept \cup ArchiveOf(edge, history, kept), edge \cup history)
  BY <1>2, <1>3, EdgesArchived
<1>5. \A e \in edge' \cup history' : e.id[1] < version
  BY <1>1, <1>3, <1>4 DEF NoNewIds
<1> QED BY <1>1, <1>4, <1>5

\* Archiving edges leaves the rest.
LEMMA ArchiveKeeps ==
    ASSUME PlanOK, NEW gone \in SUBSET edge
    PROVE  /\ EdgesOK(order, edge \ gone, history \cup {Archived(e) : e \in gone})
           /\ \A e \in (edge \ gone) \cup (history \cup {Archived(f) : f \in gone}) :
                e.id[1] < version
<1> DEFINE kept == edge \ gone
<1>1. kept \in SUBSET edge /\ gone = edge \ kept
  OBVIOUS
<1>2. EdgesOK(order, edge, history) /\ \A e \in edge \cup history : e.id[1] < version
  BY DEF PlanOK, Older
<1>3. \A e \in kept : PairOf(e) \in Pairs(order)
  BY <1>2 DEF EdgesOK
<1> HIDE DEF kept
<1>4. /\ EdgesOK(order, kept, ArchiveOf(edge, history, kept))
      /\ NoNewIds(kept \cup ArchiveOf(edge, history, kept), edge \cup history)
  BY <1>1, <1>2, <1>3, EdgesArchived
<1>5. /\ EdgesOK(order, kept, history \cup {Archived(e) : e \in gone})
      /\ \A e \in kept \cup (history \cup {Archived(f) : f \in gone}) : e.id[1] < version
  BY <1>1, <1>2, <1>4 DEF NoNewIds, ArchiveOf
<1> QED BY <1>5 DEF kept

\* Edits that keep the line: rows of nodes and edges change in place.
LEMMA InPlaceKeeps ==
    ASSUME IInv, Edit, UNCHANGED RouteRows, DraftsOK', order' = order,
           node' \in [Range(order) -> NodeRows],
           \A n \in Range(order) : node'[n].route = node[n].route,
           EdgesOK(order, edge', history'),
           \A e \in edge' \cup history' : e.id[1] <= version
    PROVE  IInv'
<1>1. version \in Nat /\ version' = version + 1 /\ route' = route
  BY BoundsAssumption DEF IInv, PlanOK, Edit, Advance, RouteRows
<1>2. LineOK(order', node')
  BY DEF IInv, PlanOK, LineOK
<1>3. Older(order', edge', history', version')
  <2>1. order \in Seq(NodeIds) /\ \A n \in Range(order) : n[1] < version
    BY DEF IInv, PlanOK, LineOK, Older
  <2>2. \A n \in Range(order) : n[1] \in Nat
    BY <2>1 DEF Range, NodeIds
  <2>3. edge' \subseteq EdgeRows /\ history' \subseteq EdgeRows
    BY DEF EdgesOK
  <2>4. \A e \in edge' \cup history' : e.id[1] \in Nat
    BY <2>3 DEF EdgeRows, NodeIds
  <2> QED BY <1>1, <2>1, <2>2, <2>4 DEF Older
<1>4. /\ \A r \in DOMAIN route : {route[r].from, route[r].to} \subseteq Range(order)
      /\ \A n \in Range(order) : node'[n].route \in DOMAIN route \cup {0}
  BY DEF IInv, RoutesOK
<1>5. RowsOK(order', node', edge', history', route', version')
  BY <1>1, <1>2, <1>3, <1>4 DEF RowsOK
<1> QED BY <1>5, EditKeeps

\* Edits of one node's row.
LEMMA RowKeeps ==
    ASSUME IInv, Edit, UNCHANGED RouteRows, UNCHANGED Drafts,
           UNCHANGED <<order, edge, history>>,
           NEW n \in DOMAIN node, NEW row \in NodeRows,
           row.route = node[n].route, node' = [node EXCEPT ![n] = row]
    PROVE  IInv'
<1>1. node \in [Range(order) -> NodeRows]
  BY DEF IInv, PlanOK, LineOK
<1>2. /\ node' \in [Range(order) -> NodeRows]
      /\ \A m \in Range(order) : node'[m].route = node[m].route
  BY <1>1
<1>3. DraftsOK'
  BY DraftsKept DEF IInv
<1>4. /\ EdgesOK(order, edge', history')
      /\ \A e \in edge' \cup history' : e.id[1] <= version
  <2>1. /\ EdgesOK(order, edge, history) /\ edge' = edge /\ history' = history
        /\ \A e \in edge \cup history : e.id[1] < version
    BY DEF IInv, PlanOK, Older
  <2>2. version \in Nat /\ \A e \in edge \cup history : e.id[1] \in Nat
    BY <2>1, BoundsAssumption DEF EdgesOK, EdgeRows, NodeIds, IInv, PlanOK
  <2> QED BY <2>1, <2>2
<1> QED BY <1>2, <1>3, <1>4, InPlaceKeeps

\* A touched node is a node.
LEMMA TouchedRow ==
    ASSUME IInv, NEW n \in DOMAIN node
    PROVE  Touch(n) \in NodeRows /\ Touch(n).route = node[n].route
<1>1. node[n] \in NodeRows
  BY DEF IInv, PlanOK, LineOK
<1> QED BY <1>1 DEF NodeRows, Touch

\* A note.
LEMMA NoteKeeps ==
    ASSUME IInv, NEW n \in DOMAIN node, SetNodeNote(n)
    PROVE  IInv'
<1>1. /\ Edit /\ UNCHANGED RouteRows /\ UNCHANGED Drafts
      /\ UNCHANGED <<order, edge, history>>
      /\ node' = [node EXCEPT ![n] = Touch(n)]
  BY DEF SetNodeNote
<1> QED BY <1>1, TouchedRow, RowKeeps

\* A minimum stay.
LEMMA DwellKeeps ==
    ASSUME IInv, NEW n \in DOMAIN node, NEW d \in 0..2, SetMinDwell(n, d)
    PROVE  IInv'
<1> DEFINE row == [node[n] EXCEPT !.dwell = d]
<1>1. node[n] \in NodeRows
  BY DEF IInv, PlanOK, LineOK
<1>2. row \in NodeRows /\ row.route = node[n].route
  BY <1>1 DEF NodeRows
<1>3. /\ Edit /\ UNCHANGED RouteRows /\ UNCHANGED Drafts
      /\ UNCHANGED <<order, edge, history>>
      /\ node' = [node EXCEPT ![n] = row]
  BY DEF SetMinDwell
<1> HIDE DEF row
<1> QED BY <1>2, <1>3, RowKeeps

\* An arrival, a departure, or a withdrawal of one.
LEMMA FactKeeps ==
    ASSUME IInv, NEW n \in DOMAIN node,
           NEW actual \in SUBSET {"ARRIVAL", "DEPARTURE"}, RecordAt(n, actual)
    PROVE  IInv'
<1> DEFINE row == [node[n] EXCEPT !.actual = actual]
<1>1. node[n] \in NodeRows
  BY DEF IInv, PlanOK, LineOK
<1>2. row \in NodeRows /\ row.route = node[n].route
  BY <1>1 DEF NodeRows
<1>3. /\ Edit /\ UNCHANGED RouteRows /\ UNCHANGED Drafts
      /\ UNCHANGED <<order, edge, history>>
      /\ node' = [node EXCEPT ![n] = row]
  BY DEF RecordAt
<1> HIDE DEF row
<1> QED BY <1>2, <1>3, RowKeeps

\* Versions are numbers, and every id is of an earlier version.
LEMMA VersionType ==
    ASSUME IInv
    PROVE  /\ version \in Nat /\ MaxVersion \in Nat
           /\ \A n \in Range(order) : n \in NodeIds /\ n[1] \in Nat /\ n[1] < version
           /\ \A e \in edge \cup history : e.id[1] \in Nat /\ e.id[1] < version
           /\ DOMAIN node = Range(order)
<1>1. version \in 1..MaxVersion /\ MaxVersion \in Nat
  BY BoundsAssumption DEF IInv, PlanOK
<1>2. order \in Seq(NodeIds) /\ \A n \in Range(order) : n[1] < version
  BY DEF IInv, PlanOK, LineOK, Older
<1>3. \A n \in Range(order) : n \in NodeIds /\ n[1] \in Nat
  BY <1>2 DEF Range, NodeIds
<1>4. \A e \in edge \cup history : e.id[1] \in Nat /\ e.id[1] < version
  BY DEF IInv, PlanOK, EdgesOK, Older, EdgeRows, NodeIds
<1> QED BY <1>1, <1>2, <1>3, <1>4 DEF IInv, PlanOK, LineOK

\* Edits of the edges only.
LEMMA EdgesKeep ==
    ASSUME IInv, Edit, UNCHANGED RouteRows, UNCHANGED Drafts,
           UNCHANGED <<order, node>>,
           EdgesOK(order, edge', history'),
           \A e \in edge' \cup history' : e.id[1] <= version
    PROVE  IInv'
<1>1. node \in [Range(order) -> NodeRows]
  BY DEF IInv, PlanOK, LineOK
<1>2. DraftsOK'
  BY DraftsKept DEF IInv
<1> QED BY <1>1, <1>2, InPlaceKeeps

\* A new place for a node.
LEMMA PlaceKeeps ==
    ASSUME IInv, NEW n \in DOMAIN node, ReplacePlace(n)
    PROVE  IInv'
<1> DEFINE gone == {e \in edge : n \in {e.from, e.to}}
<1>1. /\ edge' = edge \ gone
      /\ history' = history \cup {Archived(e) : e \in gone}
      /\ Edit /\ UNCHANGED RouteRows /\ UNCHANGED Drafts /\ order' = order
      /\ node' = [node EXCEPT ![n] = Touch(n)]
  BY DEF ReplacePlace, ArchiveEdges
<1>2. gone \in SUBSET edge
  OBVIOUS
<1> HIDE DEF gone
<1>3. EdgesOK(order, edge', history') /\ \A e \in edge' \cup history' : e.id[1] < version
  BY <1>1, <1>2, ArchiveKeeps DEF IInv
<1>4. \A e \in edge' \cup history' : e.id[1] <= version
  <2>1. \A e \in edge' \cup history' : e.id[1] \in Nat
    BY <1>3 DEF EdgesOK, EdgeRows, NodeIds
  <2> QED BY <2>1, <1>3, VersionType
<1>5. node \in [Range(order) -> NodeRows]
  BY DEF IInv, PlanOK, LineOK
<1>6. /\ node' \in [Range(order) -> NodeRows]
      /\ \A m \in Range(order) : node'[m].route = node[m].route
  BY <1>1, <1>5, TouchedRow
<1>7. DraftsOK'
  BY <1>1, DraftsKept DEF IInv
<1> QED BY <1>1, <1>3, <1>4, <1>6, <1>7, InPlaceKeeps

\* Transport taken away.
LEMMA ClearKeeps ==
    ASSUME IInv, NEW e \in edge, ClearTransport(e)
    PROVE  IInv'
<1> DEFINE gone == {e}
<1>1. /\ edge' = edge \ gone
      /\ history' = history \cup {Archived(f) : f \in gone}
      /\ Edit /\ UNCHANGED RouteRows /\ UNCHANGED Drafts
      /\ UNCHANGED <<order, node>>
  BY DEF ClearTransport, ArchiveEdges
<1>2. gone \in SUBSET edge
  OBVIOUS
<1> HIDE DEF gone
<1>3. EdgesOK(order, edge', history') /\ \A f \in edge' \cup history' : f.id[1] < version
  BY <1>1, <1>2, ArchiveKeeps DEF IInv
<1>4. \A f \in edge' \cup history' : f.id[1] <= version
  <2>1. \A f \in edge' \cup history' : f.id[1] \in Nat
    BY <1>3 DEF EdgesOK, EdgeRows, NodeIds
  <2> QED BY <2>1, <1>3, VersionType
<1> QED BY <1>1, <1>3, <1>4, EdgesKeep

\* Transport put between neighbours.
LEMMA TransportKeeps ==
    ASSUME IInv, NEW p \in Pairs(order), SetManualTransport(p)
    PROVE  IInv'
<1> DEFINE gone == {e \in edge : PairOf(e) = p}
           row == Edge(<<version, 1>>, p[1], p[2], 0)
           kept == edge \ gone
           new == {row}
<1>1. /\ edge' = kept \cup new
      /\ history' = history \cup {Archived(f) : f \in gone}
      /\ Edit /\ UNCHANGED RouteRows /\ UNCHANGED Drafts
      /\ UNCHANGED <<order, node>>
  BY DEF SetManualTransport
<1>2. gone \in SUBSET edge
  OBVIOUS
<1>3. EdgesOK(order, kept, history') /\ \A f \in kept \cup history' : f.id[1] < version
  <2> HIDE DEF gone
  <2> QED BY <1>1, <1>2, ArchiveKeeps DEF IInv
<1>4. p \in NodeIds \X NodeIds
  <2>1. order \in Seq(NodeIds)
    BY DEF IInv, PlanOK, LineOK
  <2> QED BY <2>1 DEF Pairs
<1>5. row \in EdgeRows /\ row.id = <<version, 1>> /\ PairOf(row) = p
  BY <1>4, VersionType DEF Edge, EdgeRows, NodeIds, PairOf
<1> HIDE DEF row
<1>6. \A f \in new : f = row
  OBVIOUS
<1>7. \A f \in kept \cup history' : f.id[1] \in Nat /\ f.id # <<version, 1>>
  <2>1. \A f \in kept \cup history' : f.id[1] \in Nat
    BY <1>3 DEF EdgesOK, EdgeRows, NodeIds
  <2> QED BY <2>1, <1>3, VersionType
<1>8. \A f \in kept : PairOf(f) # p
  OBVIOUS
<1> HIDE DEF kept, gone
<1>9. /\ new \in SUBSET EdgeRows
      /\ \A e \in new : PairOf(e) \in Pairs(order)
      /\ \A e, f \in new : e.id = f.id \/ PairOf(e) = PairOf(f) => e = f
      /\ \A e \in new, f \in kept : PairOf(e) # PairOf(f)
      /\ \A e \in new, f \in kept \cup history' : e.id # f.id
  BY <1>5, <1>6, <1>7, <1>8
<1> HIDE DEF new
<1>10. EdgesOK(order, kept \cup new, history')
  BY <1>3, <1>9, EdgesAdded
<1>11. \A f \in edge' \cup history' : f.id[1] <= version
  BY <1>1, <1>3, <1>5, <1>6, <1>7, VersionType
<1> QED BY <1>1, <1>10, <1>11, EdgesKeep

\* Another mode, or a flight bound or unbound.
LEMMA ChangeKeeps ==
    ASSUME IInv, NEW e \in edge, NEW now \in EdgeRows,
           now.id = e.id, PairOf(now) = PairOf(e), ChangeEdge(e, now)
    PROVE  IInv'
<1>1. /\ edge' = (edge \ {e}) \cup {now} /\ history' = history
      /\ Edit /\ UNCHANGED RouteRows /\ UNCHANGED Drafts
      /\ UNCHANGED <<order, node>>
  BY DEF ChangeEdge
<1>2. EdgesOK(order, edge, history)
  BY DEF IInv, PlanOK
<1>3. EdgesOK(order, edge', history')
  BY <1>1, <1>2, EdgeChanged
<1>4. \A f \in edge' \cup history' : f.id[1] <= version
  BY <1>1, VersionType
<1> QED BY <1>1, <1>3, <1>4, EdgesKeep

\* A flight bound or lost.
LEMMA FlightKeeps ==
    ASSUME IInv, NEW e \in edge, AdoptFlight(e) \/ ObserveFlight(e)
    PROVE  IInv'
<1>1. e \in EdgeRows
  BY DEF IInv, PlanOK, EdgesOK
<1>2. CASE AdoptFlight(e)
  <2> DEFINE now == [e EXCEPT !.flight = TRUE]
  <2>1. now \in EdgeRows /\ now.id = e.id /\ PairOf(now) = PairOf(e)
    BY <1>1 DEF EdgeRows, PairOf
  <2>2. ChangeEdge(e, now)
    BY <1>2 DEF AdoptFlight
  <2> HIDE DEF now
  <2> QED BY <2>1, <2>2, ChangeKeeps
<1>3. CASE ObserveFlight(e)
  <2> DEFINE now == [e EXCEPT !.actual = TRUE]
  <2>1. now \in EdgeRows /\ now.id = e.id /\ PairOf(now) = PairOf(e)
    BY <1>1 DEF EdgeRows, PairOf
  <2>2. ChangeEdge(e, now)
    BY <1>3 DEF ObserveFlight
  <2> HIDE DEF now
  <2> QED BY <2>1, <2>2, ChangeKeeps
<1> QED BY <1>2, <1>3

\* Edits that move the line.
LEMMA LineKeeps ==
    ASSUME IInv, Edit, UNCHANGED RouteRows, DraftsOK',
           NEW ord, Reorder(ord),
           LineOK(ord, node'),
           \A n \in Range(ord) : n[1] <= version,
           \A r \in DOMAIN route : {route[r].from, route[r].to} \subseteq Range(ord),
           \A n \in Range(ord) : node'[n].route \in DOMAIN route \cup {0}
    PROVE  IInv'
<1>1. version \in Nat /\ version' = version + 1 /\ route' = route
  BY VersionType DEF Edit, Advance, RouteRows
<1>2. /\ order' = ord
      /\ EdgesOK(order', edge', history')
      /\ \A e \in edge' \cup history' : e.id[1] < version
  BY ReorderKeeps DEF IInv
<1>3. \A e \in edge' \cup history' : e.id[1] \in Nat
  BY <1>2 DEF EdgesOK, EdgeRows, NodeIds
<1>4. \A n \in Range(ord) : n[1] \in Nat
  BY DEF LineOK, Range, NodeIds
<1>5. Older(order', edge', history', version')
  BY <1>1, <1>2, <1>3, <1>4 DEF Older
<1>6. RowsOK(order', node', edge', history', route', version')
  BY <1>1, <1>2, <1>5 DEF RowsOK
<1> QED BY <1>6, EditKeeps

\* The type of the line and of what refers to it.
LEMMA LineType ==
    ASSUME IInv
    PROVE  /\ order \in Seq(NodeIds) /\ IsInjective(order)
           /\ node \in [Range(order) -> NodeRows]
           /\ \A r \in DOMAIN route : {route[r].from, route[r].to} \subseteq Range(order)
           /\ \A n \in Range(order) : node[n].route \in DOMAIN route \cup {0}
BY DEF IInv, PlanOK, LineOK, RoutesOK

\* A node put in.
LEMMA InsertKeeps ==
    ASSUME IInv, NEW kind \in {"PLACE_VISIT", "FREE_ACTION"},
           NEW i \in 1..(Len(order) + 1), InsertNode(kind, i)
    PROVE  IInv'
<1> DEFINE new == <<version, 1>>
           ord == InsertAt(order, i, new)
<1>1. /\ Edit /\ Reorder(ord) /\ UNCHANGED RouteRows /\ UNCHANGED Drafts
      /\ node' = With(node, new, UserNode(kind))
  BY DEF InsertNode
<1>2. new \in NodeIds /\ new \notin Range(order) /\ new[1] = version
  BY VersionType DEF NodeIds
<1> HIDE DEF new
<1>3. ord \in Seq(NodeIds) /\ IsInjective(ord) /\ Range(ord) = Range(order) \cup {new}
  BY <1>2, LineType, LineInsert
<1> HIDE DEF ord
<1>4. UserNode(kind) \in NodeRows /\ UserNode(kind).route = 0
  BY DEF UserNode, NodeRows, Places
<1>5. node' \in [Range(ord) -> NodeRows]
  BY <1>1, <1>3, <1>4, LineType DEF With
<1>6. \A n \in Range(ord) : node'[n].route \in DOMAIN route \cup {0}
  BY <1>1, <1>3, <1>4, LineType DEF With
<1>7. \A n \in Range(ord) : n[1] <= version
  BY <1>2, <1>3, VersionType
<1>8. \A r \in DOMAIN route : {route[r].from, route[r].to} \subseteq Range(ord)
  BY <1>3, LineType
<1>9. LineOK(ord, node')
  BY <1>3, <1>5 DEF LineOK
<1>10. DraftsOK'
  BY <1>1, DraftsKept DEF IInv
<1> QED BY <1>1, <1>6, <1>7, <1>8, <1>9, <1>10, LineKeeps

\* The line without one of its nodes.
LEMMA WithoutNode ==
    ASSUME IInv, NEW n \in DOMAIN node
    PROVE  LET ord == RemoveAt(order, Index(order, n)) IN
           /\ ord \in Seq(NodeIds) /\ IsInjective(ord)
           /\ Range(ord) = Range(order) \ {n}
           /\ Len(ord) = Len(order) - 1
<1> DEFINE k == Index(order, n)
<1>1. order \in Seq(NodeIds) /\ IsInjective(order) /\ n \in Range(order)
  BY LineType, VersionType
<1>2. k \in 1..Len(order) /\ order[k] = n
  BY <1>1, IndexFound
<1> HIDE DEF k
<1>3. /\ RemoveAt(order, k) \in Seq(NodeIds)
      /\ Len(RemoveAt(order, k)) = Len(order) - 1
      /\ IsInjective(RemoveAt(order, k))
      /\ Range(RemoveAt(order, k)) = Range(order) \ {order[k]}
  BY <1>1, <1>2, LineRemove
<1> QED BY <1>2, <1>3 DEF k

\* A node deleted.
LEMMA DeleteKeeps ==
    ASSUME IInv, NEW n \in DOMAIN node, DeleteNode(n)
    PROVE  IInv'
<1> DEFINE ord == RemoveAt(order, Index(order, n))
<1>1. /\ Edit /\ Reorder(ord) /\ UNCHANGED RouteRows /\ DraftsWithout({n})
      /\ node' = [m \in DOMAIN node \ {n} |-> node[m]]
      /\ \A r \in DOMAIN route : n \notin {route[r].from, route[r].to}
  BY DEF DeleteNode, Referenced
<1>2. ord \in Seq(NodeIds) /\ IsInjective(ord) /\ Range(ord) = Range(order) \ {n}
  BY WithoutNode
<1> HIDE DEF ord
<1>3. /\ node' \in [Range(ord) -> NodeRows]
      /\ \A m \in Range(ord) : node'[m] = node[m]
  BY <1>1, <1>2, LineType, VersionType
<1>4. \A m \in Range(ord) : node'[m].route \in DOMAIN route \cup {0}
  BY <1>2, <1>3, LineType
<1>5. \A m \in Range(ord) : m[1] <= version
  BY <1>2, VersionType
<1>6. \A r \in DOMAIN route : {route[r].from, route[r].to} \subseteq Range(ord)
  BY <1>1, <1>2, LineType
<1>7. LineOK(ord, node')
  BY <1>2, <1>3 DEF LineOK
<1>8. DraftsOK'
  BY <1>1, DraftsKept DEF IInv
<1> QED BY <1>1, <1>4, <1>5, <1>6, <1>7, <1>8, LineKeeps

\* A node moved.
LEMMA MoveKeeps ==
    ASSUME IInv, NEW n \in DOMAIN node, NEW i \in 1..Len(order), MoveNode(n, i)
    PROVE  IInv'
<1> DEFINE rest == RemoveAt(order, Index(order, n))
           ord == InsertAt(rest, i, n)
<1>1. /\ Edit /\ Reorder(ord) /\ UNCHANGED RouteRows /\ UNCHANGED Drafts
      /\ node' = [node EXCEPT ![n] = Touch(n)]
  BY DEF MoveNode
<1>2. /\ rest \in Seq(NodeIds) /\ IsInjective(rest)
      /\ Range(rest) = Range(order) \ {n} /\ Len(rest) = Len(order) - 1
  BY WithoutNode
<1> HIDE DEF rest
<1>3. n \in NodeIds /\ n \notin Range(rest) /\ n \in Range(order)
  BY <1>2, VersionType
<1>4. i \in 1..(Len(rest) + 1)
  BY <1>2, LineType
<1>5. ord \in Seq(NodeIds) /\ IsInjective(ord) /\ Range(ord) = Range(rest) \cup {n}
  BY <1>2, <1>3, <1>4, LineInsert
<1> HIDE DEF ord
<1>6. Range(ord) = Range(order)
  BY <1>2, <1>3, <1>5
<1>7. /\ node' \in [Range(ord) -> NodeRows]
      /\ \A m \in Range(ord) : node'[m].route = node[m].route
  BY <1>1, <1>6, LineType, VersionType, TouchedRow
<1>8. \A m \in Range(ord) : node'[m].route \in DOMAIN route \cup {0}
  BY <1>6, <1>7, LineType
<1>9. \A m \in Range(ord) : m[1] <= version
  BY <1>6, VersionType
<1>10. \A r \in DOMAIN route : {route[r].from, route[r].to} \subseteq Range(ord)
  BY <1>6, LineType
<1>11. LineOK(ord, node')
  BY <1>5, <1>7 DEF LineOK
<1>12. DraftsOK'
  BY <1>1, DraftsKept DEF IInv
<1> QED BY <1>1, <1>8, <1>9, <1>10, <1>11, <1>12, LineKeeps

\* Every command keeps the invariant.
LEMMA EditStep ==
    ASSUME IInv, UserCommand \/ Fact
    PROVE  IInv'
<1>1. ASSUME NEW n \in DOMAIN node, Arrive(n) \/ Depart(n) \/ UndoEvent(n)
      PROVE  IInv'
  <2>1. \E actual \in SUBSET {"ARRIVAL", "DEPARTURE"} : RecordAt(n, actual)
    BY <1>1 DEF Arrive, Depart, UndoEvent
  <2> QED BY <2>1, FactKeeps
<1>2. CASE Fact
  BY <1>1, <1>2, FlightKeeps DEF Fact
<1>3. CASE UserCommand
  BY <1>3, InsertKeeps, DeleteKeeps, MoveKeeps, PlaceKeeps, NoteKeeps, DwellKeeps,
     TransportKeeps, ClearKeeps DEF UserCommand
<1> QED BY <1>2, <1>3

-----------------------------------------------------------------------------
(* The start, and what a query and a preview leave.                        *)

\* The plan the model starts from satisfies the invariant.
LEMMA InitOK == Init => IInv
<1> SUFFICES ASSUME Init PROVE IInv
  OBVIOUS
<1>1. Visits \in Nat \ {0} /\ MaxVersion \in Nat \ {0}
  BY BoundsAssumption
<1>2. /\ version = 1 /\ order = [i \in 1..Visits |-> <<0, i>>]
      /\ history = {} /\ route = <<>> /\ receipt = <<>>
      /\ snapshot = {} /\ preview = {} /\ planBefore = <<>>
  BY DEF Init
<1>3. /\ order \in Seq(NodeIds) /\ Len(order) = Visits
      /\ IsInjective(order)
      /\ \A i \in 1..Visits : order[i] = <<0, i>>
      /\ Range(order) = {<<0, i>> : i \in 1..Visits}
  BY <1>1, <1>2 DEF IsInjective, Range, NodeIds
<1>4. /\ node \in [Range(order) -> NodeRows]
      /\ \A n \in Range(order) : node[n].route = 0
  <2>1. PICK fact \in {{}, {"ARRIVAL"}} :
          node = [n \in Range(order) |->
                   [UserNode("PLACE_VISIT") EXCEPT
                      !.dwell = IF n = <<0, Visits>> THEN 2 ELSE 0,
                      !.actual = IF n = <<0, 1>> THEN fact ELSE {}]]
    BY DEF Init
  <2>2. ASSUME NEW n \in Range(order)
        PROVE  node[n] \in NodeRows /\ node[n].route = 0
    <3> DEFINE d == IF n = <<0, Visits>> THEN 2 ELSE 0
               a == IF n = <<0, 1>> THEN fact ELSE {}
    <3>1. node[n] = [UserNode("PLACE_VISIT") EXCEPT !.dwell = d, !.actual = a]
      BY <2>1
    <3>2. d \in 0..2 /\ a \in SUBSET {"ARRIVAL", "DEPARTURE"}
      OBVIOUS
    <3> HIDE DEF d, a
    <3>3. node[n] = [source |-> "USER_PLANNED", kind |-> "PLACE_VISIT",
                     place |-> UserStop, route |-> 0, op |-> 0,
                     touched |-> FALSE, dwell |-> d, actual |-> a]
      BY <3>1 DEF UserNode
    <3> QED BY <3>2, <3>3 DEF NodeRows, Places
  <2> QED BY <2>1, <2>2
<1>5. ASSUME NEW p \in Pairs(order)
      PROVE  \E i \in 1..(Visits - 1) : p = <<<<0, i>>, <<0, i + 1>>>>
  BY <1>1, <1>3 DEF Pairs
<1>6. EdgesOK(order, edge, history) /\ \A e \in edge : e.id[1] = 0
  <2>1. PICK ps \in SUBSET Pairs(order), fs \in SUBSET Pairs(order) :
          edge = {[Edge(p[1], p[1], p[2], 0) EXCEPT !.flight = p \in fs] : p \in ps}
    BY DEF Init
  <2>2. ASSUME NEW e \in edge
        PROVE  \E p \in ps : /\ e = [Edge(p[1], p[1], p[2], 0) EXCEPT !.flight = p \in fs]
                             /\ e.id = p[1] /\ PairOf(e) = p
                             /\ e \in EdgeRows /\ e.id[1] = 0
    <3>1. PICK p \in ps : e = [Edge(p[1], p[1], p[2], 0) EXCEPT !.flight = p \in fs]
      BY <2>1
    <3>2. p[1] \in NodeIds /\ p[2] \in NodeIds /\ p = <<p[1], p[2]>> /\ p[1][1] = 0
      BY <1>1, <1>5 DEF NodeIds
    <3> DEFINE b == p \in fs
    <3>3. b \in BOOLEAN
      OBVIOUS
    <3>4. e = [Edge(p[1], p[1], p[2], 0) EXCEPT !.flight = b]
      BY <3>1
    <3> HIDE DEF b
    <3>5. e = [id |-> p[1], from |-> p[1], to |-> p[2], route |-> 0,
               actual |-> FALSE, flight |-> b]
      BY <3>4 DEF Edge
    <3>6. e.id = p[1] /\ e.id[1] = 0 /\ PairOf(e) = <<p[1], p[2]>> /\ e \in EdgeRows
      BY <3>2, <3>3, <3>5 DEF EdgeRows, PairOf
    <3> QED BY <3>1, <3>2, <3>6
  <2>3. \A e, f \in edge : e.id = f.id => PairOf(e) = PairOf(f)
    <3>1. \A p, q \in Pairs(order) : p[1] = q[1] => p = q
      BY <1>1, <1>5
    <3> QED BY <2>2, <3>1
  <2>4. \A e, f \in edge : PairOf(e) = PairOf(f) => e = f
    BY <2>2
  <2>5. edge \subseteq EdgeRows /\ \A e \in edge : PairOf(e) \in Pairs(order)
    BY <2>2
  <2> QED BY <1>2, <2>2, <2>3, <2>4, <2>5 DEF EdgesOK
<1>7. PlanOK
  <2>1. version \in 1..MaxVersion
    BY <1>1, <1>2
  <2>2. LineOK(order, node)
    BY <1>3, <1>4 DEF LineOK
  <2>3. \A n \in Range(order) : n[1] < version
    BY <1>2, <1>3
  <2>4. \A e \in edge \cup history : e.id[1] < version
    BY <1>2, <1>6
  <2> QED BY <2>1, <2>2, <2>3, <2>4, <1>6 DEF PlanOK, Older
<1>8. DOMAIN route = {} /\ DOMAIN receipt = {} /\ DOMAIN planBefore = {}
  BY <1>2
<1>9. RoutesOK
  BY <1>4, <1>8 DEF RoutesOK
<1>10. DraftsOK /\ PastOK /\ UndoOK /\ OneActiveRoute
  BY <1>2, <1>8 DEF DraftsOK, PastOK, UndoOK, OneActiveRoute, ActiveRoutes
<1> QED BY <1>7, <1>9, <1>10 DEF IInv

\* Steps that leave the plan and the routes alone.
LEMMA DraftsOnly ==
    ASSUME IInv, DraftsOK', UNCHANGED <<version, order, node, edge, history>>,
           UNCHANGED RouteRows
    PROVE  IInv'
<1>1. PlanOK'
  BY DEF IInv, PlanOK
<1>2. route' = route /\ receipt' = receipt /\ planBefore' = planBefore
  BY DEF RouteRows
<1>3. RoutesOK'
  BY <1>2 DEF IInv, RoutesOK
<1>4. PastOK'
  BY <1>2 DEF IInv, PastOK
<1>5. ActiveRoutes' = ActiveRoutes
  BY <1>2 DEF ActiveRoutes
<1>6. OneActiveRoute'
  BY <1>2, <1>5 DEF IInv, OneActiveRoute
<1>7. ASSUME NEW t \in DOMAIN receipt, Undoable(t)',
             NEW d, d = receipt[t].delta, NEW b, b = planBefore[t]
      PROVE  /\ t \in DOMAIN planBefore
             /\ Returns(t, d, b)'
  <2>1. t \in DOMAIN planBefore /\ Returns(t, d, b)
    BY <1>2, <1>7 DEF IInv, UndoOK, Undoable
  <2>2. \A n : RestoredNode(d, n)' = RestoredNode(d, n)
    BY DEF RestoredNode
  <2>3. EdgesBack(d)' = EdgesBack(d) /\ Histories(d)' = Histories(d)
    BY DEF EdgesBack, Histories
  <2>4. ActiveBack(t, d)' = ActiveBack(t, d)
    BY <1>5 DEF ActiveBack
  <2> QED BY <1>2, <2>1, <2>2, <2>3, <2>4 DEF Returns
<1>8. UndoOK'
  BY <1>2, <1>7 DEF UndoOK
<1> QED BY <1>1, <1>3, <1>4, <1>6, <1>8 DEF IInv

\* A query.
LEMMA QueryKeeps ==
    ASSUME IInv, NEW from \in DOMAIN node, NEW to \in DOMAIN node,
           NEW o \in Offers, Query(from, to, o)
    PROVE  IInv'
<1> DEFINE s == [basis |-> version, from |-> from, to |-> to,
                 stops |-> o.stops, impact |-> o.impact]
<1>1. /\ snapshot' = snapshot \cup {s} /\ preview' = preview
      /\ UNCHANGED <<version, order, node, edge, history>>
      /\ UNCHANGED RouteRows
  BY DEF Query
<1>2. s \in Snapshots
  BY BoundsAssumption, VersionType DEF Snapshots, Impacts
<1> HIDE DEF s
<1>3. DraftsOK'
  BY <1>1, <1>2 DEF IInv, DraftsOK
<1> QED BY <1>1, <1>3, DraftsOnly

\* A preview.
LEMMA PreviewKeeps ==
    ASSUME IInv, NEW s \in snapshot, CreatePreview(s)
    PROVE  IInv'
<1> DEFINE c == Corridor(s.from, s.to)
           p == Summary(s, c)
<1>1. /\ preview' = preview \cup {p} /\ snapshot' = snapshot
      /\ UNCHANGED <<version, order, node, edge, history>>
      /\ UNCHANGED RouteRows
  BY DEF CreatePreview
<1>2. s \in Snapshots
  BY DEF IInv, DraftsOK
<1>3. /\ p.snapshot = s
      /\ p.plan = Reuse(c.path, s.stops)
      /\ p.reused = Range(p.plan) \ {NoNode}
      /\ p.adjust \subseteq {s.to}
      /\ p.corridor = c /\ c # NoCorridor
  BY DEF Summary, CreatePreview
<1>4. DOMAIN Reuse(c.path, s.stops) = DOMAIN s.stops
  BY DEF Reuse
<1> HIDE DEF p, c
<1>5. DraftsOK'
  BY <1>1, <1>2, <1>3, <1>4 DEF IInv, DraftsOK
<1> QED BY <1>1, <1>5, DraftsOnly

-----------------------------------------------------------------------------
(* Adoption.                                                               *)

\* The new stretch of a spliced line, as a path of its own.
LEMMA SplicedPath ==
    ASSUME NEW T, NEW s \in Seq(T), NEW r \in Seq(T),
           NEW i \in 1..Len(s), NEW j \in (i + 1)..Len(s),
           NEW S, SplicedOf(S, T, s, i, r, j)
    PROVE  LET path == <<s[i]>> \o r \o <<s[j]>> IN
           /\ Len(path) = Len(r) + 2
           /\ \A m \in 1..(Len(r) + 2) : path[m] = S[i - 1 + m]
<1> DEFINE a == <<s[i]>>
           b == <<s[j]>>
           path == a \o r \o b
<1>1. /\ Len(s) \in Nat /\ Len(r) \in Nat /\ i \in Nat /\ j \in Nat
      /\ s[i] \in T /\ s[j] \in T
  OBVIOUS
<1>2. /\ a \in Seq(T) /\ Len(a) = 1 /\ a[1] = s[i]
      /\ b \in Seq(T) /\ Len(b) = 1 /\ b[1] = s[j]
  BY <1>1
<1> HIDE DEF a, b
<1>3. a \in Seq(T) /\ b \in Seq(T)
  BY <1>2
<1>t. TripleOf(path, T, a, r, b)
  BY <1>3, Triple
<1>4. /\ path \in Seq(T)
      /\ Len(path) = Len(a) + Len(r) + Len(b)
      /\ \A k \in 1..Len(a) : path[k] = a[k]
      /\ \A k \in 1..Len(r) : path[Len(a) + k] = r[k]
      /\ \A k \in 1..Len(b) : path[Len(a) + Len(r) + k] = b[k]
  BY <1>t DEF TripleOf
<1> HIDE DEF path
<1>5. /\ \A k \in 1..i : S[k] = s[k]
      /\ \A k \in 1..Len(r) : S[i + k] = r[k]
      /\ \A k \in j..Len(s) : S[i + Len(r) + (k - j + 1)] = s[k]
  BY DEF SplicedOf
<1>6. /\ path[1] = s[i]
      /\ \A k \in 1..Len(r) : path[1 + k] = r[k]
      /\ path[1 + Len(r) + 1] = s[j]
  BY <1>1, <1>2, <1>4
<1>7. S[i] = s[i] /\ S[i + Len(r) + 1] = s[j]
  <2>1. i \in 1..i /\ j \in j..Len(s) /\ i + Len(r) + (j - j + 1) = i + Len(r) + 1
    BY <1>1
  <2> QED BY <2>1, <1>5
<1>8. ASSUME NEW m \in 1..(Len(r) + 2)
      PROVE  path[m] = S[i - 1 + m]
  <2>1. CASE m = 1
    BY <2>1, <1>1, <1>6, <1>7
  <2>2. CASE m \in 2..(Len(r) + 1)
    <3> DEFINE k == m - 1
    <3>1. k \in 1..Len(r) /\ 1 + k = m /\ i + k = i - 1 + m
      BY <2>2, <1>1
    <3> HIDE DEF k
    <3> QED BY <3>1, <1>5, <1>6
  <2>3. CASE m = Len(r) + 2
    <3>1. 1 + Len(r) + 1 = m /\ i + Len(r) + 1 = i - 1 + m
      BY <2>3, <1>1
    <3> QED BY <3>1, <1>6, <1>7
  <2> QED BY <1>1, <2>1, <2>2, <2>3
<1>9. Len(path) = Len(r) + 2
  BY <1>1, <1>2, <1>4
<1> QED BY <1>8, <1>9 DEF path, a, b

\* Its pairs, and the pairs of the line that stay.
LEMMA SplicedPairs ==
    ASSUME NEW T, NEW s \in Seq(T), NEW r \in Seq(T),
           NEW i \in 1..Len(s), NEW j \in (i + 1)..Len(s),
           NEW S, SplicedOf(S, T, s, i, r, j), IsInjective(S)
    PROVE  /\ \A m \in 1..(Len(r) + 1) : <<S[i - 1 + m], S[i + m]>> \in Pairs(S)
           /\ \A m, q \in 1..(Len(r) + 2) : S[i - 1 + m] = S[i - 1 + q] => m = q
           /\ \A x \in Pairs(s) \ Pairs(SubSeq(s, i, j)) :
                /\ x \in Pairs(S)
                /\ \A m \in 1..(Len(r) + 1) : x # <<S[i - 1 + m], S[i + m]>>
<1> DEFINE n == Len(s)
           l == Len(r)
           part == SubSeq(s, i, j)
<1>1. n \in Nat /\ l \in Nat /\ i \in Nat /\ j \in Nat
  OBVIOUS
<1>2. i >= 1 /\ i < j /\ j <= n
  BY <1>1
<1>3. Len(S) = i + l + (n - j + 1) /\ S \in Seq(T)
  BY DEF SplicedOf
<1>4. /\ \A k \in 1..i : S[k] = s[k]
      /\ \A k \in j..n : S[i + l + (k - j + 1)] = s[k]
  BY DEF SplicedOf
<1>5. Len(part) = j - i + 1 /\ \A k \in 1..(j - i + 1) : part[k] = s[i + k - 1]
  BY <1>1
<1>6. DOMAIN S = 1..Len(S)
  BY <1>3
<1> HIDE DEF n, l, part
<1>7. \A a, b \in 1..Len(S) : S[a] = S[b] => a = b
  BY <1>6 DEF IsInjective
<1>8. ASSUME NEW m \in 1..(l + 1)
      PROVE  <<S[i - 1 + m], S[i + m]>> \in Pairs(S)
  <2>1. i - 1 + m \in 1..(Len(S) - 1) /\ (i - 1 + m) + 1 = i + m
    BY <1>1, <1>2, <1>3
  <2> QED BY <2>1 DEF Pairs
<1>9. ASSUME NEW m \in 1..(l + 2), NEW q \in 1..(l + 2), S[i - 1 + m] = S[i - 1 + q]
      PROVE  m = q
  <2>1. i - 1 + m \in 1..Len(S) /\ i - 1 + q \in 1..Len(S)
    BY <1>1, <1>2, <1>3
  <2>2. i - 1 + m = i - 1 + q
    BY <2>1, <1>7, <1>9
  <2> QED BY <2>2, <1>1
<1>10. ASSUME NEW x \in Pairs(s), x \notin Pairs(part)
       PROVE  \E q \in 1..(Len(S) - 1) :
                 /\ x = <<S[q], S[q + 1]>>
                 /\ q < i \/ q > i + l
  <2>1. PICK k \in 1..(n - 1) : x = <<s[k], s[k + 1]>>
    BY DEF Pairs, n
  <2>2. CASE k < i
    <3>1. k \in 1..i /\ k + 1 \in 1..i /\ k \in 1..(Len(S) - 1)
      BY <2>2, <1>1, <1>2, <1>3
    <3> QED BY <2>1, <2>2, <3>1, <1>4
  <2>3. CASE k >= i /\ k < j
    <3> DEFINE m == k - i + 1
    <3>1. /\ m \in 1..(j - i + 1) /\ m + 1 \in 1..(j - i + 1)
          /\ i + m - 1 = k /\ i + (m + 1) - 1 = k + 1
          /\ m \in 1..((j - i + 1) - 1)
      BY <2>3, <1>1, <1>2
    <3> HIDE DEF m
    <3>a. part[m] = s[k] /\ part[m + 1] = s[k + 1]
      <4>1. part[m] = s[i + m - 1] /\ part[m + 1] = s[i + (m + 1) - 1]
        BY <3>1, <1>5
      <4> QED BY <4>1, <3>1
    <3>2. x = <<part[m], part[m + 1]>> /\ m \in 1..(Len(part) - 1)
      BY <2>1, <3>a, <3>1, <1>5
    <3>3. x \in Pairs(part)
      BY <3>2 DEF Pairs
    <3> QED BY <3>3, <1>10
  <2>4. CASE k >= j
    <3> DEFINE q == i + l + (k - j + 1)
    <3>1. /\ q \in 1..(Len(S) - 1) /\ q > i + l
          /\ k \in j..n /\ k + 1 \in j..n
          /\ q + 1 = i + l + ((k + 1) - j + 1)
      BY <2>4, <1>1, <1>2, <1>3
    <3>2. S[q] = s[k] /\ S[q + 1] = s[k + 1]
      BY <3>1, <1>4
    <3> HIDE DEF q
    <3> QED BY <2>1, <3>1, <3>2
  <2> QED BY <1>1, <2>2, <2>3, <2>4
<1>11. ASSUME NEW x \in Pairs(s), x \notin Pairs(part)
       PROVE  /\ x \in Pairs(S)
              /\ \A m \in 1..(l + 1) : x # <<S[i - 1 + m], S[i + m]>>
  <2>1. PICK q \in 1..(Len(S) - 1) : x = <<S[q], S[q + 1]>> /\ (q < i \/ q > i + l)
    BY <1>10, <1>11
  <2>2. x \in Pairs(S)
    BY <2>1 DEF Pairs
  <2>3. ASSUME NEW m \in 1..(l + 1), x = <<S[i - 1 + m], S[i + m]>>
        PROVE  FALSE
    <3>1. i - 1 + m \in 1..Len(S) /\ q \in 1..Len(S) /\ S[q] = S[i - 1 + m]
      BY <1>1, <1>2, <1>3, <2>1, <2>3
    <3>2. q = i - 1 + m
      BY <3>1, <1>7
    <3> QED BY <3>2, <2>1, <1>1
  <2> QED BY <2>2, <2>3
<1> QED BY <1>8, <1>9, <1>11 DEF l, part

\* The inner nodes of a corridor are those between its ends.
LEMMA InteriorOf ==
    ASSUME NEW T, NEW s \in Seq(T), NEW i \in 1..Len(s), NEW j \in (i + 1)..Len(s)
    PROVE  Interior(SubSeq(s, i, j)) = {s[k] : k \in (i + 1)..(j - 1)}
<1> DEFINE a == SubSeq(s, i, j)
<1>1. Len(s) \in Nat /\ i \in Nat /\ j \in Nat
  OBVIOUS
<1>2. Len(a) = j - i + 1 /\ \A k \in 1..(j - i + 1) : a[k] = s[i + k - 1]
  BY <1>1
<1> HIDE DEF a
<1>3. ASSUME NEW k \in 2..(Len(a) - 1)
      PROVE  a[k] \in {s[m] : m \in (i + 1)..(j - 1)}
  <2>1. i + k - 1 \in (i + 1)..(j - 1) /\ k \in 1..(j - i + 1)
    BY <1>1, <1>2
  <2> QED BY <2>1, <1>2
<1>4. ASSUME NEW m \in (i + 1)..(j - 1)
      PROVE  s[m] \in {a[k] : k \in 2..(Len(a) - 1)}
  <2> DEFINE k == m - i + 1
  <2>1. k \in 2..(Len(a) - 1) /\ k \in 1..(j - i + 1) /\ i + k - 1 = m
    BY <1>1, <1>2
  <2>2. a[k] = s[m]
    <3>1. a[k] = s[i + k - 1]
      BY <2>1, <1>2
    <3> QED BY <3>1, <2>1
  <2> HIDE DEF k
  <2> QED BY <2>1, <2>2
<1>5. Interior(a) = {s[k] : k \in (i + 1)..(j - 1)}
  BY <1>3, <1>4 DEF Interior
<1> QED BY <1>5 DEF a

\* The nodes a preview reuses and removes are in its corridor, those it makes are new.
LEMMA RouteNodesOK ==
    ASSUME IInv, NEW p \in preview, p.reused \subseteq Range(order),
           \A i, j \in DOMAIN p.plan :
             p.plan[i] = p.plan[j] /\ p.plan[i] # NoNode => i = j
    PROVE  /\ RouteNodes(p) \in Seq(NodeIds)
           /\ IsInjective(RouteNodes(p))
           /\ Range(RouteNodes(p)) = p.reused \cup Created(p)
           /\ \A n \in Created(p) : \E k \in DOMAIN p.snapshot.stops : n = <<version, k>>
<1> DEFINE stops == p.snapshot.stops
           l == Len(stops)
           r == RouteNodes(p)
<1>1. /\ p.snapshot \in Snapshots /\ DOMAIN p.plan = DOMAIN stops
      /\ p.reused = Range(p.plan) \ {NoNode}
  BY DEF IInv, DraftsOK
<1>2. PICK o \in Offers : stops = o.stops
  BY <1>1 DEF Snapshots
<1>3. stops \in Seq(Range(stops))
  BY <1>2, BoundsAssumption
<1>4. l \in Nat /\ DOMAIN stops = 1..l
  BY <1>3
<1> HIDE DEF stops, l
<1>5. r = [k \in 1..l |-> IF p.plan[k] = NoNode THEN <<version, k>> ELSE p.plan[k]]
  BY <1>1, <1>4 DEF RouteNodes
<1>6. ASSUME NEW k \in 1..l
      PROVE  \/ p.plan[k] = NoNode /\ r[k] = <<version, k>> /\ r[k] \notin p.reused
             \/ p.plan[k] # NoNode /\ r[k] = p.plan[k] /\ r[k] \in p.reused
  <2>1. CASE p.plan[k] = NoNode
    <3>1. r[k] = <<version, k>>
      BY <1>5, <2>1
    <3>2. r[k] \notin Range(order)
      BY <3>1, VersionType
    <3> QED BY <2>1, <3>1, <3>2
  <2>2. CASE p.plan[k] # NoNode
    BY <2>2, <1>1, <1>4, <1>5 DEF Range
  <2> QED BY <2>1, <2>2
<1>7. /\ DOMAIN r = 1..l
      /\ \A n \in Range(r) : \E k \in 1..l : n = r[k]
      /\ \A k \in 1..l : r[k] \in Range(r)
  BY <1>5 DEF Range
<1>8. ASSUME NEW k \in 1..l PROVE r[k] \in NodeIds
  <2>1. <<version, k>> \in NodeIds
    BY <1>4, VersionType DEF NodeIds
  <2>2. r[k] \in p.reused => r[k] \in NodeIds
    BY VersionType
  <2> QED BY <1>6, <2>1, <2>2
<1>9. r \in Seq(NodeIds)
  <2> HIDE DEF r
  <2>1. r = [k \in 1..l |-> r[k]]
    BY <1>5
  <2> QED BY <2>1, <1>4, <1>8
<1> HIDE DEF r
<1>10. IsInjective(r)
  <2> SUFFICES ASSUME NEW a \in 1..l, NEW b \in 1..l, r[a] = r[b] PROVE a = b
    BY <1>7 DEF IsInjective
  <2>1. CASE p.plan[a] = NoNode
    BY <2>1, <1>6
  <2>2. CASE p.plan[a] # NoNode
    BY <2>2, <1>1, <1>4, <1>6
  <2> QED BY <2>1, <2>2
<1>11. p.reused \subseteq Range(r)
  BY <1>1, <1>4, <1>6, <1>7 DEF Range
<1>12. Created(p) = Range(r) \ p.reused
  BY DEF Created, r
<1>13. ASSUME NEW n \in Created(p) PROVE \E k \in 1..l : n = <<version, k>>
  <2>1. PICK k \in 1..l : n = r[k]
    BY <1>7, <1>12
  <2>2. r[k] \notin p.reused
    BY <2>1, <1>12
  <2> QED BY <2>1, <2>2, <1>6
<1> QED BY <1>4, <1>9, <1>10, <1>11, <1>12, <1>13 DEF r, stops

\* The line an adoption makes.
AdoptedLine(p) ==
    LET i == Index(order, p.snapshot.from)
        j == Index(order, p.snapshot.to)
    IN /\ CorridorFacts(p.corridor, p.snapshot.from, p.snapshot.to)
       /\ RouteNodes(p) \in Seq(NodeIds)
       /\ SplicedOf(NewOrder(p), NodeIds, order, i, RouteNodes(p), j)
       /\ IsInjective(NewOrder(p))
       /\ Range(NewOrder(p)) = (Range(order) \ p.remove) \cup Created(p)
       /\ p.reused \cup p.remove = Interior(p.corridor.path)
       /\ p.reused \cap p.remove = {}
       /\ Interior(p.corridor.path)
            \subseteq Range(order) \ {p.snapshot.from, p.snapshot.to}
       /\ {p.snapshot.from, p.snapshot.to} \subseteq Range(order)
       /\ \A n \in Created(p) : \E k \in DOMAIN p.snapshot.stops : n = <<version, k>>

\* The line after adoption: the corridor's ends with the nodes of the route between.
LEMMA AdoptLine ==
    ASSUME IInv, NEW p \in preview, Adoption(p)
    PROVE  AdoptedLine(p)
<1> DEFINE from == p.snapshot.from
           to == p.snapshot.to
           c == p.corridor
           i == Index(order, from)
           j == Index(order, to)
           r == RouteNodes(p)
           S == NewOrder(p)
<1>1. /\ c = Corridor(from, to) /\ c # NoCorridor
      /\ p.reused \cap p.remove = {}
      /\ p.reused \cup p.remove = Interior(c.path)
      /\ \A a, b \in DOMAIN p.plan :
           p.plan[a] = p.plan[b] /\ p.plan[a] # NoNode => a = b
  BY DEF Adoption, CorridorStands, IInv, DraftsOK
<1>2. CorridorFacts(c, from, to)
  BY <1>1, CorridorShape DEF IInv
<1>3. /\ i \in 1..Len(order) /\ j \in (i + 1)..Len(order)
      /\ order[i] = from /\ order[j] = to
      /\ c.path = SubSeq(order, i, j)
  BY <1>2 DEF CorridorFacts, CorridorPath
<1> HIDE DEF i, j
<1>4. order \in Seq(NodeIds) /\ IsInjective(order) /\ DOMAIN order = 1..Len(order)
  BY LineType
<1>5. Interior(c.path) = {order[k] : k \in (i + 1)..(j - 1)}
  BY <1>3, <1>4, InteriorOf
<1>6. Len(order) \in Nat /\ i \in Nat /\ j \in Nat /\ i < j
  BY <1>3, <1>4
<1>7. /\ (i + 1)..(j - 1) \subseteq DOMAIN order
      /\ (1..i) \cup (j..Len(order)) = DOMAIN order \ ((i + 1)..(j - 1))
      /\ i \in DOMAIN order /\ j \in DOMAIN order
      /\ i \notin (i + 1)..(j - 1) /\ j \notin (i + 1)..(j - 1)
  BY <1>3, <1>4, <1>6
<1>8. /\ Interior(c.path) \subseteq Range(order)
      /\ from \in Range(order) \ Interior(c.path)
      /\ to \in Range(order) \ Interior(c.path)
      /\ {order[k] : k \in (1..i) \cup (j..Len(order))} = Range(order) \ Interior(c.path)
  <2> DEFINE inner == (i + 1)..(j - 1)
             outer == (1..i) \cup (j..Len(order))
  <2>1. /\ inner \subseteq DOMAIN order /\ outer = DOMAIN order \ inner
        /\ i \in DOMAIN order \ inner /\ j \in DOMAIN order \ inner
    BY <1>7
  <2> HIDE DEF inner, outer
  <2>2. Interior(c.path) = {order[k] : k \in inner}
    BY <1>5 DEF inner
  <2>3. \A a, b \in DOMAIN order : order[a] = order[b] => a = b
    BY <1>4 DEF IsInjective
  <2>4. \A k \in DOMAIN order \ inner : order[k] \notin Interior(c.path)
    BY <2>1, <2>2, <2>3
  <2>5. Interior(c.path) \subseteq Range(order)
    BY <2>1, <2>2 DEF Range
  <2>6. \A n \in Range(order) \ Interior(c.path) : \E k \in outer : n = order[k]
    BY <2>1, <2>2 DEF Range
  <2>7. \A k \in outer : order[k] \in Range(order) \ Interior(c.path)
    BY <2>1, <2>4 DEF Range
  <2>8. {order[k] : k \in outer} = Range(order) \ Interior(c.path)
    BY <2>6, <2>7
  <2> QED BY <1>3, <2>1, <2>4, <2>5, <2>7, <2>8 DEF outer, Range
<1>9. /\ r \in Seq(NodeIds) /\ IsInjective(r)
      /\ Range(r) = p.reused \cup Created(p)
      /\ \A n \in Created(p) : \E k \in DOMAIN p.snapshot.stops : n = <<version, k>>
  BY <1>1, <1>8, RouteNodesOK
<1>10. \A n \in Created(p) : n \notin Range(order)
  BY <1>9, VersionType
<1> HIDE DEF r
<1>11. Apart(order, i, r, j)
  <2>1. \A k \in (1..i) \cup (j..Len(order)) :
           order[k] \in Range(order) /\ order[k] \notin Interior(c.path)
    BY <1>8
  <2> QED BY <2>1, <1>1, <1>9, <1>10 DEF Apart
<1>12. i \in 0..Len(order) /\ j \in (i + 1)..(Len(order) + 1)
  BY <1>3, <1>6
<1>13. S = Spliced(order, i, r, j)
  BY DEF NewOrder, Spliced, i, j, r
<1>14. SplicedLineOf(S, NodeIds, order, i, r, j)
  BY <1>4, <1>9, <1>11, <1>12, <1>13, SplicedLine
<1>15. SplicedOf(S, NodeIds, order, i, r, j)
  BY <1>4, <1>9, <1>12, <1>13, SplicedElements
<1> HIDE DEF S
<1>16. Range(S) = (Range(order) \ Interior(c.path)) \cup (p.reused \cup Created(p))
  BY <1>8, <1>9, <1>14 DEF SplicedLineOf
<1>17. Range(S) = (Range(order) \ p.remove) \cup Created(p)
  BY <1>1, <1>8, <1>16
<1>18. IsInjective(S)
  BY <1>14 DEF SplicedLineOf
<1> QED BY <1>1, <1>2, <1>8, <1>9, <1>15, <1>17, <1>18 DEF AdoptedLine, i, j, r, S

\* A row of a node after adoption.
LEMMA AdoptNode ==
    ASSUME IInv, NEW p \in preview, AdoptedLine(p),
           NEW n \in Range(NewOrder(p))
    PROVE  /\ NewNode(p, n) \in NodeRows
           /\ NewNode(p, n).route \in DOMAIN route \cup {0, version}
<1>1. /\ n \in Range(order) \/ n \in Created(p)
      /\ p.reused \subseteq Range(order)
      /\ p.snapshot.to \in Range(order)
      /\ \A m \in Created(p) : \E k \in DOMAIN p.snapshot.stops : m = <<version, k>>
  BY DEF AdoptedLine
<1>2. p.snapshot \in Snapshots /\ p.adjust \subseteq {p.snapshot.to}
  BY DEF IInv, DraftsOK
<1>3. /\ \A m \in Range(order) : /\ node[m] \in NodeRows
                                 /\ node[m].route \in DOMAIN route \cup {0}
      /\ DOMAIN node = Range(order)
      /\ version \in Nat
  BY LineType, VersionType
<1>4. CASE n \in p.reused
  <2>1. NewNode(p, n) = [node[n] EXCEPT !.route = version, !.op = version]
    BY <1>4 DEF NewNode
  <2>2. node[n] \in NodeRows
    BY <1>1, <1>3, <1>4
  <2> QED BY <2>1, <2>2, <1>3 DEF NodeRows
<1>5. CASE n \notin p.reused /\ n \in p.adjust
  <2>1. NewNode(p, n) = [node[n] EXCEPT !.dwell = 1]
    BY <1>5 DEF NewNode
  <2>2. node[n] \in NodeRows /\ node[n].route \in DOMAIN route \cup {0}
    BY <1>1, <1>2, <1>3, <1>5
  <2> QED BY <2>1, <2>2 DEF NodeRows
<1>6. CASE n \notin p.reused /\ n \notin p.adjust /\ n \in DOMAIN node
  BY <1>3, <1>6 DEF NewNode
<1>7. CASE n \notin p.reused /\ n \notin p.adjust /\ n \notin DOMAIN node
  <2>1. PICK k \in DOMAIN p.snapshot.stops : n = <<version, k>>
    BY <1>1, <1>3, <1>7
  <2>2. NewNode(p, n) = GeneratedNode(p.snapshot.stops[k], version)
    BY <1>7, <2>1 DEF NewNode
  <2>3. p.snapshot.stops[k] \in Places
    <3>1. PICK o \in Offers : p.snapshot.stops = o.stops
      BY <1>2 DEF Snapshots
    <3>2. o.stops[k] \in Range(o.stops)
      BY <2>1, <3>1 DEF Range
    <3> QED BY <3>1, <3>2 DEF Places
  <2> QED BY <2>2, <2>3, <1>3 DEF GeneratedNode, NodeRows
<1> QED BY <1>4, <1>5, <1>6, <1>7

\* A row that joins two nodes is an edge's, archived or not.
LEMMA EdgeRow ==
    ASSUME NEW id \in NodeIds, NEW x \in NodeIds, NEW y \in NodeIds, NEW v \in Nat
    PROVE  /\ Edge(id, x, y, v) \in EdgeRows
           /\ Edge(id, x, y, v).id = id
           /\ PairOf(Edge(id, x, y, v)) = <<x, y>>
           /\ Edge(id, x, y, v).route = v
           /\ Archived(Edge(id, x, y, v)) = Edge(id, x, y, v)
<1> DEFINE e == Edge(id, x, y, v)
<1>1. e = [id |-> id, from |-> x, to |-> y, route |-> v,
           actual |-> FALSE, flight |-> FALSE]
  BY DEF Edge
<1> HIDE DEF e
<1>2. /\ e \in EdgeRows /\ e.id = id /\ e.from = x /\ e.to = y /\ e.route = v
      /\ e.flight = FALSE
  BY <1>1 DEF EdgeRows
<1>3. Archived(e) = e
  BY <1>2 DEF Archived, EdgeRows
<1> QED BY <1>2, <1>3 DEF e, PairOf

\* The edges an adoption makes join the new line, and are all new.
LEMMA AdoptNewEdges ==
    ASSUME IInv, NEW p \in preview, AdoptedLine(p)
    PROVE  /\ NewEdges(p) \subseteq EdgeRows
           /\ \A e \in NewEdges(p) : PairOf(e) \in Pairs(NewOrder(p))
           /\ \A e, f \in NewEdges(p) : e.id = f.id \/ PairOf(e) = PairOf(f) => e = f
           /\ \A e \in NewEdges(p) :
                e.id[1] = version /\ Archived(e) = e /\ e.route = version
           /\ \A f \in edge : PairOf(f) \notin Pairs(p.corridor.path) =>
                /\ PairOf(f) \in Pairs(NewOrder(p))
                /\ \A e \in NewEdges(p) : PairOf(e) # PairOf(f)
<1> DEFINE i == Index(order, p.snapshot.from)
           j == Index(order, p.snapshot.to)
           r == RouteNodes(p)
           S == NewOrder(p)
           path == NewPath(p)
           l == Len(r)
           Row(m) == Edge(<<version, m>>, path[m], path[m + 1], version)
<1>1. /\ i \in 1..Len(order) /\ j \in (i + 1)..Len(order)
      /\ order[i] = p.snapshot.from /\ order[j] = p.snapshot.to
      /\ p.corridor.path = SubSeq(order, i, j)
      /\ r \in Seq(NodeIds)
      /\ SplicedOf(S, NodeIds, order, i, r, j)
      /\ IsInjective(S)
  BY DEF AdoptedLine, CorridorFacts, CorridorPath
<1>2. order \in Seq(NodeIds) /\ version \in Nat
  BY LineType, VersionType
<1>3. path = <<order[i]>> \o r \o <<order[j]>>
  BY <1>1 DEF NewPath
<1> HIDE DEF i, j, r, S, path
<1>4. /\ Len(path) = l + 2
      /\ \A m \in 1..(l + 2) : path[m] = S[i - 1 + m]
  <2>1. /\ SplicedOf(S, NodeIds, order, i, r, j)
        /\ i \in 1..Len(order) /\ j \in (i + 1)..Len(order)
        /\ r \in Seq(NodeIds) /\ order \in Seq(NodeIds)
    BY <1>1, <1>2
  <2>2. LET back == <<order[i]>> \o r \o <<order[j]>> IN
        /\ Len(back) = Len(r) + 2
        /\ \A m \in 1..(Len(r) + 2) : back[m] = S[i - 1 + m]
    BY <2>1, SplicedPath
  <2> QED BY <2>2, <1>3
<1>5. /\ \A m \in 1..(l + 1) : <<S[i - 1 + m], S[i + m]>> \in Pairs(S)
      /\ \A m, q \in 1..(l + 2) : S[i - 1 + m] = S[i - 1 + q] => m = q
      /\ \A x \in Pairs(order) \ Pairs(SubSeq(order, i, j)) :
           /\ x \in Pairs(S)
           /\ \A m \in 1..(l + 1) : x # <<S[i - 1 + m], S[i + m]>>
  BY <1>1, <1>2, SplicedPairs
<1>6. l \in Nat /\ i \in Nat
  BY <1>1, <1>2
<1> HIDE DEF l
<1>7. ASSUME NEW m \in 1..(l + 1)
      PROVE  /\ path[m] = S[i - 1 + m] /\ path[m + 1] = S[i + m]
             /\ m \in 1..(l + 2) /\ m \in Nat
  <2>1. m \in 1..(l + 2) /\ m + 1 \in 1..(l + 2) /\ i - 1 + (m + 1) = i + m
    BY <1>6
  <2> QED BY <2>1, <1>4
<1>9. S \in Seq(NodeIds)
  BY <1>1 DEF SplicedOf
<1>10. ASSUME NEW m \in 1..(l + 1)
       PROVE  /\ Row(m) \in EdgeRows /\ Row(m).id = <<version, m>>
              /\ PairOf(Row(m)) = <<S[i - 1 + m], S[i + m]>>
              /\ Row(m).route = version /\ Archived(Row(m)) = Row(m)
  <2>1. <<S[i - 1 + m], S[i + m]>> \in Pairs(S)
    BY <1>5
  <2>2. S[i - 1 + m] \in NodeIds /\ S[i + m] \in NodeIds
    BY <2>1, <1>9 DEF Pairs
  <2>3. path[m] \in NodeIds /\ path[m + 1] \in NodeIds /\ m \in Nat
    BY <2>2, <1>7
  <2>4. <<path[m], path[m + 1]>> = <<S[i - 1 + m], S[i + m]>>
    BY <1>7
  <2>5. <<version, m>> \in NodeIds
    BY <2>3, <1>2 DEF NodeIds
  <2> DEFINE x == path[m]
             y == path[m + 1]
             id == <<version, m>>
  <2>6. x \in NodeIds /\ y \in NodeIds /\ id \in NodeIds /\ version \in Nat
    BY <2>3, <2>5, <1>2
  <2>7. Row(m) = Edge(id, x, y, version) /\ <<x, y>> = <<S[i - 1 + m], S[i + m]>>
    BY <2>4
  <2> HIDE DEF x, y, id, Row
  <2>8. /\ Row(m) \in EdgeRows /\ Row(m).id = id
        /\ PairOf(Row(m)) = <<x, y>>
        /\ Row(m).route = version /\ Archived(Row(m)) = Row(m)
    BY <2>6, <2>7, EdgeRow
  <2> QED BY <2>7, <2>8 DEF id
<1>11. NewEdges(p) = {Row(m) : m \in 1..(l + 1)}
  <2>1. Len(path) - 1 = l + 1
    BY <1>4, <1>6
  <2> QED BY <2>1 DEF NewEdges, path
<1> HIDE DEF Row
<1>12. \A e, f \in NewEdges(p) : e.id = f.id \/ PairOf(e) = PairOf(f) => e = f
  <2> SUFFICES ASSUME NEW m \in 1..(l + 1), NEW q \in 1..(l + 1),
                      Row(m).id = Row(q).id \/ PairOf(Row(m)) = PairOf(Row(q))
               PROVE  m = q
    BY <1>11
  <2>1. CASE Row(m).id = Row(q).id
    BY <2>1, <1>10
  <2>2. CASE PairOf(Row(m)) = PairOf(Row(q))
    <3>1. S[i - 1 + m] = S[i - 1 + q]
      BY <2>2, <1>10
    <3> QED BY <3>1, <1>5, <1>7
  <2> QED BY <2>1, <2>2
<1>13. ASSUME NEW e \in NewEdges(p)
       PROVE  /\ e \in EdgeRows /\ PairOf(e) \in Pairs(S)
              /\ e.id[1] = version /\ Archived(e) = e /\ e.route = version
  <2>1. PICK m \in 1..(l + 1) : e = Row(m)
    BY <1>11
  <2> QED BY <2>1, <1>5, <1>10
<1>14. ASSUME NEW f \in edge, PairOf(f) \notin Pairs(p.corridor.path)
       PROVE  /\ PairOf(f) \in Pairs(S)
              /\ \A e \in NewEdges(p) : PairOf(e) # PairOf(f)
  <2>1. PairOf(f) \in Pairs(order)
    BY DEF IInv, PlanOK, EdgesOK
  <2>2. PairOf(f) \in Pairs(order) \ Pairs(SubSeq(order, i, j))
    BY <2>1, <1>1, <1>14
  <2>3. ASSUME NEW e \in NewEdges(p), PairOf(e) = PairOf(f)
        PROVE  FALSE
    <3>1. PICK m \in 1..(l + 1) : e = Row(m)
      BY <1>11
    <3>2. PairOf(f) = <<S[i - 1 + m], S[i + m]>>
      BY <2>3, <3>1, <1>10
    <3> QED BY <2>2, <3>2, <1>5
  <2> QED BY <2>2, <2>3, <1>5
<1> QED BY <1>12, <1>13, <1>14 DEF S

\* The edges of the corridor, known by their ids.
LEMMA OldEdgesAre ==
    ASSUME IInv, NEW p \in preview, AdoptedLine(p)
    PROVE  OldEdges(p) = {e \in edge : PairOf(e) \in Pairs(p.corridor.path)}
<1>1. p.corridor.edges = Ids({e \in edge : PairOf(e) \in Pairs(p.corridor.path)})
  BY DEF AdoptedLine, CorridorFacts, CorridorPath
<1>2. \A e, f \in edge : e.id = f.id => e = f
  BY DEF IInv, PlanOK, EdgesOK
<1> QED BY <1>1, <1>2 DEF OldEdges, Ids

\* The edges after adoption are sound.
LEMMA AdoptEdges ==
    ASSUME IInv, NEW p \in preview, AdoptedLine(p), Adopt(p)
    PROVE  /\ EdgesOK(order', edge', history')
           /\ \A e \in edge' \cup history' : e.id[1] <= version
<1> DEFINE kept == edge \ OldEdges(p)
           new == NewEdges(p)
           past == ArchiveOf(edge, history, kept)
           S == NewOrder(p)
<1>1. /\ order' = S /\ edge' = kept \cup new
      /\ history' = history \cup {Archived(e) : e \in OldEdges(p)}
  BY DEF Adopt
<1>2. OldEdges(p) \subseteq edge
  BY DEF OldEdges
<1>3. edge \ kept = OldEdges(p)
  BY <1>2
<1>4. history' = past
  BY <1>1, <1>3 DEF ArchiveOf
<1>5. /\ new \in SUBSET EdgeRows
      /\ \A e \in new : PairOf(e) \in Pairs(S)
      /\ \A e, f \in new : e.id = f.id \/ PairOf(e) = PairOf(f) => e = f
      /\ \A e \in new : e.id[1] = version
      /\ \A f \in edge : PairOf(f) \notin Pairs(p.corridor.path) =>
           PairOf(f) \in Pairs(S) /\ \A e \in new : PairOf(e) # PairOf(f)
  BY AdoptNewEdges
<1>6. \A f \in kept : PairOf(f) \notin Pairs(p.corridor.path)
  BY OldEdgesAre
<1>7. kept \in SUBSET edge /\ EdgesOK(order, edge, history)
  BY DEF IInv, PlanOK
<1> HIDE DEF kept, new, past, S
<1>8. /\ \A f \in kept : PairOf(f) \in Pairs(S)
      /\ \A e \in new, f \in kept : PairOf(e) # PairOf(f)
  BY <1>5, <1>6, <1>7
<1>9. EdgesOK(S, kept, past) /\ NoNewIds(kept \cup past, edge \cup history)
  BY <1>7, <1>8, EdgesArchived DEF past
<1>10. \A f \in kept \cup past : f.id[1] \in Nat /\ f.id[1] < version
  BY <1>9, VersionType DEF NoNewIds
<1>11. \A e \in new, f \in kept \cup past : e.id # f.id
  BY <1>5, <1>10, VersionType
<1>12. EdgesOK(S, kept \cup new, past)
  BY <1>5, <1>8, <1>9, <1>11, EdgesAdded
<1>13. \A e \in edge' \cup history' : e.id[1] <= version
  BY <1>1, <1>4, <1>5, <1>10, VersionType
<1> QED BY <1>1, <1>4, <1>12, <1>13

\* The nodes after adoption are sound.
LEMMA AdoptNodes ==
    ASSUME IInv, NEW p \in preview, AdoptedLine(p), Adopt(p)
    PROVE  /\ LineOK(order', node')
           /\ \A n \in Range(order') : node'[n].route \in DOMAIN route \cup {0, version}
           /\ \A n \in Range(order') : n[1] <= version
<1> DEFINE S == NewOrder(p)
<1>1. /\ order' = S
      /\ node' = [n \in (DOMAIN node \ p.remove) \cup Created(p) |-> NewNode(p, n)]
  BY DEF Adopt
<1>2. /\ Range(S) = (Range(order) \ p.remove) \cup Created(p)
      /\ IsInjective(S)
      /\ \A n \in Created(p) : \E k \in DOMAIN p.snapshot.stops : n = <<version, k>>
  BY DEF AdoptedLine
<1>3. S \in Seq(NodeIds)
  BY DEF AdoptedLine, SplicedOf
<1>4. \A n \in Range(S) : /\ NewNode(p, n) \in NodeRows
                          /\ NewNode(p, n).route \in DOMAIN route \cup {0, version}
  BY AdoptNode
<1> HIDE DEF S
<1>5. node' = [n \in Range(S) |-> NewNode(p, n)]
  BY <1>1, <1>2, VersionType
<1>6. node' \in [Range(S) -> NodeRows]
  BY <1>4, <1>5
<1>7. \A n \in Range(S) : node'[n].route \in DOMAIN route \cup {0, version}
  BY <1>4, <1>5
<1>8. \A n \in Range(S) : n[1] <= version
  BY <1>2, VersionType
<1> QED BY <1>1, <1>2, <1>3, <1>6, <1>7, <1>8 DEF LineOK

\* The routes after adoption, and that still at most one is ACTIVE between two places.
LEMMA AdoptRoutes ==
    ASSUME IInv, NEW p \in preview, AdoptedLine(p), Adopt(p)
    PROVE  /\ DOMAIN route' = DOMAIN route \cup {version}
           /\ version \notin DOMAIN route /\ 0 \notin DOMAIN route
           /\ \A r \in DOMAIN route' : route'[r] \in RouteRow
           /\ \A r \in DOMAIN route :
                route'[r].from = route[r].from /\ route'[r].to = route[r].to
           /\ route'[version].from = p.snapshot.from
           /\ route'[version].to = p.snapshot.to
           /\ p.corridor.source \in ActiveRoutes \cup {0}
           /\ ActiveRoutes' = (ActiveRoutes \ {p.corridor.source}) \cup {version}
<1> DEFINE src == p.corridor.source
           new == [from |-> p.snapshot.from, to |-> p.snapshot.to,
                   status |-> "ACTIVE", snapshot |-> p.snapshot]
<1>1. route' = With(Superseded(p), version, new)
  BY DEF Adopt
<1>2. /\ DOMAIN route \subseteq 1..(version - 1) /\ version \in Nat
      /\ \A r \in DOMAIN route : route[r] \in RouteRow
  BY VersionType DEF IInv, RoutesOK
<1>3. version \notin DOMAIN route /\ 0 \notin DOMAIN route
  BY <1>2
<1>4. src \in ActiveRoutes \cup {0}
  BY DEF AdoptedLine, CorridorFacts
<1>5. new \in RouteRow /\ new.status = "ACTIVE"
  <2>1. p.snapshot \in Snapshots
    BY DEF IInv, DraftsOK
  <2>2. p.snapshot.from \in NodeIds /\ p.snapshot.to \in NodeIds
    BY <2>1 DEF Snapshots
  <2> QED BY <2>1, <2>2 DEF RouteRow
<1>6. new.from = p.snapshot.from /\ new.to = p.snapshot.to
  OBVIOUS
<1> HIDE DEF src, new
<1>7. /\ DOMAIN route' = DOMAIN route \cup {version}
      /\ route'[version] = new
      /\ \A r \in DOMAIN route :
           route'[r] = IF r = src THEN [route[r] EXCEPT !.status = "REPLACED"]
                       ELSE route[r]
  BY <1>1, <1>3 DEF With, Superseded, src
<1>8. ASSUME NEW r \in DOMAIN route
      PROVE  /\ route'[r] \in RouteRow
             /\ route'[r].from = route[r].from /\ route'[r].to = route[r].to
             /\ route'[r].status = IF r = src THEN "REPLACED" ELSE route[r].status
  <2>1. CASE r = src
    <3>1. route'[r] = [route[r] EXCEPT !.status = "REPLACED"]
      BY <1>7, <2>1
    <3>2. route[r] \in RouteRow
      BY <1>2
    <3> QED BY <2>1, <3>1, <3>2 DEF RouteRow
  <2>2. CASE r # src
    BY <1>2, <1>7, <2>2
  <2> QED BY <2>1, <2>2
<1>9. ActiveRoutes' = (ActiveRoutes \ {src}) \cup {version}
  BY <1>3, <1>5, <1>7, <1>8 DEF ActiveRoutes
<1>10. \A r \in DOMAIN route' : route'[r] \in RouteRow
  BY <1>5, <1>7, <1>8
<1> QED BY <1>3, <1>4, <1>6, <1>7, <1>8, <1>9, <1>10 DEF src

\* Undone at once, an adoption gives back the nodes,
LEMMA AdoptedNodesReturn ==
    ASSUME IInv, NEW p \in preview, AdoptedLine(p), Adopt(p),
           NEW d, d = Delta(p)
    PROVE  [n \in Range(order) |-> RestoredNode(d, n)'] = node
<1>1. /\ node' = [n \in (DOMAIN node \ p.remove) \cup Created(p) |-> NewNode(p, n)]
      /\ \A n \in p.adjust : node[n].dwell = 2
  BY DEF Adopt, Adoption, AdjustmentsStand
<1>2. /\ DOMAIN d.generated = Interior(p.corridor.path)
      /\ \A n \in DOMAIN d.generated : d.generated[n] = node[n]
      /\ d.adjusted = p.adjust
  BY DEF Delta
<1>3. /\ node \in [Range(order) -> NodeRows] /\ DOMAIN node = Range(order)
      /\ \A n \in Range(order) : node[n] \in NodeRows
  BY LineType, VersionType
<1>4. p.reused \cup p.remove = Interior(p.corridor.path)
  BY DEF AdoptedLine
<1>5. ASSUME NEW n \in Range(order)
      PROVE  RestoredNode(d, n)' = node[n]
  <2>1. CASE n \in DOMAIN d.generated
    BY <2>1, <1>2 DEF RestoredNode
  <2>2. CASE n \notin DOMAIN d.generated
    <3>1. n \notin p.reused /\ n \notin p.remove
      BY <2>2, <1>2, <1>4
    <3>2. node'[n] = NewNode(p, n)
      BY <3>1, <1>1, <1>3
    <3>3. CASE n \in p.adjust
      <4>1. NewNode(p, n) = [node[n] EXCEPT !.dwell = 1]
        BY <3>1, <3>3 DEF NewNode
      <4>2. RestoredNode(d, n)' = [node'[n] EXCEPT !.dwell = 2]
        BY <2>2, <3>3, <1>2 DEF RestoredNode
      <4>3. node[n] \in NodeRows /\ node[n].dwell = 2
        BY <3>3, <1>1, <1>3
      <4> QED BY <3>2, <4>1, <4>2, <4>3 DEF NodeRows
    <3>4. CASE n \notin p.adjust
      <4>1. NewNode(p, n) = node[n]
        BY <3>1, <3>4, <1>3 DEF NewNode
      <4>2. RestoredNode(d, n)' = node'[n]
        BY <2>2, <3>4, <1>2 DEF RestoredNode
      <4> QED BY <3>2, <4>1, <4>2
    <3> QED BY <3>3, <3>4
  <2> QED BY <2>1, <2>2
<1> QED BY <1>3, <1>5

\* the edges and their history,
LEMMA AdoptedEdgesReturn ==
    ASSUME IInv, NEW p \in preview, AdoptedLine(p), Adopt(p),
           NEW d, d = Delta(p)
    PROVE  /\ {Archived(e) : e \in EdgesBack(d)'} = {Archived(e) : e \in edge}
           /\ history' \ Histories(d)' = history
<1> DEFINE old == OldEdges(p)
           gone == {Archived(e) : e \in old}
           new == NewEdges(p)
<1>1. edge' = (edge \ old) \cup new /\ history' = history \cup gone
  BY DEF Adopt
<1>2. d.edges = Ids(new) /\ d.archived = p.corridor.edges
  BY DEF Delta
<1>3. old \subseteq edge /\ \A e \in edge : e \in old <=> e.id \in d.archived
  BY <1>2 DEF OldEdges
<1>4. \A e \in new : e.id[1] = version
  BY AdoptNewEdges
<1>5. edge \subseteq EdgeRows /\ \A e \in edge, f \in history : e.id # f.id
  BY DEF IInv, PlanOK, EdgesOK
<1>6. d.archived \subseteq Ids(edge)
  <2>1. p.corridor.edges = Ids({e \in edge : PairOf(e) \in Pairs(p.corridor.path)})
    BY DEF AdoptedLine, CorridorFacts, CorridorPath
  <2> QED BY <2>1, <1>2 DEF Ids
<1>7. \A g \in gone : \E e \in old : g = Archived(e) /\ g.id = e.id /\ Archived(g) = Archived(e)
  BY <1>3, <1>5, ArchivedRow
<1>8. \A e \in old : Archived(e) \in gone
  OBVIOUS
<1> HIDE DEF old, gone, new
<1>9. {e \in edge' : e.id \notin d.edges} = edge \ old
  <2>1. \A e \in new : e.id \in d.edges
    BY <1>2 DEF Ids
  <2>2. \A e \in edge : e.id \notin d.edges
    BY <1>2, <1>4, VersionType DEF Ids
  <2> QED BY <2>1, <2>2, <1>1
<1>10. {e \in history' : e.id \in d.archived} = gone
  <2>1. \A e \in history : e.id \notin d.archived
    BY <1>5, <1>6 DEF Ids
  <2>2. \A g \in gone : g.id \in d.archived
    BY <1>3, <1>7
  <2> QED BY <2>1, <2>2, <1>1
<1>11. Histories(d)' = gone
  BY <1>10 DEF Histories
<1>12. EdgesBack(d)' = (edge \ old) \cup gone
  BY <1>9, <1>11 DEF EdgesBack
<1>13. history' \ Histories(d)' = history
  <2>1. \A g \in gone : g \notin history
    BY <1>3, <1>5, <1>7
  <2> QED BY <2>1, <1>1, <1>11
<1>14. \A e \in EdgesBack(d)' : \E f \in edge : Archived(e) = Archived(f)
  BY <1>3, <1>7, <1>12
<1>15. \A f \in edge : \E e \in EdgesBack(d)' : Archived(e) = Archived(f)
  <2> SUFFICES ASSUME NEW f \in edge
               PROVE  \E e \in EdgesBack(d)' : Archived(e) = Archived(f)
    OBVIOUS
  <2>1. CASE f \in old
    <3>1. Archived(f) \in EdgesBack(d)'
      BY <2>1, <1>8, <1>12
    <3>2. Archived(Archived(f)) = Archived(f)
      BY <1>5, ArchivedRow
    <3> QED BY <3>1, <3>2
  <2>2. CASE f \notin old
    BY <2>2, <1>12
  <2> QED BY <2>1, <2>2
<1> QED BY <1>13, <1>14, <1>15

\* the routes: undone at once, all of the plan.
LEMMA AdoptedReturns ==
    ASSUME IInv, NEW p \in preview, AdoptedLine(p), Adopt(p),
           NEW t, t = version, NEW d, d = Delta(p), NEW b, b = Plan
    PROVE  Returns(t, d, b)'
<1>1. /\ d.order = order /\ d.previous = p.corridor.source
  BY DEF Delta
<1>2. /\ b.order = order /\ b.node = node /\ b.history = history
      /\ b.edge = {Archived(e) : e \in edge} /\ b.active = ActiveRoutes
  BY DEF Plan
<1>3. [n \in Range(d.order) |-> RestoredNode(d, n)'] = b.node
  BY <1>1, <1>2, AdoptedNodesReturn
<1>4. /\ {Archived(e) : e \in EdgesBack(d)'} = b.edge
      /\ history' \ Histories(d)' = b.history
  BY <1>2, AdoptedEdgesReturn
<1>5. /\ DOMAIN route' = DOMAIN route \cup {t}
      /\ t \notin DOMAIN route /\ 0 \notin DOMAIN route
      /\ \A r \in DOMAIN route :
           route'[r].from = route[r].from /\ route'[r].to = route[r].to
      /\ route'[t].from = p.snapshot.from
      /\ route'[t].to = p.snapshot.to
      /\ d.previous \in ActiveRoutes \cup {0}
      /\ ActiveRoutes' = (ActiveRoutes \ {d.previous}) \cup {t}
  BY <1>1, AdoptRoutes
<1>6. ActiveRoutes \subseteq DOMAIN route
  BY DEF ActiveRoutes
<1>7. d.previous \in (DOMAIN route' \ {t}) \cup {0}
  BY <1>5, <1>6
<1>8. ActiveBack(t, d)' = b.active
  BY <1>2, <1>5, <1>6 DEF ActiveBack
<1>9. \A r, q \in b.active :
         route'[r].from = route'[q].from /\ route'[r].to = route'[q].to => r = q
  BY <1>2, <1>5, <1>6 DEF IInv, OneActiveRoute
<1>10. \A r \in DOMAIN route' : {route'[r].from, route'[r].to} \subseteq Range(b.order)
  <2>1. {p.snapshot.from, p.snapshot.to} \subseteq Range(order)
    BY DEF AdoptedLine
  <2> QED BY <2>1, <1>2, <1>5, LineType
<1> QED BY <1>1, <1>2, <1>3, <1>4, <1>7, <1>8, <1>9, <1>10 DEF Returns

\* The plan an adoption starts from is one.
LEMMA PlanIsOne ==
    ASSUME IInv, NEW b, b = Plan
    PROVE  /\ IsPlan(b)
           /\ LineOK(b.order, b.node)
           /\ EdgesOK(b.order, b.edge, b.history)
           /\ Older(b.order, b.edge, b.history, version)
           /\ \A n \in Range(b.order) : b.node[n].route \in DOMAIN route \cup {0}
<1> DEFINE es == {Archived(e) : e \in edge}
<1>1. /\ b.order = order /\ b.node = node /\ b.history = history /\ b.edge = es
  BY DEF Plan
<1>2. EdgesOK(order, edge, history)
  BY DEF IInv, PlanOK
<1>3. \A g \in es : \E e \in edge : /\ g = Archived(e) /\ g \in EdgeRows
                                    /\ g.id = e.id /\ PairOf(g) = PairOf(e)
  BY <1>2, ArchivedRow DEF EdgesOK
<1> HIDE DEF es
<1>4. EdgesOK(order, es, history)
  <2>1. es \subseteq EdgeRows /\ \A g \in es : PairOf(g) \in Pairs(order)
    BY <1>2, <1>3 DEF EdgesOK
  <2>2. \A g, h \in es : g.id = h.id \/ PairOf(g) = PairOf(h) => g = h
    BY <1>2, <1>3 DEF EdgesOK
  <2>3. \A g \in es, h \in history : g.id # h.id
    BY <1>2, <1>3 DEF EdgesOK
  <2> QED BY <1>2, <2>1, <2>2, <2>3 DEF EdgesOK
<1>5. Older(order, es, history, version)
  BY <1>3, VersionType DEF Older
<1>6. IsPlan(b)
  BY DEF Plan, IsPlan
<1> QED BY <1>1, <1>4, <1>5, <1>6, LineType DEF LineOK

\* Adoption keeps the invariant.
LEMMA AdoptKeeps ==
    ASSUME IInv, NEW p \in preview, Adopt(p)
    PROVE  IInv'
<1>1. AdoptedLine(p)
  BY AdoptLine DEF Adopt
<1>2. /\ version \in Nat /\ MaxVersion \in Nat /\ version' = version + 1
      /\ version < MaxVersion /\ version \in 1..MaxVersion
  BY VersionType DEF Adopt, Advance, IInv, PlanOK
<1>3. /\ DOMAIN route' = DOMAIN route \cup {version}
      /\ version \notin DOMAIN route
      /\ \A r \in DOMAIN route' : route'[r] \in RouteRow
      /\ \A r \in DOMAIN route :
           route'[r].from = route[r].from /\ route'[r].to = route[r].to
      /\ route'[version].from = p.snapshot.from
      /\ route'[version].to = p.snapshot.to
      /\ ActiveRoutes' = (ActiveRoutes \ {p.corridor.source}) \cup {version}
  BY <1>1, AdoptRoutes
<1>4. /\ receipt' = With(receipt, version, [type |-> "ROUTE_ADOPT", delta |-> Delta(p)])
      /\ planBefore' = With(planBefore, version, Plan)
      /\ DraftsWithout(p.remove) /\ order' = NewOrder(p)
  BY DEF Adopt
<1>5. /\ LineOK(order', node')
      /\ \A n \in Range(order') : node'[n].route \in DOMAIN route \cup {0, version}
      /\ \A n \in Range(order') : n[1] <= version
  BY <1>1, AdoptNodes
<1>6. EdgesOK(order', edge', history') /\ \A e \in edge' \cup history' : e.id[1] <= version
  BY <1>1, AdoptEdges
<1>7. PlanOK'
  <2>1. \A n \in Range(order') : n[1] \in Nat
    BY <1>5 DEF LineOK, Range, NodeIds
  <2>2. \A e \in edge' \cup history' : e.id[1] \in Nat
    BY <1>6 DEF EdgesOK, EdgeRows, NodeIds
  <2>3. Older(order', edge', history', version')
    BY <1>2, <1>5, <1>6, <2>1, <2>2 DEF Older
  <2> QED BY <1>2, <1>5, <1>6, <2>3 DEF PlanOK
<1>8. RoutesOK'
  <2>1. route' \in [DOMAIN route' -> RouteRow]
    <3>1. route' = [r \in DOMAIN route' |-> route'[r]]
      BY DEF Adopt, With
    <3> QED BY <1>3, <3>1
  <2>2. DOMAIN receipt' = DOMAIN receipt \cup {version}
    BY <1>4 DEF With
  <2>3. /\ DOMAIN route' \subseteq 1..(version' - 1)
        /\ DOMAIN receipt' \subseteq 1..(version' - 1)
    BY <1>2, <1>3, <2>2 DEF IInv, RoutesOK
  <2>4. \A n \in p.remove : \A r \in DOMAIN route : n \notin {route[r].from, route[r].to}
    BY DEF Adopt, Adoption, ContentReplaceable, Referenced
  <2>5. /\ Range(order') = (Range(order) \ p.remove) \cup Created(p)
        /\ {p.snapshot.from, p.snapshot.to} \subseteq Range(order) \ p.remove
    BY <1>1, <1>4 DEF AdoptedLine
  <2>6. \A r \in DOMAIN route' : {route'[r].from, route'[r].to} \subseteq Range(order')
    BY <1>3, <2>4, <2>5, LineType
  <2>7. \A n \in Range(order') : node'[n].route \in DOMAIN route' \cup {0}
    BY <1>3, <1>5
  <2> QED BY <2>1, <2>3, <2>6, <2>7 DEF RoutesOK
<1>9. DraftsOK'
  BY <1>4, DraftsKept DEF IInv
<1>10. /\ DOMAIN planBefore' = DOMAIN planBefore \cup {version}
       /\ planBefore'[version] = Plan
       /\ version \notin DOMAIN planBefore
       /\ \A t \in DOMAIN planBefore : planBefore'[t] = planBefore[t]
  <2>1. version \notin DOMAIN planBefore
    BY <1>3 DEF IInv, PastOK
  <2> QED BY <1>4, <2>1 DEF With
<1>11. PastOK'
  <2>1. ASSUME NEW t \in DOMAIN planBefore', NEW b, b = planBefore'[t]
        PROVE  /\ t \in DOMAIN route' /\ IsPlan(b)
               /\ LineOK(b.order, b.node)
               /\ EdgesOK(b.order, b.edge, b.history)
               /\ Older(b.order, b.edge, b.history, t)
               /\ \A n \in Range(b.order) : b.node[n].route \in DOMAIN route' \cup {0}
    <3>1. CASE t = version
      <4>1. b = Plan
        BY <2>1, <3>1, <1>10
      <4> QED BY <4>1, <3>1, <1>3, PlanIsOne
    <3>2. CASE t # version
      <4>1. t \in DOMAIN planBefore /\ b = planBefore[t]
        BY <2>1, <3>2, <1>10
      <4>2. /\ t \in DOMAIN route /\ IsPlan(b)
            /\ LineOK(b.order, b.node)
            /\ EdgesOK(b.order, b.edge, b.history)
            /\ Older(b.order, b.edge, b.history, t)
            /\ \A n \in Range(b.order) : b.node[n].route \in DOMAIN route \cup {0}
        BY <4>1 DEF IInv, PastOK
      <4> QED BY <4>2, <1>3
    <3> QED BY <3>1, <3>2
  <2> QED BY <2>1 DEF PastOK
<1>12. UndoOK'
  <2>1. ASSUME NEW t \in DOMAIN receipt', Undoable(t)'
        PROVE  t = version
    <3>1. version' = t + 1 /\ t \in DOMAIN receipt \cup {version}
      BY <1>4, <2>1 DEF Undoable, With
    <3>2. t \in Nat
      BY <1>2, <3>1 DEF IInv, RoutesOK
    <3> QED BY <1>2, <3>1, <3>2
  <2>2. ASSUME NEW t, t = version, NEW d, d = Delta(p), NEW b, b = Plan
        PROVE  Returns(t, d, b)'
    BY <2>2, <1>1, AdoptedReturns
  <2>3. receipt'[version].delta = Delta(p)
    BY <1>4 DEF With
  <2>4. ASSUME NEW t \in DOMAIN receipt', Undoable(t)',
               NEW d, d = receipt'[t].delta, NEW b, b = planBefore'[t]
        PROVE  t \in DOMAIN planBefore' /\ Returns(t, d, b)'
    <3>1. t = version /\ d = Delta(p) /\ b = Plan
      BY <2>1, <2>3, <2>4, <1>10
    <3> QED BY <3>1, <2>2, <1>10
  <2> QED BY <2>4 DEF UndoOK
<1>13. OneActiveRoute'
  <2>1. \A r \in ActiveRoutes :
          route[r].from = p.snapshot.from /\ route[r].to = p.snapshot.to
            => r = p.corridor.source
    BY <1>1 DEF AdoptedLine, CorridorFacts
  <2>2. ActiveRoutes \subseteq DOMAIN route
    BY DEF ActiveRoutes
  <2>3. \A r, q \in ActiveRoutes :
          route[r].from = route[q].from /\ route[r].to = route[q].to => r = q
    BY DEF IInv, OneActiveRoute
  <2> QED BY <1>3, <2>1, <2>2, <2>3 DEF OneActiveRoute
<1> QED BY <1>7, <1>8, <1>9, <1>11, <1>12, <1>13 DEF IInv

-----------------------------------------------------------------------------
(* Undo.                                                                   *)

\* The plan after undo is the one its adoption started from.
LEMMA UndoneIs ==
    ASSUME IInv, NEW t \in DOMAIN receipt, Undo(t), NEW b, b = planBefore[t]
    PROVE  /\ t \in DOMAIN planBefore /\ t \in DOMAIN route
           /\ order' = b.order /\ node' = b.node /\ history' = b.history
           /\ {Archived(e) : e \in edge'} = b.edge
           /\ edge' \subseteq edge \cup history
           /\ ActiveRoutes' = b.active
           /\ DOMAIN route' = DOMAIN route
           /\ \A r \in DOMAIN route :
                /\ route'[r] \in RouteRow
                /\ route'[r].from = route[r].from /\ route'[r].to = route[r].to
                /\ r # t => (route'[r].status = "UNDONE" => route[r].status = "UNDONE")
<1> SUFFICES ASSUME NEW d, d = receipt[t].delta
             PROVE  /\ t \in DOMAIN planBefore /\ t \in DOMAIN route
                    /\ order' = b.order /\ node' = b.node /\ history' = b.history
                    /\ {Archived(e) : e \in edge'} = b.edge
                    /\ edge' \subseteq edge \cup history
                    /\ ActiveRoutes' = b.active
                    /\ DOMAIN route' = DOMAIN route
                    /\ \A r \in DOMAIN route :
                         /\ route'[r] \in RouteRow
                         /\ route'[r].from = route[r].from
                         /\ route'[r].to = route[r].to
                         /\ r # t => (route'[r].status = "UNDONE"
                                        => route[r].status = "UNDONE")
  OBVIOUS
<1>1. /\ order' = d.order
      /\ node' = [n \in Range(d.order) |-> RestoredNode(d, n)]
      /\ edge' = EdgesBack(d)
      /\ history' = history \ Histories(d)
      /\ route' = [r \in DOMAIN route |->
                     IF r = t THEN [route[r] EXCEPT !.status = "UNDONE"]
                     ELSE IF r = d.previous THEN [route[r] EXCEPT !.status = "ACTIVE"]
                     ELSE route[r]]
  BY DEF Undo, EdgesBack
<1>2. t \in DOMAIN planBefore /\ Returns(t, d, b)
  BY DEF IInv, UndoOK, Undo
<1>3. t \in DOMAIN route
  BY <1>2 DEF IInv, PastOK
<1>4. /\ \A r \in DOMAIN route : route[r] \in RouteRow
      /\ 0 \notin DOMAIN route
  BY VersionType DEF IInv, RoutesOK
<1>5. d.previous \in (DOMAIN route \ {t}) \cup {0}
  BY <1>2 DEF Returns
<1>6. ASSUME NEW r \in DOMAIN route
      PROVE  /\ route'[r] \in RouteRow
             /\ route'[r].from = route[r].from /\ route'[r].to = route[r].to
             /\ route'[r].status = IF r = t THEN "UNDONE"
                                   ELSE IF r = d.previous THEN "ACTIVE"
                                   ELSE route[r].status
  <2>1. route[r] \in RouteRow
    BY <1>4
  <2>2. CASE r = t
    <3>1. route'[r] = [route[r] EXCEPT !.status = "UNDONE"]
      BY <1>1, <2>2
    <3> QED BY <2>1, <2>2, <3>1 DEF RouteRow
  <2>3. CASE r # t /\ r = d.previous
    <3>1. route'[r] = [route[r] EXCEPT !.status = "ACTIVE"]
      BY <1>1, <2>3
    <3> QED BY <2>1, <2>3, <3>1 DEF RouteRow
  <2>4. CASE r # t /\ r # d.previous
    <3>1. route'[r] = route[r]
      BY <1>1, <2>4
    <3> QED BY <2>1, <2>4, <3>1
  <2> QED BY <2>2, <2>3, <2>4
<1>7. DOMAIN route' = DOMAIN route
  BY <1>1
<1>8. ActiveRoutes' = ActiveBack(t, d)
  BY <1>3, <1>4, <1>5, <1>6, <1>7 DEF ActiveRoutes, ActiveBack
<1>9. EdgesBack(d) \subseteq edge \cup history
  BY DEF EdgesBack, Histories
<1> QED BY <1>1, <1>2, <1>3, <1>6, <1>7, <1>8, <1>9 DEF Returns

\* Undo keeps the invariant.
LEMMA UndoKeeps ==
    ASSUME IInv, NEW t \in DOMAIN receipt, Undo(t)
    PROVE  IInv'
<1> SUFFICES ASSUME NEW b, b = planBefore[t] PROVE IInv'
  OBVIOUS
<1>1. /\ version \in Nat /\ MaxVersion \in Nat /\ version' = version + 1
      /\ version < MaxVersion /\ version = t + 1
      /\ planBefore' = planBefore
      /\ DOMAIN receipt' = DOMAIN receipt \cup {version}
      /\ receipt'[version] = [type |-> "ROUTE_UNDO", target |-> t]
      /\ \E gone : DraftsWithout(gone)
  BY VersionType DEF Undo, Advance, Undoable, With
<1>2. /\ t \in DOMAIN planBefore /\ t \in DOMAIN route
      /\ order' = b.order /\ node' = b.node /\ history' = b.history
      /\ {Archived(e) : e \in edge'} = b.edge
      /\ edge' \subseteq edge \cup history
      /\ ActiveRoutes' = b.active
      /\ DOMAIN route' = DOMAIN route
      /\ \A r \in DOMAIN route :
           /\ route'[r] \in RouteRow
           /\ route'[r].from = route[r].from /\ route'[r].to = route[r].to
  BY UndoneIs
<1>3. /\ LineOK(b.order, b.node)
      /\ EdgesOK(b.order, b.edge, b.history)
      /\ Older(b.order, b.edge, b.history, t)
      /\ \A n \in Range(b.order) : b.node[n].route \in DOMAIN route \cup {0}
  BY <1>2 DEF IInv, PastOK
<1>4. /\ \A r, q \in b.active :
           route[r].from = route[q].from /\ route[r].to = route[q].to => r = q
      /\ \A r \in DOMAIN route : {route[r].from, route[r].to} \subseteq Range(b.order)
  <2>1. ASSUME NEW d, d = receipt[t].delta PROVE Returns(t, d, b)
    BY <2>1 DEF IInv, UndoOK, Undo
  <2>2. Returns(t, receipt[t].delta, b)
    BY <2>1
  <2> QED BY <2>2 DEF Returns
<1>5. \A e \in edge' : /\ e \in EdgeRows /\ Archived(e) \in b.edge
                       /\ Archived(e).id = e.id /\ PairOf(Archived(e)) = PairOf(e)
  <2>1. edge' \subseteq EdgeRows
    BY <1>2 DEF IInv, PlanOK, EdgesOK
  <2> QED BY <2>1, <1>2, ArchivedRow
<1>6. \A e, f \in edge' : e.id = f.id => e = f
  <2>1. \A e, f \in edge \cup history : e.id = f.id => e = f
    BY DEF IInv, PlanOK, EdgesOK
  <2> QED BY <2>1, <1>2
<1>7. EdgesOK(order', edge', history')
  <2>1. edge' \subseteq EdgeRows /\ history' \subseteq EdgeRows
    BY <1>2, <1>3, <1>5 DEF EdgesOK
  <2>2. \A e \in edge' : PairOf(e) \in Pairs(order')
    BY <1>2, <1>3, <1>5 DEF EdgesOK
  <2>3. \A e, f \in edge' : PairOf(e) = PairOf(f) => e = f
    <3>1. \A g, h \in b.edge : PairOf(g) = PairOf(h) => g = h
      BY <1>3 DEF EdgesOK
    <3> QED BY <3>1, <1>5, <1>6
  <2>4. \A e \in edge', f \in history' : e.id # f.id
    BY <1>2, <1>3, <1>5 DEF EdgesOK
  <2>5. \A e, f \in history' : e.id = f.id => e = f
    BY <1>2, <1>3 DEF EdgesOK
  <2> QED BY <1>6, <2>1, <2>2, <2>3, <2>4, <2>5 DEF EdgesOK
<1>8. Older(order', edge', history', version')
  <2>1. t \in Nat
    BY <1>1 DEF IInv, RoutesOK
  <2>2. \A n \in Range(b.order) : n[1] \in Nat /\ n[1] < t
    BY <1>3 DEF LineOK, Older, Range, NodeIds
  <2>3. \A e \in b.edge \cup b.history : e.id[1] \in Nat /\ e.id[1] < t
    BY <1>3 DEF EdgesOK, Older, EdgeRows, NodeIds
  <2>4. \A e \in edge' \cup history' : e.id[1] \in Nat /\ e.id[1] < t
    BY <1>2, <1>5, <2>3
  <2> QED BY <1>1, <1>2, <2>1, <2>2, <2>4 DEF Older
<1>9. PlanOK'
  BY <1>1, <1>2, <1>3, <1>7, <1>8 DEF PlanOK
<1>10. RoutesOK'
  <2>1. route' \in [DOMAIN route' -> RouteRow]
    <3>1. route' = [r \in DOMAIN route' |-> route'[r]]
      BY DEF Undo
    <3> QED BY <1>2, <3>1
  <2>2. /\ DOMAIN route' \subseteq 1..(version' - 1)
        /\ DOMAIN receipt' \subseteq 1..(version' - 1)
    BY <1>1, <1>2 DEF IInv, RoutesOK
  <2>3. \A r \in DOMAIN route' : {route'[r].from, route'[r].to} \subseteq Range(order')
    BY <1>2, <1>4
  <2> QED BY <1>2, <1>3, <2>1, <2>2, <2>3 DEF RoutesOK
<1>11. DraftsOK'
  BY <1>1, DraftsKept DEF IInv
<1>12. PastOK'
  BY <1>1, <1>2 DEF IInv, PastOK
<1>13. UndoOK'
  <2> SUFFICES ASSUME NEW q \in DOMAIN receipt', Undoable(q)' PROVE FALSE
    BY DEF UndoOK
  <2>1. version' = q + 1 /\ receipt'[q].type = "ROUTE_ADOPT"
    BY DEF Undoable
  <2>2. q \in Nat
    BY <1>1 DEF IInv, RoutesOK
  <2>3. q = version
    BY <1>1, <2>1, <2>2
  <2> QED BY <1>1, <2>1, <2>3
<1>14. OneActiveRoute'
  <2>1. b.active \subseteq DOMAIN route
    BY <1>2 DEF ActiveRoutes
  <2> QED BY <1>2, <1>4, <2>1 DEF OneActiveRoute
<1> QED BY <1>9, <1>10, <1>11, <1>12, <1>13, <1>14 DEF IInv

-----------------------------------------------------------------------------
(* The theorems.                                                           *)

\* A stuttering step keeps the invariant.
LEMMA StutterKeeps ==
    ASSUME IInv, UNCHANGED vars
    PROVE  IInv'
<1>1. /\ UNCHANGED <<version, order, node, edge, history>>
      /\ UNCHANGED RouteRows /\ UNCHANGED Drafts
  BY DEF vars, RouteRows, Drafts
<1>2. DraftsOK'
  BY <1>1, DraftsKept DEF IInv
<1> QED BY <1>1, <1>2, DraftsOnly

\* The invariant is inductive.
LEMMA StepOK == IInv /\ [Next]_vars => IInv'
<1> SUFFICES ASSUME IInv, [Next]_vars PROVE IInv'
  OBVIOUS
<1>1. CASE UNCHANGED vars
  BY <1>1, StutterKeeps
<1>2. CASE UserCommand \/ Fact
  BY <1>2, EditStep
<1>3. CASE Planning
  BY <1>3, QueryKeeps, PreviewKeeps, AdoptKeeps, UndoKeeps DEF Planning
<1> QED BY <1>1, <1>2, <1>3 DEF Next

\* The invariant holds of every reachable state.
THEOREM Invariance == Spec => []IInv
BY InitOK, StepOK, PTL DEF Spec

\* Every row refers to rows that exist.
THEOREM TypeCorrect == Spec => []TypeOK
<1>1. IInv => TypeOK
  <2> SUFFICES ASSUME IInv PROVE TypeOK
    OBVIOUS
  <2>1. version \in 1..MaxVersion /\ Range(order) = DOMAIN node
    BY VersionType DEF IInv, PlanOK
  <2>2. \A e \in edge : {e.from, e.to} \subseteq DOMAIN node
    <3> SUFFICES ASSUME NEW e \in edge PROVE {e.from, e.to} \subseteq Range(order)
      BY <2>1
    <3>1. order \in Seq(NodeIds) /\ PairOf(e) \in Pairs(order)
      BY LineType DEF IInv, PlanOK, EdgesOK
    <3>2. PICK i \in 1..(Len(order) - 1) : PairOf(e) = <<order[i], order[i + 1]>>
      BY <3>1 DEF Pairs
    <3>3. i \in DOMAIN order /\ i + 1 \in DOMAIN order
      BY <3>1
    <3> QED BY <3>2, <3>3 DEF Range, PairOf
  <2>3. \A r \in DOMAIN route :
           /\ {route[r].from, route[r].to} \subseteq DOMAIN node
           /\ route[r].status \in {"ACTIVE", "REPLACED", "UNDONE"}
    <3>1. \A r \in DOMAIN route : route[r] \in RouteRow
      BY DEF IInv, RoutesOK
    <3> QED BY <2>1, <3>1, LineType DEF RouteRow
  <2>4. \A n \in DOMAIN node : node[n].route \in DOMAIN route \cup {0}
    BY <2>1, LineType
  <2> QED BY <2>1, <2>2, <2>3, <2>4 DEF TypeOK
<1> QED BY <1>1, Invariance, PTL

\* The day stays one line of places, joined by transport between neighbours,
\* through every insertion, move, adoption and undo.
THEOREM TimelineAlwaysSound == Spec => []TimelineSound
<1>1. IInv => TimelineSound
  BY DEF IInv, PlanOK, LineOK, EdgesOK, TimelineSound
<1> QED BY <1>1, Invariance, PTL

\* No adoption and no reactivation makes a second ACTIVE route between the
\* same two places.
THEOREM OneRouteAlways == Spec => []OneActiveRoute
<1>1. IInv => OneActiveRoute
  BY DEF IInv
<1> QED BY <1>1, Invariance, PTL

\* Undo gives back the plan the adoption started from, but for bound flights.
THEOREM UndoAlwaysRestores == Spec => UndoRestores
<1>1. ASSUME IInv, [Next]_vars
      PROVE  \A t \in DOMAIN route :
               Undone(t) => WithoutFlights(Plan') = WithoutFlights(planBefore[t])
  <2> SUFFICES ASSUME NEW t \in DOMAIN route, Undone(t)
               PROVE  WithoutFlights(Plan') = WithoutFlights(planBefore[t])
    OBVIOUS
  <2>1. route' # route
    BY DEF Undone
  <2>2. ~UNCHANGED RouteRows
    BY <2>1 DEF RouteRows
  <2>3. ~(UserCommand \/ Fact)
    BY <2>2 DEF UserCommand, Fact, InsertNode, DeleteNode, MoveNode, ReplacePlace,
       SetNodeNote, SetMinDwell, SetManualTransport, ClearTransport, Arrive, Depart,
       UndoEvent, RecordAt, AdoptFlight, ObserveFlight, ChangeEdge
  <2>4. ~UNCHANGED vars
    BY <2>1 DEF vars
  <2>5. Planning
    BY <1>1, <2>3, <2>4 DEF Next
  <2>6. ASSUME NEW p \in preview, Adopt(p) PROVE FALSE
    <3>1. AdoptedLine(p)
      BY <1>1, <2>6, AdoptLine DEF Adopt
    <3>2. t \in ActiveRoutes /\ t \notin ActiveRoutes'
      BY DEF Undone, ActiveRoutes
    <3>3. t = p.corridor.source
      BY <1>1, <2>6, <3>1, <3>2, AdoptRoutes
    <3>4. version \notin DOMAIN route /\ route[t] \in RouteRow
      BY <1>1, <2>6, <3>1, AdoptRoutes DEF IInv, RoutesOK
    <3>5. route'[t] = [route[t] EXCEPT !.status = "REPLACED"]
      BY <2>6, <3>3, <3>4 DEF Adopt, With, Superseded
    <3> QED BY <3>4, <3>5 DEF Undone, RouteRow
  <2>7. PICK q \in DOMAIN receipt : Undo(q)
    BY <2>2, <2>5, <2>6 DEF Planning, Query, CreatePreview
  <2> DEFINE b == planBefore[t]
  <2>8. /\ q \in DOMAIN planBefore
        /\ \A r \in DOMAIN route :
             r # q => (route'[r].status = "UNDONE" => route[r].status = "UNDONE")
    BY <1>1, <2>7, UndoneIs
  <2>9. q = t
    BY <2>8 DEF Undone
  <2>10. /\ order' = b.order /\ node' = b.node /\ history' = b.history
         /\ {Archived(e) : e \in edge'} = b.edge
         /\ ActiveRoutes' = b.active
    BY <1>1, <2>7, <2>9, UndoneIs
  <2>11. IsPlan(b)
    BY <1>1, <2>8, <2>9 DEF IInv, PastOK
  <2> HIDE DEF b
  <2> DEFINE fs == {e.id : e \in {f \in edge' : f.flight}}
             es == {Archived(e) : e \in edge'}
  <2>a. Plan' = [order |-> order', node |-> node', edge |-> es,
                 history |-> history', active |-> ActiveRoutes', flights |-> fs]
    BY DEF Plan
  <2> HIDE DEF fs
  <2>b. Plan' = [order |-> b.order, node |-> b.node, edge |-> b.edge,
                 history |-> b.history, active |-> b.active, flights |-> fs]
    BY <2>a, <2>10
  <2>12. WithoutFlights(Plan')
           = [order |-> b.order, node |-> b.node, edge |-> b.edge,
              history |-> b.history, active |-> b.active, flights |-> {}]
    BY <2>b DEF WithoutFlights
  <2>13. WithoutFlights(b)
           = [order |-> b.order, node |-> b.node, edge |-> b.edge,
              history |-> b.history, active |-> b.active, flights |-> {}]
    BY <2>11 DEF IsPlan, WithoutFlights
  <2> QED BY <2>12, <2>13 DEF b
<1> QED BY <1>1, Invariance, PTL DEF Spec, UndoRestores

-----------------------------------------------------------------------------
(* An undone route leaves nothing of its own.                              *)

\* No node of nd and no edge of es is route r's.
NoRowOf(r, nd, es) ==
    /\ \A n \in DOMAIN nd : nd[n].route # r
    /\ \A e \in es : e.route # r

UndoneRoutes == {r \in DOMAIN route : route[r].status = "UNDONE"}

\* Every edge row is the user's or an adopted route's; an undone route has no row,
\* and neither it nor the route that could be undone next has one in the plan
\* undo would give back.
TraceInv ==
    /\ \A e \in edge \cup history : e.route \in DOMAIN route \cup {0}
    /\ \A r \in UndoneRoutes : NoRowOf(r, node, edge \cup history)
    /\ \A t \in DOMAIN receipt : Undoable(t) =>
         \A b \in {planBefore[t]}, r \in UndoneRoutes \cup {t} :
            NoRowOf(r, b.node, b.edge \cup b.history)

\* Every row after the step is the user's or of the owner of a row before it.
OwnersKept ==
    /\ \A n \in DOMAIN node' :
         node'[n].route = 0 \/ \E m \in DOMAIN node : node'[n].route = node[m].route
    /\ \A e \in edge' \cup history' :
         e.route = 0 \/ \E f \in edge \cup history : e.route = f.route

\* An archived edge is still its route's.
LEMMA ArchivedOwner ==
    ASSUME NEW e \in EdgeRows
    PROVE  Archived(e).route = e.route
BY DEF Archived, EdgeRows

\* An edit gives no route a row it had not.
LEMMA EditLeavesNoTrace ==
    ASSUME IInv, TraceInv, Edit, UNCHANGED RouteRows, OwnersKept
    PROVE  TraceInv'
<1>1. /\ route' = route /\ receipt' = receipt /\ planBefore' = planBefore
      /\ UndoneRoutes' = UndoneRoutes
  BY DEF RouteRows, UndoneRoutes
<1>2. 0 \notin DOMAIN route /\ UndoneRoutes \subseteq DOMAIN route
  BY VersionType DEF IInv, RoutesOK, UndoneRoutes
<1>3. \A e \in edge' \cup history' : e.route \in DOMAIN route' \cup {0}
  BY <1>1 DEF OwnersKept, TraceInv
<1>4. ASSUME NEW r \in UndoneRoutes
      PROVE  NoRowOf(r, node', edge' \cup history')
  <2>1. NoRowOf(r, node, edge \cup history) /\ r # 0
    BY <1>2, <1>4 DEF TraceInv
  <2> QED BY <2>1 DEF OwnersKept, NoRowOf
<1>5. \A t \in DOMAIN receipt : ~Undoable(t)'
  <2> SUFFICES ASSUME NEW t \in DOMAIN receipt, Undoable(t)' PROVE FALSE
    OBVIOUS
  <2>1. t \in 1..(version - 1) /\ version' = t + 1 /\ version' = version + 1
    BY DEF IInv, RoutesOK, Undoable, Edit, Advance
  <2> QED BY <2>1, VersionType
<1> QED BY <1>1, <1>3, <1>4, <1>5 DEF TraceInv

\* The owners of edges kept, and of edges archived.
LEMMA OwnersOfArchived ==
    ASSUME IInv, NEW kept \in SUBSET edge, NEW gone \in SUBSET edge,
           edge' = kept, history' = history \cup {Archived(e) : e \in gone}
    PROVE  \A e \in edge' \cup history' : \E f \in edge \cup history : e.route = f.route
<1>1. \A e \in gone : Archived(e).route = e.route
  BY ArchivedOwner DEF IInv, PlanOK, EdgesOK
<1> QED BY <1>1

\* The owners of edges when the line becomes ord.
LEMMA OwnersOfReordered ==
    ASSUME IInv, NEW ord, Reorder(ord)
    PROVE  \A e \in edge' \cup history' : \E f \in edge \cup history : e.route = f.route
<1> DEFINE kept == {e \in edge : PairOf(e) \in Pairs(ord)}
           gone == edge \ kept
<1>1. kept \in SUBSET edge /\ gone \in SUBSET edge
  OBVIOUS
<1>2. edge' = kept /\ history' = history \cup {Archived(e) : e \in gone}
  BY DEF Reorder
<1> HIDE DEF kept, gone
<1> QED BY <1>1, <1>2, OwnersOfArchived

\* The owners of nodes when one row changes and stays its route's.
LEMMA OwnersOfRows ==
    ASSUME IInv, NEW n \in DOMAIN node, NEW row, row.route = node[n].route,
           node' = [node EXCEPT ![n] = row]
    PROVE  \A m \in DOMAIN node' : \E k \in DOMAIN node : node'[m].route = node[k].route
<1>1. DOMAIN node' = DOMAIN node
  OBVIOUS
<1>2. ASSUME NEW m \in DOMAIN node
      PROVE  node'[m].route = node[m].route
  <2>1. CASE m = n
    BY <2>1
  <2>2. CASE m # n
    BY <2>2
  <2> QED BY <2>1, <2>2
<1> QED BY <1>1, <1>2

\* The user's commands change the owner of no row.
LEMMA CommandOwners ==
    ASSUME IInv, UserCommand
    PROVE  OwnersKept /\ Edit /\ UNCHANGED RouteRows
<1>1. ASSUME NEW kind, NEW i, InsertNode(kind, i)
      PROVE  OwnersKept
  <2>1. \A e \in edge' \cup history' : \E f \in edge \cup history : e.route = f.route
    BY <1>1, OwnersOfReordered DEF InsertNode
  <2>2. node' = With(node, <<version, 1>>, UserNode(kind)) /\ UserNode(kind).route = 0
    BY <1>1 DEF InsertNode, UserNode
  <2>3. \A n \in DOMAIN node' :
           node'[n].route = 0 \/ \E m \in DOMAIN node : node'[n].route = node[m].route
    BY <2>2 DEF With
  <2> QED BY <2>1, <2>3 DEF OwnersKept
<1>2. ASSUME NEW n \in DOMAIN node, DeleteNode(n)
      PROVE  OwnersKept
  <2>1. \A e \in edge' \cup history' : \E f \in edge \cup history : e.route = f.route
    BY <1>2, OwnersOfReordered DEF DeleteNode
  <2>2. node' = [m \in DOMAIN node \ {n} |-> node[m]]
    BY <1>2 DEF DeleteNode
  <2> QED BY <2>1, <2>2 DEF OwnersKept
<1>3. ASSUME NEW n \in DOMAIN node, NEW i, MoveNode(n, i)
      PROVE  OwnersKept
  <2>1. \A e \in edge' \cup history' : \E f \in edge \cup history : e.route = f.route
    BY <1>3, OwnersOfReordered DEF MoveNode
  <2>2. node' = [node EXCEPT ![n] = Touch(n)] /\ Touch(n).route = node[n].route
    BY <1>3, TouchedRow DEF MoveNode
  <2> QED BY <2>1, <2>2, OwnersOfRows DEF OwnersKept
<1>4. ASSUME NEW n \in DOMAIN node, ReplacePlace(n)
      PROVE  OwnersKept
  <2>1. \A e \in edge' \cup history' : \E f \in edge \cup history : e.route = f.route
    <3> DEFINE gone == {e \in edge : n \in {e.from, e.to}}
    <3>1. gone \in SUBSET edge /\ edge \ gone \in SUBSET edge
      OBVIOUS
    <3>2. edge' = edge \ gone /\ history' = history \cup {Archived(e) : e \in gone}
      BY <1>4 DEF ReplacePlace, ArchiveEdges
    <3> HIDE DEF gone
    <3> QED BY <3>1, <3>2, OwnersOfArchived
  <2>2. node' = [node EXCEPT ![n] = Touch(n)] /\ Touch(n).route = node[n].route
    BY <1>4, TouchedRow DEF ReplacePlace
  <2> QED BY <2>1, <2>2, OwnersOfRows DEF OwnersKept
<1>5. ASSUME NEW n \in DOMAIN node, SetNodeNote(n)
      PROVE  OwnersKept
  <2>1. node' = [node EXCEPT ![n] = Touch(n)] /\ Touch(n).route = node[n].route
    BY <1>5, TouchedRow DEF SetNodeNote
  <2>2. edge' = edge /\ history' = history
    BY <1>5 DEF SetNodeNote
  <2> QED BY <2>1, <2>2, OwnersOfRows DEF OwnersKept
<1>6. ASSUME NEW n \in DOMAIN node, NEW d, SetMinDwell(n, d)
      PROVE  OwnersKept
  <2> DEFINE row == [node[n] EXCEPT !.dwell = d]
  <2>1. node[n] \in NodeRows
    BY VersionType, LineType
  <2>2. row.route = node[n].route
    BY <2>1 DEF NodeRows
  <2>3. node' = [node EXCEPT ![n] = row] /\ edge' = edge /\ history' = history
    BY <1>6 DEF SetMinDwell
  <2> HIDE DEF row
  <2> QED BY <2>2, <2>3, OwnersOfRows DEF OwnersKept
<1>7. ASSUME NEW p \in Pairs(order), SetManualTransport(p)
      PROVE  OwnersKept
  <2> DEFINE old == {e \in edge : PairOf(e) = p}
             new == Edge(<<version, 1>>, p[1], p[2], 0)
  <2>1. /\ edge' = (edge \ old) \cup {new} /\ node' = node
        /\ history' = history \cup {Archived(e) : e \in old}
    BY <1>7 DEF SetManualTransport
  <2>2. new.route = 0
    BY DEF Edge
  <2>3. \A e \in old : Archived(e).route = e.route /\ e \in edge
    BY ArchivedOwner DEF IInv, PlanOK, EdgesOK
  <2> HIDE DEF old, new
  <2> QED BY <2>1, <2>2, <2>3 DEF OwnersKept
<1>8. ASSUME NEW e \in edge, ClearTransport(e)
      PROVE  OwnersKept
  <2>1. edge \ {e} \in SUBSET edge /\ {e} \in SUBSET edge
    OBVIOUS
  <2>2. \A x \in edge' \cup history' : \E f \in edge \cup history : x.route = f.route
    BY <1>8, <2>1, OwnersOfArchived DEF ClearTransport, ArchiveEdges
  <2>3. node' = node
    BY <1>8 DEF ClearTransport
  <2> QED BY <2>2, <2>3 DEF OwnersKept
<1>9. OwnersKept
  BY <1>1, <1>2, <1>3, <1>4, <1>5, <1>6, <1>7, <1>8 DEF UserCommand
<1>10. Edit /\ UNCHANGED RouteRows
  BY DEF UserCommand, InsertNode, DeleteNode, MoveNode, ReplacePlace, SetNodeNote,
     SetMinDwell, SetManualTransport, ClearTransport
<1> QED BY <1>9, <1>10

\* Neither do facts.
LEMMA FactOwners ==
    ASSUME IInv, Fact
    PROVE  OwnersKept /\ Edit /\ UNCHANGED RouteRows
<1>1. ASSUME NEW n \in DOMAIN node, NEW actual, RecordAt(n, actual)
      PROVE  OwnersKept /\ Edit /\ UNCHANGED RouteRows
  <2> DEFINE row == [node[n] EXCEPT !.actual = actual]
  <2>1. node[n] \in NodeRows
    BY VersionType, LineType
  <2>2. row.route = node[n].route
    BY <2>1 DEF NodeRows
  <2>3. /\ node' = [node EXCEPT ![n] = row] /\ edge' = edge /\ history' = history
        /\ Edit /\ UNCHANGED RouteRows
    BY <1>1 DEF RecordAt
  <2> HIDE DEF row
  <2> QED BY <2>2, <2>3, OwnersOfRows DEF OwnersKept
<1>2. ASSUME NEW e \in edge, NEW now, now.route = e.route, ChangeEdge(e, now)
      PROVE  OwnersKept /\ Edit /\ UNCHANGED RouteRows
  BY <1>2 DEF ChangeEdge, OwnersKept
<1>3. ASSUME NEW e \in edge
      PROVE  /\ [e EXCEPT !.flight = TRUE].route = e.route
             /\ [e EXCEPT !.actual = TRUE].route = e.route
  <2>1. e \in EdgeRows
    BY DEF IInv, PlanOK, EdgesOK
  <2> QED BY <2>1 DEF EdgeRows
<1> QED BY <1>1, <1>2, <1>3 DEF Fact, Arrive, Depart, UndoEvent, AdoptFlight, ObserveFlight

\* Adoption: the new route's rows are its own, and the plan it started from has none.
LEMMA AdoptLeavesNoTrace ==
    ASSUME IInv, TraceInv, NEW p \in preview, Adopt(p)
    PROVE  TraceInv'
<1>1. AdoptedLine(p)
  BY AdoptLine DEF Adopt
<1>2. /\ DOMAIN route' = DOMAIN route \cup {version}
      /\ version \notin DOMAIN route /\ 0 \notin DOMAIN route
      /\ p.corridor.source \in ActiveRoutes \cup {0}
  BY <1>1, AdoptRoutes
<1>3. UndoneRoutes' = UndoneRoutes
  <2> DEFINE new == [from |-> p.snapshot.from, to |-> p.snapshot.to,
                     status |-> "ACTIVE", snapshot |-> p.snapshot]
  <2>1. route' = With(Superseded(p), version, new)
    BY DEF Adopt
  <2>2. /\ route'[version].status = "ACTIVE"
        /\ \A r \in DOMAIN route : route'[r] = Superseded(p)[r]
    BY <1>2, <2>1 DEF With, Superseded
  <2>3. ASSUME NEW r \in DOMAIN route
        PROVE  route'[r].status = "UNDONE" <=> route[r].status = "UNDONE"
    <3>1. route[r] \in RouteRow
      BY DEF IInv, RoutesOK
    <3>2. CASE r = p.corridor.source
      <4>1. route[r].status = "ACTIVE"
        BY <3>2, <1>2 DEF ActiveRoutes
      <4>2. route'[r] = [route[r] EXCEPT !.status = "REPLACED"]
        BY <3>2, <2>2 DEF Superseded
      <4> QED BY <3>1, <4>1, <4>2 DEF RouteRow
    <3>3. CASE r # p.corridor.source
      BY <3>3, <2>2 DEF Superseded
    <3> QED BY <3>2, <3>3
  <2> QED BY <1>2, <2>2, <2>3 DEF UndoneRoutes
<1>4. UndoneRoutes \subseteq DOMAIN route
  BY DEF UndoneRoutes
<1>5. /\ \A n \in DOMAIN node : node[n].route \in DOMAIN route \cup {0}
      /\ \A e \in edge \cup history : e.route \in DOMAIN route \cup {0}
      /\ DOMAIN node = Range(order)
  BY LineType, VersionType DEF TraceInv
<1>6. ASSUME NEW e \in edge' \cup history'
      PROVE  e.route = version \/ \E f \in edge \cup history : e.route = f.route
  <2>1. /\ edge' = (edge \ OldEdges(p)) \cup NewEdges(p)
        /\ history' = history \cup {Archived(f) : f \in OldEdges(p)}
    BY DEF Adopt
  <2>2. \A f \in OldEdges(p) : f \in edge /\ Archived(f).route = f.route
    BY ArchivedOwner DEF OldEdges, IInv, PlanOK, EdgesOK
  <2>3. \A f \in NewEdges(p) : f.route = version
    BY <1>1, AdoptNewEdges
  <2> QED BY <2>1, <2>2, <2>3
<1>7. ASSUME NEW n \in DOMAIN node'
      PROVE  node'[n].route = version \/ \E m \in DOMAIN node : node'[n].route = node[m].route
  <2>1. node' = [m \in (DOMAIN node \ p.remove) \cup Created(p) |-> NewNode(p, m)]
    BY DEF Adopt
  <2>2. /\ node'[n] = NewNode(p, n)
        /\ p.reused \subseteq DOMAIN node /\ p.adjust \subseteq DOMAIN node
        /\ \A m \in DOMAIN node : node[m] \in NodeRows
        /\ n \in DOMAIN node \/ n \in Created(p)
    BY <2>1, <1>1, <1>5, LineType DEF AdoptedLine, IInv, DraftsOK
  <2>3. CASE n \in p.reused
    <3>1. NewNode(p, n) = [node[n] EXCEPT !.route = version, !.op = version]
      BY <2>3 DEF NewNode
    <3> QED BY <2>2, <2>3, <3>1 DEF NodeRows
  <2>4. CASE n \notin p.reused /\ n \in p.adjust
    <3>1. NewNode(p, n) = [node[n] EXCEPT !.dwell = 1]
      BY <2>4 DEF NewNode
    <3> QED BY <2>2, <2>4, <3>1 DEF NodeRows
  <2>5. CASE n \notin p.reused /\ n \notin p.adjust /\ n \in DOMAIN node
    <3>1. NewNode(p, n) = node[n]
      BY <2>5 DEF NewNode
    <3> QED BY <2>2, <2>5, <3>1
  <2>6. CASE n \notin p.reused /\ n \notin p.adjust /\ n \notin DOMAIN node
    <3>1. NewNode(p, n) = GeneratedNode(p.snapshot.stops[n[2]], version)
      BY <2>6 DEF NewNode
    <3> QED BY <2>2, <3>1 DEF GeneratedNode
  <2> QED BY <2>3, <2>4, <2>5, <2>6
<1>8. ASSUME NEW r \in UndoneRoutes
      PROVE  /\ NoRowOf(r, node', edge' \cup history')
             /\ NoRowOf(r, node, edge \cup history)
  <2>1. NoRowOf(r, node, edge \cup history) /\ r # version
    BY <1>2, <1>4 DEF TraceInv
  <2> QED BY <2>1, <1>6, <1>7 DEF NoRowOf
<1>9. NoRowOf(version, node, edge \cup history)
  <2>1. version # 0
    BY VersionType DEF IInv, PlanOK
  <2> QED BY <2>1, <1>2, <1>5 DEF NoRowOf
<1>10. ASSUME NEW b, b = Plan, NEW r, NoRowOf(r, node, edge \cup history)
       PROVE  NoRowOf(r, b.node, b.edge \cup b.history)
  <2>1. /\ b.node = node /\ b.history = history
        /\ b.edge = {Archived(e) : e \in edge}
    BY <1>10 DEF Plan
  <2>2. \A e \in edge : Archived(e).route = e.route
    BY ArchivedOwner DEF IInv, PlanOK, EdgesOK
  <2> QED BY <2>1, <2>2, <1>10 DEF NoRowOf
<1>11. ASSUME NEW t \in DOMAIN receipt', Undoable(t)'
       PROVE  t = version /\ planBefore'[t] = Plan
  <2>1. /\ version' = t + 1 /\ version' = version + 1
        /\ t \in DOMAIN receipt \cup {version}
    BY <1>11 DEF Undoable, Adopt, Advance, With
  <2>2. t = version
    BY <2>1, VersionType DEF IInv, RoutesOK
  <2> QED BY <2>2 DEF Adopt, With
<1>12. \A t \in DOMAIN receipt' : Undoable(t)' =>
         \A b \in {planBefore'[t]}, r \in UndoneRoutes \cup {t} :
            NoRowOf(r, b.node, b.edge \cup b.history)
  BY <1>8, <1>9, <1>10, <1>11
<1>13. \A e \in edge' \cup history' : e.route \in DOMAIN route' \cup {0}
  BY <1>2, <1>5, <1>6
<1> QED BY <1>3, <1>8, <1>12, <1>13 DEF TraceInv

\* Undo: the plan given back has no row of the route undone.
LEMMA UndoLeavesNoTrace ==
    ASSUME IInv, TraceInv, NEW t \in DOMAIN receipt, Undo(t)
    PROVE  TraceInv'
<1> SUFFICES ASSUME NEW b, b = planBefore[t] PROVE TraceInv'
  OBVIOUS
<1>1. /\ order' = b.order /\ node' = b.node /\ history' = b.history
      /\ {Archived(e) : e \in edge'} = b.edge
      /\ edge' \subseteq edge \cup history
      /\ DOMAIN route' = DOMAIN route
      /\ \A r \in DOMAIN route :
           r # t => (route'[r].status = "UNDONE" => route[r].status = "UNDONE")
  BY UndoneIs
<1>2. UndoneRoutes' \subseteq UndoneRoutes \cup {t}
  BY <1>1 DEF UndoneRoutes
<1>3. \A r \in UndoneRoutes \cup {t} : NoRowOf(r, b.node, b.edge \cup b.history)
  BY DEF Undo, TraceInv
<1>4. \A e \in edge' : Archived(e).route = e.route
  BY <1>1, ArchivedOwner DEF IInv, PlanOK, EdgesOK
<1>5. ASSUME NEW r \in UndoneRoutes'
      PROVE  NoRowOf(r, node', edge' \cup history')
  BY <1>1, <1>2, <1>3, <1>4 DEF NoRowOf
<1>6. \A e \in edge' \cup history' : e.route \in DOMAIN route' \cup {0}
  <2>1. \A e \in history' : e \in history
    BY DEF Undo
  <2> QED BY <2>1, <1>1 DEF TraceInv
<1>7. \A q \in DOMAIN receipt' : ~Undoable(q)'
  <2> SUFFICES ASSUME NEW q \in DOMAIN receipt', Undoable(q)' PROVE FALSE
    OBVIOUS
  <2>1. /\ version' = q + 1 /\ version' = version + 1
        /\ q \in DOMAIN receipt \cup {version}
        /\ receipt'[q].type = "ROUTE_ADOPT"
    BY DEF Undoable, Undo, Advance, With
  <2>2. q = version
    BY <2>1, VersionType DEF IInv, RoutesOK
  <2>3. receipt'[version].type = "ROUTE_UNDO"
    BY DEF Undo, With
  <2> QED BY <2>1, <2>2, <2>3
<1> QED BY <1>5, <1>6, <1>7 DEF TraceInv

\* Queries, previews and stuttering change no row and no receipt.
LEMMA DraftsLeaveNoTrace ==
    ASSUME IInv, TraceInv, UNCHANGED <<version, order, node, edge, history>>,
           UNCHANGED RouteRows
    PROVE  TraceInv'
<1>1. /\ route' = route /\ receipt' = receipt /\ planBefore' = planBefore
      /\ UndoneRoutes' = UndoneRoutes
  BY DEF RouteRows, UndoneRoutes
<1>2. \A t : Undoable(t)' <=> Undoable(t)
  BY <1>1 DEF Undoable
<1> QED BY <1>1, <1>2 DEF TraceInv

\* No step leaves an undone route a row.
LEMMA TraceStep == IInv /\ TraceInv /\ [Next]_vars => TraceInv'
<1> SUFFICES ASSUME IInv, TraceInv, [Next]_vars PROVE TraceInv'
  OBVIOUS
<1>1. CASE UserCommand \/ Fact
  BY <1>1, CommandOwners, FactOwners, EditLeavesNoTrace
<1>2. CASE Planning
  <2>1. ASSUME NEW from, NEW to, NEW o, Query(from, to, o) PROVE TraceInv'
    BY <2>1, DraftsLeaveNoTrace DEF Query
  <2>2. ASSUME NEW s, CreatePreview(s) PROVE TraceInv'
    BY <2>2, DraftsLeaveNoTrace DEF CreatePreview
  <2> QED BY <1>2, <2>1, <2>2, AdoptLeavesNoTrace, UndoLeavesNoTrace DEF Planning
<1>3. CASE UNCHANGED vars
  BY <1>3, DraftsLeaveNoTrace DEF vars, RouteRows
<1> QED BY <1>1, <1>2, <1>3 DEF Next

\* The start has no route.
LEMMA TraceInit == Init => TraceInv
<1> SUFFICES ASSUME Init PROVE TraceInv
  OBVIOUS
<1>1. route = <<>> /\ receipt = <<>> /\ history = {}
  BY DEF Init
<1>2. DOMAIN route = {} /\ DOMAIN receipt = {}
  BY <1>1
<1>3. \A e \in edge : e.route = 0
  <2>1. PICK ps \in SUBSET Pairs(order), fs \in SUBSET Pairs(order) :
          edge = {[Edge(p[1], p[1], p[2], 0) EXCEPT !.flight = p \in fs] : p \in ps}
    BY DEF Init
  <2>2. \A p \in ps : [Edge(p[1], p[1], p[2], 0) EXCEPT !.flight = p \in fs].route = 0
    BY DEF Edge
  <2> QED BY <2>1, <2>2
<1> QED BY <1>1, <1>2, <1>3 DEF TraceInv, UndoneRoutes

\* The invariant and the owners of its rows.
THEOREM OwnersInvariance == Spec => []TraceInv
<1>1. IInv /\ [Next]_vars /\ TraceInv => TraceInv'
  BY TraceStep
<1> QED BY <1>1, TraceInit, Invariance, PTL DEF Spec

\* An undone route leaves no node, no edge and no archived edge of its own.
THEOREM NoTraceAlways == Spec => []NoTraceOfUndone
<1>1. TraceInv => NoTraceOfUndone
  BY DEF TraceInv, NoTraceOfUndone, NoRowOf, UndoneRoutes
<1> QED BY <1>1, OwnersInvariance, PTL

-----------------------------------------------------------------------------
(* Parts of a line.                                                        *)

\* Two sequences with the same elements are one.
LEMMA SamePath ==
    ASSUME NEW a \in Seq(NodeIds), NEW b \in Seq(NodeIds), Len(a) = Len(b),
           \A k \in 1..Len(a) : a[k] = b[k]
    PROVE  a = b
BY SeqEqual

\* A part of a line: its length, its nodes and where each is in it.
LEMMA PartOfLine ==
    ASSUME NEW s \in Seq(NodeIds), IsInjective(s),
           NEW h \in 1..Len(s), NEW j \in h..Len(s), NEW a, a = SubSeq(s, h, j)
    PROVE  /\ a \in Seq(NodeIds) /\ IsInjective(a)
           /\ Len(a) = j - h + 1
           /\ \A k \in 1..(j - h + 1) : a[k] = s[h + k - 1]
           /\ \A k \in h..j : a[k - h + 1] = s[k] /\ Index(a, s[k]) = k - h + 1
<1>1. Len(s) \in Nat /\ h \in Nat /\ j \in Nat /\ h <= j /\ DOMAIN s = 1..Len(s)
  OBVIOUS
<1>2. /\ a \in Seq(NodeIds) /\ Len(a) = j - h + 1
      /\ \A k \in 1..(j - h + 1) : a[k] = s[h + k - 1]
  BY <1>1
<1>3. ASSUME NEW k \in 1..(j - h + 1), NEW m \in 1..(j - h + 1), a[k] = a[m]
      PROVE  k = m
  <2>1. h + k - 1 \in 1..Len(s) /\ h + m - 1 \in 1..Len(s)
    BY <1>1
  <2>2. s[h + k - 1] = s[h + m - 1]
    BY <1>2, <1>3
  <2>3. h + k - 1 = h + m - 1
    BY <1>1, <2>1, <2>2 DEF IsInjective
  <2> QED BY <1>1, <2>3
<1>4. DOMAIN a = 1..(j - h + 1)
  BY <1>2
<1>5. IsInjective(a)
  BY <1>3, <1>4 DEF IsInjective
<1>6. ASSUME NEW k \in h..j
      PROVE  a[k - h + 1] = s[k] /\ Index(a, s[k]) = k - h + 1
  <2>1. k - h + 1 \in 1..(j - h + 1) /\ h + (k - h + 1) - 1 = k
    BY <1>1
  <2>2. a[k - h + 1] = s[k]
    <3>1. a[k - h + 1] = s[h + (k - h + 1) - 1]
      BY <1>2, <2>1
    <3> QED BY <2>1, <3>1
  <2>3. k - h + 1 \in 1..Len(a)
    BY <1>2, <2>1
  <2> DEFINE m == k - h + 1
  <2>4. m \in 1..Len(a) /\ a[m] = s[k]
    BY <2>2, <2>3
  <2> HIDE DEF m
  <2>5. Index(a, a[m]) = m
    BY <1>2, <1>5, <2>4, IndexUnique
  <2> QED BY <2>2, <2>4, <2>5 DEF m
<1> QED BY <1>2, <1>5, <1>6

\* A part of a part of a line.
LEMMA PartOfPart ==
    ASSUME NEW s \in Seq(NodeIds), IsInjective(s),
           NEW h \in 1..Len(s), NEW j \in h..Len(s), NEW a \in h..j, NEW b \in a..j
    PROVE  SubSeq(SubSeq(s, h, j), a - h + 1, b - h + 1) = SubSeq(s, a, b)
<1> DEFINE whole == SubSeq(s, h, j)
           x == SubSeq(whole, a - h + 1, b - h + 1)
           y == SubSeq(s, a, b)
<1>1. Len(s) \in Nat /\ h \in Nat /\ j \in Nat /\ a \in Nat /\ b \in Nat
  OBVIOUS
<1>2. /\ whole \in Seq(NodeIds) /\ Len(whole) = j - h + 1
      /\ \A k \in 1..(j - h + 1) : whole[k] = s[h + k - 1]
  BY <1>1
<1>3. /\ y \in Seq(NodeIds) /\ Len(y) = b - a + 1
      /\ \A k \in 1..(b - a + 1) : y[k] = s[a + k - 1]
  BY <1>1
<1> HIDE DEF whole, y
<1>4. /\ a - h + 1 \in 1..Len(whole) /\ b - h + 1 \in (a - h + 1)..Len(whole)
      /\ (b - h + 1) - (a - h + 1) + 1 = b - a + 1
  BY <1>1, <1>2
<1> DEFINE u == a - h + 1
           v == b - h + 1
<1>5. u \in 1..Len(whole) /\ v \in u..Len(whole) /\ v - u + 1 = b - a + 1
  BY <1>4
<1>6. /\ x \in Seq(NodeIds) /\ Len(x) = v - u + 1
      /\ \A k \in 1..(v - u + 1) : x[k] = whole[u + k - 1]
  <2> HIDE DEF u, v
  <2>1. Len(whole) \in Nat /\ u \in Nat /\ v \in Nat
    BY <1>2, <1>5
  <2>2. x = SubSeq(whole, u, v)
    BY DEF u, v
  <2> HIDE DEF x
  <2> QED BY <1>2, <1>5, <2>1, <2>2
<1> HIDE DEF x
<1>7. ASSUME NEW k \in 1..(b - a + 1)
      PROVE  x[k] = y[k]
  <2>1. /\ k \in 1..(v - u + 1) /\ u + k - 1 \in 1..(j - h + 1)
        /\ h + (u + k - 1) - 1 = a + k - 1
    BY <1>1
  <2>2. x[k] = whole[u + k - 1]
    BY <1>6, <2>1
  <2> HIDE DEF u, v
  <2>3. whole[u + k - 1] = s[h + (u + k - 1) - 1]
    BY <1>2, <2>1
  <2> QED BY <1>3, <2>1, <2>2, <2>3
<1> HIDE DEF u, v
<1>8. Len(x) = Len(y) /\ \A k \in 1..Len(x) : x[k] = y[k]
  BY <1>3, <1>5, <1>6, <1>7
<1>9. x = y
  BY <1>3, <1>6, <1>8, SamePath
<1> QED BY <1>9 DEF x, y, whole

\* The first m nodes of a path.
LEMMA FrontOf ==
    ASSUME NEW a \in Seq(NodeIds), NEW m \in 0..Len(a)
    PROVE  /\ SubSeq(a, 1, m) \in Seq(NodeIds)
           /\ Len(SubSeq(a, 1, m)) = m
           /\ \A k \in 1..m : SubSeq(a, 1, m)[k] = a[k]
OBVIOUS

\* A prefix without its last node, and the rest from that node on, is the whole.
LEMMA PrefixAndRest ==
    ASSUME NEW s \in Seq(NodeIds), IsInjective(s),
           NEW h \in 1..Len(s), NEW i \in h..Len(s), NEW j \in i..Len(s),
           NEW a, a = SubSeq(s, h, i)
    PROVE  SubSeq(a, 1, Len(a) - 1) \o SubSeq(s, i, j) = SubSeq(s, h, j)
<1> DEFINE x == SubSeq(a, 1, Len(a) - 1)
           y == SubSeq(s, i, j)
           z == SubSeq(s, h, j)
<1>1. Len(s) \in Nat /\ h \in Nat /\ i \in Nat /\ j \in Nat
  OBVIOUS
<1>2. /\ a \in Seq(NodeIds) /\ Len(a) = i - h + 1
      /\ \A k \in 1..(i - h + 1) : a[k] = s[h + k - 1]
  BY <1>1
<1>3. /\ y \in Seq(NodeIds) /\ Len(y) = j - i + 1
      /\ \A k \in 1..(j - i + 1) : y[k] = s[i + k - 1]
  BY <1>1
<1>4. /\ z \in Seq(NodeIds) /\ Len(z) = j - h + 1
      /\ \A k \in 1..(j - h + 1) : z[k] = s[h + k - 1]
  BY <1>1
<1>5. /\ x \in Seq(NodeIds) /\ Len(x) = i - h
      /\ \A k \in 1..(i - h) : x[k] = a[k]
  <2>1. Len(a) - 1 = i - h /\ i - h \in 0..Len(a)
    BY <1>1, <1>2
  <2>2. x = SubSeq(a, 1, i - h)
    BY <2>1
  <2> HIDE DEF x
  <2> DEFINE m == i - h
  <2>3. m \in 0..Len(a) /\ Len(a) \in Nat
    BY <1>2, <2>1
  <2>4. x = SubSeq(a, 1, m)
    BY <2>2
  <2> HIDE DEF m
  <2>5. x \in Seq(NodeIds) /\ Len(x) = m /\ \A k \in 1..m : x[k] = a[k]
    BY <1>2, <2>3, <2>4, FrontOf
  <2> QED BY <2>5 DEF m
<1> HIDE DEF x, y, z
<1> DEFINE w == x \o y
<1>a. x \in Seq(NodeIds) /\ y \in Seq(NodeIds)
  BY <1>3, <1>5
<1>6. /\ w \in Seq(NodeIds) /\ Len(w) = Len(x) + Len(y)
      /\ \A k \in 1..Len(x) : w[k] = x[k]
      /\ \A k \in 1..Len(y) : w[Len(x) + k] = y[k]
  BY <1>a, Joined
<1> HIDE DEF w
<1>7. ASSUME NEW k \in 1..(j - h + 1)
      PROVE  w[k] = z[k]
  <2>1. CASE k <= i - h
    <3>1. k \in 1..(i - h) /\ k \in 1..(i - h + 1)
      BY <1>1, <2>1
    <3> QED BY <3>1, <1>2, <1>4, <1>5, <1>6
  <2>2. CASE k > i - h
    <3> DEFINE m == k - (i - h)
    <3>1. m \in 1..(j - i + 1) /\ (i - h) + m = k /\ i + m - 1 = h + k - 1
      BY <1>1, <2>2
    <3> HIDE DEF m
    <3>2. w[k] = y[m]
      BY <3>1, <1>3, <1>5, <1>6
    <3> QED BY <3>1, <3>2, <1>3, <1>4
  <2> QED BY <1>1, <2>1, <2>2
<1>8. Len(w) = Len(z) /\ \A k \in 1..Len(w) : w[k] = z[k]
  BY <1>1, <1>3, <1>4, <1>5, <1>6, <1>7
<1>9. w = z
  BY <1>4, <1>6, <1>8, SamePath
<1> QED BY <1>9 DEF w, x, y, z

\* The pairs of a part of a line are those of its two halves, and each is in one.
LEMMA PairsSplit ==
    ASSUME NEW s \in Seq(NodeIds), IsInjective(s),
           NEW h \in 1..Len(s), NEW i \in h..Len(s), NEW j \in i..Len(s)
    PROVE  /\ Pairs(SubSeq(s, h, j)) = Pairs(SubSeq(s, h, i)) \cup Pairs(SubSeq(s, i, j))
           /\ Pairs(SubSeq(s, h, i)) \cap Pairs(SubSeq(s, i, j)) = {}
<1> DEFINE At(k) == <<s[k], s[k + 1]>>
<1>1. Len(s) \in Nat /\ h \in Nat /\ i \in Nat /\ j \in Nat /\ DOMAIN s = 1..Len(s)
  OBVIOUS
<1>2. ASSUME NEW a \in 1..Len(s), NEW b \in a..Len(s)
      PROVE  Pairs(SubSeq(s, a, b)) = {At(k) : k \in a..(b - 1)}
  <2> DEFINE x == SubSeq(s, a, b)
  <2>1. /\ a \in Nat /\ b \in Nat /\ Len(x) = b - a + 1
        /\ \A k \in 1..(b - a + 1) : x[k] = s[a + k - 1]
    BY <1>1
  <2> HIDE DEF x
  <2>2. ASSUME NEW k \in 1..(Len(x) - 1)
        PROVE  <<x[k], x[k + 1]>> \in {At(m) : m \in a..(b - 1)}
    <3>1. /\ a + k - 1 \in a..(b - 1) /\ k \in 1..(b - a + 1) /\ k + 1 \in 1..(b - a + 1)
          /\ a + (k + 1) - 1 = (a + k - 1) + 1
      BY <2>1
    <3>2. <<x[k], x[k + 1]>> = At(a + k - 1)
      BY <2>1, <3>1
    <3> QED BY <3>1, <3>2
  <2>3. ASSUME NEW m \in a..(b - 1)
        PROVE  \E k \in 1..(Len(x) - 1) : At(m) = <<x[k], x[k + 1]>>
    <3> DEFINE k == m - a + 1
    <3>1. /\ k \in 1..(Len(x) - 1) /\ k \in 1..(b - a + 1) /\ k + 1 \in 1..(b - a + 1)
          /\ a + k - 1 = m /\ a + (k + 1) - 1 = m + 1
      BY <2>1
    <3> HIDE DEF k
    <3>2. x[k] = s[m] /\ x[k + 1] = s[m + 1]
      BY <2>1, <3>1
    <3> QED BY <3>1, <3>2
  <2>4. Pairs(x) = {At(k) : k \in a..(b - 1)}
    <3> HIDE DEF At
    <3> QED BY <2>2, <2>3 DEF Pairs
  <2> QED BY <2>4 DEF x
<1>3. /\ Pairs(SubSeq(s, h, j)) = {At(k) : k \in h..(j - 1)}
      /\ Pairs(SubSeq(s, h, i)) = {At(k) : k \in h..(i - 1)}
      /\ Pairs(SubSeq(s, i, j)) = {At(k) : k \in i..(j - 1)}
  <2>1. /\ j \in h..Len(s) /\ i \in 1..Len(s)
    BY <1>1
  <2> HIDE DEF At
  <2> QED BY <1>2, <2>1
<1>4. h..(j - 1) = (h..(i - 1)) \cup (i..(j - 1))
  BY <1>1
<1>5. ASSUME NEW k \in h..(i - 1), NEW m \in i..(j - 1), At(k) = At(m)
      PROVE  FALSE
  <2>1. k \in 1..Len(s) /\ m \in 1..Len(s) /\ k # m
    BY <1>1
  <2> QED BY <1>1, <1>5, <2>1 DEF IsInjective
<1> HIDE DEF At
<1> QED BY <1>3, <1>4, <1>5

\* As many edges as pairs: when each pair of a path has one edge.
LEMMA PathEdgesCount ==
    ASSUME NEW path \in Seq(NodeIds), IsInjective(path), path # <<>>,
           NEW es, {PairOf(e) : e \in es} = Pairs(path),
           \A e, f \in es : PairOf(e) = PairOf(f) => e = f
    PROVE  Cardinality(es) = Len(path) - 1
<1> DEFINE n == Len(path) - 1
           At(k) == <<path[k], path[k + 1]>>
           f == [k \in 1..n |-> CHOOSE e \in es : PairOf(e) = At(k)]
<1>1. Len(path) \in Nat /\ Len(path) # 0 /\ DOMAIN path = 1..Len(path)
  OBVIOUS
<1>2. n \in Nat /\ \A k \in 1..n : k \in DOMAIN path /\ k + 1 \in DOMAIN path
  BY <1>1
<1>3. Pairs(path) = {At(k) : k \in 1..n}
  BY DEF Pairs
<1>4. \A k, m \in 1..n : At(k) = At(m) => k = m
  BY <1>2 DEF IsInjective
<1> HIDE DEF n, At
<1>5. \A k \in 1..n : \E e \in es : PairOf(e) = At(k)
  BY <1>3
<1>6. \A k \in 1..n : f[k] \in es /\ PairOf(f[k]) = At(k)
  BY <1>5
<1>7. DOMAIN f = 1..n
  OBVIOUS
<1>9. f \in [1..n -> es]
  BY <1>6
<1> HIDE DEF f
<1>8. \A e \in es : \E k \in 1..n : f[k] = e
  BY <1>3, <1>6
<1>10. f \in Bijection(1..n, es)
  BY <1>4, <1>6, <1>7, <1>8, <1>9 DEF Bijection, Injection, Surjection, IsInjective
<1>11. ExistsBijection(1..n, es)
  BY <1>10 DEF ExistsBijection
<1>12. Cardinality(es) = n
  BY <1>2, <1>11, FS_CountingElements
<1> QED BY <1>12 DEF n

-----------------------------------------------------------------------------
(* The plan an adoption leaves.                                            *)

\* Where the new route lies in the new line, and what its path holds.
AdoptedPathOf(p, i, k) ==
    /\ i \in 1..Len(NewOrder(p)) /\ k \in (i + 1)..Len(NewOrder(p))
    /\ Index(NewOrder(p), p.snapshot.from) = i
    /\ Index(NewOrder(p), p.snapshot.to) = k
    /\ NewPath(p) = SubSeq(NewOrder(p), i, k)
    /\ NewPath(p) \in Seq(NodeIds) /\ IsInjective(NewPath(p)) /\ NewPath(p) # <<>>
    /\ Interior(NewPath(p)) = p.reused \cup Created(p)

\* The nodes of r between those at i and j.
Stretch(s, i, r, j) == <<s[i]>> \o r \o <<s[j]>>

\* In a spliced line they are a part of it.
LEMMA SplicedStretch ==
    ASSUME NEW s \in Seq(NodeIds), NEW r \in Seq(NodeIds),
           NEW i \in 1..Len(s), NEW j \in (i + 1)..Len(s),
           NEW S, SplicedOf(S, NodeIds, s, i, r, j)
    PROVE  /\ Len(Stretch(s, i, r, j)) = Len(r) + 2
           /\ \A m \in 1..(Len(r) + 2) : Stretch(s, i, r, j)[m] = S[i - 1 + m]
BY SplicedPath DEF Stretch

\* The path of the new route is the part of the new line between its anchors.
LEMMA AdoptedPath ==
    ASSUME IInv, NEW p \in preview, Adoption(p), AdoptedLine(p)
    PROVE  \E i, k : AdoptedPathOf(p, i, k)
<1> DEFINE i == Index(order, p.snapshot.from)
           j == Index(order, p.snapshot.to)
           r == RouteNodes(p)
           l == Len(r)
           k == i + l + 1
           S == NewOrder(p)
           P == NewPath(p)
<1>1. /\ i \in 1..Len(order) /\ j \in (i + 1)..Len(order)
      /\ order[i] = p.snapshot.from /\ order[j] = p.snapshot.to
      /\ r \in Seq(NodeIds)
      /\ SplicedOf(S, NodeIds, order, i, r, j)
      /\ IsInjective(S)
  BY DEF AdoptedLine, CorridorFacts, CorridorPath
<1>2. order \in Seq(NodeIds) /\ Range(r) = p.reused \cup Created(p)
  <2>1. p.reused \subseteq Range(order)
    BY DEF AdoptedLine
  <2>2. \A a, b \in DOMAIN p.plan :
           p.plan[a] = p.plan[b] /\ p.plan[a] # NoNode => a = b
    BY DEF Adoption, CorridorStands
  <2> QED BY <2>1, <2>2, LineType, RouteNodesOK
<1>3. P = <<order[i]>> \o r \o <<order[j]>>
  BY <1>1 DEF NewPath
<1> HIDE DEF i, j, r, S, P
<1>e. P = Stretch(order, i, r, j)
  BY <1>3 DEF Stretch
<1>4. l \in Nat /\ i \in Nat /\ j \in Nat /\ Len(order) \in Nat /\ DOMAIN r = 1..l
  BY <1>1, <1>2
<1> HIDE DEF l
<1>5. /\ S \in Seq(NodeIds)
      /\ Len(S) = i + l + (Len(order) - j + 1)
      /\ \A m \in 1..i : S[m] = order[m]
      /\ \A m \in 1..l : S[i + m] = r[m]
      /\ \A m \in j..Len(order) : S[i + l + (m - j + 1)] = order[m]
  BY <1>1 DEF SplicedOf, l
<1>6. i \in 1..Len(S) /\ k \in (i + 1)..Len(S) /\ k \in i..Len(S)
  BY <1>1, <1>4, <1>5
<1>7. S[i] = p.snapshot.from /\ S[k] = p.snapshot.to
  <2>1. i \in 1..i /\ j \in j..Len(order) /\ i + l + (j - j + 1) = k
    BY <1>1, <1>4
  <2>2. S[i + l + (j - j + 1)] = order[j]
    BY <1>5, <2>1
  <2> QED BY <1>1, <1>5, <2>1, <2>2
<1> HIDE DEF k
<1>8. Index(S, S[i]) = i /\ Index(S, S[k]) = k
  <2>1. k \in 1..Len(S)
    BY <1>4, <1>6
  <2> QED BY <1>1, <1>5, <1>6, <2>1, IndexUnique
<1>9. P \in Seq(NodeIds)
  <2> DEFINE a == <<order[i]>>
             b == <<order[j]>>
  <2>1. order[i] \in NodeIds /\ order[j] \in NodeIds
    BY <1>1, <1>2, <1>4
  <2>2. a \in Seq(NodeIds) /\ b \in Seq(NodeIds)
    BY <2>1
  <2>3. r \in Seq(NodeIds) /\ P = a \o r \o b
    BY <1>1, <1>3
  <2> HIDE DEF a, b
  <2>4. TripleOf(a \o r \o b, NodeIds, a, r, b)
    BY <2>2, <2>3, Triple
  <2> QED BY <2>3, <2>4 DEF TripleOf
<1>10. Len(P) = l + 2 /\ \A m \in 1..(l + 2) : P[m] = S[i - 1 + m]
  <2>1. /\ SplicedOf(S, NodeIds, order, i, r, j)
        /\ i \in 1..Len(order) /\ j \in (i + 1)..Len(order)
        /\ r \in Seq(NodeIds) /\ order \in Seq(NodeIds)
    BY <1>1, <1>2
  <2>2. Len(P) = Len(r) + 2 /\ \A m \in 1..(Len(r) + 2) : P[m] = S[i - 1 + m]
    BY <1>e, <2>1, SplicedStretch
  <2> QED BY <2>2 DEF l
<1> DEFINE a == SubSeq(S, i, k)
<1>b. S \in Seq(NodeIds) /\ IsInjective(S) /\ i \in 1..Len(S) /\ k \in i..Len(S)
  BY <1>1, <1>5, <1>6
<1>11. /\ a \in Seq(NodeIds) /\ IsInjective(a) /\ Len(a) = k - i + 1
       /\ \A m \in 1..(k - i + 1) : a[m] = S[i + m - 1]
  BY <1>b, PartOfLine
<1>a. k - i + 1 = l + 2 /\ \A m \in 1..(l + 2) : i + m - 1 = i - 1 + m
  BY <1>4 DEF k
<1> HIDE DEF a
<1>12. P = a
  <2>1. Len(P) = Len(a) /\ \A m \in 1..Len(P) : P[m] = a[m]
    BY <1>10, <1>11, <1>a
  <2> QED BY <2>1, <1>9, <1>11, SamePath
<1>13. P # <<>>
  BY <1>4, <1>10
<1>14. Interior(P) = Range(r)
  <2>1. Interior(P) = {S[m] : m \in (i + 1)..(k - 1)}
    BY <1>5, <1>6, <1>12, InteriorOf DEF a
  <2>2. ASSUME NEW m \in (i + 1)..(k - 1)
        PROVE  S[m] \in Range(r)
    <3>1. m - i \in 1..l /\ i + (m - i) = m
      BY <1>4 DEF k
    <3>2. S[i + (m - i)] = r[m - i]
      BY <1>5, <3>1
    <3> QED BY <1>4, <3>1, <3>2 DEF Range
  <2>3. ASSUME NEW q \in 1..l
        PROVE  r[q] \in {S[m] : m \in (i + 1)..(k - 1)}
    <3>1. i + q \in (i + 1)..(k - 1)
      BY <1>4 DEF k
    <3> QED BY <1>5, <3>1
  <2> QED BY <1>4, <2>1, <2>2, <2>3 DEF Range
<1>15. AdoptedPathOf(p, i, k)
  BY <1>1, <1>2, <1>6, <1>7, <1>8, <1>9, <1>11, <1>12, <1>13, <1>14
     DEF AdoptedPathOf, a, P, S
<1> QED BY <1>15

\* The edges of the new route, told by their ids, their route or their places.
AdoptedEdgesOf(p) ==
    /\ {e \in edge' : e.id \in Ids(NewEdges(p))} = NewEdges(p)
    /\ {e \in edge' : e.route = version} = NewEdges(p)
    /\ {e \in edge' : PairOf(e) \in Pairs(NewPath(p))} = NewEdges(p)
    /\ {PairOf(e) : e \in NewEdges(p)} = Pairs(NewPath(p))
    /\ \A e \in NewEdges(p) : e.route = version /\ ~e.actual /\ ~e.flight
    /\ Cardinality(NewEdges(p)) = Len(NewPath(p)) - 1

LEMMA AdoptedEdges ==
    ASSUME IInv, TraceInv, NEW p \in preview, AdoptedLine(p), Adopt(p)
    PROVE  AdoptedEdgesOf(p)
<1> DEFINE new == NewEdges(p)
           path == NewPath(p)
           l == Len(path) - 1
           Row(m) == Edge(<<version, m>>, path[m], path[m + 1], version)
<1>1. edge' = (edge \ OldEdges(p)) \cup new
  BY DEF Adopt
<1>2. PICK i, k : AdoptedPathOf(p, i, k)
  BY AdoptedPath DEF Adopt
<1>3. path \in Seq(NodeIds) /\ IsInjective(path) /\ path # <<>>
  BY <1>2 DEF AdoptedPathOf
<1>4. new = {Row(m) : m \in 1..l}
  BY DEF NewEdges
<1>5. \A m \in 1..l : /\ Row(m).route = version /\ ~Row(m).actual /\ ~Row(m).flight
                      /\ PairOf(Row(m)) = <<path[m], path[m + 1]>>
  BY DEF Edge, PairOf
<1>6. Pairs(path) = {<<path[m], path[m + 1]>> : m \in 1..l}
  BY DEF Pairs
<1> HIDE DEF Row, l, path
<1>7. /\ {PairOf(e) : e \in new} = Pairs(path)
      /\ \A e \in new : e.route = version /\ ~e.actual /\ ~e.flight
  BY <1>4, <1>5, <1>6
<1>8. /\ \A e \in new : e.id[1] = version
      /\ \A e, f \in new : PairOf(e) = PairOf(f) => e = f
      /\ \A f \in edge : PairOf(f) \notin Pairs(p.corridor.path) =>
           \A e \in new : PairOf(e) # PairOf(f)
  BY AdoptNewEdges
<1> HIDE DEF new
<1>9. ASSUME NEW f \in edge \ OldEdges(p)
      PROVE  /\ f.route # version /\ f.id \notin Ids(new)
             /\ PairOf(f) \notin Pairs(path)
  <2>1. f.route # version
    <3>1. version \notin DOMAIN route /\ version # 0
      BY VersionType DEF IInv, RoutesOK, PlanOK
    <3> QED BY <3>1 DEF TraceInv
  <2>2. f.id \notin Ids(new)
    <3>1. f.id[1] < version /\ version \in Nat
      BY VersionType
    <3> QED BY <3>1, <1>8 DEF Ids
  <2>3. PairOf(f) \notin Pairs(p.corridor.path)
    BY OldEdgesAre
  <2> QED BY <2>1, <2>2, <2>3, <1>7, <1>8
<1>10. \A e \in new : e.id \in Ids(new)
  BY DEF Ids
<1>11. /\ {e \in edge' : e.id \in Ids(new)} = new
       /\ {e \in edge' : e.route = version} = new
       /\ {e \in edge' : PairOf(e) \in Pairs(path)} = new
  BY <1>1, <1>7, <1>9, <1>10
<1>12. Cardinality(new) = Len(path) - 1
  BY <1>3, <1>7, <1>8, PathEdgesCount
<1> QED BY <1>7, <1>11, <1>12 DEF AdoptedEdgesOf, new, path

\* The nodes of the new route are its own and untouched; the others are as they were.
AdoptedNodesOf(p) ==
    /\ DOMAIN node' = (DOMAIN node \ p.remove) \cup Created(p)
    /\ \A n \in Created(p) \cup p.reused :
         /\ n \in DOMAIN node' /\ node'[n].route = version /\ node'[n].op = version
         /\ ~(ProtectedNode(n)')
    /\ \A n \in DOMAIN node \ Interior(p.corridor.path) :
         /\ n \in DOMAIN node'
         /\ node'[n].kind = node[n].kind /\ node'[n].route = node[n].route
         /\ n \notin p.adjust => node'[n] = node[n]
         /\ n \in p.adjust => node'[n].dwell = 1
    /\ \A n \in DOMAIN node' : node'[n].route = version => n \in Created(p) \cup p.reused
    /\ p.adjust \subseteq DOMAIN node \ Interior(p.corridor.path)
    /\ Created(p) \cap DOMAIN node = {}

LEMMA AdoptedNodes ==
    ASSUME IInv, NEW p \in preview, AdoptedLine(p), Adopt(p)
    PROVE  AdoptedNodesOf(p)
<1>1. /\ node' = [m \in (DOMAIN node \ p.remove) \cup Created(p) |-> NewNode(p, m)]
      /\ \A n \in Interior(p.corridor.path) : ~ProtectedNode(n)
  BY DEF Adopt, Adoption, ContentReplaceable
<1>2. /\ p.reused \cup p.remove = Interior(p.corridor.path)
      /\ p.reused \cap p.remove = {}
      /\ Interior(p.corridor.path)
            \subseteq Range(order) \ {p.snapshot.from, p.snapshot.to}
      /\ p.snapshot.to \in Range(order)
      /\ \A n \in Created(p) : \E k \in DOMAIN p.snapshot.stops : n = <<version, k>>
  BY DEF AdoptedLine
<1>3. p.adjust \subseteq {p.snapshot.to}
  BY DEF IInv, DraftsOK
<1>4. /\ \A n \in DOMAIN node : /\ node[n] \in NodeRows
                                /\ node[n].route \in DOMAIN route \cup {0}
      /\ DOMAIN node = Range(order)
      /\ version \in Nat /\ version # 0 /\ version \notin DOMAIN route
  BY LineType, VersionType DEF IInv, RoutesOK, PlanOK
<1>5. Created(p) \cap DOMAIN node = {}
  BY <1>2, <1>4, VersionType
<1>6. p.adjust \subseteq DOMAIN node \ Interior(p.corridor.path)
  BY <1>2, <1>3, <1>4
<1>7. ASSUME NEW n \in p.reused
      PROVE  /\ n \in DOMAIN node' /\ node'[n].route = version /\ node'[n].op = version
             /\ ~(ProtectedNode(n)')
  <2>1. n \in DOMAIN node /\ n \notin p.remove /\ ~ProtectedNode(n)
    BY <1>1, <1>2, <1>4
  <2>2. node'[n] = [node[n] EXCEPT !.route = version, !.op = version]
    BY <1>1, <2>1 DEF NewNode
  <2>3. /\ node'[n].route = version /\ node'[n].op = version
        /\ node'[n].touched = node[n].touched /\ node'[n].dwell = node[n].dwell
        /\ node'[n].actual = node[n].actual
    BY <1>4, <2>1, <2>2 DEF NodeRows
  <2> QED BY <1>1, <2>1, <2>3 DEF ProtectedNode, UserContent
<1>8. ASSUME NEW n \in Created(p)
      PROVE  /\ n \in DOMAIN node' /\ node'[n].route = version /\ node'[n].op = version
             /\ ~(ProtectedNode(n)')
  <2>1. n \notin DOMAIN node /\ n \notin p.reused /\ n \notin p.adjust
    BY <1>2, <1>4, <1>5, <1>6
  <2>2. node'[n] = GeneratedNode(p.snapshot.stops[n[2]], version)
    BY <1>1, <2>1 DEF NewNode
  <2>3. /\ node'[n].route = version /\ node'[n].op = version
        /\ node'[n].touched = FALSE /\ node'[n].dwell = 0 /\ node'[n].actual = {}
    BY <2>2 DEF GeneratedNode
  <2> QED BY <1>1, <2>3 DEF ProtectedNode, UserContent
<1>9. ASSUME NEW n \in DOMAIN node \ Interior(p.corridor.path)
      PROVE  /\ n \in DOMAIN node'
             /\ node'[n].kind = node[n].kind /\ node'[n].route = node[n].route
             /\ n \notin p.adjust => node'[n] = node[n]
             /\ n \in p.adjust => node'[n].dwell = 1
  <2>1. n \notin p.reused /\ n \notin p.remove
    BY <1>2
  <2>2. n \in DOMAIN node' /\ node'[n] = NewNode(p, n)
    BY <1>1, <2>1
  <2>3. CASE n \in p.adjust
    <3>1. NewNode(p, n) = [node[n] EXCEPT !.dwell = 1]
      BY <2>1, <2>3 DEF NewNode
    <3> QED BY <1>4, <2>2, <2>3, <3>1 DEF NodeRows
  <2>4. CASE n \notin p.adjust
    BY <2>1, <2>2, <2>4 DEF NewNode
  <2> QED BY <2>3, <2>4
<1>10. ASSUME NEW n \in DOMAIN node', node'[n].route = version
       PROVE  n \in Created(p) \cup p.reused
  <2>1. n \in DOMAIN node \/ n \in Created(p)
    BY <1>1
  <2>2. ASSUME n \in DOMAIN node, n \notin p.reused, n \notin Created(p) PROVE FALSE
    <3>1. n \notin Interior(p.corridor.path)
      BY <1>1, <1>2, <2>2
    <3> QED BY <1>4, <1>9, <1>10, <2>2, <3>1
  <2> QED BY <2>1, <2>2
<1> QED BY <1>1, <1>5, <1>6, <1>7, <1>8, <1>9, <1>10 DEF AdoptedNodesOf

-----------------------------------------------------------------------------
(* The corridor of a route, and the new route's own.                       *)

\* What a route must own to be replaced, and the corridor it then is.
Owns(nd, es, r, path) ==
    /\ nd[r.from].kind = "PLACE_VISIT"
    /\ \A n \in Interior(path) : nd[n].route = r.id
    /\ \A n \in DOMAIN nd : nd[n].route = r.id => n \in Range(path)
    /\ {PairOf(e) : e \in {f \in es : f.route = r.id}} = Pairs(path)
    /\ Cardinality({e \in es : PairOf(e) \in Pairs(path)}) = Len(path) - 1

EdgeIdsIn(es, r, path) ==
    {e.id : e \in {f \in {g \in es : g.route = r.id} : PairOf(f) \in Pairs(path)}}

StretchOf(es, r, from, rest, kept) ==
    [scope |-> IF from = r.from THEN "FULL_CORRIDOR" ELSE "SUFFIX",
     source |-> r.id, sourceFrom |-> r.from,
     path |-> rest, edges |-> EdgeIdsIn(es, r, rest),
     prefix |-> kept, prefixEdges |-> EdgeIdsIn(es, r, kept)]

\* A route's corridor, by the three parts of the line it is made of.
LEMMA RouteCorridorIs ==
    ASSUME NEW ord, NEW nd, NEW es, NEW r, NEW from, NEW to,
           NEW path, path = SubSeq(ord, Index(ord, r.from), Index(ord, to)),
           NEW rest, rest = SubSeq(ord, Index(ord, from), Index(ord, to)),
           NEW kept, kept = IF from = r.from THEN <<>>
                            ELSE SubSeq(ord, Index(ord, r.from), Index(ord, from))
    PROVE  RouteCorridor(ord, nd, es, r, from, to)
             = IF Owns(nd, es, r, path) THEN StretchOf(es, r, from, rest, kept)
               ELSE NoCorridor
BY DEF RouteCorridor, Owns, StretchOf, EdgeIdsIn

\* Its source is the route.
LEMMA RouteCorridorSource ==
    ASSUME NEW ord, NEW nd, NEW es, NEW r, NEW from, NEW to,
           NEW c, c = RouteCorridor(ord, nd, es, r, from, to), c # NoCorridor
    PROVE  c.source = r.id
BY DEF RouteCorridor

\* With one route that ends there, the corridor is that route's.
LEMMA OneRouteCorridor ==
    ASSUME NEW ord, NEW nd, NEW es, NEW r, NEW from, NEW to,
           Index(ord, from) \in Nat, Index(ord, to) \in Nat,
           Index(ord, from) < Index(ord, to),
           Index(ord, r.from) \in 1..Index(ord, from), r.to = to,
           nd[from].kind = "PLACE_VISIT", nd[to].kind = "PLACE_VISIT"
    PROVE  CorridorIn(ord, nd, es, {r}, from, to) = RouteCorridor(ord, nd, es, r, from, to)
<1> DEFINE matches == RoutesEndingAt(ord, {r}, from, to)
<1>1. matches = {r}
  BY DEF RoutesEndingAt
<1>2. Cardinality({r}) = 1
  BY FS_Singleton
<1>3. /\ matches # {} /\ ~(Cardinality(matches) > 1)
      /\ (CHOOSE x \in matches : TRUE) = r
  BY <1>1, <1>2
<1>4. Index(ord, from) # 0 /\ ~(Index(ord, to) <= Index(ord, from))
  OBVIOUS
<1> HIDE DEF matches
<1> QED BY <1>3, <1>4 DEF CorridorIn, matches

\* The corridor found is between neighbours, or is a route's.
RouteCorridorAt(c, q, from, to) ==
    /\ q \in ActiveRoutes
    /\ c = RouteCorridor(order, node, edge, AnchorsOf(q), from, to)
    /\ c.source = q
    /\ route[q].to = to
    /\ Index(order, route[q].from) \in 1..Index(order, from)

LEMMA CorridorIs ==
    ASSUME PlanOK, RoutesOK, NEW from, NEW to,
           NEW c, c = Corridor(from, to), c # NoCorridor
    PROVE  /\ node[from].kind = "PLACE_VISIT" /\ node[to].kind = "PLACE_VISIT"
           /\ \/ c.source = 0 /\ c.scope = "FULL_CORRIDOR"
              \/ RouteCorridorAt(c, c.source, from, to)
<1> DEFINE rs == {AnchorsOf(r) : r \in ActiveRoutes}
           matches == RoutesEndingAt(order, rs, from, to)
<1>1. /\ node[from].kind = "PLACE_VISIT" /\ node[to].kind = "PLACE_VISIT"
      /\ c = IF matches = {} THEN FreshCorridor(order, edge, from, to)
             ELSE RouteCorridor(order, node, edge, CHOOSE r \in matches : TRUE,
                                from, to)
  BY DEF Corridor, CorridorIn
<1>2. CASE matches = {}
  <2>1. c = FreshCorridor(order, edge, from, to)
    BY <1>1, <1>2
  <2>2. c.source = 0 /\ c.scope = "FULL_CORRIDOR"
    BY <2>1 DEF FreshCorridor
  <2> QED BY <1>1, <2>2
<1>3. CASE matches # {}
  <2> DEFINE r == CHOOSE x \in matches : TRUE
  <2>1. r \in matches
    BY <1>3
  <2>2. c = RouteCorridor(order, node, edge, r, from, to)
    BY <1>1, <1>3
  <2> HIDE DEF r
  <2>3. PICK q \in ActiveRoutes : r = AnchorsOf(q)
    BY <2>1 DEF RoutesEndingAt
  <2>4. r.id = q /\ r.from = route[q].from /\ r.to = route[q].to
    BY <2>3 DEF AnchorsOf
  <2>5. r.to = to /\ Index(order, r.from) \in 1..Index(order, from)
    BY <2>1 DEF RoutesEndingAt
  <2>6. c.source = q
    BY <2>2, <2>4, RouteCorridorSource
  <2>7. RouteCorridorAt(c, c.source, from, to)
    BY <2>2, <2>3, <2>4, <2>5, <2>6 DEF RouteCorridorAt
  <2> QED BY <1>1, <2>7
<1> QED BY <1>2, <1>3

\* The new route's own corridor is the whole of it.
LEMMA CorridorAfter ==
    ASSUME IInv, TraceInv, NEW p \in preview, AdoptedLine(p), Adopt(p),
           NEW r, r.id = version, r.from = p.snapshot.from, r.to = p.snapshot.to,
           NEW c, c = CorridorIn(order', node', edge', {r}, p.snapshot.from, p.snapshot.to)
    PROVE  /\ c # NoCorridor
           /\ c.path = NewPath(p)
           /\ c.edges = Ids(NewEdges(p))
<1>0. PICK ord, nd, es : ord = order' /\ nd = node' /\ es = edge'
  OBVIOUS
<1> DEFINE from == p.snapshot.from
           to == p.snapshot.to
           path == NewPath(p)
<1>1. Adoption(p) /\ order' = NewOrder(p)
  BY DEF Adopt
<1>2. PICK i, k : AdoptedPathOf(p, i, k)
  BY <1>1, AdoptedPath
<1>3. /\ i \in 1..Len(order') /\ k \in (i + 1)..Len(order')
      /\ Index(order', from) = i /\ Index(order', to) = k
      /\ path = SubSeq(order', i, k)
      /\ path \in Seq(NodeIds) /\ IsInjective(path)
      /\ Interior(path) = p.reused \cup Created(p)
  BY <1>1, <1>2 DEF AdoptedPathOf
<1>4. Len(order') \in Nat
  <2>1. order' \in Seq(NodeIds)
    BY <1>1 DEF AdoptedLine, SplicedOf
  <2> QED BY <2>1
<1>5. i \in Nat /\ k \in Nat /\ i < k /\ i \in 1..i
  BY <1>3, <1>4
<1>6. r.id = version /\ r.from = from /\ r.to = to
  OBVIOUS
<1>7. AdoptedNodesOf(p) /\ AdoptedEdgesOf(p)
  BY AdoptedNodes, AdoptedEdges
<1>8. node'[from].kind = "PLACE_VISIT" /\ node'[to].kind = "PLACE_VISIT"
  <2>1. node[from].kind = "PLACE_VISIT" /\ node[to].kind = "PLACE_VISIT"
    <3>1. p.corridor = Corridor(from, to) /\ p.corridor # NoCorridor
      BY <1>1 DEF Adoption, CorridorStands, IInv, DraftsOK
    <3> QED BY <3>1, CorridorIs DEF IInv
  <2>2. /\ from \in DOMAIN node \ Interior(p.corridor.path)
        /\ to \in DOMAIN node \ Interior(p.corridor.path)
    BY VersionType DEF AdoptedLine
  <2> QED BY <1>7, <2>1, <2>2 DEF AdoptedNodesOf
<1> HIDE DEF from, to, path
<1>9. c = RouteCorridor(ord, nd, es, r, from, to)
  <2>1. /\ Index(ord, from) = i /\ Index(ord, to) = k /\ Index(ord, r.from) = i
        /\ nd[from].kind = "PLACE_VISIT" /\ nd[to].kind = "PLACE_VISIT"
        /\ r.to = to
    BY <1>0, <1>3, <1>6, <1>8
  <2>2. /\ Index(ord, from) \in Nat /\ Index(ord, to) \in Nat
        /\ Index(ord, from) < Index(ord, to)
        /\ Index(ord, r.from) \in 1..Index(ord, from)
    BY <1>5, <2>1
  <2>3. CorridorIn(ord, nd, es, {r}, from, to) = RouteCorridor(ord, nd, es, r, from, to)
    BY <2>1, <2>2, OneRouteCorridor
  <2> QED BY <1>0, <2>3 DEF from, to
<1>10. c = IF Owns(node', edge', r, path) THEN StretchOf(edge', r, from, path, <<>>)
           ELSE NoCorridor
  <2> DEFINE none == <<>>
  <2>1. /\ path = SubSeq(ord, Index(ord, r.from), Index(ord, to))
        /\ path = SubSeq(ord, Index(ord, from), Index(ord, to))
        /\ none = IF from = r.from THEN <<>>
                  ELSE SubSeq(ord, Index(ord, r.from), Index(ord, from))
    BY <1>0, <1>3, <1>6
  <2> HIDE DEF none
  <2>2. RouteCorridor(ord, nd, es, r, from, to)
          = IF Owns(nd, es, r, path) THEN StretchOf(es, r, from, path, none)
            ELSE NoCorridor
    BY <2>1, RouteCorridorIs
  <2> QED BY <1>0, <1>9, <2>2 DEF none
<1>11. Interior(path) \subseteq Range(path)
  <2>1. DOMAIN path = 1..Len(path) /\ Len(path) \in Nat
    BY <1>3
  <2>2. \A m \in 2..(Len(path) - 1) : m \in DOMAIN path
    BY <2>1
  <2> QED BY <2>2 DEF Interior, Range
<1>12. Owns(node', edge', r, path)
  <2>1. node'[r.from].kind = "PLACE_VISIT"
    BY <1>6, <1>8
  <2>2. \A n \in Interior(path) : node'[n].route = r.id
    BY <1>3, <1>6, <1>7 DEF AdoptedNodesOf
  <2>3. \A n \in DOMAIN node' : node'[n].route = r.id => n \in Range(path)
    BY <1>3, <1>6, <1>7, <1>11 DEF AdoptedNodesOf
  <2>4. /\ {f \in edge' : f.route = r.id} = NewEdges(p)
        /\ {PairOf(e) : e \in NewEdges(p)} = Pairs(path)
        /\ {e \in edge' : PairOf(e) \in Pairs(path)} = NewEdges(p)
        /\ Cardinality(NewEdges(p)) = Len(path) - 1
    BY <1>6, <1>7 DEF AdoptedEdgesOf, path
  <2> QED BY <2>1, <2>2, <2>3, <2>4 DEF Owns
<1>13. EdgeIdsIn(edge', r, path) = Ids(NewEdges(p))
  <2>1. /\ {g \in edge' : g.route = r.id} = NewEdges(p)
        /\ {PairOf(e) : e \in NewEdges(p)} = Pairs(path)
    BY <1>6, <1>7 DEF AdoptedEdgesOf, path
  <2>2. {f \in NewEdges(p) : PairOf(f) \in Pairs(path)} = NewEdges(p)
    BY <2>1
  <2> QED BY <2>1, <2>2 DEF EdgeIdsIn, Ids
<1>14. c = StretchOf(edge', r, from, path, <<>>)
  BY <1>10, <1>12
<1>15. c.scope = "FULL_CORRIDOR" /\ c.path = path /\ c.edges = Ids(NewEdges(p))
  BY <1>6, <1>13, <1>14 DEF StretchOf
<1>16. c # NoCorridor
  BY <1>15 DEF NoCorridor
<1> QED BY <1>15, <1>16 DEF path

-----------------------------------------------------------------------------
(* The route an adoption replaces a part of.                               *)

\* Route q lies from h to j, and the corridor is its rest, from i on.
SourceAt(p, q, h, i, j) ==
    /\ q \in ActiveRoutes /\ route[q].to = p.snapshot.to
    /\ h \in 1..Len(order) /\ i \in (h + 1)..Len(order) /\ j \in (i + 1)..Len(order)
    /\ order[h] = route[q].from /\ order[i] = p.snapshot.from
    /\ order[j] = p.snapshot.to
    /\ p.snapshot.from # route[q].from
    /\ p.corridor = StretchOf(edge, AnchorsOf(q), p.snapshot.from,
                              SubSeq(order, i, j), SubSeq(order, h, i))
    /\ Owns(node, edge, AnchorsOf(q), SubSeq(order, h, j))

LEMMA SourceFound ==
    ASSUME IInv, NEW p \in preview, AdoptedLine(p), Adoption(p),
           p.corridor.scope = "SUFFIX", NEW q, q = p.corridor.source
    PROVE  \E h, i, j : SourceAt(p, q, h, i, j)
<1> DEFINE c == p.corridor
           from == p.snapshot.from
           to == p.snapshot.to
           r == AnchorsOf(q)
           h == Index(order, route[q].from)
           i == Index(order, from)
           j == Index(order, to)
           path == SubSeq(order, h, j)
           rest == SubSeq(order, i, j)
           kept == IF from = r.from THEN <<>> ELSE SubSeq(order, h, i)
<1>1. c = Corridor(from, to) /\ c # NoCorridor
  BY DEF Adoption, CorridorStands, IInv, DraftsOK
<1>2. RouteCorridorAt(c, q, from, to)
  BY <1>1, CorridorIs DEF IInv
<1>3. /\ i \in 1..Len(order) /\ j \in (i + 1)..Len(order)
      /\ order[i] = from /\ order[j] = to
  BY DEF AdoptedLine, CorridorFacts, CorridorPath
<1>4. /\ q \in ActiveRoutes /\ route[q].to = to /\ h \in 1..i
      /\ c = RouteCorridor(order, node, edge, r, from, to)
  BY <1>2 DEF RouteCorridorAt
<1>5. r.id = q /\ r.from = route[q].from /\ r.to = route[q].to
  BY DEF AnchorsOf
<1>6. order \in Seq(NodeIds) /\ Len(order) \in Nat
  BY LineType
<1>7. order[h] = route[q].from
  <2>1. h # 0
    BY <1>3, <1>4, <1>6
  <2> QED BY <1>6, <2>1, IndexFound
<1> HIDE DEF r
<1>8. c = IF Owns(node, edge, r, path) THEN StretchOf(edge, r, from, rest, kept)
          ELSE NoCorridor
  <2>1. /\ path = SubSeq(order, Index(order, r.from), Index(order, to))
        /\ rest = SubSeq(order, Index(order, from), Index(order, to))
        /\ kept = IF from = r.from THEN <<>>
                  ELSE SubSeq(order, Index(order, r.from), Index(order, from))
    BY <1>5
  <2> HIDE DEF path, rest, kept, from, to, c, i, j, h
  <2>2. RouteCorridor(order, node, edge, r, from, to)
          = IF Owns(node, edge, r, path) THEN StretchOf(edge, r, from, rest, kept)
            ELSE NoCorridor
    BY <2>1, RouteCorridorIs
  <2> QED BY <1>4, <2>2
<1> HIDE DEF c, i, j, h, path, rest, from, to
<1>9. Owns(node, edge, r, path) /\ c = StretchOf(edge, r, from, rest, kept)
  BY <1>1, <1>8
<1>10. from # r.from
  BY <1>9 DEF StretchOf, c
<1>11. kept = SubSeq(order, h, i)
  BY <1>10
<1> HIDE DEF kept
<1>12. h # i
  BY <1>3, <1>5, <1>7, <1>10
<1>13. h \in 1..Len(order) /\ i \in (h + 1)..Len(order)
  BY <1>3, <1>4, <1>6, <1>12
<1>14. /\ c = StretchOf(edge, r, from, SubSeq(order, i, j), SubSeq(order, h, i))
       /\ Owns(node, edge, r, SubSeq(order, h, j))
  BY <1>9, <1>11 DEF path, rest
<1>15. SourceAt(p, q, h, i, j)
  BY <1>3, <1>4, <1>5, <1>7, <1>10, <1>13, <1>14 DEF SourceAt, c, from, to, r
<1> QED BY <1>15

\* The edges of route q from h to i.
KeptEdges(q, h, i) ==
    {e \in edge : e.route = q /\ PairOf(e) \in Pairs(SubSeq(order, h, i))}

\* The edges of the route to be replaced are those kept and those of the corridor.
SplitEdges(p, q, h, i, j) ==
    /\ \A e \in edge : e.route = q => PairOf(e) \in Pairs(SubSeq(order, h, j))
    /\ {e \in edge : e.route = q} = KeptEdges(q, h, i) \cup OldEdges(p)
    /\ OldEdges(p) = {e \in edge : e.route = q /\ PairOf(e) \in Pairs(SubSeq(order, i, j))}
    /\ \A e \in KeptEdges(q, h, i), f \in OldEdges(p) : PairOf(e) # PairOf(f)
    /\ {e \in edge : e.id \in p.corridor.prefixEdges} = KeptEdges(q, h, i)
    /\ {e \in edge' : e.id \in p.corridor.prefixEdges} = KeptEdges(q, h, i)

LEMMA SourceEdges ==
    ASSUME IInv, NEW p \in preview, AdoptedLine(p), Adopt(p),
           NEW q, NEW h, NEW i, NEW j, SourceAt(p, q, h, i, j)
    PROVE  SplitEdges(p, q, h, i, j)
<1> DEFINE path == SubSeq(order, h, j)
           rest == SubSeq(order, i, j)
           kept == SubSeq(order, h, i)
           r == AnchorsOf(q)
           own == {e \in edge : e.route = q}
           keptEs == KeptEdges(q, h, i)
           old == OldEdges(p)
<1>1. /\ h \in 1..Len(order) /\ i \in (h + 1)..Len(order) /\ j \in (i + 1)..Len(order)
      /\ p.corridor = StretchOf(edge, r, p.snapshot.from, rest, kept)
      /\ Owns(node, edge, r, path)
  BY DEF SourceAt
<1>2. r.id = q
  BY DEF AnchorsOf
<1>3. order \in Seq(NodeIds) /\ IsInjective(order) /\ Len(order) \in Nat
  BY LineType
<1>4. i \in h..Len(order) /\ j \in i..Len(order)
  BY <1>1, <1>3
<1>5. Pairs(path) = Pairs(kept) \cup Pairs(rest) /\ Pairs(kept) \cap Pairs(rest) = {}
  BY <1>1, <1>3, <1>4, PairsSplit
<1>6. {PairOf(e) : e \in own} = Pairs(path)
  BY <1>1, <1>2 DEF Owns
<1>7. /\ \A e, f \in edge : PairOf(e) = PairOf(f) => e = f
      /\ \A e, f \in edge : e.id = f.id => e = f
  BY DEF IInv, PlanOK, EdgesOK
<1> HIDE DEF path, rest, kept, r
<1>8. /\ p.corridor.path = rest
      /\ p.corridor.prefixEdges = EdgeIdsIn(edge, r, kept)
  BY <1>1 DEF StretchOf
<1>9. old = {e \in edge : PairOf(e) \in Pairs(rest)}
  BY <1>8, OldEdgesAre
<1>10. keptEs = {e \in own : PairOf(e) \in Pairs(kept)}
  BY DEF KeptEdges, kept
<1>11. old = {e \in own : PairOf(e) \in Pairs(rest)}
  <2>1. ASSUME NEW e \in edge, PairOf(e) \in Pairs(rest)
        PROVE  e \in own
    <3>1. PairOf(e) \in {PairOf(f) : f \in own}
      BY <1>5, <1>6, <2>1
    <3> QED BY <3>1, <1>7
  <2> QED BY <1>9, <2>1
<1>12. \A e \in own : PairOf(e) \in Pairs(path)
  BY <1>6
<1>13. p.corridor.prefixEdges = Ids(keptEs)
  BY <1>2, <1>8, <1>10 DEF EdgeIdsIn, Ids
<1>14. own \subseteq edge
  OBVIOUS
<1> HIDE DEF own, keptEs, old
<1>15. own = keptEs \cup old
  BY <1>5, <1>10, <1>11, <1>12
<1>16. \A e \in keptEs, f \in old : PairOf(e) # PairOf(f)
  BY <1>5, <1>10, <1>11
<1>17. {e \in edge : e.id \in Ids(keptEs)} = keptEs
  BY <1>7, <1>14, <1>15 DEF Ids
<1>18. {e \in edge' : e.id \in Ids(keptEs)} = keptEs
  <2>1. edge' = (edge \ old) \cup NewEdges(p)
    BY DEF Adopt, old
  <2>2. \A e \in NewEdges(p) : e.id \notin Ids(keptEs)
    <3>1. \A e \in NewEdges(p) : e.id[1] = version
      BY AdoptNewEdges
    <3>2. \A e \in keptEs : e.id[1] < version /\ version \in Nat
      BY <1>14, <1>15, VersionType
    <3> QED BY <3>1, <3>2 DEF Ids
  <2>3. keptEs \cap old = {}
    BY <1>16
  <2> QED BY <1>17, <2>1, <2>2, <2>3
<1>19. /\ \A e \in edge : e.route = q => PairOf(e) \in Pairs(path)
       /\ old = {e \in edge : e.route = q /\ PairOf(e) \in Pairs(rest)}
  BY <1>11, <1>12 DEF own
<1> QED BY <1>13, <1>15, <1>16, <1>17, <1>18, <1>19
      DEF SplitEdges, path, rest, own, keptEs, old

-----------------------------------------------------------------------------
(* The corridor undo finds in what adoption kept and archived.             *)

\* What undo would restore is what adoption archived.
LEMMA AdoptedHistories ==
    ASSUME IInv, NEW p \in preview, AdoptedLine(p), Adopt(p),
           NEW d, d.archived = p.corridor.edges
    PROVE  /\ Histories(d)' = {Archived(e) : e \in OldEdges(p)}
           /\ d.archived \subseteq Ids(history')
<1> DEFINE old == OldEdges(p)
           gone == {Archived(e) : e \in old}
<1>1. history' = history \cup gone
  BY DEF Adopt
<1>2. old \subseteq edge /\ \A e \in edge : e \in old <=> e.id \in d.archived
  BY DEF OldEdges
<1>3. edge \subseteq EdgeRows /\ \A e \in edge, f \in history : e.id # f.id
  BY DEF IInv, PlanOK, EdgesOK
<1>4. d.archived \subseteq Ids(edge)
  <2>1. p.corridor.edges = Ids({e \in edge : PairOf(e) \in Pairs(p.corridor.path)})
    BY DEF AdoptedLine, CorridorFacts, CorridorPath
  <2> QED BY <2>1 DEF Ids
<1>5. \A g \in gone : \E e \in old : g = Archived(e) /\ g.id = e.id
  BY <1>2, <1>3, ArchivedRow
<1>6. \A e \in old : Archived(e) \in gone /\ Archived(e).id = e.id
  BY <1>2, <1>3, ArchivedRow
<1> HIDE DEF old, gone
<1>7. {e \in history' : e.id \in d.archived} = gone
  <2>1. \A e \in history : e.id \notin d.archived
    BY <1>3, <1>4 DEF Ids
  <2>2. \A g \in gone : g.id \in d.archived
    BY <1>2, <1>5
  <2> QED BY <2>1, <2>2, <1>1
<1>8. d.archived \subseteq Ids(history')
  <2> SUFFICES ASSUME NEW x \in d.archived PROVE x \in Ids(history')
    OBVIOUS
  <2>1. PICK e \in edge : x = e.id
    BY <1>4 DEF Ids
  <2>2. Archived(e) \in history' /\ Archived(e).id = x
    BY <1>1, <1>2, <1>6, <2>1
  <2> QED BY <2>2 DEF Ids
<1> QED BY <1>7, <1>8 DEF Histories, old, gone

\* A route's edges, some of them from the archive.
BackFromArchive(K, O) == K \cup {Archived(e) : e \in O}

\* K and O are the edges of route r, over the path.
OwnEdges(K, O, es, r, path) ==
    /\ K \subseteq EdgeRows /\ O \subseteq EdgeRows
    /\ \A e \in K \cup O : e.route = r.id
    /\ {PairOf(e) : e \in K \cup O} = Pairs(path)
    /\ \A e, f \in K \cup O : PairOf(e) = PairOf(f) => e = f
    /\ \A e \in K, f \in O : PairOf(e) # PairOf(f)
    /\ {g \in es : g.route = r.id} = K \cup O

\* E is all of the route's edges, one for each pair of the path, under the ids in es.
SameEdges(E, es, r, path) ==
    /\ {e \in E : e.route = r.id} = E
    /\ {e \in E : PairOf(e) \in Pairs(path)} = E
    /\ {PairOf(e) : e \in E} = Pairs(path)
    /\ \A e, f \in E : PairOf(e) = PairOf(f) => e = f
    /\ \A x : EdgeIdsIn(E, r, x) = EdgeIdsIn(es, r, x)

\* They are what the route's edges were: the same pairs under the same ids.
LEMMA ArchivedPart ==
    ASSUME NEW K, NEW O, NEW es, NEW r, NEW path, OwnEdges(K, O, es, r, path)
    PROVE  SameEdges(BackFromArchive(K, O), es, r, path)
<1> DEFINE E == BackFromArchive(K, O)
<1>0. /\ K \subseteq EdgeRows /\ O \subseteq EdgeRows
      /\ \A e \in K \cup O : e.route = r.id
      /\ {PairOf(e) : e \in K \cup O} = Pairs(path)
      /\ \A e, f \in K \cup O : PairOf(e) = PairOf(f) => e = f
      /\ \A e \in K, f \in O : PairOf(e) # PairOf(f)
      /\ {g \in es : g.route = r.id} = K \cup O
  BY DEF OwnEdges
<1>1. \A e \in O : /\ Archived(e) \in E /\ Archived(e).id = e.id
                   /\ Archived(e).route = e.route /\ PairOf(Archived(e)) = PairOf(e)
  BY <1>0, ArchivedRow, ArchivedOwner DEF BackFromArchive
<1>2. \A e \in E : e \in K \/ \E f \in O : e = Archived(f)
  BY DEF BackFromArchive
<1>3. \A e \in E : \E f \in K \cup O :
        e.id = f.id /\ e.route = f.route /\ PairOf(e) = PairOf(f)
  BY <1>1, <1>2
<1>4. \A f \in K \cup O : \E e \in E :
        e.id = f.id /\ e.route = f.route /\ PairOf(e) = PairOf(f)
  BY <1>1 DEF BackFromArchive
<1> HIDE DEF E
<1>5. \A e \in E : e.route = r.id /\ PairOf(e) \in Pairs(path)
  BY <1>0, <1>3
<1>6. {PairOf(e) : e \in E} = Pairs(path)
  BY <1>0, <1>3, <1>4
<1>7. \A e, f \in E : PairOf(e) = PairOf(f) => e = f
  <2> SUFFICES ASSUME NEW e \in E, NEW f \in E, PairOf(e) = PairOf(f)
               PROVE  e = f
    OBVIOUS
  <2>1. CASE e \in K /\ f \in K
    BY <2>1, <1>0
  <2>2. CASE e \notin K /\ f \notin K
    <3>1. PICK a \in O, b \in O : e = Archived(a) /\ f = Archived(b)
      BY <2>2, <1>2
    <3>2. a = b
      BY <3>1, <1>0, <1>1
    <3> QED BY <3>1, <3>2
  <2>3. \A g \in E : g \notin K => \A k \in K : PairOf(g) # PairOf(k)
    BY <1>0, <1>1, <1>2
  <2> QED BY <2>1, <2>2, <2>3
<1>8. \A x : EdgeIdsIn(E, r, x) = EdgeIdsIn(es, r, x)
  <2> SUFFICES ASSUME NEW x PROVE EdgeIdsIn(E, r, x) = EdgeIdsIn(es, r, x)
    OBVIOUS
  <2>1. EdgeIdsIn(E, r, x) = {e.id : e \in {f \in E : PairOf(f) \in Pairs(x)}}
    BY <1>5 DEF EdgeIdsIn
  <2>2. EdgeIdsIn(es, r, x) = {e.id : e \in {f \in K \cup O : PairOf(f) \in Pairs(x)}}
    BY <1>0 DEF EdgeIdsIn
  <2> QED BY <1>3, <1>4, <2>1, <2>2
<1> QED BY <1>5, <1>6, <1>7, <1>8 DEF SameEdges, E

\* Where a node of a line is in a part of it.
LEMMA IndexInPart ==
    ASSUME NEW s \in Seq(NodeIds), IsInjective(s),
           NEW h \in 1..Len(s), NEW j \in h..Len(s), NEW k \in h..j
    PROVE  Index(SubSeq(s, h, j), s[k]) = k - h + 1
<1> DEFINE B == SubSeq(s, h, j)
<1>1. \A m \in h..j : Index(B, s[m]) = m - h + 1
  BY PartOfLine
<1> HIDE DEF B
<1>2. Index(B, s[k]) = k - h + 1
  BY <1>1
<1> QED BY <1>2 DEF B

\* Where the parts of the replaced route are in it.
LEMMA PartsOfRoute ==
    ASSUME NEW s \in Seq(NodeIds), IsInjective(s),
           NEW h \in 1..Len(s), NEW i \in (h + 1)..Len(s), NEW j \in (i + 1)..Len(s),
           NEW B, B = SubSeq(s, h, j)
    PROVE  /\ Index(B, s[h]) = 1 /\ Index(B, s[i]) = i - h + 1
           /\ Index(B, s[j]) = j - h + 1
           /\ SubSeq(B, 1, j - h + 1) = B
           /\ SubSeq(B, i - h + 1, j - h + 1) = SubSeq(s, i, j)
           /\ SubSeq(B, 1, i - h + 1) = SubSeq(s, h, i)
           /\ SubSeq(SubSeq(s, h, i), 1, Len(SubSeq(s, h, i)) - 1) \o SubSeq(s, i, j) = B
<1>1. /\ Len(s) \in Nat /\ h \in Nat /\ i \in Nat /\ j \in Nat /\ h < i /\ i < j
      /\ h \in h..j /\ i \in h..j /\ j \in h..j /\ j \in h..Len(s)
      /\ i \in h..Len(s) /\ j \in i..Len(s) /\ j \in i..j /\ i \in h..j
      /\ h - h + 1 = 1
  OBVIOUS
<1>2. Index(B, s[h]) = 1 /\ Index(B, s[i]) = i - h + 1 /\ Index(B, s[j]) = j - h + 1
  <2>1. \A k \in h..j : Index(B, s[k]) = k - h + 1
    BY <1>1, IndexInPart
  <2> QED BY <1>1, <2>1
<1>3. /\ SubSeq(B, h - h + 1, j - h + 1) = SubSeq(s, h, j)
      /\ SubSeq(B, i - h + 1, j - h + 1) = SubSeq(s, i, j)
      /\ SubSeq(B, h - h + 1, i - h + 1) = SubSeq(s, h, i)
  <2>1. SubSeq(B, h - h + 1, j - h + 1) = SubSeq(s, h, j)
    BY <1>1, PartOfPart
  <2>2. SubSeq(B, i - h + 1, j - h + 1) = SubSeq(s, i, j)
    BY <1>1, PartOfPart
  <2>3. SubSeq(B, h - h + 1, i - h + 1) = SubSeq(s, h, i)
    BY <1>1, PartOfPart
  <2> QED BY <2>1, <2>2, <2>3
<1>4. SubSeq(SubSeq(s, h, i), 1, Len(SubSeq(s, h, i)) - 1) \o SubSeq(s, i, j)
        = SubSeq(s, h, j)
  BY <1>1, PrefixAndRest
<1> QED BY <1>1, <1>2, <1>3, <1>4

\* The nodes of a path lie on it.
LEMMA OnPath ==
    ASSUME NEW s \in Seq(NodeIds), IsInjective(s),
           NEW h \in 1..Len(s), NEW j \in h..Len(s), NEW k \in h..j
    PROVE  s[k] \in Range(SubSeq(s, h, j))
<1> DEFINE B == SubSeq(s, h, j)
<1>1. B \in Seq(NodeIds) /\ Len(B) = j - h + 1 /\ \A m \in h..j : B[m - h + 1] = s[m]
  BY PartOfLine
<1>2. k - h + 1 \in 1..(j - h + 1)
  OBVIOUS
<1> HIDE DEF B
<1>3. k - h + 1 \in DOMAIN B /\ B[k - h + 1] = s[k]
  BY <1>1, <1>2
<1> QED BY <1>3 DEF Range, B

LEMMA InteriorOnPath ==
    ASSUME NEW B \in Seq(NodeIds)
    PROVE  Interior(B) \subseteq Range(B)
<1>1. DOMAIN B = 1..Len(B) /\ Len(B) \in Nat
  OBVIOUS
<1>2. \A m \in 2..(Len(B) - 1) : m \in DOMAIN B
  BY <1>1
<1> QED BY <1>2 DEF Interior, Range

\* The nodes of B as far as a route's corridor depends on them.
NodesAsNow(old, B) ==
    /\ DOMAIN old = Range(B)
    /\ \A n \in Range(B) : old[n].kind = node[n].kind /\ old[n].route = node[n].route

\* What undo looks at to find the corridor it would give back: the line B, the
\* nodes on it, the edges E, and the replaced route q as row r.
BeforeOf(p, q, h, i, j, B, old, E, r) ==
    /\ SourceAt(p, q, h, i, j)
    /\ B = SubSeq(order, h, j)
    /\ NodesAsNow(old, B)
    /\ E = BackFromArchive(KeptEdges(q, h, i), OldEdges(p))
    /\ r.id = q /\ r.from = route[q].from /\ r.to = route[q].to

\* The replaced route owns its stretch in the plan that undo would give back.
LEMMA OwnsBefore ==
    ASSUME IInv, NEW p \in preview, AdoptedLine(p), Adopt(p),
           NEW q, NEW h, NEW i, NEW j, NEW B, NEW old, NEW E, NEW r,
           BeforeOf(p, q, h, i, j, B, old, E, r)
    PROVE  /\ Owns(old, E, r, B)
           /\ \A x : EdgeIdsIn(E, r, x) = EdgeIdsIn(edge, r, x)
<1> DEFINE K == KeptEdges(q, h, i)
           O == OldEdges(p)
           a == AnchorsOf(q)
<1>0. /\ SourceAt(p, q, h, i, j) /\ B = SubSeq(order, h, j) /\ NodesAsNow(old, B)
      /\ E = BackFromArchive(K, O) /\ r.id = q /\ r.from = route[q].from
  BY DEF BeforeOf
<1>1. /\ h \in 1..Len(order) /\ i \in (h + 1)..Len(order) /\ j \in (i + 1)..Len(order)
      /\ order[h] = route[q].from /\ Owns(node, edge, a, B)
  BY <1>0 DEF SourceAt
<1>2. order \in Seq(NodeIds) /\ IsInjective(order) /\ Len(order) \in Nat
  BY LineType
<1>3. /\ j \in h..Len(order) /\ h \in h..j
  BY <1>1, <1>2
<1>4. SplitEdges(p, q, h, i, j)
  BY <1>0, SourceEdges
<1>5. a.id = q /\ a.from = route[q].from
  BY DEF AnchorsOf
<1> HIDE DEF a
<1>6. /\ B \in Seq(NodeIds) /\ IsInjective(B) /\ Len(B) = j - h + 1
  BY <1>0, <1>1, <1>2, <1>3, PartOfLine
<1>7. B # <<>>
  <2>1. Len(B) # 0
    BY <1>1, <1>2, <1>6
  <2> QED BY <2>1
<1>8. /\ edge \subseteq EdgeRows
      /\ \A e, f \in edge : PairOf(e) = PairOf(f) => e = f
  BY DEF IInv, PlanOK, EdgesOK
<1>9. {g \in edge : g.route = r.id} = K \cup O
  BY <1>0, <1>4 DEF SplitEdges
<1>10. /\ {PairOf(e) : e \in K \cup O} = Pairs(B)
       /\ node[r.from].kind = "PLACE_VISIT"
       /\ \A n \in Interior(B) : node[n].route = q
  BY <1>0, <1>1, <1>5, <1>9 DEF Owns
<1>11. \A e \in K, f \in O : PairOf(e) # PairOf(f)
  BY <1>4 DEF SplitEdges
<1> HIDE DEF K, O
<1>12. /\ K \in SUBSET EdgeRows /\ O \in SUBSET EdgeRows
       /\ \A e \in K \cup O : e.route = r.id
       /\ \A e, f \in K \cup O : PairOf(e) = PairOf(f) => e = f
  BY <1>8, <1>9
<1>13. E = BackFromArchive(K, O)
  BY <1>0 DEF K, O
<1>a. OwnEdges(K, O, edge, r, B)
  BY <1>9, <1>10, <1>11, <1>12 DEF OwnEdges
<1>b. SameEdges(E, edge, r, B)
  BY <1>a, <1>13, ArchivedPart
<1>14. /\ {e \in E : e.route = r.id} = E
       /\ {e \in E : PairOf(e) \in Pairs(B)} = E
       /\ {PairOf(e) : e \in E} = Pairs(B)
       /\ \A e, f \in E : PairOf(e) = PairOf(f) => e = f
       /\ \A x : EdgeIdsIn(E, r, x) = EdgeIdsIn(edge, r, x)
  BY <1>b DEF SameEdges
<1>15. Cardinality(E) = Len(B) - 1
  BY <1>6, <1>7, <1>14, PathEdgesCount
<1>16. r.from \in Range(B) /\ Interior(B) \subseteq Range(B)
  BY <1>0, <1>1, <1>2, <1>3, <1>6, OnPath, InteriorOnPath
<1>17. /\ old[r.from].kind = "PLACE_VISIT"
       /\ \A n \in Interior(B) : old[n].route = r.id
  BY <1>0, <1>10, <1>16 DEF NodesAsNow
<1>18. \A n \in DOMAIN old : n \in Range(B)
  BY <1>0 DEF NodesAsNow
<1> QED BY <1>14, <1>15, <1>17, <1>18 DEF Owns

\* Its corridor there is the one adoption found.
LEMMA CorridorBefore ==
    ASSUME IInv, NEW p \in preview, AdoptedLine(p), Adopt(p),
           NEW q, NEW h, NEW i, NEW j, NEW B, NEW old, NEW E, NEW r,
           BeforeOf(p, q, h, i, j, B, old, E, r)
    PROVE  CorridorIn(B, old, E, {r}, p.snapshot.from, p.snapshot.to) = p.corridor
<1> DEFINE from == p.snapshot.from
           to == p.snapshot.to
           rest == SubSeq(order, i, j)
           kept == SubSeq(order, h, i)
           a == AnchorsOf(q)
<1>0. /\ SourceAt(p, q, h, i, j) /\ B = SubSeq(order, h, j) /\ NodesAsNow(old, B)
      /\ r.id = q /\ r.from = route[q].from /\ r.to = route[q].to
  BY DEF BeforeOf
<1>1. /\ h \in 1..Len(order) /\ i \in (h + 1)..Len(order) /\ j \in (i + 1)..Len(order)
      /\ order[h] = route[q].from /\ order[i] = from /\ order[j] = to
      /\ from # route[q].from /\ route[q].to = to
      /\ p.corridor = StretchOf(edge, a, from, rest, kept)
  BY <1>0 DEF SourceAt
<1>2. order \in Seq(NodeIds) /\ IsInjective(order) /\ Len(order) \in Nat
  BY LineType
<1>3. /\ Owns(old, E, r, B)
      /\ \A x : EdgeIdsIn(E, r, x) = EdgeIdsIn(edge, r, x)
  BY OwnsBefore
<1>4. a.id = q /\ a.from = route[q].from
  BY DEF AnchorsOf
<1> HIDE DEF a
<1>5. /\ Index(B, order[h]) = 1 /\ Index(B, order[i]) = i - h + 1
      /\ Index(B, order[j]) = j - h + 1
      /\ SubSeq(B, 1, j - h + 1) = B
      /\ SubSeq(B, i - h + 1, j - h + 1) = rest
      /\ SubSeq(B, 1, i - h + 1) = kept
  BY <1>0, <1>1, <1>2, PartsOfRoute
<1>6. Index(B, r.from) = 1 /\ Index(B, from) = i - h + 1 /\ Index(B, to) = j - h + 1
  BY <1>0, <1>1, <1>5
<1>7. from \in Range(B) /\ to \in Range(B)
  <2>1. j \in h..Len(order) /\ i \in h..j /\ j \in h..j
    BY <1>1, <1>2
  <2> QED BY <1>0, <1>1, <1>2, <2>1, OnPath
<1>8. old[from].kind = "PLACE_VISIT" /\ old[to].kind = "PLACE_VISIT"
  <2>1. p.corridor = Corridor(from, to) /\ p.corridor # NoCorridor
    BY DEF Adopt, Adoption, CorridorStands, IInv, DraftsOK
  <2>2. node[from].kind = "PLACE_VISIT" /\ node[to].kind = "PLACE_VISIT"
    BY <2>1, CorridorIs DEF IInv
  <2> QED BY <1>0, <1>7, <2>2 DEF NodesAsNow
<1>9. StretchOf(E, r, from, rest, kept) = p.corridor
  <2>1. \A x : EdgeIdsIn(edge, r, x) = EdgeIdsIn(edge, a, x)
    BY <1>0, <1>4 DEF EdgeIdsIn
  <2> QED BY <1>0, <1>1, <1>3, <1>4, <2>1 DEF StretchOf
<1> HIDE DEF from, to, rest, kept
<1>10. RouteCorridor(B, old, E, r, from, to) = StretchOf(E, r, from, rest, kept)
  <2> DEFINE x == SubSeq(B, Index(B, r.from), Index(B, to))
             y == SubSeq(B, Index(B, from), Index(B, to))
             z == IF from = r.from THEN <<>>
                  ELSE SubSeq(B, Index(B, r.from), Index(B, from))
  <2>1. RouteCorridor(B, old, E, r, from, to)
          = IF Owns(old, E, r, x) THEN StretchOf(E, r, from, y, z) ELSE NoCorridor
    BY DEF RouteCorridor, Owns, StretchOf, EdgeIdsIn
  <2>2. x = B /\ y = rest /\ z = kept
    BY <1>0, <1>1, <1>5, <1>6
  <2> HIDE DEF x, y, z
  <2> QED BY <1>3, <2>1, <2>2
<1>11. CorridorIn(B, old, E, {r}, from, to) = RouteCorridor(B, old, E, r, from, to)
  <2>1. /\ Index(B, from) \in Nat /\ Index(B, to) \in Nat
        /\ Index(B, from) < Index(B, to)
        /\ Index(B, r.from) \in 1..Index(B, from)
    <3> DEFINE l == Len(order)
    <3>1. l \in Nat /\ h \in 1..l /\ i \in (h + 1)..l /\ j \in (i + 1)..l
      BY <1>1, <1>2
    <3> HIDE DEF l
    <3>2. /\ i - h + 1 \in Nat /\ j - h + 1 \in Nat /\ i - h + 1 < j - h + 1
          /\ 1 \in 1..(i - h + 1)
      BY <3>1
    <3> QED BY <1>6, <3>2
  <2>2. r.to = to
    BY <1>0, <1>1
  <2>3. CorridorIn(B, old, E, {r}, from, to) = RouteCorridor(B, old, E, r, from, to)
    BY <1>8, <2>1, <2>2, OneRouteCorridor
  <2> QED BY <2>3
<1> QED BY <1>9, <1>10, <1>11 DEF from, to

\* The kept part of the replaced route is as adoption found it.
LEMMA PrefixKept ==
    ASSUME IInv, NEW p \in preview, AdoptedLine(p), Adopt(p),
           NEW q, NEW h, NEW i, NEW j, SourceAt(p, q, h, i, j)
    PROVE  PrefixState(p.corridor.prefix, p.corridor.prefixEdges)'
             = PrefixState(p.corridor.prefix, p.corridor.prefixEdges)
<1> DEFINE ns == p.corridor.prefix
           es == p.corridor.prefixEdges
<1>1. /\ h \in 1..Len(order) /\ i \in (h + 1)..Len(order) /\ j \in (i + 1)..Len(order)
      /\ order[i] = p.snapshot.from /\ order[j] = p.snapshot.to
      /\ ns = SubSeq(order, h, i)
      /\ p.corridor.path = SubSeq(order, i, j)
  BY DEF SourceAt, StretchOf
<1>2. order \in Seq(NodeIds) /\ IsInjective(order) /\ Len(order) \in Nat
  BY LineType
<1>3. {e \in edge' : e.id \in es} = {e \in edge : e.id \in es}
  BY SourceEdges DEF SplitEdges
<1>4. Interior(p.corridor.path) = {order[k] : k \in (i + 1)..(j - 1)}
  BY <1>1, <1>2, InteriorOf
<1>5. AdoptedNodesOf(p)
  BY AdoptedNodes
<1>6. p.adjust \subseteq {order[j]}
  BY <1>1 DEF IInv, DraftsOK
<1> HIDE DEF ns, es
<1>7. \A n \in Range(ns) : \E k \in h..i : n = order[k]
  <2>1. /\ ns \in Seq(NodeIds) /\ Len(ns) = i - h + 1
        /\ \A k \in 1..(i - h + 1) : ns[k] = order[h + k - 1]
    <3>1. i \in h..Len(order)
      BY <1>1, <1>2
    <3> QED BY <1>1, <1>2, <3>1, PartOfLine
  <2>2. DOMAIN ns = 1..(i - h + 1)
    BY <2>1
  <2>3. \A k \in 1..(i - h + 1) : h + k - 1 \in h..i
    BY <1>1, <1>2
  <2> QED BY <2>1, <2>2, <2>3 DEF Range
<1>8. ASSUME NEW n \in Range(ns)
      PROVE  n \in DOMAIN node /\ n \notin Interior(p.corridor.path) /\ n \notin p.adjust
  <2>1. PICK k \in h..i : n = order[k]
    BY <1>7
  <2>2. k \in 1..Len(order) /\ k # j /\ \A m \in (i + 1)..(j - 1) : k # m /\ m \in 1..Len(order)
    <3> DEFINE l == Len(order)
    <3>1. l \in Nat /\ h \in 1..l /\ i \in (h + 1)..l /\ j \in (i + 1)..l /\ k \in h..i
      BY <1>1, <1>2, <2>1
    <3> HIDE DEF l
    <3>2. k \in 1..l /\ k # j /\ \A m \in (i + 1)..(j - 1) : k # m /\ m \in 1..l
      BY <3>1
    <3> QED BY <3>2 DEF l
  <2>3. j \in 1..Len(order)
    BY <1>1, <1>2
  <2>4. n # order[j] /\ \A m \in (i + 1)..(j - 1) : n # order[m]
    BY <1>2, <2>1, <2>2, <2>3 DEF IsInjective
  <2>5. n \in DOMAIN node
    BY <1>2, <2>1, <2>2, VersionType DEF Range
  <2> QED BY <1>4, <1>6, <2>4, <2>5
<1>9. \A n \in Range(ns) : n \in DOMAIN node /\ n \in DOMAIN node' /\ node'[n] = node[n]
  BY <1>5, <1>8 DEF AdoptedNodesOf
<1>10. {<<n, node'[n]>> : n \in Range(ns) \cap DOMAIN node'}
         = {<<n, node[n]>> : n \in Range(ns) \cap DOMAIN node}
  BY <1>9
<1> QED BY <1>3, <1>10 DEF PrefixState, ns, es

-----------------------------------------------------------------------------
(* Every check undo makes, after an adoption.                              *)

\* What the receipt of an adoption keeps.
LEMMA DeltaFields ==
    ASSUME NEW p, NEW d, d = Delta(p)
    PROVE  /\ d.created = Created(p) /\ d.reused = p.reused /\ d.removed = p.remove
           /\ d.order = order
           /\ d.generated = [n \in Interior(p.corridor.path) |-> node[n]]
           /\ d.edges = Ids(NewEdges(p)) /\ d.archived = p.corridor.edges
           /\ d.beforePath = p.corridor.path /\ d.afterPath = NewPath(p)
           /\ d.previous = p.corridor.source /\ d.corridor = p.corridor
           /\ d.prefix = PrefixState(p.corridor.prefix, p.corridor.prefixEdges)
           /\ d.adjusted = p.adjust
BY DEF Delta

\* The line, nodes and edges undo would give the replaced route back.
LineBefore(d) ==
    SubSeq(d.corridor.prefix, 1, Len(d.corridor.prefix) - 1) \o d.beforePath
NodesBefore(d) ==
    [n \in Range(LineBefore(d)) |->
       IF n \in DOMAIN d.generated THEN d.generated[n] ELSE node[n]]
EdgesBefore(d) ==
    {e \in edge : e.id \in d.corridor.prefixEdges} \cup Histories(d)

\* They are the route's as adoption found it.
LEMMA BeforeFound ==
    ASSUME IInv, NEW p \in preview, AdoptedLine(p), Adopt(p),
           NEW q, NEW h, NEW i, NEW j, SourceAt(p, q, h, i, j),
           NEW d, d = Delta(p), NEW r, r = AnchorsOf(q)'
    PROVE  BeforeOf(p, q, h, i, j, LineBefore(d), NodesBefore(d)', EdgesBefore(d)', r)
<1> DEFINE B == LineBefore(d)
           kept == SubSeq(order, h, i)
           rest == SubSeq(order, i, j)
<1>1. /\ d.corridor = p.corridor /\ d.beforePath = p.corridor.path
      /\ d.archived = p.corridor.edges
      /\ d.generated = [n \in Interior(p.corridor.path) |-> node[n]]
  BY DeltaFields
<1>2. /\ h \in 1..Len(order) /\ i \in (h + 1)..Len(order) /\ j \in (i + 1)..Len(order)
      /\ q \in ActiveRoutes
      /\ p.corridor.prefix = kept /\ p.corridor.path = rest
  BY DEF SourceAt, StretchOf
<1>3. order \in Seq(NodeIds) /\ IsInjective(order) /\ Len(order) \in Nat
  BY LineType
<1>4. B = SubSeq(order, h, j)
  <2>1. B = SubSeq(kept, 1, Len(kept) - 1) \o rest
    BY <1>1, <1>2 DEF LineBefore
  <2>2. SubSeq(kept, 1, Len(kept) - 1) \o rest = SubSeq(order, h, j)
    BY <1>2, <1>3, PartsOfRoute
  <2> QED BY <2>1, <2>2
<1> HIDE DEF B, kept, rest
<1>5. Range(B) \subseteq Range(order)
  <2>1. /\ B \in Seq(NodeIds) /\ Len(B) = j - h + 1
        /\ \A k \in 1..(j - h + 1) : B[k] = order[h + k - 1]
    <3>1. j \in h..Len(order)
      BY <1>2, <1>3
    <3> QED BY <1>2, <1>3, <1>4, <3>1, PartOfLine
  <2>2. DOMAIN B = 1..(j - h + 1) /\ DOMAIN order = 1..Len(order)
    BY <1>3, <2>1
  <2>3. \A k \in 1..(j - h + 1) : h + k - 1 \in 1..Len(order)
    BY <1>2, <1>3
  <2> QED BY <2>1, <2>2, <2>3 DEF Range
<1>6. NodesAsNow(NodesBefore(d)', B)
  <2> DEFINE old == NodesBefore(d)'
  <2>1. old = [n \in Range(B) |-> IF n \in DOMAIN d.generated THEN d.generated[n]
                                  ELSE node'[n]]
    BY DEF NodesBefore, B
  <2>2. /\ DOMAIN d.generated = Interior(p.corridor.path)
        /\ \A n \in Interior(p.corridor.path) : d.generated[n] = node[n]
    BY <1>1
  <2>3. \A n \in DOMAIN node \ Interior(p.corridor.path) :
          node'[n].kind = node[n].kind /\ node'[n].route = node[n].route
    BY AdoptedNodes DEF AdoptedNodesOf
  <2>4. Range(B) \subseteq DOMAIN node
    BY <1>5, VersionType
  <2> HIDE DEF old
  <2>5. DOMAIN old = Range(B)
    BY <2>1
  <2>6. ASSUME NEW n \in Range(B)
        PROVE  old[n].kind = node[n].kind /\ old[n].route = node[n].route
    <3>1. old[n] = IF n \in DOMAIN d.generated THEN d.generated[n] ELSE node'[n]
      BY <2>1
    <3> QED BY <2>2, <2>3, <2>4, <3>1
  <2> QED BY <2>5, <2>6 DEF NodesAsNow, old
<1>7. EdgesBefore(d)' = BackFromArchive(KeptEdges(q, h, i), OldEdges(p))
  <2>1. {e \in edge' : e.id \in d.corridor.prefixEdges} = KeptEdges(q, h, i)
    BY <1>1, SourceEdges DEF SplitEdges
  <2>2. Histories(d)' = {Archived(e) : e \in OldEdges(p)}
    BY <1>1, AdoptedHistories
  <2> QED BY <2>1, <2>2 DEF EdgesBefore, BackFromArchive
<1>8. r.id = q /\ r.from = route[q].from /\ r.to = route[q].to
  <2>1. r.id = q /\ r.from = route'[q].from /\ r.to = route'[q].to
    BY DEF AnchorsOf
  <2> QED BY <1>2, <2>1, AdoptRoutes DEF ActiveRoutes
<1> QED BY <1>4, <1>6, <1>7, <1>8 DEF BeforeOf, B

\* Adoption of a part of a route leaves what undo will compare it with.
LEMMA SuffixUndoable ==
    ASSUME IInv, TraceInv, NEW p \in preview, AdoptedLine(p), Adopt(p),
           p.corridor.scope = "SUFFIX", NEW t, t = version, NEW d, d = Delta(p)
    PROVE  SuffixStands(t, d)'
<1> DEFINE from == p.snapshot.from
           to == p.snapshot.to
<1>1. PICK q : q = p.corridor.source
  OBVIOUS
<1>2. PICK h, i, j : SourceAt(p, q, h, i, j)
  BY <1>1, SourceFound DEF Adopt
<1>3. /\ d.previous = q /\ d.corridor = p.corridor
      /\ d.afterPath = NewPath(p) /\ d.edges = Ids(NewEdges(p))
      /\ d.archived = p.corridor.edges
      /\ d.prefix = PrefixState(p.corridor.prefix, p.corridor.prefixEdges)
  BY <1>1, DeltaFields
<1>4. route'[t].from = from /\ route'[t].to = to
  BY AdoptRoutes
<1>5. PICK a : a = AnchorsOf(t)'
  OBVIOUS
<1>6. a.id = version /\ a.from = from /\ a.to = to
  BY <1>4, <1>5 DEF AnchorsOf
<1>7. PICK c : c = CorridorIn(order', node', edge', {a}, from, to)
  OBVIOUS
<1>8. c # NoCorridor /\ c.path = d.afterPath /\ c.edges = d.edges
  BY <1>3, <1>6, <1>7, CorridorAfter
<1>9. PrefixState(d.corridor.prefix, d.corridor.prefixEdges)' = d.prefix
  BY <1>2, <1>3, PrefixKept
<1>10. \A e \in Histories(d)' : e.route = d.previous
  <2>1. Histories(d)' = {Archived(e) : e \in OldEdges(p)}
    BY <1>3, AdoptedHistories
  <2>2. \A e \in OldEdges(p) : e.route = q /\ e \in EdgeRows
    <3>1. \A e \in OldEdges(p) : e.route = q
      BY <1>2, SourceEdges DEF SplitEdges
    <3> QED BY <3>1 DEF OldEdges, IInv, PlanOK, EdgesOK
  <2> QED BY <1>3, <2>1, <2>2, ArchivedOwner
<1>11. PICK b : b = AnchorsOf(q)'
  OBVIOUS
<1>12. BeforeOf(p, q, h, i, j, LineBefore(d), NodesBefore(d)', EdgesBefore(d)', b)
  BY <1>2, <1>11, BeforeFound
<1>13. CorridorIn(LineBefore(d), NodesBefore(d)', EdgesBefore(d)', {b}, from, to)
         = p.corridor
  BY <1>12, CorridorBefore
<1> HIDE DEF from, to
<1>14. /\ CorridorIn(order', node', edge', {AnchorsOf(t)'}, route'[t].from, route'[t].to) = c
       /\ CorridorIn(LineBefore(d), NodesBefore(d)', EdgesBefore(d)',
                     {AnchorsOf(d.previous)'}, route'[t].from, route'[t].to) = d.corridor
  BY <1>3, <1>4, <1>5, <1>7, <1>11, <1>13 DEF from, to
<1> QED BY <1>8, <1>9, <1>10, <1>14 DEF SuffixStands, LineBefore, NodesBefore, EdgesBefore

\* Where the replaced route begins and ends.
LEMMA SourceEnds ==
    ASSUME IInv, NEW p \in preview, Adoption(p), p.corridor.source # 0
    PROVE  /\ p.corridor.source \in ActiveRoutes
           /\ route[p.corridor.source].from = p.corridor.sourceFrom
           /\ route[p.corridor.source].to = p.snapshot.to
<1> DEFINE c == p.corridor
           from == p.snapshot.from
           to == p.snapshot.to
<1>1. c = Corridor(from, to) /\ c # NoCorridor
  BY DEF Adoption, CorridorStands, IInv, DraftsOK
<1>2. RouteCorridorAt(c, c.source, from, to)
  BY <1>1, CorridorIs DEF IInv
<1>3. PICK q : q = c.source
  OBVIOUS
<1>4. PICK a : a = AnchorsOf(q)
  OBVIOUS
<1>5. /\ q \in ActiveRoutes /\ route[q].to = to
      /\ c = RouteCorridor(order, node, edge, a, from, to)
  BY <1>2, <1>3, <1>4 DEF RouteCorridorAt
<1>6. a.from = route[q].from
  BY <1>4 DEF AnchorsOf
<1> HIDE DEF c, from, to
<1>7. c.sourceFrom = a.from
  BY <1>1, <1>5 DEF RouteCorridor
<1> QED BY <1>3, <1>5, <1>6, <1>7 DEF c, to

\* The new route's rows, and the replaced one's.
LEMMA AdoptedRoutes ==
    ASSUME IInv, NEW p \in preview, AdoptedLine(p), Adopt(p), NEW t, t = version
    PROVE  /\ route'[t].status = "ACTIVE"
           /\ route'[t].from = p.snapshot.from /\ route'[t].to = p.snapshot.to
           /\ p.corridor.source # 0 =>
                /\ route'[p.corridor.source].status = "REPLACED"
                /\ route'[p.corridor.source].from = p.corridor.sourceFrom
                /\ route'[p.corridor.source].to = p.snapshot.to
<1>1. /\ route'[t].from = p.snapshot.from /\ route'[t].to = p.snapshot.to
      /\ t \in ActiveRoutes' /\ version \notin DOMAIN route
      /\ DOMAIN route' = DOMAIN route \cup {version}
      /\ \A r \in DOMAIN route :
           route'[r].from = route[r].from /\ route'[r].to = route[r].to
  BY AdoptRoutes
<1>2. route'[t].status = "ACTIVE"
  BY <1>1 DEF ActiveRoutes
<1>3. ASSUME p.corridor.source # 0
      PROVE  /\ route'[p.corridor.source].status = "REPLACED"
             /\ route'[p.corridor.source].from = p.corridor.sourceFrom
             /\ route'[p.corridor.source].to = p.snapshot.to
  <2>1. PICK q : q = p.corridor.source
    OBVIOUS
  <2>2. /\ q \in ActiveRoutes /\ route[q].from = p.corridor.sourceFrom
        /\ route[q].to = p.snapshot.to
    BY <1>3, <2>1, SourceEnds DEF Adopt
  <2>3. q \in DOMAIN route /\ q # version
    BY <1>1, <2>2 DEF ActiveRoutes
  <2>4. route'[q] = Superseded(p)[q]
    BY <2>3 DEF Adopt, With, Superseded
  <2>5. route \in [DOMAIN route -> RouteRow]
    BY DEF IInv, RoutesOK
  <2>6. route'[q].status = "REPLACED"
    <3>1. Superseded(p)[q] = [route[q] EXCEPT !.status = "REPLACED"]
      BY <2>1, <2>3 DEF Superseded
    <3>2. route[q] \in RouteRow
      BY <2>3, <2>5
    <3> QED BY <2>4, <3>1, <3>2 DEF RouteRow
  <2> QED BY <1>1, <2>1, <2>2, <2>3, <2>6
<1> QED BY <1>1, <1>2, <1>3

\* After an adoption every check undo makes passes, unless something was queried
\* from a node it created.
LEMMA AdoptedUndoable ==
    ASSUME IInv, TraceInv, NEW p \in preview, AdoptedLine(p), Adopt(p),
           NEW t, t = version, NEW d, d = Delta(p),
           \A s \in snapshot' : {s.from, s.to} \cap d.created = {}
    PROVE  UndoStateStands(t, d)'
<1>1. /\ d.created = Created(p) /\ d.reused = p.reused /\ d.removed = p.remove
      /\ d.order = order
      /\ d.edges = Ids(NewEdges(p)) /\ d.archived = p.corridor.edges
      /\ d.afterPath = NewPath(p)
      /\ d.previous = p.corridor.source /\ d.corridor = p.corridor
      /\ d.adjusted = p.adjust
  BY DeltaFields
<1>2. AdoptedNodesOf(p) /\ AdoptedEdgesOf(p)
  BY AdoptedNodes, AdoptedEdges
<1>3. /\ route'[t].status = "ACTIVE"
      /\ route'[t].from = p.snapshot.from /\ route'[t].to = p.snapshot.to
      /\ p.corridor.source # 0 =>
           /\ route'[p.corridor.source].status = "REPLACED"
           /\ route'[p.corridor.source].from = p.corridor.sourceFrom
           /\ route'[p.corridor.source].to = p.snapshot.to
  BY AdoptedRoutes
<1>4. \A n \in d.adjusted : n \in DOMAIN node' /\ node'[n].dwell = 1
  BY <1>1, <1>2 DEF AdoptedNodesOf
<1>5. OrderStands(t, d)'
  <2>1. PICK i, k : AdoptedPathOf(p, i, k)
    BY AdoptedPath DEF Adopt
  <2>2. order' = NewOrder(p)
    BY DEF Adopt
  <2>3. order' \in Seq(NodeIds) /\ Range(order') = (Range(order) \ p.remove) \cup Created(p)
    BY <2>2 DEF AdoptedLine, SplicedOf
  <2>4. /\ i \in 1..Len(order') /\ k \in (i + 1)..Len(order')
        /\ Index(order', p.snapshot.from) = i /\ Index(order', p.snapshot.to) = k
        /\ NewPath(p) = SubSeq(order', i, k)
    BY <2>1, <2>2 DEF AdoptedPathOf
  <2>5. i > 0 /\ k > i
    BY <2>3, <2>4
  <2> QED BY <1>1, <1>3, <2>3, <2>4, <2>5 DEF OrderStands
<1>6. NodesStand(t, d)'
  <2>1. \A n \in d.created \cup d.reused :
          n \in DOMAIN node' /\ node'[n].route = t /\ node'[n].op = t
            /\ ~(ProtectedNode(n)')
    BY <1>1, <1>2 DEF AdoptedNodesOf
  <2>2. ASSUME NEW n \in d.created, NEW q \in DOMAIN route'
        PROVE  n # route'[q].from /\ n # route'[q].to
    <3>1. n \notin Range(order)
      BY <1>1, <1>2, VersionType DEF AdoptedNodesOf
    <3>2. route'[q].from \in Range(order) /\ route'[q].to \in Range(order)
      <4>1. DOMAIN route' = DOMAIN route \cup {version}
        BY AdoptRoutes
      <4>2. CASE q = version
        BY <1>3, <4>2 DEF AdoptedLine
      <4>3. CASE q \in DOMAIN route
        <5>1. route'[q].from = route[q].from /\ route'[q].to = route[q].to
          BY <4>3, AdoptRoutes
        <5> QED BY <4>3, <5>1, LineType
      <4> QED BY <4>1, <4>2, <4>3
    <3> QED BY <3>1, <3>2
  <2>3. \A n \in d.created : \A s \in snapshot' : n \notin {s.from, s.to}
    OBVIOUS
  <2> QED BY <2>1, <2>2, <2>3 DEF NodesStand
<1>7. EdgesStand(t, d)'
  <2>1. d.archived \subseteq Ids(history')
    BY <1>1, AdoptedHistories
  <2>2. /\ {e \in edge' : e.id \in d.edges} = NewEdges(p)
        /\ {PairOf(e) : e \in NewEdges(p)} = Pairs(d.afterPath)
        /\ \A e \in NewEdges(p) : e.route = t /\ ~e.actual /\ ~e.flight
    BY <1>1, <1>2 DEF AdoptedEdgesOf
  <2> QED BY <1>1, <2>1, <2>2 DEF EdgesStand
<1>8. ASSUME d.previous # 0
      PROVE  /\ route'[d.previous].status = "REPLACED"
             /\ route'[d.previous].from = d.corridor.sourceFrom
             /\ route'[d.previous].to = route'[t].to
             /\ d.corridor.scope = "SUFFIX" => SuffixStands(t, d)'
  BY <1>1, <1>3, <1>8, SuffixUndoable
<1> QED BY <1>3, <1>4, <1>5, <1>6, <1>7, <1>8 DEF UndoStateStands

\* UndoAvailable, with each receipt's delta named.
LatestUndoable ==
    \A t \in DOMAIN receipt : \A d \in {receipt[t].delta} :
       /\ Undoable(t)
       /\ \A s \in snapshot : {s.from, s.to} \cap d.created = {}
       => UndoStateStands(t, d)

\* After an edit, or an undo, nothing can be undone.
LEMMA LatestOnly ==
    ASSUME IInv, version' = version + 1, NEW t \in DOMAIN receipt
    PROVE  ~Undoable(t)'
<1> SUFFICES ASSUME Undoable(t)' PROVE FALSE
  OBVIOUS
<1>1. t \in 1..(version - 1) /\ version' = t + 1
  BY DEF IInv, RoutesOK, Undoable
<1> QED BY <1>1, VersionType

\* The checks pass on the same plan if nothing was queried from a created node since.
LEMMA SamePlanUndoable ==
    ASSUME NEW t, NEW d, UndoStateStands(t, d),
           UNCHANGED <<order, node, edge, history, route>>,
           \A s \in snapshot' : {s.from, s.to} \cap d.created = {}
    PROVE  UndoStateStands(t, d)'
<1>1. /\ order' = order /\ node' = node /\ edge' = edge /\ history' = history
      /\ route' = route
  OBVIOUS
<1>2. /\ route[t].status = "ACTIVE"
      /\ \A n \in d.adjusted : n \in DOMAIN node /\ node[n].dwell = 1
      /\ OrderStands(t, d) /\ NodesStand(t, d) /\ EdgesStand(t, d)
      /\ d.previous # 0 =>
           /\ route[d.previous].status = "REPLACED"
           /\ route[d.previous].from = d.corridor.sourceFrom
           /\ route[d.previous].to = route[t].to
           /\ d.corridor.scope = "SUFFIX" => SuffixStands(t, d)
  BY DEF UndoStateStands
<1>3. OrderStands(t, d)'
  BY <1>1, <1>2 DEF OrderStands
<1>4. NodesStand(t, d)'
  <2>1. \A n : ProtectedNode(n)' <=> ProtectedNode(n)
    BY <1>1 DEF ProtectedNode, UserContent
  <2>2. \A n \in d.created : \A s \in snapshot' : n \notin {s.from, s.to}
    OBVIOUS
  <2> QED BY <1>1, <1>2, <2>1, <2>2 DEF NodesStand
<1>5. EdgesStand(t, d)'
  BY <1>1, <1>2 DEF EdgesStand
<1>6. ASSUME SuffixStands(t, d)
      PROVE  SuffixStands(t, d)'
  <2>1. /\ AnchorsOf(t)' = AnchorsOf(t) /\ AnchorsOf(d.previous)' = AnchorsOf(d.previous)
        /\ Histories(d)' = Histories(d)
        /\ PrefixState(d.corridor.prefix, d.corridor.prefixEdges)'
             = PrefixState(d.corridor.prefix, d.corridor.prefixEdges)
    BY <1>1 DEF AnchorsOf, Histories, PrefixState
  <2> QED BY <1>1, <1>6, <2>1 DEF SuffixStands
<1> QED BY <1>1, <1>2, <1>3, <1>4, <1>5, <1>6 DEF UndoStateStands

\* A query or a preview, or no step at all.
LEMMA DraftsUndoable ==
    ASSUME LatestUndoable,
           UNCHANGED <<version, order, node, edge, history, route, receipt>>,
           snapshot \subseteq snapshot'
    PROVE  LatestUndoable'
<1> SUFFICES ASSUME NEW t \in DOMAIN receipt', NEW d, d = receipt'[t].delta,
                    Undoable(t)',
                    \A s \in snapshot' : {s.from, s.to} \cap d.created = {}
             PROVE  UndoStateStands(t, d)'
  BY DEF LatestUndoable
<1>2. receipt' = receipt /\ t \in DOMAIN receipt /\ receipt[t].delta = d
  OBVIOUS
<1>3. Undoable(t)
  BY <1>2 DEF Undoable
<1>5. UndoStateStands(t, d)
  BY <1>2, <1>3 DEF LatestUndoable
<1> QED BY <1>5, SamePlanUndoable

\* An edit, and an undo, leave nothing that can be undone.
LEMMA NothingUndoable ==
    ASSUME IInv, version' = version + 1,
           \A t \in DOMAIN receipt' :
             t \in DOMAIN receipt \/ receipt'[t].type # "ROUTE_ADOPT"
    PROVE  LatestUndoable'
<1> SUFFICES ASSUME NEW t \in DOMAIN receipt', Undoable(t)' PROVE FALSE
  BY DEF LatestUndoable
<1>1. receipt'[t].type = "ROUTE_ADOPT"
  BY DEF Undoable
<1>2. t \in DOMAIN receipt
  BY <1>1
<1> QED BY <1>2, LatestOnly

\* An adoption leaves itself.
LEMMA AdoptUndoable ==
    ASSUME IInv, TraceInv, NEW p \in preview, Adopt(p)
    PROVE  LatestUndoable'
<1> SUFFICES ASSUME NEW t \in DOMAIN receipt', NEW d, d = receipt'[t].delta,
                    Undoable(t)',
                    \A s \in snapshot' : {s.from, s.to} \cap d.created = {}
             PROVE  UndoStateStands(t, d)'
  BY DEF LatestUndoable
<1>1. version' = version + 1 /\ AdoptedLine(p)
  BY AdoptLine DEF Adopt, Advance
<1>2. receipt' = With(receipt, version, [type |-> "ROUTE_ADOPT", delta |-> Delta(p)])
  BY DEF Adopt
<1>3. t \notin DOMAIN receipt
  BY <1>1, LatestOnly
<1>4. t = version
  BY <1>2, <1>3 DEF With
<1>5. d = Delta(p)
  BY <1>2, <1>4 DEF With
<1> QED BY <1>1, <1>4, <1>5, AdoptedUndoable

LEMMA UndoAvailableInit == Init => LatestUndoable
<1> SUFFICES ASSUME Init PROVE LatestUndoable
  OBVIOUS
<1>1. receipt = <<>>
  BY DEF Init
<1>2. \A t \in DOMAIN receipt : FALSE
  BY <1>1
<1> QED BY <1>2 DEF LatestUndoable

LEMMA UndoAvailableStep == IInv /\ TraceInv /\ LatestUndoable /\ [Next]_vars => LatestUndoable'
<1> SUFFICES ASSUME IInv, TraceInv, LatestUndoable, [Next]_vars
             PROVE  LatestUndoable'
  OBVIOUS
<1>1. CASE UserCommand \/ Fact
  <2>1. Edit /\ receipt' = receipt
    <3>1. CASE UserCommand
      BY <3>1 DEF UserCommand, InsertNode, DeleteNode, MoveNode, ReplacePlace,
            SetNodeNote, SetMinDwell, SetManualTransport, ClearTransport, RouteRows
    <3>2. CASE Fact
      BY <3>2 DEF Fact, Arrive, Depart, UndoEvent, AdoptFlight, ObserveFlight,
            RecordAt, ChangeEdge, RouteRows
    <3> QED BY <1>1, <3>1, <3>2
  <2>2. version' = version + 1
    BY <2>1 DEF Edit, Advance
  <2> QED BY <2>1, <2>2, NothingUndoable
<1>2. ASSUME NEW from \in DOMAIN node, NEW to \in DOMAIN node, NEW o \in Offers,
             Query(from, to, o)
      PROVE  LatestUndoable'
  BY <1>2, DraftsUndoable DEF Query, RouteRows
<1>3. ASSUME NEW s \in snapshot, CreatePreview(s)
      PROVE  LatestUndoable'
  BY <1>3, DraftsUndoable DEF CreatePreview, RouteRows
<1>4. ASSUME NEW p \in preview, Adopt(p)
      PROVE  LatestUndoable'
  BY <1>4, AdoptUndoable
<1>5. ASSUME NEW t \in DOMAIN receipt, Undo(t)
      PROVE  LatestUndoable'
  <2>1. version' = version + 1
    BY <1>5 DEF Undo, Advance
  <2>2. receipt' = With(receipt, version, [type |-> "ROUTE_UNDO", target |-> t])
    BY <1>5 DEF Undo
  <2>3. \A q \in DOMAIN receipt' :
          q \in DOMAIN receipt \/ receipt'[q].type # "ROUTE_ADOPT"
    BY <2>2 DEF With
  <2> QED BY <2>1, <2>3, NothingUndoable
<1>6. CASE UNCHANGED vars
  BY <1>6, DraftsUndoable DEF vars
<1> QED BY <1>1, <1>2, <1>3, <1>4, <1>5, <1>6 DEF Next, Planning

\* The latest adoption can always be undone as long as nothing was queried from the
\* nodes it created (UndoAvailable): no check of validateCurrentUndoState, the
\* recomputed corridors of validateV4Corridor included, refuses what adoption wrote.
THEOREM UndoAlwaysAvailable == Spec => []UndoAvailable
<1>1. Init => LatestUndoable
  BY UndoAvailableInit
<1>2. IInv /\ TraceInv /\ LatestUndoable /\ [Next]_vars => LatestUndoable'
  BY UndoAvailableStep
<1>3. LatestUndoable => UndoAvailable
  BY DEF LatestUndoable, UndoAvailable
<1>4. Spec => []IInv
  BY Invariance
<1>5. Spec => []TraceInv
  BY OwnersInvariance
<1> QED BY <1>1, <1>2, <1>3, <1>4, <1>5, PTL DEF Spec

(***************************************************************************)
(* ExternalOrigin: a service that ends early sets the traveller down, and  *)
(* a route from there is adopted or undone.  Its rows are shaped like      *)
(* those above, so the lemmas about lines, positions and splices serve it  *)
(* too.                                                                    *)
(***************************************************************************)
CONSTANTS Clients, Hubs, Interchange, ExternalOffers, Skew, MaxTime, MaxReports, MaxWorld
VARIABLES now, report, origin, events, draft, asked, reports, world, was

External == INSTANCE ExternalOrigin WITH Offers <- ExternalOffers

\* A draft is a record of the shape the actions give it.
DraftOK == draft = [origin |-> draft.origin, stops |-> draft.stops, summary |-> draft.summary]

\* What the authorisation and the summary of a preview are computed from.
PlanFacts == <<order, node, edge, route, origin, events>>

\* Authorisation is a function of those facts.
LEMMA AuthorisedByFacts ==
    ASSUME UNCHANGED PlanFacts, NEW i
    PROVE  External!Authorised(i)' <=> External!Authorised(i)
<1>1. External!Consistent' <=> External!Consistent
  BY DEF PlanFacts, External!Consistent, External!Open, External!Executed, External!Has, External!Line, External!Index
<1>2. External!Currentness(i)' = External!Currentness(i)
  BY <1>1 DEF PlanFacts, External!Currentness, External!Arrived, External!Overtaken
<1> QED
  BY <1>2 DEF PlanFacts, External!Authorised

\* So is what a preview says an adoption would do.
LEMMA SummaryByFacts ==
    ASSUME UNCHANGED PlanFacts, NEW i, NEW stops
    PROVE  External!Summary(i, stops)' = External!Summary(i, stops)
<1>1. External!Executed' = External!Executed
  BY DEF PlanFacts, External!Executed, External!Has, External!Line
<1>2. \A n : External!Protected(n)' <=> External!Protected(n)
  BY <1>1 DEF PlanFacts, External!Protected
<1>3. \A e : /\ External!Inner(e)' = External!Inner(e)
             /\ External!SuffixEdges(e)' = External!SuffixEdges(e)
  BY DEF PlanFacts, External!Inner, External!SuffixEdges, External!Divergence, External!End, External!Index
<1>4. \A inner, st : External!Reuse(inner, st)' = External!Reuse(inner, st)
  BY DEF PlanFacts, External!Reuse, External!NoNode
<1> QED
  BY <1>2, <1>3, <1>4 DEF PlanFacts, External!Summary

\* A preview of the present version can be adopted as it was shown (PreviewStands):
\* every write to what its authorisation and summary are computed from makes a new
\* version, which drops it (buildExternalOriginPreviewPayload, computed again).
THEOREM PreviewAlwaysStands == External!Spec => []External!PreviewStands
<1> DEFINE Stands == DraftOK /\ External!PreviewStands
<1>1. External!Init => Stands
  BY DEF External!Init, External!PreviewStands, External!NoDraft, External!NoSummary, DraftOK
<1>2. Stands /\ [External!Next]_External!vars => Stands'
  <2> SUFFICES ASSUME Stands, [External!Next]_External!vars
               PROVE  Stands'
    OBVIOUS
  <2>1. ASSUME External!Advance PROVE Stands'
    BY <2>1 DEF External!Advance, External!NoDraft, External!NoSummary, External!PreviewStands, DraftOK
  <2>2. ASSUME UNCHANGED PlanFacts, UNCHANGED draft PROVE Stands'
    <3>1. External!Authorised(draft.origin)' <=> External!Authorised(draft.origin)
      BY <2>2, AuthorisedByFacts
    <3>2. External!Summary(draft.origin, draft.stops)' = External!Summary(draft.origin, draft.stops)
      BY <2>2, SummaryByFacts
    <3> QED BY <2>2, <3>1, <3>2 DEF External!PreviewStands, External!NoSummary, DraftOK
  <2>3. CASE External!Preview
    <3>1. UNCHANGED PlanFacts
      BY <2>3 DEF External!Preview, PlanFacts, External!plan
    <3>2. /\ draft'.origin = draft.origin /\ draft'.stops = draft.stops
          /\ draft'.summary = External!Summary(draft.origin, draft.stops)
          /\ DraftOK'
      BY <2>3 DEF External!Preview, DraftOK
    <3>3. External!Authorised(draft.origin)'
      BY <2>3, <3>1, AuthorisedByFacts DEF External!Preview
    <3>4. External!Summary(draft.origin, draft.stops)' = External!Summary(draft.origin, draft.stops)
      BY <3>1, <3>2, SummaryByFacts
    <3> QED BY <3>2, <3>3, <3>4 DEF External!PreviewStands
  <2> HIDE DEF Stands
  <2>4. ASSUME NEW c \in Clients, External!Ask(c) PROVE Stands'
    BY <2>4, <2>2 DEF External!Ask, External!plan, PlanFacts
  <2>5. ASSUME NEW c \in Clients, External!Confirm(c) PROVE Stands'
    <3>1. CASE External!Advance
      BY <3>1, <2>1
    <3>2. CASE UNCHANGED <<version, origin, draft>>
      BY <2>5, <3>2, <2>2 DEF External!Confirm, External!plan, PlanFacts
    <3> QED BY <2>5, <3>1, <3>2 DEF External!Confirm
  <2>6. ASSUME NEW i \in DOMAIN origin, External!Depart(i) PROVE Stands'
    BY <2>6, <2>1 DEF External!Depart, External!Act
  <2>7. ASSUME NEW i \in DOMAIN origin, NEW stops \in ExternalOffers, External!Query(i, stops)
        PROVE  Stands'
    BY <2>7 DEF External!Query, External!PreviewStands, DraftOK, Stands
  <2>8. CASE External!Adopt
    BY <2>8, <2>1 DEF External!Adopt
  <2>9. CASE External!Tick
    BY <2>9, <2>2 DEF External!Tick, External!plan, PlanFacts
  <2>10. ASSUME NEW r \in DOMAIN route, External!Undo(r) PROVE Stands'
    BY <2>10, <2>1 DEF External!Undo
  <2>11. ASSUME NEW e \in DOMAIN edge, External!Report(e) PROVE Stands'
    <3>1. PICK departed \in BOOLEAN : External!Times(e, departed)
      BY <2>11 DEF External!Report
    <3>2. CASE External!Act
      BY <3>2, <2>1 DEF External!Act
    <3>3. CASE edge' = edge /\ UNCHANGED <<version, draft, world>>
      BY <2>11, <3>3, <2>2 DEF External!Report, External!plan, PlanFacts
    <3> QED BY <3>1, <3>2, <3>3 DEF External!Times
  <2>12. ASSUME NEW n, External!Edit(n) PROVE Stands'
    BY <2>12, <2>1 DEF External!Edit, External!Act
  <2>13. ASSUME NEW n, NEW type, External!Record(n, type) PROVE Stands'
    BY <2>13, <2>1 DEF External!Record, External!Act
  <2>14. ASSUME NEW e \in events, External!Correct(e) PROVE Stands'
    BY <2>14, <2>1 DEF External!Correct, External!Act
  <2>15. CASE UNCHANGED External!vars
    BY <2>15, <2>2 DEF External!vars, External!plan, PlanFacts
  <2> QED BY <2>3, <2>4, <2>5, <2>6, <2>7, <2>8, <2>9, <2>10, <2>11, <2>12, <2>13, <2>14, <2>15
          DEF External!Next
<1> QED BY <1>1, <1>2, PTL DEF External!Spec

(***************************************************************************)
(* The invariant about origins.  An adoption can be undone only in the     *)
(* version it made, so what its undo gives is said of that version alone   *)
(* (Reverses); of all later ones it is enough that versions grow.          *)
(***************************************************************************)
\* The values the variables take.
StopHubs == Hubs \cup {Interchange, External!NoHub}
MapsOf(S) == UNION {[T -> S] : T \in SUBSET NodeIds}
OriginNodes == [route : Nat, hub : StopHubs, touched : BOOLEAN]
OriginEdges == [from : NodeIds, to : NodeIds, route : Nat, actual : BOOLEAN]
OriginRoutes ==
    [status : {"ACTIVE", "REPLACED", "UNDONE"}, from : NodeIds, to : NodeIds,
     origin : Nat, replaces : Nat, version : Nat, edges : SUBSET NodeIds,
     before : [order : Seq(NodeIds), node : MapsOf(OriginNodes), edge : MapsOf(OriginEdges)]]
Origins == [status : {"ARRIVED", "DEPARTED", "INVALIDATED"}, arrivedAt : Nat,
            edge : NodeIds, route : Nat, hub : StopHubs, seen : Nat]
Happenings == [node : NodeIds, type : {"ARRIVAL", "DEPARTURE"}, at : Nat, early : BOOLEAN]
Requests == [edge : NodeIds, seen : Nat, hub : StopHubs, basis : Nat, at : Nat]

\* The type invariant of ExternalOrigin.
OriginTypes ==
    /\ now \in Nat /\ version \in Nat /\ reports \in Nat
    /\ order \in Seq(NodeIds)
    /\ node \in MapsOf(OriginNodes) /\ edge \in MapsOf(OriginEdges)
    /\ route \in Seq(OriginRoutes)
    /\ report \in MapsOf([seq : Nat, hub : Hubs \cup {External!AsPlanned}])
    /\ origin \in Seq(Origins)
    /\ events \subseteq Happenings
    /\ DraftOK /\ draft.stops \in ExternalOffers \cup {<<>>}
    /\ draft # External!NoDraft => draft.origin \in DOMAIN origin
    /\ asked \in [Clients -> Requests \cup {External!NoRequest}]
    /\ was \in Seq({<<>>} \cup (Seq(NodeIds) \X MapsOf(OriginNodes) \X MapsOf(OriginEdges)))

\* No origin, and no event that was not dated ahead, is of later than t.
NothingAfter(t) == /\ \A i \in DOMAIN origin : origin[i].arrivedAt <= t
                   /\ \A e \in events : ~e.early => e.at <= t

\* A confirmation on its way was asked for after all that its version has.
OriginTimes ==
    /\ NothingAfter(now)
    /\ \A c \in Clients :
         LET q == asked[c]
         IN q # External!NoRequest =>
              /\ q.at <= now /\ q.basis <= version
              /\ q.basis = version => NothingAfter(q.at)

\* The edges of the route a are those between its ends, and the others lie before.
OnStretch(ord, ed, a, from, to) ==
    \A e \in DOMAIN ed :
      IF ed[e].route = a
      THEN Index(ord, from) <= Index(ord, ed[e].from) /\ Index(ord, ed[e].from) < Index(ord, to)
      ELSE Index(ord, ed[e].from) < Index(ord, from)

\* The rows of one day of the trip: ids are older than the version v, and every row
\* names rows that are there.
RowsOfDay(ord, nd, ed, rt, v) ==
    /\ IsInjective(ord) /\ DOMAIN nd = Range(ord)
    /\ \A n \in Range(ord) : n[1] < v /\ nd[n].route \in 0..Len(rt)
    /\ \A e \in DOMAIN ed : e[1] < v /\ ed[e].from \in Range(ord) /\ ed[e].route \in DOMAIN rt

\* The route a is the one that is ACTIVE.
OneActive(rt, a) == rt[a].status = "ACTIVE" /\ \A b \in DOMAIN rt : rt[b].status = "ACTIVE" => b = a

\* The ACTIVE route is the last on the line: its edges lie between its ends, and all
\* other edges before it.
OriginPlan(ord, nd, ed, rt, v) ==
    /\ RowsOfDay(ord, nd, ed, rt, v)
    /\ \E a \in DOMAIN rt : /\ OneActive(rt, a)
                            /\ {rt[a].from, rt[a].to} \subseteq Range(ord)
                            /\ OnStretch(ord, ed, a, rt[a].from, rt[a].to)

\* What undo would make of the nodes and the edges.
NodesAgain(r) ==
    [n \in {m \in DOMAIN node : node[m].route # r} \cup DOMAIN route[r].before.node |->
       IF n \in DOMAIN route[r].before.node THEN route[r].before.node[n] ELSE node[n]]
EdgesAgain(r) ==
    [e \in (DOMAIN edge \ route[r].edges) \cup DOMAIN route[r].before.edge |->
       IF e \in DOMAIN edge \ route[r].edges THEN edge[e] ELSE route[r].before.edge[e]]

\* The events do not contradict each other on the line ord.
ConsistentOn(ord) ==
    \A o, n \in Range(ord) :
      /\ External!Has(o, "ARRIVAL") /\ ~External!Has(o, "DEPARTURE")
      /\ External!Has(n, "ARRIVAL") \/ External!Has(n, "DEPARTURE")
      => Index(ord, n) <= Index(ord, o)

\* A route from the origin i could be planned on the rows that are undone to.
Plannable(i, ord, ed) ==
    /\ External!Arrived = {i} /\ ~External!Overtaken(i)
    /\ ConsistentOn(ord)
    /\ origin[i].edge \in DOMAIN ed /\ ed[origin[i].edge].route = origin[i].route

\* A route that undo would not refuse for its version, status or kind.
Reversible(r) == route[r].status = "ACTIVE" /\ route[r].origin # 0 /\ route[r].version = version

\* Undoing the route r gives the plan b, which its origin can be planned from.
Reverses(r, b) ==
    /\ b = <<route[r].before.order, NodesAgain(r), EdgesAgain(r)>>
    /\ OriginPlan(b[1], b[2], b[3], External!Reopened(r), version)
    /\ Plannable(route[r].origin, b[1], b[3])
    /\ origin[route[r].origin].route = route[r].replaces

\* The invariant: the plan is one line with one ACTIVE route; an adoption has an origin
\* and an older route that it replaced; one that can still be undone, that is one of the
\* present version, would give back the plan it was made on.
OriginInv ==
    /\ OriginPlan(order, node, edge, route, version)
    /\ Len(was) = Len(route)
    /\ \A r \in DOMAIN route :
         /\ route[r].version <= version
         /\ route[r].origin # 0 => route[r].replaces \in 1..(r - 1) /\ route[r].origin \in DOMAIN origin
         /\ Reversible(r) => Reverses(r, was[r])

(***************************************************************************)
(* Confirmations: a request is dated after everything its version has, so  *)
(* an origin made of it while the version stands is the latest fact.       *)
(***************************************************************************)
\* A map of ids, by its domain and values.
LEMMA MapIs ==
    ASSUME NEW S, NEW f
    PROVE  f \in MapsOf(S) <=> f \in [DOMAIN f -> S] /\ DOMAIN f \subseteq NodeIds
<1>1. ASSUME f \in MapsOf(S) PROVE f \in [DOMAIN f -> S] /\ DOMAIN f \subseteq NodeIds
  BY <1>1 DEF MapsOf
<1>2. ASSUME f \in [DOMAIN f -> S], DOMAIN f \subseteq NodeIds PROVE f \in MapsOf(S)
  BY <1>2 DEF MapsOf
<1> QED BY <1>1, <1>2

\* The line and positions of ExternalOrigin are those of RoutePlan.
LEMMA ExternalLine ==
    /\ External!Line = Range(order)
    /\ \A n \in Range(order) : External!Index(n) = Index(order, n)
    /\ \A s : External!Range(s) = Range(s)
BY DEF External!Line, External!Range, External!Index, Index, Range

\* A finite set of at most one element is that element's.
LEMMA OnlyOneIs ==
    ASSUME NEW S, NEW i \in S, IsFiniteSet(S), ~(External!Cardinality(S) > 1)
    PROVE  S = {i}
<1>1. External!Cardinality(S) = Cardinality(S)
  BY DEF External!Cardinality, Cardinality
<1>2. Cardinality(S) \in Nat /\ Cardinality(S) # 0
  BY FS_EmptySet, FS_CardinalityType
<1> QED BY <1>1, <1>2, FS_Singleton

\* Authorisation, in terms of the rows.
LEMMA AuthorisedIs ==
    ASSUME OriginTypes, NEW i \in DOMAIN origin
    PROVE  External!Authorised(i) <=>
             /\ Plannable(i, order, edge)
             /\ route[origin[i].route].status = "ACTIVE"
<1>1. External!Consistent <=> ConsistentOn(order)
  BY ExternalLine DEF External!Consistent, External!Open, External!Executed, ConsistentOn
<1>2. origin[i].status \in {"ARRIVED", "DEPARTED", "INVALIDATED"}
  <2>1. origin[i] \in Origins
    BY DEF OriginTypes
  <2> QED BY <2>1 DEF Origins
<1>3. External!Currentness(i) = "CURRENT" <=>
         /\ origin[i].status = "ARRIVED" /\ ~External!Overtaken(i) /\ ConsistentOn(order)
         /\ ~(External!Cardinality(External!Arrived) > 1)
  BY <1>1, <1>2 DEF External!Currentness
<1>4. IsFiniteSet(External!Arrived)
  <2>1. External!Arrived \subseteq 1..Len(origin) /\ Len(origin) \in Nat
    BY DEF External!Arrived, OriginTypes
  <2>2. IsFiniteSet(1..Len(origin))
    BY <2>1, FS_Interval
  <2> QED BY <2>1, <2>2, FS_Subset
<1>5. origin[i].status = "ARRIVED" <=> i \in External!Arrived
  BY DEF External!Arrived
<1>6. External!Arrived = {i} <=>
         i \in External!Arrived /\ ~(External!Cardinality(External!Arrived) > 1)
  <2>1. ASSUME External!Arrived = {i} PROVE External!Cardinality(External!Arrived) = 1
    <3>1. External!Cardinality(External!Arrived) = Cardinality(External!Arrived)
      BY DEF External!Cardinality, Cardinality
    <3> QED BY <2>1, <3>1, FS_Singleton
  <2> QED BY <2>1, <1>4, OnlyOneIs
<1> QED BY <1>3, <1>5, <1>6 DEF External!Authorised, Plannable

\* What the origins and events are no later than.
LEMMA LaterToo ==
    ASSUME OriginTypes, NEW t \in Nat, NEW u \in Nat, t <= u, NothingAfter(t)
    PROVE  NothingAfter(u)
<1>1. \A i \in DOMAIN origin : origin[i].arrivedAt \in Nat
  <2>1. \A i \in DOMAIN origin : origin[i] \in Origins
    BY DEF OriginTypes
  <2> QED BY <2>1 DEF Origins
<1>2. \A e \in events : e.at \in Nat
  BY DEF OriginTypes, Happenings
<1> QED BY <1>1, <1>2 DEF NothingAfter

\* A confirmation under way.
LEMMA RequestIs ==
    ASSUME OriginTypes, NEW c \in Clients, asked[c] # External!NoRequest
    PROVE  asked[c] \in Requests
BY DEF OriginTypes

\* With no new version nothing is added to what the version has.
LEMMA TimesStay ==
    ASSUME OriginTypes, OriginTimes, now' \in Nat, now <= now',
           UNCHANGED <<version, origin, events>>,
           \A c \in Clients : asked'[c] \in {asked[c], External!NoRequest}
    PROVE  OriginTimes'
<1>0. \A t : NothingAfter(t)' <=> NothingAfter(t)
  BY DEF NothingAfter
<1>1. NothingAfter(now)'
  <2>1. NothingAfter(now')
    BY LaterToo DEF OriginTypes, OriginTimes
  <2> QED BY <2>1 DEF NothingAfter
<1>2. ASSUME NEW c \in Clients, asked'[c] # External!NoRequest
      PROVE  /\ asked'[c].at <= now' /\ asked'[c].basis <= version'
             /\ asked'[c].basis = version' => NothingAfter(asked[c].at)'
  <2>1. asked'[c] = asked[c] /\ asked[c] \in Requests
    BY <1>2, RequestIs
  <2>2. asked[c].at \in Nat /\ now \in Nat
    BY <2>1 DEF Requests, OriginTypes
  <2>3. /\ asked[c].at <= now /\ asked[c].basis <= version
        /\ asked[c].basis = version => NothingAfter(asked[c].at)
    BY <1>2, <2>1 DEF OriginTimes
  <2>4. asked[c].basis = version =>
          /\ \A i \in DOMAIN origin' : origin'[i].arrivedAt <= asked'[c].at
          /\ \A e \in events' : ~e.early => e.at <= asked'[c].at
    BY <2>1, <2>3 DEF NothingAfter
  <2> QED BY <2>1, <2>2, <2>3, <2>4 DEF NothingAfter
<1>3. OriginTimes'
  BY <1>1, <1>2 DEF OriginTimes, NothingAfter
<1> QED BY <1>3

\* With a new version no confirmation under way is for it.
LEMMA TimesMove ==
    ASSUME OriginTypes, OriginTimes, version' = version + 1, now' = now,
           NothingAfter(now)',
           \A c \in Clients : asked'[c] \in {asked[c], External!NoRequest}
    PROVE  OriginTimes'
<1>1. ASSUME NEW c \in Clients, asked'[c] # External!NoRequest
      PROVE  asked'[c].at <= now' /\ asked'[c].basis <= version' /\ asked'[c].basis # version'
  <2>1. asked'[c] = asked[c] /\ asked[c] \in Requests
    BY <1>1, RequestIs
  <2>2. asked[c].basis \in Nat /\ version \in Nat /\ asked[c].basis <= version /\ asked[c].at <= now
    BY <1>1, <2>1 DEF Requests, OriginTypes, OriginTimes
  <2> QED BY <2>1, <2>2
<1> QED BY <1>1 DEF OriginTimes

\* What a traveller asks for is of the present version and time.
LEMMA AskTimes ==
    ASSUME OriginTypes, OriginTimes, NEW c \in Clients, External!Ask(c)
    PROVE  OriginTimes'
<1>1. PICK e \in DOMAIN report : asked' = [asked EXCEPT ![c] =
                     [edge |-> e, seen |-> report[e].seq, hub |-> report[e].hub,
                      basis |-> version, at |-> now]]
  BY DEF External!Ask
<1>2. UNCHANGED <<now, version, origin, events>>
  BY DEF External!Ask
<1>0. \A t : NothingAfter(t)' <=> NothingAfter(t)
  BY <1>2 DEF NothingAfter
<1>3. NothingAfter(now)'
  BY <1>2 DEF NothingAfter, OriginTimes
<1>4. ASSUME NEW d \in Clients, asked'[d] # External!NoRequest
      PROVE  /\ asked'[d].at <= now' /\ asked'[d].basis <= version'
             /\ asked'[d].basis = version' => NothingAfter(asked[d].at)'
  <2>1. CASE d = c
    <3>1. asked'[c] = [edge |-> e, seen |-> report[e].seq, hub |-> report[e].hub,
                      basis |-> version, at |-> now]
      BY <1>1 DEF OriginTypes
    <3> QED BY <3>1, <2>1, <1>2, <1>3 DEF OriginTypes, NothingAfter
  <2>2. CASE d # c
    <3>1. asked'[d] = asked[d]
      BY <1>1, <2>2 DEF OriginTypes
    <3> QED BY <3>1, <1>4, <1>2 DEF OriginTimes, NothingAfter
  <2> QED BY <2>1, <2>2
<1> QED BY <1>3, <1>4 DEF OriginTimes, NothingAfter

\* A confirmation that is answered with an origin.
LEMMA ConfirmedRow ==
    ASSUME OriginTypes, OriginTimes, NEW c \in Clients, External!Confirm(c), origin' # origin
    PROVE  LET q == asked[c]
               k == Len(origin) + 1
           IN /\ q \in Requests /\ q # External!NoRequest /\ External!StillShown(q)
              /\ NothingAfter(q.at)
              /\ External!Advance
              /\ asked' = [asked EXCEPT ![c] = External!NoRequest]
              /\ UNCHANGED <<now, order, node, edge, route, report, events, was>>
              /\ origin' \in Seq(Origins) /\ Len(origin') = k
              /\ origin'[k] = [status |-> "ARRIVED", arrivedAt |-> q.at, edge |-> q.edge,
                    route |-> edge[q.edge].route, hub |-> q.hub, seen |-> q.seen]
              /\ External!Arrived' = {k}
              /\ \A i \in DOMAIN origin : origin'[i].arrivedAt = origin[i].arrivedAt
<1> DEFINE q == asked[c]
           k == Len(origin) + 1
           new == [status |-> "ARRIVED", arrivedAt |-> q.at, edge |-> q.edge,
                    route |-> edge[q.edge].route, hub |-> q.hub, seen |-> q.seen]
           old == External!Invalidated(q)
<1>1. /\ q # External!NoRequest /\ External!StillShown(q) /\ External!Advance
      /\ asked' = [asked EXCEPT ![c] = External!NoRequest]
      /\ origin' = Append(old, new)
      /\ UNCHANGED <<now, order, node, edge, route, report, events, was>>
  BY DEF External!Confirm, External!plan
<1>2. q \in Requests
  BY <1>1, RequestIs
<1>3. NothingAfter(q.at)
  BY <1>1 DEF OriginTimes, External!StillShown
<1>4. /\ old \in Seq(Origins) /\ Len(old) = Len(origin)
      /\ \A i \in DOMAIN origin : /\ old[i].status # "ARRIVED"
                                  /\ old[i].arrivedAt = origin[i].arrivedAt
  <2>1. \A i \in DOMAIN origin : origin[i] \in Origins
    BY DEF OriginTypes
  <2>2. ASSUME NEW i \in DOMAIN origin
        PROVE  old[i] \in Origins /\ old[i].status # "ARRIVED" /\ old[i].arrivedAt = origin[i].arrivedAt
    BY <2>1 DEF External!Invalidated, External!Arrived, Origins
  <2>3. DOMAIN origin = 1..Len(origin) /\ Len(origin) \in Nat /\ DOMAIN old = DOMAIN origin
    BY DEF OriginTypes, External!Invalidated
  <2>4. old = [i \in 1..Len(origin) |-> old[i]]
    BY <2>3 DEF External!Invalidated
  <2>5. old \in Seq(Origins) /\ Len(old) = Len(origin)
    BY <2>2, <2>3, <2>4
  <2> QED BY <2>2, <2>5
<1>5. new \in Origins
  <2>1. q.edge \in DOMAIN edge
    BY <1>1 DEF External!StillShown, External!Candidate, External!Current
  <2>2. edge[q.edge] \in OriginEdges
    BY <2>1, MapIs DEF OriginTypes
  <2> QED BY <1>2, <2>2 DEF Requests, Origins, OriginEdges
<1>6. Len(origin) \in Nat /\ DOMAIN origin = 1..Len(origin)
  BY DEF OriginTypes
<1> HIDE DEF old, new
<1>7. /\ origin' \in Seq(Origins) /\ Len(origin') = k /\ origin'[k] = new
      /\ \A i \in 1..Len(origin) : origin'[i] = old[i]
  BY <1>1, <1>4, <1>5, <1>6
<1>8. External!Arrived' = {k}
  <2>1. DOMAIN origin' = 1..k
    BY <1>7
  <2>2. new.status = "ARRIVED"
    BY DEF new
  <2> QED BY <1>4, <1>6, <1>7, <2>1, <2>2 DEF External!Arrived
<1> QED BY <1>1, <1>2, <1>3, <1>4, <1>6, <1>7, <1>8 DEF new

\* ConfirmedIsCurrent, of one step.
ConfirmedHere ==
    \A i \in DOMAIN origin' \ DOMAIN origin :
      /\ report'[origin'[i].edge].seq = origin'[i].seen
      /\ report'[origin'[i].edge].hub = origin'[i].hub
      /\ External!Arrived' = {i}
      /\ External!Consistent' /\ (\A e \in events' : ~e.early) => External!Authorised(i)'

\* The origin a confirmation makes is later than all that happened, so it is current.
LEMMA ConfirmIsCurrent ==
    ASSUME OriginTypes, OriginTimes, NEW c \in Clients, External!Confirm(c), origin' # origin
    PROVE  ConfirmedHere
<1> DEFINE q == asked[c]
<1>0. PICK k : k = Len(origin) + 1
  OBVIOUS
<1>1. /\ q \in Requests /\ External!StillShown(q)
      /\ NothingAfter(q.at)
      /\ UNCHANGED <<order, node, edge, route, report, events>>
      /\ origin' \in Seq(Origins) /\ Len(origin') = k
      /\ origin'[k] = [status |-> "ARRIVED", arrivedAt |-> q.at, edge |-> q.edge,
            route |-> edge[q.edge].route, hub |-> q.hub, seen |-> q.seen]
      /\ External!Arrived' = {k}
      /\ \A i \in DOMAIN origin : origin'[i].arrivedAt = origin[i].arrivedAt
  BY <1>0, ConfirmedRow
<1>2. DOMAIN origin = 1..Len(origin) /\ Len(origin) \in Nat /\ DOMAIN origin' = 1..k
  BY <1>0, <1>1 DEF OriginTypes
<1>3. DOMAIN origin' \ DOMAIN origin = {k}
  BY <1>0, <1>2
<1>4. q.edge \in DOMAIN edge /\ route[edge[q.edge].route].status = "ACTIVE"
      /\ report[q.edge].seq = q.seen /\ report[q.edge].hub = q.hub
  BY <1>1 DEF External!StillShown, External!Candidate, External!Current
<1>5. ASSUME External!Consistent', \A e \in events' : ~e.early
      PROVE  External!Authorised(k)'
  <2>1. ~External!Overtaken(k)'
    <3>1. origin'[k].arrivedAt = q.at
      BY <1>1
    <3>2. \A j \in DOMAIN origin' : origin'[j].arrivedAt <= q.at
      <4>1. \A j \in DOMAIN origin : origin'[j].arrivedAt <= q.at
        BY <1>1 DEF NothingAfter
      <4>2. q.at <= q.at
        BY <1>1 DEF Requests
      <4> QED BY <4>1, <4>2, <3>1, <1>3
    <3>3. \A e \in events' : e.at <= q.at
      BY <1>1, <1>5 DEF NothingAfter
    <3>4. q.at \in Nat /\ \A j \in DOMAIN origin' : origin'[j].arrivedAt \in Nat
      <4>1. \A j \in DOMAIN origin' : origin'[j] \in Origins
        BY <1>1
      <4> QED BY <1>1, <4>1 DEF Requests, Origins
    <3>5. \A e \in events' : e.at \in Nat
      BY <1>1 DEF OriginTypes, Happenings
    <3> QED BY <3>1, <3>2, <3>3, <3>4, <3>5 DEF External!Overtaken
  <2>2. ~(External!Cardinality(External!Arrived') > 1)
    <3>1. External!Cardinality({k}) = Cardinality({k})
      BY DEF External!Cardinality, Cardinality
    <3>2. Cardinality({k}) = 1
      BY FS_Singleton
    <3> QED BY <1>1, <3>1, <3>2
  <2>3. External!Currentness(k)' = "CURRENT"
    <3>1. origin'[k].status = "ARRIVED"
      BY <1>1
    <3> QED BY <1>5, <2>1, <2>2, <3>1 DEF External!Currentness
  <2> QED BY <1>1, <1>4, <2>3 DEF External!Authorised
<1>6. External!Consistent' /\ (\A e \in events' : ~e.early) => External!Authorised(k)'
  BY <1>5
<1>7. /\ report'[origin'[k].edge].seq = origin'[k].seen
      /\ report'[origin'[k].edge].hub = origin'[k].hub
  BY <1>1, <1>4
<1> QED BY <1>1, <1>3, <1>6, <1>7 DEF ConfirmedHere

\* Only a confirmation makes an origin.
LEMMA OriginsOf ==
    ASSUME OriginTypes, [External!Next]_External!vars
    PROVE  \/ \E c \in Clients : External!Confirm(c)
           \/ DOMAIN origin' = DOMAIN origin
<1>1. ASSUME NEW c \in Clients, External!Ask(c) PROVE origin' = origin
  BY <1>1 DEF External!Ask
<1>2. ASSUME NEW i \in DOMAIN origin, External!Depart(i) PROVE DOMAIN origin' = DOMAIN origin
  BY <1>2 DEF External!Depart
<1>3. ASSUME NEW i \in DOMAIN origin, NEW stops \in ExternalOffers, External!Query(i, stops)
      PROVE  origin' = origin
  BY <1>3 DEF External!Query
<1>4. CASE External!Preview
  BY <1>4 DEF External!Preview
<1>5. CASE External!Adopt
  BY <1>5 DEF External!Adopt
<1>6. CASE External!Tick
  BY <1>6 DEF External!Tick
<1>7. ASSUME NEW r \in DOMAIN route, External!Undo(r) PROVE origin' = origin
  BY <1>7 DEF External!Undo
<1>8. ASSUME NEW e \in DOMAIN edge, External!Report(e) PROVE origin' = origin
  BY <1>8 DEF External!Report
<1>9. ASSUME NEW n, External!Edit(n) PROVE origin' = origin
  BY <1>9 DEF External!Edit
<1>10. ASSUME NEW n, NEW type, External!Record(n, type) PROVE origin' = origin
  BY <1>10 DEF External!Record
<1>11. ASSUME NEW e \in events, External!Correct(e) PROVE origin' = origin
  BY <1>11 DEF External!Correct
<1>12. CASE UNCHANGED External!vars
  BY <1>12 DEF External!vars
<1> QED BY <1>1, <1>2, <1>3, <1>4, <1>5, <1>6, <1>7, <1>8, <1>9, <1>10, <1>11, <1>12
        DEF External!Next

\* Every step confirms as ConfirmedIsCurrent says.
LEMMA ConfirmedStep ==
    ASSUME OriginTypes, OriginTimes, [External!Next]_External!vars
    PROVE  ConfirmedHere
<1>1. CASE DOMAIN origin' = DOMAIN origin
  BY <1>1 DEF ConfirmedHere
<1>2. ASSUME NEW c \in Clients, External!Confirm(c), origin' # origin PROVE ConfirmedHere
  BY <1>2, ConfirmIsCurrent
<1> QED BY <1>1, <1>2, OriginsOf

(***************************************************************************)
(* Steps that leave the routes alone.                                      *)
(***************************************************************************)
\* The maps nd and ed give the ids and owners of nodes and edges, as nd2 and ed2 do.
SameOwners(nd, ed, nd2, ed2) ==
    /\ DOMAIN nd2 = DOMAIN nd /\ DOMAIN ed2 = DOMAIN ed
    /\ \A n \in DOMAIN nd : nd2[n].route = nd[n].route
    /\ \A e \in DOMAIN ed : ed2[e].from = ed[e].from /\ ed2[e].route = ed[e].route

\* A plan stays one in the next version, as long as its rows keep their owners.
LEMMA PlanLater ==
    ASSUME NEW ord \in Seq(NodeIds), NEW nd, NEW ed \in MapsOf(OriginEdges), NEW rt, NEW nd2, NEW ed2,
           NEW v \in Nat, OriginPlan(ord, nd, ed, rt, v), SameOwners(nd, ed, nd2, ed2)
    PROVE  OriginPlan(ord, nd2, ed2, rt, v + 1)
<1>1. \A n \in Range(ord) : n[1] \in Nat
  BY DEF Range, NodeIds
<1>2. \A e \in DOMAIN ed : e[1] \in Nat
  BY MapIs DEF NodeIds
<1>3. RowsOfDay(ord, nd2, ed2, rt, v + 1)
  <2>0. RowsOfDay(ord, nd, ed, rt, v)
    BY DEF OriginPlan
  <2>1. IsInjective(ord) /\ DOMAIN nd2 = Range(ord)
    BY <2>0 DEF RowsOfDay, SameOwners
  <2>2. ASSUME NEW n \in Range(ord) PROVE n[1] < v + 1 /\ nd2[n].route \in 0..Len(rt)
    <3>1. n[1] < v /\ nd[n].route \in 0..Len(rt)
      BY <2>0 DEF RowsOfDay
    <3>2. n \in DOMAIN nd
      BY <2>0 DEF RowsOfDay
    <3> QED BY <1>1, <3>1, <3>2 DEF SameOwners
  <2>3. ASSUME NEW e \in DOMAIN ed2
        PROVE  e[1] < v + 1 /\ ed2[e].from \in Range(ord) /\ ed2[e].route \in DOMAIN rt
    <3>1. e \in DOMAIN ed
      BY DEF SameOwners
    <3>2. e[1] < v /\ ed[e].from \in Range(ord) /\ ed[e].route \in DOMAIN rt
      BY <2>0, <3>1 DEF RowsOfDay
    <3> QED BY <1>2, <3>1, <3>2 DEF SameOwners
  <2> QED BY <2>1, <2>2, <2>3 DEF RowsOfDay
<1>4. PICK a \in DOMAIN rt : /\ OneActive(rt, a)
                             /\ {rt[a].from, rt[a].to} \subseteq Range(ord)
                             /\ OnStretch(ord, ed, a, rt[a].from, rt[a].to)
  BY DEF OriginPlan
<1>5. OnStretch(ord, ed2, a, rt[a].from, rt[a].to)
  BY <1>4 DEF OnStretch, SameOwners
<1> QED BY <1>3, <1>4, <1>5 DEF OriginPlan

\* The invariant without a new version.
LEMMA OriginStay ==
    ASSUME OriginInv, UNCHANGED <<order, node, edge, route, origin, events, was, version>>
    PROVE  OriginInv'
<1>1. OriginPlan(order, node, edge, route, version)'
  BY DEF OriginInv
<1>2. ASSUME NEW r \in DOMAIN route, Reversible(r)' PROVE Reverses(r, was[r])'
  <2>1. Reversible(r)
    BY <1>2 DEF Reversible
  <2>2. Reverses(r, was[r])
    BY <2>1 DEF OriginInv
  <2>3. /\ NodesAgain(r)' = NodesAgain(r) /\ EdgesAgain(r)' = EdgesAgain(r)
        /\ External!Reopened(r)' = External!Reopened(r)
    BY DEF NodesAgain, EdgesAgain, External!Reopened
  <2>4. \A i, ord, ed : Plannable(i, ord, ed)' <=> Plannable(i, ord, ed)
    BY DEF Plannable, External!Arrived, External!Overtaken, ConsistentOn, External!Has
  <2> QED BY <2>2, <2>3, <2>4 DEF Reverses
<1>3. Len(was)' = Len(route)'
  BY DEF OriginInv
<1>4. ASSUME NEW r \in DOMAIN route
      PROVE  /\ route'[r].version <= version'
             /\ route'[r].origin # 0 =>
                  route'[r].replaces \in 1..(r - 1) /\ route'[r].origin \in DOMAIN origin'
  BY DEF OriginInv
<1>5. DOMAIN route' = DOMAIN route
  OBVIOUS
<1> QED BY <1>1, <1>2, <1>3, <1>4, <1>5 DEF OriginInv

\* The invariant in a new version with the same routes: no route can be undone any more.
LEMMA OriginMove ==
    ASSUME OriginTypes, OriginInv, version' = version + 1, UNCHANGED <<route, was>>,
           OriginPlan(order', node', edge', route, version + 1), DOMAIN origin \subseteq DOMAIN origin'
    PROVE  OriginInv'
<1>0. version \in Nat /\ \A r \in DOMAIN route : route[r].version \in Nat
  <2>1. \A r \in DOMAIN route : route[r] \in OriginRoutes
    BY DEF OriginTypes
  <2> QED BY <2>1 DEF OriginTypes, OriginRoutes
<1>1. OriginPlan(order, node, edge, route, version)'
  OBVIOUS
<1>3. Len(was)' = Len(route)'
  BY DEF OriginInv
<1>4. ASSUME NEW r \in DOMAIN route
      PROVE  /\ route'[r].version <= version'
             /\ route'[r].origin # 0 =>
                  route'[r].replaces \in 1..(r - 1) /\ route'[r].origin \in DOMAIN origin'
             /\ ~Reversible(r)'
  <2>1. /\ route[r].version <= version
        /\ route[r].origin # 0 =>
             route[r].replaces \in 1..(r - 1) /\ route[r].origin \in DOMAIN origin
    BY DEF OriginInv
  <2> QED BY <2>1, <1>0 DEF Reversible
<1>5. DOMAIN route' = DOMAIN route
  OBVIOUS
<1> QED BY <1>1, <1>3, <1>4, <1>5 DEF OriginInv

\* The rows of the plan, with their owners, are as they were.
LEMMA OriginMoveSame ==
    ASSUME OriginTypes, OriginInv, version' = version + 1, UNCHANGED <<order, route, was>>,
           SameOwners(node, edge, node', edge'), DOMAIN origin \subseteq DOMAIN origin'
    PROVE  OriginInv'
<1>1. OriginPlan(order, node', edge', route, version + 1)
  <2>1. OriginPlan(order, node, edge, route, version)
    BY DEF OriginInv
  <2>2. order \in Seq(NodeIds) /\ edge \in MapsOf(OriginEdges) /\ version \in Nat
    BY DEF OriginTypes
  <2> QED BY <2>1, <2>2, PlanLater
<1>2. OriginPlan(order', node', edge', route, version + 1)
  BY <1>1
<1> QED BY <1>2, OriginMove

\* All that the steps preserve.
OriginAll == OriginTypes /\ OriginTimes /\ OriginInv

\* No rows at all.
LEMMA EmptyMap ==
    ASSUME NEW S
    PROVE  <<>> \in MapsOf(S)
<1>1. <<>> \in [{} -> S]
  OBVIOUS
<1>2. {} \subseteq NodeIds
  OBVIOUS
<1> QED BY <1>1, <1>2 DEF MapsOf

\* The invariant holds at the start.
LEMMA OriginInit == External!Init => OriginAll
<1> SUFFICES ASSUME External!Init PROVE OriginAll
  OBVIOUS
<1> DEFINE a == <<0, 1>>
           b == <<0, 2>>
           c == <<0, 3>>
<1>1. a \in NodeIds /\ b \in NodeIds /\ c \in NodeIds /\ a # b /\ b # c /\ a # c
      /\ a[1] = 0 /\ b[1] = 0 /\ c[1] = 0 /\ a[2] = 1 /\ b[2] = 2 /\ c[2] = 3
      /\ <<0, a[2] + 1>> = b /\ <<0, b[2] + 1>> = c
  BY DEF NodeIds
<1>2. order = <<a, b, c>> /\ version = 1
  BY DEF External!Init
<1> HIDE DEF a, b, c
<1>3. order \in Seq(NodeIds) /\ Len(order) = 3 /\ DOMAIN order = 1..3
      /\ order[1] = a /\ order[2] = b /\ order[3] = c
  BY <1>1, <1>2
<1>4. Range(order) = {a, b, c} /\ IsInjective(order)
  <2>1. \A i \in 1..3 : i = 1 \/ i = 2 \/ i = 3
    OBVIOUS
  <2>2. Range(order) = {a, b, c}
    BY <2>1, <1>3 DEF Range
  <2>3. IsInjective(order)
    BY <2>1, <1>1, <1>3 DEF IsInjective
  <2> QED BY <2>2, <2>3
<1>5. Index(order, a) = 1 /\ Index(order, b) = 2 /\ Index(order, c) = 3
  <2>1. 1 \in 1..Len(order) /\ 2 \in 1..Len(order) /\ 3 \in 1..Len(order)
    BY <1>3
  <2>2. \A i \in 1..Len(order) : Index(order, order[i]) = i
    BY <1>3, <1>4, IndexUnique
  <2> QED BY <1>3, <2>1, <2>2
<1>6. /\ DOMAIN node = {a, b, c}
      /\ \A n \in {a, b, c} : node[n] \in OriginNodes /\ node[n].route \in {0, 1}
  <2>1. node = [n \in {a, b, c} |-> IF n = b THEN External!Stop(1, Interchange) ELSE External!Place]
    BY <1>2, <1>4, ExternalLine DEF External!Init, b
  <2> QED BY <2>1 DEF External!Stop, External!Place, OriginNodes, StopHubs
<1>7. /\ DOMAIN edge = {a, b}
      /\ \A e \in {a, b} : edge[e] \in OriginEdges /\ edge[e].route = 1 /\ edge[e].from = e
  <2>1. edge = [e \in {a, b} |-> External!Leg(e, <<0, e[2] + 1>>, 1)]
    BY DEF External!Init, a, b
  <2>2. DOMAIN edge = {a, b} /\ edge[a] = External!Leg(a, b, 1) /\ edge[b] = External!Leg(b, c, 1)
    BY <2>1, <1>1
  <2>3. \A m, n \in NodeIds : /\ External!Leg(m, n, 1) \in OriginEdges
                              /\ External!Leg(m, n, 1).route = 1 /\ External!Leg(m, n, 1).from = m
    BY DEF External!Leg, OriginEdges
  <2> QED BY <1>1, <2>2, <2>3
<1> DEFINE row == [status |-> "ACTIVE", from |-> a, to |-> c, origin |-> 0,
                   replaces |-> 0, version |-> 0, edges |-> DOMAIN edge,
                   before |-> [order |-> <<>>, node |-> <<>>, edge |-> <<>>]]
<1>8. route = <<row>>
  BY DEF External!Init, a, c
<1>9. row \in OriginRoutes
  BY <1>1, <1>7, EmptyMap DEF OriginRoutes
<1>10. row.status = "ACTIVE" /\ row.from = a /\ row.to = c /\ row.origin = 0 /\ row.version = 0
  OBVIOUS
<1> HIDE DEF row
<1>11. route \in Seq(OriginRoutes) /\ DOMAIN route = {1} /\ Len(route) = 1 /\ route[1] = row
  BY <1>8, <1>9
<1>12. OriginTypes
  <2>1. node \in MapsOf(OriginNodes) /\ edge \in MapsOf(OriginEdges)
    <3>1. node \in [{a, b, c} -> OriginNodes] /\ edge \in [{a, b} -> OriginEdges]
      BY <1>6, <1>7 DEF External!Init
    <3> QED BY <1>1, <3>1 DEF MapsOf
  <2>2. events \subseteq Happenings
    <3>1. events = {[node |-> a, type |-> type, at |-> 0, early |-> FALSE] :
                      type \in {"ARRIVAL", "DEPARTURE"}}
      BY DEF External!Init, a
    <3>2. ASSUME NEW type \in {"ARRIVAL", "DEPARTURE"}
          PROVE  [node |-> a, type |-> type, at |-> 0, early |-> FALSE] \in Happenings
      BY <1>1 DEF Happenings
    <3> QED BY <3>1, <3>2
  <2>3. report \in MapsOf([seq : Nat, hub : Hubs \cup {External!AsPlanned}])
    BY EmptyMap DEF External!Init
  <2>4. /\ DraftOK /\ draft.stops \in ExternalOffers \cup {<<>>}
        /\ draft # External!NoDraft => draft.origin \in DOMAIN origin
    BY DEF External!Init, External!NoDraft, DraftOK
  <2>5. now \in Nat /\ version \in Nat /\ reports \in Nat /\ origin \in Seq(Origins)
        /\ asked \in [Clients -> Requests \cup {External!NoRequest}]
        /\ was \in Seq({<<>>} \cup (Seq(NodeIds) \X MapsOf(OriginNodes) \X MapsOf(OriginEdges)))
    BY DEF External!Init
  <2> QED BY <1>3, <1>11, <2>1, <2>2, <2>3, <2>4, <2>5 DEF OriginTypes
<1>13. OriginTimes
  BY DEF External!Init, OriginTimes, NothingAfter
<1>14. OriginInv
  <2>1. RowsOfDay(order, node, edge, route, version)
    BY <1>1, <1>2, <1>4, <1>6, <1>7, <1>11 DEF RowsOfDay
  <2>2. OnStretch(order, edge, 1, a, c)
    BY <1>1, <1>5, <1>7 DEF OnStretch
  <2>3. OneActive(route, 1)
    BY <1>10, <1>11 DEF OneActive
  <2>4. OriginPlan(order, node, edge, route, version)
    BY <2>1, <2>2, <2>3, <1>4, <1>10, <1>11 DEF OriginPlan
  <2>5. Len(was) = 1
    BY DEF External!Init
  <2> QED BY <1>2, <1>10, <1>11, <2>4, <2>5 DEF OriginInv, Reversible
<1> QED BY <1>12, <1>13, <1>14 DEF OriginAll

\* The type invariant, of the draft and of all else.
DraftTypes ==
    /\ DraftOK /\ draft.stops \in ExternalOffers \cup {<<>>}
    /\ draft # External!NoDraft => draft.origin \in DOMAIN origin

RestTypes ==
    /\ now \in Nat /\ version \in Nat /\ reports \in Nat
    /\ order \in Seq(NodeIds)
    /\ node \in MapsOf(OriginNodes) /\ edge \in MapsOf(OriginEdges)
    /\ route \in Seq(OriginRoutes)
    /\ report \in MapsOf([seq : Nat, hub : Hubs \cup {External!AsPlanned}])
    /\ origin \in Seq(Origins)
    /\ events \subseteq Happenings
    /\ asked \in [Clients -> Requests \cup {External!NoRequest}]
    /\ was \in Seq({<<>>} \cup (Seq(NodeIds) \X MapsOf(OriginNodes) \X MapsOf(OriginEdges)))

\* A new version starts without a draft.
LEMMA AdvanceTypes ==
    ASSUME OriginTypes, External!Advance
    PROVE  version' \in Nat /\ version' = version + 1 /\ DraftTypes'
<1>1. version' = version + 1 /\ draft' = External!NoDraft /\ version \in Nat
  BY DEF External!Advance, OriginTypes
<1>2. DraftTypes'
  BY <1>1 DEF DraftTypes, External!NoDraft, DraftOK
<1> QED BY <1>1, <1>2

\* Steps that leave the routes alone, one by one.
LEMMA AskKeeps ==
    ASSUME OriginAll, NEW c \in Clients, External!Ask(c)
    PROVE  OriginAll'
<1>1. OriginTimes'
  BY AskTimes DEF OriginAll
<1>2. UNCHANGED <<now, version, order, node, edge, route, was, report, origin, events, draft, reports>>
  BY DEF External!Ask, External!plan
<1>3. OriginInv'
  BY <1>2, OriginStay DEF OriginAll
<1>4. OriginTypes'
  <2>1. PICK e \in DOMAIN report :
          /\ External!Candidate(e)
          /\ asked' = [asked EXCEPT ![c] =
                     [edge |-> e, seen |-> report[e].seq, hub |-> report[e].hub,
                      basis |-> version, at |-> now]]
    BY DEF External!Ask
  <2>2. /\ report[e] \in [seq : Nat, hub : Hubs \cup {External!AsPlanned}]
        /\ e \in NodeIds
    <3>1. report \in MapsOf([seq : Nat, hub : Hubs \cup {External!AsPlanned}])
      BY DEF OriginAll, OriginTypes
    <3> QED BY <3>1, MapIs
  <2>3. report[e].hub \in Hubs /\ report[e].seq \in Nat
    BY <2>1, <2>2 DEF External!Candidate
  <2>4. [edge |-> e, seen |-> report[e].seq, hub |-> report[e].hub, basis |-> version, at |-> now]
          \in Requests
    BY <2>2, <2>3 DEF OriginAll, OriginTypes, Requests, StopHubs
  <2>5. asked' \in [Clients -> Requests \cup {External!NoRequest}]
    BY <2>1, <2>4 DEF OriginAll, OriginTypes
  <2>6. RestTypes' /\ DraftTypes'
    BY <1>2, <2>5 DEF OriginAll, OriginTypes, RestTypes, DraftTypes, DraftOK
  <2> QED BY <2>6 DEF OriginTypes, RestTypes, DraftTypes
<1> QED BY <1>1, <1>3, <1>4 DEF OriginAll

\* Rows that are not written keep their owners.
LEMMA SameOwnersSame ==
    ASSUME UNCHANGED <<node, edge>>
    PROVE  SameOwners(node, edge, node', edge')
BY DEF SameOwners

\* A confirmation, answered with an origin or a conflict.
LEMMA ConfirmKeeps ==
    ASSUME OriginAll, NEW c \in Clients, External!Confirm(c)
    PROVE  OriginAll'
<1>t. OriginTypes /\ OriginTimes /\ OriginInv
  BY DEF OriginAll
<1>1. CASE UNCHANGED <<version, origin, draft>>
  <2>1. /\ asked' = [asked EXCEPT ![c] = External!NoRequest]
        /\ UNCHANGED <<now, order, node, edge, route, was, report, events, reports>>
    BY DEF External!Confirm, External!plan
  <2>2. asked' \in [Clients -> Requests \cup {External!NoRequest}]
        /\ \A d \in Clients : asked'[d] \in {asked[d], External!NoRequest}
    BY <1>t, <2>1 DEF OriginTypes
  <2>3. OriginTimes'
    <3>1. now' \in Nat /\ now <= now'
      BY <1>t, <2>1 DEF OriginTypes
    <3> QED BY <1>1, <1>t, <2>1, <2>2, <3>1, TimesStay
  <2>4. OriginInv'
    BY <1>1, <1>t, <2>1, OriginStay
  <2>5. RestTypes' /\ DraftTypes'
    BY <1>1, <1>t, <2>1, <2>2 DEF OriginTypes, RestTypes, DraftTypes, DraftOK
  <2> QED BY <2>3, <2>4, <2>5 DEF OriginAll, OriginTypes, RestTypes, DraftTypes
<1>2. CASE origin' # origin
  <2> DEFINE q == asked[c]
             k == Len(origin) + 1
  <2>1. /\ q \in Requests /\ q # External!NoRequest
        /\ NothingAfter(q.at)
        /\ External!Advance
        /\ asked' = [asked EXCEPT ![c] = External!NoRequest]
        /\ UNCHANGED <<now, order, node, edge, route, report, events, was>>
        /\ origin' \in Seq(Origins) /\ Len(origin') = k
        /\ origin'[k].arrivedAt = q.at
        /\ \A i \in DOMAIN origin : origin'[i].arrivedAt = origin[i].arrivedAt
    <3>1. /\ q \in Requests /\ q # External!NoRequest /\ NothingAfter(q.at) /\ External!Advance
          /\ asked' = [asked EXCEPT ![c] = External!NoRequest]
          /\ UNCHANGED <<now, order, node, edge, route, report, events, was>>
          /\ origin' \in Seq(Origins) /\ Len(origin') = k
          /\ origin'[k] = [status |-> "ARRIVED", arrivedAt |-> q.at, edge |-> q.edge,
                route |-> edge[q.edge].route, hub |-> q.hub, seen |-> q.seen]
          /\ \A i \in DOMAIN origin : origin'[i].arrivedAt = origin[i].arrivedAt
      BY <1>2, <1>t, ConfirmedRow
    <3>2. origin'[k].arrivedAt = q.at
      BY <3>1
    <3> QED BY <3>1, <3>2
  <2>2. asked' \in [Clients -> Requests \cup {External!NoRequest}]
        /\ \A d \in Clients : asked'[d] \in {asked[d], External!NoRequest}
    BY <1>t, <2>1 DEF OriginTypes
  <2>3. Len(origin) \in Nat /\ DOMAIN origin = 1..Len(origin) /\ DOMAIN origin' = 1..k
    BY <1>t, <2>1 DEF OriginTypes
  <2>4. NothingAfter(now)'
    <3>1. q.at <= now
      BY <1>t, <2>1 DEF OriginTimes
    <3>2. NothingAfter(now)
      BY <1>t DEF OriginTimes
    <3>3. \A i \in DOMAIN origin' : origin'[i].arrivedAt <= now
      BY <2>1, <2>3, <3>1, <3>2 DEF NothingAfter
    <3> QED BY <2>1, <3>2, <3>3 DEF NothingAfter
  <2>5. OriginTimes'
    BY <1>t, <2>1, <2>2, <2>4, AdvanceTypes, TimesMove
  <2>6. OriginInv'
    BY <1>t, <2>1, <2>3, AdvanceTypes, SameOwnersSame, OriginMoveSame
  <2>7. reports' = reports
    BY DEF External!Confirm
  <2>8. RestTypes' /\ DraftTypes'
    BY <1>t, <2>1, <2>2, <2>7, AdvanceTypes DEF OriginTypes, RestTypes
  <2> QED BY <2>5, <2>6, <2>8 DEF OriginAll, OriginTypes, RestTypes, DraftTypes
<1>3. UNCHANGED <<version, origin, draft>> \/ origin' # origin
  <2>1. Len(origin) \in Nat
    BY <1>t DEF OriginTypes
  <2>2. ASSUME origin' = Append(External!Invalidated(asked[c]),
                   [status |-> "ARRIVED", arrivedAt |-> asked[c].at, edge |-> asked[c].edge,
                    route |-> edge[asked[c].edge].route, hub |-> asked[c].hub, seen |-> asked[c].seen])
        PROVE  origin' # origin
    <3> DEFINE old == External!Invalidated(asked[c])
               new == [status |-> "ARRIVED", arrivedAt |-> asked[c].at, edge |-> asked[c].edge,
                    route |-> edge[asked[c].edge].route, hub |-> asked[c].hub, seen |-> asked[c].seen]
    <3>1. DOMAIN old = 1..Len(origin)
      BY <1>t DEF OriginTypes, External!Invalidated
    <3>2. old \in Seq({old[i] : i \in 1..Len(origin)}) /\ Len(old) = Len(origin)
      <4>1. old = [i \in 1..Len(origin) |-> old[i]]
        BY <3>1 DEF External!Invalidated
      <4> HIDE DEF old
      <4> QED BY <2>1, <4>1
    <3> HIDE DEF old, new
    <3>3. origin' = Append(old, new)
      BY <2>2 DEF old, new
    <3>4. Len(origin') = Len(origin) + 1
      BY <3>2, <3>3
    <3> QED BY <2>1, <3>4
  <2> QED BY <2>2 DEF External!Confirm
<1> QED BY <1>1, <1>2, <1>3

\* A step that makes a new version and leaves the routes alone.
LEMMA NewVersionKeeps ==
    ASSUME OriginAll, External!Advance, RestTypes', NothingAfter(now)',
           UNCHANGED <<now, asked, order, route, was>>,
           SameOwners(node, edge, node', edge'), DOMAIN origin \subseteq DOMAIN origin'
    PROVE  OriginAll'
<1>t. OriginTypes /\ OriginTimes /\ OriginInv
  BY DEF OriginAll
<1>1. version' = version + 1 /\ DraftTypes'
  BY <1>t, AdvanceTypes
<1>2. OriginTimes'
  BY <1>t, <1>1, TimesMove
<1>3. OriginInv'
  BY <1>t, <1>1, OriginMoveSame
<1> QED BY <1>1, <1>2, <1>3 DEF OriginAll, OriginTypes, RestTypes, DraftTypes

\* A step that makes no new version.
LEMMA SameVersionKeeps ==
    ASSUME OriginAll, RestTypes', DraftTypes', now <= now',
           UNCHANGED <<version, order, node, edge, route, was, origin, events, asked>>
    PROVE  OriginAll'
<1>t. OriginTypes /\ OriginTimes /\ OriginInv
  BY DEF OriginAll
<1>1. OriginTimes'
  BY <1>t, TimesStay DEF RestTypes
<1>2. OriginInv'
  BY <1>t, OriginStay
<1> QED BY <1>1, <1>2 DEF OriginAll, OriginTypes, RestTypes, DraftTypes

\* Leaving an origin.
LEMMA DepartKeeps ==
    ASSUME OriginAll, NEW i \in DOMAIN origin, External!Depart(i)
    PROVE  OriginAll'
<1>1. /\ origin' = [origin EXCEPT ![i].status = "DEPARTED"] /\ External!Advance
      /\ UNCHANGED <<now, order, node, edge, route, was, report, events, asked, reports>>
  BY DEF External!Depart, External!Act, External!plan
<1>2. origin \in Seq(Origins) /\ \A j \in DOMAIN origin : origin[j] \in Origins
  BY DEF OriginAll, OriginTypes
<1>3. /\ origin' \in Seq(Origins) /\ DOMAIN origin' = DOMAIN origin
      /\ \A j \in DOMAIN origin : origin'[j].arrivedAt = origin[j].arrivedAt
  <2>1. [origin[i] EXCEPT !.status = "DEPARTED"] \in Origins
        /\ [origin[i] EXCEPT !.status = "DEPARTED"].arrivedAt = origin[i].arrivedAt
    BY <1>2 DEF Origins
  <2>2. origin' = [origin EXCEPT ![i] = [origin[i] EXCEPT !.status = "DEPARTED"]]
    BY <1>1
  <2> QED BY <1>2, <2>1, <2>2
<1>4. RestTypes'
  BY <1>1, <1>3, AdvanceTypes DEF OriginAll, OriginTypes, RestTypes
<1>5. NothingAfter(now)'
  BY <1>1, <1>3 DEF OriginAll, OriginTimes, NothingAfter
<1> QED BY <1>1, <1>3, <1>4, <1>5, SameOwnersSame, NewVersionKeeps

\* A query.
LEMMA QueryKeepsOrigins ==
    ASSUME OriginAll, NEW i \in DOMAIN origin, NEW stops \in ExternalOffers, External!Query(i, stops)
    PROVE  OriginAll'
<1>1. /\ draft' = [origin |-> i, stops |-> stops, summary |-> External!NoSummary]
      /\ UNCHANGED <<now, version, order, node, edge, route, was, report, origin, events, asked, reports>>
  BY DEF External!Query, External!plan
<1>2. RestTypes'
  BY <1>1 DEF OriginAll, OriginTypes, RestTypes
<1>3. DraftTypes'
  BY <1>1 DEF DraftTypes, DraftOK
<1>4. now <= now'
  BY <1>1 DEF OriginAll, OriginTypes
<1> QED BY <1>1, <1>2, <1>3, <1>4, SameVersionKeeps

\* A preview.
LEMMA PreviewKeepsOrigins ==
    ASSUME OriginAll, External!Preview
    PROVE  OriginAll'
<1>1. /\ draft' = [draft EXCEPT !.summary = External!Summary(draft.origin, draft.stops)]
      /\ draft # External!NoDraft
      /\ UNCHANGED <<now, version, order, node, edge, route, was, report, origin, events, asked, reports>>
  BY DEF External!Preview, External!plan
<1>2. RestTypes' /\ DraftTypes
  BY <1>1 DEF OriginAll, OriginTypes, RestTypes, DraftTypes
<1>3. DraftTypes'
  <2>1. DraftOK' /\ draft'.origin = draft.origin /\ draft'.stops = draft.stops
    BY <1>1, <1>2 DEF DraftTypes, DraftOK
  <2> QED BY <1>1, <1>2, <2>1 DEF DraftTypes
<1>4. now <= now'
  BY <1>1 DEF OriginAll, OriginTypes
<1> QED BY <1>1, <1>2, <1>3, <1>4, SameVersionKeeps

\* The clock.
LEMMA TickKeeps ==
    ASSUME OriginAll, External!Tick
    PROVE  OriginAll'
<1>1. now' = now + 1
      /\ UNCHANGED <<version, order, node, edge, route, was, report, origin, events, draft, asked, reports>>
  BY DEF External!Tick, External!plan
<1>2. now <= now' /\ RestTypes' /\ DraftTypes'
  BY <1>1 DEF OriginAll, OriginTypes, RestTypes, DraftTypes, DraftOK
<1> QED BY <1>1, <1>2, SameVersionKeeps

\* The times a report writes leave the leg where it is.
LEMMA TimesRows ==
    ASSUME OriginTypes, NEW e \in DOMAIN edge, NEW departed \in BOOLEAN, UNCHANGED node,
           edge' = [edge EXCEPT ![e].actual = @ \/ departed]
    PROVE  edge' \in MapsOf(OriginEdges) /\ SameOwners(node, edge, node', edge')
<1>1. edge \in [DOMAIN edge -> OriginEdges] /\ DOMAIN edge \subseteq NodeIds
  BY MapIs DEF OriginTypes
<1> DEFINE row == [edge[e] EXCEPT !.actual = @ \/ departed]
<1>2. edge' = [edge EXCEPT ![e] = row]
  OBVIOUS
<1>3. row \in OriginEdges /\ row.from = edge[e].from /\ row.route = edge[e].route
  <2>1. edge[e] \in OriginEdges
    BY <1>1
  <2>2. (edge[e].actual \/ departed) \in BOOLEAN
    OBVIOUS
  <2> HIDE DEF row
  <2> DEFINE actual == edge[e].actual \/ departed
  <2>3. row = [edge[e] EXCEPT !.actual = actual]
    BY DEF row
  <2> HIDE DEF actual
  <2>4. actual \in BOOLEAN
    BY <2>2 DEF actual
  <2> QED BY <2>1, <2>3, <2>4 DEF OriginEdges
<1> HIDE DEF row
<1>4. edge' \in [DOMAIN edge -> OriginEdges] /\ DOMAIN edge' = DOMAIN edge
  BY <1>1, <1>2, <1>3
<1>5. edge' \in MapsOf(OriginEdges)
  BY <1>1, <1>4 DEF MapsOf
<1>6. SameOwners(node, edge, node', edge')
  BY <1>2, <1>3, <1>4 DEF SameOwners
<1> QED BY <1>5, <1>6

\* A report of the provider, with or without new times.
LEMMA ReportKeeps ==
    ASSUME OriginAll, NEW e \in DOMAIN edge, External!Report(e)
    PROVE  OriginAll'
<1>t. OriginTypes /\ OriginTimes
  BY DEF OriginAll
<1>1. PICK hub \in Hubs \cup {External!AsPlanned}, departed \in BOOLEAN :
         /\ report' = [f \in DOMAIN report \cup {e} |->
                         IF f = e THEN [seq |-> reports + 1, hub |-> hub] ELSE report[f]]
         /\ External!Times(e, departed)
  BY DEF External!Report
<1>2. UNCHANGED <<now, order, node, route, was, origin, events, asked>> /\ reports' = reports + 1
  BY DEF External!Report
<1>3. edge' = [edge EXCEPT ![e].actual = @ \/ departed]
  BY <1>1 DEF External!Times
<1>4. edge' \in MapsOf(OriginEdges) /\ SameOwners(node, edge, node', edge')
  BY <1>t, <1>2, <1>3, TimesRows
<1>5. report' \in MapsOf([seq : Nat, hub : Hubs \cup {External!AsPlanned}])
  <2> DEFINE S == [seq : Nat, hub : Hubs \cup {External!AsPlanned}]
             row == [seq |-> reports + 1, hub |-> hub]
  <2>1. report \in MapsOf(S) /\ row \in S /\ edge \in MapsOf(OriginEdges)
    BY <1>t DEF OriginTypes
  <2>2. report' = [f \in DOMAIN report \cup {e} |-> IF f = e THEN row ELSE report[f]]
    BY <1>1
  <2> HIDE DEF S, row
  <2>3. report \in [DOMAIN report -> S] /\ DOMAIN report \cup {e} \subseteq NodeIds
    BY <2>1, MapIs
  <2>4. report' \in [DOMAIN report \cup {e} -> S]
    BY <2>1, <2>2, <2>3
  <2>5. report' \in MapsOf(S)
    BY <2>3, <2>4 DEF MapsOf
  <2> QED BY <2>5 DEF S
<1>6. CASE External!Act
  <2>1. External!Advance
    BY <1>6 DEF External!Act
  <2>2. RestTypes'
    BY <1>t, <1>2, <1>4, <1>5, <2>1, AdvanceTypes DEF OriginTypes, RestTypes
  <2>3. NothingAfter(now)'
    BY <1>t, <1>2 DEF OriginTimes, NothingAfter
  <2> QED BY <1>2, <1>4, <2>1, <2>2, <2>3, NewVersionKeeps
<1>7. CASE edge' = edge /\ UNCHANGED <<version, draft, world>>
  <2>1. RestTypes' /\ DraftTypes'
    BY <1>t, <1>2, <1>5, <1>7 DEF OriginTypes, RestTypes, DraftTypes, DraftOK
  <2>2. now <= now'
    BY <1>t, <1>2 DEF OriginTypes
  <2> QED BY <1>2, <1>7, <2>1, <2>2, SameVersionKeeps
<1> QED BY <1>1, <1>6, <1>7 DEF External!Times

\* An event the traveller confirms; one not dated ahead is not after the clock.
LEMMA RecordKeeps ==
    ASSUME External!OriginAssumption, OriginAll,
           NEW n \in External!Line, NEW type \in {"ARRIVAL", "DEPARTURE"}, External!Record(n, type)
    PROVE  OriginAll'
<1>t. OriginTypes /\ OriginTimes
  BY DEF OriginAll
<1>1. PICK at \in 0..now + Skew :
        events' = events \cup {[node |-> n, type |-> type, at |-> at, early |-> at > now]}
  BY DEF External!Record
<1>2. External!Advance /\ UNCHANGED <<now, order, node, edge, route, was, report, origin, asked, reports>>
  BY DEF External!Record, External!Act, External!plan
<1> DEFINE e == [node |-> n, type |-> type, at |-> at, early |-> at > now]
<1>3. at \in Nat
  BY <1>1
<1>4. n \in NodeIds
  BY <1>t, ExternalLine DEF OriginTypes, Range
<1>5. (at > now) \in BOOLEAN
  OBVIOUS
<1>6. e \in Happenings
  <2> DEFINE early == at > now
  <2> HIDE DEF early
  <2>1. [node |-> n, type |-> type, at |-> at, early |-> early] \in Happenings
    BY <1>3, <1>4, <1>5 DEF Happenings, early
  <2> QED BY <2>1 DEF early
<1>7. ~e.early => e.at <= now
  <2> DEFINE early == at > now
  <2>1. now \in Nat
    BY <1>t DEF OriginTypes
  <2>2. ~early => at <= now
    BY <1>3, <2>1
  <2> HIDE DEF early
  <2>3. [node |-> n, type |-> type, at |-> at, early |-> early].early = early
        /\ [node |-> n, type |-> type, at |-> at, early |-> early].at = at
    OBVIOUS
  <2> QED BY <2>2, <2>3 DEF early
<1> HIDE DEF e
<1>8. events' = events \cup {e}
  BY <1>1 DEF e
<1>9. RestTypes'
  BY <1>t, <1>2, <1>6, <1>8, AdvanceTypes DEF OriginTypes, RestTypes
<1>10. NothingAfter(now)'
  <2>1. NothingAfter(now)
    BY <1>t DEF OriginTimes
  <2> QED BY <2>1, <1>2, <1>7, <1>8 DEF NothingAfter
<1> QED BY <1>2, <1>9, <1>10, SameOwnersSame, NewVersionKeeps

\* An event is corrected.
LEMMA CorrectKeeps ==
    ASSUME OriginAll, NEW e \in events, External!Correct(e)
    PROVE  OriginAll'
<1>t. OriginTypes /\ OriginTimes
  BY DEF OriginAll
<1>1. External!Advance /\ events' = events \ {e}
      /\ UNCHANGED <<now, order, node, edge, route, was, report, origin, asked, reports>>
  BY DEF External!Correct, External!Act, External!plan
<1>2. RestTypes'
  BY <1>t, <1>1, AdvanceTypes DEF OriginTypes, RestTypes
<1>3. NothingAfter(now)'
  BY <1>t, <1>1 DEF OriginTimes, NothingAfter
<1> QED BY <1>1, <1>2, <1>3, SameOwnersSame, NewVersionKeeps

\* A generated node is marked as touched.
LEMMA EditKeepsOrigins ==
    ASSUME OriginAll, NEW n \in External!Line, External!Edit(n)
    PROVE  OriginAll'
<1>t. OriginTypes /\ OriginTimes /\ OriginInv
  BY DEF OriginAll
<1>1. External!Advance /\ node' = [node EXCEPT ![n].touched = TRUE]
      /\ UNCHANGED <<now, order, edge, route, was, report, origin, events, asked, reports>>
  BY DEF External!Edit, External!Act
<1>2. node \in [DOMAIN node -> OriginNodes] /\ DOMAIN node \subseteq NodeIds
  BY <1>t, MapIs DEF OriginTypes
<1>3. n \in DOMAIN node
  BY <1>t, ExternalLine DEF OriginInv, OriginPlan, RowsOfDay
<1> DEFINE row == [node[n] EXCEPT !.touched = TRUE]
<1>4. row \in OriginNodes /\ row.route = node[n].route
  BY <1>2, <1>3 DEF OriginNodes
<1>5. node' = [node EXCEPT ![n] = row]
  BY <1>1
<1> HIDE DEF row
<1>6. node' \in [DOMAIN node -> OriginNodes] /\ DOMAIN node' = DOMAIN node
  BY <1>2, <1>4, <1>5
<1>7. node' \in MapsOf(OriginNodes)
  BY <1>2, <1>6 DEF MapsOf
<1>8. SameOwners(node, edge, node', edge')
  BY <1>1, <1>4, <1>5, <1>6 DEF SameOwners
<1>9. RestTypes'
  BY <1>t, <1>1, <1>7, AdvanceTypes DEF OriginTypes, RestTypes
<1>10. NothingAfter(now)'
  BY <1>t, <1>1 DEF OriginTimes, NothingAfter
<1> QED BY <1>1, <1>8, <1>9, <1>10, NewVersionKeeps

\* Nothing changes.
LEMMA OriginStutter ==
    ASSUME OriginAll, UNCHANGED External!vars
    PROVE  OriginAll'
<1>1. UNCHANGED <<now, version, order, node, edge, route, was, report, origin, events, draft, asked, reports>>
  BY DEF External!vars, External!plan
<1>2. now <= now' /\ RestTypes' /\ DraftTypes'
  BY <1>1 DEF OriginAll, OriginTypes, RestTypes, DraftTypes, DraftOK
<1> QED BY <1>1, <1>2, SameVersionKeeps

(***************************************************************************)
(* Undo.                                                                   *)
(***************************************************************************)
\* AuthorisedIs, of the next state.
LEMMA AuthorisedNext ==
    ASSUME NEW i, Plannable(i, order, edge)', route'[origin'[i].route].status = "ACTIVE"
    PROVE  External!Authorised(i)'
<1>1. External!Consistent'
  <2>1. External!Line' = Range(order') /\ \A n \in Range(order') : External!Index(n)' = Index(order', n)
    BY DEF External!Line, External!Range, External!Index, Index, Range
  <2>2. ConsistentOn(order)'
    BY DEF Plannable
  <2> QED BY <2>1, <2>2 DEF External!Consistent, External!Open, External!Executed, ConsistentOn
<1>2. External!Arrived' = {i}
  BY DEF Plannable
<1>3. ~(External!Cardinality(External!Arrived') > 1)
  <2>1. External!Cardinality({i}) = Cardinality({i})
    BY DEF External!Cardinality, Cardinality
  <2>2. Cardinality({i}) = 1
    BY FS_Singleton
  <2> QED BY <1>2, <2>1, <2>2
<1>4. origin'[i].status = "ARRIVED"
  BY <1>2 DEF External!Arrived
<1>5. ~External!Overtaken(i)'
  BY DEF Plannable
<1>6. External!Currentness(i)' = "CURRENT"
  BY <1>1, <1>3, <1>4, <1>5 DEF External!Currentness
<1> QED BY <1>6 DEF External!Authorised, Plannable

\* What undo would restore has the right types.
LEMMA AgainTypes ==
    ASSUME OriginTypes, NEW r \in DOMAIN route
    PROVE  /\ NodesAgain(r) \in MapsOf(OriginNodes) /\ EdgesAgain(r) \in MapsOf(OriginEdges)
           /\ route[r].before.order \in Seq(NodeIds)
<1>1. route[r] \in OriginRoutes
  BY DEF OriginTypes
<1>2. /\ route[r].before.order \in Seq(NodeIds)
      /\ route[r].before.node \in MapsOf(OriginNodes)
      /\ route[r].before.edge \in MapsOf(OriginEdges)
  BY <1>1 DEF OriginRoutes
<1> DEFINE nb == route[r].before.node
           eb == route[r].before.edge
<1> HIDE DEF nb, eb
<1>3. nb \in [DOMAIN nb -> OriginNodes] /\ DOMAIN nb \subseteq NodeIds
  BY <1>2, MapIs DEF nb
<1>4. eb \in [DOMAIN eb -> OriginEdges] /\ DOMAIN eb \subseteq NodeIds
  BY <1>2, MapIs DEF eb
<1>5. /\ node \in [DOMAIN node -> OriginNodes] /\ DOMAIN node \subseteq NodeIds
      /\ edge \in [DOMAIN edge -> OriginEdges] /\ DOMAIN edge \subseteq NodeIds
  BY MapIs DEF OriginTypes
<1>6. NodesAgain(r) \in MapsOf(OriginNodes)
  <2> DEFINE D == {m \in DOMAIN node : node[m].route # r} \cup DOMAIN nb
  <2>1. NodesAgain(r) = [n \in D |-> IF n \in DOMAIN nb THEN nb[n] ELSE node[n]]
    BY DEF NodesAgain, nb
  <2>2. \A n \in D : n \in DOMAIN nb \/ n \in DOMAIN node
    OBVIOUS
  <2>3. D \subseteq NodeIds
    BY <1>3, <1>5
  <2> HIDE DEF D
  <2>4. NodesAgain(r) \in [D -> OriginNodes]
    BY <2>1, <2>2, <1>3, <1>5
  <2> QED BY <2>3, <2>4 DEF MapsOf
<1>7. EdgesAgain(r) \in MapsOf(OriginEdges)
  <2> DEFINE K == DOMAIN edge \ route[r].edges
             D == K \cup DOMAIN eb
  <2>1. EdgesAgain(r) = [e \in D |-> IF e \in K THEN edge[e] ELSE eb[e]]
    BY DEF EdgesAgain, eb
  <2>2. K \subseteq DOMAIN edge
    OBVIOUS
  <2> HIDE DEF K
  <2>3. D \subseteq NodeIds
    BY <1>4, <1>5, <2>2
  <2>4. \A e \in D : e \in K \/ e \in DOMAIN eb
    OBVIOUS
  <2> HIDE DEF D
  <2>5. EdgesAgain(r) \in [D -> OriginEdges]
    BY <2>1, <2>2, <2>4, <1>4, <1>5
  <2> QED BY <2>3, <2>5 DEF MapsOf
<1> QED BY <1>2, <1>6, <1>7

\* What an undo does, by the invariant.
LEMMA UndoIs ==
    ASSUME OriginTypes, OriginInv, NEW r \in DOMAIN route, External!Undo(r)
    PROVE  /\ Reverses(r, was[r]) /\ route[r].status = "ACTIVE" /\ route[r].origin # 0
           /\ order' = route[r].before.order
           /\ node' = NodesAgain(r) /\ edge' = EdgesAgain(r)
           /\ route' = External!Reopened(r)
           /\ External!Advance
           /\ UNCHANGED <<now, report, origin, events, asked, reports, was>>
<1>1. Reversible(r)
  BY DEF External!Undo, External!Undoable, Reversible
<1>2. Reverses(r, was[r])
  BY <1>1 DEF OriginInv
<1>3. External!Line = DOMAIN node
  BY ExternalLine DEF OriginInv, OriginPlan, RowsOfDay
<1>4. node' = NodesAgain(r)
  <2>1. External!Line \ {n \in External!Line : node[n].route = r} = {m \in DOMAIN node : node[m].route # r}
    BY <1>3
  <2> QED BY <2>1 DEF External!Undo, NodesAgain
<1>5. edge' = EdgesAgain(r)
  BY DEF External!Undo, EdgesAgain
<1> QED BY <1>1, <1>2, <1>4, <1>5 DEF External!Undo, Reversible

\* Routes after an undo.
LEMMA ReopenedIs ==
    ASSUME OriginTypes, OriginInv, NEW r \in DOMAIN route, route[r].origin # 0
    PROVE  /\ External!Reopened(r) \in Seq(OriginRoutes)
           /\ Len(External!Reopened(r)) = Len(route) /\ DOMAIN External!Reopened(r) = DOMAIN route
           /\ \A q \in DOMAIN route :
                /\ External!Reopened(r)[q].origin = route[q].origin
                /\ External!Reopened(r)[q].replaces = route[q].replaces
                /\ External!Reopened(r)[q].version = route[q].version
                /\ External!Reopened(r)[q].before = route[q].before
                /\ External!Reopened(r)[q].edges = route[q].edges
                /\ q \notin {r, route[r].replaces} => External!Reopened(r)[q].status = route[q].status
           /\ route[r].replaces \in DOMAIN route \ {r}
           /\ External!Reopened(r)[route[r].replaces].status = "ACTIVE"
           /\ External!Reopened(r)[r].status = "UNDONE"
<1>1. DOMAIN route = 1..Len(route) /\ Len(route) \in Nat /\ \A q \in DOMAIN route : route[q] \in OriginRoutes
  BY DEF OriginTypes
<1>2. route[r].replaces \in 1..(r - 1)
  BY DEF OriginInv
<1> DEFINE p == route[r].replaces
<1>3. p \in DOMAIN route /\ p # r
  BY <1>1, <1>2
<1> HIDE DEF p
<1> DEFINE one == [route EXCEPT ![r] = [route[r] EXCEPT !.status = "UNDONE"]]
           two == [one EXCEPT ![p] = [one[p] EXCEPT !.status = "ACTIVE"]]
<1>4. External!Reopened(r) = two
  BY DEF External!Reopened, p
<1>5. one \in [DOMAIN route -> OriginRoutes] /\ one[p] = route[p]
  <2>1. [route[r] EXCEPT !.status = "UNDONE"] \in OriginRoutes
    BY <1>1 DEF OriginRoutes
  <2> QED BY <1>1, <1>3, <2>1
<1>6. two \in [DOMAIN route -> OriginRoutes]
  <2>1. [one[p] EXCEPT !.status = "ACTIVE"] \in OriginRoutes
    BY <1>1, <1>3, <1>5 DEF OriginRoutes
  <2> HIDE DEF one
  <2> QED BY <1>5, <2>1
<1>7. two \in Seq(OriginRoutes) /\ Len(two) = Len(route) /\ DOMAIN two = DOMAIN route
  <2> HIDE DEF two
  <2> QED BY <1>1, <1>6
<1>8. /\ two[r] = [route[r] EXCEPT !.status = "UNDONE"]
      /\ two[p] = [route[p] EXCEPT !.status = "ACTIVE"]
      /\ \A q \in DOMAIN route \ {r, p} : two[q] = route[q]
  BY <1>1, <1>3, <1>5
<1> HIDE DEF two
<1>9. ASSUME NEW q \in DOMAIN route
      PROVE  /\ two[q].origin = route[q].origin /\ two[q].replaces = route[q].replaces
             /\ two[q].version = route[q].version /\ two[q].before = route[q].before
             /\ two[q].edges = route[q].edges
             /\ q \notin {r, p} => two[q].status = route[q].status
  <2>1. CASE q = r
    BY <2>1, <1>1, <1>8 DEF OriginRoutes
  <2>2. CASE q = p
    BY <2>2, <1>1, <1>8 DEF OriginRoutes
  <2>3. CASE q \notin {r, p}
    BY <2>3, <1>8
  <2> QED BY <2>1, <2>2, <2>3
<1>10. two[p].status = "ACTIVE" /\ two[r].status = "UNDONE"
  BY <1>1, <1>3, <1>8 DEF OriginRoutes
<1> QED BY <1>3, <1>4, <1>7, <1>9, <1>10 DEF p

\* An undo leaves the plan its adoption found, in a version in which no route can be
\* undone.
LEMMA UndoKeepsOrigins ==
    ASSUME OriginAll, NEW r \in DOMAIN route, External!Undo(r)
    PROVE  OriginAll'
<1>t. OriginTypes /\ OriginTimes /\ OriginInv
  BY DEF OriginAll
<1>1. /\ Reverses(r, was[r]) /\ route[r].origin # 0
      /\ order' = route[r].before.order
      /\ node' = NodesAgain(r) /\ edge' = EdgesAgain(r)
      /\ route' = External!Reopened(r)
      /\ External!Advance
      /\ UNCHANGED <<now, report, origin, events, asked, reports, was>>
  BY <1>t, UndoIs
<1>2. version' = version + 1 /\ version \in Nat
  BY <1>t, <1>1, AdvanceTypes DEF OriginTypes
<1>3. RestTypes'
  <2>1. node' \in MapsOf(OriginNodes) /\ edge' \in MapsOf(OriginEdges) /\ order' \in Seq(NodeIds)
    BY <1>t, <1>1, AgainTypes
  <2>2. route' \in Seq(OriginRoutes)
    BY <1>t, <1>1, ReopenedIs
  <2> QED BY <1>t, <1>1, <1>2, <2>1, <2>2 DEF OriginTypes, RestTypes
<1>4. OriginTimes'
  <2>1. NothingAfter(now)'
    BY <1>t, <1>1 DEF OriginTimes, NothingAfter
  <2> QED BY <1>t, <1>1, <1>2, <2>1, TimesMove
<1>5. OriginPlan(order', node', edge', route', version')
  <2> DEFINE b == was[r]
             ord == order'
             nd == node'
             ed == edge'
             rt == route'
  <2>1. OriginPlan(ord, nd, ed, rt, version)
    BY <1>1 DEF Reverses
  <2>2. ord \in Seq(NodeIds) /\ ed \in MapsOf(OriginEdges)
    BY <1>3 DEF RestTypes
  <2>3. SameOwners(nd, ed, nd, ed)
    BY DEF SameOwners
  <2> HIDE DEF ord, nd, ed, rt
  <2>4. OriginPlan(ord, nd, ed, rt, version + 1)
    BY <1>2, <2>1, <2>2, <2>3, PlanLater
  <2> QED BY <1>2, <2>4 DEF ord, nd, ed, rt
<1>6. OriginInv'
  <2>1. Len(was') = Len(route')
    BY <1>t, <1>1, ReopenedIs DEF OriginInv
  <2>2. ASSUME NEW q \in DOMAIN route'
        PROVE  /\ route'[q].version <= version'
               /\ route'[q].origin # 0 =>
                    route'[q].replaces \in 1..(q - 1) /\ route'[q].origin \in DOMAIN origin'
               /\ ~Reversible(q)'
    <3>1. /\ q \in DOMAIN route /\ route'[q].origin = route[q].origin
          /\ route'[q].replaces = route[q].replaces /\ route'[q].version = route[q].version
      BY <1>t, <1>1, ReopenedIs
    <3>2. /\ route[q].version <= version
          /\ route[q].origin # 0 =>
               route[q].replaces \in 1..(q - 1) /\ route[q].origin \in DOMAIN origin
      BY <1>t, <3>1 DEF OriginInv
    <3>3. route[q].version \in Nat
      <4>1. route[q] \in OriginRoutes
        BY <1>t, <3>1 DEF OriginTypes
      <4> QED BY <4>1 DEF OriginRoutes
    <3> QED BY <1>1, <1>2, <3>1, <3>2, <3>3 DEF Reversible
  <2> QED BY <1>5, <2>1, <2>2 DEF OriginInv
<1>7. DraftTypes'
  BY <1>t, <1>1, AdvanceTypes
<1> QED BY <1>3, <1>4, <1>6, <1>7 DEF OriginAll, OriginTypes, RestTypes, DraftTypes

\* An undo leaves the plan its adoption found, and its origin authorised.
LEMMA UndoReopensHere ==
    ASSUME OriginAll, NEW r \in DOMAIN route, External!Undo(r)
    PROVE  /\ <<order, node, edge>>' = was[r]
           /\ origin' = origin
           /\ External!Authorised(route[r].origin)'
<1>t. OriginTypes /\ OriginInv
  BY DEF OriginAll
<1>1. /\ Reverses(r, was[r]) /\ route[r].origin # 0
      /\ order' = route[r].before.order
      /\ node' = NodesAgain(r) /\ edge' = EdgesAgain(r)
      /\ route' = External!Reopened(r)
      /\ UNCHANGED <<origin, events>>
  BY <1>t, UndoIs
<1>2. was[r] = <<order', node', edge'>>
  BY <1>1 DEF Reverses
<1>3. PICK i : i = route[r].origin
  OBVIOUS
<1>4. Plannable(i, order', edge')
  BY <1>1, <1>2, <1>3 DEF Reverses
<1>5. Plannable(i, order, edge)'
  BY <1>1, <1>4 DEF Plannable, External!Arrived, External!Overtaken, ConsistentOn, External!Has
<1>6. route'[origin'[i].route].status = "ACTIVE"
  <2>1. origin[i].route = route[r].replaces
    BY <1>1, <1>3 DEF Reverses
  <2> QED BY <1>t, <1>1, <2>1, ReopenedIs
<1>7. External!Authorised(i)'
  BY <1>5, <1>6, AuthorisedNext
<1>8. route'[r].origin = i
  BY <1>t, <1>1, <1>3, ReopenedIs
<1>9. External!Authorised(route[r].origin)'
  BY <1>7, <1>8
<1> QED BY <1>1, <1>2, <1>9

(***************************************************************************)
(* Adoption: what it works on, what it writes, and that the rest is a plan *)
(* again.                                                                  *)
(***************************************************************************)
\* What an adoption for the origin d works on: it ends the route r after position i and
\* joins the line again at position j; the nodes between are `inner`.
Interrupted(d, f, r, i, j, inner) ==
    /\ d \in DOMAIN origin /\ Plannable(d, order, edge)
    /\ origin[d].route = r /\ origin[d].edge = f /\ f \in DOMAIN edge
    /\ r \in DOMAIN route /\ OneActive(route, r)
    /\ i \in 1..Len(order) /\ j \in (i + 1)..Len(order)
    /\ order[j] = route[r].to
    /\ route[r].from \in Range(order) /\ Index(order, route[r].from) <= i
    /\ OnStretch(order, edge, r, route[r].from, route[r].to)
    /\ inner = {order[k] : k \in (i + 1)..(j - 1)}

\* The nodes between two positions of a line.
LEMMA InnerIs ==
    ASSUME NEW T, NEW s \in Seq(T), NEW i \in 1..Len(s), NEW j \in (i + 1)..Len(s)
    PROVE  Range(SubSeq(s, i + 1, j - 1)) = {s[k] : k \in (i + 1)..(j - 1)}
<1> DEFINE u == SubSeq(s, i + 1, j - 1)
<1>0. i \in Nat /\ j \in Nat /\ Len(s) \in Nat
  OBVIOUS
<1>1. u = [k \in 1..(j - 1 - i) |-> s[i + k]]
  OBVIOUS
<1> HIDE DEF u
<1>2. ASSUME NEW n \in Range(u) PROVE n \in {s[k] : k \in (i + 1)..(j - 1)}
  <2>1. PICK k \in 1..(j - 1 - i) : n = s[i + k]
    BY <1>1 DEF Range
  <2>2. i + k \in (i + 1)..(j - 1)
    BY <1>0
  <2> QED BY <2>1, <2>2
<1>3. ASSUME NEW k \in (i + 1)..(j - 1) PROVE s[k] \in Range(u)
  <2>1. k - i \in 1..(j - 1 - i) /\ i + (k - i) = k
    BY <1>0
  <2>2. u[k - i] = s[k] /\ k - i \in DOMAIN u
    BY <1>1, <2>1
  <2> QED BY <2>2 DEF Range
<1> QED BY <1>2, <1>3 DEF u

\* An adoption works on the stretch of the ACTIVE route: Divergence and End are
\* positions on the line, in that order.
LEMMA InterruptedHere ==
    ASSUME OriginAll, External!Adoptable
    PROVE  \E d, f, r, i, j, inner :
             /\ Interrupted(d, f, r, i, j, inner)
             /\ draft.origin = d
             /\ External!Divergence(f) = i /\ External!End(f) = j /\ External!Inner(f) = inner
             /\ External!SuffixEdges(f) =
                  {g \in DOMAIN edge : edge[g].route = r /\ Index(order, edge[g].from) >= i}
<1>t. OriginTypes /\ OriginInv
  BY DEF OriginAll
<1>1. PICK d : d = draft.origin
  OBVIOUS
<1>2. d \in DOMAIN origin
  <2>1. draft # External!NoDraft
    BY DEF External!Adoptable, External!NoDraft, External!NoSummary
  <2> QED BY <2>1, <1>1, <1>t DEF OriginTypes
<1>3. External!Authorised(d)
  BY <1>1 DEF External!Adoptable
<1>4. PICK f, r : f = origin[d].edge /\ r = origin[d].route
  OBVIOUS
<1>5. Plannable(d, order, edge) /\ route[r].status = "ACTIVE"
  BY <1>t, <1>2, <1>3, <1>4, AuthorisedIs
<1>6. f \in DOMAIN edge /\ edge[f].route = r
  BY <1>4, <1>5 DEF Plannable
<1>7. RowsOfDay(order, node, edge, route, version)
  BY <1>t DEF OriginInv, OriginPlan
<1>8. edge[f].from \in Range(order) /\ r \in DOMAIN route
  BY <1>6, <1>7 DEF RowsOfDay
<1>9. /\ OneActive(route, r) /\ {route[r].from, route[r].to} \subseteq Range(order)
      /\ OnStretch(order, edge, r, route[r].from, route[r].to)
  <2>1. PICK a \in DOMAIN route : /\ OneActive(route, a)
                                  /\ {route[a].from, route[a].to} \subseteq Range(order)
                                  /\ OnStretch(order, edge, a, route[a].from, route[a].to)
    BY <1>t DEF OriginInv, OriginPlan
  <2>2. r = a
    BY <1>5, <1>8, <2>1 DEF OneActive
  <2> QED BY <2>1, <2>2
<1>10. PICK i, j : i = Index(order, edge[f].from) /\ j = Index(order, route[r].to)
  OBVIOUS
<1>11. order \in Seq(NodeIds)
  BY <1>t DEF OriginTypes
<1>12. i \in 1..Len(order) /\ j \in 1..Len(order) /\ order[j] = route[r].to
  <2>1. /\ i \in 0..Len(order) /\ i # 0 /\ j \in 0..Len(order) /\ j # 0 /\ order[j] = route[r].to
    BY <1>8, <1>9, <1>10, <1>11, IndexFound
  <2> QED BY <2>1
<1>13. Index(order, route[r].from) <= i /\ i < j
  BY <1>6, <1>9, <1>10 DEF OnStretch
<1>14. j \in (i + 1)..Len(order)
  BY <1>12, <1>13
<1>15. External!Divergence(f) = i /\ External!End(f) = j
  BY <1>6, <1>8, <1>9, <1>10, ExternalLine DEF External!Divergence, External!End
<1>16. External!Inner(f) = {order[k] : k \in (i + 1)..(j - 1)}
  <2>1. Range(SubSeq(order, i + 1, j - 1)) = {order[k] : k \in (i + 1)..(j - 1)}
    BY <1>11, <1>12, <1>14, InnerIs
  <2> QED BY <2>1, <1>15, ExternalLine DEF External!Inner
<1>17. External!SuffixEdges(f) =
                  {g \in DOMAIN edge : edge[g].route = r /\ Index(order, edge[g].from) >= i}
  <2>1. \A g \in DOMAIN edge : External!Index(edge[g].from) = Index(order, edge[g].from)
    BY <1>7, ExternalLine DEF RowsOfDay
  <2> QED BY <2>1, <1>6, <1>15 DEF External!SuffixEdges
<1>18. Interrupted(d, f, r, i, j, External!Inner(f))
  BY <1>2, <1>4, <1>5, <1>6, <1>8, <1>9, <1>12, <1>13, <1>14, <1>16 DEF Interrupted
<1> QED BY <1>1, <1>15, <1>17, <1>18

\* The stops of the new route: new nodes, or nodes of the interrupted route with their hub.
StopIds == [k \in DOMAIN draft.stops |->
              IF draft.summary.reuse[k] = External!NoNode THEN <<version, k>>
              ELSE draft.summary.reuse[k]]

\* New ids and nodes of the interrupted route, all different.
StopsOf(st, inner) ==
    /\ st \in Seq(NodeIds) /\ IsInjective(st)
    /\ \A k \in DOMAIN st : st[k] = <<version, k>> \/ st[k] \in inner

\* A stop is reused only for a node of the interrupted route with the same hub.
LEMMA ReuseIs ==
    ASSUME NEW inner, NEW stops, NEW k \in DOMAIN stops
    PROVE  \/ External!Reuse(inner, stops)[k] = External!NoNode
           \/ /\ External!Reuse(inner, stops)[k] \in inner
              /\ node[External!Reuse(inner, stops)[k]].hub = stops[k]
<1> DEFINE there == {n \in inner : node[n].hub = stops[k]}
<1>1. External!Reuse(inner, stops)[k] =
         IF there = {} THEN External!NoNode ELSE CHOOSE n \in there : TRUE
  BY DEF External!Reuse
<1>2. CASE there = {}
  BY <1>1, <1>2
<1>3. CASE there # {}
  <2>1. (CHOOSE n \in there : TRUE) \in there
    BY <1>3
  <2> HIDE DEF there
  <2>2. External!Reuse(inner, stops)[k] \in there
    BY <1>1, <1>3, <2>1
  <2> QED BY <2>2 DEF there
<1> QED BY <1>2, <1>3

\* An adoption that is not refused reuses no node twice, removes those it does not
\* reuse, and none on which anything happened.
LEMMA StopsAre ==
    ASSUME External!OriginAssumption, OriginAll, External!Adoptable,
           NEW d, NEW f, NEW r, NEW i, NEW j, NEW inner,
           Interrupted(d, f, r, i, j, inner), draft.origin = d, External!Inner(f) = inner
    PROVE  /\ StopsOf(StopIds, inner)
           /\ draft.stops \in Seq(Hubs \cup {Interchange}) /\ DOMAIN StopIds = DOMAIN draft.stops
           /\ draft.summary.remove = inner \ Range(StopIds)
           /\ \A n \in inner : n \notin External!Executed
<1>t. OriginTypes /\ OriginInv
  BY DEF OriginAll
<1>1. draft.stops \in Seq(Hubs \cup {Interchange}) /\ IsInjective(draft.stops)
  <2>1. CASE draft.stops \in ExternalOffers
    <3>1. /\ draft.stops \in Seq(Hubs \cup {Interchange}) /\ External!IsInjective(draft.stops)
      BY <2>1 DEF External!OriginAssumption
    <3> QED BY <3>1 DEF External!IsInjective, IsInjective
  <2>2. CASE draft.stops = <<>>
    <3>1. <<>> \in Seq(Hubs \cup {Interchange}) /\ DOMAIN <<>> = {}
      OBVIOUS
    <3> QED BY <2>2, <3>1 DEF IsInjective
  <2> QED BY <1>t, <2>1, <2>2 DEF OriginTypes
<1>2. PICK stops : stops = draft.stops
  OBVIOUS
<1>3. PICK reuse : reuse = draft.summary.reuse
  OBVIOUS
<1>4. PICK st : st = StopIds
  OBVIOUS
<1>5. stops \in Seq(Hubs \cup {Interchange}) /\ IsInjective(stops)
  BY <1>1, <1>2
<1>6. /\ reuse = External!Reuse(inner, stops) /\ DOMAIN reuse = DOMAIN stops
      /\ draft.summary.remove = inner \ Range(reuse)
      /\ {n \in inner : External!Protected(n)} = {}
  <2>1. /\ draft.summary = External!Summary(d, stops) /\ draft.summary.blocked = {}
    BY <1>2 DEF External!Adoptable
  <2>2. External!Summary(d, stops) =
          [reuse |-> External!Reuse(inner, stops),
           remove |-> inner \ Range(External!Reuse(inner, stops)),
           blocked |-> {n \in inner : External!Protected(n)},
           archivable |-> {g \in External!SuffixEdges(f) : edge[g].actual}]
    BY ExternalLine DEF External!Summary, Interrupted
  <2>3. DOMAIN External!Reuse(inner, stops) = DOMAIN stops
    BY DEF External!Reuse
  <2> QED BY <1>3, <2>1, <2>2, <2>3
<1>7. st = [k \in DOMAIN stops |-> IF reuse[k] = External!NoNode THEN <<version, k>> ELSE reuse[k]]
  BY <1>2, <1>3, <1>4 DEF StopIds
<1>8. inner \subseteq Range(order) /\ order \in Seq(NodeIds) /\ version \in Nat
      /\ \A n \in Range(order) : n[1] < version /\ n \in NodeIds
  <2>1. order \in Seq(NodeIds) /\ version \in Nat
    BY <1>t DEF OriginTypes
  <2>2. \A n \in Range(order) : n[1] < version
    BY <1>t DEF OriginInv, OriginPlan, RowsOfDay
  <2>3. inner \subseteq Range(order)
    <3>1. /\ inner = {order[k] : k \in (i + 1)..(j - 1)} /\ i \in 1..Len(order) /\ j \in (i + 1)..Len(order)
      BY DEF Interrupted
    <3>2. \A k \in (i + 1)..(j - 1) : k \in DOMAIN order
      BY <2>1, <3>1
    <3> QED BY <3>1, <3>2 DEF Range
  <2> QED BY <2>1, <2>2, <2>3 DEF Range
<1>9. ASSUME NEW k \in DOMAIN stops
      PROVE  \/ reuse[k] = External!NoNode /\ st[k] = <<version, k>>
             \/ /\ reuse[k] # External!NoNode /\ st[k] = reuse[k] /\ st[k] \in inner
                /\ node[st[k]].hub = stops[k]
  <2>1. CASE reuse[k] = External!NoNode
    BY <1>7, <2>1
  <2>2. CASE reuse[k] # External!NoNode
    <3>1. st[k] = reuse[k]
      BY <1>7, <2>2
    <3>2. reuse[k] \in inner /\ node[reuse[k]].hub = stops[k]
      BY <1>6, <2>2, ReuseIs
    <3> QED BY <3>1, <3>2, <2>2
  <2> QED BY <2>1, <2>2
<1>10. DOMAIN st = DOMAIN stops /\ DOMAIN stops = 1..Len(stops) /\ Len(stops) \in Nat
  BY <1>5, <1>7
<1>11. \A k \in DOMAIN stops : st[k] \in NodeIds
  <2>1. \A k \in DOMAIN stops : <<version, k>> \in NodeIds
    BY <1>8, <1>10 DEF NodeIds
  <2> QED BY <2>1, <1>8, <1>9
<1>12. st \in Seq(NodeIds)
  <2>1. st = [k \in 1..Len(stops) |-> st[k]]
    BY <1>7, <1>10
  <2> QED BY <2>1, <1>10, <1>11
<1>13. IsInjective(st)
  <2> SUFFICES ASSUME NEW k \in DOMAIN stops, NEW l \in DOMAIN stops, st[k] = st[l] PROVE k = l
    BY <1>10 DEF IsInjective
  <2>1. CASE st[k] = <<version, k>> /\ st[l] = <<version, l>>
    <3>1. <<version, k>> = <<version, l>>
      BY <2>1
    <3>2. \A m : <<version, m>>[2] = m
      OBVIOUS
    <3> QED BY <3>1, <3>2
  <2>2. CASE st[k] \in inner /\ node[st[k]].hub = stops[k] /\ st[l] \in inner /\ node[st[l]].hub = stops[l]
    BY <2>2, <1>5 DEF IsInjective
  <2>3. \A m : <<version, m>> \notin inner
    BY <1>8
  <2> QED BY <2>1, <2>2, <2>3, <1>9
<1>14. inner \ Range(reuse) = inner \ Range(st)
  <2>1. External!NoNode \notin inner
    <3>1. <<>> \notin NodeIds
      BY DEF NodeIds
    <3> QED BY <3>1, <1>8 DEF External!NoNode
  <2>2. ASSUME NEW n \in inner, n \in Range(reuse) PROVE n \in Range(st)
    <3>1. PICK k \in DOMAIN stops : n = reuse[k]
      BY <2>2, <1>6 DEF Range
    <3>2. st[k] = n
      BY <3>1, <2>1, <1>9
    <3> QED BY <3>2, <1>10 DEF Range
  <2>3. ASSUME NEW n \in inner, n \in Range(st) PROVE n \in Range(reuse)
    <3>1. PICK k \in DOMAIN stops : n = st[k]
      BY <2>3, <1>10 DEF Range
    <3>2. reuse[k] = n
      BY <3>1, <1>8, <1>9
    <3> QED BY <3>2, <1>6 DEF Range
  <2> QED BY <2>2, <2>3
<1>15. \A n \in inner : n \notin External!Executed
  BY <1>6 DEF External!Protected
<1>16. \A k \in DOMAIN st : st[k] = <<version, k>> \/ st[k] \in inner
  BY <1>9, <1>10
<1> QED BY <1>2, <1>4, <1>5, <1>6, <1>10, <1>12, <1>13, <1>14, <1>15, <1>16 DEF StopsOf

\* The rows an adoption writes: the origin as a node, the route, its edges, and what
\* it replaces.
Setdown == <<version, 0>>
NewRoute == Len(route) + 1
LaidIds(st) == {<<version, k>> : k \in 1..(Len(st) + 1)}
EndedEdges(r, i) == {g \in DOMAIN edge : edge[g].route = r /\ Index(order, edge[g].from) >= i}

NewRow(d, r, new, inner, old) ==
    [status |-> "ACTIVE", from |-> Setdown, to |-> route[r].to, origin |-> d,
     replaces |-> r, version |-> version + 1, edges |-> new,
     before |-> [order |-> order, node |-> External!Only(node, inner), edge |-> External!Only(edge, old)]]

\* The row of a node after the adoption.
SetdownRow(n, d, st) ==
    CASE n = Setdown -> External!Stop(NewRoute, origin[d].hub)
      [] n \in Range(st) \ DOMAIN node -> External!Stop(NewRoute, draft.stops[n[2]])
      [] n \in Range(st) \cap DOMAIN node -> [node[n] EXCEPT !.route = NewRoute]
      [] OTHER -> node[n]

\* The step, in those terms.
AdoptsAs(d, r, i, j, inner, st, path, old, new) ==
    /\ order' = SubSeq(order, 1, i) \o <<Setdown>> \o st \o SubSeq(order, j, Len(order))
    /\ node' = [n \in (DOMAIN node \ (inner \ Range(st))) \cup Range(path) |-> SetdownRow(n, d, st)]
    /\ edge' = [e \in (DOMAIN edge \ old) \cup new |->
                  IF e \in new THEN External!Leg(path[e[2]], path[e[2] + 1], NewRoute) ELSE edge[e]]
    /\ route' = Append([route EXCEPT ![r].status = "REPLACED"], NewRow(d, r, new, inner, old))
    /\ was' = Append(was, <<order, node, edge>>)
    /\ External!Advance
    /\ UNCHANGED <<now, report, origin, events, asked, reports>>

\* The nodes of the new route in their order.
PathFrom(e, st, to) == <<e>> \o st \o <<to>>

PathOf(path, T, e, st, to) ==
    /\ path \in Seq(T) /\ Len(path) = Len(st) + 2
    /\ path[1] = e /\ path[Len(st) + 2] = to
    /\ \A k \in 1..Len(st) : path[k + 1] = st[k]
    /\ Range(path) = {e, to} \cup Range(st)

\* Such a path, by position.
LEMMA PathIs ==
    ASSUME NEW T, NEW e \in T, NEW st \in Seq(T), NEW to \in T
    PROVE  PathOf(PathFrom(e, st, to), T, e, st, to)
<1>0. PICK path : path = PathFrom(e, st, to)
  OBVIOUS
<1> DEFINE a == <<e>>
           b == <<to>>
<1>1. a \in Seq(T) /\ b \in Seq(T) /\ Len(a) = 1 /\ Len(b) = 1 /\ a[1] = e /\ b[1] = to
  OBVIOUS
<1>2. path = a \o st \o b
  BY <1>0 DEF PathFrom
<1> HIDE DEF a, b
<1>3. TripleOf(path, T, a, st, b)
  BY <1>1, <1>2, Triple
<1>4. Len(st) \in Nat /\ DOMAIN st = 1..Len(st)
  OBVIOUS
<1>5. /\ path \in Seq(T) /\ Len(path) = Len(st) + 2 /\ path[1] = e /\ path[Len(st) + 2] = to
      /\ \A k \in 1..Len(st) : path[k + 1] = st[k]
  <2>1. /\ path \in Seq(T) /\ Len(path) = 1 + Len(st) + 1
        /\ \A k \in 1..1 : path[k] = a[k]
        /\ \A k \in 1..Len(st) : path[1 + k] = st[k]
        /\ \A k \in 1..1 : path[1 + Len(st) + k] = b[k]
    BY <1>1, <1>3 DEF TripleOf
  <2>2. 1 \in 1..1 /\ 1 + Len(st) + 1 = Len(st) + 2
    BY <1>4
  <2> QED BY <1>1, <1>4, <2>1, <2>2
<1>6. DOMAIN path = 1..(Len(st) + 2)
  BY <1>5
<1>7. \A k \in 1..(Len(st) + 2) : k = 1 \/ k = Len(st) + 2 \/ \E l \in 1..Len(st) : k = l + 1
  <2> SUFFICES ASSUME NEW k \in 1..(Len(st) + 2), k # 1, k # Len(st) + 2
               PROVE  \E l \in 1..Len(st) : k = l + 1
    OBVIOUS
  <2>1. k - 1 \in 1..Len(st) /\ k = (k - 1) + 1
    BY <1>4
  <2> QED BY <2>1
<1>8. Range(path) = {e, to} \cup Range(st)
  <2>1. ASSUME NEW k \in DOMAIN path PROVE path[k] \in {e, to} \cup Range(st)
    <3>1. CASE k = 1 \/ k = Len(st) + 2
      BY <3>1, <1>5
    <3>2. CASE \E l \in 1..Len(st) : k = l + 1
      BY <3>2, <1>4, <1>5 DEF Range
    <3> QED BY <3>1, <3>2, <1>6, <1>7
  <2>2. e \in Range(path) /\ to \in Range(path)
    <3>1. 1 \in DOMAIN path /\ Len(st) + 2 \in DOMAIN path
      BY <1>4, <1>6
    <3> QED BY <3>1, <1>5 DEF Range
  <2>3. \A k \in 1..Len(st) : st[k] \in Range(path)
    <3>1. \A k \in 1..Len(st) : k + 1 \in DOMAIN path
      BY <1>4, <1>6
    <3> QED BY <3>1, <1>5 DEF Range
  <2>4. Range(path) \subseteq {e, to} \cup Range(st)
    BY <2>1 DEF Range
  <2>5. Range(st) \subseteq Range(path)
    BY <1>4, <2>3 DEF Range
  <2> QED BY <2>2, <2>4, <2>5
<1> QED BY <1>0, <1>5, <1>8 DEF PathOf

\* An adoption, in those terms.
LEMMA AdoptIs ==
    ASSUME External!OriginAssumption, OriginAll, External!Adopt
    PROVE  \E d, f, r, i, j, inner, st, path, old, new :
             /\ Interrupted(d, f, r, i, j, inner)
             /\ StopsOf(st, inner) /\ \A n \in inner : n \notin External!Executed
             /\ draft.stops \in Seq(Hubs \cup {Interchange}) /\ DOMAIN st = DOMAIN draft.stops
             /\ path = PathFrom(Setdown, st, route[r].to)
             /\ old = EndedEdges(r, i) /\ new = LaidIds(st)
             /\ AdoptsAs(d, r, i, j, inner, st, path, old, new)
<1>0. External!Adoptable
  BY DEF External!Adopt
<1>1. PICK d, f, r, i, j, inner :
             /\ Interrupted(d, f, r, i, j, inner)
             /\ draft.origin = d
             /\ External!Divergence(f) = i /\ External!End(f) = j /\ External!Inner(f) = inner
             /\ External!SuffixEdges(f) =
                  {g \in DOMAIN edge : edge[g].route = r /\ Index(order, edge[g].from) >= i}
  BY <1>0, InterruptedHere
<1>2. PICK st : st = StopIds
  OBVIOUS
<1>3. /\ StopsOf(st, inner)
      /\ draft.stops \in Seq(Hubs \cup {Interchange}) /\ DOMAIN st = DOMAIN draft.stops
      /\ draft.summary.remove = inner \ Range(st)
      /\ \A n \in inner : n \notin External!Executed
  BY <1>0, <1>1, <1>2, StopsAre
<1>4. PICK path : path = PathFrom(Setdown, st, route[r].to)
  OBVIOUS
<1>5. PICK old, new : old = EndedEdges(r, i) /\ new = LaidIds(st)
  OBVIOUS
<1>6. Len(path) - 1 = Len(st) + 1
  <2>1. st \in Seq(NodeIds) /\ version \in Nat /\ \A q \in DOMAIN route : route[q] \in OriginRoutes
    BY <1>3 DEF StopsOf, OriginAll, OriginTypes
  <2>2. Setdown \in NodeIds /\ route[r].to \in NodeIds /\ Len(st) \in Nat
    <3>1. route[r] \in OriginRoutes
      BY <1>1, <2>1 DEF Interrupted
    <3>2. route[r].to \in NodeIds
      BY <3>1 DEF OriginRoutes
    <3> QED BY <2>1, <3>2 DEF Setdown, NodeIds
  <2>3. Len(path) = Len(st) + 2
    <3>1. PathOf(PathFrom(Setdown, st, route[r].to), NodeIds, Setdown, st, route[r].to)
      BY <2>1, <2>2, PathIs
    <3> QED BY <1>4, <3>1 DEF PathOf
  <2> QED BY <2>2, <2>3
<1>7. /\ origin[d].edge = f /\ origin[d].route = r
      /\ External!SuffixEdges(f) = old
      /\ {<<version, k>> : k \in 1..(Len(path) - 1)} = new
  BY <1>1, <1>5, <1>6 DEF Interrupted, EndedEdges, LaidIds
<1>8. StopIds = [k \in DOMAIN draft.stops |->
                    IF draft.summary.reuse[k] = External!NoNode THEN <<version, k>>
                    ELSE draft.summary.reuse[k]]
  BY DEF StopIds
<1>9. AdoptsAs(d, r, i, j, inner, st, path, old, new)
  <2>1. order' = SubSeq(order, 1, i) \o <<Setdown>> \o st \o SubSeq(order, j, Len(order))
    BY <1>1, <1>2, <1>7, <1>8 DEF External!Adopt, Setdown
  <2>2. node' = [n \in (DOMAIN node \ (inner \ Range(st))) \cup Range(path) |-> SetdownRow(n, d, st)]
    <3>1. node' =
            [n \in (DOMAIN node \ draft.summary.remove) \cup External!Range(path) |->
               CASE n = Setdown -> External!Stop(NewRoute, origin[d].hub)
                 [] n \in External!Range(st) \ DOMAIN node -> External!Stop(NewRoute, draft.stops[n[2]])
                 [] n \in External!Range(st) \cap DOMAIN node -> [node[n] EXCEPT !.route = NewRoute]
                 [] OTHER -> node[n]]
      <4> DEFINE st0 == [k \in DOMAIN draft.stops |->
                    IF draft.summary.reuse[k] = External!NoNode THEN <<version, k>>
                    ELSE draft.summary.reuse[k]]
                 path0 == <<<<version, 0>>>> \o st0 \o <<route[origin[draft.origin].route].to>>
      <4>1. node' =
            [n \in (DOMAIN node \ draft.summary.remove) \cup External!Range(path0) |->
               CASE n = <<version, 0>> -> External!Stop(Len(route) + 1, origin[draft.origin].hub)
                 [] n \in External!Range(st0) \ DOMAIN node -> External!Stop(Len(route) + 1, draft.stops[n[2]])
                 [] n \in External!Range(st0) \cap DOMAIN node -> [node[n] EXCEPT !.route = Len(route) + 1]
                 [] OTHER -> node[n]]
        BY DEF External!Adopt
      <4>2. st0 = st
        BY <1>2, <1>8
      <4>3. path0 = path
        BY <1>1, <1>4, <1>7, <4>2 DEF Setdown, PathFrom
      <4> HIDE DEF st0, path0
      <4> QED BY <1>1, <4>1, <4>2, <4>3 DEF Setdown, NewRoute
    <3>2. External!Range(path) = Range(path) /\ External!Range(st) = Range(st)
      BY ExternalLine
    <3> QED BY <1>3, <3>1, <3>2 DEF SetdownRow
  <2>3. edge' = [e \in (DOMAIN edge \ old) \cup new |->
                  IF e \in new THEN External!Leg(path[e[2]], path[e[2] + 1], NewRoute) ELSE edge[e]]
    BY <1>1, <1>2, <1>4, <1>7, <1>8 DEF External!Adopt, PathFrom, Setdown, NewRoute
  <2>4. route' = Append([route EXCEPT ![r].status = "REPLACED"], NewRow(d, r, new, inner, old))
    BY <1>1, <1>2, <1>4, <1>7, <1>8 DEF External!Adopt, PathFrom, Setdown, NewRow
  <2>5. /\ was' = Append(was, <<order, node, edge>>) /\ External!Advance
        /\ UNCHANGED <<now, report, origin, events, asked, reports>>
    BY DEF External!Adopt
  <2> QED BY <2>1, <2>2, <2>3, <2>4, <2>5 DEF AdoptsAs
<1> QED BY <1>1, <1>3, <1>4, <1>5, <1>9

\* S is s with e and st in place of what lies between the positions i and j.
LineWith(S, s, i, j, st, e) ==
    /\ S \in Seq(NodeIds) /\ IsInjective(S)
    /\ Range(S) = {s[k] : k \in (1..i) \cup (j..Len(s))} \cup {e} \cup Range(st)
    /\ \A k \in 1..i : Index(S, s[k]) = k
    /\ Index(S, e) = i + 1
    /\ \A k \in 1..Len(st) : Index(S, st[k]) = i + 1 + k
    /\ Index(S, s[j]) = i + 2 + Len(st)

\* Two ways to write the same sequence.
Grouped(a, c, st, b) == a \o c \o st \o b = a \o (c \o st) \o b

\* Concatenation is associative.
LEMMA ConcatThree ==
    ASSUME NEW T, NEW a \in Seq(T), NEW c \in Seq(T), NEW st \in Seq(T), NEW b
    PROVE  Grouped(a, c, st, b)
BY ConcatAssociative DEF Grouped

\* s with e and st after position i, the two ways to write it.
AfterOf(s, i, e, st, j) == SubSeq(s, 1, i) \o <<e>> \o st \o SubSeq(s, j, Len(s))

\* Both are the same.
SplicedAfterOf(s, i, e, st, j) == AfterOf(s, i, e, st, j) = Spliced(s, i, <<e>> \o st, j)

\* Both ways to write the line are the same, for sequences.
LEMMA SplicedAfter ==
    ASSUME NEW T, NEW s \in Seq(T), NEW e \in T, NEW st \in Seq(T), NEW i \in 1..Len(s), NEW j
    PROVE  SplicedAfterOf(s, i, e, st, j)
<1>1. PICK a, b, c : a = SubSeq(s, 1, i) /\ b = SubSeq(s, j, Len(s)) /\ c = <<e>>
  OBVIOUS
<1>2. SubSeq(s, 1, i) \in Seq(T) /\ <<e>> \in Seq(T)
  OBVIOUS
<1>3. a \in Seq(T) /\ c \in Seq(T)
  BY <1>1, <1>2
<1>4. Grouped(a, c, st, b)
  BY <1>3, ConcatThree
<1> QED BY <1>1, <1>4 DEF Grouped, Spliced, AfterOf, SplicedAfterOf

\* Positions on the new line.
LEMMA SpliceLength ==
    ASSUME NEW i \in Nat, NEW j \in Nat, NEW l \in Nat, NEW n \in Nat, NEW N,
           1 <= i, i < j, j <= n, N = i + (l + 1) + (n - j + 1)
    PROVE  /\ N \in Nat /\ 1..i \subseteq 1..N /\ i + 1 \in 1..N /\ i + 2 + l \in 1..N
           /\ \A k \in 1..l : i + (1 + k) \in 1..N
OBVIOUS

\* The line after an adoption and the positions on it: new ids differ from all there
\* were, and the reused ones lie in the part that is cut out.
LEMMA SetdownLine ==
    ASSUME NEW s \in Seq(NodeIds), IsInjective(s), NEW v \in Nat, \A n \in Range(s) : n[1] < v,
           NEW i \in 1..Len(s), NEW j \in (i + 1)..Len(s),
           NEW st \in Seq(NodeIds), IsInjective(st),
           \A k \in DOMAIN st : st[k] = <<v, k>> \/ st[k] \in {s[m] : m \in (i + 1)..(j - 1)},
           NEW S, S = Spliced(s, i, <<<<v, 0>>>> \o st, j)
    PROVE  LineWith(S, s, i, j, st, <<v, 0>>)
<1>1. PICK e : e = <<v, 0>>
  OBVIOUS
<1>2. e \in NodeIds /\ e[1] = v /\ e[2] = 0
  BY <1>1 DEF NodeIds
<1>3. PICK r : r = <<e>> \o st
  OBVIOUS
<1>4. Len(s) \in Nat /\ i \in Nat /\ j \in Nat /\ Len(st) \in Nat /\ DOMAIN st = 1..Len(st)
      /\ DOMAIN s = 1..Len(s)
  OBVIOUS
<1>5. /\ r \in Seq(NodeIds) /\ Len(r) = Len(st) + 1 /\ r[1] = e
      /\ \A k \in 1..Len(st) : r[1 + k] = st[k]
  <2> DEFINE a == <<e>>
  <2>1. a \in Seq(NodeIds) /\ Len(a) = 1 /\ a[1] = e
    BY <1>2
  <2>2. r = a \o st
    BY <1>3
  <2> HIDE DEF a
  <2>3. /\ r \in Seq(NodeIds) /\ Len(r) = Len(a) + Len(st)
        /\ \A k \in 1..Len(a) : r[k] = a[k]
        /\ \A k \in 1..Len(st) : r[Len(a) + k] = st[k]
    <3>1. a \in Seq(NodeIds) /\ st \in Seq(NodeIds)
      BY <2>1
    <3> HIDE <2>1
    <3> QED BY <2>2, <3>1, Joined
  <2> QED BY <1>4, <2>1, <2>3
<1>6. S = Spliced(s, i, r, j)
  BY <1>1, <1>3
<1>7. Range(r) = {e} \cup Range(st) /\ DOMAIN r = 1..(Len(st) + 1)
  <2>1. DOMAIN r = 1..(Len(st) + 1)
    BY <1>5
  <2>2. ASSUME NEW k \in 1..(Len(st) + 1) PROVE r[k] \in {e} \cup Range(st)
    <3>1. CASE k = 1
      BY <3>1, <1>5
    <3>2. CASE k # 1
      <4>1. k - 1 \in 1..Len(st) /\ k = 1 + (k - 1)
        BY <3>2, <1>4
      <4> QED BY <4>1, <1>4, <1>5 DEF Range
    <3> QED BY <3>1, <3>2
  <2>3. e \in Range(r)
    <3>1. 1 \in DOMAIN r
      BY <2>1, <1>4
    <3> QED BY <3>1, <1>5 DEF Range
  <2>4. \A k \in 1..Len(st) : st[k] \in Range(r)
    <3>1. \A k \in 1..Len(st) : 1 + k \in DOMAIN r
      BY <2>1, <1>4
    <3> QED BY <3>1, <1>5 DEF Range
  <2>5. Range(r) \subseteq {e} \cup Range(st)
    BY <2>1, <2>2 DEF Range
  <2>6. Range(st) \subseteq Range(r)
    BY <2>4, <1>4 DEF Range
  <2> QED BY <2>1, <2>3, <2>5, <2>6
<1>8. \A m \in 1..Len(s) : s[m][1] < v
  BY <1>4 DEF Range
<1>9. \A m \in 1..Len(s) : s[m] # e /\ \A k : s[m] # <<v, k>>
  <2>1. \A k : <<v, k>>[1] = v
    OBVIOUS
  <2> QED BY <2>1, <1>2, <1>8
<1>10. \A k \in 1..Len(st) : st[k] # e
  <2> SUFFICES ASSUME NEW k \in 1..Len(st), st[k] = e PROVE FALSE
    OBVIOUS
  <2>1. CASE st[k] = <<v, k>>
    <3>1. <<v, k>>[2] = k
      OBVIOUS
    <3> QED BY <2>1, <3>1, <1>2
  <2>2. CASE st[k] \in {s[m] : m \in (i + 1)..(j - 1)}
    <3>1. PICK m \in (i + 1)..(j - 1) : st[k] = s[m]
      BY <2>2
    <3>2. m \in 1..Len(s)
      BY <1>4
    <3> QED BY <3>1, <3>2, <1>9
  <2> QED BY <2>1, <2>2, <1>4
<1>11. IsInjective(r)
  <2> SUFFICES ASSUME NEW k \in 1..(Len(st) + 1), NEW l \in 1..(Len(st) + 1), r[k] = r[l] PROVE k = l
    BY <1>7 DEF IsInjective
  <2>1. \A m \in 1..(Len(st) + 1) : m = 1 \/ (m - 1 \in 1..Len(st) /\ r[m] = st[m - 1])
    <3> SUFFICES ASSUME NEW m \in 1..(Len(st) + 1), m # 1 PROVE m - 1 \in 1..Len(st) /\ r[m] = st[m - 1]
      OBVIOUS
    <3>1. m - 1 \in 1..Len(st) /\ m = 1 + (m - 1)
      BY <1>4
    <3> QED BY <3>1, <1>5
  <2>2. CASE k = 1 \/ l = 1
    BY <2>1, <2>2, <1>5, <1>10
  <2>3. CASE k # 1 /\ l # 1
    <3>1. k - 1 \in DOMAIN st /\ l - 1 \in DOMAIN st /\ st[k - 1] = st[l - 1]
      BY <2>1, <2>3, <1>4
    <3>2. k - 1 = l - 1
      BY <3>1 DEF IsInjective
    <3> QED BY <3>2, <1>4
  <2> QED BY <2>2, <2>3
<1>12. Apart(s, i, r, j)
  <2> SUFFICES ASSUME NEW m \in (1..i) \cup (j..Len(s)), s[m] \in Range(r) PROVE FALSE
    BY DEF Apart
  <2>1. m \in 1..Len(s)
    BY <1>4
  <2>2. PICK k \in 1..Len(st) : s[m] = st[k]
    BY <2>1, <1>4, <1>7, <1>9 DEF Range
  <2>3. st[k] \in {s[q] : q \in (i + 1)..(j - 1)}
    BY <2>1, <2>2, <1>4, <1>9
  <2>4. PICK q \in (i + 1)..(j - 1) : s[m] = s[q]
    BY <2>2, <2>3
  <2>5. q \in DOMAIN s /\ m \in DOMAIN s /\ q # m
    BY <2>1, <1>4
  <2> QED BY <2>4, <2>5 DEF IsInjective
<1>13. i \in 0..Len(s) /\ j \in (i + 1)..(Len(s) + 1)
  BY <1>4
<1>14. SplicedLineOf(S, NodeIds, s, i, r, j) /\ SplicedOf(S, NodeIds, s, i, r, j)
  BY <1>5, <1>6, <1>11, <1>12, <1>13, SplicedLine, SplicedElements
<1>15. /\ S \in Seq(NodeIds) /\ IsInjective(S)
       /\ Range(S) = {s[k] : k \in (1..i) \cup (j..Len(s))} \cup {e} \cup Range(st)
  BY <1>7, <1>14 DEF SplicedLineOf
<1>16. /\ Len(S) = i + (Len(st) + 1) + (Len(s) - j + 1)
       /\ \A k \in 1..i : S[k] = s[k]
       /\ \A k \in 1..(Len(st) + 1) : S[i + k] = r[k]
       /\ S[i + (Len(st) + 1) + (j - j + 1)] = s[j]
  <2>1. j \in j..Len(s)
    BY <1>4
  <2> QED BY <2>1, <1>5, <1>14 DEF SplicedOf
<1>17. \A k \in 1..Len(S) : Index(S, S[k]) = k
  BY <1>15, IndexUnique
<1>18. /\ 1..i \subseteq 1..Len(S) /\ i + 1 \in 1..Len(S) /\ i + 2 + Len(st) \in 1..Len(S)
       /\ \A k \in 1..Len(st) : i + (1 + k) \in 1..Len(S)
  <2>1. 1 <= i /\ i < j /\ j <= Len(s)
    BY <1>4
  <2>2. PICK l, n, N : l = Len(st) /\ n = Len(s) /\ N = Len(S)
    OBVIOUS
  <2>3. /\ i \in Nat /\ j \in Nat /\ l \in Nat /\ n \in Nat
        /\ 1 <= i /\ i < j /\ j <= n /\ N = i + (l + 1) + (n - j + 1)
    BY <2>1, <2>2, <1>4, <1>16
  <2>4. /\ N \in Nat /\ 1..i \subseteq 1..N /\ i + 1 \in 1..N /\ i + 2 + l \in 1..N
        /\ \A k \in 1..l : i + (1 + k) \in 1..N
    BY <2>3, SpliceLength
  <2> QED BY <2>2, <2>4
<1>19. \A k \in 1..i : Index(S, s[k]) = k
  BY <1>16, <1>17, <1>18
<1>20. Index(S, e) = i + 1
  <2>1. i + 1 \in 1..Len(S) /\ 1 \in 1..(Len(st) + 1)
    BY <1>4, <1>18
  <2> QED BY <2>1, <1>5, <1>16, <1>17
<1>21. ASSUME NEW k \in 1..Len(st) PROVE Index(S, st[k]) = i + 1 + k
  <2>1. i + (1 + k) \in 1..Len(S) /\ 1 + k \in 1..(Len(st) + 1)
    BY <1>4, <1>18
  <2>2. S[i + (1 + k)] = st[k]
    BY <2>1, <1>5, <1>16
  <2>3. Index(S, st[k]) = i + (1 + k)
    BY <2>1, <2>2, <1>17
  <2> QED BY <2>3, <1>4
<1>22. Index(S, s[j]) = i + 2 + Len(st)
  <2>1. i + (Len(st) + 1) + (j - j + 1) = i + 2 + Len(st) /\ i + 2 + Len(st) \in 1..Len(S)
    BY <1>4, <1>18
  <2>2. S[i + 2 + Len(st)] = s[j]
    BY <2>1, <1>16
  <2> QED BY <2>1, <2>2, <1>17
<1> QED BY <1>1, <1>15, <1>19, <1>20, <1>21, <1>22 DEF LineWith

\* A step of adoption, with everything it is made of.
Adopting(d, f, r, i, j, inner, st, path, old, new) ==
    /\ Interrupted(d, f, r, i, j, inner)
    /\ StopsOf(st, inner) /\ \A n \in inner : n \notin External!Executed
    /\ draft.stops \in Seq(Hubs \cup {Interchange}) /\ DOMAIN st = DOMAIN draft.stops
    /\ path = PathFrom(Setdown, st, route[r].to)
    /\ old = EndedEdges(r, i) /\ new = LaidIds(st)
    /\ AdoptsAs(d, r, i, j, inner, st, path, old, new)

\* What the invariant says of the rows an adoption finds.
LEMMA FoundRows ==
    ASSUME OriginTypes, OriginInv
    PROVE  /\ order \in Seq(NodeIds) /\ IsInjective(order) /\ DOMAIN order = 1..Len(order)
           /\ Len(order) \in Nat /\ version \in Nat
           /\ DOMAIN node = Range(order) /\ node \in [DOMAIN node -> OriginNodes]
           /\ \A n \in Range(order) : n \in NodeIds /\ n[1] < version /\ node[n].route \in 0..Len(route)
           /\ edge \in [DOMAIN edge -> OriginEdges]
           /\ \A e \in DOMAIN edge : /\ e \in NodeIds /\ e[1] < version
                                     /\ edge[e].from \in Range(order) /\ edge[e].route \in DOMAIN route
           /\ Len(route) \in Nat /\ DOMAIN route = 1..Len(route)
           /\ \A q \in DOMAIN route : route[q] \in OriginRoutes
<1>1. RowsOfDay(order, node, edge, route, version)
  BY DEF OriginInv, OriginPlan
<1>2. order \in Seq(NodeIds) /\ version \in Nat /\ route \in Seq(OriginRoutes)
  BY DEF OriginTypes
<1>3. /\ node \in [DOMAIN node -> OriginNodes]
      /\ edge \in [DOMAIN edge -> OriginEdges] /\ DOMAIN edge \subseteq NodeIds
  BY MapIs DEF OriginTypes
<1>4. \A n \in Range(order) : n \in NodeIds
  BY <1>2 DEF Range
<1>5. DOMAIN order = 1..Len(order) /\ Len(order) \in Nat /\ Len(route) \in Nat
      /\ DOMAIN route = 1..Len(route) /\ \A q \in DOMAIN route : route[q] \in OriginRoutes
  BY <1>2
<1> QED BY <1>1, <1>2, <1>3, <1>4, <1>5 DEF RowsOfDay

\* The new line.
LEMMA AdoptedLineIs ==
    ASSUME OriginTypes, OriginInv,
           NEW d, NEW f, NEW r, NEW i, NEW j, NEW inner, NEW st, NEW path, NEW old, NEW new,
           Adopting(d, f, r, i, j, inner, st, path, old, new)
    PROVE  LineWith(order', order, i, j, st, Setdown)
<1>1. order \in Seq(NodeIds) /\ IsInjective(order) /\ version \in Nat /\ \A n \in Range(order) : n[1] < version
  BY FoundRows
<1>2. /\ i \in 1..Len(order) /\ j \in (i + 1)..Len(order)
      /\ inner = {order[k] : k \in (i + 1)..(j - 1)}
  BY DEF Adopting, Interrupted
<1>3. /\ st \in Seq(NodeIds) /\ IsInjective(st)
      /\ \A k \in DOMAIN st : st[k] = <<version, k>> \/ st[k] \in inner
  BY DEF Adopting, StopsOf
<1>4. order' = SubSeq(order, 1, i) \o <<Setdown>> \o st \o SubSeq(order, j, Len(order))
  BY DEF Adopting, AdoptsAs
<1>5. Setdown \in NodeIds /\ Setdown = <<version, 0>>
  BY <1>1 DEF Setdown, NodeIds
<1>6. PICK s, e, S, v : s = order /\ e = Setdown /\ S = order' /\ v = version
  OBVIOUS
<1>7. S = SubSeq(s, 1, i) \o <<e>> \o st \o SubSeq(s, j, Len(s))
  BY <1>4, <1>6
<1>8. s \in Seq(NodeIds) /\ e \in NodeIds /\ e = <<v, 0>> /\ i \in 1..Len(s) /\ j \in (i + 1)..Len(s)
  BY <1>1, <1>2, <1>5, <1>6
<1>9. SplicedAfterOf(s, i, e, st, j)
  <2>1. s \in Seq(NodeIds) /\ e \in NodeIds /\ i \in 1..Len(s) /\ st \in Seq(NodeIds)
    BY <1>3, <1>8
  <2> QED BY <2>1, SplicedAfter
<1>10. S = Spliced(s, i, <<<<v, 0>>>> \o st, j)
  BY <1>7, <1>8, <1>9 DEF SplicedAfterOf, AfterOf
<1>11. /\ IsInjective(s) /\ v \in Nat /\ \A n \in Range(s) : n[1] < v
       /\ \A k \in DOMAIN st : st[k] = <<v, k>> \/ st[k] \in {s[m] : m \in (i + 1)..(j - 1)}
  BY <1>1, <1>2, <1>3, <1>6
<1>12. LineWith(S, s, i, j, st, <<v, 0>>)
  BY <1>3, <1>8, <1>10, <1>11, SetdownLine
<1> QED BY <1>6, <1>8, <1>12

\* The rest of the line keeps its rows.
AdoptedRows(inner, st) ==
    /\ DOMAIN node' = Range(order') /\ node' \in MapsOf(OriginNodes)
    /\ \A n \in {Setdown} \cup Range(st) : node'[n].route = NewRoute
    /\ DOMAIN node' = (DOMAIN node \ inner) \cup {Setdown} \cup Range(st)
    /\ \A n \in DOMAIN node \ inner : n \notin {Setdown} \cup Range(st) /\ node'[n] = node[n]

\* The rows of its nodes.
LEMMA AdoptedNodesAre ==
    ASSUME OriginTypes, OriginInv,
           NEW d, NEW f, NEW r, NEW i, NEW j, NEW inner, NEW st, NEW path, NEW old, NEW new,
           Adopting(d, f, r, i, j, inner, st, path, old, new)
    PROVE  AdoptedRows(inner, st)
<1>0. /\ order \in Seq(NodeIds) /\ IsInjective(order) /\ DOMAIN order = 1..Len(order)
      /\ Len(order) \in Nat /\ version \in Nat
      /\ DOMAIN node = Range(order) /\ node \in [DOMAIN node -> OriginNodes]
      /\ \A n \in Range(order) : n \in NodeIds /\ n[1] < version
      /\ Len(route) \in Nat
  BY FoundRows
<1>1. /\ d \in DOMAIN origin /\ r \in DOMAIN route
      /\ i \in 1..Len(order) /\ j \in (i + 1)..Len(order) /\ order[j] = route[r].to
      /\ inner = {order[k] : k \in (i + 1)..(j - 1)}
  BY DEF Adopting, Interrupted
<1>2. /\ st \in Seq(NodeIds) /\ \A k \in DOMAIN st : st[k] = <<version, k>> \/ st[k] \in inner
  BY DEF Adopting, StopsOf
<1>3. /\ draft.stops \in Seq(Hubs \cup {Interchange}) /\ DOMAIN st = DOMAIN draft.stops
      /\ node' = [n \in (DOMAIN node \ (inner \ Range(st))) \cup Range(path) |-> SetdownRow(n, d, st)]
  BY DEF Adopting, AdoptsAs
<1>4. Range(order') = {order[k] : k \in (1..i) \cup (j..Len(order))} \cup {Setdown} \cup Range(st)
  BY AdoptedLineIs DEF LineWith
<1>5. Setdown \in NodeIds /\ Setdown[1] = version /\ \A k : <<version, k>>[1] = version /\ <<version, k>>[2] = k
  BY <1>0 DEF Setdown, NodeIds
<1>6. Range(path) = {Setdown, route[r].to} \cup Range(st)
  <2>1. route[r].to \in NodeIds
    BY <1>0, <1>1 DEF Range
  <2>2. path = PathFrom(Setdown, st, route[r].to)
    BY DEF Adopting
  <2>3. Setdown \in NodeIds /\ st \in Seq(NodeIds)
    BY <1>2, <1>5
  <2>4. PathOf(PathFrom(Setdown, st, route[r].to), NodeIds, Setdown, st, route[r].to)
    BY <2>1, <2>3, PathIs
  <2> QED BY <2>2, <2>4 DEF PathOf
<1>7. inner \subseteq DOMAIN node /\ route[r].to \in DOMAIN node \ inner
  <2>1. \A k \in (i + 1)..(j - 1) : k \in DOMAIN order /\ k # j
    BY <1>0, <1>1
  <2>2. j \in DOMAIN order
    BY <1>0, <1>1
  <2>3. route[r].to \notin inner
    BY <1>1, <2>1, <2>2, <1>0 DEF IsInjective
  <2>4. inner \subseteq Range(order) /\ route[r].to \in Range(order)
    BY <1>1, <2>1, <2>2 DEF Range
  <2> QED BY <1>0, <2>3, <2>4
<1>8. DOMAIN node \ inner = {order[k] : k \in (1..i) \cup (j..Len(order))}
  <2>1. ASSUME NEW k \in (1..i) \cup (j..Len(order)) PROVE order[k] \in DOMAIN node \ inner
    <3>1. k \in DOMAIN order /\ \A m \in (i + 1)..(j - 1) : m \in DOMAIN order /\ m # k
      BY <1>0, <1>1
    <3>2. order[k] \notin inner
      BY <1>0, <1>1, <3>1 DEF IsInjective
    <3> QED BY <3>1, <3>2, <1>0 DEF Range
  <2>2. ASSUME NEW n \in DOMAIN node \ inner
        PROVE  n \in {order[k] : k \in (1..i) \cup (j..Len(order))}
    <3>1. PICK k \in DOMAIN order : n = order[k]
      BY <1>0 DEF Range
    <3>2. k \notin (i + 1)..(j - 1)
      BY <1>1, <3>1
    <3>3. k \in (1..i) \cup (j..Len(order))
      BY <1>0, <1>1, <3>2
    <3> QED BY <3>1, <3>3
  <2> QED BY <2>1, <2>2
<1>9. Setdown \notin DOMAIN node /\ \A k : <<version, k>> \notin DOMAIN node
  BY <1>0, <1>5
<1>10. \A n \in Range(st) : n \notin DOMAIN node \ inner
  <2> SUFFICES ASSUME NEW k \in DOMAIN st PROVE st[k] \notin DOMAIN node \ inner
    BY DEF Range
  <2> QED BY <1>2, <1>9
<1>11. Setdown \notin Range(st)
  <2> SUFFICES ASSUME NEW k \in DOMAIN st PROVE st[k] # Setdown
    BY DEF Range
  <2>1. k # 0
    BY <1>2
  <2>2. CASE st[k] = <<version, k>>
    <3>1. Setdown[2] = 0
      BY DEF Setdown
    <3> QED BY <2>1, <2>2, <3>1, <1>5
  <2>3. CASE st[k] \in inner
    BY <2>3, <1>7, <1>9
  <2> QED BY <2>2, <2>3, <1>2
<1>12. (DOMAIN node \ (inner \ Range(st))) \cup Range(path) = (DOMAIN node \ inner) \cup {Setdown} \cup Range(st)
  BY <1>6, <1>7
<1>13. DOMAIN node' = (DOMAIN node \ inner) \cup {Setdown} \cup Range(st)
       /\ \A n \in (DOMAIN node \ inner) \cup {Setdown} \cup Range(st) : node'[n] = SetdownRow(n, d, st)
  BY <1>3, <1>12
<1>14. DOMAIN node' = Range(order')
  BY <1>4, <1>8, <1>13
<1>15. \A n \in DOMAIN node \ inner : n \notin {Setdown} \cup Range(st) /\ node'[n] = node[n]
  <2> SUFFICES ASSUME NEW n \in DOMAIN node \ inner
               PROVE  n \notin {Setdown} \cup Range(st) /\ node'[n] = node[n]
    OBVIOUS
  <2>1. n # Setdown /\ n \notin Range(st)
    BY <1>9, <1>10
  <2>2. SetdownRow(n, d, st) = node[n]
    BY <2>1 DEF SetdownRow
  <2> QED BY <2>1, <2>2, <1>13
<1>16. NewRoute \in Nat
  BY <1>0 DEF NewRoute
<1>17. ASSUME NEW n \in {Setdown} \cup Range(st)
       PROVE  node'[n].route = NewRoute /\ node'[n] \in OriginNodes
  <2>1. CASE n = Setdown
    <3>1. SetdownRow(n, d, st) = External!Stop(NewRoute, origin[d].hub)
      BY <2>1, <1>11 DEF SetdownRow
    <3>2. origin[d].hub \in StopHubs
      <4>1. origin[d] \in Origins
        BY <1>1 DEF OriginTypes
      <4> QED BY <4>1 DEF Origins
    <3>3. External!Stop(NewRoute, origin[d].hub) \in OriginNodes
          /\ External!Stop(NewRoute, origin[d].hub).route = NewRoute
      BY <3>2, <1>16 DEF External!Stop, OriginNodes
    <3> QED BY <2>1, <3>1, <3>3, <1>13
  <2>2. CASE n \in Range(st) \ DOMAIN node
    <3>1. n # Setdown
      BY <1>11, <2>2
    <3>2. SetdownRow(n, d, st) = External!Stop(NewRoute, draft.stops[n[2]])
      BY <2>2, <3>1 DEF SetdownRow
    <3>3. draft.stops[n[2]] \in StopHubs
      <4>1. PICK k \in DOMAIN st : n = st[k]
        BY <2>2 DEF Range
      <4>2. n = <<version, k>>
        BY <4>1, <2>2, <1>2, <1>7
      <4>3. n[2] = k
        BY <4>2
      <4>4. draft.stops[k] \in Hubs \cup {Interchange}
        BY <4>1, <1>3
      <4> QED BY <4>3, <4>4 DEF StopHubs
    <3>4. External!Stop(NewRoute, draft.stops[n[2]]) \in OriginNodes
          /\ External!Stop(NewRoute, draft.stops[n[2]]).route = NewRoute
      BY <3>3, <1>16 DEF External!Stop, OriginNodes
    <3> QED BY <2>2, <3>2, <3>4, <1>13
  <2>3. CASE n \in Range(st) \cap DOMAIN node
    <3>1. n # Setdown
      BY <1>11, <2>3
    <3>2. SetdownRow(n, d, st) = [node[n] EXCEPT !.route = NewRoute]
      BY <2>3, <3>1 DEF SetdownRow
    <3>3. node[n] \in OriginNodes
      BY <2>3, <1>0
    <3>4. [node[n] EXCEPT !.route = NewRoute] \in OriginNodes
          /\ [node[n] EXCEPT !.route = NewRoute].route = NewRoute
      BY <3>3, <1>16 DEF OriginNodes
    <3> QED BY <2>3, <3>2, <3>4, <1>13
  <2> QED BY <2>1, <2>2, <2>3
<1>18. node' \in MapsOf(OriginNodes)
  <2>1. DOMAIN node' \subseteq NodeIds
    <3>1. Range(st) \subseteq NodeIds
      BY <1>2 DEF Range
    <3> QED BY <3>1, <1>0, <1>5, <1>13
  <2>2. \A n \in DOMAIN node' : node'[n] \in OriginNodes
    BY <1>0, <1>13, <1>15, <1>17
  <2>3. node' = [n \in DOMAIN node' |-> node'[n]]
    BY <1>3
  <2>4. node' \in [DOMAIN node' -> OriginNodes]
    BY <2>2, <2>3
  <2> QED BY <2>1, <2>4 DEF MapsOf
<1> QED BY <1>13, <1>14, <1>15, <1>17, <1>18 DEF AdoptedRows

\* The new edges follow the path; the others keep their rows.
LaidEdges(st, path, old, new) ==
    /\ edge' \in MapsOf(OriginEdges)
    /\ DOMAIN edge' = (DOMAIN edge \ old) \cup new
    /\ \A k \in 1..(Len(st) + 1) : edge'[<<version, k>>].route = NewRoute /\ edge'[<<version, k>>].from = path[k]
    /\ \A e \in DOMAIN edge \ old : edge'[e] = edge[e]
    /\ \A e \in new : e \notin DOMAIN edge /\ e \in NodeIds /\ e[1] = version

\* The edges after an adoption.
LEMMA EdgesLaid ==
    ASSUME OriginTypes, OriginInv,
           NEW d, NEW f, NEW r, NEW i, NEW j, NEW inner, NEW st, NEW path, NEW old, NEW new,
           Adopting(d, f, r, i, j, inner, st, path, old, new)
    PROVE  LaidEdges(st, path, old, new)
<1>0. /\ version \in Nat /\ edge \in [DOMAIN edge -> OriginEdges]
      /\ \A e \in DOMAIN edge : e \in NodeIds /\ e[1] < version
      /\ \A q \in DOMAIN route : route[q] \in OriginRoutes
      /\ Len(route) \in Nat
  BY FoundRows
<1>1. /\ st \in Seq(NodeIds) /\ path = PathFrom(Setdown, st, route[r].to) /\ new = LaidIds(st)
      /\ edge' = [e \in (DOMAIN edge \ old) \cup new |->
                  IF e \in new THEN External!Leg(path[e[2]], path[e[2] + 1], NewRoute) ELSE edge[e]]
  BY DEF Adopting, StopsOf, AdoptsAs
<1>2. PICK l : l = Len(st)
  OBVIOUS
<1>3. l \in Nat
  BY <1>1, <1>2
<1>4. path \in Seq(NodeIds) /\ Len(path) = l + 2
  <2>1. route[r] \in OriginRoutes
    BY <1>0 DEF Adopting, Interrupted
  <2>2. route[r].to \in NodeIds /\ Setdown \in NodeIds
    BY <2>1, <1>0 DEF OriginRoutes, Setdown, NodeIds
  <2>3. PathOf(PathFrom(Setdown, st, route[r].to), NodeIds, Setdown, st, route[r].to)
    BY <1>1, <2>2, PathIs
  <2> QED BY <1>1, <1>2, <2>3 DEF PathOf
<1>5. \A k \in 1..(l + 2) : path[k] \in NodeIds
  BY <1>3, <1>4
<1>6. new = {<<version, k>> : k \in 1..(l + 1)}
  BY <1>1, <1>2 DEF LaidIds
<1>7. NewRoute \in Nat
  BY <1>0 DEF NewRoute
<1>8. ASSUME NEW k \in 1..(l + 1)
      PROVE  LET e == <<version, k>> IN
             /\ e \in new /\ edge'[e] \in OriginEdges /\ edge'[e].route = NewRoute /\ edge'[e].from = path[k]
             /\ e \in NodeIds /\ e[1] = version /\ e \notin DOMAIN edge
  <2>1. PICK e : e = <<version, k>>
    OBVIOUS
  <2>2. e \in new /\ e[2] = k /\ e[1] = version /\ e \in NodeIds
    <3>1. <<version, k>> \in NodeIds
      BY <1>0, <1>3 DEF NodeIds
    <3> QED BY <3>1, <2>1, <1>6
  <2>3. e \notin DOMAIN edge
    BY <2>2, <1>0
  <2>4. edge'[e] = External!Leg(path[k], path[k + 1], NewRoute)
    BY <1>1, <2>2
  <2>5. path[k] \in NodeIds /\ path[k + 1] \in NodeIds
    <3>1. k \in 1..(l + 2) /\ k + 1 \in 1..(l + 2)
      BY <1>3
    <3> QED BY <3>1, <1>5
  <2>6. \A m, n \in NodeIds : /\ External!Leg(m, n, NewRoute) \in OriginEdges
                              /\ External!Leg(m, n, NewRoute).route = NewRoute
                              /\ External!Leg(m, n, NewRoute).from = m
    BY <1>7 DEF External!Leg, OriginEdges
  <2>7. edge'[e] \in OriginEdges /\ edge'[e].route = NewRoute /\ edge'[e].from = path[k]
    BY <2>4, <2>5, <2>6
  <2> QED BY <2>1, <2>2, <2>3, <2>7
<1>9. \A e \in new : e \notin DOMAIN edge /\ e \in NodeIds /\ e[1] = version /\ edge'[e] \in OriginEdges
  BY <1>6, <1>8
<1>10. \A e \in DOMAIN edge \ old : edge'[e] = edge[e]
  BY <1>1, <1>9
<1>11. DOMAIN edge' = (DOMAIN edge \ old) \cup new /\ edge' = [e \in DOMAIN edge' |-> edge'[e]]
  BY <1>1
<1>12. edge' \in MapsOf(OriginEdges)
  <2>1. DOMAIN edge' \subseteq NodeIds
    BY <1>0, <1>9, <1>11
  <2>2. \A e \in DOMAIN edge' : edge'[e] \in OriginEdges
    BY <1>0, <1>9, <1>10, <1>11
  <2>3. edge' \in [DOMAIN edge' -> OriginEdges]
    BY <1>11, <2>2
  <2> QED BY <2>1, <2>3 DEF MapsOf
<1>13. \A k \in 1..(Len(st) + 1) : edge'[<<version, k>>].route = NewRoute /\ edge'[<<version, k>>].from = path[k]
  BY <1>2, <1>8
<1> QED BY <1>9, <1>10, <1>11, <1>12, <1>13 DEF LaidEdges

\* One more route; the one it replaces has only its status changed.
RouteAdded(d, r, new, inner, old) ==
    /\ route' \in Seq(OriginRoutes) /\ Len(route') = NewRoute /\ DOMAIN route' = DOMAIN route \cup {NewRoute}
    /\ route'[NewRoute] = NewRow(d, r, new, inner, old)
    /\ \A q \in DOMAIN route \ {r} : route'[q] = route[q]
    /\ route'[r] = [route[r] EXCEPT !.status = "REPLACED"]

\* A part of a map of ids.
LEMMA OnlyMaps ==
    ASSUME NEW S, NEW m \in MapsOf(S), NEW D, D \subseteq DOMAIN m
    PROVE  External!Only(m, D) \in MapsOf(S)
<1>1. m \in [DOMAIN m -> S] /\ DOMAIN m \subseteq NodeIds
  BY MapIs
<1>2. External!Only(m, D) \in [D -> S]
  BY <1>1 DEF External!Only
<1>3. D \subseteq NodeIds
  BY <1>1
<1> QED BY <1>2, <1>3 DEF MapsOf

\* The routes after an adoption.
LEMMA RouteIsAdded ==
    ASSUME OriginTypes, OriginInv,
           NEW d, NEW f, NEW r, NEW i, NEW j, NEW inner, NEW st, NEW path, NEW old, NEW new,
           Adopting(d, f, r, i, j, inner, st, path, old, new)
    PROVE  RouteAdded(d, r, new, inner, old) /\ inner \subseteq DOMAIN node /\ old \subseteq DOMAIN edge
<1>0. /\ order \in Seq(NodeIds) /\ DOMAIN order = 1..Len(order) /\ Len(order) \in Nat
      /\ version \in Nat /\ DOMAIN node = Range(order)
      /\ Len(route) \in Nat /\ DOMAIN route = 1..Len(route)
      /\ \A q \in DOMAIN route : route[q] \in OriginRoutes
  BY FoundRows
<1>1. /\ d \in DOMAIN origin /\ r \in DOMAIN route /\ i \in 1..Len(order) /\ j \in (i + 1)..Len(order)
      /\ inner = {order[k] : k \in (i + 1)..(j - 1)} /\ old = EndedEdges(r, i)
      /\ route' = Append([route EXCEPT ![r].status = "REPLACED"], NewRow(d, r, new, inner, old))
  BY DEF Adopting, Interrupted, AdoptsAs
<1>2. inner \subseteq DOMAIN node
  <2>1. \A k \in (i + 1)..(j - 1) : k \in DOMAIN order
    BY <1>0, <1>1
  <2> QED BY <2>1, <1>0, <1>1 DEF Range
<1>3. old \subseteq DOMAIN edge
  BY <1>1 DEF EndedEdges
<1>4. new \subseteq NodeIds
  BY EdgesLaid DEF LaidEdges
<1>5. NewRow(d, r, new, inner, old) \in OriginRoutes
  <2>1. External!Only(node, inner) \in MapsOf(OriginNodes) /\ External!Only(edge, old) \in MapsOf(OriginEdges)
    BY <1>2, <1>3, OnlyMaps DEF OriginTypes
  <2> DEFINE before == [order |-> order, node |-> External!Only(node, inner), edge |-> External!Only(edge, old)]
  <2>2. before \in [order : Seq(NodeIds), node : MapsOf(OriginNodes), edge : MapsOf(OriginEdges)]
    BY <1>0, <2>1
  <2>3. route[r] \in OriginRoutes
    BY <1>0, <1>1
  <2>4. route[r].to \in NodeIds /\ Setdown \in NodeIds /\ d \in Nat /\ r \in Nat /\ version + 1 \in Nat
    <3>1. route[r].to \in NodeIds
      BY <2>3 DEF OriginRoutes
    <3>2. DOMAIN origin = 1..Len(origin) /\ Len(origin) \in Nat
      BY DEF OriginTypes
    <3>3. Setdown \in NodeIds
      BY <1>0 DEF Setdown, NodeIds
    <3> QED BY <1>0, <1>1, <3>1, <3>2, <3>3
  <2> HIDE DEF before
  <2>5. NewRow(d, r, new, inner, old) =
          [status |-> "ACTIVE", from |-> Setdown, to |-> route[r].to, origin |-> d,
           replaces |-> r, version |-> version + 1, edges |-> new, before |-> before]
    BY DEF NewRow, before
  <2>6. new \in SUBSET NodeIds
    BY <1>4
  <2> QED BY <2>2, <2>4, <2>5, <2>6 DEF OriginRoutes
<1>6. PICK one : one = [route EXCEPT ![r] = [route[r] EXCEPT !.status = "REPLACED"]]
  OBVIOUS
<1>7. one \in Seq(OriginRoutes) /\ Len(one) = Len(route)
      /\ one[r] = [route[r] EXCEPT !.status = "REPLACED"]
      /\ \A q \in DOMAIN route \ {r} : one[q] = route[q]
  <2>1. [route[r] EXCEPT !.status = "REPLACED"] \in OriginRoutes
    <3>1. route[r] \in OriginRoutes
      BY <1>0, <1>1
    <3> QED BY <3>1 DEF OriginRoutes
  <2>2. route \in Seq(OriginRoutes)
    BY DEF OriginTypes
  <2> QED BY <2>1, <2>2, <1>1, <1>6
<1>8. PICK row : row = NewRow(d, r, new, inner, old)
  OBVIOUS
<1>9. route' = Append(one, row)
  BY <1>1, <1>6, <1>8
<1>10. /\ route' \in Seq(OriginRoutes) /\ Len(route') = Len(route) + 1
       /\ route'[Len(route) + 1] = row
       /\ \A q \in 1..Len(route) : route'[q] = one[q]
  BY <1>0, <1>5, <1>7, <1>8, <1>9
<1>11. DOMAIN route' = DOMAIN route \cup {Len(route) + 1}
  BY <1>0, <1>10
<1>12. RouteAdded(d, r, new, inner, old)
  BY <1>0, <1>1, <1>7, <1>8, <1>10, <1>11 DEF RouteAdded, NewRoute
<1> QED BY <1>2, <1>3, <1>12

\* An edge that stays lies before the point where the new route leaves the line.
LEMMA KeptEdge ==
    ASSUME OriginTypes, OriginInv,
           NEW d, NEW f, NEW r, NEW i, NEW j, NEW inner, NEW st, NEW path, NEW old, NEW new,
           Adopting(d, f, r, i, j, inner, st, path, old, new),
           NEW e \in DOMAIN edge \ old
    PROVE  \E m \in 1..(i - 1) : edge[e].from = order[m]
<1>0. /\ order \in Seq(NodeIds) /\ DOMAIN order = 1..Len(order) /\ Len(order) \in Nat
      /\ edge[e].from \in Range(order)
  BY FoundRows
<1>1. /\ i \in 1..Len(order) /\ OnStretch(order, edge, r, route[r].from, route[r].to)
      /\ route[r].from \in Range(order) /\ Index(order, route[r].from) <= i
      /\ old = EndedEdges(r, i)
  BY DEF Adopting, Interrupted
<1>2. PICK m : m = Index(order, edge[e].from)
  OBVIOUS
<1>3. m \in 1..Len(order) /\ order[m] = edge[e].from
  <2>1. m \in 0..Len(order) /\ m # 0 /\ order[m] = edge[e].from
    BY <1>0, <1>2, IndexFound
  <2> QED BY <2>1
<1>4. m < i
  <2>1. CASE edge[e].route = r
    <3>1. ~(Index(order, edge[e].from) >= i)
      BY <1>1, <2>1 DEF EndedEdges
    <3> QED BY <3>1, <1>1, <1>2, <1>3
  <2>2. CASE edge[e].route # r
    <3>1. Index(order, edge[e].from) < Index(order, route[r].from)
      BY <1>1, <2>2 DEF OnStretch
    <3>2. Index(order, route[r].from) \in 0..Len(order)
      BY <1>0, IndexFound
    <3> QED BY <3>1, <3>2, <1>1, <1>2, <1>3
  <2> QED BY <2>1, <2>2
<1> QED BY <1>1, <1>3, <1>4

\* An adoption leaves a line with one ACTIVE route, the new one.
LEMMA AdoptedPlanIs ==
    ASSUME OriginTypes, OriginInv,
           NEW d, NEW f, NEW r, NEW i, NEW j, NEW inner, NEW st, NEW path, NEW old, NEW new,
           Adopting(d, f, r, i, j, inner, st, path, old, new)
    PROVE  OriginPlan(order', node', edge', route', version + 1)
<1>0. /\ DOMAIN order = 1..Len(order) /\ Len(order) \in Nat /\ version \in Nat
      /\ DOMAIN node = Range(order)
      /\ \A n \in Range(order) : n[1] < version /\ n \in NodeIds /\ node[n].route \in 0..Len(route)
      /\ \A e \in DOMAIN edge : e[1] < version /\ e \in NodeIds /\ edge[e].route \in DOMAIN route
      /\ Len(route) \in Nat /\ DOMAIN route = 1..Len(route)
      /\ \A q \in DOMAIN route : route[q] \in OriginRoutes
  BY FoundRows
<1>1. /\ r \in DOMAIN route /\ OneActive(route, r)
      /\ i \in 1..Len(order) /\ j \in (i + 1)..Len(order) /\ order[j] = route[r].to
  BY DEF Adopting, Interrupted
<1>2. LineWith(order', order, i, j, st, Setdown)
  BY AdoptedLineIs
<1>3. AdoptedRows(inner, st)
  BY AdoptedNodesAre
<1>4. LaidEdges(st, path, old, new)
  BY EdgesLaid
<1>5. RouteAdded(d, r, new, inner, old) /\ inner \subseteq DOMAIN node
  BY RouteIsAdded
<1>6. /\ st \in Seq(NodeIds) /\ path = PathFrom(Setdown, st, route[r].to) /\ new = LaidIds(st)
      /\ \A k \in DOMAIN st : st[k] = <<version, k>> \/ st[k] \in inner
  BY DEF Adopting, StopsOf
<1>7. Len(st) \in Nat /\ DOMAIN st = 1..Len(st)
  BY <1>6
<1>8. /\ Setdown \in NodeIds /\ Setdown[1] = version /\ \A k : <<version, k>>[1] = version
  BY <1>0 DEF Setdown, NodeIds
<1>9. path[1] = Setdown /\ \A k \in 1..Len(st) : path[k + 1] = st[k]
  <2>1. route[r] \in OriginRoutes
    BY <1>0, <1>1
  <2>2. route[r].to \in NodeIds
    BY <2>1 DEF OriginRoutes
  <2>3. PathOf(PathFrom(Setdown, st, route[r].to), NodeIds, Setdown, st, route[r].to)
    BY <1>6, <1>8, <2>2, PathIs
  <2> QED BY <1>6, <2>3 DEF PathOf
<1>10. ASSUME NEW k \in 1..(Len(st) + 1)
       PROVE  /\ path[k] \in Range(order')
              /\ Index(order', Setdown) <= Index(order', path[k])
              /\ Index(order', path[k]) < Index(order', route[r].to)
  <2>1. Index(order', Setdown) = i + 1 /\ Index(order', route[r].to) = i + 2 + Len(st)
    BY <1>1, <1>2 DEF LineWith
  <2>2. Range(order') = {order[m] : m \in (1..i) \cup (j..Len(order))} \cup {Setdown} \cup Range(st)
    BY <1>2 DEF LineWith
  <2>3. CASE k = 1
    BY <2>1, <2>2, <2>3, <1>1, <1>7, <1>9
  <2>4. CASE k # 1
    <3>1. k - 1 \in 1..Len(st) /\ (k - 1) + 1 = k
      BY <2>4, <1>7
    <3>2. path[k] = st[k - 1]
      BY <3>1, <1>9
    <3>3. Index(order', st[k - 1]) = i + 1 + (k - 1)
      BY <3>1, <1>2 DEF LineWith
    <3>4. st[k - 1] \in Range(order')
      BY <3>1, <1>7, <2>2 DEF Range
    <3> HIDE DEF LineWith
    <3>5. i + 1 <= i + 1 + (k - 1) /\ i + 1 + (k - 1) < i + 2 + Len(st)
      BY <3>1, <1>1, <1>7, <1>0
    <3> QED BY <2>1, <3>2, <3>3, <3>4, <3>5
  <2> QED BY <2>3, <2>4
<1>11. ASSUME NEW e \in DOMAIN edge \ old
       PROVE  /\ edge[e].from \in Range(order')
              /\ Index(order', edge[e].from) < Index(order', Setdown)
  <2>1. PICK m \in 1..(i - 1) : edge[e].from = order[m]
    BY KeptEdge
  <2>2. m \in 1..i
    BY <2>1, <1>0, <1>1
  <2>3. Index(order', order[m]) = m /\ Index(order', Setdown) = i + 1
    BY <2>2, <1>2 DEF LineWith
  <2>4. order[m] \in Range(order')
    BY <2>2, <1>2 DEF LineWith
  <2> QED BY <2>1, <2>2, <2>3, <2>4, <1>0, <1>1
<1>12. IsInjective(order') /\ DOMAIN node' = Range(order')
  BY <1>2, <1>3 DEF LineWith, AdoptedRows
<1>13. NewRoute = Len(route) + 1 /\ Len(route') = NewRoute /\ DOMAIN route' = DOMAIN route \cup {NewRoute}
  BY <1>5 DEF RouteAdded, NewRoute
<1>14. ASSUME NEW n \in Range(order') PROVE n[1] < version + 1 /\ node'[n].route \in 0..Len(route')
  <2>1. n \in (DOMAIN node \ inner) \cup {Setdown} \cup Range(st)
    BY <1>3 DEF AdoptedRows
  <2>2. CASE n \in DOMAIN node \ inner
    <3>1. node'[n] = node[n]
      BY <2>2, <1>3 DEF AdoptedRows
    <3>2. n[1] < version /\ n[1] \in Nat /\ node[n].route \in 0..Len(route)
      BY <2>2, <1>0 DEF NodeIds
    <3> QED BY <3>1, <3>2, <1>0, <1>13
  <2>3. CASE n \in {Setdown} \cup Range(st)
    <3>1. node'[n].route = NewRoute
      BY <2>3, <1>3 DEF AdoptedRows
    <3>2. n[1] = version \/ (n[1] < version /\ n[1] \in Nat)
      <4>1. CASE n = Setdown
        <5>1. Setdown[1] = version
          BY <1>8
        <5>2. n[1] = version
          BY <4>1, <5>1
        <5> QED BY <5>2
      <4>2. CASE n \in Range(st)
        <5>1. PICK k \in DOMAIN st : n = st[k]
          BY <4>2 DEF Range
        <5>2. n = <<version, k>> \/ n \in Range(order)
          BY <5>1, <1>0, <1>5, <1>6
        <5> QED BY <5>2, <1>0, <1>8 DEF NodeIds
      <4> QED BY <2>3, <4>1, <4>2
    <3>3. NewRoute \in 0..Len(route')
      BY <1>0, <1>13
    <3> QED BY <3>1, <3>2, <3>3, <1>0
  <2> QED BY <2>1, <2>2, <2>3
<1>15. \A e \in new : \E k \in 1..(Len(st) + 1) : e = <<version, k>>
  BY <1>6 DEF LaidIds
<1>16. ASSUME NEW e \in DOMAIN edge'
       PROVE  e[1] < version + 1 /\ edge'[e].from \in Range(order') /\ edge'[e].route \in DOMAIN route'
  <2>1. CASE e \in new
    <3>1. PICK k \in 1..(Len(st) + 1) : e = <<version, k>>
      BY <2>1, <1>15
    <3>2. edge'[e].route = NewRoute /\ edge'[e].from = path[k] /\ e[1] = version
      BY <3>1, <2>1, <1>4 DEF LaidEdges
    <3> QED BY <3>1, <3>2, <1>0, <1>10, <1>13
  <2>2. CASE e \in DOMAIN edge \ old
    <3>1. edge'[e] = edge[e]
      BY <2>2, <1>4 DEF LaidEdges
    <3>2. e[1] \in Nat /\ e[1] < version
      BY <2>2, <1>0 DEF NodeIds
    <3> QED BY <2>2, <3>1, <3>2, <1>0, <1>11, <1>13
  <2> QED BY <2>1, <2>2, <1>4 DEF LaidEdges
<1>17. RowsOfDay(order', node', edge', route', version + 1)
  BY <1>12, <1>14, <1>16 DEF RowsOfDay
<1>18. route'[NewRoute].status = "ACTIVE" /\ route'[NewRoute].from = Setdown /\ route'[NewRoute].to = route[r].to
  BY <1>5 DEF RouteAdded, NewRow
<1>19. OneActive(route', NewRoute)
  <2>1. route'[r].status = "REPLACED"
    <3>1. route[r] \in OriginRoutes
      BY <1>0, <1>1
    <3> QED BY <3>1, <1>5 DEF RouteAdded, OriginRoutes
  <2>2. \A q \in DOMAIN route \ {r} : route'[q] = route[q]
    BY <1>5 DEF RouteAdded
  <2> QED BY <2>1, <2>2, <1>1, <1>13, <1>18 DEF OneActive
<1>20. OnStretch(order', edge', NewRoute, Setdown, route[r].to)
  <2> SUFFICES ASSUME NEW e \in DOMAIN edge'
               PROVE  IF edge'[e].route = NewRoute
                      THEN /\ Index(order', Setdown) <= Index(order', edge'[e].from)
                           /\ Index(order', edge'[e].from) < Index(order', route[r].to)
                      ELSE Index(order', edge'[e].from) < Index(order', Setdown)
    BY DEF OnStretch
  <2>1. CASE e \in new
    <3>1. PICK k \in 1..(Len(st) + 1) : e = <<version, k>>
      BY <2>1, <1>15
    <3>2. edge'[e].route = NewRoute /\ edge'[e].from = path[k]
      BY <3>1, <1>4 DEF LaidEdges
    <3> QED BY <3>1, <3>2, <1>10
  <2>2. CASE e \in DOMAIN edge \ old
    <3>1. edge'[e] = edge[e]
      BY <2>2, <1>4 DEF LaidEdges
    <3>2. edge[e].route # NewRoute
      BY <2>2, <1>0, <1>13
    <3> QED BY <2>2, <3>1, <3>2, <1>11
  <2> QED BY <2>1, <2>2, <1>4 DEF LaidEdges
<1>21. Setdown \in Range(order') /\ route[r].to \in Range(order')
  <2>1. j \in j..Len(order)
    BY <1>0, <1>1
  <2> QED BY <2>1, <1>1, <1>2 DEF LineWith
<1> QED BY <1>13, <1>17, <1>18, <1>19, <1>20, <1>21 DEF OriginPlan

(***************************************************************************)
(* Undoing the adoption just made.                                         *)
(***************************************************************************)
\* The plan is one of the routes rt2 too, which are more and have the same one ACTIVE.
LEMMA PlanOfMore ==
    ASSUME NEW ord \in Seq(NodeIds), NEW nd, NEW ed \in MapsOf(OriginEdges), NEW rt, NEW rt2, NEW v \in Nat,
           OriginPlan(ord, nd, ed, rt, v), NEW r \in DOMAIN rt, OneActive(rt, r), OneActive(rt2, r),
           DOMAIN rt \subseteq DOMAIN rt2, Len(rt) \in Nat, Len(rt2) \in Nat, Len(rt) <= Len(rt2),
           rt2[r].from = rt[r].from, rt2[r].to = rt[r].to
    PROVE  OriginPlan(ord, nd, ed, rt2, v + 1)
<1>0. SameOwners(nd, ed, nd, ed)
  BY DEF SameOwners
<1>1. OriginPlan(ord, nd, ed, rt, v + 1)
  BY <1>0, PlanLater
<1>2. RowsOfDay(ord, nd, ed, rt2, v + 1)
  BY <1>1 DEF OriginPlan, RowsOfDay
<1>3. {rt[r].from, rt[r].to} \subseteq Range(ord) /\ OnStretch(ord, ed, r, rt[r].from, rt[r].to)
  <2>1. PICK a \in DOMAIN rt : /\ OneActive(rt, a)
                               /\ {rt[a].from, rt[a].to} \subseteq Range(ord)
                               /\ OnStretch(ord, ed, a, rt[a].from, rt[a].to)
    BY DEF OriginPlan
  <2>2. r = a
    BY <2>1 DEF OneActive
  <2> QED BY <2>1, <2>2
<1> QED BY <1>2, <1>3 DEF OriginPlan

\* The routes after an adoption, and then its undo.
LEMMA RoutesUndone ==
    ASSUME OriginTypes, NEW d, NEW r \in DOMAIN route, NEW new, NEW inner, NEW old,
           NEW q, q = NewRoute, OneActive(route, r), RouteAdded(d, r, new, inner, old), NEW rt, rt = External!Reopened(q)'
    PROVE  /\ DOMAIN rt = DOMAIN route' /\ Len(rt) = q /\ OneActive(rt, r)
           /\ rt[r].from = route[r].from /\ rt[r].to = route[r].to
<1>1. /\ route' \in Seq(OriginRoutes) /\ Len(route') = q /\ DOMAIN route' = DOMAIN route \cup {q}
      /\ route'[q].replaces = r
      /\ \A x \in DOMAIN route \ {r} : route'[x] = route[x]
      /\ route'[r] = [route[r] EXCEPT !.status = "REPLACED"]
  BY DEF RouteAdded, NewRow
<1>2. DOMAIN route = 1..Len(route) /\ Len(route) \in Nat /\ q = Len(route) + 1
      /\ \A x \in DOMAIN route : route[x] \in OriginRoutes
  BY DEF OriginTypes, NewRoute
<1>3. r # q /\ DOMAIN route' = 1..q /\ \A x \in DOMAIN route' : route'[x] \in OriginRoutes
  BY <1>1, <1>2
<1>4. PICK now2 : now2 = route'
  OBVIOUS
<1>5. rt = [now2 EXCEPT ![q].status = "UNDONE", ![r].status = "ACTIVE"]
  BY <1>1, <1>4 DEF External!Reopened
<1> DEFINE one == [now2 EXCEPT ![q] = [now2[q] EXCEPT !.status = "UNDONE"]]
           two == [one EXCEPT ![r] = [one[r] EXCEPT !.status = "ACTIVE"]]
<1>6. rt = two
  BY <1>5
<1>7. DOMAIN now2 = 1..q /\ q \in Nat /\ q \in 1..q /\ r \in 1..q /\ \A x \in 1..q : now2[x] \in OriginRoutes
  BY <1>1, <1>2, <1>3, <1>4
<1>8. DOMAIN one = 1..q /\ one[r] = now2[r] /\ one[q] = [now2[q] EXCEPT !.status = "UNDONE"]
      /\ \A x \in 1..q \ {q} : one[x] = now2[x]
  BY <1>3, <1>7
<1> HIDE DEF one
<1>9. DOMAIN two = 1..q /\ two[r] = [now2[r] EXCEPT !.status = "ACTIVE"]
      /\ two[q] = [now2[q] EXCEPT !.status = "UNDONE"]
      /\ \A x \in 1..q \ {q, r} : two[x] = now2[x]
  BY <1>3, <1>7, <1>8
<1>10. Len(two) = q
  <2>1. two = [x \in 1..q |-> two[x]]
    BY <1>9
  <2> HIDE DEF two
  <2> QED BY <2>1, <1>7
<1> HIDE DEF two
<1>11. two[r].status = "ACTIVE" /\ two[r].from = now2[r].from /\ two[r].to = now2[r].to
  BY <1>7, <1>9 DEF OriginRoutes
<1>12. two[q].status = "UNDONE"
  BY <1>7, <1>9 DEF OriginRoutes
<1>13. now2[r].from = route[r].from /\ now2[r].to = route[r].to
  <2>1. route[r] \in OriginRoutes
    BY <1>2
  <2>2. [route[r] EXCEPT !.status = "REPLACED"].from = route[r].from
        /\ [route[r] EXCEPT !.status = "REPLACED"].to = route[r].to
    BY <2>1 DEF OriginRoutes
  <2> QED BY <2>2, <1>1, <1>4
<1>14. ASSUME NEW x \in 1..q, two[x].status = "ACTIVE" PROVE x = r
  <2> SUFFICES ASSUME x # r PROVE FALSE
    OBVIOUS
  <2>1. x # q
    BY <1>12, <1>14
  <2>2. two[x] = now2[x] /\ x \in DOMAIN route
    BY <2>1, <1>1, <1>3, <1>9
  <2>3. now2[x] = route[x]
    BY <2>2, <1>1, <1>4
  <2> QED BY <2>2, <2>3, <1>14 DEF OneActive
<1>15. OneActive(two, r)
  BY <1>9, <1>11, <1>14 DEF OneActive
<1> QED BY <1>3, <1>6, <1>9, <1>10, <1>11, <1>13, <1>15

\* The nodes an undo leaves after the adoption are those before it; and the edges.
LEMMA RowsReturn ==
    ASSUME OriginTypes, OriginInv,
           NEW d, NEW f, NEW r, NEW i, NEW j, NEW inner, NEW st, NEW path, NEW old, NEW new,
           Adopting(d, f, r, i, j, inner, st, path, old, new), NEW q, q = NewRoute
    PROVE  NodesAgain(q)' = node /\ EdgesAgain(q)' = edge /\ route'[q].before.order = order
<1>0. /\ node \in [DOMAIN node -> OriginNodes] /\ edge \in [DOMAIN edge -> OriginEdges]
      /\ DOMAIN node = Range(order)
      /\ \A n \in DOMAIN node : node[n].route \in 0..Len(route)
      /\ Len(route) \in Nat
  BY FoundRows
<1>1. AdoptedRows(inner, st)
  BY AdoptedNodesAre
<1>2. LaidEdges(st, path, old, new)
  BY EdgesLaid
<1>3. RouteAdded(d, r, new, inner, old) /\ inner \subseteq DOMAIN node /\ old \subseteq DOMAIN edge
  BY RouteIsAdded
<1>4. PICK nb, eb, ob : nb = External!Only(node, inner) /\ eb = External!Only(edge, old) /\ ob = order
  OBVIOUS
<1>5. route'[q].before = [order |-> ob, node |-> nb, edge |-> eb] /\ route'[q].edges = new
  BY <1>3, <1>4 DEF RouteAdded, NewRow
<1>6. DOMAIN nb = inner /\ (\A n \in inner : nb[n] = node[n])
      /\ DOMAIN eb = old /\ (\A e \in old : eb[e] = edge[e])
  BY <1>4 DEF External!Only
<1>7. route'[q].before.node = nb /\ route'[q].before.edge = eb /\ route'[q].before.order = ob
  BY <1>5
<1>8. {m \in DOMAIN node' : node'[m].route # q} = DOMAIN node \ inner
  <2>1. q \notin 0..Len(route)
    BY <1>0 DEF NewRoute
  <2>2. ASSUME NEW m \in DOMAIN node \ inner PROVE m \in DOMAIN node' /\ node'[m].route # q
    BY <1>0, <1>1, <2>1 DEF AdoptedRows
  <2>3. ASSUME NEW m \in DOMAIN node', node'[m].route # q PROVE m \in DOMAIN node \ inner
    BY <1>1, <2>3 DEF AdoptedRows
  <2> QED BY <2>2, <2>3
<1>9. NodesAgain(q)' = node
  <2>1. NodesAgain(q)' = [n \in (DOMAIN node \ inner) \cup inner |-> IF n \in inner THEN nb[n] ELSE node'[n]]
    BY <1>6, <1>7, <1>8 DEF NodesAgain
  <2>2. (DOMAIN node \ inner) \cup inner = DOMAIN node
    BY <1>3
  <2>3. \A n \in DOMAIN node : (IF n \in inner THEN nb[n] ELSE node'[n]) = node[n]
    BY <1>1, <1>6 DEF AdoptedRows
  <2>4. node = [n \in DOMAIN node |-> node[n]]
    BY <1>0
  <2> QED BY <2>1, <2>2, <2>3, <2>4
<1>10. DOMAIN edge' \ new = DOMAIN edge \ old
  BY <1>2 DEF LaidEdges
<1>11. EdgesAgain(q)' = edge
  <2>1. EdgesAgain(q)' = [e \in (DOMAIN edge \ old) \cup old |-> IF e \in DOMAIN edge \ old THEN edge'[e] ELSE eb[e]]
    BY <1>5, <1>6, <1>7, <1>10 DEF EdgesAgain
  <2>2. (DOMAIN edge \ old) \cup old = DOMAIN edge
    BY <1>3
  <2>3. \A e \in DOMAIN edge : (IF e \in DOMAIN edge \ old THEN edge'[e] ELSE eb[e]) = edge[e]
    BY <1>2, <1>6 DEF LaidEdges
  <2>4. edge = [e \in DOMAIN edge |-> edge[e]]
    BY <1>0
  <2> QED BY <2>1, <2>2, <2>3, <2>4
<1> QED BY <1>4, <1>7, <1>9, <1>11

\* The route an adoption makes can be undone to the plan before it.
LEMMA AdoptedReverses ==
    ASSUME OriginTypes, OriginInv,
           NEW d, NEW f, NEW r, NEW i, NEW j, NEW inner, NEW st, NEW path, NEW old, NEW new,
           Adopting(d, f, r, i, j, inner, st, path, old, new), NEW q, q = NewRoute
    PROVE  Reverses(q, was[q])'
<1>0. /\ order \in Seq(NodeIds) /\ edge \in MapsOf(OriginEdges) /\ version \in Nat
      /\ Len(route) \in Nat /\ DOMAIN route = 1..Len(route) /\ route \in Seq(OriginRoutes)
  BY DEF OriginTypes
<1>1. /\ d \in DOMAIN origin /\ r \in DOMAIN route /\ OneActive(route, r) /\ origin[d].route = r
      /\ Plannable(d, order, edge)
      /\ was' = Append(was, <<order, node, edge>>) /\ External!Advance
      /\ UNCHANGED <<origin, events>>
  BY DEF Adopting, Interrupted, AdoptsAs
<1>2. RouteAdded(d, r, new, inner, old)
  BY RouteIsAdded
<1>3. NodesAgain(q)' = node /\ EdgesAgain(q)' = edge /\ route'[q].before.order = order
  BY RowsReturn
<1>4. PICK b : b = <<order, node, edge>>
  OBVIOUS
<1>5. was'[q] = b
  <2>1. Len(was) = Len(route)
    BY DEF OriginInv
  <2>2. was \in Seq({<<>>} \cup (Seq(NodeIds) \X MapsOf(OriginNodes) \X MapsOf(OriginEdges)))
    BY DEF OriginTypes
  <2>3. was' = Append(was, b)
    BY <1>1, <1>4
  <2>4. q = Len(was) + 1
    BY <2>1 DEF NewRoute
  <2> QED BY <2>2, <2>3, <2>4
<1>6. version' = version + 1
  BY <1>1 DEF External!Advance
<1>7. PICK rt : rt = External!Reopened(q)'
  OBVIOUS
<1>8. /\ DOMAIN rt = DOMAIN route' /\ Len(rt) = q /\ OneActive(rt, r)
      /\ rt[r].from = route[r].from /\ rt[r].to = route[r].to
  BY <1>1, <1>2, <1>7, RoutesUndone
<1>9. OriginPlan(order, node, edge, rt, version + 1)
  <2>1. DOMAIN route \subseteq DOMAIN rt
    BY <1>2, <1>8 DEF RouteAdded
  <2>2. Len(rt) \in Nat /\ Len(route) <= Len(rt)
    BY <1>0, <1>8 DEF NewRoute
  <2>3. OriginPlan(order, node, edge, route, version)
    BY DEF OriginInv
  <2> QED BY <2>1, <2>2, <2>3, <1>0, <1>1, <1>8, PlanOfMore
<1>10. route'[q].origin = d /\ route'[q].replaces = r
  BY <1>2 DEF RouteAdded, NewRow
<1>11. PICK ord, ed : ord = order /\ ed = edge
  OBVIOUS
<1>12. Plannable(d, ord, ed)'
  BY <1>1, <1>11 DEF Plannable, External!Arrived, External!Overtaken, ConsistentOn, External!Has
<1>13. b[1] = order /\ b[2] = node /\ b[3] = edge /\ b[1] = ord /\ b[3] = ed
  BY <1>4, <1>11
<1>14. OriginPlan(was[q][1], was[q][2], was[q][3], External!Reopened(q), version)'
  BY <1>5, <1>6, <1>7, <1>9, <1>13
<1>15. Plannable(route[q].origin, was[q][1], was[q][3])'
  BY <1>5, <1>10, <1>12, <1>13 DEF Plannable, External!Arrived, External!Overtaken, ConsistentOn, External!Has
<1>16. was'[q] = <<route'[q].before.order, NodesAgain(q)', EdgesAgain(q)'>>
  BY <1>3, <1>4, <1>5
<1>17. origin'[route'[q].origin].route = route'[q].replaces
  BY <1>1, <1>10
<1> QED BY <1>14, <1>15, <1>16, <1>17 DEF Reverses

\* An adoption, then, preserves the invariant.
LEMMA AdoptKeepsOrigins ==
    ASSUME External!OriginAssumption, OriginAll, External!Adopt
    PROVE  OriginAll'
<1>t. OriginTypes /\ OriginTimes /\ OriginInv
  BY DEF OriginAll
<1>1. PICK d, f, r, i, j, inner, st, path, old, new :
        Adopting(d, f, r, i, j, inner, st, path, old, new)
  BY AdoptIs DEF Adopting
<1>2. PICK q : q = NewRoute
  OBVIOUS
<1>3. Reverses(q, was[q])'
  BY <1>t, <1>1, <1>2, AdoptedReverses
<1>4. RouteAdded(d, r, new, inner, old)
  BY <1>t, <1>1, RouteIsAdded
<1>5. OriginPlan(order', node', edge', route', version + 1)
  BY <1>t, <1>1, AdoptedPlanIs
<1>6. /\ d \in DOMAIN origin /\ r \in DOMAIN route
      /\ was' = Append(was, <<order, node, edge>>) /\ External!Advance
      /\ UNCHANGED <<now, report, origin, events, asked, reports>>
  BY <1>1 DEF Adopting, Interrupted, AdoptsAs
<1>7. version' = version + 1 /\ version \in Nat /\ DraftTypes'
  BY <1>t, <1>6, AdvanceTypes DEF OriginTypes
<1>8. order' \in Seq(NodeIds)
  BY <1>t, <1>1, AdoptedLineIs DEF LineWith
<1>9. node' \in MapsOf(OriginNodes)
  BY <1>t, <1>1, AdoptedNodesAre DEF AdoptedRows
<1>10. edge' \in MapsOf(OriginEdges)
  BY <1>t, <1>1, EdgesLaid DEF LaidEdges
<1>11. PICK W : W = {<<>>} \cup (Seq(NodeIds) \X MapsOf(OriginNodes) \X MapsOf(OriginEdges))
  OBVIOUS
<1>12. was' \in Seq(W) /\ Len(was') = Len(was) + 1 /\ \A x \in 1..Len(was) : was'[x] = was[x]
  <2>1. PICK b : b = <<order, node, edge>>
    OBVIOUS
  <2>2. b \in W
    BY <1>t, <1>11, <2>1 DEF OriginTypes
  <2>3. was \in Seq(W)
    BY <1>t, <1>11 DEF OriginTypes
  <2>4. was' = Append(was, b)
    BY <1>6, <2>1
  <2> QED BY <2>2, <2>3, <2>4
<1>13. /\ route' \in Seq(OriginRoutes) /\ Len(route') = q /\ DOMAIN route' = DOMAIN route \cup {q}
       /\ route'[q].origin = d /\ route'[q].replaces = r /\ route'[q].version = version + 1
       /\ \A x \in DOMAIN route \ {r} : route'[x] = route[x]
       /\ route'[r] = [route[r] EXCEPT !.status = "REPLACED"]
  BY <1>2, <1>4 DEF RouteAdded, NewRow
<1>14. DOMAIN route = 1..Len(route) /\ Len(route) \in Nat /\ q = Len(route) + 1
       /\ \A x \in DOMAIN route : route[x] \in OriginRoutes
  BY <1>t, <1>2 DEF OriginTypes, NewRoute
<1>15. RestTypes'
  <2>1. was' \in Seq({<<>>} \cup (Seq(NodeIds) \X MapsOf(OriginNodes) \X MapsOf(OriginEdges)))
    BY <1>11, <1>12
  <2>2. /\ now \in Nat /\ reports \in Nat /\ origin \in Seq(Origins) /\ events \subseteq Happenings
        /\ report \in MapsOf([seq : Nat, hub : Hubs \cup {External!AsPlanned}])
        /\ asked \in [Clients -> Requests \cup {External!NoRequest}]
    BY <1>t DEF OriginTypes
  <2>3. /\ now' \in Nat /\ reports' \in Nat /\ origin' \in Seq(Origins) /\ events' \subseteq Happenings
        /\ report' \in MapsOf([seq : Nat, hub : Hubs \cup {External!AsPlanned}])
        /\ asked' \in [Clients -> Requests \cup {External!NoRequest}]
    BY <1>6, <2>2
  <2>4. version' \in Nat /\ route' \in Seq(OriginRoutes)
    BY <1>7, <1>13
  <2> QED BY <1>8, <1>9, <1>10, <2>1, <2>3, <2>4 DEF RestTypes
<1>16. OriginTimes'
  <2>1. NothingAfter(now)'
    BY <1>t, <1>6 DEF OriginTimes, NothingAfter
  <2> QED BY <1>t, <1>6, <1>7, <2>1, TimesMove
<1>17. ASSUME NEW x \in DOMAIN route
       PROVE  /\ route'[x].origin = route[x].origin /\ route'[x].replaces = route[x].replaces
              /\ route'[x].version = route[x].version
  <2>1. CASE x = r
    <3>1. route[r] \in OriginRoutes
      BY <1>6, <1>14
    <3>2. /\ [route[r] EXCEPT !.status = "REPLACED"].origin = route[r].origin
          /\ [route[r] EXCEPT !.status = "REPLACED"].replaces = route[r].replaces
          /\ [route[r] EXCEPT !.status = "REPLACED"].version = route[r].version
      BY <3>1 DEF OriginRoutes
    <3> QED BY <2>1, <3>2, <1>13
  <2>2. CASE x # r
    BY <2>2, <1>13
  <2> QED BY <2>1, <2>2
<1>18. ASSUME NEW x \in DOMAIN route
       PROVE  /\ route'[x].version <= version'
              /\ route'[x].origin # 0 =>
                   route'[x].replaces \in 1..(x - 1) /\ route'[x].origin \in DOMAIN origin'
              /\ ~Reversible(x)'
  <2>1. /\ route[x].version <= version
        /\ route[x].origin # 0 =>
             route[x].replaces \in 1..(x - 1) /\ route[x].origin \in DOMAIN origin
    BY <1>t DEF OriginInv
  <2>2. route[x].version \in Nat
    <3>1. route[x] \in OriginRoutes
      BY <1>14
    <3> QED BY <3>1 DEF OriginRoutes
  <2>3. route'[x].version < version'
    BY <1>7, <1>17, <2>1, <2>2
  <2>4. ~Reversible(x)'
    BY <1>7, <2>2, <2>3, <1>17 DEF Reversible
  <2>5. route'[x].version <= version'
    BY <1>7, <1>17, <2>1, <2>2
  <2> QED BY <1>6, <1>17, <2>1, <2>4, <2>5
<1>19. /\ route'[q].version <= version'
       /\ route'[q].replaces \in 1..(q - 1) /\ route'[q].origin \in DOMAIN origin'
  <2>1. r \in 1..(q - 1)
    BY <1>6, <1>14
  <2>2. version + 1 <= version'
    BY <1>7
  <2> QED BY <2>1, <2>2, <1>6, <1>13
<1>20. Len(was') = Len(route')
  <2>1. Len(was) = Len(route)
    BY <1>t DEF OriginInv
  <2> QED BY <2>1, <1>12, <1>13, <1>14
<1>21. OriginPlan(order, node, edge, route, version)'
  BY <1>5, <1>7
<1>22. OriginInv'
  BY <1>3, <1>13, <1>18, <1>19, <1>20, <1>21 DEF OriginInv
<1> QED BY <1>7, <1>15, <1>16, <1>22 DEF OriginAll, OriginTypes, RestTypes, DraftTypes

(***************************************************************************)
(* The invariant, and what follows from it.                                *)
(***************************************************************************)
\* The invariant that the theorems on a service that ends early rest on, step by step.
LEMMA OriginStep ==
    ASSUME External!OriginAssumption, OriginAll, [External!Next]_External!vars
    PROVE  OriginAll'
<1>1. ASSUME NEW c \in Clients, External!Ask(c) \/ External!Confirm(c) PROVE OriginAll'
  BY <1>1, AskKeeps, ConfirmKeeps
<1>2. ASSUME NEW i \in DOMAIN origin, External!Depart(i) PROVE OriginAll'
  BY <1>2, DepartKeeps
<1>3. ASSUME NEW i \in DOMAIN origin, NEW stops \in ExternalOffers, External!Query(i, stops)
      PROVE  OriginAll'
  BY <1>3, QueryKeepsOrigins
<1>4. CASE External!Preview
  BY <1>4, PreviewKeepsOrigins
<1>5. CASE External!Adopt
  BY <1>5, AdoptKeepsOrigins
<1>6. CASE External!Tick
  BY <1>6, TickKeeps
<1>7. ASSUME NEW r \in DOMAIN route, External!Undo(r) PROVE OriginAll'
  BY <1>7, UndoKeepsOrigins
<1>8. ASSUME NEW e \in DOMAIN edge, External!Report(e) PROVE OriginAll'
  BY <1>8, ReportKeeps
<1>9. ASSUME NEW n \in External!Line, External!Edit(n) PROVE OriginAll'
  BY <1>9, EditKeepsOrigins
<1>10. ASSUME NEW n \in External!Line, NEW type \in {"ARRIVAL", "DEPARTURE"}, External!Record(n, type)
       PROVE  OriginAll'
  BY <1>10, RecordKeeps
<1>11. ASSUME NEW e \in events, External!Correct(e) PROVE OriginAll'
  BY <1>11, CorrectKeeps
<1>12. CASE UNCHANGED External!vars
  BY <1>12, OriginStutter
<1> QED BY <1>1, <1>2, <1>3, <1>4, <1>5, <1>6, <1>7, <1>8, <1>9, <1>10, <1>11, <1>12
        DEF External!Next

\* The invariant holds at all times: whenever an adoption can be undone, undoing it
\* gives the plan it was made on, from which its origin may be planned again
\* (executeExternalRouteAdoption, executeUndo).
THEOREM OriginInvariance ==
    ASSUME External!OriginAssumption
    PROVE  External!Spec => []OriginAll
<1>1. External!Init => OriginAll
  BY OriginInit
<1>2. OriginAll /\ [External!Next]_External!vars => OriginAll'
  BY OriginStep
<1> QED BY <1>1, <1>2, PTL DEF External!Spec

\* An origin that is confirmed rests on the latest report of its leg and is the only
\* open one; it is current unless events contradict each other or are dated ahead
\* (ConfirmedIsCurrent, of mutate in ExternalExecutionOriginService).
THEOREM ConfirmationIsCurrent ==
    ASSUME External!OriginAssumption
    PROVE  External!Spec => External!ConfirmedIsCurrent
<1>1. External!Spec => []OriginAll
  BY OriginInvariance
<1>2. OriginAll /\ [External!Next]_External!vars =>
        [\A i \in DOMAIN origin' \ DOMAIN origin :
           /\ report'[origin'[i].edge].seq = origin'[i].seen
           /\ report'[origin'[i].edge].hub = origin'[i].hub
           /\ External!Arrived' = {i}
           /\ External!Consistent' /\ (\A e \in events' : ~e.early) => External!Authorised(i)']_External!vars
  BY ConfirmedStep DEF OriginAll, ConfirmedHere
<1> QED BY <1>1, <1>2, PTL DEF External!Spec, External!ConfirmedIsCurrent

\* A step that neither adopts nor undoes leaves the line, the routes and the legs.
PlanStays ==
    /\ UNCHANGED <<order, route>> /\ DOMAIN edge' = DOMAIN edge
    /\ \A e \in events' : e \in events \/ e.node \in Range(order)
    /\ DOMAIN report' \subseteq DOMAIN report \cup DOMAIN edge

\* Every step is of that kind, an adoption or an undo.
LEMMA PlansOf ==
    ASSUME OriginTypes, [External!Next]_External!vars
    PROVE  PlanStays \/ External!Adopt \/ \E r \in DOMAIN route : External!Undo(r)
<1>1. ASSUME UNCHANGED <<order, route, edge, events, report>> PROVE PlanStays
  BY <1>1 DEF PlanStays
<1>2. ASSUME NEW c \in Clients, External!Ask(c) \/ External!Confirm(c) PROVE PlanStays
  <2>1. UNCHANGED <<order, route, edge, events, report>>
    BY <1>2 DEF External!Ask, External!Confirm, External!plan
  <2> QED BY <2>1, <1>1
<1>3. ASSUME NEW i \in DOMAIN origin, External!Depart(i) PROVE PlanStays
  <2>1. UNCHANGED <<order, route, edge, events, report>>
    BY <1>3 DEF External!Depart, External!plan
  <2> QED BY <2>1, <1>1
<1>4. ASSUME NEW i \in DOMAIN origin, NEW stops \in ExternalOffers, External!Query(i, stops)
      PROVE  PlanStays
  <2>1. UNCHANGED <<order, route, edge, events, report>>
    BY <1>4 DEF External!Query, External!plan
  <2> QED BY <2>1, <1>1
<1>5. CASE External!Preview
  <2>1. UNCHANGED <<order, route, edge, events, report>>
    BY <1>5 DEF External!Preview, External!plan
  <2> QED BY <2>1, <1>1
<1>6. CASE External!Tick
  <2>1. UNCHANGED <<order, route, edge, events, report>>
    BY <1>6 DEF External!Tick, External!plan
  <2> QED BY <2>1, <1>1
<1>7. ASSUME NEW e \in DOMAIN edge, External!Report(e) PROVE PlanStays
  <2>1. PICK hub \in Hubs \cup {External!AsPlanned}, departed \in BOOLEAN :
         /\ report' = [f \in DOMAIN report \cup {e} |->
                         IF f = e THEN [seq |-> reports + 1, hub |-> hub] ELSE report[f]]
         /\ External!Times(e, departed)
    BY <1>7 DEF External!Report
  <2>2. DOMAIN report' = DOMAIN report \cup {e}
    BY <2>1
  <2>3. DOMAIN edge' = DOMAIN edge
    <3>1. edge \in [DOMAIN edge -> OriginEdges]
      BY MapIs DEF OriginTypes
    <3> QED BY <2>1, <3>1 DEF External!Times
  <2>4. UNCHANGED <<order, route, events>>
    BY <1>7 DEF External!Report
  <2> QED BY <1>7, <2>2, <2>3, <2>4 DEF PlanStays
<1>8. ASSUME NEW n \in External!Line, External!Edit(n) PROVE PlanStays
  <2>1. UNCHANGED <<order, route, edge, events, report>>
    BY <1>8 DEF External!Edit
  <2> QED BY <2>1, <1>1
<1>9. ASSUME NEW n \in External!Line, NEW type \in {"ARRIVAL", "DEPARTURE"}, External!Record(n, type)
      PROVE  PlanStays
  <2>1. PICK at : events' = events \cup {[node |-> n, type |-> type, at |-> at, early |-> at > now]}
    BY <1>9 DEF External!Record
  <2>2. UNCHANGED <<order, route, edge, report>>
    BY <1>9 DEF External!Record, External!plan
  <2>3. PICK x : x = [node |-> n, type |-> type, at |-> at, early |-> at > now]
    OBVIOUS
  <2>4. x.node = n /\ events' = events \cup {x}
    BY <2>1, <2>3
  <2>5. n \in Range(order)
    BY ExternalLine
  <2> QED BY <2>2, <2>4, <2>5 DEF PlanStays
<1>10. ASSUME NEW e \in events, External!Correct(e) PROVE PlanStays
  <2>1. events' = events \ {e} /\ UNCHANGED <<order, route, edge, report>>
    BY <1>10 DEF External!Correct, External!plan
  <2> QED BY <2>1 DEF PlanStays
<1>11. CASE UNCHANGED External!vars
  <2>1. UNCHANGED <<order, route, edge, events, report>>
    BY <1>11 DEF External!vars, External!plan
  <2> QED BY <2>1, <1>1
<1> QED BY <1>2, <1>3, <1>4, <1>5, <1>6, <1>7, <1>8, <1>9, <1>10, <1>11 DEF External!Next

\* The route x stays, or is replaced.
RouteStays(x) ==
    /\ x \in DOMAIN route' /\ route'[x].before = route[x].before
    /\ route'[x].status = route[x].status \/ route'[x].status = "REPLACED"

\* What an adoption makes of the routes there were.
LEMMA AdoptedStatuses ==
    ASSUME OriginTypes, NEW d, NEW r, NEW new, NEW inner, NEW old, RouteAdded(d, r, new, inner, old),
           NEW x \in DOMAIN route
    PROVE  RouteStays(x)
<1>1. route[x] \in OriginRoutes
  BY DEF OriginTypes
<1>2. [route[x] EXCEPT !.status = "REPLACED"].status = "REPLACED"
      /\ [route[x] EXCEPT !.status = "REPLACED"].before = route[x].before
  BY <1>1 DEF OriginRoutes
<1>3. route'[x] = route[x] \/ route'[x] = [route[x] EXCEPT !.status = "REPLACED"]
  BY DEF RouteAdded
<1>4. x \in DOMAIN route'
  BY DEF RouteAdded
<1>5. CASE route'[x] = route[x]
  BY <1>4, <1>5 DEF RouteStays
<1>6. CASE route'[x] = [route[x] EXCEPT !.status = "REPLACED"]
  BY <1>2, <1>4, <1>6 DEF RouteStays
<1> QED BY <1>3, <1>5, <1>6 DEF RouteStays

\* Only an undo of a route makes it UNDONE.
LEMMA UndoneStep ==
    ASSUME External!OriginAssumption, OriginAll, [External!Next]_External!vars,
           NEW r \in DOMAIN route, route[r].status = "ACTIVE", route'[r].status = "UNDONE"
    PROVE  /\ <<order, node, edge>>' = was[r]
           /\ origin' = origin
           /\ External!Authorised(route[r].origin)'
<1>t. OriginTypes /\ OriginInv
  BY DEF OriginAll
<1>1. ~PlanStays
  BY DEF PlanStays
<1>2. ~External!Adopt
  <2> SUFFICES ASSUME External!Adopt PROVE FALSE
    OBVIOUS
  <2>1. PICK d, f, p, i, j, inner, st, path, old, new :
          Adopting(d, f, p, i, j, inner, st, path, old, new)
    BY AdoptIs DEF Adopting
  <2>2. RouteAdded(d, p, new, inner, old)
    BY <1>t, <2>1, RouteIsAdded
  <2>3. RouteStays(r)
    BY <1>t, <2>2, AdoptedStatuses
  <2> QED BY <2>3 DEF RouteStays
<1>3. PICK p \in DOMAIN route : External!Undo(p)
  BY <1>t, <1>1, <1>2, PlansOf
<1>4. p = r
  <2>1. route[p].origin # 0 /\ route' = External!Reopened(p)
    BY <1>t, <1>3, UndoIs
  <2>2. /\ r \notin {p, route[p].replaces} => route'[r].status = route[r].status
        /\ route'[route[p].replaces].status = "ACTIVE"
    BY <1>t, <2>1, ReopenedIs
  <2> QED BY <2>2
<1>5. External!Undo(r)
  BY <1>3, <1>4
<1> QED BY <1>5, UndoReopensHere

\* An undone adoption leaves the plan as it was before it, its origin, and the right to
\* plan from it again (UndoReopensPlanning, of executeUndo and validateV5Corridor).
THEOREM UndoReopens ==
    ASSUME External!OriginAssumption
    PROVE  External!Spec => External!UndoReopensPlanning
<1>1. External!Spec => []OriginAll
  BY OriginInvariance
<1>2. OriginAll /\ [External!Next]_External!vars =>
        [\A r \in DOMAIN route : route[r].status = "ACTIVE" /\ route'[r].status = "UNDONE" =>
           /\ <<order, node, edge>>' = was[r]
           /\ origin' = origin
           /\ External!Authorised(route[r].origin)']_External!vars
  BY UndoneStep
<1> QED BY <1>1, <1>2, PTL DEF External!Spec, External!UndoReopensPlanning

\* What happened at a node is an execution of it.
LEMMA ExecutedIs ==
    ASSUME OriginTypes, NEW e \in events, e.node \in Range(order)
    PROVE  e.node \in External!Executed
<1>1. e.type \in {"ARRIVAL", "DEPARTURE"}
  BY DEF OriginTypes, Happenings
<1> QED BY <1>1, ExternalLine DEF External!Executed, External!Has

\* What an adoption removes from the line has no event, and the legs it removes are in
\* the delta of its receipt.
LEMMA AdoptLosesNothing ==
    ASSUME External!OriginAssumption, OriginAll, External!ExecutionSurvives, External!Adopt
    PROVE  External!ExecutionSurvives'
<1>t. OriginTypes /\ OriginInv
  BY DEF OriginAll
<1>1. PICK d, f, r, i, j, inner, st, path, old, new :
        Adopting(d, f, r, i, j, inner, st, path, old, new)
  BY AdoptIs DEF Adopting
<1>2. RouteAdded(d, r, new, inner, old)
  BY <1>t, <1>1, RouteIsAdded
<1>3. LaidEdges(st, path, old, new)
  BY <1>t, <1>1, EdgesLaid
<1>4. AdoptedRows(inner, st)
  BY <1>t, <1>1, AdoptedNodesAre
<1>5. UNCHANGED <<events, report>> /\ \A n \in inner : n \notin External!Executed
  BY <1>1 DEF Adopting, AdoptsAs
<1>6. DOMAIN node = Range(order)
  BY <1>t DEF OriginInv, OriginPlan, RowsOfDay
<1>7. ASSUME NEW e \in events PROVE e.node \in Range(order')
  <2>1. e.node \in Range(order)
    BY ExternalLine DEF External!ExecutionSurvives
  <2>2. e.node \notin inner
    BY <1>t, <1>5, <2>1, ExecutedIs
  <2> QED BY <1>4, <1>6, <2>1, <2>2 DEF AdoptedRows
<1>8. ASSUME NEW e \in DOMAIN report
      PROVE  \/ e \in DOMAIN edge'
             \/ \E x \in DOMAIN route' : route'[x].status # "UNDONE" /\ e \in DOMAIN route'[x].before.edge
  <2>1. CASE e \in DOMAIN edge \ old
    BY <2>1, <1>3 DEF LaidEdges
  <2>2. CASE e \in old
    <3>1. PICK b : b = [order |-> order, node |-> External!Only(node, inner), edge |-> External!Only(edge, old)]
      OBVIOUS
    <3>2. DOMAIN b.edge = old
      BY <3>1 DEF External!Only
    <3>3. PICK q : q = NewRoute
      OBVIOUS
    <3>4. q \in DOMAIN route' /\ route'[q].status = "ACTIVE" /\ route'[q].before = b
      BY <1>2, <3>1, <3>3 DEF RouteAdded, NewRow
    <3> QED BY <2>2, <3>2, <3>4
  <2>3. ASSUME NEW x \in DOMAIN route, route[x].status # "UNDONE", e \in DOMAIN route[x].before.edge
        PROVE  /\ x \in DOMAIN route' /\ route'[x].status # "UNDONE"
               /\ e \in DOMAIN route'[x].before.edge
    <3>1. RouteStays(x)
      BY <1>t, <1>2, AdoptedStatuses
    <3> QED BY <2>3, <3>1 DEF RouteStays
  <2> QED BY <2>1, <2>2, <2>3 DEF External!ExecutionSurvives
<1>9. External!Line' = Range(order')
  BY DEF External!Line, External!Range, Range
<1> QED BY <1>5, <1>7, <1>8, <1>9 DEF External!ExecutionSurvives

\* An undo removes only nodes without an event and legs without a report.
LEMMA UndoLosesNothing ==
    ASSUME OriginAll, External!ExecutionSurvives, NEW r \in DOMAIN route, External!Undo(r)
    PROVE  External!ExecutionSurvives'
<1>t. OriginTypes /\ OriginInv
  BY DEF OriginAll
<1>1. /\ node' = NodesAgain(r) /\ edge' = EdgesAgain(r) /\ route' = External!Reopened(r)
      /\ route[r].origin # 0 /\ UNCHANGED <<events, report>>
  BY <1>t, UndoIs
<1>2. /\ \A n \in External!Line : node[n].route = r => ~External!Protected(n)
      /\ route[r].edges \cap DOMAIN report = {}
  BY DEF External!Undo, External!Undoable
<1>3. DOMAIN node' = Range(order') /\ DOMAIN node = Range(order)
  <2>1. OriginInv'
    BY UndoKeepsOrigins DEF OriginAll
  <2> QED BY <1>t, <2>1 DEF OriginInv, OriginPlan, RowsOfDay
<1>4. ASSUME NEW e \in events PROVE e.node \in Range(order')
  <2>1. e.node \in Range(order)
    BY ExternalLine DEF External!ExecutionSurvives
  <2>2. e.node \in External!Executed
    BY <1>t, <2>1, ExecutedIs
  <2>3. node[e.node].route # r
    BY <1>2, <2>1, <2>2, ExternalLine DEF External!Protected
  <2> QED BY <1>1, <1>3, <2>1, <2>3 DEF NodesAgain
<1>5. DOMAIN edge' = (DOMAIN edge \ route[r].edges) \cup DOMAIN route[r].before.edge
  BY <1>1 DEF EdgesAgain
<1>6. ASSUME NEW x \in DOMAIN route, route[x].status # "UNDONE", x # r
      PROVE  x \in DOMAIN route' /\ route'[x].status # "UNDONE" /\ route'[x].before = route[x].before
  <2>1. /\ x \in DOMAIN route' /\ route'[x].before = route[x].before
        /\ x \notin {r, route[r].replaces} => route'[x].status = route[x].status
        /\ route'[route[r].replaces].status = "ACTIVE"
    BY <1>t, <1>1, ReopenedIs
  <2> QED BY <1>6, <2>1
<1>7. ASSUME NEW e \in DOMAIN report
      PROVE  \/ e \in DOMAIN edge'
             \/ \E x \in DOMAIN route' : route'[x].status # "UNDONE" /\ e \in DOMAIN route'[x].before.edge
  <2>1. CASE e \in DOMAIN edge
    BY <2>1, <1>2, <1>5
  <2>2. ASSUME NEW x \in DOMAIN route, route[x].status # "UNDONE", e \in DOMAIN route[x].before.edge
        PROVE  \/ e \in DOMAIN edge'
               \/ /\ x \in DOMAIN route' /\ route'[x].status # "UNDONE"
                  /\ e \in DOMAIN route'[x].before.edge
    <3>1. CASE x = r
      BY <3>1, <2>2, <1>5
    <3>2. CASE x # r
      BY <3>2, <2>2, <1>6
    <3> QED BY <3>1, <3>2
  <2> QED BY <2>1, <2>2 DEF External!ExecutionSurvives
<1>8. External!Line' = Range(order')
  BY DEF External!Line, External!Range, Range
<1> QED BY <1>1, <1>4, <1>7, <1>8 DEF External!ExecutionSurvives

\* All other steps only add to what happened, at rows that are there, or correct it.
LEMMA StayLosesNothing ==
    ASSUME External!ExecutionSurvives, PlanStays
    PROVE  External!ExecutionSurvives'
<1>1. External!Line' = Range(order) /\ External!Line = Range(order)
  BY ExternalLine DEF PlanStays, External!Line, External!Range, Range
<1>2. \A e \in events' : e.node \in Range(order)
  BY <1>1 DEF PlanStays, External!ExecutionSurvives
<1>3. ASSUME NEW e \in DOMAIN report'
      PROVE  \/ e \in DOMAIN edge'
             \/ \E x \in DOMAIN route' : route'[x].status # "UNDONE" /\ e \in DOMAIN route'[x].before.edge
  BY DEF PlanStays, External!ExecutionSurvives
<1> QED BY <1>1, <1>2, <1>3 DEF External!ExecutionSurvives

\* Nothing is lost at the start.
LEMMA SurvivesInit == External!Init => External!ExecutionSurvives
<1> SUFFICES ASSUME External!Init PROVE External!ExecutionSurvives
  OBVIOUS
<1>1. OriginTypes
  BY OriginInit DEF OriginAll
<1>2. order = <<<<0, 1>>, <<0, 2>>, <<0, 3>>>> /\ report = <<>> /\ \A e \in events : e.node = <<0, 1>>
  BY DEF External!Init
<1>3. PICK a : a = <<0, 1>>
  OBVIOUS
<1>4. 1 \in DOMAIN order /\ order[1] = a
  BY <1>2, <1>3
<1>5. a \in Range(order)
  BY <1>4 DEF Range
<1>6. DOMAIN report = {}
  BY <1>2
<1> QED BY <1>2, <1>3, <1>5, <1>6, ExternalLine DEF External!ExecutionSurvives

\* Neither an adoption nor an undo loses what happened (ExecutionSurvives): nodes with
\* an event stay on the line, and legs with a report are in the plan or among what a
\* route that was not undone replaced.
THEOREM ExecutionAlwaysSurvives ==
    ASSUME External!OriginAssumption
    PROVE  External!Spec => []External!ExecutionSurvives
<1>1. External!Spec => []OriginAll
  BY OriginInvariance
<1>2. External!Init => External!ExecutionSurvives
  BY SurvivesInit
<1>3. OriginAll /\ External!ExecutionSurvives /\ [External!Next]_External!vars =>
        External!ExecutionSurvives'
  <2>1. OriginAll => OriginTypes
    BY DEF OriginAll
  <2> QED BY <2>1, PlansOf, AdoptLosesNothing, UndoLosesNothing, StayLosesNothing
<1> QED BY <1>1, <1>2, <1>3, PTL DEF External!Spec

=============================================================================
