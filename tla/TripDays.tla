----------------------------- MODULE TripDays ------------------------------
(***************************************************************************)
(* The days of a traveller's trips: which day occurrences a trip has, the  *)
(* nodes that lie on them, the transport that joins neighbours, the days   *)
(* an adopted route projects its transport onto, and the calendar dates    *)
(* each trip owns (persistence/src/prisma-trip-repository.ts,              *)
(* domain/src/trip-authoring-impact.ts and the day projections of          *)
(* persistence/src/prisma-route-adoption.ts).                              *)
(*                                                                         *)
(* A trip's timeline is its days by sequence and the nodes of a day by     *)
(* position: both are sequences here.  The order of the days is not the    *)
(* order of their dates, and a date may occur twice (a crossed date line). *)
(* Every mutation is one transaction that takes the owner's advisory lock  *)
(* and the Trip row first, and an aborted one leaves nothing: an action is *)
(* one transaction, a refused request is no step.  The one abort that is a *)
(* step is SERVER_ERROR: the request was legal and the answer is a 500.    *)
(* Likewise no step: the answer repeated from an authoring receipt.        *)
(*                                                                         *)
(* Abstractions.  Ids are numbers, new ones follow those in use.  Dates    *)
(* are numbers.  Notes, places, time intents and locks (which only refuse  *)
(* more) are left out, as are the nodes a route brings with it (module     *)
(* RoutePlan).                                                             *)
(***************************************************************************)
EXTENDS Naturals, Sequences, FiniteSets, SequencesExt

CONSTANTS
    Trips,       \* the trips of one owner
    MaxDate,     \* dates are 1..MaxDate
    MaxNodes,    \* nodes a trip holds at most
    MaxChanges,  \* how often the trips change, together
    Given        \* the plans to start from: for each trip, the visits of its
                 \* first dates

ASSUME BoundsAssumption ==
    /\ MaxDate \in Nat \ {0} /\ MaxNodes \in Nat
    /\ MaxChanges \in Nat

VARIABLES
    version,    \* Trip.version
    days,       \* DayOccurrence rows by sequence, with their nodes by position
    edges,      \* TransportEdge rows with their TransportDayProjection rows
    range,      \* Trip.effectiveStartDate and effectiveEndDate, or <<>>
    ownership,  \* DateOwnership rows: date -> trip
    answer      \* what the last request that was not refused was told

vars == <<version, days, edges, range, ownership, answer>>

Dates == 1..MaxDate
Changes == MapThenSumSet(LAMBDA t : version[t] - 1, Trips)

SetMin(S) == CHOOSE x \in S : \A y \in S : x <= y
SetMax(S) == CHOOSE x \in S : \A y \in S : x >= y

\* The k-th number that follows those of S, k at most n.
Fresh(S, n) == [k \in 1..n |-> SetMax(S \cup {0}) + k]

(***************************************************************************)
(* The timeline.                                                           *)
(***************************************************************************)
DayIds(ds) == {ds[i].id : i \in DOMAIN ds}
NodesOf(ds) == UNION {Range(ds[i].nodes) : i \in DOMAIN ds}
NodeIds(ds) == {n.id : n \in NodesOf(ds)}
DayIndex(ds, d) == CHOOSE i \in DOMAIN ds : ds[i].id = d

\* The day a node lies on and its position there.
Places(ds) == UNION {{i} \X DOMAIN ds[i].nodes : i \in DOMAIN ds}
NodeAt(ds, p) == ds[p[1]].nodes[p[2]]
Place(ds, n) == CHOOSE p \in Places(ds) : NodeAt(ds, p).id = n
NodeRow(ds, n) == NodeAt(ds, Place(ds, n))

Before(ds, m, n) ==
    LET p == Place(ds, m)  q == Place(ds, n)
    IN p[1] < q[1] \/ (p[1] = q[1] /\ p[2] < q[2])

Neighbours(ds, m, n) ==
    /\ {m, n} \subseteq NodeIds(ds)
    /\ Before(ds, m, n)
    /\ ~ \E k \in NodeIds(ds) : Before(ds, m, k) /\ Before(ds, k, n)

\* A slip: nobody looks whether transport still joins neighbours.
AdjacencyUnchecked(ds, es) == es

AdjacentOnly(ds, es) == {e \in es : Neighbours(ds, e.from, e.to)}
EndingAt(es, n) == {e \in es : n \in {e.from, e.to}}

\* The days strictly inside an edge's projection: the transport fills them.
OccupiedDays(es) ==
    UNION {{e.span[i] : i \in 2..(Len(e.span) - 1)} : e \in es}

(***************************************************************************)
(* Changes of the days: a node put on, taken off or altered on a day, and  *)
(* the day of a NEW target with the days that fill the gap up to the dates *)
(* the trip has already (resolveTargetDayOccurrence).                      *)
(***************************************************************************)
PutNode(ds, d, k, n) ==
    [ds EXCEPT ![DayIndex(ds, d)].nodes = InsertAt(@, k, n)]
TakeNode(ds, n) ==
    LET p == Place(ds, n)
    IN [ds EXCEPT ![p[1]].nodes = RemoveAt(@, p[2])]

FromTo(a, b) == [i \in 1..(b + 1 - a) |-> a + i - 1]

Gap(ds, date) ==
    LET has == {ds[i].date : i \in DOMAIN ds}
    IN IF ds = <<>> THEN <<>>
       ELSE IF date < SetMin(has) THEN FromTo(date + 1, SetMin(has) - 1)
       ELSE IF date > SetMax(has) THEN FromTo(SetMax(has) + 1, date - 1)
       ELSE <<>>

\* The days with a new one of this date after the first `seq` of them.  The gap
\* days run from the new day to the rest of the trip, or up to the new day.
WithNewDay(ds, date, seq) ==
    LET gap   == Gap(ds, date)
        ids   == Fresh(DayIds(ds), Len(gap) + 1)
        New(i, dt) == [id |-> ids[i], date |-> dt, nodes |-> <<>>]
        target == New(1, date)
        between == [i \in DOMAIN gap |-> New(i + 1, gap[i])]
        earlier == gap # <<>> /\ date < gap[1]
        block == IF seq = 0 /\ gap # <<>>
                 THEN <<target>> \o (IF earlier THEN between ELSE Reverse(between))
                 ELSE (IF earlier THEN Reverse(between) ELSE between) \o <<target>>
    IN SubSeq(ds, 1, seq) \o block \o SubSeq(ds, seq + 1, Len(ds))

NewDayId(ds) == Fresh(DayIds(ds), 1)[1]

\* A slip: a day that transport fills is a target too.
TargetsOccupiedToo(ds, es) ==
    {[ds |-> ds, day |-> d] : d \in DayIds(ds)}
    \cup {[ds |-> WithNewDay(ds, dt, s), day |-> NewDayId(ds)] :
              dt \in Dates, s \in 0..Len(ds)}

\* The days a request may name as its target, and the days with that target.
Targets(ds, es) ==
    {[ds |-> ds, day |-> d] : d \in DayIds(ds) \ OccupiedDays(es)}
    \cup {[ds |-> WithNewDay(ds, dt, s), day |-> NewDayId(ds)] :
              dt \in Dates, s \in 0..Len(ds)}

(***************************************************************************)
(* The end of every structural mutation (reconcileDateOwnership): days     *)
(* before the first and after the last with content go, the dates from the *)
(* least to the greatest that is left become the trip's, and the whole is  *)
(* refused when another trip owns one of them.                             *)
(***************************************************************************)
HasContent(d, es) == d.nodes # <<>> \/ \E e \in es : d.id \in Range(e.span)

Trimmed(ds, es) ==
    LET content == {i \in DOMAIN ds : HasContent(ds[i], es)}
    IN IF content = {} THEN <<>>
       ELSE SubSeq(ds, SetMin(content), SetMax(content))

RangeOfDays(ds) ==
    LET has == {ds[i].date : i \in DOMAIN ds}
    IN IF ds = <<>> THEN <<>> ELSE <<SetMin(has), SetMax(has)>>

DatesIn(r) == IF r = <<>> THEN {} ELSE r[1]..r[2]
OwnedBy(own, t) == {d \in DOMAIN own : own[d] = t}

\* Slips: dates are never given back; a row of another trip is taken over.
ClaimedForGood(t, r) ==
    [d \in DOMAIN ownership \cup DatesIn(r) |->
        IF d \in DOMAIN ownership THEN ownership[d] ELSE t]
ClaimedTakingOver(t, r) ==
    LET left == DOMAIN ownership \ (OwnedBy(ownership, t) \ DatesIn(r))
    IN [d \in left \cup DatesIn(r) |-> IF d \in DatesIn(r) THEN t ELSE ownership[d]]

\* Rows outside the range go; inside, a row is made where there is none.
Claimed(t, r) ==
    LET left == DOMAIN ownership \ (OwnedBy(ownership, t) \ DatesIn(r))
    IN [d \in left \cup DatesIn(r) |-> IF d \in left THEN ownership[d] ELSE t]

\* Trip t has the days ds and the edges es, as far as its dates allow.
Commit(t, ds, es) ==
    LET kept == Trimmed(ds, es)
        r    == RangeOfDays(kept)
    IN /\ DatesIn(r) \subseteq OwnedBy(Claimed(t, r), t)
       /\ days' = [days EXCEPT ![t] = kept]
       /\ edges' = [edges EXCEPT ![t] = es]
       /\ range' = [range EXCEPT ![t] = r]
       /\ ownership' = Claimed(t, r)
       /\ version' = [version EXCEPT ![t] = @ + 1]
       /\ answer' = "SUCCESS"

(***************************************************************************)
(* Moving a node to another day.  Its row first joins the target day at    *)
(* position (target + source + 1); rewritePositions then adds an offset to *)
(* every position of the day in one UPDATE.  The unique index on day and   *)
(* position is checked row by row, so the UPDATE fails if a row is shifted *)
(* onto one not yet shifted.                                               *)
(***************************************************************************)
ShiftMayCollide(positions, count) ==
    \E p \in positions : p + (2 * count + 1) \in positions

MoveMayFail(ds, n, d) ==
    LET source == Len(ds[Place(ds, n)[1]].nodes)
        target == Len(ds[DayIndex(ds, d)].nodes)
    IN ShiftMayCollide(0..(target - 1) \cup {target + source + 1}, target + 1)

SameDay(ds, n, d) == ds[Place(ds, n)[1]].id = d

\* Where a node may be put on a day: a node that stays there is not counted.
Slots(ds, n, d) ==
    1..(Len(ds[DayIndex(ds, d)].nodes) + IF SameDay(ds, n, d) THEN 0 ELSE 1)

Moved(ds, n, d, k) == PutNode(TakeNode(ds, n), d, k, NodeRow(ds, n))

(***************************************************************************)
(* Commands (executeCommand, applyCommand).                                *)
(***************************************************************************)
NewNode(ds, visit) ==
    [id |-> Fresh(NodeIds(ds), 1)[1], visit |-> visit, actual |-> FALSE]

\* ADD_PLACE_VISIT and ADD_FREE_ACTION.
AddNode(t) ==
    /\ Cardinality(NodeIds(days[t])) < MaxNodes
    /\ \E g \in Targets(days[t], edges[t]), visit \in BOOLEAN :
       \E k \in 1..(Len(g.ds[DayIndex(g.ds, g.day)].nodes) + 1) :
          LET ds == PutNode(g.ds, g.day, k, NewNode(days[t], visit))
          IN Commit(t, ds, AdjacentOnly(ds, edges[t]))

\* DELETE_NODE: the transport at its ends goes, and what no longer joins
\* neighbours.
DeleteNode(t) ==
    \E n \in NodeIds(days[t]) :
       LET ds == TakeNode(days[t], n)
       IN /\ ~NodeRow(days[t], n).actual
          /\ Commit(t, ds, AdjacentOnly(ds, edges[t] \ EndingAt(edges[t], n)))

\* MOVE_NODE within its day: a fact does not hold it there.
MoveWithinDay(t) ==
    \E n \in NodeIds(days[t]) :
       LET d == days[t][Place(days[t], n)[1]].id
       IN /\ d \notin OccupiedDays(edges[t])
          /\ \E k \in Slots(days[t], n, d) :
                LET ds == Moved(days[t], n, d, k)
                IN Commit(t, ds, AdjacentOnly(ds, edges[t]))

\* A slip: a fact does not hold a node on its day.
MoveAcrossDaysOfFacts(t) ==
    \E n \in NodeIds(days[t]), d \in DayIds(days[t]) \ OccupiedDays(edges[t]) :
       /\ ~SameDay(days[t], n, d)
       /\ \E k \in Slots(days[t], n, d) :
             LET ds == Moved(days[t], n, d, k)
             IN Commit(t, ds, AdjacentOnly(ds, edges[t]))

\* MOVE_NODE to another day the trip has.
MoveAcrossDays(t) ==
    \E n \in NodeIds(days[t]), d \in DayIds(days[t]) \ OccupiedDays(edges[t]) :
       /\ ~SameDay(days[t], n, d)
       /\ ~NodeRow(days[t], n).actual
       /\ \E k \in Slots(days[t], n, d) :
             LET ds == Moved(days[t], n, d, k)
             IN Commit(t, ds, AdjacentOnly(ds, edges[t]))

\* The same request, or the move of an authoring command, when the rows are
\* shifted in an order that collides.
MoveFails(t) ==
    /\ \E n \in NodeIds(days[t]),
          d \in DayIds(days[t]) \ OccupiedDays(edges[t]) :
          /\ ~SameDay(days[t], n, d)
          /\ ~NodeRow(days[t], n).actual
          /\ MoveMayFail(days[t], n, d)
    /\ answer' = "SERVER_ERROR"
    /\ UNCHANGED <<version, days, edges, range, ownership>>

\* REPLACE_PLACE.
ReplacePlace(t) ==
    \E n \in NodeIds(days[t]) :
       /\ NodeRow(days[t], n).visit
       /\ ~NodeRow(days[t], n).actual
       /\ Commit(t, days[t], edges[t] \ EndingAt(edges[t], n))

\* SET_MANUAL_TRANSPORT between two visits that follow each other, and
\* CLEAR_TRANSPORT.
SetManualTransport(t) ==
    \E m, n \in {x.id : x \in {y \in NodesOf(days[t]) : y.visit}} :
       LET manual == [from |-> m, to |-> n, span |-> <<>>]
       IN /\ Neighbours(days[t], m, n)
          /\ Commit(t, days[t],
                    {e \in edges[t] : <<e.from, e.to>> # <<m, n>>}
                        \cup {manual})

ClearTransport(t) ==
    \E e \in edges[t] : Commit(t, days[t], edges[t] \ {e})

\* An ACTUAL value is recorded on a node (setTemporalValue).
RecordActual(t) ==
    \E n \in NodeIds(days[t]) :
       /\ ~NodeRow(days[t], n).actual
       /\ LET p == Place(days[t], n)
          IN days' = [days EXCEPT ![t][p[1]].nodes[p[2]].actual = TRUE]
       /\ version' = [version EXCEPT ![t] = @ + 1]
       /\ answer' = "SUCCESS"
       /\ UNCHANGED <<edges, range, ownership>>

\* A route that brings no stop of its own is adopted between two visits: its
\* transport takes the manual one's place and is projected onto every day from
\* the first visit's to the second's (createTransportDayProjections).
AdoptDirect(t) ==
    \E m, n \in {x.id : x \in {y \in NodesOf(days[t]) : y.visit}} :
       LET ds == days[t]
           at == {e \in edges[t] : <<e.from, e.to>> = <<m, n>>}
           first == Place(ds, m)[1]
           last  == Place(ds, n)[1]
           span  == [i \in 1..(last + 1 - first) |-> ds[first + i - 1].id]
       IN /\ Neighbours(ds, m, n)
          /\ \A e \in at : e.span = <<>>
          /\ Commit(t, ds, (edges[t] \ at)
                               \cup {[from |-> m, to |-> n, span |-> span]})

(***************************************************************************)
(* Authoring (executeAuthoringCommand): the same additions and moves, but  *)
(* refused when they would take transport away, take an end of it to       *)
(* another day or move a node past one that was executed                   *)
(* (resolveTripAuthoringImpact).                                           *)
(***************************************************************************)
DayOf(ds, n) == ds[Place(ds, n)[1]].id

KeepsTransport(before, after, es) ==
    \A e \in es : /\ Neighbours(after, e.from, e.to)
                  /\ \A n \in {e.from, e.to} :
                        DayOf(before, n) = DayOf(after, n)

KeepsExecutedOrder(before, after, n) ==
    \A x \in NodesOf(before) :
        x.actual => (Before(before, x.id, n) <=> Before(after, x.id, n))

AuthorAdd(t) ==
    /\ Cardinality(NodeIds(days[t])) < MaxNodes
    /\ \E g \in Targets(days[t], edges[t]), visit \in BOOLEAN :
       \E k \in 1..(Len(g.ds[DayIndex(g.ds, g.day)].nodes) + 1) :
          LET ds == PutNode(g.ds, g.day, k, NewNode(days[t], visit))
          IN /\ KeepsTransport(days[t], ds, edges[t])
             /\ Commit(t, ds, edges[t])

AuthorMove(t) ==
    \E n \in NodeIds(days[t]), g \in Targets(days[t], edges[t]) :
       /\ ~NodeRow(days[t], n).actual
       /\ \E k \in Slots(g.ds, n, g.day) :
             LET ds == Moved(g.ds, n, g.day, k)
             IN /\ KeepsTransport(days[t], ds, edges[t])
                /\ KeepsExecutedOrder(days[t], ds, n)
                /\ Commit(t, ds, edges[t])

(***************************************************************************)
(* Specification.                                                          *)
(***************************************************************************)
\* The trip with counts[d] visits on date d and nothing on any other: as adding
\* them leaves it.
Planned(counts) ==
    LET Visits(d) == [k \in 1..counts[d] |->
            [id |-> (k - 1) * Len(counts) + d, visit |-> TRUE, actual |-> FALSE]]
    IN Trimmed([d \in DOMAIN counts |->
                  [id |-> d, date |-> d, nodes |-> Visits(d)]], {})

\* No date belongs to two trips.
ASSUME GivenAssumption ==
    \A g \in Given :
        /\ g \in [Trips -> Seq(Nat)]
        /\ \A t \in Trips : Len(g[t]) <= MaxDate
        /\ \A t, u \in Trips : t # u =>
              DatesIn(RangeOfDays(Planned(g[t]))) \cap DatesIn(RangeOfDays(Planned(g[u]))) = {}

Init ==
    /\ \E g \in Given : days = [t \in Trips |-> Planned(g[t])]
    /\ version = [t \in Trips |-> 1]
    /\ edges = [t \in Trips |-> {}]
    /\ range = [t \in Trips |-> RangeOfDays(days[t])]
    /\ ownership = [d \in UNION {DatesIn(range[t]) : t \in Trips} |->
                      CHOOSE t \in Trips : d \in DatesIn(range[t])]
    /\ answer = "SUCCESS"

Next ==
    /\ Changes < MaxChanges
    /\ \E t \in Trips :
        \/ AddNode(t) \/ DeleteNode(t)
        \/ MoveWithinDay(t) \/ MoveAcrossDays(t) \/ MoveFails(t)
        \/ ReplacePlace(t) \/ SetManualTransport(t) \/ ClearTransport(t)
        \/ RecordActual(t) \/ AdoptDirect(t)
        \/ AuthorAdd(t) \/ AuthorMove(t)

Spec == Init /\ [][Next]_vars

-----------------------------------------------------------------------------
\* The dates a trip owns are exactly those of its effective range, and its
\* first and last day have content: no date of a running trip is free for
\* another one, and none stays taken at its ends
\* (reconcileDateOwnership over any sequence of commands).
OwnsItsRange ==
    \A t \in Trips :
        /\ OwnedBy(ownership, t) = DatesIn(range[t])
        /\ range[t] = RangeOfDays(days[t])
        /\ days[t] # <<>> => /\ HasContent(Head(days[t]), edges[t])
                             /\ HasContent(Last(days[t]), edges[t])

\* Transport joins two visits that follow each other in the timeline, across
\* days, whatever was inserted, moved, deleted or trimmed around them.
TransportJoinsNeighbours ==
    \A t \in Trips : \A e \in edges[t] :
        /\ Neighbours(days[t], e.from, e.to)
        /\ NodeRow(days[t], e.from).visit /\ NodeRow(days[t], e.to).visit
        /\ \A f \in edges[t] : f.from = e.from => f = e

\* The days of a transport are days of the trip, and those it fills hold no node
\* (docs/status/P4B2.md:53), whatever was trimmed or split around it.
OccupiedDaysAreEmpty ==
    \A t \in Trips :
        /\ \A e \in edges[t] : Range(e.span) \subseteq DayIds(days[t])
        /\ \A i \in DOMAIN days[t] :
             days[t][i].id \in OccupiedDays(edges[t]) => days[t][i].nodes = <<>>

\* A node with an ACTUAL value is not deleted and keeps its day, and with it
\* the date its facts lie on.
FactsKeepTheirDay ==
    [][\A t \in Trips : \A i \in DOMAIN days[t] :
          \A n \in Range(days[t][i].nodes) :
             n.actual => \E j \in DOMAIN days'[t] :
                            /\ days'[t][j].id = days[t][i].id
                            /\ days'[t][j].date = days[t][i].date
                            /\ n \in Range(days'[t][j].nodes)]_vars

-----------------------------------------------------------------------------
(***************************************************************************)
(* What the days promise the calendar (module DateCalendar).               *)
(***************************************************************************)
Calendar == INSTANCE DateCalendar WITH
    span <- [t \in Trips |-> OwnedBy(ownership, t)]

CalendarSpec == Calendar!Spec
=============================================================================
