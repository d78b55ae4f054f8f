--------------------------- MODULE ExternalOrigin ---------------------------
(***************************************************************************)
(* A service that ends early sets the traveller down where the plan has no *)
(* stop (application/src/external-execution-origin-service.ts,             *)
(* external-origin-route-preview.ts, external-origin-route-query.ts; the   *)
(* persistence modules prisma-external-execution-origin-repository.ts,     *)
(* prisma-external-route-adoption.ts and prisma-route-undo.ts).            *)
(*                                                                         *)
(* The traveller confirms the stop they are at, an external origin; a      *)
(* route from it to the end of the interrupted route is queried, previewed *)
(* and adopted in place of the rest of that route, and may be undone.      *)
(* Reports of the provider, events and edits come between these steps.     *)
(*                                                                         *)
(* Abstractions.  Every transaction takes the owner's and the Trip's lock, *)
(* so each is one action; a confirmation is two, as it carries the time it *)
(* was asked at and the evidence that was shown.  Requests the code        *)
(* refuses, and replays from a receipt, change nothing and are no steps.   *)
(* The clock orders arrivals and events; evidence that expires, departures *)
(* gone by and the undo window only refuse, as does a leg whose arrival is *)
(* located, and are left out.  Structural commands and direct adoptions,   *)
(* which RoutePlan has, are left out, so a route owns its stretch of the   *)
(* line.  All nodes lie on one day.  Every report says either that the     *)
(* service runs as planned or that it ends at a hub before its stop.       *)
(***************************************************************************)
EXTENDS Naturals, Sequences, FiniteSets, SequencesExt, FiniteSetsExt

CONSTANTS
    Clients,      \* devices with a confirmation under way
    Hubs,         \* hubs of the provider that are not on the first route
    Interchange,  \* the hub at which the first route changes
    Offers,       \* routes a provider may offer: the hubs of their stops
    Skew,         \* how far ahead of the clock an event may be dated
    MaxVersion,   \* bound: Trip.version
    MaxTime,      \* bound: the clock
    MaxReports,   \* bound: reports of the provider
    MaxWorld      \* bound: versions made by anything but a confirmation, an adoption, an undo

ASSUME OriginAssumption ==
    /\ {Skew, MaxVersion, MaxTime, MaxReports, MaxWorld} \subseteq Nat
    /\ Interchange \notin Hubs
    /\ \A o \in Offers : o \in Seq(Hubs \cup {Interchange}) /\ IsInjective(o)

VARIABLES
    now,
    version,   \* Trip.version
    order,     \* the node ids, in the order of day and position
    node,      \* ItineraryNode rows
    edge,      \* TransportEdge rows
    route,     \* AdoptedRoute rows with the delta of their receipt
    report,    \* the latest observation of each leg; a leg outlives its edge
    origin,    \* ExternalExecutionOrigin rows
    events,    \* ExecutionEvent rows that are not undone: the ACTUAL times of nodes
    draft,     \* the last RouteCandidateSnapshot and RoutePreview of this version
    asked,     \* the confirmation each device has sent
    reports, world,
    was        \* auxiliary: the plan each adoption replaced

plan == <<order, node, edge, route, was>>
vars == <<now, version, plan, report, origin, events, draft, asked, reports, world>>

NoHub == "none"
AsPlanned == "as planned"
NoNode == <<>>
NoSummary == <<>>
NoDraft == [origin |-> 0, stops |-> <<>>, summary |-> NoSummary]
NoRequest == [edge |-> NoNode, seen |-> 0, hub |-> NoHub, basis |-> 0, at |-> 0]

Index(n) == CHOOSE i \in DOMAIN order : order[i] = n
Only(f, S) == [x \in S |-> f[x]]
Line == Range(order)

(***************************************************************************)
(* resolveExecutionFrontier                                                *)
(***************************************************************************)
Has(n, type) == \E e \in events : e.node = n /\ e.type = type
Executed == {n \in Line : Has(n, "ARRIVAL") \/ Has(n, "DEPARTURE")}
Open == {n \in Line : Has(n, "ARRIVAL") /\ ~Has(n, "DEPARTURE")}
Consistent == \A o \in Open : \A n \in Executed : Index(n) <= Index(o)
Target == {n \in Line : Index(n) = 1 + Max({Index(e) : e \in Executed} \cup {0})}

(***************************************************************************)
(* resolveExternalExecutionOriginCurrentness and                           *)
(* resolveExternalOriginRouteQueryAuthorization                            *)
(***************************************************************************)
Arrived == {i \in DOMAIN origin : origin[i].status = "ARRIVED"}

Overtaken(i) ==
    \/ \E j \in DOMAIN origin : origin[j].arrivedAt > origin[i].arrivedAt
    \/ \E e \in events : e.at > origin[i].arrivedAt

Currentness(i) ==
    CASE origin[i].status = "DEPARTED" -> "DEPARTED"
      [] origin[i].status = "INVALIDATED" -> "SUPERSEDED"
      [] ~Consistent \/ Cardinality(Arrived) > 1 -> "CONFLICT"
      [] Overtaken(i) -> "SUPERSEDED"
      [] OTHER -> "CURRENT"

Authorised(i) ==
    LET o == origin[i]
    IN /\ Currentness(i) = "CURRENT"
       /\ route[o.route].status = "ACTIVE"
       /\ o.edge \in DOMAIN edge
       /\ edge[o.edge].route = o.route

(***************************************************************************)
(* resolveExternalTransitHubIdentity: the hub of the latest report may be  *)
(* confirmed when the leg is one of an ACTIVE route and the hub is new to  *)
(* the plan.                                                               *)
(***************************************************************************)
Current(e) == e \in DOMAIN edge /\ route[edge[e].route].status = "ACTIVE"
ItineraryHubs == {node[n].hub : n \in Line}
Candidate(e) ==
    Current(e) /\ e \in DOMAIN report /\ report[e].hub \in Hubs \ ItineraryHubs

(***************************************************************************)
(* What an adoption would replace (resolveExternalOriginReplacementCorridor *)
(* and the part of buildChangeSummary that depends on the plan).           *)
(***************************************************************************)
Divergence(e) == Index(edge[e].from)
End(e) == Index(route[edge[e].route].to)
Inner(e) == Range(SubSeq(order, Divergence(e) + 1, End(e) - 1))
SuffixEdges(e) == {f \in DOMAIN edge : /\ edge[f].route = edge[e].route
                                       /\ Index(edge[f].from) >= Divergence(e)}

\* generatedNodeProtectionReasons
Protected(n) == node[n].touched \/ n \in Executed

Reuse(inner, stops) ==
    [i \in DOMAIN stops |->
       LET there == {n \in inner : node[n].hub = stops[i]}
       IN IF there = {} THEN NoNode ELSE CHOOSE n \in there : TRUE]

Summary(i, stops) ==
    LET e == origin[i].edge
        reuse == Reuse(Inner(e), stops)
    IN [reuse |-> reuse,
        remove |-> Inner(e) \ Range(reuse),
        blocked |-> {n \in Inner(e) : Protected(n)},
        archivable |-> {f \in SuffixEdges(e) : edge[f].actual}]

(***************************************************************************)
(* The start: a traveller's two places, and a route between them with one  *)
(* change, both of whose legs are observed; the traveller has left.        *)
(***************************************************************************)
Place == [route |-> 0, hub |-> NoHub, touched |-> FALSE]
Stop(r, h) == [route |-> r, hub |-> h, touched |-> FALSE]
Leg(m, n, r) == [from |-> m, to |-> n, route |-> r, actual |-> FALSE]

Init ==
    /\ now = 0
    /\ version = 1
    /\ order = <<<<0, 1>>, <<0, 2>>, <<0, 3>>>>
    /\ node = [n \in Range(order) |-> IF n = <<0, 2>> THEN Stop(1, Interchange) ELSE Place]
    /\ edge = [e \in {<<0, 1>>, <<0, 2>>} |-> Leg(e, <<0, e[2] + 1>>, 1)]
    /\ route = <<[status |-> "ACTIVE", from |-> <<0, 1>>, to |-> <<0, 3>>, origin |-> 0,
                  replaces |-> 0, version |-> 0, edges |-> DOMAIN edge,
                  before |-> [order |-> <<>>, node |-> <<>>, edge |-> <<>>]]>>
    /\ report = <<>>
    /\ origin = <<>>
    /\ events = {[node |-> <<0, 1>>, type |-> type, at |-> 0, early |-> FALSE] :
                   type \in {"ARRIVAL", "DEPARTURE"}}
    /\ draft = NoDraft
    /\ asked = [c \in Clients |-> NoRequest]
    /\ reports = 0 /\ world = 0
    /\ was = <<<<>>>>

\* A snapshot or preview of an older version (basisVersion) is refused everywhere.
Advance ==
    /\ version < MaxVersion
    /\ version' = version + 1
    /\ draft' = NoDraft

Act == Advance /\ world < MaxWorld /\ world' = world + 1

(***************************************************************************)
(* Confirming and leaving an external origin                               *)
(* (ExternalExecutionOriginService, mutate).                               *)
(***************************************************************************)
\* The traveller was shown a candidate and confirms it.
Ask(c) ==
    /\ asked[c] = NoRequest
    /\ \E e \in {f \in DOMAIN report : Candidate(f)} :
         asked' = [asked EXCEPT ![c] =
                     [edge |-> e, seen |-> report[e].seq, hub |-> report[e].hub,
                      basis |-> version, at |-> now]]
    /\ UNCHANGED <<now, version, plan, report, origin, events, draft, reports, world>>

\* Mutant: the version is not compared (ConfirmedIsCurrent).
AskedOfAnyVersion(q) ==
    /\ Candidate(q.edge)
    /\ report[q.edge].seq = q.seen /\ report[q.edge].hub = q.hub

\* candidateRef and baseTripVersion
StillShown(q) ==
    /\ q.basis = version
    /\ Candidate(q.edge)
    /\ report[q.edge].seq = q.seen /\ report[q.edge].hub = q.hub

Invalidated(q) == [i \in DOMAIN origin |->
                     IF i \in Arrived THEN [origin[i] EXCEPT !.status = "INVALIDATED"]
                     ELSE origin[i]]

\* A confirmation that finds the facts changed is answered with a conflict.
Confirm(c) ==
    LET q == asked[c]
    IN /\ q # NoRequest
       /\ asked' = [asked EXCEPT ![c] = NoRequest]
       /\ IF /\ StillShown(q)
             /\ \A i \in Arrived : Currentness(i) = "SUPERSEDED" /\ q.at >= origin[i].arrivedAt
          THEN /\ origin' = Append(Invalidated(q),
                   [status |-> "ARRIVED", arrivedAt |-> q.at, edge |-> q.edge,
                    route |-> edge[q.edge].route, hub |-> q.hub, seen |-> q.seen])
               /\ Advance
          ELSE UNCHANGED <<version, origin, draft>>
       /\ UNCHANGED <<now, plan, report, events, reports, world>>

Depart(i) ==
    /\ origin[i].status = "ARRIVED" /\ now >= origin[i].arrivedAt
    /\ origin' = [origin EXCEPT ![i].status = "DEPARTED"]
    /\ Act
    /\ UNCHANGED <<now, plan, report, events, asked, reports>>

(***************************************************************************)
(* Query and preview (queryExternalOriginRoutes,                           *)
(* buildExternalOriginPreviewPayload).                                     *)
(***************************************************************************)
Query(i, stops) ==
    /\ Authorised(i)
    /\ draft' = [origin |-> i, stops |-> stops, summary |-> NoSummary]
    /\ UNCHANGED <<now, version, plan, report, origin, events, asked, reports, world>>

Preview ==
    /\ draft # NoDraft
    /\ Authorised(draft.origin)
    /\ draft' = [draft EXCEPT !.summary = Summary(draft.origin, draft.stops)]
    /\ UNCHANGED <<now, version, plan, report, origin, events, asked, reports, world>>

(***************************************************************************)
(* Adoption (executeExternalRouteAdoption).                                *)
(***************************************************************************)
Adoptable ==
    /\ draft.summary # NoSummary
    /\ Authorised(draft.origin)
    /\ Summary(draft.origin, draft.stops) = draft.summary
    /\ draft.summary.blocked = {}

\* The origin becomes a node after the last one before the interrupted leg, with
\* no edge between them; the new stops, created or reused, follow it.
Adopt ==
    LET o == origin[draft.origin]
        r == o.route
        id == Len(route) + 1
        E == <<version, 0>>
        stops == [i \in DOMAIN draft.stops |->
                    IF draft.summary.reuse[i] = NoNode THEN <<version, i>>
                    ELSE draft.summary.reuse[i]]
        path == <<E>> \o stops \o <<route[r].to>>
        old == SuffixEdges(o.edge)
        new == {<<version, i>> : i \in 1..Len(path) - 1}
    IN /\ Adoptable
       /\ order' = SubSeq(order, 1, Divergence(o.edge)) \o <<E>> \o stops
                     \o SubSeq(order, End(o.edge), Len(order))
       /\ node' = [n \in (DOMAIN node \ draft.summary.remove) \cup Range(path) |->
                     CASE n = E -> Stop(id, o.hub)
                       [] n \in Range(stops) \ DOMAIN node -> Stop(id, draft.stops[n[2]])
                       [] n \in Range(stops) \cap DOMAIN node -> [node[n] EXCEPT !.route = id]
                       [] OTHER -> node[n]]
       /\ edge' = [e \in (DOMAIN edge \ old) \cup new |->
                     IF e \in new THEN Leg(path[e[2]], path[e[2] + 1], id) ELSE edge[e]]
       /\ route' = Append([route EXCEPT ![r].status = "REPLACED"],
                     [status |-> "ACTIVE", from |-> E, to |-> route[r].to,
                      origin |-> draft.origin, replaces |-> r, version |-> version + 1,
                      edges |-> new,
                      before |-> [order |-> order, node |-> Only(node, Inner(o.edge)),
                                  edge |-> Only(edge, old)]])
       /\ was' = Append(was, <<order, node, edge>>)
       /\ Advance
       /\ UNCHANGED <<now, report, origin, events, asked, reports, world>>

(***************************************************************************)
(* Undo (executeUndo, validateCurrentUndoState, validateV5Corridor).       *)
(***************************************************************************)
\* Mutant: the observations of the legs are not compared (ExecutionSurvives).
UndoableByVersion(r) ==
    /\ route[r].status = "ACTIVE" /\ route[r].origin # 0
    /\ route[r].version = version
    /\ \A n \in Line : node[n].route = r => ~Protected(n)

\* Nothing has happened since, nor to the legs of the route.
Undoable(r) ==
    /\ route[r].status = "ACTIVE" /\ route[r].origin # 0
    /\ route[r].version = version
    /\ \A n \in Line : node[n].route = r => ~Protected(n)
    /\ route[r].edges \cap DOMAIN report = {}

\* Mutant: the route that was replaced stays so (UndoReopensPlanning).
OnlyUndone(r) == [route EXCEPT ![r].status = "UNDONE"]

Reopened(r) == [route EXCEPT ![r].status = "UNDONE", ![route[r].replaces].status = "ACTIVE"]

Undo(r) ==
    LET before == route[r].before
        created == {n \in Line : node[n].route = r}
        kept == DOMAIN edge \ route[r].edges
    IN /\ Undoable(r)
       /\ order' = before.order
       /\ node' = [n \in (Line \ created) \cup DOMAIN before.node |->
                     IF n \in DOMAIN before.node THEN before.node[n] ELSE node[n]]
       /\ edge' = [e \in kept \cup DOMAIN before.edge |->
                     IF e \in kept THEN edge[e] ELSE before.edge[e]]
       /\ route' = Reopened(r)
       /\ Advance
       /\ UNCHANGED <<now, report, origin, events, asked, reports, world, was>>

(***************************************************************************)
(* The provider reports on a leg (commitObservation): the version moves    *)
(* only when times change.  `departed` writes the ACTUAL departure.        *)
(***************************************************************************)
\* Mutant: the times are written without a new version (PreviewStands).
SilentTimes(e, departed) ==
    /\ edge' = [edge EXCEPT ![e].actual = @ \/ departed]
    /\ UNCHANGED <<version, draft, world>>

Times(e, departed) ==
    /\ edge' = [edge EXCEPT ![e].actual = @ \/ departed]
    /\ \/ edge' = edge /\ UNCHANGED <<version, draft, world>>
       \/ Act

Report(e) ==
    /\ reports < MaxReports
    /\ reports' = reports + 1
    /\ Current(e)
    /\ \E hub \in Hubs \cup {AsPlanned}, departed \in BOOLEAN :
         /\ report' = [f \in DOMAIN report \cup {e} |->
                         IF f = e THEN [seq |-> reports + 1, hub |-> hub] ELSE report[f]]
         /\ Times(e, departed)
    /\ UNCHANGED <<now, order, node, route, was, origin, events, asked>>

(***************************************************************************)
(* Events the traveller confirms, and their correction                     *)
(* (commitManual, undoEvent); edits of a node.                             *)
(***************************************************************************)
\* `early` is whether the event was dated ahead of the clock.
Record(n, type) ==
    /\ Consistent
    /\ n \in IF type = "ARRIVAL" THEN Target ELSE Open
    /\ \E at \in 0..now + Skew :
         events' = events \cup {[node |-> n, type |-> type, at |-> at, early |-> at > now]}
    /\ Act
    /\ UNCHANGED <<now, plan, report, origin, asked, reports>>

Correct(e) ==
    /\ e.type = "ARRIVAL" => ~Has(e.node, "DEPARTURE")
    /\ events' = events \ {e}
    /\ Act
    /\ UNCHANGED <<now, plan, report, origin, asked, reports>>

\* The traveller's own change marks a generated node.
Edit(n) ==
    /\ node[n].route # 0
    /\ node' = [node EXCEPT ![n].touched = TRUE]
    /\ Act
    /\ UNCHANGED <<now, order, edge, route, was, report, origin, events, asked, reports>>

Tick ==
    /\ now < MaxTime
    /\ now' = now + 1
    /\ UNCHANGED <<version, plan, report, origin, events, draft, asked, reports, world>>

Next ==
    \/ \E c \in Clients : Ask(c) \/ Confirm(c)
    \/ \E i \in DOMAIN origin : Depart(i) \/ \E stops \in Offers : Query(i, stops)
    \/ Preview \/ Adopt \/ Tick
    \/ \E r \in DOMAIN route : Undo(r)
    \/ \E e \in DOMAIN edge : Report(e)
    \/ \E n \in Line : Edit(n) \/ \E type \in {"ARRIVAL", "DEPARTURE"} : Record(n, type)
    \/ \E e \in events : Correct(e)

Spec == Init /\ [][Next]_vars

(***************************************************************************)
(* Properties.                                                             *)
(***************************************************************************)
\* An origin that is confirmed rests on what the traveller was shown, still the
\* leg's latest report, and is the only open one; unless the recorded facts
\* contradict each other, or an event was dated ahead of the clock, it is current
\* and a route from it may be planned at once (mutate).
ConfirmedIsCurrent ==
    [][\A i \in DOMAIN origin' \ DOMAIN origin :
         /\ report'[origin'[i].edge].seq = origin'[i].seen
         /\ report'[origin'[i].edge].hub = origin'[i].hub
         /\ Arrived' = {i}
         /\ Consistent' /\ (\A e \in events' : ~e.early) => Authorised(i)']_vars

\* A preview of the trip's present version can be adopted as it was shown: its
\* origin still authorises it, and it would replace, keep and archive the same
\* (buildExternalOriginPreviewPayload, computed again under the locks).
PreviewStands ==
    draft.summary # NoSummary =>
      /\ Authorised(draft.origin)
      /\ Summary(draft.origin, draft.stops) = draft.summary

\* An undone adoption leaves the plan as it was before it, and the traveller where
\* they were: the origin is kept and a route from it may be planned again
\* (docs/status/P5E2-EXTERNAL-ORIGIN-ADOPT-UNDO.md).
UndoReopensPlanning ==
    [][\A r \in DOMAIN route : route[r].status = "ACTIVE" /\ route'[r].status = "UNDONE" =>
         /\ <<order, node, edge>>' = was[r]
         /\ origin' = origin
         /\ Authorised(route[r].origin)']_vars

\* Neither an adoption nor an undo loses what happened: the nodes with an event
\* stay in the plan, and a leg a report was received for is in the plan or among
\* what a route that was not undone replaced.
ExecutionSurvives ==
    /\ \A e \in events : e.node \in Line
    /\ \A e \in DOMAIN report :
         \/ e \in DOMAIN edge
         \/ \E r \in DOMAIN route : /\ route[r].status # "UNDONE"
                                    /\ e \in DOMAIN route[r].before.edge
=============================================================================
