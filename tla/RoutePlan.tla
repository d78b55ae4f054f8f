----------------------------- MODULE RoutePlan -----------------------------
(***************************************************************************)
(* The formal plan of one trip and the routes its owner adopts into it:    *)
(* route query and preview (application/src/route-query-service.ts,        *)
(* route-preview-service.ts), adoption and undo                            *)
(* (persistence/src/prisma-route-adoption.ts, prisma-route-undo.ts), the   *)
(* user's structural commands (prisma-trip-repository.ts) and the facts    *)
(* that execution and providers record against the plan.                   *)
(*                                                                         *)
(* Every one of these is a single transaction that first takes the owner's *)
(* advisory lock and then the Trip row, so each is one action.  What the   *)
(* interleavings are made of is the time between a request's reads and its *)
(* transaction: a snapshot or a preview taken at one version is still on   *)
(* disk at every later one, and any device may present it at any time, any *)
(* number of times.  A request the code refuses, and a replay answered     *)
(* from the stored receipt, changes nothing and is no step.  The clock     *)
(* (expired evidence, a departed fixed service, a closed undo window) only *)
(* ever refuses, so it is left out: a request refused for time is one that *)
(* was not made.                                                           *)
(*                                                                         *)
(* Abstractions.  All nodes lie on one day: a position is a place in       *)
(* `order` (days and date ownership are the subject of another module).    *)
(* A route candidate is the sequence of its transfer stops plus the way it *)
(* meets the plan after it (`impact`).  Row ids are <<version, index>>: no *)
(* id is ever issued twice.  The external-origin variants are left out.    *)
(***************************************************************************)
EXTENDS Naturals, Sequences, FiniteSets, SequencesExt

CONSTANTS
    Visits,        \* how many places the trip has at first
    Offers,        \* the candidates a provider may offer: stops and impact
    MaxVersion,    \* the trip's version stops here
    MaxSnapshots,  \* candidate snapshots kept that no route came of
    MaxEdits       \* versions made by anything but an adoption or an undo

ASSUME BoundsAssumption ==
    /\ Visits \in Nat \ {0} /\ MaxVersion \in Nat \ {0}
    /\ MaxSnapshots \in Nat /\ MaxEdits \in Nat
    /\ \A o \in Offers : /\ o.stops \in Seq(Range(o.stops))
                        /\ o.impact \in {"FITS", "SQUEEZES", "INFEASIBLE"}

VARIABLES
    version,    \* Trip.version
    order,      \* the node ids, in the order of day, position and id
    node,       \* ItineraryNode rows, with their ACTUAL values and MIN_DWELL
    edge,       \* TransportEdge rows
    history,    \* TransportEdgeHistory rows
    route,      \* AdoptedRoute rows
    receipt,    \* OperationReceipt rows, by the version they were made at
    snapshot,   \* RouteCandidateSnapshot rows
    preview,    \* RoutePreview rows
    planBefore  \* auxiliary: the plan each adoption started from

vars == <<version, order, node, edge, history, route, receipt, snapshot,
          preview, planBefore>>

NoNode == <<>>
NoCorridor == [scope |-> "NONE"]
UserStop == "user place"

\* f with x mapped to v.
With(f, x, v) == [y \in DOMAIN f \cup {x} |-> IF y = x THEN v ELSE f[y]]

UserNode(kind) ==
    [source |-> "USER_PLANNED", kind |-> kind, place |-> UserStop,
     route |-> 0, op |-> 0, touched |-> FALSE, dwell |-> 0, actual |-> {}]

GeneratedNode(stop, r) ==
    [source |-> "ROUTE_GENERATED", kind |-> "PLACE_VISIT", place |-> stop,
     route |-> r, op |-> r, touched |-> FALSE, dwell |-> 0, actual |-> {}]

Edge(id, m, n, r) ==
    [id |-> id, from |-> m, to |-> n, route |-> r, actual |-> FALSE,
     flight |-> FALSE]

\* A history row keeps the times; a FlightBinding goes with its edge.
Archived(e) == [e EXCEPT !.flight = FALSE]

Ids(es) == {e.id : e \in es}
Interior(path) == {path[i] : i \in 2..(Len(path) - 1)}
Pairs(path) == {<<path[i], path[i + 1]>> : i \in 1..(Len(path) - 1)}
PairOf(e) == <<e.from, e.to>>
ActiveRoutes == {r \in DOMAIN route : route[r].status = "ACTIVE"}

(***************************************************************************)
(* The corridor a route between two nodes would replace, or                *)
(* NoCorridor (resolveCurrentRouteReplacementCorridor).                    *)
(***************************************************************************)
Index(ord, n) == IF \E i \in DOMAIN ord : ord[i] = n
                 THEN CHOOSE i \in DOMAIN ord : ord[i] = n ELSE 0

\* The ACTIVE routes among rs that end at `to` and start no later than `from`.
RoutesEndingAt(ord, rs, from, to) ==
    {r \in rs : /\ r.to = to
                /\ Index(ord, r.from) \in 1..Index(ord, from)}

\* Two neighbours with no route over them and no adopted edge between them.
FreshCorridor(ord, es, from, to) ==
    LET between == {e \in es : PairOf(e) = <<from, to>>}
    IN IF /\ Index(ord, to) = Index(ord, from) + 1
          /\ Cardinality(between) <= 1
          /\ \A e \in between : e.route = 0
       THEN [scope |-> "FULL_CORRIDOR", source |-> 0, sourceFrom |-> from,
             path |-> <<from, to>>, edges |-> Ids(between),
             prefix |-> <<>>, prefixEdges |-> {}]
       ELSE NoCorridor

\* The part of the adopted route r from `from` to its end: r must still own
\* exactly the nodes and edges of its whole stretch.
RouteCorridor(ord, nd, es, r, from, to) ==
    LET start == Index(ord, r.from)
        path  == SubSeq(ord, start, Index(ord, to))
        own   == {e \in es : e.route = r.id}
        rest  == SubSeq(ord, Index(ord, from), Index(ord, to))
        kept  == IF from = r.from THEN <<>>
                 ELSE SubSeq(ord, start, Index(ord, from))
        EdgesOf(p) == {e.id : e \in {f \in own : PairOf(f) \in Pairs(p)}}
    IN IF /\ nd[r.from].kind = "PLACE_VISIT"
          /\ \A n \in Interior(path) : nd[n].route = r.id
          /\ \A n \in DOMAIN nd : nd[n].route = r.id => n \in Range(path)
          /\ {PairOf(e) : e \in own} = Pairs(path)
          /\ Cardinality({e \in es : PairOf(e) \in Pairs(path)})
               = Len(path) - 1
       THEN [scope |-> IF from = r.from THEN "FULL_CORRIDOR" ELSE "SUFFIX",
             source |-> r.id, sourceFrom |-> r.from,
             path |-> rest, edges |-> EdgesOf(rest),
             prefix |-> kept, prefixEdges |-> EdgesOf(kept)]
       ELSE NoCorridor

CorridorIn(ord, nd, es, rs, from, to) ==
    LET matches == RoutesEndingAt(ord, rs, from, to)
    IN IF \/ Index(ord, from) = 0 \/ Index(ord, to) <= Index(ord, from)
          \/ nd[from].kind # "PLACE_VISIT" \/ nd[to].kind # "PLACE_VISIT"
          \/ Cardinality(matches) > 1
       THEN NoCorridor
       ELSE IF matches = {} THEN FreshCorridor(ord, es, from, to)
       ELSE RouteCorridor(ord, nd, es, CHOOSE r \in matches : TRUE, from, to)

AnchorsOf(r) == [id |-> r, from |-> route[r].from, to |-> route[r].to]
Corridor(from, to) ==
    CorridorIn(order, node, edge, {AnchorsOf(r) : r \in ActiveRoutes}, from, to)

(***************************************************************************)
(* Execution: the node the traveller is known to be at, and whether it     *)
(* authorises replacing the rest of the route it lies on                   *)
(* (resolveExecutionFrontier, resolveConfirmedRouteExecutionOrigin).       *)
(***************************************************************************)
Executed == {n \in DOMAIN node : node[n].actual # {}}
Open     == {n \in DOMAIN node : node[n].actual = {"ARRIVAL"}}
Frontier == CHOOSE i \in 0..Len(order) :
               /\ i > 0 => order[i] \in Executed
               /\ \A n \in Executed : Index(order, n) <= i

ConsistentFrontier ==
    /\ Cardinality(Open) <= 1
    /\ \A n \in Open : Index(order, n) = Frontier

\* The traveller is confirmed at n, inside the corridor from `from` to `to`.
ConfirmedOrigin(n, from, to) ==
    /\ ConsistentFrontier
    /\ Open = {n}
    /\ Index(order, n) \in (Index(order, from) + 1)..(Index(order, to) - 1)

Authorised(c, from, to) ==
    c.scope = "SUFFIX" => ConfirmedOrigin(from, c.sourceFrom, to)

(***************************************************************************)
(* What a candidate would change (buildChangeSummary).                     *)
(***************************************************************************)
UserContent(n) == node[n].touched \/ node[n].dwell > 0

ProtectedNode(n) == UserContent(n) \/ node[n].actual # {}

\* Snapshots kept as evidence of a route that was adopted, whatever became of it.
Retained == {route[r].snapshot : r \in DOMAIN route}

Referenced(n) ==
    \/ \E r \in DOMAIN route : n \in {route[r].from, route[r].to}
    \/ \E s \in Retained : n \in {s.from, s.to}

\* Each stop takes the first generated node of the corridor at that place which
\* no earlier stop took.
Reuse(path, stops) ==
    [i \in DOMAIN stops |->
       LET there   == SelectSeq(SubSeq(path, 2, Len(path) - 1),
                                LAMBDA n : node[n].place = stops[i])
           earlier == Cardinality({j \in 1..(i - 1) : stops[j] = stops[i]})
       IN IF earlier < Len(there) THEN there[earlier + 1] ELSE NoNode]

Blocking(c, reused, removed) ==
    {n \in removed : ProtectedNode(n) \/ Referenced(n)}
      \cup {n \in reused : c.scope = "SUFFIX" /\ ProtectedNode(n)}

Summary(s, c) ==
    LET plan    == Reuse(c.path, s.stops)
        reused  == Range(plan) \ {NoNode}
        removed == Interior(c.path) \ reused
    IN [snapshot |-> s, corridor |-> c, plan |-> plan,
        reused |-> reused, remove |-> removed,
        blocked |-> Blocking(c, reused, removed),
        adjust |-> IF s.impact = "SQUEEZES" THEN {s.to} ELSE {}]

(***************************************************************************)
(* The start: a day of places with manual transport between some of them,  *)
(* some of it a bound flight; the traveller may have reached the first     *)
(* place, and the last has a minimum stay the user asked for.              *)
(***************************************************************************)
Init ==
    /\ version = 1
    /\ order = [i \in 1..Visits |-> <<0, i>>]
    /\ \E fact \in {{}, {"ARRIVAL"}} :
         node = [n \in Range(order) |->
                   [UserNode("PLACE_VISIT") EXCEPT
                      !.dwell = IF n = <<0, Visits>> THEN 2 ELSE 0,
                      !.actual = IF n = <<0, 1>> THEN fact ELSE {}]]
    /\ \E ps \in SUBSET Pairs(order), fs \in SUBSET Pairs(order) :
         edge = {[Edge(p[1], p[1], p[2], 0) EXCEPT !.flight = p \in fs] : p \in ps}
    /\ history = {}
    /\ route = <<>>
    /\ receipt = <<>>
    /\ snapshot = {}
    /\ preview = {}
    /\ planBefore = <<>>

Advance ==
    /\ version < MaxVersion
    /\ version' = version + 1

\* Any other change to the trip takes the same lock and makes a version too.
Edit ==
    /\ version - 1 - Cardinality(DOMAIN receipt) < MaxEdits
    /\ Advance

RouteRows == <<route, receipt, planBefore>>
Drafts == <<snapshot, preview>>

\* Drafts whose endpoints are deleted go with them (ON DELETE CASCADE).
DraftsWithout(gone) ==
    /\ snapshot' = {s \in snapshot : {s.from, s.to} \cap gone = {}}
    /\ preview' =
         {p \in preview : {p.snapshot.from, p.snapshot.to} \cap gone = {}}

(***************************************************************************)
(* Query and preview.  A preview is built from the trip as read at its     *)
(* basis version and stored only while the trip is still at it.            *)
(***************************************************************************)
Query(from, to, o) ==
    LET c == Corridor(from, to)
    IN /\ version < MaxVersion
       /\ Cardinality(snapshot \ Retained) < MaxSnapshots
       /\ c # NoCorridor
       /\ Authorised(c, from, to)
       /\ o.impact = "SQUEEZES" => node[to].dwell = 2
       /\ snapshot' = snapshot \cup
            {[basis |-> version, from |-> from, to |-> to,
              stops |-> o.stops, impact |-> o.impact]}
       /\ UNCHANGED <<version, order, node, edge, history, preview>>
       /\ UNCHANGED RouteRows

CreatePreview(s) ==
    LET c == Corridor(s.from, s.to)
    IN /\ version < MaxVersion
       /\ s.basis = version
       /\ c # NoCorridor
       /\ preview' = preview \cup {Summary(s, c)}
       /\ UNCHANGED <<version, order, node, edge, history, snapshot>>
       /\ UNCHANGED RouteRows

(***************************************************************************)
(* Adoption (executeAdoption).                                             *)
(***************************************************************************)
\* validateCurrentCorridor: the corridor is the previewed one, and its inner
\* nodes are exactly the ones the plan reuses or removes, each once.
CorridorStands(p) ==
    /\ Corridor(p.snapshot.from, p.snapshot.to) = p.corridor
    /\ p.reused \cap p.remove = {}
    /\ \A i, j \in DOMAIN p.plan :
         p.plan[i] = p.plan[j] /\ p.plan[i] # NoNode => i = j
    /\ p.reused \cup p.remove = Interior(p.corridor.path)

OldEdges(p) == {e \in edge : e.id \in p.corridor.edges}

\* The nodes of the new route, in order: reused where planned, else created.
RouteNodes(p) ==
    [i \in DOMAIN p.plan |->
       IF p.plan[i] = NoNode THEN <<version, i>> ELSE p.plan[i]]
Created(p) == Range(RouteNodes(p)) \ p.reused
NewPath(p) == <<p.snapshot.from>> \o RouteNodes(p) \o <<p.snapshot.to>>

\* A slip: a reused node keeps the operation that created it.
NewNodeSameOperation(p, n) ==
    IF n \in p.reused THEN [node[n] EXCEPT !.route = version]
    ELSE IF n \in p.adjust THEN [node[n] EXCEPT !.dwell = 1]
    ELSE IF n \in DOMAIN node THEN node[n]
    ELSE GeneratedNode(p.snapshot.stops[n[2]], version)

\* The corridor's generated nodes and edges are free to be replaced.
ContentReplaceable(p) ==
    /\ \A n \in Interior(p.corridor.path) : ~ProtectedNode(n)
    /\ \A n \in p.remove : ~Referenced(n)
    /\ \A e \in OldEdges(p) : ~e.actual

AdjustmentsStand(p) == \A n \in p.adjust : n \in DOMAIN node /\ node[n].dwell = 2

\* One row per evaluation of a preview may be adopted (sourcePreviewId).
Adoption(p) ==
    /\ p.snapshot.basis = version
    /\ p.blocked = {}
    /\ CorridorStands(p)
    /\ ContentReplaceable(p)
    /\ AdjustmentsStand(p)
    /\ Authorised(p.corridor, p.snapshot.from, p.snapshot.to)

\* rewriteOccurrenceAndNodeOrder: the route's nodes follow its origin; every
\* inner node of the corridor is one of them or gone.
NewOrder(p) ==
    SubSeq(order, 1, Index(order, p.snapshot.from)) \o RouteNodes(p)
      \o SubSeq(order, Index(order, p.snapshot.to), Len(order))

\* resolveGeneratedNodes: a reused node changes its route and operation.
NewNode(p, n) ==
    IF n \in p.reused THEN [node[n] EXCEPT !.route = version, !.op = version]
    ELSE IF n \in p.adjust THEN [node[n] EXCEPT !.dwell = 1]
    ELSE IF n \in DOMAIN node THEN node[n]
    ELSE GeneratedNode(p.snapshot.stops[n[2]], version)

\* createAdoptedCandidateEdges: one edge per pair of neighbours on the route.
NewEdges(p) ==
    {Edge(<<version, i>>, NewPath(p)[i], NewPath(p)[i + 1], version) :
       i \in 1..(Len(NewPath(p)) - 1)}

\* hashPreservedRoutePrefix: what undo will compare the kept prefix with.
PrefixState(ns, es) ==
    [nodes |-> {<<n, node[n]>> : n \in Range(ns) \cap DOMAIN node},
     edges |-> {e \in edge : e.id \in es}]

Delta(p) ==
    [created     |-> Created(p),
     reused      |-> p.reused,
     removed     |-> p.remove,
     order       |-> order,
     generated   |-> [n \in Interior(p.corridor.path) |-> node[n]],
     edges       |-> Ids(NewEdges(p)),
     archived    |-> p.corridor.edges,
     beforePath  |-> p.corridor.path,
     afterPath   |-> NewPath(p),
     previous    |-> p.corridor.source,
     corridor    |-> p.corridor,
     prefix      |-> PrefixState(p.corridor.prefix, p.corridor.prefixEdges),
     adjusted    |-> p.adjust]

\* The plan, with what is bound to a flight in it.
Plan == [order |-> order, node |-> node, edge |-> {Archived(e) : e \in edge},
         history |-> history, active |-> ActiveRoutes,
         flights |-> {e.id : e \in {f \in edge : f.flight}}]

\* The route being replaced leaves the ACTIVE ones.
Superseded(p) ==
    [r \in DOMAIN route |->
       IF r = p.corridor.source THEN [route[r] EXCEPT !.status = "REPLACED"]
       ELSE route[r]]

Adopt(p) ==
    /\ Advance
    /\ Adoption(p)
    /\ order' = NewOrder(p)
    /\ node' = [n \in (DOMAIN node \ p.remove) \cup Created(p) |-> NewNode(p, n)]
    /\ edge' = (edge \ OldEdges(p)) \cup NewEdges(p)
    /\ history' = history \cup {Archived(e) : e \in OldEdges(p)}
    /\ route' = With(Superseded(p), version,
                     [from |-> p.snapshot.from, to |-> p.snapshot.to,
                      status |-> "ACTIVE", snapshot |-> p.snapshot])
    /\ receipt' = With(receipt, version, [type |-> "ROUTE_ADOPT", delta |-> Delta(p)])
    /\ planBefore' = With(planBefore, version, Plan)
    /\ DraftsWithout(p.remove)

(***************************************************************************)
(* Undo (executeUndo): compensation of the adoption made at version t.     *)
(***************************************************************************)
Undoable(t) ==
    /\ t \in DOMAIN receipt
    /\ receipt[t].type = "ROUTE_ADOPT"
    /\ version = t + 1

\* The order is the one adoption left.
OrderStands(r, d) ==
    LET from == Index(order, route[r].from)
        to   == Index(order, route[r].to)
    IN /\ from > 0 /\ to > from
       /\ SubSeq(order, from, to) = d.afterPath
       /\ Range(order) = (Range(d.order) \ d.removed) \cup d.created

\* Created nodes are untouched and nothing refers to them; reused ones are
\* untouched.
NodesStand(r, d) ==
    /\ \A n \in d.created \cup d.reused :
         n \in DOMAIN node /\ node[n].route = r /\ node[n].op = r
           /\ ~ProtectedNode(n)
    /\ \A n \in d.created :
         /\ \A s \in snapshot : n \notin {s.from, s.to}
         /\ \A q \in DOMAIN route : n \notin {route[q].from, route[q].to}

\* Created edges carry nothing but planned times of the adoption, and the
\* archived ones are still there to be restored.
EdgesStand(r, d) ==
    LET created == {e \in edge : e.id \in d.edges}
    IN /\ Ids(created) = d.edges
       /\ \A e \in created : e.route = r /\ ~e.actual /\ ~e.flight
       /\ {PairOf(e) : e \in created} = Pairs(d.afterPath)
       /\ d.archived \subseteq Ids(history)

Histories(d) == {e \in history : e.id \in d.archived}

\* validateV4Corridor: the corridor replaced and the one it became.
SuffixStands(r, d) ==
    LET here   == route[r]
        before == SubSeq(d.corridor.prefix, 1, Len(d.corridor.prefix) - 1)
                    \o d.beforePath
        old    == [n \in Range(before) |->
                     IF n \in DOMAIN d.generated THEN d.generated[n] ELSE node[n]]
        after  == CorridorIn(order, node, edge, {AnchorsOf(r)}, here.from, here.to)
    IN /\ after # NoCorridor
       /\ after.path = d.afterPath
       /\ after.edges = d.edges
       /\ PrefixState(d.corridor.prefix, d.corridor.prefixEdges) = d.prefix
       /\ \A e \in Histories(d) : e.route = d.previous
       /\ CorridorIn(before, old,
                     {e \in edge : e.id \in d.corridor.prefixEdges}
                       \cup Histories(d),
                     {AnchorsOf(d.previous)}, here.from, here.to) = d.corridor

\* validateCurrentUndoState.
UndoStateStands(r, d) ==
    /\ route[r].status = "ACTIVE"
    /\ \A n \in d.adjusted : n \in DOMAIN node /\ node[n].dwell = 1
    /\ OrderStands(r, d)
    /\ NodesStand(r, d)
    /\ EdgesStand(r, d)
    /\ d.previous # 0 =>
         /\ route[d.previous].status = "REPLACED"
         /\ route[d.previous].from = d.corridor.sourceFrom
         /\ route[d.previous].to = route[r].to
         /\ d.corridor.scope = "SUFFIX" => SuffixStands(r, d)

\* Slips: only deleted nodes are restored; the stay is not given back.
RestoredNodeIfMissing(d, n) ==
    IF n \notin DOMAIN node THEN d.generated[n]
    ELSE IF n \in d.adjusted THEN [node[n] EXCEPT !.dwell = 2]
    ELSE node[n]
RestoredNodeDwellKept(d, n) ==
    IF n \in DOMAIN d.generated THEN d.generated[n] ELSE node[n]

\* restoreGeneratedNodes and the dwell times given back.
RestoredNode(d, n) ==
    IF n \in DOMAIN d.generated THEN d.generated[n]
    ELSE IF n \in d.adjusted THEN [node[n] EXCEPT !.dwell = 2]
    ELSE node[n]

Undo(t) ==
    /\ Advance
    /\ Undoable(t)
    /\ LET d == receipt[t].delta
       IN /\ UndoStateStands(t, d)
          /\ order' = d.order
          /\ node' = [n \in Range(d.order) |-> RestoredNode(d, n)]
          /\ edge' = {e \in edge : e.id \notin d.edges} \cup Histories(d)
          /\ history' = history \ Histories(d)
          /\ route' = [r \in DOMAIN route |->
                         IF r = t THEN [route[r] EXCEPT !.status = "UNDONE"]
                         ELSE IF r = d.previous
                         THEN [route[r] EXCEPT !.status = "ACTIVE"]
                         ELSE route[r]]
          /\ receipt' = With(receipt, version, [type |-> "ROUTE_UNDO", target |-> t])
          /\ DraftsWithout(d.created)
    /\ UNCHANGED planBefore

(***************************************************************************)
(* The user's commands (applyCommand).                                     *)
(***************************************************************************)
\* The order becomes ord; edges that no longer join neighbours are archived
\* (archiveNonAdjacentTransports).
Reorder(ord) ==
    LET kept == {e \in edge : PairOf(e) \in Pairs(ord)}
    IN /\ order' = ord
       /\ edge' = kept
       /\ history' = history \cup {Archived(e) : e \in edge \ kept}

ArchiveEdges(es) ==
    /\ edge' = edge \ es
    /\ history' = history \cup {Archived(e) : e \in es}

\* A user's change to a generated node makes it the user's own.
Touch(n) == [node[n] EXCEPT !.touched = node[n].source = "ROUTE_GENERATED"]

InsertNode(kind, i) ==
    /\ Edit
    /\ Reorder(InsertAt(order, i, <<version, 1>>))
    /\ node' = With(node, <<version, 1>>, UserNode(kind))
    /\ UNCHANGED RouteRows /\ UNCHANGED Drafts

\* An executed node is kept, and so is a route's anchor (ON DELETE RESTRICT).
DeleteNode(n) ==
    /\ Edit
    /\ node[n].actual = {}
    /\ ~Referenced(n)
    /\ Reorder(RemoveAt(order, Index(order, n)))
    /\ node' = [m \in DOMAIN node \ {n} |-> node[m]]
    /\ DraftsWithout({n})
    /\ UNCHANGED RouteRows

MoveNode(n, i) ==
    /\ Edit
    /\ Reorder(InsertAt(RemoveAt(order, Index(order, n)), i, n))
    /\ node' = [node EXCEPT ![n] = Touch(n)]
    /\ UNCHANGED RouteRows /\ UNCHANGED Drafts

ReplacePlace(n) ==
    /\ Edit
    /\ node[n].kind = "PLACE_VISIT"
    /\ node[n].actual = {}
    /\ ArchiveEdges({e \in edge : n \in {e.from, e.to}})
    /\ node' = [node EXCEPT ![n] = Touch(n)]
    /\ UNCHANGED order /\ UNCHANGED RouteRows /\ UNCHANGED Drafts

SetNodeNote(n) ==
    /\ Edit
    /\ node' = [node EXCEPT ![n] = Touch(n)]
    /\ UNCHANGED <<order, edge, history>>
    /\ UNCHANGED RouteRows /\ UNCHANGED Drafts

\* SET_MIN_DWELL, and REMOVE_MIN_DWELL as a stay of 0.
SetMinDwell(n, d) ==
    /\ Edit
    /\ d = 0 => node[n].dwell > 0
    /\ node' = [node EXCEPT ![n].dwell = d]
    /\ UNCHANGED <<order, edge, history>>
    /\ UNCHANGED RouteRows /\ UNCHANGED Drafts

SetManualTransport(p) ==
    LET old == {e \in edge : PairOf(e) = p}
    IN /\ Edit
       /\ node[p[1]].kind = "PLACE_VISIT" /\ node[p[2]].kind = "PLACE_VISIT"
       /\ edge' = (edge \ old) \cup {Edge(<<version, 1>>, p[1], p[2], 0)}
       /\ history' = history \cup {Archived(e) : e \in old}
       /\ UNCHANGED <<order, node>> /\ UNCHANGED RouteRows /\ UNCHANGED Drafts

ClearTransport(e) ==
    /\ Edit
    /\ ArchiveEdges({e})
    /\ UNCHANGED <<order, node>> /\ UNCHANGED RouteRows /\ UNCHANGED Drafts

(***************************************************************************)
(* Facts.                                                                  *)
(***************************************************************************)
RecordAt(n, actual) ==
    /\ Edit
    /\ node' = [node EXCEPT ![n].actual = actual]
    /\ UNCHANGED <<order, edge, history>>
    /\ UNCHANGED RouteRows /\ UNCHANGED Drafts

\* The next place by hand, at any time; a later one by location, when the
\* traveller is at none.
Arrive(n) ==
    /\ ConsistentFrontier
    /\ \/ Index(order, n) = Frontier + 1
       \/ Open = {} /\ Index(order, n) > Frontier
    /\ RecordAt(n, {"ARRIVAL"})

Depart(n) ==
    /\ ConsistentFrontier
    /\ Open = {n}
    /\ RecordAt(n, {"ARRIVAL", "DEPARTURE"})

\* The latest fact of a node is withdrawn: a departure before its arrival.
UndoEvent(n) ==
    /\ n \in Executed
    /\ RecordAt(n, IF n \in Open THEN {} ELSE {"ARRIVAL"})

ChangeEdge(e, now) ==
    /\ Edit
    /\ edge' = (edge \ {e}) \cup {now}
    /\ UNCHANGED <<order, node, history>>
    /\ UNCHANGED RouteRows /\ UNCHANGED Drafts

AdoptFlight(e) ==
    /\ ~e.flight /\ ~e.actual
    /\ ChangeEdge(e, [e EXCEPT !.flight = TRUE])

\* The provider reports that the flight has left or landed.
ObserveFlight(e) ==
    /\ e.flight /\ ~e.actual
    /\ ChangeEdge(e, [e EXCEPT !.actual = TRUE])

UserCommand ==
    \/ \E kind \in {"PLACE_VISIT", "FREE_ACTION"}, i \in 1..(Len(order) + 1) :
         InsertNode(kind, i)
    \/ \E n \in DOMAIN node : DeleteNode(n)
    \/ \E n \in DOMAIN node, i \in 1..Len(order) : MoveNode(n, i)
    \/ \E n \in DOMAIN node : ReplacePlace(n)
    \/ \E n \in DOMAIN node : SetNodeNote(n)
    \/ \E n \in DOMAIN node, d \in 0..2 : SetMinDwell(n, d)
    \/ \E p \in Pairs(order) : SetManualTransport(p)
    \/ \E e \in edge : ClearTransport(e)

Fact ==
    \/ \E n \in DOMAIN node : Arrive(n)
    \/ \E n \in DOMAIN node : Depart(n)
    \/ \E n \in DOMAIN node : UndoEvent(n)
    \/ \E e \in edge : AdoptFlight(e)
    \/ \E e \in edge : ObserveFlight(e)

Planning ==
    \/ \E from, to \in DOMAIN node, o \in Offers : Query(from, to, o)
    \/ \E s \in snapshot : CreatePreview(s)
    \/ \E p \in preview : Adopt(p)
    \/ \E t \in DOMAIN receipt : Undo(t)

Next == UserCommand \/ Fact \/ Planning

Spec == Init /\ [][Next]_vars
-----------------------------------------------------------------------------
(***************************************************************************)
(* Properties.                                                             *)
(***************************************************************************)
\* Every row refers to rows that exist, within the bounds.
TypeOK ==
    /\ version \in 1..MaxVersion
    /\ Range(order) = DOMAIN node
    /\ \A e \in edge : {e.from, e.to} \subseteq DOMAIN node
    /\ \A r \in DOMAIN route :
         /\ {route[r].from, route[r].to} \subseteq DOMAIN node
         /\ route[r].status \in {"ACTIVE", "REPLACED", "UNDONE"}
    /\ \A n \in DOMAIN node : node[n].route \in DOMAIN route \cup {0}

\* The day stays one line of places joined by transport: no place appears
\* twice, transport joins neighbours only, and no two neighbours are joined
\* twice, whatever was inserted, replaced, moved or undone
\* (assertCurrentAdjacency, archiveNonAdjacentTransports).
TimelineSound ==
    /\ IsInjective(order)
    /\ \A e \in edge : PairOf(e) \in Pairs(order)
    /\ \A e, f \in edge : PairOf(e) = PairOf(f) => e = f

\* At most one route is ACTIVE between two places (AdoptedRoute_active_corridor_key):
\* neither an adoption nor the reactivation of a replaced route meets the index.
OneActiveRoute ==
    \A r, q \in ActiveRoutes :
       route[r].from = route[q].from /\ route[r].to = route[q].to => r = q

\* An undone route leaves nothing behind: no node, no edge and no archived
\* edge is still its own.
NoTraceOfUndone ==
    \A r \in DOMAIN route : route[r].status = "UNDONE" =>
       /\ \A n \in DOMAIN node : node[n].route # r
       /\ \A e \in edge \cup history : e.route # r

\* The step undoes the adoption made at version t.
Undone(t) == route[t].status = "ACTIVE" /\ route'[t].status = "UNDONE"

WithoutFlights(plan) == [plan EXCEPT !.flights = {}]

\* Undo gives back the plan the adoption started from: the order, the nodes,
\* the edges and their history, and the route that was ACTIVE before
\* (executeUndo; docs/adr/0008).
UndoRestores ==
    [][\A t \in DOMAIN route :
         Undone(t) => WithoutFlights(Plan') = WithoutFlights(planBefore[t])]_vars

\* The latest adoption can be undone as long as nothing was queried from the
\* nodes it created: what adoption wrote passes every check undo makes.
UndoAvailable ==
    \A t \in DOMAIN receipt :
       /\ Undoable(t)
       /\ \A s \in snapshot : {s.from, s.to} \cap receipt[t].delta.created = {}
       => UndoStateStands(t, receipt[t].delta)

=============================================================================
