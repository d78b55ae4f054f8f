----------------------------- MODULE RouteQuery -----------------------------
(***************************************************************************)
(* What a route query makes of the times of the place it starts from       *)
(* (domain/src/schedule-propagator.ts, schedule-evaluator.ts,              *)
(* planning-policy.ts and application/src/route-query-service.ts).         *)
(*                                                                         *)
(* The traveller's requirements, facts and estimates of one place become a *)
(* window for its arrival and one for its departure.  A query derives from *)
(* the departure's window when a route may start, looks a little further   *)
(* back, filters what the provider offers, weighs each candidate against   *)
(* the stay it leaves, and ranks them.                                     *)
(*                                                                         *)
(* The query writes nothing but its snapshots (module RoutePlan), so it is *)
(* an operator here, and the steps are the changes of its input.  They are *)
(* transactions under the locks of owner and trip.  What is absent is an   *)
(* empty set and what is present a set of one.                             *)
(*                                                                         *)
(* Abstractions.  Instants are small numbers.  A MIN_DWELL only relates    *)
(* the two windows of its own place, so places do not influence each other *)
(* and one is enough; what the destination's window leaves to the query is *)
(* a deadline.  The transport at the place runs to a timetable, since the  *)
(* PLANNED times of other transport are ignored; those of a route to be    *)
(* replaced are taken off before (evaluateRouteReplacementSchedule).       *)
(* Expired candidates and missed departures are not offered.  Walking time *)
(* breaks ties as transfers do and is left out.                            *)
(***************************************************************************)
EXTENDS Integers, Sequences, FiniteSets, FiniteSetsExt, SequencesExt

CONSTANTS
    Instants,    \* the instants requirements and values name
    Durations,   \* the stays required or suggested
    Lookback,    \* ROUTE_QUERY_LOOKBACK_SECONDS
    MaxFacts,    \* bound: requirements and values of the place at a time
    Requests     \* queries: hint, deadline and the candidates on offer

\* A fare is unknown or an amount in a currency, and the deadline none or one.
\* Answers in which candidates share an id are refused (route-query-service.ts:512).
RequestOK(r) ==
    /\ r.hint.at \in Nat
    /\ r.deadline \subseteq Nat /\ \A s, t \in r.deadline : s = t
    /\ IsFiniteSet(r.offered)
    /\ \A c \in r.offered :
          /\ {c.departure, c.arrival, c.transfers, c.id} \subseteq Nat
          /\ \A f, g \in c.fare : f = g /\ f.amount \in Nat
    /\ \A c, d \in r.offered : c.id = d.id => c = d

ASSUME QueryAssumption ==
    /\ Instants \subseteq Nat /\ Instants # {} /\ IsFiniteSet(Instants)
    /\ Durations \subseteq Nat \ {0} /\ Durations # {} /\ IsFiniteSet(Durations)
    /\ Lookback \in Nat /\ MaxFacts \in Nat
    /\ \A r \in Requests : RequestOK(r)

VARIABLES
    plan,        \* POINT_TIME intents and temporal values: slot -> instant
    stay,        \* the MIN_DWELL intent
    suggestion,  \* SystemDwellSuggestion
    request      \* the query the traveller will make

vars == <<plan, stay, suggestion, request>>

Points == {"ARRIVAL", "DEPARTURE"}
Operators == {"EXACT", "NOT_BEFORE", "NOT_AFTER"}
Layers == {"ACTUAL", "ESTIMATED", "PLANNED"}

\* One row each by unique indexes: what the user requires of a point, what is
\* known of it, and what is known of the vehicle that arrives or departs.
Slots == ({"USER"} \X Points \X Operators) \cup ({"NODE"} \X Points \X Layers)
            \cup ({"VEHICLE"} \X Points \X {"ACTUAL", "PLANNED"})

Later(S, T) == IF S \cup T = {} THEN {} ELSE {Max(S \cup T)}
Earlier(S, T) == IF S \cup T = {} THEN {} ELSE {Min(S \cup T)}

(***************************************************************************)
(* propagateScheduleBounds.  A bound is the set of its bases: the tightest *)
(* of what bounds the point on that side, all those of equal instant.      *)
(***************************************************************************)
Fixed(s) == s[3] \in {"EXACT", "ACTUAL"} \/ s[1] = "VEHICLE"
BoundsBelow(s) == Fixed(s) \/ s[3] = "NOT_BEFORE"
BoundsAbove(s) == Fixed(s) \/ s[3] = "NOT_AFTER"

Basis(s) == [at |-> plan[s], rule |-> s[1], refs |-> {s}]
Below(p) == {Basis(s) : s \in {q \in DOMAIN plan : q[2] = p /\ BoundsBelow(q)}}
Above(p) == {Basis(s) : s \in {q \in DOMAIN plan : q[2] = p /\ BoundsAbove(q)}}

Greatest(bases) == {b \in bases : \A c \in bases : c.at <= b.at}
Least(bases) == {b \in bases : \A c \in bases : c.at >= b.at}
At(bound) == {b.at : b \in bound}

\* derivedDwellBasis
ByDwell(rule, upstream, shift) ==
    {[at |-> t + shift, rule |-> rule,
      refs |-> {<<"USER", "STAY", "MIN_DWELL">>} \cup UNION {b.refs : b \in upstream}] : t \in At(upstream)}

\* The worklist holds one constraint, and what it tightens it does not read: a
\* second round changes nothing and the limit on relaxations is never met.
Forward == UNION {ByDwell("MIN_DWELL_FORWARD", Greatest(Below("ARRIVAL")), d) : d \in stay}
\* A slip: the stay is only carried forward.
BackwardForgotten == {}

Backward == UNION {ByDwell("MIN_DWELL_BACKWARD", Least(Above("DEPARTURE")), -d) : d \in stay}

\* A slip: an equal bound replaces the ones it should join.
EarliestReplaced(p) ==
    LET direct == Greatest(Below(p))
    IN IF p = "DEPARTURE" /\ \E b \in Forward : \A c \in direct : c.at <= b.at
       THEN Forward ELSE direct

Earliest(p) == Greatest(Below(p) \cup IF p = "DEPARTURE" THEN Forward ELSE {})
Latest(p) == Least(Above(p) \cup IF p = "ARRIVAL" THEN Backward ELSE {})

(***************************************************************************)
(* evaluateScheduleConstraints                                             *)
(***************************************************************************)
Clash(p, low, high) ==
    LET l == <<"USER", p, low>>  h == <<"USER", p, high>>
    IN IF {l, h} \subseteq DOMAIN plan /\ plan[l] > plan[h] THEN {l, h} ELSE {}

\* conflictingIntentIds
IntentsInConflict(p) ==
    Clash(p, "NOT_BEFORE", "NOT_AFTER") \cup Clash(p, "NOT_BEFORE", "EXACT")
        \cup Clash(p, "EXACT", "NOT_AFTER")

\* A conflict of windows that two intents alone explain is told once.
WindowsInConflict(p) ==
    /\ \E b \in Earliest(p), c \in Latest(p) : b.at > c.at
    /\ ~ UNION {b.refs : b \in Earliest(p) \cup Latest(p)} \subseteq IntentsInConflict(p)

Conflict == \E p \in Points : IntentsInConflict(p) # {} \/ WindowsInConflict(p)

\* projectPoint: what is taken for the time of a point, the best first.
Effective(p) ==
    LET best == <<<<"NODE", "ACTUAL">>, <<"VEHICLE", "ACTUAL">>, <<"NODE", "ESTIMATED">>,
                  <<"VEHICLE", "PLANNED">>, <<"NODE", "PLANNED">>>>
        known == {i \in DOMAIN best : <<best[i][1], p, best[i][2]>> \in DOMAIN plan}
    IN {[at |-> plan[<<best[i][1], p, best[i][2]>>], layer |-> best[i][2]] :
            i \in IF known = {} THEN {} ELSE {Min(known)}}

(***************************************************************************)
(* The window of the query.                                                *)
(***************************************************************************)
Arrival == {e.at : e \in Effective("ARRIVAL")}
Arrived == {e.at : e \in {f \in Effective("ARRIVAL") : f.layer = "ACTUAL"}}

PlanningStay == IF stay # {} THEN stay ELSE suggestion
PlanningStart ==
    Later(At(Earliest("DEPARTURE")),
          {t + d : t \in Arrival, d \in PlanningStay})

\* absoluteDepartureFloor
Floor ==
    Later(IF \E b \in Earliest("DEPARTURE") : b.rule # "MIN_DWELL_FORWARD"
          THEN At(Earliest("DEPARTURE")) ELSE {},
          Arrived)

\* expandRouteQueryStart
ExpandedStart ==
    IF PlanningStart = {} THEN Floor
    ELSE Later({t - Lookback : t \in PlanningStart}, Floor)

Hint(type) == IF request.hint.type = type THEN {request.hint.at} ELSE {}
StartOfQuery == Later(ExpandedStart, Hint("DEPART_AT"))
EndOfQuery == Earlier(request.deadline, Hint("ARRIVE_BY"))

\* Why a query is refused before the provider is asked, or that it is not.
Verdict ==
    IF Conflict THEN "CONSTRAINT_CONFLICT"
    ELSE IF StartOfQuery \cup EndOfQuery = {} THEN "ROUTE_QUERY_TIME_REQUIRED"
    ELSE IF \E s \in StartOfQuery, e \in EndOfQuery : s > e THEN "CONSTRAINT_CONFLICT"
    ELSE "ASKED"

\* validateRouteCandidate
Accepted ==
    {c \in request.offered : /\ \A s \in StartOfQuery : c.departure >= s
                             /\ \A e \in EndOfQuery : c.arrival <= e}

\* assessDwell, of the stay a candidate leaves.
Assess(c) ==
    IF Arrival = {} THEN "UNKNOWN"
    ELSE LET left == c.departure - Max(Arrival)
         IN IF left < 0 THEN "INFEASIBLE"
            ELSE IF \E d \in stay : left < d
                 THEN IF left = 0 THEN "INFEASIBLE" ELSE "USER_REQUIREMENT_VIOLATION"
                 ELSE IF \E d \in suggestion : left < d THEN "SOFT_DEVIATION" ELSE "NORMAL"

(***************************************************************************)
(* Ranking.  A comparator is the list of differences it looks at in turn.  *)
(***************************************************************************)
\* compareComparableFare; a fare is unknown or an amount in a currency.
FareDifference(l, r) ==
    IF \E f \in l.fare, g \in r.fare : f.currency = g.currency
    THEN Max({f.amount : f \in l.fare}) - Max({g.amount : g \in r.fare})
    ELSE 0

\* A slip: the last tie is left to the order of the input.
TiesLeftOpen(l, r) == <<FareDifference(l, r), l.transfers - r.transfers>>

FareThenTies(l, r) == <<FareDifference(l, r), l.transfers - r.transfers, l.id - r.id>>

\* primaryComparator, arriveByComparator and the order of the value pool.
EarlyFirst(l, r) == <<l.arrival - r.arrival>> \o FareThenTies(l, r)
LateFirst(l, r) ==
    <<r.departure - l.departure,
      (l.arrival - l.departure) - (r.arrival - r.departure)>> \o FareThenTies(l, r)
CheapFirst(l, r) == <<FareDifference(l, r)>> \o EarlyFirst(l, r)

Precedes(differences) ==
    \E i \in DOMAIN differences : /\ differences[i] < 0
                                  /\ \A j \in 1..(i - 1) : differences[j] = 0

\* What sorting a set may give.  A comparison of fares that skips the unknown
\* ones is not transitive; of such an order a sort promises no more than that
\* no neighbours stand the wrong way round.
Sorted(S, Compare(_, _)) ==
    {s \in SetToSeqs(S) :
        \A i \in 1..(Len(s) - 1) : ~ Precedes(Compare(s[i + 1], s[i]))}

TimeFrom(start, c) == IF c.arrival > start THEN c.arrival - start ELSE 0

\* The candidates that take at most 140 % of the first one's time and have a
\* known fare; nothing is chosen where their currencies differ.
ValuePool(S, first, start) ==
    LET pool == {c \in S : /\ c.fare # {}
                           /\ TimeFrom(start, c) * 10 <= TimeFrom(start, first) * 14}
    IN IF Cardinality({f.currency : f \in UNION {c.fare : c \in pool}}) = 1 THEN pool ELSE {}

\* rankRouteCandidates
RankDepartAt(S, start) ==
    UNION {
        LET first == byArrival[1]
            cheap == Sorted(ValuePool(S, first, start), CheapFirst)
        IN UNION {
            LET value == IF byFare = <<>> \/ byFare[1] = first THEN <<>> ELSE <<byFare[1]>>
            IN {<<first>> \o value \o rest :
                  rest \in Sorted(S \ ({first} \cup ToSet(value)), EarlyFirst)}
            : byFare \in cheap}
        : byArrival \in Sorted(S, EarlyFirst)}

\* rankArriveByCandidates
RankArriveBy(S) == Sorted(S, LateFirst)

\* availableStart
AvailableStart ==
    LET given == Later(PlanningStart, Hint("DEPART_AT"))
    IN IF given # {} THEN Max(given)
       ELSE IF Arrival # {} THEN Max(Arrival)
       ELSE IF StartOfQuery # {} THEN Max(StartOfQuery)
       ELSE Min({c.departure : c \in Accepted})

Rank(S) == IF request.hint.type = "ARRIVE_BY" THEN RankArriveBy(S)
           ELSE RankDepartAt(S, AvailableStart)

\* The answers the query may give: the candidates that need no consent, ranked,
\* before those that do.
NeedConsent == {c \in Accepted : Assess(c) = "USER_REQUIREMENT_VIOLATION"}
FullyFeasible == {c \in Accepted \ NeedConsent : Assess(c) # "INFEASIBLE"}

Answers ==
    IF Verdict # "ASKED" \/ Accepted = {} THEN {}
    ELSE IF FullyFeasible = {} THEN Rank(Accepted)
    ELSE IF NeedConsent = {} THEN Rank(FullyFeasible)
    ELSE {a \o b : a \in Rank(FullyFeasible), b \in Rank(NeedConsent)}

-----------------------------------------------------------------------------
(***************************************************************************)
(* Changes of the input.                                                   *)
(***************************************************************************)
Facts(p, s) == Cardinality(DOMAIN p) + Cardinality(s)

Init ==
    /\ plan = <<>>
    /\ stay = {} /\ suggestion = {}
    /\ request \in Requests

\* An upsert: one row by slot.
With(s, t) == [q \in DOMAIN plan \cup {s} |-> IF q = s THEN t ELSE plan[q]]

SetTimeIntent(p, op, t) ==
    /\ plan' = With(<<"USER", p, op>>, t)
    /\ Facts(plan', stay) <= MaxFacts
    /\ UNCHANGED <<stay, suggestion, request>>

RemoveTimeIntent(p, op) ==
    /\ <<"USER", p, op>> \in DOMAIN plan
    /\ plan' = [s \in DOMAIN plan \ {<<"USER", p, op>>} |-> plan[s]]
    /\ UNCHANGED <<stay, suggestion, request>>

SetMinDwell(d) ==
    /\ stay' = {d}
    /\ Facts(plan, stay') <= MaxFacts
    /\ UNCHANGED <<plan, suggestion, request>>

RemoveMinDwell ==
    /\ stay # {}
    /\ stay' = {}
    /\ UNCHANGED <<plan, suggestion, request>>

SetSystemDwellSuggestion(d) ==
    /\ suggestion' = {d}
    /\ UNCHANGED <<plan, stay, request>>

\* A value of a node or of the transport there; an ACTUAL is not overwritten.
SetTemporalValue(s, t) ==
    /\ s[1] # "USER"
    /\ s[3] = "ACTUAL" => s \notin DOMAIN plan
    /\ plan' = With(s, t)
    /\ Facts(plan', stay) <= MaxFacts
    /\ UNCHANGED <<stay, suggestion, request>>

Next ==
    \/ \E p \in Points, op \in Operators :
          \/ \E t \in Instants : SetTimeIntent(p, op, t)
          \/ RemoveTimeIntent(p, op)
    \/ \E d \in Durations : SetMinDwell(d) \/ SetSystemDwellSuggestion(d)
    \/ RemoveMinDwell
    \/ \E s \in Slots, t \in Instants : SetTemporalValue(s, t)

Spec == Init /\ [][Next]_vars

-----------------------------------------------------------------------------
(***************************************************************************)
(* Properties.                                                             *)
(***************************************************************************)
\* What the user requires and what is a fact, as it reads: whether the place
\* may be reached at a and left at d.
Possible(a, d) ==
    LET at(s) == IF s[2] = "ARRIVAL" THEN a ELSE d
    IN /\ \A s \in DOMAIN plan :
             CASE s[1] = "USER" /\ s[3] = "NOT_BEFORE" -> at(s) >= plan[s]
               [] s[1] = "USER" /\ s[3] = "NOT_AFTER" -> at(s) <= plan[s]
               [] s[3] \in {"EXACT", "ACTUAL"} \/ s[1] = "VEHICLE" -> at(s) = plan[s]
               [] OTHER -> TRUE
       /\ \A x \in stay : d - a >= x

\* Wide enough for every bound: one instant and one stay beyond all that is named.
Horizon == (-1 - Max(Durations))..(Max(Instants) + Max(Durations) + 1)
Solutions == {t \in Horizon \X Horizon : Possible(t[1], t[2])}

\* A conflict is reported exactly when the requirements and facts cannot all be
\* met, and otherwise each window runs from the first to the last instant that
\* meets them (docs/status/P3B2.md).
WindowsAreExact ==
    LET found == Solutions
        times(p) == {IF p = "ARRIVAL" THEN t[1] ELSE t[2] : t \in found}
    IN /\ Conflict <=> found = {}
       /\ ~ Conflict => \A p \in Points :
             /\ \A b \in Earliest(p) : b.at = Min(times(p))
             /\ \A b \in Latest(p) : b.at = Max(times(p))
             /\ Earliest(p) = {} => Min(times(p)) < Min(Instants)
             /\ Latest(p) = {} => Max(times(p)) > Max(Instants)

\* Looking back crosses no fact and no instant the user will not leave before
\* (docs/status/P5C.md:26).  Except where the required stay asks for a later
\* departure still, by less than the query looks back: there it does.
FloorHolds ==
    Verdict = "ASKED" =>
        \A c \in Accepted, s \in DOMAIN plan :
           \/ s[2] = "DEPARTURE" /\ s[3] = "NOT_AFTER"
           \/ s[1] = "NODE" /\ s[3] # "ACTUAL"
           \/ s[2] = "ARRIVAL" /\ s[3] # "ACTUAL"
           \/ plan[s] <= c.departure
           \/ /\ s = <<"USER", "DEPARTURE", "NOT_BEFORE">>
              /\ \E b \in Forward : plan[s] < b.at /\ b.at < plan[s] + Lookback

\* The ranking does not depend on the order the provider answers in
\* (planning-policy.test.ts:236), unless routes that arrive at one time have
\* fares that cannot be compared.
Comparable(l, r) ==
    {f.currency : f \in l.fare} = {f.currency : f \in r.fare}

RankingIsDeterministic ==
    (\A l, r \in Accepted : l.arrival = r.arrival => Comparable(l, r))
        => Cardinality(Answers) <= 1
=============================================================================
