------------------------- MODULE ExecutionLocation -------------------------
(***************************************************************************)
(* Where the traveller is (application/src/execution-location-service.ts,  *)
(* persistence/src/prisma-execution-location-repository.ts,                *)
(* trip-assistance-natural-end.ts, domain/src/execution-location.ts and    *)
(* assistance-capability.ts).                                              *)
(*                                                                         *)
(* Positions reported by a phone, and arrivals, departures and skips the   *)
(* traveller confirms, become execution events with an ACTUAL time each;   *)
(* an event can be undone.  A request reads its context, decides, and      *)
(* commits in a transaction of its own; then, for the arrivals at an       *)
(* airport, it claims, calls and completes the flight's trigger.  Other    *)
(* requests, undos, pauses and edits come between these steps.             *)
(*                                                                         *)
(* Abstractions.  The nodes lie on a line; all have one arrival radius and *)
(* none lacks coordinates.  Samples whose motion contradicts an arrival    *)
(* are left out.  Risks are evaluated elsewhere (GroundTransit); that the  *)
(* evaluation fails is a request that ends there.                          *)
(***************************************************************************)
EXTENDS Naturals, Integers, Sequences, FiniteSets, FiniteSetsExt

CONSTANTS
    Procs,        \* requests at work at once
    Where,        \* the place of each node of the trip, in the order of the trip
    Places,       \* where a phone may be
    Radius,       \* arrivalRadius
    Hysteresis,   \* exitHysteresisMeters
    MinSamples,   \* minimumDepartureSamples
    Airports,     \* nodes a monitored flight departs from
    MaxStarts,    \* bound: requests
    MaxWorld      \* bound: what happens to the trip and to the requests meanwhile

Nodes == DOMAIN Where

ASSUME LocationAssumption ==
    /\ Where \in Seq(Int) /\ Places \subseteq Nat
    /\ {Radius, Hysteresis, MinSamples, MaxStarts, MaxWorld} \subseteq Nat
    /\ Airports \subseteq Nodes
    /\ IsFiniteSet(Procs)

VARIABLES
    capability,   \* LOCATION_ASSISTANCE and AUTO_RECORD: state and revision
    version,      \* Trip.version
    watermark,    \* ExecutionObservationWatermark: the last sample taken
    last,         \* ExecutionLocationState
    facts,        \* ACTUAL times of nodes, with the event they come from
    skips,        \* NodeExecutionState of each node, with the event it comes from
    suppressed,   \* nodes with an ExecutionArrivalSuppression
    events,       \* ExecutionEvent rows
    lapsed,       \* claims that are older than their lease
    sent,         \* the last sample the phone took
    starts, world,
    work          \* what each request is doing

trip == <<capability, version, watermark, last, facts, skips, suppressed, events>>
bounds == <<sent, starts, world>>
vars == <<trip, lapsed, bounds, work>>

Kinds == {"LOCATION_ASSISTANCE", "AUTO_RECORD"}
NoNode == 0
Vague == -1           \* the place of a sample that is too inaccurate
NoState == [current |-> NoNode, target |-> NoNode, place |-> Vague, outside |-> 0]
User == 0             \* the source of a time the traveller wrote into the trip

Context == [capability |-> capability, version |-> version, watermark |-> watermark,
            last |-> last, facts |-> facts, skips |-> skips, suppressed |-> suppressed]

Has(c, n, type) == \E f \in c.facts : f.node = n /\ f.type = type

(***************************************************************************)
(* resolveExecutionFrontier                                                *)
(***************************************************************************)
Open(c) == {n \in Nodes : Has(c, n, "ARRIVAL") /\ ~Has(c, n, "DEPARTURE")}
Executed(c) == {n \in Nodes : \/ c.skips[n].status = "SKIPPED"
                              \/ Has(c, n, "ARRIVAL") \/ Has(c, n, "DEPARTURE")}
Consistent(c) == \A o \in Open(c) : \A n \in Executed(c) : n <= o
CurrentNode(c) == Max(Open(c) \cup {NoNode})
TargetNode(c) ==
    LET later == {n \in Nodes : \A e \in Executed(c) : e < n}
    IN IF later = {} THEN NoNode ELSE Min(later)

\* isTripExecutionNaturallyComplete
Complete(c) == Consistent(c) /\ Executed(c) # {} /\ TargetNode(c) = NoNode

(***************************************************************************)
(* decideExecutionLocation                                                 *)
(***************************************************************************)
Distance(x, n) == IF x > Where[n] THEN x - Where[n] ELSE Where[n] - x
Away(x, n) == Distance(x, n) > Radius + Hysteresis

NoChange(state, released) ==
    [type |-> "NONE", node |-> NoNode, skipped |-> {}, state |-> state, released |-> released]

WhileOpen(c, x) ==
    LET current == CurrentNode(c)
        target == TargetNode(c)
        same == c.last.current = current /\ c.last.target = target
        nearer == /\ same /\ c.last.place # Vague
                  /\ Distance(x, current) > Distance(c.last.place, current)
                  /\ Distance(x, target) < Distance(c.last.place, target)
        outside == IF ~Away(x, current) THEN 0 ELSE 1 + IF same THEN c.last.outside ELSE 0
        state == [current |-> current, target |-> target, place |-> x, outside |-> outside]
        released == {n \in {target} \cap c.suppressed : Away(x, n)}
    IN IF Away(x, current) /\ nearer /\ outside >= MinSamples
       THEN [NoChange(state, released) EXCEPT !.type = "DEPARTURE", !.node = current]
       ELSE NoChange(state, released)

\* Mutant: an arrival may overlap a corrected one (CorrectionStands).
UnderWayOverlapping(c, x) ==
    LET target == TargetNode(c)
        state == [NoState EXCEPT !.target = target]
        candidates == {n \in Nodes \ c.suppressed : n >= target /\ Distance(x, n) <= Radius}
    IN IF Cardinality(candidates) # 1 THEN NoChange(state, {})
       ELSE [NoChange(state, {}) EXCEPT !.type = "ARRIVAL", !.node = Min(candidates)]

UnderWay(c, x) ==
    LET target == TargetNode(c)
        state == [NoState EXCEPT !.target = target]
        candidates == {n \in Nodes \ c.suppressed : n >= target /\ Distance(x, n) <= Radius}
        released == {target} \cap c.suppressed
    IN IF target \in c.suppressed /\ ~Away(x, target) THEN NoChange(state, {})
       ELSE IF Cardinality(candidates) # 1 THEN NoChange(state, released)
       ELSE [NoChange(state, released) EXCEPT
               !.type = "ARRIVAL", !.node = Min(candidates),
               !.skipped = {n \in target..Min(candidates) - 1 : c.skips[n].status = "NONE"}]

\* Mutant: an open node is no barrier (LocationFollowsOrder).
DecidesPastOpen(c, x) ==
    IF x = Vague \/ TargetNode(c) = NoNode
    THEN NoChange([NoState EXCEPT !.current = CurrentNode(c), !.target = TargetNode(c)], {})
    ELSE IF UnderWay(c, x).type # "NONE" \/ CurrentNode(c) = NoNode THEN UnderWay(c, x)
    ELSE WhileOpen(c, x)

decideExecutionLocation(c, x) ==
    IF x = Vague \/ TargetNode(c) = NoNode
    THEN NoChange([NoState EXCEPT !.current = CurrentNode(c), !.target = TargetNode(c)], {})
    ELSE IF CurrentNode(c) # NoNode THEN WhileOpen(c, x) ELSE UnderWay(c, x)

(***************************************************************************)
(* Permissions.                                                            *)
(***************************************************************************)
Permits(c) == c.capability["LOCATION_ASSISTANCE"].state = "ENABLED"
Records(c) == c.capability["AUTO_RECORD"].state = "ENABLED"

\* Mutant: only the permission to locate is compared (PermissionHolds).
LocatesAsExpected(c) ==
    /\ Permits(Context)
    /\ capability["LOCATION_ASSISTANCE"].revision = c.capability["LOCATION_ASSISTANCE"].revision

\* hasExpectedLocationCapabilities
AsExpected(c) ==
    /\ Permits(Context)
    /\ \A k \in Kinds : capability[k].revision = c.capability[k].revision
    /\ Records(Context) = Records(c)

\* stopTripAssistanceIfNaturallyComplete, after facts and skips have changed.
StopIfComplete(state) ==
    LET stopped == {k \in Kinds : capability[k].state \in {"ENABLED", "PAUSED"}}
    IN IF Complete([facts |-> facts', skips |-> skips'])
       THEN /\ capability' = [k \in Kinds |->
                 IF k \in stopped THEN [state |-> "STOPPED", revision |-> capability[k].revision + 1]
                 ELSE capability[k]]
            /\ last' = IF stopped # {} THEN NoState ELSE state
       ELSE capability' = capability /\ last' = state

(***************************************************************************)
(* Requests.                                                               *)
(***************************************************************************)
Nothing == [capability |-> [k \in Kinds |-> [state |-> "STOPPED", revision |-> 0]],
            version |-> 0, watermark |-> 0, last |-> NoState, facts |-> {},
            skips |-> [n \in Nodes |-> [status |-> "NONE", by |-> User]], suppressed |-> {}]
Idle == [pc |-> "idle", at |-> 0, place |-> Vague, type |-> "NONE", node |-> NoNode,
         context |-> Nothing, todo |-> {}, token |-> 0, tries |-> 0]

Init ==
    /\ capability = [k \in Kinds |-> [state |-> "ENABLED", revision |-> 1]]
    /\ version = 1
    /\ watermark = 0
    /\ last = NoState
    /\ facts = {}
    /\ skips = [n \in Nodes |-> [status |-> "NONE", by |-> User]]
    /\ suppressed = {}
    /\ events = <<>>
    /\ lapsed = {}
    /\ sent = 0 /\ starts = 0 /\ world = 0
    /\ work = [p \in Procs |-> Idle]

Become(p, w) == work' = [work EXCEPT ![p] = w]
Finish(p) == Become(p, Idle)

\* Arrivals whose trigger is not completed, at nodes with a monitored flight.
Pending == {i \in DOMAIN events : /\ events[i].type = "ARRIVAL" /\ events[i].node \in Airports
                                  /\ ~events[i].undone /\ ~events[i].completed}
ActiveEvents(n, type) ==
    {i \in DOMAIN events : events[i].node = n /\ events[i].type = type /\ ~events[i].undone}

\* A new event, when it is an arrival at an airport.
Arrival(n, type) == IF type = "ARRIVAL" /\ n \in Airports THEN {Len(events) + 1} ELSE {}

\* afterMutation for the arrivals among these events.
TriggerAfter(p, c, ids) ==
    IF ids = {} THEN Finish(p)
    ELSE Become(p, [Idle EXCEPT !.pc = "trigger", !.todo = ids,
                                !.context = [Nothing EXCEPT !.capability = c.capability]])

\* A new position, or one sent again.
Sample(p) ==
    /\ work[p] = Idle
    /\ \E x \in Places \cup {Vague}, again \in BOOLEAN :
         /\ again => sent > 0 /\ x = Vague
         /\ sent' = IF again THEN sent ELSE sent + 1
         /\ Become(p, [Idle EXCEPT !.pc = "context", !.place = x, !.at = sent'])
    /\ UNCHANGED <<trip, lapsed>>

\* findOwnedContext and the decisions before a transaction.
ReadContext(p) ==
    /\ work[p].pc = "context"
    /\ IF ~Permits(Context) \/ ~Consistent(Context) \/ work[p].at < watermark
       THEN Finish(p)
       ELSE Become(p, [work[p] EXCEPT !.pc = IF work[p].at = watermark THEN "again" ELSE "observed",
                                      !.context = Context, !.todo = Pending])
    /\ UNCHANGED <<trip, lapsed, sent>>

\* VERSION_CONFLICT after the third attempt
Retry(p) ==
    IF work[p].tries = 2 THEN Finish(p)
    ELSE Become(p, [work[p] EXCEPT !.pc = "context", !.tries = @ + 1, !.context = Nothing,
                                   !.todo = {}])

\* validateLocationReplay
Replay(p) ==
    LET w == work[p]
    IN /\ w.pc = "again"
       /\ \/ ~AsExpected(w.context) /\ Finish(p)
          \/ AsExpected(w.context) /\ watermark # w.at /\ Retry(p)
          \/ /\ AsExpected(w.context) /\ watermark = w.at
             /\ IF Records(w.context) THEN TriggerAfter(p, w.context, w.todo) ELSE Finish(p)
       /\ UNCHANGED <<trip, lapsed, sent>>

NewEvent(n, type, source, at) ==
    [node |-> n, type |-> type, source |-> source, at |-> at, undone |-> FALSE,
     token |-> 0, completed |-> FALSE]

\* createFactEvent
CreateFact(n, type, source, at, skipped) ==
    /\ events' = Append(events, NewEvent(n, type, source, at))
    /\ facts' = facts \cup {[node |-> n, type |-> type, ref |-> Len(events) + 1]}
    /\ skips' = [k \in Nodes |-> IF k \in skipped
                                 THEN [status |-> "POSSIBLY_SKIPPED", by |-> Len(events) + 1]
                                 ELSE skips[k]]

\* Mutant: the latest sample is not compared (ObservedInOrder).
VersionUnchanged(p) == version = work[p].context.version

Unchanged(p) == version = work[p].context.version /\ watermark = work[p].context.watermark

\* commitLocation
CommitLocation(p) ==
    LET w == work[p]
        d == decideExecutionLocation(w.context, w.place)
        records == Records(w.context) /\ d.type # "NONE"
        standing == IF records THEN ActiveEvents(d.node, d.type) ELSE {}
        creates == records /\ standing = {}
        arrival == IF creates THEN Arrival(d.node, d.type) ELSE standing \cap Pending
    IN /\ w.pc = "observed"
       /\ \/ /\ ~AsExpected(w.context) /\ Finish(p)
             /\ UNCHANGED trip
          \/ /\ AsExpected(w.context) /\ ~Unchanged(p) /\ Retry(p)
             /\ UNCHANGED trip
          \/ /\ AsExpected(w.context) /\ Unchanged(p)
             /\ IF creates /\ Has(Context, d.node, d.type)
                THEN Finish(p) /\ UNCHANGED trip
                ELSE /\ suppressed' = suppressed \ d.released
                     /\ watermark' = w.at
                     /\ IF creates
                        THEN /\ CreateFact(d.node, d.type, "LOCATION", w.at, d.skipped)
                             /\ version' = version + 1
                             /\ StopIfComplete(d.state)
                        ELSE /\ last' = d.state
                             /\ UNCHANGED <<capability, version, facts, skips, events>>
                     /\ IF Records(w.context)
                        THEN TriggerAfter(p, w.context, w.todo \cup arrival)
                        ELSE Finish(p)
       /\ UNCHANGED <<lapsed, sent>>

\* createManualEvent: what the traveller may confirm.
Manual(p) ==
    /\ work[p] = Idle
    /\ Consistent(Context)
    /\ \E n \in Nodes, type \in {"ARRIVAL", "DEPARTURE", "SKIP_CONFIRMED"} :
         /\ CASE type = "ARRIVAL" -> n = TargetNode(Context)
              [] type = "DEPARTURE" -> n = CurrentNode(Context)
              [] type = "SKIP_CONFIRMED" -> skips[n].status = "POSSIBLY_SKIPPED"
         /\ Become(p, [Idle EXCEPT !.pc = "confirmed", !.type = type, !.node = n,
                                   !.context = Context, !.todo = Pending])
    /\ UNCHANGED <<trip, lapsed, sent>>

\* A confirmation sent again with its key.
ManualAgain(p) ==
    /\ work[p] = Idle
    /\ \E i \in DOMAIN events :
         /\ events[i].source = "MANUAL"
         /\ TriggerAfter(p, Context, Pending)
    /\ UNCHANGED <<trip, lapsed, sent>>

\* commitManual
CommitManual(p) ==
    LET w == work[p]
        active == ActiveEvents(w.node, w.type)
        free == active = {} /\ version = w.context.version
        Refused ==
            \/ w.type = "SKIP_CONFIRMED" /\ skips[w.node].status # "POSSIBLY_SKIPPED"
            \/ w.type # "SKIP_CONFIRMED" /\ Has(Context, w.node, w.type)
    IN /\ w.pc = "confirmed"
       /\ \/ /\ active # {} /\ TriggerAfter(p, w.context, w.todo \cup (active \cap Pending))
             /\ UNCHANGED trip
          \/ /\ active = {} /\ (version # w.context.version \/ Refused) /\ Finish(p)
             /\ UNCHANGED trip
          \/ /\ free /\ ~Refused /\ w.type = "SKIP_CONFIRMED"
             /\ events' = Append(events, NewEvent(w.node, w.type, "MANUAL", 0))
             /\ skips' = [skips EXCEPT ![w.node].status = "SKIPPED"]
             /\ version' = version + 1
             /\ UNCHANGED <<facts, suppressed, watermark>>
             /\ StopIfComplete(NoState)
             /\ TriggerAfter(p, w.context, w.todo)
          \/ /\ free /\ ~Refused /\ w.type # "SKIP_CONFIRMED"
             /\ CreateFact(w.node, w.type, "MANUAL", 0, {})
             /\ suppressed' = suppressed \ (IF w.type = "ARRIVAL" THEN {w.node} ELSE {})
             /\ version' = version + 1
             /\ UNCHANGED watermark
             /\ StopIfComplete(NoState)
             /\ TriggerAfter(p, w.context, w.todo \cup Arrival(w.node, w.type))
       /\ UNCHANGED <<lapsed, sent>>

(***************************************************************************)
(* afterMutation: the trigger of an arrival at an airport.                 *)
(***************************************************************************)
Claims == {events[i].token : i \in DOMAIN events} \cup {work[p].token : p \in Procs} \cup lapsed
NewToken == Max(Claims) + 1

Claimable(p, i) ==
    /\ events[i].source = "LOCATION" => AsExpected(work[p].context) /\ Records(Context)
    /\ ~events[i].undone /\ ~events[i].completed
    /\ events[i].token = 0 \/ events[i].token \in lapsed

\* claimAirportTrigger
Claim(p) ==
    LET i == Min(work[p].todo)
    IN /\ work[p].pc = "trigger"
       /\ IF Claimable(p, i)
          THEN /\ events' = [events EXCEPT ![i].token = NewToken]
               /\ Become(p, [work[p] EXCEPT !.pc = "calling", !.token = NewToken])
          ELSE /\ Become(p, IF work[p].todo = {i} THEN Idle ELSE [work[p] EXCEPT !.todo = @ \ {i}])
               /\ UNCHANGED events
       /\ UNCHANGED <<capability, version, watermark, last, facts, skips, suppressed, lapsed, sent>>

\* Mutant: without the claim's token (SingleCaller).
Unfinished(p, i) == ~events[i].undone /\ ~events[i].completed /\ work[p] # Idle

\* The row is still this request's to complete or to release.
Holds(p, i) == ~events[i].undone /\ ~events[i].completed /\ events[i].token = work[p].token

\* The call succeeded, or monitoring is inactive: completeAirportTrigger.
\* It failed: releaseAirportTriggerClaim, and the request fails.
Settle(p) ==
    LET i == Min(work[p].todo)
    IN /\ work[p].pc = "calling"
       /\ \E done \in BOOLEAN :
            /\ events' = IF Holds(p, i) THEN [events EXCEPT ![i].token = 0, ![i].completed = done]
                         ELSE events
            /\ IF done /\ work[p].todo # {i}
               THEN Become(p, [work[p] EXCEPT !.pc = "trigger", !.todo = @ \ {i}, !.token = 0])
               ELSE Finish(p)
       /\ UNCHANGED <<capability, version, watermark, last, facts, skips, suppressed, lapsed, sent>>

(***************************************************************************)
(* What happens meanwhile.                                                 *)
(***************************************************************************)
\* The claim's lease runs out.
Lapse ==
    /\ \E t \in {events[i].token : i \in DOMAIN events} \ (lapsed \cup {0}) : lapsed' = lapsed \cup {t}
    /\ UNCHANGED <<trip, sent, work>>

Crash(p) ==
    /\ work[p].pc # "idle"
    /\ Finish(p)
    /\ UNCHANGED <<trip, lapsed, sent>>

Undoable(i) ==
    LET e == events[i]
    IN /\ ~e.undone
       /\ IF e.type = "SKIP_CONFIRMED" THEN skips[e.node].status = "SKIPPED"
          ELSE /\ e.type = "ARRIVAL" => ~Has(Context, e.node, "DEPARTURE")
               /\ [node |-> e.node, type |-> e.type, ref |-> i] \in facts

\* undoEvent
Undo(i) ==
    LET e == events[i]
    IN /\ Undoable(i)
       /\ events' = [events EXCEPT ![i].undone = TRUE, ![i].token = 0]
       /\ facts' = {f \in facts : f.ref # i}
       /\ skips' = [n \in Nodes |->
                      CASE e.type = "SKIP_CONFIRMED" /\ n = e.node ->
                             [skips[n] EXCEPT !.status = "POSSIBLY_SKIPPED"]
                        [] e.type = "ARRIVAL" /\ skips[n] = [status |-> "POSSIBLY_SKIPPED", by |-> i] ->
                             [status |-> "NONE", by |-> User]
                        [] OTHER -> skips[n]]
       /\ suppressed' = suppressed \cup IF e.type = "ARRIVAL" THEN {e.node} ELSE {}
       /\ last' = NoState
       /\ version' = version + 1
       /\ UNCHANGED <<capability, watermark, lapsed, sent, work>>

\* Mutant: a later time replaces the one that is there (FactsAreEvents).
RecordOver ==
    /\ \E n \in Nodes, type \in {"ARRIVAL", "DEPARTURE"} :
         facts' = {f \in facts : f.node # n \/ f.type # type}
                  \cup {[node |-> n, type |-> type, ref |-> User]}
    /\ version' = version + 1
    /\ UNCHANGED <<skips, suppressed, watermark, events, lapsed, sent, work>>
    /\ StopIfComplete(last)

\* setTemporalValue: an ACTUAL time the traveller writes; one that is there stays.
RecordActual ==
    /\ \E n \in Nodes, type \in {"ARRIVAL", "DEPARTURE"} :
         /\ ~Has(Context, n, type)
         /\ facts' = facts \cup {[node |-> n, type |-> type, ref |-> User]}
    /\ version' = version + 1
    /\ UNCHANGED <<skips, suppressed, watermark, events, lapsed, sent, work>>
    /\ StopIfComplete(last)

\* decideAssistanceTransition, without those that change nothing
Transitions == {<<"ENABLED", "PAUSED">>, <<"PAUSED", "ENABLED">>, <<"ENABLED", "STOPPED">>,
                <<"PAUSED", "STOPPED">>, <<"STOPPED", "ENABLED">>}

\* mutateTripCapability
SetCapability ==
    /\ \E k \in Kinds, t \in Transitions :
         /\ capability[k].state = t[1]
         /\ capability' = [capability EXCEPT ![k] = [state |-> t[2], revision |-> @.revision + 1]]
         /\ last' = IF k = "LOCATION_ASSISTANCE" /\ t[2] # "ENABLED" THEN NoState ELSE last
    /\ UNCHANGED <<version, watermark, facts, skips, suppressed, events, lapsed, sent, work>>

Start(p) == Sample(p) \/ Manual(p) \/ ManualAgain(p)
Work(p) == ReadContext(p) \/ Replay(p) \/ CommitLocation(p) \/ CommitManual(p) \/ Claim(p) \/ Settle(p)
Meanwhile == \/ Lapse \/ RecordActual \/ SetCapability
             \/ \E p \in Procs : Crash(p)
             \/ \E i \in DOMAIN events : Undo(i)

\* MaxStarts and MaxWorld bound the requests and what interferes with them.
Next ==
    \/ /\ starts < MaxStarts /\ starts' = starts + 1
       /\ \E p \in Procs : Start(p)
       /\ UNCHANGED world
    \/ /\ \E p \in Procs : Work(p)
       /\ UNCHANGED <<starts, world>>
    \/ /\ world < MaxWorld /\ world' = world + 1
       /\ Meanwhile
       /\ UNCHANGED starts

Spec == Init /\ [][Next]_vars

(***************************************************************************)
(* Properties.                                                             *)
(***************************************************************************)
\* An arrival or departure event that stands has its ACTUAL time, one taken
\* back has none, and a node has one ACTUAL time of a kind: what the timeline
\* shows and what can be undone agree, whoever wrote first (createFactEvent,
\* undoEvent, setTemporalValue).
FactsAreEvents ==
    /\ \A i \in DOMAIN events : events[i].type # "SKIP_CONFIRMED" =>
         (~events[i].undone <=> \E f \in facts :
             f.ref = i /\ f.node = events[i].node /\ f.type = events[i].type)
    /\ \A f, g \in facts : f.node = g.node /\ f.type = g.type => f = g

NewLocationEvents == {i \in DOMAIN events' \ DOMAIN events : events'[i].source = "LOCATION"}

\* The position a new event comes from.
DecidedBy(p, i) == work[p].pc = "observed" /\ work[p].at = events'[i].at

\* Samples take effect in the order the phone took them: none taken before
\* the latest one counted becomes an event or the new latest, although the
\* requests that carry them overlap and are retried (ReadContext, Unchanged).
ObservedInOrder ==
    [][/\ watermark' >= watermark
       /\ \A i \in NewLocationEvents : events'[i].at > watermark]_vars

\* A position becomes an event, and an arrival so recorded calls its flight's
\* trigger, only under permissions to locate and to record that have stood
\* since the request read them: a pause in between, even one ended again,
\* stops it (hasExpectedLocationCapabilities).
Stood(p) == /\ Permits(Context) /\ Records(Context)
            /\ capability = work[p].context.capability
PermissionHolds ==
    [][/\ \A i \in NewLocationEvents : \E p \in Procs : DecidedBy(p, i) /\ Stood(p)
       /\ \A p \in Procs :
            /\ work[p].pc = "trigger" /\ work'[p].pc = "calling"
            /\ events[Min(work[p].todo)].source = "LOCATION"
            => Stood(p)]_vars

\* A position never runs ahead of the timeline: it records an arrival only
\* where nobody is arrived and not departed and beyond all that was done, and
\* a departure only from the node last arrived at, on the timeline as it is
\* when the event is written (the causal barrier of decideExecutionLocation).
LocationFollowsOrder ==
    [][\A i \in NewLocationEvents :
         /\ Consistent(Context)
         /\ IF events'[i].type = "ARRIVAL"
            THEN Open(Context) = {} /\ \A n \in Executed(Context) : n < events'[i].node
            ELSE Open(Context) = {events'[i].node}]_vars

\* An arrival the traveller took back is not recorded again by a position
\* before one was seen outside the exit boundary of its node, and until then
\* no later arrival is recorded over it either, however the radii overlap
\* (ExecutionArrivalSuppression).
CorrectionStands ==
    [][\A i \in NewLocationEvents : events'[i].type = "ARRIVAL" =>
         /\ events'[i].node \notin suppressed
         /\ \E p \in Procs :
              /\ DecidedBy(p, i)
              /\ TargetNode(Context) \in suppressed => Away(work[p].place, TargetNode(Context))]_vars

\* Two requests call the trigger of one arrival at a time only when the lease
\* of one has run out: a late holder neither completes nor frees the claim of
\* the one that took over (airportTriggerClaimToken).
SingleCaller ==
    \A p, q \in Procs :
        /\ p # q /\ work[p].pc = "calling" /\ work[q].pc = "calling"
        /\ Min(work[p].todo) = Min(work[q].todo)
        => work[p].token \in lapsed \/ work[q].token \in lapsed
=============================================================================
