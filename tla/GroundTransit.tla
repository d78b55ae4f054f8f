--------------------------- MODULE GroundTransit ---------------------------
(***************************************************************************)
(* Monitoring one adopted rail or bus leg and telling the traveller        *)
(* (application/src/ground-transit-service.ts, execution-risk-service.ts,  *)
(* persistence/src/prisma-ground-transit-repository.ts,                    *)
(* prisma-execution-risk-repository.ts and the policy in                   *)
(* domain/src/ground-transit-execution.ts).                                *)
(*                                                                         *)
(* A refresh, by the worker's job or by the traveller, is a chain of       *)
(* separate transactions: the provider is asked, the observation is        *)
(* committed to the leg, the trip and then the legs are read again, the    *)
(* risks are reconciled with what was read, and the change is presented.   *)
(* Each is a step here; other refreshes, general risk evaluations, pauses, *)
(* edits, a new route and the traveller's movements come between them, and *)
(* a crash may end the chain anywhere.                                     *)
(*                                                                         *)
(* Abstractions.  The leg is a FIXED_SERVICE of 45 minutes at most, without *)
(* a protected connection behind it and without a recorded arrival at its  *)
(* boarding stop; platforms and early departures are left out.  Delays     *)
(* count the leg's delay threshold (8 minutes).  A tick of the clock is    *)
(* longer than the interval of monitoring and than a snooze (5 and 15      *)
(* minutes).  An observation is known by its fetch time.  Both targets of  *)
(* the leg are served, or neither.                                         *)
(***************************************************************************)
EXTENDS Naturals, Sequences, FiniteSets

CONSTANTS
    Procs,        \* requests and jobs at work at once
    Facts,        \* what a provider may report
    MaxTime,      \* the clock's last reading
    Window,       \* from this time the leg is within its execution window
    Freshness,    \* ticks an observation stays fresh; 0: in its own only
    MaxStarts,    \* requests and jobs started
    MaxEvents     \* things that happen to the trip and to the requests meanwhile

ASSUME GroundAssumption ==
    /\ Facts \subseteq [cancelled : BOOLEAN, serves : {"SERVED", "NOT_SERVED", "UNKNOWN"},
                        delay : Nat]
    /\ {MaxTime, Window, Freshness, MaxStarts, MaxEvents} \subseteq Nat

VARIABLES
    now,           \* the clock
    capability,    \* GROUND_TRANSIT_MONITORING: state and revision
    version,       \* Trip.version
    routeActive,   \* the leg's adopted route is ACTIVE
    observations,  \* GroundTransitObservation rows, in the order accepted
    leg,           \* the GroundTransitLegExecution row
    risk,          \* ExecutionRisk: the last row of the leg's fingerprint
    rows,          \* NotificationEvent rows about the leg
    place,         \* how far the traveller got: 0 origin, 1 under way, 2 there, 3 gone
    starts,        \* requests and jobs started
    events,        \* what happened meanwhile
    work           \* what each request or job is doing

vars == <<now, capability, version, routeActive, observations, leg, risk, rows,
          place, starts, events, work>>
env == <<now, capability, version, routeActive, place>>

Arrived == {"ARRIVED_PENDING_HANDOFF", "COMPLETED"}
ChangeKinds == {"SERVICE_CANCELLED", "TARGET_NO_LONGER_SERVED", "MATERIAL_DELAY",
                "SERVICE_RESTORED"}

SnoozeTime == 1

(***************************************************************************)
(* The policy.  A view is what a request knows of the leg: its state, the  *)
(* latest and the previous observation (sequences of at most one), and the *)
(* delay band already presented.                                           *)
(***************************************************************************)
LastOf(s) == IF s = <<>> THEN <<>> ELSE <<s[Len(s)]>>
FrontOf(s) == IF s = <<>> THEN <<>> ELSE SubSeq(s, 1, Len(s) - 1)

View == [state |-> leg.state, band |-> leg.band,
         latest |-> LastOf(observations), prior |-> LastOf(FrontOf(observations))]

\* Delays count once they reach the threshold, twice that while still far.
Band(delay, near) == IF delay >= (IF near THEN 1 ELSE 2) THEN delay ELSE 0

assessGroundTransitOperational(v, t) ==
    LET current == v.state \notin Arrived
        known == current /\ v.latest # <<>> /\ t - v.latest[1].at <= Freshness
        Fact == v.latest[1].facts
        Lost(f) == f.serves = "NOT_SERVED"
        wasCancelled == v.prior # <<>> /\ v.prior[1].facts.cancelled
        wasLost == v.prior # <<>> /\ Lost(v.prior[1].facts)
        Sound(f) == f.serves = "SERVED" /\ ~f.cancelled
        near == v.state = "IN_PROGRESS" \/ t >= Window
        band == IF known THEN Band(Fact.delay, near) ELSE 0
        priorBand == IF v.prior = <<>> THEN 0 ELSE Band(v.prior[1].facts.delay, near)
        infeasible ==
            /\ current
            /\ \/ known /\ (Fact.cancelled \/ Lost(Fact))
               \/ v.state = "NO_LONGER_FEASIBLE" /\ ~(known /\ Sound(Fact))
        Changed(k) ==
            CASE k = "SERVICE_CANCELLED" -> Fact.cancelled /\ ~wasCancelled
              [] k = "TARGET_NO_LONGER_SERVED" -> Lost(Fact) /\ ~wasLost
              [] k = "MATERIAL_DELAY" -> band > priorBand
              [] k = "SERVICE_RESTORED" -> Sound(Fact) /\ (wasCancelled \/ wasLost)
        changes == {k \in ChangeKinds : known /\ Changed(k)}
        activated == near /\ band > v.band
    IN [infeasible |-> infeasible,
        continues |-> ~infeasible /\ ~(near /\ band > 0),
        kinds |-> changes \cup (IF activated THEN {"MATERIAL_DELAY"} ELSE {}),
        activated |-> activated,
        band |-> band,
        attention |-> \/ infeasible /\ changes # {}
                      \/ "SERVICE_RESTORED" \in changes
                      \/ activated,
        persistent |-> band > 0 /\ band <= v.band]

\* Mistaken: a service restored is one to wait for.
RecoversToPending(previous, noLongerFeasible, beforeFailure) ==
    CASE previous \in Arrived -> previous
      [] previous \notin Arrived /\ noLongerFeasible -> "NO_LONGER_FEASIBLE"
      [] OTHER -> IF previous = "NO_LONGER_FEASIBLE" THEN "PENDING" ELSE previous

resolveGroundTransitProviderState(previous, noLongerFeasible, beforeFailure) ==
    CASE previous \in Arrived -> previous
      [] previous \notin Arrived /\ noLongerFeasible -> "NO_LONGER_FEASIBLE"
      [] previous = "NO_LONGER_FEASIBLE" /\ ~noLongerFeasible ->
             IF beforeFailure = "IN_PROGRESS" THEN "IN_PROGRESS" ELSE "PENDING"
      [] OTHER -> previous

\* Mistaken: every observation starts over.
BandForgotten(f) == 0

\* advanceGroundTransitAttentionState: the band told of stays while a delay does.
BandAfter(f) == IF f.delay >= 1 THEN leg.band ELSE 0

decideGroundTransitObservationOrdering(at, facts) ==
    CASE observations = <<>> -> "APPLIED"
      [] observations # <<>> ->
         LET last == observations[Len(observations)]
         IN CASE at < last.at -> "STALE_IGNORED"
              [] at > last.at -> "APPLIED"
              [] OTHER -> IF facts = last.facts THEN "IDEMPOTENT" ELSE "OBSERVATION_CONFLICT"

(***************************************************************************)
(* Requests.                                                               *)
(***************************************************************************)
NoView == [state |-> "PENDING", band |-> 0, latest |-> <<>>, prior |-> <<>>]
Idle == [pc |-> "idle", kind |-> "none", revision |-> 0, down |-> FALSE, view |-> NoView,
         group |-> <<>>, tries |-> 0, basis |-> 0, desired |-> FALSE, related |-> FALSE]

\* The traveller may be under way before anything is reported.
Init ==
    /\ now = 1
    /\ capability = [state |-> "ENABLED", revision |-> 1]
    /\ version = 1
    /\ routeActive = TRUE
    /\ observations = <<>>
    /\ place \in 0..1
    /\ leg = [state |-> <<"PENDING", "IN_PROGRESS">>[place + 1], from |-> "PENDING", band |-> 0,
              decided |-> FALSE, next |-> 0]
    /\ risk = [generation |-> 0, status |-> "RESOLVED", until |-> 0, told |-> 0]
    /\ rows = {}
    /\ starts = 0
    /\ events = 0
    /\ work = [p \in Procs |-> Idle]

Permitted(revision) == capability = [state |-> "ENABLED", revision |-> revision]
\* A job goes on only under the permission it was listed with.
Fenced(p) == work[p].kind = "job" /\ ~Permitted(work[p].revision)
Become(p, w) == work' = [work EXCEPT ![p] = w]
Finish(p) == Become(p, Idle)

\* listJobLegs and the call of the provider for the leg listed; the list does
\* not look up the previous observation.
StartJob(p) ==
    /\ work[p] = Idle
    /\ capability.state = "ENABLED" /\ routeActive /\ leg.next <= now
    /\ Become(p, [Idle EXCEPT !.pc = "asked", !.kind = "job", !.revision = capability.revision,
                              !.view = [View EXCEPT !.prior = <<>>]])
    /\ UNCHANGED <<env, observations, leg, risk, rows>>

\* findCurrentOwned and the call of the provider.
StartRefresh(p) ==
    /\ work[p] = Idle
    /\ routeActive
    /\ Become(p, [Idle EXCEPT !.pc = "asked", !.kind = "refresh", !.view = View])
    /\ UNCHANGED <<env, observations, leg, risk, rows>>

\* evaluateTripRisks for another reason: the traveller moved, a flight changed.
StartEvaluation(p) ==
    /\ work[p] = Idle
    /\ Become(p, [Idle EXCEPT !.pc = "evaluate", !.kind = "evaluation"])
    /\ UNCHANGED <<env, observations, leg, risk, rows>>

\* The provider answered with an observation and commitObservation ran.
Commit(p) ==
    /\ work[p].pc = "asked"
    /\ \E at \in 1..now, f \in Facts :
       LET ordering == decideGroundTransitObservationOrdering(at, f)
           accepted == Append(observations, [at |-> at, facts |-> f])
           fresh == [View EXCEPT !.latest = <<[at |-> at, facts |-> f]>>, !.prior = View.latest]
           state == resolveGroundTransitProviderState(leg.state,
                        assessGroundTransitOperational(fresh, now).infeasible, leg.from)
           band == BandAfter(f)
           timesChanged == observations = <<>> \/ View.latest[1].facts.delay # f.delay
           Proceed(v) == Become(p, [work[p] EXCEPT !.pc = "evaluate", !.view = v,
                                                   !.group = <<"observation", at>>])
       IN \/ /\ ~routeActive \/ Fenced(p) \/ ordering \in {"STALE_IGNORED", "OBSERVATION_CONFLICT"}
             /\ Finish(p)
             /\ UNCHANGED <<version, observations, leg>>
          \/ /\ routeActive /\ ~Fenced(p) /\ ordering = "IDEMPOTENT"
             /\ Proceed(View)
             /\ UNCHANGED <<version, observations, leg>>
          \/ /\ routeActive /\ ~Fenced(p) /\ ordering = "APPLIED"
             /\ observations' = accepted
             /\ version' = IF timesChanged THEN version + 1 ELSE version
             /\ leg' = [state |-> state, band |-> band, decided |-> FALSE, next |-> now + 1,
                        from |-> IF state = "NO_LONGER_FEASIBLE" /\ leg.state # state
                                 THEN leg.state ELSE leg.from]
             /\ Proceed([fresh EXCEPT !.state = state, !.band = band])
    /\ UNCHANGED <<now, capability, routeActive, place, risk, rows>>

\* The provider did not answer and recordProviderFailure ran.
Fail(p) ==
    /\ work[p].pc = "asked"
    /\ IF ~routeActive \/ Fenced(p) THEN Finish(p)
       ELSE Become(p, [work[p] EXCEPT !.pc = "evaluate", !.down = TRUE, !.group = <<"down", now>>])
    /\ UNCHANGED <<env, observations, leg, risk, rows>>

(***************************************************************************)
(* evaluateTripRisks: read the trip and its legs, reconcile; twice.        *)
(***************************************************************************)
\* findOwnedById and listOwned.  Whatever changes the version between the two
\* reads is a conflict later, whatever does not may as well come before both.
Read(p) ==
    /\ work[p].pc = "evaluate"
    /\ Become(p, [work[p] EXCEPT !.pc = "reconcile", !.basis = version,
                  !.desired = routeActive /\ assessGroundTransitOperational(View, now).infeasible])
    /\ UNCHANGED <<env, observations, leg, risk, rows>>

RiskActive == risk.status # "RESOLVED"
Active(group) == {n \in rows : n.group = group /\ n.active}

\* The observation a refresh committed, still the latest of a leg of the trip.
StillLatest(p) == routeActive /\ View.latest = work[p].view.latest

\* createNotification
RiskRow(p) == [kind |-> "EXECUTION_RISK", key |-> <<risk'.generation, risk'.told>>,
               group |-> work[p].group, kinds |-> {},
               active |-> work[p].group = <<>> \/ Active(work[p].group) = {}]

\* Risks are opened, told again after a snooze, or resolved.
ReconcileRisk(p) ==
    LET desired == work[p].desired
        expired == risk.status = "SNOOZED" /\ risk.until <= now
    IN \/ /\ desired /\ ~RiskActive
          /\ risk' = [generation |-> risk.generation + 1, status |-> "OPEN", until |-> 0, told |-> 1]
          /\ rows' = rows \cup {RiskRow(p)}
       \/ /\ desired /\ RiskActive /\ expired
          /\ risk' = [risk EXCEPT !.status = "OPEN", !.until = 0, !.told = @ + 1]
          /\ rows' = rows \cup {RiskRow(p)}
       \/ /\ ~desired /\ RiskActive
          /\ risk' = [risk EXCEPT !.status = "RESOLVED", !.until = 0]
          /\ UNCHANGED rows
       \/ /\ desired = RiskActive /\ ~(desired /\ expired)
          /\ UNCHANGED <<risk, rows>>

\* Where evaluateTripRisks returns to, told whether the leg is at risk.
Return(p, related) ==
    IF work[p].kind = "evaluation" THEN Finish(p)
    ELSE Become(p, [work[p] EXCEPT !.pc = "present", !.related = related])

Correlated(p) == work[p].kind # "evaluation" /\ ~work[p].down

Reconcile(p) ==
    /\ work[p].pc = "reconcile"
    /\ \/ /\ version # work[p].basis
          /\ IF work[p].tries = 0 THEN Become(p, [work[p] EXCEPT !.pc = "evaluate", !.tries = 1])
             ELSE Finish(p)
          /\ UNCHANGED <<risk, rows, leg>>
       \/ /\ version = work[p].basis
          /\ Fenced(p) \/ (Correlated(p) /\ ~StillLatest(p))
          /\ IF work[p].down THEN Finish(p) ELSE Return(p, FALSE)
          /\ UNCHANGED <<risk, rows, leg>>
       \/ /\ version = work[p].basis /\ ~Fenced(p)
          /\ Correlated(p) /\ StillLatest(p) /\ leg.decided
          /\ Return(p, RiskActive)
          /\ UNCHANGED <<risk, rows, leg>>
       \/ /\ version = work[p].basis /\ ~Fenced(p)
          /\ Correlated(p) => StillLatest(p) /\ ~leg.decided
          /\ ReconcileRisk(p)
          /\ leg' = IF Correlated(p) THEN [leg EXCEPT !.decided = TRUE] ELSE leg
          /\ Return(p, work[p].desired)
    /\ UNCHANGED <<env, observations>>

(***************************************************************************)
(* recordOperationalPresentation.                                          *)
(***************************************************************************)
\* Mistaken: the permission was looked at when the observation was committed.
ObsoleteOnly(p) == work[p].view.latest = <<>> \/ ~StillLatest(p)

\* CAPABILITY_CHANGED or OBSOLETE
Refused(p) == Fenced(p) \/ work[p].view.latest = <<>> \/ ~StillLatest(p)

OfLeg(n) == n.group # <<>> /\ n.group[1] = "observation"

\* Mistaken: what is still true need not be retired.
RetiresOwn(a, related, group) ==
    IF ~a.attention /\ ~a.persistent /\ ~related /\ a.continues
    THEN {n \in rows : n.active /\ n.group = group} ELSE {}

\* The presentations that end: those of earlier observations once this one is
\* presented, and this one's too when all is well.
Retires(a, related, group) ==
    LET quiet == ~a.attention /\ ~a.persistent /\ ~related /\ a.continues
    IN IF Active(group) # {} \/ a.attention \/ quiet
       THEN {n \in rows : n.active /\ OfLeg(n) /\ (quiet \/ n.group # group)} ELSE {}

Present(p) ==
    LET v == work[p].view
        a == assessGroundTransitOperational(v, now)
        group == <<"observation", v.latest[1].at>>
        retired == Retires(a, work[p].related, group)
        kept == (rows \ retired) \cup {[n EXCEPT !.active = FALSE] : n \in retired}
        current == Active(group)
        alert == [kind |-> "GROUND_TRANSIT_IMPORTANT_CHANGE", key |-> <<v.latest[1].at>>,
                  group |-> group, kinds |-> a.kinds, active |-> TRUE]
    IN /\ work[p].pc = "present"
       /\ Finish(p)
       /\ IF Refused(p) THEN UNCHANGED <<rows, leg>>
          ELSE /\ rows' =
                    CASE ~a.attention -> kept
                      [] a.attention /\ current # {} ->
                         (kept \ current) \cup {[n EXCEPT !.kinds = @ \cup a.kinds] : n \in current}
                      [] a.attention /\ current = {} ->
                         IF \E n \in rows : n.kind = alert.kind /\ n.key = alert.key
                         THEN kept ELSE kept \cup {alert}
               /\ leg' = IF a.attention /\ a.activated /\ a.band > leg.band
                         THEN [leg EXCEPT !.band = a.band] ELSE leg
       /\ UNCHANGED <<env, observations, risk>>

\* The process ends: a deployment, a crash, a dropped connection.
Crash(p) ==
    /\ work[p].pc # "idle"
    /\ Finish(p)
    /\ UNCHANGED <<env, observations, leg, risk, rows>>

(***************************************************************************)
(* The rest of the world.                                                  *)
(***************************************************************************)
\* recordDerivedLocationTransition for the boarding and the alighting stop.
Move ==
    /\ place < 3
    /\ place' = place + 1
    /\ leg' = [leg EXCEPT !.state =
                 CASE ~routeActive -> @
                   [] routeActive /\ place = 0 -> IF @ = "PENDING" THEN "IN_PROGRESS" ELSE @
                   [] routeActive /\ place = 1 -> "ARRIVED_PENDING_HANDOFF"
                   [] routeActive /\ place = 2 ->
                      IF @ = "ARRIVED_PENDING_HANDOFF" THEN "COMPLETED" ELSE @]
    /\ UNCHANGED <<now, capability, version, routeActive, observations, risk, rows, work>>

\* The traveller takes the last movement back; no leg hears of it.
UndoMove ==
    /\ place > 0
    /\ place' = place - 1
    /\ UNCHANGED <<now, capability, version, routeActive, observations, leg, risk, rows, work>>

Pause ==
    /\ capability' = [state |-> IF capability.state = "ENABLED" THEN "PAUSED" ELSE "ENABLED",
                      revision |-> capability.revision + 1]
    /\ UNCHANGED <<now, version, routeActive, place, observations, leg, risk, rows, work>>

EditTrip ==
    /\ version' = version + 1
    /\ UNCHANGED <<now, capability, routeActive, place, observations, leg, risk, rows, work>>

ReplaceRoute ==
    /\ routeActive
    /\ routeActive' = FALSE /\ version' = version + 1
    /\ UNCHANGED <<now, capability, place, observations, leg, risk, rows, work>>

\* acknowledgeOwned and snoozeOwned
Acknowledge ==
    /\ RiskActive
    /\ risk' = [risk EXCEPT !.status = "ACKNOWLEDGED", !.until = 0]
    /\ UNCHANGED <<env, observations, leg, rows, work>>

Snooze ==
    /\ RiskActive
    /\ risk' = [risk EXCEPT !.status = "SNOOZED", !.until = now + SnoozeTime]
    /\ UNCHANGED <<env, observations, leg, rows, work>>

Tick ==
    /\ now < MaxTime
    /\ now' = now + 1
    /\ UNCHANGED <<capability, version, routeActive, place, observations, leg, risk, rows, work>>

Start(p) == StartJob(p) \/ StartRefresh(p) \/ StartEvaluation(p)
Work(p) == Commit(p) \/ Fail(p) \/ Read(p) \/ Reconcile(p) \/ Present(p)
World == Move \/ UndoMove \/ Pause \/ EditTrip \/ ReplaceRoute \/ Acknowledge \/ Snooze

\* MaxStarts and MaxEvents bound the starts and what interferes with them.
Next ==
    \/ /\ starts < MaxStarts /\ starts' = starts + 1
       /\ \E p \in Procs : Start(p)
       /\ UNCHANGED events
    \/ /\ \E p \in Procs : Work(p)
       /\ UNCHANGED <<starts, events>>
    \/ /\ events < MaxEvents /\ events' = events + 1
       /\ World \/ \E p \in Procs : Crash(p)
       /\ UNCHANGED starts
    \/ Tick /\ UNCHANGED <<starts, events>>

Spec == Init /\ [][Next]_vars

(***************************************************************************)
(* Properties.                                                             *)
(***************************************************************************)
\* The risk and the operational change of one observation share one active
\* presentation, and one that tells of a change has retired every presentation
\* of an earlier observation, however the refreshes interleave.
OnePresentation ==
    \A m, n \in rows :
        m.active /\ n.active /\ m # n /\ OfLeg(m) /\ OfLeg(n)
        => m.group # n.group /\ (m.kinds # {} => m.group[2] < n.group[2])

RunsLate(o) == o.facts.serves = "SERVED" /\ ~o.facts.cancelled /\ o.facts.delay >= 1

\* While a service that runs stays late, its delay is told again only when it has
\* reached a higher band: not for every report, every refresh, or every crash
\* between two steps.  (Of a service that does not run, a delay may be told
\* twice: the warning of a cancelled service records no band.)
LastingDelayToldOnce ==
    \A m, n \in {r \in rows : r.kinds = {"MATERIAL_DELAY"}} :
        LET Between == {o \in {observations[i] : i \in DOMAIN observations} :
                          m.group[2] <= o.at /\ o.at <= n.group[2]}
            DelayAt(t) == (CHOOSE o \in Between : o.at = t).facts.delay
        IN /\ m.group[2] < n.group[2]
           /\ \A o \in Between : RunsLate(o)
           => DelayAt(m.group[2]) < DelayAt(n.group[2])

\* A job whose permission was withdrawn, or given anew, since it was listed
\* writes nothing more: no observation, no estimate, no risk, no notification.
Withdrawn(p) ==
    work[p].kind = "job" /\ capability # [state |-> "ENABLED", revision |-> work[p].revision]

WithdrawnJobIsSilent ==
    [][\A p \in Procs : Withdrawn(p) /\ work'[p] # work[p]
           => UNCHANGED <<version, observations, leg, risk, rows>>]_vars

\* How far the traveller's movements took the leg, also while it has failed.
Progress(l) == IF l.state = "NO_LONGER_FEASIBLE" THEN l.from ELSE l.state

\* Reports about the vehicle never say where the traveller is: a failure that
\* comes and goes leaves the leg as far as the traveller's movements took it.
ReportsLeaveProgress ==
    [][place' = place => Progress(leg') = Progress(leg)]_vars
=============================================================================
