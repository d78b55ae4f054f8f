-------------------------- MODULE FlightMonitoring --------------------------
(* Background monitoring of one flight binding: the observations accepted on  *)
(* the binding, the capability that permits monitoring, the monitor state,    *)
(* the FLIGHT_MONITOR jobs, and the executions (jobs on workers, triggers and *)
(* refreshes of clients) that read, wait for the provider and write.          *)
(*                                                                            *)
(* Observations are numbered by fetchedAt; the snapshot a flight is adopted   *)
(* with counts as the newest, and the time between findOwnedBinding and the   *)
(* answer of the provider is one step.  Time is a clock of few instants:      *)
(* the fixed checkpoints, the end of the cancellation tail, the end of the    *)
(* baggage window.  A follow-up check is due after an interval, some time after *)
(* it was made, or at the end of its tail, whichever is first; in which of the *)
(* two cases an instant before the end falls is left open.                    *)
(* Of the notices only CANCELLED and RESTORED_AFTER_CANCELLATION are kept:    *)
(* delay, gate, terminal, boarding, baggage and outage notices are left out.  *)
EXTENDS Integers, Sequences

CONSTANTS Flights, Workers, Clients, NoKey,
          Reports,          \* the statuses the provider reports in this instance
          Checkpoints,      \* instants of the fixed checkpoints
          Opens,            \* instant from which a binding is monitored (T-24h)
          TailEnd,          \* last instant of a cancellation tail (T+2h)
          WindowLength,     \* length of the baggage window
          Horizon,          \* bound: last instant of the clock
          MaxChecks,        \* bound: live rows of follow-ups within their tails
          MaxObservations,  \* bound: answers of the provider with a new fetchedAt
          MaxRevision,      \* bound: revisions of the capability
          MaxFaults,        \* bound: attempts that fail, leases that lapse
          MaxOutages        \* bound: provider failures

VARIABLES now, capability, observations, binding, monitor, rows, run,
          alerts, overwritten, dropped, faults, outages

\* Two variables are history: overwritten, that a provider failure has put back an
\* older state of the monitor; dropped, that the check last made, or who was to
\* make it, was lost.
vars == <<now, capability, observations, binding, monitor, rows, run,
          alerts, overwritten, dropped, faults, outages>>

\* LATE: delayed by status or by its revised departure.  AIRBORNE: a departure
\* runway time under a status that does not say so yet.
Statuses == {"ONTIME", "LATE", "CANCELLED", "AIRBORNE", "DEPARTED", "LANDED"}
Modes    == {"NORMAL", "DELAYED", "CANCELLED", "BAGGAGE", "STOPPED"}

ASSUME BoundsAssumption ==
    /\ Reports \subseteq Statuses
    /\ Checkpoints \subseteq Nat \ {0}
    /\ {WindowLength, MaxRevision, MaxObservations} \subseteq Nat \ {0}
    /\ {Opens, TailEnd, Horizon, MaxChecks, MaxFaults, MaxOutages} \subseteq Nat
Runs == Workers \cup Clients

\* The unique keys of the rows, without binding and generation: reason, instant and
\* revision of a fixed checkpoint and of the last check of a tail.  The instant of
\* any other check is some milliseconds' own, so it has the number of its place.
CheckpointKeys == {"normal"} \X Checkpoints \X (1..MaxRevision)
LastCheckKeys  == ({"cancelled", "cancelled-failure"} \X {TailEnd} \X (1..MaxRevision))
                    \cup ({"baggage", "baggage-failure"}
                             \X (WindowLength..(Horizon + WindowLength)) \X (1..MaxRevision))
FollowUpKeys   == {"within"} \X (1..MaxChecks) \X {0}
Keys == CheckpointKeys \cup LastCheckKeys \cup FollowUpKeys

ASSUME IdentityAssumption == Workers \cap Clients = {} /\ NoKey \notin Keys

\* A finished check within a tail frees its place; the other keys stay taken.
Row   == [status : {"ABSENT", "QUEUED", "RUNNING", "CANCELLED", "DONE"},
          revision : 0..MaxRevision]
NoRow == [status |-> "ABSENT", revision |-> 0]

\* window is baggageWindowEndsAt, decided lastDecisionFetchedAt (0: null),
\* cancelled cancellationNotified.  lastSuccessfulMonitorRefreshAt is set when
\* decided is; the arrival at the airport, which only gates refer to, is left out.
Monitor    == [present : BOOLEAN, mode : Modes, cancelled : BOOLEAN, window : Nat,
               decided : 0..MaxObservations]
NoMonitor  == [present |-> FALSE, mode |-> "NORMAL", cancelled |-> FALSE, window |-> 0,
               decided |-> 0]

\* An execution: revision 0 is a refresh outside monitoring, instant the `now`
\* it took before the provider call, answer the observation it handles.
Run  == [pc : {"idle", "context", "before", "fetch", "accept", "commit", "failed", "settle"},
         revision : 0..MaxRevision, row : Keys \cup {NoKey}, before : Monitor,
         instant : 0..Horizon, answer : 0..MaxObservations, skips : BOOLEAN]
Idle == [pc |-> "idle", revision |-> 0, row |-> NoKey, before |-> NoMonitor,
         instant |-> 0, answer |-> 0, skips |-> FALSE]

Init ==
    /\ now = 0
    /\ capability = [state |-> "NOT_ENABLED", revision |-> 0]
    /\ observations \in {<<[flight |-> f, status |-> s]>> : f \in Flights, s \in Reports}
    /\ binding = [flight |-> observations[1].flight, since |-> 1, at |-> 1, flown |-> FALSE]
    /\ monitor = NoMonitor
    /\ rows = [k \in Keys |-> NoRow]
    /\ run = [p \in Runs |-> Idle]
    /\ alerts = {} /\ overwritten = FALSE /\ dropped = FALSE
    /\ faults = 0 /\ outages = 0

Enabled(revision) == capability = [state |-> "ENABLED", revision |-> revision]

\* findContext and the upsert of ensureEligibleMonitoring create a missing state.
Ensured == [monitor EXCEPT !.present = TRUE]

LatestStatus == observations[binding.at].status

-----------------------------------------------------------------------------
(* The decision about an observation (decideAcceptedFlightRefresh) and about  *)
(* a failure of the provider (decideProviderFailure).                         *)

ModeFor(s) == CASE s = "CANCELLED"               -> "CANCELLED"
                [] s \in {"AIRBORNE", "DEPARTED"} -> "STOPPED"
                [] s = "LANDED"                  -> "BAGGAGE"
                [] s = "LATE"                    -> "DELAYED"
                [] s = "ONTIME"                  -> "NORMAL"

BeforeDeparture(s) == s \in {"ONTIME", "LATE"}

\* Mistaken: the window starts anew with every landing report; every
\* cancellation report is news.
DecidedNewWindow(m, s, t) == [m EXCEPT
    !.mode      = ModeFor(s),
    !.cancelled = s = "CANCELLED" \/ (m.cancelled /\ ~BeforeDeparture(s)),
    !.window    = IF s = "LANDED" THEN t + WindowLength ELSE m.window]

Decided(m, s, t) == [m EXCEPT
    !.mode      = ModeFor(s),
    !.cancelled = s = "CANCELLED" \/ (m.cancelled /\ ~BeforeDeparture(s)),
    !.window    = IF s = "LANDED" /\ m.window = 0 THEN t + WindowLength ELSE m.window]

NewsAlways(m, previous, s) ==
    {k \in {"CANCELLED", "RESTORED"} :
        \/ k = "CANCELLED" /\ s = "CANCELLED"
        \/ k = "RESTORED" /\ BeforeDeparture(s) /\ (previous = "CANCELLED" \/ m.cancelled)}

News(m, previous, s) ==
    {k \in {"CANCELLED", "RESTORED"} :
        \/ k = "CANCELLED" /\ s = "CANCELLED" /\ ~m.cancelled
        \/ k = "RESTORED" /\ BeforeDeparture(s) /\ (previous = "CANCELLED" \/ m.cancelled)}

\* nextCheckAt is not null.
HasNextCheck(m, t) == \/ m.mode = "DELAYED"
                      \/ m.mode = "CANCELLED" /\ t < TailEnd
                      \/ m.mode = "BAGGAGE" /\ t < m.window

NaturallyComplete(m, t) == m.mode \in {"CANCELLED", "BAGGAGE"} /\ ~HasNextCheck(m, t)

-----------------------------------------------------------------------------
(* Rows of the job table.                                                     *)

Live(revision) == {k \in Keys : /\ rows[k].status \in {"QUEUED", "RUNNING"}
                                /\ rows[k].revision = revision}

QueueCancelled(R) ==
    [k \in Keys |-> IF R[k].status # "QUEUED" THEN R[k]
                    ELSE IF k \in FollowUpKeys THEN NoRow
                    ELSE [R[k] EXCEPT !.status = "CANCELLED"]]

\* Mistaken: a cancelled row is never queued again.
ScheduledOnce(R, K, revision, reactivates) ==
    [k \in Keys |-> IF k \in K /\ R[k].status = "ABSENT"
                    THEN [status |-> "QUEUED", revision |-> revision] ELSE R[k]]

\* scheduleJob under the keys K: a taken key is left alone, but a cancelled row is
\* queued again where the caller reactivates.
Scheduled(R, K, revision, reactivates) ==
    [k \in Keys |->
        IF /\ k \in K
           /\ R[k].status \in (IF reactivates THEN {"ABSENT", "CANCELLED"} ELSE {"ABSENT"})
        THEN [status |-> "QUEUED", revision |-> revision]
        ELSE R[k]]

\* scheduleNormalJobs: the checkpoints from t on.
CheckpointsScheduled(R, revision, t, reactivates) ==
    Scheduled(R, {k \in CheckpointKeys : k[2] >= t /\ k[3] = revision}, revision, reactivates)

\* The key of the last check of a tail, at its end, after an answer or a failure.
LastCheck(m, revision, failed) ==
    IF m.mode = "CANCELLED"
    THEN <<IF failed THEN "cancelled-failure" ELSE "cancelled", TailEnd, revision>>
    ELSE <<IF failed THEN "baggage-failure" ELSE "baggage", m.window, revision>>

FreeFollowUps(R) == {k \in FollowUpKeys : R[k].status = "ABSENT"}

FollowUpScheduled(R, revision) ==
    LET k == CHOOSE k \in FreeFollowUps(R) : \A l \in FreeFollowUps(R) : k[2] <= l[2]
    IN [R EXCEPT ![k] = [status |-> "QUEUED", revision |-> revision]]

\* A check within a tail falls due some time, and is claimed after that.
Due(k) == k \notin FollowUpKeys => k[2] <= now

\* markSucceeded or a last failed attempt; a failed attempt or a lapsed lease.
Finished(k) == IF k = NoKey THEN rows
               ELSE [rows EXCEPT ![k] = IF k \in FollowUpKeys THEN NoRow
                                        ELSE [@ EXCEPT !.status = "DONE"]]
Requeued(k) == IF k = NoKey THEN rows
               ELSE [rows EXCEPT ![k].status = "QUEUED"]

-----------------------------------------------------------------------------
(* Executions.  Each action is one transaction or one call of the provider.   *)

Step(p, from, to) == /\ run[p].pc = from
                     /\ run' = [run EXCEPT ![p] = to]

At(p, pc) == [run[p] EXCEPT !.pc = pc]
Ended(p)  == IF run[p].row = NoKey THEN Idle
             ELSE [Idle EXCEPT !.pc = "settle", !.row = run[p].row]
Monitored(p) == Enabled(run[p].revision)

\* The runner claims a due row and calls executeJob.
Claim(p, k) ==
    /\ rows[k].status = "QUEUED" /\ Due(k)
    /\ Step(p, "idle", [Idle EXCEPT !.pc = "context", !.row = k, !.revision = rows[k].revision])
    /\ rows' = [rows EXCEPT ![k].status = "RUNNING"]
    /\ UNCHANGED <<now, capability, observations, binding, monitor, alerts, overwritten, dropped, faults, outages>>

\* executeJob: the job may be obsolete; within thirty minutes of a refresh a
\* NORMAL binding is decided again from what it has.
JobContext(p) ==
    /\ run[p].pc = "context"
    /\ monitor' = Ensured
    /\ \/ /\ ~Monitored(p) \/ monitor.mode = "STOPPED"
          /\ Step(p, "context", Ended(p))
       \/ /\ Monitored(p) /\ monitor.mode = "NORMAL" /\ monitor.decided # 0
          /\ Step(p, "context", [At(p, "commit") EXCEPT !.skips = TRUE, !.answer = binding.at,
                                                        !.instant = now])
       \/ /\ Monitored(p) /\ monitor.mode # "STOPPED"
          /\ Step(p, "context", At(p, "before"))
    /\ UNCHANGED <<now, capability, observations, binding, rows, alerts, overwritten, dropped, faults, outages>>

\* trigger: the detail page, an arrival or a check after the flight; without
\* monitoring it is a plain refresh.
Trigger(p) ==
    /\ monitor' = Ensured
    /\ Step(p, "idle", IF capability.state = "ENABLED"
                       THEN [Idle EXCEPT !.pc = "before", !.revision = capability.revision]
                       ELSE [Idle EXCEPT !.pc = "fetch"])
    /\ UNCHANGED <<now, capability, observations, binding, rows, alerts, overwritten, dropped, faults, outages>>

\* FlightService.refresh called by the user.
ManualRefresh(p) ==
    /\ Step(p, "idle", [Idle EXCEPT !.pc = "fetch"])
    /\ UNCHANGED <<now, capability, observations, binding, monitor, rows, alerts, overwritten,
                   dropped, faults, outages>>

\* performRefresh reads the state it will compare with, and the time.
ReadBefore(p) ==
    /\ Step(p, "before", [At(p, "fetch") EXCEPT !.before = Ensured, !.instant = now])
    /\ monitor' = Ensured
    /\ UNCHANGED <<now, capability, observations, binding, rows, alerts, overwritten, dropped, faults, outages>>

\* provider.refresh for the flight bound now: a newer observation, or the one
\* the binding has.  Of the state read before, only its last decision is used.
Answered(p, n) == [At(p, "accept") EXCEPT
    !.answer = n, !.before = [NoMonitor EXCEPT !.decided = run[p].before.decided]]

FetchNew(p) ==
    /\ Len(observations) < MaxObservations
    /\ Step(p, "fetch", Answered(p, Len(observations) + 1))
    /\ \E s \in Reports :
         observations' = Append(observations, [flight |-> binding.flight, status |-> s])
    /\ UNCHANGED <<now, capability, binding, monitor, rows, alerts, overwritten, dropped, faults, outages>>

FetchSame(p) ==
    /\ Step(p, "fetch", Answered(p, binding.at))
    /\ UNCHANGED <<now, capability, observations, binding, monitor, rows, alerts, overwritten,
                   dropped, faults, outages>>

FetchFails(p) ==
    /\ outages < MaxOutages
    /\ outages' = outages + 1
    /\ Step(p, "fetch", IF run[p].revision = 0 THEN Ended(p) ELSE At(p, "failed"))
    /\ UNCHANGED <<now, capability, observations, binding, monitor, rows, alerts, overwritten, dropped, faults>>

\* An observation not newer than the binding's changes nothing.
Newer(n) == IF n > binding.at THEN n ELSE binding.at

\* A refresh outside monitoring moves the binding on while an execution has yet to
\* commit: the commit will be refused, and nobody decides the new observation.
Abandons(p) == /\ run[p].revision = 0 /\ binding' # binding
               /\ \E q \in Runs : run[q].pc = "commit" /\ Monitored(q)

\* PrismaFlightRepository.refresh, fenced by the revision when it is monitoring.
Accept(p) ==
    LET r == run[p] IN
    /\ r.pc = "accept"
    /\ IF \/ r.revision # 0 /\ ~Monitored(p)
          \/ observations[r.answer].flight # binding.flight
       THEN /\ UNCHANGED binding
            /\ Step(p, "accept", Ended(p))
       ELSE /\ binding' = [binding EXCEPT !.at = Newer(r.answer),
                 !.flown = @ \/ observations[Newer(r.answer)].status = "AIRBORNE"]
            /\ Step(p, "accept", IF r.revision = 0 THEN Ended(p)
                                 ELSE [At(p, "commit") EXCEPT !.answer = Newer(r.answer)])
    /\ dropped' = (dropped \/ Abandons(p))
    /\ UNCHANGED <<now, capability, observations, monitor, rows, alerts, overwritten, faults, outages>>

\* stopFlightMonitoringIfNaturallyComplete, and what is scheduled otherwise; the
\* check is lost if its key is taken by one that runs or is over.
Follow(R, m, t, revision, replaces, failed) ==
    /\ capability' = IF NaturallyComplete(m, t)
                     THEN [state |-> "STOPPED", revision |-> capability.revision + 1]
                     ELSE capability
    /\ LET Q == IF replaces \/ NaturallyComplete(m, t) THEN QueueCancelled(R) ELSE R IN
       IF HasNextCheck(m, t)
       THEN \/ /\ FreeFollowUps(Q) # {}
               /\ rows' = FollowUpScheduled(Q, revision)
               /\ dropped' = FALSE
            \/ /\ m.mode # "DELAYED"
               /\ LET k == LastCheck(m, revision, failed) IN
                  /\ rows' = Scheduled(Q, {k}, revision, replaces)
                  /\ dropped' = (Q[k].status \in {"RUNNING", "DONE"})
       ELSE /\ rows' = IF m.mode = "NORMAL" /\ replaces
                       THEN CheckpointsScheduled(Q, revision, t, TRUE) ELSE Q
            /\ dropped' = FALSE

\* performRefresh: observationAdvanced, from the state read before the call.
Records(r) == ~r.skips /\ (r.before.decided = 0 \/ r.answer > r.before.decided)

\* Mistaken: the binding may have gone on to another observation.
CurrentAnyObservation(r) ==
    /\ Enabled(r.revision)
    /\ Records(r) => (Ensured.decided = 0 \/ Ensured.decided < r.answer)

Current(r) ==
    /\ binding.at = r.answer /\ Enabled(r.revision)
    /\ Records(r) => (Ensured.decided = 0 \/ Ensured.decided < r.answer)

\* lastDecisionSnapshot, or the snapshot selected when the flight was adopted.
PreviousStatus(r) == IF ~Records(r) THEN LatestStatus
                     ELSE observations[IF monitor.decided = 0 THEN binding.since
                                       ELSE monitor.decided].status

\* findContext again (not where the refresh was skipped), then commitRefresh.
CommitRefresh(p) ==
    LET r == run[p]
        m == Decided(Ensured, LatestStatus, r.instant)
    IN
    /\ Step(p, "commit", Ended(p))
    /\ IF Current(r) /\ (r.skips => monitor.present)
       THEN /\ monitor' = IF Records(r) THEN [m EXCEPT !.decided = r.answer] ELSE m
            /\ alerts' = alerts \cup {[since |-> binding.since, at |-> r.answer, kind |-> k] :
                                      k \in News(monitor, PreviousStatus(r), LatestStatus)}
            /\ Follow(rows, m, r.instant, r.revision,
                      m.mode # "NORMAL" \/ monitor.mode # "NORMAL", FALSE)
       ELSE /\ monitor' = IF r.skips THEN monitor ELSE Ensured
            /\ UNCHANGED <<alerts, rows, capability, dropped>>
    /\ UNCHANGED <<now, observations, binding, overwritten, faults, outages>>

\* stateUpdate with the state that was read before the provider was called.
Restored(b) == [monitor EXCEPT !.mode = b.mode, !.cancelled = b.cancelled, !.window = b.window]

Judgement(m) == <<m.mode, m.cancelled, m.window>>

\* commitProviderFailure.
CommitFailure(p) ==
    LET r == run[p] IN
    /\ Step(p, "failed", Ended(p))
    /\ IF Monitored(p) /\ monitor.present
       THEN /\ monitor' = Restored(r.before)
            /\ overwritten' = (overwritten \/ Judgement(r.before) # Judgement(monitor))
            /\ Follow(rows, r.before, r.instant, r.revision,
                      /\ r.before.mode \in {"DELAYED", "CANCELLED", "BAGGAGE"}
                      /\ HasNextCheck(r.before, r.instant),
                      TRUE)
       ELSE UNCHANGED <<monitor, overwritten, rows, capability, dropped>>
    /\ UNCHANGED <<now, observations, binding, alerts, faults, outages>>

\* The execution returns; the runner marks its row.
Settle(p) ==
    /\ Step(p, "settle", Idle)
    /\ rows' = Finished(run[p].row)
    /\ UNCHANGED <<now, capability, observations, binding, monitor, alerts, overwritten, dropped, faults, outages>>

\* No row brings back an execution that was a job's or had an answer accepted.
Lost(p) == /\ Monitored(p) /\ rows' = Finished(run[p].row)
           /\ run[p].row # NoKey \/ run[p].pc = "commit"

\* An error, a timeout or a crash ends an execution between two of its steps.
Breaks(p) ==
    /\ faults < MaxFaults /\ run[p].pc # "idle"
    /\ run' = [run EXCEPT ![p] = Idle]
    /\ rows' \in {Requeued(run[p].row), Finished(run[p].row)}
    /\ dropped' = (dropped \/ Lost(p))
    /\ faults' = faults + 1
    /\ UNCHANGED <<now, capability, observations, binding, monitor, alerts, overwritten, outages>>

\* A lapsed lease or an aborted attempt: the row is for others, the code goes on.
Detaches(p) ==
    /\ faults < MaxFaults /\ run[p].row # NoKey
    /\ run' = [run EXCEPT ![p].row = NoKey]
    /\ rows' = Requeued(run[p].row)
    /\ faults' = faults + 1
    /\ UNCHANGED <<now, capability, observations, binding, monitor, alerts, overwritten, dropped, outages>>

-----------------------------------------------------------------------------
(* The heartbeat, the user, and time.                                         *)

ExpectedMode == ModeFor(LatestStatus)

\* Neither departed nor landed by status; a runway time is not looked at.
Eligible == now >= Opens /\ LatestStatus \notin {"DEPARTED", "LANDED"}

\* Mistaken: the heartbeat trusts the mode on record.
ModeOnRecord == monitor.mode

\* The mode the heartbeat expects of an eligible binding.
HeartbeatMode == IF LatestStatus \in {"CANCELLED", "LATE"} THEN ExpectedMode ELSE "NORMAL"

\* ensureEligibleMonitoring of a worker's heartbeat.
Heartbeat ==
    /\ capability.state = "ENABLED" /\ Eligible
    /\ monitor' = Ensured
    /\ LET revision == capability.revision IN
       IF Live(revision) # {} \/ FreeFollowUps(rows) = {} THEN UNCHANGED rows
       ELSE IF monitor.mode # HeartbeatMode \/ HasNextCheck(monitor, now)
            THEN \/ rows' = FollowUpScheduled(rows, revision)
                 \/ /\ monitor.mode = "CANCELLED" /\ HeartbeatMode = "CANCELLED"
                    /\ rows' = Scheduled(rows, {LastCheck(monitor, revision, FALSE)}, revision, FALSE)
       ELSE rows' = IF monitor.mode = "NORMAL"
                    THEN CheckpointsScheduled(rows, revision, now, FALSE) ELSE rows
    /\ UNCHANGED <<now, capability, observations, binding, run, alerts, overwritten, dropped, faults, outages>>

\* mutateFlightCapability; decideAssistanceTransition.  The last revision is
\* left to a natural end.
Transitions == {[action |-> "ENABLE", from |-> {"NOT_ENABLED", "STOPPED"}, to |-> "ENABLED"],
                [action |-> "PAUSE",  from |-> {"ENABLED"},                to |-> "PAUSED"],
                [action |-> "RESUME", from |-> {"PAUSED"},                 to |-> "ENABLED"],
                [action |-> "STOP",   from |-> {"NOT_ENABLED", "ENABLED", "PAUSED"}, to |-> "STOPPED"]}

\* Mistaken: pausing leaves the revision as it is.
RevisionKept(to) == IF to = "PAUSED" THEN capability.revision ELSE capability.revision + 1
NextRevision(to) == capability.revision + 1

MutateCapability(t) ==
    /\ capability.state \in t.from /\ capability.revision + 1 < MaxRevision
    /\ capability' = [state |-> t.to, revision |-> NextRevision(t.to)]
    /\ rows' = IF t.to \in {"PAUSED", "STOPPED"} THEN QueueCancelled(rows) ELSE rows
    /\ dropped' = FALSE
    /\ UNCHANGED <<now, observations, binding, monitor, run, alerts, overwritten, faults, outages>>

\* PrismaFlightRepository.adopt of another flight onto the edge: the monitor
\* state and the rows of the old generation are gone, running or not.
Adopt(f) ==
    /\ f # binding.flight /\ ~binding.flown
    /\ Len(observations) < MaxObservations
    /\ \E s \in Reports : observations' = Append(observations, [flight |-> f, status |-> s])
    /\ binding' = [flight |-> f, since |-> Len(observations) + 1,
                   at |-> Len(observations) + 1, flown |-> FALSE]
    /\ monitor' = NoMonitor
    /\ rows' = [k \in Keys |-> NoRow]
    /\ run' = [p \in Runs |-> [run[p] EXCEPT !.row = NoKey]]
    /\ UNCHANGED <<now, capability, alerts, overwritten, dropped, faults, outages>>

TimePasses ==
    /\ now < Horizon
    /\ now' = now + 1
    /\ UNCHANGED <<capability, observations, binding, monitor, rows, run, alerts, overwritten,
                   dropped, faults, outages>>

-----------------------------------------------------------------------------
Executes(p) ==
    \/ JobContext(p) \/ ReadBefore(p)
    \/ FetchNew(p) \/ FetchSame(p) \/ FetchFails(p) \/ Accept(p)
    \/ CommitRefresh(p) \/ CommitFailure(p) \/ Settle(p)

Calls(p) == ManualRefresh(p) \/ Trigger(p)

Next ==
    \/ \E p \in Runs : Executes(p) \/ Breaks(p) \/ Detaches(p)
    \/ \E p \in Workers, k \in Keys : Claim(p, k)
    \/ \E p \in Clients : Calls(p)
    \/ Heartbeat
    \/ \E t \in Transitions : MutateCapability(t)
    \/ \E f \in Flights : Adopt(f)
    \/ TimePasses

Spec == Init /\ [][Next]_vars

\* Executions end, workers claim, heartbeats come, time passes.
FairSpec ==
    /\ Spec
    /\ \A p \in Runs : WF_vars(Executes(p))
    /\ \A p \in Workers : WF_vars(\E k \in Keys : Claim(p, k))
    /\ WF_vars(Heartbeat) /\ WF_vars(TimePasses)

-----------------------------------------------------------------------------
(* Properties.                                                                *)

\* A row is RUNNING exactly while one execution holds it.
RowsAreHeld ==
    /\ \A p \in Runs : run[p].row # NoKey => rows[run[p].row].status = "RUNNING"
    /\ \A k \in Keys : rows[k].status = "RUNNING" => \E p \in Runs : run[p].row = k
    /\ \A p, q \in Runs : run[p].row = run[q].row /\ run[p].row # NoKey => p = q

\* The types of the variables, and the agreement of rows and executions.
TypeOK ==
    /\ RowsAreHeld
    /\ now \in 0..Horizon
    /\ capability \in [state : {"NOT_ENABLED", "ENABLED", "PAUSED", "STOPPED"},
                       revision : 0..MaxRevision]
    /\ observations \in Seq([flight : Flights, status : Reports])
    /\ Len(observations) \in 1..MaxObservations
    /\ binding \in [flight : Flights, since : 1..Len(observations),
                    at : 1..Len(observations), flown : BOOLEAN]
    /\ monitor \in Monitor
    /\ rows \in [Keys -> Row]
    /\ run \in [Runs -> Run]
    /\ alerts \subseteq [since : 1..MaxObservations, at : 1..MaxObservations,
                         kind : {"CANCELLED", "RESTORED"}]
    /\ overwritten \in BOOLEAN /\ dropped \in BOOLEAN
    /\ faults \in 0..MaxFaults /\ outages \in 0..MaxOutages

\* Work that can still take effect was authorised: a row or an execution carries
\* a revision the capability has had, and the present one only while monitoring
\* is enabled, whatever was in flight when it was paused, stopped or resumed.
WorkIsAuthorised ==
    /\ \A k \in Keys : rows[k].status \in {"QUEUED", "RUNNING"} =>
          /\ rows[k].revision \in 1..capability.revision
          /\ rows[k].revision = capability.revision => capability.state = "ENABLED"
    /\ \A p \in Runs :
          /\ run[p].revision <= capability.revision
          /\ run[p].revision = capability.revision /\ capability.revision # 0
             => capability.state = "ENABLED"

\* The monitor never decides ahead of the binding nor about another adoption:
\* its last decision, and every alert of this adoption, is about an observation
\* accepted since the flight was adopted.
DecisionsFollowBinding ==
    /\ binding.since <= binding.at
    /\ observations[binding.since].flight = binding.flight
    /\ observations[binding.at].flight = binding.flight
    /\ monitor.decided # 0 => monitor.decided \in binding.since..binding.at
    /\ \A a \in alerts : a.at <= binding.at /\ a.since <= a.at

\* Two CANCELLED alerts of one adopted flight have a RESTORED alert in between.
CancellationsAlternate ==
    \A a, b \in {x \in alerts : x.kind = "CANCELLED"} :
        a.since = b.since /\ a.at < b.at =>
            \E c \in alerts : /\ c.kind = "RESTORED" /\ c.since = a.since
                              /\ a.at < c.at /\ c.at < b.at

\* A cancellation is told once, unless a provider failure has put back a state
\* of the monitor that was read before somebody else's decision.
CancellationToldOnce == ~overwritten => CancellationsAlternate

\* The end of the baggage window stands once it is set, with the same exception.
WindowStands ==
    [][monitor.window # 0 /\ binding'.since = binding.since =>
         monitor'.window = monitor.window \/ overwritten']_vars

\* A monitored flight that has not departed gets the mode of its latest accepted
\* observation, although the caller that accepted it may have died: a check that
\* is pending or the heartbeat's reconcile job catches up.  (A row that falls due
\* after the bounded clock does not count.)
Reached   == \A k \in LastCheckKeys : rows[k].status = "QUEUED" => k[2] <= Horizon
Watched   == capability.state = "ENABLED" /\ BeforeDeparture(LatestStatus) /\ Reached
ModeAgrees == monitor.present /\ monitor.mode = ExpectedMode
ModeCatchesUp == Watched /\ monitor.mode # "STOPPED" ~> ModeAgrees \/ ~Watched \/ monitor.mode = "STOPPED"

\* A tail of baggage or cancellation checks that is pending ends monitoring, however
\* jobs, triggers and refreshes overlap, fail and are repeated, unless its check
\* was dropped: the key was taken, no row brings a broken execution back, or a
\* refresh outside monitoring came before the commit.  (A window that ends beyond
\* the bounded clock does not count.)
InTail == /\ capability.state = "ENABLED"
          /\ monitor.mode \in {"BAGGAGE", "CANCELLED"} /\ monitor.window <= Horizon
Pending == Live(capability.revision) # {}
TailRunsOut == InTail /\ Pending ~> ~InTail \/ (dropped /\ ~Pending)
=============================================================================
