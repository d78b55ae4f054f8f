# Verification of TRAVEL-V1

TRAVEL-V1 is a trip planning and execution assistant: an HTTP API, a background
worker, a PostgreSQL database reached through Prisma, and React clients. This
directory holds TLA+ models of its stateful core, the TLC configurations that
check them on small instances, and machine-checked proofs.

## 1. The system

| Part | State | Operations | What is hard |
| --- | --- | --- | --- |
| Job queue (`prisma-job-repository.ts`) | table `Job` | claim with lease, succeed, fail/retry, cancel | workers race, leases expire, clocks differ |
| Job runner (`apps/worker/src/job-runner.ts`) | accepting, active, abort | poll, execute, timeout, stop | crash, stop at any await, lost replies |
| Worker runtime (`runtime.ts`, `main.ts`) | IDLE..STOPPED, in-flight heartbeats | start, heartbeat, stop | signals during start |
| Authentication (`auth-service.ts`, `prisma-auth-repository.ts`) | `User`, `Invitation`, `Session`, `MagicLinkToken`, throttling bucket | request, consume, invite, revoke, disable | single use, concurrent consumption, revocation |
| Magic link delivery (`magic-link-email-handler.ts`, `prisma-magic-link-delivery-repository.ts`) | `MagicLinkDeliveryRequest`, its token and generation | prepare, send, mark delivered | at-least-once mail, account disabled in between |
| Stored objects (`object-service.ts`, `prisma-stored-object-repository.ts`, `local-filesystem-storage.ts`, reconciliation) | `StoredObject`, files | store, retrieve, delete, clean up, reconcile | two stores, crashes, cleanup racing an upload |
| Notifications | `NotificationEvent` | create once per key, view, dismiss, list | dedupe, set-once stamps |
| Flights (`flight-service.ts`, `prisma-flight-repository.ts`) | `FlightBinding`, temporal values | search, adopt, refresh | provider answer older than the row |
| Flight monitoring | `FlightMonitorState`, jobs | schedule, refresh, provider failure, natural end | stale state across the provider call |
| Assistance capability | `TripCapability`, `FlightCapability`, receipts | enable, pause, stop with revisions | idempotency, fencing of running jobs |
| Execution risk, execution location | risk states, location state | evaluate, accept, report a position, prompt | revisions, stale observations |
| Ground transit | observations, jobs, impact | schedule, execute, re-evaluate the route | as for flights |
| Route query, preview, adoption, undo | candidate snapshots, previews, adopted routes, undo records | query, preview, adopt, undo | trip version changes underneath, compensation |
| External execution origin (`external-execution-origin-service.ts`, `prisma-external-route-adoption.ts`) | `ExternalExecutionOrigin` rows, previews and deltas of routes from them | confirm, depart, query, preview, adopt, undo | evidence shown and gone, reports and events in between |
| Trip core (`trip-service.ts`, `prisma-trip-repository.ts`) | `Trip`, days, nodes, edges, temporal values, authoring receipts | author, move, delete, confirm | optimistic versions, day sequence |
| Scheduling (`schedule-evaluator.ts`, `schedule-propagator.ts`, `planning-policy.ts`) | none (pure) | evaluate, propagate | time windows, overnight, zones |
| Static backup, place search, in-trip read | backups | save, read | |
| HTTP API (`apps/api`), clients (`apps/web`, `apps/debug-web`), providers, `services/google-consumer-transit`, scripts | request state, UI state | | |

The API and the worker share nothing but the database. The API enqueues jobs in
the transaction of the change that needs them; the worker claims them and calls
the services; the heartbeat of the worker schedules monitoring and reconciles
storage. Every service talks to providers or to mail outside its transactions,
so what it read before the call may be stale after it.

## 2. Plan

Done: the job table and its runners, stored objects, sign-in by mail, flight
monitoring, the plan of a trip under route adoption and undo, days and dates,
ground transit with its execution risk, execution location, external origins,
scheduling with the route query. All have proofs. To come:

1. Theorems: what each reading of a ground leg implies for the risk it opens and
   resolves.
2. The runtime of the worker, the transit browser service, the receipts of
   assistance capabilities, notifications a user reads and dismisses.
3. The downstream impact of a preview, and platforms and protected connections
   of a ground leg.

What is proved:

| Module | Properties of a run that its theorems prove | Section |
| --- | --- | --- |
| `JobRunnerProofs` | `SettledByHolder`, `LifecycleSpec` | 3 |
| `StoredObjectProofs` | `ReadyIsReadable`, `GoneIsGone` | 4 |
| `MagicLinkProofs` | `OneSessionPerDelivery`, `DisabledIsSignedOut` | 5 |
| `FlightMonitoringProofs` | `WorkIsAuthorised`, `DecisionsFollowBinding`, `CancellationToldOnce`, `WindowStands` | 6 |
| `RoutePlanProofs` | `UndoRestores`, `NoTraceOfUndone`, `UndoAvailable`; of `ExternalOrigin`: `PreviewStands`, `ConfirmedIsCurrent`, `UndoReopensPlanning`, `ExecutionSurvives` | 7, 11 |
| `TripDaysProofs` | `OwnsItsRange`, `TransportJoinsNeighbours`, `OccupiedDaysAreEmpty`, `FactsKeepTheirDay`, `CalendarSpec`; of `RouteQuery`: `WindowsAreExact`, `FloorHolds`, `RankingIsDeterministic` | 8, 12 |
| `GroundTransitProofs` | `OnePresentation`, `LastingDelayToldOnce`, `WithdrawnJobIsSilent`, `ReportsLeaveProgress` | 9 |
| `ExecutionLocationProofs` | `FactsAreEvents`, `SingleCaller`, `ObservedInOrder`, `LocationFollowsOrder`, `CorrectionStands`, `PermissionHolds` | 10 |

Each proof module gives the inductive invariant `IInv`, shows that `Init` implies it
and that every action keeps it, action by action and conjunct by conjunct, and draws
the properties from it. Action properties are shown of one step from a state with
`IInv`. Two modules hold the proofs about a second model, as an instance: `External` in
`RoutePlanProofs` and `Query` in `TripDaysProofs`. Modules with a proof module use no `RECURSIVE` operator.

## 3. Jobs

`JobQueue` translates each SQL statement of the repository into a guard and a
function on a row. `JobRunner` adds the worker processes: `wk[w].pc` names the
`await` at which the event loop of worker `w` is suspended, so one action is one
statement and the code up to the next await. `JobLifecycle` is the promise: how
the status and the attempt count of one row may move.

*Time.* A row is `due` or `later`; a lease is `live`, `lapsing` (some process
still holds an instant before `leaseUntil`, another one after) or `lapsed`. In
`lapsing` both outcomes of a comparison are allowed, which covers clock skew and
the delay between reading `now` and running the statement. Claim order
(`runAt, createdAt, id`) is abstracted to any claimable row.

*Worker ids* identify processes (`WORKER_ID` or a generated id). A restarted
process may have the same id. Two processes running at once under one id
are outside the model: the fence is the id.
`infra/compose/compose.yml:109` gives a fixed id, so the service must not be scaled.

*Callers.* The writers outside the runner that touch the table are actions too:
enqueueing, the cancellations of monitoring and of adoption, the reactivation of
a cancelled row, and `cancel`, which nothing under `src/` calls but the
repository offers; its two statements and final read are three actions.

*Not modelled:* the handler that goes on in the background after its abort won
the race (its effects belong to the component it works on), error codes, and the
backoff arithmetic.

| Run | Question | Bounds |
| --- | --- | --- |
| `job_runner` | does every ending of an attempt come from its holder, do rows follow the life cycle, is every job settled, or orphaned in its last attempt? | 1 job, 2 workers, 2 attempts, 2 faults, 1 reactivation |
| `job_lost_last_attempt` | finding: a crash in the last attempt is never recovered | 1 job, 1 worker |

Rows do not interact except through a worker's hands, so one job with two
workers meets every race on a row; a takeover by a third worker repeats that by
the second. Two faults allow a crash or a lost reply during the recovery of another.

*Observed:* `stop()` aborts and awaits `active`, which is not set while `runOnce`
awaits `claimNext`; the handler of a job claimed in that window starts after the
stop and its signal is never aborted (`job-runner.ts:223`; ADR 0003 line 29 says a
stop notifies the execution in flight). The model has these steps.

*Fairness:* the event loop makes progress (`WF` on the steps of each worker,
among them the restart that `restart: unless-stopped` provides) and time passes.
Nothing is assumed about producers, cancellation, or which job is claimed.

*Proofs* (`JobRunnerProofs`), for any jobs, workers, attempts and bounds. The
invariant `IInv` conjoins the types, `RowOK` of each row, and `ClaimMatchesRow`:
`markFailed` decides FAILED or QUEUED from the copy `claimNext`
returned, so `FailedMeansExhausted` needs that the row still counts the same
attempt whenever its owner is the worker, and that follows because a worker
claims only with empty hands. `RowChange` then says how one step
changes one row; `OnlyHoldersSettle` and `ImplementsLifecycle` (the refinement
of `JobLifecycle`) follow. `TypeOK`, `TableChecks`, `ClaimMatchesRow` and
`FailedMeansExhausted` are proved and not run; `EventuallySettled` is
model-checked only.

## 4. Stored objects

`StoredObject` has the rows (`row`), the object and partial file under each
storage key (`file`) and the processes (`pr`): the upload request of each object
(`ObjectService.store`), delete requests, and the reconciliation of the workers'
heartbeats. No transaction spans the two stores, so each SQL statement and each
file operation is an action and a crash may come between any two. The table's
claims are numbered by `cleanupAttempts`; completing and failing a cleanup are
fenced by that number.

*Abstractions.* Content is one unit of size; a row's age against
`pendingBefore` and a cleanup's backoff are flags that time sets; names, hashes
and media types are left out. Keys are generated by the server and used once.

| Run | Question | Bounds |
| --- | --- | --- |
| `stored_object` | is a READY object readable, a removed one gone, does every dead object get cleaned? | 1 object, 1 delete request, 2 reconcilers, 2 faults |

Objects share only the quota, which the reservation checks in one statement;
two reconcilers and a delete request are every pair of cleaners that can meet
on one object, with the upload as a third party.

*Fairness:* processes take their steps, heartbeats come, and a row grows old;
nothing forces a request to arrive. Faults are bounded.

*Observed:* the cleanup of a reservation that grew stale sets `storageDeletedAt`
while the slow upload may still write (`prisma-stored-object-repository.ts:78`):
the file it then leaves belongs to a row that counts as cleaned, which
P5-AUDIT-REPAIR-4 (lines 19 and 43) rules out. The upload's own failure path
removes it unless the process dies first. `GoneIsGone` therefore speaks of
objects whose upload is over and was not cut off.

*Proofs* (`StoredObjectProofs`), for any sets of objects and processes. `IInv` adds
to the types what a process's place tells it (`HandOK`: an upload at `stored` has
written its file, or lost it only to a cleaner of a dead row), what a cleaner may
conclude (`CleanOK`), and `ObjOK` of each object. The core is that a claim
raises `cleanupAttempts`, so a cleaner whose number is out of date cannot set
`gone`; each action is shown to keep every other process's knowledge (`StepOK`).
`TypeCorrectness`, `ReadyHasContent`, `DeletionIsPhysical` and `StatesMoveForward`
follow; the first and the last are proved and not run. Liveness is model-checked only.

## 5. Sign-in

`MagicLink` is the life of one address: invitation and account (`account`), the
throttling bucket, the delivery requests with their jobs, one token per delivery,
sessions, and `MagicLinkEmailHandler.execute` in the workers (`handler`).
Serializable transactions are one action. `prepareDelivery` runs at READ
COMMITTED under the lock of its delivery only, so its reads of delivery, user and
invitation and its final write are actions of their own and administrators come
in between. `mailed` is the mailbox: the generations of links that were sent.

*Abstractions.* Secrets are the generation of a token; hashes are left out. The
runner's side of a job is reduced to its attempts and whether it is open; the
precise table is the subject of section 3. Expiry is an event.

| Run | Question | Bounds |
| --- | --- | --- |
| `magic_link` | does a delivery open one session at most, is a disabled account signed out, is every request processed? | 1 delivery, 2 workers, 2 sessions, 3 generations, 3 attempts, 2 faults, 2 changes by administrators |

The two workers are two executions of one job, of which one has outlived its
lease; as many generations as attempts, so no renewal is cut off. Deliveries of
one address meet only in the account and the bucket: what that could break
(two links of one invitation, the limit of the bucket) is proved for any number.

*Observed:* a link prepared from a status read before its account was disabled is
created after `setUserStatus` voided the others, and is valid again once the
account is enabled (`prisma-magic-link-delivery-repository.ts:96`; ADR 0002
line 37). While the account is disabled the link opens nothing.

*Fairness:* only the steps of the handlers; attempts are limited by the job.

*Proofs* (`MagicLinkProofs`), for any deliveries, workers, sessions and bounds.
`IInv` conjoins the types, that at most one handler holds a delivery's lock
(`Exclusive`), what a handler has read and may still rely on (`HandlerOK`), and per
delivery that a consumed token stays consumed (`Spent`), generations of row, token
and mailbox agree (`Agrees`) and delivered links were mailed (`WasMailed`).
`OneSessionPerDelivery` and `DisabledIsSignedOut` follow, and four properties that
no run checks: `TypeOK` with the limit of the bucket, `AccountsAreInvited`,
`GenerationsAgree` and `DeliveredWasMailed`. `EventuallyProcessed` is model-checked only.

## 6. Flight monitoring

`FlightMonitoring` follows one flight binding: the observations (`observations`,
numbered by `fetchedAt`), the binding, the capability with its revision, the
monitor state, the FLIGHT_MONITOR rows, and the executions `run` that carry what
they read: jobs on workers, and clients' triggers and refreshes. An execution is
`context`, `before`, `fetch`, `accept`, `commit` or `failed`, and `settle`: one
transaction or one provider call each. Between them other executions commit, the
user pauses, resumes or stops monitoring, and another flight is adopted.

*Abstractions.* The snapshot a flight is adopted with counts as the newest
observation. Time is a clock of a few instants: the checkpoints, the end of a
cancellation tail and of the baggage window. The notices for delay, gate,
terminal, boarding, baggage belt and outage, the arrival at the airport and
`evaluateTripRisks` are left out; the marks of a cancellation and the baggage
window are kept, since later decisions read them. A lapsed lease or an abort
detaches a row from its execution, which goes on.

A follow-up check is due after an interval or at the end of its tail, whichever is
first (domain `flight-monitoring.ts:185`, `:407`). An instant within the tail carries
its own milliseconds and never comes back, so these rows are numbered places. The
last instant does come back: each commit near the end names the same key of reason,
instant and revision. `Scheduled` treats it as `scheduleJob` does: a taken key is
left alone, a CANCELLED row is queued again where the caller says so. When an
execution starts before the end, `Follow` leaves open which of the two it makes.

Two history variables name what the code loses: `overwritten`, that
`commitProviderFailure` put back an older state, and `dropped`, that the check last
made, or the execution that was to make it, was lost (see below). Every later
decision clears `dropped` unless its own check is lost.

| Run | Question | Bounds |
| --- | --- | --- |
| `flight_races` | do overtaking answers, triggers, a pause, a stop and a change of flight keep work authorised and decisions within the binding's observations? | 2 flights, 1 worker, 1 client, 2 reports, 3 observations, revisions to 3, 1 outage; the clock stands |
| `flight_tail` | does the window stand, does the mode catch up, does a tail run out? | 1 flight, 1 worker, 1 client, 3 reports, 2 observations, revisions to 2, 1 fault; instants 0 and 1 |

One worker and one client are two executions with different entry points; three
observations are the adopted one and one for each execution, enough for answers
to overtake. The invariants of `flight_races` do not speak of time, so its clock
stands; three revisions are enable and a pause or a stop with work in flight, and
the one `MutateCapability` leaves to a natural end. A resume over work in flight
needs a fourth, too many states for this run: there theorem `Authorisation` stands
alone. In `flight_tail` the end of both tails is the second instant, two revisions
are enable and the natural end, and a job, a trigger and a manual refresh overlap in
any order.

*Fairness:* executions end (calls and handlers have time limits), workers claim,
heartbeats come, time passes. Users, the provider and clients owe nothing.

*Observed:* a tail hangs on the one check that each commit schedules, and
`ensureEligibleMonitoring` passes over landed flights
(`prisma-flight-monitoring-repository.ts:46`). A pause cancels the check and the
resume makes none, so `TailRunsOut` speaks of tails with a live row
(P5-AUDIT-REPAIR-2 line 50). From there it says: monitoring ends, or the check was
lost (`dropped`) and no live row is left. There are three ways, each
reached in the model, and after each a landed flight stays ENABLED until somebody
refreshes it:

- An execution that read the time before the end commits while the last check is
  RUNNING or after it has finished. Its own check has the same key, so the upsert
  with `update: {}` (`:469`, `:500`) makes no row. When its observation moved the
  binding, the commit of the last check is refused (`:216`), so that does not end
  monitoring either. No failure is needed, only a client's refresh that overlaps the
  last job.
- An execution dies for good: a job's last attempt, or a trigger's whose answer was
  accepted and which no row repeats.
- `FlightService.refresh` (`apps/api/src/app.ts:431`) accepts a newer observation
  between another execution's accept and commit. The commit is refused, and a plain
  refresh schedules nothing.

P5-AUDIT-REPAIR-2 (lines 49-50 and 69-70) says that a tail ends monitoring when it
comes to its end, and P5D3 (line 48) that the baggage checks go on up to the end of
their window. The property names the three ways; no run states the stronger claim.

`commitProviderFailure` (`prisma-flight-monitoring-repository.ts:364`) writes the
monitor state read before the call over whatever others decided meanwhile: a
cancellation that was told is forgotten and told again, a baggage window is lost,
also those of a flight adopted meanwhile, although P5D3 (lines 26 and 69) tells each
once. `WindowStands` and `CancellationToldOnce` except histories in which that
happened (`overwritten`).

*Proofs* (`FlightMonitoringProofs`), for any flights, workers, clients and bounds
(at least one observation, one revision and one window length). `IInv` conjoins
the types, what an execution holds (`RunOK`), `CapabilityOK` (what is enabled has
a revision and leaves one to the natural end), `WorkIsAuthorised`,
`DecisionsFollowBinding`, and what `CancellationToldOnce` needs besides them: an
alert is about the observation it is numbered by (`AlertsAreReports`), and a
cancellation told of this adoption is marked on the monitor until its restoration is
told (`Remembered`). That mark is what `commitProviderFailure` may put back, hence
the exception of `overwritten`. The authority of rows and executions is an argument
of its own (`RowsOK`), since it does not depend on observations. `WindowStands`
follows from one step: the only action that clears a window of the same adoption is
the one that sets `overwritten`. `TypeOK` is proved and not run; `ModeCatchesUp`
and `TailRunsOut` are model-checked only.

## 7. The plan of a trip

`RoutePlan` is one trip: its version, the order of its nodes, the rows of nodes,
edges, archived edges, adopted routes and receipts, and the drafts (candidate
snapshots and previews). Every operation is one transaction under the owner's
advisory lock and the lock of the `Trip` row, hence one action: `Adopt` is the
whole of `executeAdoption`, `Undo` the whole of `executeUndo`, the commands are the
cases of `applyCommand` with the archiving of edges that follows each, and the
facts are what execution (`Arrive`, `Depart`, `UndoEvent`) and providers
(`AdoptFlight`, `ObserveFlight`) write. The interleavings are in what a request
carries: every snapshot and preview ever stored may be presented at any later
version, by any device, in any order.

A refused request and a replay answered from its receipt change nothing; they
are no steps. The clock only refuses (expired evidence, a missed departure, a
closed undo window), so a model without it has every behaviour of one with it.

*Correspondence.* `Corridor` is `resolveCurrentRouteReplacementCorridor`, which
query, preview, adoption and undo all call; `Summary` is `buildChangeSummary`;
`Adoption` the checks of `executeAdoption`, `NewOrder`, `NewNode`, `NewEdges` what it
writes and `Delta` what it leaves for undo; `UndoStateStands` is
`validateCurrentUndoState`, `SuffixStands` `validateV4Corridor` (delta v4, when only
the rest of a route was replaced). A route, a receipt and the rows they create
are named by the version they were made at, so no id is issued twice.
`planBefore` is a history variable, the plan each adoption started from.

*Abstractions.* All nodes lie on one day, so occurrences, date ownership and day
projections are left out, and a position is an index. A candidate is the sequence of its
transfer stops and its `impact` on what follows: it fits, it needs the last place's
minimum stay lowered with the user's consent (from 2 to 1), or it is infeasible. A
node's note, times set by the user and replaced place are one flag `touched` for a
generated node, and its minimum stay is `dwell`. Left out: the external-origin variants
(section 11), point time intents, skips, the ground-transit legs and jobs of a route,
outbox rows.

*Start.* Any subset of neighbours is joined by manual transport, any of that with a
bound flight; the traveller is or is not at the first place; the last place has
a minimum stay. Longer histories come from the steps.

| Run | Question | Bounds |
| --- | --- | --- |
| `route_plan` | does undo give back the plan, can the last adoption be undone, does nothing that was undone leave a trace? | 2 places, offers of 0 to 2 stops at 2 locations, versions to 5, 1 open snapshot, 1 change besides adoption and undo |

`MaxVersion` 5 is four changes of the plan: an arrival at a stop of an adopted
route, its suffix replaced, that undone, and the route undone or replaced again
fit within it. `MaxEdits` 1 is one command or fact in any place among them;
`MaxSnapshots` 1 bounds the open snapshots, their previews stay. Stops may be the
same in another order, so nodes are reused, moved, created and removed. The run
stops at the version bound, so deadlock is not checked. No fairness is assumed and
no liveness stated: nobody owes the trip another step.

*Observed.*
- `executeAdoption` never reads a preview's `downstreamImpact`
  (`prisma-route-adoption.ts:259`), so a preview shown as not adoptable is adopted;
  `route-preview-service.test.ts:174` and `preview-presentation.ts:152` treat it as
  refused, and the external-origin adoption does refuse it.
- Undo restores a flight leg but not its `FlightBinding` (`prisma-route-undo.ts:251`;
  ADR 0008 line 34 has undo restore the legs of before). `UndoRestores` excepts the
  flights of restored legs.
- On a full corridor a preview that reuses a generated node the user has touched
  is shown adoptable (`route-preview-plan.ts:284` looks at removed nodes only) and
  then refused, since the adoption looks at reused nodes too.
- An ACTIVE route whose edges a command archived or whose interior got another
  node is no corridor any more, and while it is ACTIVE its end cannot be the end of
  another one: those places cannot be planned again.
- A route's anchor can never be deleted by the user, not even when the route is
  UNDONE or REPLACED (the row keeps its foreign key).
- Undo makes the previous route ACTIVE again but not its cancelled
  GROUND_TRANSIT_MONITOR jobs.
- A query from a node the adoption created blocks its undo as long as the
  snapshot exists (`UndoAvailable` says so).

*Proofs* (`RoutePlanProofs`), for any trip, offers and bounds. `IInv` says that the
day is one line of distinct rows whose edges join neighbours and whose ids are
older than the version (`PlanOK`, `RoutesOK`), that every plan an adoption started
from was one too (`PastOK`), that corridors and previews refer to rows that exist
(`DraftsOK`), and `OneActiveRoute`. `UndoRestores` compares two states far apart, so
it needs one part more: what undo would make of the present state is the plan its
adoption started from (`UndoOK`, for as long as the adoption can be undone). Adoption
establishes it (`AdoptedReturns`); queries and previews leave the plan alone; any other
change of the plan raises the version, after which the adoption cannot be undone; an
undo is the step that uses it. `CorridorShape` is the lemma the adoption rests on:
what query, preview and adoption call a corridor is a part of the line with all its
edges and one route. `TypeCorrect`, `TimelineAlwaysSound`, `OneRouteAlways` and
`UndoAlwaysRestores` follow; `TypeOK`, `TimelineSound` and `OneActiveRoute` are proved
and not run.

`NoTraceOfUndone` needs the owners of rows (`TraceInv`): every edge, archived ones
included, is the user's or an adopted route's, an undone route owns no row, and
neither it nor the route that could be undone next owns one in the plan undo would
give back. Every step gives rows only to owners that had one, or to the route just
adopted (`OwnersKept`). `UndoAvailable` is then inductive: any other change of the plan
raises the version, and a query adds a snapshot only, so the work is
`AdoptedUndoable`, that an adoption passes every check undo makes of it. The new
route's nodes and edges are told by their ids, their owner and their places alike
(`AdoptedNodesOf`, `AdoptedEdgesOf`, which needs that no older edge claims the new route,
part of `TraceInv`), so its recomputed corridor is the whole of it (`CorridorAfter`). For
a suffix undo also recomputes the corridor that was replaced, on a line joined from the
kept prefix and the old path and on edges of which some come from the archive;
`SourceFound` finds where the route lay in the line, `SplitEdges` parts its edges,
and `CorridorBefore` shows the result to be the corridor in the receipt. Everything this
run checks is proved.

## 8. Days and dates

`TripDays` is the trips of one owner: their day occurrences with the nodes on
them (`days`), transport edges with the days they are projected onto (`edges`),
the effective range (`range`) and the `DateOwnership` rows (`ownership`). Every
command takes the owner's advisory lock and is one action; a refused one is no
step. `Commit` is what every command ends with: blank days are trimmed, the
range follows the days, dates are given back and claimed. The actions carry the
names of the commands; `AuthorAdd` and `AuthorMove` are the authoring commands
with the impact checks of `trip-authoring-impact.ts`, `AdoptDirect` the day
projections of an adopted route.

`DateCalendar` is what trips promise each other: every trip holds a run of
consecutive dates, no date is held twice, one trip at a time changes its run.
`CalendarSpec` says that `TripDays` implements it, with the run a trip holds read
off the ownership rows. `OwnsItsRange` ties the rows to the range, the other
properties tie transport and its projections to neighbours and days, and facts to
the day they happened on.

| Run | Question | Bounds |
| --- | --- | --- |
| `trip_days` | do dates, days, transport and its projections stay together under any commands, is the calendar shared as promised? | 2 trips, 3 dates, 4 nodes a trip, 3 changes from 3 starting plans |

Two trips and three dates let one trip stand between, beside or on the other's
dates. The starting plans (empty; a blank day in the middle; a full day next to
a second trip) bring every command within reach of three changes. One collision of
positions (`MoveFails`) needs a day of three and one of one, hence four nodes.

*Observed.*
- A legal move may end in a server error (`MoveFails`). A node that changes its day
  first gets position target + source + 1 there; `rewritePositions`
  (`prisma-trip-repository.ts:1417`) then adds 2 * count + 1 to all positions of the
  day in one UPDATE, under a unique index that is checked row by row
  (`20260919120000_p3a_day_occurrence_sequence/migration.sql:75`). With t target and s
  source nodes and t + 2 <= s <= 2t + 1, as from a day of three to a day of one, the
  moved node is in the way of another row. P3A line 16 says that moves across days
  are supported.
- A node with adopted transport over several days may be moved so that a day in
  between holds it no more and stays OCCUPIED (`prisma-trip-repository.ts:649`; P4B2
  line 53).
- A day left blank in the middle keeps its date inside the range, and the trip goes on
  owning it.

*Proofs* (`TripDaysProofs`), for any trips, dates, bounds and starting plans of which no
two share a date (`GivenAssumption`; the plans are states the commands reach, and the
commands refuse dates that another trip owns). `IInv` adds to the types that day and
node ids identify rows (`Timeline`), that edges are typed, and takes
`TransportJoinsNeighbours` and `OccupiedDaysAreEmpty` of one trip as `Joins` and
`Fills`: together `SoundDays(days[t], edges[t])`, to which `OwnsItsRange` comes. The
argument follows the code: every command makes new days and edges and hands them to
`Commit`. So each command is shown to be a `Change`: what it hands over is sound, and
nodes with facts stay where they were (`Stays`). Then `CommitKeeps` shows, once for all
commands, that trimming the ends and claiming dates keep soundness, give the trip
exactly its range, and take no date of another trip. The lemmas before that say what
inserting, removing and moving a node and adding a day make of neighbours, days and ids,
by place and not by search. Ids of new rows follow those in use. `CalendarSpec` is the
refinement: `Init` gives disjoint runs, and a commit maps to one trip's change of its
run, a command that leaves the dates alone to a stutter. `TypeOK`,
stated in the proof module, is not run. Everything this run checks is proved.

## 9. Ground transit and execution risk

`GroundTransit` follows one fixed-service leg of an adopted route. A refresh, by
the monitor's job (`StartJob`) or the traveller (`StartRefresh`), is a chain of
transactions with a provider call in front: `Commit` (`commitObservation`) or `Fail`
(`recordProviderFailure`), `Read`, `Reconcile` (`evaluateTripRisks` with
`reconcile`), `Present`. `work[p]` holds what the request read before; a job also
carries the revision of the permission it was listed under. `StartEvaluation` is a
risk evaluation from elsewhere, not tied to an observation. The policy
(`assessGroundTransitOperational`, `resolveGroundTransitProviderState`) is a set of
operators under the names of the code.

The interleavings are all orders of the transactions of two such chains, with
`World` in between: the traveller moves or takes a move back, permissions are
paused and resumed, the trip is edited, the route replaced, a risk acknowledged or
snoozed, time passes, and a chain dies at any point (`Crash`).

| Run | Question | Bounds |
| --- | --- | --- |
| `ground_transit` | is the traveller told once, and of the latest; does a withdrawn permission silence its jobs; do reports leave the traveller's progress alone? | 2 requests at once, 3 in all, 3 reports (on time, late, cancelled), 2 ticks, 1 event |

Two chains give every pair of transactions; the third start lets a later
refresh meet what two have left. A larger instance (2 events) of 6.4 million
states was run through once and held as well. No liveness is stated: refreshes come from
clients and heartbeats that nothing forces to succeed.

`LastingDelayToldOnce` speaks of services that run (`RunsLate`). The proof brought up
why it has to: long before departure a delay is told of a service already cancelled,
as a change of a failed leg and not as an activation, and
`markAttentionPresented` then records no band (`prisma-ground-transit-repository.ts:1030`),
so an equal delay is told again once the departure is near. The reports of the run include
a cancelled service that is also late, so that TLC meets the case.

*Observed.*
- A COMPLETED leg goes back to ARRIVED_PENDING_HANDOFF when the departure is undone
  and the arrival recorded anew (`prisma-ground-transit-repository.ts:763`;
  P5E2-GROUND-TRANSIT-OPERATIONAL-CHANGES line 9).
- A leg the traveller has arrived with can still get an alert from an evaluation that
  started before (`ground-transit-execution.ts:281`).
- An evaluation not tied to an observation may resolve a risk that a newer
  observation opened (`prisma-execution-risk-repository.ts:55`).
- A crash, or two version conflicts in a row, between commit and presentation loses
  the alert of that observation.
- Boarding while the leg is NO_LONGER_FEASIBLE is forgotten on recovery, which
  returns the leg to PENDING.

*Proofs* (`GroundTransitProofs`), for any requests, facts, events and bounds. `IInv`
conjoins the types; that observations are accepted in the order of their fetch times
(`InOrder`) and rows refer to accepted ones (`RowsOK`); what a request carries between
its transactions (`GroupOK`: its group is that of the observation it looked at, or of
its failure; `ViewOK`); and for `LastingDelayToldOnce` that the band on record is at
least every delay told since which the service has run late (`BandOK`). A request
assesses the band it has read, not the one on record: `ViewOK` says that this band
covers what was told before its observation as long as that observation is the latest,
and the lemma `Assessment` about the policy says that a delay alone is told, of a
service that runs, only above the band in view. `OnePresentation` is inductive with
these: presenting retires, in the same transaction, whatever is older. The action
properties follow from one step each. `TypeOK`, stated in the proof module, is not run.

## 10. Execution location

`ExecutionLocation` has the positions a phone reports (`Sample`), confirmations by
hand (`Manual`, `ManualAgain`), undo, permissions, and the claim of the airport
trigger. `facts` are the ACTUAL times of nodes and `events` the `ExecutionEvent`
rows; `watermark`, `last`, `skips` and `suppressed` are the tables of those names.
A request reads its context (`ReadContext`), decides
(`decideExecutionLocation`) and commits (`CommitLocation`, `CommitManual`) in a
transaction of its own that compares version, watermark and capability revisions
with what was read, up to three times; for an arrival at an airport it then
claims (`Claim`), calls the trigger and settles (`Settle`), each a step. A lease lapses
at any time (`Lapse`).

| Run | Question | Bounds |
| --- | --- | --- |
| `execution_location` | do events and ACTUAL times agree, do samples count in order and only under a standing permission, never ahead of the timeline, and does a correction stand? | 2 nodes at 2 and 9 with radius 4, phones at 2, 6, 8 and 9, 2 requests at once, 3 in all, 2 interferences |

The radii overlap at 6, so a sample can be inside both; 8 is outside the first
node's exit boundary and inside the second. Three requests are an arrival, its
correction and the sample that would bring it back, two of them at once.

*Observed.*
- `undoEvent` does not evaluate the trip's natural end.
- Where recording is off, every sample inside the radius passes the ARRIVAL
  transition on to the ground leg again.
- That transition is a transaction after `commitLocation`; a crash in between loses it.
- Undoing an arrival and then the confirmed skip it detected leaves a
  POSSIBLY_SKIPPED whose detecting event is undone.
- When the arrival that is recorded is also the trip's natural end, the same commit
  raises the revisions, and the arrival's own trigger becomes NOT_ELIGIBLE.
- The branches of `commitLocation` for facts that exist already cannot be reached:
  the comparison of versions answers first.

*Proofs* (`ExecutionLocationProofs`), for any finite set of requests and any places of
nodes and phones. `IInv` conjoins the types, `WorkOK` of each request, `ClaimsOK` and
`FactsAreEvents`. The heart of `WorkOK` is `Remembers`: what a request has read is of
this version and these revisions only if it is what is there now, so the comparison in
the transaction carries the conclusions of `decideExecutionLocation` over to the state
they are written to; `LocationFollowsOrder`, `CorrectionStands` and `PermissionHolds`
are drawn from that. Suppressions are the exception, since clearing one does not raise
the version, so they may only have become fewer. `ClaimsOK` strengthens `SingleCaller`:
tokens differ, and a claim that has not lapsed is still on its event or the event is
undone. `TypeOK`, stated in the proof module, is not run. Everything this run checks is
proved.

## 11. External origins

A service that ends before its stop sets the traveller down where the plan has no
node. `ExternalOrigin` follows what the code does about it: the hub of the latest
report of the leg is offered (`Candidate`), the traveller confirms it (`Ask` and
`Confirm`, the request and the transaction), routes from it are queried and previewed
(`Query`, `Preview`), and one is adopted in place of the rest of the interrupted route
(`Adopt`) and may be undone (`Undo`). `Depart` closes an origin without a route.

| Variable | Code |
| --- | --- |
| `order`, `node`, `edge` | `ItineraryNode` rows in timeline order, `TransportEdge` rows |
| `route` | `AdoptedRoute` rows with the delta (v5) of their receipt |
| `origin` | `ExternalExecutionOrigin` rows |
| `report` | the latest observation of each `GroundTransitLegExecution`, which has no foreign key to its edge and outlives it |
| `events` | `ExecutionEvent` rows that are not undone, and so the ACTUAL times of nodes |
| `draft` | the candidate snapshot and the preview of the present version |
| `asked` | the confirmation a device has sent, with the evidence it was shown |
| `was` | auxiliary: the plan before each adoption |

Between any two steps the provider may report on a leg (`Report`), with or without
new times, and the traveller may record an event, correct one, or change a generated
stop (`Record`, `Correct`, `Edit`). Only some of these raise the trip's version; the
rest is what the checks of evidence, authority and legs are for.

| Run | Question | Bounds |
| --- | --- | --- |
| `external_origin` | is a confirmation about what was shown, can a preview be adopted as shown, does undo restore plan and origin, does nothing that happened get lost? | 1 device, 2 hubs, a route straight to the end or through the interchange, 2 reports, 7 versions, one of them by anything but a confirmation, an adoption or an undo, 2 instants, events dated up to 1 ahead |

The instance reaches an origin on a route that was itself adopted from an origin, and
the undo of that second adoption: confirm, adopt, depart, confirm, adopt, undo are the
seven versions, with departure as the one other change and one report for either
origin. The route through the interchange reuses its node, the straight one removes it.
Hubs are alike, so symmetry is sound. Queries are refused or answered, and the six
operations wait for the traveller, so no liveness is stated.

`PreviewStands` says more than that stale previews are refused: a preview of the
present version is never stale, so everything it depends on raises the version.
`ConfirmedIsCurrent` excepts contradicting records and events dated ahead of the clock
(see below).

Left out: evidence that expires and the undo window, which only refuse; minimum stays
and the choice of a day, which sections 7 and 8 have for direct adoptions; the ground
legs and jobs of the new route.

*Proofs* (in `RoutePlanProofs`, instance `External`, since both models splice one line
of nodes and share the lemmas on it). All four properties of the run are proved, for any
hubs, offers, devices and bounds. `PreviewStands` needs no assumption: `Authorised` and
`Summary` are functions of what raises the version (`PlanFacts`), so an action either
leaves them alone or takes the preview with it. The others assume
`OriginAssumption`: the bounds are naturals, the interchange is no hub, and an offer
stops nowhere twice. Their invariant is `OriginAll`:

- `OriginTypes`: ids, rows, maps and references of the plan.
- `OriginTimes`: nothing is dated after the clock, and a request of the present version
  is dated after all that happened. So a confirmation that finds its version unchanged
  makes the latest fact, which is why it is current.
- `OriginInv`: the plan is one line with one ACTIVE route whose edges are the stretch it
  was adopted for, and while an adoption is reversible (`Reversible`: its own version is
  still the present one) undoing it gives the plan it started from, where its origin
  is again the only open one (`Reverses`, `Plannable`).

An undo is possible in the version of its adoption only, so `UndoReopensPlanning`
follows without a history. `ExecutionSurvives` is inductive together with `OriginAll`:
what an adoption removes is neither an event's node nor, but into its archive, a leg
reported on.

*Observed.*
- A manual event may be dated up to 120 seconds ahead
  (`execution-location-service.ts:630`, `execution-location.ts:25`). An origin
  confirmed before that instant is SUPERSEDED from the start, and no route can be
  planned from it.
- `generatedNodeProtectionReasons` (`route-preview-plan.ts:640`) does not look at
  `NodeExecutionState`, and events, states and suppressions go with their node
  (`schema.prisma:1083`, 1125, 1140). Adopting a route that removes a generated node
  whose skip was confirmed, or whose arrival was corrected, deletes these rows, and undo
  restores the node without them (P5E2-EXTERNAL-ORIGIN-ADOPT-UNDO line 13).

## 12. Scheduling and route query

`RouteQuery` is one place: the requirements of its arrival and departure
(`UserTimeIntent`), the values of its points and of the vehicles there
(`TemporalValue`), the stays required and suggested, and the query the traveller
makes. The query writes nothing but snapshots, so it is an operator (`Answers`) over a
state that the commands change. `Earliest` and `Latest` are
`propagateScheduleBounds`, with the bases of each bound, since the floor of a query
(`absoluteDepartureFloor`) hangs on them; `IntentsInConflict` and
`WindowsInConflict` are the conflicts of `evaluateScheduleConstraints`;
`PlanningStart`, `Floor`, `ExpandedStart` and `Verdict` are `combineQueryTime`;
`Assess` is `assessDwell`, and `RankDepartAt` and `RankArriveBy` the rankings.

One place suffices: a constraint joins the two windows of its own node only, so
nodes never influence each other, the propagation needs one round and its
bound on relaxations is never met. What a sort returns under a comparison that is
no order is any sequence without neighbours the wrong way round (`Sorted`).

| Run | Question | Bounds |
| --- | --- | --- |
| `route_query` | are the windows those of the constraints, does looking back respect hard bounds, is the ranking independent of the provider's order? | 3 instants, stays of 1 or 2, looking back by 2, 3 facts at a time, 3 queries with 3 candidates each |

`WindowsAreExact` compares the windows with the set of all pairs of arrival and
departure that meet what is required, one instant and one stay beyond every
constant. Three facts are the requirement at either end of a stay and one more at
either point; a conflict needs no more than two facts and a stay.

*Proofs* (in `TripDaysProofs`, instance `Query`). All three properties are proved for
any number of facts and candidates. `QueryAssumption` says that instants and stays are
finitely many naturals and what a request is (`RequestOK`): its candidates are finitely
many and have different ids, because `queryCandidates` refuses other answers. The
invariant (`QueryInv`) is the type of the state: nothing is kept between queries, so the
work is in the operators.

- Windows: each end of a window is the greatest or least of finitely many bounds
  (`EarliestOf`, `LatestOf`); bounds conflict exactly when no pair of times meets all
  (`ConflictIs`), and otherwise a pair attains each end (`Extreme`).
- Floor: looking back stops at what `absoluteDepartureFloor` finds (`DepartureFloor`),
  and at the arrival that has happened (`ArrivedIs`).
- Ranking: where all fares compare, each comparator is a strict total order on the
  candidates, for which a finite set has one sorted list (`OneOrder`); the rest
  of the ranking is a function of that list.

*Observed.*
- Looking back can pass the instant the user will not leave before, when the bound a
  required stay derives is later than that instant by less than 15 minutes:
  `tightenLower` replaces the basis, and `absoluteDepartureFloor`
  (`route-query-service.ts:889`) then sees a derived bound only (P5C line 26 calls
  NOT_BEFORE absolute). `FloorHolds` names the exception.
- Where the arrival is only required and not known, a candidate that compresses the
  required stay is UNKNOWN and ranked as fully feasible (P5C line 27).
- `compareComparableFare` skips fares that are unknown or in another currency, so
  `primaryComparator` is not transitive: of three candidates that arrive together, for
  2 yen, for an unknown fare with one transfer and for 1 yen with two, each precedes
  the next and the last the first. Even the first place then depends on the provider's
  order (`planning-policy.test.ts:236` shuffles candidates without fares).
  `RankingIsDeterministic` excepts such candidates.
- A candidate that leaves after the latest departure of the place is accepted: the
  query uses the earliest departure and the latest arrival only.
- A place whose arrival is after its departure is no conflict unless a stay is required.
- A vehicle that runs late on a timetable leaves its planned and its actual time as
  two fixed bounds of one point, a conflict that refuses every query of the trip,
  unless its route is the one to be replaced.

## 13. Findings

One disagreement is a run that TLC refutes: `job_lost_last_attempt`. `PROJECT.json`
quotes the lines. The others met while modelling
are under *Observed* in the sections, each with the property that names it as an
exception where one does.

## 14. What is not modelled, and why

Every component without a module is in the table of section 1 and in
`PROJECT.json`. Providers, contracts, place search, the HTTP layer and the
clients keep no state that others rely on; parsing, region data and rendering are data.
Notifications, the worker's runtime, static backups and the
transit browser keep state and are planned. Row locks below the owner's advisory lock are
not modelled: transactions that take it are one step.

What stays with TLC. Liveness throughout, because the prover has neither
`ENABLED` nor fairness. What a recursive definition computes for every input: it would take
induction over data; the proofs use at most that a set of naturals has a least and
a bounded one a greatest element (`LeastNatural`). Every other property of the passing
runs is a theorem, for all values of the constants.
