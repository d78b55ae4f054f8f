------------------------------ MODULE JobQueue ------------------------------
(***************************************************************************)
(* The "Job" table and the single statements issued against it, each as a  *)
(* function from a row to a row with the WHERE clause as its guard.  All   *)
(* statements are atomic in PostgreSQL.                                     *)
(*                                                                         *)
(* Time is abstracted to what the statements compare.  `run' says whether  *)
(* runAt has come.  `lease' says how a running row's leaseUntil compares    *)
(* with the instants the processes hold: it is "live" before all of them,  *)
(* "lapsed" after all of them, and "lapsing" while some hold an earlier and *)
(* some a later one (clocks differ, and `now' is read before the statement *)
(* that carries it runs), so a comparison may go either way.               *)
(***************************************************************************)
EXTENDS Naturals

CONSTANTS Jobs,         \* unique keys of the jobs
          Workers,      \* worker ids; unique per process
          NoWorker,     \* leaseOwner IS NULL
          MaxAttempts   \* Job.maxAttempts

ASSUME QueueAssumption == /\ MaxAttempts \in Nat \ {0}
                          /\ NoWorker \notin Workers

Statuses == {"ABSENT", "QUEUED", "RUNNING", "SUCCEEDED", "FAILED", "CANCELLED"}
Terminal == {"SUCCEEDED", "FAILED", "CANCELLED"}

JobRow == [status   : Statuses,
           run      : {"later", "due"},
           owner    : Workers \cup {NoWorker},
           lease    : {"none", "live", "lapsing", "lapsed"},
           attempts : 0..MaxAttempts,
           cancelRequested : BOOLEAN]

NoRow == [status |-> "ABSENT", run |-> "later", owner |-> NoWorker,
          lease |-> "none", attempts |-> 0, cancelRequested |-> FALSE]

Released(r) == [r EXCEPT !.owner = NoWorker, !.lease = "none"]

\* INSERT of a new job, at once or for a later checkpoint.
QueuedRow(run) == [NoRow EXCEPT !.status = "QUEUED", !.run = run]

\* Mistaken: a claim never takes over an expired lease.
ClaimableOnlyQueued(r)   == r.status = "QUEUED" /\ r.run = "due" /\ r.attempts < MaxAttempts

\* claimNext: the candidate's WHERE clause, and the row the claim leaves.
Claimable(r) == /\ \/ r.status = "QUEUED" /\ r.run = "due"
                   \/ r.status = "RUNNING" /\ r.lease \in {"lapsing", "lapsed"}
                /\ r.attempts < MaxAttempts

\* Claimable whatever instant the claimant holds.
SurelyClaimable(r) == Claimable(r) /\ r.lease # "lapsing"

ClaimedRow(r, w) == [r EXCEPT !.status = "RUNNING", !.owner = w, !.lease = "live",
                              !.attempts = r.attempts + 1]

\* Mistaken: the fence forgets whose lease it is.
FencedByAnyone(r, w) == r.status = "RUNNING" /\ r.lease \in {"live", "lapsing"}

\* The fence shared by markSucceeded and markFailed: status, leaseOwner and
\* leaseUntil > now.  Fenced: it may match.  SurelyFenced: it must.
Fenced(r, w)       == /\ r.status = "RUNNING" /\ r.owner = w
                      /\ r.lease \in {"live", "lapsing"}
SurelyFenced(r, w) == Fenced(r, w) /\ r.lease = "live"

SucceededRow(r) == [Released(r) EXCEPT !.status = "SUCCEEDED"]

\* markFailed decides from the attempt number of the claimed copy it is given.
FailedRow(r, attempt) ==
    IF attempt >= MaxAttempts
    THEN [Released(r) EXCEPT !.status = "FAILED", !.run = "due"]
    ELSE [Released(r) EXCEPT !.status = "QUEUED", !.run = "later"]

\* isCancellationRequested: a row that is no longer this worker's counts as cancelled.
CancellationRequested(r, w) ==
    (r.status = "RUNNING" /\ r.owner = w) => r.cancelRequested

\* markCancelled carries no leaseUntil condition.
MayMarkCancelled(r, w) == r.status = "RUNNING" /\ r.owner = w /\ r.cancelRequested
MarkedCancelledRow(r)  == [Released(r) EXCEPT !.status = "CANCELLED"]

\* cancel, first and second statement.
CancelledRow(r) == IF r.status = "QUEUED"
                   THEN [Released(r) EXCEPT !.status = "CANCELLED", !.cancelRequested = TRUE]
                   ELSE r
AskedRow(r)     == IF r.status = "RUNNING" THEN [r EXCEPT !.cancelRequested = TRUE] ELSE r

\* Mistaken: every job of the binding is cancelled, finished ones too.
ForceCancelledAll(r) ==
    IF r.status = "ABSENT" THEN r
    ELSE [Released(r) EXCEPT !.status = "CANCELLED", !.cancelRequested = TRUE]

\* Rebinding a flight edge cancels its jobs whether or not a worker holds them.
ForceCancelledRow(r) ==
    IF r.status \in {"QUEUED", "RUNNING"}
    THEN [Released(r) EXCEPT !.status = "CANCELLED", !.cancelRequested = TRUE]
    ELSE r

\* scheduleJob with reactivateCancelled: a cancelled checkpoint starts afresh.
ReactivatedRow(run) == QueuedRow(run)
=============================================================================
