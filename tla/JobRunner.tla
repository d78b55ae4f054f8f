----------------------------- MODULE JobRunner ------------------------------
(***************************************************************************)
(* Worker processes running the job loop of apps/worker/src/job-runner.ts  *)
(* against the "Job" table, together with everything else that writes the  *)
(* table: producers, the cancel call and the transactions that cancel or   *)
(* reactivate monitoring jobs.                                             *)
(*                                                                         *)
(* A worker is a single-threaded event loop: between two awaits it runs    *)
(* without interruption, so each action below is one statement and the     *)
(* code up to the next await.  wk[w].pc names the await it is suspended at. *)
(***************************************************************************)
EXTENDS JobQueue

CONSTANTS NoJob,             \* a worker's hands are empty
          MaxFaults,         \* bound on crashes, stops and failing statements
          MaxReactivations   \* bound on reactivations of cancelled jobs

ASSUME RunnerAssumption == /\ NoJob \notin Jobs
                           /\ MaxFaults \in Nat
                           /\ MaxReactivations \in Nat

VARIABLES job,     \* the table: [Jobs -> JobRow]
          wk,      \* the worker processes
          caller,  \* one caller of JobRepository.cancel
          faults,  \* faults injected so far
          revived  \* reactivations so far

vars == <<job, wk, caller, faults, revived>>

PCs == {"down",        \* no process
        "idle",        \* between polls
        "claiming",    \* awaiting claimNext
        "claimed",     \* awaiting the first isCancellationRequested
        "handling",    \* awaiting the race of the handler against its abort signal
        "resolved",    \* awaiting the second isCancellationRequested
        "cancelling",  \* awaiting markCancelled
        "finishing",   \* awaiting markSucceeded
        "failing"}     \* awaiting markFailed

Worker == [pc : PCs, job : Jobs \cup {NoJob}, attempt : 0..MaxAttempts,
           accepting : BOOLEAN, abort : BOOLEAN]

Down    == [pc |-> "down", job |-> NoJob, attempt |-> 0, accepting |-> FALSE, abort |-> FALSE]
Started == [Down EXCEPT !.pc = "idle", !.accepting = TRUE]

Answers == {"none", "CANCELLED", "REQUESTED", "TERMINAL", "NOT_FOUND"}
Caller  == [pc : {"ready", "ask", "look"}, job : Jobs \cup {NoJob}, answer : Answers]

\* A worker has a job in hand exactly while executeClaimed runs, and the caller
\* of cancel between its statements.
TypeOK == /\ job \in [Jobs -> JobRow]
          /\ wk \in [Workers -> Worker]
          /\ \A w \in Workers :
                wk[w].job = NoJob <=> wk[w].pc \in {"down", "idle", "claiming"}
          /\ caller \in Caller
          /\ caller.job = NoJob <=> caller.pc = "ready"
          /\ faults \in Nat
          /\ revived \in Nat

Init == /\ job = [j \in Jobs |-> NoRow]
        /\ wk = [w \in Workers |-> Down]
        /\ caller = [pc |-> "ready", job |-> NoJob, answer |-> "none"]
        /\ faults = 0
        /\ revived = 0

-----------------------------------------------------------------------------
(* The loop of one worker.                                                 *)

\* executeClaimed is over: runOnce's finally clears active and activeAbort.
Idle(w) == [wk EXCEPT ![w] = [@ EXCEPT !.pc = "idle", !.job = NoJob, !.attempt = 0,
                                       !.abort = FALSE]]
Await(w, pc) == [wk EXCEPT ![w].pc = pc]

\* main.ts starts the runtime, which starts the runner: accepting becomes TRUE.
Start(w) == /\ wk[w].pc = "down"
            /\ wk' = [wk EXCEPT ![w] = Started]
            /\ UNCHANGED <<job, caller, faults, revived>>

\* poll and runOnce up to the await of claimNext.  `active' is undefined here.
Poll(w) == /\ wk[w].pc = "idle" /\ wk[w].accepting
           /\ wk' = Await(w, "claiming")
           /\ UNCHANGED <<job, caller, faults, revived>>

\* claimNext returns a row; runOnce does not look at `accepting' again.
ClaimNext(w) ==
    /\ wk[w].pc = "claiming"
    /\ \E j \in Jobs :
         /\ Claimable(job[j])
         /\ job' = [job EXCEPT ![j] = ClaimedRow(job[j], w)]
         /\ wk' = [wk EXCEPT ![w] = [@ EXCEPT !.pc = "claimed", !.job = j,
                                              !.attempt = job[j].attempts + 1]]
    /\ UNCHANGED <<caller, faults, revived>>

ClaimNothing(w) == /\ wk[w].pc = "claiming"
                   /\ \A j \in Jobs : ~SurelyClaimable(job[j])
                   /\ wk' = Idle(w)
                   /\ UNCHANGED <<job, caller, faults, revived>>

\* The first isCancellationRequested, then either markCancelled or the handler:
\* the abort controller and its timer are created and the handler is called.
CheckBeforeHandler(w) ==
    /\ wk[w].pc = "claimed"
    /\ wk' = Await(w, IF CancellationRequested(job[wk[w].job], w)
                      THEN "cancelling" ELSE "handling")
    /\ UNCHANGED <<job, caller, faults, revived>>

HandlerResolves(w) == /\ wk[w].pc = "handling" /\ ~wk[w].abort
                      /\ wk' = Await(w, "resolved")
                      /\ UNCHANGED <<job, caller, faults, revived>>

\* The handler throws, or the abort signal (timeout or stop) wins the race.
HandlerRejects(w) == /\ wk[w].pc = "handling"
                     /\ wk' = Await(w, "failing")
                     /\ UNCHANGED <<job, caller, faults, revived>>

CheckAfterHandler(w) ==
    /\ wk[w].pc = "resolved"
    /\ wk' = Await(w, IF CancellationRequested(job[wk[w].job], w)
                      THEN "cancelling" ELSE "finishing")
    /\ UNCHANGED <<job, caller, faults, revived>>

\* UPDATE of the worker's row, when the statement's WHERE clause matches.
Settle(w, matches, row) ==
    job' = IF matches THEN [job EXCEPT ![wk[w].job] = row] ELSE job

MarkCancelled(w) ==
    /\ wk[w].pc = "cancelling"
    /\ LET r == job[wk[w].job] IN Settle(w, MayMarkCancelled(r, w), MarkedCancelledRow(r))
    /\ wk' = Idle(w)
    /\ UNCHANGED <<caller, faults, revived>>

\* The two outcomes of a fenced statement while the lease is lapsing.
FenceOutcomes(r, w) == {SurelyFenced(r, w), Fenced(r, w)}

MarkSucceeded(w) ==
    /\ wk[w].pc = "finishing"
    /\ LET r == job[wk[w].job] IN
         \E matches \in FenceOutcomes(r, w) : Settle(w, matches, SucceededRow(r))
    /\ wk' = Idle(w)
    /\ UNCHANGED <<caller, faults, revived>>

MarkFailed(w) ==
    /\ wk[w].pc = "failing"
    /\ LET r == job[wk[w].job] IN
         \E matches \in FenceOutcomes(r, w) :
             Settle(w, matches, FailedRow(r, wk[w].attempt))
    /\ wk' = Idle(w)
    /\ UNCHANGED <<caller, faults, revived>>

-----------------------------------------------------------------------------
(* Faults, each of which counts against MaxFaults.                          *)

Fault == faults < MaxFaults /\ faults' = faults + 1

\* The process dies; what it held stays in the table under its lease.
Crash(w) == /\ Fault
            /\ wk[w].pc # "down"
            /\ wk' = [wk EXCEPT ![w] = Down]
            /\ UNCHANGED <<job, caller, revived>>

\* stop(): no further polls, and the signal of the handler in flight is aborted.
\* While claimNext is awaited there is no controller to abort, and after the race
\* nobody listens to it.
Stop(w) == /\ Fault
           /\ wk[w].pc # "down" /\ wk[w].accepting
           /\ wk' = [wk EXCEPT ![w].accepting = FALSE,
                               ![w].abort = (wk[w].pc = "handling")]
           /\ UNCHANGED <<job, caller, revived>>

\* The process of a stopped runtime ends once nothing keeps its loop busy.
Exit(w) == /\ wk[w].pc = "idle" /\ ~wk[w].accepting
           /\ wk' = [wk EXCEPT ![w] = Down]
           /\ UNCHANGED <<job, caller, faults, revived>>

\* A statement throws without effect.  claimNext's error is caught by poll and
\* markFailed's rejects the operation; the others are inside executeClaimed's try.
StatementFails(w) ==
    /\ Fault
    /\ \/ wk[w].pc \in {"claiming", "failing"} /\ wk' = Idle(w)
       \/ wk[w].pc \in {"claimed", "resolved", "cancelling", "finishing"}
          /\ wk' = Await(w, "failing")
    /\ UNCHANGED <<job, caller, revived>>

\* A statement takes effect but its reply is lost.
ClaimReplyLost(w) == /\ Fault
                     /\ wk[w].pc = "claiming"
                     /\ \E j \in Jobs : /\ Claimable(job[j])
                                        /\ job' = [job EXCEPT ![j] = ClaimedRow(job[j], w)]
                     /\ wk' = Idle(w)
                     /\ UNCHANGED <<caller, revived>>

SuccessReplyLost(w) == /\ Fault
                       /\ wk[w].pc = "finishing"
                       /\ LET r == job[wk[w].job]
                          IN Fenced(r, w) /\ Settle(w, TRUE, SucceededRow(r))
                       /\ wk' = Await(w, "failing")
                       /\ UNCHANGED <<caller, revived>>

-----------------------------------------------------------------------------
(* The passage of time.                                                    *)

RunAtComes(j) == /\ job[j].status = "QUEUED" /\ job[j].run = "later"
                 /\ job' = [job EXCEPT ![j].run = "due"]
                 /\ UNCHANGED <<wk, caller, faults, revived>>

LeaseAges(j) == /\ job[j].lease \in {"live", "lapsing"}
                /\ job' = [job EXCEPT ![j].lease = IF @ = "live" THEN "lapsing" ELSE "lapsed"]
                /\ UNCHANGED <<wk, caller, faults, revived>>

-----------------------------------------------------------------------------
(* The other writers of the table.                                         *)

\* A producer creates the job under its unique key; a second attempt with the
\* same key changes nothing (upsert with an empty update, or skipDuplicates).
Enqueue(j) == /\ job[j].status = "ABSENT"
              /\ \E run \in {"later", "due"} : job' = [job EXCEPT ![j] = QueuedRow(run)]
              /\ UNCHANGED <<wk, caller, faults, revived>>

\* A capability pause or stop, an adoption, an undo or a natural end: the queued
\* jobs of the subject are cancelled and the running ones asked to stop.
CancelMonitoring(S) == /\ job' = [j \in Jobs |-> IF j \in S
                                                 THEN AskedRow(CancelledRow(job[j]))
                                                 ELSE job[j]]
                       /\ UNCHANGED <<wk, caller, faults, revived>>

\* A monitoring decision replaces the schedule: only queued jobs are cancelled.
CancelQueuedJobs(S) == /\ job' = [j \in Jobs |-> IF j \in S THEN CancelledRow(job[j])
                                                            ELSE job[j]]
                       /\ UNCHANGED <<wk, caller, faults, revived>>

\* Adopting another flight on an edge cancels its jobs, running ones included.
RebindFlight(S) == /\ job' = [j \in Jobs |-> IF j \in S THEN ForceCancelledRow(job[j])
                                                        ELSE job[j]]
                   /\ UNCHANGED <<wk, caller, faults, revived>>

Reactivate(j) == /\ revived < MaxReactivations /\ revived' = revived + 1
                 /\ job[j].status = "CANCELLED"
                 /\ \E run \in {"later", "due"} :
                        job' = [job EXCEPT ![j] = ReactivatedRow(run)]
                 /\ UNCHANGED <<wk, caller, faults>>

\* JobRepository.cancel: three statements, not in a transaction.  The caller
\* names a row that exists; an id of no row misses all three.
Answered(answer) == caller' = [pc |-> "ready", job |-> NoJob, answer |-> answer]

CancelFirst(j) ==
    /\ caller.pc = "ready" /\ job[j].status # "ABSENT"
    /\ job' = [job EXCEPT ![j] = CancelledRow(job[j])]
    /\ IF job[j].status = "QUEUED"
       THEN Answered("CANCELLED")
       ELSE caller' = [pc |-> "ask", job |-> j, answer |-> "none"]
    /\ UNCHANGED <<wk, faults, revived>>

CancelSecond ==
    /\ caller.pc = "ask"
    /\ job' = [job EXCEPT ![caller.job] = AskedRow(job[caller.job])]
    /\ IF job[caller.job].status = "RUNNING"
       THEN Answered("REQUESTED")
       ELSE caller' = [caller EXCEPT !.pc = "look"]
    /\ UNCHANGED <<wk, faults, revived>>

\* The row was neither QUEUED for the first statement nor RUNNING for the second.
CancelThird == /\ caller.pc = "look"
               /\ Answered("TERMINAL")
               /\ UNCHANGED <<job, wk, faults, revived>>

CancelUnknown == /\ caller.pc = "ready"
                 /\ Answered("NOT_FOUND")
                 /\ UNCHANGED <<job, wk, faults, revived>>

-----------------------------------------------------------------------------
WorkerStep(w) == \/ Poll(w)              \/ ClaimNext(w)         \/ ClaimNothing(w)
                 \/ CheckBeforeHandler(w) \/ HandlerResolves(w)  \/ HandlerRejects(w)
                 \/ CheckAfterHandler(w) \/ MarkCancelled(w)     \/ MarkSucceeded(w)
                 \/ MarkFailed(w)        \/ Exit(w)              \/ Start(w)

FaultStep(w) == \/ Crash(w) \/ Stop(w) \/ StatementFails(w)
                \/ ClaimReplyLost(w) \/ SuccessReplyLost(w)

TimeStep(j) == RunAtComes(j) \/ LeaseAges(j)

WriterStep == \/ \E j \in Jobs : Enqueue(j) \/ Reactivate(j) \/ CancelFirst(j)
              \/ \E S \in SUBSET Jobs :
                     CancelMonitoring(S) \/ CancelQueuedJobs(S) \/ RebindFlight(S)
              \/ CancelSecond
              \/ CancelThird
              \/ CancelUnknown

Next == \/ \E w \in Workers : WorkerStep(w) \/ FaultStep(w)
        \/ \E j \in Jobs : TimeStep(j)
        \/ WriterStep

Spec == Init /\ [][Next]_vars

\* The event loop keeps going, the container is restarted (restart:
\* unless-stopped) and time passes.  Nothing is assumed of the other writers.
Fairness == /\ \A w \in Workers : WF_vars(WorkerStep(w))
            /\ \A j \in Jobs : WF_vars(TimeStep(j))

FairSpec == Spec /\ Fairness

-----------------------------------------------------------------------------
(* Safety.                                                                 *)

\* The CHECK constraints of the table (Job_running_lease_check,
\* Job_lease_pair_check): a statement that broke one would throw.
TableChecks == \A j \in Jobs :
                 /\ job[j].status = "RUNNING" <=> job[j].owner # NoWorker
                 /\ job[j].owner = NoWorker <=> job[j].lease = "none"

\* While the row of the job in a worker's hands names that worker, it still
\* counts the attempt the worker claimed: matching the owner alone, as every
\* statement does, is as good as matching the attempt, across lease expiry,
\* reclaiming, restarts under the same id, forced cancels and reactivation.
ClaimMatchesRow == \A w \in Workers :
    wk[w].job # NoJob /\ job[wk[w].job].owner = w
        => job[wk[w].job].attempts = wk[w].attempt

\* markFailed chooses FAILED from the claimed copy; the row agrees that the
\* attempts are used up.
FailedMeansExhausted == \A j \in Jobs :
    job[j].status = "FAILED" => job[j].attempts = MaxAttempts

\* What ends an attempt: nobody but the worker that claimed this very attempt
\* (or whoever cancels the job) takes a row out of RUNNING, and the row is not
\* settled once every clock agrees that the lease is over.
SettledByHolder ==
    [][\A j \in Jobs :
         job[j].status = "RUNNING" /\ job'[j].status \in {"SUCCEEDED", "FAILED", "QUEUED"}
           => /\ job[j].lease # "lapsed"
              /\ \E w \in Workers : /\ wk[w].job = j
                                    /\ wk[w].attempt = job[j].attempts
                                    /\ job[j].owner = w
                                    /\ wk[w].pc \in {"finishing", "failing"}]_vars

\* The rows move as JobLifecycle promises.
Lifecycle == INSTANCE JobLifecycle
             WITH status   <- [j \in Jobs |-> job[j].status],
                  attempts <- [j \in Jobs |-> job[j].attempts]
LifecycleSpec == Lifecycle!Spec

-----------------------------------------------------------------------------
(* Liveness.                                                               *)

\* No claim can ever match this row again: the last attempt's lease ran out.
Orphaned(j) == /\ job[j].status = "RUNNING"
               /\ job[j].attempts = MaxAttempts
               /\ job[j].lease = "lapsed"

\* Whatever workers crash or lose their leases, every job is eventually settled,
\* except one whose last attempt was lost.
EventuallySettled == \A j \in Jobs :
    job[j].status \in {"QUEUED", "RUNNING"} ~> (job[j].status \in Terminal \/ Orphaned(j))

-----------------------------------------------------------------------------
(* A claim of the documentation that the code does not keep.                *)

\* ADR 0003: after a crash the job is recovered by the expiry of its lease, and
\* one that has used up its attempts becomes FAILED.
RunningRecovers == \A j \in Jobs : job[j].status = "RUNNING" ~> job[j].status # "RUNNING"
=============================================================================
