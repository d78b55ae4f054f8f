-------------------------- MODULE JobRunnerProofs ---------------------------
(***************************************************************************)
(* Proofs about JobRunner, for any sets of jobs and workers, any number of *)
(* attempts, and any bounds on faults and reactivations.                   *)
(***************************************************************************)
EXTENDS JobRunner, TLAPS

USE QueueAssumption, RunnerAssumption DEF QueueAssumption, RunnerAssumption

-----------------------------------------------------------------------------
(* Rows.                                                                   *)

\* What every statement keeps true of a row by itself: its type, the CHECK
\* constraints of the table, and attempts used up when FAILED.
RowOK(r) == /\ r \in JobRow
            /\ r.status = "RUNNING" <=> r.owner # NoWorker
            /\ r.owner = NoWorker <=> r.lease = "none"
            /\ r.status = "FAILED" => r.attempts = MaxAttempts

\* A new row is well formed.
LEMMA NewRow == /\ RowOK(NoRow)
                /\ \A run \in {"later", "due"} : RowOK(QueuedRow(run))
<1>1. RowOK(NoRow)
  BY DEF RowOK, JobRow, NoRow, Statuses
<1>2. NoRow.attempts = 0 /\ NoRow.owner = NoWorker /\ NoRow.lease = "none"
  BY DEF NoRow
<1>3. ASSUME NEW run \in {"later", "due"} PROVE RowOK(QueuedRow(run))
  BY <1>1, <1>2 DEF RowOK, JobRow, QueuedRow, Statuses
<1>4. QED BY <1>1, <1>3

\* claimNext leaves a well-formed row: the attempt it adds was still allowed.
LEMMA ClaimRow == ASSUME NEW r, RowOK(r), Claimable(r), NEW w \in Workers
                  PROVE  RowOK(ClaimedRow(r, w))
<1>1. r \in JobRow /\ r.attempts < MaxAttempts
  BY DEF RowOK, Claimable
<1>2. r.attempts + 1 \in 0..MaxAttempts
  BY <1>1 DEF JobRow
<1>3. QED BY <1>1, <1>2 DEF RowOK, JobRow, ClaimedRow, Statuses

\* The cancelling statements leave well-formed rows.
LEMMA CancelRows == ASSUME NEW r, RowOK(r)
                    PROVE  /\ RowOK(CancelledRow(r))
                           /\ RowOK(AskedRow(r))
                           /\ RowOK(ForceCancelledRow(r))
                           /\ RowOK(MarkedCancelledRow(r))
BY DEF RowOK, JobRow, CancelledRow, AskedRow, ForceCancelledRow, MarkedCancelledRow,
       Released, Statuses

\* The settling statements leave well-formed rows; for markFailed the claimed
\* copy must agree with the row about the attempt.
LEMMA SettleRows == ASSUME NEW r, RowOK(r)
                    PROVE  /\ RowOK(SucceededRow(r))
                           /\ RowOK(FailedRow(r, r.attempts))
<1>1. r \in JobRow /\ r.attempts \in Nat /\ r.attempts <= MaxAttempts
  BY DEF RowOK, JobRow
<1>2. RowOK(SucceededRow(r))
  BY DEF RowOK, JobRow, SucceededRow, Released, Statuses
<1>3. CASE r.attempts >= MaxAttempts
  <2>1. r.attempts = MaxAttempts
    BY <1>1, <1>3
  <2>2. FailedRow(r, r.attempts) = [Released(r) EXCEPT !.status = "FAILED", !.run = "due"]
    BY <1>3 DEF FailedRow
  <2>3. QED BY <1>1, <1>2, <2>1, <2>2 DEF RowOK, JobRow, Released, Statuses
<1>4. CASE ~(r.attempts >= MaxAttempts)
  <2>1. FailedRow(r, r.attempts) = [Released(r) EXCEPT !.status = "QUEUED", !.run = "later"]
    BY <1>4 DEF FailedRow
  <2>2. QED BY <1>1, <1>2, <2>1 DEF RowOK, JobRow, Released, Statuses
<1>5. QED BY <1>3, <1>4

\* The passage of time leaves well-formed rows.
LEMMA TimeRows == ASSUME NEW r, RowOK(r)
                  PROVE  /\ RowOK([r EXCEPT !.run = "due"])
                         /\ r.lease = "live" => RowOK([r EXCEPT !.lease = "lapsing"])
                         /\ r.lease = "lapsing" => RowOK([r EXCEPT !.lease = "lapsed"])
BY DEF RowOK, JobRow

-----------------------------------------------------------------------------
(* The inductive invariant.  ClaimMatchesRow is what makes markFailed's     *)
(* decision agree with the row, hence FailedMeansExhausted.                *)

IInv == TypeOK /\ (\A j \in Jobs : RowOK(job[j])) /\ ClaimMatchesRow

\* A statement that gives the row to no new owner, at most frees it.
KeepsOrFrees(r, s) == \/ s.owner = NoWorker
                      \/ s.owner = r.owner /\ s.attempts = r.attempts

\* A worker that takes no new job, at most drops the one it has.
KeepsOrDrops(u, v) == \/ v.job = NoJob
                      \/ v.job = u.job /\ v.attempt = u.attempt

\* Every step but a claim preserves ClaimMatchesRow this way.
LEMMA ClaimsKept ==
    ASSUME TypeOK, ClaimMatchesRow,
           \A j \in Jobs : KeepsOrFrees(job[j], job'[j]),
           \A w \in Workers : KeepsOrDrops(wk[w], wk'[w])
    PROVE  ClaimMatchesRow'
BY DEF ClaimMatchesRow, KeepsOrFrees, KeepsOrDrops, TypeOK, Worker

\* What a well-typed worker record needs from an update of its pc.
LEMMA AwaitTypes ==
    ASSUME TypeOK, NEW w \in Workers, NEW pc \in PCs, wk' = Await(w, pc),
           wk[w].pc \notin {"down", "idle", "claiming"} <=> pc \notin {"down", "idle", "claiming"}
    PROVE  /\ wk' \in [Workers -> Worker]
           /\ \A u \in Workers : /\ KeepsOrDrops(wk[u], wk'[u])
                                 /\ wk'[u].job = NoJob <=> wk'[u].pc \in {"down", "idle", "claiming"}
BY DEF TypeOK, Worker, Await, KeepsOrDrops

\* A worker that ends its execution has nothing in hand.
LEMMA IdleTypes ==
    ASSUME TypeOK, NEW w \in Workers, wk' = Idle(w)
    PROVE  /\ wk' \in [Workers -> Worker]
           /\ \A u \in Workers : /\ KeepsOrDrops(wk[u], wk'[u])
                                 /\ wk'[u].job = NoJob <=> wk'[u].pc \in {"down", "idle", "claiming"}
<1> DEFINE v == [wk[w] EXCEPT !.pc = "idle", !.job = NoJob, !.attempt = 0, !.abort = FALSE]
<1>1. 0 \in 0..MaxAttempts
  OBVIOUS
<1>2. v \in Worker /\ v.job = NoJob /\ v.pc = "idle"
  BY <1>1 DEF TypeOK, Worker, PCs
<1>3. wk' = [wk EXCEPT ![w] = v]
  BY DEF Idle
<1>4. QED BY <1>2, <1>3 DEF TypeOK, KeepsOrDrops

\* The same for a process that starts or dies.
LEMMA ProcessTypes ==
    ASSUME TypeOK, NEW w \in Workers, NEW u \in {Down, Started}, wk' = [wk EXCEPT ![w] = u]
    PROVE  /\ wk' \in [Workers -> Worker]
           /\ \A v \in Workers : /\ KeepsOrDrops(wk[v], wk'[v])
                                 /\ wk'[v].job = NoJob <=> wk'[v].pc \in {"down", "idle", "claiming"}
<1>1. Down \in Worker /\ Down.job = NoJob /\ Down.pc = "down"
  BY DEF Down, Worker, PCs
<1>2. Started \in Worker /\ Started.job = NoJob /\ Started.pc = "idle"
  BY <1>1 DEF Started, Worker, PCs
<1>3. u \in Worker /\ u.job = NoJob /\ u.pc \in {"down", "idle"}
  BY <1>1, <1>2
<1>4. QED BY <1>3 DEF TypeOK, KeepsOrDrops

\* A statement on the row of one job.
LEMMA OneRow ==
    ASSUME TypeOK, \A j \in Jobs : RowOK(job[j]), NEW j \in Jobs, NEW row, RowOK(row),
           job' = [job EXCEPT ![j] = row]
    PROVE  /\ job' \in [Jobs -> JobRow]
           /\ \A i \in Jobs : RowOK(job'[i])
           /\ KeepsOrFrees(job[j], row) => \A i \in Jobs : KeepsOrFrees(job[i], job'[i])
BY DEF TypeOK, RowOK, KeepsOrFrees

\* Freed or kept: every statement but a claim.
LEMMA FreeingRows ==
    ASSUME NEW r, RowOK(r), NEW attempt
    PROVE  /\ KeepsOrFrees(r, CancelledRow(r))
           /\ KeepsOrFrees(r, AskedRow(r))
           /\ KeepsOrFrees(r, AskedRow(CancelledRow(r)))
           /\ KeepsOrFrees(r, ForceCancelledRow(r))
           /\ KeepsOrFrees(r, MarkedCancelledRow(r))
           /\ KeepsOrFrees(r, SucceededRow(r))
           /\ KeepsOrFrees(r, FailedRow(r, attempt))
BY DEF RowOK, JobRow, KeepsOrFrees, CancelledRow, AskedRow, ForceCancelledRow, MarkedCancelledRow,
       SucceededRow, FailedRow, Released

\* All that remains to be shown of a step that claims nothing.
CallerOK == caller \in Caller /\ (caller.job = NoJob <=> caller.pc = "ready")
RowsKept == /\ job' \in [Jobs -> JobRow]
            /\ \A j \in Jobs : RowOK(job'[j]) /\ KeepsOrFrees(job[j], job'[j])
HandsKept == /\ wk' \in [Workers -> Worker]
             /\ \A w \in Workers :
                   /\ KeepsOrDrops(wk[w], wk'[w])
                   /\ wk'[w].job = NoJob <=> wk'[w].pc \in {"down", "idle", "claiming"}

LEMMA QuietStep == ASSUME IInv, RowsKept, HandsKept, CallerOK',
                          faults' \in Nat, revived' \in Nat
                   PROVE  IInv'
<1>1. ClaimMatchesRow'
  BY ClaimsKept DEF IInv, RowsKept, HandsKept
<1>2. QED BY <1>1 DEF IInv, TypeOK, CallerOK, RowsKept, HandsKept

\* A step that leaves the table, or the workers, alone.
LEMMA SameRows == ASSUME IInv, job' = job PROVE RowsKept
BY DEF IInv, TypeOK, RowsKept, KeepsOrFrees
LEMMA SameHands == ASSUME IInv, wk' = wk PROVE HandsKept
BY DEF IInv, TypeOK, HandsKept, KeepsOrDrops
LEMMA SameCaller == ASSUME IInv, caller' = caller PROVE CallerOK'
BY DEF IInv, TypeOK, CallerOK

\* A statement of the worker w about the job in its hands.
LEMMA Settled == ASSUME IInv, NEW w \in Workers, wk[w].job # NoJob,
                        NEW matches \in BOOLEAN, NEW row, Settle(w, matches, row),
                        matches => RowOK(row) /\ KeepsOrFrees(job[wk[w].job], row)
                 PROVE  RowsKept
<1>1. wk[w].job \in Jobs
  BY DEF IInv, TypeOK, Worker
<1>2. CASE matches
  BY <1>1, <1>2, OneRow DEF Settle, IInv, RowsKept
<1>3. CASE ~matches
  BY <1>3, SameRows DEF Settle
<1>4. QED BY <1>2, <1>3

\* A statement that maps the rows of a set of jobs.
LEMMA Mapped == ASSUME IInv, NEW S \in SUBSET Jobs, NEW f \in [Jobs -> JobRow],
                       \A j \in Jobs : RowOK(f[j]) /\ KeepsOrFrees(job[j], f[j]),
                       job' = [j \in Jobs |-> IF j \in S THEN f[j] ELSE job[j]]
                PROVE  RowsKept
BY DEF IInv, TypeOK, RowsKept, KeepsOrFrees

-----------------------------------------------------------------------------
(* The invariant holds initially.                                          *)

LEMMA InitIInv == Init => IInv
<1> SUFFICES ASSUME Init PROVE IInv
  OBVIOUS
<1>1. \A j \in Jobs : RowOK(job[j]) /\ job[j].owner = NoWorker
  BY NewRow DEF Init, NoRow
<1>2. job \in [Jobs -> JobRow]
  BY <1>1 DEF Init, RowOK
<1>3. \A w \in Workers : wk[w] \in Worker /\ wk[w].job = NoJob /\ wk[w].pc = "down"
  BY DEF Init, Down, Worker, PCs
<1>4. wk \in [Workers -> Worker]
  BY <1>3 DEF Init
<1>5. CallerOK
  BY DEF Init, CallerOK, Caller, Answers
<1>6. QED BY <1>1, <1>2, <1>3, <1>4, <1>5 DEF Init, IInv, TypeOK, ClaimMatchesRow, CallerOK

-----------------------------------------------------------------------------
(* Every step preserves it.  First the claims, the only steps that give a  *)
(* row to a worker: whoever else held the row's job no longer owns it.     *)

LEMMA ClaimedMatches ==
    ASSUME IInv, NEW w \in Workers, NEW j \in Jobs, Claimable(job[j]),
           job' = [job EXCEPT ![j] = ClaimedRow(job[j], w)],
           wk' \in [Workers -> Worker],
           \A u \in Workers \ {w} : wk'[u] = wk[u],
           \/ wk'[w].job = NoJob
           \/ wk'[w].job = j /\ wk'[w].attempt = job[j].attempts + 1
    PROVE  /\ job' \in [Jobs -> JobRow]
           /\ \A i \in Jobs : RowOK(job'[i])
           /\ ClaimMatchesRow'
<1>1. RowOK(ClaimedRow(job[j], w))
  BY ClaimRow DEF IInv
<1>2. /\ job' \in [Jobs -> JobRow]
      /\ \A i \in Jobs : RowOK(job'[i])
  BY <1>1, OneRow DEF IInv
<1>3. job'[j].owner = w /\ job'[j].attempts = job[j].attempts + 1
  BY DEF ClaimedRow, IInv, TypeOK, JobRow
<1>4. \A i \in Jobs \ {j} : job'[i] = job[i]
  BY DEF IInv, TypeOK
<1>5. ASSUME NEW u \in Workers, wk'[u].job # NoJob, job'[wk'[u].job].owner = u
      PROVE  job'[wk'[u].job].attempts = wk'[u].attempt
  <2>1. CASE u = w
    BY <1>3, <1>5, <2>1
  <2>2. CASE u # w
    <3>1. wk'[u] = wk[u] /\ wk[u].job \in Jobs
      BY <1>5, <2>2 DEF IInv, TypeOK, Worker
    <3>2. wk[u].job # j
      BY <1>3, <1>5, <2>2, <3>1
    <3>3. QED BY <1>4, <1>5, <3>1, <3>2 DEF IInv, ClaimMatchesRow
  <2>3. QED BY <2>1, <2>2
<1>6. QED BY <1>2, <1>5 DEF ClaimMatchesRow

LEMMA ClaimStep == ASSUME IInv, NEW w \in Workers, ClaimNext(w) PROVE IInv'
<1>1. PICK j \in Jobs :
        /\ Claimable(job[j])
        /\ job' = [job EXCEPT ![j] = ClaimedRow(job[j], w)]
        /\ wk' = [wk EXCEPT ![w] = [@ EXCEPT !.pc = "claimed", !.job = j,
                                             !.attempt = job[j].attempts + 1]]
  BY DEF ClaimNext
<1> DEFINE v == [wk[w] EXCEPT !.pc = "claimed", !.job = j, !.attempt = job[j].attempts + 1]
<1>2. job[j].attempts + 1 \in 0..MaxAttempts
  BY <1>1 DEF IInv, TypeOK, JobRow, Claimable
<1>3. v \in Worker /\ v.job = j /\ v.pc = "claimed" /\ v.attempt = job[j].attempts + 1
  BY <1>2 DEF IInv, TypeOK, Worker, PCs
<1>4. wk' = [wk EXCEPT ![w] = v]
  BY <1>1
<1>5. /\ wk' \in [Workers -> Worker]
      /\ wk'[w].job = j /\ wk'[w].pc = "claimed" /\ wk'[w].attempt = job[j].attempts + 1
      /\ \A u \in Workers \ {w} : wk'[u] = wk[u]
  BY <1>3, <1>4 DEF IInv, TypeOK
<1> HIDE DEF v
<1>6. /\ job' \in [Jobs -> JobRow]
      /\ \A i \in Jobs : RowOK(job'[i])
      /\ ClaimMatchesRow'
  BY <1>1, <1>3, <1>5, ClaimedMatches
<1>7. \A u \in Workers : wk'[u].job = NoJob <=> wk'[u].pc \in {"down", "idle", "claiming"}
  BY <1>5 DEF IInv, TypeOK
<1>8. QED BY <1>5, <1>6, <1>7 DEF ClaimNext, IInv, TypeOK

LEMMA LostClaimStep == ASSUME IInv, NEW w \in Workers, ClaimReplyLost(w) PROVE IInv'
<1>1. PICK j \in Jobs : Claimable(job[j]) /\ job' = [job EXCEPT ![j] = ClaimedRow(job[j], w)]
  BY DEF ClaimReplyLost
<1>2. HandsKept /\ wk' \in [Workers -> Worker]
  BY IdleTypes DEF ClaimReplyLost, IInv, HandsKept
<1>3. wk'[w].job = NoJob /\ \A u \in Workers \ {w} : wk'[u] = wk[u]
  BY DEF ClaimReplyLost, Idle, IInv, TypeOK, Worker
<1>4. /\ job' \in [Jobs -> JobRow]
      /\ \A i \in Jobs : RowOK(job'[i])
      /\ ClaimMatchesRow'
  BY <1>1, <1>2, <1>3, ClaimedMatches
<1>5. faults' \in Nat
  BY DEF ClaimReplyLost, Fault, IInv, TypeOK
<1>6. QED BY <1>2, <1>4, <1>5 DEF ClaimReplyLost, IInv, TypeOK, HandsKept

\* The steps of a worker that settle the job in its hands.  The claimed copy of
\* markFailed agrees with the row, because the row still names the worker.
LEMMA HandsFull == ASSUME IInv, NEW w \in Workers,
                          wk[w].pc \notin {"down", "idle", "claiming"}
                   PROVE  wk[w].job \in Jobs /\ wk[w].job # NoJob /\ RowOK(job[wk[w].job])
BY DEF IInv, TypeOK, Worker

LEMMA IdleHands == ASSUME IInv, NEW w \in Workers, wk' = Idle(w) PROVE HandsKept
BY IdleTypes DEF IInv, HandsKept

LEMMA AwaitHands == ASSUME IInv, NEW w \in Workers, NEW pc \in PCs, wk' = Await(w, pc),
                           wk[w].pc \notin {"down", "idle", "claiming"},
                           pc \notin {"down", "idle", "claiming"}
                    PROVE  HandsKept
BY AwaitTypes DEF IInv, HandsKept

LEMMA SettlingStep == ASSUME IInv, NEW w \in Workers,
                             MarkCancelled(w) \/ MarkSucceeded(w) \/ MarkFailed(w)
                      PROVE  IInv'
<1> DEFINE r == job[wk[w].job]
<1>1. wk[w].pc \in {"cancelling", "finishing", "failing"}
  BY DEF MarkCancelled, MarkSucceeded, MarkFailed
<1>2. wk[w].job \in Jobs /\ wk[w].job # NoJob /\ RowOK(r)
  BY <1>1, HandsFull
<1>3. HandsKept
  BY IdleHands DEF MarkCancelled, MarkSucceeded, MarkFailed
<1>4. CallerOK' /\ faults' \in Nat /\ revived' \in Nat
  BY SameCaller DEF MarkCancelled, MarkSucceeded, MarkFailed, IInv, TypeOK
<1>5. CASE MarkCancelled(w)
  <2>1. Settle(w, MayMarkCancelled(r, w), MarkedCancelledRow(r))
    BY <1>5 DEF MarkCancelled
  <2>2. RowOK(MarkedCancelledRow(r)) /\ KeepsOrFrees(r, MarkedCancelledRow(r))
    BY <1>2, CancelRows, FreeingRows
  <2>3. MayMarkCancelled(r, w) \in BOOLEAN
    BY <1>2 DEF MayMarkCancelled, RowOK, JobRow
  <2>4. RowsKept
    BY <1>2, <2>1, <2>2, <2>3, Settled
  <2>5. QED BY <1>3, <1>4, <2>4, QuietStep
<1>6. CASE MarkSucceeded(w)
  <2>1. PICK matches \in FenceOutcomes(r, w) : Settle(w, matches, SucceededRow(r))
    BY <1>6 DEF MarkSucceeded
  <2>2. RowOK(SucceededRow(r)) /\ KeepsOrFrees(r, SucceededRow(r))
    BY <1>2, SettleRows, FreeingRows
  <2>3. matches \in BOOLEAN
    BY DEF FenceOutcomes, SurelyFenced, Fenced
  <2>4. RowsKept
    BY <1>2, <2>1, <2>2, <2>3, Settled
  <2>5. QED BY <1>3, <1>4, <2>4, QuietStep
<1>7. CASE MarkFailed(w)
  <2>1. PICK matches \in FenceOutcomes(r, w) : Settle(w, matches, FailedRow(r, wk[w].attempt))
    BY <1>7 DEF MarkFailed
  <2>2. matches \in BOOLEAN /\ (matches => r.owner = w)
    BY DEF FenceOutcomes, SurelyFenced, Fenced
  <2>3. matches => r.attempts = wk[w].attempt
    BY <1>2, <2>2 DEF IInv, ClaimMatchesRow
  <2>4. matches => /\ RowOK(FailedRow(r, wk[w].attempt))
                   /\ KeepsOrFrees(r, FailedRow(r, wk[w].attempt))
    BY <1>2, <2>3, SettleRows, FreeingRows
  <2>5. RowsKept
    BY <1>2, <2>1, <2>2, <2>4, Settled
  <2>6. QED BY <1>3, <1>4, <2>5, QuietStep
<1>8. QED BY <1>5, <1>6, <1>7

LEMMA LostSuccessStep == ASSUME IInv, NEW w \in Workers, SuccessReplyLost(w) PROVE IInv'
<1> DEFINE r == job[wk[w].job]
<1>1. wk[w].pc = "finishing" /\ Settle(w, TRUE, SucceededRow(r)) /\ wk' = Await(w, "failing")
  BY DEF SuccessReplyLost
<1>2. wk[w].job \in Jobs /\ wk[w].job # NoJob /\ RowOK(r)
  BY <1>1, HandsFull
<1>3. RowOK(SucceededRow(r)) /\ KeepsOrFrees(r, SucceededRow(r))
  BY <1>2, SettleRows, FreeingRows
<1>4. RowsKept
  BY <1>1, <1>2, <1>3, Settled
<1>5. HandsKept
  BY <1>1, AwaitHands DEF PCs
<1>6. CallerOK' /\ faults' \in Nat /\ revived' \in Nat
  BY SameCaller DEF SuccessReplyLost, Fault, IInv, TypeOK
<1>7. QED BY <1>4, <1>5, <1>6, QuietStep

\* The steps of a worker that write nothing.
LEMMA LoopStep == ASSUME IInv, NEW w \in Workers,
                         \/ Start(w) \/ Poll(w) \/ ClaimNothing(w) \/ CheckBeforeHandler(w)
                         \/ HandlerResolves(w) \/ HandlerRejects(w) \/ CheckAfterHandler(w)
                         \/ Exit(w)
                  PROVE  IInv'
<1>1. job' = job /\ caller' = caller /\ faults' = faults /\ revived' = revived
  BY DEF Start, Poll, ClaimNothing, CheckBeforeHandler, HandlerResolves, HandlerRejects,
         CheckAfterHandler, Exit
<1>2. RowsKept /\ CallerOK' /\ faults' \in Nat /\ revived' \in Nat
  BY <1>1, SameRows, SameCaller DEF IInv, TypeOK
<1>3. HandsKept => IInv'
  BY <1>2, QuietStep
<1>4. CASE Start(w)
  <2>1. wk' = [wk EXCEPT ![w] = Started]
    BY <1>4 DEF Start
  <2>2. HandsKept
    BY <2>1, ProcessTypes DEF IInv, HandsKept
  <2>3. QED BY <1>3, <2>2
<1>5. CASE Exit(w)
  <2>1. wk' = [wk EXCEPT ![w] = Down]
    BY <1>5 DEF Exit
  <2>2. HandsKept
    BY <2>1, ProcessTypes DEF IInv, HandsKept
  <2>3. QED BY <1>3, <2>2
<1>6. CASE Poll(w)
  <2>1. wk[w].pc = "idle" /\ wk' = Await(w, "claiming") /\ "claiming" \in PCs
    BY <1>6 DEF Poll, PCs
  <2>2. HandsKept
    BY <2>1, AwaitTypes DEF IInv, HandsKept
  <2>3. QED BY <1>3, <2>2
<1>7. CASE ClaimNothing(w)
  <2>1. wk' = Idle(w)
    BY <1>7 DEF ClaimNothing
  <2>2. QED BY <1>3, <2>1, IdleHands
<1>8. ASSUME \/ CheckBeforeHandler(w) \/ HandlerResolves(w)
             \/ HandlerRejects(w) \/ CheckAfterHandler(w)
      PROVE  IInv'
  <2>1. wk[w].pc \in {"claimed", "handling", "resolved"}
    BY <1>8 DEF CheckBeforeHandler, HandlerResolves, HandlerRejects, CheckAfterHandler
  <2>2. PICK pc \in {"cancelling", "handling", "resolved", "failing", "finishing"} :
            wk' = Await(w, pc)
    BY <1>8 DEF CheckBeforeHandler, HandlerResolves, HandlerRejects, CheckAfterHandler
  <2>3. pc \in PCs
    BY <2>2 DEF PCs
  <2>4. HandsKept
    BY <2>1, <2>2, <2>3, AwaitHands
  <2>5. QED BY <1>3, <2>4
<1>9. QED BY <1>4, <1>5, <1>6, <1>7, <1>8

LEMMA QuietFaultStep == ASSUME IInv, NEW w \in Workers,
                               Crash(w) \/ Stop(w) \/ StatementFails(w)
                        PROVE  IInv'
<1>1. job' = job /\ caller' = caller /\ faults' = faults + 1 /\ revived' = revived
  BY DEF Crash, Stop, StatementFails, Fault
<1>2. RowsKept /\ CallerOK' /\ faults' \in Nat /\ revived' \in Nat
  BY <1>1, SameRows, SameCaller DEF IInv, TypeOK
<1>3. CASE Crash(w)
  <2>1. HandsKept
    BY <1>3, ProcessTypes DEF Crash, IInv, HandsKept
  <2>2. QED BY <1>2, <2>1, QuietStep
<1>4. CASE Stop(w)
  <2> DEFINE u == [wk[w] EXCEPT !.accepting = FALSE, !.abort = (wk[w].pc = "handling")]
  <2>1. /\ u \in Worker /\ u.job = wk[w].job /\ u.attempt = wk[w].attempt
        /\ u.pc = wk[w].pc
    BY DEF IInv, TypeOK, Worker
  <2>2. wk' = [wk EXCEPT ![w] = u]
    BY <1>4 DEF Stop, IInv, TypeOK, Worker
  <2> HIDE DEF u
  <2>3. HandsKept
    BY <2>1, <2>2 DEF IInv, TypeOK, HandsKept, KeepsOrDrops
  <2>4. QED BY <1>2, <2>3, QuietStep
<1>5. CASE StatementFails(w)
  <2>1. HandsKept
    BY <1>5, IdleHands, AwaitHands DEF StatementFails, PCs
  <2>2. QED BY <1>2, <2>1, QuietStep
<1>6. QED BY <1>3, <1>4, <1>5

\* Time moves one row and keeps who owns it.
LEMMA ClockStep == ASSUME IInv, NEW j \in Jobs, TimeStep(j) PROVE IInv'
<1>1. RowOK(job[j])
  BY DEF IInv
<1>2. wk' = wk /\ caller' = caller /\ faults' = faults /\ revived' = revived
  BY DEF TimeStep, RunAtComes, LeaseAges
<1>3. HandsKept /\ CallerOK' /\ faults' \in Nat /\ revived' \in Nat
  BY <1>2, SameHands, SameCaller DEF IInv, TypeOK
<1>4. PICK row : /\ job' = [job EXCEPT ![j] = row]
                 /\ RowOK(row) /\ KeepsOrFrees(job[j], row)
  <2>1. CASE RunAtComes(j)
    <3> DEFINE row == [job[j] EXCEPT !.run = "due"]
    <3>1. job' = [job EXCEPT ![j] = row]
      BY <2>1 DEF RunAtComes
    <3>2. RowOK(row) /\ KeepsOrFrees(job[j], row)
      BY <1>1, TimeRows DEF KeepsOrFrees, RowOK, JobRow
    <3>3. QED BY <3>1, <3>2
  <2>2. CASE LeaseAges(j)
    <3>1. PICK lease \in {"lapsing", "lapsed"} :
            /\ lease = IF job[j].lease = "live" THEN "lapsing" ELSE "lapsed"
            /\ job' = [job EXCEPT ![j].lease = lease]
      BY <2>2 DEF LeaseAges
    <3> DEFINE row == [job[j] EXCEPT !.lease = lease]
    <3>2. job' = [job EXCEPT ![j] = row]
      BY <3>1
    <3>3. job[j].lease \in {"live", "lapsing"}
      BY <2>2 DEF LeaseAges
    <3>4. RowOK(row) /\ KeepsOrFrees(job[j], row)
      BY <1>1, <3>1, <3>3, TimeRows DEF KeepsOrFrees, RowOK, JobRow
    <3>5. QED BY <3>2, <3>4
  <2>3. QED BY <2>1, <2>2 DEF TimeStep
<1>5. RowsKept
  BY <1>4, OneRow DEF IInv, RowsKept
<1>6. QED BY <1>3, <1>5, QuietStep

\* The other writers.  A new or reactivated row belongs to nobody.
LEMMA WriterKeeps == ASSUME IInv, WriterStep PROVE IInv'
<1>1. wk' = wk /\ faults' = faults /\ revived' \in Nat
  BY DEF WriterStep, Enqueue, Reactivate, CancelFirst, CancelMonitoring, CancelQueuedJobs,
         RebindFlight, CancelSecond, CancelThird, CancelUnknown, IInv, TypeOK
<1>2. HandsKept /\ faults' \in Nat
  BY <1>1, SameHands DEF IInv, TypeOK
<1>3. RowsKept /\ CallerOK' => IInv'
  BY <1>1, <1>2, QuietStep
<1>4. ASSUME NEW j \in Jobs, Enqueue(j) \/ Reactivate(j) PROVE IInv'
  <2>1. PICK run \in {"later", "due"} : job' = [job EXCEPT ![j] = QueuedRow(run)]
    BY <1>4 DEF Enqueue, Reactivate, ReactivatedRow
  <2>2. RowOK(QueuedRow(run)) /\ QueuedRow(run).owner = NoWorker
    BY NewRow DEF QueuedRow, NoRow
  <2>3. RowsKept
    BY <2>1, <2>2, OneRow DEF IInv, RowsKept, KeepsOrFrees
  <2>4. QED BY <1>3, <1>4, <2>3, SameCaller DEF Enqueue, Reactivate
<1>5. ASSUME NEW j \in Jobs, CancelFirst(j) PROVE IInv'
  <2>1. RowOK(CancelledRow(job[j])) /\ KeepsOrFrees(job[j], CancelledRow(job[j]))
    BY CancelRows, FreeingRows DEF IInv
  <2>2. RowsKept
    BY <1>5, <2>1, OneRow DEF CancelFirst, IInv, RowsKept
  <2>3. CallerOK'
    BY <1>5 DEF CancelFirst, Answered, CallerOK, Caller, Answers
  <2>4. QED BY <1>3, <2>2, <2>3
<1>6. CASE CancelSecond
  <2>1. caller.job \in Jobs
    BY <1>6 DEF CancelSecond, IInv, TypeOK, Caller
  <2>2. RowOK(AskedRow(job[caller.job])) /\ KeepsOrFrees(job[caller.job], AskedRow(job[caller.job]))
    BY <2>1, CancelRows, FreeingRows DEF IInv
  <2>3. RowsKept
    BY <1>6, <2>1, <2>2, OneRow DEF CancelSecond, IInv, RowsKept
  <2>4. CallerOK'
    BY <1>6, <2>1 DEF CancelSecond, Answered, CallerOK, Caller, Answers, IInv, TypeOK
  <2>5. QED BY <1>3, <2>3, <2>4
<1>7. CASE CancelThird \/ CancelUnknown
  <2>1. RowsKept
    BY <1>7, SameRows DEF CancelThird, CancelUnknown
  <2>2. CallerOK'
    BY <1>7 DEF CancelThird, CancelUnknown, Answered, CallerOK, Caller, Answers
  <2>3. QED BY <1>3, <2>1, <2>2
<1>8. ASSUME NEW S \in SUBSET Jobs,
             CancelMonitoring(S) \/ CancelQueuedJobs(S) \/ RebindFlight(S)
      PROVE  IInv'
  <2>1. ASSUME NEW f, f \in {[j \in Jobs |-> AskedRow(CancelledRow(job[j]))],
                             [j \in Jobs |-> CancelledRow(job[j])],
                             [j \in Jobs |-> ForceCancelledRow(job[j])]}
        PROVE  f \in [Jobs -> JobRow] /\ \A j \in Jobs : RowOK(f[j]) /\ KeepsOrFrees(job[j], f[j])
    <3>1. \A j \in Jobs : RowOK(job[j])
      BY DEF IInv
    <3>2. \A j \in Jobs : /\ RowOK(CancelledRow(job[j]))
                          /\ KeepsOrFrees(job[j], CancelledRow(job[j]))
                          /\ RowOK(ForceCancelledRow(job[j]))
                          /\ KeepsOrFrees(job[j], ForceCancelledRow(job[j]))
                          /\ KeepsOrFrees(job[j], AskedRow(CancelledRow(job[j])))
      BY <3>1, CancelRows, FreeingRows
    <3>3. \A j \in Jobs : RowOK(AskedRow(CancelledRow(job[j])))
      BY <3>2, CancelRows
    <3>4. \A j \in Jobs : RowOK(f[j]) /\ KeepsOrFrees(job[j], f[j])
      BY <2>1, <3>2, <3>3
    <3>5. QED BY <2>1, <3>4 DEF RowOK
  <2>2. PICK f : /\ f \in {[j \in Jobs |-> AskedRow(CancelledRow(job[j]))],
                           [j \in Jobs |-> CancelledRow(job[j])],
                           [j \in Jobs |-> ForceCancelledRow(job[j])]}
                 /\ job' = [j \in Jobs |-> IF j \in S THEN f[j] ELSE job[j]]
    <3>1. CASE CancelMonitoring(S)
      BY <3>1 DEF CancelMonitoring
    <3>2. CASE CancelQueuedJobs(S)
      BY <3>2 DEF CancelQueuedJobs
    <3>3. CASE RebindFlight(S)
      BY <3>3 DEF RebindFlight
    <3>4. QED BY <1>8, <3>1, <3>2, <3>3
  <2>3. RowsKept
    BY <2>1, <2>2, Mapped
  <2>4. CallerOK'
    BY <1>8, SameCaller DEF CancelMonitoring, CancelQueuedJobs, RebindFlight
  <2>5. QED BY <1>3, <2>3, <2>4
<1>9. QED BY <1>4, <1>5, <1>6, <1>7, <1>8 DEF WriterStep

LEMMA NextIInv == IInv /\ [Next]_vars => IInv'
<1> SUFFICES ASSUME IInv, [Next]_vars PROVE IInv'
  OBVIOUS
<1>1. ASSUME NEW w \in Workers, WorkerStep(w) PROVE IInv'
  BY <1>1, ClaimStep, SettlingStep, LoopStep DEF WorkerStep
<1>2. ASSUME NEW w \in Workers, FaultStep(w) PROVE IInv'
  BY <1>2, QuietFaultStep, LostClaimStep, LostSuccessStep DEF FaultStep
<1>3. ASSUME NEW j \in Jobs, TimeStep(j) PROVE IInv'
  BY <1>3, ClockStep
<1>4. CASE WriterStep
  BY <1>4, WriterKeeps
<1>5. CASE UNCHANGED vars
  BY <1>5, SameRows, SameHands, SameCaller, QuietStep DEF vars, IInv, TypeOK
<1>6. QED BY <1>1, <1>2, <1>3, <1>4, <1>5 DEF Next

-----------------------------------------------------------------------------
(* How one row may change in one step.                                     *)

\* Everything but the end of an attempt by its worker.
Unsettled(r, s) ==
    \/ s.status = r.status /\ s.attempts = r.attempts
    \/ Lifecycle!Created(r.status, r.attempts, s.status, s.attempts)
    \/ Lifecycle!Begun(r.status, r.attempts, s.status, s.attempts)
    \/ Lifecycle!Cancelled(r.status, r.attempts, s.status, s.attempts)
    \/ Lifecycle!Reactivated(r.status, r.attempts, s.status, s.attempts)

\* The end of an attempt by the worker that claimed it.
SettledBy(w, j) ==
    /\ wk[w].job = j /\ wk[w].attempt = job[j].attempts
    /\ wk[w].pc \in {"finishing", "failing"}
    /\ job[j].owner = w /\ job[j].status = "RUNNING" /\ job[j].lease # "lapsed"
    /\ job'[j] \in {SucceededRow(job[j]), FailedRow(job[j], job[j].attempts)}

\* The statements that settle nothing.
LEMMA UnsettledRows ==
    ASSUME NEW r, RowOK(r), NEW w \in Workers
    PROVE  /\ Claimable(r) => Unsettled(r, ClaimedRow(r, w))
           /\ Unsettled(r, CancelledRow(r))
           /\ Unsettled(r, AskedRow(r))
           /\ Unsettled(r, AskedRow(CancelledRow(r)))
           /\ Unsettled(r, ForceCancelledRow(r))
           /\ r.status = "RUNNING" => Unsettled(r, MarkedCancelledRow(r))
<1>1. r \in JobRow
  BY DEF RowOK
<1>2. Claimable(r) => Unsettled(r, ClaimedRow(r, w))
  BY <1>1 DEF Unsettled, Claimable, ClaimedRow, JobRow, Lifecycle!Begun
<1>3. Unsettled(r, CancelledRow(r)) /\ Unsettled(r, AskedRow(CancelledRow(r)))
  BY <1>1 DEF Unsettled, CancelledRow, AskedRow, Released, JobRow, Lifecycle!Cancelled
<1>4. Unsettled(r, AskedRow(r)) /\ Unsettled(r, ForceCancelledRow(r))
  BY <1>1 DEF Unsettled, AskedRow, ForceCancelledRow, Released, JobRow, Lifecycle!Cancelled
<1>5. r.status = "RUNNING" => Unsettled(r, MarkedCancelledRow(r))
  BY <1>1 DEF Unsettled, MarkedCancelledRow, Released, JobRow, Lifecycle!Cancelled
<1>6. QED BY <1>2, <1>3, <1>4, <1>5

\* Every change of a row is one or the other.
RowChange(j) == \/ Unsettled(job[j], job'[j])
                \/ \E w \in Workers : SettledBy(w, j)

\* A row nobody writes, and a table nobody writes.
LEMMA UnwrittenRow == ASSUME NEW j \in Jobs, job'[j] = job[j] PROVE RowChange(j)
BY DEF RowChange, Unsettled

LEMMA WrittenRow == ASSUME IInv, NEW i \in Jobs, NEW row, job' = [job EXCEPT ![i] = row],
                           Unsettled(job[i], row), NEW j \in Jobs
                    PROVE  RowChange(j)
BY UnwrittenRow DEF RowChange, IInv, TypeOK

LEMMA WorkerRows == ASSUME IInv, NEW w \in Workers, WorkerStep(w) \/ FaultStep(w), NEW j \in Jobs
                    PROVE  RowChange(j)
<1>1. job \in [Jobs -> JobRow] /\ \A i \in Jobs : RowOK(job[i])
  BY DEF IInv, TypeOK
<1>2. ASSUME job' = job PROVE RowChange(j)
  BY <1>2, UnwrittenRow
<1>3. ASSUME ClaimNext(w) \/ ClaimReplyLost(w) PROVE RowChange(j)
  <2>1. PICK i \in Jobs : Claimable(job[i]) /\ job' = [job EXCEPT ![i] = ClaimedRow(job[i], w)]
    BY <1>3 DEF ClaimNext, ClaimReplyLost
  <2>2. Unsettled(job[i], ClaimedRow(job[i], w))
    BY <1>1, <2>1, UnsettledRows
  <2>3. QED BY <2>1, <2>2, WrittenRow
<1>4. ASSUME wk[w].pc \in {"cancelling", "finishing", "failing"},
             NEW row, NEW matches \in BOOLEAN, Settle(w, matches, row),
             matches => \/ Unsettled(job[wk[w].job], row)
                        \/ /\ Fenced(job[wk[w].job], w)
                           /\ wk[w].pc \in {"finishing", "failing"}
                           /\ row \in {SucceededRow(job[wk[w].job]),
                                      FailedRow(job[wk[w].job], wk[w].attempt)}
      PROVE  RowChange(j)
  <2>1. wk[w].job \in Jobs /\ wk[w].job # NoJob
    BY <1>4, HandsFull
  <2>2. CASE ~matches
    BY <1>2, <1>4, <2>2 DEF Settle
  <2>3. CASE matches /\ Unsettled(job[wk[w].job], row)
    BY <1>4, <2>1, <2>3, WrittenRow DEF Settle
  <2>4. CASE matches /\ ~Unsettled(job[wk[w].job], row)
    <3>1. job' = [job EXCEPT ![wk[w].job] = row]
      BY <1>4, <2>4 DEF Settle
    <3>2. CASE j # wk[w].job
      BY <1>1, <2>1, <3>1, <3>2, UnwrittenRow
    <3>3. CASE j = wk[w].job
      <4>1. /\ Fenced(job[j], w) /\ wk[w].pc \in {"finishing", "failing"}
            /\ row \in {SucceededRow(job[j]), FailedRow(job[j], wk[w].attempt)}
        BY <1>4, <2>4, <3>3
      <4>2. job[j].owner = w /\ job[j].status = "RUNNING" /\ job[j].lease # "lapsed"
        BY <4>1 DEF Fenced
      <4>3. job[j].attempts = wk[w].attempt
        BY <2>1, <3>3, <4>2 DEF IInv, ClaimMatchesRow
      <4>4. job'[j] = row
        BY <1>1, <2>1, <3>1, <3>3
      <4>5. SettledBy(w, j)
        BY <3>3, <4>1, <4>2, <4>3, <4>4 DEF SettledBy
      <4>6. QED BY <4>5 DEF RowChange
    <3>4. QED BY <3>2, <3>3
  <2>5. QED BY <2>2, <2>3, <2>4
<1>5. CASE MarkCancelled(w)
  <2> DEFINE r == job[wk[w].job]
  <2>1. wk[w].pc = "cancelling" /\ Settle(w, MayMarkCancelled(r, w), MarkedCancelledRow(r))
    BY <1>5 DEF MarkCancelled
  <2>2. RowOK(r)
    BY <2>1, HandsFull
  <2>3. MayMarkCancelled(r, w) => Unsettled(r, MarkedCancelledRow(r))
    BY <2>2, UnsettledRows DEF MayMarkCancelled
  <2>4. MayMarkCancelled(r, w) \in BOOLEAN
    BY <2>2 DEF MayMarkCancelled, RowOK, JobRow
  <2>5. QED BY <1>4, <2>1, <2>3, <2>4
<1>6. CASE MarkSucceeded(w)
  <2> DEFINE r == job[wk[w].job]
  <2>1. wk[w].pc = "finishing"
    BY <1>6 DEF MarkSucceeded
  <2>2. PICK matches \in FenceOutcomes(r, w) : Settle(w, matches, SucceededRow(r))
    BY <1>6 DEF MarkSucceeded
  <2>3. matches \in BOOLEAN /\ (matches => Fenced(r, w))
    BY DEF FenceOutcomes, SurelyFenced, Fenced
  <2>4. QED BY <1>4, <2>1, <2>2, <2>3
<1>7. CASE MarkFailed(w)
  <2> DEFINE r == job[wk[w].job]
  <2>1. wk[w].pc = "failing"
    BY <1>7 DEF MarkFailed
  <2>2. PICK matches \in FenceOutcomes(r, w) : Settle(w, matches, FailedRow(r, wk[w].attempt))
    BY <1>7 DEF MarkFailed
  <2>3. matches \in BOOLEAN /\ (matches => Fenced(r, w))
    BY DEF FenceOutcomes, SurelyFenced, Fenced
  <2>4. QED BY <1>4, <2>1, <2>2, <2>3
<1>8. CASE SuccessReplyLost(w)
  <2> DEFINE r == job[wk[w].job]
  <2>1. wk[w].pc = "finishing" /\ Fenced(r, w) /\ Settle(w, TRUE, SucceededRow(r))
    BY <1>8 DEF SuccessReplyLost
  <2>2. QED BY <1>4, <2>1
<1>9. CASE \/ Poll(w) \/ ClaimNothing(w) \/ CheckBeforeHandler(w) \/ HandlerResolves(w)
           \/ HandlerRejects(w) \/ CheckAfterHandler(w) \/ Exit(w) \/ Start(w)
           \/ Crash(w) \/ Stop(w) \/ StatementFails(w)
  BY <1>2, <1>9 DEF Poll, ClaimNothing, CheckBeforeHandler, HandlerResolves, HandlerRejects,
                    CheckAfterHandler, Exit, Start, Crash, Stop, StatementFails
<1>10. QED BY <1>3, <1>5, <1>6, <1>7, <1>8, <1>9 DEF WorkerStep, FaultStep

LEMMA OtherRows == ASSUME IInv, WriterStep \/ \E i \in Jobs : TimeStep(i), NEW j \in Jobs
                   PROVE  RowChange(j)
<1>1. job \in [Jobs -> JobRow] /\ \A i \in Jobs : RowOK(job[i]) /\ job[i] \in JobRow
  BY DEF IInv, TypeOK
<1>2. ASSUME NEW i \in Jobs, TimeStep(i) PROVE RowChange(j)
  <2>1. job'[j].status = job[j].status /\ job'[j].attempts = job[j].attempts
    BY <1>1, <1>2 DEF TimeStep, RunAtComes, LeaseAges, JobRow
  <2>2. QED BY <2>1 DEF RowChange, Unsettled
<1>3. ASSUME NEW i \in Jobs, Enqueue(i) \/ Reactivate(i) PROVE RowChange(j)
  <2>1. PICK run \in {"later", "due"} : job' = [job EXCEPT ![i] = QueuedRow(run)]
    BY <1>3 DEF Enqueue, Reactivate, ReactivatedRow
  <2>2. job[i].status \in {"ABSENT", "CANCELLED"}
    BY <1>3 DEF Enqueue, Reactivate
  <2>3. QueuedRow(run).status = "QUEUED" /\ QueuedRow(run).attempts = 0
    BY DEF QueuedRow, NoRow
  <2>4. Unsettled(job[i], QueuedRow(run))
    BY <2>2, <2>3 DEF Unsettled, Lifecycle!Created, Lifecycle!Reactivated
  <2>5. QED BY <2>1, <2>4, WrittenRow
<1>4. \A i \in Jobs : /\ Unsettled(job[i], CancelledRow(job[i]))
                      /\ Unsettled(job[i], AskedRow(job[i]))
                      /\ Unsettled(job[i], AskedRow(CancelledRow(job[i])))
                      /\ Unsettled(job[i], ForceCancelledRow(job[i]))
  <2>1. ASSUME NEW r, RowOK(r)
        PROVE  /\ Unsettled(r, CancelledRow(r)) /\ Unsettled(r, AskedRow(r))
               /\ Unsettled(r, AskedRow(CancelledRow(r))) /\ Unsettled(r, ForceCancelledRow(r))
    <3>1. r \in JobRow
      BY <2>1 DEF RowOK
    <3>2. QED BY <3>1 DEF Unsettled, CancelledRow, AskedRow, ForceCancelledRow, Released, JobRow,
                          Lifecycle!Cancelled
  <2>2. QED BY <1>1, <2>1
<1>5. ASSUME NEW i \in Jobs, CancelFirst(i) PROVE RowChange(j)
  BY <1>4, <1>5, WrittenRow DEF CancelFirst
<1>6. CASE CancelSecond
  <2>1. caller.job \in Jobs
    BY <1>6 DEF CancelSecond, IInv, TypeOK, Caller
  <2>2. QED BY <1>4, <1>6, <2>1, WrittenRow DEF CancelSecond
<1>7. CASE CancelThird \/ CancelUnknown
  BY <1>7, UnwrittenRow DEF CancelThird, CancelUnknown
<1>8. ASSUME NEW S \in SUBSET Jobs,
             CancelMonitoring(S) \/ CancelQueuedJobs(S) \/ RebindFlight(S)
      PROVE  RowChange(j)
  <2>1. job'[j] \in {job[j], CancelledRow(job[j]), AskedRow(CancelledRow(job[j])),
                     ForceCancelledRow(job[j])}
    BY <1>8 DEF CancelMonitoring, CancelQueuedJobs, RebindFlight
  <2>2. QED BY <1>4, <2>1, UnwrittenRow DEF RowChange
<1>9. QED BY <1>2, <1>3, <1>5, <1>6, <1>7, <1>8 DEF WriterStep

LEMMA StepRows == ASSUME IInv, [Next]_vars, NEW j \in Jobs PROVE RowChange(j)
BY WorkerRows, OtherRows, UnwrittenRow DEF Next, vars

-----------------------------------------------------------------------------
(* Theorems.                                                               *)

\* The inductive invariant holds in every reachable state.
THEOREM Invariance == Spec => []IInv
BY InitIInv, NextIInv, PTL DEF Spec

\* The variables keep their types, and hands and program counters agree.
THEOREM TypeCorrectness == Spec => []TypeOK
<1>1. IInv => TypeOK
  BY DEF IInv
<1>2. QED BY <1>1, Invariance, PTL

\* No statement ever breaks a CHECK constraint of the "Job" table.
THEOREM ChecksHold == Spec => []TableChecks
<1>1. IInv => TableChecks
  BY DEF IInv, RowOK, TableChecks
<1>2. QED BY <1>1, Invariance, PTL

\* Matching leaseOwner is as good as matching the attempt.
THEOREM OwnerFencesAttempt == Spec => []ClaimMatchesRow
<1>1. IInv => ClaimMatchesRow
  BY DEF IInv
<1>2. QED BY <1>1, Invariance, PTL

\* A job is FAILED only when its attempts are used up.
THEOREM FailedIsExhausted == Spec => []FailedMeansExhausted
<1>1. IInv => FailedMeansExhausted
  BY DEF IInv, RowOK, FailedMeansExhausted
<1>2. QED BY <1>1, Invariance, PTL

\* Only the worker that claimed the attempt ends it, and never once every clock
\* agrees that its lease is over.
THEOREM OnlyHoldersSettle == Spec => SettledByHolder
<1>1. ASSUME IInv, [Next]_vars, NEW j \in Jobs,
             job[j].status = "RUNNING", job'[j].status \in {"SUCCEEDED", "FAILED", "QUEUED"}
      PROVE  /\ job[j].lease # "lapsed"
             /\ \E w \in Workers : /\ wk[w].job = j
                                   /\ wk[w].attempt = job[j].attempts
                                   /\ job[j].owner = w
                                   /\ wk[w].pc \in {"finishing", "failing"}
  <2>1. ~Unsettled(job[j], job'[j])
    BY <1>1 DEF Unsettled, Lifecycle!Created, Lifecycle!Begun, Lifecycle!Cancelled,
                Lifecycle!Reactivated
  <2>2. PICK w \in Workers : SettledBy(w, j)
    BY <1>1, <2>1, StepRows DEF RowChange
  <2>3. QED BY <2>2 DEF SettledBy
<1>2. IInv /\ [Next]_vars => [\A j \in Jobs :
         job[j].status = "RUNNING" /\ job'[j].status \in {"SUCCEEDED", "FAILED", "QUEUED"}
           => /\ job[j].lease # "lapsed"
              /\ \E w \in Workers : /\ wk[w].job = j
                                    /\ wk[w].attempt = job[j].attempts
                                    /\ job[j].owner = w
                                    /\ wk[w].pc \in {"finishing", "failing"}]_vars
  BY <1>1
<1>3. QED BY <1>2, Invariance, PTL DEF Spec, SettledByHolder

\* The workers and the other writers together implement the life cycle that the
\* queue promises of every job.
LEMMA MovesOfRow == ASSUME IInv, NEW j \in Jobs, RowChange(j)
                    PROVE  \/ Lifecycle!Moves(job[j].status, job[j].attempts,
                                              job'[j].status, job'[j].attempts)
                           \/ job'[j].status = job[j].status /\ job'[j].attempts = job[j].attempts
<1>1. job[j] \in JobRow
  BY DEF IInv, TypeOK
<1>2. CASE Unsettled(job[j], job'[j])
  BY <1>2 DEF Unsettled, Lifecycle!Moves
<1>3. ASSUME NEW w \in Workers, SettledBy(w, j) 
      PROVE  Lifecycle!Moves(job[j].status, job[j].attempts, job'[j].status, job'[j].attempts)
  <2>1. CASE job'[j] = SucceededRow(job[j])
    BY <1>1, <1>3, <2>1 DEF SettledBy, SucceededRow, Released, JobRow, Lifecycle!Moves,
                            Lifecycle!Succeeded
  <2>2. CASE job'[j] = FailedRow(job[j], job[j].attempts) /\ job[j].attempts >= MaxAttempts
    <3>1. job[j].attempts = MaxAttempts
      BY <1>1, <2>2 DEF JobRow
    <3>2. job'[j].status = "FAILED" /\ job'[j].attempts = job[j].attempts
      BY <1>1, <2>2 DEF FailedRow, Released, JobRow
    <3>3. QED BY <1>3, <3>1, <3>2 DEF SettledBy, Lifecycle!Moves, Lifecycle!Exhausted
  <2>3. CASE job'[j] = FailedRow(job[j], job[j].attempts) /\ ~(job[j].attempts >= MaxAttempts)
    <3>1. job[j].attempts < MaxAttempts
      BY <1>1, <2>3 DEF JobRow
    <3>2. job'[j].status = "QUEUED" /\ job'[j].attempts = job[j].attempts
      BY <1>1, <2>3 DEF FailedRow, Released, JobRow
    <3>3. QED BY <1>3, <3>1, <3>2 DEF SettledBy, Lifecycle!Moves, Lifecycle!Retried
  <2>4. QED BY <1>3, <2>1, <2>2, <2>3 DEF SettledBy
<1>4. QED BY <1>2, <1>3 DEF RowChange

THEOREM ImplementsLifecycle == Spec => LifecycleSpec
<1>1. Init => Lifecycle!Init
  BY DEF Init, Lifecycle!Init, NoRow
<1>2. IInv /\ [Next]_vars => [Lifecycle!Next]_(Lifecycle!vars)
  <2> SUFFICES ASSUME IInv, [Next]_vars PROVE Lifecycle!Next
    OBVIOUS
  <2>1. ASSUME NEW j \in Jobs
        PROVE  \/ Lifecycle!Moves(job[j].status, job[j].attempts,
                                  job'[j].status, job'[j].attempts)
               \/ job'[j].status = job[j].status /\ job'[j].attempts = job[j].attempts
    <3>1. RowChange(j)
      BY StepRows
    <3>2. QED BY <3>1, MovesOfRow
  <2>2. QED BY <2>1 DEF Lifecycle!Next
<1>3. QED BY <1>1, <1>2, Invariance, PTL DEF Spec, LifecycleSpec, Lifecycle!Spec
=============================================================================
