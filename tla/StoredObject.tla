---------------------------- MODULE StoredObject ----------------------------
(***************************************************************************)
(* Private objects: the rows of "StoredObject", the two files a storage    *)
(* key can own (the object and its `.tmp-' partial), and the processes     *)
(* that work on them without a transaction spanning both stores: the       *)
(* upload request of each object, delete requests, and the reconciliation  *)
(* that the worker's heartbeat runs.                                       *)
(*                                                                         *)
(* Each action is one statement, one file operation, or the code between   *)
(* two awaits.  A process id is the object itself for its upload request.  *)
(***************************************************************************)
EXTENDS Integers, FiniteSets

CONSTANTS Objects,      \* server-generated ids and storage keys, used once
          Deleters,     \* delete requests
          Reconcilers,  \* workers running reconcile()
          Quota,        \* maxUserTotalBytes, in objects of one unit
          MaxFaults     \* bound on crashes, errors and leases outlived

ASSUME StoredObjectAssumption ==
    /\ Objects \cap Deleters = {} /\ Objects \cap Reconcilers = {}
    /\ Deleters \cap Reconcilers = {}
    /\ Quota \in Nat /\ MaxFaults \in Nat

VARIABLES row,    \* "StoredObject"
          file,   \* the files under each key
          pr,     \* the processes
          faults  \* faults so far

vars == <<row, file, pr, faults>>

Procs  == Objects \cup Deleters \cup Reconcilers
States == {"ABSENT", "PENDING", "READY", "FAILED", "DELETED"}
Dead   == {"FAILED", "DELETED"}

\* stale: createdAt has fallen behind the reconciliation's pendingBefore.
\* gone: storageDeletedAt is set.  next: cleanupNextAttemptAt.
Row  == [state : States, stale : BOOLEAN, gone : BOOLEAN, attempts : Nat,
         next : {"none", "later", "due"}]
File == [object : BOOLEAN, partial : BOOLEAN]

\* A cleanup claim as returned by the two claim statements.
Claim == [obj : Objects, attempt : Nat]

Cleaning == {"rmObject", "rmPartial", "complete", "failClean"}
PCs == {"idle",      \* request not received; reconciliation between heartbeats
        "reserved", "writing", "stored", "failing", "reclaim",   \* upload
        "marked",                                                \* delete request
        "done",      \* request answered, or its process died
        "abandoned"} \* the same, for an upload whose row was FAILED or DELETED by others
       \cup Cleaning

Proc == [pc : PCs, claims : SUBSET Claim, obj : Objects \cup {"none"}, attempt : Nat]

\* With the table's CHECK: only a failed or deleted object has storageDeletedAt.
TypeOK == /\ row \in [Objects -> Row]
          /\ \A o \in Objects : row[o].gone => row[o].state \in Dead
          /\ file \in [Objects -> File]
          /\ pr \in [Procs -> Proc]
          /\ faults \in Nat

NoRow  == [state |-> "ABSENT", stale |-> FALSE, gone |-> FALSE, attempts |-> 0, next |-> "none"]
NoFile == [object |-> FALSE, partial |-> FALSE]
Resting(pc) == [pc |-> pc, claims |-> {}, obj |-> "none", attempt |-> 0]

Init == /\ row = [o \in Objects |-> NoRow]
        /\ file = [o \in Objects |-> NoFile]
        /\ pr = [p \in Procs |-> Resting("idle")]
        /\ faults = 0

Goto(p, pc) == pr' = [pr EXCEPT ![p].pc = pc]
Rest(p, pc) == pr' = [pr EXCEPT ![p] = Resting(pc)]
Fault == faults < MaxFaults /\ faults' = faults + 1

-----------------------------------------------------------------------------
(* Upload: ObjectService.store, LocalFilesystemStorage.put.                *)

\* PENDING and READY rows count against the owner's quota; FAILED and DELETED do not.
Reserved == {o \in Objects : row[o].state \in {"PENDING", "READY"}}

\* reserve, serialised per owner by an advisory lock.
Reserve(o) == /\ pr[o].pc = "idle"
              /\ Cardinality(Reserved) + 1 <= Quota
              /\ row' = [row EXCEPT ![o].state = "PENDING"]
              /\ Goto(o, "reserved")
              /\ UNCHANGED <<file, faults>>

\* put finds neither file and creates the partial; a key is used only once.
OpenPartial(o) == /\ pr[o].pc = "reserved"
                  /\ file' = [file EXCEPT ![o].partial = TRUE]
                  /\ Goto(o, "writing")
                  /\ UNCHANGED <<row, faults>>

\* The last chunk is written, the sizes agree and the partial becomes the object,
\* unless a cleanup has removed it in the meantime (rename: ENOENT).
Rename(o) == /\ pr[o].pc = "writing"
             /\ IF file[o].partial
                THEN /\ file' = [file EXCEPT ![o] = [object |-> TRUE, partial |-> FALSE]]
                     /\ Goto(o, "stored")
                ELSE /\ UNCHANGED file
                     /\ Goto(o, "failing")
             /\ UNCHANGED <<row, faults>>

\* The source ends early, exceeds its limit or fails; put removes its partial, if it can.
WriteFails(o) == /\ Fault
                 /\ pr[o].pc = "writing"
                 /\ \E removed \in BOOLEAN :
                        file' = IF removed THEN [file EXCEPT ![o].partial = FALSE] ELSE file
                 /\ Goto(o, "failing")
                 /\ UNCHANGED row

\* markReady moves a PENDING row only; otherwise it throws.
MarkReady(o) == /\ pr[o].pc = "stored"
                /\ IF row[o].state = "PENDING"
                   THEN /\ row' = [row EXCEPT ![o].state = "READY"]
                        /\ Rest(o, "done")
                   ELSE UNCHANGED row /\ Goto(o, "failing")
                /\ UNCHANGED <<file, faults>>

\* The transaction commits but its reply is lost: the upload is reported as failed.
ReadyReplyLost(o) == /\ Fault
                     /\ pr[o].pc = "stored" /\ row[o].state = "PENDING"
                     /\ row' = [row EXCEPT ![o].state = "READY"]
                     /\ Goto(o, "failing")
                     /\ UNCHANGED file

MarkFailed(o) == /\ pr[o].pc = "failing"
                 /\ row' = IF row[o].state = "PENDING"
                           THEN [row EXCEPT ![o].state = "FAILED"] ELSE row
                 /\ Goto(o, "reclaim")
                 /\ UNCHANGED <<file, faults>>

-----------------------------------------------------------------------------
(* Deletion requests: ObjectService.delete.                                *)

\* markDeleted, from any state of an existing row.
MarkDeleted(d, o) == /\ pr[d].pc = "idle"
                     /\ row[o].state # "ABSENT"
                     /\ row' = [row EXCEPT ![o].state = "DELETED"]
                     /\ pr' = [pr EXCEPT ![d] = [Resting("marked") EXCEPT !.obj = o]]
                     /\ UNCHANGED <<file, faults>>

-----------------------------------------------------------------------------
(* Cleanup.                                                                *)

\* The row a claim leaves.  claimObjectCleanup reopens a completed deletion.
\* A claim by the batch finds storageDeletedAt null already.
ClaimedRow(r) == [r EXCEPT !.state = IF @ = "PENDING" THEN "FAILED" ELSE @,
                           !.gone = FALSE, !.attempts = @ + 1, !.next = "later"]

\* Mistaken: the object of a failed request is taken for a failed object.
OwnClaimableAlways(r) == TRUE

\* claimObjectCleanup asks for the state only: not for the lease, nor for the deletion.
OwnClaimable(r) == r.state \in Dead

\* What a failed or deleted upload claims for itself: its object, or nothing (FENCED).
Subject(p) == IF p \in Objects THEN p ELSE pr[p].obj

ClaimOwn(p) ==
    /\ pr[p].pc \in {"reclaim", "marked"}
    /\ LET o == Subject(p) IN
         IF OwnClaimable(row[o])
         THEN /\ row' = [row EXCEPT ![o] = ClaimedRow(@)]
              /\ pr' = [pr EXCEPT ![p] = [pc |-> "rmObject", claims |-> {}, obj |-> o,
                                          attempt |-> row[o].attempts + 1]]
         ELSE UNCHANGED row /\ Rest(p, "done")
    /\ UNCHANGED <<file, faults>>

\* Mistaken: failed objects are thought to have no files.
EligibleNotFailed(r) == /\ ~r.gone
                        /\ r.state = "DELETED" \/ (r.state = "PENDING" /\ r.stale)
                        /\ r.next \in {"none", "due"}

\* claimCleanupBatch: stale reservations, and dead rows not yet confirmed.
Eligible(r) == /\ ~r.gone
               /\ r.state \in Dead \/ (r.state = "PENDING" /\ r.stale)
               /\ r.next \in {"none", "due"}

ClaimBatch(w) ==
    /\ pr[w].pc = "idle"
    /\ \E S \in SUBSET {o \in Objects : Eligible(row[o])} :
         \E first \in S :
           /\ row' = [o \in Objects |-> IF o \in S THEN ClaimedRow(row[o]) ELSE row[o]]
           /\ pr' = [pr EXCEPT ![w] =
                [pc |-> "rmObject", obj |-> first, attempt |-> row[first].attempts + 1,
                 claims |-> {[obj |-> o, attempt |-> row[o].attempts + 1] : o \in S \ {first}}]]
    /\ UNCHANGED <<file, faults>>

\* LocalFilesystemStorage.delete: the object, then its partial; absence is success.
RemoveObject(p) == /\ pr[p].pc = "rmObject"
                   /\ file' = [file EXCEPT ![pr[p].obj].object = FALSE]
                   /\ Goto(p, "rmPartial")
                   /\ UNCHANGED <<row, faults>>

RemovePartial(p) == /\ pr[p].pc = "rmPartial"
                    /\ file' = [file EXCEPT ![pr[p].obj].partial = FALSE]
                    /\ Goto(p, "complete")
                    /\ UNCHANGED <<row, faults>>

RemoveFails(p) == /\ Fault
                  /\ pr[p].pc \in {"rmObject", "rmPartial"}
                  /\ Goto(p, "failClean")
                  /\ UNCHANGED <<row, file>>

\* Mistaken: the attempt is not compared.
FencedByState(r, attempt) == r.state \in Dead /\ ~r.gone

\* The fence of completeCleanup and failCleanup.
Fenced(r, attempt) == r.attempts = attempt /\ r.state \in Dead /\ ~r.gone

\* A request is answered; reconcile goes on to the next claim of its batch.
NextClaim(p) ==
    IF pr[p].claims = {}
    THEN Rest(p, IF p \in Reconcilers THEN "idle" ELSE "done")
    ELSE \E c \in pr[p].claims :
            pr' = [pr EXCEPT ![p] = [pc |-> "rmObject", obj |-> c.obj, attempt |-> c.attempt,
                                     claims |-> pr[p].claims \ {c}]]

CompleteCleanup(p) ==
    /\ pr[p].pc = "complete"
    /\ LET o == pr[p].obj IN
         row' = IF Fenced(row[o], pr[p].attempt)
                THEN [row EXCEPT ![o] = [@ EXCEPT !.gone = TRUE, !.next = "none"]] ELSE row
    /\ NextClaim(p)
    /\ UNCHANGED <<file, faults>>

FailCleanup(p) ==
    /\ pr[p].pc = "failClean"
    /\ LET o == pr[p].obj IN
         row' = IF Fenced(row[o], pr[p].attempt)
                THEN [row EXCEPT ![o].next = "later"] ELSE row
    /\ NextClaim(p)
    /\ UNCHANGED <<file, faults>>

-----------------------------------------------------------------------------
(* Faults and time.                                                        *)

\* How a request ends whose upload nobody else has failed or deleted, or not.
Ended(p) == IF p \in Objects /\ row[p].state \in Dead THEN "abandoned" ELSE "done"

\* A process dies between two steps, and the work in its hands with it.
Crash(p) == /\ Fault
            /\ pr[p].pc \notin {"idle", "done", "abandoned"}
            /\ Rest(p, IF p \in Reconcilers THEN "idle" ELSE Ended(p))
            /\ UNCHANGED <<row, file>>

\* A statement throws without effect.  Errors of markFailed and claimObjectCleanup
\* are swallowed by store; delete reports them; a failed completion is recorded as
\* a failed cleanup, and the rest as the next claim's business.
StatementFails(p) ==
    /\ Fault
    /\ \/ pr[p].pc = "stored" /\ Goto(p, "failing")
       \/ pr[p].pc \in {"failing", "reclaim", "marked"} /\ Rest(p, Ended(p))
       \/ pr[p].pc = "complete" /\ Goto(p, "failClean")
       \/ pr[p].pc = "failClean" /\ NextClaim(p)
    /\ UNCHANGED <<row, file>>

Stales(o) == /\ row[o].state = "PENDING" /\ ~row[o].stale
             /\ row' = [row EXCEPT ![o].stale = TRUE]
             /\ UNCHANGED <<file, pr, faults>>

Holds(p, o) == \/ pr[p].pc \in Cleaning /\ pr[p].obj = o /\ pr[p].attempt = row[o].attempts
               \/ [obj |-> o, attempt |-> row[o].attempts] \in pr[p].claims

\* cleanupNextAttemptAt passes; the lease is outlived if the claimant still works.
NextAttemptComes(o) ==
    /\ row[o].next = "later"
    /\ IF \E p \in Procs : Holds(p, o) THEN Fault ELSE UNCHANGED faults
    /\ row' = [row EXCEPT ![o].next = "due"]
    /\ UNCHANGED <<file, pr>>

-----------------------------------------------------------------------------
CleanStep(p) == \/ RemoveObject(p) \/ RemovePartial(p)
                \/ CompleteCleanup(p) \/ FailCleanup(p)

UploadStep(o) == \/ OpenPartial(o) \/ Rename(o) \/ MarkReady(o) \/ MarkFailed(o)
                 \/ ClaimOwn(o) \/ CleanStep(o)

DeleteStep(d) == ClaimOwn(d) \/ CleanStep(d)

ReconcileStep(w) == ClaimBatch(w) \/ CleanStep(w)

TimeStep(o) == Stales(o) \/ NextAttemptComes(o)

FaultStep == \/ \E o \in Objects : WriteFails(o) \/ ReadyReplyLost(o)
             \/ \E p \in Procs : RemoveFails(p) \/ Crash(p) \/ StatementFails(p)

Next == \/ \E o \in Objects : Reserve(o) \/ UploadStep(o) \/ TimeStep(o)
        \/ \E d \in Deleters : DeleteStep(d) \/ \E o \in Objects : MarkDeleted(d, o)
        \/ \E w \in Reconcilers : ReconcileStep(w)
        \/ FaultStep

Spec == Init /\ [][Next]_vars

\* Heartbeats keep coming, requests in progress go on, and time passes.
Fairness == /\ \A w \in Reconcilers : WF_vars(ReconcileStep(w))
            /\ \A o \in Objects : WF_vars(UploadStep(o)) /\ WF_vars(TimeStep(o))
            /\ \A d \in Deleters : WF_vars(DeleteStep(d))

FairSpec == Spec /\ Fairness

-----------------------------------------------------------------------------
(* Properties.                                                             *)

\* What retrieve relies on: the file of a READY row is there, whatever cleanups of
\* stale reservations and deletions race the upload.
ReadyIsReadable == \A o \in Objects : row[o].state = "READY" => file[o].object

\* No state is ever left for an earlier one: a reservation that reconciliation has
\* failed does not become READY when its slow upload ends, and DELETED is final.
Successors(s) == CASE s = "ABSENT"  -> {"ABSENT", "PENDING"}
                   [] s = "PENDING" -> {"PENDING", "READY", "FAILED", "DELETED"}
                   [] s = "READY"   -> {"READY", "DELETED"}
                   [] s = "FAILED"  -> {"FAILED", "DELETED"}
                   [] s = "DELETED" -> {"DELETED"}
NoResurrection == [][\A o \in Objects : row'[o].state \in Successors(row[o].state)]_vars

\* The upload of o has not come to its end.
Uploading(o) == pr[o].pc \notin {"idle", "done", "abandoned"}

\* A recorded deletion is physical, as long as the upload has not been cut off
\* after the row was failed or deleted under it.
GoneIsGone == \A o \in Objects :
    row[o].gone => file[o] = NoFile \/ Uploading(o) \/ pr[o].pc = "abandoned"

\* Every file of a failed or deleted object is removed in the end, and recorded as removed.
EventuallyClean == \A o \in Objects :
    row[o].state \in Dead
        ~> (file[o] = NoFile /\ row[o].gone) \/ pr[o].pc = "abandoned"

-----------------------------------------------------------------------------
=============================================================================
