---------------------------- MODULE JobLifecycle ----------------------------
(***************************************************************************)
(* What the durable job queue promises about one row of the "Job" table,   *)
(* whoever writes it: workers, the cancel call, and the transactions that  *)
(* create, cancel and reactivate monitoring jobs.  Leases, owners, clocks  *)
(* and worker processes are hidden; JobRunner implements this module.      *)
(***************************************************************************)
EXTENDS Naturals

CONSTANTS Jobs,         \* the unique keys under which jobs are ever created
          MaxAttempts   \* Job.maxAttempts

VARIABLES status,       \* "Job"."status", or "ABSENT" before the row exists
          attempts      \* "Job"."attempts"

vars == <<status, attempts>>

Terminal == {"SUCCEEDED", "FAILED", "CANCELLED"}

Init == /\ status = [j \in Jobs |-> "ABSENT"]
        /\ attempts = [j \in Jobs |-> 0]

\* The moves one row may make.  Each relates the row before and after.
Created(s, a, t, b)     == s = "ABSENT" /\ t = "QUEUED" /\ b = 0
Begun(s, a, t, b)       == /\ s \in {"QUEUED", "RUNNING"} /\ t = "RUNNING"
                           /\ a < MaxAttempts /\ b = a + 1
Succeeded(s, a, t, b)   == s = "RUNNING" /\ t = "SUCCEEDED" /\ b = a
Retried(s, a, t, b)     == s = "RUNNING" /\ t = "QUEUED" /\ a < MaxAttempts /\ b = a
Exhausted(s, a, t, b)   == s = "RUNNING" /\ t = "FAILED" /\ a = MaxAttempts /\ b = a
Cancelled(s, a, t, b)   == s \in {"QUEUED", "RUNNING"} /\ t = "CANCELLED" /\ b = a
Reactivated(s, a, t, b) == s = "CANCELLED" /\ t = "QUEUED" /\ b = 0

Moves(s, a, t, b) ==
    \/ Created(s, a, t, b)   \/ Begun(s, a, t, b)     \/ Succeeded(s, a, t, b)
    \/ Retried(s, a, t, b)   \/ Exhausted(s, a, t, b) \/ Cancelled(s, a, t, b)
    \/ Reactivated(s, a, t, b)

\* One transaction may move several rows (a capability stop cancels every
\* queued job of the trip), each of them by a legal move.
Next == \A j \in Jobs :
            \/ Moves(status[j], attempts[j], status'[j], attempts'[j])
            \/ status'[j] = status[j] /\ attempts'[j] = attempts[j]

Spec == Init /\ [][Next]_vars
=============================================================================
