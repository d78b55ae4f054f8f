----------------------- MODULE FlightMonitoringProofs -----------------------
(***************************************************************************)
(* Proofs about FlightMonitoring, for any workers, clients, reports and    *)
(* bounds.                                                                 *)
(*                                                                         *)
(* An execution decides from what it read before it called the provider.   *)
(* A revision carried by rows and executions (Authorised), the number of   *)
(* the observation an answer is about (Answers) and the flag of the last   *)
(* cancellation (Remembered) are what makes a late commit harmless or not; *)
(* the invariant relates them to the capability, the binding and the       *)
(* alerts.                                                                 *)
(***************************************************************************)
EXTENDS FlightMonitoring, WellFoundedInduction, TLAPS

\* One who is idle holds no row; an answer to accept is an observation.
RunOK(p) == /\ run[p].pc = "idle" => run[p].row = NoKey
            /\ run[p].pc = "accept" => run[p].answer \in 1..Len(observations)

\* What is enabled has a revision, and leaves one to a natural end.
CapabilityOK == capability.state = "ENABLED" => capability.revision \in 1..MaxRevision - 1

\* An alert is about the observation it is numbered by.
AlertsAreReports ==
    \A a \in alerts :
        /\ a.at \in 1..Len(observations)
        /\ a.kind = "CANCELLED" => observations[a.at].status = "CANCELLED"
        /\ a.kind = "RESTORED" => BeforeDeparture(observations[a.at].status)

\* A cancellation told of this adoption is remembered until it was taken back.
Remembered ==
    ~overwritten => \A a \in alerts :
        a.kind = "CANCELLED" /\ a.since = binding.since =>
            \/ monitor.cancelled
            \/ \E c \in alerts : c.kind = "RESTORED" /\ c.since = a.since /\ a.at < c.at

IInv == /\ TypeOK
        /\ \A p \in Runs : RunOK(p)
        /\ CapabilityOK
        /\ WorkIsAuthorised
        /\ DecisionsFollowBinding
        /\ AlertsAreReports
        /\ Remembered
        /\ CancellationToldOnce

-----------------------------------------------------------------------------
(* The rows.                                                               *)

\* A nonempty set of naturals has a least element.
LEMMA LeastNatural ==
    ASSUME NEW S \in SUBSET Nat, S # {}
    PROVE  \E m \in S : \A n \in S : m <= n
<1>1. PICK m \in S : \A n \in S : ~ (<<n, m>> \in OpToRel(<, Nat))
  BY NatLessThanWellFounded, WFMin
<1>2. \A n \in S : ~ (n < m)
  BY <1>1 DEF OpToRel
<1> QED BY <1>2

\* From R to S rows are withdrawn, and some are queued under a revision that
\* satisfies New; those that run are left alone.
Rescheduled(R, S, New) ==
    /\ S \in [Keys -> Row]
    /\ \A k \in Keys : /\ S[k].status = "RUNNING" <=> R[k].status = "RUNNING"
                       /\ S[k].status \in {"QUEUED", "RUNNING"} => S[k] = R[k] \/ S[k].revision \in New

LEMMA ScheduledTwice ==
    ASSUME NEW R, NEW S, NEW T, NEW New, Rescheduled(R, S, New), Rescheduled(S, T, New)
    PROVE  Rescheduled(R, T, New)
BY DEF Rescheduled

LEMMA NothingScheduled ==
    ASSUME NEW R \in [Keys -> Row], NEW New
    PROVE  Rescheduled(R, R, New)
BY DEF Rescheduled

LEMMA KeysAre == NoKey \notin Keys /\ FollowUpKeys \subseteq Keys
BY IdentityAssumption DEF IdentityAssumption, Keys

LEMMA NoRowIs == NoRow \in Row /\ NoRow.status = "ABSENT"
BY BoundsAssumption DEF BoundsAssumption, NoRow, Row

LEMMA QueueCancelledIs ==
    ASSUME NEW R \in [Keys -> Row], NEW New
    PROVE  Rescheduled(R, QueueCancelled(R), New)
<1> DEFINE S == QueueCancelled(R)
<1>1. S = [k \in Keys |-> IF R[k].status # "QUEUED" THEN R[k]
                          ELSE IF k \in FollowUpKeys THEN NoRow
                          ELSE [R[k] EXCEPT !.status = "CANCELLED"]]
  BY DEF QueueCancelled
<1> HIDE DEF S
<1>2. ASSUME NEW k \in Keys
      PROVE  /\ S[k] \in Row
             /\ S[k].status = "RUNNING" <=> R[k].status = "RUNNING"
             /\ S[k].status \in {"QUEUED", "RUNNING"} => S[k] = R[k]
  <2>1. R[k] \in Row
    OBVIOUS
  <2>2. [R[k] EXCEPT !.status = "CANCELLED"] \in Row
        /\ [R[k] EXCEPT !.status = "CANCELLED"].status = "CANCELLED"
    BY <2>1 DEF Row
  <2> QED BY <1>1, <2>1, <2>2, NoRowIs
<1>3. S \in [Keys -> Row]
  <2>1. S = [k \in Keys |-> S[k]]
    BY <1>1
  <2> QED BY <1>2, <2>1
<1>4. Rescheduled(R, S, New)
  BY <1>2, <1>3 DEF Rescheduled
<1> QED BY <1>4 DEF S

LEMMA ScheduledIs ==
    ASSUME NEW R \in [Keys -> Row], NEW K, NEW revision \in 0..MaxRevision,
           NEW reactivates \in BOOLEAN, NEW New, revision \in New
    PROVE  Rescheduled(R, Scheduled(R, K, revision, reactivates), New)
<1> DEFINE S == Scheduled(R, K, revision, reactivates)
           Chosen(k) == /\ k \in K
                        /\ R[k].status \in (IF reactivates THEN {"ABSENT", "CANCELLED"} ELSE {"ABSENT"})
           new == [status |-> "QUEUED", revision |-> revision]
<1>1. S = [k \in Keys |-> IF Chosen(k) THEN new ELSE R[k]]
  BY DEF Scheduled
<1>2. new \in Row /\ new.status = "QUEUED" /\ new.revision = revision
  BY DEF Row
<1>3. \A k : Chosen(k) => R[k].status \in {"ABSENT", "CANCELLED"}
  OBVIOUS
<1> HIDE DEF S, Chosen, new
<1>4. S \in [Keys -> Row]
  BY <1>1, <1>2
<1>5. Rescheduled(R, S, New)
  BY <1>1, <1>2, <1>3, <1>4 DEF Rescheduled
<1> QED BY <1>5 DEF S

LEMMA FollowUpScheduledIs ==
    ASSUME NEW R \in [Keys -> Row], NEW revision \in 0..MaxRevision, FreeFollowUps(R) # {},
           NEW New, revision \in New
    PROVE  Rescheduled(R, FollowUpScheduled(R, revision), New)
<1> DEFINE free == FreeFollowUps(R)
           k == CHOOSE x \in free : \A l \in free : x[2] <= l[2]
           new == [status |-> "QUEUED", revision |-> revision]
           S == FollowUpScheduled(R, revision)
<1>1. free \subseteq FollowUpKeys /\ free \subseteq Keys /\ \A l \in free : R[l].status = "ABSENT"
  BY KeysAre DEF FreeFollowUps
<1>2. \E x \in free : \A l \in free : x[2] <= l[2]
  <2> DEFINE numbers == {x[2] : x \in free}
  <2>1. numbers \in SUBSET Nat /\ numbers # {}
    BY <1>1 DEF FollowUpKeys
  <2>2. PICK m \in numbers : \A n \in numbers : m <= n
    BY <2>1, LeastNatural
  <2> QED BY <2>2
<1>3. k \in free
  BY <1>2
<1>4. S = [R EXCEPT ![k] = new]
  BY DEF FollowUpScheduled
<1>5. new \in Row /\ new.status = "QUEUED" /\ new.revision = revision
  BY DEF Row
<1> HIDE DEF S, k, new, free
<1>6. Rescheduled(R, S, New)
  BY <1>1, <1>3, <1>4, <1>5 DEF Rescheduled
<1> QED BY <1>6 DEF S

-----------------------------------------------------------------------------
(* The rows and executions: who holds what, under which revision.          *)

CapabilityRecord == [state : {"NOT_ENABLED", "ENABLED", "PAUSED", "STOPPED"}, revision : 0..MaxRevision]

RowsOK ==
    /\ capability \in CapabilityRecord
    /\ rows \in [Keys -> Row]
    /\ run \in [Runs -> Run]
    /\ RowsAreHeld
    /\ \A p \in Runs : run[p].pc = "idle" => run[p].row = NoKey
    /\ CapabilityOK
    /\ WorkIsAuthorised

\* A revision that work may carry: one the capability had, or has.
May(n) == n <= capability.revision /\ (n = capability.revision /\ capability.revision # 0
                                       => capability.state = "ENABLED")

LEMMA BoundsAre == MaxRevision \in Nat /\ MaxObservations \in Nat /\ Horizon \in Nat
BY BoundsAssumption DEF BoundsAssumption

\* The capability moves on, or stays.
CapabilityMoves ==
    \/ capability' = capability
    \/ capability' \in CapabilityRecord /\ capability'.revision = capability.revision + 1

LEMMA StillMay ==
    ASSUME capability \in CapabilityRecord, CapabilityMoves, NEW n \in Nat, May(n)
    PROVE  May(n)'
<1>1. capability.revision \in Nat
  BY BoundsAre DEF CapabilityRecord
<1> QED BY <1>1 DEF CapabilityMoves, May

LEMMA AuthorisedIs ==
    RowsOK => /\ \A p \in Runs : run[p].revision \in Nat /\ May(run[p].revision)
              /\ \A k \in Keys : rows[k].status \in {"QUEUED", "RUNNING"} =>
                    rows[k].revision \in Nat \ {0} /\ May(rows[k].revision)
<1> SUFFICES ASSUME RowsOK
             PROVE  /\ \A p \in Runs : run[p].revision \in Nat /\ May(run[p].revision)
                    /\ \A k \in Keys : rows[k].status \in {"QUEUED", "RUNNING"} =>
                          rows[k].revision \in Nat \ {0} /\ May(rows[k].revision)
  OBVIOUS
<1>1. \A p \in Runs : run[p].revision \in Nat
  BY BoundsAre DEF RowsOK, Run
<1>2. \A k \in Keys : rows[k].revision \in Nat
  BY BoundsAre DEF RowsOK, Row
<1>3. capability.revision \in Nat
  BY BoundsAre DEF RowsOK, CapabilityRecord
<1> QED BY <1>1, <1>2, <1>3 DEF RowsOK, WorkIsAuthorised, May

\* A step that moves no row between executions.
LEMMA Rearranged ==
    ASSUME RowsOK, CapabilityMoves, CapabilityOK',
           NEW New \in SUBSET (1..MaxRevision), \A n \in New : May(n)',
           Rescheduled(rows, rows', New),
           run' \in [Runs -> Run],
           \A p \in Runs : /\ run'[p].row = run[p].row
                           /\ run'[p].pc = "idle" => run'[p].row = NoKey
                           /\ May(run'[p].revision)
    PROVE  RowsOK'
<1>1. capability \in CapabilityRecord /\ capability' \in CapabilityRecord
  BY DEF RowsOK, CapabilityMoves
<1>2. capability'.revision \in Nat
  BY <1>1, BoundsAre DEF CapabilityRecord
<1>3. rows \in [Keys -> Row] /\ rows' \in [Keys -> Row] /\ RowsAreHeld
  BY DEF RowsOK, Rescheduled
<1>4. ASSUME NEW p \in Runs, run[p].row # NoKey
      PROVE  run[p].row \in Keys /\ rows'[run[p].row].status = "RUNNING"
  <2>1. run[p].row \in Keys
    BY <1>4 DEF RowsOK, Run
  <2> QED BY <1>3, <1>4, <2>1 DEF RowsAreHeld, Rescheduled
<1>5. RowsAreHeld'
  <2>1. \A k \in Keys : rows'[k].status = "RUNNING" => \E p \in Runs : run'[p].row = k
    BY <1>3 DEF RowsAreHeld, Rescheduled
  <2>2. \A p, q \in Runs : run'[p].row = run'[q].row /\ run'[p].row # NoKey => p = q
    BY <1>3 DEF RowsAreHeld
  <2> QED BY <1>4, <2>1, <2>2 DEF RowsAreHeld
<1>6. ASSUME NEW k \in Keys, rows'[k].status \in {"QUEUED", "RUNNING"}
      PROVE  rows'[k].revision \in Nat \ {0} /\ May(rows[k].revision)'
  <2>1. CASE rows'[k] = rows[k]
    <3>1. rows[k].revision \in Nat \ {0} /\ May(rows[k].revision)
      BY <1>6, <2>1, AuthorisedIs
    <3>2. PICK n \in Nat \ {0} : n = rows[k].revision /\ May(n)
      BY <3>1
    <3>3. May(n)'
      BY <1>1, <3>2, StillMay
    <3> QED BY <2>1, <3>2, <3>3 DEF May
  <2>2. CASE rows'[k].revision \in New
    <3>1. PICK n \in New : n = rows'[k].revision
      BY <2>2
    <3> QED BY <3>1, BoundsAre DEF May
  <2> QED BY <1>6, <2>1, <2>2 DEF Rescheduled
<1>7. ASSUME NEW p \in Runs
      PROVE  May(run[p].revision)'
  <2>1. run'[p].revision \in Nat
    BY BoundsAre DEF Run
  <2>2. PICK n \in Nat : n = run'[p].revision /\ May(n)
    BY <2>1
  <2>3. May(n)'
    BY <1>1, <2>2, StillMay
  <2> QED BY <2>2, <2>3 DEF May
<1>8. WorkIsAuthorised'
  BY <1>2, <1>6, <1>7 DEF WorkIsAuthorised, May
<1> QED BY <1>1, <1>3, <1>5, <1>8 DEF RowsOK

LEMMA NoMonitorIs == NoMonitor \in Monitor
BY BoundsAre DEF NoMonitor, Monitor, Modes

LEMMA IdleIs == Idle \in Run /\ Idle.pc = "idle" /\ Idle.row = NoKey /\ Idle.revision = 0
<1>1. 0 \in 0..MaxRevision /\ 0 \in 0..Horizon /\ 0 \in 0..MaxObservations
  BY BoundsAre
<1> QED BY <1>1, NoMonitorIs DEF Idle, Run

\* The execution's next step: it keeps its row and a revision that it may carry.
Goes(p, w) == /\ w \in Run /\ run' = [run EXCEPT ![p] = w]
              /\ w.row = run[p].row /\ May(w.revision)
              /\ w.pc = "idle" => w.row = NoKey

LEMMA GoesKeeps ==
    ASSUME RowsOK, NEW p \in Runs, NEW w, Goes(p, w)
    PROVE  /\ run' \in [Runs -> Run]
           /\ \A q \in Runs : /\ run'[q].row = run[q].row
                              /\ run'[q].pc = "idle" => run'[q].row = NoKey
                              /\ May(run'[q].revision)
<1>1. \A q \in Runs : run'[q] = IF q = p THEN w ELSE run[q]
  BY DEF RowsOK, Goes
<1>2. \A q \in Runs : May(run[q].revision) /\ (run[q].pc = "idle" => run[q].row = NoKey)
  BY AuthorisedIs DEF RowsOK
<1>3. run' \in [Runs -> Run]
  BY DEF RowsOK, Goes
<1> QED BY <1>1, <1>2, <1>3 DEF Goes

LEMMA RunMoves ==
    ASSUME RowsOK, UNCHANGED <<capability, rows>>, NEW p \in Runs, NEW w, Goes(p, w)
    PROVE  RowsOK'
<1>1. CapabilityMoves /\ CapabilityOK'
  BY DEF CapabilityMoves, RowsOK, CapabilityOK
<1>2. Rescheduled(rows, rows', {})
  BY NothingScheduled DEF RowsOK
<1> QED BY <1>1, <1>2, GoesKeeps, Rearranged

LEMMA EndedIs ==
    ASSUME RowsOK, NEW p \in Runs
    PROVE  /\ Ended(p) \in Run /\ Ended(p).row = run[p].row /\ Ended(p).pc \in {"idle", "settle"}
           /\ May(Ended(p).revision)
           /\ Ended(p).pc = "idle" => Ended(p).row = NoKey
<1>1. run[p].row \in Keys \cup {NoKey}
  BY DEF RowsOK, Run
<1>2. capability.revision \in Nat
  BY BoundsAre DEF RowsOK, CapabilityRecord
<1>3. May(0)
  BY <1>2 DEF May
<1>4. CASE run[p].row = NoKey
  BY <1>3, <1>4, IdleIs DEF Ended
<1>5. CASE run[p].row # NoKey
  <2> DEFINE w == [Idle EXCEPT !.pc = "settle", !.row = run[p].row]
  <2>1. w \in Run /\ w.row = run[p].row /\ w.pc = "settle" /\ w.revision = Idle.revision
    BY <1>1, IdleIs DEF Run
  <2>2. Ended(p) = w
    BY <1>5 DEF Ended
  <2> HIDE DEF w
  <2> QED BY <1>3, <2>1, <2>2, IdleIs
<1> QED BY <1>4, <1>5

LEMMA AtIs ==
    ASSUME RowsOK, NEW p \in Runs,
           NEW pc \in {"context", "before", "fetch", "accept", "commit", "failed"}
    PROVE  /\ At(p, pc) \in Run /\ At(p, pc).pc = pc
           /\ At(p, pc).row = run[p].row /\ At(p, pc).revision = run[p].revision
           /\ May(run[p].revision)
BY AuthorisedIs DEF RowsOK, At, Run

\* What a commit schedules, it schedules under the revision it was authorised by,
\* and what ends monitoring schedules nothing.
LEMMA FollowIs ==
    ASSUME RowsOK, NEW m, NEW t, NEW revision, NEW replaces \in BOOLEAN, NEW failed,
           Enabled(revision), Follow(rows, m, t, revision, replaces, failed)
    PROVE  /\ CapabilityMoves /\ CapabilityOK'
           /\ \E New \in SUBSET (1..MaxRevision) :
                 (\A n \in New : May(n)') /\ Rescheduled(rows, rows', New)
<1> DEFINE Q == IF replaces \/ NaturallyComplete(m, t) THEN QueueCancelled(rows) ELSE rows
<1>1. /\ capability = [state |-> "ENABLED", revision |-> revision]
      /\ revision \in 1..MaxRevision - 1 /\ rows \in [Keys -> Row] /\ capability \in CapabilityRecord
  BY DEF RowsOK, Enabled, CapabilityOK
<1>2. \A New : Rescheduled(rows, Q, New)
  BY <1>1, QueueCancelledIs, NothingScheduled
<1>3. Q \in [Keys -> Row]
  BY <1>2 DEF Rescheduled
<1> HIDE DEF Q
<1>4. revision \in 1..MaxRevision /\ revision + 1 \in 0..MaxRevision /\ revision \in 0..MaxRevision
  BY <1>1, BoundsAre
<1>5. CASE NaturallyComplete(m, t)
  <2>1. capability' = [state |-> "STOPPED", revision |-> revision + 1]
    BY <1>1, <1>5 DEF Follow
  <2>2. rows' = Q
    BY <1>5 DEF Follow, NaturallyComplete, Q
  <2>3. capability' \in CapabilityRecord /\ capability'.revision = capability.revision + 1
    BY <1>1, <1>4, <2>1 DEF CapabilityRecord
  <2>4. CapabilityMoves /\ CapabilityOK'
    BY <2>1, <2>3 DEF CapabilityMoves, CapabilityOK
  <2>5. Rescheduled(rows, rows', {})
    BY <1>2, <2>2
  <2> QED BY <2>4, <2>5
<1>6. CASE ~NaturallyComplete(m, t)
  <2>1. capability' = capability
    BY <1>6 DEF Follow
  <2>2. CapabilityMoves /\ CapabilityOK'
    BY <2>1 DEF CapabilityMoves, CapabilityOK, RowsOK
  <2>3. May(revision)' /\ revision \in {revision}
    BY <1>1, <2>1 DEF May
  <2>4. Rescheduled(Q, rows', {revision})
    <3>1. CASE HasNextCheck(m, t)
      <4>1. \/ FreeFollowUps(Q) # {} /\ rows' = FollowUpScheduled(Q, revision)
            \/ \E k : rows' = Scheduled(Q, {k}, revision, replaces)
        BY <3>1 DEF Follow, Q
      <4> QED BY <1>3, <1>4, <2>3, <4>1, FollowUpScheduledIs, ScheduledIs
    <3>2. CASE ~HasNextCheck(m, t)
      <4>1. rows' = IF m.mode = "NORMAL" /\ replaces
                    THEN CheckpointsScheduled(Q, revision, t, TRUE) ELSE Q
        BY <3>2 DEF Follow, Q
      <4> QED BY <1>3, <1>4, <2>3, <4>1, ScheduledIs, NothingScheduled DEF CheckpointsScheduled
    <3> QED BY <3>1, <3>2
  <2>5. Rescheduled(rows, rows', {revision})
    BY <1>2, <2>4, ScheduledTwice
  <2> QED BY <1>4, <2>2, <2>3, <2>5
<1> QED BY <1>5, <1>6

\* An execution gives up its row, or the row is taken from it.
LEMMA Released ==
    ASSUME RowsOK, UNCHANGED capability, NEW p \in Runs, NEW w \in Run, run' = [run EXCEPT ![p] = w],
           w.row = NoKey, May(w.revision),
           rows' \in {Requeued(run[p].row), Finished(run[p].row)}
    PROVE  RowsOK'
<1> DEFINE k == run[p].row
<1>1. /\ capability \in CapabilityRecord /\ capability' = capability
      /\ rows \in [Keys -> Row] /\ run \in [Runs -> Run] /\ RowsAreHeld
  BY DEF RowsOK
<1>2. run' \in [Runs -> Run] /\ run'[p] = w /\ \A q \in Runs : q # p => run'[q] = run[q]
  BY <1>1
<1>3. k \in Keys \cup {NoKey}
  BY <1>1 DEF Run
<1>4. /\ rows' \in [Keys -> Row]
      /\ \A j \in Keys : j # k => rows'[j] = rows[j]
      /\ k # NoKey => /\ rows'[k].status # "RUNNING"
                      /\ rows'[k].status = "QUEUED" => rows'[k].revision = rows[k].revision
  <2>1. CASE k = NoKey
    BY <1>1, <2>1 DEF Requeued, Finished
  <2>2. CASE k # NoKey /\ rows' = Requeued(k)
    <3>1. k \in Keys /\ rows[k] \in Row
      BY <1>1, <1>3, <2>2
    <3>2. rows' = [rows EXCEPT ![k] = [rows[k] EXCEPT !.status = "QUEUED"]]
      BY <2>2 DEF Requeued
    <3>3. /\ [rows[k] EXCEPT !.status = "QUEUED"] \in Row
          /\ [rows[k] EXCEPT !.status = "QUEUED"].status = "QUEUED"
          /\ [rows[k] EXCEPT !.status = "QUEUED"].revision = rows[k].revision
      BY <3>1 DEF Row
    <3> HIDE DEF k
    <3> QED BY <1>1, <3>1, <3>2, <3>3
  <2>3. CASE k # NoKey /\ rows' = Finished(k)
    <3> DEFINE r == IF k \in FollowUpKeys THEN NoRow ELSE [rows[k] EXCEPT !.status = "DONE"]
    <3>1. k \in Keys /\ rows[k] \in Row
      BY <1>1, <1>3, <2>3
    <3>2. rows' = [rows EXCEPT ![k] = r]
      BY <2>3 DEF Finished
    <3>3. r \in Row /\ r.status \in {"ABSENT", "DONE"}
      BY <3>1, NoRowIs DEF Row
    <3> HIDE DEF r, k
    <3> QED BY <1>1, <3>1, <3>2, <3>3
  <2> QED BY <2>1, <2>2, <2>3
<1>5. RowsAreHeld'
  <2>1. ASSUME NEW q \in Runs, run'[q].row # NoKey
        PROVE  rows'[run'[q].row].status = "RUNNING"
    <3>1. q # p /\ run'[q] = run[q]
      BY <1>2, <2>1
    <3>2. run[q].row # k /\ rows[run[q].row].status = "RUNNING" /\ run[q].row \in Keys
      BY <1>1, <2>1, <3>1 DEF RowsAreHeld, Run
    <3> QED BY <1>4, <3>1, <3>2
  <2>2. ASSUME NEW j \in Keys, rows'[j].status = "RUNNING"
        PROVE  \E q \in Runs : run'[q].row = j
    <3>1. j # k /\ rows[j].status = "RUNNING"
      BY <1>4, <2>2, KeysAre
    <3>2. PICK q \in Runs : run[q].row = j
      BY <1>1, <3>1 DEF RowsAreHeld
    <3>3. q # p
      BY <3>1, <3>2
    <3> QED BY <1>2, <3>2, <3>3
  <2>3. \A q, u \in Runs : run'[q].row = run'[u].row /\ run'[q].row # NoKey => q = u
    BY <1>1, <1>2 DEF RowsAreHeld
  <2> QED BY <2>1, <2>2, <2>3 DEF RowsAreHeld
<1>6. \A q \in Runs : run'[q].pc = "idle" => run'[q].row = NoKey
  BY <1>2 DEF RowsOK
<1>7. CapabilityOK'
  BY <1>1 DEF RowsOK, CapabilityOK
<1>8. \A q \in Runs : May(run'[q].revision)
  BY <1>2, AuthorisedIs
<1>9. ASSUME NEW j \in Keys, rows'[j].status \in {"QUEUED", "RUNNING"}
      PROVE  rows'[j].revision \in Nat \ {0} /\ May(rows'[j].revision)
  <2>1. CASE j # k
    BY <1>4, <1>9, <2>1, AuthorisedIs
  <2>2. CASE j = k
    <3>1. k # NoKey /\ rows[k].status = "RUNNING"
      BY <1>1, <2>2, KeysAre DEF RowsAreHeld
    <3> QED BY <1>4, <1>9, <2>2, <3>1, AuthorisedIs
  <2> QED BY <2>1, <2>2
<1>10. capability.revision \in Nat /\ \A q \in Runs : run'[q].revision \in Nat
  BY <1>1, <1>2, BoundsAre DEF CapabilityRecord, Run
<1>11. WorkIsAuthorised'
  BY <1>1, <1>8, <1>9, <1>10 DEF WorkIsAuthorised, May
<1> QED BY <1>1, <1>2, <1>4, <1>5, <1>6, <1>7, <1>11 DEF RowsOK

LEMMA ClaimRows ==
    ASSUME RowsOK, NEW p \in Runs, NEW k \in Keys, Claim(p, k)
    PROVE  RowsOK'
<1> DEFINE w == [Idle EXCEPT !.pc = "context", !.row = k, !.revision = rows[k].revision]
<1>1. /\ capability \in CapabilityRecord /\ capability' = capability
      /\ rows \in [Keys -> Row] /\ run \in [Runs -> Run] /\ RowsAreHeld
      /\ rows[k].status = "QUEUED" /\ run[p].pc = "idle" /\ run[p].row = NoKey
      /\ run' = [run EXCEPT ![p] = w]
      /\ rows' = [rows EXCEPT ![k] = [rows[k] EXCEPT !.status = "RUNNING"]]
  BY DEF RowsOK, Claim, Step
<1>2. rows[k] \in Row /\ rows[k].revision \in 0..MaxRevision
  BY <1>1 DEF Row
<1>3. w \in Run /\ w.row = k /\ w.pc = "context" /\ w.revision = rows[k].revision
  BY <1>2, IdleIs DEF Run
<1> HIDE DEF w
<1> DEFINE r == [rows[k] EXCEPT !.status = "RUNNING"]
<1>4. r \in Row /\ r.status = "RUNNING" /\ r.revision = rows[k].revision
  BY <1>2 DEF Row
<1>5. rows' = [rows EXCEPT ![k] = r]
  BY <1>1
<1> HIDE DEF r
<1>6. /\ rows' \in [Keys -> Row] /\ rows'[k] = r
      /\ \A j \in Keys : j # k => rows'[j] = rows[j]
  BY <1>1, <1>4, <1>5
<1>7. run' \in [Runs -> Run] /\ run'[p] = w /\ \A q \in Runs : q # p => run'[q] = run[q]
  BY <1>1, <1>3
<1>8. \A q \in Runs : run[q].row # k
  BY <1>1, KeysAre DEF RowsAreHeld
<1>9. RowsAreHeld'
  <2>1. ASSUME NEW q \in Runs, run'[q].row # NoKey
        PROVE  rows'[run'[q].row].status = "RUNNING"
    <3>1. CASE q = p
      BY <1>3, <1>4, <1>6, <1>7, <3>1
    <3>2. CASE q # p
      <4>1. run[q].row \in Keys /\ rows[run[q].row].status = "RUNNING"
        BY <1>1, <1>7, <2>1, <3>2 DEF RowsAreHeld, Run
      <4> QED BY <1>6, <1>7, <1>8, <3>2, <4>1
    <3> QED BY <3>1, <3>2
  <2>2. ASSUME NEW j \in Keys, rows'[j].status = "RUNNING"
        PROVE  \E q \in Runs : run'[q].row = j
    <3>1. CASE j = k
      BY <1>3, <1>7, <3>1
    <3>2. CASE j # k
      <4>1. PICK q \in Runs : run[q].row = j
        BY <1>1, <1>6, <2>2, <3>2 DEF RowsAreHeld
      <4>2. q # p
        BY <1>1, <4>1, KeysAre
      <4> QED BY <1>7, <4>1, <4>2
    <3> QED BY <3>1, <3>2
  <2>3. \A q, u \in Runs : run'[q].row = run'[u].row /\ run'[q].row # NoKey => q = u
    BY <1>1, <1>3, <1>7, <1>8 DEF RowsAreHeld
  <2> QED BY <2>1, <2>2, <2>3 DEF RowsAreHeld
<1>10. \A q \in Runs : run'[q].pc = "idle" => run'[q].row = NoKey
  BY <1>3, <1>7 DEF RowsOK
<1>11. CapabilityOK'
  BY <1>1 DEF RowsOK, CapabilityOK
<1>12. /\ rows[k].revision \in Nat \ {0} /\ May(rows[k].revision)
       /\ \A q \in Runs : May(run[q].revision)
  BY <1>1, AuthorisedIs
<1>13. \A q \in Runs : May(run'[q].revision)
  BY <1>3, <1>7, <1>12
<1>14. \A j \in Keys : rows'[j].status \in {"QUEUED", "RUNNING"} =>
          rows'[j].revision \in Nat \ {0} /\ May(rows'[j].revision)
  BY <1>4, <1>6, <1>12, AuthorisedIs
<1>15. capability.revision \in Nat /\ \A q \in Runs : run'[q].revision \in Nat
  BY <1>1, <1>7, BoundsAre DEF CapabilityRecord, Run
<1>16. WorkIsAuthorised'
  BY <1>1, <1>13, <1>14, <1>15 DEF WorkIsAuthorised, May
<1> QED BY <1>1, <1>6, <1>7, <1>9, <1>10, <1>11, <1>16 DEF RowsOK

LEMMA MayNone == RowsOK => May(0)
BY BoundsAre DEF RowsOK, CapabilityRecord, May

LEMMA HeartbeatRows ==
    ASSUME RowsOK, Heartbeat
    PROVE  RowsOK'
<1>1. /\ capability.state = "ENABLED" /\ capability' = capability /\ run' = run
      /\ rows \in [Keys -> Row] /\ run \in [Runs -> Run]
      /\ capability.revision \in 1..MaxRevision - 1
  BY DEF Heartbeat, RowsOK, CapabilityOK
<1>2. PICK rev \in 1..MaxRevision : rev = capability.revision /\ rev \in 0..MaxRevision /\ May(rev)'
  BY <1>1, BoundsAre DEF May
<1>3. \/ rows' = rows
      \/ FreeFollowUps(rows) # {} /\ rows' = FollowUpScheduled(rows, rev)
      \/ \E K : rows' = Scheduled(rows, K, rev, FALSE)
  BY <1>2 DEF Heartbeat, CheckpointsScheduled
<1>4. Rescheduled(rows, rows', {rev})
  BY <1>1, <1>2, <1>3, NothingScheduled, FollowUpScheduledIs, ScheduledIs
<1>5. CapabilityMoves /\ CapabilityOK'
  BY <1>1 DEF CapabilityMoves, RowsOK, CapabilityOK
<1>6. \A q \in Runs : May(run[q].revision) /\ (run[q].pc = "idle" => run[q].row = NoKey)
  BY AuthorisedIs DEF RowsOK
<1> QED BY <1>1, <1>2, <1>4, <1>5, <1>6, Rearranged

LEMMA CapabilityRows ==
    ASSUME RowsOK, NEW t \in Transitions, MutateCapability(t)
    PROVE  RowsOK'
<1>1. /\ capability \in CapabilityRecord /\ rows \in [Keys -> Row] /\ run \in [Runs -> Run]
      /\ run' = run /\ capability.revision + 1 < MaxRevision
      /\ capability' = [state |-> t.to, revision |-> capability.revision + 1]
      /\ rows' \in {rows, QueueCancelled(rows)}
  BY DEF RowsOK, MutateCapability, NextRevision
<1>2. t.to \in {"NOT_ENABLED", "ENABLED", "PAUSED", "STOPPED"} /\ capability.revision \in Nat
  BY <1>1, BoundsAre DEF Transitions, CapabilityRecord
<1>3. capability.revision + 1 \in 1..MaxRevision - 1 /\ capability.revision + 1 \in 0..MaxRevision
  BY <1>1, <1>2, BoundsAre
<1>4. capability' \in CapabilityRecord /\ capability'.revision = capability.revision + 1
  BY <1>1, <1>2, <1>3 DEF CapabilityRecord
<1>5. CapabilityMoves /\ CapabilityOK'
  BY <1>3, <1>4 DEF CapabilityMoves, CapabilityOK
<1>6. Rescheduled(rows, rows', {})
  BY <1>1, QueueCancelledIs, NothingScheduled
<1>7. \A q \in Runs : May(run[q].revision) /\ (run[q].pc = "idle" => run[q].row = NoKey)
  BY AuthorisedIs DEF RowsOK
<1> QED BY <1>1, <1>5, <1>6, <1>7, Rearranged

LEMMA AdoptRows ==
    ASSUME RowsOK, NEW f \in Flights, Adopt(f)
    PROVE  RowsOK'
<1>1. /\ capability' = capability /\ rows' = [k \in Keys |-> NoRow]
      /\ run' = [p \in Runs |-> [run[p] EXCEPT !.row = NoKey]] /\ run \in [Runs -> Run]
      /\ capability \in CapabilityRecord
  BY DEF Adopt, RowsOK
<1>2. rows' \in [Keys -> Row] /\ \A k \in Keys : rows'[k].status = "ABSENT"
  BY <1>1, NoRowIs
<1>3. \A p \in Runs : run'[p] \in Run /\ run'[p].row = NoKey /\ run'[p].revision = run[p].revision
  BY <1>1 DEF Run
<1>4. run' \in [Runs -> Run]
  BY <1>1, <1>3
<1>5. RowsAreHeld'
  BY <1>2, <1>3 DEF RowsAreHeld
<1>6. CapabilityOK'
  BY <1>1 DEF RowsOK, CapabilityOK
<1>7. WorkIsAuthorised'
  BY <1>1, <1>2, <1>3 DEF RowsOK, WorkIsAuthorised
<1> QED BY <1>1, <1>2, <1>3, <1>4, <1>5, <1>6, <1>7 DEF RowsOK

-----------------------------------------------------------------------------
(* The observations and what is decided and told about them.               *)

Observation == [flight : Flights, status : Reports]
Binding == [flight : Flights, since : 1..Len(observations), at : 1..Len(observations), flown : BOOLEAN]
Alert == [since : 1..MaxObservations, at : 1..MaxObservations, kind : {"CANCELLED", "RESTORED"}]

DecisionsOK ==
    /\ observations \in Seq(Observation) /\ Len(observations) \in 1..MaxObservations
    /\ binding \in Binding
    /\ monitor \in Monitor
    /\ alerts \subseteq Alert
    /\ overwritten \in BOOLEAN
    /\ DecisionsFollowBinding
    /\ AlertsAreReports
    /\ Remembered
    /\ CancellationToldOnce

LEMMA EnsuredIs ==
    ASSUME monitor \in Monitor
    PROVE  /\ Ensured \in Monitor /\ Ensured.decided = monitor.decided
           /\ Ensured.cancelled = monitor.cancelled /\ Ensured.window = monitor.window
           /\ Ensured.mode = monitor.mode
BY DEF Ensured, Monitor

\* Nothing is decided, though a missing state may be created.
LEMMA Undecided ==
    ASSUME DecisionsOK, UNCHANGED <<observations, binding, alerts, overwritten>>,
           monitor' \in {monitor, Ensured}
    PROVE  DecisionsOK'
<1>1. /\ monitor' \in Monitor /\ monitor'.decided = monitor.decided
      /\ monitor'.cancelled = monitor.cancelled
  BY EnsuredIs DEF DecisionsOK
<1>2. DecisionsFollowBinding' /\ AlertsAreReports' /\ Remembered' /\ CancellationToldOnce'
  BY <1>1 DEF DecisionsOK, DecisionsFollowBinding, AlertsAreReports, Remembered,
              CancellationToldOnce, CancellationsAlternate
<1> QED BY <1>1, <1>2 DEF DecisionsOK, Binding

LEMMA FetchNewDecisions ==
    ASSUME DecisionsOK, NEW p, FetchNew(p)
    PROVE  DecisionsOK' /\ Len(observations') = Len(observations) + 1
<1>1. /\ observations \in Seq(Observation) /\ Len(observations) \in 1..MaxObservations
      /\ binding \in Binding /\ Len(observations) < MaxObservations
      /\ UNCHANGED <<binding, monitor, alerts, overwritten>>
  BY DEF DecisionsOK, FetchNew
<1>2. PICK s \in Reports :
         observations' = Append(observations, [flight |-> binding.flight, status |-> s])
  BY DEF FetchNew
<1>3. binding.flight \in Flights
  BY <1>1 DEF Binding
<1>4. [flight |-> binding.flight, status |-> s] \in Observation
  BY <1>3 DEF Observation
<1>5. /\ observations' \in Seq(Observation) /\ Len(observations') = Len(observations) + 1
      /\ \A i \in 1..Len(observations) : observations'[i] = observations[i]
  BY <1>1, <1>2, <1>4
<1>6. Len(observations') \in 1..MaxObservations
  BY <1>1, <1>5, BoundsAre
<1>7. binding' \in Binding' /\ binding.since \in 1..Len(observations) /\ binding.at \in 1..Len(observations)
  BY <1>1, <1>5, BoundsAre DEF Binding
<1>8. DecisionsFollowBinding'
  BY <1>1, <1>5, <1>7 DEF DecisionsOK, DecisionsFollowBinding
<1>9. AlertsAreReports'
  <2> SUFFICES ASSUME NEW a \in alerts
               PROVE  /\ a.at \in 1..Len(observations')
                      /\ a.kind = "CANCELLED" => observations'[a.at].status = "CANCELLED"
                      /\ a.kind = "RESTORED" => BeforeDeparture(observations'[a.at].status)
    BY <1>1 DEF AlertsAreReports, BeforeDeparture
  <2>1. /\ a.at \in 1..Len(observations)
        /\ a.kind = "CANCELLED" => observations[a.at].status = "CANCELLED"
        /\ a.kind = "RESTORED" => BeforeDeparture(observations[a.at].status)
    BY DEF DecisionsOK, AlertsAreReports
  <2> QED BY <1>1, <1>5, <2>1
<1>10. Remembered' /\ CancellationToldOnce'
  BY <1>1 DEF DecisionsOK, Remembered, CancellationToldOnce, CancellationsAlternate
<1> QED BY <1>1, <1>5, <1>6, <1>7, <1>8, <1>9, <1>10 DEF DecisionsOK

LEMMA AcceptDecisions ==
    ASSUME DecisionsOK, NEW p, run[p].answer \in 1..Len(observations), Accept(p)
    PROVE  DecisionsOK'
<1> DEFINE n == run[p].answer
<1>1. UNCHANGED <<observations, monitor, alerts, overwritten>>
  BY DEF Accept
<1>2. CASE UNCHANGED binding
  BY <1>1, <1>2, Undecided
<1>3. CASE ~UNCHANGED binding
  <2>1. /\ observations[n].flight = binding.flight
        /\ binding' = [binding EXCEPT !.at = Newer(n),
                                      !.flown = binding.flown \/ observations[Newer(n)].status = "AIRBORNE"]
    BY <1>3 DEF Accept
  <2>2. /\ binding \in Binding /\ Len(observations) \in Nat
        /\ binding.at \in 1..Len(observations) /\ binding.since \in 1..Len(observations)
        /\ binding.flown \in BOOLEAN
        /\ DecisionsFollowBinding
    BY BoundsAre DEF DecisionsOK, Binding
  <2>3. Newer(n) \in 1..Len(observations) /\ Newer(n) >= binding.at
        /\ observations[Newer(n)].flight = binding.flight
    BY <2>1, <2>2 DEF Newer, DecisionsFollowBinding
  <2> HIDE DEF n
  <2>4. /\ binding' \in Binding
        /\ binding'.at = Newer(n) /\ binding'.since = binding.since /\ binding'.flight = binding.flight
    <3>1. \A b \in BOOLEAN : [binding EXCEPT !.at = Newer(n), !.flown = b] \in Binding
      BY <2>2, <2>3 DEF Binding
    <3>2. (binding.flown \/ observations[Newer(n)].status = "AIRBORNE") \in BOOLEAN
      BY <2>2
    <3>3. binding' \in Binding
      BY <2>1, <3>1, <3>2
    <3> QED BY <2>1, <2>2, <3>3 DEF Binding
  <2>5. DecisionsFollowBinding'
    <3>1. monitor.decided \in 0..MaxObservations
      BY DEF DecisionsOK, Monitor
    <3>2. \A a \in alerts : a.at \in Nat /\ a.since \in Nat
      BY BoundsAre DEF DecisionsOK, Alert
    <3> QED BY <1>1, <2>2, <2>3, <2>4, <3>1, <3>2, BoundsAre DEF DecisionsFollowBinding
  <2>6. AlertsAreReports' /\ Remembered' /\ CancellationToldOnce'
    BY <1>1, <2>4 DEF DecisionsOK, AlertsAreReports, Remembered, CancellationToldOnce,
                      CancellationsAlternate
  <2> QED BY <1>1, <2>4, <2>5, <2>6 DEF DecisionsOK, Binding
<1> QED BY <1>2, <1>3

LEMMA StatusIs ==
    ASSUME DecisionsOK
    PROVE  LatestStatus \in Statuses /\ binding.at \in 1..Len(observations)
<1>1. binding.at \in 1..Len(observations) /\ observations \in Seq(Observation)
  BY DEF DecisionsOK, Binding
<1>2. observations[binding.at] \in Observation
  BY <1>1
<1> QED BY <1>1, <1>2, BoundsAssumption DEF BoundsAssumption, LatestStatus, Observation

LEMMA DecidedIs ==
    ASSUME NEW m \in Monitor, NEW s \in Statuses, NEW t \in Nat
    PROVE  LET d == Decided(m, s, t)
           IN  /\ d \in Monitor /\ d.decided = m.decided
               /\ d.cancelled <=> s = "CANCELLED" \/ (m.cancelled /\ ~BeforeDeparture(s))
               /\ m.window # 0 => d.window = m.window
<1> DEFINE cancelled == s = "CANCELLED" \/ (m.cancelled /\ ~BeforeDeparture(s))
           window == IF s = "LANDED" /\ m.window = 0 THEN t + WindowLength ELSE m.window
           d == [m EXCEPT !.mode = ModeFor(s), !.cancelled = cancelled, !.window = window]
<1>1. ModeFor(s) \in Modes
  BY DEF ModeFor, Modes, Statuses
<1>2. window \in Nat /\ (m.window # 0 => window = m.window)
  BY BoundsAssumption DEF BoundsAssumption, Monitor
<1>3. cancelled \in BOOLEAN
  BY DEF Monitor, BeforeDeparture
<1>4. Decided(m, s, t) = d
  BY DEF Decided
<1> HIDE DEF window, cancelled
<1>5. d \in Monitor /\ d.decided = m.decided /\ d.cancelled = cancelled /\ d.window = window
  BY <1>1, <1>2, <1>3 DEF Monitor
<1> HIDE DEF d
<1> QED BY <1>2, <1>4, <1>5 DEF cancelled

\* What is told when the monitor decides about the observation the binding has:
\* a cancellation that is not remembered, and that one is taken back.
LEMMA Telling ==
    ASSUME DecisionsOK, UNCHANGED <<observations, binding, overwritten>>,
           monitor' \in Monitor, monitor'.decided \in {monitor.decided, binding.at},
           NEW kinds \in SUBSET {"CANCELLED", "RESTORED"},
           "CANCELLED" \in kinds => LatestStatus = "CANCELLED" /\ ~monitor.cancelled,
           LatestStatus = "CANCELLED" => monitor'.cancelled,
           "RESTORED" \in kinds => BeforeDeparture(LatestStatus),
           monitor.cancelled /\ ~monitor'.cancelled => "RESTORED" \in kinds,
           alerts' = alerts \cup {[since |-> binding.since, at |-> binding.at, kind |-> k] : k \in kinds}
    PROVE  DecisionsOK'
<1> DEFINE new == {[since |-> binding.since, at |-> binding.at, kind |-> k] : k \in kinds}
           at == binding.at
<1>1. /\ binding \in Binding /\ at \in 1..Len(observations) /\ binding.since \in 1..Len(observations)
      /\ Len(observations) \in 1..MaxObservations
      /\ at \in 1..MaxObservations /\ binding.since \in 1..MaxObservations
      /\ binding.since <= at
  BY BoundsAre DEF DecisionsOK, Binding, DecisionsFollowBinding
<1>2. \A a \in new : /\ a \in Alert /\ a.since = binding.since /\ a.at = at /\ a.kind \in kinds
                     /\ a.kind = "CANCELLED" => observations[at].status = "CANCELLED"
                     /\ a.kind = "RESTORED" => BeforeDeparture(observations[at].status)
  BY <1>1 DEF Alert, LatestStatus
<1>3. \A k \in kinds : [since |-> binding.since, at |-> at, kind |-> k] \in new
  OBVIOUS
<1>4. alerts' = alerts \cup new
  OBVIOUS
<1> HIDE DEF new, at
<1>5. alerts' \subseteq Alert
  BY <1>2, <1>4 DEF DecisionsOK
<1>6. \A a \in alerts : a.at \in Nat /\ a.at <= at /\ a.since \in Nat
  BY <1>1, BoundsAre DEF DecisionsOK, DecisionsFollowBinding, Alert, at
<1>7. DecisionsFollowBinding'
  <2>1. monitor'.decided # 0 => monitor'.decided \in binding.since..binding.at
    BY <1>1 DEF DecisionsOK, DecisionsFollowBinding, at
  <2>2. \A a \in alerts' : a.at <= binding.at /\ a.since <= a.at
    BY <1>1, <1>2, <1>4 DEF DecisionsOK, DecisionsFollowBinding, at
  <2> QED BY <2>1, <2>2 DEF DecisionsOK, DecisionsFollowBinding
<1>8. AlertsAreReports'
  BY <1>1, <1>2, <1>4 DEF DecisionsOK, AlertsAreReports, BeforeDeparture
<1>9. \A a, c \in alerts' : a.kind = "CANCELLED" /\ c.kind = "RESTORED" => a.at # c.at
  BY <1>8 DEF AlertsAreReports, BeforeDeparture
<1>10. Remembered'
  <2> SUFFICES ASSUME ~overwritten, NEW a \in alerts', a.kind = "CANCELLED", a.since = binding.since,
                      ~monitor'.cancelled
               PROVE  \E c \in alerts' : c.kind = "RESTORED" /\ c.since = a.since /\ a.at < c.at
    BY DEF Remembered
  <2>1. a \in alerts
    BY <1>2, <1>4 DEF at, LatestStatus
  <2>2. CASE monitor.cancelled
    <3>1. PICK c \in new : c = [since |-> binding.since, at |-> at, kind |-> "RESTORED"]
      BY <1>3, <2>2
    <3>2. c \in alerts' /\ c.kind = "RESTORED" /\ c.since = a.since /\ c.at = at
      BY <1>4, <3>1
    <3>3. a.at <= at /\ a.at # at /\ a.at \in Nat /\ at \in Nat
      BY <1>1, <1>6, <1>9, <2>1, <3>2
    <3> QED BY <3>2, <3>3
  <2>3. CASE ~monitor.cancelled
    BY <1>4, <2>1, <2>3 DEF DecisionsOK, Remembered
  <2> QED BY <2>2, <2>3
<1>11. CancellationToldOnce'
  <2> SUFFICES ASSUME ~overwritten, NEW a \in alerts', NEW b \in alerts', a.kind = "CANCELLED",
                      b.kind = "CANCELLED", a.since = b.since, a.at < b.at
               PROVE  \E c \in alerts' : /\ c.kind = "RESTORED" /\ c.since = a.since
                                         /\ a.at < c.at /\ c.at < b.at
    BY DEF CancellationToldOnce, CancellationsAlternate
  <2>1. a \in alerts
    BY <1>1, <1>2, <1>4, <1>6
  <2>2. CASE b \in alerts
    BY <1>4, <2>1, <2>2 DEF DecisionsOK, CancellationToldOnce, CancellationsAlternate
  <2>3. CASE b \in new
    <3>1. "CANCELLED" \in kinds /\ b.at = at /\ b.since = binding.since
      BY <1>2, <2>3
    <3>2. PICK c \in alerts : c.kind = "RESTORED" /\ c.since = a.since /\ a.at < c.at
      BY <2>1, <3>1 DEF DecisionsOK, Remembered
    <3>3. c.at \in Nat /\ c.at <= at /\ c.at # at
      BY <1>4, <1>6, <1>9, <3>1, <3>2
    <3>4. c.at < b.at
      BY <1>1, <3>1, <3>3
    <3> QED BY <1>4, <3>2, <3>4
  <2> QED BY <1>4, <2>2, <2>3
<1> QED BY <1>1, <1>5, <1>7, <1>8, <1>10, <1>11 DEF DecisionsOK, Binding

LEMMA CommitRefreshDecisions ==
    ASSUME DecisionsOK, NEW p, run[p] \in Run, CommitRefresh(p)
    PROVE  DecisionsOK'
<1> DEFINE r == run[p]
           m == Decided(Ensured, LatestStatus, r.instant)
           kinds == News(monitor, PreviousStatus(r), LatestStatus)
<1>1. CASE ~(Current(r) /\ (r.skips => monitor.present))
  BY <1>1, Undecided DEF CommitRefresh
<1>2. CASE Current(r) /\ (r.skips => monitor.present)
  <2>1. /\ UNCHANGED <<observations, binding, overwritten>>
        /\ binding.at = r.answer
        /\ monitor' = IF Records(r) THEN [m EXCEPT !.decided = r.answer] ELSE m
        /\ alerts' = alerts \cup {[since |-> binding.since, at |-> r.answer, kind |-> k] : k \in kinds}
    BY <1>2 DEF CommitRefresh, Current
  <2>2. LatestStatus \in Statuses /\ monitor \in Monitor /\ r.instant \in Nat
        /\ r.answer \in 0..MaxObservations
    BY StatusIs, BoundsAre DEF DecisionsOK, Run
  <2>3. /\ m \in Monitor /\ m.decided = Ensured.decided
        /\ m.cancelled <=> LatestStatus = "CANCELLED" \/ (Ensured.cancelled /\ ~BeforeDeparture(LatestStatus))
    BY <2>2, EnsuredIs, DecidedIs
  <2>4. Ensured.cancelled = monitor.cancelled /\ Ensured.decided = monitor.decided
    BY <2>2, EnsuredIs
  <2> HIDE DEF m
  <2>5. /\ monitor' \in Monitor /\ monitor'.decided \in {monitor.decided, binding.at}
        /\ monitor'.cancelled = m.cancelled
    BY <2>1, <2>2, <2>3, <2>4 DEF Monitor
  <2>6. /\ kinds \subseteq {"CANCELLED", "RESTORED"}
        /\ "CANCELLED" \in kinds <=> LatestStatus = "CANCELLED" /\ ~monitor.cancelled
        /\ "RESTORED" \in kinds => BeforeDeparture(LatestStatus)
        /\ monitor.cancelled /\ BeforeDeparture(LatestStatus) => "RESTORED" \in kinds
    BY DEF News
  <2> HIDE DEF kinds
  <2>7. alerts' = alerts \cup {[since |-> binding.since, at |-> binding.at, kind |-> k] : k \in kinds}
    BY <2>1
  <2>8. /\ LatestStatus = "CANCELLED" => monitor'.cancelled
        /\ monitor.cancelled /\ ~monitor'.cancelled => "RESTORED" \in kinds
    BY <2>3, <2>4, <2>5, <2>6
  <2> QED BY <2>1, <2>5, <2>6, <2>7, <2>8, Telling
<1> QED BY <1>1, <1>2

LEMMA CommitFailureDecisions ==
    ASSUME DecisionsOK, NEW p, run[p] \in Run, CommitFailure(p)
    PROVE  DecisionsOK'
<1> DEFINE b == run[p].before
<1>1. CASE UNCHANGED <<monitor, overwritten>>
  BY <1>1, Undecided DEF CommitFailure
<1>2. CASE ~UNCHANGED <<monitor, overwritten>>
  <2>1. /\ UNCHANGED <<observations, binding, alerts>>
        /\ monitor' = [monitor EXCEPT !.mode = b.mode, !.cancelled = b.cancelled, !.window = b.window]
        /\ overwritten' = (overwritten \/ Judgement(b) # Judgement(monitor))
    BY <1>2 DEF CommitFailure, Restored
  <2>2. b \in Monitor /\ monitor \in Monitor /\ overwritten \in BOOLEAN
    BY DEF Run, DecisionsOK
  <2> HIDE DEF b
  <2>3. monitor' \in Monitor /\ monitor'.decided = monitor.decided /\ monitor'.cancelled = b.cancelled
    BY <2>1, <2>2 DEF Monitor
  <2>4. overwritten' \in BOOLEAN
    BY <2>1, <2>2
  <2>5. ~overwritten' => ~overwritten /\ monitor'.cancelled = monitor.cancelled
    BY <2>1, <2>3 DEF Judgement
  <2>6. DecisionsFollowBinding' /\ AlertsAreReports'
    BY <2>1, <2>3 DEF DecisionsOK, DecisionsFollowBinding, AlertsAreReports
  <2>7. Remembered' /\ CancellationToldOnce'
    BY <2>1, <2>5 DEF DecisionsOK, Remembered, CancellationToldOnce, CancellationsAlternate
  <2> QED BY <2>1, <2>3, <2>4, <2>6, <2>7 DEF DecisionsOK, Binding
<1> QED BY <1>1, <1>2

LEMMA AdoptDecisions ==
    ASSUME DecisionsOK, NEW f \in Flights, Adopt(f)
    PROVE  DecisionsOK' /\ Len(observations') = Len(observations) + 1
<1> DEFINE new == Len(observations) + 1
<1>1. /\ observations \in Seq(Observation) /\ Len(observations) \in 1..MaxObservations
      /\ binding \in Binding /\ Len(observations) < MaxObservations
      /\ UNCHANGED <<alerts, overwritten>> /\ monitor' = NoMonitor
      /\ binding' = [flight |-> f, since |-> new, at |-> new, flown |-> FALSE]
  BY DEF DecisionsOK, Adopt
<1>2. PICK s \in Reports : observations' = Append(observations, [flight |-> f, status |-> s])
  BY DEF Adopt
<1>3. [flight |-> f, status |-> s] \in Observation /\ [flight |-> f, status |-> s].flight = f
  BY DEF Observation
<1>4. /\ observations' \in Seq(Observation) /\ Len(observations') = new
      /\ observations'[new].flight = f
      /\ \A i \in 1..Len(observations) : observations'[i] = observations[i]
  BY <1>1, <1>2, <1>3
<1>5. new \in 1..MaxObservations /\ new \in 1..new /\ 1..Len(observations) \subseteq 1..new
  BY <1>1, BoundsAre
<1>6. binding' \in Binding'
  BY <1>1, <1>4, <1>5 DEF Binding
<1>7. \A a \in alerts : /\ a.at \in 1..Len(observations) /\ a.since \in Nat /\ a.since <= a.at
                        /\ a.since # new
  BY <1>1, BoundsAre DEF DecisionsOK, AlertsAreReports, DecisionsFollowBinding, Alert
<1>8. NoMonitor.decided = 0
  BY DEF NoMonitor
<1>9. DecisionsFollowBinding'
  BY <1>1, <1>4, <1>5, <1>7, <1>8 DEF DecisionsFollowBinding
<1>10. AlertsAreReports'
  BY <1>1, <1>4, <1>5 DEF DecisionsOK, AlertsAreReports, BeforeDeparture
<1>11. Remembered'
  BY <1>1, <1>7 DEF Remembered
<1>12. CancellationToldOnce'
  BY <1>1 DEF DecisionsOK, CancellationToldOnce, CancellationsAlternate
<1> QED BY <1>1, <1>4, <1>5, <1>6, <1>9, <1>10, <1>11, <1>12, NoMonitorIs DEF DecisionsOK

-----------------------------------------------------------------------------
(* The executions' steps, as they bear on the rows.                        *)

LEMMA RunIs ==
    ASSUME RowsOK, NEW p \in Runs
    PROVE  /\ run \in [Runs -> Run] /\ run[p] \in Run /\ May(run[p].revision) /\ May(0)
           /\ run[p].revision \in 0..MaxRevision /\ run[p].before \in Monitor
           /\ run[p].row \in Keys \cup {NoKey}
           /\ run[p].pc = "idle" => run[p].row = NoKey
BY AuthorisedIs, MayNone DEF RowsOK, Run

\* An execution of one who was idle: a call of the detail page or of the user.
LEMMA CalledIs ==
    ASSUME NEW pc \in {"before", "fetch"}, NEW n \in 0..MaxRevision
    PROVE  LET w == [Idle EXCEPT !.pc = pc, !.revision = n]
           IN  w \in Run /\ w.pc = pc /\ w.row = NoKey /\ w.revision = n
<1> DEFINE w == [Idle EXCEPT !.pc = pc, !.revision = n]
<1>1. w \in Run /\ w.pc = pc /\ w.row = Idle.row /\ w.revision = n
  BY IdleIs DEF Run
<1> QED BY <1>1, IdleIs

LEMMA JobContextRows ==
    ASSUME RowsOK, DecisionsOK, now \in 0..Horizon, NEW p \in Runs, JobContext(p)
    PROVE  RowsOK' /\ \A q \in Runs : run'[q].pc = "accept" => run'[q] = run[q]
<1> DEFINE w == [At(p, "commit") EXCEPT !.skips = TRUE, !.answer = binding.at, !.instant = now]
<1>1. At(p, "commit") \in Run /\ At(p, "commit").row = run[p].row /\ At(p, "commit").pc = "commit"
      /\ At(p, "commit").revision = run[p].revision
  BY AtIs
<1>2. binding.at \in 0..MaxObservations
  BY BoundsAre DEF DecisionsOK, Binding
<1>3. w \in Run /\ w.row = run[p].row /\ w.revision = run[p].revision /\ w.pc = "commit"
  BY <1>1, <1>2 DEF Run
<1>4. PICK v : /\ run' = [run EXCEPT ![p] = v] /\ v \in {Ended(p), w, At(p, "before")}
  BY DEF JobContext, Step
<1> HIDE DEF w
<1>5. Goes(p, v) /\ v.pc # "accept"
  BY <1>3, <1>4, RunIs, EndedIs, AtIs DEF Goes
<1>6. RowsOK'
  BY <1>5, RunMoves DEF JobContext
<1> QED BY <1>4, <1>5, <1>6, RunIs

LEMMA TriggerRows ==
    ASSUME RowsOK, NEW p \in Runs, Trigger(p)
    PROVE  RowsOK' /\ \A q \in Runs : run'[q].pc = "accept" => run'[q] = run[q]
<1>1. PICK n \in 0..MaxRevision : n = capability.revision
  BY DEF RowsOK, CapabilityRecord
<1>2. 0 \in 0..MaxRevision /\ May(0)
  BY BoundsAre, RunIs
<1>3. capability.state = "ENABLED" => May(n)
  BY <1>1 DEF May
<1>4. run[p].row = NoKey
  BY RunIs DEF Trigger, Step
<1> DEFINE a == [Idle EXCEPT !.pc = "before", !.revision = n]
           b == [Idle EXCEPT !.pc = "fetch"]
<1>5. a \in Run /\ a.pc = "before" /\ a.row = NoKey /\ a.revision = n
  BY CalledIs
<1>6. b \in Run /\ b.pc = "fetch" /\ b.row = NoKey /\ b.revision = 0
  BY IdleIs DEF Run
<1>7. PICK v : /\ run' = [run EXCEPT ![p] = v]
               /\ \/ v = a /\ capability.state = "ENABLED"
                  \/ v = b
  BY <1>1 DEF Trigger, Step
<1> HIDE DEF a, b
<1>8. Goes(p, v) /\ v.pc # "accept"
  BY <1>2, <1>3, <1>4, <1>5, <1>6, <1>7 DEF Goes
<1>9. RowsOK'
  BY <1>8, RunMoves DEF Trigger
<1> QED BY <1>7, <1>8, <1>9, RunIs

LEMMA ManualRefreshRows ==
    ASSUME RowsOK, NEW p \in Runs, ManualRefresh(p)
    PROVE  RowsOK' /\ \A q \in Runs : run'[q].pc = "accept" => run'[q] = run[q]
<1> DEFINE b == [Idle EXCEPT !.pc = "fetch"]
<1>1. run[p].row = NoKey /\ May(0)
  BY RunIs DEF ManualRefresh, Step
<1>2. b \in Run /\ b.pc = "fetch" /\ b.row = NoKey /\ b.revision = 0
  BY IdleIs DEF Run
<1>3. run' = [run EXCEPT ![p] = b]
  BY DEF ManualRefresh, Step
<1> HIDE DEF b
<1>4. Goes(p, b)
  BY <1>1, <1>2, <1>3 DEF Goes
<1>5. RowsOK'
  BY <1>4, RunMoves DEF ManualRefresh
<1> QED BY <1>2, <1>3, <1>5, RunIs

LEMMA ReadBeforeRows ==
    ASSUME RowsOK, monitor \in Monitor, now \in 0..Horizon, NEW p \in Runs, ReadBefore(p)
    PROVE  RowsOK' /\ \A q \in Runs : run'[q].pc = "accept" => run'[q] = run[q]
<1> DEFINE w == [At(p, "fetch") EXCEPT !.before = Ensured, !.instant = now]
<1>1. /\ At(p, "fetch") \in Run /\ At(p, "fetch").row = run[p].row /\ At(p, "fetch").pc = "fetch"
      /\ At(p, "fetch").revision = run[p].revision
  BY AtIs
<1>2. w \in Run /\ w.row = run[p].row /\ w.revision = run[p].revision /\ w.pc = "fetch"
  BY <1>1, EnsuredIs DEF Run
<1>3. run' = [run EXCEPT ![p] = w]
  BY DEF ReadBefore, Step
<1> HIDE DEF w
<1>4. Goes(p, w)
  BY <1>2, <1>3, RunIs DEF Goes
<1>5. RowsOK'
  BY <1>4, RunMoves DEF ReadBefore
<1> QED BY <1>2, <1>3, <1>5, RunIs

LEMMA AnsweredIs ==
    ASSUME RowsOK, NEW p \in Runs, NEW n \in 0..MaxObservations,
           run' = [run EXCEPT ![p] = Answered(p, n)]
    PROVE  /\ Goes(p, Answered(p, n)) /\ Answered(p, n).answer = n
           /\ \A q \in Runs : run'[q] = IF q = p THEN Answered(p, n) ELSE run[q]
<1> DEFINE b == [NoMonitor EXCEPT !.decided = run[p].before.decided]
<1>1. b \in Monitor
  BY RunIs, NoMonitorIs DEF Monitor
<1>2. /\ At(p, "accept") \in Run /\ At(p, "accept").row = run[p].row /\ At(p, "accept").pc = "accept"
      /\ At(p, "accept").revision = run[p].revision
  BY AtIs
<1>3. Answered(p, n) = [At(p, "accept") EXCEPT !.answer = n, !.before = b]
  BY DEF Answered
<1> HIDE DEF b
<1>4. /\ Answered(p, n) \in Run /\ Answered(p, n).row = run[p].row /\ Answered(p, n).pc = "accept"
      /\ Answered(p, n).revision = run[p].revision /\ Answered(p, n).answer = n
  BY <1>1, <1>2, <1>3 DEF Run
<1> HIDE DEF Answered
<1> QED BY <1>4, RunIs DEF Goes

LEMMA FetchRows ==
    ASSUME RowsOK, DecisionsOK, NEW p \in Runs, FetchNew(p) \/ FetchSame(p)
    PROVE  RowsOK' /\ \A q \in Runs : run'[q].pc = "accept" =>
                        run'[q] = run[q] \/ run'[q].answer \in 1..Len(observations')
<1>1. Len(observations) \in Nat /\ binding.at \in 1..Len(observations)
      /\ Len(observations) \in 1..MaxObservations
  BY BoundsAre DEF DecisionsOK, Binding
<1>2. \E n \in 0..MaxObservations : /\ run' = [run EXCEPT ![p] = Answered(p, n)]
                                    /\ n \in 1..Len(observations')
  <2>1. CASE FetchNew(p)
    <3>1. Len(observations) < MaxObservations /\ run' = [run EXCEPT ![p] = Answered(p, Len(observations) + 1)]
      BY <2>1 DEF FetchNew, Step
    <3>2. Len(observations') = Len(observations) + 1
      BY <2>1, FetchNewDecisions
    <3>3. Len(observations) + 1 \in 0..MaxObservations /\ Len(observations) + 1 \in 1..Len(observations')
      BY <1>1, <3>1, <3>2, BoundsAre
    <3> QED BY <3>1, <3>3
  <2>2. CASE FetchSame(p)
    <3>1. observations' = observations /\ run' = [run EXCEPT ![p] = Answered(p, binding.at)]
      BY <2>2 DEF FetchSame, Step
    <3>2. binding.at \in 0..MaxObservations
      BY <1>1, BoundsAre
    <3> QED BY <1>1, <3>1, <3>2
  <2> QED BY <2>1, <2>2
<1>3. PICK n \in 0..MaxObservations : /\ run' = [run EXCEPT ![p] = Answered(p, n)]
                                      /\ n \in 1..Len(observations')
  BY <1>2
<1>4. /\ Goes(p, Answered(p, n)) /\ Answered(p, n).answer = n
      /\ \A q \in Runs : run'[q] = IF q = p THEN Answered(p, n) ELSE run[q]
  BY <1>3, AnsweredIs
<1>5. UNCHANGED <<capability, rows>>
  BY DEF FetchNew, FetchSame
<1>6. RowsOK'
  BY <1>4, <1>5, RunMoves
<1> QED BY <1>3, <1>4, <1>6

LEMMA FetchFailsRows ==
    ASSUME RowsOK, NEW p \in Runs, FetchFails(p)
    PROVE  RowsOK' /\ \A q \in Runs : run'[q].pc = "accept" => run'[q] = run[q]
<1>1. PICK v : run' = [run EXCEPT ![p] = v] /\ v \in {Ended(p), At(p, "failed")}
  BY DEF FetchFails, Step
<1>2. Goes(p, v) /\ v.pc # "accept"
  BY <1>1, RunIs, EndedIs, AtIs DEF Goes
<1>3. RowsOK'
  BY <1>2, RunMoves DEF FetchFails
<1> QED BY <1>1, <1>2, <1>3, RunIs

LEMMA AcceptRows ==
    ASSUME RowsOK, DecisionsOK, NEW p \in Runs, run[p].answer \in 1..Len(observations), Accept(p)
    PROVE  RowsOK' /\ \A q \in Runs : run'[q].pc = "accept" => run'[q] = run[q]
<1> DEFINE n == Newer(run[p].answer)
           w == [At(p, "commit") EXCEPT !.answer = n]
<1>1. n \in 0..MaxObservations
  BY BoundsAre DEF DecisionsOK, Binding, Newer
<1>2. /\ At(p, "commit") \in Run /\ At(p, "commit").row = run[p].row /\ At(p, "commit").pc = "commit"
      /\ At(p, "commit").revision = run[p].revision
  BY AtIs
<1> HIDE DEF n
<1>3. w \in Run /\ w.row = run[p].row /\ w.revision = run[p].revision /\ w.pc = "commit"
  BY <1>1, <1>2 DEF Run
<1>4. PICK v : run' = [run EXCEPT ![p] = v] /\ v \in {Ended(p), w}
  BY DEF Accept, Step, n
<1> HIDE DEF w
<1>5. Goes(p, v) /\ v.pc # "accept"
  BY <1>3, <1>4, RunIs, EndedIs DEF Goes
<1>6. RowsOK'
  BY <1>5, RunMoves DEF Accept
<1> QED BY <1>4, <1>5, <1>6, RunIs

LEMMA CommitRows ==
    ASSUME RowsOK, NEW p \in Runs, CommitRefresh(p) \/ CommitFailure(p)
    PROVE  RowsOK' /\ \A q \in Runs : run'[q].pc = "accept" => run'[q] = run[q]
<1>1. run' = [run EXCEPT ![p] = Ended(p)]
  BY DEF CommitRefresh, CommitFailure, Step
<1>2. Goes(p, Ended(p)) /\ Ended(p).pc # "accept"
  BY <1>1, EndedIs DEF Goes
<1>3. \/ UNCHANGED <<capability, rows>>
      \/ \E m, t : \E replaces \in BOOLEAN :
            \E failed : Enabled(run[p].revision) /\ Follow(rows, m, t, run[p].revision, replaces, failed)
  <2>1. CASE CommitRefresh(p)
    <3> DEFINE m == Decided(Ensured, LatestStatus, run[p].instant)
    <3>1. \/ UNCHANGED <<capability, rows>>
          \/ /\ Enabled(run[p].revision)
             /\ Follow(rows, m, run[p].instant, run[p].revision,
                       m.mode # "NORMAL" \/ monitor.mode # "NORMAL", FALSE)
      BY <2>1 DEF CommitRefresh, Current
    <3>2. (m.mode # "NORMAL" \/ monitor.mode # "NORMAL") \in BOOLEAN
      OBVIOUS
    <3> HIDE DEF m
    <3> QED BY <3>1, <3>2
  <2>2. CASE CommitFailure(p)
    <3> DEFINE b == run[p].before
               again == /\ b.mode \in {"DELAYED", "CANCELLED", "BAGGAGE"}
                        /\ HasNextCheck(b, run[p].instant)
    <3>1. \/ UNCHANGED <<capability, rows>>
          \/ Enabled(run[p].revision) /\ Follow(rows, b, run[p].instant, run[p].revision, again, TRUE)
      BY <2>2 DEF CommitFailure, Monitored
    <3>2. again \in BOOLEAN
      OBVIOUS
    <3> HIDE DEF b, again
    <3> QED BY <3>1, <3>2
  <2> QED BY <2>1, <2>2
<1>4. RowsOK'
  <2>1. CASE UNCHANGED <<capability, rows>>
    BY <1>2, <2>1, RunMoves
  <2>2. CASE ~UNCHANGED <<capability, rows>>
    <3>1. PICK m, t : \E replaces \in BOOLEAN : \E failed :
              Enabled(run[p].revision) /\ Follow(rows, m, t, run[p].revision, replaces, failed)
      BY <1>3, <2>2
    <3>2. PICK replaces \in BOOLEAN : \E failed :
              Enabled(run[p].revision) /\ Follow(rows, m, t, run[p].revision, replaces, failed)
      BY <3>1
    <3>3. /\ CapabilityMoves /\ CapabilityOK'
          /\ \E New \in SUBSET (1..MaxRevision) :
                (\A n \in New : May(n)') /\ Rescheduled(rows, rows', New)
      BY <3>2, FollowIs
    <3> QED BY <1>2, <3>3, GoesKeeps, Rearranged
  <2> QED BY <2>1, <2>2
<1> QED BY <1>1, <1>2, <1>4, RunIs

LEMMA ReleaseRows ==
    ASSUME RowsOK, NEW p \in Runs, Settle(p) \/ Breaks(p) \/ Detaches(p)
    PROVE  RowsOK' /\ \A q \in Runs : run'[q].pc = "accept" =>
                        run[q].pc = "accept" /\ run'[q].answer = run[q].answer
<1> DEFINE d == [run[p] EXCEPT !.row = NoKey]
<1>1. d \in Run /\ d.row = NoKey /\ d.revision = run[p].revision /\ d.pc = run[p].pc
      /\ d.answer = run[p].answer
  BY RunIs DEF Run
<1>2. UNCHANGED capability
  BY DEF Settle, Breaks, Detaches
<1>3. rows' \in {Requeued(run[p].row), Finished(run[p].row)}
  BY DEF Settle, Breaks, Detaches
<1>4. PICK w \in {Idle, d} : run' = [run EXCEPT ![p] = w]
  BY DEF Settle, Step, Breaks, Detaches
<1>5. w \in Run /\ w.row = NoKey /\ May(w.revision)
      /\ (w.pc = "accept" => run[p].pc = "accept" /\ w.answer = run[p].answer)
  BY <1>1, <1>4, IdleIs, RunIs
<1> HIDE DEF d
<1>6. RowsOK'
  BY <1>2, <1>3, <1>4, <1>5, Released
<1> QED BY <1>4, <1>5, <1>6, RunIs

LEMMA AdoptAnswers ==
    ASSUME RowsOK, NEW f \in Flights, Adopt(f)
    PROVE  \A q \in Runs : run'[q].pc = "accept" => run[q].pc = "accept" /\ run'[q].answer = run[q].answer
BY RunIs DEF Adopt, Run

-----------------------------------------------------------------------------
(* The invariant of every behaviour.                                       *)

AnswersOK == \A p \in Runs : run[p].pc = "accept" => run[p].answer \in 1..Len(observations)

BoundsOK == /\ now \in 0..Horizon /\ faults \in 0..MaxFaults /\ outages \in 0..MaxOutages
            /\ dropped \in BOOLEAN

LEMMA InvariantParts == IInv <=> RowsOK /\ DecisionsOK /\ AnswersOK /\ BoundsOK
BY DEF IInv, TypeOK, RunOK, RowsOK, DecisionsOK, AnswersOK, BoundsOK, CapabilityRecord, Observation,
       Binding, Alert

LEMMA Starting == Init => IInv
<1> SUFFICES ASSUME Init
             PROVE  RowsOK /\ DecisionsOK /\ AnswersOK /\ BoundsOK
  BY InvariantParts
<1>1. BoundsOK
  <2>1. now \in 0..Horizon /\ faults \in 0..MaxFaults /\ outages \in 0..MaxOutages
    BY BoundsAssumption DEF BoundsAssumption, Init
  <2>2. dropped \in BOOLEAN
    BY DEF Init
  <2> QED BY <2>1, <2>2 DEF BoundsOK
<1>2. run \in [Runs -> Run] /\ \A p \in Runs : run[p] = Idle
  BY IdleIs DEF Init
<1>3. rows \in [Keys -> Row] /\ \A k \in Keys : rows[k].status = "ABSENT"
  BY NoRowIs DEF Init
<1>4. capability \in CapabilityRecord /\ capability.state = "NOT_ENABLED" /\ capability.revision = 0
  BY BoundsAre DEF Init, CapabilityRecord
<1>5. RowsOK
  <2>1. RowsAreHeld
    BY <1>2, <1>3, IdleIs DEF RowsAreHeld
  <2>2. CapabilityOK
    BY <1>4 DEF CapabilityOK
  <2>3. WorkIsAuthorised
    BY <1>2, <1>3, <1>4, IdleIs DEF WorkIsAuthorised
  <2> QED BY <1>2, <1>3, <1>4, <2>1, <2>2, <2>3, IdleIs DEF RowsOK
<1>6. AnswersOK
  BY <1>2, IdleIs DEF AnswersOK
<1>7. DecisionsOK
  <2>1. PICK f \in Flights, s \in Reports : observations = <<[flight |-> f, status |-> s]>>
    BY DEF Init
  <2>2. [flight |-> f, status |-> s] \in Observation
    BY DEF Observation
  <2>3. /\ observations \in Seq(Observation) /\ Len(observations) = 1
        /\ observations[1].flight = f /\ f \in Flights
    BY <2>1, <2>2
  <2>4. 1 \in 1..MaxObservations
    BY BoundsAssumption DEF BoundsAssumption
  <2>5. PICK one \in Nat : one = 1
    OBVIOUS
  <2>6. binding = [flight |-> f, since |-> one, at |-> one, flown |-> FALSE]
    BY <2>3, <2>5 DEF Init
  <2>7. binding \in Binding /\ binding.flight = f /\ binding.since = 1 /\ binding.at = 1
    BY <2>3, <2>5, <2>6 DEF Binding
  <2>8. monitor \in Monitor /\ monitor.decided = 0
    BY NoMonitorIs DEF Init, NoMonitor
  <2>9. alerts = {} /\ overwritten = FALSE
    BY DEF Init
  <2>10. DecisionsFollowBinding
    BY <2>3, <2>7, <2>8, <2>9 DEF DecisionsFollowBinding
  <2>11. AlertsAreReports /\ Remembered /\ CancellationToldOnce
    BY <2>9 DEF AlertsAreReports, Remembered, CancellationToldOnce, CancellationsAlternate
  <2> QED BY <2>3, <2>4, <2>7, <2>8, <2>9, <2>10, <2>11 DEF DecisionsOK
<1> QED BY <1>1, <1>5, <1>6, <1>7

\* The three groups are preserved by a step of an execution.
LEMMA ExecutionStep ==
    ASSUME RowsOK, DecisionsOK, AnswersOK, BoundsOK, NEW p \in Runs,
           Executes(p) \/ Breaks(p) \/ Detaches(p)
    PROVE  RowsOK' /\ DecisionsOK' /\ AnswersOK'
<1>1. CASE JobContext(p)
  <2>1. RowsOK' /\ \A q \in Runs : run'[q].pc = "accept" => run'[q] = run[q]
    BY <1>1, JobContextRows DEF BoundsOK
  <2>2. DecisionsOK' /\ observations' = observations
    BY <1>1, Undecided DEF JobContext
  <2> QED BY <2>1, <2>2 DEF AnswersOK
<1>2. CASE ReadBefore(p)
  <2>1. RowsOK' /\ \A q \in Runs : run'[q].pc = "accept" => run'[q] = run[q]
    BY <1>2, ReadBeforeRows DEF BoundsOK, DecisionsOK
  <2>2. DecisionsOK' /\ observations' = observations
    BY <1>2, Undecided DEF ReadBefore
  <2> QED BY <2>1, <2>2 DEF AnswersOK
<1>3. CASE FetchNew(p) \/ FetchSame(p)
  <2>1. RowsOK' /\ \A q \in Runs : run'[q].pc = "accept" =>
                        run'[q] = run[q] \/ run'[q].answer \in 1..Len(observations')
    BY <1>3, FetchRows
  <2>2. DecisionsOK' /\ Len(observations') \in {Len(observations), Len(observations) + 1}
    <3>1. CASE FetchNew(p)
      BY <3>1, FetchNewDecisions
    <3>2. CASE FetchSame(p)
      BY <3>2, Undecided DEF FetchSame
    <3> QED BY <1>3, <3>1, <3>2
  <2>3. Len(observations) \in Nat
    BY BoundsAre DEF DecisionsOK
  <2>4. \A n \in 1..Len(observations) : n \in 1..Len(observations')
    BY <2>2, <2>3
  <2> QED BY <2>1, <2>2, <2>4 DEF AnswersOK
<1>4. CASE FetchFails(p)
  <2>1. RowsOK' /\ \A q \in Runs : run'[q].pc = "accept" => run'[q] = run[q]
    BY <1>4, FetchFailsRows
  <2>2. DecisionsOK' /\ observations' = observations
    BY <1>4, Undecided DEF FetchFails
  <2> QED BY <2>1, <2>2 DEF AnswersOK
<1>5. CASE Accept(p)
  <2>1. run[p].answer \in 1..Len(observations)
    BY <1>5 DEF Accept, AnswersOK
  <2>2. RowsOK' /\ \A q \in Runs : run'[q].pc = "accept" => run'[q] = run[q]
    BY <1>5, <2>1, AcceptRows
  <2>3. DecisionsOK' /\ observations' = observations
    BY <1>5, <2>1, AcceptDecisions DEF Accept
  <2> QED BY <2>2, <2>3 DEF AnswersOK
<1>6. CASE CommitRefresh(p) \/ CommitFailure(p)
  <2>1. RowsOK' /\ \A q \in Runs : run'[q].pc = "accept" => run'[q] = run[q]
    BY <1>6, CommitRows
  <2>2. DecisionsOK'
    BY <1>6, RunIs, CommitRefreshDecisions, CommitFailureDecisions
  <2>3. observations' = observations
    BY <1>6 DEF CommitRefresh, CommitFailure
  <2> QED BY <2>1, <2>2, <2>3 DEF AnswersOK
<1>7. CASE Settle(p) \/ Breaks(p) \/ Detaches(p)
  <2>1. RowsOK' /\ \A q \in Runs : run'[q].pc = "accept" =>
                        run[q].pc = "accept" /\ run'[q].answer = run[q].answer
    BY <1>7, ReleaseRows
  <2>2. DecisionsOK' /\ observations' = observations
    BY <1>7, Undecided DEF Settle, Breaks, Detaches
  <2> QED BY <2>1, <2>2 DEF AnswersOK
<1> QED BY <1>1, <1>2, <1>3, <1>4, <1>5, <1>6, <1>7 DEF Executes

LEMMA BoundsKept == BoundsOK /\ [Next]_vars => BoundsOK'
<1> SUFFICES ASSUME BoundsOK, [Next]_vars
             PROVE  BoundsOK'
  OBVIOUS
<1>1. /\ now' = now \/ (now < Horizon /\ now' = now + 1)
      /\ faults' = faults \/ (faults < MaxFaults /\ faults' = faults + 1)
      /\ outages' = outages \/ (outages < MaxOutages /\ outages' = outages + 1)
  BY DEF vars, Next, Executes, Calls, JobContext, ReadBefore, FetchNew, FetchSame, FetchFails, Accept,
         CommitRefresh, CommitFailure, Settle, Breaks, Detaches, Claim, ManualRefresh, Trigger,
         Heartbeat, MutateCapability, Adopt, TimePasses
<1>2. {Horizon, MaxFaults, MaxOutages} \subseteq Nat
  BY BoundsAssumption DEF BoundsAssumption
<1>3. dropped' \in BOOLEAN
  <2>1. dropped \in BOOLEAN
    BY DEF BoundsOK
  <2>2. ASSUME NEW R, NEW m, NEW t, NEW revision, NEW replaces, NEW failed,
               Follow(R, m, t, revision, replaces, failed)
        PROVE  dropped' \in BOOLEAN
    <3>1. dropped' = FALSE \/ \E taken : dropped' = (taken \in {"RUNNING", "DONE"})
      BY <2>2, Zenon DEF Follow
    <3>2. ASSUME NEW taken, dropped' = (taken \in {"RUNNING", "DONE"})
          PROVE  dropped' \in BOOLEAN
      BY <3>2
    <3> QED BY <3>1, <3>2
  <2>3. ASSUME NEW p, Executes(p) \/ Breaks(p) \/ Detaches(p)
        PROVE  dropped' \in BOOLEAN
    BY <2>1, <2>2, <2>3 DEF Executes, JobContext, ReadBefore, FetchNew, FetchSame, FetchFails, Accept,
                            CommitRefresh, CommitFailure, Settle, Breaks, Detaches
  <2> QED BY <2>1, <2>3 DEF vars, Next, Calls, Claim, ManualRefresh, Trigger, Heartbeat,
                            MutateCapability, Adopt, TimePasses
<1> QED BY <1>1, <1>2, <1>3 DEF BoundsOK

LEMMA Stepping == IInv /\ [Next]_vars => IInv'
<1> SUFFICES ASSUME RowsOK, DecisionsOK, AnswersOK, BoundsOK, [Next]_vars
             PROVE  RowsOK' /\ DecisionsOK' /\ AnswersOK'
  <2>1. IInv' <=> RowsOK' /\ DecisionsOK' /\ AnswersOK' /\ BoundsOK'
    BY InvariantParts, PTL
  <2> QED BY <2>1, InvariantParts, BoundsKept
<1>1. ASSUME NEW p \in Runs, Executes(p) \/ Breaks(p) \/ Detaches(p)
      PROVE  RowsOK' /\ DecisionsOK' /\ AnswersOK'
  BY <1>1, ExecutionStep
<1>2. ASSUME NEW p \in Workers, NEW k \in Keys, Claim(p, k)
      PROVE  RowsOK' /\ DecisionsOK' /\ AnswersOK'
  <2>1. p \in Runs
    BY DEF Runs
  <2>2. DecisionsOK' /\ observations' = observations
    BY <1>2, Undecided DEF Claim
  <2>3. \A q \in Runs : run'[q].pc = "accept" => run'[q] = run[q]
    <3> DEFINE w == [Idle EXCEPT !.pc = "context", !.row = k, !.revision = rows[k].revision]
    <3>1. run' = [run EXCEPT ![p] = w] /\ w.pc = "context"
      BY <1>2 DEF Claim, Step, Idle
    <3> HIDE DEF w
    <3> QED BY <2>1, <3>1, RunIs
  <2> QED BY <1>2, <2>1, <2>2, <2>3, ClaimRows DEF AnswersOK
<1>3. ASSUME NEW p \in Clients, Calls(p)
      PROVE  RowsOK' /\ DecisionsOK' /\ AnswersOK'
  <2>1. p \in Runs
    BY DEF Runs
  <2>2. RowsOK' /\ \A q \in Runs : run'[q].pc = "accept" => run'[q] = run[q]
    BY <1>3, <2>1, ManualRefreshRows, TriggerRows DEF Calls
  <2>3. DecisionsOK' /\ observations' = observations
    BY <1>3, Undecided DEF Calls, ManualRefresh, Trigger
  <2> QED BY <2>2, <2>3 DEF AnswersOK
<1>4. ASSUME Heartbeat
      PROVE  RowsOK' /\ DecisionsOK' /\ AnswersOK'
  <2>1. DecisionsOK' /\ observations' = observations /\ run' = run
    BY <1>4, Undecided DEF Heartbeat
  <2> QED BY <1>4, <2>1, HeartbeatRows DEF AnswersOK
<1>5. ASSUME NEW t \in Transitions, MutateCapability(t)
      PROVE  RowsOK' /\ DecisionsOK' /\ AnswersOK'
  <2>1. DecisionsOK' /\ observations' = observations /\ run' = run
    BY <1>5, Undecided DEF MutateCapability
  <2> QED BY <1>5, <2>1, CapabilityRows DEF AnswersOK
<1>6. ASSUME NEW f \in Flights, Adopt(f)
      PROVE  RowsOK' /\ DecisionsOK' /\ AnswersOK'
  <2>1. DecisionsOK' /\ Len(observations') = Len(observations) + 1
    BY <1>6, AdoptDecisions
  <2>2. Len(observations) \in Nat
    BY BoundsAre DEF DecisionsOK
  <2>3. \A n \in 1..Len(observations) : n \in 1..Len(observations')
    BY <2>1, <2>2
  <2> QED BY <1>6, <2>1, <2>3, AdoptRows, AdoptAnswers DEF AnswersOK
<1>7. CASE TimePasses \/ UNCHANGED vars
  <2>1. UNCHANGED <<capability, observations, binding, monitor, rows, run, alerts, overwritten>>
    BY <1>7 DEF TimePasses, vars
  <2>2. DecisionsOK'
    BY <2>1, Undecided
  <2>3. RowsOK' /\ AnswersOK'
    BY <2>1 DEF RowsOK, AnswersOK, RowsAreHeld, CapabilityOK, WorkIsAuthorised
  <2> QED BY <2>2, <2>3
<1> QED BY <1>1, <1>2, <1>3, <1>4, <1>5, <1>6, <1>7 DEF Next

\* In every reachable state the invariant holds.
THEOREM Invariance == Spec => []IInv
<1>1. Init => IInv
  BY Starting
<1>2. IInv /\ [Next]_vars => IInv'
  BY Stepping
<1> QED BY <1>1, <1>2, PTL DEF Spec

\* The variables keep their types, and a row is RUNNING exactly while one
\* execution holds it, whatever breaks or is detached.
THEOREM Typing == Spec => []TypeOK
<1>1. IInv => TypeOK
  BY DEF IInv
<1> QED BY <1>1, Invariance, PTL

\* Whatever was in flight when monitoring was paused, stopped or resumed, no row
\* and no execution carries a revision it was not authorised by.
THEOREM Authorisation == Spec => []WorkIsAuthorised
<1>1. IInv => WorkIsAuthorised
  BY DEF IInv
<1> QED BY <1>1, Invariance, PTL

\* Answers that arrive late or out of order never move the monitor ahead of the
\* binding or to another adoption's observations.
THEOREM DecisionsStayBehind == Spec => []DecisionsFollowBinding
<1>1. IInv => DecisionsFollowBinding
  BY DEF IInv
<1> QED BY <1>1, Invariance, PTL

\* Of one adopted flight a cancellation is told once, until it was taken back,
\* unless a failure has put back an older state of the monitor.
THEOREM ToldOnce == Spec => []CancellationToldOnce
<1>1. IInv => CancellationToldOnce
  BY DEF IInv
<1> QED BY <1>1, Invariance, PTL

LEMMA WindowKept ==
    ASSUME IInv, [Next]_vars, monitor.window # 0, binding'.since = binding.since
    PROVE  monitor'.window = monitor.window \/ overwritten'
<1>1. /\ monitor \in Monitor /\ overwritten \in BOOLEAN /\ binding \in Binding
      /\ Len(observations) \in Nat
      /\ Ensured.window = monitor.window /\ Ensured \in Monitor
  BY InvariantParts, EnsuredIs, BoundsAre DEF DecisionsOK
<1>2. ASSUME NEW p \in Runs, CommitRefresh(p)
      PROVE  monitor'.window = monitor.window
  <2> DEFINE m == Decided(Ensured, LatestStatus, run[p].instant)
  <2>1. monitor' \in {monitor, Ensured, m, [m EXCEPT !.decided = run[p].answer]}
    BY <1>2 DEF CommitRefresh
  <2>2. LatestStatus \in Statuses /\ run[p].instant \in Nat
    BY InvariantParts, StatusIs, RunIs, BoundsAre DEF Run
  <2>3. m \in Monitor /\ m.window = monitor.window
    BY <1>1, <2>2, DecidedIs
  <2> HIDE DEF m
  <2> QED BY <1>1, <2>1, <2>3 DEF Monitor
<1>3. ASSUME NEW p \in Runs, CommitFailure(p)
      PROVE  monitor'.window = monitor.window \/ overwritten'
  <2> DEFINE b == run[p].before
  <2>1. CASE UNCHANGED monitor
    BY <2>1
  <2>2. CASE ~UNCHANGED monitor
    <3>1. /\ monitor' = [monitor EXCEPT !.mode = b.mode, !.cancelled = b.cancelled, !.window = b.window]
          /\ overwritten' = (overwritten \/ Judgement(b) # Judgement(monitor))
      BY <1>3, <2>2 DEF CommitFailure, Restored
    <3> HIDE DEF b
    <3>2. monitor'.window = b.window
      BY <1>1, <3>1 DEF Monitor
    <3> QED BY <3>1, <3>2 DEF Judgement
  <2> QED BY <2>1, <2>2
<1>4. ASSUME NEW f \in Flights, Adopt(f)
      PROVE  FALSE
  <2>1. binding'.since = Len(observations) + 1 /\ binding.since \in 1..Len(observations)
    BY <1>1, <1>4 DEF Adopt, Binding
  <2> QED BY <1>1, <2>1
<1>5. CASE monitor' \in {monitor, Ensured}
  BY <1>1, <1>5
<1>6. \/ \E p \in Runs : CommitRefresh(p) \/ CommitFailure(p)
      \/ \E f \in Flights : Adopt(f)
      \/ monitor' \in {monitor, Ensured}
  BY DEF vars, Next, Executes, Calls, JobContext, ReadBefore, FetchNew, FetchSame, FetchFails, Accept,
         Settle, Breaks, Detaches, Claim, ManualRefresh, Trigger, Heartbeat, MutateCapability, TimePasses
<1> QED BY <1>2, <1>3, <1>4, <1>5, <1>6

\* The end of the baggage window, once set, stays for the adopted flight, unless
\* a failure has put back an older state of the monitor.
THEOREM WindowIsKept == Spec => WindowStands
<1>1. IInv /\ [Next]_vars =>
        [monitor.window # 0 /\ binding'.since = binding.since =>
           monitor'.window = monitor.window \/ overwritten']_vars
  BY WindowKept
<1> QED BY <1>1, Invariance, PTL DEF Spec, WindowStands
=============================================================================
