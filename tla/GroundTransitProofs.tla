------------------------ MODULE GroundTransitProofs ------------------------
(***************************************************************************)
(* Proofs about GroundTransit, for any requests, reports and bounds.       *)
(*                                                                         *)
(* A refresh commits an observation in one transaction, reconciles the     *)
(* risk in another and presents the change in a third.  What keeps those   *)
(* of one observation together, and those of an older one out, is that     *)
(* each looks again whether its observation is still the latest            *)
(* (StillLatest).  The invariant says what a request in between knows: the *)
(* group its presentation will belong to, and a delay band that covers     *)
(* what was told before its observation.                                   *)
(***************************************************************************)
EXTENDS GroundTransit, TLAPS

LegStates == {"PENDING", "IN_PROGRESS", "NO_LONGER_FEASIBLE"} \cup Arrived

Observation == [at : Nat, facts : Facts]
Known       == {s \in Seq(Observation) : Len(s) <= 1}
ViewRecord  == [state : LegStates, band : Nat, latest : Known, prior : Known]
Groups      == {<<>>} \cup ({"observation", "down"} \X Nat)
RowRecord   == [kind : {"EXECUTION_RISK", "GROUND_TRANSIT_IMPORTANT_CHANGE"}, key : Seq(Nat),
                group : Groups, kinds : SUBSET ChangeKinds, active : BOOLEAN]
WorkRecord  == [pc : {"idle", "asked", "evaluate", "reconcile", "present"},
                kind : {"none", "job", "refresh", "evaluation"}, revision : Nat, down : BOOLEAN,
                view : ViewRecord, group : Groups, tries : Nat, basis : Nat,
                desired : BOOLEAN, related : BOOLEAN]

TypeOK ==
    /\ now \in Nat /\ version \in Nat /\ routeActive \in BOOLEAN /\ place \in 0..3
    /\ capability \in [state : {"ENABLED", "PAUSED"}, revision : Nat]
    /\ observations \in Seq(Observation)
    /\ leg \in [state : LegStates, from : {"PENDING", "IN_PROGRESS"}, band : Nat,
                decided : BOOLEAN, next : Nat]
    /\ risk \in [generation : Nat, status : {"RESOLVED", "OPEN", "ACKNOWLEDGED", "SNOOZED"},
                 until : Nat, told : Nat]
    /\ rows \subseteq RowRecord
    /\ work \in [Procs -> WorkRecord]

\* Observations are accepted in the order of their fetch times.
InOrder == \A i, j \in DOMAIN observations : i < j => observations[i].at < observations[j].at

\* A row of a refresh is about an observation accepted; only such a row tells of
\* changes.
RowsOK ==
    \A n \in rows : /\ OfLeg(n) => \E i \in DOMAIN observations : observations[i].at = n.group[2]
                    /\ n.kinds # {} => OfLeg(n)

\* The group a request presents in: of its observation, of its failure, or none.
GroupOK(w) ==
    /\ w.pc = "asked" => w.kind \in {"job", "refresh"} /\ ~w.down
    /\ w.pc = "present" => w.kind # "evaluation"
    /\ w.pc \in {"evaluate", "reconcile", "present"} =>
          \/ w.kind = "evaluation" /\ w.group = <<>>
          \/ w.kind # "evaluation" /\ w.down /\ w.group # <<>> /\ w.group[1] = "down"
          \/ /\ w.kind # "evaluation" /\ ~w.down /\ w.view.latest # <<>>
             /\ w.group = <<"observation", w.view.latest[1].at>>

\* The delay of observation i was told, and the service has run late since.
ToldSince(m, i) ==
    /\ m.kinds = {"MATERIAL_DELAY"} /\ m.group[2] = observations[i].at
    /\ \A j \in DOMAIN observations : i <= j => RunsLate(observations[j])

\* The band on record covers what was told of a delay that lasts, and so does the
\* band in the view of a request whose observation is still the latest.
Covered(band, m, i) == ToldSince(m, i) => observations[i].facts.delay <= band

BandOK == \A m \in rows, i \in DOMAIN observations : Covered(leg.band, m, i)

ViewOK(w) ==
    w.view.latest # <<>> =>
        /\ \E i \in DOMAIN observations : w.view.latest[1] = observations[i]
        /\ w.view.latest = LastOf(observations) =>
              \A m \in rows, i \in DOMAIN observations :
                  observations[i].at < w.view.latest[1].at => Covered(w.view.band, m, i)

\* LastingDelayToldOnce, by the places of the observations.
TellsHigher ==
    \A m, n \in rows, i, j \in DOMAIN observations :
        /\ m.kinds = {"MATERIAL_DELAY"} /\ n.kinds = {"MATERIAL_DELAY"}
        /\ m.group[2] = observations[i].at /\ n.group[2] = observations[j].at
        /\ i < j /\ \A k \in i..j : RunsLate(observations[k])
        => observations[i].facts.delay < observations[j].facts.delay

IInv == /\ TypeOK
        /\ InOrder
        /\ RowsOK
        /\ \A p \in Procs : GroupOK(work[p]) /\ ViewOK(work[p])
        /\ BandOK
        /\ TellsHigher
        /\ OnePresentation

\* The policy, as far as the invariant needs it.  What requires attention tells
\* of a change; a delay of a running service is all that is told only where it
\* activates a band above the one presented.
LEMMA Assessment ==
    ASSUME NEW v \in ViewRecord, NEW o \in Observation, v.latest = <<o>>, NEW t \in Nat
    PROVE  LET a == assessGroundTransitOperational(v, t)
           IN  /\ a.kinds \subseteq ChangeKinds
               /\ a.band \in Nat
               /\ a.attention => a.kinds # {}
               /\ a.attention /\ a.kinds = {"MATERIAL_DELAY"} /\ RunsLate(o) =>
                     a.activated /\ a.band = o.facts.delay /\ a.band > v.band
<1>1. o.facts \in [cancelled : BOOLEAN, serves : {"SERVED", "NOT_SERVED", "UNKNOWN"}, delay : Nat]
  BY GroundAssumption DEF GroundAssumption, Observation
<1>2. v.latest # <<>> /\ v.latest[1] = o
  OBVIOUS
<1> DEFINE current == v.state \notin Arrived
           known == current /\ t - o.at <= Freshness
           f == o.facts
           near == v.state = "IN_PROGRESS" \/ t >= Window
           band == IF known THEN Band(f.delay, near) ELSE 0
           infeasible == /\ current
                         /\ \/ known /\ (f.cancelled \/ f.serves = "NOT_SERVED")
                            \/ v.state = "NO_LONGER_FEASIBLE" /\ ~(known /\ f.serves = "SERVED" /\ ~f.cancelled)
           a == assessGroundTransitOperational(v, t)
           activated == near /\ band > v.band
           priorBand == IF v.prior = <<>> THEN 0 ELSE Band(v.prior[1].facts.delay, near)
           wasCancelled == v.prior # <<>> /\ v.prior[1].facts.cancelled
           wasLost == v.prior # <<>> /\ v.prior[1].facts.serves = "NOT_SERVED"
           Changed(k) ==
               CASE k = "SERVICE_CANCELLED" -> f.cancelled /\ ~wasCancelled
                 [] k = "TARGET_NO_LONGER_SERVED" -> f.serves = "NOT_SERVED" /\ ~wasLost
                 [] k = "MATERIAL_DELAY" -> band > priorBand
                 [] k = "SERVICE_RESTORED" -> f.serves = "SERVED" /\ ~f.cancelled /\ (wasCancelled \/ wasLost)
           changes == {k \in ChangeKinds : known /\ Changed(k)}
<1>3. /\ a.kinds = changes \cup (IF activated THEN {"MATERIAL_DELAY"} ELSE {})
      /\ a.attention = (\/ infeasible /\ changes # {}
                        \/ "SERVICE_RESTORED" \in changes
                        \/ activated)
  BY <1>2 DEF assessGroundTransitOperational
<1>6. changes \subseteq ChangeKinds /\ (changes # {} => known)
  OBVIOUS
<1>4. a.band = band /\ (a.activated <=> activated)
  BY <1>2 DEF assessGroundTransitOperational
<1>5. band \in Nat /\ (band # 0 /\ near => band = f.delay) /\ v.band \in Nat /\ (band # 0 => known)
  BY <1>1 DEF Band, ViewRecord
<1>7. known => infeasible = (current /\ (f.cancelled \/ f.serves = "NOT_SERVED" \/
            (v.state = "NO_LONGER_FEASIBLE" /\ ~(f.serves = "SERVED" /\ ~f.cancelled))))
  OBVIOUS
<1> HIDE DEF changes, band, known, near
<1>8. RunsLate(o) /\ changes # {} => ~infeasible
  BY <1>1, <1>6, <1>7 DEF RunsLate
<1> HIDE DEF a, infeasible
<1>9. (activated => near /\ band # 0) /\ (activated => band > v.band)
  BY <1>5
<1> HIDE DEF activated
<1>10. a.kinds \subseteq ChangeKinds
  BY <1>3, <1>6 DEF ChangeKinds
<1>11. a.attention => a.kinds # {}
  BY <1>3
<1>12. a.attention /\ a.kinds = {"MATERIAL_DELAY"} /\ RunsLate(o) => activated
  <2> SUFFICES ASSUME a.attention, a.kinds = {"MATERIAL_DELAY"}, RunsLate(o)
               PROVE  activated
    OBVIOUS
  <2>1. "SERVICE_RESTORED" \notin changes
    BY <1>3
  <2> QED BY <1>3, <1>8, <2>1
<1> QED BY <1>4, <1>5, <1>9, <1>10, <1>11, <1>12 DEF a

-----------------------------------------------------------------------------
(* What a request knows of the leg.                                        *)

LegRecord == [state : LegStates, from : {"PENDING", "IN_PROGRESS"}, band : Nat,
              decided : BOOLEAN, next : Nat]

\* The invariant, without the types of what is not told about.
CoreOK ==
    /\ observations \in Seq(Observation)
    /\ leg \in LegRecord
    /\ rows \subseteq RowRecord
    /\ work \in [Procs -> WorkRecord]
    /\ InOrder
    /\ RowsOK
    /\ \A p \in Procs : GroupOK(work[p]) /\ ViewOK(work[p])
    /\ BandOK
    /\ TellsHigher
    /\ OnePresentation

EnvOK ==
    /\ now \in Nat /\ version \in Nat /\ routeActive \in BOOLEAN /\ place \in 0..3
    /\ capability \in [state : {"ENABLED", "PAUSED"}, revision : Nat]
    /\ risk \in [generation : Nat, status : {"RESOLVED", "OPEN", "ACKNOWLEDGED", "SNOOZED"},
                 until : Nat, told : Nat]

LEMMA InvariantParts == IInv <=> CoreOK /\ EnvOK
BY DEF IInv, TypeOK, CoreOK, EnvOK, LegRecord

LEMMA FactsAre ==
    ASSUME NEW o \in Observation
    PROVE  o.at \in Nat /\ o.facts \in Facts /\ o.facts.delay \in Nat
BY GroundAssumption DEF GroundAssumption, Observation

LEMMA LastIs ==
    ASSUME NEW s \in Seq(Observation)
    PROVE  /\ LastOf(s) \in Known /\ FrontOf(s) \in Seq(Observation)
           /\ LastOf(s) = <<>> <=> s = <<>>
           /\ s # <<>> => /\ LastOf(s) = <<s[Len(s)]>> /\ LastOf(s)[1] = s[Len(s)]
                          /\ Len(s) \in DOMAIN s /\ Len(s) \in Nat \ {0}
<1>1. CASE s = <<>>
  <2>1. <<>> \in Known
    BY DEF Known
  <2> QED BY <1>1, <2>1 DEF LastOf, FrontOf
<1>2. CASE s # <<>>
  <2>1. Len(s) \in Nat \ {0} /\ Len(s) \in DOMAIN s /\ s[Len(s)] \in Observation
    BY <1>2
  <2>2. LastOf(s) = <<s[Len(s)]>> /\ FrontOf(s) = SubSeq(s, 1, Len(s) - 1)
    BY <1>2 DEF LastOf, FrontOf
  <2>3. <<s[Len(s)]>> \in Known
    BY <2>1 DEF Known
  <2>4. SubSeq(s, 1, Len(s) - 1) \in Seq(Observation)
    BY <2>1
  <2> QED BY <1>2, <2>1, <2>2, <2>3, <2>4
<1> QED BY <1>1, <1>2

LEMMA ViewIs ==
    ASSUME CoreOK
    PROVE  /\ View \in ViewRecord /\ View.latest = LastOf(observations) /\ View.band = leg.band
           /\ View.state = leg.state
<1>1. LastOf(observations) \in Known /\ LastOf(FrontOf(observations)) \in Known
  BY LastIs DEF CoreOK
<1>2. leg.state \in LegStates /\ leg.band \in Nat
  BY DEF CoreOK, LegRecord
<1> QED BY <1>1, <1>2 DEF View, ViewRecord

LEMMA IdleIs == Idle \in WorkRecord /\ GroupOK(Idle) /\ ViewOK(Idle)
<1>1. <<>> \in Known
  BY DEF Known
<1>2. NoView \in ViewRecord /\ NoView.latest = <<>>
  BY <1>1 DEF NoView, ViewRecord, LegStates
<1>3. Idle \in WorkRecord /\ Idle.view = NoView /\ Idle.pc = "idle"
  BY <1>2 DEF Idle, WorkRecord, Groups
<1> QED BY <1>2, <1>3 DEF GroupOK, ViewOK

\* A request moves on while nothing is observed or told.
LEMMA Untold ==
    ASSUME CoreOK, UNCHANGED <<observations, rows>>, leg' \in LegRecord, leg'.band = leg.band,
           work' \in [Procs -> WorkRecord],
           \A p \in Procs : GroupOK(work'[p]) /\ ViewOK(work'[p])
    PROVE  CoreOK'
<1>1. \A p \in Procs : GroupOK(work[p])' /\ ViewOK(work[p])'
  BY DEF GroupOK, ViewOK, Covered, ToldSince
<1>2. InOrder' /\ RowsOK'
  BY DEF CoreOK, InOrder, RowsOK, OfLeg
<1>3. BandOK'
  BY DEF CoreOK, BandOK, Covered, ToldSince
<1>4. TellsHigher'
  BY DEF CoreOK, TellsHigher
<1>5. OnePresentation'
  BY DEF CoreOK, OnePresentation, OfLeg
<1> QED BY <1>1, <1>2, <1>3, <1>4, <1>5 DEF CoreOK

\* Request p comes to w.
LEMMA MovesOn ==
    ASSUME CoreOK, NEW p \in Procs, NEW w \in WorkRecord, GroupOK(w), ViewOK(w), Become(p, w)
    PROVE  /\ work' \in [Procs -> WorkRecord]
           /\ \A q \in Procs : GroupOK(work'[q]) /\ ViewOK(work'[q])
<1>1. \A q \in Procs : work'[q] = IF q = p THEN w ELSE work[q]
  BY DEF CoreOK, Become
<1>2. work' \in [Procs -> WorkRecord]
  BY DEF CoreOK, Become
<1> QED BY <1>1, <1>2 DEF CoreOK

LEMMA Finishes ==
    ASSUME CoreOK, NEW p \in Procs, Finish(p)
    PROVE  /\ work' \in [Procs -> WorkRecord]
           /\ \A q \in Procs : GroupOK(work'[q]) /\ ViewOK(work'[q])
BY IdleIs, MovesOn DEF Finish

LEMMA WorkIs ==
    ASSUME CoreOK, NEW p \in Procs
    PROVE  /\ work[p] \in WorkRecord /\ GroupOK(work[p]) /\ ViewOK(work[p])
           /\ work[p].view \in ViewRecord
BY DEF CoreOK, WorkRecord

\* What the last observation covers, a view taken now covers.
LEMMA ViewCovers ==
    ASSUME CoreOK, NEW w \in WorkRecord, w.view.latest = View.latest, w.view.band = leg.band
    PROVE  ViewOK(w)
<1>1. w.view.latest = LastOf(observations)
  BY ViewIs
<1>2. observations \in Seq(Observation)
  BY DEF CoreOK
<1>3. w.view.latest # <<>> => \E i \in DOMAIN observations : w.view.latest[1] = observations[i]
  BY <1>1, <1>2, LastIs
<1>4. BandOK
  BY DEF CoreOK
<1> QED BY <1>3, <1>4 DEF ViewOK, BandOK

LEMMA StartCore ==
    ASSUME CoreOK, EnvOK, NEW p \in Procs, Start(p)
    PROVE  CoreOK'
<1>1. UNCHANGED <<observations, rows, leg>>
  BY DEF Start, StartJob, StartRefresh, StartEvaluation
<1>2. \E w \in WorkRecord : GroupOK(w) /\ ViewOK(w) /\ Become(p, w)
  <2>1. <<>> \in Known /\ capability.revision \in Nat
    BY DEF Known, EnvOK
  <2>2. CASE StartJob(p)
    <3> DEFINE v == [View EXCEPT !.prior = <<>>]
               w == [Idle EXCEPT !.pc = "asked", !.kind = "job", !.revision = capability.revision, !.view = v]
    <3>1. v \in ViewRecord /\ v.latest = View.latest /\ v.band = leg.band
      BY <2>1, ViewIs DEF ViewRecord
    <3> HIDE DEF v
    <3>2. w \in WorkRecord /\ w.pc = "asked" /\ w.kind = "job" /\ w.view = v /\ w.down = Idle.down
      BY <2>1, <3>1, IdleIs DEF WorkRecord
    <3>3. Become(p, w)
      BY <2>2 DEF StartJob, v
    <3> HIDE DEF w
    <3>4. GroupOK(w)
      BY <3>2 DEF GroupOK, Idle
    <3>5. ViewOK(w)
      BY <3>1, <3>2, ViewCovers
    <3> QED BY <3>2, <3>3, <3>4, <3>5
  <2>3. CASE StartRefresh(p)
    <3> DEFINE w == [Idle EXCEPT !.pc = "asked", !.kind = "refresh", !.view = View]
    <3>1. w \in WorkRecord /\ w.pc = "asked" /\ w.kind = "refresh" /\ w.view = View /\ w.down = Idle.down
      BY ViewIs, IdleIs DEF WorkRecord
    <3>2. Become(p, w)
      BY <2>3 DEF StartRefresh
    <3> HIDE DEF w
    <3>3. GroupOK(w)
      BY <3>1 DEF GroupOK, Idle
    <3>4. ViewOK(w)
      BY <3>1, ViewIs, ViewCovers
    <3> QED BY <3>1, <3>2, <3>3, <3>4
  <2>4. CASE StartEvaluation(p)
    <3> DEFINE w == [Idle EXCEPT !.pc = "evaluate", !.kind = "evaluation"]
    <3>1. /\ w \in WorkRecord /\ w.pc = "evaluate" /\ w.kind = "evaluation"
          /\ w.view = Idle.view /\ w.group = Idle.group
      BY IdleIs DEF WorkRecord
    <3>2. Become(p, w)
      BY <2>4 DEF StartEvaluation
    <3> HIDE DEF w
    <3>3. GroupOK(w)
      BY <3>1 DEF GroupOK, Idle
    <3>4. ViewOK(w)
      BY <3>1, IdleIs DEF ViewOK
    <3> QED BY <3>1, <3>2, <3>3, <3>4
  <2> QED BY <2>2, <2>3, <2>4 DEF Start
<1>3. leg' \in LegRecord /\ leg'.band = leg.band
  BY <1>1 DEF CoreOK
<1> QED BY <1>1, <1>2, <1>3, MovesOn, Untold

\* A request goes on with the view it has.
LEMMA SameView ==
    ASSUME CoreOK, NEW p \in Procs, NEW w \in WorkRecord, w.view = work[p].view
    PROVE  ViewOK(w)
BY WorkIs DEF ViewOK

LEMMA FailCore ==
    ASSUME CoreOK, EnvOK, NEW p \in Procs, Fail(p)
    PROVE  CoreOK'
<1> DEFINE w == [work[p] EXCEPT !.pc = "evaluate", !.down = TRUE, !.group = <<"down", now>>]
<1>1. UNCHANGED <<observations, rows, leg>> /\ work[p].pc = "asked"
  BY DEF Fail
<1>2. <<"down", now>> \in Groups /\ <<"down", now>> # <<>> /\ <<"down", now>>[1] = "down"
  BY DEF EnvOK, Groups
<1>3. w \in WorkRecord /\ w.view = work[p].view
  BY <1>2, WorkIs DEF WorkRecord
<1>4. w.pc = "evaluate" /\ w.down /\ w.group = <<"down", now>> /\ w.kind = work[p].kind
  BY WorkIs DEF WorkRecord
<1>5. Finish(p) \/ Become(p, w)
  BY DEF Fail
<1> HIDE DEF w
<1>6. GroupOK(w)
  BY <1>1, <1>2, <1>4, WorkIs DEF GroupOK
<1>7. leg' \in LegRecord /\ leg'.band = leg.band
  BY <1>1 DEF CoreOK
<1> QED BY <1>1, <1>3, <1>5, <1>6, <1>7, SameView, Finishes, MovesOn, Untold

LEMMA ReadCore ==
    ASSUME CoreOK, EnvOK, NEW p \in Procs, Read(p)
    PROVE  CoreOK'
<1> DEFINE desired == routeActive /\ assessGroundTransitOperational(View, now).infeasible
           w == [work[p] EXCEPT !.pc = "reconcile", !.basis = version, !.desired = desired]
<1>1. UNCHANGED <<observations, rows, leg>> /\ work[p].pc = "evaluate"
  BY DEF Read
<1>2. desired \in BOOLEAN /\ version \in Nat
  BY DEF EnvOK, assessGroundTransitOperational
<1>3. Become(p, w)
  BY DEF Read
<1> HIDE DEF desired
<1>4. /\ w \in WorkRecord /\ w.view = work[p].view /\ w.pc = "reconcile"
      /\ w.group = work[p].group /\ w.kind = work[p].kind /\ w.down = work[p].down
  BY <1>2, WorkIs DEF WorkRecord
<1> HIDE DEF w
<1>5. GroupOK(w)
  BY <1>1, <1>4, WorkIs DEF GroupOK
<1>6. leg' \in LegRecord /\ leg'.band = leg.band
  BY <1>1 DEF CoreOK
<1> QED BY <1>1, <1>3, <1>4, <1>5, <1>6, SameView, MovesOn, Untold

\* Where evaluateTripRisks goes on.
LEMMA Returns ==
    ASSUME CoreOK, NEW p \in Procs, work[p].pc = "reconcile", NEW related \in BOOLEAN,
           Return(p, related)
    PROVE  /\ work' \in [Procs -> WorkRecord]
           /\ \A q \in Procs : GroupOK(work'[q]) /\ ViewOK(work'[q])
<1>1. CASE Finish(p)
  BY <1>1, Finishes
<1>2. CASE ~Finish(p)
  <2> DEFINE w == [work[p] EXCEPT !.pc = "present", !.related = related]
  <2>1. Become(p, w) /\ work[p].kind # "evaluation"
    BY <1>2 DEF Return
  <2>2. /\ w \in WorkRecord /\ w.view = work[p].view /\ w.pc = "present"
        /\ w.group = work[p].group /\ w.kind = work[p].kind /\ w.down = work[p].down
    BY WorkIs DEF WorkRecord
  <2> HIDE DEF w
  <2>3. GroupOK(w)
    BY <2>1, <2>2, WorkIs DEF GroupOK
  <2> QED BY <2>1, <2>2, <2>3, SameView, MovesOn
<1> QED BY <1>1, <1>2

\* A row that tells of no change joins the others.
LEMMA RowJoins ==
    ASSUME CoreOK, UNCHANGED observations, leg' \in LegRecord, leg'.band = leg.band,
           NEW n \in RowRecord, rows' = rows \cup {n}, n.kinds = {},
           OfLeg(n) => /\ observations # <<>> /\ n.group[2] = observations[Len(observations)].at
                       /\ n.active => Active(n.group) = {},
           work' \in [Procs -> WorkRecord],
           \A p \in Procs : GroupOK(work'[p]) /\ ViewOK(work'[p])
    PROVE  CoreOK'
<1>1. /\ observations \in Seq(Observation) /\ rows \subseteq RowRecord
      /\ InOrder /\ RowsOK /\ BandOK /\ TellsHigher /\ OnePresentation
  BY DEF CoreOK
<1>2. RowsOK'
  <2>1. OfLeg(n) => \E i \in DOMAIN observations : observations[i].at = n.group[2]
    BY <1>1, LastIs
  <2> QED BY <1>1, <2>1 DEF RowsOK, OfLeg
<1>3. InOrder'
  BY <1>1 DEF InOrder
<1>4. BandOK'
  BY <1>1 DEF BandOK, Covered, ToldSince
<1>5. TellsHigher'
  <2>1. \A m \in rows' : m.kinds = {"MATERIAL_DELAY"} => m \in rows
    OBVIOUS
  <2> SUFFICES ASSUME NEW m \in rows, NEW k \in rows, m.kinds = {"MATERIAL_DELAY"},
                      k.kinds = {"MATERIAL_DELAY"},
                      NEW i \in DOMAIN observations, NEW j \in DOMAIN observations,
                      m.group[2] = observations[i].at, k.group[2] = observations[j].at,
                      i < j, \A l \in i..j : RunsLate(observations[l])
               PROVE  observations[i].facts.delay < observations[j].facts.delay
    BY <2>1 DEF TellsHigher
  <2> QED BY <1>1 DEF TellsHigher
<1>6. ASSUME NEW p \in Procs
      PROVE  GroupOK(work[p])' /\ ViewOK(work[p])'
  <2>1. GroupOK(work'[p]) /\ ViewOK(work'[p])
    OBVIOUS
  <2>2. GroupOK(work[p])'
    BY <2>1 DEF GroupOK
  <2>3. ViewOK(work[p])'
    BY <2>1 DEF ViewOK, Covered, ToldSince
  <2> QED BY <2>2, <2>3
<1>7. \A m \in rows : OfLeg(m) /\ OfLeg(n) => m.group[2] <= n.group[2] /\ m.group \in {"observation"} \X Nat
                                            /\ n.group \in {"observation"} \X Nat
  <2> SUFFICES ASSUME NEW m \in rows, OfLeg(m), OfLeg(n)
               PROVE  m.group[2] <= n.group[2] /\ m.group \in {"observation"} \X Nat
                      /\ n.group \in {"observation"} \X Nat
    OBVIOUS
  <2>1. PICK i \in DOMAIN observations : observations[i].at = m.group[2]
    BY <1>1 DEF RowsOK
  <2>2. observations # <<>> /\ Len(observations) \in DOMAIN observations /\ Len(observations) \in Nat
        /\ n.group[2] = observations[Len(observations)].at
    BY <1>1, LastIs
  <2>3. i = Len(observations) \/ i < Len(observations)
    BY <1>1, <2>1, <2>2
  <2>4. observations[i].at \in Nat /\ observations[Len(observations)].at \in Nat
    BY <1>1, <2>1, <2>2, FactsAre
  <2>5. m.group \in {"observation"} \X Nat /\ n.group \in {"observation"} \X Nat
    BY <1>1 DEF RowRecord, Groups, OfLeg
  <2> QED BY <1>1, <2>1, <2>2, <2>3, <2>4, <2>5 DEF InOrder
<1>8. OnePresentation'
  <2> SUFFICES ASSUME NEW m \in rows', NEW k \in rows', m.active, k.active, m # k, OfLeg(m), OfLeg(k)
               PROVE  m.group # k.group /\ (m.kinds # {} => m.group[2] < k.group[2])
    BY DEF OnePresentation, OfLeg
  <2>1. CASE m \in rows /\ k \in rows
    BY <1>1, <2>1 DEF OnePresentation
  <2>2. CASE m \in rows /\ k = n
    <3>1. m.group # n.group
      BY <2>2 DEF Active
    <3>2. m.group[2] <= n.group[2] /\ m.group \in {"observation"} \X Nat
          /\ n.group \in {"observation"} \X Nat
      BY <1>7, <2>2
    <3>3. m.group[2] # n.group[2]
      BY <3>1, <3>2
    <3>4. m.group[2] \in Nat /\ n.group[2] \in Nat
      BY <3>2
    <3> QED BY <2>2, <3>1, <3>2, <3>3, <3>4
  <2>3. CASE m = n /\ k \in rows
    BY <2>3 DEF Active
  <2> QED BY <2>1, <2>2, <2>3
<1> QED BY <1>1, <1>2, <1>3, <1>4, <1>5, <1>6, <1>8 DEF CoreOK

LEMMA RiskRowJoins ==
    ASSUME CoreOK, EnvOK, EnvOK', NEW p \in Procs, work[p].pc = "reconcile",
           Correlated(p) => StillLatest(p)
    PROVE  LET n == RiskRow(p)
           IN  /\ n \in RowRecord /\ n.kinds = {}
               /\ OfLeg(n) => /\ observations # <<>> /\ n.group[2] = observations[Len(observations)].at
                              /\ n.active => Active(n.group) = {}
<1> DEFINE n == RiskRow(p)
<1>1. <<risk'.generation, risk'.told>> \in Seq(Nat)
  BY DEF EnvOK
<1>2. work[p].group \in Groups
  BY WorkIs DEF WorkRecord
<1>3. n \in RowRecord
  BY <1>1, <1>2 DEF RiskRow, RowRecord
<1>4. n.kinds = {} /\ n.group = work[p].group
      /\ n.active = (work[p].group = <<>> \/ Active(work[p].group) = {})
  BY DEF RiskRow
<1>5. ASSUME OfLeg(n)
      PROVE  observations # <<>> /\ n.group[2] = observations[Len(observations)].at
  <2>1. work[p].group # <<>> /\ work[p].group[1] = "observation"
    BY <1>4, <1>5 DEF OfLeg
  <2>2. /\ work[p].kind # "evaluation" /\ ~work[p].down /\ work[p].view.latest # <<>>
        /\ work[p].group = <<"observation", work[p].view.latest[1].at>>
    BY <2>1, WorkIs DEF GroupOK
  <2>3. View.latest = work[p].view.latest
    BY <2>2 DEF Correlated, StillLatest
  <2>4. LastOf(observations) = work[p].view.latest /\ observations \in Seq(Observation)
    BY <2>3, ViewIs DEF CoreOK
  <2>5. work[p].group[2] = work[p].view.latest[1].at
    BY <2>2
  <2> QED BY <1>4, <2>2, <2>4, <2>5, LastIs
<1>6. OfLeg(n) /\ n.active => Active(n.group) = {}
  BY <1>4 DEF OfLeg
<1> QED BY <1>3, <1>4, <1>5, <1>6

LEMMA ReconcileCore ==
    ASSUME CoreOK, EnvOK, EnvOK', NEW p \in Procs, Reconcile(p)
    PROVE  CoreOK'
<1>1. UNCHANGED observations /\ work[p].pc = "reconcile"
  BY DEF Reconcile
<1>2. leg' \in LegRecord /\ leg'.band = leg.band
  <2>1. leg \in LegRecord
    BY DEF CoreOK
  <2>2. leg' \in {leg, [leg EXCEPT !.decided = TRUE]}
    BY DEF Reconcile
  <2> QED BY <2>1, <2>2 DEF LegRecord
<1>3. /\ work' \in [Procs -> WorkRecord]
      /\ \A q \in Procs : GroupOK(work'[q]) /\ ViewOK(work'[q])
  <2> DEFINE w == [work[p] EXCEPT !.pc = "evaluate", !.tries = 1]
  <2>1. /\ w \in WorkRecord /\ w.view = work[p].view /\ w.pc = "evaluate"
        /\ w.group = work[p].group /\ w.kind = work[p].kind /\ w.down = work[p].down
    BY WorkIs DEF WorkRecord
  <2>2. \/ Become(p, w) \/ Finish(p)
        \/ \E related \in BOOLEAN : Return(p, related)
    <3>1. RiskActive \in BOOLEAN /\ work[p].desired \in BOOLEAN
      BY WorkIs DEF RiskActive, WorkRecord
    <3> QED BY <3>1 DEF Reconcile
  <2> HIDE DEF w
  <2>3. GroupOK(w)
    BY <1>1, <2>1, WorkIs DEF GroupOK
  <2> QED BY <1>1, <2>1, <2>2, <2>3, SameView, Finishes, MovesOn, Returns
<1>4. CASE UNCHANGED rows
  BY <1>1, <1>2, <1>3, <1>4, Untold
<1>5. CASE ~UNCHANGED rows
  <2>1. ReconcileRisk(p) /\ (Correlated(p) => StillLatest(p))
    BY <1>5 DEF Reconcile
  <2>2. rows' = rows \cup {RiskRow(p)}
    BY <1>5, <2>1 DEF ReconcileRisk
  <2>3. LET n == RiskRow(p)
        IN  /\ n \in RowRecord /\ n.kinds = {}
            /\ OfLeg(n) => /\ observations # <<>> /\ n.group[2] = observations[Len(observations)].at
                           /\ n.active => Active(n.group) = {}
    BY <1>1, <2>1, RiskRowJoins
  <2>4. PICK n : n = RiskRow(p)
    OBVIOUS
  <2> QED BY <1>1, <1>2, <1>3, <2>2, <2>3, <2>4, RowJoins
<1> QED BY <1>4, <1>5

\* TellsHigher, of two rows at a time.
HigherAt(os, m, n, i, j) ==
    /\ m.kinds = {"MATERIAL_DELAY"} /\ n.kinds = {"MATERIAL_DELAY"}
    /\ m.group[2] = os[i].at /\ n.group[2] = os[j].at
    /\ i < j /\ \A k \in i..j : RunsLate(os[k])

LEMMA TellsHigherIf ==
    ASSUME \A m, n \in rows', i, j \in DOMAIN observations' :
               HigherAt(observations', m, n, i, j)
               => observations'[i].facts.delay < observations'[j].facts.delay
    PROVE  TellsHigher'
BY DEF TellsHigher, HigherAt

LEMMA TellsHigherOf ==
    ASSUME TellsHigher, NEW m \in rows, NEW n \in rows,
           NEW i \in DOMAIN observations, NEW j \in DOMAIN observations,
           HigherAt(observations, m, n, i, j)
    PROVE  observations[i].facts.delay < observations[j].facts.delay
BY DEF TellsHigher, HigherAt

\* An accepted observation is newer than every other.
LEMMA CommitObserves ==
    ASSUME CoreOK, NEW o \in Observation,
           observations # <<>> => observations[Len(observations)].at < o.at,
           observations' = Append(observations, o), UNCHANGED rows,
           leg' \in LegRecord, leg'.band = IF o.facts.delay >= 1 THEN leg.band ELSE 0,
           NEW p \in Procs, NEW w \in WorkRecord, Become(p, w), GroupOK(w),
           w.view.latest = <<o>>, w.view.band = leg'.band
    PROVE  CoreOK'
<1> DEFINE N == Len(observations)
<1>1. /\ observations \in Seq(Observation) /\ rows \subseteq RowRecord /\ N \in Nat
      /\ InOrder /\ RowsOK /\ BandOK /\ TellsHigher /\ OnePresentation
  BY DEF CoreOK
<1>2. /\ observations' \in Seq(Observation) /\ Len(observations') = N + 1
      /\ DOMAIN observations = 1..N /\ DOMAIN observations' = 1..(N + 1)
      /\ observations'[N + 1] = o
      /\ \A i \in 1..N : observations'[i] = observations[i] /\ observations[i] \in Observation
  BY <1>1
<1> HIDE DEF N
<1>3. \A i \in 1..N : observations[i].at \in Nat /\ observations[i].at < o.at
  <2> SUFFICES ASSUME NEW i \in 1..N
               PROVE  observations[i].at \in Nat /\ observations[i].at < o.at
    OBVIOUS
  <2>1. observations # <<>> /\ N \in 1..N
    BY <1>1, <1>2
  <2>2. observations[N].at < o.at /\ observations[N].at \in Nat /\ observations[i].at \in Nat /\ o.at \in Nat
    BY <1>2, <2>1, FactsAre DEF N
  <2>3. i = N \/ observations[i].at < observations[N].at
    BY <1>1, <1>2, <2>1 DEF InOrder
  <2> QED BY <2>2, <2>3
<1>4. InOrder'
  BY <1>1, <1>2, <1>3 DEF InOrder
<1>5. RowsOK'
  <2>1. 1..N \subseteq 1..(N + 1)
    BY <1>1
  <2> QED BY <1>1, <1>2, <2>1 DEF RowsOK, OfLeg
<1>6. ASSUME NEW m \in rows, m.kinds = {"MATERIAL_DELAY"}, NEW i \in 1..(N + 1),
             m.group[2] = observations'[i].at
      PROVE  i \in 1..N
  <2>1. PICK k \in 1..N : observations[k].at = m.group[2]
    BY <1>1, <1>2, <1>6 DEF RowsOK
  <2>2. observations'[i].at # o.at
    <3>1. observations[k].at \in Nat /\ observations[k].at < o.at
      BY <1>3, <2>1
    <3>2. observations'[i].at = observations[k].at /\ o.at \in Nat
      BY <1>6, <2>1, FactsAre
    <3> QED BY <3>1, <3>2
  <2> QED BY <1>1, <1>2, <2>2
<1>8. ASSUME NEW m \in rows, NEW i \in 1..(N + 1), ToldSince(m, i)'
      PROVE  observations'[i].facts.delay <= leg'.band
  <2>1. m.kinds = {"MATERIAL_DELAY"} /\ m.group[2] = observations'[i].at
        /\ \A j \in 1..(N + 1) : i <= j => RunsLate(observations'[j])
    BY <1>2, <1>8 DEF ToldSince
  <2>2. i \in 1..N
    BY <1>6, <2>1
  <2>3. RunsLate(o)
    BY <1>1, <1>2, <2>1, <2>2
  <2>4. leg'.band = leg.band
    BY <2>3 DEF RunsLate
  <2>5. ToldSince(m, i)
    BY <1>1, <1>2, <2>1, <2>2 DEF ToldSince
  <2>6. observations[i].facts.delay <= leg.band
    BY <1>1, <1>2, <2>2, <2>5 DEF BandOK, Covered
  <2> QED BY <1>2, <2>2, <2>4, <2>6
<1>9. BandOK'
  BY <1>2, <1>8 DEF BandOK, Covered
<1>10. ViewOK(w)'
  <2>1. w.view.latest[1] = observations'[N + 1] /\ N + 1 \in DOMAIN observations'
    BY <1>1, <1>2
  <2> QED BY <1>2, <1>8, <2>1 DEF ViewOK, Covered
<1>11. ASSUME NEW q \in Procs, q # p
       PROVE  ViewOK(work[q])'
  <2>1. work'[q] = work[q]
    BY <1>11 DEF CoreOK, Become
  <2>2. CASE work[q].view.latest = <<>>
    BY <2>1, <2>2 DEF ViewOK
  <2>3. CASE work[q].view.latest # <<>>
    <3>1. PICK i \in 1..N : work[q].view.latest[1] = observations[i]
      BY <1>2, <2>3, WorkIs DEF ViewOK
    <3>2. LastOf(observations') = <<o>> /\ i \in 1..(N + 1)
      <4>1. observations' # <<>>
        BY <1>1, <1>2
      <4>2. LastOf(observations') = <<observations'[Len(observations')]>>
        BY <1>2, <4>1 DEF LastOf
      <4> QED BY <1>1, <1>2, <3>1, <4>2
    <3>3. work[q].view.latest # <<o>>
      BY <1>3, <3>1, FactsAre
    <3> QED BY <1>2, <2>1, <3>1, <3>2, <3>3 DEF ViewOK
  <2> QED BY <2>2, <2>3
<1>12. work' \in [Procs -> WorkRecord] /\ work'[p] = w
       /\ \A q \in Procs : q # p => work'[q] = work[q]
  BY DEF CoreOK, Become
<1>13. \A q \in Procs : GroupOK(work[q])' /\ ViewOK(work[q])'
  <2>1. \A q \in Procs : GroupOK(work'[q])
    BY <1>12, WorkIs
  <2>2. \A q \in Procs : ViewOK(work[q])'
    BY <1>10, <1>11, <1>12 DEF ViewOK, Covered, ToldSince
  <2> QED BY <2>1, <2>2 DEF GroupOK
<1>14. TellsHigher'
  <2> SUFFICES ASSUME NEW m \in rows, NEW k \in rows, NEW i \in 1..(N + 1), NEW j \in 1..(N + 1),
                      HigherAt(observations', m, k, i, j)
               PROVE  observations'[i].facts.delay < observations'[j].facts.delay
    BY <1>2, TellsHigherIf
  <2>1. i \in 1..N /\ j \in 1..N
    BY <1>6 DEF HigherAt
  <2>2. HigherAt(observations, m, k, i, j)
    BY <1>1, <1>2, <2>1 DEF HigherAt
  <2> QED BY <1>1, <1>2, <2>1, <2>2, TellsHigherOf
<1>15. OnePresentation'
  BY <1>1 DEF OnePresentation, OfLeg
<1> QED BY <1>1, <1>2, <1>4, <1>5, <1>9, <1>12, <1>13, <1>14, <1>15 DEF CoreOK

\* What the provider reports about the vehicle, as the leg's state.
LEMMA ProviderState ==
    ASSUME NEW s \in LegStates, NEW infeasible \in BOOLEAN, NEW from \in {"PENDING", "IN_PROGRESS"}
    PROVE  LET r == resolveGroundTransitProviderState(s, infeasible, from)
           IN  /\ r \in LegStates
               /\ r = "NO_LONGER_FEASIBLE" /\ r # s => s \in {"PENDING", "IN_PROGRESS"}
               /\ r # "NO_LONGER_FEASIBLE" => r = IF s = "NO_LONGER_FEASIBLE" THEN from ELSE s
BY DEF resolveGroundTransitProviderState, LegStates, Arrived

LEMMA OrderingIs ==
    ASSUME observations \in Seq(Observation), NEW at \in Nat, NEW f \in Facts
    PROVE  LET ordering == decideGroundTransitObservationOrdering(at, f)
           IN  /\ ordering = "APPLIED" /\ observations # <<>> => observations[Len(observations)].at < at
               /\ ordering = "IDEMPOTENT" => observations # <<>> /\ observations[Len(observations)].at = at
<1>1. CASE observations = <<>>
  BY <1>1 DEF decideGroundTransitObservationOrdering
<1>2. CASE observations # <<>>
  <2> DEFINE last == observations[Len(observations)]
  <2>1. last \in Observation
    BY <1>2, LastIs
  <2>2. last.at \in Nat
    BY <2>1, FactsAre
  <2>3. decideGroundTransitObservationOrdering(at, f) =
          CASE at < last.at -> "STALE_IGNORED"
            [] at > last.at -> "APPLIED"
            [] OTHER -> IF f = last.facts THEN "IDEMPOTENT" ELSE "OBSERVATION_CONFLICT"
    BY <1>2 DEF decideGroundTransitObservationOrdering
  <2> HIDE DEF last
  <2>4. at < last.at \/ at > last.at \/ at = last.at
    BY <2>2
  <2>5. decideGroundTransitObservationOrdering(at, f) = "APPLIED" => last.at < at
    BY <2>2, <2>3
  <2>6. decideGroundTransitObservationOrdering(at, f) = "IDEMPOTENT" => last.at = at
    BY <2>2, <2>3, <2>4
  <2> QED BY <1>2, <2>5, <2>6 DEF last
<1> QED BY <1>1, <1>2

LEMMA BandAfterIs ==
    ASSUME leg \in LegRecord, NEW f
    PROVE  BandAfter(f) = (IF f.delay >= 1 THEN leg.band ELSE 0) /\ BandAfter(f) \in Nat
BY DEF BandAfter, LegRecord

LEMMA CommitCore ==
    ASSUME CoreOK, EnvOK, NEW p \in Procs, Commit(p)
    PROVE  CoreOK'
<1>1. PICK at \in 1..now, f \in Facts :
       LET ordering == decideGroundTransitObservationOrdering(at, f)
           fresh == [View EXCEPT !.latest = <<[at |-> at, facts |-> f]>>, !.prior = View.latest]
           state == resolveGroundTransitProviderState(leg.state,
                        assessGroundTransitOperational(fresh, now).infeasible, leg.from)
           band == BandAfter(f)
           Proceed(v) == Become(p, [work[p] EXCEPT !.pc = "evaluate", !.view = v,
                                                   !.group = <<"observation", at>>])
       IN \/ Finish(p) /\ UNCHANGED <<observations, leg>>
          \/ ordering = "IDEMPOTENT" /\ Proceed(View) /\ UNCHANGED <<observations, leg>>
          \/ /\ ordering = "APPLIED"
             /\ observations' = Append(observations, [at |-> at, facts |-> f])
             /\ leg' = [state |-> state, band |-> band, decided |-> FALSE, next |-> now + 1,
                        from |-> IF state = "NO_LONGER_FEASIBLE" /\ leg.state # state
                                 THEN leg.state ELSE leg.from]
             /\ Proceed([fresh EXCEPT !.state = state, !.band = band])
  BY DEF Commit
<1> DEFINE o == [at |-> at, facts |-> f]
           fresh == [View EXCEPT !.latest = <<o>>, !.prior = View.latest]
           infeasible == assessGroundTransitOperational(fresh, now).infeasible
           state == resolveGroundTransitProviderState(leg.state, infeasible, leg.from)
           band == BandAfter(f)
           W(v) == [work[p] EXCEPT !.pc = "evaluate", !.view = v, !.group = <<"observation", at>>]
<1>2. UNCHANGED rows /\ work[p].pc = "asked" /\ at \in Nat /\ now \in Nat
  BY DEF Commit, EnvOK
<1>3. /\ observations \in Seq(Observation) /\ leg \in LegRecord
      /\ leg.state \in LegStates /\ leg.from \in {"PENDING", "IN_PROGRESS"}
  BY DEF CoreOK, LegRecord
<1>4. o \in Observation /\ o.at = at /\ o.facts = f /\ <<o>> \in Known
  BY <1>2 DEF Observation, Known
<1> HIDE DEF o
<1>5. ASSUME NEW v \in ViewRecord, v.latest # <<>>, v.latest[1].at = at
      PROVE  W(v) \in WorkRecord /\ GroupOK(W(v)) /\ W(v).view = v
  <2>1. <<"observation", at>> \in Groups
    BY <1>2 DEF Groups
  <2>2. /\ W(v) \in WorkRecord /\ W(v).view = v /\ W(v).pc = "evaluate"
        /\ W(v).group = <<"observation", at>> /\ W(v).kind = work[p].kind /\ W(v).down = work[p].down
    BY <2>1, WorkIs DEF WorkRecord
  <2> HIDE DEF W
  <2> QED BY <1>2, <1>5, <2>2, WorkIs DEF GroupOK
<1>6. CASE Finish(p) /\ UNCHANGED <<observations, leg>>
  BY <1>2, <1>3, <1>6, Finishes, Untold
<1>7. CASE /\ decideGroundTransitObservationOrdering(at, f) = "IDEMPOTENT"
           /\ Become(p, W(View)) /\ UNCHANGED <<observations, leg>>
  <2>1. View \in ViewRecord /\ View.latest # <<>> /\ View.latest[1].at = at
    BY <1>2, <1>3, <1>7, OrderingIs, ViewIs, LastIs
  <2>2. W(View) \in WorkRecord /\ GroupOK(W(View)) /\ W(View).view = View
    BY <1>5, <2>1
  <2> HIDE DEF W
  <2>3. ViewOK(W(View))
    BY <2>2, ViewIs, ViewCovers
  <2> QED BY <1>2, <1>3, <1>7, <2>2, <2>3, MovesOn, Untold
<1>8. CASE /\ decideGroundTransitObservationOrdering(at, f) = "APPLIED"
           /\ observations' = Append(observations, o)
           /\ leg' = [state |-> state, band |-> band, decided |-> FALSE, next |-> now + 1,
                      from |-> IF state = "NO_LONGER_FEASIBLE" /\ leg.state # state
                               THEN leg.state ELSE leg.from]
           /\ Become(p, W([fresh EXCEPT !.state = state, !.band = band]))
  <2>1. infeasible \in BOOLEAN
    BY DEF assessGroundTransitOperational
  <2>2. View.latest \in Known
    BY ViewIs, <1>3, LastIs
  <2>3. fresh \in ViewRecord /\ fresh.latest = <<o>>
    BY <1>4, <2>2, ViewIs DEF ViewRecord
  <2> HIDE DEF infeasible, fresh
  <2>4. /\ state \in LegStates
        /\ state = "NO_LONGER_FEASIBLE" /\ state # leg.state => leg.state \in {"PENDING", "IN_PROGRESS"}
    BY <1>3, <2>1, ProviderState
  <2>5. band = (IF o.facts.delay >= 1 THEN leg.band ELSE 0) /\ band \in Nat
    BY <1>3, <1>4, BandAfterIs
  <2> HIDE DEF state, band
  <2> DEFINE v == [fresh EXCEPT !.state = state, !.band = band]
  <2>6. v \in ViewRecord /\ v.latest = <<o>> /\ v.band = band
    BY <2>3, <2>4, <2>5 DEF ViewRecord
  <2>7. leg' \in LegRecord /\ leg'.band = band
    BY <1>2, <1>3, <1>8, <2>4, <2>5 DEF LegRecord
  <2>8. observations # <<>> => observations[Len(observations)].at < o.at
    BY <1>2, <1>3, <1>4, <1>8, OrderingIs
  <2>9. Become(p, W(v))
    BY <1>8
  <2> HIDE DEF v
  <2>10. v.latest # <<>> /\ v.latest[1].at = at
    BY <1>4, <2>6
  <2>11. W(v) \in WorkRecord /\ GroupOK(W(v)) /\ W(v).view = v
    BY <1>5, <2>6, <2>10
  <2> HIDE DEF W
  <2>12. W(v).view.latest = <<o>> /\ W(v).view.band = leg'.band
    BY <2>6, <2>7, <2>11
  <2> QED BY <1>2, <1>4, <1>8, <2>5, <2>7, <2>8, <2>9, <2>11, <2>12, CommitObserves
<1>9. \/ Finish(p) /\ UNCHANGED <<observations, leg>>
      \/ /\ decideGroundTransitObservationOrdering(at, f) = "IDEMPOTENT"
         /\ Become(p, W(View)) /\ UNCHANGED <<observations, leg>>
      \/ /\ decideGroundTransitObservationOrdering(at, f) = "APPLIED"
         /\ observations' = Append(observations, o)
         /\ leg' = [state |-> state, band |-> band, decided |-> FALSE, next |-> now + 1,
                    from |-> IF state = "NO_LONGER_FEASIBLE" /\ leg.state # state
                             THEN leg.state ELSE leg.from]
         /\ Become(p, W([fresh EXCEPT !.state = state, !.band = band]))
  BY <1>1 DEF o
<1> QED BY <1>6, <1>7, <1>8, <1>9

\* A presentation: rows end, and the one of the latest observation may say more.
\* What it says of a delay alone is above the band the request knew.
LEMMA RowsTell ==
    ASSUME CoreOK, UNCHANGED observations, observations # <<>>,
           leg' \in LegRecord, leg'.band >= leg.band,
           NEW band \in Nat, NEW told \in BOOLEAN,
           LET o == observations[Len(observations)]
           IN  /\ \A m \in rows, i \in DOMAIN observations :
                     observations[i].at < o.at => Covered(band, m, i)
               /\ told /\ RunsLate(o) => band < o.facts.delay /\ o.facts.delay <= leg'.band
               /\ \A n \in rows' :
                     /\ n \in RowRecord
                     /\ OfLeg(n) => \/ \E m \in rows : OfLeg(m) /\ m.group = n.group
                                    \/ n.group = <<"observation", o.at>>
                     /\ n.kinds # {} => OfLeg(n)
                     /\ n.kinds = {"MATERIAL_DELAY"} =>
                          \/ \E m \in rows : m.kinds = {"MATERIAL_DELAY"} /\ m.group = n.group
                          \/ told /\ n.group = <<"observation", o.at>>,
           OnePresentation',
           work' \in [Procs -> WorkRecord],
           \A p \in Procs : work'[p] = work[p] \/ work'[p] = Idle
    PROVE  CoreOK'
<1> DEFINE N == Len(observations)
           o == observations[N]
           Old(n) == \E m \in rows : m.kinds = {"MATERIAL_DELAY"} /\ m.group = n.group
           New(n) == told /\ n.group = <<"observation", o.at>>
<1>1. /\ observations \in Seq(Observation) /\ rows \subseteq RowRecord /\ leg \in LegRecord
      /\ InOrder /\ RowsOK /\ BandOK /\ TellsHigher
      /\ leg.band \in Nat /\ leg'.band \in Nat
  BY DEF CoreOK, LegRecord
<1>2. /\ N \in DOMAIN observations /\ N \in Nat \ {0} /\ o \in Observation /\ o.at \in Nat
      /\ DOMAIN observations = 1..N
  BY <1>1, LastIs, FactsAre
<1>3. \A i \in 1..N : /\ observations[i] \in Observation /\ observations[i].at \in Nat
                      /\ observations[i].facts.delay \in Nat
                      /\ i < N => observations[i].at < o.at
                      /\ observations[i].at = o.at => i = N
  <2> SUFFICES ASSUME NEW i \in 1..N
               PROVE  /\ observations[i] \in Observation /\ observations[i].at \in Nat
                      /\ observations[i].facts.delay \in Nat
                      /\ i < N => observations[i].at < o.at
                      /\ observations[i].at = o.at => i = N
    OBVIOUS
  <2>1. observations[i] \in Observation /\ observations[i].at \in Nat /\ observations[i].facts.delay \in Nat
    BY <1>1, <1>2, FactsAre
  <2>2. i < N => observations[i].at < o.at
    BY <1>1, <1>2 DEF InOrder
  <2> HIDE DEF N, o
  <2>3. i = N \/ i < N
    BY <1>2
  <2>4. observations[i].at = o.at => i = N
    BY <1>2, <2>1, <2>2, <2>3
  <2> QED BY <2>1, <2>2, <2>4
<1>4. \A n \in rows' : n.kinds = {"MATERIAL_DELAY"} => Old(n) \/ New(n)
  OBVIOUS
<1>5. /\ \A m \in rows, i \in 1..N : observations[i].at < o.at => Covered(band, m, i)
      /\ told /\ RunsLate(o) => band < o.facts.delay /\ o.facts.delay <= leg'.band
  BY <1>2
<1>6. RowsOK' /\ rows' \subseteq RowRecord
  <2> SUFFICES ASSUME NEW n \in rows'
               PROVE  /\ n \in RowRecord
                      /\ OfLeg(n) => \E i \in DOMAIN observations : observations[i].at = n.group[2]
                      /\ n.kinds # {} => OfLeg(n)
    BY DEF RowsOK, OfLeg
  <2>1. ASSUME OfLeg(n), NEW m \in rows, OfLeg(m), m.group = n.group
        PROVE  \E i \in DOMAIN observations : observations[i].at = n.group[2]
    BY <1>1, <2>1 DEF RowsOK
  <2>2. n.group = <<"observation", o.at>> => n.group[2] = o.at
    OBVIOUS
  <2> QED BY <1>2, <2>1, <2>2
<1> HIDE DEF N, o
<1>7. ASSUME NEW n \in rows', NEW i \in 1..N, Old(n), ToldSince(n, i)
      PROVE  \E m \in rows : m.kinds = {"MATERIAL_DELAY"} /\ m.group = n.group /\ ToldSince(m, i)
  BY <1>7 DEF ToldSince
<1>8. ASSUME NEW n \in rows', NEW i \in 1..N, ToldSince(n, i), ~ Old(n)
      PROVE  i = N /\ told /\ RunsLate(o)
  <2>1. New(n) /\ n.group[2] = observations[i].at
    BY <1>4, <1>8 DEF ToldSince
  <2>2. i = N
    BY <1>3, <2>1
  <2> QED BY <1>2, <1>8, <2>1, <2>2 DEF ToldSince, o
<1>9. BandOK'
  <2> SUFFICES ASSUME NEW n \in rows', NEW i \in 1..N, ToldSince(n, i)
               PROVE  observations[i].facts.delay <= leg'.band
    BY <1>2 DEF BandOK, Covered, ToldSince
  <2>1. CASE Old(n)
    <3>1. PICK m \in rows : ToldSince(m, i)
      BY <1>7, <2>1
    <3>2. observations[i].facts.delay <= leg.band
      BY <1>1, <1>2, <3>1 DEF BandOK, Covered
    <3> QED BY <1>1, <1>3, <3>2
  <2>2. CASE ~ Old(n)
    BY <1>5, <1>8, <2>2 DEF o
  <2> QED BY <2>1, <2>2
<1>10. ASSUME NEW p \in Procs
       PROVE  GroupOK(work[p])' /\ ViewOK(work[p])'
  <2>1. CASE work'[p] = Idle
    <3>1. GroupOK(Idle) /\ Idle.view.latest = <<>>
      BY IdleIs DEF Idle, NoView
    <3> QED BY <2>1, <3>1 DEF GroupOK, ViewOK
  <2>2. CASE work'[p] = work[p]
    <3>1. GroupOK(work[p]) /\ ViewOK(work[p])
      BY WorkIs
    <3>2. GroupOK(work[p])'
      BY <2>2, <3>1 DEF GroupOK
    <3>3. ASSUME work[p].view.latest # <<>>, work[p].view.latest = LastOf(observations),
                 NEW n \in rows', NEW i \in 1..N, ToldSince(n, i),
                 observations[i].at < work[p].view.latest[1].at
          PROVE  observations[i].facts.delay <= work[p].view.band
      <4>1. work[p].view.latest[1].at = o.at
        BY <1>1, <3>3, LastIs DEF o, N
      <4>2. CASE Old(n)
        <5>1. PICK m \in rows : ToldSince(m, i)
          BY <1>7, <3>3, <4>2
        <5>2. Covered(work[p].view.band, m, i)
          BY <1>2, <3>1, <3>3 DEF ViewOK
        <5> QED BY <5>1, <5>2 DEF Covered
      <4>3. CASE ~ Old(n)
        <5>1. i = N
          BY <1>8, <3>3, <4>3
        <5>2. observations[i].at = o.at
          BY <5>1 DEF o
        <5> QED BY <1>2, <3>3, <4>1, <5>2
      <4> QED BY <4>2, <4>3
    <3>4. ViewOK(work[p])'
      BY <1>2, <2>2, <3>1, <3>3 DEF ViewOK, Covered, ToldSince
    <3> QED BY <3>2, <3>4
  <2> QED BY <2>1, <2>2
<1>11. TellsHigher'
  <2> SUFFICES ASSUME NEW m \in rows', NEW n \in rows', NEW i \in 1..N, NEW j \in 1..N,
                      HigherAt(observations, m, n, i, j)
               PROVE  observations[i].facts.delay < observations[j].facts.delay
    BY <1>2, TellsHigherIf
  <2>0. /\ m.kinds = {"MATERIAL_DELAY"} /\ n.kinds = {"MATERIAL_DELAY"}
        /\ m.group[2] = observations[i].at /\ n.group[2] = observations[j].at
        /\ i < j /\ \A k \in i..j : RunsLate(observations[k])
    BY DEF HigherAt
  <2>1. Old(m)
    <3>1. New(m) => m.group[2] = o.at
      OBVIOUS
    <3>2. Old(m) \/ New(m)
      BY <1>4, <2>0
    <3> HIDE DEF Old, New
    <3>3. New(m) => i = N
      BY <1>3, <2>0, <3>1
    <3>4. i # N
      BY <1>2, <2>0
    <3> QED BY <3>2, <3>3, <3>4
  <2>2. PICK mm \in rows : mm.kinds = {"MATERIAL_DELAY"} /\ mm.group = m.group
    BY <2>1
  <2>3. CASE Old(n)
    <3>1. PICK nn \in rows : nn.kinds = {"MATERIAL_DELAY"} /\ nn.group = n.group
      BY <2>3
    <3>2. HigherAt(observations, mm, nn, i, j)
      BY <2>0, <2>2, <3>1 DEF HigherAt
    <3> QED BY <1>1, <1>2, <3>2, TellsHigherOf
  <2>4. CASE ~ Old(n)
    <3>1. told /\ j = N
      <4>1. New(n)
        BY <1>4, <2>0, <2>4
      <4>2. told /\ n.group[2] = o.at
        BY <4>1
      <4> QED BY <1>3, <2>0, <4>2
    <3>2. ToldSince(mm, i) /\ RunsLate(o)
      BY <1>2, <2>0, <2>2, <3>1 DEF ToldSince, o
    <3>3. observations[i].at < o.at
      BY <1>3, <2>0, <3>1
    <3>4. observations[i].facts.delay <= band
      BY <1>5, <3>2, <3>3 DEF Covered
    <3>5. band < o.facts.delay
      BY <1>5, <3>1, <3>2
    <3> QED BY <1>2, <1>3, <3>1, <3>4, <3>5 DEF o
  <2> QED BY <2>3, <2>4
<1>12. InOrder' /\ observations' \in Seq(Observation)
  BY <1>1 DEF InOrder
<1> QED BY <1>6, <1>9, <1>10, <1>11, <1>12 DEF CoreOK

\* A row that says more.
LEMMA KindsJoin ==
    ASSUME NEW n \in RowRecord, NEW k \in SUBSET ChangeKinds
    PROVE  LET m == [n EXCEPT !.kinds = @ \cup k]
           IN  m \in RowRecord /\ m.group = n.group /\ m.kinds = n.kinds \cup k /\ m.active = n.active
BY DEF RowRecord

LEMMA PresentCore ==
    ASSUME CoreOK, EnvOK, NEW p \in Procs, Present(p)
    PROVE  CoreOK'
<1> DEFINE v == work[p].view
           a == assessGroundTransitOperational(v, now)
           group == <<"observation", v.latest[1].at>>
           retired == Retires(a, work[p].related, group)
           kept == (rows \ retired) \cup {[n EXCEPT !.active = FALSE] : n \in retired}
           current == Active(group)
           alert == [kind |-> "GROUND_TRANSIT_IMPORTANT_CHANGE", key |-> <<v.latest[1].at>>,
                     group |-> group, kinds |-> a.kinds, active |-> TRUE]
           said == {[n EXCEPT !.kinds = @ \cup a.kinds] : n \in current}
<1>1. UNCHANGED observations /\ Finish(p) /\ work[p].pc = "present"
  BY DEF Present
<1>2. observations \in Seq(Observation) /\ leg \in LegRecord /\ leg.band \in Nat
      /\ rows \subseteq RowRecord /\ RowsOK /\ OnePresentation
  BY DEF CoreOK, LegRecord
<1>3. /\ work' \in [Procs -> WorkRecord]
      /\ \A q \in Procs : GroupOK(work'[q]) /\ ViewOK(work'[q])
      /\ \A q \in Procs : work'[q] = work[q] \/ work'[q] = Idle
  <2>1. \A q \in Procs : work'[q] = work[q] \/ work'[q] = Idle
    BY <1>1 DEF CoreOK, Finish, Become
  <2> QED BY <1>1, <2>1, Finishes
<1>4. CASE UNCHANGED <<rows, leg>>
  BY <1>1, <1>2, <1>3, <1>4, Untold
<1>5. CASE ~UNCHANGED <<rows, leg>>
  <2>1. /\ ~Refused(p)
        /\ rows' = CASE ~a.attention -> kept
                     [] a.attention /\ current # {} -> (kept \ current) \cup said
                     [] a.attention /\ current = {} ->
                        IF \E n \in rows : n.kind = alert.kind /\ n.key = alert.key
                        THEN kept ELSE kept \cup {alert}
        /\ leg' = IF a.attention /\ a.activated /\ a.band > leg.band
                  THEN [leg EXCEPT !.band = a.band] ELSE leg
    BY <1>5 DEF Present
  <2>2. v \in ViewRecord /\ v.latest # <<>> /\ v.latest = LastOf(observations)
    BY <2>1, WorkIs, ViewIs DEF Refused, StillLatest
  <2> DEFINE o == observations[Len(observations)]
  <2>3. /\ observations # <<>> /\ o \in Observation /\ v.latest = <<o>> /\ v.latest[1] = o
        /\ v.band \in Nat /\ o.at \in Nat /\ now \in Nat
    BY <1>2, <2>2, LastIs, FactsAre DEF ViewRecord, EnvOK
  <2> HIDE DEF v
  <2>4. /\ a.kinds \subseteq ChangeKinds /\ a.band \in Nat
        /\ a.attention => a.kinds # {}
        /\ a.attention /\ a.kinds = {"MATERIAL_DELAY"} /\ RunsLate(o) =>
              a.activated /\ a.band = o.facts.delay /\ a.band > v.band
    BY <2>2, <2>3, Assessment
  <2> DEFINE told == a.attention /\ a.kinds = {"MATERIAL_DELAY"}
  <2> HIDE DEF a
  <2>5. leg' \in LegRecord /\ leg'.band >= leg.band
        /\ (told /\ RunsLate(o) => v.band < o.facts.delay /\ o.facts.delay <= leg'.band)
    <3>1. leg' \in LegRecord /\ leg'.band = IF a.attention /\ a.activated /\ a.band > leg.band
                                            THEN a.band ELSE leg.band
      BY <1>2, <2>1, <2>4 DEF LegRecord
    <3>2. leg.band \in Nat /\ a.band \in Nat /\ v.band \in Nat
      BY <1>2, <2>3, <2>4
    <3> HIDE DEF o
    <3>3. told /\ RunsLate(o) => a.attention /\ a.activated /\ a.band = o.facts.delay /\ a.band > v.band
      BY <2>4
    <3> HIDE DEF told
    <3> QED BY <3>1, <3>2, <3>3
  <2>6. \A m \in rows, i \in DOMAIN observations :
           observations[i].at < o.at => Covered(v.band, m, i)
    BY <2>2, <2>3, WorkIs DEF ViewOK, v
  <2>7. group = <<"observation", o.at>> /\ group \in Groups /\ group # <<>> /\ group[1] = "observation"
    BY <2>3 DEF Groups
  <2>8. retired \subseteq rows /\ current \subseteq rows
        /\ \A n \in current : n.group = group /\ n.active
    BY DEF Retires, Active
  <2>9. alert \in RowRecord /\ alert.group = group /\ alert.kinds = a.kinds /\ alert.active
    <3>1. <<o.at>> \in Seq(Nat)
      BY <2>3
    <3> QED BY <2>3, <2>4, <2>7, <3>1 DEF RowRecord
  <2>10. \A n \in rows : LET m == [n EXCEPT !.active = FALSE]
                         IN  m \in RowRecord /\ m.group = n.group /\ m.kinds = n.kinds /\ ~m.active
    BY <1>2 DEF RowRecord
  <2>11. \A n \in rows : LET m == [n EXCEPT !.kinds = @ \cup a.kinds]
                         IN  m \in RowRecord /\ m.group = n.group /\ m.kinds = n.kinds \cup a.kinds
                             /\ m.active = n.active
    <3> SUFFICES ASSUME NEW n \in rows
                 PROVE  LET m == [n EXCEPT !.kinds = @ \cup a.kinds]
                        IN  m \in RowRecord /\ m.group = n.group /\ m.kinds = n.kinds \cup a.kinds
                            /\ m.active = n.active
      OBVIOUS
    <3>1. n \in RowRecord /\ a.kinds \in SUBSET ChangeKinds
      BY <1>2, <2>4
    <3> QED BY <3>1, KindsJoin
  <2>12. \A n \in kept : \/ n \in rows \ retired
                         \/ \E m \in rows : /\ n \in RowRecord /\ n.group = m.group
                                            /\ n.kinds = m.kinds /\ ~n.active
    <3> SUFFICES ASSUME NEW n \in kept, n \notin rows \ retired
                 PROVE  \E m \in rows : /\ n \in RowRecord /\ n.group = m.group
                                        /\ n.kinds = m.kinds /\ ~n.active
      OBVIOUS
    <3>1. PICK m \in retired : n = [m EXCEPT !.active = FALSE]
      OBVIOUS
    <3>2. m \in rows
      BY <2>8
    <3> QED BY <2>10, <3>1, <3>2
  <2>13. \A n \in said : \E m \in current : /\ n = [m EXCEPT !.kinds = m.kinds \cup a.kinds]
                                            /\ n \in RowRecord /\ n.group = group
                                            /\ n.kinds = m.kinds \cup a.kinds
    <3> SUFFICES ASSUME NEW n \in said
                 PROVE  \E m \in current : /\ n = [m EXCEPT !.kinds = m.kinds \cup a.kinds]
                                           /\ n \in RowRecord /\ n.group = group
                                           /\ n.kinds = m.kinds \cup a.kinds
      OBVIOUS
    <3>1. PICK m \in current : n = [m EXCEPT !.kinds = @ \cup a.kinds]
      OBVIOUS
    <3> HIDE DEF current, said
    <3> QED BY <2>8, <2>11, <3>1
  <2>14. \A n \in rows' : \/ n \in kept
                          \/ a.attention /\ n \in said
                          \/ a.attention /\ current = {} /\ n = alert
    BY <2>1
  <2>15. a.attention => \A n \in rows : n.active /\ OfLeg(n) /\ n \notin retired => n \in current
    BY DEF Retires, Active
  <2>16. \A m, n \in current : m = n
    <3>1. \A n \in current : OfLeg(n)
      BY <2>7, <2>8 DEF OfLeg
    <3> QED BY <1>2, <2>8, <3>1 DEF OnePresentation
  <2> HIDE DEF group, retired, current, alert, kept, said
  <2>17. OnePresentation'
    <3> SUFFICES ASSUME NEW m \in rows', NEW n \in rows', m.active, n.active, m # n, OfLeg(m), OfLeg(n)
                 PROVE  m.group # n.group /\ (m.kinds # {} => m.group[2] < n.group[2])
      BY DEF OnePresentation, OfLeg
    <3>1. CASE ~a.attention
      <4>1. m \in rows /\ n \in rows
        BY <2>12, <2>14, <3>1
      <4> QED BY <1>2, <4>1 DEF OnePresentation
    <3>2. CASE a.attention /\ current # {}
      <4>1. rows' = (kept \ current) \cup said
        BY <2>1, <3>2
      <4>2. \A r \in kept \ current : ~(r.active /\ OfLeg(r))
        BY <2>12, <2>15, <3>2
      <4>3. m \in said /\ n \in said
        BY <4>1, <4>2
      <4>4. PICK x \in current : m = [x EXCEPT !.kinds = x.kinds \cup a.kinds]
        BY <2>13, <4>3
      <4>5. PICK y \in current : n = [y EXCEPT !.kinds = y.kinds \cup a.kinds]
        BY <2>13, <4>3
      <4> QED BY <2>16, <4>4, <4>5
    <3>3. CASE a.attention /\ current = {}
      <4>1. rows' \subseteq kept \cup {alert}
        BY <2>1, <3>3
      <4>2. \A r \in kept : ~(r.active /\ OfLeg(r))
        BY <2>12, <2>15, <3>3
      <4> QED BY <4>1, <4>2
    <3> QED BY <3>1, <3>2, <3>3
  <2>18. ASSUME NEW n \in rows'
         PROVE  /\ n \in RowRecord
                /\ OfLeg(n) => \/ \E m \in rows : OfLeg(m) /\ m.group = n.group
                               \/ n.group = <<"observation", o.at>>
                /\ n.kinds # {} => OfLeg(n)
                /\ n.kinds = {"MATERIAL_DELAY"} =>
                      \/ \E m \in rows : m.kinds = {"MATERIAL_DELAY"} /\ m.group = n.group
                      \/ told /\ n.group = <<"observation", o.at>>
    <3>1. CASE \E m \in rows : /\ n \in RowRecord /\ n.group = m.group /\ n.kinds = m.kinds
      BY <1>2, <3>1 DEF RowsOK, OfLeg
    <3>2. CASE a.attention /\ n \in said
      <4>1. PICK m \in current : n \in RowRecord /\ n.group = group /\ n.kinds = m.kinds \cup a.kinds
        BY <2>13, <3>2
      <4>2. n.kinds = {"MATERIAL_DELAY"} => told
        BY <2>4, <3>2, <4>1
      <4> QED BY <2>7, <4>1, <4>2 DEF OfLeg
    <3>3. CASE a.attention /\ n = alert
      BY <2>7, <2>9, <3>3 DEF OfLeg
    <3>4. n \in kept => \E m \in rows : /\ n \in RowRecord /\ n.group = m.group /\ n.kinds = m.kinds
      BY <1>2, <2>12
    <3> QED BY <2>14, <3>1, <3>2, <3>3, <3>4
  <2>19. told \in BOOLEAN
    OBVIOUS
  <2> HIDE DEF told
  <2> QED BY <1>1, <1>3, <2>3, <2>5, <2>6, <2>17, <2>18, <2>19, RowsTell
<1> QED BY <1>4, <1>5

LEMMA WorldCore ==
    ASSUME CoreOK, EnvOK, World
    PROVE  CoreOK'
<1>1. UNCHANGED <<observations, rows, work>>
  BY DEF World, Move, UndoMove, Pause, EditTrip, ReplaceRoute, Acknowledge, Snooze, env
<1>2. leg' \in LegRecord /\ leg'.band = leg.band
  <2>1. leg \in LegRecord
    BY DEF CoreOK
  <2>2. leg' = leg \/ \E s \in LegStates : leg' = [leg EXCEPT !.state = s]
    <3>1. CASE Move
      <4> DEFINE s == CASE ~routeActive -> leg.state
                        [] routeActive /\ place = 0 ->
                             IF leg.state = "PENDING" THEN "IN_PROGRESS" ELSE leg.state
                        [] routeActive /\ place = 1 -> "ARRIVED_PENDING_HANDOFF"
                        [] routeActive /\ place = 2 ->
                             IF leg.state = "ARRIVED_PENDING_HANDOFF" THEN "COMPLETED" ELSE leg.state
      <4>1. leg' = [leg EXCEPT !.state = s]
        BY <3>1 DEF Move
      <4>2. s \in LegStates
        <5>1. ~routeActive \/ (routeActive /\ place \in 0..2)
          BY <3>1 DEF Move, EnvOK
        <5> QED BY <2>1, <5>1 DEF LegRecord, LegStates, Arrived
      <4> QED BY <4>1, <4>2
    <3>2. CASE ~Move
      BY <3>2 DEF World, UndoMove, Pause, EditTrip, ReplaceRoute, Acknowledge, Snooze
    <3> QED BY <3>1, <3>2
  <2> QED BY <2>1, <2>2 DEF LegRecord
<1>3. \A p \in Procs : GroupOK(work'[p]) /\ ViewOK(work'[p])
  BY <1>1, WorkIs
<1> QED BY <1>1, <1>2, <1>3, Untold DEF CoreOK

LEMMA CrashCore ==
    ASSUME CoreOK, NEW p \in Procs, Crash(p)
    PROVE  CoreOK'
<1>1. UNCHANGED <<observations, rows, leg>> /\ Finish(p)
  BY DEF Crash
<1> QED BY <1>1, Finishes, Untold DEF CoreOK

LEMMA TickCore ==
    ASSUME CoreOK, Tick
    PROVE  CoreOK'
<1>1. UNCHANGED <<observations, rows, leg, work>>
  BY DEF Tick
<1>2. \A p \in Procs : GroupOK(work'[p]) /\ ViewOK(work'[p])
  BY <1>1, WorkIs
<1> QED BY <1>1, <1>2, Untold DEF CoreOK

\* Clock, permission, trip and risk keep their types.
LEMMA EnvStays ==
    ASSUME EnvOK, Next
    PROVE  EnvOK'
<1> DEFINE RiskRecord == [generation : Nat, status : {"RESOLVED", "OPEN", "ACKNOWLEDGED", "SNOOZED"},
                          until : Nat, told : Nat]
<1>1. risk \in RiskRecord /\ risk.generation \in Nat /\ risk.told \in Nat /\ now \in Nat
  BY DEF EnvOK
<1>2. ASSUME NEW p \in Procs, Start(p) \/ Work(p) \/ Crash(p)
      PROVE  EnvOK'
  <2>1. CASE Reconcile(p)
    <3>1. \/ risk' = risk
          \/ risk' = [generation |-> risk.generation + 1, status |-> "OPEN", until |-> 0, told |-> 1]
          \/ risk' = [risk EXCEPT !.status = "OPEN", !.until = 0, !.told = @ + 1]
          \/ risk' = [risk EXCEPT !.status = "RESOLVED", !.until = 0]
      BY <2>1 DEF Reconcile, ReconcileRisk
    <3>2. risk' \in RiskRecord
      <4>1. \/ risk' = risk
            \/ risk' = [generation |-> risk.generation + 1, status |-> "OPEN", until |-> 0, told |-> 1]
            \/ risk' = [generation |-> risk.generation, status |-> "OPEN", until |-> 0,
                        told |-> risk.told + 1]
            \/ risk' = [generation |-> risk.generation, status |-> "RESOLVED", until |-> 0,
                        told |-> risk.told]
        BY <1>1, <3>1
      <4> QED BY <1>1, <4>1
    <3> QED BY <2>1, <3>2 DEF Reconcile, env, EnvOK
  <2>2. CASE Commit(p)
    <3>1. UNCHANGED <<now, capability, routeActive, place, risk>> /\ version' \in {version, version + 1}
      BY <2>2 DEF Commit
    <3> QED BY <3>1 DEF EnvOK
  <2>3. CASE ~Reconcile(p) /\ ~Commit(p)
    <3>1. UNCHANGED <<now, capability, version, routeActive, place, risk>>
      BY <1>2, <2>3 DEF Start, StartJob, StartRefresh, StartEvaluation, Work, Fail, Read, Present,
                        Crash, env
    <3> QED BY <3>1 DEF EnvOK
  <2> QED BY <2>1, <2>2, <2>3
<1>3. ASSUME World
      PROVE  EnvOK'
  <2>1. CASE Acknowledge \/ Snooze
    <3>1. risk' \in RiskRecord
      <4>1. \/ risk' = [risk EXCEPT !.status = "ACKNOWLEDGED", !.until = 0]
            \/ risk' = [risk EXCEPT !.status = "SNOOZED", !.until = now + 1]
        BY <2>1 DEF Acknowledge, Snooze, SnoozeTime
      <4>2. now + 1 \in Nat /\ 0 \in Nat
        BY <1>1
      <4>3. \A s \in {"ACKNOWLEDGED", "SNOOZED"}, u \in Nat :
               [risk EXCEPT !.status = s, !.until = u] \in RiskRecord
        BY <1>1
      <4> HIDE DEF RiskRecord
      <4> QED BY <4>1, <4>2, <4>3
    <3> QED BY <2>1, <3>1 DEF Acknowledge, Snooze, env, EnvOK
  <2>2. CASE Pause
    BY <2>2 DEF Pause, EnvOK
  <2>3. CASE Move
    BY <2>3 DEF Move, EnvOK
  <2>4. CASE UndoMove
    BY <2>4 DEF UndoMove, EnvOK
  <2>5. CASE EditTrip \/ ReplaceRoute
    <3>1. /\ UNCHANGED <<now, capability, place, risk>> /\ version' = version + 1
          /\ routeActive' \in {routeActive, FALSE}
      BY <2>5 DEF EditTrip, ReplaceRoute
    <3>2. version' \in Nat /\ routeActive' \in BOOLEAN
      <4>1. version \in Nat /\ routeActive \in BOOLEAN
        BY DEF EnvOK
      <4>2. routeActive' \in BOOLEAN
        BY <3>1, <4>1, Zenon
      <4> QED BY <3>1, <4>1, <4>2
    <3> QED BY <3>1, <3>2 DEF EnvOK
  <2> QED BY <1>3, <2>1, <2>2, <2>3, <2>4, <2>5 DEF World
<1>4. CASE Tick
  BY <1>4 DEF Tick, EnvOK
<1> QED BY <1>2, <1>3, <1>4 DEF Next

LEMMA Initially == Init => IInv
<1> SUFFICES ASSUME Init
             PROVE  IInv
  OBVIOUS
<1>2. leg.state \in {"PENDING", "IN_PROGRESS"}
  <2>1. place = 0 \/ place = 1
    BY DEF Init
  <2> QED BY <2>1 DEF Init
<1>3. leg \in LegRecord
  BY <1>2 DEF Init, LegRecord, LegStates
<1>4. \A p \in Procs : work[p] = Idle
  BY DEF Init
<1>5. work \in [Procs -> WorkRecord]
  BY IdleIs DEF Init
<1>6. observations = <<>> /\ rows = {} /\ observations \in Seq(Observation) /\ DOMAIN observations = {}
  BY DEF Init
<1>7. InOrder /\ RowsOK /\ BandOK /\ TellsHigher /\ OnePresentation
  BY <1>6 DEF InOrder, RowsOK, BandOK, TellsHigher, OnePresentation
<1>8. CoreOK
  BY <1>3, <1>4, <1>5, <1>6, <1>7, IdleIs DEF CoreOK
<1>9. EnvOK
  BY DEF Init, EnvOK
<1> QED BY <1>8, <1>9, InvariantParts

LEMMA Stepping ==
    ASSUME IInv, [Next]_vars
    PROVE  IInv'
<1>1. CoreOK /\ EnvOK
  BY InvariantParts
<1>2. CASE UNCHANGED vars
  <2>1. EnvOK' /\ UNCHANGED <<observations, rows, leg, work>>
    BY <1>1, <1>2 DEF vars, EnvOK
  <2>2. \A p \in Procs : GroupOK(work'[p]) /\ ViewOK(work'[p])
    BY <1>1, <2>1, WorkIs
  <2>3. CoreOK'
    BY <1>1, <2>1, <2>2, Untold DEF CoreOK
  <2>4. (IInv <=> CoreOK /\ EnvOK)'
    BY InvariantParts, PTL
  <2> QED BY <2>1, <2>3, <2>4
<1>3. CASE Next
  <2>1. EnvOK'
    BY <1>1, <1>3, EnvStays
  <2>2. ASSUME NEW p \in Procs, Start(p) \/ Work(p) \/ Crash(p)
        PROVE  CoreOK'
    BY <1>1, <2>1, <2>2, StartCore, CommitCore, FailCore, ReadCore, ReconcileCore, PresentCore,
       CrashCore DEF Work
  <2>3. World => CoreOK'
    BY <1>1, WorldCore
  <2>4. Tick => CoreOK'
    BY <1>1, TickCore
  <2>5. CoreOK'
    BY <1>3, <2>2, <2>3, <2>4 DEF Next
  <2>6. (IInv <=> CoreOK /\ EnvOK)'
    BY InvariantParts, PTL
  <2> QED BY <2>1, <2>5, <2>6
<1> QED BY <1>2, <1>3

-----------------------------------------------------------------------------
(* The theorems.                                                           *)

\* The invariant, for any requests, reports and bounds.
THEOREM Invariance == Spec => []IInv
BY Initially, Stepping, PTL DEF Spec

\* Every variable keeps its type.
THEOREM Typing == Spec => []TypeOK
<1>1. IInv => TypeOK
  BY DEF IInv
<1> QED BY <1>1, Invariance, PTL

\* Of one observation there is one active presentation, and one that tells of a
\* change has retired those of earlier observations (recordOperationalPresentation
\* against createNotification).
THEOREM PresentationsAreOne == Spec => []OnePresentation
<1>1. IInv => OnePresentation
  BY DEF IInv
<1> QED BY <1>1, Invariance, PTL

\* While a service that runs stays late its delay is told again only at a higher
\* band (assessGroundTransitOperational and the band on record).
THEOREM DelaysAreToldOnce == Spec => []LastingDelayToldOnce
<1>1. ASSUME IInv
      PROVE  LastingDelayToldOnce
  <2> SUFFICES ASSUME NEW m \in rows, NEW n \in rows,
                      m.kinds = {"MATERIAL_DELAY"}, n.kinds = {"MATERIAL_DELAY"},
                      m.group[2] < n.group[2],
                      \A o \in {observations[i] : i \in DOMAIN observations} :
                          m.group[2] <= o.at /\ o.at <= n.group[2] => RunsLate(o)
               PROVE  LET Between == {o \in {observations[i] : i \in DOMAIN observations} :
                                         m.group[2] <= o.at /\ o.at <= n.group[2]}
                          DelayAt(t) == (CHOOSE o \in Between : o.at = t).facts.delay
                      IN  DelayAt(m.group[2]) < DelayAt(n.group[2])
    BY DEF LastingDelayToldOnce
  <2> DEFINE Between == {o \in {observations[i] : i \in DOMAIN observations} :
                            m.group[2] <= o.at /\ o.at <= n.group[2]}
  <2>1. observations \in Seq(Observation) /\ \A i \in DOMAIN observations : observations[i].at \in Nat
    BY <1>1, FactsAre DEF IInv, TypeOK
  <2>2. PICK i \in DOMAIN observations : m.group[2] = observations[i].at
    BY <1>1 DEF IInv, RowsOK, OfLeg
  <2>3. PICK j \in DOMAIN observations : n.group[2] = observations[j].at
    BY <1>1 DEF IInv, RowsOK, OfLeg
  <2>4. DOMAIN observations \subseteq Nat /\ \A k \in i..j : k \in DOMAIN observations
    BY <2>1
  <2>5. InOrder
    BY <1>1 DEF IInv
  <2>6. i < j
    BY <2>1, <2>2, <2>3, <2>4, <2>5 DEF InOrder
  <2>7. \A k \in i..j : RunsLate(observations[k])
    <3> SUFFICES ASSUME NEW k \in i..j
                 PROVE  RunsLate(observations[k])
      OBVIOUS
    <3>1. k \in DOMAIN observations /\ (k = i \/ i < k) /\ (k = j \/ k < j)
      BY <2>4
    <3>2. observations[i].at <= observations[k].at /\ observations[k].at <= observations[j].at
      BY <2>1, <2>5, <3>1 DEF InOrder
    <3> QED BY <2>2, <2>3, <3>1, <3>2
  <2>8. observations[i].facts.delay < observations[j].facts.delay
    BY <1>1, <2>2, <2>3, <2>6, <2>7 DEF IInv, TellsHigher
  <2>9. \A k \in {i, j} : (CHOOSE o \in Between : o.at = observations[k].at) = observations[k]
    <3> SUFFICES ASSUME NEW k \in {i, j}
                 PROVE  (CHOOSE o \in Between : o.at = observations[k].at) = observations[k]
      OBVIOUS
    <3>1. observations[k] \in Between
      BY <2>1, <2>2, <2>3, <2>5, <2>6 DEF InOrder
    <3>2. \A o \in Between : o.at = observations[k].at => o = observations[k]
      <4> SUFFICES ASSUME NEW l \in DOMAIN observations, observations[l].at = observations[k].at
                   PROVE  observations[l] = observations[k]
        OBVIOUS
      <4>1. l = k \/ l < k \/ k < l
        BY <2>4
      <4> QED BY <2>1, <2>5, <4>1 DEF InOrder
    <3> HIDE DEF Between
    <3> QED BY <3>1, <3>2
  <2> HIDE DEF Between
  <2>10. /\ (CHOOSE o \in Between : o.at = m.group[2]) = observations[i]
         /\ (CHOOSE o \in Between : o.at = n.group[2]) = observations[j]
    BY <2>2, <2>3, <2>9
  <2> QED BY <2>8, <2>10 DEF Between
<1> QED BY <1>1, Invariance, PTL

\* A request's own steps are the only ones that move it on.
LEMMA OthersStay ==
    ASSUME work \in [Procs -> WorkRecord], NEW p \in Procs, NEW q \in Procs, q # p,
           Start(q) \/ Work(q) \/ Crash(q)
    PROVE  work'[p] = work[p]
<1>1. \A w : Become(q, w) => work'[p] = work[p]
  BY DEF Become
<1> HIDE DEF Become
<1>2. \E w : Become(q, w)
  <2>1. CASE Start(q)
    BY <2>1 DEF Start, StartJob, StartRefresh, StartEvaluation
  <2>2. CASE Commit(q)
    BY <2>2 DEF Commit, Finish
  <2>3. CASE Fail(q)
    BY <2>3 DEF Fail, Finish
  <2>4. CASE Read(q)
    BY <2>4 DEF Read
  <2>5. CASE Reconcile(q)
    BY <2>5 DEF Reconcile, Return, Finish
  <2>6. CASE Present(q)
    BY <2>6 DEF Present, Finish
  <2>7. CASE Crash(q)
    BY <2>7 DEF Crash, Finish
  <2> QED BY <2>1, <2>2, <2>3, <2>4, <2>5, <2>6, <2>7 DEF Work
<1> QED BY <1>1, <1>2

\* A job whose permission was withdrawn writes nothing more (every transaction of
\* the job looks at the permission and its revision again).
THEOREM WithdrawnJobsAreSilent == Spec => WithdrawnJobIsSilent
<1>1. ASSUME IInv, [Next]_vars, NEW p \in Procs, Withdrawn(p), work'[p] # work[p]
      PROVE  UNCHANGED <<version, observations, leg, risk, rows>>
  <2>1. work \in [Procs -> WorkRecord]
    BY <1>1 DEF IInv, TypeOK
  <2>2. Start(p) \/ Work(p) \/ Crash(p)
    <3>1. \E q \in Procs : Start(q) \/ Work(q) \/ Crash(q)
      BY <1>1 DEF Next, World, Move, UndoMove, Pause, EditTrip, ReplaceRoute, Acknowledge, Snooze,
                  Tick, vars
    <3> QED BY <1>1, <2>1, <3>1, OthersStay
  <2>3. Fenced(p) /\ work[p].kind = "job"
    BY <1>1 DEF Withdrawn, Fenced, Permitted
  <2>4. CASE Start(p)
    BY <2>4 DEF Start, StartJob, StartRefresh, StartEvaluation, env
  <2>5. CASE Commit(p)
    BY <2>3, <2>5 DEF Commit
  <2>6. CASE Fail(p)
    BY <2>6 DEF Fail, env
  <2>7. CASE Read(p)
    BY <2>7 DEF Read, env
  <2>8. CASE Reconcile(p)
    BY <2>3, <2>8 DEF Reconcile, env
  <2>9. CASE Present(p)
    BY <2>3, <2>9 DEF Present, Refused, env
  <2>10. CASE Crash(p)
    BY <2>10 DEF Crash, env
  <2> QED BY <2>2, <2>4, <2>5, <2>6, <2>7, <2>8, <2>9, <2>10 DEF Work
<1>2. ASSUME IInv, [Next]_vars
      PROVE  [\A p \in Procs : Withdrawn(p) /\ work'[p] # work[p]
                 => UNCHANGED <<version, observations, leg, risk, rows>>]_vars
  BY <1>1, <1>2
<1> QED BY <1>2, Invariance, PTL DEF Spec, WithdrawnJobIsSilent

\* Reports leave the leg as far as the traveller's movements took it
\* (resolveGroundTransitProviderState and the state kept before a failure).
THEOREM ReportsLeaveTheLeg == Spec => ReportsLeaveProgress
<1>1. ASSUME IInv, [Next]_vars, place' = place
      PROVE  Progress(leg') = Progress(leg)
  <2>1. CoreOK /\ EnvOK /\ leg \in LegRecord
    BY <1>1, InvariantParts DEF CoreOK
  <2>2. CASE \E p \in Procs : Commit(p)
    <3>1. PICK p \in Procs : Commit(p)
      BY <2>2
    <3>2. \/ leg' = leg
          \/ \E infeasible \in BOOLEAN :
                LET r == resolveGroundTransitProviderState(leg.state, infeasible, leg.from)
                IN  /\ leg'.state = r
                    /\ leg'.from = IF r = "NO_LONGER_FEASIBLE" /\ leg.state # r THEN leg.state
                                   ELSE leg.from
      <4>1. PICK at \in 1..now, f \in Facts :
               LET fresh == [View EXCEPT !.latest = <<[at |-> at, facts |-> f]>>, !.prior = View.latest]
                   a == assessGroundTransitOperational(fresh, now)
                   state == resolveGroundTransitProviderState(leg.state, a.infeasible, leg.from)
                   band == BandAfter(f)
               IN  \/ leg' = leg
                   \/ leg' = [state |-> state, band |-> band, decided |-> FALSE, next |-> now + 1,
                              from |-> IF state = "NO_LONGER_FEASIBLE" /\ leg.state # state
                                       THEN leg.state ELSE leg.from]
        BY <3>1 DEF Commit
      <4>2. \A v, t : assessGroundTransitOperational(v, t).infeasible \in BOOLEAN
        BY DEF assessGroundTransitOperational
      <4> QED BY <4>1, <4>2
    <3>3. leg.state \in LegStates /\ leg.from \in {"PENDING", "IN_PROGRESS"}
      BY <2>1 DEF LegRecord
    <3>4. CASE leg' = leg
      BY <3>4
    <3>5. CASE leg' # leg
      <4>1. PICK infeasible \in BOOLEAN :
                LET r == resolveGroundTransitProviderState(leg.state, infeasible, leg.from)
                IN  /\ leg'.state = r
                    /\ leg'.from = IF r = "NO_LONGER_FEASIBLE" /\ leg.state # r THEN leg.state
                                   ELSE leg.from
        BY <3>2, <3>5
      <4>2. PICK r : r = resolveGroundTransitProviderState(leg.state, infeasible, leg.from)
        OBVIOUS
      <4>3. /\ r = "NO_LONGER_FEASIBLE" /\ r # leg.state => leg.state \in {"PENDING", "IN_PROGRESS"}
            /\ r # "NO_LONGER_FEASIBLE"
                  => r = IF leg.state = "NO_LONGER_FEASIBLE" THEN leg.from ELSE leg.state
        BY <3>3, <4>2, ProviderState
      <4> QED BY <3>3, <4>1, <4>2, <4>3 DEF Progress
    <3> QED BY <3>4, <3>5
  <2>3. CASE ~\E p \in Procs : Commit(p)
    <3>1. leg'.state = leg.state /\ leg'.from = leg.from
      <4>1. \/ leg' = leg \/ leg' = [leg EXCEPT !.decided = TRUE]
            \/ \E b : leg' = [leg EXCEPT !.band = b]
        <5>1. ASSUME NEW p \in Procs, Start(p) \/ Work(p) \/ Crash(p)
              PROVE  \/ leg' = leg \/ leg' = [leg EXCEPT !.decided = TRUE]
                     \/ \E b : leg' = [leg EXCEPT !.band = b]
          <6>1. CASE Start(p) \/ Fail(p) \/ Read(p) \/ Crash(p)
            BY <6>1 DEF Start, StartJob, StartRefresh, StartEvaluation, Fail, Read, Crash
          <6>2. CASE Reconcile(p)
            BY <6>2 DEF Reconcile
          <6>3. CASE Present(p)
            BY <6>3 DEF Present
          <6> QED BY <2>3, <5>1, <6>1, <6>2, <6>3 DEF Work
        <5>2. CASE World
          <6>1. ~Move
            BY <1>1, <2>1 DEF Move, EnvOK
          <6> QED BY <5>2, <6>1 DEF World, UndoMove, Pause, EditTrip, ReplaceRoute, Acknowledge, Snooze
        <5>3. CASE Tick \/ UNCHANGED vars
          BY <5>3 DEF Tick, vars
        <5> QED BY <1>1, <5>1, <5>2, <5>3 DEF Next
      <4> QED BY <2>1, <4>1 DEF LegRecord
    <3> QED BY <3>1 DEF Progress
  <2> QED BY <2>2, <2>3
<1>2. ASSUME IInv, [Next]_vars
      PROVE  [place' = place => Progress(leg') = Progress(leg)]_vars
  BY <1>1, <1>2
<1> QED BY <1>2, Invariance, PTL DEF Spec, ReportsLeaveProgress
=============================================================================
