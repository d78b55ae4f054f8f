----------------------- MODULE ExecutionLocationProofs -----------------------
(***************************************************************************)
(* Proofs about ExecutionLocation, for any trip, phone, radius and number  *)
(* of requests.                                                            *)
(*                                                                         *)
(* A request decides from a context that others make stale.  What saves it *)
(* is that every change leaves a trace the commit compares: a permission's *)
(* revision, the trip's version, the watermark.  So the invariant relates  *)
(* what a request remembers to what is there (Remembers), and Moves says   *)
(* of every step that it leaves these traces.  A claim's token plays the   *)
(* same part for the calls of a trigger (ClaimsOK).                        *)
(***************************************************************************)
EXTENDS ExecutionLocation, FiniteSetTheorems, TLAPS

Capability == [Kinds -> [state : {"ENABLED", "PAUSED", "STOPPED"}, revision : Nat]]
LocationState == [current : Nat, target : Nat, place : Int, outside : Nat]
Facts == SUBSET [node : Nodes, type : {"ARRIVAL", "DEPARTURE"}, ref : Nat]
Skips == [Nodes -> [status : {"NONE", "POSSIBLY_SKIPPED", "SKIPPED"}, by : Nat]]
EventRecord ==
    [node : Nodes, type : {"ARRIVAL", "DEPARTURE", "SKIP_CONFIRMED"},
     source : {"LOCATION", "MANUAL"}, at : Nat, undone : BOOLEAN, token : Nat, completed : BOOLEAN]
ContextRecord ==
    [capability : Capability, version : Nat, watermark : Nat, last : LocationState,
     facts : Facts, skips : Skips, suppressed : SUBSET Nodes]
WorkRecord ==
    [pc : {"idle", "context", "again", "observed", "confirmed", "trigger", "calling"},
     at : Nat, place : Places \cup {Vague},
     type : {"NONE", "ARRIVAL", "DEPARTURE", "SKIP_CONFIRMED"}, node : Nat,
     context : ContextRecord, todo : SUBSET Nat, token : Nat, tries : Nat]

TripOK ==
    /\ capability \in Capability /\ \A k \in Kinds : capability[k].revision # 0
    /\ version \in Nat \ {0} /\ watermark \in Nat /\ last \in LocationState
    /\ facts \in Facts /\ skips \in Skips /\ suppressed \in SUBSET Nodes
    /\ events \in Seq(EventRecord)

TypeOK ==
    /\ TripOK
    /\ lapsed \in SUBSET Nat /\ IsFiniteSet(lapsed)
    /\ sent \in Nat /\ starts \in Nat /\ world \in Nat
    /\ work \in [Procs -> WorkRecord]

\* What a request read is older than what is there, or is what is there.
Remembers(c) ==
    /\ \A k \in Kinds : /\ c.capability[k].revision <= capability[k].revision
                        /\ c.capability[k].revision = capability[k].revision
                           => c.capability[k] = capability[k]
    /\ c.version <= version
    /\ c.version = version => /\ c.facts = facts /\ c.skips = skips
                              /\ suppressed \subseteq c.suppressed

WorkOK(w) ==
    /\ Remembers(w.context)
    /\ w.todo \subseteq DOMAIN events
    /\ w.pc \in {"trigger", "calling"} => w.todo # {}
    /\ w.pc = "calling" <=> w.token # 0
    /\ w.pc = "observed" => w.at > w.context.watermark /\ Consistent(w.context)
    /\ w.pc = "confirmed" => w.node \in Nodes /\ w.type # "NONE"

\* A claim that has not lapsed is on its row as long as the event stands.
HeldClaim(p) ==
    work[p].pc = "calling" /\ work[p].token \notin lapsed =>
      LET e == events[Min(work[p].todo)] IN e.undone \/ e.token = work[p].token

ClaimsOK ==
    /\ \A p, q \in Procs : p # q /\ work[p].token # 0 => work[p].token # work[q].token
    /\ \A p \in Procs : HeldClaim(p)
    /\ SingleCaller

IInv == /\ TypeOK
        /\ \A p \in Procs : WorkOK(work[p])
        /\ ClaimsOK
        /\ FactsAreEvents

-----------------------------------------------------------------------------
(* Least and greatest elements.                                            *)

\* A nonempty set of naturals has a least element.
LEMMA LeastNatural ==
    ASSUME NEW S \in SUBSET Nat, S # {}
    PROVE  \E m \in S : \A n \in S : m <= n
<1>1. PICK m \in S : \A n \in S : ~ (<<n, m>> \in OpToRel(<, Nat))
  BY NatLessThanWellFounded, WFMin
<1>2. \A n \in S : ~ (n < m)
  BY <1>1 DEF OpToRel
<1> QED BY <1>2

\* A finite one has a greatest: a smallest subset without one would lose it
\* with any of its elements.
LEMMA GreatestOfFinite ==
    ASSUME NEW S \in SUBSET Nat, IsFiniteSet(S), S # {}
    PROVE  \E m \in S : \A n \in S : n <= m
<1> DEFINE Without == {T \in SUBSET S : T # {} /\ ~ \E m \in T : \A n \in T : n <= m}
<1>1. ASSUME Without # {} PROVE FALSE
  <2>1. Without \subseteq FiniteSubsetsOf(S)
    BY FS_Subset DEF FiniteSubsetsOf
  <2>2. PICK U \in Without : \A T \in Without : ~ (<<T, U>> \in StrictSubsetOrdering(S))
    BY <1>1, <2>1, FS_StrictSubsetOrderingWellFounded, WFMin
  <2>3. PICK x \in U : TRUE
    OBVIOUS
  <2>4. CASE U = {x}
    BY <2>4
  <2>5. CASE U # {x}
    <3>1. U \ {x} # {} /\ U \ {x} \in SUBSET S
      BY <2>3, <2>5
    <3>2. <<U \ {x}, U>> \in StrictSubsetOrdering(S)
      BY <2>3 DEF StrictSubsetOrdering
    <3>3. PICK m \in U \ {x} : \A n \in U \ {x} : n <= m
      BY <2>2, <3>1, <3>2
    <3>4. m \in Nat /\ x \in Nat /\ U \subseteq Nat
      BY <2>3
    <3>5. CASE x <= m
      BY <3>3, <3>4, <3>5
    <3>6. CASE m < x
      BY <2>3, <3>3, <3>4, <3>6
    <3> QED BY <3>4, <3>5, <3>6
  <2> QED BY <2>4, <2>5
<1> QED BY <1>1

LEMMA MinIs ==
    ASSUME NEW S \in SUBSET Nat, S # {}
    PROVE  Min(S) \in S /\ \A n \in S : Min(S) <= n
BY LeastNatural DEF Min

LEMMA MaxIs ==
    ASSUME NEW S \in SUBSET Nat, IsFiniteSet(S), S # {}
    PROVE  Max(S) \in S /\ \A n \in S : n <= Max(S)
<1>1. PICK m \in S : \A n \in S : m >= n
  BY GreatestOfFinite
<1> QED BY <1>1 DEF Max

-----------------------------------------------------------------------------
(* The frontier and the decision.                                          *)

LEMMA NodesAre == Nodes = 1..Len(Where) /\ Nodes \subseteq Nat \ {0} /\ IsFiniteSet(Nodes)
<1>1. Nodes = 1..Len(Where) /\ Len(Where) \in Nat
  BY LocationAssumption DEF LocationAssumption, Nodes
<1>2. IsFiniteSet(1..Len(Where))
  BY <1>1, FS_Interval
<1> QED BY <1>1, <1>2

\* CurrentNode is the last node arrived at and not left, or there is none.
LEMMA CurrentIs ==
    ASSUME NEW c
    PROVE  /\ CurrentNode(c) \in Nat
           /\ CurrentNode(c) = NoNode => Open(c) = {}
           /\ CurrentNode(c) # NoNode => CurrentNode(c) \in Open(c)
<1>1. Open(c) \subseteq Nodes /\ NoNode \in Nat
  BY DEF Open, NoNode
<1>2. Open(c) \cup {NoNode} \in SUBSET Nat /\ IsFiniteSet(Open(c) \cup {NoNode})
  BY <1>1, NodesAre, FS_Subset, FS_AddElement
<1>3. /\ CurrentNode(c) \in Open(c) \cup {NoNode}
      /\ \A n \in Open(c) \cup {NoNode} : n <= CurrentNode(c)
  BY <1>2, MaxIs DEF CurrentNode
<1> QED BY <1>1, <1>2, <1>3, NodesAre DEF NoNode

\* On a consistent timeline at most one node is open.
LEMMA OneOpen ==
    ASSUME NEW c, Consistent(c), CurrentNode(c) # NoNode
    PROVE  Open(c) = {CurrentNode(c)}
<1>1. Open(c) \subseteq Executed(c) /\ Open(c) \subseteq Nodes
  BY DEF Open, Executed
<1>2. \A o \in Open(c) : \A n \in Open(c) : n <= o
  BY <1>1 DEF Consistent
<1> QED BY <1>1, <1>2, CurrentIs, NodesAre

\* TargetNode lies beyond all that was done.
LEMMA TargetIs ==
    ASSUME NEW c
    PROVE  /\ TargetNode(c) \in Nat
           /\ TargetNode(c) # NoNode => /\ TargetNode(c) \in Nodes
                                        /\ \A n \in Executed(c) : n < TargetNode(c)
<1> DEFINE later == {n \in Nodes : \A e \in Executed(c) : e < n}
<1>1. later \in SUBSET Nat
  BY NodesAre
<1>2. CASE later = {}
  BY <1>2 DEF TargetNode, NoNode
<1>3. CASE later # {}
  <2>1. Min(later) \in later
    BY <1>1, <1>3, MinIs
  <2>2. TargetNode(c) = Min(later)
    BY <1>3 DEF TargetNode
  <2> QED BY <2>1, <2>2, NodesAre
<1> QED BY <1>2, <1>3

\* What a decision may be; the first four parts are its type.
DecisionFits(c, x, d) ==
    /\ d.state \in LocationState
    /\ d.type \in {"NONE", "ARRIVAL", "DEPARTURE"}
    /\ d.type # "NONE" => d.node \in Nodes
    /\ d.type = "ARRIVAL" => /\ Open(c) = {} /\ \A n \in Executed(c) : n < d.node
                             /\ d.node \notin c.suppressed
                             /\ TargetNode(c) \in c.suppressed => Away(x, TargetNode(c))
    /\ d.type = "DEPARTURE" => CurrentNode(c) # NoNode /\ d.node = CurrentNode(c)

LEMMA NoChangeIs ==
    ASSUME NEW s, NEW r
    PROVE  /\ NoChange(s, r).type = "NONE" /\ NoChange(s, r).state = s
           /\ \A c, x : s \in LocationState => DecisionFits(c, x, NoChange(s, r))
BY DEF NoChange, DecisionFits

LEMMA NoStateIs == NoState \in LocationState
BY DEF NoState, NoNode, Vague, LocationState

LEMMA StateIs ==
    ASSUME NEW a \in Nat, NEW b \in Nat
    PROVE  [NoState EXCEPT !.current = a, !.target = b] \in LocationState
BY NoStateIs DEF LocationState

LEMMA UnderWayFits ==
    ASSUME NEW c \in ContextRecord, NEW x, CurrentNode(c) = NoNode, TargetNode(c) # NoNode
    PROVE  DecisionFits(c, x, UnderWay(c, x))
<1> DEFINE target == TargetNode(c)
           state == [NoState EXCEPT !.target = target]
           candidates == {n \in Nodes \ c.suppressed : n >= target /\ Distance(x, n) <= Radius}
           released == {target} \cap c.suppressed
           d == UnderWay(c, x)
<1>1. target \in Nodes /\ target \in Nat /\ \A n \in Executed(c) : n < target
  BY TargetIs
<1>2. state \in LocationState
  BY <1>1 DEF NoState, NoNode, Vague, LocationState
<1>3. CASE target \in c.suppressed /\ ~Away(x, target)
  <2>1. d = NoChange(state, {})
    BY <1>3 DEF UnderWay
  <2> QED BY <1>2, <2>1, NoChangeIs
<1>4. CASE ~(target \in c.suppressed /\ ~Away(x, target)) /\ Cardinality(candidates) # 1
  <2>1. d = NoChange(state, released)
    BY <1>4 DEF UnderWay
  <2> QED BY <1>2, <2>1, NoChangeIs
<1>5. CASE ~(target \in c.suppressed /\ ~Away(x, target)) /\ Cardinality(candidates) = 1
  <2> DEFINE skipped == {n \in target..Min(candidates) - 1 : c.skips[n].status = "NONE"}
  <2>1. candidates \in SUBSET Nat /\ candidates # {}
    <3>1. candidates \in SUBSET Nat
      BY NodesAre
    <3>2. Cardinality({}) # 1
      BY FS_EmptySet
    <3> QED BY <1>5, <3>1, <3>2
  <2>2. Min(candidates) \in candidates
    BY <2>1, MinIs
  <2>3. d = [NoChange(state, released) EXCEPT
               !.type = "ARRIVAL", !.node = Min(candidates), !.skipped = skipped]
    BY <1>5 DEF UnderWay
  <2>4. d.type = "ARRIVAL" /\ d.node = Min(candidates) /\ d.state = state
    BY <2>3 DEF NoChange
  <2>5. Open(c) = {}
    BY CurrentIs
  <2>6. Min(candidates) \in Nodes \ c.suppressed /\ Min(candidates) >= target
    BY <2>2
  <2>7. Executed(c) \subseteq Nodes
    BY DEF Executed
  <2>8. \A n \in Executed(c) : n < d.node
    BY <1>1, <2>4, <2>6, <2>7, NodesAre
  <2> HIDE DEF d, state, candidates
  <2>9. DecisionFits(c, x, d)
    BY <1>2, <1>5, <2>4, <2>5, <2>6, <2>8 DEF DecisionFits
  <2> QED BY <2>9 DEF d
<1> QED BY <1>3, <1>4, <1>5

LEMMA WhileOpenFits ==
    ASSUME NEW c \in ContextRecord, NEW x \in Int, CurrentNode(c) # NoNode, TargetNode(c) # NoNode
    PROVE  DecisionFits(c, x, WhileOpen(c, x))
<1> DEFINE current == CurrentNode(c)
           target == TargetNode(c)
           same == c.last.current = current /\ c.last.target = target
           nearer == /\ same /\ c.last.place # Vague
                     /\ Distance(x, current) > Distance(c.last.place, current)
                     /\ Distance(x, target) < Distance(c.last.place, target)
           outside == IF ~Away(x, current) THEN 0 ELSE 1 + IF same THEN c.last.outside ELSE 0
           state == [current |-> current, target |-> target, place |-> x, outside |-> outside]
           released == {n \in {target} \cap c.suppressed : Away(x, n)}
           d == WhileOpen(c, x)
<1>1. current \in Nat /\ target \in Nat /\ current \in Nodes
  BY CurrentIs, TargetIs DEF Open
<1>2. c.last.outside \in Nat
  BY DEF ContextRecord, LocationState
<1>3. outside \in Nat
  BY <1>2
<1> HIDE DEF outside
<1>4. state \in LocationState
  BY <1>1, <1>3 DEF LocationState
<1>5. d = IF Away(x, current) /\ nearer /\ outside >= MinSamples
          THEN [NoChange(state, released) EXCEPT !.type = "DEPARTURE", !.node = current]
          ELSE NoChange(state, released)
  BY DEF WhileOpen, outside
<1> HIDE DEF d, state, nearer, released
<1>6. \/ d = NoChange(state, released)
      \/ d.type = "DEPARTURE" /\ d.node = current /\ d.state = state
  BY <1>5 DEF NoChange
<1>7. DecisionFits(c, x, d)
  BY <1>1, <1>4, <1>6, NoChangeIs DEF DecisionFits
<1> QED BY <1>7 DEF d

LEMMA DecisionIs ==
    ASSUME NEW c \in ContextRecord, NEW x \in Places \cup {Vague}
    PROVE  DecisionFits(c, x, decideExecutionLocation(c, x))
<1>1. x \in Int
  BY LocationAssumption DEF LocationAssumption, Vague
<1>2. CASE x = Vague \/ TargetNode(c) = NoNode
  <2> DEFINE state == [NoState EXCEPT !.current = CurrentNode(c), !.target = TargetNode(c)]
  <2>1. state \in LocationState
    <3>1. CurrentNode(c) \in Nat /\ TargetNode(c) \in Nat
      BY CurrentIs, TargetIs
    <3> QED BY <3>1, StateIs
  <2>2. decideExecutionLocation(c, x) = NoChange(state, {})
    BY <1>2 DEF decideExecutionLocation
  <2> QED BY <2>1, <2>2, NoChangeIs
<1>3. CASE x # Vague /\ TargetNode(c) # NoNode
  BY <1>1, <1>3, UnderWayFits, WhileOpenFits DEF decideExecutionLocation
<1> QED BY <1>2, <1>3

-----------------------------------------------------------------------------
(* One step, seen by the requests that do not take it.                     *)

Moves ==
    /\ \A k \in Kinds : \/ capability'[k] = capability[k]
                        \/ capability'[k].revision > capability[k].revision
    /\ \/ version' > version
       \/ /\ version' = version /\ facts' = facts /\ skips' = skips
          /\ suppressed' \subseteq suppressed
    /\ DOMAIN events \subseteq DOMAIN events'

\* An event is taken back, or keeps its claim.
EventsKept ==
    /\ DOMAIN events \subseteq DOMAIN events'
    /\ \A i \in DOMAIN events :
         \/ events'[i].undone
         \/ events'[i].undone = events[i].undone /\ events'[i].token = events[i].token

LEMMA CapabilityIs ==
    ASSUME NEW c \in Capability, NEW k \in Kinds
    PROVE  c[k].revision \in Nat
BY DEF Capability

LEMMA RemembersStill ==
    ASSUME TripOK, TripOK', Moves, NEW c \in ContextRecord, Remembers(c)
    PROVE  Remembers(c)'
<1>1. ASSUME NEW k \in Kinds
      PROVE  /\ c.capability[k].revision <= capability'[k].revision
             /\ c.capability[k].revision = capability'[k].revision
                => c.capability[k] = capability'[k]
  <2>1. /\ c.capability[k].revision \in Nat /\ capability[k].revision \in Nat
        /\ capability'[k].revision \in Nat
    BY CapabilityIs DEF TripOK, ContextRecord
  <2>2. CASE capability'[k] = capability[k]
    BY <2>2 DEF Remembers
  <2>3. CASE capability'[k].revision > capability[k].revision
    BY <2>1, <2>3 DEF Remembers
  <2> QED BY <2>2, <2>3 DEF Moves
<1>2. c.version \in Nat /\ version \in Nat /\ version' \in Nat
  BY DEF TripOK, ContextRecord
<1>3. /\ c.version <= version'
      /\ c.version = version' => /\ c.facts = facts' /\ c.skips = skips'
                                 /\ suppressed' \subseteq c.suppressed
  <2>1. CASE version' > version
    BY <1>2, <2>1 DEF Remembers
  <2>2. CASE ~(version' > version)
    BY <1>2, <2>2 DEF Moves, Remembers
  <2> QED BY <2>1, <2>2
<1> QED BY <1>1, <1>3 DEF Remembers

LEMMA WorkStays ==
    ASSUME TripOK, TripOK', Moves, NEW w \in WorkRecord, WorkOK(w)
    PROVE  WorkOK(w)'
<1>1. w.context \in ContextRecord
  BY DEF WorkRecord
<1>2. Remembers(w.context)'
  BY <1>1, RemembersStill DEF WorkOK
<1>3. w.todo \subseteq DOMAIN events'
  BY DEF WorkOK, Moves
<1> QED BY <1>2, <1>3 DEF WorkOK

LEMMA ContextIs ==
    ASSUME TripOK
    PROVE  Context \in ContextRecord /\ Remembers(Context)
<1>1. Context \in ContextRecord
  BY DEF TripOK, Context, ContextRecord
<1>2. version <= version /\ \A k \in Kinds : capability[k].revision <= capability[k].revision
  BY CapabilityIs DEF TripOK
<1> QED BY <1>1, <1>2 DEF Context, Remembers

LEMMA NothingIs ==
    ASSUME TripOK
    PROVE  Nothing \in ContextRecord /\ Remembers(Nothing)
<1>1. [k \in Kinds |-> [state |-> "STOPPED", revision |-> 0]] \in Capability
  BY DEF Capability
<1>2. [n \in Nodes |-> [status |-> "NONE", by |-> User]] \in Skips
  BY DEF Skips, User
<1>3. {} \in Facts
  BY DEF Facts
<1>4. Nothing \in ContextRecord
  BY <1>1, <1>2, <1>3, NoStateIs DEF Nothing, ContextRecord
<1>5. \A k \in Kinds : Nothing.capability[k].revision = 0
  BY DEF Nothing
<1>6. Nothing.version = 0 /\ version \in Nat /\ version # 0
  BY DEF Nothing, TripOK
<1>7. \A k \in Kinds : capability[k].revision \in Nat /\ capability[k].revision # 0
  BY CapabilityIs DEF TripOK
<1> QED BY <1>4, <1>5, <1>6, <1>7 DEF Remembers

\* What afterMutation keeps of a context.
LEMMA PermissionsIs ==
    ASSUME TripOK, NEW c \in ContextRecord, Remembers(c)
    PROVE  /\ [Nothing EXCEPT !.capability = c.capability] \in ContextRecord
           /\ Remembers([Nothing EXCEPT !.capability = c.capability])
<1> DEFINE r == [Nothing EXCEPT !.capability = c.capability]
<1>1. Nothing \in ContextRecord /\ Remembers(Nothing)
  BY NothingIs
<1>2. r \in ContextRecord
  BY <1>1 DEF ContextRecord
<1>3. r.version = 0 /\ r.capability = c.capability
  BY <1>1 DEF ContextRecord, Nothing
<1> HIDE DEF r
<1>4. version \in Nat /\ version # 0
  BY DEF TripOK
<1>5. Remembers(r)
  BY <1>3, <1>4 DEF Remembers
<1> QED BY <1>2, <1>5 DEF r

LEMMA IdleIs ==
    TripOK => Idle \in WorkRecord /\ WorkOK(Idle) /\ Idle.token = 0 /\ Idle.pc = "idle"
<1> SUFFICES ASSUME TripOK
             PROVE  Idle \in WorkRecord /\ WorkOK(Idle) /\ Idle.token = 0 /\ Idle.pc = "idle"
  OBVIOUS
<1>1. Nothing \in ContextRecord /\ Remembers(Nothing)
  BY NothingIs
<1>2. Idle \in WorkRecord
  BY <1>1 DEF Idle, WorkRecord, NoNode
<1>3. Idle.context = Nothing /\ Idle.todo = {} /\ Idle.pc = "idle" /\ Idle.token = 0
  BY DEF Idle
<1> QED BY <1>1, <1>2, <1>3 DEF WorkOK

\* The request of p goes on with what is consistent with the new state, and
\* without a claim.
Takes(p) == \E w \in WorkRecord : Become(p, w) /\ WorkOK(w)' /\ w.token = 0

LEMMA FinishTakes ==
    ASSUME TripOK', NEW p \in Procs, Finish(p)
    PROVE  Takes(p)
<1>1. (TripOK => Idle \in WorkRecord /\ WorkOK(Idle) /\ Idle.token = 0 /\ Idle.pc = "idle")'
  BY IdleIs, PTL
<1> QED BY <1>1 DEF Takes, Finish

LEMMA TriggerAfterTakes ==
    ASSUME TripOK, TripOK', Moves, NEW p \in Procs, NEW c \in ContextRecord, Remembers(c),
           NEW ids \in SUBSET (DOMAIN events'), TriggerAfter(p, c, ids)
    PROVE  Takes(p)
<1> DEFINE r == [Nothing EXCEPT !.capability = c.capability]
           w == [Idle EXCEPT !.pc = "trigger", !.todo = ids, !.context = r]
<1>1. CASE ids = {}
  BY <1>1, FinishTakes DEF TriggerAfter
<1>2. CASE ids # {}
  <2>1. r \in ContextRecord /\ Remembers(r)
    BY PermissionsIs
  <2>2. Remembers(r)'
    BY <2>1, RemembersStill
  <2> HIDE DEF r
  <2>3. Become(p, w)
    BY <1>2 DEF TriggerAfter, r
  <2>4. ids \in SUBSET Nat
    BY DEF TripOK
  <2>5. Idle \in WorkRecord
    BY IdleIs
  <2>6. w \in WorkRecord
    BY <2>1, <2>4, <2>5 DEF WorkRecord
  <2>7. w.pc = "trigger" /\ w.todo = ids /\ w.context = r /\ w.token = 0
    BY <2>5 DEF WorkRecord, Idle
  <2> HIDE DEF w
  <2>8. WorkOK(w)'
    BY <1>2, <2>2, <2>7 DEF WorkOK
  <2> QED BY <2>3, <2>6, <2>7, <2>8 DEF Takes
<1> QED BY <1>1, <1>2

LEMMA RetryTakes ==
    ASSUME TripOK, TripOK', Moves, NEW p \in Procs, NEW w \in WorkRecord, work[p] = w, w.token = 0,
           Retry(p)
    PROVE  Takes(p)
<1> DEFINE v == [w EXCEPT !.pc = "context", !.tries = w.tries + 1, !.context = Nothing, !.todo = {}]
<1>1. CASE w.tries = 2
  BY <1>1, FinishTakes DEF Retry
<1>2. CASE w.tries # 2
  <2>1. Nothing \in ContextRecord /\ Remembers(Nothing)
    BY NothingIs
  <2>2. Remembers(Nothing)'
    BY <2>1, RemembersStill
  <2>3. Become(p, v)
    BY <1>2 DEF Retry
  <2>4. v \in WorkRecord
    <3>1. w.tries + 1 \in Nat
      BY DEF WorkRecord
    <3> HIDE DEF Nothing
    <3>2. \A tries \in Nat : [w EXCEPT !.pc = "context", !.tries = tries, !.context = Nothing,
                                       !.todo = {}] \in WorkRecord
      BY <2>1 DEF WorkRecord
    <3> QED BY <3>1, <3>2
  <2>5. v.pc = "context" /\ v.todo = {} /\ v.context = Nothing /\ v.token = 0
    BY DEF WorkRecord
  <2> HIDE DEF v
  <2>6. WorkOK(v)'
    BY <2>2, <2>5 DEF WorkOK
  <2> QED BY <2>3, <2>4, <2>5, <2>6 DEF Takes
<1> QED BY <1>1, <1>2

\* So the requests' part of the invariant follows from what the step says of its own.
LEMMA WorkKept ==
    ASSUME IInv, TripOK', Moves, NEW p \in Procs, NEW w \in WorkRecord, Become(p, w), WorkOK(w)'
    PROVE  work' \in [Procs -> WorkRecord] /\ \A q \in Procs : WorkOK(work[q])'
<1>1. work \in [Procs -> WorkRecord] /\ TripOK
  BY DEF IInv, TypeOK
<1>2. work' \in [Procs -> WorkRecord]
  BY <1>1 DEF Become
<1>3. ASSUME NEW q \in Procs
      PROVE  WorkOK(work[q])'
  <2>1. CASE q = p
    <3>1. work'[q] = w
      BY <1>1, <2>1 DEF Become
    <3> QED BY <3>1 DEF WorkOK, Remembers
  <2>2. CASE q # p
    <3>1. work'[q] = work[q] /\ work[q] \in WorkRecord /\ WorkOK(work[q])
      BY <1>1, <2>2 DEF Become, IInv
    <3>2. \A v \in WorkRecord : WorkOK(v) => WorkOK(v)'
      BY <1>1, WorkStays
    <3>3. WorkOK(work[q])'
      <4> DEFINE v == work[q]
      <4>1. v \in WorkRecord /\ WorkOK(v)
        BY <3>1
      <4> QED BY <3>1, <3>2 DEF WorkOK, Remembers
    <3> QED BY <3>3
  <2> QED BY <2>1, <2>2
<1> QED BY <1>2, <1>3

\* The claims' part, for a step that makes none.
LEMMA ClaimsKept ==
    ASSUME IInv, EventsKept, lapsed \subseteq lapsed', NEW p \in Procs, Takes(p)
    PROVE  ClaimsOK'
<1>1. work \in [Procs -> WorkRecord] /\ ClaimsOK /\ \A q \in Procs : WorkOK(work[q])
  BY DEF IInv, TypeOK
<1>2. PICK w \in WorkRecord : Become(p, w) /\ WorkOK(w)' /\ w.token = 0
  BY DEF Takes
<1>3. w.pc # "calling"
  BY <1>2 DEF WorkOK
<1>4. work'[p] = w /\ \A q \in Procs : q # p => work'[q] = work[q]
  BY <1>1, <1>2 DEF Become
<1>5. \A q, u \in Procs : q # u /\ work'[q].token # 0 => work'[q].token # work'[u].token
  BY <1>1, <1>2, <1>4 DEF ClaimsOK
<1>6. ASSUME NEW q \in Procs
      PROVE  HeldClaim(q)'
  <2>1. CASE q = p
    BY <1>3, <1>4, <2>1 DEF HeldClaim
  <2>2. CASE q # p
    <3> SUFFICES ASSUME work[q].pc = "calling", work[q].token \notin lapsed
                 PROVE  LET e == events'[Min(work[q].todo)] IN e.undone \/ e.token = work[q].token
      BY <1>4, <2>2 DEF HeldClaim
    <3> DEFINE i == Min(work[q].todo)
    <3>1. i \in DOMAIN events
      <4>1. work[q].todo \in SUBSET Nat /\ work[q].todo # {} /\ work[q].todo \subseteq DOMAIN events
        BY <1>1 DEF WorkOK, WorkRecord
      <4> QED BY <4>1, MinIs
    <3>2. events[i].undone \/ events[i].token = work[q].token
      BY <1>1 DEF ClaimsOK, HeldClaim
    <3> HIDE DEF i
    <3>3. events'[i].undone \/ events'[i].token = work[q].token
      BY <3>1, <3>2 DEF EventsKept
    <3> QED BY <3>3 DEF i
  <2> QED BY <2>1, <2>2
<1>7. SingleCaller'
  BY <1>1, <1>3, <1>4 DEF ClaimsOK, SingleCaller
<1> QED BY <1>5, <1>6, <1>7 DEF ClaimsOK

-----------------------------------------------------------------------------
(* Steps that leave the trip alone.                                        *)

BoundsOK == sent \in Nat /\ starts \in Nat /\ world \in Nat

LEMMA TripStays ==
    ASSUME TripOK, UNCHANGED trip
    PROVE  TripOK' /\ Moves /\ EventsKept
BY DEF trip, TripOK, Moves, EventsKept

LEMMA OnlyWork ==
    ASSUME IInv, BoundsOK', UNCHANGED <<trip, lapsed>>, NEW p \in Procs, Takes(p)
    PROVE  IInv'
<1>1. TripOK' /\ Moves /\ EventsKept
  BY TripStays DEF IInv, TypeOK
<1>2. PICK w \in WorkRecord : Become(p, w) /\ WorkOK(w)'
  BY DEF Takes
<1>3. work' \in [Procs -> WorkRecord] /\ \A q \in Procs : WorkOK(work[q])'
  BY <1>1, <1>2, WorkKept
<1>4. ClaimsOK'
  BY <1>1, ClaimsKept
<1>5. FactsAreEvents'
  BY DEF IInv, FactsAreEvents, trip
<1>6. TypeOK'
  BY <1>1, <1>3 DEF IInv, TypeOK, BoundsOK
<1> QED BY <1>3, <1>4, <1>5, <1>6 DEF IInv

LEMMA SampleKeeps ==
    ASSUME IInv, BoundsOK', NEW p \in Procs, Sample(p)
    PROVE  IInv'
<1>1. PICK x \in Places \cup {Vague} : Become(p, [Idle EXCEPT !.pc = "context", !.place = x, !.at = sent'])
  BY DEF Sample
<1>2. PICK at \in Nat : at = sent'
  BY DEF BoundsOK
<1> DEFINE w == [Idle EXCEPT !.pc = "context", !.place = x, !.at = at]
<1>3. TripOK /\ TripOK' /\ Moves
  BY TripStays DEF Sample, IInv, TypeOK
<1>4. Idle \in WorkRecord /\ Remembers(Nothing) /\ Nothing \in ContextRecord
  BY <1>3, IdleIs, NothingIs
<1>5. Remembers(Nothing)'
  BY <1>3, <1>4, RemembersStill
<1>6. w \in WorkRecord
  BY <1>4 DEF WorkRecord
<1>7. w.pc = "context" /\ w.todo = {} /\ w.context = Nothing /\ w.token = 0
  BY <1>4 DEF WorkRecord, Idle
<1>8. Become(p, w)
  BY <1>1, <1>2
<1> HIDE DEF w
<1>9. WorkOK(w)'
  BY <1>5, <1>7 DEF WorkOK
<1>10. Takes(p)
  BY <1>6, <1>7, <1>8, <1>9 DEF Takes
<1> QED BY <1>10, OnlyWork DEF Sample

LEMMA PendingIs == Pending \subseteq DOMAIN events
BY DEF Pending

LEMMA ReadContextKeeps ==
    ASSUME IInv, BoundsOK', NEW p \in Procs, ReadContext(p)
    PROVE  IInv'
<1>1. TripOK /\ TripOK' /\ Moves
  BY TripStays DEF ReadContext, IInv, TypeOK
<1>2. CASE Finish(p)
  BY <1>1, <1>2, FinishTakes, OnlyWork DEF ReadContext
<1>3. CASE ~Finish(p)
  <2>1. PICK v \in WorkRecord : work[p] = v /\ WorkOK(v)
    BY DEF IInv, TypeOK
  <2>2. PICK c \in ContextRecord : c = Context /\ Remembers(c)
    BY <1>1, ContextIs
  <2>3. PICK ids \in SUBSET DOMAIN events : ids = Pending
    BY PendingIs
  <2>4. PICK pc \in {"again", "observed"} :
             /\ Become(p, [v EXCEPT !.pc = pc, !.context = c, !.todo = ids])
             /\ pc = "observed" => Consistent(c) /\ v.at > c.watermark
    <3>1. work[p] = v /\ Consistent(Context) /\ ~(v.at < watermark) /\ v.at \in Nat /\ watermark \in Nat
      BY <1>1, <1>3, <2>1 DEF ReadContext, WorkRecord, TripOK
    <3>2. c.watermark = watermark
      BY <2>2 DEF Context
    <3>3. CASE v.at = watermark
      BY <1>3, <2>1, <2>2, <2>3, <3>3 DEF ReadContext
    <3>4. CASE v.at # watermark
      BY <1>3, <2>1, <2>2, <2>3, <3>1, <3>2, <3>4 DEF ReadContext
    <3> QED BY <3>3, <3>4
  <2> DEFINE w == [v EXCEPT !.pc = pc, !.context = c, !.todo = ids]
  <2>5. w \in WorkRecord
    <3>1. ids \in SUBSET Nat
      BY <1>1 DEF TripOK
    <3> QED BY <3>1 DEF WorkRecord
  <2>6. w.pc = pc /\ w.todo = ids /\ w.context = c /\ w.at = v.at /\ w.token = v.token
    BY DEF WorkRecord
  <2>7. v.token = 0
    BY <2>1 DEF ReadContext, WorkOK
  <2> HIDE DEF w
  <2>8. Remembers(c)'
    BY <1>1, <2>2, RemembersStill
  <2>9. ids \subseteq DOMAIN events'
    BY <1>1 DEF Moves
  <2>10. WorkOK(w)'
    BY <2>4, <2>6, <2>7, <2>8, <2>9 DEF WorkOK
  <2>11. Takes(p)
    BY <2>4, <2>5, <2>6, <2>7, <2>10 DEF Takes, w
  <2> QED BY <2>11, OnlyWork DEF ReadContext
<1> QED BY <1>2, <1>3

\* A request at work: what it holds, as constants.
LEMMA AtWork ==
    ASSUME IInv, NEW p \in Procs
    PROVE  \E w \in WorkRecord :
              /\ work[p] = w /\ WorkOK(w) /\ (w.pc # "calling" => w.token = 0)
              /\ w.context \in ContextRecord /\ Remembers(w.context)
BY DEF IInv, TypeOK, WorkOK, WorkRecord

LEMMA ReplayKeeps ==
    ASSUME IInv, BoundsOK', NEW p \in Procs, Replay(p)
    PROVE  IInv'
<1>1. TripOK /\ TripOK' /\ Moves
  BY TripStays DEF Replay, IInv, TypeOK
<1>2. PICK w \in WorkRecord :
         /\ work[p] = w /\ WorkOK(w) /\ (w.pc # "calling" => w.token = 0)
         /\ w.context \in ContextRecord /\ Remembers(w.context)
  BY AtWork
<1>3. w.todo \in SUBSET DOMAIN events'
  BY <1>1, <1>2 DEF WorkOK, Moves
<1>4. w.token = 0
  BY <1>2 DEF Replay
<1>5. \/ Finish(p) \/ Retry(p) \/ TriggerAfter(p, w.context, w.todo)
  BY <1>2 DEF Replay
<1>6. Takes(p)
  BY <1>1, <1>2, <1>3, <1>4, <1>5, FinishTakes, RetryTakes, TriggerAfterTakes
<1> QED BY <1>6, OnlyWork DEF Replay

LEMMA ManualKeeps ==
    ASSUME IInv, BoundsOK', NEW p \in Procs, Manual(p)
    PROVE  IInv'
<1>1. TripOK /\ TripOK' /\ Moves
  BY TripStays DEF Manual, IInv, TypeOK
<1>2. PICK c \in ContextRecord : c = Context /\ Remembers(c)
  BY <1>1, ContextIs
<1>3. PICK ids \in SUBSET DOMAIN events : ids = Pending
  BY PendingIs
<1>4. PICK n \in Nodes, type \in {"ARRIVAL", "DEPARTURE", "SKIP_CONFIRMED"} :
         Become(p, [Idle EXCEPT !.pc = "confirmed", !.type = type, !.node = n,
                                !.context = c, !.todo = ids])
  BY <1>2, <1>3 DEF Manual
<1> DEFINE w == [Idle EXCEPT !.pc = "confirmed", !.type = type, !.node = n, !.context = c, !.todo = ids]
<1>5. Idle \in WorkRecord
  BY <1>1, IdleIs
<1>6. w \in WorkRecord
  <2>1. ids \in SUBSET Nat /\ n \in Nat
    BY <1>1, NodesAre DEF TripOK
  <2> QED BY <1>5, <2>1 DEF WorkRecord
<1>7. w.pc = "confirmed" /\ w.todo = ids /\ w.context = c /\ w.node = n /\ w.type = type /\ w.token = 0
  BY <1>5 DEF WorkRecord, Idle
<1> HIDE DEF w
<1>8. Remembers(c)' /\ ids \subseteq DOMAIN events'
  BY <1>1, <1>2, RemembersStill DEF Moves
<1>9. WorkOK(w)'
  BY <1>7, <1>8 DEF WorkOK
<1>10. Takes(p)
  BY <1>4, <1>6, <1>7, <1>9 DEF Takes, w
<1> QED BY <1>10, OnlyWork DEF Manual

LEMMA ManualAgainKeeps ==
    ASSUME IInv, BoundsOK', NEW p \in Procs, ManualAgain(p)
    PROVE  IInv'
<1>1. TripOK /\ TripOK' /\ Moves
  BY TripStays DEF ManualAgain, IInv, TypeOK
<1>2. PICK c \in ContextRecord : c = Context /\ Remembers(c)
  BY <1>1, ContextIs
<1>3. PICK ids \in SUBSET DOMAIN events' : ids = Pending
  BY <1>1, PendingIs DEF Moves
<1>4. TriggerAfter(p, c, ids)
  BY <1>2, <1>3 DEF ManualAgain
<1>5. Takes(p)
  BY <1>1, <1>2, <1>4, TriggerAfterTakes
<1> QED BY <1>5, OnlyWork DEF ManualAgain

LEMMA CrashKeeps ==
    ASSUME IInv, BoundsOK', NEW p \in Procs, Crash(p)
    PROVE  IInv'
<1>1. TripOK'
  BY TripStays DEF Crash, IInv, TypeOK
<1> QED BY <1>1, FinishTakes, OnlyWork DEF Crash

LEMMA EventIs ==
    ASSUME TripOK, NEW i \in DOMAIN events
    PROVE  events[i] \in EventRecord /\ i \in Nat \ {0}
BY DEF TripOK

LEMMA LapseKeeps ==
    ASSUME IInv, BoundsOK', Lapse
    PROVE  IInv'
<1>1. TripOK /\ TripOK' /\ Moves
  BY TripStays DEF Lapse, IInv, TypeOK
<1>2. PICK i \in DOMAIN events : lapsed' = lapsed \cup {events[i].token}
  BY DEF Lapse
<1>3. events[i].token \in Nat
  BY <1>1, EventIs DEF EventRecord
<1>4. lapsed' \in SUBSET Nat /\ IsFiniteSet(lapsed') /\ lapsed \subseteq lapsed'
  BY <1>2, <1>3, FS_AddElement DEF IInv, TypeOK
<1>5. TypeOK'
  BY <1>1, <1>4 DEF IInv, TypeOK, BoundsOK, Lapse
<1>6. \A p \in Procs : WorkOK(work[p])'
  BY DEF IInv, WorkOK, Remembers, Lapse, trip
<1>7. ClaimsOK'
  BY <1>4 DEF IInv, ClaimsOK, HeldClaim, SingleCaller, Lapse, trip
<1>8. FactsAreEvents'
  BY DEF IInv, FactsAreEvents, Lapse, trip
<1> QED BY <1>5, <1>6, <1>7, <1>8 DEF IInv

-----------------------------------------------------------------------------
(* The trigger's claim.                                                    *)

\* The row of the arrival a request works at.
LEMMA TodoIs ==
    ASSUME TripOK, NEW w \in WorkRecord, WorkOK(w), w.pc \in {"trigger", "calling"}
    PROVE  Min(w.todo) \in w.todo /\ Min(w.todo) \in DOMAIN events
BY MinIs DEF WorkOK, WorkRecord

\* A new token is one nobody holds, no row carries and no lease ran out on.
LEMMA NewTokenIs ==
    ASSUME IInv, NEW p \in Procs
    PROVE  /\ NewToken \in Nat \ {0}
           /\ NewToken \notin Claims
<1> DEFINE rows == {events[i].token : i \in DOMAIN events}
           held == {work[q].token : q \in Procs}
<1>1. TripOK /\ work \in [Procs -> WorkRecord] /\ lapsed \in SUBSET Nat /\ IsFiniteSet(lapsed)
  BY DEF IInv, TypeOK
<1>2. rows \in SUBSET Nat
  BY <1>1, EventIs DEF EventRecord
<1>3. held \in SUBSET Nat
  BY <1>1 DEF WorkRecord
<1>4. IsFiniteSet(rows)
  <2>1. IsFiniteSet(DOMAIN events)
    <3>1. DOMAIN events = 1..Len(events) /\ Len(events) \in Nat
      BY <1>1 DEF TripOK
    <3> QED BY <3>1, FS_Interval
  <2>2. [i \in DOMAIN events |-> events[i].token] \in Surjection(DOMAIN events, rows)
    BY DEF Surjection
  <2> QED BY <2>1, <2>2, FS_Surjection
<1>5. IsFiniteSet(held)
  <2>1. IsFiniteSet(Procs)
    BY LocationAssumption DEF LocationAssumption
  <2>2. [q \in Procs |-> work[q].token] \in Surjection(Procs, held)
    BY DEF Surjection
  <2> QED BY <2>1, <2>2, FS_Surjection
<1>6. Claims = rows \cup held \cup lapsed
  BY DEF Claims
<1> HIDE DEF rows
<1>7. Claims \in SUBSET Nat /\ Claims # {}
  BY <1>1, <1>2, <1>3, <1>6
<1>8. IsFiniteSet(Claims)
  BY <1>1, <1>4, <1>5, <1>6, FS_Union
<1>9. Max(Claims) \in Nat /\ \A t \in Claims : t <= Max(Claims)
  BY <1>7, <1>8, MaxIs
<1> QED BY <1>7, <1>9 DEF NewToken

LEMMA EventsSame ==
    ASSUME TripOK, UNCHANGED <<capability, version, watermark, last, facts, skips, suppressed>>,
           NEW i \in DOMAIN events, NEW e \in EventRecord, events' = [events EXCEPT ![i] = e]
    PROVE  TripOK' /\ Moves /\ events' \in Seq(EventRecord)
<1>1. events \in Seq(EventRecord)
  BY DEF TripOK
<1>2. events' \in Seq(EventRecord) /\ DOMAIN events' = DOMAIN events
  BY <1>1
<1>3. TripOK'
  BY <1>2 DEF TripOK
<1> QED BY <1>2, <1>3 DEF Moves

\* Claims and answers leave the times of the events alone.
LEMMA FactsSame ==
    ASSUME FactsAreEvents, facts' = facts, DOMAIN events' = DOMAIN events,
           \A i \in DOMAIN events :
              /\ events'[i].node = events[i].node /\ events'[i].type = events[i].type
              /\ events'[i].undone = events[i].undone
    PROVE  FactsAreEvents'
BY DEF FactsAreEvents

LEMMA ClaimKeeps ==
    ASSUME IInv, BoundsOK', NEW p \in Procs, Claim(p)
    PROVE  IInv'
<1>1. PICK w \in WorkRecord :
         /\ work[p] = w /\ WorkOK(w) /\ (w.pc # "calling" => w.token = 0)
         /\ w.context \in ContextRecord /\ Remembers(w.context)
  BY AtWork
<1> DEFINE i == Min(w.todo)
<1>2. w.pc = "trigger" /\ w.token = 0 /\ TripOK /\ FactsAreEvents
  BY <1>1 DEF Claim, IInv, TypeOK
<1>3. i \in w.todo /\ i \in DOMAIN events
  BY <1>1, <1>2, TodoIs
<1> HIDE DEF i
<1>4. CASE ~Claimable(p, i)
  <2>1. UNCHANGED <<trip, lapsed>>
    BY <1>1, <1>4 DEF Claim, trip, i
  <2>2. TripOK' /\ Moves
    BY <1>2, <2>1, TripStays
  <2>3. Become(p, IF w.todo = {i} THEN Idle ELSE [w EXCEPT !.todo = w.todo \ {i}])
    BY <1>1, <1>4 DEF Claim, i
  <2>4. CASE w.todo = {i}
    BY <2>1, <2>2, <2>3, <2>4, FinishTakes, OnlyWork DEF Finish
  <2>5. CASE w.todo # {i}
    <3> DEFINE v == [w EXCEPT !.todo = w.todo \ {i}]
    <3>1. v \in WorkRecord
      BY DEF WorkRecord
    <3>2. v.todo = w.todo \ {i} /\ v.pc = w.pc /\ v.context = w.context /\ v.token = w.token
      BY DEF WorkRecord
    <3> HIDE DEF v
    <3>3. WorkOK(w)'
      BY <1>1, <1>2, <2>2, WorkStays
    <3>4. WorkOK(v)'
      BY <1>2, <1>3, <2>5, <3>2, <3>3 DEF WorkOK
    <3>5. Takes(p)
      BY <1>2, <2>3, <2>5, <3>1, <3>2, <3>4 DEF Takes, v
    <3> QED BY <2>1, <3>5, OnlyWork
  <2> QED BY <2>4, <2>5
<1>5. CASE Claimable(p, i)
  <2>1. PICK t \in Nat \ {0} : t = NewToken /\ t \notin Claims
    BY NewTokenIs
  <2> DEFINE e == [events[i] EXCEPT !.token = t]
             v == [w EXCEPT !.pc = "calling", !.token = t]
  <2>2. /\ events' = [events EXCEPT ![i].token = t] /\ Become(p, v)
        /\ UNCHANGED <<capability, version, watermark, last, facts, skips, suppressed>>
        /\ lapsed' = lapsed
    BY <1>1, <1>5, <2>1 DEF Claim, i
  <2>3. events[i] \in EventRecord
    BY <1>2, <1>3, EventIs
  <2>4. e \in EventRecord /\ events' = [events EXCEPT ![i] = e]
    BY <2>2, <2>3 DEF EventRecord
  <2>5. TripOK' /\ Moves
    <3> HIDE DEF e
    <3> QED BY <1>2, <1>3, <2>2, <2>4, EventsSame
  <2>6. v \in WorkRecord
    BY <2>1 DEF WorkRecord
  <2>7. v.pc = "calling" /\ v.token = t /\ v.todo = w.todo /\ v.context = w.context
    BY DEF WorkRecord
  <2>8. WorkOK(v)'
    <3>1. WorkOK(w)'
      BY <1>1, <1>2, <2>5, WorkStays
    <3> HIDE DEF v
    <3> QED BY <1>2, <1>3, <2>1, <2>7, <3>1 DEF WorkOK
  <2>9. work' \in [Procs -> WorkRecord] /\ \A q \in Procs : WorkOK(work[q])'
    <3> HIDE DEF v
    <3> QED BY <2>2, <2>5, <2>6, <2>8, WorkKept
  <2>10. TypeOK'
    BY <2>2, <2>5, <2>9 DEF IInv, TypeOK, BoundsOK
  <2>11. /\ DOMAIN events' = DOMAIN events /\ events'[i] = e
         /\ \A j \in DOMAIN events : j # i => events'[j] = events[j]
    BY <1>2, <1>3, <2>4 DEF TripOK
  <2>12. /\ e.node = events[i].node /\ e.type = events[i].type /\ e.undone = events[i].undone
         /\ e.token = t
    BY <2>3 DEF EventRecord
  <2> HIDE DEF e
  <2>13. FactsAreEvents'
    BY <1>2, <2>2, <2>11, <2>12, FactsSame
  <2>14. work'[p] = v /\ \A q \in Procs : q # p => work'[q] = work[q]
    BY <2>2 DEF Become, IInv, TypeOK
  <2>15. ~events[i].undone /\ (events[i].token = 0 \/ events[i].token \in lapsed)
    BY <1>5 DEF Claimable
  <2>16. /\ \A q \in Procs : t # work[q].token
         /\ t \notin lapsed
    BY <2>1 DEF Claims
  <2>17. \A q, u \in Procs : q # u /\ work'[q].token # 0 => work'[q].token # work'[u].token
    <3> HIDE DEF v
    <3> SUFFICES ASSUME NEW q \in Procs, NEW u \in Procs, q # u, work'[q].token # 0
                 PROVE  work'[q].token # work'[u].token
      OBVIOUS
    <3>1. CASE q = p \/ u = p
      BY <2>7, <2>14, <2>16, <3>1
    <3>2. CASE q # p /\ u # p
      BY <2>14, <3>2 DEF IInv, ClaimsOK
    <3> QED BY <3>1, <3>2
  <2>18. ASSUME NEW q \in Procs, q # p, work[q].pc = "calling", Min(work[q].todo) = i
         PROVE  work[q].token \in lapsed
    <3>1. HeldClaim(q) /\ work[q].token # 0
      BY <2>18 DEF IInv, ClaimsOK, WorkOK
    <3> QED BY <2>15, <2>18, <3>1 DEF HeldClaim
  <2>19. ASSUME NEW q \in Procs
         PROVE  HeldClaim(q)'
    <3>1. CASE q = p
      BY <2>7, <2>11, <2>12, <2>14, <3>1 DEF HeldClaim, i
    <3>2. CASE q # p
      <4> SUFFICES ASSUME work[q].pc = "calling", work[q].token \notin lapsed
                   PROVE  LET f == events'[Min(work[q].todo)] IN f.undone \/ f.token = work[q].token
        BY <2>2, <2>14, <3>2 DEF HeldClaim
      <4>1. Min(work[q].todo) # i
        BY <2>18, <3>2
      <4>2. Min(work[q].todo) \in DOMAIN events
        BY <1>2, TodoIs DEF IInv, TypeOK
      <4>3. HeldClaim(q)
        BY DEF IInv, ClaimsOK
      <4> QED BY <2>11, <4>1, <4>2, <4>3 DEF HeldClaim
    <3> QED BY <3>1, <3>2
  <2>20. SingleCaller'
    <3> SUFFICES ASSUME NEW q \in Procs, NEW u \in Procs, q # u, work'[q].pc = "calling",
                        work'[u].pc = "calling", Min(work'[q].todo) = Min(work'[u].todo)
                 PROVE  work'[q].token \in lapsed \/ work'[u].token \in lapsed
      BY <2>2 DEF SingleCaller
    <3>1. CASE q = p
      BY <2>7, <2>14, <2>18, <3>1 DEF i
    <3>2. CASE u = p
      BY <2>7, <2>14, <2>18, <3>2 DEF i
    <3>3. CASE q # p /\ u # p
      BY <2>14, <3>3 DEF IInv, ClaimsOK, SingleCaller
    <3> QED BY <3>1, <3>2, <3>3
  <2> QED BY <2>9, <2>10, <2>13, <2>17, <2>19, <2>20 DEF IInv, ClaimsOK
<1> QED BY <1>4, <1>5

LEMMA SettleKeeps ==
    ASSUME IInv, BoundsOK', NEW p \in Procs, Settle(p)
    PROVE  IInv'
<1>1. PICK w \in WorkRecord :
         /\ work[p] = w /\ WorkOK(w) /\ (w.pc # "calling" => w.token = 0)
         /\ w.context \in ContextRecord /\ Remembers(w.context)
  BY AtWork
<1> DEFINE i == Min(w.todo)
<1>2. w.pc = "calling" /\ w.token # 0 /\ TripOK /\ FactsAreEvents
  BY <1>1 DEF Settle, IInv, TypeOK, WorkOK
<1>3. i \in w.todo /\ i \in DOMAIN events
  BY <1>1, <1>2, TodoIs
<1>4. PICK done \in BOOLEAN :
         /\ events' = IF Holds(p, i) THEN [events EXCEPT ![i].token = 0, ![i].completed = done]
                      ELSE events
         /\ IF done /\ work[p].todo # {i}
            THEN Become(p, [work[p] EXCEPT !.pc = "trigger", !.todo = @ \ {i}, !.token = 0])
            ELSE Finish(p)
  BY <1>1 DEF Settle
<1>5. UNCHANGED <<capability, version, watermark, last, facts, skips, suppressed>> /\ lapsed' = lapsed
  BY DEF Settle
<1> HIDE DEF i
<1> DEFINE e == [events[i] EXCEPT !.token = 0, !.completed = done]
<1>6. events[i] \in EventRecord /\ events \in Seq(EventRecord)
  BY <1>2, <1>3, EventIs DEF TripOK
<1>7. Holds(p, i) => events' = [events EXCEPT ![i] = e]
  BY <1>4
<1>8. /\ e \in EventRecord
      /\ e.node = events[i].node /\ e.type = events[i].type /\ e.undone = events[i].undone
  BY <1>6 DEF EventRecord
<1> HIDE DEF e
<1>9. TripOK' /\ Moves
  <2>1. CASE Holds(p, i)
    BY <1>2, <1>3, <1>5, <1>7, <1>8, <2>1, EventsSame
  <2>2. CASE ~Holds(p, i)
    BY <1>2, <1>4, <1>5, <2>2, TripStays DEF trip
  <2> QED BY <2>1, <2>2
<1>10. /\ DOMAIN events' = DOMAIN events
       /\ \A j \in DOMAIN events : j # i \/ ~Holds(p, i) => events'[j] = events[j]
       /\ Holds(p, i) => events'[i] = e
  BY <1>3, <1>4, <1>6, <1>7
<1>11. FactsAreEvents'
  BY <1>2, <1>5, <1>8, <1>10, FactsSame
<1>12. Takes(p)
  <2>1. CASE done /\ w.todo # {i}
    <3> DEFINE v == [w EXCEPT !.pc = "trigger", !.todo = w.todo \ {i}, !.token = 0]
    <3>1. Become(p, v)
      BY <1>1, <1>4, <2>1
    <3>2. v \in WorkRecord
      BY DEF WorkRecord
    <3>3. v.pc = "trigger" /\ v.todo = w.todo \ {i} /\ v.token = 0 /\ v.context = w.context
      BY DEF WorkRecord
    <3> HIDE DEF v
    <3>4. WorkOK(w)'
      BY <1>1, <1>2, <1>9, WorkStays
    <3>5. WorkOK(v)'
      BY <1>3, <2>1, <3>3, <3>4 DEF WorkOK
    <3> QED BY <3>1, <3>2, <3>3, <3>5 DEF Takes
  <2>2. CASE ~(done /\ w.todo # {i})
    BY <1>1, <1>4, <1>9, <2>2, FinishTakes
  <2> QED BY <2>1, <2>2
<1>13. PICK v \in WorkRecord : Become(p, v) /\ WorkOK(v)' /\ v.token = 0
  BY <1>12 DEF Takes
<1>14. work' \in [Procs -> WorkRecord] /\ \A q \in Procs : WorkOK(work[q])'
  BY <1>9, <1>13, WorkKept
<1>15. TypeOK'
  BY <1>5, <1>9, <1>14 DEF IInv, TypeOK, BoundsOK
<1>16. work'[p] = v /\ v.pc # "calling" /\ \A q \in Procs : q # p => work'[q] = work[q]
  BY <1>13 DEF Become, IInv, TypeOK, WorkOK
<1>17. ASSUME NEW q \in Procs, q # p, work[q].pc = "calling"
       PROVE  work[q].token # w.token
  BY <1>1, <1>2, <1>17 DEF IInv, ClaimsOK
<1>18. \A q, u \in Procs : q # u /\ work'[q].token # 0 => work'[q].token # work'[u].token
  <2> SUFFICES ASSUME NEW q \in Procs, NEW u \in Procs, q # u, work'[q].token # 0
               PROVE  work'[q].token # work'[u].token
    OBVIOUS
  <2>1. CASE q = p \/ u = p
    BY <1>13, <1>16, <2>1
  <2>2. CASE q # p /\ u # p
    BY <1>16, <2>2 DEF IInv, ClaimsOK
  <2> QED BY <2>1, <2>2
<1>19. ASSUME NEW q \in Procs
       PROVE  HeldClaim(q)'
  <2>1. CASE q = p
    BY <1>16, <2>1 DEF HeldClaim
  <2>2. CASE q # p
    <3> SUFFICES ASSUME work[q].pc = "calling", work[q].token \notin lapsed
                 PROVE  LET f == events'[Min(work[q].todo)] IN f.undone \/ f.token = work[q].token
      BY <1>5, <1>16, <2>2 DEF HeldClaim
    <3>1. Min(work[q].todo) \in DOMAIN events
      BY <1>2, TodoIs DEF IInv, TypeOK
    <3>2. HeldClaim(q)
      BY DEF IInv, ClaimsOK
    <3>3. CASE Min(work[q].todo) = i /\ Holds(p, i)
      <4>1. ~events[i].undone /\ events[i].token = w.token
        BY <1>1, <3>3 DEF Holds
      <4> QED BY <1>17, <2>2, <3>2, <3>3, <4>1 DEF HeldClaim
    <3>4. CASE ~(Min(work[q].todo) = i /\ Holds(p, i))
      BY <1>10, <3>1, <3>2, <3>4 DEF HeldClaim
    <3> QED BY <3>3, <3>4
  <2> QED BY <2>1, <2>2
<1>20. SingleCaller'
  BY <1>5, <1>16 DEF IInv, ClaimsOK, SingleCaller
<1> QED BY <1>11, <1>14, <1>15, <1>18, <1>19, <1>20 DEF IInv, ClaimsOK

-----------------------------------------------------------------------------
(* Steps that change the trip.                                             *)

LEMMA OnlyTrip ==
    ASSUME IInv, BoundsOK', TripOK', Moves, EventsKept, FactsAreEvents', UNCHANGED <<work, lapsed>>
    PROVE  IInv'
<1>1. ASSUME NEW p \in Procs
      PROVE  WorkOK(work[p])'
  <2>1. PICK w \in WorkRecord : work[p] = w /\ WorkOK(w)
    BY DEF IInv, TypeOK
  <2>2. WorkOK(w)'
    BY <2>1, WorkStays DEF IInv, TypeOK
  <2>3. work'[p] = w
    BY <2>1
  <2> QED BY <2>2, <2>3 DEF WorkOK, Remembers
<1>2. ASSUME NEW p \in Procs
      PROVE  HeldClaim(p)'
  <2> SUFFICES ASSUME work[p].pc = "calling", work[p].token \notin lapsed
               PROVE  LET e == events'[Min(work[p].todo)] IN e.undone \/ e.token = work[p].token
    BY DEF HeldClaim
  <2>1. Min(work[p].todo) \in DOMAIN events
    BY TodoIs DEF IInv, TypeOK
  <2>2. HeldClaim(p)
    BY DEF IInv, ClaimsOK
  <2> QED BY <2>1, <2>2 DEF HeldClaim, EventsKept
<1>3. ClaimsOK'
  BY <1>2 DEF IInv, ClaimsOK, SingleCaller
<1>4. TypeOK'
  BY DEF IInv, TypeOK, BoundsOK
<1> QED BY <1>1, <1>3, <1>4 DEF IInv

LEMMA StopIs ==
    ASSUME TripOK, NEW state \in LocationState, StopIfComplete(state)
    PROVE  /\ capability' \in Capability /\ \A k \in Kinds : capability'[k].revision # 0
           /\ \A k \in Kinds : \/ capability'[k] = capability[k]
                               \/ capability'[k].revision > capability[k].revision
           /\ last' \in LocationState
<1> DEFINE stopped == {k \in Kinds : capability[k].state \in {"ENABLED", "PAUSED"}}
           complete == Complete([facts |-> facts', skips |-> skips'])
<1>1. last' \in {NoState, state}
  BY DEF StopIfComplete
<1>2. CASE complete
  <2>1. capability' = [k \in Kinds |->
                 IF k \in stopped THEN [state |-> "STOPPED", revision |-> capability[k].revision + 1]
                 ELSE capability[k]]
    BY <1>2 DEF StopIfComplete
  <2>2. \A k \in Kinds : capability[k] \in [state : {"ENABLED", "PAUSED", "STOPPED"}, revision : Nat]
    BY DEF TripOK, Capability
  <2>3. ASSUME NEW k \in Kinds
        PROVE  /\ capability'[k] \in [state : {"ENABLED", "PAUSED", "STOPPED"}, revision : Nat]
               /\ capability'[k].revision # 0
               /\ \/ capability'[k] = capability[k]
                  \/ capability'[k].revision > capability[k].revision
    <3>1. capability[k].revision \in Nat /\ capability[k].revision # 0
      BY <2>2 DEF TripOK
    <3>2. CASE k \in stopped
      <4>1. capability'[k] = [state |-> "STOPPED", revision |-> capability[k].revision + 1]
        BY <2>1, <3>2
      <4> QED BY <3>1, <4>1
    <3>3. CASE k \notin stopped
      BY <2>1, <2>2, <3>1, <3>3
    <3> QED BY <3>2, <3>3
  <2>4. capability' \in Capability
    <3>1. capability' = [k \in Kinds |-> capability'[k]]
      BY <2>1
    <3> QED BY <2>3, <3>1 DEF Capability
  <2> QED BY <1>1, <2>3, <2>4, NoStateIs
<1>3. CASE ~complete
  BY <1>1, <1>3, NoStateIs DEF StopIfComplete, TripOK
<1> QED BY <1>2, <1>3

LEMMA FactsWith ==
    ASSUME TripOK, NEW n \in Nodes, NEW type \in {"ARRIVAL", "DEPARTURE"}, NEW ref \in Nat
    PROVE  facts \cup {[node |-> n, type |-> type, ref |-> ref]} \in Facts
BY DEF TripOK, Facts

LEMMA UndoKeeps ==
    ASSUME IInv, BoundsOK', NEW i \in DOMAIN events, Undo(i)
    PROVE  IInv'
<1> DEFINE e == [events[i] EXCEPT !.undone = TRUE, !.token = 0]
<1>1. TripOK /\ FactsAreEvents
  BY DEF IInv, TypeOK
<1>2. events[i] \in EventRecord /\ events \in Seq(EventRecord) /\ events' = [events EXCEPT ![i] = e]
  BY <1>1, EventIs DEF Undo, TripOK
<1>3. e \in EventRecord /\ e.undone /\ e.node = events[i].node /\ e.type = events[i].type
  BY <1>2 DEF EventRecord
<1> HIDE DEF e
<1>4. /\ events' \in Seq(EventRecord) /\ DOMAIN events' = DOMAIN events /\ events'[i] = e
      /\ \A j \in DOMAIN events : j # i => events'[j] = events[j]
  BY <1>2, <1>3
<1>5. facts' = {f \in facts : f.ref # i} /\ facts' \in Facts
  BY <1>1 DEF Undo, TripOK, Facts
<1>6. skips' \in Skips
  <2>1. \A n \in Nodes : skips[n] \in [status : {"NONE", "POSSIBLY_SKIPPED", "SKIPPED"}, by : Nat]
    BY <1>1 DEF TripOK, Skips
  <2>2. \A n \in Nodes :
           [skips[n] EXCEPT !.status = "POSSIBLY_SKIPPED"]
           \in [status : {"NONE", "POSSIBLY_SKIPPED", "SKIPPED"}, by : Nat]
    BY <2>1
  <2>3. [status |-> "NONE", by |-> User]
        \in [status : {"NONE", "POSSIBLY_SKIPPED", "SKIPPED"}, by : Nat]
    BY DEF User
  <2>4. skips' = [n \in Nodes |->
           IF events[i].type = "SKIP_CONFIRMED" /\ n = events[i].node
           THEN [skips[n] EXCEPT !.status = "POSSIBLY_SKIPPED"]
           ELSE IF events[i].type = "ARRIVAL" /\ skips[n] = [status |-> "POSSIBLY_SKIPPED", by |-> i]
           THEN [status |-> "NONE", by |-> User]
           ELSE skips[n]]
    BY DEF Undo
  <2> QED BY <2>1, <2>2, <2>3, <2>4 DEF Skips
<1>7. events[i].node \in Nodes
  BY <1>2 DEF EventRecord
<1>8. suppressed' \in SUBSET Nodes
  BY <1>1, <1>7 DEF Undo, TripOK
<1>9. version' = version + 1 /\ version' \in Nat \ {0} /\ version' > version
  BY <1>1 DEF Undo, TripOK
<1>10. last' \in LocationState /\ UNCHANGED <<capability, watermark, work, lapsed>>
  BY NoStateIs DEF Undo
<1>11. TripOK'
  BY <1>1, <1>4, <1>5, <1>6, <1>8, <1>9, <1>10 DEF TripOK
<1>12. Moves
  BY <1>4, <1>9, <1>10 DEF Moves
<1>13. EventsKept
  BY <1>3, <1>4 DEF EventsKept
<1>14. FactsAreEvents'
  BY <1>1, <1>3, <1>4, <1>5 DEF FactsAreEvents
<1> QED BY <1>10, <1>11, <1>12, <1>13, <1>14, OnlyTrip

LEMMA RecordActualKeeps ==
    ASSUME IInv, BoundsOK', RecordActual
    PROVE  IInv'
<1>1. TripOK /\ FactsAreEvents
  BY DEF IInv, TypeOK
<1>2. PICK n \in Nodes, type \in {"ARRIVAL", "DEPARTURE"} :
         /\ ~Has(Context, n, type)
         /\ facts' = facts \cup {[node |-> n, type |-> type, ref |-> User]}
  BY DEF RecordActual
<1>3. facts' \in Facts
  BY <1>1, <1>2, FactsWith DEF User
<1>4. version' \in Nat \ {0} /\ version' > version
  BY <1>1 DEF RecordActual, TripOK
<1>5. /\ capability' \in Capability /\ \A k \in Kinds : capability'[k].revision # 0
      /\ \A k \in Kinds : \/ capability'[k] = capability[k]
                          \/ capability'[k].revision > capability[k].revision
      /\ last' \in LocationState
  BY <1>1, StopIs DEF RecordActual, TripOK
<1>6. UNCHANGED <<skips, suppressed, watermark, events, lapsed, work>>
  BY DEF RecordActual
<1>7. TripOK' /\ Moves /\ EventsKept
  BY <1>1, <1>3, <1>4, <1>5, <1>6 DEF TripOK, Moves, EventsKept
<1>8. \A f \in facts : f.node = n /\ f.type = type => FALSE
  BY <1>2 DEF Has, Context
<1>9. \A i \in DOMAIN events : i # User
  BY <1>1, EventIs DEF User
<1>10. FactsAreEvents'
  BY <1>1, <1>2, <1>6, <1>8, <1>9 DEF FactsAreEvents
<1> QED BY <1>6, <1>7, <1>10, OnlyTrip

LEMMA SetCapabilityKeeps ==
    ASSUME IInv, BoundsOK', SetCapability
    PROVE  IInv'
<1>1. TripOK /\ FactsAreEvents
  BY DEF IInv, TypeOK
<1>2. PICK k \in Kinds, t \in Transitions :
         /\ capability' = [capability EXCEPT ![k] = [state |-> t[2], revision |-> capability[k].revision + 1]]
         /\ last' \in {NoState, last}
  BY DEF SetCapability
<1>3. t[2] \in {"ENABLED", "PAUSED", "STOPPED"}
  BY DEF Transitions
<1>4. capability[k].revision \in Nat
  BY <1>1, CapabilityIs DEF TripOK
<1>5. /\ capability' \in Capability /\ \A j \in Kinds : capability'[j].revision # 0
      /\ \A j \in Kinds : \/ capability'[j] = capability[j]
                          \/ capability'[j].revision > capability[j].revision
  <2> DEFINE new == [state |-> t[2], revision |-> capability[k].revision + 1]
  <2>1. new \in [state : {"ENABLED", "PAUSED", "STOPPED"}, revision : Nat]
        /\ new.revision # 0 /\ new.revision > capability[k].revision
    BY <1>3, <1>4
  <2> HIDE DEF new
  <2>2. capability' = [capability EXCEPT ![k] = new]
    BY <1>2 DEF new
  <2> QED BY <1>1, <2>1, <2>2 DEF TripOK, Capability
<1>6. UNCHANGED <<version, watermark, facts, skips, suppressed, events, lapsed, work>>
  BY DEF SetCapability
<1>7. TripOK' /\ Moves /\ EventsKept
  BY <1>1, <1>2, <1>5, <1>6, NoStateIs DEF TripOK, Moves, EventsKept
<1>8. FactsAreEvents'
  BY <1>1, <1>6 DEF FactsAreEvents
<1> QED BY <1>6, <1>7, <1>8, OnlyTrip

\* The step of one request, whatever it changes.
LEMMA OneActs ==
    ASSUME IInv, BoundsOK', TripOK', Moves, EventsKept, FactsAreEvents', lapsed' = lapsed,
           NEW p \in Procs, Takes(p)
    PROVE  IInv'
<1>1. PICK w \in WorkRecord : Become(p, w) /\ WorkOK(w)'
  BY DEF Takes
<1>2. work' \in [Procs -> WorkRecord] /\ \A q \in Procs : WorkOK(work[q])'
  BY <1>1, WorkKept
<1>3. ClaimsOK'
  BY ClaimsKept
<1>4. TypeOK'
  BY <1>2 DEF IInv, TypeOK, BoundsOK
<1> QED BY <1>2, <1>3, <1>4 DEF IInv

LEMMA Appended ==
    ASSUME TripOK, NEW e \in EventRecord, events' = Append(events, e)
    PROVE  /\ events' \in Seq(EventRecord) /\ Len(events) + 1 \notin DOMAIN events
           /\ DOMAIN events' = DOMAIN events \cup {Len(events) + 1}
           /\ events'[Len(events) + 1] = e
           /\ \A i \in DOMAIN events : events'[i] = events[i]
           /\ EventsKept
<1>1. events \in Seq(EventRecord) /\ Len(events) \in Nat /\ DOMAIN events = 1..Len(events)
  BY DEF TripOK
<1>2. events' \in Seq(EventRecord) /\ DOMAIN events' = 1..Len(events) + 1
  BY <1>1
<1>3. /\ events'[Len(events) + 1] = e
      /\ \A i \in DOMAIN events : events'[i] = events[i]
  BY <1>1
<1>4. DOMAIN events \subseteq DOMAIN events'
  BY <1>1, <1>2
<1> QED BY <1>1, <1>2, <1>3, <1>4 DEF EventsKept

LEMMA NewEventIs ==
    ASSUME NEW n \in Nodes, NEW type \in {"ARRIVAL", "DEPARTURE", "SKIP_CONFIRMED"},
           NEW source \in {"LOCATION", "MANUAL"}, NEW at \in Nat
    PROVE  LET e == NewEvent(n, type, source, at)
           IN  /\ e \in EventRecord /\ e.node = n /\ e.type = type /\ e.source = source
               /\ e.at = at /\ ~e.undone
BY DEF NewEvent, EventRecord

LEMMA CreateFactIs ==
    ASSUME TripOK, FactsAreEvents, NEW n \in Nodes, NEW type \in {"ARRIVAL", "DEPARTURE"},
           NEW source \in {"LOCATION", "MANUAL"}, NEW at \in Nat, NEW skipped,
           ~Has(Context, n, type), CreateFact(n, type, source, at, skipped)
    PROVE  /\ events' = Append(events, NewEvent(n, type, source, at))
           /\ events' \in Seq(EventRecord) /\ facts' \in Facts /\ skips' \in Skips
           /\ DOMAIN events' = DOMAIN events \cup {Len(events) + 1}
           /\ EventsKept
           /\ FactsAreEvents'
<1> DEFINE new == Len(events) + 1
           e == NewEvent(n, type, source, at)
           f == [node |-> n, type |-> type, ref |-> new]
<1>1. /\ events' = Append(events, e) /\ facts' = facts \cup {f}
      /\ skips' = [k \in Nodes |-> IF k \in skipped
                                   THEN [status |-> "POSSIBLY_SKIPPED", by |-> new]
                                   ELSE skips[k]]
  BY DEF CreateFact
<1>2. e \in EventRecord /\ e.node = n /\ e.type = type /\ ~e.undone
  BY NewEventIs
<1> HIDE DEF e
<1>3. /\ events' \in Seq(EventRecord) /\ new \notin DOMAIN events
      /\ DOMAIN events' = DOMAIN events \cup {new} /\ events'[new] = e
      /\ \A i \in DOMAIN events : events'[i] = events[i]
      /\ EventsKept
  BY <1>1, <1>2, Appended
<1>4. new \in Nat
  BY DEF TripOK
<1>5. facts' \in Facts
  BY <1>1, <1>4, FactsWith
<1>6. skips' \in Skips
  <2>1. \A k \in Nodes : skips[k] \in [status : {"NONE", "POSSIBLY_SKIPPED", "SKIPPED"}, by : Nat]
    BY DEF TripOK, Skips
  <2>2. [status |-> "POSSIBLY_SKIPPED", by |-> new]
        \in [status : {"NONE", "POSSIBLY_SKIPPED", "SKIPPED"}, by : Nat]
    BY <1>4
  <2> HIDE DEF new
  <2> QED BY <1>1, <2>1, <2>2 DEF Skips
<1>7. \A g \in facts : ~(g.node = n /\ g.type = type)
  BY DEF Has, Context
<1>8. f.node = n /\ f.type = type /\ f.ref = new
  OBVIOUS
<1> HIDE DEF f, new
<1>9. ASSUME NEW i \in DOMAIN events', events'[i].type # "SKIP_CONFIRMED"
      PROVE  ~events'[i].undone <=> \E g \in facts' :
                g.ref = i /\ g.node = events'[i].node /\ g.type = events'[i].type
  <2>1. CASE i = new
    BY <1>1, <1>2, <1>3, <1>8, <2>1
  <2>2. CASE i # new
    BY <1>1, <1>3, <1>8, <1>9, <2>2 DEF FactsAreEvents
  <2> QED BY <2>1, <2>2
<1>10. \A g, h \in facts' : g.node = h.node /\ g.type = h.type => g = h
  BY <1>1, <1>7, <1>8 DEF FactsAreEvents
<1>11. FactsAreEvents'
  BY <1>9, <1>10 DEF FactsAreEvents
<1> QED BY <1>1, <1>3, <1>5, <1>6, <1>11 DEF e, new

LEMMA ArrivalIs ==
    ASSUME NEW n, NEW type
    PROVE  Arrival(n, type) \subseteq {Len(events) + 1}
BY DEF Arrival

LEMMA CommitLocationKeeps ==
    ASSUME IInv, BoundsOK', NEW p \in Procs, CommitLocation(p)
    PROVE  IInv'
<1>1. PICK w \in WorkRecord :
         /\ work[p] = w /\ WorkOK(w) /\ (w.pc # "calling" => w.token = 0)
         /\ w.context \in ContextRecord /\ Remembers(w.context)
  BY AtWork
<1>2. TripOK /\ FactsAreEvents /\ w.token = 0 /\ lapsed' = lapsed
  BY <1>1 DEF IInv, TypeOK, CommitLocation
<1>3. CASE UNCHANGED trip /\ (Finish(p) \/ Retry(p))
  BY <1>1, <1>2, <1>3, TripStays, FinishTakes, RetryTakes, OnlyWork
<1>4. CASE ~(UNCHANGED trip /\ (Finish(p) \/ Retry(p)))
  <2> DEFINE d == decideExecutionLocation(w.context, w.place)
             records == Records(w.context) /\ d.type # "NONE"
             standing == IF records THEN ActiveEvents(d.node, d.type) ELSE {}
             creates == records /\ standing = {}
             arrival == IF creates THEN Arrival(d.node, d.type) ELSE standing \cap Pending
  <2>1. /\ ~(creates /\ Has(Context, d.node, d.type))
        /\ suppressed' = suppressed \ d.released
        /\ watermark' = w.at
        /\ IF creates
           THEN /\ CreateFact(d.node, d.type, "LOCATION", w.at, d.skipped)
                /\ version' = version + 1
                /\ StopIfComplete(d.state)
           ELSE /\ last' = d.state
                /\ UNCHANGED <<capability, version, facts, skips, events>>
        /\ IF Records(w.context)
           THEN TriggerAfter(p, w.context, w.todo \cup arrival)
           ELSE Finish(p)
    BY <1>1, <1>4 DEF CommitLocation
  <2>2. DecisionFits(w.context, w.place, d)
    BY <1>1, DecisionIs DEF WorkRecord
  <2>3. arrival \subseteq DOMAIN events \cup (IF creates THEN {Len(events) + 1} ELSE {})
    BY ArrivalIs DEF ActiveEvents
  <2>4. records => d.type \in {"ARRIVAL", "DEPARTURE"} /\ d.node \in Nodes
    BY <2>2 DEF DecisionFits
  <2>5. creates => records
    OBVIOUS
  <2>6. d.state \in LocationState
    BY <2>2 DEF DecisionFits
  <2> HIDE DEF d, creates, records, arrival
  <2>7. w.at \in Nat
    BY DEF WorkRecord
  <2>8. /\ TripOK' /\ Moves /\ EventsKept /\ FactsAreEvents'
        /\ DOMAIN events' = DOMAIN events \cup (IF creates THEN {Len(events) + 1} ELSE {})
    <3>1. suppressed' \in SUBSET Nodes /\ watermark' \in Nat
      BY <1>2, <2>1, <2>7 DEF TripOK
    <3>2. CASE creates
      <4>1. /\ events' \in Seq(EventRecord) /\ facts' \in Facts /\ skips' \in Skips
            /\ DOMAIN events' = DOMAIN events \cup {Len(events) + 1}
            /\ EventsKept /\ FactsAreEvents'
        BY <1>2, <2>1, <2>4, <2>5, <2>7, <3>2, CreateFactIs
      <4>2. /\ capability' \in Capability /\ \A k \in Kinds : capability'[k].revision # 0
            /\ \A k \in Kinds : \/ capability'[k] = capability[k]
                                \/ capability'[k].revision > capability[k].revision
            /\ last' \in LocationState
        BY <1>2, <2>1, <2>6, <3>2, StopIs
      <4>3. version' \in Nat \ {0} /\ version' > version
        BY <1>2, <2>1, <3>2 DEF TripOK
      <4> QED BY <3>1, <3>2, <4>1, <4>2, <4>3 DEF TripOK, Moves
    <3>3. CASE ~creates
      <4>1. last' \in LocationState /\ UNCHANGED <<capability, version, facts, skips, events>>
        BY <2>1, <2>6, <3>3
      <4>2. TripOK'
        BY <1>2, <3>1, <4>1 DEF TripOK
      <4>3. Moves /\ EventsKept /\ FactsAreEvents'
        BY <1>2, <2>1, <4>1 DEF Moves, EventsKept, FactsAreEvents
      <4> QED BY <3>3, <4>1, <4>2, <4>3
    <3> QED BY <3>2, <3>3
  <2>9. Takes(p)
    <3>1. w.todo \cup arrival \subseteq DOMAIN events'
      BY <1>1, <2>3, <2>8 DEF WorkOK
    <3> QED BY <1>1, <1>2, <2>1, <2>8, <3>1, TriggerAfterTakes, FinishTakes
  <2> QED BY <1>2, <2>8, <2>9, OneActs
<1> QED BY <1>3, <1>4

LEMMA CommitManualKeeps ==
    ASSUME IInv, BoundsOK', NEW p \in Procs, CommitManual(p)
    PROVE  IInv'
<1>1. PICK w \in WorkRecord :
         /\ work[p] = w /\ WorkOK(w) /\ (w.pc # "calling" => w.token = 0)
         /\ w.context \in ContextRecord /\ Remembers(w.context)
  BY AtWork
<1> DEFINE active == ActiveEvents(w.node, w.type)
           Refused ==
             \/ w.type = "SKIP_CONFIRMED" /\ skips[w.node].status # "POSSIBLY_SKIPPED"
             \/ w.type # "SKIP_CONFIRMED" /\ Has(Context, w.node, w.type)
<1>2. /\ TripOK /\ FactsAreEvents /\ w.token = 0 /\ lapsed' = lapsed
      /\ w.todo \subseteq DOMAIN events
      /\ w.node \in Nodes /\ w.type \in {"ARRIVAL", "DEPARTURE", "SKIP_CONFIRMED"}
  BY <1>1 DEF IInv, TypeOK, CommitManual, WorkOK, WorkRecord
<1>3. active \cap Pending \subseteq DOMAIN events
  BY DEF ActiveEvents
<1>4. CASE UNCHANGED trip /\ (Finish(p) \/ TriggerAfter(p, w.context, w.todo \cup (active \cap Pending)))
  <2>1. TripOK' /\ Moves
    BY <1>2, <1>4, TripStays
  <2>2. w.todo \cup (active \cap Pending) \in SUBSET DOMAIN events'
    BY <1>2, <1>3, <2>1 DEF Moves
  <2> HIDE DEF active
  <2>3. CASE Finish(p)
    BY <1>2, <1>4, <2>1, <2>3, FinishTakes, OnlyWork
  <2>4. CASE ~Finish(p)
    <3>1. PICK ids \in SUBSET DOMAIN events' : TriggerAfter(p, w.context, ids)
      BY <1>4, <2>2, <2>4
    <3> QED BY <1>1, <1>2, <1>4, <2>1, <3>1, TriggerAfterTakes, OnlyWork
  <2> QED BY <2>3, <2>4
<1>5. CASE /\ ~Refused /\ w.type = "SKIP_CONFIRMED"
           /\ events' = Append(events, NewEvent(w.node, w.type, "MANUAL", 0))
           /\ skips' = [skips EXCEPT ![w.node].status = "SKIPPED"]
           /\ version' = version + 1
           /\ UNCHANGED <<facts, suppressed, watermark>>
           /\ StopIfComplete(NoState)
           /\ TriggerAfter(p, w.context, w.todo)
  <2> DEFINE e == NewEvent(w.node, w.type, "MANUAL", 0)
             new == Len(events) + 1
  <2>1. e \in EventRecord /\ e.type = "SKIP_CONFIRMED"
    BY <1>2, <1>5, NewEventIs
  <2> HIDE DEF e
  <2>2. /\ events' \in Seq(EventRecord) /\ new \notin DOMAIN events
        /\ DOMAIN events' = DOMAIN events \cup {new} /\ events'[new] = e
        /\ \A i \in DOMAIN events : events'[i] = events[i]
        /\ EventsKept
    BY <1>2, <1>5, <2>1, Appended DEF e
  <2> HIDE DEF new
  <2>3. skips' \in Skips
    <3>1. skips[w.node] \in [status : {"NONE", "POSSIBLY_SKIPPED", "SKIPPED"}, by : Nat]
          /\ skips \in Skips
      BY <1>2 DEF TripOK, Skips
    <3>2. skips' = [skips EXCEPT ![w.node] = [skips[w.node] EXCEPT !.status = "SKIPPED"]]
      BY <1>5
    <3>3. [skips[w.node] EXCEPT !.status = "SKIPPED"]
          \in [status : {"NONE", "POSSIBLY_SKIPPED", "SKIPPED"}, by : Nat]
      BY <3>1
    <3> QED BY <3>1, <3>2, <3>3 DEF Skips
  <2>4. /\ capability' \in Capability /\ \A k \in Kinds : capability'[k].revision # 0
        /\ \A k \in Kinds : \/ capability'[k] = capability[k]
                            \/ capability'[k].revision > capability[k].revision
        /\ last' \in LocationState
    BY <1>2, <1>5, NoStateIs, StopIs
  <2>5. version' \in Nat \ {0} /\ version' > version
    BY <1>2, <1>5 DEF TripOK
  <2>6. TripOK' /\ Moves
    BY <1>2, <1>5, <2>2, <2>3, <2>4, <2>5 DEF TripOK, Moves
  <2>7. FactsAreEvents'
    <3>1. ASSUME NEW i \in DOMAIN events', events'[i].type # "SKIP_CONFIRMED"
          PROVE  i \in DOMAIN events /\ events'[i] = events[i]
      BY <2>1, <2>2, <3>1
    <3>2. facts' = facts
      BY <1>5
    <3> QED BY <1>2, <3>1, <3>2 DEF FactsAreEvents
  <2>8. w.todo \in SUBSET DOMAIN events'
    BY <1>2, <2>2
  <2>9. Takes(p)
    BY <1>1, <1>2, <1>5, <2>6, <2>8, TriggerAfterTakes
  <2> QED BY <1>2, <2>2, <2>6, <2>7, <2>9, OneActs
<1>6. CASE /\ ~Refused /\ w.type # "SKIP_CONFIRMED"
           /\ CreateFact(w.node, w.type, "MANUAL", 0, {})
           /\ suppressed' = suppressed \ (IF w.type = "ARRIVAL" THEN {w.node} ELSE {})
           /\ version' = version + 1
           /\ UNCHANGED watermark
           /\ StopIfComplete(NoState)
           /\ TriggerAfter(p, w.context, w.todo \cup Arrival(w.node, w.type))
  <2>1. /\ ~Has(Context, w.node, w.type) /\ w.type \in {"ARRIVAL", "DEPARTURE"} /\ w.node \in Nodes
    BY <1>2, <1>6
  <2>9. PICK at \in Nat : at = 0 /\ CreateFact(w.node, w.type, "MANUAL", at, {})
    BY <1>6
  <2> HIDE DEF Refused, active
  <2>2. /\ events' \in Seq(EventRecord) /\ facts' \in Facts /\ skips' \in Skips
        /\ DOMAIN events' = DOMAIN events \cup {Len(events) + 1}
        /\ EventsKept /\ FactsAreEvents'
    BY <1>2, <2>1, <2>9, CreateFactIs
  <2>3. /\ capability' \in Capability /\ \A k \in Kinds : capability'[k].revision # 0
        /\ \A k \in Kinds : \/ capability'[k] = capability[k]
                            \/ capability'[k].revision > capability[k].revision
        /\ last' \in LocationState
    BY <1>2, <1>6, NoStateIs, StopIs
  <2>4. version' \in Nat \ {0} /\ version' > version
    BY <1>2, <1>6 DEF TripOK
  <2>5. suppressed' \in SUBSET Nodes
    BY <1>2, <1>6 DEF TripOK
  <2>6. TripOK' /\ Moves
    BY <1>2, <1>6, <2>2, <2>3, <2>4, <2>5 DEF TripOK, Moves
  <2>7. PICK ids \in SUBSET DOMAIN events' : ids = w.todo \cup Arrival(w.node, w.type)
    BY <1>2, <2>2, ArrivalIs
  <2>8. Takes(p)
    BY <1>1, <1>2, <1>6, <2>6, <2>7, TriggerAfterTakes
  <2> QED BY <1>2, <2>2, <2>6, <2>8, OneActs
<1> QED BY <1>1, <1>4, <1>5, <1>6 DEF CommitManual

-----------------------------------------------------------------------------
(* The invariant.                                                          *)

LEMMA Starting == Init => IInv
<1> SUFFICES ASSUME Init
             PROVE  IInv
  OBVIOUS
<1>1. TripOK
  <2>1. capability \in Capability /\ \A k \in Kinds : capability[k].revision # 0
    BY DEF Init, Capability
  <2>2. skips \in Skips /\ facts \in Facts
    BY DEF Init, Skips, Facts, User
  <2> QED BY <2>1, <2>2, NoStateIs DEF Init, TripOK
<1>2. Idle \in WorkRecord /\ WorkOK(Idle) /\ Idle.token = 0 /\ Idle.pc = "idle"
  BY <1>1, IdleIs
<1>3. work = [p \in Procs |-> Idle]
  BY DEF Init
<1>4. TypeOK
  BY <1>1, <1>2, <1>3, FS_EmptySet DEF Init, TypeOK
<1>5. \A p \in Procs : WorkOK(work[p])
  BY <1>2, <1>3
<1>6. ClaimsOK
  BY <1>2, <1>3 DEF ClaimsOK, HeldClaim, SingleCaller
<1>7. FactsAreEvents
  BY DEF Init, FactsAreEvents
<1> QED BY <1>4, <1>5, <1>6, <1>7 DEF IInv

LEMMA NextBounds == TypeOK /\ Next => BoundsOK'
<1> SUFFICES ASSUME TypeOK, Next
             PROVE  BoundsOK'
  OBVIOUS
<1>1. starts' \in Nat /\ world' \in Nat
  BY DEF Next, TypeOK
<1>2. sent \in Nat
  BY DEF TypeOK
<1>3. ASSUME NEW p \in Procs, Start(p)
      PROVE  sent' \in Nat
  <2>1. CASE Sample(p)
    BY <1>2, <2>1 DEF Sample
  <2>2. CASE Manual(p) \/ ManualAgain(p)
    BY <1>2, <2>2 DEF Manual, ManualAgain
  <2> QED BY <1>3, <2>1, <2>2 DEF Start
<1>4. ASSUME NEW p \in Procs, Work(p)
      PROVE  sent' = sent
  BY <1>4 DEF Work, ReadContext, Replay, CommitLocation, CommitManual, Claim, Settle
<1>5. ASSUME Meanwhile
      PROVE  sent' = sent
  BY <1>5 DEF Meanwhile, Lapse, RecordActual, SetCapability, Crash, Undo
<1>6. sent' \in Nat
  BY <1>2, <1>3, <1>4, <1>5 DEF Next
<1> QED BY <1>1, <1>6 DEF BoundsOK

LEMMA Stepping == IInv /\ [Next]_vars => IInv'
<1> SUFFICES ASSUME IInv, [Next]_vars
             PROVE  IInv'
  OBVIOUS
<1>1. CASE UNCHANGED vars
  <2>1. UNCHANGED <<trip, lapsed, work, sent, starts, world>>
    BY <1>1 DEF vars, bounds
  <2>2. BoundsOK'
    BY <2>1 DEF IInv, TypeOK, BoundsOK
  <2>3. TripOK' /\ Moves /\ EventsKept
    BY <2>1, TripStays DEF IInv, TypeOK
  <2>4. FactsAreEvents'
    BY <2>1 DEF IInv, FactsAreEvents, trip
  <2> QED BY <2>1, <2>2, <2>3, <2>4, OnlyTrip
<1>2. CASE Next
  <2>1. BoundsOK'
    BY <1>2, NextBounds DEF IInv
  <2>2. CASE \E p \in Procs : Start(p)
    BY <2>1, <2>2, SampleKeeps, ManualKeeps, ManualAgainKeeps DEF Start
  <2>3. CASE \E p \in Procs : Work(p)
    BY <2>1, <2>3, ReadContextKeeps, ReplayKeeps, CommitLocationKeeps, CommitManualKeeps,
       ClaimKeeps, SettleKeeps DEF Work
  <2>4. CASE Meanwhile
    BY <2>1, <2>4, LapseKeeps, RecordActualKeeps, SetCapabilityKeeps, CrashKeeps, UndoKeeps
       DEF Meanwhile
  <2> QED BY <1>2, <2>2, <2>3, <2>4 DEF Next
<1> QED BY <1>1, <1>2

\* What requests remember, claims and times fit what is there, in every state.
THEOREM Invariance == Spec => []IInv
BY Starting, Stepping, PTL DEF Spec

\* The variables keep their types.
THEOREM Typing == Spec => []TypeOK
<1>1. IInv => TypeOK
  BY DEF IInv
<1> QED BY <1>1, Invariance, PTL

\* FactsAreEvents: an arrival or a departure that stands has its ACTUAL time,
\* one taken back has none, and a node has one ACTUAL time of a kind.
THEOREM FactsAreTheirEvents == Spec => []FactsAreEvents
<1>1. IInv => FactsAreEvents
  BY DEF IInv
<1> QED BY <1>1, Invariance, PTL

\* SingleCaller: two requests call one arrival's trigger only after the lease
\* of one ran out.
THEOREM OneCallsTheTrigger == Spec => []SingleCaller
<1>1. IInv => SingleCaller
  BY DEF IInv, ClaimsOK
<1> QED BY <1>1, Invariance, PTL

-----------------------------------------------------------------------------
(* What a step that records a position did.                                *)

LEMMA SameTimeline ==
    ASSUME NEW c, NEW e, c.facts = e.facts, c.skips = e.skips
    PROVE  /\ Open(c) = Open(e) /\ Executed(c) = Executed(e)
           /\ Consistent(c) <=> Consistent(e)
           /\ TargetNode(c) = TargetNode(e) /\ CurrentNode(c) = CurrentNode(e)
<1>1. \A n, type : Has(c, n, type) <=> Has(e, n, type)
  BY DEF Has
<1>2. Open(c) = Open(e)
  BY <1>1 DEF Open
<1>3. Executed(c) = Executed(e)
  BY <1>1 DEF Executed
<1> QED BY <1>2, <1>3 DEF Consistent, TargetNode, CurrentNode

LEMMA StoodIs ==
    ASSUME TripOK, NEW c \in ContextRecord, Remembers(c), AsExpected(c), Records(c) \/ Records(Context)
    PROVE  Permits(Context) /\ Records(Context) /\ capability = c.capability
<1>1. Permits(Context) /\ Records(Context)
  BY DEF AsExpected
<1>2. \A k \in Kinds : capability[k] = c.capability[k]
  BY DEF AsExpected, Remembers
<1>3. capability \in Capability /\ c.capability \in Capability
  BY DEF TripOK, ContextRecord
<1> QED BY <1>1, <1>2, <1>3 DEF Capability

\* The position a new event records: decided by p on a context that is still
\* what the trip is, and under permissions that stood.
Recorded(p, w) ==
    LET d == decideExecutionLocation(w.context, w.place)
    IN /\ work[p] = w /\ w.pc = "observed"
       /\ w.at > watermark /\ watermark' = w.at
       /\ Stood(p)
       /\ w.context.facts = facts /\ w.context.skips = skips
       /\ suppressed \subseteq w.context.suppressed
       /\ Consistent(w.context)
       /\ DecisionFits(w.context, w.place, d) /\ d.type # "NONE"
       /\ \A i \in NewLocationEvents :
            events'[i].node = d.node /\ events'[i].type = d.type /\ events'[i].at = w.at

LEMMA CommitRecords ==
    ASSUME IInv, NEW p \in Procs, CommitLocation(p)
    PROVE  /\ watermark' >= watermark
           /\ NewLocationEvents = {} \/ \E w \in WorkRecord : Recorded(p, w)
<1>1. PICK w \in WorkRecord :
         /\ work[p] = w /\ WorkOK(w) /\ (w.pc # "calling" => w.token = 0)
         /\ w.context \in ContextRecord /\ Remembers(w.context)
  BY AtWork
<1>2. TripOK /\ watermark \in Nat /\ version \in Nat /\ w.at \in Nat /\ w.pc = "observed"
  BY <1>1 DEF IInv, TypeOK, TripOK, CommitLocation, WorkRecord
<1>3. CASE UNCHANGED trip
  BY <1>2, <1>3 DEF trip, NewLocationEvents
<1>4. CASE ~UNCHANGED trip
  <2> DEFINE d == decideExecutionLocation(w.context, w.place)
             records == Records(w.context) /\ d.type # "NONE"
             standing == IF records THEN ActiveEvents(d.node, d.type) ELSE {}
             creates == records /\ standing = {}
  <2>1. /\ AsExpected(w.context) /\ Unchanged(p)
        /\ watermark' = w.at
        /\ creates => CreateFact(d.node, d.type, "LOCATION", w.at, d.skipped)
        /\ ~creates => UNCHANGED events
    BY <1>1, <1>4 DEF CommitLocation
  <2>2. w.at > w.context.watermark /\ watermark = w.context.watermark /\ version = w.context.version
    BY <1>1, <1>2, <2>1 DEF WorkOK, Unchanged
  <2>3. CASE ~creates
    BY <1>2, <2>1, <2>2, <2>3 DEF NewLocationEvents
  <2>4. CASE creates
    <3>1. Stood(p)
      BY <1>1, <1>2, <2>1, <2>4, StoodIs DEF Stood
    <3>2. /\ w.context.facts = facts /\ w.context.skips = skips
          /\ suppressed \subseteq w.context.suppressed
          /\ Consistent(w.context)
      BY <1>1, <1>2, <2>2 DEF Remembers, WorkOK
    <3>3. DecisionFits(w.context, w.place, d) /\ d.type # "NONE"
      BY <1>1, <2>4, DecisionIs DEF WorkRecord
    <3>4. d.node \in Nodes /\ d.type \in {"ARRIVAL", "DEPARTURE"}
      BY <3>3 DEF DecisionFits
    <3> HIDE DEF d
    <3> DEFINE e == NewEvent(d.node, d.type, "LOCATION", w.at)
    <3>5. e \in EventRecord /\ e.node = d.node /\ e.type = d.type /\ e.at = w.at
      BY <1>2, <3>4, NewEventIs
    <3>6. events' = Append(events, e)
      BY <2>1, <2>4 DEF CreateFact
    <3> HIDE DEF e
    <3>7. \A i \in NewLocationEvents : events'[i] = e
      BY <1>2, <3>5, <3>6, Appended DEF NewLocationEvents
    <3> QED BY <1>1, <1>2, <2>1, <2>2, <3>1, <3>2, <3>3, <3>5, <3>7 DEF Recorded, d
  <2> QED BY <2>3, <2>4
<1> QED BY <1>3, <1>4

LEMMA NoneRecorded ==
    ASSUME DOMAIN events' = DOMAIN events, watermark' = watermark
    PROVE  NewLocationEvents = {} /\ watermark' = watermark
BY DEF NewLocationEvents

LEMMA ManualRecordsNone ==
    ASSUME IInv, NEW p \in Procs, CommitManual(p)
    PROVE  NewLocationEvents = {} /\ watermark' = watermark
<1>1. PICK w \in WorkRecord : work[p] = w /\ WorkOK(w)
  BY DEF IInv, TypeOK
<1>2. TripOK /\ w.pc = "confirmed" /\ w.node \in Nodes /\ w.type \in {"ARRIVAL", "DEPARTURE", "SKIP_CONFIRMED"}
  BY <1>1 DEF IInv, TypeOK, CommitManual, WorkOK, WorkRecord
<1>3. watermark' = watermark
  BY DEF CommitManual, trip
<1>4. CASE UNCHANGED events
  BY <1>3, <1>4, NoneRecorded
<1>5. CASE events' = Append(events, NewEvent(w.node, w.type, "MANUAL", 0))
  <2> DEFINE e == NewEvent(w.node, w.type, "MANUAL", 0)
  <2>1. e \in EventRecord /\ e.source = "MANUAL"
    BY <1>2, NewEventIs
  <2> HIDE DEF e
  <2>2. events' = Append(events, e)
    BY <1>5 DEF e
  <2>3. \A i \in DOMAIN events' \ DOMAIN events : events'[i].source = "MANUAL"
    BY <1>2, <2>1, <2>2, Appended
  <2> QED BY <1>3, <2>3 DEF NewLocationEvents
<1> QED BY <1>1, <1>4, <1>5 DEF CommitManual, CreateFact, trip

LEMMA StepRecords ==
    ASSUME IInv, Next
    PROVE  /\ watermark' >= watermark
           /\ NewLocationEvents = {} \/ \E p \in Procs : \E w \in WorkRecord : Recorded(p, w)
<1>1. watermark \in Nat /\ TripOK
  BY DEF IInv, TypeOK, TripOK
<1>2. CASE \E p \in Procs : CommitLocation(p)
  BY <1>2, CommitRecords
<1>3. CASE \E p \in Procs : CommitManual(p)
  BY <1>1, <1>3, ManualRecordsNone
<1>4. ASSUME NEW p \in Procs, ReadContext(p) \/ Replay(p) \/ Claim(p) \/ Settle(p)
      PROVE  DOMAIN events' = DOMAIN events /\ watermark' = watermark
  <2>1. CASE ReadContext(p) \/ Replay(p)
    BY <2>1 DEF ReadContext, Replay, trip
  <2>2. CASE Claim(p)
    BY <1>1, <2>2 DEF Claim, TripOK
  <2>3. CASE Settle(p)
    <3>1. \/ UNCHANGED events
          \/ \E done \in BOOLEAN : events' = [events EXCEPT ![Min(work[p].todo)].token = 0,
                                                            ![Min(work[p].todo)].completed = done]
      BY <2>3 DEF Settle
    <3>2. watermark' = watermark
      BY <2>3 DEF Settle
    <3> QED BY <1>1, <3>1, <3>2 DEF TripOK
  <2> QED BY <1>4, <2>1, <2>2, <2>3
<1>5. ASSUME NEW p \in Procs, Start(p)
      PROVE  DOMAIN events' = DOMAIN events /\ watermark' = watermark
  BY <1>5 DEF Start, Sample, Manual, ManualAgain, trip
<1>6. ASSUME Meanwhile
      PROVE  DOMAIN events' = DOMAIN events /\ watermark' = watermark
  <2>1. CASE \E i \in DOMAIN events : Undo(i)
    BY <1>1, <2>1 DEF Undo, TripOK
  <2>2. CASE ~ \E i \in DOMAIN events : Undo(i)
    BY <1>6, <2>2 DEF Meanwhile, Lapse, RecordActual, SetCapability, Crash, trip
  <2> QED BY <2>1, <2>2
<1> QED BY <1>1, <1>2, <1>3, <1>4, <1>5, <1>6, NoneRecorded DEF Next, Work

\* ObservedInOrder: samples take effect in the order the phone took them.
THEOREM SamplesTakeEffectInOrder == Spec => ObservedInOrder
<1>1. IInv /\ [Next]_vars =>
        [/\ watermark' >= watermark
         /\ \A i \in NewLocationEvents : events'[i].at > watermark]_vars
  BY StepRecords DEF Recorded
<1> QED BY <1>1, Invariance, PTL DEF Spec, ObservedInOrder

\* LocationFollowsOrder: a position never runs ahead of the timeline.
THEOREM PositionsFollowTheTimeline == Spec => LocationFollowsOrder
<1> DEFINE Follows ==
        \A i \in NewLocationEvents :
           /\ Consistent(Context)
           /\ IF events'[i].type = "ARRIVAL"
              THEN Open(Context) = {} /\ \A n \in Executed(Context) : n < events'[i].node
              ELSE Open(Context) = {events'[i].node}
<1>1. ASSUME IInv, Next
      PROVE  Follows
  <2> SUFFICES ASSUME NEW i \in NewLocationEvents
               PROVE  /\ Consistent(Context)
                      /\ IF events'[i].type = "ARRIVAL"
                         THEN Open(Context) = {} /\ \A n \in Executed(Context) : n < events'[i].node
                         ELSE Open(Context) = {events'[i].node}
    OBVIOUS
  <2>1. PICK p \in Procs, w \in WorkRecord : Recorded(p, w)
    BY <1>1, StepRecords
  <2> DEFINE c == w.context
             d == decideExecutionLocation(c, w.place)
  <2>2. c.facts = Context.facts /\ c.skips = Context.skips
    BY <2>1 DEF Recorded, Context
  <2>3. /\ Open(c) = Open(Context) /\ Executed(c) = Executed(Context)
        /\ Consistent(c) <=> Consistent(Context)
    BY <2>2, SameTimeline
  <2>4. Consistent(c) /\ DecisionFits(c, w.place, d) /\ d.type # "NONE"
        /\ events'[i].node = d.node /\ events'[i].type = d.type
    BY <2>1 DEF Recorded
  <2> HIDE DEF c, d
  <2>5. CASE d.type = "ARRIVAL"
    BY <2>3, <2>4, <2>5 DEF DecisionFits
  <2>6. CASE d.type # "ARRIVAL"
    <3>1. CurrentNode(c) # NoNode /\ d.node = CurrentNode(c)
      BY <2>4, <2>6 DEF DecisionFits
    <3> QED BY <2>3, <2>4, <2>6, <3>1, OneOpen
  <2> QED BY <2>5, <2>6
<1>2. IInv /\ [Next]_vars => [Follows]_vars
  BY <1>1
<1> QED BY <1>2, Invariance, PTL DEF Spec, LocationFollowsOrder

\* CorrectionStands: an arrival taken back is not recorded again, or over,
\* before the phone was seen outside.
THEOREM CorrectionsStand == Spec => CorrectionStands
<1> DEFINE Stands ==
        \A i \in NewLocationEvents : events'[i].type = "ARRIVAL" =>
           /\ events'[i].node \notin suppressed
           /\ \E p \in Procs :
                /\ DecidedBy(p, i)
                /\ TargetNode(Context) \in suppressed => Away(work[p].place, TargetNode(Context))
<1>1. ASSUME IInv, Next
      PROVE  Stands
  <2> SUFFICES ASSUME NEW i \in NewLocationEvents, events'[i].type = "ARRIVAL"
               PROVE  /\ events'[i].node \notin suppressed
                      /\ \E p \in Procs :
                           /\ DecidedBy(p, i)
                           /\ TargetNode(Context) \in suppressed
                              => Away(work[p].place, TargetNode(Context))
    OBVIOUS
  <2>1. PICK p \in Procs, w \in WorkRecord : Recorded(p, w)
    BY <1>1, StepRecords
  <2> DEFINE c == w.context
             d == decideExecutionLocation(c, w.place)
  <2>2. c.facts = Context.facts /\ c.skips = Context.skips
    BY <2>1 DEF Recorded, Context
  <2>3. TargetNode(c) = TargetNode(Context)
    BY <2>2, SameTimeline
  <2>4. /\ DecisionFits(c, w.place, d) /\ events'[i].node = d.node /\ events'[i].type = d.type
        /\ suppressed \subseteq c.suppressed
        /\ work[p] = w /\ DecidedBy(p, i)
    BY <2>1 DEF Recorded, DecidedBy
  <2> HIDE DEF c, d
  <2> QED BY <2>3, <2>4 DEF DecisionFits
<1>2. IInv /\ [Next]_vars => [Stands]_vars
  BY <1>1
<1> QED BY <1>2, Invariance, PTL DEF Spec, CorrectionStands

\* Only a claim begins the call of a trigger.
LEMMA CallingIs ==
    ASSUME IInv, Next, NEW p \in Procs, work[p].pc = "trigger", work'[p].pc = "calling"
    PROVE  Claim(p)
<1>1. work \in [Procs -> WorkRecord] /\ Idle.pc = "idle"
  BY IdleIs DEF IInv, TypeOK
<1>2. \A q \in Procs : \A w : Become(q, w) => work'[p] = IF p = q THEN w ELSE work[p]
  BY <1>1 DEF Become
<1>3. ASSUME NEW q \in Procs, q # p, \E w : Become(q, w)
      PROVE  FALSE
  BY <1>2, <1>3
<1>4. ASSUME Finish(p)
      PROVE  FALSE
  BY <1>1, <1>2, <1>4 DEF Finish
<1>5. ASSUME NEW q \in Procs, Start(q)
      PROVE  FALSE
  <2>1. q # p
    BY <1>1, <1>5 DEF Start, Sample, Manual, ManualAgain
  <2>2. \E w : Become(q, w)
    BY <1>5 DEF Start, Sample, Manual, ManualAgain, TriggerAfter, Finish
  <2> QED BY <1>3, <2>1, <2>2
<1>6. ASSUME NEW q \in Procs, Work(q)
      PROVE  Claim(p)
  <2>1. CASE q = p
    BY <1>6, <2>1 DEF Work, ReadContext, Replay, CommitLocation, CommitManual, Settle
  <2>2. CASE q # p
    <3>1. \E w : Become(q, w)
      <4>1. CASE ReadContext(q) \/ Claim(q) \/ Settle(q)
        BY <4>1 DEF ReadContext, Claim, Settle, Finish
      <4>2. CASE Replay(q)
        BY <4>2 DEF Replay, Retry, TriggerAfter, Finish
      <4>3. CASE CommitLocation(q)
        BY <4>3 DEF CommitLocation, Retry, TriggerAfter, Finish
      <4>4. CASE CommitManual(q)
        BY <4>4 DEF CommitManual, TriggerAfter, Finish
      <4> QED BY <1>6, <4>1, <4>2, <4>3, <4>4 DEF Work
    <3> QED BY <1>3, <2>2, <3>1
  <2> QED BY <2>1, <2>2
<1>7. ASSUME Meanwhile
      PROVE  FALSE
  <2>1. ASSUME NEW q \in Procs, Crash(q)
        PROVE  FALSE
    BY <1>3, <1>4, <2>1 DEF Crash, Finish
  <2>2. ASSUME ~ \E q \in Procs : Crash(q)
        PROVE  work' = work
    BY <1>7, <2>2 DEF Meanwhile, Lapse, RecordActual, SetCapability, Undo
  <2> QED BY <2>1, <2>2
<1> QED BY <1>5, <1>6, <1>7 DEF Next

\* PermissionHolds: a position is recorded, and a recorded arrival's trigger is
\* called, only under permissions that have stood since the request read them.
THEOREM PermissionsHold == Spec => PermissionHolds
<1> DEFINE Recorder == \A i \in NewLocationEvents : \E p \in Procs : DecidedBy(p, i) /\ Stood(p)
           Caller == \A p \in Procs :
                        /\ work[p].pc = "trigger" /\ work'[p].pc = "calling"
                        /\ events[Min(work[p].todo)].source = "LOCATION"
                        => Stood(p)
<1>1. ASSUME IInv, Next
      PROVE  Recorder
  BY <1>1, StepRecords DEF Recorded, DecidedBy
<1>2. ASSUME IInv, Next
      PROVE  Caller
  <2> SUFFICES ASSUME NEW p \in Procs, work[p].pc = "trigger", work'[p].pc = "calling",
                      events[Min(work[p].todo)].source = "LOCATION"
               PROVE  Stood(p)
    OBVIOUS
  <2>1. Claim(p)
    BY <1>2, CallingIs
  <2>2. PICK w \in WorkRecord : work[p] = w /\ w.context \in ContextRecord /\ Remembers(w.context)
    BY <1>2, AtWork
  <2>3. Claimable(p, Min(w.todo))
    <3> SUFFICES ASSUME ~Claimable(p, Min(w.todo))
                 PROVE  FALSE
      OBVIOUS
    <3>1. Become(p, IF w.todo = {Min(w.todo)} THEN Idle ELSE [w EXCEPT !.todo = w.todo \ {Min(w.todo)}])
      BY <2>1, <2>2 DEF Claim
    <3>2. work'[p] \in {Idle, [w EXCEPT !.todo = w.todo \ {Min(w.todo)}]}
      BY <1>2, <3>1 DEF Become, IInv, TypeOK
    <3>3. Idle.pc = "idle" /\ [w EXCEPT !.todo = w.todo \ {Min(w.todo)}].pc = w.pc
      BY DEF Idle, WorkRecord
    <3> QED BY <2>2, <3>2, <3>3
  <2>4. AsExpected(w.context) /\ Records(Context)
    BY <2>2, <2>3 DEF Claimable
  <2> QED BY <1>2, <2>2, <2>4, StoodIs DEF Stood, IInv, TypeOK
<1>3. IInv /\ [Next]_vars => [Recorder /\ Caller]_vars
  BY <1>1, <1>2
<1> QED BY <1>3, Invariance, PTL DEF Spec, PermissionHolds
=============================================================================
