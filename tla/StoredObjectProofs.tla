------------------------- MODULE StoredObjectProofs -------------------------
(***************************************************************************)
(* Proofs about StoredObject, for any objects, processes, quota and number *)
(* of faults.                                                              *)
(*                                                                         *)
(* What a process holds is described from the rows' side: whoever cleans an *)
(* object cleans a dead one, under an attempt not newer than the row's.    *)
(* Rows only move forward, so what one process holds survives what the     *)
(* others do (OthersKept), and each action is left with its own process    *)
(* and object.                                                             *)
(***************************************************************************)
EXTENDS StoredObject, TLAPS

\* o is dead, and attempt was claimed on it.
Good(o, attempt) == /\ o \in Objects
                    /\ row[o].state \in Dead
                    /\ attempt <= row[o].attempts

HandOK(p) == /\ pr[p].pc \in Cleaning => Good(pr[p].obj, pr[p].attempt)
             /\ \A c \in pr[p].claims : Good(c.obj, c.attempt)
             /\ pr[p].pc \in {"reclaim", "marked"} => p \in Objects \/ pr[p].obj \in Objects

\* The upload of o writes no more, and has not been cut off.
Over(o) == pr[o].pc \in Cleaning \cup {"done"}

\* Behind a cleanup at the row's own attempt nothing is left once the upload is over.
CleanOK(p) ==
    LET o == pr[p].obj IN
    /\ pr[p].pc \in {"rmPartial", "complete"}
    /\ pr[p].attempt = row[o].attempts
    /\ Over(o)
    => /\ ~file[o].object
       /\ pr[p].pc = "complete" => ~file[o].partial

ObjOK(o) == /\ row[o].gone => row[o].state \in Dead
            /\ row[o].state = "ABSENT" <=> pr[o].pc = "idle"
            /\ row[o].state = "READY" => file[o].object
            /\ pr[o].pc = "stored" /\ row[o].state \notin Dead => file[o].object
            /\ row[o].gone /\ Over(o) => ~file[o].object /\ ~file[o].partial

IInv == /\ TypeOK
        /\ \A p \in Procs : HandOK(p) /\ CleanOK(p)
        /\ \A o \in Objects : ObjOK(o)

-----------------------------------------------------------------------------
(* One step, seen from a row, a file and a process.                        *)

Forward(o) == /\ row'[o].state \in Successors(row[o].state)
              /\ row'[o].attempts >= row[o].attempts

\* Whoever else cleans o can go on believing what it knows.
Calm(o) == \/ row[o].state \notin Dead
           \/ row'[o].attempts > row[o].attempts
           \/ /\ row'[o].attempts = row[o].attempts
              /\ Over(o)' => /\ Over(o)
                             /\ file'[o].object => file[o].object
                             /\ file'[o].partial => file[o].partial

StepOK == /\ TypeOK'
          /\ \A o \in Objects : Forward(o) /\ Calm(o) /\ ObjOK(o)'
          /\ \A q \in Procs : \/ pr'[q] = pr[q]
                              \/ HandOK(q)' /\ CleanOK(q)'

USE StoredObjectAssumption DEF StoredObjectAssumption, Procs

\* A dead row stays dead.
LEMMA DeadStaysDead ==
    ASSUME NEW o \in Objects, TypeOK, Forward(o), row[o].state \in Dead
    PROVE  row'[o].state \in Dead
BY DEF Forward, Successors, Dead, TypeOK, Row, States

\* What was good to hold stays so.
LEMMA GoodKept ==
    ASSUME TypeOK, TypeOK', \A o \in Objects : Forward(o), NEW o, NEW a \in Nat, Good(o, a)
    PROVE  Good(o, a)'
<1>1. o \in Objects /\ row'[o].state \in Dead
  BY DeadStaysDead DEF Good
<1>2. row[o].attempts \in Nat /\ row'[o].attempts \in Nat
  BY <1>1 DEF TypeOK, Row
<1> QED BY <1>1, <1>2 DEF Good, Forward

\* A process that does not move keeps what it holds.
LEMMA OthersKept ==
    ASSUME NEW q \in Procs, TypeOK, TypeOK', HandOK(q), CleanOK(q), pr'[q] = pr[q],
           \A o \in Objects : Forward(o) /\ Calm(o)
    PROVE  HandOK(q)' /\ CleanOK(q)'
<1>1. ASSUME NEW o, NEW a \in Nat, Good(o, a)
      PROVE  Good(o, a)'
  BY <1>1, GoodKept
<1>2. pr[q] \in Proc
  BY DEF TypeOK
<1>3. HandOK(q)'
  <2>1. \A c \in pr[q].claims : c.obj \in Objects /\ c.attempt \in Nat
    BY <1>2 DEF Proc, Claim
  <2>2. pr[q].attempt \in Nat
    BY <1>2 DEF Proc
  <2>3. pr'[q].pc \in Cleaning => Good(pr[q].obj, pr[q].attempt)'
    BY <1>1, <2>2 DEF HandOK, Good
  <2>4. \A c \in pr[q].claims : Good(c.obj, c.attempt)'
    BY <1>1, <2>1 DEF HandOK
  <2> QED BY <2>3, <2>4 DEF HandOK, Good
<1>4. CleanOK(q)'
  <2> DEFINE o == pr[q].obj
  <2> SUFFICES ASSUME pr[q].pc \in {"rmPartial", "complete"}, pr[q].attempt = row'[o].attempts, Over(o)'
               PROVE  ~file'[o].object /\ (pr[q].pc = "complete" => ~file'[o].partial)
    BY DEF CleanOK
  <2>1. o \in Objects /\ row[o].state \in Dead /\ pr[q].attempt <= row[o].attempts
    BY DEF HandOK, Good, Cleaning
  <2>2. row[o].attempts \in Nat /\ row'[o].attempts \in Nat /\ pr[q].attempt \in Nat
    BY <2>1, <1>2 DEF TypeOK, Row, Proc
  <2>3. Calm(o)
    BY <2>1
  <2>4. row'[o].attempts = row[o].attempts
    BY <2>1, <2>2, <2>3 DEF Calm
  <2>5. Over(o) /\ (file'[o].object => file[o].object) /\ (file'[o].partial => file[o].partial)
    BY <2>1, <2>2, <2>3, <2>4 DEF Calm
  <2>6. ~file[o].object /\ (pr[q].pc = "complete" => ~file[o].partial)
    BY <2>4, <2>5 DEF CleanOK
  <2> QED BY <2>5, <2>6
<1> QED BY <1>3, <1>4

\* So a step of p that leaves its own process and the objects well keeps the invariant.
LEMMA StepKeeps ==
    ASSUME IInv, StepOK
    PROVE  IInv'
<1>1. ASSUME NEW q \in Procs
      PROVE  HandOK(q)' /\ CleanOK(q)'
  <2>1. CASE HandOK(q)' /\ CleanOK(q)'
    BY <2>1
  <2>2. CASE pr'[q] = pr[q]
    BY <2>2, OthersKept DEF StepOK, IInv
  <2> QED BY <2>1, <2>2 DEF StepOK
<1> QED BY <1>1 DEF StepOK, IInv

-----------------------------------------------------------------------------
(* Updates, field by field.                                                *)

\* Only the program counter of p moves.
LEMMA GotoIs ==
    ASSUME TypeOK, NEW p \in Procs, NEW pc \in PCs, Goto(p, pc)
    PROVE  /\ pr' \in [Procs -> Proc]
           /\ \A q \in Procs : q # p => pr'[q] = pr[q]
           /\ pr'[p].pc = pc /\ pr'[p].claims = pr[p].claims
           /\ pr'[p].obj = pr[p].obj /\ pr'[p].attempt = pr[p].attempt
<1> DEFINE v == [pc |-> pc, claims |-> pr[p].claims, obj |-> pr[p].obj, attempt |-> pr[p].attempt]
<1>1. pr[p] \in Proc
  BY DEF TypeOK
<1>2. v \in Proc
  BY <1>1 DEF Proc
<1>3. [pr[p] EXCEPT !.pc = pc] = v
  BY <1>1 DEF Proc
<1>4. pr' = [pr EXCEPT ![p] = v]
  BY <1>3 DEF Goto
<1>5. /\ v.pc = pc /\ v.claims = pr[p].claims
      /\ v.obj = pr[p].obj /\ v.attempt = pr[p].attempt
  OBVIOUS
<1> HIDE DEF v
<1> QED BY <1>2, <1>4, <1>5 DEF TypeOK

\* p is given a record.
LEMMA SetIs ==
    ASSUME TypeOK, NEW p \in Procs, NEW v \in Proc, pr' = [pr EXCEPT ![p] = v]
    PROVE  /\ pr' \in [Procs -> Proc]
           /\ \A q \in Procs : q # p => pr'[q] = pr[q]
           /\ pr'[p] = v
BY DEF TypeOK

\* p lets everything go.
LEMMA RestIs ==
    ASSUME TypeOK, NEW p \in Procs, NEW pc \in PCs, Rest(p, pc)
    PROVE  /\ pr' \in [Procs -> Proc]
           /\ \A q \in Procs : q # p => pr'[q] = pr[q]
           /\ pr'[p].pc = pc /\ pr'[p].claims = {}
<1>1. Resting(pc) \in Proc
  BY DEF Resting, Proc
<1> QED BY <1>1, SetIs DEF Rest, Resting

\* The state of a row moves.
LEMMA StateIs ==
    ASSUME TypeOK, NEW o \in Objects, NEW s \in States, row' = [row EXCEPT ![o].state = s]
    PROVE  /\ row' \in [Objects -> Row]
           /\ \A q \in Objects : q # o => row'[q] = row[q]
           /\ row'[o].state = s /\ row'[o].gone = row[o].gone
           /\ row'[o].attempts = row[o].attempts
<1> DEFINE r == [state |-> s, stale |-> row[o].stale, gone |-> row[o].gone,
                 attempts |-> row[o].attempts, next |-> row[o].next]
<1>1. row[o] \in Row
  BY DEF TypeOK
<1>2. r \in Row /\ [row[o] EXCEPT !.state = s] = r
  BY <1>1 DEF Row
<1>3. row' = [row EXCEPT ![o] = r]
  BY <1>2
<1>4. r.state = s /\ r.gone = row[o].gone /\ r.attempts = row[o].attempts
  OBVIOUS
<1> HIDE DEF r
<1> QED BY <1>2, <1>3, <1>4 DEF TypeOK

\* A claim.
LEMMA ClaimedIs ==
    ASSUME NEW r \in Row
    PROVE  /\ ClaimedRow(r) \in Row
           /\ ClaimedRow(r).state = IF r.state = "PENDING" THEN "FAILED" ELSE r.state
           /\ ClaimedRow(r).gone = FALSE
           /\ ClaimedRow(r).attempts = r.attempts + 1
<1> DEFINE s == IF r.state = "PENDING" THEN "FAILED" ELSE r.state
           a == r.attempts + 1
<1>1. s \in States /\ a \in Nat
  BY DEF Row, States
<1>2. ClaimedRow(r) = [r EXCEPT !.state = s, !.gone = FALSE, !.attempts = a, !.next = "later"]
  BY DEF ClaimedRow
<1> HIDE DEF s, a
<1> SUFFICES /\ ClaimedRow(r) \in Row
             /\ ClaimedRow(r).state = s
             /\ ClaimedRow(r).gone = FALSE
             /\ ClaimedRow(r).attempts = a
  BY DEF s, a
<1> QED BY <1>1, <1>2 DEF Row

\* A row that stays is a step forward.
LEMMA RowStays ==
    ASSUME TypeOK, NEW o \in Objects, row'[o] = row[o]
    PROVE  Forward(o)
BY DEF TypeOK, Row, States, Forward, Successors

-----------------------------------------------------------------------------
(* Steps that leave the rows alone.                                        *)

LEMMA OpenPartialOK == ASSUME IInv, NEW o \in Objects, OpenPartial(o) PROVE StepOK
<1>1. Goto(o, "writing") /\ pr[o].pc = "reserved" /\ UNCHANGED <<row, faults>>
  BY DEF OpenPartial
<1>2. /\ pr' \in [Procs -> Proc]
      /\ \A q \in Procs : q # o => pr'[q] = pr[q]
      /\ pr'[o].pc = "writing" /\ pr'[o].claims = pr[o].claims
      /\ pr'[o].obj = pr[o].obj /\ pr'[o].attempt = pr[o].attempt
  BY <1>1, GotoIs DEF IInv, PCs
<1>3. /\ file' \in [Objects -> File]
      /\ file'[o].object = file[o].object
      /\ \A q \in Objects : q # o => file'[q] = file[q]
  BY DEF OpenPartial, IInv, TypeOK, File
<1>4. TypeOK'
  BY <1>1, <1>2, <1>3 DEF IInv, TypeOK
<1>5. ASSUME NEW q \in Objects PROVE Forward(q) /\ Calm(q)
  BY <1>1, <1>2, <1>3, RowStays DEF IInv, Calm, Over, Cleaning
<1>6. ASSUME NEW q \in Objects PROVE ObjOK(q)'
  BY <1>1, <1>2, <1>3 DEF IInv, ObjOK, Over, Cleaning
<1>7. HandOK(o)' /\ CleanOK(o)'
  BY <1>1, <1>2 DEF IInv, HandOK, Good, CleanOK, Cleaning
<1> QED BY <1>2, <1>4, <1>5, <1>6, <1>7 DEF StepOK

LEMMA RenameOK == ASSUME IInv, NEW o \in Objects, Rename(o) PROVE StepOK
<1>1. pr[o].pc = "writing" /\ UNCHANGED <<row, faults>>
  BY DEF Rename
<1>2. PICK pc \in {"stored", "failing"} :
        /\ Goto(o, pc)
        /\ file' \in [Objects -> File]
        /\ pc = "stored" => file'[o].object
        /\ \A q \in Objects : q # o => file'[q] = file[q]
        /\ pc = "failing" => file' = file
  <2>1. [object |-> TRUE, partial |-> FALSE] \in File
    BY DEF File
  <2>2. CASE file[o].partial
    <3>1. Goto(o, "stored") /\ file' = [file EXCEPT ![o] = [object |-> TRUE, partial |-> FALSE]]
      BY <2>2 DEF Rename
    <3> QED BY <2>1, <3>1 DEF IInv, TypeOK
  <2>3. CASE ~file[o].partial
    BY <2>3 DEF Rename, IInv, TypeOK
  <2> QED BY <2>2, <2>3
<1>3. /\ pr' \in [Procs -> Proc]
      /\ \A q \in Procs : q # o => pr'[q] = pr[q]
      /\ pr'[o].pc = pc /\ pr'[o].claims = pr[o].claims
      /\ pr'[o].obj = pr[o].obj /\ pr'[o].attempt = pr[o].attempt
  BY <1>2, GotoIs DEF IInv, PCs
<1>4. TypeOK'
  BY <1>1, <1>2, <1>3 DEF IInv, TypeOK
<1>5. ASSUME NEW q \in Objects PROVE Forward(q) /\ Calm(q)
  BY <1>1, <1>2, <1>3, RowStays DEF IInv, Calm, Over, Cleaning
<1>6. ASSUME NEW q \in Objects PROVE ObjOK(q)'
  BY <1>1, <1>2, <1>3 DEF IInv, ObjOK, Over, Cleaning
<1>7. HandOK(o)' /\ CleanOK(o)'
  BY <1>1, <1>2, <1>3 DEF IInv, HandOK, Good, CleanOK, Cleaning
<1> QED BY <1>3, <1>4, <1>5, <1>6, <1>7 DEF StepOK

LEMMA WriteFailsOK == ASSUME IInv, NEW o \in Objects, WriteFails(o) PROVE StepOK
<1>1. /\ Goto(o, "failing") /\ pr[o].pc = "writing" /\ UNCHANGED row /\ faults' \in Nat
  BY DEF WriteFails, Fault, IInv, TypeOK
<1>2. /\ pr' \in [Procs -> Proc]
      /\ \A q \in Procs : q # o => pr'[q] = pr[q]
      /\ pr'[o].pc = "failing" /\ pr'[o].claims = pr[o].claims
      /\ pr'[o].obj = pr[o].obj /\ pr'[o].attempt = pr[o].attempt
  BY <1>1, GotoIs DEF IInv, PCs
<1>3. /\ file' \in [Objects -> File]
      /\ file'[o].object = file[o].object
      /\ \A q \in Objects : q # o => file'[q] = file[q]
  <2> PICK removed \in BOOLEAN :
             file' = IF removed THEN [file EXCEPT ![o].partial = FALSE] ELSE file
    BY DEF WriteFails
  <2> QED BY DEF IInv, TypeOK, File
<1>4. TypeOK'
  BY <1>1, <1>2, <1>3 DEF IInv, TypeOK
<1>5. ASSUME NEW q \in Objects PROVE Forward(q) /\ Calm(q)
  BY <1>1, <1>2, <1>3, RowStays DEF IInv, Calm, Over, Cleaning
<1>6. ASSUME NEW q \in Objects PROVE ObjOK(q)'
  BY <1>1, <1>2, <1>3 DEF IInv, ObjOK, Over, Cleaning
<1>7. HandOK(o)' /\ CleanOK(o)'
  BY <1>1, <1>2 DEF IInv, HandOK, Good, CleanOK, Cleaning
<1> QED BY <1>2, <1>4, <1>5, <1>6, <1>7 DEF StepOK

\* Removals: nothing but a file goes, and its object is dead.
LEMMA RemoveObjectOK == ASSUME IInv, NEW p \in Procs, RemoveObject(p) PROVE StepOK
<1> DEFINE o == pr[p].obj
<1>1. Goto(p, "rmPartial") /\ pr[p].pc = "rmObject" /\ UNCHANGED <<row, faults>>
  BY DEF RemoveObject
<1>2. /\ pr' \in [Procs -> Proc]
      /\ \A q \in Procs : q # p => pr'[q] = pr[q]
      /\ pr'[p].pc = "rmPartial" /\ pr'[p].claims = pr[p].claims
      /\ pr'[p].obj = pr[p].obj /\ pr'[p].attempt = pr[p].attempt
  BY <1>1, GotoIs DEF IInv, PCs, Cleaning
<1>3. Good(o, pr[p].attempt)
  BY <1>1 DEF IInv, HandOK, Cleaning
<1>4. o \in Objects /\ row[o].state \in Dead
  BY <1>3 DEF Good
<1>5. /\ file' \in [Objects -> File]
      /\ ~file'[o].object /\ file'[o].partial = file[o].partial
      /\ \A q \in Objects : q # o => file'[q] = file[q]
  BY <1>4 DEF RemoveObject, IInv, TypeOK, File
<1>6. TypeOK'
  BY <1>1, <1>2, <1>5 DEF IInv, TypeOK
<1>7. ASSUME NEW q \in Objects PROVE Forward(q) /\ Calm(q)
  BY <1>1, <1>2, <1>5, RowStays DEF IInv, Calm, Over, Cleaning
<1>8. ASSUME NEW q \in Objects PROVE ObjOK(q)'
  <2>1. q \in Procs /\ ObjOK(q)
    BY DEF IInv
  <2>2. Over(q)' <=> Over(q)
    BY <1>1, <1>2, <2>1 DEF Over, Cleaning
  <2>3. pr'[q].pc = "stored" <=> pr[q].pc = "stored"
    BY <1>1, <1>2, <2>1
  <2>4. pr'[q].pc = "idle" <=> pr[q].pc = "idle"
    BY <1>1, <1>2, <2>1
  <2>5. CASE q = o
    BY <1>1, <1>4, <1>5, <2>1, <2>2, <2>3, <2>4, <2>5 DEF ObjOK, Dead
  <2>6. CASE q # o
    BY <1>1, <1>5, <2>1, <2>2, <2>3, <2>4, <2>6 DEF ObjOK
  <2> QED BY <2>5, <2>6
<1>9. HandOK(p)' /\ CleanOK(p)'
  BY <1>1, <1>2, <1>3, <1>5 DEF IInv, HandOK, Good, CleanOK, Cleaning
<1> QED BY <1>2, <1>6, <1>7, <1>8, <1>9 DEF StepOK

LEMMA RemovePartialOK == ASSUME IInv, NEW p \in Procs, RemovePartial(p) PROVE StepOK
<1> DEFINE o == pr[p].obj
<1>1. Goto(p, "complete") /\ pr[p].pc = "rmPartial" /\ UNCHANGED <<row, faults>>
  BY DEF RemovePartial
<1>2. /\ pr' \in [Procs -> Proc]
      /\ \A q \in Procs : q # p => pr'[q] = pr[q]
      /\ pr'[p].pc = "complete" /\ pr'[p].claims = pr[p].claims
      /\ pr'[p].obj = pr[p].obj /\ pr'[p].attempt = pr[p].attempt
  BY <1>1, GotoIs DEF IInv, PCs, Cleaning
<1>3. Good(o, pr[p].attempt)
  BY <1>1 DEF IInv, HandOK, Cleaning
<1>4. o \in Objects /\ row[o].state \in Dead
  BY <1>3 DEF Good
<1>5. /\ file' \in [Objects -> File]
      /\ file'[o].object = file[o].object /\ ~file'[o].partial
      /\ \A q \in Objects : q # o => file'[q] = file[q]
  BY <1>4 DEF RemovePartial, IInv, TypeOK, File
<1>6. TypeOK'
  BY <1>1, <1>2, <1>5 DEF IInv, TypeOK
<1>7. ASSUME NEW q \in Objects PROVE Forward(q) /\ Calm(q)
  BY <1>1, <1>2, <1>5, RowStays DEF IInv, Calm, Over, Cleaning
<1>8. ASSUME NEW q \in Objects PROVE ObjOK(q)' /\ (Over(q)' <=> Over(q))
  <2>1. q \in Procs /\ ObjOK(q)
    BY DEF IInv
  <2>2. Over(q)' <=> Over(q)
    BY <1>1, <1>2, <2>1 DEF Over, Cleaning
  <2>3. pr'[q].pc = "stored" <=> pr[q].pc = "stored"
    BY <1>1, <1>2, <2>1
  <2>4. pr'[q].pc = "idle" <=> pr[q].pc = "idle"
    BY <1>1, <1>2, <2>1
  <2> QED BY <1>1, <1>5, <2>1, <2>2, <2>3, <2>4 DEF ObjOK
<1>9. HandOK(p)'
  BY <1>1, <1>2, <1>3 DEF IInv, HandOK, Good
<1>10. CleanOK(p)'
  BY <1>1, <1>2, <1>4, <1>5, <1>8 DEF IInv, CleanOK
<1> QED BY <1>2, <1>6, <1>7, <1>8, <1>9, <1>10 DEF StepOK

LEMMA RemoveFailsOK == ASSUME IInv, NEW p \in Procs, RemoveFails(p) PROVE StepOK
<1>1. /\ Goto(p, "failClean") /\ pr[p].pc \in {"rmObject", "rmPartial"}
      /\ UNCHANGED <<row, file>> /\ faults' \in Nat
  BY DEF RemoveFails, Fault, IInv, TypeOK
<1>2. /\ pr' \in [Procs -> Proc]
      /\ \A q \in Procs : q # p => pr'[q] = pr[q]
      /\ pr'[p].pc = "failClean" /\ pr'[p].claims = pr[p].claims
      /\ pr'[p].obj = pr[p].obj /\ pr'[p].attempt = pr[p].attempt
  BY <1>1, GotoIs DEF IInv, PCs, Cleaning
<1>3. TypeOK'
  BY <1>1, <1>2 DEF IInv, TypeOK
<1>4. ASSUME NEW q \in Objects PROVE Forward(q) /\ Calm(q)
  BY <1>1, <1>2, RowStays DEF IInv, Calm, Over, Cleaning
<1>5. ASSUME NEW q \in Objects PROVE ObjOK(q)'
  BY <1>1, <1>2 DEF IInv, ObjOK, Over, Cleaning
<1>6. HandOK(p)' /\ CleanOK(p)'
  BY <1>1, <1>2 DEF IInv, HandOK, Good, CleanOK, Cleaning
<1> QED BY <1>2, <1>3, <1>4, <1>5, <1>6 DEF StepOK

-----------------------------------------------------------------------------
(* Ends of requests, and the next claim of a batch.                        *)

\* What NextClaim leaves in the hands of p, it held before.
LEMMA NextClaimIs ==
    ASSUME TypeOK, NEW p \in Procs, NextClaim(p)
    PROVE  /\ pr' \in [Procs -> Proc]
           /\ \A q \in Procs : q # p => pr'[q] = pr[q]
           /\ pr'[p].pc \in {"rmObject", "done", "idle"}
           /\ pr'[p].pc = "idle" => p \in Reconcilers
           /\ \A c \in pr'[p].claims : c \in pr[p].claims
           /\ pr'[p].pc = "rmObject" =>
                \E c \in pr[p].claims : pr'[p].obj = c.obj /\ pr'[p].attempt = c.attempt
<1>1. CASE pr[p].claims = {}
  <2>1. PICK pc \in {"done", "idle"} : Rest(p, pc) /\ (pc = "idle" => p \in Reconcilers)
    BY <1>1 DEF NextClaim
  <2> QED BY <2>1, RestIs DEF PCs
<1>2. CASE pr[p].claims # {}
  <2>1. PICK c \in pr[p].claims :
          pr' = [pr EXCEPT ![p] = [pc |-> "rmObject", obj |-> c.obj, attempt |-> c.attempt,
                                   claims |-> pr[p].claims \ {c}]]
    BY <1>2 DEF NextClaim
  <2> DEFINE v == [pc |-> "rmObject", obj |-> c.obj, attempt |-> c.attempt,
                   claims |-> pr[p].claims \ {c}]
  <2>2. pr[p] \in Proc
    BY DEF TypeOK
  <2>3. c.obj \in Objects /\ c.attempt \in Nat
    BY <2>2 DEF Proc, Claim
  <2>4. v \in Proc
    BY <2>2, <2>3 DEF Proc, PCs, Cleaning
  <2>5. /\ pr' \in [Procs -> Proc]
        /\ \A q \in Procs : q # p => pr'[q] = pr[q]
        /\ pr'[p] = v
    BY <2>1, <2>4, SetIs
  <2> QED BY <2>5
<1> QED BY <1>1, <1>2

\* So p goes on with good claims.
LEMMA NextClaimGood ==
    ASSUME IInv, TypeOK', \A o \in Objects : Forward(o), NEW p \in Procs, NextClaim(p)
    PROVE  HandOK(p)' /\ CleanOK(p)'
<1>1. ASSUME NEW c \in pr[p].claims
      PROVE  Good(c.obj, c.attempt)'
  <2>1. c.attempt \in Nat
    BY DEF IInv, TypeOK, Proc, Claim
  <2>2. Good(c.obj, c.attempt)
    BY DEF IInv, HandOK
  <2> QED BY <2>1, <2>2, GoodKept DEF IInv
<1> /\ pr'[p].pc \in {"rmObject", "done", "idle"}
    /\ \A c \in pr'[p].claims : c \in pr[p].claims
    /\ pr'[p].pc = "rmObject" =>
         \E c \in pr[p].claims : pr'[p].obj = c.obj /\ pr'[p].attempt = c.attempt
  BY NextClaimIs DEF IInv
<1>2. pr'[p].pc \in Cleaning => Good(pr[p].obj, pr[p].attempt)'
  BY <1>1 DEF Cleaning, Good
<1>3. \A c \in pr'[p].claims : Good(c.obj, c.attempt)'
  BY <1>1 DEF Good
<1>4. pr'[p].pc \notin {"reclaim", "marked", "rmPartial", "complete"}
  OBVIOUS
<1>5. HandOK(p)'
  BY <1>2, <1>3, <1>4 DEF HandOK, Good
<1>6. CleanOK(p)'
  BY <1>4 DEF CleanOK
<1> QED BY <1>5, <1>6

\* An upload that ends here was over, or its object is not dead.
LEMMA CrashOK == ASSUME IInv, NEW p \in Procs, Crash(p) PROVE StepOK
<1>1. /\ pr[p].pc \notin {"idle", "done", "abandoned"}
      /\ UNCHANGED <<row, file>> /\ faults' \in Nat
  BY DEF Crash, Fault, IInv, TypeOK
<1>2. PICK pc \in {"idle", "done", "abandoned"} :
        /\ Rest(p, pc)
        /\ pc = "idle" => p \in Reconcilers
        /\ p \in Objects /\ row[p].state \in Dead => pc = "abandoned"
  BY DEF Crash, Ended
<1>3. /\ pr' \in [Procs -> Proc]
      /\ \A q \in Procs : q # p => pr'[q] = pr[q]
      /\ pr'[p].pc = pc /\ pr'[p].claims = {}
  BY <1>2, RestIs DEF IInv, PCs
<1>4. TypeOK'
  BY <1>1, <1>3 DEF IInv, TypeOK
<1>5. ASSUME NEW q \in Objects PROVE Forward(q) /\ Calm(q)
  BY <1>1, <1>2, <1>3, RowStays DEF IInv, Calm, Over, Cleaning
<1>6. ASSUME NEW q \in Objects PROVE ObjOK(q)'
  BY <1>1, <1>2, <1>3 DEF IInv, ObjOK, Over, Cleaning
<1>7. HandOK(p)' /\ CleanOK(p)'
  BY <1>2, <1>3 DEF HandOK, CleanOK, Cleaning
<1> QED BY <1>3, <1>4, <1>5, <1>6, <1>7 DEF StepOK

LEMMA StatementFailsOK == ASSUME IInv, NEW p \in Procs, StatementFails(p) PROVE StepOK
<1>1. UNCHANGED <<row, file>> /\ faults' \in Nat
  BY DEF StatementFails, Fault, IInv, TypeOK
<1>2. CASE pr[p].pc = "stored" /\ Goto(p, "failing")
  <2>1. /\ pr' \in [Procs -> Proc]
        /\ \A q \in Procs : q # p => pr'[q] = pr[q]
        /\ pr'[p].pc = "failing" /\ pr'[p].claims = pr[p].claims
        /\ pr'[p].obj = pr[p].obj /\ pr'[p].attempt = pr[p].attempt
    BY <1>2, GotoIs DEF IInv, PCs
  <2>2. TypeOK'
    BY <1>1, <2>1 DEF IInv, TypeOK
  <2>3. ASSUME NEW q \in Objects PROVE Forward(q) /\ Calm(q)
    BY <1>1, <1>2, <2>1, RowStays DEF IInv, Calm, Over, Cleaning
  <2>4. ASSUME NEW q \in Objects PROVE ObjOK(q)'
    BY <1>1, <1>2, <2>1 DEF IInv, ObjOK, Over, Cleaning
  <2>5. HandOK(p)' /\ CleanOK(p)'
    BY <1>1, <1>2, <2>1 DEF IInv, HandOK, Good, CleanOK, Cleaning
  <2> QED BY <2>1, <2>2, <2>3, <2>4, <2>5 DEF StepOK
<1>3. CASE pr[p].pc \in {"failing", "reclaim", "marked"} /\ Rest(p, Ended(p))
  <2>1. PICK pc \in {"done", "abandoned"} :
          /\ Rest(p, pc)
          /\ p \in Objects /\ row[p].state \in Dead => pc = "abandoned"
    BY <1>3 DEF Ended
  <2>2. /\ pr' \in [Procs -> Proc]
        /\ \A q \in Procs : q # p => pr'[q] = pr[q]
        /\ pr'[p].pc = pc /\ pr'[p].claims = {}
    BY <2>1, RestIs DEF IInv, PCs
  <2>3. TypeOK'
    BY <1>1, <2>2 DEF IInv, TypeOK
  <2>4. ASSUME NEW q \in Objects PROVE Forward(q) /\ Calm(q)
    BY <1>1, <1>3, <2>1, <2>2, RowStays DEF IInv, Calm, Over, Cleaning
  <2>5. ASSUME NEW q \in Objects PROVE ObjOK(q)'
    BY <1>1, <1>3, <2>1, <2>2 DEF IInv, ObjOK, Over, Cleaning
  <2>6. HandOK(p)' /\ CleanOK(p)'
    BY <2>1, <2>2 DEF HandOK, CleanOK, Cleaning
  <2> QED BY <2>2, <2>3, <2>4, <2>5, <2>6 DEF StepOK
<1>4. CASE pr[p].pc = "complete" /\ Goto(p, "failClean")
  <2>1. /\ pr' \in [Procs -> Proc]
        /\ \A q \in Procs : q # p => pr'[q] = pr[q]
        /\ pr'[p].pc = "failClean" /\ pr'[p].claims = pr[p].claims
        /\ pr'[p].obj = pr[p].obj /\ pr'[p].attempt = pr[p].attempt
    BY <1>4, GotoIs DEF IInv, PCs, Cleaning
  <2>2. TypeOK'
    BY <1>1, <2>1 DEF IInv, TypeOK
  <2>3. ASSUME NEW q \in Objects PROVE Forward(q) /\ Calm(q)
    BY <1>1, <1>4, <2>1, RowStays DEF IInv, Calm, Over, Cleaning
  <2>4. ASSUME NEW q \in Objects PROVE ObjOK(q)'
    BY <1>1, <1>4, <2>1 DEF IInv, ObjOK, Over, Cleaning
  <2>5. HandOK(p)' /\ CleanOK(p)'
    BY <1>1, <1>4, <2>1 DEF IInv, HandOK, Good, CleanOK, Cleaning
  <2> QED BY <2>1, <2>2, <2>3, <2>4, <2>5 DEF StepOK
<1>5. CASE pr[p].pc = "failClean" /\ NextClaim(p)
  <2>1. /\ pr' \in [Procs -> Proc]
        /\ \A q \in Procs : q # p => pr'[q] = pr[q]
        /\ pr'[p].pc \in {"rmObject", "done", "idle"}
        /\ pr'[p].pc = "idle" => p \in Reconcilers
    BY <1>5, NextClaimIs DEF IInv
  <2>2. TypeOK'
    BY <1>1, <2>1 DEF IInv, TypeOK
  <2>3. ASSUME NEW q \in Objects PROVE Forward(q) /\ Calm(q)
    BY <1>1, <1>5, <2>1, RowStays DEF IInv, Calm, Over, Cleaning
  <2>4. ASSUME NEW q \in Objects PROVE ObjOK(q)'
    BY <1>1, <1>5, <2>1 DEF IInv, ObjOK, Over, Cleaning
  <2>5. HandOK(p)' /\ CleanOK(p)'
    BY <1>5, <2>2, <2>3, NextClaimGood
  <2> QED BY <2>1, <2>2, <2>3, <2>4, <2>5 DEF StepOK
<1> QED BY <1>2, <1>3, <1>4, <1>5 DEF StatementFails

-----------------------------------------------------------------------------
(* Steps that move a row.                                                  *)

LEMMA ReserveOK == ASSUME IInv, NEW o \in Objects, Reserve(o) PROVE StepOK
<1>1. /\ pr[o].pc = "idle" /\ Goto(o, "reserved") /\ UNCHANGED <<file, faults>>
      /\ row' = [row EXCEPT ![o].state = "PENDING"]
  BY DEF Reserve
<1>2. /\ row' \in [Objects -> Row]
      /\ \A q \in Objects : q # o => row'[q] = row[q]
      /\ row'[o].state = "PENDING" /\ row'[o].gone = row[o].gone
      /\ row'[o].attempts = row[o].attempts
  BY <1>1, StateIs DEF IInv, States
<1>3. /\ pr' \in [Procs -> Proc]
      /\ \A q \in Procs : q # o => pr'[q] = pr[q]
      /\ pr'[o].pc = "reserved" /\ pr'[o].claims = pr[o].claims
      /\ pr'[o].obj = pr[o].obj /\ pr'[o].attempt = pr[o].attempt
  BY <1>1, GotoIs DEF IInv, PCs
<1>4. row[o].state = "ABSENT" /\ ~row[o].gone /\ row[o].attempts \in Nat
  BY <1>1 DEF IInv, ObjOK, Dead, TypeOK, Row
<1>5. TypeOK'
  BY <1>1, <1>2, <1>3, <1>4 DEF IInv, TypeOK
<1>6. ASSUME NEW q \in Objects PROVE Forward(q)
  <2>1. CASE q = o
    BY <1>2, <1>4, <2>1 DEF Forward, Successors
  <2>2. CASE q # o
    BY <1>2, <2>2, RowStays DEF IInv
  <2> QED BY <2>1, <2>2
<1>7. ASSUME NEW q \in Objects PROVE Calm(q)
  BY <1>1, <1>2, <1>3, <1>4 DEF Calm, Dead, Over, Cleaning
<1>8. ASSUME NEW q \in Objects PROVE ObjOK(q)'
  BY <1>1, <1>2, <1>3, <1>4 DEF IInv, ObjOK, Over, Cleaning, Dead
<1>9. HandOK(o)'
  <2>1. \A c \in pr[o].claims : c.attempt \in Nat /\ Good(c.obj, c.attempt)
    BY DEF IInv, HandOK, TypeOK, Proc, Claim
  <2>2. \A c \in pr[o].claims : Good(c.obj, c.attempt)'
    BY <1>5, <1>6, <2>1, GoodKept DEF IInv
  <2> QED BY <1>3, <2>2 DEF HandOK, Cleaning, Good
<1>10. CleanOK(o)'
  BY <1>3 DEF CleanOK
<1> QED BY <1>3, <1>5, <1>6, <1>7, <1>8, <1>9, <1>10 DEF StepOK

\* Becoming READY: nobody cleans an object that is not dead.
LEMMA ReadyOK ==
    ASSUME IInv, NEW o \in Objects, pr[o].pc = "stored", row[o].state = "PENDING",
           row' = [row EXCEPT ![o].state = "READY"], UNCHANGED file, faults' \in Nat,
           Rest(o, "done") \/ Goto(o, "failing")
    PROVE  StepOK
<1>1. /\ row' \in [Objects -> Row]
      /\ \A q \in Objects : q # o => row'[q] = row[q]
      /\ row'[o].state = "READY" /\ row'[o].gone = row[o].gone
      /\ row'[o].attempts = row[o].attempts
  BY StateIs DEF IInv, States
<1>2. PICK pc \in {"done", "failing"} :
        /\ pr' \in [Procs -> Proc]
        /\ \A q \in Procs : q # o => pr'[q] = pr[q]
        /\ pr'[o].pc = pc
        /\ pr'[o].claims \subseteq pr[o].claims
  <2>1. CASE Rest(o, "done")
    BY <2>1, RestIs DEF IInv, PCs
  <2>2. CASE Goto(o, "failing")
    BY <2>2, GotoIs DEF IInv, PCs
  <2> QED BY <2>1, <2>2
<1>3. ~row[o].gone /\ file[o].object /\ row[o].attempts \in Nat
  BY DEF IInv, ObjOK, Dead, TypeOK, Row
<1>4. TypeOK'
  BY <1>1, <1>2, <1>3 DEF IInv, TypeOK
<1>5. ASSUME NEW q \in Objects PROVE Forward(q)
  <2>1. CASE q = o
    BY <1>1, <1>3, <2>1 DEF Forward, Successors
  <2>2. CASE q # o
    BY <1>1, <2>2, RowStays DEF IInv
  <2> QED BY <2>1, <2>2
<1>6. ASSUME NEW q \in Objects PROVE Calm(q)
  BY <1>1, <1>2, <1>3 DEF Calm, Dead, Over, Cleaning
<1>7. ASSUME NEW q \in Objects PROVE ObjOK(q)'
  BY <1>1, <1>2, <1>3 DEF IInv, ObjOK, Over, Cleaning, Dead
<1>8. HandOK(o)'
  <2>1. \A c \in pr[o].claims : c.attempt \in Nat /\ Good(c.obj, c.attempt)
    BY DEF IInv, HandOK, TypeOK, Proc, Claim
  <2>2. \A c \in pr[o].claims : Good(c.obj, c.attempt)'
    BY <1>4, <1>5, <2>1, GoodKept DEF IInv
  <2> QED BY <1>2, <2>2 DEF HandOK, Cleaning, Good
<1>9. CleanOK(o)'
  BY <1>2 DEF CleanOK
<1> QED BY <1>2, <1>4, <1>5, <1>6, <1>7, <1>8, <1>9 DEF StepOK

LEMMA MarkReadyOK == ASSUME IInv, NEW o \in Objects, MarkReady(o) PROVE StepOK
<1>1. pr[o].pc = "stored" /\ UNCHANGED <<file, faults>>
  BY DEF MarkReady
<1>2. CASE row[o].state = "PENDING"
  BY <1>1, <1>2, ReadyOK DEF MarkReady, IInv, TypeOK
<1>3. CASE row[o].state # "PENDING"
  <2>1. UNCHANGED row /\ Goto(o, "failing")
    BY <1>3 DEF MarkReady
  <2>2. /\ pr' \in [Procs -> Proc]
        /\ \A q \in Procs : q # o => pr'[q] = pr[q]
        /\ pr'[o].pc = "failing" /\ pr'[o].claims = pr[o].claims
        /\ pr'[o].obj = pr[o].obj /\ pr'[o].attempt = pr[o].attempt
    BY <2>1, GotoIs DEF IInv, PCs
  <2>3. TypeOK'
    BY <1>1, <2>1, <2>2 DEF IInv, TypeOK
  <2>4. ASSUME NEW q \in Objects PROVE Forward(q) /\ Calm(q)
    BY <1>1, <2>1, <2>2, RowStays DEF IInv, Calm, Over, Cleaning
  <2>5. ASSUME NEW q \in Objects PROVE ObjOK(q)'
    BY <1>1, <2>1, <2>2 DEF IInv, ObjOK, Over, Cleaning
  <2>6. HandOK(o)' /\ CleanOK(o)'
    BY <2>1, <2>2 DEF IInv, HandOK, Good, CleanOK, Cleaning
  <2> QED BY <2>2, <2>3, <2>4, <2>5, <2>6 DEF StepOK
<1> QED BY <1>2, <1>3

LEMMA ReadyReplyLostOK == ASSUME IInv, NEW o \in Objects, ReadyReplyLost(o) PROVE StepOK
<1>1. faults' \in Nat
  BY DEF ReadyReplyLost, Fault, IInv, TypeOK
<1> QED BY <1>1, ReadyOK DEF ReadyReplyLost

LEMMA MarkFailedOK == ASSUME IInv, NEW o \in Objects, MarkFailed(o) PROVE StepOK
<1>1. pr[o].pc = "failing" /\ Goto(o, "reclaim") /\ UNCHANGED <<file, faults>>
  BY DEF MarkFailed
<1>2. /\ row' \in [Objects -> Row]
      /\ \A q \in Objects : q # o => row'[q] = row[q]
      /\ row'[o].state = IF row[o].state = "PENDING" THEN "FAILED" ELSE row[o].state
      /\ row'[o].gone = row[o].gone
      /\ row'[o].attempts = row[o].attempts
  <2>1. CASE row[o].state = "PENDING"
    BY <2>1, StateIs DEF MarkFailed, IInv, States
  <2>2. CASE row[o].state # "PENDING"
    BY <2>2 DEF MarkFailed, IInv, TypeOK
  <2> QED BY <2>1, <2>2
<1>3. /\ pr' \in [Procs -> Proc]
      /\ \A q \in Procs : q # o => pr'[q] = pr[q]
      /\ pr'[o].pc = "reclaim" /\ pr'[o].claims = pr[o].claims
      /\ pr'[o].obj = pr[o].obj /\ pr'[o].attempt = pr[o].attempt
  BY <1>1, GotoIs DEF IInv, PCs
<1>4. row[o].attempts \in Nat /\ row[o].state \in States
  BY DEF IInv, TypeOK, Row
<1>5. TypeOK'
  BY <1>1, <1>2, <1>3 DEF IInv, TypeOK, Dead
<1>6. ASSUME NEW q \in Objects PROVE Forward(q)
  <2>1. CASE q = o
    BY <1>2, <1>4, <2>1 DEF Forward, Successors, States
  <2>2. CASE q # o
    BY <1>2, <2>2, RowStays DEF IInv
  <2> QED BY <2>1, <2>2
<1>7. ASSUME NEW q \in Objects PROVE Calm(q)
  BY <1>1, <1>2, <1>3, <1>4 DEF Calm, Over, Cleaning
<1>8. ASSUME NEW q \in Objects PROVE ObjOK(q)'
  BY <1>1, <1>2, <1>3, <1>4 DEF IInv, ObjOK, Over, Cleaning, Dead
<1>9. HandOK(o)'
  <2>1. \A c \in pr[o].claims : c.attempt \in Nat /\ Good(c.obj, c.attempt)
    BY DEF IInv, HandOK, TypeOK, Proc, Claim
  <2>2. \A c \in pr[o].claims : Good(c.obj, c.attempt)'
    BY <1>5, <1>6, <2>1, GoodKept DEF IInv
  <2> QED BY <1>3, <2>2 DEF HandOK, Cleaning, Good
<1>10. CleanOK(o)'
  BY <1>3 DEF CleanOK
<1> QED BY <1>3, <1>5, <1>6, <1>7, <1>8, <1>9, <1>10 DEF StepOK

LEMMA MarkDeletedOK ==
    ASSUME IInv, NEW d \in Deleters, NEW o \in Objects, MarkDeleted(d, o) PROVE StepOK
<1>1. /\ pr[d].pc = "idle" /\ row[o].state # "ABSENT" /\ UNCHANGED <<file, faults>>
      /\ row' = [row EXCEPT ![o].state = "DELETED"]
  BY DEF MarkDeleted
<1>2. /\ row' \in [Objects -> Row]
      /\ \A q \in Objects : q # o => row'[q] = row[q]
      /\ row'[o].state = "DELETED" /\ row'[o].gone = row[o].gone
      /\ row'[o].attempts = row[o].attempts
  BY <1>1, StateIs DEF IInv, States
<1> DEFINE v == [pc |-> "marked", claims |-> {}, obj |-> o, attempt |-> 0]
<1>3. v \in Proc /\ pr' = [pr EXCEPT ![d] = v]
  <2>1. [Resting("marked") EXCEPT !.obj = o] = v
    BY DEF Resting
  <2> QED BY <2>1 DEF MarkDeleted, Proc, PCs
<1>4. /\ pr' \in [Procs -> Proc]
      /\ \A q \in Procs : q # d => pr'[q] = pr[q]
      /\ pr'[d].pc = "marked" /\ pr'[d].claims = {} /\ pr'[d].obj = o
  BY <1>3, SetIs DEF IInv
<1>5. row[o].attempts \in Nat /\ row[o].state \in States /\ d \notin Objects
  BY DEF IInv, TypeOK, Row
<1>6. TypeOK'
  BY <1>1, <1>2, <1>4 DEF IInv, TypeOK, Dead
<1>7. ASSUME NEW q \in Objects PROVE Forward(q)
  <2>1. CASE q = o
    BY <1>1, <1>2, <1>5, <2>1 DEF Forward, Successors, States
  <2>2. CASE q # o
    BY <1>2, <2>2, RowStays DEF IInv
  <2> QED BY <2>1, <2>2
<1>8. ASSUME NEW q \in Objects PROVE Calm(q)
  BY <1>1, <1>2, <1>4, <1>5 DEF Calm, Over, Cleaning
<1>9. ASSUME NEW q \in Objects PROVE ObjOK(q)'
  BY <1>1, <1>2, <1>4, <1>5 DEF IInv, ObjOK, Over, Cleaning, Dead
<1>10. HandOK(d)' /\ CleanOK(d)'
  BY <1>4 DEF HandOK, CleanOK, Cleaning
<1> QED BY <1>4, <1>6, <1>7, <1>8, <1>9, <1>10 DEF StepOK

-----------------------------------------------------------------------------
(* Claims: they make every attempt before them an old one.                 *)

\* A claimed row is a step forward, and calms whoever had the object before.
LEMMA ClaimForward ==
    ASSUME TypeOK, NEW o \in Objects, row'[o] = ClaimedRow(row[o]), row[o].state # "ABSENT"
    PROVE  /\ Forward(o) /\ Calm(o) /\ row'[o] \in Row
           /\ row[o].state \in Dead \cup {"PENDING"} => row'[o].state \in Dead
           /\ row'[o].state # "ABSENT" /\ ~row'[o].gone
           /\ row[o].attempts + 1 \in Nat /\ row'[o].attempts = row[o].attempts + 1
<1>1. row[o] \in Row /\ row[o].attempts \in Nat /\ row[o].state \in States
  BY DEF TypeOK, Row
<1>2. /\ row'[o] \in Row
      /\ row'[o].state = IF row[o].state = "PENDING" THEN "FAILED" ELSE row[o].state
      /\ row'[o].gone = FALSE
      /\ row'[o].attempts = row[o].attempts + 1
  BY <1>1, ClaimedIs
<1>3. row'[o].attempts >= row[o].attempts /\ row'[o].attempts > row[o].attempts
  BY <1>1, <1>2
<1>4. row'[o].state \in Successors(row[o].state)
  BY <1>1, <1>2 DEF Successors, States
<1>5. row[o].state \in Dead \cup {"PENDING"} => row'[o].state \in Dead
  BY <1>2 DEF Dead
<1>6. row'[o].state # "ABSENT"
  BY <1>1, <1>2
<1> QED BY <1>1, <1>2, <1>3, <1>4, <1>5, <1>6 DEF Forward, Calm

LEMMA ClaimOwnOK == ASSUME IInv, NEW p \in Procs, ClaimOwn(p) PROVE StepOK
<1> DEFINE o == Subject(p)
<1>1. pr[p].pc \in {"reclaim", "marked"} /\ UNCHANGED <<file, faults>>
  BY DEF ClaimOwn
<1>2. o \in Objects /\ (p \in Objects => o = p)
  BY <1>1 DEF IInv, HandOK, Subject
<1>3. CASE row[o].state \in Dead
  <2> DEFINE v == [pc |-> "rmObject", claims |-> {}, obj |-> o, attempt |-> row[o].attempts + 1]
  <2>1. row' = [row EXCEPT ![o] = ClaimedRow(row[o])]
    BY <1>3 DEF ClaimOwn, OwnClaimable
  <2>2. row'[o] = ClaimedRow(row[o]) /\ \A q \in Objects : q # o => row'[q] = row[q]
    BY <1>2, <2>1 DEF IInv, TypeOK
  <2>3. /\ Forward(o) /\ Calm(o) /\ row'[o] \in Row
        /\ row'[o].state \in Dead /\ ~row'[o].gone
        /\ row[o].attempts + 1 \in Nat /\ row'[o].attempts = row[o].attempts + 1
    <3>1. row[o].state # "ABSENT"
      BY <1>3 DEF Dead
    <3> QED BY <1>2, <1>3, <2>2, <3>1, ClaimForward DEF IInv
  <2>4. v \in Proc
    BY <1>2, <2>3 DEF Proc, PCs, Cleaning
  <2>5. pr' = [pr EXCEPT ![p] = v]
    BY <1>3 DEF ClaimOwn, OwnClaimable
  <2>6. /\ pr' \in [Procs -> Proc]
        /\ \A q \in Procs : q # p => pr'[q] = pr[q]
        /\ pr'[p] = v
    BY <2>4, <2>5, SetIs DEF IInv
  <2>7. /\ pr'[p].pc = "rmObject" /\ pr'[p].claims = {}
        /\ pr'[p].obj = o /\ pr'[p].attempt = row[o].attempts + 1
    BY <2>6
  <2>8. row' \in [Objects -> Row]
    BY <2>1, <2>3, <2>2, <1>2 DEF IInv, TypeOK
  <2>9. TypeOK'
    BY <1>1, <2>2, <2>3, <2>6, <2>8 DEF IInv, TypeOK
  <2>10. ASSUME NEW q \in Objects PROVE Forward(q) /\ Calm(q)
    <3>1. CASE q = o
      BY <2>3, <3>1
    <3>2. CASE q # o
      <4>1. q # p
        BY <1>2, <3>2
      <4> QED BY <1>1, <2>2, <2>6, <3>2, <4>1, RowStays DEF IInv, Calm, Over
    <3> QED BY <3>1, <3>2
  <2>11. ASSUME NEW q \in Objects PROVE ObjOK(q)'
    <3>1. CASE q = o
      <4>1. row[o].state # "ABSENT" /\ row'[o].state \notin {"ABSENT", "READY"}
        BY <1>3, <2>3 DEF Dead
      <4>2. pr'[o].pc = pr[o].pc \/ pr'[o].pc = "rmObject"
        BY <1>2, <2>6, <2>7
      <4> QED BY <1>1, <1>2, <2>3, <3>1, <4>1, <4>2 DEF IInv, ObjOK
    <3>2. CASE q # o
      <4>1. q # p
        BY <1>2, <3>2
      <4> QED BY <1>1, <2>2, <2>6, <3>2, <4>1 DEF IInv, ObjOK, Over
    <3> QED BY <3>1, <3>2
  <2>12. HandOK(p)' /\ CleanOK(p)'
    <3>1. Good(pr[p].obj, pr[p].attempt)'
      <4> HIDE DEF o
      <4> QED BY <1>2, <2>3, <2>7 DEF Good
    <3> QED BY <2>7, <3>1 DEF HandOK, CleanOK
  <2> QED BY <2>6, <2>9, <2>10, <2>11, <2>12 DEF StepOK
<1>4. CASE row[o].state \notin Dead
  <2>1. UNCHANGED row /\ Rest(p, "done")
    BY <1>4 DEF ClaimOwn, OwnClaimable
  <2>2. /\ pr' \in [Procs -> Proc]
        /\ \A q \in Procs : q # p => pr'[q] = pr[q]
        /\ pr'[p].pc = "done" /\ pr'[p].claims = {}
    BY <2>1, RestIs DEF IInv, PCs
  <2>3. TypeOK'
    BY <1>1, <2>1, <2>2 DEF IInv, TypeOK
  <2>4. ASSUME NEW q \in Objects PROVE Forward(q) /\ Calm(q)
    BY <1>1, <1>2, <1>4, <2>1, <2>2, RowStays DEF IInv, Calm, Over
  <2>5. ASSUME NEW q \in Objects PROVE ObjOK(q)'
    BY <1>1, <1>2, <1>4, <2>1, <2>2 DEF IInv, ObjOK, Over
  <2>6. HandOK(p)' /\ CleanOK(p)'
    BY <2>2 DEF HandOK, CleanOK, Cleaning
  <2> QED BY <2>2, <2>3, <2>4, <2>5, <2>6 DEF StepOK
<1> QED BY <1>3, <1>4

LEMMA ClaimBatchOK == ASSUME IInv, NEW w \in Reconcilers, ClaimBatch(w) PROVE StepOK
<1>0. PICK S \in SUBSET {o \in Objects : Eligible(row[o])} : \E first \in S :
        /\ row' = [o \in Objects |-> IF o \in S THEN ClaimedRow(row[o]) ELSE row[o]]
        /\ pr' = [pr EXCEPT ![w] =
             [pc |-> "rmObject", obj |-> first, attempt |-> row[first].attempts + 1,
              claims |-> {[obj |-> o, attempt |-> row[o].attempts + 1] : o \in S \ {first}}]]
  BY DEF ClaimBatch
<1>1. PICK first \in S :
        /\ row' = [o \in Objects |-> IF o \in S THEN ClaimedRow(row[o]) ELSE row[o]]
        /\ pr' = [pr EXCEPT ![w] =
             [pc |-> "rmObject", obj |-> first, attempt |-> row[first].attempts + 1,
              claims |-> {[obj |-> o, attempt |-> row[o].attempts + 1] : o \in S \ {first}}]]
  BY <1>0
<1>2. UNCHANGED <<file, faults>> /\ w \notin Objects /\ w \in Procs
  BY DEF ClaimBatch
<1>3. \A o \in S : o \in Objects /\ row[o].state \in Dead \cup {"PENDING"}
  BY DEF Eligible
<1>4. ASSUME NEW o \in S
      PROVE  /\ Forward(o) /\ Calm(o) /\ row'[o] \in Row
             /\ row'[o].state \in Dead /\ ~row'[o].gone
             /\ row[o].attempts + 1 \in Nat /\ row'[o].attempts = row[o].attempts + 1
  <2>1. o \in Objects /\ row'[o] = ClaimedRow(row[o]) /\ row[o].state # "ABSENT"
    BY <1>1, <1>3 DEF Dead
  <2> QED BY <1>3, <2>1, ClaimForward DEF IInv
<1>5. ASSUME NEW o \in Objects, o \notin S PROVE row'[o] = row[o]
  BY <1>1, <1>5
<1> DEFINE C == {[obj |-> o, attempt |-> row[o].attempts + 1] : o \in S \ {first}}
           v == [pc |-> "rmObject", obj |-> first, attempt |-> row[first].attempts + 1,
                 claims |-> C]
<1>6. ASSUME NEW c \in C
      PROVE  c \in Claim /\ Good(c.obj, c.attempt)'
  <2>1. PICK o \in S \ {first} : c = [obj |-> o, attempt |-> row[o].attempts + 1]
    OBVIOUS
  <2>2. /\ o \in Objects /\ row[o].attempts + 1 \in Nat
        /\ row'[o].state \in Dead /\ row'[o].attempts = row[o].attempts + 1
    BY <1>3, <1>4
  <2>3. c.obj = o /\ c.attempt = row[o].attempts + 1
    BY <2>1
  <2>4. c \in Claim
    BY <2>1, <2>2 DEF Claim
  <2> QED BY <2>2, <2>3, <2>4 DEF Good
<1>7. first \in Objects /\ row[first].attempts + 1 \in Nat
  BY <1>3, <1>4
<1> HIDE DEF C
<1>8. v \in Proc
  BY <1>6, <1>7 DEF Proc, PCs, Cleaning
<1>9. /\ pr' \in [Procs -> Proc]
      /\ \A q \in Procs : q # w => pr'[q] = pr[q]
      /\ pr'[w] = v
  <2>1. pr' = [pr EXCEPT ![w] = v]
    BY <1>1 DEF C
  <2> QED BY <1>2, <1>8, <2>1, SetIs DEF IInv
<1>10. \A o \in Objects : row'[o] \in Row
  BY <1>4, <1>5 DEF IInv, TypeOK
<1>11. row' \in [Objects -> Row]
  <2>1. \A o \in Objects : (IF o \in S THEN ClaimedRow(row[o]) ELSE row[o]) \in Row
    BY <1>1, <1>10
  <2> QED BY <1>1, <2>1
<1>12. TypeOK'
  <2>1. \A o \in Objects : row'[o].gone => row'[o].state \in Dead
    BY <1>4, <1>5 DEF IInv, TypeOK
  <2> QED BY <1>2, <1>9, <1>11, <2>1 DEF IInv, TypeOK
<1>13. ASSUME NEW q \in Objects PROVE Forward(q) /\ Calm(q)
  <2>1. CASE q \in S
    BY <1>4, <2>1
  <2>2. CASE q \notin S
    <3>1. row'[q] = row[q] /\ pr'[q] = pr[q]
      BY <1>2, <1>5, <1>9, <2>2
    <3> QED BY <1>2, <3>1, RowStays DEF IInv, Calm, Over
  <2> QED BY <2>1, <2>2
<1>14. ASSUME NEW q \in Objects PROVE ObjOK(q)'
  <2>1. pr'[q] = pr[q] /\ file'[q] = file[q] /\ ObjOK(q)
    BY <1>2, <1>9 DEF IInv
  <2>2. CASE q \in S
    BY <1>3, <1>4, <2>1, <2>2 DEF ObjOK, Dead
  <2>3. CASE q \notin S
    BY <1>5, <2>1, <2>3 DEF ObjOK, Over
  <2> QED BY <2>2, <2>3
<1>15. HandOK(w)' /\ CleanOK(w)'
  <2>1. /\ pr'[w].pc = "rmObject" /\ pr'[w].claims = C
        /\ pr'[w].obj = first /\ pr'[w].attempt = row[first].attempts + 1
    BY <1>9
  <2>2. Good(pr[w].obj, pr[w].attempt)'
    BY <1>4, <1>7, <2>1 DEF Good
  <2> QED BY <1>6, <2>1, <2>2 DEF HandOK, CleanOK, Good
<1> QED BY <1>9, <1>12, <1>13, <1>14, <1>15 DEF StepOK

-----------------------------------------------------------------------------
(* Ends of cleanups, and time.                                             *)

\* A completion within its fence follows removals that nothing came after.
LEMMA CompleteCleanupOK == ASSUME IInv, NEW p \in Procs, CompleteCleanup(p) PROVE StepOK
<1> DEFINE o == pr[p].obj
           r == [row[o] EXCEPT !.gone = TRUE, !.next = "none"]
<1>1. pr[p].pc = "complete" /\ NextClaim(p) /\ UNCHANGED <<file, faults>>
  BY DEF CompleteCleanup
<1>2. o \in Objects /\ row[o] \in Row /\ HandOK(p) /\ CleanOK(p)
  BY <1>1 DEF IInv, HandOK, Good, Cleaning, TypeOK
<1>3. /\ row' \in [Objects -> Row]
      /\ \A q \in Objects : /\ row'[q].state = row[q].state
                            /\ row'[q].attempts = row[q].attempts
                            /\ \/ row'[q] = row[q]
                               \/ q = o /\ Fenced(row[o], pr[p].attempt)
  <2>1. CASE Fenced(row[o], pr[p].attempt)
    <3>1. row' = [row EXCEPT ![o] = r]
      BY <2>1 DEF CompleteCleanup
    <3>2. r \in Row
      BY <1>2 DEF Row
    <3>3. r.state = row[o].state /\ r.attempts = row[o].attempts
      BY <1>2 DEF Row
    <3> HIDE DEF r
    <3> QED BY <1>2, <2>1, <3>1, <3>2, <3>3 DEF IInv, TypeOK
  <2>2. CASE ~Fenced(row[o], pr[p].attempt)
    <3>1. row' = row
      BY <2>2 DEF CompleteCleanup
    <3> QED BY <3>1 DEF IInv, TypeOK
  <2> QED BY <2>1, <2>2
<1>4. /\ pr' \in [Procs -> Proc]
      /\ \A q \in Procs : q # p => pr'[q] = pr[q]
      /\ pr'[p].pc \in {"rmObject", "done", "idle"}
      /\ pr'[p].pc = "idle" => p \in Reconcilers
  BY <1>1, NextClaimIs DEF IInv
<1>5. ASSUME NEW q \in Objects PROVE Over(q)' => Over(q)
  BY <1>1, <1>4 DEF Over, Cleaning
<1>6. ASSUME NEW q \in Objects PROVE Forward(q) /\ Calm(q)
  <2>1. row[q].attempts \in Nat /\ row[q].state \in States
    BY DEF IInv, TypeOK, Row
  <2> QED BY <1>1, <1>3, <1>5, <2>1 DEF Forward, Calm, Successors, States
<1>7. ASSUME NEW q \in Objects
      PROVE  row'[q].gone => row'[q].state \in Dead /\ (Over(q)' => ~file[q].object /\ ~file[q].partial)
  <2>1. CASE row'[q] = row[q]
    BY <1>5, <2>1 DEF IInv, ObjOK
  <2>2. CASE q = o /\ Fenced(row[o], pr[p].attempt)
    BY <1>1, <1>2, <1>3, <1>5, <2>2 DEF Fenced, CleanOK
  <2> QED BY <1>3, <2>1, <2>2
<1>8. TypeOK'
  BY <1>1, <1>3, <1>4, <1>7 DEF IInv, TypeOK
<1>9. ASSUME NEW q \in Objects PROVE ObjOK(q)'
  <2>1. ObjOK(q) /\ q \in Procs /\ q \notin Reconcilers
    BY DEF IInv
  <2>2. /\ pr'[q].pc = "idle" <=> pr[q].pc = "idle"
        /\ pr'[q].pc = "stored" => pr[q].pc = "stored"
    BY <1>1, <1>4, <2>1
  <2> QED BY <1>1, <1>3, <1>7, <2>1, <2>2 DEF ObjOK
<1>10. HandOK(p)' /\ CleanOK(p)'
  BY <1>1, <1>6, <1>8, NextClaimGood
<1> QED BY <1>4, <1>6, <1>8, <1>9, <1>10 DEF StepOK

\* Only cleanupNextAttemptAt or createdAt's distance moves.
ClockOnly == /\ row' \in [Objects -> Row]
             /\ \A q \in Objects : /\ row'[q].state = row[q].state
                                   /\ row'[q].attempts = row[q].attempts
                                   /\ row'[q].gone = row[q].gone

LEMMA NextIs ==
    ASSUME TypeOK, NEW o \in Objects, NEW n \in {"none", "later", "due"},
           row' = [row EXCEPT ![o].next = n]
    PROVE  ClockOnly
<1> DEFINE r == [state |-> row[o].state, stale |-> row[o].stale, gone |-> row[o].gone,
                 attempts |-> row[o].attempts, next |-> n]
<1>1. row[o] \in Row
  BY DEF TypeOK
<1>2. r \in Row /\ [row[o] EXCEPT !.next = n] = r
  BY <1>1 DEF Row
<1>3. row' = [row EXCEPT ![o] = r]
  BY <1>2
<1>4. r.state = row[o].state /\ r.gone = row[o].gone /\ r.attempts = row[o].attempts
  OBVIOUS
<1> HIDE DEF r
<1> QED BY <1>2, <1>3, <1>4 DEF TypeOK, ClockOnly

LEMMA StaleIs ==
    ASSUME TypeOK, NEW o \in Objects, row' = [row EXCEPT ![o].stale = TRUE]
    PROVE  ClockOnly
<1> DEFINE r == [row[o] EXCEPT !.stale = TRUE]
<1>1. row[o] \in Row
  BY DEF TypeOK
<1>2. r \in Row
  BY <1>1 DEF Row
<1>3. row' = [row EXCEPT ![o] = r]
  OBVIOUS
<1>4. r.state = row[o].state /\ r.gone = row[o].gone /\ r.attempts = row[o].attempts
  BY <1>1 DEF Row
<1> HIDE DEF r
<1> QED BY <1>2, <1>3, <1>4 DEF TypeOK, ClockOnly

LEMMA ClockForward ==
    ASSUME TypeOK, ClockOnly, NEW q \in Objects
    PROVE  Forward(q)
<1>1. row[q].attempts \in Nat /\ row[q].state \in States
  BY DEF TypeOK, Row
<1> QED BY <1>1 DEF ClockOnly, Forward, Successors, States

LEMMA FailCleanupOK == ASSUME IInv, NEW p \in Procs, FailCleanup(p) PROVE StepOK
<1> DEFINE o == pr[p].obj
<1>1. pr[p].pc = "failClean" /\ NextClaim(p) /\ UNCHANGED <<file, faults>>
  BY DEF FailCleanup
<1>2. o \in Objects
  BY <1>1 DEF IInv, HandOK, Good, Cleaning
<1>3. ClockOnly
  <2>1. CASE Fenced(row[o], pr[p].attempt)
    BY <1>2, <2>1, NextIs DEF FailCleanup, IInv
  <2>2. CASE ~Fenced(row[o], pr[p].attempt)
    BY <2>2 DEF FailCleanup, ClockOnly, IInv, TypeOK
  <2> QED BY <2>1, <2>2
<1>4. /\ pr' \in [Procs -> Proc]
      /\ \A q \in Procs : q # p => pr'[q] = pr[q]
      /\ pr'[p].pc \in {"rmObject", "done", "idle"}
      /\ pr'[p].pc = "idle" => p \in Reconcilers
  BY <1>1, NextClaimIs DEF IInv
<1>5. TypeOK'
  BY <1>1, <1>3, <1>4 DEF IInv, TypeOK, ClockOnly
<1>6. ASSUME NEW q \in Objects PROVE Forward(q) /\ Calm(q)
  <2>1. Forward(q)
    BY <1>3, ClockForward DEF IInv
  <2>2. Over(q)' => Over(q)
    BY <1>1, <1>4 DEF Over, Cleaning
  <2> QED BY <1>1, <1>3, <2>1, <2>2 DEF Calm, ClockOnly
<1>7. ASSUME NEW q \in Objects PROVE ObjOK(q)'
  <2>1. ObjOK(q) /\ q \in Procs /\ q \notin Reconcilers
    BY DEF IInv
  <2>2. /\ pr'[q].pc = "idle" <=> pr[q].pc = "idle"
        /\ pr'[q].pc = "stored" => pr[q].pc = "stored"
        /\ Over(q)' => Over(q)
    BY <1>1, <1>4, <2>1 DEF Over, Cleaning
  <2> QED BY <1>1, <1>3, <2>1, <2>2 DEF ObjOK, ClockOnly
<1>8. HandOK(p)' /\ CleanOK(p)'
  BY <1>1, <1>5, <1>6, NextClaimGood
<1> QED BY <1>4, <1>5, <1>6, <1>7, <1>8 DEF StepOK

LEMMA TimeOK == ASSUME IInv, NEW o \in Objects, TimeStep(o) PROVE StepOK
<1>1. UNCHANGED <<file, pr>> /\ faults' \in Nat
  BY DEF TimeStep, Stales, NextAttemptComes, Fault, IInv, TypeOK
<1>2. ClockOnly
  BY NextIs, StaleIs DEF TimeStep, Stales, NextAttemptComes, IInv
<1>3. TypeOK'
  BY <1>1, <1>2 DEF IInv, TypeOK, ClockOnly
<1>4. ASSUME NEW q \in Objects PROVE Forward(q) /\ Calm(q) /\ ObjOK(q)'
  <2>1. Forward(q)
    BY <1>2, ClockForward DEF IInv
  <2>2. Over(q)' <=> Over(q)
    BY <1>1 DEF Over
  <2> QED BY <1>1, <1>2, <2>1, <2>2 DEF IInv, Calm, ObjOK, ClockOnly
<1> QED BY <1>1, <1>3, <1>4 DEF StepOK

-----------------------------------------------------------------------------
(* Results.                                                                *)

\* Every step moves rows forward only and keeps the invariant.
LEMMA EachStep ==
    ASSUME IInv, [Next]_vars
    PROVE  StepOK
<1>1. CASE UNCHANGED vars
  <2>1. TypeOK'
    BY <1>1 DEF vars, IInv, TypeOK
  <2>2. ASSUME NEW q \in Objects PROVE Forward(q) /\ Calm(q) /\ ObjOK(q)'
    BY <1>1, RowStays DEF vars, IInv, Calm, Over, ObjOK
  <2> QED BY <1>1, <2>1, <2>2 DEF vars, StepOK
<1>2. ASSUME NEW o \in Objects, Reserve(o) \/ UploadStep(o) \/ TimeStep(o)
      PROVE  StepOK
  <2>1. o \in Procs
    OBVIOUS
  <2> QED BY <1>2, <2>1, ReserveOK, OpenPartialOK, RenameOK, MarkReadyOK, MarkFailedOK, ClaimOwnOK,
             RemoveObjectOK, RemovePartialOK, CompleteCleanupOK, FailCleanupOK, TimeOK
          DEF UploadStep, CleanStep
<1>3. ASSUME NEW d \in Deleters, DeleteStep(d) \/ \E o \in Objects : MarkDeleted(d, o)
      PROVE  StepOK
  <2>1. d \in Procs
    OBVIOUS
  <2> QED BY <1>3, <2>1, MarkDeletedOK, ClaimOwnOK, RemoveObjectOK, RemovePartialOK,
             CompleteCleanupOK, FailCleanupOK
          DEF DeleteStep, CleanStep
<1>4. ASSUME NEW w \in Reconcilers, ReconcileStep(w)
      PROVE  StepOK
  <2>1. w \in Procs
    OBVIOUS
  <2> QED BY <1>4, <2>1, ClaimBatchOK, RemoveObjectOK, RemovePartialOK,
             CompleteCleanupOK, FailCleanupOK
          DEF ReconcileStep, CleanStep
<1>5. CASE FaultStep
  BY <1>5, WriteFailsOK, ReadyReplyLostOK, RemoveFailsOK, CrashOK, StatementFailsOK DEF FaultStep
<1> QED BY <1>1, <1>2, <1>3, <1>4, <1>5 DEF Next

\* The inductive invariant.
THEOREM Invariance == Spec => []IInv
<1>1. Init => IInv
  <2> SUFFICES ASSUME Init PROVE IInv
    OBVIOUS
  <2>1. NoRow \in Row /\ NoFile \in File /\ Resting("idle") \in Proc
    BY DEF NoRow, NoFile, Resting, Row, File, Proc, States, PCs
  <2>2. TypeOK
    BY <2>1 DEF Init, TypeOK, NoRow
  <2>3. ASSUME NEW p \in Procs PROVE HandOK(p) /\ CleanOK(p)
    BY DEF Init, Resting, HandOK, CleanOK, Cleaning
  <2>4. ASSUME NEW o \in Objects PROVE ObjOK(o)
    BY DEF Init, Resting, NoRow, ObjOK
  <2> QED BY <2>2, <2>3, <2>4 DEF IInv
<1>2. IInv /\ [Next]_vars => IInv'
  BY EachStep, StepKeeps
<1> QED BY <1>1, <1>2, PTL DEF Spec

\* Rows, files and processes keep their types, and a row with storageDeletedAt is FAILED
\* or DELETED, which the table's CHECK asks of every statement.
THEOREM TypeCorrectness == Spec => []TypeOK
BY Invariance, PTL DEF IInv

\* The content of every READY object is there, however uploads, deletions,
\* reconciliations and their crashes interleave: what retrieve relies on.
THEOREM ReadyHasContent == Spec => []ReadyIsReadable
<1>1. IInv => ReadyIsReadable
  BY DEF IInv, ObjOK, ReadyIsReadable
<1> QED BY <1>1, Invariance, PTL

\* storageDeletedAt is set only when no file is left, but for an upload cut off after
\* its row was failed or deleted under it.
THEOREM DeletionIsPhysical == Spec => []GoneIsGone
<1>1. IInv => GoneIsGone
  <2> SUFFICES ASSUME IInv, NEW o \in Objects, row[o].gone, ~Uploading(o), pr[o].pc # "abandoned"
               PROVE  file[o] = NoFile
    BY DEF GoneIsGone
  <2>1. pr[o].pc # "idle"
    BY DEF IInv, ObjOK, Dead
  <2>2. Over(o)
    BY <2>1 DEF Uploading, Over
  <2>3. ~file[o].object /\ ~file[o].partial /\ file[o] \in File
    BY <2>2 DEF IInv, ObjOK, TypeOK
  <2> QED BY <2>3 DEF File, NoFile
<1> QED BY <1>1, Invariance, PTL

\* A row never returns to an earlier state: a failed reservation does not become READY.
THEOREM StatesMoveForward == Spec => NoResurrection
<1>1. IInv /\ [Next]_vars => [\A o \in Objects : row'[o].state \in Successors(row[o].state)]_vars
  BY EachStep DEF StepOK, Forward
<1> QED BY <1>1, Invariance, PTL DEF Spec, NoResurrection
=============================================================================
