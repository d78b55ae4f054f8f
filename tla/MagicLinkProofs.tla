--------------------------- MODULE MagicLinkProofs ---------------------------
(***************************************************************************)
(* Proofs about MagicLink, for any deliveries, workers, sessions and bounds.*)
(*                                                                         *)
(* What a worker read of a token is only worth something while it holds    *)
(* the delivery's lock: a token appears only under that lock, and what is  *)
(* spent stays spent.  So the invariant relates what a worker believes to  *)
(* its delivery's token, and StepOK says what a step leaves to the others. *)
(***************************************************************************)
EXTENDS MagicLink, TLAPS

Exclusive == \A w, u \in Workers : \A d \in Deliveries : Locks(w, d) /\ Locks(u, d) => w = u

\* What w read still holds of the subject, and of a token that was spent.
HandlerOK(w) == LET h == handler[w] IN
    /\ h.pc # "idle" => h.d \in Deliveries
    /\ h.pc \in Reading => /\ h.tok.subject = token[h.d].subject
                           /\ h.tok.consumed # "no" => token[h.d].consumed = h.tok.consumed
    /\ h.pc = "sending" => h.gen <= delivery[h.d].gen
    /\ h.pc = "sent" => mailed[h.d] # {}

Spent(d) == /\ token[d].subject = "none" => token[d].consumed = "no"
            /\ token[d].consumed = "link" => mailed[d] # {}

\* GenerationsAgree and DeliveredWasMailed, of one delivery.
Agrees(d) == /\ token[d].gen = delivery[d].gen
             /\ \A gen \in mailed[d] : gen <= delivery[d].gen

WasMailed(d) == delivery[d].status = "DELIVERED" => mailed[d] # {} \/ token[d].consumed = "void"

\* A session's link is spent.
SessionOK(s) == session[s].link # NoDelivery => token[session[s].link].consumed = "link"

IInv == /\ TypeOK
        /\ Exclusive
        /\ \A w \in Workers : HandlerOK(w)
        /\ \A d \in Deliveries : Spent(d) /\ Agrees(d) /\ WasMailed(d)
        /\ \A s \in Sessions : SessionOK(s)
        /\ OneSessionPerDelivery
        /\ DisabledIsSignedOut
        /\ AccountsAreInvited

-----------------------------------------------------------------------------
(* One step, seen by those who do not take it.                             *)

Forward(d) == /\ token[d].consumed # "no" => token'[d].consumed = token[d].consumed
              /\ delivery'[d].gen >= delivery[d].gen
              /\ mailed[d] \subseteq mailed'[d]

\* A token appears in the hands of the one who holds the lock.
Appears(d) == \/ token'[d].subject = token[d].subject
              \/ \A w \in Workers : Locks(w, d) => handler'[w] # handler[w]

HandlersOK == \A w \in Workers : handler'[w] = handler[w] \/ HandlerOK(w)'

USE MagicLinkAssumption DEF MagicLinkAssumption

\* A worker that takes no step keeps what it knows.
LEMMA OthersKept ==
    ASSUME TypeOK, TypeOK', NEW w \in Workers, HandlerOK(w), handler'[w] = handler[w],
           \A d \in Deliveries : Forward(d) /\ Appears(d)
    PROVE  HandlerOK(w)'
<1> DEFINE h == handler[w]
<1>1. h \in Handler
  BY DEF TypeOK
<1>2. CASE h.pc = "idle"
  BY <1>2 DEF HandlerOK, Reading
<1>3. CASE h.pc # "idle"
  <2>1. h.d \in Deliveries
    BY <1>3 DEF HandlerOK
  <2>2. Forward(h.d) /\ Appears(h.d)
    BY <2>1
  <2>3. h.pc \in Reading => /\ h.tok.subject = token'[h.d].subject
                            /\ h.tok.consumed # "no" => token'[h.d].consumed = h.tok.consumed
    BY <2>2 DEF HandlerOK, Forward, Appears, Locks
  <2>4. h.gen \in Nat /\ delivery[h.d].gen \in Nat /\ delivery'[h.d].gen \in Nat
    BY <1>1, <2>1 DEF TypeOK, Handler, Delivery
  <2>5. h.pc = "sending" => h.gen <= delivery'[h.d].gen
    BY <2>2, <2>4 DEF HandlerOK, Forward
  <2>6. h.pc = "sent" => mailed'[h.d] # {}
    BY <2>2 DEF HandlerOK, Forward
  <2> QED BY <2>1, <2>3, <2>5, <2>6 DEF HandlerOK
<1> QED BY <1>2, <1>3

\* So the workers' part of the invariant follows from what the step says of its own.
LEMMA HandlersKept ==
    ASSUME IInv, TypeOK', HandlersOK, \A d \in Deliveries : Forward(d) /\ Appears(d)
    PROVE  \A w \in Workers : HandlerOK(w)'
<1> SUFFICES ASSUME NEW w \in Workers
             PROVE  HandlerOK(w)'
  OBVIOUS
<1>1. HandlerOK(w) /\ TypeOK
  BY DEF IInv
<1>2. CASE handler'[w] = handler[w]
  BY <1>1, <1>2, OthersKept
<1>3. CASE HandlerOK(w)'
  BY <1>3
<1> QED BY <1>2, <1>3 DEF HandlersOK

\* No step but Begin takes a lock.
LEMMA NoNewLock ==
    ASSUME Exclusive, \A w \in Workers : \A d \in Deliveries : Locks(w, d)' => Locks(w, d)
    PROVE  Exclusive'
BY DEF Exclusive

\* Sessions that are left alone, or are no longer live, stay distinct and spent.
SessionsKept == /\ \A s \in Sessions : /\ session'[s].link = session[s].link
                                       /\ session'[s].state = "live" => session[s].state = "live"

LEMMA SessionsStay ==
    ASSUME IInv, SessionsKept, \A d \in Deliveries : Forward(d)
    PROVE  (\A s \in Sessions : SessionOK(s)') /\ OneSessionPerDelivery'
<1>1. ASSUME NEW s \in Sessions
      PROVE  SessionOK(s)'
  BY DEF IInv, SessionOK, SessionsKept, Forward, TypeOK, Session
<1>2. OneSessionPerDelivery'
  BY DEF IInv, OneSessionPerDelivery, SessionsKept
<1> QED BY <1>1, <1>2

LEMMA VoidIs ==
    ASSUME NEW t \in Token
    PROVE  /\ Void(t) \in Token
           /\ Void(t).subject = t.subject /\ Void(t).gen = t.gen
           /\ t.consumed # "no" => Void(t).consumed = t.consumed
           /\ t.consumed = "no" => Void(t).consumed = "void"
BY DEF Void, Token

\* What Minted promises of a token m.
MintedFits(t, tok, subject, gen, m) ==
    /\ m \in Token
    /\ tok.subject # "none" => m.subject = t.subject /\ m.consumed = t.consumed
    /\ tok.subject = "none" => m.subject = subject /\ m.consumed = "no"
    /\ tok.subject # "none" /\ tok.live => m.gen = t.gen
    /\ ~(tok.subject # "none" /\ tok.live) => m.gen = gen + 1

LEMMA MintedIs ==
    ASSUME NEW t \in Token, NEW tok \in Token, NEW subject \in {"user", "invitation"}, NEW gen \in Nat
    PROVE  MintedFits(t, tok, subject, gen, Minted(t, tok, subject, gen))
<1> DEFINE r == Minted(t, tok, subject, gen)
<1>1. CASE tok.subject = "none"
  <2>1. r = [subject |-> subject, gen |-> gen + 1, live |-> TRUE, consumed |-> "no"]
    BY <1>1 DEF Minted
  <2>2. r.subject = subject /\ r.consumed = "no" /\ r.gen = gen + 1
    BY <2>1
  <2>3. r \in Token
    BY <2>1 DEF Token
  <2> QED BY <1>1, <2>2, <2>3 DEF MintedFits
<1>2. CASE tok.subject # "none" /\ tok.live
  BY <1>2 DEF Minted, MintedFits
<1>3. CASE tok.subject # "none" /\ ~tok.live
  <2>1. r = [t EXCEPT !.gen = gen + 1, !.live = TRUE]
    BY <1>3 DEF Minted
  <2> DEFINE q == [t EXCEPT !.gen = gen + 1]
  <2>2. q \in Token /\ q.subject = t.subject /\ q.consumed = t.consumed /\ q.gen = gen + 1
    BY DEF Token
  <2>3. r = [q EXCEPT !.live = TRUE]
    BY <2>1
  <2> HIDE DEF q
  <2>4. r \in Token /\ r.subject = q.subject /\ r.consumed = q.consumed /\ r.gen = q.gen
    BY <2>2, <2>3 DEF Token
  <2> QED BY <1>3, <2>2, <2>4 DEF MintedFits
<1> QED BY <1>1, <1>2, <1>3 DEF MintedFits

-----------------------------------------------------------------------------
THEOREM InitInvariant == Init => IInv
<1> SUFFICES ASSUME Init PROVE IInv
  OBVIOUS
<1>1. TypeOK
  BY DEF Init, TypeOK, Account, Bucket, Delivery, Token, Session, Handler, NoToken, Idle
<1>2. Exclusive
  BY DEF Init, Exclusive, Locks, Reading, Idle
<1>3. \A w \in Workers : HandlerOK(w)
  BY DEF Init, HandlerOK, Idle, Reading
<1>4. \A d \in Deliveries : Spent(d) /\ Agrees(d) /\ WasMailed(d)
  BY DEF Init, Spent, Agrees, WasMailed, NoToken
<1>5. OneSessionPerDelivery /\ DisabledIsSignedOut /\ AccountsAreInvited
  BY DEF Init, OneSessionPerDelivery, DisabledIsSignedOut, AccountsAreInvited
<1>6. \A s \in Sessions : SessionOK(s)
  BY DEF Init, SessionOK
<1> QED BY <1>1, <1>2, <1>3, <1>4, <1>5, <1>6 DEF IInv

-----------------------------------------------------------------------------
(* What a step leaves alone.                                               *)

RowsOK == \A d \in Deliveries : /\ Forward(d) /\ Appears(d)
                               /\ Spent(d)' /\ Agrees(d)' /\ WasMailed(d)'

SessionsOK == (\A s \in Sessions : SessionOK(s)') /\ OneSessionPerDelivery'

AccountOK == DisabledIsSignedOut' /\ AccountsAreInvited'

LEMMA Assembled ==
    ASSUME IInv, TypeOK', Exclusive', HandlersOK, RowsOK, SessionsOK, AccountOK
    PROVE  IInv'
<1>1. \A w \in Workers : HandlerOK(w)'
  BY HandlersKept DEF RowsOK
<1> QED BY <1>1 DEF IInv, RowsOK, SessionsOK, AccountOK

LEMMA RowsSame ==
    ASSUME IInv, UNCHANGED <<token, mailed>>,
           \A d \in Deliveries :
               /\ delivery'[d].gen = delivery[d].gen
               /\ delivery'[d].status = "DELIVERED" =>
                     delivery[d].status = "DELIVERED" \/ mailed[d] # {} \/ token[d].consumed = "void"
    PROVE  RowsOK
<1> SUFFICES ASSUME NEW d \in Deliveries
             PROVE  Forward(d) /\ Appears(d) /\ Spent(d)' /\ Agrees(d)' /\ WasMailed(d)'
  BY DEF RowsOK
<1>1. Spent(d) /\ Agrees(d) /\ WasMailed(d) /\ delivery[d].gen \in Nat
  BY DEF IInv, TypeOK, Delivery
<1>2. Forward(d) /\ Appears(d)
  BY <1>1 DEF Forward, Appears
<1>3. Spent(d)' /\ Agrees(d)'
  BY <1>1 DEF Spent, Agrees
<1>4. WasMailed(d)'
  BY <1>1 DEF WasMailed
<1> QED BY <1>2, <1>3, <1>4

LEMMA HandlersSame ==
    ASSUME IInv, UNCHANGED handler
    PROVE  Exclusive' /\ HandlersOK
BY DEF IInv, Exclusive, HandlersOK, Locks

\* The accounts and sessions are as before, but for sessions signed out.
LEMMA SignedOut ==
    ASSUME IInv, SessionsKept, RowsOK,
           account' = account \/ \A s \in Sessions : session'[s].state # "live"
    PROVE  SessionsOK /\ DisabledIsSignedOut'
<1>1. SessionsOK
  BY SessionsStay DEF RowsOK, SessionsOK
<1>2. DisabledIsSignedOut'
  BY DEF IInv, DisabledIsSignedOut, SessionsKept
<1> QED BY <1>1, <1>2

LEMMA AccountSame ==
    ASSUME IInv, RowsOK, UNCHANGED <<account, session>>
    PROVE  SessionsOK /\ AccountOK
<1>1. SessionsKept
  BY DEF SessionsKept
<1> QED BY <1>1, SignedOut DEF IInv, AccountOK, AccountsAreInvited

\* A worker that lets go of nothing it does not hold takes no lock.
Moves(w, h) == /\ handler' = [handler EXCEPT ![w] = h]
               /\ h.pc \in Reading => h.d = handler[w].d /\ handler[w].pc \in Reading

LEMMA WorkerMoves ==
    ASSUME IInv, NEW w \in Workers, NEW h \in Handler, Moves(w, h)
    PROVE  /\ Exclusive'
           /\ handler'[w] = h
           /\ \A u \in Workers \ {w} : handler'[u] = handler[u]
           /\ HandlerOK(w)' => HandlersOK
<1>1. handler \in [Workers -> Handler]
  BY DEF IInv, TypeOK
<1>2. handler'[w] = h /\ \A u \in Workers \ {w} : handler'[u] = handler[u]
  BY <1>1 DEF Moves
<1>3. ASSUME NEW u \in Workers, NEW d \in Deliveries, Locks(u, d)'
      PROVE  Locks(u, d)
  BY <1>2, <1>3 DEF Moves, Locks
<1>4. Exclusive'
  BY <1>3, NoNewLock DEF IInv
<1>5. HandlerOK(w)' => HandlersOK
  BY <1>2 DEF HandlersOK
<1> QED BY <1>2, <1>4, <1>5

-----------------------------------------------------------------------------
(* The steps.                                                              *)

LEMMA EnqueueKeeps == ASSUME IInv, NEW d \in Deliveries, Enqueue(d) PROVE IInv'
<1> DEFINE r == [delivery[d] EXCEPT !.status = "PENDING", !.job = "open"]
<1>1. delivery[d] \in Delivery /\ bucket \in Bucket
  BY DEF IInv, TypeOK
<1>2. r \in Delivery /\ r.gen = delivery[d].gen /\ r.status = "PENDING"
  BY <1>1 DEF Delivery
<1>3. delivery' = [delivery EXCEPT ![d] = r]
  BY DEF Enqueue
<1>4. bucket' \in Bucket
  BY <1>1 DEF Enqueue, Admits, Counted, Bucket
<1> HIDE DEF r
<1>5. TypeOK'
  BY <1>2, <1>3, <1>4 DEF IInv, TypeOK, Enqueue
<1>6. RowsOK
  <2>1. \A e \in Deliveries : /\ delivery'[e].gen = delivery[e].gen
                             /\ delivery'[e].status \in {delivery[e].status, "PENDING"}
    BY <1>2, <1>3 DEF IInv, TypeOK
  <2> QED BY <2>1, RowsSame DEF Enqueue
<1> QED BY <1>5, <1>6, HandlersSame, AccountSame, Assembled DEF Enqueue

LEMMA WindowPassesKeeps == ASSUME IInv, WindowPasses PROVE IInv'
<1>1. TypeOK'
  BY DEF IInv, TypeOK, WindowPasses, Bucket
<1> QED BY <1>1, RowsSame, HandlersSame, AccountSame, Assembled DEF WindowPasses

LEMMA BeginKeeps == ASSUME IInv, NEW w \in Workers, NEW d \in Deliveries, Begin(w, d) PROVE IInv'
<1> DEFINE h == [pc |-> IF Unfinished(d) THEN "locked" ELSE "ok", d |-> d,
                 attempt |-> delivery[d].attempts + 1, tok |-> token[d],
                 subject |-> "none", gen |-> 0]
           r == [delivery[d] EXCEPT !.attempts = @ + 1]
<1>1. delivery[d] \in Delivery /\ token[d] \in Token /\ faults' \in Nat
  BY DEF IInv, TypeOK, Begin, Fault
<1>2. h \in Handler /\ h.pc \in {"locked", "ok"} /\ h.d = d /\ h.tok = token[d]
  BY <1>1 DEF Handler, Delivery
<1>3. r \in Delivery /\ r.gen = delivery[d].gen /\ r.status = delivery[d].status
  BY <1>1 DEF Delivery
<1>4. delivery' = [delivery EXCEPT ![d] = r] /\ handler' = [handler EXCEPT ![w] = h]
  BY DEF Begin
<1> HIDE DEF h, r
<1>5. TypeOK'
  BY <1>1, <1>2, <1>3, <1>4 DEF IInv, TypeOK, Begin
<1>6. handler'[w] = h /\ \A u \in Workers \ {w} : handler'[u] = handler[u]
  BY <1>4 DEF IInv, TypeOK
<1>7. Exclusive'
  <2>1. ASSUME NEW u \in Workers, NEW v \in Workers, NEW e \in Deliveries, Locks(u, e)', Locks(v, e)'
        PROVE  u = v
    <3>1. \A x \in Workers : ~Locks(x, d)
      BY DEF Begin, Free
    <3>2. \A x \in Workers \ {w} : Locks(x, e)' <=> Locks(x, e)
      BY <1>6 DEF Locks
    <3>3. Locks(w, e)' => e = d
      BY <1>2, <1>6 DEF Locks
    <3> QED BY <2>1, <3>1, <3>2, <3>3 DEF IInv, Exclusive
  <2> QED BY <2>1 DEF Exclusive
<1>8. RowsOK
  <2>1. \A e \in Deliveries : /\ delivery'[e].gen = delivery[e].gen
                             /\ delivery'[e].status = delivery[e].status
    BY <1>3, <1>4 DEF IInv, TypeOK
  <2> QED BY <2>1, RowsSame DEF Begin
<1>9. HandlersOK
  <2>1. HandlerOK(w)'
    BY <1>2, <1>6 DEF HandlerOK, Begin, Reading
  <2> QED BY <2>1, <1>6 DEF HandlersOK
<1> QED BY <1>5, <1>7, <1>8, <1>9, AccountSame, Assembled DEF Begin

\* What a worker that only moves on itself needs to show.
LEMMA HandlerStepKeeps ==
    ASSUME IInv, TypeOK', NEW w \in Workers, NEW h \in Handler, Moves(w, h), HandlerOK(w)',
           RowsOK, UNCHANGED <<account, session>>
    PROVE  IInv'
BY WorkerMoves, AccountSame, Assembled

LEMMA ReadUserKeeps == ASSUME IInv, NEW w \in Workers, ReadUser(w) PROVE IInv'
<1> DEFINE pc == IF account.user = "none" THEN "noUser" ELSE "decided"
           subject == IF account.user = "ACTIVE" THEN "user" ELSE "none"
           h == [handler[w] EXCEPT !.pc = pc, !.subject = subject]
<1>1. handler[w] \in Handler /\ handler[w].pc = "locked" /\ HandlerOK(w)
  BY DEF IInv, TypeOK, ReadUser
<1>2. pc \in {"noUser", "decided"} /\ subject \in {"user", "none"}
  OBVIOUS
<1>3. handler' = [handler EXCEPT ![w] = h]
  BY DEF ReadUser
<1> HIDE DEF pc, subject
<1>4. h \in Handler /\ h.pc = pc /\ h.d = handler[w].d /\ h.tok = handler[w].tok
  BY <1>1, <1>2 DEF Handler
<1> HIDE DEF h
<1>5. TypeOK'
  <2>1. handler' \in [Workers -> Handler]
    BY <1>3, <1>4 DEF IInv, TypeOK
  <2> QED BY <2>1 DEF IInv, TypeOK, ReadUser
<1>6. Moves(w, h)
  BY <1>1, <1>3, <1>4 DEF Moves, Reading
<1>7. handler'[w] = h
  BY <1>3 DEF IInv, TypeOK
<1>8. HandlerOK(w)'
  BY <1>1, <1>2, <1>4, <1>7 DEF HandlerOK, Reading, ReadUser
<1> QED BY <1>4, <1>5, <1>6, <1>8, RowsSame, HandlerStepKeeps DEF ReadUser

LEMMA ReadInvitationKeeps == ASSUME IInv, NEW w \in Workers, ReadInvitation(w) PROVE IInv'
<1> DEFINE subject == IF Invited THEN "invitation" ELSE "none"
           h == [handler[w] EXCEPT !.pc = "decided", !.subject = subject]
<1>1. handler[w] \in Handler /\ handler[w].pc = "noUser" /\ HandlerOK(w)
  BY DEF IInv, TypeOK, ReadInvitation
<1>2. subject \in {"invitation", "none"}
  OBVIOUS
<1>3. handler' = [handler EXCEPT ![w] = h]
  BY DEF ReadInvitation
<1> HIDE DEF subject
<1>4. h \in Handler /\ h.pc = "decided" /\ h.d = handler[w].d /\ h.tok = handler[w].tok
  BY <1>1, <1>2 DEF Handler
<1> HIDE DEF h
<1>5. TypeOK'
  BY <1>3, <1>4 DEF IInv, TypeOK, ReadInvitation
<1>6. Moves(w, h)
  BY <1>1, <1>3, <1>4 DEF Moves, Reading
<1>7. handler'[w] = h
  BY <1>3 DEF IInv, TypeOK
<1>8. HandlerOK(w)'
  BY <1>1, <1>2, <1>4, <1>7 DEF HandlerOK, Reading, ReadInvitation
<1> QED BY <1>4, <1>5, <1>6, <1>8, RowsSame, HandlerStepKeeps DEF ReadInvitation

\* A handler that is past its reads, at pc.
LEMMA PassesTo ==
    ASSUME IInv, NEW w \in Workers, NEW pc \in {"ok", "sent"},
           handler' = [handler EXCEPT ![w].pc = pc]
    PROVE  \E h \in Handler : /\ handler' = [handler EXCEPT ![w] = h]
                              /\ h.pc = pc /\ h.d = handler[w].d
                              /\ Moves(w, h) /\ handler'[w] = h
<1> DEFINE h == [handler[w] EXCEPT !.pc = pc]
<1>1. handler[w] \in Handler /\ handler \in [Workers -> Handler]
  BY DEF IInv, TypeOK
<1>2. handler' = [handler EXCEPT ![w] = h]
  OBVIOUS
<1>3. h \in Handler /\ h.pc = pc /\ h.d = handler[w].d
  BY <1>1 DEF Handler
<1> HIDE DEF h
<1>4. Moves(w, h) /\ handler'[w] = h
  BY <1>1, <1>2, <1>3 DEF Moves, Reading
<1> QED BY <1>2, <1>3, <1>4

\* Tokens may be spent, by their link once it is mailed, or made void.
LEMMA TokensSpent ==
    ASSUME IInv, UNCHANGED mailed,
           \A d \in Deliveries :
               /\ delivery'[d].gen = delivery[d].gen
               /\ delivery'[d].status = "DELIVERED" => delivery[d].status = "DELIVERED"
               /\ token'[d].subject = token[d].subject
               /\ token'[d].gen = token[d].gen
               /\ \/ token'[d].consumed = token[d].consumed
                  \/ /\ token[d].subject # "none" /\ token[d].consumed = "no"
                     /\ token'[d].consumed = "void" \/ mailed[d] # {}
    PROVE  RowsOK
<1> SUFFICES ASSUME NEW d \in Deliveries
             PROVE  Forward(d) /\ Appears(d) /\ Spent(d)' /\ Agrees(d)' /\ WasMailed(d)'
  BY DEF RowsOK
<1>1. Spent(d) /\ Agrees(d) /\ WasMailed(d) /\ delivery[d].gen \in Nat
  BY DEF IInv, TypeOK, Delivery
<1>2. Forward(d) /\ Appears(d)
  BY <1>1 DEF Forward, Appears
<1>3. Spent(d)' /\ Agrees(d)'
  BY <1>1 DEF Spent, Agrees
<1>4. WasMailed(d)'
  BY <1>1 DEF WasMailed
<1> QED BY <1>2, <1>3, <1>4

LEMMA CommitNoopKeeps == ASSUME IInv, NEW w \in Workers, CommitNoop(w) PROVE IInv'
<1> DEFINE d == handler[w].d
           r == [delivery[d] EXCEPT !.status = "NOOP"]
<1>1. HandlerOK(w) /\ d \in Deliveries
  BY DEF IInv, HandlerOK, CommitNoop
<1>2. delivery[d] \in Delivery /\ token \in [Deliveries -> Token]
  BY <1>1 DEF IInv, TypeOK
<1>3. r \in Delivery /\ r.gen = delivery[d].gen /\ r.status = "NOOP"
  BY <1>2 DEF Delivery
<1>4. delivery' = [delivery EXCEPT ![d] = r]
  BY DEF CommitNoop
<1>5. handler[w].tok.subject # "none" => token[d].subject # "none"
  BY <1>1 DEF HandlerOK, CommitNoop, Reading
<1>6. /\ token' \in [Deliveries -> Token]
      /\ \A e \in Deliveries :
             /\ token'[e].subject = token[e].subject /\ token'[e].gen = token[e].gen
             /\ \/ token'[e].consumed = token[e].consumed
                \/ /\ token[e].subject # "none" /\ token[e].consumed = "no"
                   /\ token'[e].consumed = "void"
  <2>1. CASE token' = token
    BY <1>2, <2>1
  <2>2. CASE /\ handler[w].tok.subject # "none"
             /\ token' = [token EXCEPT ![d] = Void(token[d])]
    <3>1. token[d] \in Token
      BY <1>1, <1>2
    <3>2. /\ Void(token[d]) \in Token
          /\ Void(token[d]).subject = token[d].subject /\ Void(token[d]).gen = token[d].gen
          /\ token[d].consumed # "no" => Void(token[d]).consumed = token[d].consumed
          /\ token[d].consumed = "no" => Void(token[d]).consumed = "void"
      BY <3>1, VoidIs
    <3>3. token' \in [Deliveries -> Token] /\ token'[d] = Void(token[d])
      BY <1>1, <1>2, <2>2, <3>2
    <3>4. \A e \in Deliveries \ {d} : token'[e] = token[e]
      BY <1>2, <2>2
    <3> QED BY <1>5, <2>2, <3>2, <3>3, <3>4
  <2> QED BY <2>1, <2>2 DEF CommitNoop
<1> HIDE DEF r
<1>7. PICK h \in Handler : /\ handler' = [handler EXCEPT ![w] = h]
                           /\ h.pc = "ok" /\ h.d = handler[w].d
                           /\ Moves(w, h) /\ handler'[w] = h
  BY PassesTo DEF CommitNoop
<1>8. TypeOK'
  <2>1. UNCHANGED <<account, bucket, session, mailed, faults, changes>>
    BY DEF CommitNoop
  <2> QED BY <1>3, <1>4, <1>6, <1>7, <2>1 DEF IInv, TypeOK
<1>9. RowsOK
  <2>1. \A e \in Deliveries : /\ delivery'[e].gen = delivery[e].gen
                             /\ delivery'[e].status \in {delivery[e].status, "NOOP"}
    BY <1>3, <1>4 DEF IInv, TypeOK
  <2> QED BY <1>6, <2>1, TokensSpent DEF CommitNoop
<1>10. HandlerOK(w)'
  BY <1>1, <1>7 DEF HandlerOK, Reading
<1> QED BY <1>7, <1>8, <1>9, <1>10, HandlerStepKeeps DEF CommitNoop

LEMMA CommitUsedKeeps == ASSUME IInv, NEW w \in Workers, CommitUsed(w) PROVE IInv'
<1> DEFINE d == handler[w].d
           r == [delivery[d] EXCEPT !.status = "DELIVERED"]
<1>1. HandlerOK(w) /\ d \in Deliveries
  BY DEF IInv, HandlerOK, CommitUsed
<1>2. delivery[d] \in Delivery /\ token[d] \in Token /\ Spent(d)
  BY <1>1 DEF IInv, TypeOK
<1>3. r \in Delivery /\ r.gen = delivery[d].gen
  BY <1>2 DEF Delivery
<1>4. delivery' = [delivery EXCEPT ![d] = r]
  BY DEF CommitUsed
<1>5. mailed[d] # {} \/ token[d].consumed = "void"
  <2>1. token[d].consumed \in {"link", "void"}
    BY <1>1, <1>2 DEF HandlerOK, CommitUsed, Reading, Token
  <2> QED BY <1>2, <2>1 DEF Spent
<1> HIDE DEF r
<1>6. PICK h \in Handler : /\ handler' = [handler EXCEPT ![w] = h]
                           /\ h.pc = "ok" /\ h.d = handler[w].d
                           /\ Moves(w, h) /\ handler'[w] = h
  BY PassesTo DEF CommitUsed
<1>7. TypeOK'
  BY <1>3, <1>4, <1>6 DEF IInv, TypeOK, CommitUsed
<1>8. RowsOK
  <2>1. \A e \in Deliveries : /\ delivery'[e].gen = delivery[e].gen
                             /\ e # d => delivery'[e].status = delivery[e].status
    BY <1>3, <1>4 DEF IInv, TypeOK
  <2> QED BY <1>5, <2>1, RowsSame DEF CommitUsed
<1>9. HandlerOK(w)'
  BY <1>1, <1>6 DEF HandlerOK, Reading
<1> QED BY <1>6, <1>7, <1>8, <1>9, HandlerStepKeeps DEF CommitUsed

LEMMA MarkDeliveredKeeps == ASSUME IInv, NEW w \in Workers, MarkDelivered(w) PROVE IInv'
<1> DEFINE d == handler[w].d
           status == IF Unfinished(d) THEN "DELIVERED" ELSE delivery[d].status
           r == [delivery[d] EXCEPT !.status = status]
<1>1. HandlerOK(w) /\ d \in Deliveries
  BY DEF IInv, HandlerOK, MarkDelivered
<1>2. delivery[d] \in Delivery /\ mailed[d] # {}
  BY <1>1 DEF IInv, TypeOK, HandlerOK, MarkDelivered
<1>3. r \in Delivery /\ r.gen = delivery[d].gen
  BY <1>2 DEF Delivery
<1>4. delivery' = [delivery EXCEPT ![d] = r]
  BY DEF MarkDelivered
<1> HIDE DEF status, r
<1>5. PICK h \in Handler : /\ handler' = [handler EXCEPT ![w] = h]
                           /\ h.pc = "ok" /\ h.d = handler[w].d
                           /\ Moves(w, h) /\ handler'[w] = h
  BY PassesTo DEF MarkDelivered
<1>6. TypeOK'
  <2>1. handler' \in [Workers -> Handler]
    BY <1>3, <1>4, <1>5 DEF IInv, TypeOK
  <2>2. delivery' \in [Deliveries -> Delivery]
    BY <1>3, <1>4, <1>5 DEF IInv, TypeOK
  <2> QED BY <2>1, <2>2 DEF IInv, TypeOK, MarkDelivered
<1>7. RowsOK
  <2>1. \A e \in Deliveries : /\ delivery'[e].gen = delivery[e].gen
                             /\ e # d => delivery'[e].status = delivery[e].status
    BY <1>3, <1>4 DEF IInv, TypeOK
  <2> QED BY <1>2, <2>1, RowsSame DEF MarkDelivered
<1>8. HandlerOK(w)'
  BY <1>1, <1>5 DEF HandlerOK, Reading
<1> QED BY <1>5, <1>6, <1>7, <1>8, HandlerStepKeeps DEF MarkDelivered

LEMMA CommitSendKeeps == ASSUME IInv, NEW w \in Workers, CommitSend(w) PROVE IInv'
<1> DEFINE g == handler[w]
           d == g.d
           same == g.tok.subject # "none" /\ g.tok.live
           gen == delivery[d].gen + IF same THEN 0 ELSE 1
           t == Minted(token[d], g.tok, g.subject, delivery[d].gen)
           q == [delivery[d] EXCEPT !.status = "TOKEN_READY"]
           r == [q EXCEPT !.gen = gen]
           h == [g EXCEPT !.pc = "sending", !.gen = gen]
<1>1. HandlerOK(w) /\ d \in Deliveries
  BY DEF IInv, HandlerOK, CommitSend
<1>2. g \in Handler /\ delivery[d] \in Delivery /\ token[d] \in Token
  BY <1>1 DEF IInv, TypeOK
<1>3. /\ g.pc = "decided" /\ g.subject \in {"user", "invitation"} /\ g.tok.consumed = "no"
      /\ g.tok \in Token /\ g.tok.subject = token[d].subject
  BY <1>1, <1>2 DEF CommitSend, Handler, HandlerOK, Reading
<1>4. Spent(d) /\ Agrees(d) /\ WasMailed(d)
  BY <1>1 DEF IInv
<1>5. delivery[d].gen \in Nat /\ gen \in Nat /\ gen >= delivery[d].gen
  BY <1>2 DEF Delivery
<1>6. MintedFits(token[d], g.tok, g.subject, delivery[d].gen, t)
  <2> HIDE DEF d, g
  <2> QED BY <1>2, <1>3, <1>5, MintedIs
<1>7. t.gen = gen
  BY <1>4, <1>5, <1>6 DEF Agrees, MintedFits
<1>8. t.subject # "none" /\ t.consumed = token[d].consumed
  BY <1>3, <1>4, <1>6 DEF Spent, MintedFits
<1>9. q \in Delivery /\ q.status = "TOKEN_READY"
  BY <1>2 DEF Delivery
<1>10. UNCHANGED <<account, bucket, session, mailed, faults, changes>>
  BY DEF CommitSend
<1>11. token' = [token EXCEPT ![d] = t] /\ delivery' = [delivery EXCEPT ![d] = r]
       /\ handler' = [handler EXCEPT ![w] = h]
  BY DEF CommitSend
<1> HIDE DEF q, gen, t
<1>12. r \in Delivery /\ r.status = "TOKEN_READY" /\ r.gen = gen
  BY <1>5, <1>9 DEF Delivery
<1>13. h \in Handler /\ h.pc = "sending" /\ h.gen = gen /\ h.d = d
  BY <1>2, <1>5 DEF Handler
<1> HIDE DEF r, h
<1>14. TypeOK'
  <2>1. t \in Token
    BY <1>6 DEF MintedFits
  <2> QED BY <2>1, <1>10, <1>11, <1>12, <1>13 DEF IInv, TypeOK
<1>15. /\ token'[d] = t /\ delivery'[d] = r /\ handler'[w] = h
       /\ \A e \in Deliveries \ {d} : token'[e] = token[e] /\ delivery'[e] = delivery[e]
  BY <1>1, <1>11 DEF IInv, TypeOK
<1>16. RowsOK
  <2> SUFFICES ASSUME NEW e \in Deliveries
               PROVE  Forward(e) /\ Appears(e) /\ Spent(e)' /\ Agrees(e)' /\ WasMailed(e)'
    BY DEF RowsOK
  <2>1. CASE e = d
    <3>1. Spent(e) /\ Agrees(e) /\ delivery[e].gen \in Nat /\ gen >= delivery[e].gen
      BY <1>4, <1>5, <2>1
    <3>2. /\ token'[e] = t /\ delivery'[e] = r /\ mailed' = mailed
          /\ t.subject # "none" /\ t.consumed = token[e].consumed
      BY <1>8, <1>10, <1>15, <2>1
    <3>3. Forward(e) /\ Spent(e)' /\ WasMailed(e)'
      BY <1>12, <3>1, <3>2 DEF Forward, Spent, WasMailed
    <3>4. \A m \in mailed[e] : m <= gen
      <4>1. \A m \in mailed[e] : m \in Nat /\ m <= delivery[e].gen
        BY <3>1 DEF IInv, TypeOK, Agrees
      <4> QED BY <1>5, <3>1, <4>1
    <3>5. Agrees(e)'
      BY <1>7, <1>12, <3>2, <3>4 DEF Agrees
    <3>6. Appears(e)
      <4>1. Locks(w, e)
        BY <1>3, <2>1 DEF Locks, Reading
      <4>2. \A u \in Workers : Locks(u, e) => u = w
        BY <4>1 DEF IInv, Exclusive
      <4>3. handler'[w] # handler[w]
        BY <1>3, <1>13, <1>15
      <4> QED BY <4>2, <4>3 DEF Appears
    <3> QED BY <3>3, <3>5, <3>6
  <2>2. CASE e # d
    <3>1. Spent(e) /\ Agrees(e) /\ WasMailed(e) /\ delivery[e].gen \in Nat
      BY DEF IInv, TypeOK, Delivery
    <3>2. token'[e] = token[e] /\ delivery'[e] = delivery[e] /\ mailed' = mailed
      BY <1>10, <1>15, <2>2
    <3> QED BY <3>1, <3>2 DEF Forward, Appears, Spent, Agrees, WasMailed
  <2> QED BY <2>1, <2>2
<1>17. Moves(w, h)
  BY <1>11, <1>13 DEF Moves, Reading
<1>18. HandlerOK(w)'
  BY <1>1, <1>5, <1>12, <1>13, <1>15 DEF HandlerOK, Reading
<1> QED BY <1>10, <1>13, <1>14, <1>16, <1>17, <1>18, HandlerStepKeeps

\* A link of a generation not beyond the delivery's reaches the mailbox.
LEMMA MailArrives ==
    ASSUME IInv, NEW d \in Deliveries, NEW gen \in Nat, gen <= delivery[d].gen,
           mailed' = [mailed EXCEPT ![d] = @ \cup {gen}], UNCHANGED <<delivery, token>>
    PROVE  RowsOK /\ mailed' \in [Deliveries -> SUBSET Nat] /\ mailed'[d] # {}
<1>1. mailed \in [Deliveries -> SUBSET Nat]
  BY DEF IInv, TypeOK
<1>2. /\ mailed' \in [Deliveries -> SUBSET Nat] /\ mailed'[d] = mailed[d] \cup {gen}
      /\ \A e \in Deliveries \ {d} : mailed'[e] = mailed[e]
  BY <1>1
<1>3. ASSUME NEW e \in Deliveries
      PROVE  Forward(e) /\ Appears(e) /\ Spent(e)' /\ Agrees(e)' /\ WasMailed(e)'
  <2>1. Spent(e) /\ Agrees(e) /\ WasMailed(e) /\ delivery[e].gen \in Nat
    BY DEF IInv, TypeOK, Delivery
  <2>2. mailed[e] \subseteq mailed'[e] /\ \A m \in mailed'[e] : m \in mailed[e] \/ (m = gen /\ e = d)
    BY <1>2
  <2>3. Forward(e) /\ Appears(e)
    BY <2>1, <2>2 DEF Forward, Appears
  <2>4. Spent(e)' /\ WasMailed(e)'
    BY <2>1, <2>2 DEF Spent, WasMailed
  <2>5. Agrees(e)'
    BY <2>1, <2>2 DEF Agrees
  <2> QED BY <2>3, <2>4, <2>5
<1> QED BY <1>2, <1>3 DEF RowsOK

LEMMA SendMailKeeps == ASSUME IInv, NEW w \in Workers, SendMail(w) PROVE IInv'
<1> DEFINE d == handler[w].d
           gen == handler[w].gen
<1>1. HandlerOK(w) /\ d \in Deliveries /\ gen \in Nat /\ gen <= delivery[d].gen
  BY DEF IInv, TypeOK, Handler, HandlerOK, SendMail
<1>2. /\ mailed' = [mailed EXCEPT ![d] = @ \cup {gen}]
      /\ UNCHANGED <<account, bucket, delivery, token, session, faults, changes>>
  BY DEF SendMail
<1> HIDE DEF gen
<1>3. RowsOK /\ mailed' \in [Deliveries -> SUBSET Nat] /\ mailed'[d] # {}
  BY <1>1, <1>2, MailArrives
<1>4. PICK h \in Handler : /\ handler' = [handler EXCEPT ![w] = h]
                           /\ h.pc = "sent" /\ h.d = handler[w].d
                           /\ Moves(w, h) /\ handler'[w] = h
  BY PassesTo DEF SendMail
<1>5. TypeOK'
  BY <1>2, <1>3, <1>4 DEF IInv, TypeOK
<1>6. HandlerOK(w)'
  BY <1>1, <1>3, <1>4 DEF HandlerOK, Reading
<1> QED BY <1>2, <1>3, <1>4, <1>5, <1>6, HandlerStepKeeps

\* A worker that has let go of its delivery.
LEMMA GoesIdle ==
    ASSUME IInv, NEW w \in Workers, handler' = [handler EXCEPT ![w] = Idle]
    PROVE  Idle \in Handler /\ Moves(w, Idle) /\ handler'[w] = Idle /\ HandlerOK(w)'
<1>1. Idle \in Handler /\ Idle.pc = "idle"
  BY DEF Idle, NoToken, Handler, Token
<1>2. Moves(w, Idle) /\ handler'[w] = Idle
  BY <1>1 DEF Moves, Reading, IInv, TypeOK
<1> QED BY <1>1, <1>2 DEF HandlerOK, Reading

LEMMA JobEndsKeeps == ASSUME IInv, NEW w \in Workers, JobEnds(w) PROVE IInv'
<1> DEFINE d == handler[w].d
           job == IF handler[w].attempt = delivery[d].attempts THEN "done" ELSE delivery[d].job
           r == [delivery[d] EXCEPT !.job = job]
<1>1. d \in Deliveries
  BY DEF IInv, HandlerOK, JobEnds
<1>2. delivery[d] \in Delivery
  BY <1>1 DEF IInv, TypeOK
<1>3. r \in Delivery /\ r.gen = delivery[d].gen /\ r.status = delivery[d].status
  BY <1>2 DEF Delivery
<1>4. delivery' = [delivery EXCEPT ![d] = r] /\ handler' = [handler EXCEPT ![w] = Idle]
  BY DEF JobEnds
<1> HIDE DEF job, r
<1>5. Idle \in Handler /\ Moves(w, Idle) /\ HandlerOK(w)'
  BY <1>4, GoesIdle
<1>6. TypeOK'
  <2>1. handler' \in [Workers -> Handler]
    BY <1>3, <1>4, <1>5 DEF IInv, TypeOK
  <2>2. delivery' \in [Deliveries -> Delivery]
    BY <1>3, <1>4, <1>5 DEF IInv, TypeOK
  <2> QED BY <2>1, <2>2 DEF IInv, TypeOK, JobEnds
<1>7. RowsOK
  <2>1. \A e \in Deliveries : /\ delivery'[e].gen = delivery[e].gen
                             /\ delivery'[e].status = delivery[e].status
    BY <1>3, <1>4 DEF IInv, TypeOK
  <2> QED BY <2>1, RowsSame DEF JobEnds
<1> QED BY <1>5, <1>6, <1>7, HandlerStepKeeps DEF JobEnds

LEMMA AttemptFailsKeeps == ASSUME IInv, NEW w \in Workers, AttemptFails(w) PROVE IInv'
<1> DEFINE d == handler[w].d
           gen == handler[w].gen
<1>1. /\ handler' = [handler EXCEPT ![w] = Idle] /\ faults' \in Nat
      /\ UNCHANGED <<account, bucket, delivery, token, session, changes>>
  BY DEF AttemptFails, Fault, IInv, TypeOK
<1>2. Idle \in Handler /\ Moves(w, Idle) /\ HandlerOK(w)'
  BY <1>1, GoesIdle
<1>3. RowsOK /\ mailed' \in [Deliveries -> SUBSET Nat]
  <2>1. CASE UNCHANGED mailed
    BY <1>1, <2>1, RowsSame DEF IInv, TypeOK
  <2>2. CASE handler[w].pc = "sending" /\ mailed' = [mailed EXCEPT ![d] = @ \cup {gen}]
    <3>1. d \in Deliveries /\ gen \in Nat /\ gen <= delivery[d].gen
      BY <2>2 DEF IInv, TypeOK, Handler, HandlerOK
    <3> HIDE DEF gen, d
    <3> QED BY <1>1, <2>2, <3>1, MailArrives
  <2> QED BY <2>1, <2>2 DEF AttemptFails
<1>4. TypeOK'
  BY <1>1, <1>2, <1>3 DEF IInv, TypeOK
<1> QED BY <1>1, <1>2, <1>3, <1>4, HandlerStepKeeps

LEMMA TokenExpiresKeeps == ASSUME IInv, NEW d \in Deliveries, TokenExpires(d) PROVE IInv'
<1> DEFINE t == [token[d] EXCEPT !.live = FALSE]
<1>1. token[d] \in Token
  BY DEF IInv, TypeOK
<1>2. t \in Token /\ t.subject = token[d].subject /\ t.gen = token[d].gen /\ t.consumed = token[d].consumed
  BY <1>1 DEF Token
<1>3. token' = [token EXCEPT ![d] = t]
  BY DEF TokenExpires
<1> HIDE DEF t
<1>4. TypeOK'
  BY <1>2, <1>3 DEF IInv, TypeOK, TokenExpires
<1>5. RowsOK
  <2>1. \A e \in Deliveries : /\ token'[e].subject = token[e].subject /\ token'[e].gen = token[e].gen
                             /\ token'[e].consumed = token[e].consumed
    BY <1>2, <1>3 DEF IInv, TypeOK
  <2> QED BY <2>1, TokensSpent DEF TokenExpires
<1> QED BY <1>4, <1>5, HandlersSame, AccountSame, Assembled DEF TokenExpires

\* A link is spent at once with the session it opens, so no session had it before.
LEMMA ConsumeKeeps ==
    ASSUME IInv, NEW s \in Sessions, NEW d \in Deliveries, NEW gen \in mailed[d], Consume(s, d, gen)
    PROVE  IInv'
<1> DEFINE t == [token[d] EXCEPT !.consumed = "link"]
<1>1. token[d] \in Token /\ account \in Account /\ session \in [Sessions -> Session]
  BY DEF IInv, TypeOK
<1>2. t \in Token /\ t.subject = token[d].subject /\ t.gen = token[d].gen /\ t.consumed = "link"
  BY <1>1 DEF Token
<1>3. token' = [token EXCEPT ![d] = t]
  BY DEF Consume
<1>4. token[d].subject # "none" /\ token[d].consumed = "no" /\ mailed[d] # {}
  BY DEF Consume, Matches
<1>5. UNCHANGED <<bucket, delivery, handler, mailed, faults, changes>>
  BY DEF Consume
<1>6. CASE /\ Opens(d)
           /\ session' = [session EXCEPT ![s] = [state |-> "live", link |-> d]]
           /\ account' = IF token[d].subject = "invitation"
                         THEN [account EXCEPT !.user = "ACTIVE", !.invitation = "CONSUMED"]
                         ELSE account
  <2>1. account' \in Account /\ account'.user = "ACTIVE" /\ AccountsAreInvited'
    <3>1. CASE token[d].subject = "invitation"
      <4> DEFINE b == [account EXCEPT !.user = "ACTIVE"]
      <4>1. b \in Account /\ b.user = "ACTIVE"
        BY <1>1 DEF Account
      <4>2. account' = [b EXCEPT !.invitation = "CONSUMED"]
        BY <1>6, <3>1
      <4> HIDE DEF b
      <4>3. account' \in Account /\ account'.user = "ACTIVE" /\ account'.invitation = "CONSUMED"
        BY <4>1, <4>2 DEF Account
      <4> QED BY <4>3 DEF AccountsAreInvited
    <3>2. CASE token[d].subject # "invitation"
      BY <1>1, <1>6, <3>2 DEF Opens, IInv, AccountsAreInvited
    <3> QED BY <3>1, <3>2
  <2>2. session' \in [Sessions -> Session] /\ session'[s] = [state |-> "live", link |-> d]
        /\ \A u \in Sessions \ {s} : session'[u] = session[u]
    BY <1>1, <1>6 DEF Session
  <2> HIDE DEF t
  <2>3. TypeOK'
    BY <1>2, <1>3, <1>5, <2>1, <2>2 DEF IInv, TypeOK
  <2>4. /\ token'[d].consumed = "link"
        /\ \A e \in Deliveries : e # d => token'[e] = token[e]
    BY <1>2, <1>3 DEF IInv, TypeOK
  <2>5. RowsOK
    <3>1. \A e \in Deliveries : /\ token'[e].subject = token[e].subject /\ token'[e].gen = token[e].gen
                               /\ \/ token'[e].consumed = token[e].consumed
                                  \/ /\ token[e].subject # "none" /\ token[e].consumed = "no"
                                     /\ mailed[e] # {}
      BY <1>2, <1>3, <1>4 DEF IInv, TypeOK
    <3> QED BY <1>5, <3>1, TokensSpent
  <2>6. \A u \in Sessions \ {s} : session[u].link = d => d = NoDelivery
    BY <1>4 DEF IInv, SessionOK
  <2>7. SessionsOK
    <3>1. ASSUME NEW u \in Sessions
          PROVE  SessionOK(u)'
      <4>1. CASE u = s
        BY <2>2, <2>4, <4>1 DEF SessionOK
      <4>2. CASE u # s
        <5>1. session'[u] = session[u] /\ SessionOK(u) /\ session[u].link \in Deliveries \cup {NoDelivery}
          BY <1>1, <2>2, <4>2 DEF IInv, Session
        <5> QED BY <2>4, <2>6, <4>2, <5>1 DEF SessionOK
      <4> QED BY <4>1, <4>2
    <3>2. OneSessionPerDelivery'
      BY <2>2, <2>6 DEF IInv, OneSessionPerDelivery
    <3> QED BY <3>1, <3>2 DEF SessionsOK
  <2>8. AccountOK
    BY <2>1 DEF AccountOK, DisabledIsSignedOut
  <2> QED BY <1>5, <2>3, <2>5, <2>7, <2>8, HandlersSame, Assembled
<1>7. CASE UNCHANGED <<session, account>>
  <2> HIDE DEF t
  <2>1. TypeOK'
    BY <1>2, <1>3, <1>5, <1>7 DEF IInv, TypeOK
  <2>2. RowsOK
    <3>1. \A e \in Deliveries : /\ token'[e].subject = token[e].subject /\ token'[e].gen = token[e].gen
                               /\ \/ token'[e].consumed = token[e].consumed
                                  \/ /\ token[e].subject # "none" /\ token[e].consumed = "no"
                                     /\ mailed[e] # {}
      BY <1>2, <1>3, <1>4 DEF IInv, TypeOK
    <3> QED BY <1>5, <3>1, TokensSpent
  <2> QED BY <1>5, <1>7, <2>1, <2>2, HandlersSame, AccountSame, Assembled
<1> QED BY <1>6, <1>7 DEF Consume

LEMMA LogoutKeeps == ASSUME IInv, NEW s \in Sessions, Logout(s) PROVE IInv'
<1> DEFINE r == [session[s] EXCEPT !.state = "revoked"]
<1>1. session[s] \in Session
  BY DEF IInv, TypeOK
<1>2. r \in Session /\ r.state = "revoked" /\ r.link = session[s].link
  BY <1>1 DEF Session
<1>3. session' = [session EXCEPT ![s] = r]
  BY DEF Logout
<1> HIDE DEF r
<1>4. TypeOK'
  BY <1>2, <1>3 DEF IInv, TypeOK, Logout
<1>5. SessionsKept
  BY <1>2, <1>3 DEF IInv, TypeOK, SessionsKept
<1>6. RowsOK
  BY RowsSame DEF Logout
<1>7. SessionsOK /\ AccountOK
  BY <1>5, <1>6, SignedOut DEF Logout, IInv, AccountOK, AccountsAreInvited
<1> QED BY <1>4, <1>6, <1>7, HandlersSame, Assembled DEF Logout

LEMMA RevokedIs ==
    ASSUME IInv, session' = Revoked
    PROVE  /\ session' \in [Sessions -> Session]
           /\ SessionsKept
           /\ \A s \in Sessions : session'[s].state # "live"
<1>1. ASSUME NEW s \in Sessions
      PROVE  /\ session'[s] \in Session /\ session'[s].link = session[s].link
             /\ session'[s].state # "live"
  <2> DEFINE r == [session[s] EXCEPT !.state = "revoked"]
  <2>1. session[s] \in Session
    BY DEF IInv, TypeOK
  <2>2. r \in Session /\ r.state = "revoked" /\ r.link = session[s].link
    BY <2>1 DEF Session
  <2>3. session'[s] = IF session[s].state = "live" THEN r ELSE session[s]
    BY DEF Revoked
  <2> HIDE DEF r
  <2> QED BY <2>1, <2>2, <2>3
<1>2. session' = [s \in Sessions |-> session'[s]]
  BY DEF Revoked
<1> QED BY <1>1, <1>2 DEF SessionsKept

\* An administrator gives the user a status.
LEMMA StatusIs ==
    ASSUME IInv, NEW status \in {"ACTIVE", "DISABLED"}, account.user # "none",
           account' = [account EXCEPT !.user = status]
    PROVE  account' \in Account /\ account'.user = status /\ AccountsAreInvited'
<1>1. account \in Account
  BY DEF IInv, TypeOK
<1>2. /\ account' \in Account /\ account'.user = status
      /\ account'.boot = account.boot /\ account'.invitation = account.invitation
  BY <1>1 DEF Account
<1> QED BY <1>2 DEF IInv, AccountsAreInvited

LEMMA DisableKeeps == ASSUME IInv, Disable PROVE IInv'
<1>1. account' \in Account /\ AccountsAreInvited' /\ changes' \in Nat
  BY StatusIs DEF Disable, Change, IInv, TypeOK
<1>2. session' \in [Sessions -> Session] /\ SessionsKept /\ \A s \in Sessions : session'[s].state # "live"
  BY RevokedIs DEF Disable
<1>3. ASSUME NEW d \in Deliveries
      PROVE  /\ token'[d] \in Token
             /\ token'[d].subject = token[d].subject /\ token'[d].gen = token[d].gen
             /\ \/ token'[d].consumed = token[d].consumed
                \/ /\ token[d].subject # "none" /\ token[d].consumed = "no"
                   /\ token'[d].consumed = "void"
  <2>1. token[d] \in Token
    BY DEF IInv, TypeOK
  <2>2. /\ Void(token[d]) \in Token
        /\ Void(token[d]).subject = token[d].subject /\ Void(token[d]).gen = token[d].gen
        /\ token[d].consumed # "no" => Void(token[d]).consumed = token[d].consumed
        /\ token[d].consumed = "no" => Void(token[d]).consumed = "void"
    BY <2>1, VoidIs
  <2>3. token'[d] = IF token[d].subject = "user" THEN Void(token[d]) ELSE token[d]
    BY DEF Disable
  <2> QED BY <2>1, <2>2, <2>3
<1>4. token' \in [Deliveries -> Token]
  <2>1. token' = [d \in Deliveries |-> token'[d]]
    BY DEF Disable
  <2> QED BY <1>3, <2>1
<1>5. UNCHANGED <<bucket, delivery, handler, mailed, faults>>
  BY DEF Disable
<1>6. TypeOK'
  BY <1>1, <1>2, <1>4, <1>5 DEF IInv, TypeOK
<1>7. RowsOK
  BY <1>3, <1>5, TokensSpent
<1>8. SessionsOK /\ AccountOK
  BY <1>1, <1>2, <1>7, SignedOut DEF AccountOK
<1> QED BY <1>5, <1>6, <1>7, <1>8, HandlersSame, Assembled

LEMMA EnableKeeps == ASSUME IInv, Enable PROVE IInv'
<1>1. account' \in Account /\ account'.user = "ACTIVE" /\ AccountsAreInvited' /\ changes' \in Nat
  BY StatusIs DEF Enable, Change, IInv, TypeOK
<1>2. TypeOK'
  BY <1>1 DEF IInv, TypeOK, Enable
<1>3. RowsOK
  BY RowsSame DEF Enable
<1>4. SessionsOK
  BY <1>3, SessionsStay DEF Enable, SessionsKept, RowsOK, SessionsOK
<1>5. AccountOK
  BY <1>1 DEF AccountOK, DisabledIsSignedOut
<1> QED BY <1>2, <1>3, <1>4, <1>5, HandlersSame, Assembled DEF Enable

LEMMA RevokeAllKeeps == ASSUME IInv, RevokeAll PROVE IInv'
<1>1. session' \in [Sessions -> Session] /\ SessionsKept /\ \A s \in Sessions : session'[s].state # "live"
  BY RevokedIs DEF RevokeAll
<1>2. TypeOK'
  BY <1>1 DEF IInv, TypeOK, RevokeAll, Change
<1>3. RowsOK
  BY RowsSame DEF RevokeAll
<1>4. SessionsOK /\ AccountOK
  BY <1>1, <1>3, SignedOut DEF RevokeAll, IInv, AccountOK, AccountsAreInvited
<1> QED BY <1>2, <1>3, <1>4, HandlersSame, Assembled DEF RevokeAll

\* What an invitation or a first administrator changes of an address without an account,
\* and time of an invitation, leaves its sessions as they are.
LEMMA OnlyAccount ==
    ASSUME IInv, account' \in Account, changes' \in Nat, AccountsAreInvited',
           account'.user \in {account.user, "ACTIVE"},
           UNCHANGED <<bucket, delivery, token, session, handler, mailed, faults>>
    PROVE  IInv'
<1>1. TypeOK'
  BY DEF IInv, TypeOK
<1>2. RowsOK
  BY RowsSame
<1>3. SessionsOK
  BY <1>2, SessionsStay DEF SessionsKept, RowsOK, SessionsOK
<1>4. AccountOK
  BY DEF IInv, AccountOK, DisabledIsSignedOut
<1> QED BY <1>1, <1>2, <1>3, <1>4, HandlersSame, Assembled

LEMMA InviteKeeps == ASSUME IInv, Invite PROVE IInv'
<1> DEFINE b == [account EXCEPT !.invitation = "PENDING"]
<1>1. account \in Account /\ account.user = "none" /\ changes' \in Nat
  BY DEF IInv, TypeOK, Invite, Change
<1>2. b \in Account /\ b.user = "none"
  BY <1>1 DEF Account
<1>3. account' = [b EXCEPT !.open = TRUE]
  BY DEF Invite
<1> HIDE DEF b
<1>4. account' \in Account /\ account'.user = "none"
  BY <1>2, <1>3 DEF Account
<1> QED BY <1>1, <1>4, OnlyAccount DEF Invite, AccountsAreInvited

LEMMA InvitationExpiresKeeps == ASSUME IInv, InvitationExpires PROVE IInv'
<1>1. account \in Account /\ changes' \in Nat
  BY DEF IInv, TypeOK, InvitationExpires
<1>2. /\ account' \in Account /\ account'.user = account.user
      /\ account'.boot = account.boot /\ account'.invitation = account.invitation
  BY <1>1 DEF Account, InvitationExpires
<1>3. AccountsAreInvited'
  BY <1>2 DEF IInv, AccountsAreInvited
<1> QED BY <1>1, <1>2, <1>3, OnlyAccount DEF InvitationExpires

LEMMA BootstrapKeeps == ASSUME IInv, Bootstrap PROVE IInv'
<1> DEFINE b == [account EXCEPT !.user = "ACTIVE"]
<1>1. account \in Account /\ changes' \in Nat
  BY DEF IInv, TypeOK, Bootstrap, Change
<1>2. b \in Account /\ b.user = "ACTIVE"
  BY <1>1 DEF Account
<1>3. account' = [b EXCEPT !.boot = TRUE]
  BY DEF Bootstrap
<1> HIDE DEF b
<1>4. account' \in Account /\ account'.user = "ACTIVE" /\ account'.boot = TRUE
  BY <1>2, <1>3 DEF Account
<1> QED BY <1>1, <1>4, OnlyAccount DEF Bootstrap, AccountsAreInvited

-----------------------------------------------------------------------------
THEOREM StepInvariant == IInv /\ [Next]_vars => IInv'
<1> SUFFICES ASSUME IInv, [Next]_vars PROVE IInv'
  OBVIOUS
<1>1. CASE \E w \in Workers : HandlerStep(w) \/ AttemptFails(w)
  <2> PICK w \in Workers : HandlerStep(w) \/ AttemptFails(w)
    BY <1>1
  <2> QED BY BeginKeeps, ReadUserKeeps, ReadInvitationKeeps, CommitNoopKeeps, CommitUsedKeeps,
             CommitSendKeeps, SendMailKeeps, MarkDeliveredKeeps, JobEndsKeeps, AttemptFailsKeeps
          DEF HandlerStep
<1>2. CASE AdminStep
  BY <1>2, DisableKeeps, EnableKeeps, RevokeAllKeeps, InviteKeeps, BootstrapKeeps DEF AdminStep
<1>3. CASE TimeStep
  BY <1>3, WindowPassesKeeps, InvitationExpiresKeeps, TokenExpiresKeeps DEF TimeStep
<1>4. CASE ClientStep
  BY <1>4, EnqueueKeeps, ConsumeKeeps, LogoutKeeps DEF ClientStep
<1>5. CASE UNCHANGED vars
  <2>1. TypeOK'
    BY <1>5 DEF IInv, TypeOK, vars
  <2> QED BY <1>5, <2>1, RowsSame, HandlersSame, AccountSame, Assembled DEF vars
<1> QED BY <1>1, <1>2, <1>3, <1>4, <1>5 DEF Next

THEOREM Invariance == Spec => []IInv
BY InitInvariant, StepInvariant, PTL DEF Spec

\* Types, the bound of the request bucket among them: beyond the limit nothing is counted.
THEOREM TypeCorrectness == Spec => []TypeOK
<1>1. IInv => TypeOK
  BY DEF IInv
<1> QED BY <1>1, Invariance, PTL

\* However often a delivery is prepared, mailed and its links are tried, one session is all
\* that its links open: consumeMagicLink spends the token with the session it creates, and
\* prepareDelivery never takes a token's consumption back.
THEOREM LinksOpenOnce == Spec => []OneSessionPerDelivery
<1>1. IInv => OneSessionPerDelivery
  BY DEF IInv
<1> QED BY <1>1, Invariance, PTL

\* setUserStatus and consumeMagicLink leave no live session of a disabled account.
THEOREM DisabledStaysOut == Spec => []DisabledIsSignedOut
<1>1. IInv => DisabledIsSignedOut
  BY DEF IInv
<1> QED BY <1>1, Invariance, PTL

\* Accounts come from invitations, or from bootstrapAdmin.
THEOREM OnlyInvited == Spec => []AccountsAreInvited
<1>1. IInv => AccountsAreInvited
  BY DEF IInv
<1> QED BY <1>1, Invariance, PTL

\* The token of a delivery is of its generation, and no mailed link is ahead of it, although
\* prepareDelivery writes from what it read of both before.
THEOREM GenerationsStayTogether == Spec => []GenerationsAgree
<1>1. IInv => GenerationsAgree
  BY DEF IInv, Agrees, GenerationsAgree
<1> QED BY <1>1, Invariance, PTL

\* A delivery is DELIVERED only when a link of it was mailed, or its token made void.
THEOREM NoPretendedDelivery == Spec => []DeliveredWasMailed
<1>1. IInv => DeliveredWasMailed
  BY DEF IInv, WasMailed, DeliveredWasMailed
<1> QED BY <1>1, Invariance, PTL
=============================================================================
