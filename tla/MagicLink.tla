------------------------------ MODULE MagicLink ------------------------------
(***************************************************************************)
(* Signing in by mail, for one e-mail address: the invitation and the      *)
(* account, requests for a link, the jobs that mail them, the consumption  *)
(* of links and the sessions it opens.  Addresses share no rows, but for   *)
(* the single bootstrap administrator.                                     *)
(*                                                                         *)
(* Serializable transactions are single actions.  prepareDelivery runs at  *)
(* READ COMMITTED under the lock of its delivery row only, so each of its  *)
(* reads is an action and the others come in between.                      *)
(***************************************************************************)
EXTENDS Integers

CONSTANTS Deliveries,   \* rows of MagicLinkDeliveryRequest, each with its job
          Workers,      \* executions of those jobs
          Sessions,     \* consume requests, each with a fresh credential
          MaxGen,       \* bound on tokenGeneration
          MaxAttempts,  \* jobMaxAttempts
          MaxRequests,  \* rateLimitMaxRequests
          MaxFaults,    \* bound on crashes, failed mails and leases outlived
          MaxChanges    \* bound on what administrators do

ASSUME MagicLinkAssumption ==
    /\ MaxGen \in Nat /\ MaxAttempts \in Nat /\ MaxRequests \in Nat
    /\ MaxFaults \in Nat /\ MaxChanges \in Nat

VARIABLES account,  \* "User" and "Invitation" of the address
          bucket,   \* "MagicLinkRequestBucket"
          delivery, \* "MagicLinkDeliveryRequest" with its job
          token,    \* "MagicLinkToken", one per delivery
          session,  \* "Session"
          handler,  \* MagicLinkEmailHandler.execute in the workers
          mailed,   \* generations of each delivery's links in the mailbox
          faults, changes

vars == <<account, bucket, delivery, token, session, handler, mailed, faults, changes>>

NoDelivery == "no delivery"

\* open: the invitation has not expired.  boot: created by bootstrapAdmin.
Account  == [user : {"none", "ACTIVE", "DISABLED"}, boot : BOOLEAN,
             invitation : {"none", "PENDING", "CONSUMED"}, open : BOOLEAN]
Bucket   == [count : 0..MaxRequests, fresh : BOOLEAN]
Delivery == [status : {"none", "PENDING", "TOKEN_READY", "DELIVERED", "NOOP"},
             gen : Nat, attempts : Nat, job : {"none", "open", "done"}]

\* consumed: by its link, or void because the address may not sign in (any more).
Token    == [subject : {"none", "user", "invitation"}, gen : Nat, live : BOOLEAN,
             consumed : {"no", "link", "void"}]
Session  == [state : {"none", "live", "revoked"}, link : Deliveries \cup {NoDelivery}]

\* tok: the token as read with the delivery.  subject: whom a read found eligible.
\* pc "ok": execute has returned, the job runner is to mark the job SUCCEEDED.
Handler  == [pc : {"idle", "locked", "noUser", "decided", "sending", "sent", "ok"},
             d : Deliveries \cup {NoDelivery}, attempt : Nat, tok : Token,
             subject : {"none", "user", "invitation"}, gen : Nat]

TypeOK == /\ account \in Account
          /\ bucket \in Bucket
          /\ delivery \in [Deliveries -> Delivery]
          /\ token \in [Deliveries -> Token]
          /\ session \in [Sessions -> Session]
          /\ handler \in [Workers -> Handler]
          /\ mailed \in [Deliveries -> SUBSET Nat]
          /\ faults \in Nat /\ changes \in Nat

NoToken == [subject |-> "none", gen |-> 0, live |-> FALSE, consumed |-> "no"]
Idle    == [pc |-> "idle", d |-> NoDelivery, attempt |-> 0, tok |-> NoToken,
            subject |-> "none", gen |-> 0]

Init == /\ account = [user |-> "none", boot |-> FALSE, invitation |-> "none", open |-> FALSE]
        /\ bucket = [count |-> 0, fresh |-> FALSE]
        /\ delivery = [d \in Deliveries |->
                         [status |-> "none", gen |-> 0, attempts |-> 0, job |-> "none"]]
        /\ token = [d \in Deliveries |-> NoToken]
        /\ session = [s \in Sessions |-> [state |-> "none", link |-> NoDelivery]]
        /\ handler = [w \in Workers |-> Idle]
        /\ mailed = [d \in Deliveries |-> {}]
        /\ faults = 0 /\ changes = 0

Fault  == faults < MaxFaults /\ faults' = faults + 1
Change == changes < MaxChanges /\ changes' = changes + 1

-----------------------------------------------------------------------------
(* Requests: enqueueMagicLinkRequest.                                      *)

\* requestCount with one more request.
Counted(b) == IF b.fresh THEN b.count + 1 ELSE 1

\* Beyond the limit the transaction rolls back, its count included.
Admits(b) == Counted(b) <= MaxRequests

Enqueue(d) == /\ delivery[d].status = "none"
              /\ Admits(bucket)
              /\ bucket' = [count |-> Counted(bucket), fresh |-> TRUE]
              /\ delivery' = [delivery EXCEPT ![d].status = "PENDING", ![d].job = "open"]
              /\ UNCHANGED <<account, token, session, handler, mailed, faults, changes>>

WindowPasses == /\ bucket.fresh
                /\ bucket' = [bucket EXCEPT !.fresh = FALSE]
                /\ UNCHANGED <<account, delivery, token, session, handler, mailed, faults, changes>>

-----------------------------------------------------------------------------
(* Mailing: MagicLinkEmailHandler.execute and prepareDelivery.             *)

Reading == {"locked", "noUser", "decided"}

\* The delivery row is locked by the transaction of w.
Locks(w, d) == handler[w].d = d /\ handler[w].pc \in Reading
Free(d) == \A w \in Workers : ~Locks(w, d)

\* Mistaken: a delivery with a token is taken for a finished one.
UnfinishedPending(d) == delivery[d].status = "PENDING"

Unfinished(d) == delivery[d].status \in {"PENDING", "TOKEN_READY"}

\* The job is claimed (again), its delivery locked and read with its token; what is
\* DELIVERED or NOOP is left alone and the job succeeds.  A second execution of the
\* same job means that the first has outlived its lease.
Begin(w, d) ==
    /\ handler[w].pc = "idle"
    /\ delivery[d].job = "open" /\ delivery[d].attempts < MaxAttempts
    /\ Free(d)
    /\ IF \E u \in Workers : handler[u].d = d THEN Fault ELSE UNCHANGED faults
    /\ delivery' = [delivery EXCEPT ![d].attempts = @ + 1]
    /\ handler' = [handler EXCEPT ![w] =
                     [pc |-> IF Unfinished(d) THEN "locked" ELSE "ok", d |-> d,
                      attempt |-> delivery[d].attempts + 1, tok |-> token[d],
                      subject |-> "none", gen |-> 0]]
    /\ UNCHANGED <<account, bucket, token, session, mailed, changes>>

ReadUser(w) ==
    /\ handler[w].pc = "locked"
    /\ handler' = [handler EXCEPT ![w].pc = IF account.user = "none" THEN "noUser" ELSE "decided",
                                  ![w].subject = IF account.user = "ACTIVE" THEN "user" ELSE "none"]
    /\ UNCHANGED <<account, bucket, delivery, token, session, mailed, faults, changes>>

Invited == account.invitation = "PENDING" /\ account.open

ReadInvitation(w) ==
    /\ handler[w].pc = "noUser"
    /\ handler' = [handler EXCEPT ![w].pc = "decided",
                                  ![w].subject = IF Invited THEN "invitation" ELSE "none"]
    /\ UNCHANGED <<account, bucket, delivery, token, session, mailed, faults, changes>>

\* A token is made void unless it is consumed already.
Void(t) == [t EXCEPT !.consumed = IF @ = "no" THEN "void" ELSE @]

\* Nobody may sign in with this address.
CommitNoop(w) ==
    LET h == handler[w] IN
    /\ h.pc = "decided" /\ h.subject = "none"
    /\ token' = IF h.tok.subject # "none" /\ h.tok.consumed = "no"
                THEN [token EXCEPT ![h.d] = Void(@)] ELSE token
    /\ delivery' = [delivery EXCEPT ![h.d].status = "NOOP"]
    /\ handler' = [handler EXCEPT ![w].pc = "ok"]
    /\ UNCHANGED <<account, bucket, session, mailed, faults, changes>>

\* The link was used (or made void) since: nothing to mail.
CommitUsed(w) ==
    LET h == handler[w] IN
    /\ h.pc = "decided" /\ h.subject # "none"
    /\ h.tok.consumed # "no"
    /\ delivery' = [delivery EXCEPT ![h.d].status = "DELIVERED"]
    /\ handler' = [handler EXCEPT ![w].pc = "ok"]
    /\ UNCHANGED <<account, bucket, token, session, mailed, faults, changes>>

\* The token that prepareDelivery leaves: created, given a new generation, or as it is.
\* Neither its subject nor its consumption is written again.
Minted(t, tok, subject, gen) ==
    IF tok.subject = "none"
    THEN [subject |-> subject, gen |-> gen + 1, live |-> TRUE, consumed |-> "no"]
    ELSE IF tok.live THEN t
    ELSE [t EXCEPT !.gen = gen + 1, !.live = TRUE]

CommitSend(w) ==
    LET h == handler[w]
        gen == delivery[h.d].gen + IF h.tok.subject # "none" /\ h.tok.live THEN 0 ELSE 1 IN
    /\ h.pc = "decided" /\ h.subject # "none"
    /\ h.tok.consumed = "no"
    /\ gen <= MaxGen
    /\ token' = [token EXCEPT ![h.d] = Minted(@, h.tok, h.subject, delivery[h.d].gen)]
    /\ delivery' = [delivery EXCEPT ![h.d].status = "TOKEN_READY", ![h.d].gen = gen]
    /\ handler' = [handler EXCEPT ![w].pc = "sending", ![w].gen = gen]
    /\ UNCHANGED <<account, bucket, session, mailed, faults, changes>>

SendMail(w) ==
    LET h == handler[w] IN
    /\ h.pc = "sending"
    /\ mailed' = [mailed EXCEPT ![h.d] = @ \cup {h.gen}]
    /\ handler' = [handler EXCEPT ![w].pc = "sent"]
    /\ UNCHANGED <<account, bucket, delivery, token, session, faults, changes>>

MarkDelivered(w) ==
    LET h == handler[w] IN
    /\ h.pc = "sent"
    /\ Free(h.d)
    /\ delivery' = [delivery EXCEPT ![h.d].status = IF Unfinished(h.d) THEN "DELIVERED" ELSE @]
    /\ handler' = [handler EXCEPT ![w].pc = "ok"]
    /\ UNCHANGED <<account, bucket, token, session, mailed, faults, changes>>

\* markSucceeded, which matches nothing when the job was claimed again since.
JobEnds(w) ==
    LET h == handler[w] IN
    /\ h.pc = "ok"
    /\ delivery' = [delivery EXCEPT ![h.d].job = IF h.attempt = delivery[h.d].attempts
                                                 THEN "done" ELSE @]
    /\ handler' = [handler EXCEPT ![w] = Idle]
    /\ UNCHANGED <<account, bucket, token, session, mailed, faults, changes>>

\* The attempt ends with an error or with its process; an open transaction rolls back.
\* The mail may have been accepted all the same.
AttemptFails(w) ==
    LET h == handler[w] IN
    /\ Fault
    /\ h.pc # "idle"
    /\ \/ UNCHANGED mailed
       \/ h.pc = "sending" /\ mailed' = [mailed EXCEPT ![h.d] = @ \cup {h.gen}]
    /\ handler' = [handler EXCEPT ![w] = Idle]
    /\ UNCHANGED <<account, bucket, delivery, token, session, changes>>

TokenExpires(d) == /\ token[d].live
                   /\ token' = [token EXCEPT ![d].live = FALSE]
                   /\ UNCHANGED <<account, bucket, delivery, session, handler, mailed, faults, changes>>

-----------------------------------------------------------------------------
(* Consumption: consumeMagicLink.  A conflict with another transaction is  *)
(* answered INVALID and changes nothing.                                   *)

\* Mistaken: a link is looked up without regard to its consumption.
MatchesUsed(t, gen) == t.subject # "none" /\ t.gen = gen /\ t.live

\* The token found by the digest of a link of generation gen.
Matches(t, gen) == t.subject # "none" /\ t.gen = gen /\ t.live /\ t.consumed = "no"

\* The link opens a session and, for an invitation, creates the account.
Opens(d) == \/ token[d].subject = "user" /\ account.user = "ACTIVE"
            \/ token[d].subject = "invitation" /\ Invited /\ account.user = "none"

\* user.create finds the normalized address taken: everything is rolled back.
Collides(d) == token[d].subject = "invitation" /\ Invited /\ account.user # "none"

Consume(s, d, gen) ==
    /\ session[s].state = "none"
    /\ gen \in mailed[d] /\ Matches(token[d], gen)
    /\ ~Collides(d)
    /\ token' = [token EXCEPT ![d].consumed = "link"]
    /\ IF Opens(d)
       THEN /\ session' = [session EXCEPT ![s] = [state |-> "live", link |-> d]]
            /\ account' = IF token[d].subject = "invitation"
                          THEN [account EXCEPT !.user = "ACTIVE", !.invitation = "CONSUMED"]
                          ELSE account
       ELSE UNCHANGED <<session, account>>
    /\ UNCHANGED <<bucket, delivery, handler, mailed, faults, changes>>

Logout(s) == /\ session[s].state = "live"
             /\ session' = [session EXCEPT ![s].state = "revoked"]
             /\ UNCHANGED <<account, bucket, delivery, token, handler, mailed, faults, changes>>

-----------------------------------------------------------------------------
(* Administration.                                                         *)

Revoked == [s \in Sessions |-> IF session[s].state = "live"
                               THEN [session[s] EXCEPT !.state = "revoked"] ELSE session[s]]

\* Mistaken: sessions and links are left as they are.
DisableOnly == /\ Change
               /\ account.user # "none"
               /\ account' = [account EXCEPT !.user = "DISABLED"]
               /\ UNCHANGED <<bucket, delivery, token, session, handler, mailed, faults>>

Disable == /\ Change
           /\ account.user # "none"
           /\ account' = [account EXCEPT !.user = "DISABLED"]
           /\ session' = Revoked
           /\ token' = [d \in Deliveries |->
                          IF token[d].subject = "user" THEN Void(token[d]) ELSE token[d]]
           /\ UNCHANGED <<bucket, delivery, handler, mailed, faults>>

Enable == /\ Change
          /\ account.user # "none"
          /\ account' = [account EXCEPT !.user = "ACTIVE"]
          /\ UNCHANGED <<bucket, delivery, token, session, handler, mailed, faults>>

RevokeAll == /\ Change
             /\ account.user # "none"
             /\ session' = Revoked
             /\ UNCHANGED <<account, bucket, delivery, token, handler, mailed, faults>>

\* createInvitation: the row of an invitation that has expired is used again.
Invite == /\ Change
          /\ account.user = "none" /\ ~Invited
          /\ account' = [account EXCEPT !.invitation = "PENDING", !.open = TRUE]
          /\ UNCHANGED <<bucket, delivery, token, session, handler, mailed, faults>>

InvitationExpires == /\ account.open
                     /\ account' = [account EXCEPT !.open = FALSE]
                     /\ UNCHANGED <<bucket, delivery, token, session, handler, mailed, faults, changes>>

\* bootstrapAdmin, where no administrator exists elsewhere; it does not look at invitations.
Bootstrap == /\ Change
             /\ account.user = "none"
             /\ account' = [account EXCEPT !.user = "ACTIVE", !.boot = TRUE]
             /\ UNCHANGED <<bucket, delivery, token, session, handler, mailed, faults>>

-----------------------------------------------------------------------------
HandlerStep(w) == \/ \E d \in Deliveries : Begin(w, d)
                  \/ ReadUser(w) \/ ReadInvitation(w)
                  \/ CommitNoop(w) \/ CommitUsed(w) \/ CommitSend(w)
                  \/ SendMail(w) \/ MarkDelivered(w) \/ JobEnds(w)

AdminStep == Disable \/ Enable \/ RevokeAll \/ Invite \/ Bootstrap

TimeStep == \/ WindowPasses \/ InvitationExpires
            \/ \E d \in Deliveries : TokenExpires(d)

ClientStep == \/ \E d \in Deliveries : Enqueue(d)
              \/ \E s \in Sessions :
                    \/ \E d \in Deliveries : \E gen \in mailed[d] : Consume(s, d, gen)
                    \/ Logout(s)

Next == \/ \E w \in Workers : HandlerStep(w) \/ AttemptFails(w)
        \/ AdminStep \/ TimeStep \/ ClientStep

Spec == Init /\ [][Next]_vars

\* The job runner goes on executing and retrying jobs.
FairSpec == Spec /\ \A w \in Workers : WF_vars(HandlerStep(w))

-----------------------------------------------------------------------------
(* Properties.                                                             *)

\* A delivery's links, of all generations together, open at most one session, although
\* they are mailed again, renewed when they expire, and consumed concurrently.
OneSessionPerDelivery == \A s, t \in Sessions :
    session[s].link = session[t].link /\ session[s].link # NoDelivery => s = t

\* A disabled account has no session that is not revoked, whatever was under way.
DisabledIsSignedOut ==
    account.user = "DISABLED" => \A s \in Sessions : session[s].state # "live"

\* The digest in the database is that of the delivery's generation, so a link of an
\* earlier generation never becomes valid again, and no mailed link is ahead of it.
GenerationsAgree == \A d \in Deliveries :
    /\ token[d].gen = delivery[d].gen
    /\ \A gen \in mailed[d] : gen <= delivery[d].gen

\* An account that was not bootstrapped has used up its invitation.
AccountsAreInvited == account.user # "none" => account.boot \/ account.invitation = "CONSUMED"

\* A delivery counts as DELIVERED only when one of its links is in the mailbox, unless
\* its token was made void in the meantime.
DeliveredWasMailed == \A d \in Deliveries :
    delivery[d].status = "DELIVERED" => mailed[d] # {} \/ token[d].consumed = "void"

\* A request ends in a mail, in the finding that nobody may sign in, or in the failure of
\* the last attempt: no delivery stays half prepared while its job is over.
EventuallyProcessed == \A d \in Deliveries :
    Unfinished(d) ~> \/ delivery[d].status \in {"DELIVERED", "NOOP"}
                     \/ /\ delivery[d].attempts = MaxAttempts
                        /\ \A w \in Workers : handler[w].d # d
=============================================================================
