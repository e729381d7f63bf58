------------------------- MODULE ApprovalLifecycle -------------------------
(***************************************************************************)
(* The life of approvals in the API server: creation, the reviewer's       *)
(* decision, the agent's cancellation, lazy expiry by whoever reads a due  *)
(* approval and expiry by the background worker of every replica.          *)
(*                                                                         *)
(* Every statement the database runs is one step, and so is the code       *)
(* between two awaits; a transaction that starts with a compare-and-set    *)
(* holds the row lock until it commits, so it is one step evaluated on the *)
(* rows it finds (PostgreSQL's Read Committed, Prisma's default).  Between *)
(* the steps of a request every other process runs, and the clock too.     *)
(***************************************************************************)
EXTENDS Integers, Sequences, FiniteSets

CONSTANTS
    Approvals,    \* approval ids
    Webhooks,     \* webhook ids of the account
    Requests,     \* HTTP requests, each handled once
    Workers,      \* one expiry worker per replica of the server
    Keys,         \* Idempotency-Key values of cancel requests
    NoKey,        \* cancelIdempotencyKey is null
    NoHook,       \* webhookId is null
    Subscribed,   \* Webhook.events: the events each webhook asked for
    MaxTime,      \* bound: the clock stops here
    MaxTTL,       \* bound: the longest expires_in
    BatchLimit    \* rows one tick of the worker takes (100 in the code)

Outcomes  == {"APPROVED", "REJECTED", "EXPIRED", "CANCELLED"}
Statuses  == {"ABSENT", "PENDING"} \cup Outcomes
Events    == Statuses \ {"ABSENT"}   \* an event is named by the status it announces
Undecided == -1                      \* decidedAt is null

ASSUME LifecycleAssumption ==
    /\ NoKey \notin Keys
    /\ NoHook \notin Webhooks
    /\ Subscribed \in [Webhooks -> SUBSET Events]
    /\ MaxTime \in Nat /\ MaxTTL \in Nat
    /\ BatchLimit \in Nat \ {0}

(* POST /approve and /decision, /reject, /cancel; GET by the agent and by  *)
(* the reviewer.                                                           *)
Decisions == {"approve", "reject"}
Reads     == {"agentGet", "reviewerGet"}
Calls == [op : Decisions \cup Reads, id : Approvals, key : {NoKey}]
         \cup [op : {"cancel"}, id : Approvals, key : Keys]

VARIABLES
    now,                 \* new Date()
    status, expiresAt, decidedAt, cancelKey, hookOf,   \* table Approval
    trail,               \* table ApprovalLog, lifecycle events only
    hooks,               \* table Webhook: "new", "active" or "deleted"
    outbox,              \* table WebhookDelivery: <<webhook, approval, event>>
    call,                \* what each request asks
    pc,                  \* where its handler is
    seen,                \* status in the handler's copy of the row
    at,                  \* the handler's `now`, sent with its compare-and-set
    reply,               \* what it answered
    batch                \* approvals a worker still has to expire in this tick

rows  == <<status, expiresAt, decidedAt, cancelKey, hookOf, trail, outbox>>
local == <<pc, seen, at, reply>>
vars  == <<now, rows, hooks, call, local, batch>>

Init ==
    /\ now = 0
    /\ status = [a \in Approvals |-> "ABSENT"]
    /\ expiresAt = [a \in Approvals |-> 0]
    /\ decidedAt = [a \in Approvals |-> Undecided]
    /\ cancelKey = [a \in Approvals |-> NoKey]
    /\ hookOf = [a \in Approvals |-> NoHook]
    /\ trail = [a \in Approvals |-> <<>>]
    /\ hooks = [w \in Webhooks |-> "new"]
    /\ outbox = {}
    /\ call \in [Requests -> Calls]
    /\ pc = [r \in Requests |-> "read"]
    /\ seen = [r \in Requests |-> "ABSENT"]
    /\ at = [r \in Requests |-> 0]
    /\ reply = [r \in Requests |-> [kind |-> "none", body |-> "ABSENT"]]
    /\ batch = [w \in Workers |-> <<>>]

-----------------------------------------------------------------------------
(* The table.                                                              *)

Pending(a) == status[a] = "PENDING"
Due(a)     == expiresAt[a] <= now

(* The two compare-and-sets that end the pending state by time.            *)
DecidableUnguarded(a, t) == expiresAt[a] > t                \* defect: no status guard
DecidableLate(a, t)      == Pending(a)                      \* defect: no deadline guard
Decidable(a, t) == Pending(a) /\ expiresAt[a] > t

OverdueAnyStatus(a) == status[a] # "ABSENT" /\ Due(a)     \* defect: no status guard
Overdue(a) == Pending(a) /\ Due(a)

(* Active webhooks that asked for event s, only the approval's own one if  *)
(* it names one.                                                           *)
AudienceUnscoped(hook, s) ==                                \* defect: webhookId ignored
    {w \in Webhooks : hooks[w] = "active" /\ s \in Subscribed[w]}
Audience(hook, s) ==
    {w \in Webhooks : hooks[w] = "active" /\ s \in Subscribed[w] /\ hook \in {NoHook, w}}

(* The status change, its log row and its deliveries, in one transaction.  *)
EnterSilently(a, s, hook) ==                                \* defect: no delivery enqueued
    /\ status' = [status EXCEPT ![a] = s]
    /\ trail' = [trail EXCEPT ![a] = Append(@, s)]
    /\ UNCHANGED outbox
Enter(a, s, hook) ==
    /\ status' = [status EXCEPT ![a] = s]
    /\ trail' = [trail EXCEPT ![a] = Append(@, s)]
    /\ outbox' = outbox \cup {<<w, a, s>> : w \in Audience(hook, s)}

Create(a, ttl, hook) ==
    /\ status[a] = "ABSENT"
    /\ now + ttl <= MaxTime
    /\ hook # NoHook => hooks[hook] = "active"
    /\ expiresAt' = [expiresAt EXCEPT ![a] = now + ttl]
    /\ hookOf' = [hookOf EXCEPT ![a] = hook]
    /\ Enter(a, "PENDING", hook)
    /\ UNCHANGED <<now, decidedAt, cancelKey, hooks, call, local, batch>>

(* The transaction of expireApproval, for an approval it finds pending.    *)
Expire(a) ==
    /\ Overdue(a)
    /\ Enter(a, "EXPIRED", hookOf[a])
    /\ UNCHANGED <<expiresAt, decidedAt, cancelKey, hookOf>>

RegisterWebhook(w) ==
    /\ hooks[w] = "new"
    /\ hooks' = [hooks EXCEPT ![w] = "active"]
    /\ UNCHANGED <<now, rows, call, local, batch>>

(* Deliveries are deleted with the webhook, approvals lose the reference.  *)
DeleteWebhook(w) ==
    /\ hooks[w] = "active"
    /\ hooks' = [hooks EXCEPT ![w] = "deleted"]
    /\ hookOf' = [a \in Approvals |-> IF hookOf[a] = w THEN NoHook ELSE hookOf[a]]
    /\ outbox' = {n \in outbox : n[1] # w}
    /\ UNCHANGED <<now, status, expiresAt, decidedAt, cancelKey, trail, call, local, batch>>

Tick == /\ now < MaxTime
        /\ now' = now + 1
        /\ UNCHANGED <<rows, hooks, call, local, batch>>

-----------------------------------------------------------------------------
(* The requests.                                                           *)

GoTo(r, label) == pc' = [pc EXCEPT ![r] = label] /\ UNCHANGED reply

(* The handler returns and its locals are gone. *)
Answer(r, kind, body) ==
    /\ pc' = [pc EXCEPT ![r] = "done"]
    /\ reply' = [reply EXCEPT ![r] = [kind |-> kind, body |-> body]]
    /\ seen' = [seen EXCEPT ![r] = "ABSENT"]
    /\ at' = [at EXCEPT ![r] = 0]

VerdictAsSent(op) == IF op = "approve" THEN "approved" ELSE "rejected"   \* defect: API's spelling
Verdict(op) == IF op = "approve" THEN "APPROVED" ELSE "REJECTED"

(* findFirst: no such row (or not with this token, or not this user's),    *)
(* a cancellation replayed with its own key, or a copy to work on.         *)
ReadRow(r) ==
    LET c == call[r] IN
    /\ pc[r] = "read"
    /\ \/ /\ status[c.id] = "ABSENT"
          /\ Answer(r, "not_found", "ABSENT")
       \/ /\ status[c.id] # "ABSENT"
          /\ c.op = "cancel" /\ cancelKey[c.id] = c.key
          /\ Answer(r, "ok", status[c.id])
       \/ /\ status[c.id] # "ABSENT"
          /\ c.op = "cancel" => cancelKey[c.id] # c.key
          /\ seen' = [seen EXCEPT ![r] = status[c.id]]
          /\ GoTo(r, IF c.op = "cancel" THEN "cancel" ELSE "judge")
          /\ UNCHANGED at
    /\ UNCHANGED <<now, rows, hooks, call, batch>>

(* The checks of transitionDecision before its transaction. *)
JudgeDecision(r) ==
    LET c == call[r] IN
    /\ pc[r] = "judge" /\ c.op \in Decisions
    /\ \/ /\ seen[r] # "PENDING"
          /\ Answer(r, "already_decided", seen[r])
       \/ /\ seen[r] = "PENDING"
          /\ GoTo(r, IF Due(c.id) THEN "expire" ELSE "stamp")
          /\ UNCHANGED <<seen, at>>
    /\ UNCHANGED <<now, rows, hooks, call, batch>>

(* The two GET handlers: the lazy expiry of a due approval, or the copy.   *)
JudgeRead(r) ==
    LET c == call[r] IN
    /\ pc[r] = "judge" /\ c.op \in Reads
    /\ \/ /\ seen[r] = "PENDING" /\ Due(c.id)
          /\ GoTo(r, "expire")
          /\ UNCHANGED <<seen, at>>
       \/ /\ ~(seen[r] = "PENDING" /\ Due(c.id))
          /\ Answer(r, IF c.op = "reviewerGet" /\ seen[r] = "EXPIRED" THEN "expired" ELSE "ok",
                    seen[r])
    /\ UNCHANGED <<now, rows, hooks, call, batch>>

(* `now` is read once, before the transaction is opened. *)
Stamp(r) ==
    /\ pc[r] = "stamp"
    /\ at' = [at EXCEPT ![r] = now]
    /\ GoTo(r, "decide")
    /\ UNCHANGED <<now, rows, hooks, call, seen, batch>>

CommitDecision(r) ==
    LET c == call[r] IN
    /\ pc[r] = "decide"
    /\ \/ /\ Decidable(c.id, at[r])
          /\ Enter(c.id, Verdict(c.op), hookOf[c.id])
          /\ decidedAt' = [decidedAt EXCEPT ![c.id] = at[r]]
          /\ Answer(r, "ok", Verdict(c.op))
          /\ UNCHANGED <<expiresAt, cancelKey, hookOf>>
       \/ /\ ~Decidable(c.id, at[r])
          /\ GoTo(r, "reread")
          /\ UNCHANGED <<rows, seen, at>>
    /\ UNCHANGED <<now, hooks, call, batch>>

(* What a handler makes of the row expireApproval returned with status s:  *)
(* transitionDecision answers "expired" whatever it is.                    *)
AnswerAfterExpiry(r, s) ==
    IF \/ call[r].op \in Decisions
       \/ call[r].op = "reviewerGet" /\ s = "EXPIRED"
    THEN Answer(r, "expired", "EXPIRED")
    ELSE Answer(r, "ok", s)

CommitExpiry(r) ==
    LET a == call[r].id IN
    /\ pc[r] = "expire"
    /\ \/ Expire(a) /\ AnswerAfterExpiry(r, "EXPIRED")
       \/ /\ ~Overdue(a)
          /\ AnswerAfterExpiry(r, status[a])
          /\ UNCHANGED rows
    /\ UNCHANGED <<now, hooks, call, batch>>

(* The key is unique among the user's cancellations (P2002). *)
Taken(k) == \E b \in Approvals : cancelKey[b] = k

CommitCancel(r) ==
    LET c == call[r] IN
    /\ pc[r] = "cancel"
    /\ \/ /\ Pending(c.id) /\ ~Taken(c.key)
          /\ cancelKey' = [cancelKey EXCEPT ![c.id] = c.key]
          /\ Enter(c.id, "CANCELLED", hookOf[c.id])
          /\ Answer(r, "ok", "CANCELLED")
          /\ UNCHANGED <<expiresAt, decidedAt, hookOf>>
       \/ /\ Pending(c.id) /\ Taken(c.key)
          /\ Answer(r, "idempotency_conflict", "ABSENT")
          /\ UNCHANGED rows
       \/ /\ ~Pending(c.id)
          /\ GoTo(r, "reread")
          /\ UNCHANGED <<rows, seen, at>>
    /\ UNCHANGED <<now, hooks, call, batch>>

(* The compare-and-set changed no row.  A decision reports the row as it   *)
(* is now, a cancellation the copy it read at first, unless its own key    *)
(* has meanwhile cancelled the approval.                                   *)
Reread(r) ==
    LET c == call[r] IN
    /\ pc[r] = "reread"
    /\ IF c.op = "cancel"
       THEN IF cancelKey[c.id] = c.key
            THEN Answer(r, "ok", status[c.id])
            ELSE Answer(r, "already_decided", seen[r])
       ELSE Answer(r, "already_decided", status[c.id])
    /\ UNCHANGED <<now, rows, hooks, call, batch>>

(* The query fails, the transaction is rolled back or the server dies: the *)
(* client gets a 500 or nothing.                                           *)
Fail(r) ==
    /\ pc[r] # "done"
    /\ Answer(r, "error", "ABSENT")
    /\ UNCHANGED <<now, rows, hooks, call, batch>>

-----------------------------------------------------------------------------
(* The expiry worker.                                                      *)

BacklogAnyStatus == {a \in Approvals : status[a] # "ABSENT" /\ Due(a)}   \* defect
Backlog == {a \in Approvals : Overdue(a)}

(* The due approvals that expire first, at most BatchLimit of them. *)
IsOldestFirst(s) ==
    /\ \A i \in DOMAIN s : s[i] \in Backlog
    /\ \A i, j \in DOMAIN s : i < j => s[i] # s[j] /\ expiresAt[s[i]] <= expiresAt[s[j]]
    /\ \A a \in Backlog : \/ \E i \in DOMAIN s : s[i] = a
                          \/ /\ Len(s) = BatchLimit
                             /\ \A i \in DOMAIN s : expiresAt[s[i]] <= expiresAt[a]

SelectDue(w) ==
    /\ batch[w] = <<>>
    /\ \E n \in 1..BatchLimit : \E s \in [1..n -> Approvals] :
          IsOldestFirst(s) /\ batch' = [batch EXCEPT ![w] = s]
    /\ UNCHANGED <<now, rows, hooks, call, local>>

ExpireNext(w) ==
    /\ batch[w] # <<>>
    /\ LET a == Head(batch[w]) IN
          Expire(a) \/ (~Overdue(a) /\ UNCHANGED rows)
    /\ batch' = [batch EXCEPT ![w] = Tail(@)]
    /\ UNCHANGED <<now, hooks, call, local>>

(* An exception, or a crash of the replica, drops the rest of the batch. *)
AbortBatch(w) ==
    /\ batch[w] # <<>>
    /\ batch' = [batch EXCEPT ![w] = <<>>]
    /\ UNCHANGED <<now, rows, hooks, call, local>>

-----------------------------------------------------------------------------

Handle(r) == \/ ReadRow(r) \/ JudgeDecision(r) \/ JudgeRead(r) \/ Stamp(r)
             \/ CommitDecision(r) \/ CommitExpiry(r) \/ CommitCancel(r) \/ Reread(r)
             \/ Fail(r)

Work(w) == SelectDue(w) \/ ExpireNext(w) \/ AbortBatch(w)

Next == \/ Tick
        \/ \E a \in Approvals, ttl \in 1..MaxTTL, h \in Webhooks \cup {NoHook} : Create(a, ttl, h)
        \/ \E w \in Webhooks : RegisterWebhook(w) \/ DeleteWebhook(w)
        \/ \E r \in Requests : Handle(r)
        \/ \E w \in Workers : Work(w)

(* Time passes, the interval timer keeps firing the worker, and the        *)
(* database does not fail each and every expiry the worker attempts.       *)
Fairness == /\ WF_vars(Tick)
            /\ \A w \in Workers : WF_vars(SelectDue(w)) /\ SF_vars(ExpireNext(w))

Spec == Init /\ [][Next]_vars /\ Fairness

-----------------------------------------------------------------------------
(* Properties.                                                             *)

Labels == {"read", "judge", "stamp", "decide", "expire", "cancel", "reread", "done"}
Kinds  == {"none", "ok", "not_found", "already_decided", "expired", "idempotency_conflict",
           "error"}

TablesOK ==
    /\ status \in [Approvals -> Statuses]
    /\ expiresAt \in [Approvals -> 0..MaxTime]
    /\ decidedAt \in [Approvals -> {Undecided} \cup 0..MaxTime]
    /\ cancelKey \in [Approvals -> Keys \cup {NoKey}]
    /\ hookOf \in [Approvals -> Webhooks \cup {NoHook}]
    /\ trail \in [Approvals -> Seq(Events)]
    /\ hooks \in [Webhooks -> {"new", "active", "deleted"}]
    /\ outbox \subseteq Webhooks \X Approvals \X Events

HandlersOK ==
    /\ pc \in [Requests -> Labels]
    /\ seen \in [Requests -> Statuses]
    /\ at \in [Requests -> 0..MaxTime]
    /\ reply \in [Requests -> [kind : Kinds, body : Statuses]]

TypeOK ==
    /\ now \in 0..MaxTime
    /\ TablesOK
    /\ call \in [Requests -> Calls]
    /\ HandlersOK
    /\ batch \in [Workers -> Seq(Approvals)]

(* The row, the audit trail and the idempotency key tell one story: the    *)
(* trail is the creation followed by the one outcome the row has, the      *)
(* decision time is set exactly by a decision and the cancel key exactly   *)
(* by a cancellation.  No race writes a second outcome.                    *)
TrailMatchesStatus ==
    \A a \in Approvals :
        /\ status[a] = "ABSENT" => trail[a] = <<>>
        /\ status[a] = "PENDING" => trail[a] = <<"PENDING">>
        /\ status[a] \in Outcomes => trail[a] = <<"PENDING", status[a]>>
        /\ decidedAt[a] # Undecided <=> status[a] \in {"APPROVED", "REJECTED"}
        /\ cancelKey[a] # NoKey <=> status[a] = "CANCELLED"

(* Webhook consumers are never told of an outcome the approval does not    *)
(* have, and an approval that names a live webhook tells only that one.    *)
NoticesMatchStatus ==
    \A n \in outbox :
        /\ hooks[n[1]] = "active"
        /\ status[n[2]] # "ABSENT"
        /\ n[3] \in {"PENDING", status[n[2]]}
        /\ hookOf[n[2]] \in {NoHook, n[1]}

(* A decision is stamped before the deadline it was given, and an approval *)
(* expires only after it.                                                  *)
DeadlineRespected ==
    \A a \in Approvals :
        /\ status[a] \in {"APPROVED", "REJECTED"} => decidedAt[a] < expiresAt[a]
        /\ decidedAt[a] <= now
        /\ status[a] = "EXPIRED" => Due(a)

(* What a handler works with between two awaits is still good when it uses *)
(* it: a copied outcome is the row's, the label fits the request, a due    *)
(* approval is still due, the stamp is not from the future, and nothing    *)
(* has been answered before the handler is done.                           *)
HandlerSound(r) ==
    LET c == call[r] IN
    /\ pc[r] # "done" => reply[r] = [kind |-> "none", body |-> "ABSENT"]
    /\ pc[r] \notin {"read", "done"} \/ reply[r].kind = "expired" => status[c.id] # "ABSENT"
    /\ seen[r] \in Outcomes => status[c.id] = seen[r]
    /\ pc[r] \in {"stamp", "decide"} => c.op \in Decisions
    /\ pc[r] \in {"judge", "expire"} => c.op # "cancel"
    /\ pc[r] = "cancel" => c.op = "cancel"
    /\ pc[r] = "expire" \/ reply[r].kind = "expired" => Due(c.id)
    /\ at[r] <= now
HandlersSound == \A r \in Requests : HandlerSound(r)

(* What a client was told stays true: an accepted decision or cancellation *)
(* is the outcome of the row for ever, and so is any outcome a read or a   *)
(* refusal named ("expired" answers aside, see GoneMeansExpired).          *)
ReplyTruthful(r) ==
    LET c == call[r] IN
    /\ reply[r].kind = "ok" /\ c.op \in Decisions => status[c.id] = Verdict(c.op)
    /\ reply[r].kind = "ok" /\ c.op = "cancel" =>
          status[c.id] = "CANCELLED" /\ cancelKey[c.id] = c.key
    /\ reply[r].kind # "expired" /\ reply[r].body \in Outcomes => status[c.id] = reply[r].body
RepliesTruthful == \A r \in Requests : ReplyTruthful(r)

(* Of all requests that decide an approval at most one is told it did.     *)
SingleWinner ==
    \A r, q \in Requests :
        (/\ call[r].id = call[q].id
         /\ call[r].op \in Decisions /\ call[q].op \in Decisions
         /\ reply[r].kind = "ok" /\ reply[q].kind = "ok") => r = q

(* One Idempotency-Key cancels at most one approval of the account.        *)
CancelKeyUnique ==
    \A a, b \in Approvals : cancelKey[a] = cancelKey[b] /\ cancelKey[a] # NoKey => a = b

(* Nothing that was decided, expired or cancelled ever changes again.      *)
OutcomeIsFinal ==
    [][\A a \in Approvals : status[a] \in Outcomes =>
          UNCHANGED <<status[a], expiresAt[a], decidedAt[a], cancelKey[a], trail[a]>>]_vars

(* Whoever changes a status, whether a request, a reader or a worker,      *)
(* writes the log row and one delivery for every webhook that has to hear  *)
(* of it in the same step: no crash separates the outcome from its notice. *)
(* The webhooks are read by a later statement of the transaction than the  *)
(* one that changes the status; here both see the webhooks of one instant. *)
OutcomeIsAnnounced ==
    [][\A a \in Approvals : status'[a] # status[a] =>
          /\ trail'[a] = Append(trail[a], status'[a])
          /\ \A w \in Webhooks :
                (/\ hooks[w] = "active" /\ status'[a] \in Subscribed[w]
                 /\ hookOf'[a] \in {NoHook, w}) => <<w, a, status'[a]>> \in outbox']_vars

(* The whole module implements the abstract approvals table, its promise   *)
(* that nothing stays pending for ever included.                           *)
Contract == INSTANCE ApprovalContract
ContractSafety == Contract!Safety
ImplementsContract == Contract!Spec

(* An approval nobody decides is eventually expired or cancelled, even if  *)
(* no one ever reads it and worker batches are aborted now and then.       *)
PendingEventuallyEnds ==
    \A a \in Approvals : Pending(a) ~> status[a] \in Outcomes

-----------------------------------------------------------------------------
(* What the documentation says and the code does not do.                   *)

(* "later attempts receive the already-decided state": a decision refused  *)
(* as expired is refused because the approval expired.                     *)
GoneMeansExpired ==
    \A r \in Requests : reply[r].kind = "expired" => status[call[r].id] = "EXPIRED"

(* A decision or cancellation refused as already decided is told the state *)
(* the approval has been decided to.                                       *)
ConflictNamesOutcome ==
    \A r \in Requests : reply[r].kind = "already_decided" => reply[r].body \in Outcomes

(* One behaviour denies both.                                              *)
SomeRefusalAccurate == GoneMeansExpired \/ ConflictNamesOutcome
=============================================================================
