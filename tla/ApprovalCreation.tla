-------------------------- MODULE ApprovalCreation --------------------------
(***************************************************************************)
(* POST /v1/approvals for one account: concurrent and repeated requests    *)
(* with Idempotency-Keys, the monthly quota, the serializable transaction  *)
(* and its retries.                                                        *)
(*                                                                         *)
(* A transaction sees the rows of the moment its first query ran (view)    *)
(* and inserts later.  That query is the one for the webhook when the body *)
(* names one, and the clock is read after it; otherwise it is the count,   *)
(* and the clock is read before it.  PostgreSQL aborts an insertion whose  *)
(* count missed the row of another creation: that one counted too and      *)
(* missed ours, so the two depend on each other.  It may abort others too. *)
(***************************************************************************)
EXTENDS Integers, FiniteSets

CONSTANTS
    Requests,     \* HTTP requests; several with one key and body are retries
    Keys,         \* Idempotency-Key values
    Bodies,       \* request fingerprints
    WithWebhook,  \* those of the bodies that name a webhook_id
    Limit,        \* PLAN_LIMITS[plan].monthlyApprovals
    MaxAttempts,  \* transactions a request tries (3 in the code)
    MaxMonth      \* bound: the calendar stops here

ASSUME CreationAssumption == Limit \in Nat /\ MaxMonth \in Nat /\ MaxAttempts \in Nat \ {0}

VARIABLES
    month,       \* the current UTC month
    approvals,   \* table Approval, columns that creation depends on
    call,        \* key and body of each request
    pc,          \* where its handler is
    view,        \* the snapshot of its transaction
    since,       \* its monthStart, NotRead before the clock is read
    attempt,     \* transactions it tried and lost
    reply

locals == <<view, since, attempt>>
vars   == <<month, approvals, call, pc, locals, reply>>

Approval == [id : Requests, key : Keys, body : Bodies, month : 0..MaxMonth]
NotRead == -1
Unanswered == [kind |-> "none"]
Accepted(id) == [kind |-> "created", id |-> id]
Refused(why) == [kind |-> why]

Init ==
    /\ month = 0
    /\ approvals = {}
    /\ call \in [Requests -> [key : Keys, body : Bodies]]
    /\ pc = [r \in Requests |-> "find"]
    /\ view = [r \in Requests |-> {}]
    /\ since = [r \in Requests |-> NotRead]
    /\ attempt = [r \in Requests |-> 0]
    /\ reply = [r \in Requests |-> Unanswered]

NextMonth ==
    /\ month < MaxMonth
    /\ month' = month + 1
    /\ UNCHANGED <<approvals, call, pc, locals, reply>>

-----------------------------------------------------------------------------

Stored(k) == {a \in approvals : a.key = k}

(* @@unique([userId, idempotencyKey]) *)
Taken(k) == Stored(k) # {}

FreshReadCommitted(r) == TRUE                               \* defect: default isolation
Fresh(r) == view[r] = approvals

(* The rows a count sees: its own query takes the snapshot unless the one  *)
(* for the webhook has.                                                    *)
NamesWebhook(r) == call[r].body \in WithWebhook
Snapshot(r) == IF NamesWebhook(r) THEN view[r] ELSE approvals

(* Of these, the ones created since the beginning of its month. *)
Used(r) == Cardinality({a \in Snapshot(r) : a.month >= since[r]})

GoTo(r, label) == pc' = [pc EXCEPT ![r] = label] /\ UNCHANGED reply

Answer(r, answer) ==
    /\ pc' = [pc EXCEPT ![r] = "done"]
    /\ reply' = [reply EXCEPT ![r] = answer]
    /\ view' = [view EXCEPT ![r] = {}]
    /\ UNCHANGED <<since, attempt>>

SameBodyIgnored(a, r) == TRUE                               \* defect: fingerprint not compared
SameBody(a, r) == a.body = call[r].body

Find(r) ==
    /\ pc[r] = "find"
    /\ \/ \E a \in Stored(call[r].key) :
             \/ SameBody(a, r) /\ Answer(r, Accepted(a.id))
             \/ ~SameBody(a, r) /\ Answer(r, Refused("idempotency_conflict"))
       \/ /\ Stored(call[r].key) = {}
          /\ GoTo(r, "open")
          /\ UNCHANGED locals
    /\ UNCHANGED <<month, approvals, call>>

(* The transaction begins; looking up a webhook is its first query. *)
Open(r) ==
    /\ pc[r] = "open"
    /\ view' = [view EXCEPT ![r] = IF NamesWebhook(r) THEN approvals ELSE {}]
    /\ GoTo(r, "clock")
    /\ UNCHANGED <<month, approvals, call, since, attempt>>

(* now and monthStart: the month may turn before the count. *)
ReadClock(r) ==
    /\ pc[r] = "clock"
    /\ since' = [since EXCEPT ![r] = month]
    /\ GoTo(r, "count")
    /\ UNCHANGED <<month, approvals, call, view, attempt>>

Count(r) ==
    /\ pc[r] = "count"
    /\ \/ /\ Used(r) >= Limit
          /\ Answer(r, Refused("quota_exceeded"))
       \/ /\ Used(r) < Limit
          /\ view' = [view EXCEPT ![r] = Snapshot(r)]
          /\ GoTo(r, "insert")
          /\ UNCHANGED <<since, attempt>>
    /\ UNCHANGED <<month, approvals, call>>

(* The insertion and the commit; the response may be lost on its way. *)
Insert(r) ==
    /\ pc[r] = "insert"
    /\ ~Taken(call[r].key) /\ Fresh(r)
    /\ approvals' = approvals \cup
          {[id |-> r, key |-> call[r].key, body |-> call[r].body, month |-> month]}
    /\ Answer(r, Accepted(r)) \/ Answer(r, Refused("failed"))
    /\ UNCHANGED <<month, call>>

(* P2002: a request with this key has created its approval meanwhile. *)
KeyViolation(r) ==
    /\ pc[r] = "insert"
    /\ Taken(call[r].key)
    /\ GoTo(r, "recover")
    /\ UNCHANGED <<month, approvals, call, locals>>

(* P2034 at a query, due or not.  The last one leaves the loop by its      *)
(* rethrow: the statement after the loop is never reached, the client gets *)
(* a 500.                                                                  *)
AttemptForgotten(r) == attempt[r]                           \* defect: attempt not counted
AttemptAfter(r) == attempt[r] + 1

MayRetryOnceMore(r) == AttemptAfter(r) <= MaxAttempts       \* defect: off by one
MayRetry(r) == AttemptAfter(r) < MaxAttempts

SerializationFailure(r) ==
    /\ pc[r] \in {"count", "insert"}
    /\ \/ /\ MayRetry(r)
          /\ attempt' = [attempt EXCEPT ![r] = AttemptAfter(r)]
          /\ view' = [view EXCEPT ![r] = {}]
          /\ GoTo(r, "open")
          /\ UNCHANGED since
       \/ /\ ~MayRetry(r)
          /\ Answer(r, Refused("failed"))
    /\ UNCHANGED <<month, approvals, call>>

(* The catch block looks the key up again.  What it throws for a different *)
(* body is not caught any more: the client gets the 500 of the global      *)
(* error handler.                                                          *)
Recover(r) ==
    /\ pc[r] = "recover"
    /\ \E a \in Stored(call[r].key) :
          \/ SameBody(a, r) /\ Answer(r, Accepted(a.id))
          \/ ~SameBody(a, r) /\ Answer(r, Refused("internal_error"))
    /\ UNCHANGED <<month, approvals, call>>

(* A query fails or the server dies before the transaction committed. *)
Fail(r) ==
    /\ pc[r] # "done"
    /\ Answer(r, Refused("failed"))
    /\ UNCHANGED <<month, approvals, call>>

Handle(r) == \/ Find(r) \/ Open(r) \/ ReadClock(r) \/ Count(r) \/ Insert(r)
             \/ KeyViolation(r) \/ SerializationFailure(r) \/ Recover(r)

Next == NextMonth \/ \E r \in Requests : Handle(r) \/ Fail(r)

(* A handler that has started runs to its end. *)
Spec == Init /\ [][Next]_vars /\ \A r \in Requests : WF_vars(Handle(r))

-----------------------------------------------------------------------------
(* Properties.                                                             *)

Replies == {Unanswered} \cup {Accepted(r) : r \in Requests}
           \cup {Refused(why) : why \in {"idempotency_conflict", "quota_exceeded",
                                         "failed", "internal_error"}}

TypeOK ==
    /\ month \in 0..MaxMonth
    /\ approvals \subseteq Approval
    /\ call \in [Requests -> [key : Keys, body : Bodies]]
    /\ pc \in [Requests -> {"find", "open", "clock", "count", "insert", "recover", "done"}]
    /\ view \in [Requests -> SUBSET Approval]
    /\ since \in [Requests -> {NotRead} \cup 0..MaxMonth]
    /\ attempt \in [Requests -> 0..(MaxAttempts - 1)]
    /\ reply \in [Requests -> Replies]

(* No month takes more approvals than the plan allows, however many        *)
(* transactions count at once and whenever the month turns.                *)
QuotaRespected ==
    \A m \in 0..MaxMonth : Cardinality({a \in approvals : a.month = m}) <= Limit

(* All requests that were told of success under one key were told of the   *)
(* same stored approval, which is the one each of them asked for.          *)
KeyNamesOneApproval ==
    \A r, q \in Requests :
        (reply[r].kind = "created" /\ reply[q].kind = "created" /\ call[r].key = call[q].key) =>
            /\ reply[r].id = reply[q].id
            /\ \E a \in approvals : /\ a.id = reply[r].id
                                    /\ a.key = call[r].key /\ a.body = call[r].body

(* A client that repeats its request after losing the answer finds the     *)
(* approval it created: no key ever holds two.                             *)
OneApprovalPerKey ==
    \A a, b \in approvals : a.key = b.key => a = b

(* Each request reads its clock, is served as if at one later instant, and *)
(* everybody is answered.  A client cannot tell a 500 of the catch block   *)
(* from any other failure.                                                 *)
Contract == INSTANCE CreationContract
              WITH reply <- [r \in Requests |-> IF reply[r].kind = "internal_error"
                                                THEN Refused("failed") ELSE reply[r]]
ImplementsContract == Contract!Spec

-----------------------------------------------------------------------------
(* What the documentation says and the code does not do.                   *)

(* "reuse with a different body returns an idempotency conflict", not an   *)
(* internal error.                                                         *)
ReuseIsConflict ==
    \A r \in Requests : reply[r].kind # "internal_error"

(* "The same Idempotency-Key with an identical body returns the original   *)
(* result", also when that result has used up the quota of the month.      *)
RepeatIsNotRefused ==
    \A r \in Requests : reply[r] = Refused("quota_exceeded") =>
        ~\E a \in approvals : /\ a.month = since[r]
                             /\ a.key = call[r].key /\ a.body = call[r].body

(* One behaviour denies both.                                              *)
SomeRepeatServed == ReuseIsConflict \/ RepeatIsNotRefused
=============================================================================
