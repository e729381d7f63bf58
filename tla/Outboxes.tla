------------------------------ MODULE Outboxes ------------------------------
(***************************************************************************)
(* The three outboxes drained by a worker in every replica of the server:  *)
(* webhook deliveries, approval emails and authentication emails.  They    *)
(* share one lease protocol and differ in how an attempt is recorded, so   *)
(* `kind` says which of them a behaviour is about.                         *)
(*                                                                         *)
(* A row is leased by writing processing and a nextAttemptAt in the        *)
(* future; a lease that runs out makes the row due again.  Time is         *)
(* relative: wait[d] is nextAttemptAt - now, in units of ten seconds and   *)
(* no less than 0.  Every database statement is one step, and so is the    *)
(* call that sends; a send may last longer than the lease.                 *)
(***************************************************************************)
EXTENDS Integers, Sequences, FiniteSets

CONSTANTS
    Kinds,        \* the outboxes to consider
    Deliveries,   \* ids, numbered by createdAt
    Workers,      \* one drain worker per replica
    Testers,      \* requests POST /v1/webhooks/:id/test
    Lease,        \* 30 s: 3
    MaxAttempts,  \* MAX_ATTEMPTS (5 in the code)
    BatchLimit    \* rows one tick of a worker takes (20 in the code)

ASSUME OutboxAssumption ==
    /\ Kinds \subseteq {"webhook", "email", "auth"}
    /\ Deliveries \subseteq Nat /\ IsFiniteSet(Deliveries)
    /\ Workers \cap Testers = {}
    /\ Lease \in Nat \ {0} /\ MaxAttempts \in Nat \ {0} /\ BatchLimit \in Nat \ {0}

VARIABLES
    kind,                    \* the outbox
    status, attempts, wait,  \* columns of the delivery
    secret,                  \* tokenCiphertext, codeCiphertext is not null
    audited,                 \* approvalId is not null: successes are logged
    code,                    \* the AuthCode: live, expired or consumed
    logged,                  \* last ApprovalLog row about the delivery
    accepted,                \* the receiver or email provider took it once
    batch,                   \* copies a worker still has to handle
    due,                     \* those with nextAttemptAt <= the batch's `now`
    pc,                      \* where the handling of the first copy is
    ok,                      \* result.success
    overrun                  \* history: a lease ran out before its holder

row   == <<status, attempts, wait, secret, audited, code, logged>>
local == <<batch, due, pc, ok>>
vars  == <<kind, row, accepted, local, overrun>>

Processes == Workers \cup Testers
Retryable == {"pending", "failed", "processing"}
Final     == {"delivered", "discarded", "dead_letter", "deleted"}

Init ==
    /\ kind \in Kinds
    /\ status = [d \in Deliveries |-> "absent"]
    /\ attempts = [d \in Deliveries |-> 0]
    /\ wait = [d \in Deliveries |-> 0]
    /\ secret = [d \in Deliveries |-> FALSE]
    /\ audited = [d \in Deliveries |-> FALSE]
    /\ code = [d \in Deliveries |-> "none"]
    /\ logged = [d \in Deliveries |-> "nothing"]
    /\ accepted = [d \in Deliveries |-> FALSE]
    /\ batch = [w \in Processes |-> <<>>]
    /\ due = [w \in Processes |-> {}]
    /\ pc = [w \in Processes |-> "idle"]
    /\ ok = [w \in Processes |-> FALSE]
    /\ overrun = {}

-----------------------------------------------------------------------------
(* The table.                                                              *)

Copy(d) == [id |-> d, status |-> status[d], attempts |-> attempts[d], secret |-> secret[d]]
Job(w)  == Head(batch[w])
Holds(w, d) == pc[w] \notin {"idle", "claim"} /\ Job(w).id = d
Exists(d) == status[d] \notin {"absent", "deleted"}

IsNext(d) == status[d] = "absent" /\ \A e \in Deliveries : e < d => status[e] # "absent"

(* Whoever writes nextAttemptAt moves it past the `now` of every batch.    *)
Postpone(d, units) ==
    /\ wait' = [wait EXCEPT ![d] = units]
    /\ due' = [w \in Processes |-> due[w] \ {d}]

(* min(1 h, 10 s * 2^(attempt - 1)) *)
Backoff(attempt) ==
    IF attempt > 9 THEN 360 ELSE <<1, 2, 4, 8, 16, 32, 64, 128, 256>>[attempt]

(* The row a transaction of the lifecycle, of the creation or of the       *)
(* accounts writes; due at once.                                           *)
Enqueue(d) ==
    /\ IsNext(d)
    /\ status' = [status EXCEPT ![d] = "pending"]
    /\ secret' = [secret EXCEPT ![d] = kind # "webhook"]
    /\ audited' = [audited EXCEPT ![d] = kind # "auth"]
    /\ code' = [code EXCEPT ![d] = IF kind = "auth" THEN "live" ELSE "none"]
    /\ UNCHANGED <<kind, attempts, wait, logged, accepted, local, overrun>>

(* The webhook is deleted and its deliveries with it. *)
Delete(d) ==
    /\ kind = "webhook" /\ Exists(d)
    /\ status' = [status EXCEPT ![d] = "deleted"]
    /\ UNCHANGED <<kind, attempts, wait, secret, audited, code, logged, accepted, local, overrun>>

(* The code is used, or expires. *)
Spend(d) ==
    /\ kind = "auth" /\ code[d] = "live"
    /\ \E end \in {"expired", "consumed"} : code' = [code EXCEPT ![d] = end]
    /\ UNCHANGED <<kind, status, attempts, wait, secret, audited, logged, accepted, local, overrun>>

(* createAuthCode consumes the codes before it and discards their emails. *)
Replace(d) ==
    /\ kind = "auth" /\ code[d] \in {"live", "expired"}
    /\ code' = [code EXCEPT ![d] = "consumed"]
    /\ status' = [status EXCEPT ![d] = IF @ \in Retryable THEN "discarded" ELSE @]
    /\ secret' = [secret EXCEPT ![d] = @ /\ status[d] \notin Retryable]
    /\ UNCHANGED <<kind, attempts, wait, audited, logged, accepted, local, overrun>>

Tick ==
    /\ wait' = [d \in Deliveries |-> IF wait[d] = 0 THEN 0 ELSE wait[d] - 1]
    /\ overrun' = overrun \cup
          {d \in Deliveries : wait[d] <= 1 /\ \E w \in Processes : Holds(w, d)}
    /\ UNCHANGED <<kind, status, attempts, secret, audited, code, logged, accepted, local>>

-----------------------------------------------------------------------------
(* The drain.                                                              *)

CandidatesNotLeased == {d \in Deliveries :                  \* defect: lapsed leases ignored
    status[d] \in {"pending", "failed"} /\ attempts[d] < MaxAttempts /\ wait[d] = 0}
CandidatesUnlimited == {d \in Deliveries :                  \* defect: attempts not limited
    status[d] \in Retryable /\ wait[d] = 0}
Candidates == {d \in Deliveries :
    status[d] \in Retryable /\ attempts[d] < MaxAttempts /\ wait[d] = 0}

(* The oldest candidates, at most BatchLimit of them. *)
IsBatch(s) ==
    /\ \A i, j \in DOMAIN s : i < j => s[i] < s[j]
    /\ \A d \in Candidates : \/ \E i \in DOMAIN s : s[i] = d
                             \/ Len(s) = BatchLimit /\ \A i \in DOMAIN s : s[i] < d

Select(w) ==
    /\ w \in Workers /\ pc[w] = "idle"
    /\ \E n \in 1..BatchLimit : \E s \in [1..n -> Candidates] :
          /\ IsBatch(s)
          /\ batch' = [batch EXCEPT ![w] = [i \in 1..n |-> Copy(s[i])]]
          /\ due' = [due EXCEPT ![w] = {s[i] : i \in 1..n}]
    /\ pc' = [pc EXCEPT ![w] = "claim"]
    /\ UNCHANGED <<kind, row, accepted, ok, overrun>>

GoTo(w, label) == pc' = [pc EXCEPT ![w] = label] /\ UNCHANGED <<batch, ok>>

(* The loop goes on with the next copy, or the batch is over. *)
Advance(w) ==
    /\ batch' = [batch EXCEPT ![w] = Tail(@)]
    /\ pc' = [pc EXCEPT ![w] = IF Len(batch[w]) = 1 THEN "idle" ELSE "claim"]
    /\ ok' = [ok EXCEPT ![w] = FALSE]

ClaimableAnyTime(w) ==                                      \* defect: nextAttemptAt not compared
    status[Job(w).id] = Job(w).status /\ attempts[Job(w).id] = Job(w).attempts
Claimable(w) ==
    /\ status[Job(w).id] = Job(w).status
    /\ attempts[Job(w).id] = Job(w).attempts
    /\ Job(w).id \in due[w]

Claim(w) ==
    /\ pc[w] = "claim"
    /\ \/ /\ Claimable(w)
          /\ status' = [status EXCEPT ![Job(w).id] = "processing"]
          /\ Postpone(Job(w).id, Lease)
          /\ GoTo(w, IF kind = "auth" THEN "check" ELSE "send")
          /\ UNCHANGED <<attempts, secret, audited, code, logged>>
       \/ /\ ~Claimable(w)
          /\ Advance(w)
          /\ UNCHANGED <<row, due>>
    /\ UNCHANGED <<kind, accepted, overrun>>

(* The code is looked up again: is it still worth an email? *)
Check(w) ==
    /\ kind = "auth" /\ pc[w] = "check"
    /\ GoTo(w, IF Job(w).secret /\ code[Job(w).id] = "live" THEN "send" ELSE "discard")
    /\ UNCHANGED <<kind, row, accepted, due, overrun>>

(* A response counts as success if it is a 2xx. *)
SucceededAnyResponse(outcome) == outcome # "lost"           \* defect: any response is success
Succeeded(outcome) == outcome = "accepted"

(* The receiver takes it, or takes it but the reply is lost, or refuses.   *)
(* An approval email without its token is not sent at all.                 *)
Send(w) ==
    /\ pc[w] = "send"
    /\ \E outcome \in {"accepted", "lost", "refused"} :
          /\ kind = "email" /\ ~Job(w).secret => outcome = "refused"
          /\ accepted' = [accepted EXCEPT ![Job(w).id] = @ \/ outcome \in {"accepted", "lost"}]
          /\ ok' = [ok EXCEPT ![w] = Succeeded(outcome)]
    /\ pc' = [pc EXCEPT ![w] = "record"]
    /\ UNCHANGED <<kind, row, batch, due, overrun>>

(* POST /v1/webhooks/:id/test creates a leased row and sends at once; its  *)
(* handler completes the row as a worker does (WebhookDelivered without    *)
(* the log row, WebhookThrows, WebhookFailed, WebhookGone), and an attempt *)
(* that fails is left to the workers.                                      *)
Test(t, d) ==
    /\ kind = "webhook" /\ t \in Testers /\ pc[t] = "idle"
    /\ IsNext(d)
    /\ status' = [status EXCEPT ![d] = "processing"]
    /\ attempts' = [attempts EXCEPT ![d] = 0]
    /\ Postpone(d, Lease)
    /\ batch' = [batch EXCEPT ![t] =
          <<[id |-> d, status |-> "processing", attempts |-> 0, secret |-> FALSE]>>]
    /\ pc' = [pc EXCEPT ![t] = "send"]
    /\ UNCHANGED <<kind, secret, audited, code, logged, accepted, ok, overrun>>

-----------------------------------------------------------------------------
(* Recording the attempt.                                                  *)

Attempt(w) == Job(w).attempts + 1

LastAttemptOneLater(w) == Attempt(w) > MaxAttempts          \* defect: off by one
LastAttempt(w) == Attempt(w) >= MaxAttempts

SetFailed(w, label) ==
    /\ status' = [status EXCEPT ![Job(w).id] = label]
    /\ attempts' = [attempts EXCEPT ![Job(w).id] = Attempt(w)]
    /\ Postpone(Job(w).id, Backoff(Attempt(w)))

SetDelivered(w) ==
    /\ status' = [status EXCEPT ![Job(w).id] = "delivered"]
    /\ attempts' = [attempts EXCEPT ![Job(w).id] = Attempt(w)]
    /\ secret' = [secret EXCEPT ![Job(w).id] = FALSE]

(* The update by id, then the log row in a statement of its own. *)
WebhookDelivered(w) ==
    /\ kind = "webhook" /\ pc[w] = "record" /\ ok[w]
    /\ Exists(Job(w).id)
    /\ SetDelivered(w)
    /\ IF audited[Job(w).id] THEN GoTo(w, "log") ELSE Advance(w)
    /\ UNCHANGED <<kind, wait, audited, code, logged, accepted, due, overrun>>

WebhookLogged(w) ==
    /\ kind = "webhook" /\ pc[w] = "log"
    /\ logged' = [logged EXCEPT ![Job(w).id] = "delivered"]
    /\ Advance(w)
    /\ UNCHANGED <<kind, status, attempts, wait, secret, audited, code, accepted, due, overrun>>

(* Either statement throws, the update certainly if the delivery has been  *)
(* deleted: the catch block records a failure.                             *)
WebhookThrows(w) ==
    /\ kind = "webhook"
    /\ (pc[w] = "record" /\ ok[w]) \/ pc[w] = "log"
    /\ pc' = [pc EXCEPT ![w] = "record"]
    /\ ok' = [ok EXCEPT ![w] = FALSE]
    /\ UNCHANGED <<kind, row, accepted, batch, due, overrun>>

WebhookFailed(w) ==
    /\ kind = "webhook" /\ pc[w] = "record" /\ ~ok[w]
    /\ Exists(Job(w).id)
    /\ SetFailed(w, "failed")
    /\ Advance(w)
    /\ UNCHANGED <<kind, secret, audited, code, logged, accepted, overrun>>

(* The `finally` of the timer's callback lets the next tick run.           *)
DropBatchStillRunning(w) ==                                 \* defect: flag not reset
    /\ pc' = [pc EXCEPT ![w] = "running"]
    /\ UNCHANGED <<kind, row, accepted, batch, due, ok, overrun>>
DropBatch(w) ==
    /\ batch' = [batch EXCEPT ![w] = <<>>]
    /\ due' = [due EXCEPT ![w] = {}]
    /\ pc' = [pc EXCEPT ![w] = "idle"]
    /\ ok' = [ok EXCEPT ![w] = FALSE]
    /\ UNCHANGED <<kind, row, accepted, overrun>>

(* The catch block finds no row to update: its exception ends the batch. *)
WebhookGone(w) ==
    /\ kind = "webhook" /\ pc[w] = "record" /\ ~ok[w]
    /\ ~Exists(Job(w).id)
    /\ DropBatch(w)

(* One transaction with the log row. *)
EmailDelivered(w) ==
    /\ kind = "email" /\ pc[w] = "record" /\ ok[w]
    /\ SetDelivered(w)
    /\ logged' = [logged EXCEPT ![Job(w).id] = "delivered"]
    /\ Advance(w)
    /\ UNCHANGED <<kind, wait, audited, code, accepted, due, overrun>>

EmailFailed(w) ==
    /\ kind = "email" /\ pc[w] = "record" /\ ~ok[w]
    /\ SetFailed(w, "failed")
    /\ logged' = [logged EXCEPT ![Job(w).id] = IF LastAttempt(w) THEN "delivery_failed" ELSE @]
    /\ Advance(w)
    /\ UNCHANGED <<kind, secret, audited, code, accepted, overrun>>

(* Updates that find the row only while it is processing. *)
StillProcessingById(w) == TRUE                              \* defect: completes by id alone
StillProcessing(w) == status[Job(w).id] = "processing"

AuthDiscarded(w) ==
    /\ kind = "auth" /\ pc[w] = "discard"
    /\ \/ /\ StillProcessing(w)
          /\ status' = [status EXCEPT ![Job(w).id] = "discarded"]
          /\ secret' = [secret EXCEPT ![Job(w).id] = FALSE]
       \/ /\ ~StillProcessing(w)
          /\ UNCHANGED <<status, secret>>
    /\ Advance(w)
    /\ UNCHANGED <<kind, attempts, wait, audited, code, logged, accepted, due, overrun>>

AuthDelivered(w) ==
    /\ kind = "auth" /\ pc[w] = "record" /\ ok[w]
    /\ \/ StillProcessing(w) /\ SetDelivered(w)
       \/ ~StillProcessing(w) /\ UNCHANGED <<status, attempts, secret>>
    /\ Advance(w)
    /\ UNCHANGED <<kind, wait, audited, code, logged, accepted, due, overrun>>

AuthFailed(w) ==
    /\ kind = "auth" /\ pc[w] = "record" /\ ~ok[w]
    /\ \/ /\ StillProcessing(w)
          /\ SetFailed(w, IF LastAttempt(w) THEN "dead_letter" ELSE "failed")
          /\ secret' = [secret EXCEPT ![Job(w).id] = @ /\ ~LastAttempt(w)]
       \/ /\ ~StillProcessing(w)
          /\ UNCHANGED <<status, attempts, wait, secret, due>>
    /\ Advance(w)
    /\ UNCHANGED <<kind, audited, code, logged, accepted, overrun>>

(* A statement throws, or the replica dies: the rest of the batch is left  *)
(* to a later one, and so is the row in hand once its lease runs out.      *)
Abort(w) == pc[w] # "idle" /\ DropBatch(w)

-----------------------------------------------------------------------------

Record(w) == \/ WebhookDelivered(w) \/ WebhookLogged(w)
             \/ WebhookFailed(w) \/ WebhookGone(w)
             \/ EmailDelivered(w) \/ EmailFailed(w)
             \/ AuthDiscarded(w) \/ AuthDelivered(w) \/ AuthFailed(w)

Next == \/ Tick
        \/ \E d \in Deliveries : Enqueue(d) \/ Delete(d) \/ Spend(d) \/ Replace(d)
        \/ \E t \in Testers, d \in Deliveries : Test(t, d)
        \/ \E w \in Processes : \/ Select(w) \/ Claim(w) \/ Check(w) \/ Send(w)
                                \/ Record(w) \/ WebhookThrows(w) \/ Abort(w)

(* Time passes, the interval timer of every replica keeps firing, every    *)
(* send of its worker ends, and what it can try again and again does not   *)
(* throw, nor the replica die, each time.                                  *)
Fairness == /\ WF_vars(Tick)
            /\ \A w \in Workers :
                  /\ WF_vars(Select(w)) /\ WF_vars(WebhookThrows(w))
                  /\ SF_vars(Claim(w)) /\ SF_vars(Check(w)) /\ SF_vars(Send(w))
                  /\ SF_vars(Record(w))

Spec == Init /\ [][Next]_vars /\ Fairness

-----------------------------------------------------------------------------
(* Properties.                                                             *)

Labels == {"idle", "claim", "check", "discard", "send", "record", "log"}
Copies == [id : Deliveries, status : Retryable, attempts : 0..MaxAttempts - 1, secret : BOOLEAN]

TypeOK ==
    /\ kind \in Kinds
    /\ status \in [Deliveries -> {"absent"} \cup Retryable \cup Final]
    /\ attempts \in [Deliveries -> 0..MaxAttempts]
    /\ wait \in [Deliveries -> Nat]
    /\ secret \in [Deliveries -> BOOLEAN]
    /\ audited \in [Deliveries -> BOOLEAN]
    /\ code \in [Deliveries -> {"none", "live", "expired", "consumed"}]
    /\ logged \in [Deliveries -> {"nothing", "delivered", "delivery_failed"}]
    /\ accepted \in [Deliveries -> BOOLEAN]
    /\ batch \in [Processes -> Seq(Copies)]
    /\ due \in [Processes -> SUBSET Deliveries]
    /\ pc \in [Processes -> Labels]
    /\ ok \in [Processes -> BOOLEAN]
    /\ \A w \in Processes : pc[w] = "idle" <=> batch[w] = <<>>
    /\ overrun \subseteq Deliveries

(* Two replicas, or a replica and a test request, never work on a delivery *)
(* at once while its lease runs: whoever holds it finds the row as he left *)
(* it, processing or, on the way to the log row, delivered, unless its     *)
(* code was replaced or its webhook deleted meanwhile; and no batch read   *)
(* before can claim it.                                                    *)
AsLeft(w, d) ==
    \/ status[d] = "processing" /\ attempts[d] = Job(w).attempts /\ pc[w] # "log"
    \/ /\ kind = "webhook" /\ audited[d]
       /\ status[d] = "delivered" /\ attempts[d] = Attempt(w)
       /\ pc[w] = "log" \/ (pc[w] = "record" /\ ~ok[w])
    \/ kind = "auth" /\ status[d] = "discarded" /\ code[d] = "consumed"
    \/ kind = "webhook" /\ status[d] = "deleted"
LeaseExclusive ==
    \A d \in Deliveries \ overrun : \A w \in Processes : Holds(w, d) =>
        /\ wait[d] > 0
        /\ AsLeft(w, d)
        /\ \A v \in Processes : (Holds(v, d) => v = w) /\ d \notin due[v]

(* A delivery counts as made, for the worker, in its row and in the audit  *)
(* trail, only if the receiver or the provider did take it, shared         *)
(* batches, lapsed leases and late records included.                       *)
DeliveredWasAccepted ==
    /\ \A d \in Deliveries : status[d] = "delivered" \/ logged[d] = "delivered" => accepted[d]
    /\ \A w \in Processes :
          (pc[w] = "record" /\ ok[w]) \/ pc[w] = "log" => accepted[Job(w).id]

(* An authentication email that is delivered, discarded or given up stays  *)
(* so: neither a late worker whose lease ran out nor a batch read earlier  *)
(* brings it back.  Webhooks and approval emails are completed by id, and  *)
(* keep to this only while no lease runs out; a webhook whose log row      *)
(* cannot be written goes back to failed as well.                          *)
FinalIsFinal ==
    [][\A d \in Deliveries : status[d] \in Final /\ status'[d] # status[d] =>
          \/ status'[d] = "deleted"
          \/ kind # "auth" /\ d \in overrun
          \/ kind = "webhook" /\ audited[d] /\ \E w \in Processes : Holds(w, d) /\ ~ok[w]]_vars

(* The raw token or code lives exactly as long as it may have to be sent:  *)
(* it is gone once the email is delivered, discarded or given up, and      *)
(* there while it will be tried again.  An approval email that runs out of *)
(* attempts keeps it; one that a late worker revives has lost it.          *)
SecretAsLongAsNeeded ==
    kind # "webhook" => \A d \in Deliveries :
        /\ status[d] \in Final => ~secret[d]
        /\ status[d] \in Retryable => secret[d] \/ (kind = "email" /\ d \in overrun)

(* The trail of an approval says delivered exactly if the email is, and    *)
(* delivery_failed exactly if it has been given up.                        *)
TrailMatchesEmail ==
    kind = "email" => \A d \in Deliveries \ overrun :
        /\ logged[d] = "delivered" <=> status[d] = "delivered"
        /\ logged[d] = "delivery_failed" <=> status[d] = "failed" /\ attempts[d] = MaxAttempts

(* The outboxes implement DeliveryContract: batches, leases and the three  *)
(* ways to record an attempt amount to one worker per delivery, attempts   *)
(* that are counted once and limited, and no second mail of what counts as *)
(* delivered, except that a worker whose lease ran out shares his delivery *)
(* with the next one.                                                      *)
Outcome(d) ==
    CASE status[d] = "absent" -> "absent"
      [] status[d] = "delivered" -> "delivered"
      [] status[d] \in {"discarded", "deleted"} -> "called_off"
      [] status[d] = "dead_letter" -> "given_up"
      [] status[d] = "failed" /\ attempts[d] = MaxAttempts -> "given_up"
      [] OTHER -> "open"

Contract == INSTANCE DeliveryContract WITH
    state   <- [d \in Deliveries |-> Outcome(d)],
    tries   <- attempts,
    holders <- [d \in Deliveries |-> {w \in Processes : Holds(w, d)}],
    lapsed  <- overrun,
    taken   <- {d \in Deliveries : accepted[d]}
ImplementsContract == Contract!Safety

(* Whatever is enqueued comes to an end: delivered, discarded, deleted or  *)
(* given up, whichever workers crash and leases run out on the way.        *)
Settled(d) == status[d] \in Final \/ (status[d] = "failed" /\ attempts[d] = MaxAttempts)
Settles == \A d \in Deliveries : <>[](status[d] = "absent" \/ Settled(d))

-----------------------------------------------------------------------------
(* What the documentation says and the code does not do.                   *)

(* The raw code is removed as soon as its email is known to be delivered.  *)
CodeRemovedOnDelivery ==
    [][\A w \in Processes : AuthDelivered(w) => ~secret'[Job(w).id]]_vars
=============================================================================
