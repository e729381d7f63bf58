-------------------------- MODULE CreationContract --------------------------
(***************************************************************************)
(* What creating approvals with Idempotency-Keys promises an account: each *)
(* request is served at one instant, a key creates at most one approval, a *)
(* month takes at most Limit of them, and everybody is answered.  A        *)
(* request is refused by the clock it read some time before that instant:  *)
(* if the month has turned in between, the rows of both months count, and  *)
(* it may hear of a full quota though neither month is full.  The contract *)
(* knows nothing of transactions, retries or races.  ApprovalCreation,     *)
(* which models the handler statement by statement, implements it.         *)
(***************************************************************************)
EXTENDS Integers, FiniteSets

CONSTANTS Requests, Keys, Bodies, Limit, MaxMonth

VARIABLES month, approvals, call, since, reply

vars == <<month, approvals, call, since, reply>>

Approval == [id : Requests, key : Keys, body : Bodies, month : 0..MaxMonth]
NotRead == -1
Unanswered == [kind |-> "none"]
Accepted(id) == [kind |-> "created", id |-> id]
Refused(why) == [kind |-> why]

(* Full, counted from the beginning of a month up to now. *)
Full(m) == Cardinality({a \in approvals : a.month >= m}) >= Limit

Init == /\ month = 0
        /\ approvals = {}
        /\ call \in [Requests -> [key : Keys, body : Bodies]]
        /\ since = [r \in Requests |-> NotRead]
        /\ reply = [r \in Requests |-> Unanswered]

Tell(r, answer) == /\ reply[r] = Unanswered
                   /\ reply' = [reply EXCEPT ![r] = answer]

(* The same key and the same body: the same approval. *)
Replay(r) ==
    /\ \E a \in approvals : /\ a.key = call[r].key /\ a.body = call[r].body
                            /\ Tell(r, Accepted(a.id))
    /\ UNCHANGED approvals

Refuse(r) ==
    /\ \/ /\ \E a \in approvals : a.key = call[r].key /\ a.body # call[r].body
          /\ Tell(r, Refused("idempotency_conflict"))
       \/ since[r] # NotRead /\ Full(since[r]) /\ Tell(r, Refused("quota_exceeded"))
    /\ UNCHANGED approvals

(* The client may never hear of the approval it created. *)
Create(r) ==
    /\ \A a \in approvals : a.key # call[r].key
    /\ ~Full(month)
    /\ approvals' = approvals \cup
          {[id |-> r, key |-> call[r].key, body |-> call[r].body, month |-> month]}
    /\ Tell(r, Accepted(r)) \/ Tell(r, Refused("failed"))

Fail(r) == Tell(r, Refused("failed")) /\ UNCHANGED approvals

Serve(r) == /\ Replay(r) \/ Refuse(r) \/ Create(r) \/ Fail(r)
            /\ UNCHANGED <<month, call, since>>

ReadClock(r) == /\ reply[r] = Unanswered
                /\ since' = [since EXCEPT ![r] = month]
                /\ UNCHANGED <<month, approvals, call, reply>>

NextMonth == /\ month < MaxMonth
             /\ month' = month + 1
             /\ UNCHANGED <<approvals, call, since, reply>>

Next == NextMonth \/ \E r \in Requests : ReadClock(r) \/ Serve(r)

Safety == Init /\ [][Next]_vars
Spec == Safety /\ \A r \in Requests : WF_vars(Serve(r))
=============================================================================
