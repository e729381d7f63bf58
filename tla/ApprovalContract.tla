-------------------------- MODULE ApprovalContract --------------------------
(***************************************************************************)
(* What the approvals table promises to everybody who uses it: an approval *)
(* is created pending, leaves the pending state exactly once for one of    *)
(* four outcomes, and every such change is written to the audit trail and  *)
(* to the webhook outbox together with the change itself.                  *)
(*                                                                         *)
(* It knows nothing of clocks, requests, retries or races.  The module     *)
(* ApprovalLifecycle, which models the handlers step by step, is shown to  *)
(* implement it.  An event is named by the status it announces: "PENDING"  *)
(* stands for approval.created, "APPROVED" for approval.approved, ...      *)
(***************************************************************************)
EXTENDS Sequences

CONSTANTS Approvals,   \* approval ids
          Webhooks     \* webhook ids

VARIABLES status,      \* Approval.status, "ABSENT" before the row exists
          trail,       \* ApprovalLog rows of each approval, oldest first
          outbox       \* WebhookDelivery rows, as <<webhook, approval, event>>

vars == <<status, trail, outbox>>

Outcomes == {"APPROVED", "REJECTED", "EXPIRED", "CANCELLED"}
Statuses == {"ABSENT", "PENDING"} \cup Outcomes

Init == /\ status = [a \in Approvals |-> "ABSENT"]
        /\ trail = [a \in Approvals |-> <<>>]
        /\ outbox = {}

Enter(a, s) ==
    /\ status' = [status EXCEPT ![a] = s]
    /\ trail' = [trail EXCEPT ![a] = Append(@, s)]
    /\ \E audience \in SUBSET Webhooks :
          outbox' = outbox \cup {<<w, a, s>> : w \in audience}

Create(a) == status[a] = "ABSENT" /\ Enter(a, "PENDING")

Resolve(a) == status[a] = "PENDING" /\ \E o \in Outcomes : Enter(a, o)

(* Deleting a webhook takes its deliveries along. *)
Forget(w) == /\ outbox' = {n \in outbox : n[1] # w}
             /\ UNCHANGED <<status, trail>>

Next == \/ \E a \in Approvals : Create(a) \/ Resolve(a)
        \/ \E w \in Webhooks : Forget(w)

(* No approval stays pending for ever. *)
Fairness == \A a \in Approvals : WF_vars(Resolve(a))

Safety == Init /\ [][Next]_vars
Spec == Safety /\ Fairness
=============================================================================
