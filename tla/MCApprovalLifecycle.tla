------------------------ MODULE MCApprovalLifecycle ------------------------
(* Instances of ApprovalLifecycle for TLC.                                 *)
EXTENDS ApprovalLifecycle, TLC

CONSTANTS w1, w2

(* One webhook hears everything, the other has the default subscription.   *)
TwoHooks == (w1 :> Events) @@ (w2 :> {"APPROVED", "REJECTED", "EXPIRED"})
OneHook  == w1 :> Events
NoSubscription == <<>>   \* the empty function: an account without webhooks

Symmetry == Permutations(Requests)
ApprovalSymmetry == Permutations(Approvals) \cup Permutations(Requests)
=============================================================================
