------------------------- MODULE MCApprovalCreation -------------------------
(* ApprovalCreation for TLC.  Requests and keys are interchangeable, also  *)
(* for the liveness of the contract: of the initial states that differ by  *)
(* their names only, one is enough.  With numbers for names it is one with *)
(* the calls in ascending order and the keys by how many calls use them,   *)
(* then by the bodies they come with.                                      *)
EXTENDS ApprovalCreation

Ascending ==
    \A r, q \in Requests : r < q =>
        \/ call[r].key < call[q].key
        \/ call[r].key = call[q].key /\ call[r].body <= call[q].body

Uses(k) == Cardinality({r \in Requests : call[r].key = k})
KeysByUse ==
    \A k, l \in Keys : k < l =>
        \/ Uses(k) > Uses(l)
        \/ /\ Uses(k) = Uses(l)
           /\ \A r, q \in Requests :
                 call[r].key = k /\ call[q].key = l => call[r].body <= call[q].body

MCInit == Init /\ Ascending /\ KeysByUse
MCSpec == MCInit /\ [][Next]_vars /\ \A r \in Requests : WF_vars(Handle(r))
=============================================================================
