----------------------------- MODULE MCAccounts -----------------------------
(* Accounts and Dashboard for TLC.  The two share no state, so they are    *)
(* checked side by side, and so are the pages of the dashboard: `part`     *)
(* says which of them a behaviour is about.                                *)
EXTENDS Accounts, Dashboard, TLC

VARIABLE part

Symmetry == Permutations(Clients) \cup Permutations(Hooks) \cup Permutations(Slots)

Reached ==
    CASE part = "deliveries" -> {Nil, "webhooks"}
      [] part = "keys" -> {Nil, "keys", "overview"}
      [] OTHER -> {Nil, part}

MCInit ==
    /\ Init /\ DashInit
    /\ \/ part = "account" /\ ~signedIn /\ alive = {}
       \/ part \in {"approvals", "keys", "settings"} /\ alive = {}
       \/ part = "webhooks" /\ (\E h \in Hooks : alive = {h})
       \/ part = "deliveries" /\ alive = Hooks
MCNext ==
    \/ part = "account" /\ Next /\ UNCHANGED <<part, dashVars>>
    \/ /\ part # "account" /\ DashNext /\ UNCHANGED <<part, vars>>
       /\ view'.page \in Reached
       /\ part = "webhooks" => signedIn' /\ view'.heading = Nil
       /\ part = "deliveries" =>
              \A s \in Slots : sent'[s].kind \notin {"create", "rotate", "test"}
MCSpec == MCInit /\ [][MCNext]_<<part, vars, dashVars>>
=============================================================================
