----------------------------- MODULE MCClients -----------------------------
(* Clients for TLC, in three parts: callers side by side; one caller that  *)
(* is started again; flows and the application that resumes them.  Only    *)
(* the last needs the webhook deliveries.                                  *)
EXTENDS Clients

VARIABLE part

First == CHOOSE c \in Callers : TRUE
Alone == \A c \in Callers \ {First} : UNCHANGED <<call[c], starts[c]>>

MCInit == Init /\ part \in {"callers", "restarts", "app"}
MCNext == /\ Next /\ UNCHANGED part
          /\ CASE part = "callers"  -> UNCHANGED <<starts, outbox>>
               [] part = "restarts" -> Alone /\ UNCHANGED outbox
               [] part = "app"      -> Alone /\ \A c \in Callers : call'[c].kind \in {None, "flow"}
MCSpec == MCInit /\ [][MCNext]_<<vars, part>> /\ Fairness
=============================================================================
