-------------------------- MODULE DeliveryContract --------------------------
(***************************************************************************)
(* What an outbox promises to those who enqueue and to those who receive:  *)
(* a delivery has one worker at a time, who alone changes what is recorded *)
(* about it; it is tried a limited number of times, counts as delivered    *)
(* only if it was taken, and is not sent again once it does.               *)
(*                                                                         *)
(* A worker slower than his lease shares the delivery with others from     *)
(* then on (`lapsed`).  What may happen to such a delivery depends on the  *)
(* outbox.  It knows nothing of batches, clocks, secrets or trails.        *)
(* Outboxes is shown to implement it.                                      *)
(***************************************************************************)
EXTENDS Integers

CONSTANTS Kinds, Deliveries, Processes, MaxAttempts

VARIABLES
    kind,      \* the outbox
    state,     \* of each delivery: absent, open or one of Ends
    tries,     \* recorded attempts
    holders,   \* who works on it
    lapsed,    \* deliveries a worker held for too long
    taken      \* those the receiver or the provider took

vars == <<kind, state, tries, holders, lapsed, taken>>

Ends == {"delivered", "given_up", "called_off"}

Init ==
    /\ kind \in Kinds
    /\ state = [d \in Deliveries |-> "absent"]
    /\ tries = [d \in Deliveries |-> 0]
    /\ holders = [d \in Deliveries |-> {}]
    /\ lapsed = {} /\ taken = {}

Put(d) ==
    /\ state[d] = "absent"
    /\ state' = [state EXCEPT ![d] = "open"]
    /\ UNCHANGED <<tries, lapsed, taken>>

(* To be delivered by the workers, or by the one who puts it there. *)
Enqueue(d) == Put(d) /\ UNCHANGED holders
Test(d, w) == Put(d) /\ kind = "webhook" /\ holders' = [holders EXCEPT ![d] = {w}]

(* Only an open authentication email is called off, and a webhook's        *)
(* deliveries go with it, whatever became of them.                         *)
CallOff(d) ==
    /\ \/ kind = "auth" /\ state[d] = "open"
       \/ kind = "webhook" /\ state[d] # "absent"
    /\ state' = [state EXCEPT ![d] = "called_off"]
    /\ UNCHANGED <<tries, holders, lapsed, taken>>

Take(d, w) ==
    /\ state[d] = "open" /\ tries[d] < MaxAttempts
    /\ holders[d] = {} \/ d \in lapsed
    /\ holders' = [holders EXCEPT ![d] = @ \cup {w}]
    /\ UNCHANGED <<state, tries, lapsed, taken>>

LetGo(d, w) ==
    /\ w \in holders[d]
    /\ holders' = [holders EXCEPT ![d] = @ \ {w}]
    /\ UNCHANGED <<state, tries, lapsed, taken>>

(* What is recorded as delivered or given up is not sent any more. *)
Send(d, w) ==
    /\ w \in holders[d]
    /\ state[d] \in {"open", "called_off"} \/ d \in lapsed
    /\ taken' = taken \cup {d}
    /\ UNCHANGED <<state, tries, holders, lapsed>>

(* An authentication email has its end once and for all.  Until a webhook's *)
(* worker lets go he may take back what he recorded; an approval email, and *)
(* a webhook, may be recorded again by a worker who is late.                *)
Recordable(d) ==
    \/ state[d] = "open"
    \/ kind = "webhook" /\ state[d] = "delivered"
    \/ kind # "auth" /\ state[d] \in {"delivered", "given_up"} /\ d \in lapsed

Counted(d) == IF state[d] = "open" THEN tries[d] + 1 ELSE tries[d]

Record(d, w) ==
    /\ w \in holders[d] /\ Recordable(d)
    /\ \E n \in 1..MaxAttempts :
          /\ d \in lapsed \/ n = Counted(d)
          /\ tries' = [tries EXCEPT ![d] = n]
          /\ \/ /\ d \in taken
                /\ state' = [state EXCEPT ![d] = "delivered"]
                /\ \/ holders' = [holders EXCEPT ![d] = @ \ {w}]
                   \/ kind = "webhook" /\ UNCHANGED holders
             \/ /\ state' = [state EXCEPT ![d] = IF n = MaxAttempts THEN "given_up" ELSE "open"]
                /\ holders' = [holders EXCEPT ![d] = @ \ {w}]
    /\ UNCHANGED <<lapsed, taken>>

(* The worker finds that an authentication email is of no use any more. *)
Refrain(d, w) ==
    /\ kind = "auth" /\ w \in holders[d] /\ state[d] = "open"
    /\ state' = [state EXCEPT ![d] = "called_off"]
    /\ holders' = [holders EXCEPT ![d] = @ \ {w}]
    /\ UNCHANGED <<tries, lapsed, taken>>

(* Time passes, and some who hold a delivery are too slow. *)
Lapse ==
    /\ \E late \in SUBSET {d \in Deliveries : holders[d] # {}} : lapsed' = lapsed \cup late
    /\ UNCHANGED <<state, tries, holders, taken>>

Next ==
    /\ \/ Lapse
       \/ \E d \in Deliveries : Enqueue(d) \/ CallOff(d)
       \/ \E d \in Deliveries, w \in Processes :
             Test(d, w) \/ Take(d, w) \/ LetGo(d, w) \/ Send(d, w) \/ Record(d, w) \/ Refrain(d, w)
    /\ UNCHANGED kind

Safety == Init /\ [][Next]_vars
=============================================================================
