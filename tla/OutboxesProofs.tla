--------------------------- MODULE OutboxesProofs ---------------------------
(***************************************************************************)
(* Proofs about Outboxes, for every number of deliveries, replicas, test   *)
(* requests, attempts and rows in a batch, and every length of the lease.  *)
(***************************************************************************)
EXTENDS Outboxes, SequenceTheorems, TLAPS

-----------------------------------------------------------------------------
(* Types.                                                                  *)

(* The copy in hand and what is behind it. *)
LEMMA JobType ==
    ASSUME TypeOK, NEW w \in Processes, pc[w] # "idle"
    PROVE  /\ batch[w] \in Seq(Copies) /\ batch[w] # <<>>
           /\ Job(w) \in Copies /\ Job(w).id \in Deliveries
           /\ Job(w).attempts \in 0..(MaxAttempts - 1)
           /\ Attempt(w) \in 1..MaxAttempts
           /\ Tail(batch[w]) \in Seq(Copies)
           /\ Tail(batch[w]) = <<>> <=> Len(batch[w]) = 1
<1>1. batch[w] \in Seq(Copies) /\ batch[w] # <<>>
  BY DEF TypeOK
<1>2. Job(w) \in Copies
  BY <1>1 DEF Job
<1>3. Tail(batch[w]) \in Seq(Copies) /\ (Tail(batch[w]) = <<>> <=> Len(batch[w]) = 1)
  <2>1. /\ Tail(batch[w]) \in Seq(Copies)
        /\ Len(Tail(batch[w])) = Len(batch[w]) - 1 /\ Len(batch[w]) \in Nat
    BY <1>1
  <2>2. Tail(batch[w]) = <<>> <=> Len(Tail(batch[w])) = 0
    BY <2>1, EmptySeq
  <2>3. QED
    BY <2>1, <2>2
<1>4. Job(w).id \in Deliveries /\ Job(w).attempts \in 0..(MaxAttempts - 1)
  BY <1>2 DEF Copies
<1>5. Attempt(w) \in 1..MaxAttempts
  BY <1>4, OutboxAssumption DEF Attempt
<1>6. QED
  BY <1>1, <1>2, <1>3, <1>4, <1>5

LEMMA BackoffType == \A k \in Nat \ {0} : Backoff(k) \in Nat /\ Backoff(k) > 0
BY DEF Backoff

(* What a step does to the workers' side, typed. *)
LocalOK ==
    /\ batch \in [Processes -> Seq(Copies)]
    /\ due \in [Processes -> SUBSET Deliveries]
    /\ pc \in [Processes -> Labels]
    /\ ok \in [Processes -> BOOLEAN]
    /\ \A w \in Processes : pc[w] = "idle" <=> batch[w] = <<>>

LEMMA AdvanceType ==
    ASSUME TypeOK, NEW w \in Processes, pc[w] # "idle", Advance(w),
           due' \in [Processes -> SUBSET Deliveries]
    PROVE  LocalOK'
BY JobType DEF Advance, LocalOK, TypeOK, Labels

LEMMA GoToType ==
    ASSUME TypeOK, NEW w \in Processes, pc[w] # "idle",
           NEW label \in Labels \ {"idle"}, GoTo(w, label),
           due' \in [Processes -> SUBSET Deliveries]
    PROVE  LocalOK'
BY DEF GoTo, LocalOK, TypeOK, Labels

LEMMA PostponeType ==
    ASSUME TypeOK, NEW d \in Deliveries, NEW units \in Nat, Postpone(d, units)
    PROVE  wait' \in [Deliveries -> Nat] /\ due' \in [Processes -> SUBSET Deliveries]
BY DEF Postpone, TypeOK

(* A row whose columns keep their types. *)
RowOK ==
    /\ status \in [Deliveries -> {"absent"} \cup Retryable \cup Final]
    /\ attempts \in [Deliveries -> 0..MaxAttempts]
    /\ wait \in [Deliveries -> Nat]
    /\ secret \in [Deliveries -> BOOLEAN]
    /\ audited \in [Deliveries -> BOOLEAN]
    /\ code \in [Deliveries -> {"none", "live", "expired", "consumed"}]
    /\ logged \in [Deliveries -> {"nothing", "delivered", "delivery_failed"}]

LEMMA DropBatchType ==
    ASSUME TypeOK, NEW w \in Processes, DropBatch(w)
    PROVE  TypeOK'
<1>1. <<>> \in Seq(Copies)
  OBVIOUS
<1>2. QED
  BY <1>1 DEF DropBatch, TypeOK, Labels, row

LEMMA FailedType ==
    ASSUME TypeOK, NEW w \in Processes, pc[w] # "idle",
           NEW label \in {"failed", "dead_letter"}, SetFailed(w, label)
    PROVE  /\ status' \in [Deliveries -> {"absent"} \cup Retryable \cup Final]
           /\ attempts' \in [Deliveries -> 0..MaxAttempts]
           /\ wait' \in [Deliveries -> Nat]
           /\ due' \in [Processes -> SUBSET Deliveries]
<1>1. Attempt(w) \in 1..MaxAttempts /\ Job(w).id \in Deliveries
  BY JobType
<1>2. Backoff(Attempt(w)) \in Nat
  BY <1>1, BackoffType, OutboxAssumption
<1>3. wait' \in [Deliveries -> Nat] /\ due' \in [Processes -> SUBSET Deliveries]
  BY <1>1, <1>2, PostponeType DEF SetFailed
<1>4. status' \in [Deliveries -> {"absent"} \cup Retryable \cup Final]
  BY DEF SetFailed, TypeOK, Retryable, Final
<1>5. attempts' \in [Deliveries -> 0..MaxAttempts]
  BY <1>1, OutboxAssumption DEF SetFailed, TypeOK
<1>6. QED
  BY <1>3, <1>4, <1>5

LEMMA DeliveredType ==
    ASSUME TypeOK, NEW w \in Processes, pc[w] # "idle", SetDelivered(w)
    PROVE  /\ status' \in [Deliveries -> {"absent"} \cup Retryable \cup Final]
           /\ attempts' \in [Deliveries -> 0..MaxAttempts]
           /\ secret' \in [Deliveries -> BOOLEAN]
<1>1. Attempt(w) \in 1..MaxAttempts /\ Job(w).id \in Deliveries
  BY JobType
<1>2. attempts' \in [Deliveries -> 0..MaxAttempts]
  BY <1>1, OutboxAssumption DEF SetDelivered, TypeOK
<1>3. QED
  BY <1>2 DEF SetDelivered, TypeOK, Retryable, Final

(* A selected batch holds copies that may still be attempted. *)
LEMMA SelectType ==
    ASSUME TypeOK, NEW w \in Processes, Select(w)
    PROVE  LocalOK'
<1>0. PICK n \in 1..BatchLimit : \E s \in [1..n -> Candidates] :
          /\ batch' = [batch EXCEPT ![w] = [i \in 1..n |-> Copy(s[i])]]
          /\ due' = [due EXCEPT ![w] = {s[i] : i \in 1..n}]
  BY DEF Select
<1>1. PICK s \in [1..n -> Candidates] :
          /\ batch' = [batch EXCEPT ![w] = [i \in 1..n |-> Copy(s[i])]]
          /\ due' = [due EXCEPT ![w] = {s[i] : i \in 1..n}]
  BY <1>0
<1>2. \A d \in Candidates : d \in Deliveries /\ Copy(d) \in Copies
  BY OutboxAssumption DEF Candidates, Copy, Copies, TypeOK
<1>3. [i \in 1..n |-> Copy(s[i])] \in Seq(Copies)
  BY <1>2, OutboxAssumption
<1>4. [i \in 1..n |-> Copy(s[i])] # <<>>
  BY <1>1, OutboxAssumption
<1>5. batch' \in [Processes -> Seq(Copies)]
  BY <1>1, <1>3 DEF TypeOK
<1>6. due' \in [Processes -> SUBSET Deliveries]
  BY <1>1, <1>2 DEF TypeOK
<1>7. QED
  BY <1>1, <1>4, <1>5, <1>6 DEF Select, LocalOK, TypeOK, Labels

(* Every variable holds a value of its type; in particular no row is ever  *)
(* tried more than MaxAttempts times as far as its counter goes.           *)
THEOREM TypeCorrect == Spec => []TypeOK
<1>1. Init => TypeOK
  <2> SUFFICES ASSUME Init PROVE TypeOK
    OBVIOUS
  <2>1. <<>> \in Seq(Copies)
    OBVIOUS
  <2>2. QED
    BY <2>1, OutboxAssumption DEF Init, TypeOK, Labels
<1>2. TypeOK /\ [Next]_vars => TypeOK'
  <2> SUFFICES ASSUME TypeOK, [Next]_vars PROVE TypeOK'
    OBVIOUS
  <2> USE DEF local
  <2>1. CASE Tick
    BY <2>1 DEF Tick, TypeOK
  <2>2. ASSUME NEW d \in Deliveries, Enqueue(d) \/ Delete(d) \/ Spend(d) \/ Replace(d)
        PROVE  TypeOK'
    <3>1. CASE Enqueue(d)
      BY <2>2, <3>1 DEF Enqueue, TypeOK, Retryable
    <3>2. CASE Delete(d)
      BY <2>2, <3>2 DEF Delete, TypeOK, Final
    <3>3. CASE Spend(d)
      BY <2>2, <3>3 DEF Spend, TypeOK
    <3>4. CASE Replace(d)
      BY <2>2, <3>4 DEF Replace, TypeOK, Final
    <3>5. QED
      BY <2>2, <3>1, <3>2, <3>3, <3>4
  <2>3. ASSUME NEW t \in Testers, NEW d \in Deliveries, Test(t, d)
        PROVE  TypeOK'
    <3>1. t \in Processes
      BY DEF Processes
    <3>2. <<[id |-> d, status |-> "processing", attempts |-> 0, secret |-> FALSE]>> \in Seq(Copies)
      BY OutboxAssumption DEF Copies, Retryable
    <3>3. wait' \in [Deliveries -> Nat] /\ due' \in [Processes -> SUBSET Deliveries]
      BY <2>3, PostponeType, OutboxAssumption DEF Test
    <3>4. LocalOK'
      BY <2>3, <3>1, <3>2, <3>3 DEF Test, LocalOK, TypeOK, Labels
    <3>5. RowOK'
      <4>1. 0 \in 0..MaxAttempts
        BY OutboxAssumption
      <4>2. attempts' \in [Deliveries -> 0..MaxAttempts]
        BY <2>3, <4>1 DEF Test, TypeOK
      <4>3. QED
        BY <2>3, <3>3, <4>2 DEF Test, RowOK, TypeOK, Retryable
    <3>6. QED
      BY <2>3, <3>4, <3>5 DEF Test, RowOK, LocalOK, TypeOK
  <2>4. ASSUME NEW w \in Processes, Select(w)
        PROVE  TypeOK'
    <3>1. RowOK'
      BY <2>4 DEF Select, row, RowOK, TypeOK
    <3>2. QED
      BY <2>4, <3>1, SelectType DEF Select, RowOK, LocalOK, TypeOK
  <2>5. ASSUME NEW w \in Processes, Claim(w)
        PROVE  TypeOK'
    <3>1. pc[w] # "idle" /\ Job(w).id \in Deliveries
      BY <2>5, JobType DEF Claim
    <3>2. CASE Claimable(w)
      <4>1. wait' \in [Deliveries -> Nat] /\ due' \in [Processes -> SUBSET Deliveries]
        BY <2>5, <3>1, <3>2, PostponeType, OutboxAssumption DEF Claim
      <4>2. LocalOK'
        BY <2>5, <3>1, <3>2, <4>1, GoToType DEF Claim, Labels
      <4>3. RowOK'
        BY <2>5, <3>2, <4>1 DEF Claim, RowOK, TypeOK, Retryable
      <4>4. QED
        BY <2>5, <4>2, <4>3 DEF Claim, RowOK, LocalOK, TypeOK
    <3>3. CASE ~Claimable(w)
      <4>1. LocalOK'
        BY <2>5, <3>1, <3>3, AdvanceType DEF Claim, TypeOK
      <4>2. RowOK'
        BY <2>5, <3>3 DEF Claim, row, RowOK, TypeOK
      <4>3. QED
        BY <2>5, <4>1, <4>2 DEF Claim, RowOK, LocalOK, TypeOK
    <3>4. QED
      BY <3>2, <3>3
  <2>6. ASSUME NEW w \in Processes, Check(w)
        PROVE  TypeOK'
    <3>1. LocalOK'
      BY <2>6, GoToType DEF Check, Labels, TypeOK
    <3>2. RowOK'
      BY <2>6 DEF Check, row, RowOK, TypeOK
    <3>3. QED
      BY <2>6, <3>1, <3>2 DEF Check, RowOK, LocalOK, TypeOK
  <2>7. ASSUME NEW w \in Processes, Send(w)
        PROVE  TypeOK'
    BY <2>7, JobType DEF Send, Succeeded, row, TypeOK, Labels
  <2>8. ASSUME NEW w \in Processes, Record(w)
        PROVE  TypeOK'
    <3> USE DEF Labels
    <3>1. CASE WebhookDelivered(w)
      <4>1. LocalOK'
        BY <3>1, AdvanceType, GoToType DEF WebhookDelivered, TypeOK
      <4>2. RowOK'
        BY <3>1, DeliveredType DEF WebhookDelivered, RowOK, TypeOK
      <4>3. QED
        BY <3>1, <4>1, <4>2 DEF WebhookDelivered, RowOK, LocalOK, TypeOK
    <3>2. CASE WebhookLogged(w)
      <4>1. LocalOK'
        BY <3>2, AdvanceType DEF WebhookLogged, TypeOK
      <4>2. RowOK'
        BY <3>2 DEF WebhookLogged, RowOK, TypeOK
      <4>3. QED
        BY <3>2, <4>1, <4>2 DEF WebhookLogged, RowOK, LocalOK, TypeOK
    <3>3. CASE WebhookFailed(w)
      <4>1. RowOK' /\ due' \in [Processes -> SUBSET Deliveries]
        BY <3>3, FailedType DEF WebhookFailed, RowOK, TypeOK
      <4>2. LocalOK'
        BY <3>3, <4>1, AdvanceType DEF WebhookFailed
      <4>3. QED
        BY <3>3, <4>1, <4>2 DEF WebhookFailed, RowOK, LocalOK, TypeOK
    <3>4. CASE WebhookGone(w)
      BY <3>4, DropBatchType DEF WebhookGone
    <3>5. CASE EmailDelivered(w)
      <4>1. LocalOK'
        BY <3>5, AdvanceType DEF EmailDelivered, TypeOK
      <4>2. RowOK'
        BY <3>5, DeliveredType DEF EmailDelivered, RowOK, TypeOK
      <4>3. QED
        BY <3>5, <4>1, <4>2 DEF EmailDelivered, RowOK, LocalOK, TypeOK
    <3>6. CASE EmailFailed(w)
      <4>1. RowOK' /\ due' \in [Processes -> SUBSET Deliveries]
        BY <3>6, FailedType DEF EmailFailed, RowOK, TypeOK
      <4>2. LocalOK'
        BY <3>6, <4>1, AdvanceType DEF EmailFailed
      <4>3. QED
        BY <3>6, <4>1, <4>2 DEF EmailFailed, RowOK, LocalOK, TypeOK
    <3>7. CASE AuthDiscarded(w)
      <4>1. LocalOK'
        BY <3>7, AdvanceType DEF AuthDiscarded, TypeOK
      <4>2. RowOK'
        BY <3>7 DEF AuthDiscarded, RowOK, TypeOK, Final
      <4>3. QED
        BY <3>7, <4>1, <4>2 DEF AuthDiscarded, RowOK, LocalOK, TypeOK
    <3>8. CASE AuthDelivered(w)
      <4>1. LocalOK'
        BY <3>8, AdvanceType DEF AuthDelivered, TypeOK
      <4>2. RowOK'
        BY <3>8, DeliveredType DEF AuthDelivered, RowOK, TypeOK
      <4>3. QED
        BY <3>8, <4>1, <4>2 DEF AuthDelivered, RowOK, LocalOK, TypeOK
    <3>9. CASE AuthFailed(w)
      <4>1. RowOK' /\ due' \in [Processes -> SUBSET Deliveries]
        <5>1. CASE StillProcessing(w)
          <6>1. PICK label \in {"failed", "dead_letter"} : SetFailed(w, label)
            BY <3>9, <5>1 DEF AuthFailed
          <6>2. secret' \in [Deliveries -> BOOLEAN]
            BY <3>9, <5>1, JobType DEF AuthFailed, TypeOK
          <6>3. QED
            BY <3>9, <6>1, <6>2, FailedType DEF AuthFailed, RowOK, TypeOK
        <5>2. CASE ~StillProcessing(w)
          BY <3>9, <5>2 DEF AuthFailed, RowOK, TypeOK
        <5>3. QED
          BY <5>1, <5>2
      <4>2. LocalOK'
        BY <3>9, <4>1, AdvanceType DEF AuthFailed
      <4>3. QED
        BY <3>9, <4>1, <4>2 DEF AuthFailed, RowOK, LocalOK, TypeOK
    <3>10. QED
      BY <2>8, <3>1, <3>2, <3>3, <3>4, <3>5, <3>6, <3>7, <3>8, <3>9 DEF Record
  <2>9. ASSUME NEW w \in Processes, WebhookThrows(w)
        PROVE  TypeOK'
    BY <2>9 DEF WebhookThrows, row, TypeOK, Labels
  <2>10. ASSUME NEW w \in Processes, Abort(w)
         PROVE  TypeOK'
    BY <2>10, DropBatchType DEF Abort
  <2>11. CASE UNCHANGED vars
    BY <2>11 DEF vars, row, TypeOK
  <2>12. QED
    BY <2>1, <2>2, <2>3, <2>4, <2>5, <2>6, <2>7, <2>8, <2>9, <2>10, <2>11 DEF Next
<1>3. QED
  BY <1>1, <1>2, PTL DEF Spec

-----------------------------------------------------------------------------
(* The lease.  LeaseExclusive is inductive with the types; what differs    *)
(* between the actions is whether the process that acts still holds its    *)
(* job afterwards.                                                         *)

Busy(w) == pc[w] \notin {"idle", "claim"}
SafelyHeld(w, d) ==
    /\ wait[d] > 0
    /\ AsLeft(w, d)
    /\ \A v \in Processes : (Holds(v, d) => v = w) /\ d \notin due[v]
SameProcess(w) == batch'[w] = batch[w] /\ pc'[w] = pc[w] /\ ok'[w] = ok[w]
SameRow(d) ==
    UNCHANGED <<status[d], attempts[d], wait[d], audited[d], code[d]>>

LEMMA LeaseMeans ==
    LeaseExclusive <=>
        \A d \in Deliveries \ overrun : \A w \in Processes : Holds(w, d) => SafelyHeld(w, d)
BY DEF LeaseExclusive, SafelyHeld

(* A delivery held before and after a step that neither touched its row    *)
(* nor its holder, nor let another process take it.                        *)
LEMMA Untouched ==
    ASSUME NEW d, NEW w \in Processes, SafelyHeld(w, d), SameProcess(w), SameRow(d),
           kind' = kind,
           \A v \in Processes : (Holds(v, d)' => Holds(v, d)) /\ (d \in due'[v] => d \in due[v])
    PROVE  SafelyHeld(w, d)'
BY DEF SafelyHeld, AsLeft, Attempt, Job, SameProcess, SameRow

(* The acting process lets its job go: nobody else holds that row.         *)
LEMMA Release ==
    ASSUME LeaseExclusive, NEW u \in Processes,
           kind' = kind, overrun' = overrun, ~Busy(u)',
           \A w \in Processes \ {u} : SameProcess(w),
           \A d \in Deliveries : SameRow(d) \/ Holds(u, d),
           \A v \in Processes : due'[v] \subseteq due[v]
    PROVE  LeaseExclusive'
<1> SUFFICES ASSUME NEW d \in Deliveries \ overrun, NEW w \in Processes, Holds(w, d)'
             PROVE  SafelyHeld(w, d)'
  BY DEF LeaseExclusive, SafelyHeld
<1>1. w # u /\ \A v \in Processes : Holds(v, d)' => v # u /\ Holds(v, d)
  BY DEF Holds, Busy, Job, SameProcess
<1>2. Holds(w, d) /\ SafelyHeld(w, d)
  BY <1>1, LeaseMeans
<1>3. ~Holds(u, d)
  BY <1>1, <1>2 DEF SafelyHeld
<1>4. QED
  BY <1>1, <1>2, <1>3, Untouched

(* The acting process goes on with the job it holds.                       *)
LEMMA Keep ==
    ASSUME LeaseExclusive, NEW u \in Processes,
           kind' = kind, overrun' = overrun, Busy(u), batch' = batch,
           \A w \in Processes \ {u} : SameProcess(w),
           \A d \in Deliveries : SameRow(d) \/ Holds(u, d),
           due' = due, wait' = wait,
           \A d \in Deliveries : Holds(u, d) /\ SafelyHeld(u, d) => AsLeft(u, d)'
    PROVE  LeaseExclusive'
<1> SUFFICES ASSUME NEW d \in Deliveries \ overrun, NEW w \in Processes, Holds(w, d)'
             PROVE  SafelyHeld(w, d)'
  BY DEF LeaseExclusive, SafelyHeld
<1>1. \A v \in Processes : Holds(v, d)' => Holds(v, d)
  BY DEF Holds, Busy, Job, SameProcess
<1>2. Holds(w, d) /\ SafelyHeld(w, d)
  BY <1>1, LeaseMeans
<1>3. CASE w = u
  <2>1. AsLeft(u, d)'
    BY <1>2, <1>3
  <2>2. QED
    BY <1>1, <1>2, <1>3, <2>1 DEF SafelyHeld
<1>4. CASE w # u
  <2>1. ~Holds(u, d)
    BY <1>2, <1>4 DEF SafelyHeld
  <2>2. QED
    BY <1>1, <1>2, <1>4, <2>1, Untouched
<1>5. QED
  BY <1>3, <1>4

(* A new holder writes the lease and takes the row from every batch.       *)
LEMMA Take ==
    ASSUME TypeOK, LeaseExclusive, NEW u \in Processes, NEW j \in Deliveries,
           kind' = kind, overrun' = overrun, ~Busy(u), Postpone(j, Lease),
           \A v \in Processes : j \in overrun \/ ~Holds(v, j),
           \A w \in Processes \ {u} : SameProcess(w),
           \A d \in Deliveries \ {j} :
               UNCHANGED <<status[d], attempts[d], audited[d], code[d]>>,
           Holds(u, j)', AsLeft(u, j)'
    PROVE  LeaseExclusive'
<1> SUFFICES ASSUME NEW d \in Deliveries \ overrun, NEW w \in Processes, Holds(w, d)'
             PROVE  SafelyHeld(w, d)'
  BY DEF LeaseExclusive, SafelyHeld
<1>0. /\ wait'[j] > 0 /\ \A e \in Deliveries \ {j} : wait'[e] = wait[e]
      /\ \A v \in Processes : j \notin due'[v] /\ due'[v] \subseteq due[v]
  BY OutboxAssumption DEF Postpone, TypeOK
<1>1. CASE d = j
  <2>1. \A v \in Processes : Holds(v, d)' => v = u
    BY <1>1 DEF Holds, Job, SameProcess
  <2>2. QED
    BY <1>0, <1>1, <2>1 DEF SafelyHeld
<1>2. CASE d # j
  <2>1. \A v \in Processes : Holds(v, d)' => v # u /\ Holds(v, d)
    BY <1>2 DEF Holds, Job, SameProcess
  <2>2. SafelyHeld(w, d)
    BY <2>1, LeaseMeans
  <2>3. SameProcess(w) /\ SameRow(d)
    BY <1>0, <1>2, <2>1 DEF SameRow
  <2>4. QED
    BY <1>0, <2>1, <2>2, <2>3, Untouched
<1>3. QED
  BY <1>1, <1>2

LeaseInv == TypeOK /\ LeaseExclusive

LEMMA LeaseTick == LeaseInv /\ Tick => LeaseExclusive'
<1> SUFFICES ASSUME LeaseInv, Tick, NEW d \in Deliveries \ overrun', NEW w \in Processes,
                    Holds(w, d)'
             PROVE  SafelyHeld(w, d)'
  BY DEF LeaseExclusive, SafelyHeld
<1> USE DEF local
<1>1. d \notin overrun /\ Holds(w, d) /\ SafelyHeld(w, d)
  BY LeaseMeans DEF LeaseInv, Tick, Holds, Job
<1>2. wait[d] \in Nat /\ ~(wait[d] <= 1)
  BY <1>1 DEF LeaseInv, TypeOK, Tick
<1>3. wait'[d] > 0
  BY <1>2 DEF Tick
<1>4. QED
  BY <1>1, <1>3 DEF SafelyHeld, Tick, AsLeft, Holds, Job, Attempt

(* Rows changed by others than the workers. *)
LEMMA LeaseOthers ==
    ASSUME LeaseInv, NEW e \in Deliveries, Enqueue(e) \/ Delete(e) \/ Spend(e) \/ Replace(e)
    PROVE  LeaseExclusive'
<1> USE DEF local
<1> SUFFICES ASSUME NEW d \in Deliveries \ overrun', NEW w \in Processes, Holds(w, d)'
             PROVE  SafelyHeld(w, d)'
  BY DEF LeaseExclusive, SafelyHeld
<1>1. UNCHANGED <<kind, wait, attempts, overrun, batch, due, pc, ok>>
  BY DEF Enqueue, Delete, Spend, Replace
<1>2. Holds(w, d) /\ SafelyHeld(w, d)
  BY <1>1, LeaseMeans DEF LeaseInv, Holds, Job
<1>3. AsLeft(w, d)'
  <2>1. AsLeft(w, d) /\ d \in Deliveries
    BY <1>2 DEF SafelyHeld
  <2>2. CASE Enqueue(e)
    <3>1. d # e /\ status'[d] = status[d] /\ audited'[d] = audited[d] /\ code'[d] = code[d]
      BY <2>1, <2>2 DEF Enqueue, IsNext, AsLeft, LeaseInv, TypeOK
    <3>2. QED
      BY <1>1, <2>1, <3>1 DEF AsLeft, Attempt, Job
  <2>3. CASE Delete(e)
    BY <1>1, <2>1, <2>3 DEF Delete, AsLeft, Attempt, Job, LeaseInv, TypeOK
  <2>4. CASE Spend(e)
    BY <1>1, <2>1, <2>4 DEF Spend, AsLeft, Attempt, Job, LeaseInv, TypeOK
  <2>5. CASE Replace(e)
    BY <1>1, <2>1, <2>5 DEF Replace, AsLeft, Attempt, Job, Retryable, LeaseInv, TypeOK
  <2>6. QED
    BY <2>2, <2>3, <2>4, <2>5
<1>4. QED
  BY <1>1, <1>2, <1>3 DEF SafelyHeld, Holds, Job

LEMMA LeaseTest ==
    ASSUME LeaseInv, NEW t \in Testers, NEW e \in Deliveries, Test(t, e)
    PROVE  LeaseExclusive'
<1>1. t \in Processes /\ TypeOK /\ LeaseExclusive
  BY DEF Processes, LeaseInv
<1>2. \A v \in Processes : e \in overrun \/ ~Holds(v, e)
  BY <1>1 DEF LeaseExclusive, AsLeft, Test, IsNext
<1>3. \A w \in Processes \ {t} : SameProcess(w)
  BY <1>1 DEF Test, SameProcess, TypeOK
<1>4. \A d \in Deliveries \ {e} : UNCHANGED <<status[d], attempts[d], audited[d], code[d]>>
  BY <1>1 DEF Test, TypeOK
<1>5. /\ Holds(t, e)' /\ Job(t)'.attempts = 0 /\ attempts'[e] = 0
      /\ pc'[t] = "send" /\ status'[e] = "processing"
  BY <1>1 DEF Test, Holds, Job, TypeOK
<1>6. AsLeft(t, e)'
  BY <1>5 DEF AsLeft
<1>7. QED
  BY <1>1, <1>2, <1>3, <1>4, <1>5, <1>6, Take DEF Test, Busy

LEMMA LeaseSelect ==
    ASSUME LeaseInv, NEW u \in Processes, Select(u)
    PROVE  LeaseExclusive'
<1> SUFFICES ASSUME NEW d \in Deliveries \ overrun', NEW w \in Processes, Holds(w, d)'
             PROVE  SafelyHeld(w, d)'
  BY DEF LeaseExclusive, SafelyHeld
<1>1. /\ UNCHANGED <<row, kind, overrun, ok>>
      /\ \A v \in Processes \ {u} : batch'[v] = batch[v] /\ pc'[v] = pc[v] /\ due'[v] = due[v]
      /\ pc'[u] = "claim"
      /\ \A e \in due'[u] : wait[e] = 0
  BY DEF Select, LeaseInv, TypeOK, Candidates
<1>2. \A v \in Processes : Holds(v, d)' => v # u /\ Holds(v, d)
  BY <1>1 DEF Holds, Job
<1>3. SafelyHeld(w, d)
  BY <1>1, <1>2, LeaseMeans DEF LeaseInv
<1>4. SameProcess(w) /\ SameRow(d) /\ d \notin due'[u]
  BY <1>1, <1>2, <1>3 DEF SameProcess, SameRow, row, SafelyHeld
<1>5. QED
  BY <1>1, <1>2, <1>3, <1>4, Untouched

LEMMA LeaseClaim ==
    ASSUME LeaseInv, NEW u \in Processes, Claim(u)
    PROVE  LeaseExclusive'
<1>1. TypeOK /\ LeaseExclusive /\ ~Busy(u)
  BY JobType DEF LeaseInv, Claim, Busy
<1>0. PICK j \in Deliveries : j = Job(u).id
  BY <1>1, JobType DEF Claim
<1>2. CASE Claimable(u)
  <2>1. \A v \in Processes : j \in overrun \/ ~Holds(v, j)
    BY <1>0, <1>1, <1>2 DEF LeaseExclusive, Claimable
  <2>2. \A w \in Processes \ {u} : SameProcess(w)
    BY <1>0, <1>1, <1>2 DEF Claim, GoTo, SameProcess, TypeOK
  <2>3. \A d \in Deliveries \ {j} : UNCHANGED <<status[d], attempts[d], audited[d], code[d]>>
    BY <1>0, <1>1, <1>2 DEF Claim, TypeOK
  <2>4. /\ pc'[u] \in {"check", "send"} /\ Job(u)' = Job(u) /\ status'[j] = "processing"
        /\ attempts'[j] = Job(u).attempts
    BY <1>0, <1>1, <1>2 DEF Claim, GoTo, Claimable, Job, TypeOK
  <2>5. Holds(u, j)' /\ AsLeft(u, j)'
    BY <1>0, <2>4 DEF Holds, AsLeft
  <2>6. kind' = kind /\ overrun' = overrun /\ Postpone(j, Lease)
    BY <1>0, <1>2 DEF Claim
  <2>7. QED
    BY <1>1, <2>1, <2>2, <2>3, <2>5, <2>6, Take
<1>3. CASE ~Claimable(u)
  BY <1>1, <1>3, Release DEF Claim, Advance, Busy, SameProcess, SameRow, row, TypeOK
<1>4. QED
  BY <1>2, <1>3

(* Steps after which the process still holds its job. *)
LEMMA LeaseGoesOn ==
    ASSUME LeaseInv, NEW u \in Processes,
           Check(u) \/ Send(u) \/ WebhookThrows(u)
    PROVE  LeaseExclusive'
<1>1. /\ UNCHANGED <<kind, overrun, batch, due, row>>
      /\ Busy(u) /\ TypeOK /\ LeaseExclusive
      /\ \A w \in Processes \ {u} : pc'[w] = pc[w] /\ ok'[w] = ok[w]
  BY DEF Check, Send, WebhookThrows, GoTo, Busy, LeaseInv, TypeOK
<1>2. ASSUME NEW d \in Deliveries, Holds(u, d), SafelyHeld(u, d) PROVE AsLeft(u, d)'
  <2>1. AsLeft(u, d)
    BY <1>2 DEF SafelyHeld
  <2>2. /\ pc'[u] # "log"
        /\ pc[u] = "log" => pc'[u] = "record" /\ ~ok'[u]
        /\ ~(pc[u] = "record" /\ ~ok[u])
    BY <1>1 DEF Check, Send, WebhookThrows, GoTo, TypeOK
  <2>3. QED
    BY <1>1, <2>1, <2>2 DEF AsLeft, Attempt, Job, row
<1>3. QED
  BY <1>1, <1>2, Keep DEF SameProcess, SameRow, row

(* Steps that record the attempt. *)
LEMMA LeaseRecord ==
    ASSUME LeaseInv, NEW u \in Processes, Record(u)
    PROVE  LeaseExclusive'
<1>1. /\ Busy(u) /\ TypeOK /\ LeaseExclusive /\ kind' = kind /\ overrun' = overrun
      /\ Job(u).id \in Deliveries
  BY JobType DEF Record, WebhookDelivered, WebhookLogged, WebhookFailed, WebhookGone, EmailDelivered,
     EmailFailed, AuthDiscarded, AuthDelivered, AuthFailed, DropBatch, Busy, LeaseInv
<1>2. /\ \A v \in Processes : due'[v] \subseteq due[v]
      /\ \A d \in Deliveries : SameRow(d) \/ Holds(u, d)
  <2>1. ASSUME NEW d \in Deliveries, d # Job(u).id PROVE SameRow(d)
    BY <1>1, <2>1 DEF Record, WebhookDelivered, WebhookLogged, WebhookFailed, WebhookGone,
       EmailDelivered, EmailFailed, AuthDiscarded, AuthDelivered, AuthFailed, DropBatch,
       SetFailed, SetDelivered, Postpone, SameRow, row, TypeOK
  <2>2. \A v \in Processes : due'[v] \subseteq due[v]
    <3>1. due' = due \/ (\E label : SetFailed(u, label)) \/ DropBatch(u)
      BY DEF Record, WebhookDelivered, WebhookLogged, WebhookFailed, WebhookGone,
         EmailDelivered, EmailFailed, AuthDiscarded, AuthDelivered, AuthFailed
    <3>2. CASE \E label : SetFailed(u, label)
      BY <3>2 DEF SetFailed, Postpone
    <3>3. CASE DropBatch(u)
      BY <1>1, <3>3 DEF DropBatch, TypeOK
    <3>4. QED
      BY <3>1, <3>2, <3>3
  <2>3. QED
    BY <1>1, <2>1, <2>2 DEF Holds, Busy
<1>3. CASE Advance(u) \/ DropBatch(u)
  <2>1. ~Busy(u)' /\ \A w \in Processes \ {u} : SameProcess(w)
    BY <1>1, <1>3 DEF Advance, DropBatch, Busy, SameProcess, TypeOK
  <2>2. QED
    BY <1>1, <1>2, <2>1, Release
<1>4. CASE WebhookDelivered(u) /\ GoTo(u, "log")
  <2>1. /\ UNCHANGED <<batch, due, wait, ok>> /\ ok[u] /\ pc[u] = "record" /\ pc'[u] = "log"
        /\ \A w \in Processes \ {u} : pc'[w] = pc[w]
    BY <1>1, <1>4 DEF WebhookDelivered, GoTo, TypeOK
  <2>2. /\ kind = "webhook" /\ audited[Job(u).id] /\ audited' = audited /\ code' = code
        /\ status'[Job(u).id] = "delivered" /\ attempts'[Job(u).id] = Attempt(u)
    <3>1. audited[Job(u).id]
      BY <1>1, <1>4, <2>1 DEF WebhookDelivered, Advance, GoTo, TypeOK
    <3>2. QED
      BY <1>1, <1>4, <3>1 DEF WebhookDelivered, SetDelivered, TypeOK
  <2>3. ASSUME NEW d \in Deliveries, Holds(u, d) PROVE AsLeft(u, d)'
    BY <1>1, <2>1, <2>2, <2>3 DEF Holds, AsLeft, Attempt, Job
  <2>4. QED
    BY <1>1, <1>2, <2>1, <2>3, Keep DEF SameProcess
<1>5. QED
  BY <1>3, <1>4 DEF Record, WebhookDelivered, WebhookLogged, WebhookFailed, WebhookGone,
     EmailDelivered, EmailFailed, AuthDiscarded, AuthDelivered, AuthFailed

LEMMA LeaseAbort ==
    ASSUME LeaseInv, NEW u \in Processes, Abort(u)
    PROVE  LeaseExclusive'
BY Release DEF Abort, DropBatch, Busy, SameProcess, SameRow, row, LeaseInv, TypeOK

(* However many replicas drain the outbox and however long their batches   *)
(* are, a delivery whose lease has never run out is in one hand at most,   *)
(* and its row is as that hand left it.                                    *)
THEOREM LeaseCorrect == Spec => []LeaseExclusive
<1>1. Init => LeaseExclusive
  BY DEF Init, LeaseExclusive, Holds
<1>2. TypeOK /\ LeaseExclusive /\ [Next]_vars => LeaseExclusive'
  <2> SUFFICES ASSUME LeaseInv, [Next]_vars PROVE LeaseExclusive'
    BY DEF LeaseInv
  <2>1. CASE UNCHANGED vars
    BY <2>1 DEF vars, row, local, LeaseInv, LeaseExclusive, Holds, AsLeft, Attempt, Job
  <2>2. QED
    BY <2>1, LeaseTick, LeaseOthers, LeaseTest, LeaseSelect, LeaseClaim, LeaseGoesOn, LeaseRecord,
       LeaseAbort DEF Next
<1>3. QED
  BY <1>1, <1>2, TypeCorrect, PTL DEF Spec

-----------------------------------------------------------------------------
(* What is reported as delivered.                                          *)

(* The row, the trail and a worker's own belief, one delivery and one      *)
(* process at a time.                                                      *)
RowHonest(d)    == status[d] = "delivered" \/ logged[d] = "delivered" => accepted[d]
WorkerHonest(w) == (pc[w] = "record" /\ ok[w]) \/ pc[w] = "log" => accepted[Job(w).id]

LEMMA HonestMeans ==
    DeliveredWasAccepted <=> /\ \A d \in Deliveries : RowHonest(d)
                             /\ \A w \in Processes : WorkerHonest(w)
BY DEF DeliveredWasAccepted, RowHonest, WorkerHonest

(* What was accepted stays accepted. *)
LEMMA AcceptedGrows ==
    ASSUME TypeOK, [Next]_vars
    PROVE  \A d \in Deliveries : accepted[d] => accepted'[d]
<1>1. ASSUME NEW w \in Processes, Send(w)
      PROVE  \A d \in Deliveries : accepted[d] => accepted'[d]
  BY <1>1 DEF Send, TypeOK
<1>2. ASSUME NEW w \in Processes, Record(w) PROVE accepted' = accepted
  BY <1>2 DEF Record, WebhookDelivered, WebhookLogged, WebhookFailed, WebhookGone, EmailDelivered,
     EmailFailed, AuthDiscarded, AuthDelivered, AuthFailed, DropBatch
<1>3. QED
  BY <1>1, <1>2 DEF Next, Tick, Enqueue, Delete, Spend, Replace, Test, Select, Claim, Check,
     WebhookThrows, Abort, DropBatch, vars

(* A row is marked or logged as delivered only by a worker that believes   *)
(* it.                                                                     *)
LEMMA RowStaysHonest ==
    ASSUME TypeOK, DeliveredWasAccepted, [Next]_vars, NEW d \in Deliveries
    PROVE  RowHonest(d)'
<1>1. RowHonest(d) /\ (accepted[d] => accepted'[d])
  BY HonestMeans, AcceptedGrows
<1>2. ASSUME NEW w \in Processes, Record(w)
      PROVE  RowHonest(d)'
  <2>1. Job(w).id \in Deliveries
    BY <1>2, JobType DEF Record, WebhookDelivered, WebhookLogged, WebhookFailed, WebhookGone,
       EmailDelivered, EmailFailed, AuthDiscarded, AuthDelivered, AuthFailed
  <2>2. WorkerHonest(w)
    BY HonestMeans
  <2>3. CASE WebhookDelivered(w) \/ WebhookLogged(w) \/ EmailDelivered(w) \/ AuthDelivered(w)
    BY <1>1, <2>1, <2>2, <2>3 DEF WebhookDelivered, WebhookLogged, EmailDelivered, AuthDelivered,
       SetDelivered, RowHonest, WorkerHonest, TypeOK
  <2>4. CASE WebhookFailed(w) \/ EmailFailed(w) \/ AuthFailed(w) \/ AuthDiscarded(w) \/ WebhookGone(w)
    BY <1>1, <2>1, <2>4 DEF WebhookFailed, EmailFailed, AuthFailed, AuthDiscarded, WebhookGone,
       SetFailed, DropBatch, row, RowHonest, TypeOK
  <2>5. QED
    BY <1>2, <2>3, <2>4 DEF Record
<1>3. ASSUME NEW w \in Processes, Claim(w)
      PROVE  RowHonest(d)'
  <2>1. Job(w).id \in Deliveries
    BY <1>3, JobType DEF Claim
  <2>2. QED
    BY <1>1, <1>3, <2>1 DEF Claim, row, RowHonest, TypeOK
<1>4. ASSUME NEW w \in Processes, Select(w) \/ Check(w) \/ Send(w) \/ WebhookThrows(w) \/ Abort(w)
      PROVE  RowHonest(d)'
  <2>1. UNCHANGED row
    BY <1>4 DEF Select, Check, Send, WebhookThrows, Abort, DropBatch
  <2>2. QED
    BY <1>1, <2>1 DEF row, RowHonest
<1>5. ASSUME NEW e \in Deliveries, Enqueue(e) \/ Delete(e) \/ Spend(e) \/ Replace(e)
      PROVE  RowHonest(d)'
  BY <1>1, <1>5 DEF Enqueue, Delete, Spend, Replace, RowHonest, TypeOK
<1>6. ASSUME NEW t \in Testers, NEW e \in Deliveries, Test(t, e)
      PROVE  RowHonest(d)'
  BY <1>1, <1>6 DEF Test, RowHonest, TypeOK
<1>7. CASE Tick \/ UNCHANGED vars
  BY <1>1, <1>7 DEF Tick, vars, row, RowHonest
<1>8. QED
  BY <1>2, <1>3, <1>4, <1>5, <1>6, <1>7 DEF Next

(* A process believes in success only after a send that was accepted.      *)
LEMMA WorkerStaysHonest ==
    ASSUME TypeOK, DeliveredWasAccepted, [Next]_vars, NEW w \in Processes
    PROVE  WorkerHonest(w)'
<1>1. WorkerHonest(w) /\ (pc[w] # "idle" => Job(w).id \in Deliveries)
  BY HonestMeans, JobType
<1>2. CASE UNCHANGED <<batch[w], pc[w], ok[w]>>
  BY <1>1, <1>2, AcceptedGrows DEF WorkerHonest, Job
<1>3. CASE Send(w)
  <2>1. PICK outcome \in {"accepted", "lost", "refused"} :
            /\ accepted'[Job(w).id] = (accepted[Job(w).id] \/ outcome \in {"accepted", "lost"})
            /\ ok'[w] = (outcome = "accepted")
            /\ batch' = batch /\ pc'[w] = "record"
    BY <1>1, <1>3 DEF Send, Succeeded, TypeOK
  <2>2. QED
    BY <2>1 DEF WorkerHonest, Job
<1>4. CASE WebhookThrows(w)
  BY <1>4 DEF WebhookThrows, WorkerHonest, TypeOK
<1>5. CASE WebhookDelivered(w) /\ GoTo(w, "log")
  BY <1>1, <1>5 DEF WebhookDelivered, GoTo, WorkerHonest, Job
<1>6. CASE pc'[w] \in {"idle", "claim", "check", "send", "discard"}
  BY <1>6 DEF WorkerHonest
<1>7. ASSUME NEW u \in Processes, \/ Select(u) \/ Claim(u) \/ Check(u) \/ Send(u)
                                  \/ Record(u) \/ WebhookThrows(u) \/ Abort(u)
      PROVE  WorkerHonest(w)'
  <2>1. CASE u # w
    <3>1. UNCHANGED <<batch[w], pc[w], ok[w]>>
      BY <1>7, <2>1 DEF Select, Claim, Check, Send, Record, WebhookDelivered, WebhookLogged,
         WebhookFailed, WebhookGone, EmailDelivered, EmailFailed, AuthDiscarded, AuthDelivered,
         AuthFailed, WebhookThrows, Abort, DropBatch, Advance, GoTo, TypeOK
    <3>2. QED
      BY <3>1, <1>2
  <2>2. CASE u = w
    <3>1. CASE Send(u) \/ WebhookThrows(u)
      BY <2>2, <3>1, <1>3, <1>4
    <3>2. CASE Record(u)
      <4>1. Advance(u) \/ DropBatch(u) \/ (WebhookDelivered(u) /\ GoTo(u, "log"))
        BY <3>2 DEF Record, WebhookDelivered, WebhookLogged, WebhookFailed, WebhookGone,
           EmailDelivered, EmailFailed, AuthDiscarded, AuthDelivered, AuthFailed
      <4>2. QED
        BY <2>2, <4>1, <1>5, <1>6 DEF Advance, DropBatch, TypeOK
    <3>3. CASE Select(u) \/ Claim(u) \/ Check(u) \/ Abort(u)
      BY <2>2, <3>3, <1>6 DEF Select, Claim, Check, Abort, DropBatch, GoTo, Advance, TypeOK
    <3>4. QED
      BY <1>7, <3>1, <3>2, <3>3
  <2>3. QED
    BY <2>1, <2>2
<1>8. ASSUME NEW t \in Testers, NEW e \in Deliveries, Test(t, e)
      PROVE  WorkerHonest(w)'
  BY <1>8, <1>2, <1>6 DEF Test, TypeOK, Processes
<1>9. CASE \/ Tick \/ UNCHANGED vars
           \/ \E e \in Deliveries : Enqueue(e) \/ Delete(e) \/ Spend(e) \/ Replace(e)
  BY <1>9, <1>2 DEF Tick, Enqueue, Delete, Spend, Replace, vars, local
<1>10. QED
  BY <1>7, <1>8, <1>9 DEF Next

(* Nothing is ever reported as delivered, by the row or by the audit       *)
(* trail, that its receiver did not accept; leases may run out.            *)
THEOREM DeliveredCorrect == Spec => []DeliveredWasAccepted
<1>1. Init => DeliveredWasAccepted
  BY DEF Init, DeliveredWasAccepted
<1>2. TypeOK /\ DeliveredWasAccepted /\ [Next]_vars => DeliveredWasAccepted'
  <2>1. SUFFICES ASSUME TypeOK, DeliveredWasAccepted, [Next]_vars
                 PROVE  /\ \A d \in Deliveries : RowHonest(d)'
                        /\ \A w \in Processes : WorkerHonest(w)'
    BY DEF DeliveredWasAccepted, RowHonest, WorkerHonest
  <2>2. ASSUME NEW d \in Deliveries PROVE RowHonest(d)'
    BY <2>1, RowStaysHonest
  <2>3. ASSUME NEW w \in Processes PROVE WorkerHonest(w)'
    BY <2>1, WorkerStaysHonest
  <2>4. QED
    BY <2>2, <2>3
<1>3. QED
  BY <1>1, <1>2, TypeCorrect, PTL DEF Spec

-----------------------------------------------------------------------------
(* Secrets and the trail.                                                  *)

SecretSound(d) ==
    kind # "webhook" =>
        /\ status[d] \in Final => ~secret[d]
        /\ status[d] \in Retryable => secret[d] \/ (kind = "email" /\ d \in overrun)
TrailSound(d) ==
    kind = "email" /\ d \notin overrun =>
        /\ logged[d] = "delivered" <=> status[d] = "delivered"
        /\ logged[d] = "delivery_failed" <=> status[d] = "failed" /\ attempts[d] = MaxAttempts
RowSound(d) == SecretSound(d) /\ TrailSound(d)

(* What a worker may rely on when it completes a row by id. *)
LEMMA HeldEmail ==
    ASSUME LeaseInv, kind = "email", NEW w \in Processes, Busy(w), Job(w).id \notin overrun
    PROVE  status[Job(w).id] = "processing" /\ attempts[Job(w).id] = Job(w).attempts
BY JobType DEF LeaseInv, LeaseExclusive, Holds, AsLeft, Busy

LEMMA RowStaysSound ==
    ASSUME LeaseInv, NEW d \in Deliveries, RowSound(d), [Next]_vars
    PROVE  RowSound(d)'
<1>1. TypeOK
  BY DEF LeaseInv
<1>2. CASE \/ UNCHANGED <<kind, overrun, status[d], attempts[d], secret[d], logged[d]>>
           \/ kind' = kind /\ kind = "webhook"
  BY <1>2 DEF RowSound, SecretSound, TrailSound
<1>3. CASE Tick
  BY <1>1, <1>3 DEF Tick, RowSound, SecretSound, TrailSound
<1>4. ASSUME NEW e \in Deliveries, Enqueue(e) \/ Delete(e) \/ Spend(e) \/ Replace(e)
      PROVE  RowSound(d)'
  <2>1. CASE e # d \/ Spend(e) \/ Delete(e)
    BY <1>1, <1>2, <1>4, <2>1 DEF Enqueue, Delete, Spend, Replace, TypeOK
  <2>2. CASE Enqueue(d)
    BY <1>1, <2>2 DEF Enqueue, IsNext, RowSound, SecretSound, TrailSound, Retryable, Final, TypeOK
  <2>3. CASE Replace(d)
    BY <1>1, <2>3 DEF Replace, RowSound, SecretSound, TrailSound, Retryable, Final, TypeOK
  <2>4. QED
    BY <1>4, <2>1, <2>2, <2>3
<1>5. ASSUME NEW t \in Testers, NEW e \in Deliveries, Test(t, e)
      PROVE  RowSound(d)'
  BY <1>2, <1>5 DEF Test
<1>6. ASSUME NEW w \in Processes, Claim(w)
      PROVE  RowSound(d)'
  <2>1. /\ Job(w).id \in Deliveries /\ Job(w).status \in Retryable
        /\ Job(w).attempts \in 0..(MaxAttempts - 1)
    BY <1>1, <1>6, JobType DEF Claim, Copies
  <2>2. CASE d = Job(w).id /\ Claimable(w)
    <3>1. /\ status[d] \in Retryable /\ attempts[d] \in 0..(MaxAttempts - 1)
          /\ status'[d] = "processing"
          /\ UNCHANGED <<kind, overrun, secret, logged, attempts>>
      BY <1>1, <1>6, <2>1, <2>2 DEF Claim, Claimable, TypeOK
    <3>2. attempts[d] # MaxAttempts
      BY <3>1, OutboxAssumption
    <3>3. QED
      BY <3>1, <3>2 DEF RowSound, SecretSound, TrailSound, Retryable, Final
  <2>3. CASE d # Job(w).id \/ ~Claimable(w)
    BY <1>1, <1>2, <1>6, <2>1, <2>3 DEF Claim, row, TypeOK
  <2>4. QED
    BY <2>2, <2>3
<1>7. ASSUME NEW w \in Processes, Record(w)
      PROVE  RowSound(d)'
  <2>1. Job(w).id \in Deliveries /\ Job(w).attempts \in 0..(MaxAttempts - 1) /\ Busy(w)
    BY <1>1, <1>7, JobType DEF Record, WebhookDelivered, WebhookLogged, WebhookFailed, WebhookGone,
       EmailDelivered, EmailFailed, AuthDiscarded, AuthDelivered, AuthFailed, Busy
  <2>2. CASE WebhookDelivered(w) \/ WebhookLogged(w) \/ WebhookFailed(w) \/ WebhookGone(w)
    BY <1>2, <2>2 DEF WebhookDelivered, WebhookLogged, WebhookFailed, WebhookGone, DropBatch
  <2>3. CASE d # Job(w).id
    BY <1>1, <1>2, <1>7, <2>1, <2>3 DEF Record, WebhookDelivered, WebhookLogged, WebhookFailed,
       WebhookGone, EmailDelivered, EmailFailed, AuthDiscarded, AuthDelivered, AuthFailed,
       DropBatch, SetFailed, SetDelivered, row, TypeOK
  <2>4. CASE d = Job(w).id /\ EmailDelivered(w)
    BY <1>1, <2>1, <2>4 DEF EmailDelivered, SetDelivered, RowSound, SecretSound, TrailSound,
       Retryable, Final, TypeOK
  <2>5. CASE d = Job(w).id /\ EmailFailed(w)
    <3>1. /\ kind = "email" /\ UNCHANGED <<kind, overrun, secret>>
          /\ status'[d] = "failed" /\ attempts'[d] = Job(w).attempts + 1
          /\ logged'[d] = IF Job(w).attempts + 1 >= MaxAttempts THEN "delivery_failed" ELSE logged[d]
      BY <1>1, <2>1, <2>5 DEF EmailFailed, SetFailed, Attempt, LastAttempt, TypeOK
    <3>2. CASE d \in overrun
      BY <3>1, <3>2 DEF RowSound, SecretSound, TrailSound, Retryable, Final
    <3>3. CASE d \notin overrun
      <4>1. status[d] = "processing"
        BY <2>1, <2>5, <3>1, <3>3, HeldEmail
      <4>2. secret[d] /\ logged[d] # "delivered" /\ logged[d] # "delivery_failed"
        BY <3>1, <3>3, <4>1 DEF RowSound, SecretSound, TrailSound, Retryable
      <4>3. Job(w).attempts + 1 >= MaxAttempts <=> Job(w).attempts + 1 = MaxAttempts
        BY <2>1, OutboxAssumption
      <4>4. QED
        BY <3>1, <3>3, <4>2, <4>3 DEF RowSound, SecretSound, TrailSound, Retryable, Final
    <3>4. QED
      BY <3>2, <3>3
  <2>6. CASE d = Job(w).id /\ AuthDiscarded(w)
    BY <1>1, <2>1, <2>6 DEF AuthDiscarded, RowSound, SecretSound, TrailSound, Retryable, Final, TypeOK
  <2>7. CASE d = Job(w).id /\ AuthDelivered(w)
    BY <1>1, <2>1, <2>7 DEF AuthDelivered, SetDelivered, RowSound, SecretSound, TrailSound,
       Retryable, Final, TypeOK
  <2>8. CASE d = Job(w).id /\ AuthFailed(w)
    BY <1>1, <2>1, <2>8 DEF AuthFailed, SetFailed, StillProcessing, RowSound, SecretSound,
       TrailSound, Retryable, Final, TypeOK
  <2>9. QED
    BY <1>7, <2>2, <2>3, <2>4, <2>5, <2>6, <2>7, <2>8 DEF Record
<1>8. CASE \/ UNCHANGED vars
           \/ \E w \in Processes : Select(w) \/ Check(w) \/ Send(w) \/ WebhookThrows(w) \/ Abort(w)
  BY <1>2, <1>8 DEF Select, Check, Send, WebhookThrows, Abort, DropBatch, row, vars
<1>9. QED
  BY <1>3, <1>4, <1>5, <1>6, <1>7, <1>8 DEF Next

LEMMA SoundMeans ==
    SecretAsLongAsNeeded /\ TrailMatchesEmail <=> \A d \in Deliveries : RowSound(d)
BY DEF SecretAsLongAsNeeded, TrailMatchesEmail, RowSound, SecretSound, TrailSound

LEMMA SoundInvariant == Spec => [](SecretAsLongAsNeeded /\ TrailMatchesEmail)
<1>1. Init => SecretAsLongAsNeeded /\ TrailMatchesEmail
  BY DEF Init, SecretAsLongAsNeeded, TrailMatchesEmail, Final, Retryable
<1>2. /\ TypeOK /\ LeaseExclusive /\ SecretAsLongAsNeeded /\ TrailMatchesEmail
      /\ [Next]_vars
      => (SecretAsLongAsNeeded /\ TrailMatchesEmail)'
  <2>1. SUFFICES ASSUME LeaseInv, SecretAsLongAsNeeded /\ TrailMatchesEmail, [Next]_vars
                 PROVE  \A d \in Deliveries : RowSound(d)'
    BY DEF LeaseInv, SecretAsLongAsNeeded, TrailMatchesEmail, RowSound, SecretSound, TrailSound
  <2>2. ASSUME NEW d \in Deliveries PROVE RowSound(d)'
    BY <2>1, SoundMeans, RowStaysSound
  <2>3. QED
    BY <2>2
<1>3. QED
  BY <1>1, <1>2, TypeCorrect, LeaseCorrect, PTL DEF Spec

(* The raw token or code is stored exactly as long as it may be needed.    *)
THEOREM SecretsCorrect == Spec => []SecretAsLongAsNeeded
BY SoundInvariant, PTL

(* The audit trail tells the state of the approval's email.                *)
THEOREM TrailCorrect == Spec => []TrailMatchesEmail
BY SoundInvariant, PTL

-----------------------------------------------------------------------------
(* Finality.                                                               *)

(* What is said of one delivery by FinalIsFinal. *)
MayChange(d) ==
    \/ status'[d] = "deleted"
    \/ kind # "auth" /\ d \in overrun
    \/ kind = "webhook" /\ audited[d] /\ \E w \in Processes : Holds(w, d) /\ ~ok[w]

LEMMA FinalStep ==
    ASSUME LeaseInv, [Next]_vars, NEW d \in Deliveries, status[d] \in Final, status'[d] # status[d]
    PROVE  MayChange(d)
<1>1. TypeOK /\ status[d] \notin Retryable /\ status[d] # "absent"
  BY DEF LeaseInv, Final, Retryable
<1>2. ASSUME NEW w \in Processes, Record(w)
      PROVE  MayChange(d)
  <2>1. Job(w).id = d /\ Busy(w)
    BY <1>1, <1>2 DEF Record, WebhookDelivered, WebhookLogged, WebhookFailed, WebhookGone,
       EmailDelivered, EmailFailed, AuthDiscarded, AuthDelivered, AuthFailed, DropBatch,
       SetFailed, SetDelivered, row, TypeOK, Busy
  <2>2. CASE AuthDiscarded(w) \/ AuthDelivered(w) \/ AuthFailed(w)
    BY <1>1, <2>1, <2>2 DEF AuthDiscarded, AuthDelivered, AuthFailed, StillProcessing, Retryable
  <2>3. CASE d \notin overrun
    <3>1. Holds(w, d) /\ AsLeft(w, d)
      BY <2>1, <2>3 DEF LeaseInv, LeaseExclusive, Holds, Busy
    <3>2. CASE EmailDelivered(w) \/ EmailFailed(w)
      BY <1>1, <3>1, <3>2 DEF AsLeft, EmailDelivered, EmailFailed, Retryable
    <3>3. CASE WebhookDelivered(w)
      BY <1>1, <2>1, <3>1, <3>3 DEF AsLeft, WebhookDelivered, Exists, Retryable
    <3>4. CASE WebhookFailed(w)
      BY <1>1, <2>1, <3>1, <3>4 DEF AsLeft, WebhookFailed, Exists, Retryable, MayChange
    <3>5. CASE WebhookLogged(w) \/ WebhookGone(w)
      BY <3>5 DEF WebhookLogged, WebhookGone, DropBatch, row
    <3>6. QED
      BY <1>2, <2>2, <3>2, <3>3, <3>4, <3>5 DEF Record
  <2>4. CASE d \in overrun
    BY <1>2, <2>2, <2>4 DEF Record, WebhookDelivered, WebhookLogged, WebhookFailed, WebhookGone,
       EmailDelivered, EmailFailed, MayChange
  <2>5. QED
    BY <2>3, <2>4
<1>3. ASSUME NEW w \in Processes, Claim(w) PROVE FALSE
  <2>1. Job(w).id \in Deliveries /\ Job(w).status \in Retryable
    BY <1>1, <1>3, JobType DEF Claim, Copies
  <2>2. QED
    BY <1>1, <1>3, <2>1 DEF Claim, Claimable, row, TypeOK
<1>4. ASSUME NEW w \in Processes,
             Select(w) \/ Check(w) \/ Send(w) \/ WebhookThrows(w) \/ Abort(w)
      PROVE  FALSE
  BY <1>4 DEF Select, Check, Send, WebhookThrows, Abort, DropBatch, row
<1>5. ASSUME NEW e \in Deliveries, Enqueue(e) \/ Delete(e) \/ Spend(e) \/ Replace(e)
      PROVE  MayChange(d)
  BY <1>1, <1>5 DEF Enqueue, IsNext, Delete, Spend, Replace, MayChange, TypeOK
<1>6. ASSUME NEW t \in Testers, NEW e \in Deliveries, Test(t, e) PROVE FALSE
  BY <1>1, <1>6 DEF Test, IsNext, TypeOK
<1>7. CASE Tick \/ UNCHANGED vars
  BY <1>7 DEF Tick, vars, row
<1>8. QED
  BY <1>2, <1>3, <1>4, <1>5, <1>6, <1>7 DEF Next

(* What has come to its end stays there.  For authentication emails that   *)
(* holds without any reservation.                                          *)
THEOREM FinalCorrect == Spec => FinalIsFinal
<1>1. TypeOK /\ LeaseExclusive /\ [Next]_vars =>
         [\A d \in Deliveries : status[d] \in Final /\ status'[d] # status[d] =>
             \/ status'[d] = "deleted"
             \/ kind # "auth" /\ d \in overrun
             \/ kind = "webhook" /\ audited[d] /\ \E w \in Processes : Holds(w, d) /\ ~ok[w]]_vars
  BY FinalStep DEF MayChange, LeaseInv
<1>2. QED
  BY <1>1, TypeCorrect, LeaseCorrect, PTL DEF Spec, FinalIsFinal

-----------------------------------------------------------------------------
(* The contract.                                                           *)

(* Nothing is known of a delivery that does not exist, and each end of a   *)
(* row belongs to its outbox.                                              *)
Orderly(d) ==
    /\ status[d] = "absent" => attempts[d] = 0 /\ \A w \in Processes : ~Holds(w, d)
    /\ status[d] \in {"discarded", "dead_letter"} => kind = "auth"
    /\ status[d] = "deleted" => kind = "webhook"
    /\ kind = "auth" /\ status[d] = "failed" => attempts[d] < MaxAttempts

OthersSame(u) == \A w \in Processes \ {u} : SameProcess(w)

(* Whoever acts upon his job ends the handling or goes on with it, and     *)
(* leaves the other rows alone.                                            *)
LEMMA WorkerStep ==
    ASSUME TypeOK, NEW u \in Processes,
           Check(u) \/ Send(u) \/ WebhookThrows(u) \/ Record(u)
    PROVE  /\ Busy(u) /\ Job(u).id \in Deliveries /\ Holds(u, Job(u).id)
           /\ UNCHANGED <<kind, overrun, audited, code>> /\ OthersSame(u)
           /\ ~Busy(u)' \/ (Busy(u)' /\ batch' = batch)
           /\ \A d \in Deliveries \ {Job(u).id} :
                 UNCHANGED <<status[d], attempts[d]>>
<1>1. Busy(u) /\ Job(u).id \in Deliveries /\ UNCHANGED <<kind, overrun, audited, code>>
  BY JobType DEF Check, Send, WebhookThrows, Record, WebhookDelivered, WebhookLogged, WebhookFailed,
     WebhookGone, EmailDelivered, EmailFailed, AuthDiscarded, AuthDelivered, AuthFailed, DropBatch,
     SetFailed, SetDelivered, row, Busy
<1>2. \A d \in Deliveries \ {Job(u).id} : UNCHANGED <<status[d], attempts[d]>>
  BY <1>1 DEF Check, Send, WebhookThrows, Record, WebhookDelivered, WebhookLogged, WebhookFailed,
     WebhookGone, EmailDelivered, EmailFailed, AuthDiscarded, AuthDelivered, AuthFailed, DropBatch,
     SetFailed, SetDelivered, row, TypeOK
<1>3. \/ Advance(u) \/ DropBatch(u)
      \/ \E label \in {"send", "discard", "log", "record"} :
            pc' = [pc EXCEPT ![u] = label] /\ batch' = batch
            /\ \A w \in Processes \ {u} : ok'[w] = ok[w]
  BY DEF Check, Send, WebhookThrows, Record, WebhookDelivered, WebhookLogged, WebhookFailed,
     WebhookGone, EmailDelivered, EmailFailed, AuthDiscarded, AuthDelivered, AuthFailed, GoTo, TypeOK
<1>4. OthersSame(u) /\ (~Busy(u)' \/ (Busy(u)' /\ batch' = batch))
  BY <1>3 DEF Advance, DropBatch, OthersSame, SameProcess, Busy, TypeOK
<1>5. QED
  BY <1>1, <1>2, <1>4 DEF Holds, Busy

LEMMA OrderlyStep ==
    ASSUME TypeOK, NEW d \in Deliveries, Orderly(d), [Next]_vars
    PROVE  Orderly(d)'
<1>1. CASE UNCHANGED <<kind, status[d], attempts[d]>> /\ \A w \in Processes : Holds(w, d)' => Holds(w, d)
  BY <1>1 DEF Orderly
<1>2. ASSUME NEW u \in Processes,
             Check(u) \/ Send(u) \/ WebhookThrows(u) \/ Record(u)
      PROVE  Orderly(d)'
  <2>1. \A w \in Processes : Holds(w, d)' => Holds(w, d)
    BY <1>2, WorkerStep DEF OthersSame, SameProcess, Holds, Busy, Job
  <2>2. CASE d # Job(u).id
    BY <1>1, <1>2, <2>1, <2>2, WorkerStep
  <2>3. CASE d = Job(u).id
    <3>1. status[d] # "absent" /\ kind' = kind
      BY <1>2, <2>3, WorkerStep DEF Orderly
    <3>2. Attempt(u) \in 1..MaxAttempts
      BY <1>2, JobType, WorkerStep DEF Busy
    <3>3. \/ UNCHANGED <<status[d], attempts[d]>>
          \/ status'[d] = "delivered"
          \/ status'[d] \in {"discarded", "dead_letter"} /\ kind = "auth"
          \/ status'[d] = "failed" /\ attempts'[d] = Attempt(u) /\ (kind = "auth" => ~LastAttempt(u))
      BY <1>2, <2>3, <3>1 DEF Check, Send, WebhookThrows, Record, WebhookDelivered, WebhookLogged,
         WebhookFailed, WebhookGone, EmailDelivered, EmailFailed, AuthDiscarded, AuthDelivered,
         AuthFailed, DropBatch, SetFailed, SetDelivered, row, TypeOK
    <3>4. QED
      BY <3>1, <3>2, <3>3, OutboxAssumption DEF Orderly, LastAttempt
  <2>4. QED
    BY <2>2, <2>3
<1>3. ASSUME NEW u \in Processes, Select(u) \/ Claim(u) \/ Abort(u)
      PROVE  Orderly(d)'
  <2>1. CASE Claim(u) /\ Claimable(u) /\ d = Job(u).id
    <3>1. status[d] \in Retryable /\ status'[d] = "processing" /\ UNCHANGED <<kind, attempts>>
      BY <2>1, JobType DEF Claim, Claimable, Copies, TypeOK
    <3>2. QED
      BY <3>1 DEF Orderly, Retryable
  <2>2. CASE ~(Claim(u) /\ Claimable(u) /\ d = Job(u).id)
    <3>1. UNCHANGED <<kind, status[d], attempts[d]>>
      BY <1>3, <2>2, JobType DEF Select, Claim, Abort, DropBatch, row, TypeOK
    <3>2. \A w \in Processes : Holds(w, d)' => Holds(w, d)
      BY <1>3, <2>2, JobType DEF Select, Claim, Abort, DropBatch, Advance, GoTo, Holds, Job, TypeOK
    <3>3. QED
      BY <3>1, <3>2, <1>1
  <2>3. QED
    BY <2>1, <2>2
<1>4. ASSUME NEW e \in Deliveries, Enqueue(e) \/ Delete(e) \/ Spend(e) \/ Replace(e)
      PROVE  Orderly(d)'
  <2>1. UNCHANGED <<kind, attempts, batch, pc>>
    BY <1>4 DEF Enqueue, Delete, Spend, Replace, local
  <2>2. \/ status'[d] = status[d] \/ status'[d] = "pending"
        \/ status'[d] = "deleted" /\ kind = "webhook"
        \/ status'[d] = "discarded" /\ kind = "auth"
    BY <1>4 DEF Enqueue, Delete, Spend, Replace, TypeOK
  <2>3. QED
    BY <2>1, <2>2 DEF Orderly, Holds, Job
<1>5. ASSUME NEW t \in Testers, NEW e \in Deliveries, Test(t, e)
      PROVE  Orderly(d)'
  <2>1. CASE e = d
    BY <1>5, <2>1 DEF Test, Orderly, TypeOK
  <2>2. CASE e # d
    <3>1. UNCHANGED <<kind, status[d], attempts[d]>>
      BY <1>5, <2>2 DEF Test, TypeOK
    <3>2. \A w \in Processes : Holds(w, d)' => Holds(w, d)
      BY <1>5, <2>2 DEF Test, Holds, Job, Processes, TypeOK
    <3>3. QED
      BY <3>1, <3>2, <1>1
  <2>3. QED
    BY <2>1, <2>2
<1>6. CASE Tick \/ UNCHANGED vars
  BY <1>6 DEF Tick, vars, row, local, Orderly, Holds, Job
<1>7. QED
  BY <1>2, <1>3, <1>4, <1>5, <1>6 DEF Next

LEMMA OrderlyInvariant == Spec => [](\A d \in Deliveries : Orderly(d))
<1>1. Init => \A d \in Deliveries : Orderly(d)
  BY DEF Init, Orderly, Holds
<1>2. /\ TypeOK /\ [Next]_vars /\ (\A d \in Deliveries : Orderly(d))
      => (\A d \in Deliveries : Orderly(d))'
  BY OrderlyStep
<1>3. QED
  BY <1>1, <1>2, TypeCorrect, PTL DEF Spec

-----------------------------------------------------------------------------
(* The steps of the contract.                                              *)

Refinable ==
    /\ TypeOK /\ LeaseExclusive /\ DeliveredWasAccepted
    /\ \A d \in Deliveries : Orderly(d)

(* The outcome of one delivery changes. *)
LEMMA StateMaps ==
    ASSUME NEW j \in Deliveries, NEW o, Outcome(j)' = o,
           \A d \in Deliveries \ {j} : UNCHANGED <<status[d], attempts[d]>>
    PROVE  [d \in Deliveries |-> Outcome(d)'] = [[d \in Deliveries |-> Outcome(d)] EXCEPT ![j] = o]
BY DEF Outcome

LEMMA StateStays ==
    ASSUME \A d \in Deliveries : Outcome(d)' = Outcome(d)
    PROVE  [d \in Deliveries |-> Outcome(d)'] = [d \in Deliveries |-> Outcome(d)]
OBVIOUS

(* Who holds what, as one process lets go, takes a delivery or goes on. *)
LEMMA HoldersLetGo ==
    ASSUME NEW u \in Processes, Busy(u), ~Busy(u)', OthersSame(u), Job(u).id \in Deliveries
    PROVE  [d \in Deliveries |-> {w \in Processes : Holds(w, d)'}]
              = [[d \in Deliveries |-> {w \in Processes : Holds(w, d)}]
                    EXCEPT ![Job(u).id] = @ \ {u}]
<1>1. \A d \in Deliveries, w \in Processes :
         Holds(w, d)' <=> Holds(w, d) /\ ~(w = u)
  BY DEF OthersSame, SameProcess, Holds, Busy, Job
<1>2. \A d \in Deliveries : d # Job(u).id => ~Holds(u, d)
  BY DEF Holds
<1>3. QED
  BY <1>1, <1>2

LEMMA HoldersTake ==
    ASSUME NEW u \in Processes, ~Busy(u), Busy(u)', OthersSame(u), NEW j \in Deliveries,
           Job(u)'.id = j
    PROVE  [d \in Deliveries |-> {w \in Processes : Holds(w, d)'}]
              = [[d \in Deliveries |-> {w \in Processes : Holds(w, d)}] EXCEPT ![j] = @ \cup {u}]
<1>1. \A d \in Deliveries, w \in Processes :
         Holds(w, d)' <=> Holds(w, d) \/ (w = u /\ d = j)
  BY DEF OthersSame, SameProcess, Holds, Busy, Job
<1>2. QED
  BY <1>1

LEMMA HoldersStay ==
    ASSUME \A d \in Deliveries, w \in Processes : Holds(w, d)' <=> Holds(w, d)
    PROVE  [d \in Deliveries |-> {w \in Processes : Holds(w, d)'}]
              = [d \in Deliveries |-> {w \in Processes : Holds(w, d)}]
OBVIOUS

LEMMA GoesOnHolding ==
    ASSUME NEW u \in Processes, Busy(u), Busy(u)', OthersSame(u), batch' = batch
    PROVE  \A d \in Deliveries, w \in Processes : Holds(w, d)' <=> Holds(w, d)
BY DEF OthersSame, SameProcess, Holds, Busy, Job

(* A step that changes no row, no holder and nothing the receivers took.   *)
LEMMA Stutters ==
    ASSUME UNCHANGED <<kind, attempts, overrun, accepted>>,
           \A d \in Deliveries : Outcome(d)' = Outcome(d),
           \A d \in Deliveries, w \in Processes : Holds(w, d)' <=> Holds(w, d)
    PROVE  UNCHANGED Contract!vars
BY StateStays, HoldersStay DEF Contract!vars

LEMMA LetGoMaps ==
    ASSUME NEW u \in Processes, Busy(u), ~Busy(u)', OthersSame(u), Job(u).id \in Deliveries,
           UNCHANGED <<kind, status, attempts, overrun, accepted>>
    PROVE  Contract!Next
<1>1. \A d \in Deliveries : Outcome(d)' = Outcome(d)
  BY DEF Outcome
<1>2. Holds(u, Job(u).id)
  BY DEF Holds, Busy
<1>3. Contract!LetGo(Job(u).id, u)
  BY <1>1, <1>2, StateStays, HoldersLetGo DEF Contract!LetGo
<1>4. QED
  BY <1>3 DEF Contract!Next

-----------------------------------------------------------------------------
(* Recording an attempt.                                                   *)

(* Where the code lets a worker write, the contract does, and in time it   *)
(* counts the attempt as the worker does.                                  *)
LEMMA MayRecord ==
    ASSUME Refinable, NEW u \in Processes, pc[u] = "record",
           kind = "auth" => StillProcessing(u), kind = "webhook" => Exists(Job(u).id)
    PROVE  /\ Contract!Recordable(Job(u).id)
           /\ Job(u).id \in overrun \/ Attempt(u) = Contract!Counted(Job(u).id)
<1> DEFINE j == Job(u).id
<1>1. j \in Deliveries /\ Holds(u, j) /\ TypeOK
  BY JobType DEF Refinable, Holds
<1>2. status[j] # "absent" /\ status[j] \notin {"discarded", "dead_letter", "deleted"}
  BY <1>1 DEF Refinable, Orderly, StillProcessing, Exists
<1>3. Outcome(j) \in {"open", "delivered", "given_up"}
  BY <1>2 DEF Outcome
<1>4. status[j] = "processing" => Outcome(j) = "open"
  BY DEF Outcome
<1>5. CASE j \in overrun
  BY <1>1, <1>3, <1>4, <1>5 DEF StillProcessing, Contract!Recordable
<1>6. CASE j \notin overrun
  <2>1. AsLeft(u, j)
    BY <1>1, <1>6 DEF Refinable, LeaseExclusive
  <2>2. \/ status[j] = "processing" /\ attempts[j] = Job(u).attempts
        \/ kind = "webhook" /\ status[j] = "delivered" /\ attempts[j] = Attempt(u)
    BY <1>2, <2>1 DEF AsLeft
  <2>3. CASE status[j] = "processing" /\ attempts[j] = Job(u).attempts
    BY <1>1, <1>4, <2>3 DEF Contract!Recordable, Contract!Counted, Attempt
  <2>4. CASE kind = "webhook" /\ status[j] = "delivered" /\ attempts[j] = Attempt(u)
    <3>1. Outcome(j) = "delivered"
      BY <2>4 DEF Outcome
    <3>2. QED
      BY <1>1, <2>4, <3>1 DEF Contract!Recordable, Contract!Counted
  <2>5. QED
    BY <2>2, <2>3, <2>4
<1>7. QED
  BY <1>5, <1>6

LEMMA RecordMaps ==
    ASSUME Refinable, NEW u \in Processes, pc[u] = "record", Record(u),
           NEW j \in Deliveries, j = Job(u).id,
           kind = "auth" => StillProcessing(u), kind = "webhook" => Exists(j),
           attempts' = [attempts EXCEPT ![j] = Attempt(u)], accepted' = accepted,
           \/ /\ ok[u] /\ Outcome(j)' = "delivered"
              /\ ~Busy(u)' \/ (kind = "webhook" /\ Busy(u)')
           \/ /\ Outcome(j)' = IF Attempt(u) = MaxAttempts THEN "given_up" ELSE "open"
              /\ ~Busy(u)'
    PROVE  Contract!Next
<1> DEFINE hold == [d \in Deliveries |-> {w \in Processes : Holds(w, d)}]
           hold2 == [d \in Deliveries |-> {w \in Processes : Holds(w, d)'}]
           state == [d \in Deliveries |-> Outcome(d)]
           state2 == [d \in Deliveries |-> Outcome(d)']
<1>0. TypeOK /\ Busy(u) /\ j \in Deliveries /\ Holds(u, j) /\ Attempt(u) \in 1..MaxAttempts
  BY JobType DEF Refinable, Busy, Holds
<1>1. /\ UNCHANGED <<kind, overrun>> /\ OthersSame(u)
      /\ ~Busy(u)' \/ (Busy(u)' /\ batch' = batch)
      /\ \A d \in Deliveries \ {j} : UNCHANGED <<status[d], attempts[d]>>
  BY <1>0, WorkerStep
<1>2. ~Busy(u)' => hold2 = [hold EXCEPT ![j] = @ \ {u}]
  BY <1>0, <1>1, HoldersLetGo
<1>3. Busy(u)' => hold2 = hold
  BY <1>0, <1>1, GoesOnHolding, HoldersStay
<1>4. state2 = [state EXCEPT ![j] = Outcome(j)']
  BY <1>0, <1>1, StateMaps
<1>5. ok[u] => accepted[j]
  BY HonestMeans DEF Refinable, WorkerHonest
<1>6. u \in hold[j]
  BY <1>0
<1>7. Contract!Recordable(j) /\ (j \in overrun \/ Attempt(u) = Contract!Counted(j))
  BY MayRecord
<1>8. Contract!Record(j, u)
  <2>1. CASE ok[u] /\ Outcome(j)' = "delivered" /\ ~Busy(u)'
    BY <1>0, <1>1, <1>2, <1>4, <1>5, <1>6, <1>7, <2>1 DEF Contract!Record
  <2>2. CASE ok[u] /\ Outcome(j)' = "delivered" /\ kind = "webhook" /\ Busy(u)'
    BY <1>0, <1>1, <1>3, <1>4, <1>5, <1>6, <1>7, <2>2 DEF Contract!Record
  <2>3. CASE Outcome(j)' = (IF Attempt(u) = MaxAttempts THEN "given_up" ELSE "open") /\ ~Busy(u)'
    BY <1>0, <1>1, <1>2, <1>4, <1>6, <1>7, <2>3 DEF Contract!Record
  <2>4. QED
    BY <2>1, <2>2, <2>3
<1>9. QED
  BY <1>0, <1>1, <1>8 DEF Contract!Next

LEMMA DeliveredMaps ==
    ASSUME Refinable, NEW u \in Processes,
           WebhookDelivered(u) \/ EmailDelivered(u) \/ (AuthDelivered(u) /\ StillProcessing(u))
    PROVE  Contract!Next
<1>1. pc[u] = "record" /\ ok[u] /\ Record(u) /\ TypeOK /\ accepted' = accepted
  BY DEF Record, WebhookDelivered, EmailDelivered, AuthDelivered, Refinable
<1>2. PICK j \in Deliveries : j = Job(u).id
  BY <1>1, JobType
<1>3. SetDelivered(u)
  BY DEF WebhookDelivered, EmailDelivered, AuthDelivered
<1>4. status'[j] = "delivered" /\ attempts' = [attempts EXCEPT ![j] = Attempt(u)]
  BY <1>1, <1>2, <1>3 DEF SetDelivered, TypeOK
<1>5. Outcome(j)' = "delivered"
  BY <1>4 DEF Outcome
<1>6. Advance(u) \/ (kind = "webhook" /\ GoTo(u, "log"))
  BY DEF WebhookDelivered, EmailDelivered, AuthDelivered
<1>7. ~Busy(u)' \/ (kind = "webhook" /\ Busy(u)')
  BY <1>1, <1>6 DEF Advance, GoTo, Busy, TypeOK
<1>8. /\ kind = "auth" => StillProcessing(u)
      /\ kind = "webhook" => Exists(j)
  BY <1>2 DEF WebhookDelivered, EmailDelivered, AuthDelivered
<1>9. QED
  BY <1>1, <1>2, <1>4, <1>5, <1>7, <1>8, RecordMaps

LEMMA FailedMaps ==
    ASSUME Refinable, NEW u \in Processes,
           WebhookFailed(u) \/ EmailFailed(u) \/ (AuthFailed(u) /\ StillProcessing(u))
    PROVE  Contract!Next
<1>1. pc[u] = "record" /\ Record(u) /\ TypeOK /\ accepted' = accepted
  BY DEF Record, WebhookFailed, EmailFailed, AuthFailed, Refinable
<1>0. PICK j \in Deliveries : j = Job(u).id
  BY <1>1, JobType
<1>2. Attempt(u) \in 1..MaxAttempts
  BY <1>1, JobType
<1>3. PICK label \in {"failed", "dead_letter"} :
          SetFailed(u, label) /\ (label = "dead_letter" => LastAttempt(u))
  BY DEF WebhookFailed, EmailFailed, AuthFailed
<1>4. /\ status'[j] = label
      /\ attempts' = [attempts EXCEPT ![j] = Attempt(u)]
      /\ attempts'[j] = Attempt(u)
  BY <1>0, <1>1, <1>2, <1>3 DEF SetFailed, TypeOK
<1>5. LastAttempt(u) <=> Attempt(u) = MaxAttempts
  BY <1>2, OutboxAssumption DEF LastAttempt
<1>6. Outcome(j)' = IF Attempt(u) = MaxAttempts THEN "given_up" ELSE "open"
  BY <1>3, <1>4, <1>5 DEF Outcome
<1>7. ~Busy(u)'
  BY <1>1 DEF WebhookFailed, EmailFailed, AuthFailed, Advance, Busy, TypeOK
<1>8. /\ kind = "auth" => StillProcessing(u)
      /\ kind = "webhook" => Exists(j)
  BY <1>0 DEF WebhookFailed, EmailFailed, AuthFailed
<1>9. QED
  BY <1>0, <1>1, <1>4, <1>6, <1>7, <1>8, RecordMaps

-----------------------------------------------------------------------------
(* The other steps.                                                        *)

(* A claim takes the delivery: a lease that still runs would have kept it  *)
(* out of the batch's due rows.                                            *)
LEMMA ClaimMaps ==
    ASSUME Refinable, NEW u \in Processes, Claim(u)
    PROVE  Contract!Next \/ UNCHANGED Contract!vars
<1>0. TypeOK /\ LeaseExclusive /\ pc[u] = "claim" /\ ~Busy(u)
  BY DEF Refinable, Claim, Busy
<1>1. PICK j \in Deliveries : j = Job(u).id
  BY <1>0, JobType
<1>2. CASE Claimable(u)
  <2>1. Outcome(j) = "open" /\ attempts[j] < MaxAttempts
    <3>1. status[j] \in Retryable /\ attempts[j] \in 0..(MaxAttempts - 1)
      BY <1>0, <1>1, <1>2, JobType DEF Claimable, Copies
    <3>2. QED
      BY <3>1, OutboxAssumption DEF Outcome, Retryable
  <2>2. j \notin overrun => \A w \in Processes : ~Holds(w, j)
    BY <1>0, <1>1, <1>2 DEF LeaseExclusive, Claimable
  <2>3. /\ status' = [status EXCEPT ![j] = "processing"] /\ batch' = batch
        /\ pc' = [pc EXCEPT ![u] = IF kind = "auth" THEN "check" ELSE "send"]
        /\ UNCHANGED <<kind, attempts, accepted, overrun, ok>>
    BY <1>1, <1>2 DEF Claim, GoTo
  <2>4. Busy(u)' /\ OthersSame(u) /\ Job(u)'.id = j
    BY <1>0, <1>1, <2>3 DEF Busy, OthersSame, SameProcess, Job, TypeOK
  <2>5. \A d \in Deliveries : Outcome(d)' = Outcome(d)
    <3>1. Outcome(j)' = "open"
      BY <1>0, <2>3 DEF Outcome, TypeOK
    <3>2. \A d \in Deliveries : d # j => Outcome(d)' = Outcome(d)
      BY <1>0, <2>3 DEF Outcome, TypeOK
    <3>3. QED
      BY <2>1, <3>1, <3>2
  <2>6. Contract!Take(j, u)
    BY <1>0, <2>1, <2>2, <2>3, <2>4, <2>5, StateStays, HoldersTake DEF Contract!Take
  <2>7. QED
    BY <2>3, <2>6 DEF Contract!Next
<1>3. CASE ~Claimable(u)
  <2>1. UNCHANGED <<kind, status, attempts, accepted, overrun>>
    BY <1>3 DEF Claim, row
  <2>2. ~Busy(u)' /\ OthersSame(u)
    BY <1>0, <1>3 DEF Claim, Advance, Busy, OthersSame, SameProcess, TypeOK
  <2>3. \A d \in Deliveries, w \in Processes : Holds(w, d)' <=> Holds(w, d)
    BY <1>0, <2>2 DEF OthersSame, SameProcess, Holds, Busy, Job
  <2>4. \A d \in Deliveries : Outcome(d)' = Outcome(d)
    BY <2>1 DEF Outcome
  <2>5. QED
    BY <2>1, <2>3, <2>4, Stutters
<1>4. QED
  BY <1>2, <1>3

LEMMA SendMaps ==
    ASSUME Refinable, NEW u \in Processes, Send(u)
    PROVE  Contract!Next \/ UNCHANGED Contract!vars
<1>0. TypeOK /\ LeaseExclusive
  BY DEF Refinable
<1>1. /\ Job(u).id \in Deliveries /\ Holds(u, Job(u).id) /\ Busy(u) /\ OthersSame(u)
      /\ UNCHANGED <<kind, overrun>>
  BY <1>0, WorkerStep
<1>2. PICK j \in Deliveries : j = Job(u).id
  BY <1>1
<1>3. /\ UNCHANGED <<kind, status, attempts, overrun, batch>> /\ pc[u] = "send" /\ Busy(u)'
      /\ accepted' = [accepted EXCEPT ![j] = TRUE] \/ accepted' = accepted
  <2>1. pc'[u] = "record"
    BY <1>0 DEF Send, TypeOK
  <2>2. PICK outcome \in {"accepted", "lost", "refused"} :
            accepted' = [accepted EXCEPT ![j] = @ \/ outcome \in {"accepted", "lost"}]
    BY <1>2 DEF Send
  <2>3. accepted' = [accepted EXCEPT ![j] = TRUE] \/ accepted' = accepted
    <3>1. CASE outcome \in {"accepted", "lost"}
      BY <1>0, <2>2, <3>1 DEF TypeOK
    <3>2. CASE outcome \notin {"accepted", "lost"}
      <4>1. accepted' = [accepted EXCEPT ![j] = accepted[j]]
        BY <1>0, <2>2, <3>2 DEF TypeOK
      <4>2. QED
        BY <1>0, <4>1 DEF TypeOK
    <3>3. QED
      BY <3>1, <3>2
  <2>4. QED
    BY <2>1, <2>3 DEF Send, row, Busy
<1>4. /\ \A d \in Deliveries : Outcome(d)' = Outcome(d)
      /\ \A d \in Deliveries, w \in Processes : Holds(w, d)' <=> Holds(w, d)
  BY <1>1, <1>3, GoesOnHolding DEF Outcome
<1>5. Outcome(j) \in {"open", "called_off"} \/ j \in overrun
  BY <1>0, <1>1, <1>2, <1>3 DEF LeaseExclusive, AsLeft, Outcome
<1>6. CASE accepted' = accepted
  BY <1>3, <1>4, <1>6, Stutters
<1>7. CASE accepted' = [accepted EXCEPT ![j] = TRUE]
  <2>1. {d \in Deliveries : accepted'[d]} = {d \in Deliveries : accepted[d]} \cup {j}
    BY <1>0, <1>7 DEF TypeOK
  <2>2. Contract!Send(j, u)
    BY <1>1, <1>2, <1>3, <1>4, <1>5, <2>1, StateStays, HoldersStay DEF Contract!Send
  <2>3. QED
    BY <1>3, <2>2 DEF Contract!Next
<1>8. QED
  BY <1>3, <1>6, <1>7

LEMMA RowMaps ==
    ASSUME Refinable, NEW j \in Deliveries, Enqueue(j) \/ Delete(j) \/ Spend(j) \/ Replace(j)
    PROVE  Contract!Next \/ UNCHANGED Contract!vars
<1>0. TypeOK /\ Orderly(j)
  BY DEF Refinable
<1>1. UNCHANGED <<kind, attempts, accepted, overrun, batch, pc>>
  BY DEF Enqueue, Delete, Spend, Replace, local
<1>2. \A d \in Deliveries, w \in Processes : Holds(w, d)' <=> Holds(w, d)
  BY <1>1 DEF Holds, Job
<1>3. \A d \in Deliveries \ {j} : UNCHANGED <<status[d], attempts[d]>>
  BY <1>0, <1>1 DEF Enqueue, Delete, Spend, Replace, TypeOK
<1>4. CASE status' = status
  BY <1>1, <1>2, <1>4, Stutters DEF Outcome
<1>5. CASE Enqueue(j)
  <2>1. Outcome(j) = "absent" /\ Outcome(j)' = "open"
    BY <1>0, <1>5 DEF Enqueue, IsNext, Outcome, TypeOK
  <2>2. Contract!Enqueue(j)
    BY <1>1, <1>2, <1>3, <2>1, StateMaps, HoldersStay DEF Contract!Enqueue, Contract!Put
  <2>3. QED
    BY <1>1, <2>2 DEF Contract!Next
<1>6. CASE Delete(j) \/ (Replace(j) /\ status[j] \in Retryable)
  <2>1. /\ Outcome(j)' = "called_off"
        /\ \/ kind = "auth" /\ Outcome(j) = "open"
           \/ kind = "webhook" /\ Outcome(j) # "absent"
    <3>1. CASE Delete(j)
      BY <1>0, <3>1 DEF Delete, Exists, Outcome, TypeOK
    <3>2. CASE Replace(j) /\ status[j] \in Retryable
      <4>1. kind = "auth" /\ status'[j] = "discarded"
        BY <1>0, <3>2 DEF Replace, TypeOK
      <4>2. Outcome(j) = "open"
        BY <1>0, <3>2, <4>1, OutboxAssumption DEF Orderly, Outcome, Retryable, TypeOK
      <4>3. QED
        BY <4>1, <4>2 DEF Outcome
    <3>3. QED
      BY <1>6, <3>1, <3>2
  <2>2. Contract!CallOff(j)
    BY <1>1, <1>2, <1>3, <2>1, StateMaps, HoldersStay DEF Contract!CallOff
  <2>3. QED
    BY <1>1, <2>2 DEF Contract!Next
<1>7. CASE Spend(j) \/ (Replace(j) /\ status[j] \notin Retryable)
  BY <1>0, <1>4, <1>7 DEF Spend, Replace, TypeOK
<1>8. QED
  BY <1>5, <1>6, <1>7

LEMMA TestMaps ==
    ASSUME Refinable, NEW t \in Testers, NEW j \in Deliveries, Test(t, j)
    PROVE  Contract!Next
<1>0. TypeOK /\ Orderly(j) /\ t \in Processes /\ status[j] = "absent"
  BY DEF Refinable, Test, IsNext, Processes
<1>1. attempts[j] = 0 /\ \A w \in Processes : ~Holds(w, j)
  BY <1>0 DEF Orderly
<1>2. UNCHANGED <<kind, attempts, accepted, overrun>>
  BY <1>0, <1>1 DEF Test, TypeOK
<1>3. ~Busy(t) /\ Busy(t)' /\ OthersSame(t) /\ Job(t)'.id = j
  BY <1>0 DEF Test, Busy, OthersSame, SameProcess, Job, TypeOK
<1>4. /\ Outcome(j) = "absent" /\ Outcome(j)' = "open"
      /\ \A d \in Deliveries \ {j} : UNCHANGED <<status[d], attempts[d]>>
  BY <1>0, <1>2 DEF Test, Outcome, TypeOK
<1>5. [d \in Deliveries |-> {w \in Processes : Holds(w, d)'}]
         = [[d \in Deliveries |-> {w \in Processes : Holds(w, d)}] EXCEPT ![j] = {t}]
  <2> DEFINE hold == [d \in Deliveries |-> {w \in Processes : Holds(w, d)}]
  <2>1. hold[j] = {}
    BY <1>1
  <2>2. [d \in Deliveries |-> {w \in Processes : Holds(w, d)'}] = [hold EXCEPT ![j] = @ \cup {t}]
    BY <1>0, <1>3, HoldersTake
  <2>3. hold[j] \cup {t} = {t}
    BY <2>1
  <2> HIDE DEF hold
  <2>4. [hold EXCEPT ![j] = @ \cup {t}] = [hold EXCEPT ![j] = {t}]
    BY <2>3
  <2>5. QED
    BY <2>2, <2>4 DEF hold
<1>6. Contract!Test(j, t)
  BY <1>2, <1>4, <1>5, StateMaps DEF Test, Contract!Test, Contract!Put
<1>7. QED
  BY <1>0, <1>2, <1>6 DEF Contract!Next

LEMMA TickMaps ==
    ASSUME Refinable, Tick
    PROVE  Contract!Next
<1>1. UNCHANGED <<kind, status, attempts, accepted, batch, pc>>
  BY DEF Tick, local
<1>2. /\ \A d \in Deliveries, w \in Processes : Holds(w, d)' <=> Holds(w, d)
      /\ \A d \in Deliveries : Outcome(d)' = Outcome(d)
  BY <1>1 DEF Holds, Job, Outcome
<1>3. PICK late \in SUBSET Deliveries :
          overrun' = overrun \cup late /\ \A d \in late : \E w \in Processes : Holds(w, d)
  <2> DEFINE slow == {d \in Deliveries : wait[d] <= 1 /\ \E w \in Processes : Holds(w, d)}
  <2>1. overrun' = overrun \cup slow /\ slow \in SUBSET Deliveries
    BY DEF Tick
  <2>2. \A d \in slow : \E w \in Processes : Holds(w, d)
    OBVIOUS
  <2> HIDE DEF slow
  <2>3. QED
    BY <2>1, <2>2
<1>4. Contract!Lapse
  BY <1>1, <1>2, <1>3, StateStays, HoldersStay DEF Contract!Lapse
<1>5. QED
  BY <1>1, <1>4 DEF Contract!Next

LEMMA DiscardedMaps ==
    ASSUME Refinable, NEW u \in Processes, AuthDiscarded(u), StillProcessing(u)
    PROVE  Contract!Next
<1>0. TypeOK /\ Record(u)
  BY DEF Refinable, Record
<1>1. PICK j \in Deliveries : j = Job(u).id /\ Holds(u, j)
  BY <1>0, WorkerStep
<1>2. /\ Busy(u) /\ ~Busy(u)' /\ OthersSame(u)
      /\ \A d \in Deliveries \ {j} : UNCHANGED <<status[d], attempts[d]>>
      /\ UNCHANGED <<kind, attempts, accepted, overrun>> /\ kind = "auth"
  BY <1>0, <1>1, WorkerStep DEF AuthDiscarded, Advance, Busy, TypeOK
<1>3. Outcome(j) = "open" /\ Outcome(j)' = "called_off"
  BY <1>0, <1>1 DEF AuthDiscarded, StillProcessing, Outcome, TypeOK
<1>4. Contract!Refrain(j, u)
  BY <1>1, <1>2, <1>3, StateMaps, HoldersLetGo DEF Contract!Refrain
<1>5. QED
  BY <1>2, <1>4 DEF Contract!Next

(* Steps that leave the row as it is. *)
LEMMA EmptyMaps ==
    ASSUME Refinable, NEW u \in Processes,
           \/ Check(u) \/ WebhookThrows(u) \/ WebhookLogged(u) \/ WebhookGone(u)
           \/ (AuthDiscarded(u) \/ AuthDelivered(u) \/ AuthFailed(u)) /\ ~StillProcessing(u)
    PROVE  Contract!Next \/ UNCHANGED Contract!vars
<1>0. TypeOK /\ (Check(u) \/ WebhookThrows(u) \/ Record(u))
  BY DEF Refinable, Record
<1>1. /\ Busy(u) /\ OthersSame(u) /\ Job(u).id \in Deliveries
      /\ ~Busy(u)' \/ (Busy(u)' /\ batch' = batch)
  BY <1>0, WorkerStep
<1>2. UNCHANGED <<kind, status, attempts, accepted, overrun>>
  BY DEF Check, WebhookThrows, WebhookLogged, WebhookGone, DropBatch, AuthDiscarded, AuthDelivered,
     AuthFailed, row
<1>3. CASE ~Busy(u)'
  BY <1>1, <1>2, <1>3, LetGoMaps
<1>4. CASE Busy(u)' /\ batch' = batch
  BY <1>1, <1>2, <1>4, GoesOnHolding, Stutters DEF Outcome
<1>5. QED
  BY <1>1, <1>3, <1>4

LEMMA SelectMaps ==
    ASSUME Refinable, NEW u \in Processes, Select(u) \/ Abort(u)
    PROVE  Contract!Next \/ UNCHANGED Contract!vars
<1>0. TypeOK
  BY DEF Refinable
<1>1. UNCHANGED <<kind, status, attempts, accepted, overrun>>
  BY DEF Select, Abort, DropBatch, row
<1>2. OthersSame(u) /\ ~Busy(u)'
  BY <1>0 DEF Select, Abort, DropBatch, OthersSame, SameProcess, Busy, TypeOK
<1>3. CASE Busy(u)
  BY <1>0, <1>1, <1>2, <1>3, JobType, LetGoMaps DEF Busy
<1>4. CASE ~Busy(u)
  <2>1. \A d \in Deliveries, w \in Processes : Holds(w, d)' <=> Holds(w, d)
    BY <1>2, <1>4 DEF OthersSame, SameProcess, Holds, Busy, Job
  <2>2. QED
    BY <1>1, <2>1, Stutters DEF Outcome
<1>5. QED
  BY <1>3, <1>4

LEMMA StepMaps == Refinable /\ [Next]_vars => [Contract!Next]_Contract!vars
<1> SUFFICES ASSUME Refinable, [Next]_vars PROVE [Contract!Next]_Contract!vars
  OBVIOUS
<1>1. ASSUME NEW u \in Processes, Record(u)
      PROVE  Contract!Next \/ UNCHANGED Contract!vars
  BY <1>1, DeliveredMaps, FailedMaps, DiscardedMaps, EmptyMaps DEF Record
<1>2. CASE UNCHANGED vars
  <2>1. \A d \in Deliveries, w \in Processes : Holds(w, d)' <=> Holds(w, d)
    BY <1>2 DEF vars, local, Holds, Job
  <2>2. QED
    BY <1>2, <2>1, Stutters DEF vars, row, Outcome
<1>3. QED
  BY <1>1, <1>2, ClaimMaps, SendMaps, RowMaps, TestMaps, TickMaps, EmptyMaps, SelectMaps DEF Next

(* Every outbox keeps the contract: batches, leases, late workers, crashes *)
(* and three ways to record an attempt look, to those who enqueue and to   *)
(* those who receive, like deliveries that are taken, sent and recorded by *)
(* one worker each, shared only after a lease has run out.                 *)
THEOREM OutboxKeepsContract == Spec => ImplementsContract
<1>1. Init => Contract!Init
  BY DEF Init, Contract!Init, Outcome, Holds
<1>2. /\ TypeOK /\ LeaseExclusive /\ DeliveredWasAccepted /\ (\A d \in Deliveries : Orderly(d))
      /\ [Next]_vars
      => [Contract!Next]_Contract!vars
  BY StepMaps DEF Refinable
<1>3. QED
  BY <1>1, <1>2, TypeCorrect, LeaseCorrect, DeliveredCorrect, OrderlyInvariant, PTL
     DEF Spec, ImplementsContract, Contract!Safety
=============================================================================
