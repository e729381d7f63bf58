---------------------- MODULE ApprovalLifecycleProofs ----------------------
(***************************************************************************)
(* Proofs about ApprovalLifecycle, for every number of approvals,          *)
(* webhooks, requests and workers and every bound.                         *)
(***************************************************************************)
EXTENDS ApprovalLifecycle, SequenceTheorems, TLAPS

USE DEF Outcomes, Statuses, Events, Undecided

-----------------------------------------------------------------------------
(* Types.                                                                  *)

(* A call names an approval, and an Idempotency-Key if it is a             *)
(* cancellation.                                                           *)
LEMMA CallType ==
    ASSUME NEW c \in Calls
    PROVE  /\ c.id \in Approvals
           /\ c.op \in Decisions \cup Reads \cup {"cancel"}
           /\ c.key \in Keys \cup {NoKey}
           /\ c.op = "cancel" => c.key \in Keys
BY DEF Calls, Decisions, Reads

(* Entering a status keeps the three tables it writes well typed.          *)
LEMMA EnterType ==
    ASSUME TypeOK, NEW a \in Approvals, NEW s \in Events, NEW hook, Enter(a, s, hook)
    PROVE  /\ status' \in [Approvals -> Statuses]
           /\ trail' \in [Approvals -> Seq(Events)]
           /\ outbox' \subseteq Webhooks \X Approvals \X Events
<1>1. status' \in [Approvals -> Statuses]
  BY DEF TypeOK, TablesOK, Enter
<1>2. trail' \in [Approvals -> Seq(Events)]
  <2>1. Append(trail[a], s) \in Seq(Events)
    BY DEF TypeOK, TablesOK
  <2>2. QED
    BY <2>1 DEF TypeOK, TablesOK, Enter
<1>3. outbox' \subseteq Webhooks \X Approvals \X Events
  BY DEF TypeOK, TablesOK, Enter, Audience
<1>4. QED
  BY <1>1, <1>2, <1>3

(* The transaction of expireApproval keeps the tables well typed.          *)
LEMMA ExpireType ==
    ASSUME TypeOK, NEW a \in Approvals, Expire(a), UNCHANGED hooks
    PROVE  TablesOK'
BY EnterType DEF Expire, TypeOK, TablesOK

(* A reply, or a jump to another label, keeps the handlers well typed.     *)
LEMMA AnswerType ==
    ASSUME TypeOK, NEW r \in Requests, NEW kind \in Kinds, NEW body \in Statuses,
           Answer(r, kind, body)
    PROVE  HandlersOK'
<1>1. pc' \in [Requests -> Labels]
  BY DEF Answer, TypeOK, HandlersOK, Labels
<1>2. seen' \in [Requests -> Statuses] /\ at' \in [Requests -> 0..MaxTime]
  BY LifecycleAssumption DEF Answer, TypeOK, HandlersOK
<1>3. reply' \in [Requests -> [kind : Kinds, body : Statuses]]
  BY DEF Answer, TypeOK, HandlersOK
<1>4. QED
  BY <1>1, <1>2, <1>3 DEF HandlersOK

LEMMA GoToType ==
    ASSUME TypeOK, NEW r \in Requests, NEW label \in Labels, GoTo(r, label)
    PROVE  /\ pc' \in [Requests -> Labels]
           /\ reply' \in [Requests -> [kind : Kinds, body : Statuses]]
BY DEF GoTo, TypeOK, HandlersOK

(* No step of a handler changes a type.                                    *)
LEMMA HandleType ==
    ASSUME TypeOK, NEW r \in Requests, Handle(r)
    PROVE  TypeOK'
<1>0. /\ call[r] \in Calls
      /\ call[r].id \in Approvals
      /\ call[r].key \in Keys \cup {NoKey}
      /\ status[call[r].id] \in Statuses
      /\ seen[r] \in Statuses
      /\ at[r] \in 0..MaxTime
  BY CallType DEF TypeOK, TablesOK, HandlersOK
<1>1. UNCHANGED <<now, hooks, call, batch>>
  BY DEF Handle, ReadRow, JudgeDecision, JudgeRead, Stamp, CommitDecision, CommitExpiry,
         CommitCancel, Reread, Fail
<1>2. HandlersOK'
  <2>1. CASE ReadRow(r)
    <3>1. CASE \E kind \in Kinds, body \in Statuses : Answer(r, kind, body)
      BY <3>1, AnswerType
    <3>2. CASE /\ seen' = [seen EXCEPT ![r] = status[call[r].id]]
               /\ GoTo(r, IF call[r].op = "cancel" THEN "cancel" ELSE "judge")
               /\ UNCHANGED at
      BY <1>0, <3>2, GoToType DEF TypeOK, HandlersOK, Labels
    <3>3. QED
      BY <1>0, <2>1, <3>1, <3>2 DEF ReadRow, Kinds
  <2>2. CASE JudgeDecision(r)
    BY <1>0, <2>2, AnswerType, GoToType DEF JudgeDecision, TypeOK, HandlersOK, Labels, Kinds
  <2>3. CASE JudgeRead(r)
    BY <1>0, <2>3, AnswerType, GoToType DEF JudgeRead, TypeOK, HandlersOK, Labels, Kinds
  <2>4. CASE Stamp(r)
    BY <2>4, GoToType DEF Stamp, TypeOK, HandlersOK, Labels
  <2>5. CASE CommitDecision(r)
    BY <1>0, <2>5, AnswerType, GoToType
       DEF CommitDecision, Verdict, TypeOK, HandlersOK, Labels, Kinds
  <2>6. CASE CommitExpiry(r)
    BY <1>0, <2>6, AnswerType DEF CommitExpiry, AnswerAfterExpiry, Kinds
  <2>7. CASE CommitCancel(r)
    BY <1>0, <2>7, AnswerType, GoToType DEF CommitCancel, TypeOK, HandlersOK, Labels, Kinds
  <2>8. CASE Reread(r)
    BY <1>0, <2>8, AnswerType DEF Reread, Kinds
  <2>9. CASE Fail(r)
    BY <2>9, AnswerType DEF Fail, Kinds
  <2>10. QED
    BY <2>1, <2>2, <2>3, <2>4, <2>5, <2>6, <2>7, <2>8, <2>9 DEF Handle
<1>3. TablesOK'
  <2>1. CASE UNCHANGED rows
    BY <1>1, <2>1 DEF TypeOK, TablesOK, rows
  <2>2. CASE Expire(call[r].id)
    BY <1>0, <1>1, <2>2, ExpireType
  <2>3. CASE /\ Enter(call[r].id, Verdict(call[r].op), hookOf[call[r].id])
             /\ decidedAt' = [decidedAt EXCEPT ![call[r].id] = at[r]]
             /\ UNCHANGED <<expiresAt, cancelKey, hookOf>>
    <3>1. Verdict(call[r].op) \in Events
      BY DEF Verdict
    <3>2. QED
      BY <1>0, <1>1, <2>3, <3>1, EnterType DEF TypeOK, TablesOK
  <2>4. CASE /\ cancelKey' = [cancelKey EXCEPT ![call[r].id] = call[r].key]
             /\ Enter(call[r].id, "CANCELLED", hookOf[call[r].id])
             /\ UNCHANGED <<expiresAt, decidedAt, hookOf>>
    BY <1>0, <1>1, <2>4, EnterType DEF TypeOK, TablesOK
  <2>5. QED
    BY <1>0, <2>1, <2>2, <2>3, <2>4
       DEF Handle, ReadRow, JudgeDecision, JudgeRead, Stamp, CommitDecision, CommitExpiry,
           CommitCancel, Reread, Fail
<1>4. QED
  BY <1>1, <1>2, <1>3 DEF TypeOK

(* Every variable holds a value of its type in every reachable state.      *)
THEOREM TypeCorrect == Spec => []TypeOK
<1>1. Init => TypeOK
  BY LifecycleAssumption DEF Init, TypeOK, TablesOK, HandlersOK, Labels, Kinds
<1>2. TypeOK /\ [Next]_vars => TypeOK'
  <2> SUFFICES ASSUME TypeOK, [Next]_vars PROVE TypeOK'
    OBVIOUS
  <2>1. CASE Tick
    BY <2>1, LifecycleAssumption DEF Tick, TypeOK, TablesOK, HandlersOK, rows, local
  <2>2. ASSUME NEW a \in Approvals, NEW ttl \in 1..MaxTTL, NEW h \in Webhooks \cup {NoHook},
               Create(a, ttl, h)
        PROVE  TypeOK'
    <3>1. expiresAt' \in [Approvals -> 0..MaxTime]
      BY <2>2, LifecycleAssumption DEF Create, TypeOK, TablesOK
    <3>2. QED
      BY <2>2, <3>1, EnterType DEF Create, TypeOK, TablesOK, HandlersOK, local
  <2>3. ASSUME NEW w \in Webhooks, RegisterWebhook(w)
        PROVE  TypeOK'
    BY <2>3 DEF RegisterWebhook, TypeOK, TablesOK, HandlersOK, rows, local
  <2>4. ASSUME NEW w \in Webhooks, DeleteWebhook(w)
        PROVE  TypeOK'
    BY <2>4 DEF DeleteWebhook, TypeOK, TablesOK, HandlersOK, local
  <2>5. ASSUME NEW r \in Requests, Handle(r)
        PROVE  TypeOK'
    BY <2>5, HandleType
  <2>6. ASSUME NEW w \in Workers, Work(w)
        PROVE  TypeOK'
    <3>0. UNCHANGED <<now, hooks, call, local>>
      BY <2>6 DEF Work, SelectDue, ExpireNext, AbortBatch
    <3>1. batch' \in [Workers -> Seq(Approvals)]
      <4>1. CASE SelectDue(w)
        <5>1. PICK n \in 1..BatchLimit :
                  \E s \in [1..n -> Approvals] : batch' = [batch EXCEPT ![w] = s]
          BY <4>1 DEF SelectDue
        <5>2. PICK s \in [1..n -> Approvals] : batch' = [batch EXCEPT ![w] = s]
          BY <5>1
        <5>3. s \in Seq(Approvals)
          BY LifecycleAssumption
        <5>4. QED
          BY <5>2, <5>3 DEF TypeOK
      <4>2. CASE ExpireNext(w)
        BY <4>2 DEF ExpireNext, TypeOK
      <4>3. CASE AbortBatch(w)
        BY <4>3 DEF AbortBatch, TypeOK
      <4>4. QED
        BY <2>6, <4>1, <4>2, <4>3 DEF Work
    <3>2. TablesOK'
      <4>1. CASE UNCHANGED rows
        BY <3>0, <4>1 DEF TypeOK, TablesOK, rows
      <4>2. CASE batch[w] # <<>> /\ Expire(Head(batch[w]))
        <5>1. Head(batch[w]) \in Approvals
          BY <4>2 DEF TypeOK
        <5>2. QED
          BY <3>0, <4>2, <5>1, ExpireType
      <4>3. QED
        BY <2>6, <4>1, <4>2 DEF Work, SelectDue, ExpireNext, AbortBatch
    <3>3. QED
      BY <3>0, <3>1, <3>2 DEF TypeOK, HandlersOK, local
  <2>7. CASE UNCHANGED vars
    BY <2>7 DEF vars, TypeOK, TablesOK, HandlersOK, rows, local
  <2>8. QED
    BY <2>1, <2>2, <2>3, <2>4, <2>5, <2>6, <2>7 DEF Next
<1>3. QED
  BY <1>1, <1>2, PTL DEF Spec

-----------------------------------------------------------------------------
(* What a step can do to the approvals.                                    *)

Created(a) ==
    /\ status[a] = "ABSENT"
    /\ Enter(a, "PENDING", hookOf'[a])
    /\ \E t \in Int, h \in Webhooks \cup {NoHook} :
          /\ expiresAt' = [expiresAt EXCEPT ![a] = t]
          /\ hookOf' = [hookOf EXCEPT ![a] = h]
    /\ UNCHANGED <<decidedAt, cancelKey, hooks>>

Decided(a, o) ==
    /\ o \in {"APPROVED", "REJECTED"}
    /\ \E t \in Nat : /\ t <= now /\ t < expiresAt[a]
                     /\ decidedAt' = [decidedAt EXCEPT ![a] = t]
    /\ UNCHANGED cancelKey

Cancelled(a, o) ==
    /\ o = "CANCELLED"
    /\ \E k \in Keys : ~Taken(k) /\ cancelKey' = [cancelKey EXCEPT ![a] = k]
    /\ UNCHANGED decidedAt

Resolved(a, o) ==
    /\ status[a] = "PENDING"
    /\ Enter(a, o, hookOf[a])
    /\ \/ o = "EXPIRED" /\ Due(a) /\ UNCHANGED <<decidedAt, cancelKey>>
       \/ Decided(a, o)
       \/ Cancelled(a, o)
    /\ UNCHANGED <<expiresAt, hookOf, hooks>>

Forgotten(w) ==
    /\ hooks[w] = "active"
    /\ hooks' = [hooks EXCEPT ![w] = "deleted"]
    /\ hookOf' = [a \in Approvals |-> IF hookOf[a] = w THEN NoHook ELSE hookOf[a]]
    /\ outbox' = {n \in outbox : n[1] # w}
    /\ UNCHANGED <<status, expiresAt, decidedAt, cancelKey, trail>>

NoRow ==
    /\ UNCHANGED rows
    /\ \A w \in Webhooks : hooks[w] = "active" => hooks'[w] = "active"

RowStep ==
    \/ NoRow
    \/ \E a \in Approvals : Created(a)
    \/ \E a \in Approvals, o \in Outcomes : Resolved(a, o)
    \/ \E w \in Webhooks : Forgotten(w)

(* A step of a handler leaves the approvals alone or resolves one of them. *)
LEMMA HandleRowStep ==
    ASSUME TypeOK, HandlersSound, NEW r \in Requests, Handle(r)
    PROVE  NoRow \/ \E o \in Outcomes : Resolved(call[r].id, o)
<1>0. /\ call[r].id \in Approvals
      /\ call[r].op \in Decisions \cup Reads \cup {"cancel"}
      /\ call[r].op = "cancel" => call[r].key \in Keys
      /\ at[r] \in Nat /\ at[r] <= now
  BY CallType, LifecycleAssumption DEF TypeOK, HandlersOK, HandlersSound, HandlerSound
<1>1. UNCHANGED hooks
  BY DEF Handle, ReadRow, JudgeDecision, JudgeRead, Stamp, CommitDecision, CommitExpiry,
         CommitCancel, Reread, Fail
<1>2. CASE UNCHANGED rows
  BY <1>1, <1>2 DEF NoRow
<1>3. CASE CommitDecision(r) /\ ~UNCHANGED rows
  <2>1. Decided(call[r].id, Verdict(call[r].op)) /\ Verdict(call[r].op) \in Outcomes
    BY <1>0, <1>3 DEF CommitDecision, Decidable, Decided, Verdict
  <2>2. Resolved(call[r].id, Verdict(call[r].op))
    BY <1>1, <1>3, <2>1 DEF CommitDecision, Decidable, Pending, Resolved
  <2>3. QED
    BY <2>1, <2>2
<1>4. CASE CommitExpiry(r) /\ ~UNCHANGED rows
  BY <1>1, <1>4 DEF CommitExpiry, Expire, Overdue, Pending, Resolved
<1>5. CASE CommitCancel(r) /\ ~UNCHANGED rows
  <2>1. call[r].key \in Keys
    BY <1>0, <1>5 DEF CommitCancel, HandlersSound, HandlerSound
  <2>2. Cancelled(call[r].id, "CANCELLED")
    BY <1>5, <2>1 DEF CommitCancel, Cancelled
  <2>3. QED
    BY <1>1, <1>5, <2>2 DEF CommitCancel, Pending, Resolved
<1>6. QED
  BY <1>2, <1>3, <1>4, <1>5 DEF Handle, ReadRow, JudgeDecision, JudgeRead, Stamp, Reread, Fail

(* So does every step: creation, the one resolution and the deletion of a  *)
(* webhook are all that ever happens to the tables, and time is monotonic. *)
LEMMA EveryRowStep ==
    ASSUME TypeOK, HandlersSound, [Next]_vars
    PROVE  RowStep /\ now <= now' /\ call' = call
<1>1. CASE Tick
  BY <1>1 DEF Tick, RowStep, NoRow, TypeOK
<1>2. ASSUME NEW a \in Approvals, NEW ttl \in 1..MaxTTL, NEW h \in Webhooks \cup {NoHook},
             Create(a, ttl, h)
      PROVE  RowStep /\ now <= now' /\ call' = call
  <2>1. hookOf'[a] = h /\ now + ttl \in Int
    BY <1>2, LifecycleAssumption DEF Create, TypeOK, TablesOK
  <2>2. Created(a)
    BY <1>2, <2>1 DEF Create, Created
  <2>3. QED
    BY <1>2, <2>2 DEF Create, RowStep, TypeOK
<1>3. ASSUME NEW w \in Webhooks, RegisterWebhook(w)
      PROVE  RowStep /\ now <= now' /\ call' = call
  BY <1>3 DEF RegisterWebhook, RowStep, NoRow, TypeOK, TablesOK
<1>4. ASSUME NEW w \in Webhooks, DeleteWebhook(w)
      PROVE  RowStep /\ now <= now' /\ call' = call
  <2>1. Forgotten(w)
    BY <1>4 DEF DeleteWebhook, Forgotten
  <2>2. QED
    BY <1>4, <2>1 DEF DeleteWebhook, RowStep, TypeOK
<1>5. ASSUME NEW r \in Requests, Handle(r)
      PROVE  RowStep /\ now <= now' /\ call' = call
  <2>1. UNCHANGED <<now, call>>
    BY <1>5 DEF Handle, ReadRow, JudgeDecision, JudgeRead, Stamp, CommitDecision,
                CommitExpiry, CommitCancel, Reread, Fail
  <2>2. call[r].id \in Approvals
    BY CallType DEF TypeOK
  <2>3. QED
    BY <1>5, <2>1, <2>2, HandleRowStep DEF RowStep, TypeOK
<1>6. ASSUME NEW w \in Workers, Work(w)
      PROVE  RowStep /\ now <= now' /\ call' = call
  <2>1. UNCHANGED <<now, call, hooks>>
    BY <1>6 DEF Work, SelectDue, ExpireNext, AbortBatch
  <2>2. CASE UNCHANGED rows
    BY <2>1, <2>2 DEF RowStep, NoRow, TypeOK
  <2>3. CASE ExpireNext(w) /\ ~UNCHANGED rows
    <3>1. Head(batch[w]) \in Approvals
      BY <2>3 DEF ExpireNext, TypeOK
    <3>2. Resolved(Head(batch[w]), "EXPIRED")
      BY <2>1, <2>3 DEF ExpireNext, Expire, Overdue, Pending, Resolved
    <3>3. QED
      BY <2>1, <3>1, <3>2 DEF RowStep, TypeOK
  <2>4. QED
    BY <1>6, <2>2, <2>3 DEF Work, SelectDue, AbortBatch
<1>7. CASE UNCHANGED vars
  BY <1>7 DEF vars, RowStep, NoRow, TypeOK
<1>8. QED
  BY <1>1, <1>2, <1>3, <1>4, <1>5, <1>6, <1>7 DEF Next

(* An approval that exists keeps its deadline; one that is decided,        *)
(* expired or cancelled keeps everything.                                  *)
LEMMA OutcomeKept ==
    ASSUME TypeOK, RowStep, NEW a \in Approvals
    PROVE  /\ status[a] # "ABSENT" => status'[a] # "ABSENT" /\ expiresAt'[a] = expiresAt[a]
           /\ status[a] \in Outcomes =>
                 /\ status'[a] = status[a] /\ decidedAt'[a] = decidedAt[a]
                 /\ cancelKey'[a] = cancelKey[a] /\ trail'[a] = trail[a]
<1>1. CASE NoRow
  BY <1>1 DEF NoRow, rows
<1>2. ASSUME NEW b \in Approvals, Created(b)
      PROVE  /\ status[a] # "ABSENT" => status'[a] # "ABSENT" /\ expiresAt'[a] = expiresAt[a]
             /\ status[a] \in Outcomes =>
                 /\ status'[a] = status[a] /\ decidedAt'[a] = decidedAt[a]
                 /\ cancelKey'[a] = cancelKey[a] /\ trail'[a] = trail[a]
  BY <1>2 DEF Created, Enter, TypeOK, TablesOK
<1>3. ASSUME NEW b \in Approvals, NEW o \in Outcomes, Resolved(b, o)
      PROVE  /\ status[a] # "ABSENT" => status'[a] # "ABSENT" /\ expiresAt'[a] = expiresAt[a]
             /\ status[a] \in Outcomes =>
                 /\ status'[a] = status[a] /\ decidedAt'[a] = decidedAt[a]
                 /\ cancelKey'[a] = cancelKey[a] /\ trail'[a] = trail[a]
  BY <1>3 DEF Resolved, Decided, Cancelled, Enter, TypeOK, TablesOK
<1>4. ASSUME NEW w \in Webhooks, Forgotten(w)
      PROVE  UNCHANGED <<status, expiresAt, decidedAt, cancelKey, trail>>
  BY <1>4 DEF Forgotten
<1>5. QED
  BY <1>1, <1>2, <1>3, <1>4 DEF RowStep

-----------------------------------------------------------------------------
(* The invariants of the tables.                                           *)

(* The second entry of a trail.                                            *)
LEMMA AppendSecond ==
    ASSUME NEW s, NEW t
    PROVE  Append(<<s>>, t) = <<s, t>>
<1>1. <<s>> \in Seq({s, t}) /\ Len(<<s>>) = 1 /\ <<s>>[1] = s
  OBVIOUS
<1>2. /\ Append(<<s>>, t) \in Seq({s, t}) /\ Len(Append(<<s>>, t)) = 2
      /\ Append(<<s>>, t)[1] = s /\ Append(<<s>>, t)[2] = t
  BY <1>1
<1>3. <<s, t>> \in Seq({s, t}) /\ Len(<<s, t>>) = 2 /\ <<s, t>>[1] = s /\ <<s, t>>[2] = t
  OBVIOUS
<1>4. \A i \in 1..2 : Append(<<s>>, t)[i] = <<s, t>>[i]
  BY <1>2, <1>3
<1>5. \A p, q \in Seq({s, t}) : Len(p) = Len(q) /\ (\A i \in 1..Len(p) : p[i] = q[i]) => p = q
  BY SeqEqual
<1>6. QED
  BY <1>2, <1>3, <1>4, <1>5

(* The trail, the decision time and the cancel key follow the status.      *)
LEMMA TrailStep ==
    ASSUME TypeOK, LifecycleAssumption, TrailMatchesStatus, RowStep
    PROVE  TrailMatchesStatus'
<1>1. CASE NoRow
  BY <1>1 DEF NoRow, rows, TrailMatchesStatus
<1>2. ASSUME NEW b \in Approvals, Created(b)
      PROVE  TrailMatchesStatus'
  BY <1>2, Append(<< >>, "PENDING") = <<"PENDING">>
     DEF Created, Enter, TrailMatchesStatus, TypeOK, TablesOK
<1>3. ASSUME NEW b \in Approvals, NEW o \in Outcomes, Resolved(b, o)
      PROVE  TrailMatchesStatus'
  <2>1. trail' = [trail EXCEPT ![b] = <<"PENDING", o>>]
    BY <1>3, AppendSecond DEF Resolved, Enter, TrailMatchesStatus
  <2>2. status' = [status EXCEPT ![b] = o]
    BY <1>3 DEF Resolved, Enter
  <2>3. /\ decidedAt' = decidedAt \/ \E t \in Nat : decidedAt' = [decidedAt EXCEPT ![b] = t]
        /\ cancelKey' = cancelKey \/ \E k \in Keys : cancelKey' = [cancelKey EXCEPT ![b] = k]
        /\ decidedAt'[b] # Undecided <=> o \in {"APPROVED", "REJECTED"}
        /\ cancelKey'[b] # NoKey <=> o = "CANCELLED"
    BY <1>3, LifecycleAssumption
       DEF Resolved, Decided, Cancelled, TrailMatchesStatus, TypeOK, TablesOK
  <2>4. QED
    BY <2>1, <2>2, <2>3 DEF TrailMatchesStatus, TypeOK, TablesOK
<1>4. ASSUME NEW w \in Webhooks, Forgotten(w)
      PROVE  TrailMatchesStatus'
  BY <1>4 DEF Forgotten, TrailMatchesStatus
<1>5. QED
  BY <1>1, <1>2, <1>3, <1>4 DEF RowStep

(* A new delivery announces the status the row has, to a live webhook.     *)
LEMMA NoticesStep ==
    ASSUME TypeOK, LifecycleAssumption, NoticesMatchStatus, RowStep
    PROVE  NoticesMatchStatus'
<1>0. \A n \in outbox : n[1] \in Webhooks /\ n[2] \in Approvals /\ n = <<n[1], n[2], n[3]>>
  BY DEF TypeOK, TablesOK
<1>1. CASE NoRow
  BY <1>0, <1>1 DEF NoRow, rows, NoticesMatchStatus
<1>2. ASSUME NEW b \in Approvals, Created(b)
      PROVE  NoticesMatchStatus'
  BY <1>0, <1>2 DEF Created, Enter, Audience, NoticesMatchStatus, TypeOK, TablesOK
<1>3. ASSUME NEW b \in Approvals, NEW o \in Outcomes, Resolved(b, o)
      PROVE  NoticesMatchStatus'
  BY <1>0, <1>3 DEF Resolved, Enter, Audience, NoticesMatchStatus, TypeOK, TablesOK
<1>4. ASSUME NEW w \in Webhooks, Forgotten(w)
      PROVE  NoticesMatchStatus'
  BY <1>0, <1>4 DEF Forgotten, NoticesMatchStatus, TypeOK, TablesOK
<1>5. QED
  BY <1>1, <1>2, <1>3, <1>4 DEF RowStep

(* A cancellation writes a key no approval has.                            *)
LEMMA CancelKeyStep ==
    ASSUME TypeOK, CancelKeyUnique, RowStep
    PROVE  CancelKeyUnique'
<1>1. CASE cancelKey' = cancelKey
  BY <1>1 DEF CancelKeyUnique
<1>2. ASSUME NEW c \in Approvals, Cancelled(c, "CANCELLED")
      PROVE  CancelKeyUnique'
  BY <1>2 DEF Cancelled, Taken, CancelKeyUnique, TypeOK, TablesOK
<1>3. QED
  BY <1>1, <1>2
     DEF RowStep, NoRow, rows, Created, Resolved, Decided, Cancelled, Forgotten

(* The compare-and-sets respect the deadline.                              *)
LEMMA DeadlineStep ==
    ASSUME TypeOK, LifecycleAssumption, TrailMatchesStatus, DeadlineRespected, RowStep, TypeOK',
           now <= now'
    PROVE  DeadlineRespected'
<1> SUFFICES ASSUME NEW a \in Approvals
             PROVE  /\ status'[a] \in {"APPROVED", "REJECTED"} => decidedAt'[a] < expiresAt'[a]
                    /\ decidedAt'[a] <= now'
                    /\ status'[a] = "EXPIRED" => expiresAt'[a] <= now'
  BY DEF DeadlineRespected, Due
<1>0. /\ now \in Int /\ now' \in Int /\ expiresAt[a] \in Int /\ expiresAt'[a] \in Int
      /\ decidedAt[a] \in Int /\ decidedAt'[a] \in Int
  BY DEF TypeOK, TablesOK
<1>1. CASE status'[a] = status[a] /\ decidedAt'[a] = decidedAt[a] /\ expiresAt'[a] = expiresAt[a]
  BY <1>0, <1>1 DEF DeadlineRespected, Due
<1>2. CASE Created(a)
  BY <1>0, <1>2 DEF Created, Enter, DeadlineRespected, TypeOK, TablesOK
<1>3. ASSUME NEW o \in Outcomes, Resolved(a, o)
      PROVE  /\ status'[a] \in {"APPROVED", "REJECTED"} => decidedAt'[a] < expiresAt'[a]
             /\ decidedAt'[a] <= now'
             /\ status'[a] = "EXPIRED" => expiresAt'[a] <= now'
  BY <1>0, <1>3 DEF Resolved, Decided, Cancelled, Enter, Due, DeadlineRespected, TypeOK, TablesOK
<1>4. ASSUME NEW b \in Approvals, b # a, Created(b) \/ \E o \in Outcomes : Resolved(b, o)
      PROVE  status'[a] = status[a] /\ decidedAt'[a] = decidedAt[a] /\ expiresAt'[a] = expiresAt[a]
  BY <1>4 DEF Created, Resolved, Decided, Cancelled, Enter, TypeOK, TablesOK
<1>5. QED
  BY <1>1, <1>2, <1>3, <1>4 DEF RowStep, NoRow, rows, Forgotten

-----------------------------------------------------------------------------
(* The invariants of the handlers.                                         *)

Kept(r) == /\ pc'[r] = pc[r] /\ seen'[r] = seen[r]
           /\ at'[r] = at[r] /\ reply'[r] = reply[r]

Answered(r, kind, body) ==
    /\ pc'[r] = "done" /\ seen'[r] = "ABSENT" /\ at'[r] = 0
    /\ reply'[r] = [kind |-> kind, body |-> body]

Moved(r, label) == pc'[r] = label /\ reply'[r] = reply[r]

(* What Answer and GoTo mean for the handler that takes the step.          *)
LEMMA AnswerMeans ==
    ASSUME TypeOK, NEW r \in Requests, NEW kind, NEW body, Answer(r, kind, body)
    PROVE  Answered(r, kind, body)
BY DEF Answer, Answered, TypeOK, HandlersOK

LEMMA GoToMeans ==
    ASSUME TypeOK, NEW r \in Requests, NEW label, GoTo(r, label)
    PROVE  Moved(r, label)
BY DEF GoTo, Moved, TypeOK, HandlersOK

(* A step leaves a handler as it is unless it is a step of that handler.   *)
LEMMA Frame ==
    ASSUME TypeOK, [Next]_vars, NEW q \in Requests
    PROVE  Kept(q) \/ Handle(q)
<1>1. CASE UNCHANGED local
  BY <1>1 DEF local, Kept
<1>2. ASSUME NEW r \in Requests, r # q, Handle(r)
      PROVE  Kept(q)
  BY <1>2 DEF Handle, ReadRow, JudgeDecision, JudgeRead, Stamp, CommitDecision, CommitExpiry,
              AnswerAfterExpiry, CommitCancel, Reread, Fail, Answer, GoTo, Kept, TypeOK, HandlersOK
<1>3. QED
  BY <1>1, <1>2
     DEF Next, Tick, Create, RegisterWebhook, DeleteWebhook, Work, SelectDue, ExpireNext,
         AbortBatch, vars

(* A handler that does not move stays sound, and its answer true, whatever *)
(* the others do: outcomes and deadlines are kept and time is monotonic.   *)
LEMMA KeptSound ==
    ASSUME TypeOK, TypeOK', RowStep, now <= now', call' = call,
           NEW q \in Requests, Kept(q), HandlerSound(q), ReplyTruthful(q)
    PROVE  HandlerSound(q)' /\ ReplyTruthful(q)'
<1>0. call[q].id \in Approvals
  BY CallType DEF TypeOK
<1>1. /\ now \in Int /\ now' \in Int /\ at[q] \in Int /\ expiresAt[call[q].id] \in Int
  BY <1>0 DEF TypeOK, TablesOK, HandlersOK
<1>2. HandlerSound(q)'
  BY <1>0, <1>1, OutcomeKept DEF Kept, HandlerSound, Due
<1>3. ReplyTruthful(q)'
  BY <1>0, OutcomeKept DEF Kept, ReplyTruthful, Verdict
<1>4. QED
  BY <1>2, <1>3

IndInv == /\ TypeOK
          /\ TrailMatchesStatus /\ NoticesMatchStatus /\ CancelKeyUnique
          /\ DeadlineRespected
          /\ HandlersSound /\ RepliesTruthful /\ SingleWinner

(* A handler that answers is sound if its answer is true of the row.       *)
LEMMA AnsweredSound ==
    ASSUME TypeOK, TypeOK', LifecycleAssumption, call' = call, NEW q \in Requests,
           NEW kind, NEW body, Answered(q, kind, body),
           LET c == call[q] IN
           /\ kind = "expired" => status'[c.id] # "ABSENT" /\ expiresAt'[c.id] <= now'
           /\ kind = "ok" /\ c.op \in Decisions => status'[c.id] = Verdict(c.op)
           /\ kind = "ok" /\ c.op = "cancel" =>
                 status'[c.id] = "CANCELLED" /\ cancelKey'[c.id] = c.key
           /\ kind # "expired" /\ body \in Outcomes => status'[c.id] = body
    PROVE  HandlerSound(q)' /\ ReplyTruthful(q)'
<1>1. HandlerSound(q)'
  BY DEF Answered, HandlerSound, Due, TypeOK
<1>2. ReplyTruthful(q)'
  BY DEF Answered, ReplyTruthful, Verdict
<1>3. QED
  BY <1>1, <1>2

(* A handler that goes on is sound if what it remembers is.                *)
LEMMA MovedSound ==
    ASSUME TypeOK, TypeOK', LifecycleAssumption, call' = call, NEW q \in Requests, NEW label,
           label # "done", Moved(q, label), pc[q] # "done", HandlerSound(q), ReplyTruthful(q),
           LET c == call[q] IN
           /\ label # "read" => status'[c.id] # "ABSENT"
           /\ seen'[q] \in Outcomes => status'[c.id] = seen'[q]
           /\ label \in {"stamp", "decide"} => c.op \in Decisions
           /\ label \in {"judge", "expire"} => c.op # "cancel"
           /\ label = "cancel" => c.op = "cancel"
           /\ label = "expire" => expiresAt'[c.id] <= now'
           /\ at'[q] <= now'
    PROVE  HandlerSound(q)' /\ ReplyTruthful(q)'
<1>1. reply'[q] = [kind |-> "none", body |-> "ABSENT"]
  BY DEF Moved, HandlerSound
<1>2. HandlerSound(q)'
  BY <1>1 DEF Moved, HandlerSound, Due
<1>3. ReplyTruthful(q)'
  BY <1>1 DEF ReplyTruthful
<1>4. QED
  BY <1>2, <1>3

(* Every step of a handler keeps it sound and answers the truth.           *)
LEMMA HandleSound ==
    ASSUME IndInv, TypeOK', RowStep, now <= now', call' = call, NEW q \in Requests, Handle(q)
    PROVE  HandlerSound(q)' /\ ReplyTruthful(q)'
<1> DEFINE c == call[q]
<1> USE LifecycleAssumption
<1>0. /\ TypeOK /\ HandlerSound(q) /\ ReplyTruthful(q)
      /\ c.id \in Approvals
      /\ c.op \in Decisions \cup Reads \cup {"cancel"}
      /\ c.op = "cancel" => c.key \in Keys
      /\ now \in Int /\ now' \in Int /\ at[q] \in Nat /\ expiresAt[c.id] \in Int
      /\ status[c.id] \in Statuses /\ seen[q] \in Statuses
  BY CallType DEF IndInv, HandlersSound, RepliesTruthful, TypeOK, TablesOK, HandlersOK
<1>1. /\ status[c.id] # "ABSENT" => status'[c.id] # "ABSENT" /\ expiresAt'[c.id] = expiresAt[c.id]
      /\ status[c.id] \in Outcomes => status'[c.id] = status[c.id] /\ cancelKey'[c.id] = cancelKey[c.id]
  BY <1>0, OutcomeKept
<1>2. c.op = "cancel" /\ cancelKey[c.id] = c.key => status[c.id] = "CANCELLED"
  BY <1>0 DEF IndInv, TrailMatchesStatus
<1>3. status[c.id] = "EXPIRED" => Due(c.id)
  BY <1>0 DEF IndInv, DeadlineRespected
<1>4. CASE ReadRow(q)
  <2>1. CASE status[c.id] = "ABSENT" /\ Answer(q, "not_found", "ABSENT")
    BY <1>0, <2>1, AnswerMeans, AnsweredSound
  <2>2. CASE c.op = "cancel" /\ cancelKey[c.id] = c.key /\ Answer(q, "ok", status[c.id])
    <3>1. Answered(q, "ok", "CANCELLED") /\ status'[c.id] = "CANCELLED" /\ cancelKey'[c.id] = c.key
      BY <1>0, <1>1, <1>2, <2>2, AnswerMeans
    <3>2. c.op \notin Decisions
      BY <2>2 DEF Decisions
    <3>3. QED
      BY <1>0, <2>2, <3>1, <3>2, AnsweredSound
  <2>3. CASE /\ status[c.id] # "ABSENT"
             /\ seen' = [seen EXCEPT ![q] = status[c.id]]
             /\ GoTo(q, IF c.op = "cancel" THEN "cancel" ELSE "judge")
             /\ UNCHANGED at
    <3>1. seen'[q] = status[c.id] /\ at'[q] = at[q]
      BY <1>0, <2>3 DEF TypeOK, HandlersOK
    <3>2. Moved(q, IF c.op = "cancel" THEN "cancel" ELSE "judge")
      BY <1>0, <2>3, GoToMeans
    <3>3. pc[q] # "done" /\ at[q] <= now
      BY <1>0, <1>4 DEF ReadRow, HandlerSound
    <3>4. QED
      BY <1>0, <1>1, <2>3, <3>1, <3>2, <3>3, MovedSound
  <2>4. QED
    BY <1>4, <2>1, <2>2, <2>3 DEF ReadRow
<1>5. CASE JudgeDecision(q)
  <2>0. pc[q] # "done" /\ status[c.id] # "ABSENT" /\ at[q] <= now
    BY <1>0, <1>5 DEF JudgeDecision, HandlerSound
  <2>1. CASE seen[q] # "PENDING" /\ Answer(q, "already_decided", seen[q])
    <3>1. seen[q] \in Outcomes => status'[c.id] = seen[q]
      BY <1>0, <1>1 DEF HandlerSound
    <3>2. QED
      BY <1>0, <2>1, <3>1, AnswerMeans, AnsweredSound
  <2>2. CASE /\ seen[q] = "PENDING"
             /\ GoTo(q, IF Due(c.id) THEN "expire" ELSE "stamp")
             /\ UNCHANGED <<seen, at>>
    <3>1. Moved(q, IF Due(c.id) THEN "expire" ELSE "stamp")
      BY <1>0, <2>2, GoToMeans
    <3>2. c.op \in Decisions /\ c.op # "cancel"
      BY <1>5 DEF JudgeDecision, Decisions
    <3>3. QED
      BY <1>0, <1>1, <2>0, <2>2, <3>1, <3>2, MovedSound DEF Due
  <2>3. QED
    BY <1>5, <2>1, <2>2 DEF JudgeDecision
<1>6. CASE JudgeRead(q)
  <2>0. /\ pc[q] # "done" /\ status[c.id] # "ABSENT" /\ at[q] <= now
        /\ c.op \notin Decisions /\ c.op # "cancel"
    BY <1>0, <1>6 DEF JudgeRead, HandlerSound, Reads, Decisions
  <2>1. CASE seen[q] = "PENDING" /\ Due(c.id) /\ GoTo(q, "expire") /\ UNCHANGED <<seen, at>>
    <3>1. Moved(q, "expire")
      BY <1>0, <2>1, GoToMeans
    <3>2. QED
      BY <1>0, <1>1, <2>0, <2>1, <3>1, MovedSound DEF Due
  <2>2. ASSUME NEW kind \in {"ok", "expired"}, Answer(q, kind, seen[q]),
               kind = "expired" => seen[q] = "EXPIRED"
        PROVE  HandlerSound(q)' /\ ReplyTruthful(q)'
    <3>1. seen[q] \in Outcomes => status[c.id] = seen[q] /\ status'[c.id] = seen[q]
      BY <1>0, <1>1 DEF HandlerSound
    <3>2. kind = "expired" => status'[c.id] # "ABSENT" /\ expiresAt'[c.id] <= now'
      BY <1>0, <1>1, <1>3, <2>0, <2>2, <3>1 DEF Due
    <3>3. QED
      BY <1>0, <2>0, <2>2, <3>1, <3>2, AnswerMeans, AnsweredSound
  <2>3. QED
    BY <1>6, <2>1, <2>2 DEF JudgeRead
<1>7. CASE Stamp(q)
  <2>1. /\ pc[q] = "stamp" /\ status[c.id] # "ABSENT" /\ c.op \in Decisions
        /\ seen'[q] = seen[q] /\ at'[q] = now
        /\ seen[q] \in Outcomes => status[c.id] = seen[q]
    BY <1>0, <1>7 DEF Stamp, HandlerSound, TypeOK, HandlersOK
  <2>2. Moved(q, "decide")
    BY <1>0, <1>7, GoToMeans DEF Stamp
  <2>3. QED
    BY <1>0, <1>1, <2>1, <2>2, MovedSound DEF Decisions
<1>8. CASE CommitDecision(q)
  <2>0. /\ pc[q] = "decide" /\ c.op \in Decisions /\ c.op # "cancel" /\ at[q] <= now
        /\ status[c.id] # "ABSENT"
        /\ seen[q] \in Outcomes => status[c.id] = seen[q]
    BY <1>0, <1>8 DEF CommitDecision, HandlerSound, Decisions
  <2>1. CASE Enter(c.id, Verdict(c.op), hookOf[c.id]) /\ Answer(q, "ok", Verdict(c.op))
    <3>1. status'[c.id] = Verdict(c.op)
      BY <1>0, <2>1 DEF Enter, TypeOK, TablesOK
    <3>2. QED
      BY <1>0, <2>0, <2>1, <3>1, AnswerMeans, AnsweredSound
  <2>2. CASE GoTo(q, "reread") /\ UNCHANGED <<rows, seen, at>>
    <3>1. Moved(q, "reread")
      BY <1>0, <2>2, GoToMeans
    <3>2. QED
      BY <1>0, <1>1, <2>0, <2>2, <3>1, MovedSound
  <2>3. QED
    BY <1>8, <2>1, <2>2 DEF CommitDecision
<1>9. CASE CommitExpiry(q)
  <2>0. /\ Due(c.id) /\ status[c.id] # "ABSENT" /\ c.op # "cancel"
    BY <1>0, <1>9 DEF CommitExpiry, HandlerSound
  <2>1. ASSUME NEW s, s \in Outcomes => status'[c.id] = s, AnswerAfterExpiry(q, s)
        PROVE  HandlerSound(q)' /\ ReplyTruthful(q)'
    <3>1. CASE Answer(q, "expired", "EXPIRED")
      BY <1>0, <1>1, <2>0, <3>1, AnswerMeans, AnsweredSound DEF Due
    <3>2. CASE c.op \notin Decisions /\ Answer(q, "ok", s)
      BY <1>0, <2>0, <2>1, <3>2, AnswerMeans, AnsweredSound
    <3>3. QED
      BY <2>1, <3>1, <3>2 DEF AnswerAfterExpiry
  <2>2. CASE Expire(c.id) /\ AnswerAfterExpiry(q, "EXPIRED")
    <3>1. status'[c.id] = "EXPIRED"
      BY <1>0, <2>2 DEF Expire, Enter, TypeOK, TablesOK
    <3>2. QED
      BY <2>1, <2>2, <3>1
  <2>3. CASE AnswerAfterExpiry(q, status[c.id]) /\ UNCHANGED rows
    BY <1>1, <2>1, <2>3
  <2>4. QED
    BY <1>9, <2>2, <2>3 DEF CommitExpiry
<1>10. CASE CommitCancel(q)
  <2>0. /\ pc[q] = "cancel" /\ c.op = "cancel" /\ c.op \notin Decisions /\ at[q] <= now
        /\ status[c.id] # "ABSENT"
        /\ seen[q] \in Outcomes => status[c.id] = seen[q]
    BY <1>0, <1>10 DEF CommitCancel, HandlerSound, Decisions
  <2>1. CASE /\ cancelKey' = [cancelKey EXCEPT ![c.id] = c.key]
             /\ Enter(c.id, "CANCELLED", hookOf[c.id])
             /\ Answer(q, "ok", "CANCELLED")
    <3>1. status'[c.id] = "CANCELLED" /\ cancelKey'[c.id] = c.key
      BY <1>0, <2>1 DEF Enter, TypeOK, TablesOK
    <3>2. QED
      BY <1>0, <2>0, <2>1, <3>1, AnswerMeans, AnsweredSound
  <2>2. CASE Answer(q, "idempotency_conflict", "ABSENT")
    BY <1>0, <2>2, AnswerMeans, AnsweredSound
  <2>3. CASE GoTo(q, "reread") /\ UNCHANGED <<rows, seen, at>>
    <3>1. Moved(q, "reread")
      BY <1>0, <2>3, GoToMeans
    <3>2. QED
      BY <1>0, <1>1, <2>0, <2>3, <3>1, MovedSound
  <2>4. QED
    BY <1>10, <2>1, <2>2, <2>3 DEF CommitCancel
<1>11. CASE Reread(q)
  <2>1. seen[q] \in Outcomes => status'[c.id] = seen[q]
    BY <1>0, <1>1 DEF HandlerSound
  <2>2. CASE c.op = "cancel" /\ cancelKey[c.id] = c.key /\ Answer(q, "ok", status[c.id])
    <3>1. Answered(q, "ok", "CANCELLED") /\ status'[c.id] = "CANCELLED" /\ cancelKey'[c.id] = c.key
      BY <1>0, <1>1, <1>2, <2>2, AnswerMeans
    <3>2. c.op \notin Decisions
      BY <2>2 DEF Decisions
    <3>3. QED
      BY <1>0, <2>2, <3>1, <3>2, AnsweredSound
  <2>3. ASSUME NEW s, s \in Outcomes => status'[c.id] = s, Answer(q, "already_decided", s)
        PROVE  HandlerSound(q)' /\ ReplyTruthful(q)'
    BY <1>0, <2>3, AnswerMeans, AnsweredSound
  <2>4. QED
    BY <1>1, <1>11, <2>1, <2>2, <2>3 DEF Reread
<1>12. CASE Fail(q)
  BY <1>0, <1>12, AnswerMeans, AnsweredSound DEF Fail
<1>13. QED
  BY <1>4, <1>5, <1>6, <1>7, <1>8, <1>9, <1>10, <1>11, <1>12 DEF Handle

(* A decision succeeds only on a pending approval, and nobody who was told *)
(* of a success before can have been told of it for a pending one.         *)
LEMMA WinnerStep ==
    ASSUME IndInv, TypeOK', RepliesTruthful', call' = call, [Next]_vars
    PROVE  SingleWinner'
<1> SUFFICES ASSUME NEW r \in Requests, NEW q \in Requests, r # q,
                    call[r].id = call[q].id,
                    call[r].op \in Decisions, call[q].op \in Decisions,
                    reply'[r].kind = "ok", reply'[q].kind = "ok"
             PROVE  FALSE
  BY DEF SingleWinner
<1>0. TypeOK /\ HandlersSound /\ RepliesTruthful /\ SingleWinner
  BY DEF IndInv
<1>1. ASSUME NEW p \in Requests, call[p].op \in Decisions, reply'[p].kind = "ok",
             reply[p].kind # "ok"
      PROVE  CommitDecision(p) /\ status[call[p].id] = "PENDING"
  <2>1. Handle(p)
    BY <1>0, <1>1, Frame DEF Kept
  <2>2. ASSUME NEW kind, NEW body, kind # "ok", Answer(p, kind, body)
        PROVE  FALSE
    <3>1. Answered(p, kind, body)
      BY <1>0, <2>2, AnswerMeans
    <3>2. reply'[p].kind = kind
      BY <3>1 DEF Answered
    <3>3. QED
      BY <1>1, <2>2, <3>2
  <2>3. ASSUME UNCHANGED reply PROVE FALSE
    BY <1>1, <2>3
  <2>4. call[p].op # "cancel" /\ call[p].op \notin Reads /\ pc[p] # "cancel"
    BY <1>0, <1>1 DEF Decisions, Reads, HandlersSound, HandlerSound
  <2>5. CASE CommitDecision(p)
    BY <2>3, <2>5 DEF CommitDecision, Decidable, Pending, GoTo
  <2>6. CASE CommitExpiry(p)
    BY <1>1, <2>2, <2>6 DEF CommitExpiry, AnswerAfterExpiry
  <2>7. ~ReadRow(p)
    BY <2>2, <2>3, <2>4 DEF ReadRow, GoTo
  <2>8. ~JudgeDecision(p)
    BY <2>2, <2>3 DEF JudgeDecision, GoTo
  <2>9. ~JudgeRead(p)
    BY <2>4 DEF JudgeRead
  <2>10. ~Stamp(p)
    BY <2>3 DEF Stamp, GoTo
  <2>11. ~CommitCancel(p)
    BY <2>4 DEF CommitCancel
  <2>12. ~Reread(p)
    BY <2>2, <2>4 DEF Reread
  <2>13. ~Fail(p)
    BY <2>2 DEF Fail
  <2>14. QED
    BY <2>1, <2>5, <2>6, <2>7, <2>8, <2>9, <2>10, <2>11, <2>12, <2>13 DEF Handle
<1>2. ASSUME NEW p \in Requests, call[p].op \in Decisions, reply[p].kind = "ok"
      PROVE  status[call[p].id] # "PENDING"
  BY <1>0, <1>2 DEF RepliesTruthful, ReplyTruthful, Verdict
<1>3. CASE reply[r].kind = "ok" /\ reply[q].kind = "ok"
  BY <1>0, <1>3 DEF SingleWinner
<1>4. CASE reply[r].kind # "ok" /\ reply[q].kind = "ok"
  BY <1>1, <1>2, <1>4
<1>5. CASE reply[r].kind = "ok" /\ reply[q].kind # "ok"
  BY <1>1, <1>2, <1>5
<1>6. CASE reply[r].kind # "ok" /\ reply[q].kind # "ok"
  <2>1. CommitDecision(r) /\ CommitDecision(q)
    BY <1>1, <1>6
  <2>2. pc'[q] = pc[q]
    BY <1>0, <2>1 DEF CommitDecision, Answer, GoTo, TypeOK, HandlersOK
  <2>3. pc[q] = "decide" /\ pc'[q] # "decide"
    BY <1>0, <2>1 DEF CommitDecision, Answer, GoTo, TypeOK, HandlersOK
  <2>4. QED
    BY <2>2, <2>3
<1>7. QED
  BY <1>3, <1>4, <1>5, <1>6

-----------------------------------------------------------------------------
(* The theorems.                                                           *)

(* The inductive invariant: none of its parts is inductive alone, because  *)
(* the handlers act on copies whose soundness rests on the tables, and     *)
(* the tables change through what the handlers remember.                   *)
THEOREM Invariance == Spec => []IndInv
<1>1. Init => IndInv
  <2> SUFFICES ASSUME Init PROVE IndInv
    OBVIOUS
  <2>1. TypeOK
    BY LifecycleAssumption DEF Init, TypeOK, TablesOK, HandlersOK, Labels, Kinds
  <2>2. TrailMatchesStatus /\ NoticesMatchStatus /\ CancelKeyUnique
    BY DEF Init, TrailMatchesStatus, NoticesMatchStatus, CancelKeyUnique
  <2>3. DeadlineRespected
    BY DEF Init, DeadlineRespected
  <2>4. HandlersSound /\ RepliesTruthful /\ SingleWinner
    BY DEF Init, HandlersSound, HandlerSound, RepliesTruthful, ReplyTruthful, SingleWinner
  <2>5. QED
    BY <2>1, <2>2, <2>3, <2>4 DEF IndInv
<1>2. IndInv /\ [Next]_vars /\ TypeOK' => IndInv'
  <2> SUFFICES ASSUME IndInv, [Next]_vars, TypeOK' PROVE IndInv'
    OBVIOUS
  <2>1. RowStep /\ now <= now' /\ call' = call
    BY EveryRowStep DEF IndInv
  <2>2. TrailMatchesStatus' /\ NoticesMatchStatus' /\ CancelKeyUnique' /\ DeadlineRespected'
    BY <2>1, LifecycleAssumption, TrailStep, NoticesStep, CancelKeyStep, DeadlineStep DEF IndInv
  <2>3. ASSUME NEW q \in Requests
        PROVE  HandlerSound(q)' /\ ReplyTruthful(q)'
    <3>1. CASE Handle(q)
      BY <2>1, <3>1, HandleSound
    <3>2. CASE Kept(q)
      BY <2>1, <3>2, KeptSound DEF IndInv, HandlersSound, RepliesTruthful
    <3>3. QED
      BY <3>1, <3>2, Frame DEF IndInv
  <2>4. HandlersSound' /\ RepliesTruthful'
    BY <2>3 DEF HandlersSound, RepliesTruthful
  <2>5. SingleWinner'
    BY <2>1, <2>4, WinnerStep
  <2>6. QED
    BY <2>2, <2>4, <2>5 DEF IndInv
<1>3. QED
  BY <1>1, <1>2, TypeCorrect, PTL DEF Spec

(* Status, audit trail, decision time and cancel key always agree.         *)
THEOREM TrailCorrect == Spec => []TrailMatchesStatus
<1>1. IndInv => TrailMatchesStatus
  BY DEF IndInv
<1>2. QED
  BY <1>1, Invariance, PTL

(* What a handler holds between two awaits is right about the row: an      *)
(* outcome it has read is the one the row has and keeps, and where it goes *)
(* to expire the approval, or has called it expired, the deadline is over. *)
THEOREM HandlersCorrect == Spec => []HandlersSound
<1>1. IndInv => HandlersSound
  BY DEF IndInv
<1>2. QED
  BY <1>1, Invariance, PTL

(* No webhook is ever told of an outcome the approval does not have.       *)
THEOREM NoticesCorrect == Spec => []NoticesMatchStatus
<1>1. IndInv => NoticesMatchStatus
  BY DEF IndInv
<1>2. QED
  BY <1>1, Invariance, PTL

(* Decisions are stamped before the deadline, expiry happens after it.     *)
THEOREM DeadlineCorrect == Spec => []DeadlineRespected
<1>1. IndInv => DeadlineRespected
  BY DEF IndInv
<1>2. QED
  BY <1>1, Invariance, PTL

(* What a client was told of an outcome is true for ever.                  *)
THEOREM RepliesCorrect == Spec => []RepliesTruthful
<1>1. IndInv => RepliesTruthful
  BY DEF IndInv
<1>2. QED
  BY <1>1, Invariance, PTL

(* However many decisions race, at most one is told that it won.           *)
THEOREM WinnerUnique == Spec => []SingleWinner
<1>1. IndInv => SingleWinner
  BY DEF IndInv
<1>2. QED
  BY <1>1, Invariance, PTL

(* No Idempotency-Key cancels two approvals.                               *)
THEOREM CancelKeyCorrect == Spec => []CancelKeyUnique
<1>1. IndInv => CancelKeyUnique
  BY DEF IndInv
<1>2. QED
  BY <1>1, Invariance, PTL

(* An outcome, once reached, is final.                                     *)
THEOREM OutcomeNeverChanges == Spec => OutcomeIsFinal
<1> DEFINE Final == \A a \in Approvals : status[a] \in Outcomes =>
             UNCHANGED <<status[a], expiresAt[a], decidedAt[a], cancelKey[a], trail[a]>>
<1>1. IndInv /\ [Next]_vars => [Final]_vars
  <2> SUFFICES ASSUME IndInv, [Next]_vars PROVE Final
    OBVIOUS
  <2>1. TypeOK /\ RowStep
    BY EveryRowStep DEF IndInv
  <2>2. QED
    BY <2>1, OutcomeKept
<1>2. QED
  BY <1>1, Invariance, PTL DEF Spec, OutcomeIsFinal

(* A status never changes without its log row and all of its deliveries.   *)
LEMMA AnnouncedStep ==
    ASSUME TypeOK, RowStep, NEW a \in Approvals, status'[a] # status[a]
    PROVE  /\ trail'[a] = Append(trail[a], status'[a])
           /\ \A w \in Webhooks :
                (/\ hooks[w] = "active" /\ status'[a] \in Subscribed[w]
                 /\ hookOf'[a] \in {NoHook, w}) => <<w, a, status'[a]>> \in outbox'
<1>1. ASSUME NEW b \in Approvals, NEW s, Enter(b, s, hookOf'[b])
      PROVE  /\ trail'[a] = Append(trail[a], status'[a])
             /\ \A w \in Webhooks :
                  (/\ hooks[w] = "active" /\ status'[a] \in Subscribed[w]
                   /\ hookOf'[a] \in {NoHook, w}) => <<w, a, status'[a]>> \in outbox'
  <2>1. a = b /\ status'[a] = s /\ trail'[a] = Append(trail[a], s)
    BY <1>1 DEF Enter, TypeOK, TablesOK
  <2>2. outbox' = outbox \cup {<<w, a, s>> : w \in Audience(hookOf'[a], s)}
    BY <1>1, <2>1 DEF Enter
  <2>3. ASSUME NEW w \in Webhooks, hooks[w] = "active", s \in Subscribed[w],
               hookOf'[a] \in {NoHook, w}
        PROVE  w \in Audience(hookOf'[a], s)
    BY <2>3 DEF Audience
  <2>4. QED
    BY <2>1, <2>2, <2>3
<1>2. ASSUME NEW b \in Approvals, Created(b)
      PROVE  Enter(b, "PENDING", hookOf'[b])
  BY <1>2 DEF Created
<1>3. ASSUME NEW b \in Approvals, NEW o \in Outcomes, Resolved(b, o)
      PROVE  Enter(b, o, hookOf'[b])
  BY <1>3 DEF Resolved
<1>4. ~NoRow /\ ~\E w \in Webhooks : Forgotten(w)
  BY DEF NoRow, Forgotten, rows
<1>5. QED
  BY <1>1, <1>2, <1>3, <1>4 DEF RowStep

(* The outcome and its announcement are one step, whoever takes it.        *)
THEOREM OutcomesAnnounced == Spec => OutcomeIsAnnounced
<1> DEFINE Announced == \A a \in Approvals : status'[a] # status[a] =>
          /\ trail'[a] = Append(trail[a], status'[a])
          /\ \A w \in Webhooks :
                (/\ hooks[w] = "active" /\ status'[a] \in Subscribed[w]
                 /\ hookOf'[a] \in {NoHook, w}) => <<w, a, status'[a]>> \in outbox'
<1>1. IndInv /\ [Next]_vars => [Announced]_vars
  <2> SUFFICES ASSUME IndInv, [Next]_vars PROVE Announced
    OBVIOUS
  <2>1. TypeOK /\ RowStep
    BY EveryRowStep DEF IndInv
  <2>2. QED
    BY <2>1, AnnouncedStep
<1>2. QED
  BY <1>1, Invariance, PTL DEF Spec, OutcomeIsAnnounced

-----------------------------------------------------------------------------
(* The contract.                                                           *)

(* Entering a status is an entry of the contract, to the webhooks that     *)
(* have to hear of it.                                                     *)
LEMMA EnterRefines ==
    ASSUME NEW a \in Approvals, NEW s, NEW hook, Enter(a, s, hook)
    PROVE  Contract!Enter(a, s)
<1>1. Audience(hook, s) \in SUBSET Webhooks
  BY DEF Audience
<1>2. outbox' = outbox \cup {<<w, a, s>> : w \in Audience(hook, s)}
  BY DEF Enter
<1>3. QED
  BY <1>1, <1>2 DEF Enter, Contract!Enter

(* Whatever a handler, a worker or an account does to the tables is a step *)
(* the contract allows.                                                    *)
LEMMA RowStepRefines ==
    ASSUME RowStep
    PROVE  [Contract!Next]_Contract!vars
<1>1. CASE NoRow
  BY <1>1 DEF NoRow, rows, Contract!vars
<1>2. ASSUME NEW a \in Approvals, Created(a)
      PROVE  Contract!Next
  <2>1. Contract!Enter(a, "PENDING")
    BY <1>2, EnterRefines DEF Created
  <2>2. QED
    BY <1>2, <2>1 DEF Created, Contract!Create, Contract!Next
<1>3. ASSUME NEW a \in Approvals, NEW o \in Outcomes, Resolved(a, o)
      PROVE  Contract!Next
  <2>1. Contract!Enter(a, o)
    BY <1>3, EnterRefines DEF Resolved
  <2>2. Contract!Resolve(a)
    BY <1>3, <2>1 DEF Resolved, Contract!Resolve, Contract!Outcomes
  <2>3. QED
    BY <2>2 DEF Contract!Next
<1>4. ASSUME NEW w \in Webhooks, Forgotten(w)
      PROVE  Contract!Next
  BY <1>4 DEF Forgotten, Contract!Forget, Contract!Next
<1>5. QED
  BY <1>1, <1>2, <1>3, <1>4 DEF RowStep

(* The handlers, the workers and the clock implement the contract's safety *)
(* part for every number of them.                                          *)
THEOREM ImplementsSafety == Spec => ContractSafety
<1>1. Init => Contract!Init
  BY DEF Init, Contract!Init
<1>2. IndInv /\ [Next]_vars => [Contract!Next]_Contract!vars
  BY EveryRowStep, RowStepRefines DEF IndInv
<1>3. QED
  BY <1>1, <1>2, Invariance, PTL DEF Spec, ContractSafety, Contract!Safety
=============================================================================
