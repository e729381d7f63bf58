----------------------- MODULE ApprovalCreationProofs -----------------------
(***************************************************************************)
(* Proofs about ApprovalCreation, for every number of requests, keys and   *)
(* bodies, every quota, every number of attempts and any number of months. *)
(***************************************************************************)
EXTENDS ApprovalCreation, FiniteSetTheorems, TLAPS

USE DEF NotRead, Unanswered, Accepted, Refused

-----------------------------------------------------------------------------
(* Types.                                                                  *)

(* An answer, or a jump to another label, keeps the handlers well typed.   *)
LEMMA AnswerType ==
    ASSUME TypeOK, NEW r \in Requests, NEW answer \in Replies, Answer(r, answer)
    PROVE  /\ pc' \in [Requests -> {"find", "open", "clock", "count", "insert", "recover", "done"}]
           /\ view' \in [Requests -> SUBSET Approval]
           /\ since' \in [Requests -> {NotRead} \cup 0..MaxMonth]
           /\ attempt' \in [Requests -> 0..(MaxAttempts - 1)]
           /\ reply' \in [Requests -> Replies]
BY DEF Answer, TypeOK

LEMMA RepliesType ==
    /\ \A r \in Requests : Accepted(r) \in Replies
    /\ Refused("idempotency_conflict") \in Replies
    /\ Refused("quota_exceeded") \in Replies
    /\ Refused("failed") \in Replies
    /\ Refused("internal_error") \in Replies
BY DEF Replies

(* Every variable, the snapshots included, holds a value of its type.      *)
THEOREM TypeCorrect == Spec => []TypeOK
<1>1. Init => TypeOK
  BY CreationAssumption DEF Init, TypeOK, Replies
<1>2. TypeOK /\ [Next]_vars => TypeOK'
  <2> SUFFICES ASSUME TypeOK, [Next]_vars PROVE TypeOK'
    OBVIOUS
  <2>1. CASE NextMonth
    BY <2>1, CreationAssumption DEF NextMonth, TypeOK, locals
  <2>2. ASSUME NEW r \in Requests, Handle(r) \/ Fail(r)
        PROVE  TypeOK'
    <3>1. CASE Find(r)
      BY <3>1, AnswerType, RepliesType DEF Find, GoTo, Stored, Approval, TypeOK, locals
    <3>2. CASE Open(r) \/ ReadClock(r)
      BY <3>2 DEF Open, ReadClock, GoTo, TypeOK
    <3>3. CASE Count(r)
      <4>1. Snapshot(r) \in SUBSET Approval
        BY DEF Snapshot, TypeOK
      <4>2. QED
        BY <3>3, <4>1, AnswerType, RepliesType DEF Count, GoTo, TypeOK
    <3>4. CASE Insert(r)
      <4>1. approvals' \subseteq Approval
        BY <3>4 DEF Insert, TypeOK, Approval
      <4>2. QED
        BY <3>4, <4>1, AnswerType, RepliesType DEF Insert, TypeOK
    <3>5. CASE KeyViolation(r)
      BY <3>5 DEF KeyViolation, GoTo, TypeOK, locals
    <3>6. CASE SerializationFailure(r)
      <4>1. CASE MayRetry(r)
        <5>1. attempt[r] + 1 \in 0..(MaxAttempts - 1)
          BY <4>1, CreationAssumption DEF MayRetry, AttemptAfter, TypeOK
        <5>2. /\ attempt' = [attempt EXCEPT ![r] = attempt[r] + 1]
              /\ view' = [view EXCEPT ![r] = {}]
              /\ pc' = [pc EXCEPT ![r] = "open"]
              /\ UNCHANGED <<month, approvals, call, since, reply>>
          BY <3>6, <4>1, CreationAssumption DEF SerializationFailure, AttemptAfter, GoTo, TypeOK
        <5>3. QED
          BY <5>1, <5>2 DEF TypeOK
      <4>2. CASE ~MayRetry(r)
        BY <3>6, <4>2, AnswerType, RepliesType, CreationAssumption
           DEF SerializationFailure, AttemptAfter, TypeOK
      <4>3. QED
        BY <4>1, <4>2
    <3>7. CASE Recover(r)
      BY <3>7, AnswerType, RepliesType DEF Recover, Stored, Approval, TypeOK
    <3>8. CASE Fail(r)
      BY <3>8, AnswerType, RepliesType DEF Fail, TypeOK
    <3>9. QED
      BY <2>2, <3>1, <3>2, <3>3, <3>4, <3>5, <3>6, <3>7, <3>8 DEF Handle
  <2>3. CASE UNCHANGED vars
    BY <2>3 DEF vars, locals, TypeOK
  <2>4. QED
    BY <2>1, <2>2, <2>3 DEF Next
<1>3. QED
  BY <1>1, <1>2, PTL DEF Spec

-----------------------------------------------------------------------------
(* The quota.                                                              *)

(* The table is finite and no row comes from the future; a snapshot holds  *)
(* rows of the table; a request counts after it has read the clock, and is *)
(* about to insert only if it has counted too few.                         *)
CountSound(r) ==
    /\ view[r] \subseteq approvals
    /\ since[r] <= month
    /\ pc[r] = "count" => since[r] # NotRead
    /\ pc[r] = "insert" => Cardinality({a \in view[r] : a.month >= since[r]}) < Limit

IndInv ==
    /\ TypeOK
    /\ IsFiniteSet(approvals)
    /\ \A a \in approvals : a.month <= month
    /\ \A r \in Requests : CountSound(r)
    /\ QuotaRespected
    /\ OneApprovalPerKey

(* The row an insertion adds, and when.                                    *)
Inserted(r) ==
    /\ pc[r] = "insert" /\ ~Taken(call[r].key) /\ Fresh(r)
    /\ approvals' = approvals \cup
          {[id |-> r, key |-> call[r].key, body |-> call[r].body, month |-> month]}
    /\ UNCHANGED <<month, call>>

(* Every step but an insertion leaves the table alone, and a handler's     *)
(* snapshot is taken from it.                                              *)
LEMMA TableStep ==
    ASSUME TypeOK, [Next]_vars
    PROVE  /\ call' = call /\ month <= month'
           /\ approvals' = approvals \/ \E r \in Requests : Inserted(r)
<1>1. ASSUME NEW r \in Requests, Handle(r) \/ Fail(r)
      PROVE  /\ call' = call /\ month' = month
             /\ approvals' = approvals \/ Inserted(r)
  BY <1>1 DEF Handle, Find, Open, ReadClock, Count, Insert, KeyViolation, SerializationFailure, Recover,
              Fail, Inserted
<1>2. QED
  BY <1>1 DEF Next, NextMonth, vars, TypeOK

(* What a handler remembers of its count, step by step.                    *)
LEMMA CountStep ==
    ASSUME IndInv, [Next]_vars, TypeOK', NEW r \in Requests
    PROVE  CountSound(r)'
<1>0. CountSound(r) /\ TypeOK /\ month \in Int /\ month <= month' /\ approvals \subseteq approvals'
  BY TableStep DEF IndInv, Inserted, TypeOK
<1>1. CASE /\ view'[r] = view[r] /\ since'[r] = since[r]
           /\ \A label \in {"count", "insert"} : pc'[r] = label => pc[r] = label
  BY <1>0, <1>1, CreationAssumption DEF CountSound, TypeOK
<1>2. CASE Open(r) \/ ReadClock(r)
  BY <1>0, <1>2, CreationAssumption DEF Open, ReadClock, GoTo, CountSound, TypeOK
<1>3. CASE Count(r) /\ pc'[r] = "insert"
  <2>1. /\ view'[r] = Snapshot(r) /\ UNCHANGED <<since, month, approvals>>
        /\ Used(r) < Limit
    BY <1>0, <1>3 DEF Count, GoTo, Answer, TypeOK
  <2>2. Snapshot(r) \subseteq approvals
    BY <1>0 DEF CountSound, Snapshot
  <2>3. QED
    BY <1>0, <1>3, <2>1, <2>2 DEF CountSound, Used
<1>4. CASE view'[r] = {} /\ since'[r] = since[r] /\ pc'[r] \notin {"count", "insert"}
  BY <1>0, <1>4, CreationAssumption DEF CountSound, TypeOK
<1>5. ASSUME NEW answer, Answer(r, answer)
      PROVE  CountSound(r)'
  BY <1>0, <1>4, <1>5 DEF Answer, TypeOK
<1>6. CASE Handle(r) \/ Fail(r)
  <2>1. CASE Find(r)
    BY <1>0, <1>1, <1>5, <2>1 DEF Find, GoTo, TypeOK, locals
  <2>2. CASE Count(r)
    BY <1>3, <1>5, <2>2, <1>0 DEF Count, GoTo, TypeOK
  <2>3. CASE Insert(r)
    BY <1>5, <2>3 DEF Insert
  <2>4. CASE KeyViolation(r)
    BY <1>0, <1>1, <2>4 DEF KeyViolation, GoTo, TypeOK, locals
  <2>5. CASE SerializationFailure(r)
    BY <1>0, <1>4, <1>5, <2>5 DEF SerializationFailure, GoTo, TypeOK
  <2>6. CASE Recover(r)
    BY <1>5, <2>6 DEF Recover
  <2>7. CASE Fail(r)
    BY <1>5, <2>7 DEF Fail
  <2>8. QED
    BY <1>2, <1>6, <2>1, <2>2, <2>3, <2>4, <2>5, <2>6, <2>7 DEF Handle
<1>7. ASSUME NEW q \in Requests, q # r, Handle(q) \/ Fail(q)
      PROVE  CountSound(r)'
  <2>1. view'[r] = view[r] /\ since'[r] = since[r] /\ pc'[r] = pc[r]
    BY <1>0, <1>7 DEF Handle, Find, Open, ReadClock, Count, Insert, KeyViolation, SerializationFailure, Recover,
                Fail, GoTo, Answer, TypeOK, locals
  <2>2. QED
    BY <1>1, <2>1
<1>8. QED
  BY <1>1, <1>6, <1>7 DEF Next, NextMonth, vars, locals

(* A set with room for an element may take one.                            *)
LEMMA RoomForOne ==
    ASSUME NEW S, NEW x, IsFiniteSet(S), NEW n \in Nat, Cardinality(S) < n
    PROVE  Cardinality(S \cup {x}) <= n
<1>1. Cardinality(S) \in Nat
  BY FS_CardinalityType
<1>2. Cardinality(S \cup {x}) = IF x \in S THEN Cardinality(S) ELSE Cardinality(S) + 1
  BY FS_AddElement
<1>3. QED
  BY <1>1, <1>2

(* A fresh snapshot with room for one more keeps the month within the      *)
(* quota: all rows of the month of insertion were counted.                 *)
LEMMA QuotaStep ==
    ASSUME IndInv, NEW r \in Requests, Inserted(r)
    PROVE  QuotaRespected' /\ OneApprovalPerKey' /\ IsFiniteSet(approvals')
<1> DEFINE row == [id |-> r, key |-> call[r].key, body |-> call[r].body, month |-> month]
           In(S, m) == {a \in S : a.month = m}
<1>0. /\ TypeOK /\ CountSound(r) /\ IsFiniteSet(approvals) /\ view[r] = approvals
      /\ month \in Int /\ since[r] \in Int /\ Limit \in Nat /\ month' = month
      /\ approvals' = approvals \cup {row}
  BY CreationAssumption DEF IndInv, Inserted, Fresh, TypeOK
<1>1. IsFiniteSet(approvals')
  BY <1>0, FS_AddElement
<1>2. OneApprovalPerKey'
  BY <1>0 DEF IndInv, Inserted, Taken, Stored, OneApprovalPerKey
<1>3. ASSUME NEW m \in 0..MaxMonth
      PROVE  Cardinality(In(approvals', m)) <= Limit
  <2>1. IsFiniteSet(In(approvals, m)) /\ Cardinality(In(approvals, m)) \in Nat
    <3>1. In(approvals, m) \in SUBSET approvals
      OBVIOUS
    <3>2. QED
      BY <1>0, <3>1, FS_Subset, FS_CardinalityType
  <2>2. CASE m # month
    <3>1. In(approvals', m) = In(approvals, m)
      BY <1>0, <2>2
    <3>2. Cardinality(In(approvals, m)) <= Limit
      BY DEF IndInv, QuotaRespected
    <3>3. QED
      BY <3>1, <3>2
  <2>3. CASE m = month
    <3> DEFINE Counted == {a \in view[r] : a.month >= since[r]}
    <3>1. In(approvals, m) \in SUBSET Counted
      BY <1>0, <2>3 DEF CountSound
    <3>2. Counted \in SUBSET approvals
      BY <1>0
    <3>3. IsFiniteSet(Counted) /\ Cardinality(Counted) \in Nat
      BY <1>0, <3>2, FS_Subset, FS_CardinalityType
    <3>4. Cardinality(In(approvals, m)) <= Cardinality(Counted)
      BY <3>1, <3>3, FS_Subset
    <3>5. Cardinality(Counted) < Limit
      BY <1>0 DEF CountSound, Inserted
    <3>6. In(approvals', m) = In(approvals, m) \cup {row}
      BY <1>0, <2>3
    <3>7. Cardinality(In(approvals, m)) < Limit
      BY <1>0, <2>1, <3>3, <3>4, <3>5
    <3>8. QED
      BY <1>0, <2>1, <3>6, <3>7, RoomForOne
  <2>4. QED
    BY <2>2, <2>3
<1>4. QED
  BY <1>1, <1>2, <1>3 DEF QuotaRespected

(* The inductive invariant: the quota rests on what each transaction       *)
(* counted still being all there is when it inserts.                       *)
THEOREM Invariance == Spec => []IndInv
<1>1. Init => IndInv
  <2> SUFFICES ASSUME Init PROVE IndInv
    OBVIOUS
  <2>1. TypeOK
    BY CreationAssumption DEF Init, TypeOK, Replies
  <2>2. QuotaRespected
    <3>1. ASSUME NEW m \in 0..MaxMonth
          PROVE  {a \in approvals : a.month = m} = {}
      BY DEF Init
    <3>2. QED
      BY <3>1, FS_EmptySet, CreationAssumption DEF QuotaRespected
  <2>3. QED
    BY <2>1, <2>2, FS_EmptySet DEF Init, IndInv, CountSound, OneApprovalPerKey
<1>2. IndInv /\ [Next]_vars /\ TypeOK' => IndInv'
  <2> SUFFICES ASSUME IndInv, [Next]_vars, TypeOK' PROVE IndInv'
    OBVIOUS
  <2>0. TypeOK /\ month \in Int /\ month' \in Int /\ month <= month'
    BY TableStep DEF IndInv, TypeOK
  <2>1. \A r \in Requests : CountSound(r)'
    BY CountStep
  <2>2. CASE approvals' = approvals
    BY <2>0, <2>1, <2>2 DEF IndInv, QuotaRespected, OneApprovalPerKey, TypeOK, Approval
  <2>3. ASSUME NEW r \in Requests, Inserted(r)
        PROVE  IndInv'
    <3>1. \A a \in approvals' : a.month <= month'
      BY <2>0, <2>3 DEF IndInv, Inserted
    <3>2. QED
      BY <2>1, <2>3, <3>1, QuotaStep DEF IndInv
  <2>4. QED
    BY <2>0, <2>2, <2>3, TableStep
<1>3. QED
  BY <1>1, <1>2, TypeCorrect, PTL DEF Spec

(* No month ever takes more approvals than the plan allows.                *)
THEOREM QuotaCorrect == Spec => []QuotaRespected
<1>1. IndInv => QuotaRespected
  BY DEF IndInv
<1>2. QED
  BY <1>1, Invariance, PTL

(* However often a request is repeated, its key creates one approval.      *)
THEOREM KeysCorrect == Spec => []OneApprovalPerKey
<1>1. IndInv => OneApprovalPerKey
  BY DEF IndInv
<1>2. QED
  BY <1>1, Invariance, PTL

-----------------------------------------------------------------------------
(* The answers.                                                            *)

(* Nobody is answered before the end, and whoever was told of an approval  *)
(* was told of a stored one with the key and the body of the request.      *)
ReplySound(r) ==
    /\ pc[r] # "done" => reply[r] = Unanswered
    /\ reply[r].kind = "created" =>
          \E a \in approvals : a.id = reply[r].id /\ a.key = call[r].key /\ a.body = call[r].body
RepliesSound == \A r \in Requests : ReplySound(r)

LEMMA ReplyStep ==
    ASSUME TypeOK, RepliesSound, [Next]_vars, NEW r \in Requests
    PROVE  ReplySound(r)'
<1>0. /\ ReplySound(r) /\ call' = call /\ approvals \subseteq approvals'
  BY TableStep DEF RepliesSound, Inserted
<1>1. CASE reply'[r] = reply[r] /\ (pc[r] = "done" => pc'[r] = "done")
  BY <1>0, <1>1 DEF ReplySound
<1>2. ASSUME NEW answer, Answer(r, answer),
             answer.kind = "created" =>
                \E a \in approvals' : a.id = answer.id /\ a.key = call[r].key /\ a.body = call[r].body
      PROVE  ReplySound(r)'
  <2>1. pc'[r] = "done" /\ reply'[r] = answer
    BY <1>2 DEF Answer, TypeOK
  <2>2. QED
    BY <1>0, <1>2, <2>1 DEF ReplySound
<1>3. ASSUME NEW why, why # "created", Answer(r, Refused(why))
      PROVE  ReplySound(r)'
  BY <1>2, <1>3
<1>4. ASSUME NEW a \in Stored(call[r].key), SameBody(a, r), Answer(r, Accepted(a.id))
      PROVE  ReplySound(r)'
  BY <1>0, <1>2, <1>4 DEF Stored, SameBody
<1>5. CASE Find(r)
  BY <1>1, <1>3, <1>4, <1>5 DEF Find, GoTo, TypeOK
<1>6. CASE Open(r) \/ ReadClock(r)
  BY <1>1, <1>6 DEF Open, ReadClock, GoTo, TypeOK
<1>7. CASE Count(r)
  BY <1>1, <1>3, <1>7 DEF Count, GoTo, TypeOK
<1>8. CASE Insert(r)
  <2>1. [id |-> r, key |-> call[r].key, body |-> call[r].body, month |-> month] \in approvals'
    BY <1>8 DEF Insert
  <2>2. QED
    BY <1>2, <1>3, <1>8, <2>1 DEF Insert
<1>9. CASE KeyViolation(r)
  BY <1>1, <1>9 DEF KeyViolation, GoTo, TypeOK
<1>10. CASE SerializationFailure(r)
  BY <1>1, <1>3, <1>10 DEF SerializationFailure, GoTo, TypeOK
<1>11. CASE Recover(r)
  BY <1>3, <1>4, <1>11 DEF Recover
<1>12. CASE Fail(r)
  BY <1>3, <1>12 DEF Fail
<1>13. ASSUME NEW q \in Requests, q # r, Handle(q) \/ Fail(q)
       PROVE  ReplySound(r)'
  <2>1. reply'[r] = reply[r] /\ pc'[r] = pc[r]
    BY <1>13 DEF Handle, Find, Open, ReadClock, Count, Insert, KeyViolation, SerializationFailure, Recover,
                 Fail, GoTo, Answer, TypeOK
  <2>2. QED
    BY <1>1, <2>1
<1>14. CASE NextMonth \/ UNCHANGED vars
  BY <1>1, <1>14 DEF NextMonth, vars
<1>15. QED
  BY <1>5, <1>6, <1>7, <1>8, <1>9, <1>10, <1>11, <1>12, <1>13, <1>14 DEF Next, Handle

LEMMA RepliesInvariance == Spec => []RepliesSound
<1>1. Init => RepliesSound
  BY DEF Init, RepliesSound, ReplySound
<1>2. RepliesSound /\ TypeOK /\ [Next]_vars => RepliesSound'
  BY ReplyStep DEF RepliesSound
<1>3. QED
  BY <1>1, <1>2, TypeCorrect, PTL DEF Spec

(* Requests with one key that succeed are told of one approval, the one    *)
(* each of them asked for.                                                 *)
THEOREM RepliesAgree == Spec => []KeyNamesOneApproval
<1>1. IndInv /\ RepliesSound => KeyNamesOneApproval
  BY DEF IndInv, RepliesSound, ReplySound, OneApprovalPerKey, KeyNamesOneApproval
<1>2. QED
  BY <1>1, Invariance, RepliesInvariance, PTL

-----------------------------------------------------------------------------
(* The contract.                                                           *)

(* An answer of the handler is an answer of the contract.                  *)
Shown(answer) == IF answer.kind = "internal_error" THEN Refused("failed") ELSE answer

LEMMA AnswerTells ==
    ASSUME TypeOK, RepliesSound, NEW r \in Requests, NEW answer, pc[r] # "done", Answer(r, answer)
    PROVE  Contract!Tell(r, Shown(answer))
<1>1. reply[r] = Unanswered /\ reply' = [reply EXCEPT ![r] = answer]
  BY DEF RepliesSound, ReplySound, Answer
<1>2. reply[r].kind # "internal_error" /\ reply \in [Requests -> Replies]
  BY <1>1 DEF TypeOK
<1>3. reply'[r] = answer /\ \A q \in Requests : q # r => reply'[q] = reply[q]
  BY <1>1, <1>2
<1>4. [q \in Requests |-> Shown(reply'[q])]
         = [[q \in Requests |-> Shown(reply[q])] EXCEPT ![r] = Shown(answer)]
  BY <1>3
<1>5. QED
  BY <1>1, <1>4 DEF Contract!Tell, Contract!Unanswered, Shown

LEMMA SameCardinality == \A S : Contract!Cardinality(S) = Cardinality(S)
BY DEF Contract!Cardinality, Cardinality

(* Rows that were counted in an older snapshot are still there, so that    *)
(* the quota is full by the clock of the request; and a fresh snapshot     *)
(* that had room leaves room now.                                          *)
LEMMA CountRefines ==
    ASSUME IndInv, NEW r \in Requests
    PROVE  /\ Used(r) >= Limit => Contract!Full(since[r])
           /\ pc[r] = "insert" /\ Fresh(r) => ~Contract!Full(month)
<1> DEFINE From(S, m) == {a \in S : a.month >= m}
<1>0. /\ CountSound(r) /\ IsFiniteSet(approvals) /\ month \in Int /\ since[r] \in Int
      /\ Limit \in Nat /\ \A a \in approvals : a.month \in Int
  BY CreationAssumption DEF IndInv, TypeOK, Approval
<1>1. ASSUME NEW S \in SUBSET approvals
      PROVE  IsFiniteSet(S) /\ Cardinality(S) \in Nat
  BY <1>0, <1>1, FS_Subset, FS_CardinalityType
<1>2. Used(r) >= Limit => Contract!Full(since[r])
  <2>1. From(Snapshot(r), since[r]) \in SUBSET From(approvals, since[r])
    BY <1>0 DEF CountSound, Snapshot
  <2>2. From(approvals, since[r]) \in SUBSET approvals
    OBVIOUS
  <2>3. /\ Cardinality(From(Snapshot(r), since[r])) \in Nat
        /\ Cardinality(From(approvals, since[r])) \in Nat
    BY <1>1, <2>1, <2>2
  <2>4. Cardinality(From(Snapshot(r), since[r])) <= Cardinality(From(approvals, since[r]))
    BY <1>1, <2>1, <2>2, FS_Subset
  <2>5. QED
    BY <1>0, <2>3, <2>4, SameCardinality DEF Used, Contract!Full
<1>3. ASSUME pc[r] = "insert", Fresh(r)
      PROVE  Cardinality(From(approvals, month)) < Limit
  <2>1. From(approvals, month) \in SUBSET From(view[r], since[r])
    BY <1>0, <1>3 DEF CountSound, Fresh
  <2>2. From(view[r], since[r]) \in SUBSET approvals
    BY <1>0 DEF CountSound
  <2>3. /\ Cardinality(From(approvals, month)) \in Nat
        /\ Cardinality(From(view[r], since[r])) \in Nat
    BY <1>1, <2>1, <2>2
  <2>4. Cardinality(From(approvals, month)) <= Cardinality(From(view[r], since[r]))
    BY <1>1, <2>1, <2>2, FS_Subset
  <2>5. Cardinality(From(view[r], since[r])) < Limit
    BY <1>0, <1>3 DEF CountSound
  <2>6. QED
    BY <1>0, <2>3, <2>4, <2>5
<1>4. Cardinality(From(approvals, month)) \in Nat
  <2>1. From(approvals, month) \in SUBSET approvals
    OBVIOUS
  <2>2. QED
    BY <1>1, <2>1
<1>5. QED
  BY <1>0, <1>2, <1>3, <1>4, SameCardinality DEF Contract!Full

LEMMA StepRefines ==
    ASSUME IndInv, RepliesSound, [Next]_vars
    PROVE  [Contract!Next]_Contract!vars
<1>0. TypeOK
  BY DEF IndInv
<1>1. CASE NextMonth
  BY <1>1 DEF NextMonth, locals, Contract!NextMonth, Contract!Next
<1>2. CASE UNCHANGED <<month, approvals, call, since, reply>>
  BY <1>2 DEF Contract!vars
<1>3. ASSUME NEW r \in Requests, pc[r] # "done", Answer(r, Refused("failed")),
             UNCHANGED <<month, approvals, call, since>>
      PROVE  Contract!Next
  <2>1. Contract!Tell(r, Contract!Refused("failed"))
    BY <1>0, <1>3, AnswerTells DEF Shown, Contract!Refused
  <2>2. QED
    BY <1>3, <2>1 DEF Contract!Fail, Contract!Serve, Contract!Next
<1>4. ASSUME NEW r \in Requests, pc[r] # "done", UNCHANGED <<month, approvals, call, since>>,
             NEW a \in Stored(call[r].key), SameBody(a, r), Answer(r, Accepted(a.id))
      PROVE  Contract!Next
  <2>1. Contract!Tell(r, Contract!Accepted(a.id))
    BY <1>0, <1>4, AnswerTells DEF Shown, Contract!Accepted
  <2>2. Contract!Replay(r)
    BY <1>4, <2>1 DEF Stored, SameBody, Contract!Replay
  <2>3. QED
    BY <1>4, <2>2 DEF Contract!Serve, Contract!Next
<1>5. ASSUME NEW r \in Requests, Find(r)
      PROVE  [Contract!Next]_Contract!vars
  <2>1. ASSUME NEW a \in Stored(call[r].key), ~SameBody(a, r),
               Answer(r, Refused("idempotency_conflict"))
        PROVE  Contract!Next
    <3>1. Contract!Tell(r, Contract!Refused("idempotency_conflict"))
      BY <1>0, <1>5, <2>1, AnswerTells DEF Find, Shown, Contract!Refused
    <3>2. Contract!Refuse(r)
      BY <1>5, <2>1, <3>1 DEF Find, Stored, SameBody, Contract!Refuse
    <3>3. QED
      BY <1>5, <2>1, <3>2 DEF Find, Answer, Contract!Serve, Contract!Next
  <2>2. QED
    BY <1>2, <1>4, <1>5, <2>1 DEF Find, GoTo, Answer, locals
<1>6. ASSUME NEW r \in Requests, Count(r)
      PROVE  [Contract!Next]_Contract!vars
  <2>1. ASSUME Used(r) >= Limit, Answer(r, Refused("quota_exceeded"))
        PROVE  Contract!Next
    <3>1. Contract!Tell(r, Contract!Refused("quota_exceeded"))
      BY <1>0, <1>6, <2>1, AnswerTells DEF Count, Shown, Contract!Refused
    <3>2. since[r] # Contract!NotRead
      BY <1>6 DEF Count, IndInv, CountSound, Contract!NotRead
    <3>3. Contract!Refuse(r)
      BY <1>6, <2>1, <3>1, <3>2, CountRefines DEF Count, Contract!Refuse
    <3>4. QED
      BY <1>6, <2>1, <3>3 DEF Count, Answer, Contract!Serve, Contract!Next
  <2>2. QED
    BY <1>2, <1>6, <2>1 DEF Count, GoTo
<1>7. ASSUME NEW r \in Requests, Insert(r)
      PROVE  Contract!Next
  <2>1. Contract!Tell(r, Contract!Accepted(r)) \/ Contract!Tell(r, Contract!Refused("failed"))
    BY <1>0, <1>7, AnswerTells DEF Insert, Shown, Contract!Accepted, Contract!Refused
  <2>2. ~Contract!Full(month) /\ \A a \in approvals : a.key # call[r].key
    BY <1>7, CountRefines DEF Insert, Taken, Stored
  <2>3. Contract!Create(r)
    BY <1>7, <2>1, <2>2 DEF Insert, Contract!Create
  <2>4. QED
    BY <1>7, <2>3 DEF Insert, Answer, Contract!Serve, Contract!Next
<1>8. ASSUME NEW r \in Requests, Recover(r)
      PROVE  [Contract!Next]_Contract!vars
  <2>1. ASSUME Answer(r, Refused("internal_error"))
        PROVE  Contract!Next
    <3>1. Contract!Tell(r, Contract!Refused("failed"))
      BY <1>0, <1>8, <2>1, AnswerTells DEF Recover, Shown, Contract!Refused
    <3>2. QED
      BY <1>8, <2>1, <3>1 DEF Recover, Answer, Contract!Fail, Contract!Serve, Contract!Next
  <2>2. QED
    BY <1>4, <1>8, <2>1 DEF Recover, Answer
<1>9. ASSUME NEW r \in Requests, Open(r) \/ KeyViolation(r)
      PROVE  [Contract!Next]_Contract!vars
  BY <1>2, <1>9 DEF Open, KeyViolation, GoTo, locals
<1>10. ASSUME NEW r \in Requests, SerializationFailure(r)
       PROVE  [Contract!Next]_Contract!vars
  BY <1>2, <1>3, <1>10 DEF SerializationFailure, GoTo, Answer
<1>11. ASSUME NEW r \in Requests, Fail(r)
       PROVE  Contract!Next
  BY <1>3, <1>11 DEF Fail, Answer
<1>12. ASSUME NEW r \in Requests, ReadClock(r)
       PROVE  Contract!Next
  <2>1. reply[r] = Unanswered
    BY <1>12 DEF ReadClock, RepliesSound, ReplySound
  <2>2. Contract!ReadClock(r)
    BY <1>12, <2>1 DEF ReadClock, GoTo, Contract!ReadClock, Contract!Unanswered
  <2>3. QED
    BY <2>2 DEF Contract!Next
<1>13. QED
  BY <1>1, <1>2, <1>5, <1>6, <1>7, <1>8, <1>9, <1>10, <1>11, <1>12
  DEF Next, Handle, vars, locals

(* Each request reads its clock and is served as if at one later instant,  *)
(* for every number of requests and attempts, every quota and whichever    *)
(* bodies name a webhook: the safety part of the contract.                 *)
THEOREM ImplementsSafety == Spec => Contract!Safety
<1>1. Init => Contract!Init
  BY DEF Init, Contract!Init, Contract!NotRead, Contract!Unanswered
<1>2. IndInv /\ RepliesSound /\ [Next]_vars => [Contract!Next]_Contract!vars
  BY StepRefines
<1>3. QED
  BY <1>1, <1>2, Invariance, RepliesInvariance, PTL DEF Spec, Contract!Safety
=============================================================================
