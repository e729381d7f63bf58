---------------------------- MODULE ClientsProofs ----------------------------
(***************************************************************************)
(* Proofs about Clients, for every number of callers, operations, ids,     *)
(* endpoints, pages, retries, polls and restarts.                          *)
(***************************************************************************)
EXTENDS Clients, TLAPS

-----------------------------------------------------------------------------
(* The inductive invariant, one conjunct for each party.                   *)

(* The service: what is announced is so, a row is of the operation its key *)
(* names, and only a cancelled approval has a key it was cancelled with.   *)
Ledger ==
    /\ status \in [Approvals -> Service!Statuses] /\ row \in [Approvals -> Rows]
    /\ outbox \subseteq Webhooks \X Approvals \X Service!Statuses
    /\ \A n \in outbox : n[3] \in Outcomes => status[n[2]] = n[3]
    /\ \A a \in Approvals : /\ row[a].key = row[a].op
                            /\ row[a].cancelKey # NoKey => status[a] = "CANCELLED"
    /\ OneApprovalPerOperation

(* Requests that ask for an approval carry the key of their operation,     *)
(* those that cancel one know it, and only they have a key of their own.   *)
Genuine(m) ==
    /\ m \in Requests
    /\ m.kind = "create" => m.key = m.op
    /\ m.kind = "cancel" => m.id \in Approvals /\ m.key # NoKey
Mail == \A m \in late : Genuine(m)

CancelKey(c) == <<c, starts[c], "cancel">>
Beaten(c) == status[call[c].id] \in Outcomes /\ row[call[c].id].cancelKey # CancelKey(c)

CallSound(c) ==
    LET r == call[c] IN
    /\ r.stage \in {"poll", "judge", "run", "ran", "refused", "cancel", "cancelled", "conflict"}
          => r.id \in Approvals
    /\ r.stage = "judge" /\ r.seen \in Outcomes => status[r.id] = r.seen
    /\ r.stage \in {"run", "ran"} => status[r.id] = "APPROVED"
    /\ r.stage = "refused" =>
          status[r.id] = r.seen /\ r.seen \in Outcomes /\ r.seen # "APPROVED"
    /\ r.stage = "cancel" =>
          /\ status[r.id] # "ABSENT"
          /\ r.answer.kind = "cancelled" => status[r.id] = "CANCELLED"
          /\ r.answer.kind = "conflict" => Beaten(c)
    /\ r.stage = "cancelled" => status[r.id] = "CANCELLED"
    /\ r.stage = "conflict" => Beaten(c)

Agents ==
    /\ call \in [Callers -> Calls] /\ starts \in [Callers -> 0..MaxStarts]
    /\ \A c \in Callers : CallSound(c)

TabSound(t) ==
    LET r == tab[t] IN
    /\ r.stage # "closed" => r.id \in Approvals
    /\ r.stage \in {"loading", "unloaded", "ready"} => r.answer = Awaited
    /\ r.stage = "submitting" =>
          /\ r.shown \in Decisions
          /\ r.answer.kind = "recorded" => status[r.id] = r.shown
    /\ r.stage \in {"done", "settled"} => r.shown \in Outcomes /\ status[r.id] = r.shown

Reviewer == tab \in [Tabs -> Pages] /\ \A t \in Tabs : TabSound(t)

(* The application has heard of outcomes that are so.  A thread has been   *)
(* resumed once at most, on an event that is known and dealt with.         *)
Application ==
    /\ known \subseteq Approvals \X Service!Statuses /\ handling \subseteq known
    /\ thread \in [Approvals -> {None, "paused"} \cup Decisions]
    /\ resumes \in [Approvals -> 0..2]
    /\ \A event \in known : event[2] \in Outcomes => status[event[1]] = event[2]
    /\ \A a \in Approvals :
          /\ thread[a] \in Decisions => thread[a] = status[a]
          /\ resumes[a] <= 1
          /\ resumes[a] # 0 => \E d \in Decisions : <<a, d>> \in known \ handling

IndInv == Ledger /\ Mail /\ Agents /\ Reviewer /\ Application

-----------------------------------------------------------------------------
(* What the service does.                                                  *)

(* Outcomes are final, rows stay, and with the outcome the cancel key is.  *)
Forward ==
    \A a \in Approvals :
        /\ status[a] # "ABSENT" => status'[a] # "ABSENT"
        /\ status[a] \in Outcomes =>
              status'[a] = status[a] /\ row'[a].cancelKey = row[a].cancelKey

LEMMA OutcomeNames ==
    /\ Outcomes = {"APPROVED", "REJECTED", "EXPIRED", "CANCELLED"}
    /\ Service!Statuses = {"ABSENT", "PENDING"} \cup Outcomes
    /\ Decisions \subseteq Outcomes /\ None \notin Service!Statuses
BY DEF Outcomes, Service!Outcomes, Service!Statuses, Decisions, None

LEMMA EnterLedger ==
    ASSUME Ledger, NEW a \in Approvals, NEW s \in Service!Statuses, Service!Enter(a, s),
           \/ status[a] = "ABSENT" /\ s = "PENDING"
           \/ status[a] = "PENDING" /\ s \in Outcomes
    PROVE  /\ status' \in [Approvals -> Service!Statuses] /\ status'[a] = s
           /\ \A b \in Approvals : b # a => status'[b] = status[b]
           /\ outbox' \subseteq Webhooks \X Approvals \X Service!Statuses
           /\ \A n \in outbox' : n[3] \in Outcomes => status'[n[2]] = n[3]
           /\ [Service!Next]_service
<1>1. PICK audience \in SUBSET Webhooks : outbox' = outbox \cup {<<w, a, s>> : w \in audience}
  BY DEF Service!Enter
<1>2. status' = [status EXCEPT ![a] = s]
  BY DEF Service!Enter
<1>3. /\ status' \in [Approvals -> Service!Statuses] /\ status'[a] = s
      /\ \A b \in Approvals : b # a => status'[b] = status[b]
  BY <1>2 DEF Ledger
<1>4. outbox' \subseteq Webhooks \X Approvals \X Service!Statuses
  BY <1>1 DEF Ledger
<1>5. ASSUME NEW n \in outbox', n[3] \in Outcomes PROVE status'[n[2]] = n[3]
  <2>1. CASE n \in outbox
    <3>1. n[2] \in Approvals /\ status[n[2]] = n[3]
      BY <1>5, <2>1 DEF Ledger
    <3>2. status[a] \notin Outcomes
      BY OutcomeNames
    <3>3. n[2] # a
      BY <1>5, <3>1, <3>2
    <3>4. QED
      BY <1>3, <3>1, <3>3
  <2>2. CASE n \notin outbox
    <3>1. PICK w \in audience : n = <<w, a, s>>
      BY <1>1, <1>5, <2>2
    <3>2. QED
      BY <1>3, <3>1
  <2>3. QED
    BY <2>1, <2>2
<1>6. Service!Next
  BY DEF Service!Next, Service!Create, Service!Resolve, Outcomes
<1>7. QED
  BY <1>3, <1>4, <1>5, <1>6

LEMMA ServeCreateLedger ==
    ASSUME Ledger, NEW m, Genuine(m), NEW answer \in Answers, ServeCreate(m, answer)
    PROVE  Ledger' /\ Forward /\ [Service!Next]_service
<1>1. CASE UNCHANGED <<service, row>>
  BY <1>1 DEF service, Ledger, Forward, OneApprovalPerOperation
<1>2. CASE /\ \A a \in Approvals : row[a].key # m.key
           /\ answer.id \in Free
           /\ Service!Create(answer.id)
           /\ row' = [row EXCEPT ![answer.id].key = m.key, ![answer.id].op = m.op]
  <2> DEFINE i == answer.id
  <2>1. i \in Approvals /\ status[i] = "ABSENT" /\ Service!Enter(i, "PENDING")
    BY <1>2 DEF Free, Service!Create
  <2>2. m.key = m.op /\ m.key \in Keys /\ m.op \in Keys
    BY DEF Genuine, Requests, ServeCreate
  <2>3. row[i] \in Rows
    BY <2>1 DEF Ledger
  <2>4. /\ row' \in [Approvals -> Rows]
        /\ row'[i].key = m.key /\ row'[i].op = m.op /\ row'[i].cancelKey = row[i].cancelKey
        /\ \A b \in Approvals : b # i => row'[b] = row[b]
    <3> HIDE DEF i
    <3>1. row' = [row EXCEPT ![i] = [row[i] EXCEPT !.key = m.key, !.op = m.op]]
      BY <1>2, <2>1 DEF i, Ledger
    <3>2. [row[i] EXCEPT !.key = m.key, !.op = m.op] \in Rows
      BY <2>2, <2>3 DEF Rows
    <3>3. QED
      BY <2>1, <2>3, <3>1, <3>2 DEF Ledger, Rows
  <2>5. /\ status' \in [Approvals -> Service!Statuses] /\ status'[i] = "PENDING"
        /\ \A b \in Approvals : b # i => status'[b] = status[b]
        /\ outbox' \subseteq Webhooks \X Approvals \X Service!Statuses
        /\ \A n \in outbox' : n[3] \in Outcomes => status'[n[2]] = n[3]
        /\ [Service!Next]_service
    BY <2>1, EnterLedger, OutcomeNames
  <2> HIDE DEF i
  <2>6. OneApprovalPerOperation'
    <3> SUFFICES ASSUME NEW a \in Approvals, NEW b \in Approvals, a # b, row'[a].op # NoKey
                 PROVE  row'[a].op # row'[b].op
      BY DEF OneApprovalPerOperation
    <3>1. \A d \in Approvals : row[d].op # m.op
      BY <1>2, <2>2 DEF Ledger
    <3>2. QED
      BY <2>1, <2>4, <3>1 DEF Ledger, OneApprovalPerOperation
  <2>7. ASSUME NEW a \in Approvals
        PROVE  row'[a].key = row'[a].op /\ (row'[a].cancelKey # NoKey => status'[a] = "CANCELLED")
    <3>1. CASE a = i
      BY <2>1, <2>2, <2>4, <3>1 DEF Ledger
    <3>2. CASE a # i
      BY <2>4, <2>5, <3>2 DEF Ledger
    <3>3. QED
      BY <3>1, <3>2
  <2>8. Forward
    BY <2>1, <2>4, <2>5, OutcomeNames DEF Forward
  <2>9. QED
    BY <2>4, <2>5, <2>6, <2>7, <2>8 DEF Ledger
<1>3. QED
  BY <1>1, <1>2 DEF ServeCreate

LEMMA RowsKept ==
    ASSUME Ledger, NEW a \in Approvals, NEW s \in Outcomes, status[a] = "PENDING",
           Service!Enter(a, s),
           row' \in [Approvals -> Rows], s = "CANCELLED" \/ row' = row,
           \A b \in Approvals : /\ b # a => row'[b] = row[b]
                                /\ row'[b].key = row[b].key /\ row'[b].op = row[b].op
    PROVE  Ledger' /\ Forward /\ [Service!Next]_service /\ status'[a] = s
<1>1. /\ status' \in [Approvals -> Service!Statuses] /\ status'[a] = s
      /\ \A b \in Approvals : b # a => status'[b] = status[b]
      /\ outbox' \subseteq Webhooks \X Approvals \X Service!Statuses
      /\ \A n \in outbox' : n[3] \in Outcomes => status'[n[2]] = n[3]
      /\ [Service!Next]_service
  BY EnterLedger, OutcomeNames
<1>2. OneApprovalPerOperation'
  BY DEF Ledger, OneApprovalPerOperation
<1>3. ASSUME NEW b \in Approvals
      PROVE  row'[b].key = row'[b].op /\ (row'[b].cancelKey # NoKey => status'[b] = "CANCELLED")
  <2>1. CASE b = a
    BY <1>1, <2>1 DEF Ledger
  <2>2. CASE b # a
    BY <1>1, <2>2 DEF Ledger
  <2>3. QED
    BY <2>1, <2>2
<1>4. Forward
  BY <1>1, OutcomeNames DEF Forward
<1>5. QED
  BY <1>1, <1>2, <1>3, <1>4 DEF Ledger

LEMMA ServeCancelLedger ==
    ASSUME Ledger, NEW m, Genuine(m), NEW answer \in Answers, ServeCancel(m, answer)
    PROVE  /\ Ledger' /\ Forward /\ [Service!Next]_service
           /\ answer.kind = "cancelled" => status'[m.id] = "CANCELLED"
           /\ answer.kind = "conflict" =>
                 status'[m.id] # "PENDING" /\ status'[m.id] = status[m.id]
                 /\ row'[m.id].cancelKey # m.key
<1>1. m.kind = "cancel" /\ m.id \in Approvals /\ m.key # NoKey /\ m.key \in Keys
  BY DEF ServeCancel, Genuine, Requests
<1>2. CASE /\ status[m.id] = "PENDING" /\ answer.kind = "cancelled"
           /\ Service!Enter(m.id, "CANCELLED")
           /\ row' = [row EXCEPT ![m.id].cancelKey = m.key]
  <2>1. row[m.id] \in Rows
    BY <1>1 DEF Ledger
  <2>2. /\ row' \in [Approvals -> Rows]
        /\ \A b \in Approvals : /\ b # m.id => row'[b] = row[b]
                                /\ row'[b].key = row[b].key /\ row'[b].op = row[b].op
    <3>1. row' = [row EXCEPT ![m.id] = [row[m.id] EXCEPT !.cancelKey = m.key]]
      BY <1>1, <1>2 DEF Ledger
    <3>2. [row[m.id] EXCEPT !.cancelKey = m.key] \in Rows
      BY <1>1, <2>1 DEF Rows
    <3>3. QED
      BY <1>1, <2>1, <3>1, <3>2 DEF Ledger, Rows
  <2>3. QED
    BY <1>1, <1>2, <2>2, RowsKept, OutcomeNames
<1>3. CASE /\ status[m.id] # "PENDING"
           /\ answer.kind = IF row[m.id].cancelKey = m.key THEN "cancelled" ELSE "conflict"
           /\ UNCHANGED <<service, row>>
  <2>1. UNCHANGED <<status, outbox, row>>
    BY <1>3 DEF service
  <2>2. Ledger' /\ Forward /\ [Service!Next]_service
    BY <1>3, <2>1 DEF Ledger, Forward, OneApprovalPerOperation
  <2>3. QED
    BY <1>1, <1>3, <2>1, <2>2 DEF Ledger
<1>4. QED
  BY <1>2, <1>3 DEF ServeCancel

LEMMA ServeDecisionLedger ==
    ASSUME Ledger, NEW m, Genuine(m), NEW answer \in Answers, ServeDecision(m, answer)
    PROVE  /\ Ledger' /\ Forward /\ [Service!Next]_service
           /\ answer.kind = "recorded" => status'[m.id] = m.decision
<1>1. m.kind = "decide" /\ m.id \in Approvals /\ m.decision \in Outcomes /\ row' = row
  BY OutcomeNames DEF ServeDecision, Genuine, Requests
<1>2. CASE status[m.id] = "PENDING" /\ Service!Enter(m.id, m.decision)
  <2>1. row' \in [Approvals -> Rows]
    BY <1>1 DEF Ledger
  <2>2. QED
    BY <1>1, <1>2, <2>1, RowsKept
<1>3. CASE answer.kind = "refused" /\ UNCHANGED service
  BY <1>1, <1>3 DEF service, Ledger, Forward, OneApprovalPerOperation
<1>4. QED
  BY <1>2, <1>3 DEF ServeDecision

LEMMA SameLedger ==
    ASSUME Ledger, UNCHANGED <<service, row>>
    PROVE  Ledger' /\ Forward /\ [Service!Next]_service /\ UNCHANGED <<status, outbox, row>>
BY DEF service, Ledger, Forward, OneApprovalPerOperation

-----------------------------------------------------------------------------
(* What the service's progress leaves true.                                *)

LEMMA CallStable ==
    ASSUME IndInv, Forward, Ledger', NEW c \in Callers, call'[c] = call[c],
           starts'[c] = starts[c]
    PROVE  CallSound(c)'
<1>1. CallSound(c)
  BY DEF IndInv, Agents
<1>2. call[c].id \in Approvals => (Beaten(c) => Beaten(c)')
  BY DEF Forward, Beaten, CancelKey
<1>3. QED
  BY <1>1, <1>2, OutcomeNames DEF CallSound, Forward

LEMMA AgentsStable == ASSUME IndInv, Forward, Ledger', UNCHANGED agents PROVE Agents'
<1>1. UNCHANGED <<call, starts>>
  BY DEF agents
<1>2. \A c \in Callers : CallSound(c)'
  BY <1>1, CallStable
<1>3. QED
  BY <1>1, <1>2 DEF IndInv, Agents

LEMMA TabStable ==
    ASSUME IndInv, Forward, NEW t \in Tabs, tab'[t] = tab[t] PROVE TabSound(t)'
<1>1. TabSound(t)
  BY DEF IndInv, Reviewer
<1>2. tab[t].stage # "closed" => tab[t].id \in Approvals
  BY <1>1 DEF TabSound
<1>3. QED
  BY <1>1, <1>2, OutcomeNames DEF TabSound, Forward

LEMMA ReviewerStable == ASSUME IndInv, Forward, UNCHANGED tab PROVE Reviewer'
<1>1. \A t \in Tabs : TabSound(t)'
  BY TabStable
<1>2. QED
  BY <1>1 DEF IndInv, Reviewer

LEMMA ApplicationStable == ASSUME IndInv, Forward, UNCHANGED app PROVE Application'
<1>1. UNCHANGED <<known, handling, thread, resumes>>
  BY DEF app
<1>2. \A event \in known : event[2] \in Outcomes => status'[event[1]] = event[2]
  BY OutcomeNames DEF IndInv, Application, Forward
<1>3. \A a \in Approvals : thread[a] \in Decisions => thread[a] = status'[a]
  BY OutcomeNames DEF IndInv, Application, Forward
<1>4. QED
  BY <1>1, <1>2, <1>3 DEF IndInv, Application

-----------------------------------------------------------------------------
(* A caller goes on.                                                       *)

LEMMA CallType ==
    ASSUME IndInv, NEW c \in Callers
    PROVE  /\ call[c] \in Calls /\ starts[c] \in 0..MaxStarts /\ CallSound(c)
           /\ call[c].stage \in Stages /\ call[c].kind \in Kinds /\ call[c].op \in Keys
           /\ call[c].id \in Ids /\ call[c].try \in 0..MaxRetries
           /\ call[c].elapsed \in 0..Timeout
           /\ call[c].seen \in Service!Statuses \cup {None}
           /\ call[c].answer \in Answers \cup {Awaited}
BY DEF IndInv, Agents, Calls

LEMMA AnswerType ==
    ASSUME NEW answer \in Answers \cup {Awaited}
    PROVE  /\ answer.kind = "approval" => answer.id \in Approvals
           /\ answer.kind \in {"cancelled", "conflict"} => answer # Awaited
           /\ Awaited.kind = "awaited"
BY DEF Answers, Awaited

LEMMA IdleType ==
    /\ Idle \in Calls /\ Idle.stage = "idle" /\ Idle.answer = Awaited /\ Idle.id \in Ids
    /\ Idle.op = NoKey /\ NoKey \in Keys /\ Idle.answer.kind = "awaited"
BY ClientAssumption DEF Idle, Calls, Stages, Ended, Kinds, Keys, Ids, Awaited

LEMMA Becomes ==
    ASSUME IndInv, NEW c \in Callers, NEW r \in Calls, Become(c, r)
    PROVE  /\ call' \in [Callers -> Calls] /\ call'[c] = r
           /\ \A d \in Callers : d # c => call'[d] = call[d]
BY DEF Become, IndInv, Agents

LEMMA AgentTurn ==
    ASSUME IndInv, Forward, Ledger', NEW c \in Callers, NEW r \in Calls, Become(c, r),
           UNCHANGED starts, CallSound(c)'
    PROVE  Agents'
<1>1. \A d \in Callers : CallSound(d)'
  <2> TAKE d \in Callers
  <2>1. CASE d = c
    BY <2>1
  <2>2. CASE d # c
    BY <2>2, Becomes, CallStable
  <2>3. QED
    BY <2>1, <2>2
<1>2. QED
  BY <1>1, Becomes DEF IndInv, Agents

(* A caller's step that leaves the service, the reviewer and the           *)
(* application alone.                                                      *)
LEMMA CallerSound ==
    ASSUME IndInv, NEW c \in Callers, NEW r \in Calls, Become(c, r), CallSound(c)', Mail',
           UNCHANGED <<service, row, starts, tab, app>>
    PROVE  IndInv'
<1>1. Ledger' /\ Forward
  BY SameLedger DEF IndInv
<1>2. Agents' /\ Reviewer' /\ Application'
  BY <1>1, AgentTurn, ReviewerStable, ApplicationStable
<1>3. QED
  BY <1>1, <1>2 DEF IndInv

(* What is sound of a call that has ended follows from what it was told.   *)
LEMMA Ends ==
    ASSUME IndInv, NEW c \in Callers, NEW stage \in Ended, End(c, stage), Mail',
           UNCHANGED <<service, row, starts, tab, app>>,
           stage \in {"ran", "refused", "cancelled", "conflict"} => call[c].id \in Approvals,
           stage = "ran" => status[call[c].id] = "APPROVED",
           stage = "refused" => /\ status[call[c].id] = call[c].seen
                                /\ call[c].seen \in Outcomes \ {"APPROVED"},
           stage = "cancelled" => status[call[c].id] = "CANCELLED",
           stage = "conflict" => Beaten(c)
    PROVE  IndInv'
<1> DEFINE r == [Idle EXCEPT !.stage = stage, !.id = call[c].id, !.seen = call[c].seen]
<1>1. /\ r \in Calls /\ r.stage = stage /\ r.id = call[c].id /\ r.seen = call[c].seen
  BY CallType, IdleType DEF Calls, Idle, Stages
<1>2. Become(c, r)
  BY DEF End
<1> HIDE DEF r
<1>3. call'[c] = r
  BY <1>1, <1>2, Becomes
<1>4. stage \notin {"poll", "judge", "run", "cancel", "idle", "create"}
  BY DEF Ended
<1>5. UNCHANGED <<status, row, starts>>
  BY DEF service
<1>6. stage = "conflict" => Beaten(c)'
  BY <1>1, <1>3, <1>5 DEF Beaten, CancelKey
<1>7. CallSound(c)'
  BY <1>1, <1>3, <1>4, <1>5, <1>6 DEF CallSound
<1>8. QED
  BY <1>1, <1>2, <1>7, CallerSound

LEMMA RequestGenuine ==
    ASSUME IndInv, NEW c \in Callers, call[c].stage \in {"create", "cancel"}
    PROVE  /\ Genuine(Request(c)) /\ Request(c).kind = call[c].stage
           /\ Request(c).id = call[c].id
           /\ call[c].stage = "cancel" => Request(c).key = CancelKey(c)
<1>1. CancelKey(c) \in Keys /\ CancelKey(c) # NoKey
  BY CallType DEF CancelKey, Keys, NoKey
<1>2. Key(c) \in Keys
  BY <1>1, CallType DEF Key, CancelKey
<1>3. Request(c) \in Requests
  BY <1>2, CallType DEF Request, Requests
<1>4. call[c].stage = "create" => Key(c) = call[c].op
  BY DEF Key, Doing
<1>5. call[c].stage = "cancel" => Key(c) = CancelKey(c) /\ call[c].id \in Approvals
  BY CallType DEF Key, Doing, CancelKey, CallSound
<1>6. QED
  BY <1>1, <1>3, <1>4, <1>5 DEF Request, Genuine

LEMMA AbandonSound == ASSUME IndInv, NEW c \in Callers, Abandon(c) PROVE Mail'
<1>1. Waiting(c) => Genuine(Request(c))
  BY RequestGenuine DEF Waiting
<1>2. \A m \in late' : Genuine(m)
  BY <1>1 DEF Abandon, IndInv, Mail
<1>3. QED
  BY <1>2 DEF Mail, Genuine

LEMMA SameMail == ASSUME IndInv, UNCHANGED late PROVE Mail'
BY DEF IndInv, Mail

-----------------------------------------------------------------------------
(* Calls begin, fail and are started again.                                *)

LEMMA BeginSound ==
    ASSUME IndInv, NEW c \in Callers, NEW kind \in Kinds, NEW op \in Operations,
           Begin(c, kind, op)
    PROVE  IndInv'
<1> DEFINE r == [Idle EXCEPT !.stage = "create", !.kind = kind, !.op = OperationKey(kind, op)]
<1>1. r \in Calls /\ r.stage = "create"
  BY IdleType DEF Calls, Idle, Stages, OperationKey, Keys
<1>2. Become(c, r) /\ UNCHANGED <<service, row, starts, late, tab, app>>
  BY DEF Begin
<1> HIDE DEF r
<1>3. CallSound(c)'
  BY <1>1, <1>2, Becomes DEF CallSound
<1>4. QED
  BY <1>1, <1>2, <1>3, SameMail, CallerSound

LEMMA CancelSound ==
    ASSUME IndInv, NEW c \in Callers, NEW a \in Approvals, Cancel(c, a) PROVE IndInv'
<1> DEFINE r == [Idle EXCEPT !.stage = "cancel", !.id = a]
<1>1. r \in Calls /\ r.stage = "cancel" /\ r.id = a /\ r.answer.kind = "awaited"
  BY IdleType DEF Calls, Idle, Stages, Ids, Awaited
<1>2. /\ Become(c, r) /\ status[a] # "ABSENT"
      /\ UNCHANGED <<service, status, row, starts, late, tab, app>>
  BY DEF Cancel, service
<1> HIDE DEF r
<1>3. CallSound(c)'
  BY <1>1, <1>2, Becomes DEF CallSound
<1>4. QED
  BY <1>1, <1>2, <1>3, SameMail, CallerSound

LEMMA AttemptFailsSound == ASSUME IndInv, NEW c \in Callers, AttemptFails(c) PROVE IndInv'
<1>1. Mail' /\ UNCHANGED <<service, status, row, starts, tab, app>>
  BY AbandonSound DEF AttemptFails, service
<1>2. CASE Exhausted(c)
  BY <1>1, <1>2, Ends DEF AttemptFails, Ended
<1>3. CASE ~Exhausted(c)
  <2> DEFINE r == [call[c] EXCEPT !.try = call[c].try + 1, !.answer = Awaited]
  <2>1. call[c].try + 1 \in 0..MaxRetries
    BY <1>3, CallType, ClientAssumption DEF Exhausted
  <2>2. /\ r \in Calls /\ r.stage = call[c].stage /\ r.id = call[c].id
        /\ r.seen = call[c].seen /\ r.answer.kind = "awaited"
    BY <2>1, CallType DEF Calls, Awaited
  <2>3. Become(c, r)
    BY <1>3 DEF AttemptFails
  <2>4. call[c].stage \in {"create", "cancel", "poll"}
    BY DEF AttemptFails
  <2> HIDE DEF r
  <2>5. CallSound(c)'
    BY <1>1, <2>2, <2>3, <2>4, CallType, Becomes DEF CallSound
  <2>6. QED
    BY <1>1, <2>2, <2>3, <2>5, CallerSound
<1>4. QED
  BY <1>2, <1>3

LEMMA GateFailsSound == ASSUME IndInv, NEW c \in Callers, GateFails(c) PROVE IndInv'
BY AbandonSound, Ends DEF GateFails, Ended

LEMMA RestartSound == ASSUME IndInv, NEW c \in Callers, Restart(c) PROVE IndInv'
<1>1. /\ Become(c, Idle) /\ Mail' /\ starts' = [starts EXCEPT ![c] = starts[c] + 1]
      /\ starts[c] < MaxStarts /\ UNCHANGED <<service, row, tab, app>>
  BY AbandonSound DEF Restart
<1>2. Ledger' /\ Forward
  BY <1>1, SameLedger DEF IndInv
<1>3. Reviewer' /\ Application'
  BY <1>1, <1>2, ReviewerStable, ApplicationStable
<1>4. /\ call' \in [Callers -> Calls] /\ call'[c] = Idle
      /\ \A d \in Callers : d # c => call'[d] = call[d] /\ starts'[d] = starts[d]
  BY <1>1, IdleType, Becomes DEF IndInv, Agents
<1>5. starts' \in [Callers -> 0..MaxStarts]
  BY <1>1, CallType, ClientAssumption DEF IndInv, Agents
<1>6. \A d \in Callers : CallSound(d)'
  <2> TAKE d \in Callers
  <2>1. CASE d = c
    BY <1>4, <2>1, IdleType DEF CallSound
  <2>2. CASE d # c
    BY <1>2, <1>4, <2>2, CallStable
  <2>3. QED
    BY <2>1, <2>2
<1>7. QED
  BY <1>1, <1>2, <1>3, <1>4, <1>5, <1>6 DEF IndInv, Agents

-----------------------------------------------------------------------------
(* Requests are served.                                                    *)

LEMMA ServeSound ==
    ASSUME IndInv, NEW c \in Callers, Serve(c) PROVE IndInv' /\ [Service!Next]_service
<1>1. PICK answer \in Answers :
          /\ ServeCreate(Request(c), answer) \/ ServeCancel(Request(c), answer)
          /\ Become(c, [call[c] EXCEPT !.answer = answer])
  BY DEF Serve
<1> DEFINE r == [call[c] EXCEPT !.answer = answer]
<1>2. /\ call[c].stage \in {"create", "cancel"} /\ Become(c, r)
      /\ UNCHANGED <<starts, late, tab, app>>
  BY <1>1 DEF Serve, Waiting
<1>3. /\ r \in Calls /\ r.stage = call[c].stage /\ r.id = call[c].id /\ r.answer = answer
  BY CallType DEF Calls
<1> HIDE DEF r
<1>4. /\ Genuine(Request(c)) /\ Request(c).kind = call[c].stage
      /\ Request(c).id = call[c].id /\ (call[c].stage = "cancel" => Request(c).key = CancelKey(c))
  BY <1>2, RequestGenuine
<1>5. /\ Ledger' /\ Forward /\ [Service!Next]_service
      /\ call[c].stage = "cancel" =>
            /\ answer.kind = "cancelled" => status'[call[c].id] = "CANCELLED"
            /\ answer.kind = "conflict" =>
                  /\ status'[call[c].id] # "PENDING"
                  /\ row'[call[c].id].cancelKey # CancelKey(c)
  <2>1. CASE ServeCreate(Request(c), answer)
    <3>1. call[c].stage # "cancel"
      BY <1>4, <2>1 DEF ServeCreate
    <3>2. QED
      BY <1>4, <2>1, <3>1, ServeCreateLedger DEF IndInv
  <2>2. CASE ServeCancel(Request(c), answer)
    BY <1>4, <2>2, ServeCancelLedger DEF IndInv
  <2>3. QED
    BY <1>1, <2>1, <2>2
<1>6. call'[c] = r
  BY <1>2, <1>3, Becomes
<1>7. CallSound(c)'
  <2>1. CASE call[c].stage = "create"
    BY <1>3, <1>6, <2>1 DEF CallSound
  <2>2. CASE call[c].stage = "cancel"
    <3>1. call[c].id \in Approvals /\ status[call[c].id] # "ABSENT"
      BY <2>2, CallType DEF CallSound
    <3>2. status'[call[c].id] \in Service!Statuses \ {"ABSENT"}
      BY <1>5, <3>1 DEF Ledger, Forward
    <3>3. answer.kind = "conflict" => Beaten(c)'
      BY <1>2, <1>3, <1>5, <1>6, <2>2, <3>2, OutcomeNames DEF Beaten, CancelKey
    <3>4. QED
      BY <1>3, <1>5, <1>6, <2>2, <3>1, <3>2, <3>3 DEF CallSound
  <2>3. QED
    BY <1>2, <2>1, <2>2
<1>8. Agents' /\ Reviewer' /\ Application' /\ Mail'
  BY <1>2, <1>3, <1>5, <1>7, AgentTurn, ReviewerStable, ApplicationStable, SameMail
<1>9. QED
  BY <1>5, <1>8 DEF IndInv

LEMMA ServeLateSound ==
    ASSUME IndInv, NEW m \in late, ServeLate(m) PROVE IndInv' /\ [Service!Next]_service
<1>1. Genuine(m)
  BY DEF IndInv, Mail
<1>2. PICK answer \in Answers :
          ServeCreate(m, answer) \/ ServeCancel(m, answer) \/ ServeDecision(m, answer)
  BY DEF ServeLate
<1>3. Ledger' /\ Forward /\ [Service!Next]_service
  BY <1>1, <1>2, ServeCreateLedger, ServeCancelLedger, ServeDecisionLedger DEF IndInv
<1>4. UNCHANGED <<agents, tab, app>> /\ late' \subseteq late
  BY DEF ServeLate
<1>5. Agents' /\ Reviewer' /\ Application'
  BY <1>3, <1>4, AgentsStable, ReviewerStable, ApplicationStable
<1>6. Mail'
  BY <1>4 DEF IndInv, Mail
<1>7. QED
  BY <1>3, <1>5, <1>6 DEF IndInv

LEMMA ExpireSound ==
    ASSUME IndInv, NEW a \in Approvals, Expire(a) PROVE IndInv' /\ [Service!Next]_service
<1>1. /\ status[a] = "PENDING" /\ Service!Enter(a, "EXPIRED") /\ row' = row
      /\ UNCHANGED <<agents, late, tab, app>>
  BY DEF Expire
<1>2. row' \in [Approvals -> Rows]
  BY <1>1 DEF IndInv, Ledger
<1>3. Ledger' /\ Forward /\ [Service!Next]_service
  BY <1>1, <1>2, RowsKept, OutcomeNames DEF IndInv
<1>4. Agents' /\ Reviewer' /\ Application' /\ Mail'
  BY <1>1, <1>3, AgentsStable, ReviewerStable, ApplicationStable, SameMail
<1>5. QED
  BY <1>3, <1>4 DEF IndInv

-----------------------------------------------------------------------------
(* A caller is answered.                                                   *)

LEMMA ReceiveGuardSound == ASSUME IndInv, NEW c \in Callers, ReceiveGuard(c) PROVE IndInv'
<1> DEFINE i == call[c].answer.id
           r == [call[c] EXCEPT !.stage = "poll", !.id = i, !.op = NoKey,
                                !.try = 0, !.answer = Awaited]
<1>1. /\ call[c].answer.kind = "approval" /\ Become(c, r)
      /\ UNCHANGED <<service, row, starts, late, tab, app>>
  BY DEF ReceiveGuard, Told
<1>2. i \in Approvals
  BY <1>1, CallType, AnswerType
<1>3. r \in Calls /\ r.stage = "poll" /\ r.id = i
  <2>1. i \in Ids /\ 0 \in 0..MaxRetries /\ "poll" \in Stages /\ NoKey \in Keys
    BY <1>2, IdleType, ClientAssumption DEF Ids, Stages
  <2> HIDE DEF i
  <2>2. QED
    BY <2>1, CallType DEF Calls
<1> HIDE DEF r, i
<1>4. CallSound(c)'
  BY <1>1, <1>2, <1>3, Becomes DEF CallSound
<1>5. QED
  BY <1>1, <1>3, <1>4, SameMail, CallerSound

LEMMA ReceiveFlowSound == ASSUME IndInv, NEW c \in Callers, ReceiveFlow(c) PROVE IndInv'
<1> DEFINE i == call[c].answer.id
           r == [Idle EXCEPT !.stage = "paused", !.id = call[c].id, !.seen = call[c].seen]
<1>1. /\ call[c].answer.kind = "approval" /\ Become(c, r)
      /\ thread' = [thread EXCEPT ![i] = IF thread[i] = None THEN "paused" ELSE thread[i]]
      /\ UNCHANGED <<service, row, starts, late, tab, known, handling, resumes>>
  BY DEF ReceiveFlow, Told, End
<1>2. i \in Approvals
  BY <1>1, CallType, AnswerType
<1>3. r \in Calls /\ r.stage = "paused"
  BY CallType, IdleType DEF Calls, Idle, Stages, Ended
<1> HIDE DEF r, i
<1>4. Ledger' /\ Forward /\ status' = status
  BY <1>1, SameLedger DEF IndInv
<1>5. CallSound(c)'
  BY <1>1, <1>3, Becomes DEF CallSound
<1>6. Agents' /\ Reviewer' /\ Mail'
  BY <1>1, <1>3, <1>4, <1>5, AgentTurn, ReviewerStable, SameMail
<1>7. Application'
  <2>1. /\ thread' \in [Approvals -> {None, "paused"} \cup Decisions]
        /\ \A a \in Approvals : thread'[a] = thread[a] \/ thread'[a] = "paused"
    BY <1>1, <1>2 DEF IndInv, Application
  <2>2. "paused" \notin Decisions
    BY DEF Decisions
  <2>3. QED
    BY <1>1, <1>4, <2>1, <2>2 DEF IndInv, Application
<1>8. QED
  BY <1>4, <1>6, <1>7 DEF IndInv

LEMMA ReceiveGateSound == ASSUME IndInv, NEW c \in Callers, ReceiveGate(c) PROVE IndInv'
BY SameMail, Ends DEF ReceiveGate, Ended

LEMMA ReceiveCancelSound == ASSUME IndInv, NEW c \in Callers, ReceiveCancel(c) PROVE IndInv'
<1>1. /\ call[c].stage = "cancel" /\ call[c].answer.kind \in {"cancelled", "conflict"}
      /\ End(c, call[c].answer.kind) /\ UNCHANGED <<service, row, starts, late, tab, app>>
  BY DEF ReceiveCancel, Doing
<1>2. /\ call[c].id \in Approvals
      /\ call[c].answer.kind = "cancelled" => status[call[c].id] = "CANCELLED"
      /\ call[c].answer.kind = "conflict" => Beaten(c)
  BY <1>1, CallType DEF CallSound
<1>3. call[c].answer.kind \in Ended
  BY <1>1 DEF Ended
<1>4. QED
  BY <1>1, <1>2, <1>3, SameMail, Ends

LEMMA PollSound == ASSUME IndInv, NEW c \in Callers, Poll(c) PROVE IndInv'
<1> DEFINE s == status[call[c].id]
           r == [call[c] EXCEPT !.stage = "judge", !.seen = s]
<1>1. /\ call[c].stage = "poll" /\ Become(c, r) /\ status' = status
      /\ UNCHANGED <<service, row, starts, late, tab, app>>
  BY DEF Poll, Doing, service
<1>2. call[c].id \in Approvals /\ s \in Service!Statuses
  BY <1>1, CallType DEF CallSound, IndInv, Ledger
<1> HIDE DEF s
<1>3. r \in Calls /\ r.stage = "judge" /\ r.id = call[c].id /\ r.seen = s
  BY <1>2, CallType DEF Calls, Stages
<1> HIDE DEF r
<1>4. CallSound(c)'
  BY <1>1, <1>2, <1>3, Becomes DEF CallSound, s
<1>5. QED
  BY <1>1, <1>3, <1>4, SameMail, CallerSound

LEMMA JudgeSound == ASSUME IndInv, NEW c \in Callers, Judge(c) PROVE IndInv'
<1>1. /\ call[c].stage = "judge" /\ call[c].seen \in Outcomes
      /\ UNCHANGED <<service, status, row, starts, late, tab, app>>
  BY DEF Judge, Doing, service
<1>2. call[c].id \in Approvals /\ status[call[c].id] = call[c].seen
  BY <1>1, CallType DEF CallSound
<1>3. CASE ~Granted(call[c].seen)
  <2>1. End(c, "refused")
    BY <1>3 DEF Judge
  <2>2. QED
    BY <1>1, <1>2, <1>3, <2>1, SameMail, Ends DEF Ended, Granted
<1>4. CASE Granted(call[c].seen)
  <2> DEFINE r == [call[c] EXCEPT !.stage = "run"]
  <2>1. Become(c, r)
    BY <1>4 DEF Judge
  <2>2. r \in Calls /\ r.stage = "run" /\ r.id = call[c].id
    BY CallType DEF Calls, Stages
  <2> HIDE DEF r
  <2>3. CallSound(c)'
    BY <1>1, <1>2, <1>4, <2>1, <2>2, Becomes DEF CallSound, Granted
  <2>4. QED
    BY <1>1, <2>1, <2>2, <2>3, SameMail, CallerSound
<1>5. QED
  BY <1>3, <1>4

LEMMA WaitOnSound == ASSUME IndInv, NEW c \in Callers, WaitOn(c) PROVE IndInv'
<1>1. /\ call[c].stage = "judge" /\ UNCHANGED <<service, row, starts, late, tab, app>>
  BY DEF WaitOn, Doing
<1>2. call[c].id \in Approvals
  BY <1>1, CallType DEF CallSound
<1>3. PICK e \in call[c].elapsed..Timeout :
          IF TimedOut(e) THEN End(c, "timeout")
          ELSE Become(c, [call[c] EXCEPT !.stage = "poll", !.try = 0, !.seen = None,
                                         !.elapsed = IF e < Timeout THEN e + 1 ELSE e])
  BY DEF WaitOn
<1>4. CASE TimedOut(e)
  BY <1>1, <1>3, <1>4, SameMail, Ends DEF Ended
<1>5. CASE ~TimedOut(e)
  <2> DEFINE n == IF e < Timeout THEN e + 1 ELSE e
             r == [call[c] EXCEPT !.stage = "poll", !.try = 0, !.seen = None, !.elapsed = n]
  <2>1. n \in 0..Timeout /\ 0 \in 0..MaxRetries
    BY CallType, ClientAssumption
  <2>2. Become(c, r)
    BY <1>3, <1>5
  <2> HIDE DEF n
  <2>3. r \in Calls /\ r.stage = "poll" /\ r.id = call[c].id
    BY <2>1, CallType DEF Calls, Stages
  <2> HIDE DEF r
  <2>4. CallSound(c)'
    BY <1>1, <1>2, <2>2, <2>3, Becomes DEF CallSound
  <2>5. QED
    BY <1>1, <2>2, <2>3, <2>4, SameMail, CallerSound
<1>6. QED
  BY <1>4, <1>5

LEMMA RunSound == ASSUME IndInv, NEW c \in Callers, Run(c) PROVE IndInv'
<1>1. /\ call[c].stage = "run" /\ End(c, "ran")
      /\ UNCHANGED <<service, row, starts, late, tab, app>>
  BY DEF Run, Doing
<1>2. call[c].id \in Approvals /\ status[call[c].id] = "APPROVED"
  BY <1>1, CallType DEF CallSound
<1>3. QED
  BY <1>1, <1>2, SameMail, Ends DEF Ended

-----------------------------------------------------------------------------
(* The application.                                                        *)

LEMMA AppTurn ==
    ASSUME IndInv, Application', UNCHANGED <<service, row, agents, late, tab>> PROVE IndInv'
<1>1. Ledger' /\ Forward
  BY SameLedger DEF IndInv
<1>2. Agents' /\ Reviewer' /\ Mail'
  BY <1>1, AgentsStable, ReviewerStable, SameMail
<1>3. QED
  BY <1>1, <1>2 DEF IndInv

LEMMA DeliverSound == ASSUME IndInv, NEW n \in outbox, Deliver(n) PROVE IndInv'
<1> DEFINE event == <<n[2], n[3]>>
<1>1. /\ event \notin known /\ known' = known \cup {event}
      /\ handling' = handling \cup {event}
      /\ UNCHANGED <<service, status, row, agents, late, tab, thread, resumes>>
  BY DEF Deliver, Replayed, service
<1>2. /\ event \in Approvals \X Service!Statuses
      /\ event[1] = n[2] /\ event[2] = n[3]
      /\ n[3] \in Outcomes => status[n[2]] = n[3]
  BY DEF IndInv, Ledger
<1> HIDE DEF event
<1>3. handling \subseteq known /\ known' \ handling' = known \ handling
  BY <1>1 DEF IndInv, Application
<1>4. \A e \in known' : e[2] \in Outcomes => status'[e[1]] = e[2]
  BY <1>1, <1>2 DEF IndInv, Application
<1>5. Application'
  BY <1>1, <1>2, <1>3, <1>4 DEF IndInv, Application
<1>6. QED
  BY <1>1, <1>5, AppTurn

(* Two decisions about one approval are the same: the second is a replay.  *)
LEMMA HandleSound == ASSUME IndInv, NEW event \in handling, Handle(event) PROVE IndInv'
<1> DEFINE a == event[1]
           d == event[2]
           resumed == Resumable(event) /\ thread[a] # None
<1>1. /\ handling' = handling \ {event}
      /\ thread' = IF resumed THEN [thread EXCEPT ![a] = d] ELSE thread
      /\ resumes' = IF resumed /\ resumes[a] < 2
                    THEN [resumes EXCEPT ![a] = resumes[a] + 1] ELSE resumes
      /\ UNCHANGED <<service, status, row, agents, late, tab, known>>
  BY DEF Handle, service
<1>2. /\ event \in known /\ event = <<a, d>> /\ a \in Approvals
      /\ d \in Outcomes => status[a] = d
  BY DEF IndInv, Application
<1>3. /\ \A b \in Approvals : resumes[b] \in 0..2 /\ resumes[b] <= 1
      /\ resumes \in [Approvals -> 0..2]
      /\ thread \in [Approvals -> {None, "paused"} \cup Decisions]
      /\ known \ handling \subseteq known' \ handling' /\ event \in known' \ handling'
  BY <1>1, <1>2 DEF IndInv, Application
<1>4. known' \subseteq Approvals \X Service!Statuses /\ handling' \subseteq known'
  BY <1>1 DEF IndInv, Application
<1>5. \A e \in known' : e[2] \in Outcomes => status'[e[1]] = e[2]
  BY <1>1 DEF IndInv, Application
<1>6. CASE ~resumed
  <2>1. thread' = thread /\ resumes' = resumes
    BY <1>1, <1>6
  <2>2. ASSUME NEW b \in Approvals
        PROVE  /\ thread'[b] \in Decisions => thread'[b] = status'[b]
               /\ resumes'[b] <= 1
               /\ resumes'[b] # 0 => \E e \in Decisions : <<b, e>> \in known' \ handling'
    BY <1>1, <1>3, <2>1 DEF IndInv, Application
  <2>3. Application'
    BY <1>3, <1>4, <1>5, <2>1, <2>2 DEF Application
  <2>4. QED
    BY <1>1, <2>3, AppTurn
<1>7. CASE resumed
  <2>1. d \in Decisions /\ status[a] = d
    BY <1>2, <1>7, OutcomeNames DEF Resumable
  <2>2. resumes[a] = 0
    <3>1. SUFFICES ASSUME resumes[a] # 0 PROVE FALSE
      OBVIOUS
    <3>2. PICK e \in Decisions : <<a, e>> \in known \ handling
      BY <1>2, <3>1 DEF IndInv, Application
    <3>3. status[a] = e
      <4> DEFINE other == <<a, e>>
      <4>1. other \in known /\ other[1] = a /\ other[2] = e
        BY <3>2
      <4> HIDE DEF other, a
      <4>2. QED
        BY <4>1, OutcomeNames DEF IndInv, Application
    <3>4. event \notin handling
      BY <1>2, <2>1, <3>2, <3>3
    <3>5. QED
      BY <3>4
  <2> HIDE DEF a, d
  <2>3. /\ thread' = [thread EXCEPT ![a] = d] /\ resumes' = [resumes EXCEPT ![a] = 1]
    BY <1>1, <1>7, <2>2
  <2>4. /\ thread' \in [Approvals -> {None, "paused"} \cup Decisions]
        /\ resumes' \in [Approvals -> 0..2] /\ thread'[a] = d /\ resumes'[a] = 1
        /\ \A b \in Approvals : b # a => thread'[b] = thread[b] /\ resumes'[b] = resumes[b]
    BY <1>2, <1>3, <2>1, <2>3
  <2>5. ASSUME NEW b \in Approvals
        PROVE  /\ thread'[b] \in Decisions => thread'[b] = status'[b]
               /\ resumes'[b] <= 1
               /\ resumes'[b] # 0 => \E e \in Decisions : <<b, e>> \in known' \ handling'
    <3>1. CASE b = a
      BY <1>1, <1>2, <1>3, <2>1, <2>4, <3>1
    <3>2. CASE b # a
      BY <1>1, <1>3, <2>4, <3>2 DEF IndInv, Application
    <3>3. QED
      BY <3>1, <3>2
  <2>6. Application'
    BY <1>3, <1>4, <1>5, <2>4, <2>5 DEF Application
  <2>7. QED
    BY <1>1, <2>6, AppTurn
<1>8. QED
  BY <1>6, <1>7

LEMMA AppCrashSound == ASSUME IndInv, AppCrash PROVE IndInv'
<1>1. /\ handling' = {} /\ UNCHANGED <<service, status, row, agents, late, tab>>
      /\ UNCHANGED <<known, thread, resumes>>
  BY DEF AppCrash, service
<1>2. known \ handling \subseteq known' \ handling'
  BY <1>1
<1>3. Application'
  BY <1>1, <1>2 DEF IndInv, Application
<1>4. QED
  BY <1>1, <1>3, AppTurn

-----------------------------------------------------------------------------
(* The reviewer.                                                           *)

LEMMA TabType ==
    ASSUME IndInv, NEW t \in Tabs
    PROVE  /\ tab[t] \in Pages /\ TabSound(t) /\ tab[t].id \in Ids
           /\ tab[t].shown \in Outcomes \cup {None} /\ tab[t].answer \in Answers \cup {Awaited}
BY DEF IndInv, Reviewer, Pages

LEMMA ShowSound ==
    ASSUME IndInv, NEW t \in Tabs, NEW r \in Pages, tab' = [tab EXCEPT ![t] = r], Mail',
           UNCHANGED <<service, row, agents, app>>, TabSound(t)'
    PROVE  IndInv'
<1>1. Ledger' /\ Forward
  BY SameLedger DEF IndInv
<1>2. Agents' /\ Application'
  BY <1>1, AgentsStable, ApplicationStable
<1>3. tab' \in [Tabs -> Pages] /\ \A u \in Tabs : u # t => tab'[u] = tab[u]
  BY DEF IndInv, Reviewer
<1>4. \A u \in Tabs : TabSound(u)'
  <2> TAKE u \in Tabs
  <2>1. CASE u = t
    BY <2>1
  <2>2. CASE u # t
    BY <1>1, <1>3, <2>2, TabStable
  <2>3. QED
    BY <2>1, <2>2
<1>5. QED
  BY <1>1, <1>2, <1>3, <1>4 DEF IndInv, Reviewer

LEMMA ClosedType ==
    Closed \in Pages /\ Closed.answer = Awaited /\ Closed.shown = None /\ Closed.stage = "closed"
BY DEF Closed, Pages, Ids

(* What a page goes on to show of the approval it has loaded.              *)
LEMMA TabMoves ==
    ASSUME IndInv, NEW t \in Tabs, Mail',
           NEW stage \in {"loading", "unloaded", "ready", "error"},
           \/ tab[t].stage \in {"loading", "unloaded"}
           \/ tab[t].stage = "submitting" /\ stage = "error",
           Show(t, [tab[t] EXCEPT !.stage = stage])
    PROVE  IndInv'
<1> DEFINE r == [tab[t] EXCEPT !.stage = stage]
<1>1. /\ r \in Pages /\ r.stage = stage /\ r.id = tab[t].id
      /\ r.answer = tab[t].answer
  BY TabType DEF Pages
<1>2. tab' = [tab EXCEPT ![t] = r] /\ UNCHANGED <<service, row, agents, app>>
  BY DEF Show
<1> HIDE DEF r
<1>3. tab'[t] = r
  BY <1>2 DEF IndInv, Reviewer
<1>4. TabSound(t)'
  BY <1>1, <1>3, TabType DEF TabSound
<1>5. QED
  BY <1>1, <1>2, <1>4, ShowSound

LEMMA OpenSound ==
    ASSUME IndInv, NEW t \in Tabs, NEW a \in Approvals, Open(t, a) PROVE IndInv'
<1> DEFINE r == [Closed EXCEPT !.stage = "loading", !.id = a]
<1>1. r \in Pages /\ r.stage = "loading" /\ r.id = a /\ r.answer = Awaited
  BY DEF Closed, Pages, Ids
<1>2. /\ tab' = [tab EXCEPT ![t] = r] /\ UNCHANGED <<service, row, agents, late, app>>
  BY DEF Open, Show
<1> HIDE DEF r
<1>3. tab'[t] = r
  BY <1>2 DEF IndInv, Reviewer
<1>4. TabSound(t)'
  BY <1>1, <1>3 DEF TabSound
<1>5. QED
  BY <1>1, <1>2, <1>4, SameMail, ShowSound

LEMMA LoadSound == ASSUME IndInv, NEW t \in Tabs, Load(t) PROVE IndInv'
<1> DEFINE s == status[tab[t].id]
           r == [tab[t] EXCEPT !.stage = "settled", !.shown = s]
<1>1. tab[t].stage = "loading" /\ tab[t].id \in Approvals /\ UNCHANGED late /\ Mail'
  BY TabType, SameMail DEF Load, TabSound
<1>2. CASE Show(t, [tab[t] EXCEPT !.stage = "ready"])
           \/ Show(t, [tab[t] EXCEPT !.stage = "unloaded"])
  BY <1>1, <1>2, TabMoves
<1>3. CASE s \in Outcomes \ {"EXPIRED"} /\ Show(t, r)
  <2>1. r \in Pages /\ r.stage = "settled" /\ r.id = tab[t].id /\ r.shown = s
    <3> HIDE DEF s
    <3>1. QED
      BY <1>3, TabType DEF Pages
  <2>2. tab' = [tab EXCEPT ![t] = r] /\ UNCHANGED <<service, status, row, agents, app>>
    BY <1>3 DEF Show, service
  <2> HIDE DEF r
  <2>3. tab'[t] = r
    BY <2>2 DEF IndInv, Reviewer
  <2>4. TabSound(t)'
    BY <1>1, <1>3, <2>1, <2>2, <2>3 DEF TabSound
  <2>5. QED
    BY <1>1, <2>1, <2>2, <2>4, ShowSound
<1>4. QED
  BY <1>2, <1>3 DEF Load

LEMMA LoadAgainSound == ASSUME IndInv, NEW t \in Tabs, LoadAgain(t) PROVE IndInv'
BY SameMail, TabMoves DEF LoadAgain

LEMMA DecideSound ==
    ASSUME IndInv, NEW t \in Tabs, NEW decision \in Decisions, Decide(t, decision)
    PROVE  IndInv'
<1> DEFINE r == [tab[t] EXCEPT !.stage = "submitting", !.shown = decision]
<1>1. /\ tab[t].stage = "ready" /\ tab' = [tab EXCEPT ![t] = r]
      /\ UNCHANGED <<service, row, agents, late, app>>
  BY DEF Decide, Show
<1>2. /\ r \in Pages /\ r.stage = "submitting" /\ r.id = tab[t].id /\ r.shown = decision
      /\ r.answer = tab[t].answer
  BY TabType, OutcomeNames DEF Pages
<1> HIDE DEF r
<1>3. tab'[t] = r
  BY <1>1 DEF IndInv, Reviewer
<1>4. r.id \in Approvals /\ r.answer.kind = "awaited"
  BY <1>1, <1>2, TabType, AnswerType DEF TabSound
<1>5. TabSound(t)'
  BY <1>2, <1>3, <1>4 DEF TabSound
<1>6. QED
  BY <1>1, <1>2, <1>5, SameMail, ShowSound

LEMMA DecisionGenuine ==
    ASSUME IndInv, NEW t \in Tabs, tab[t].stage = "submitting"
    PROVE  /\ Genuine(Decision(t)) /\ tab[t].id \in Approvals
           /\ Decision(t).id = tab[t].id /\ Decision(t).decision = tab[t].shown
BY TabType DEF Decision, Genuine, Requests, TabSound

LEMMA ServeTabSound ==
    ASSUME IndInv, NEW t \in Tabs, ServeTab(t) PROVE IndInv' /\ [Service!Next]_service
<1>1. PICK answer \in Answers : /\ ServeDecision(Decision(t), answer)
                               /\ tab' = [tab EXCEPT ![t].answer = answer]
  BY DEF ServeTab
<1>2. tab[t].stage = "submitting" /\ UNCHANGED <<agents, late, app>>
  BY DEF ServeTab
<1>3. /\ Ledger' /\ Forward /\ [Service!Next]_service
      /\ answer.kind = "recorded" => status'[tab[t].id] = tab[t].shown
  BY <1>1, <1>2, DecisionGenuine, ServeDecisionLedger DEF IndInv
<1>4. /\ tab' \in [Tabs -> Pages]
      /\ tab'[t].stage = tab[t].stage /\ tab'[t].id = tab[t].id
      /\ tab'[t].shown = tab[t].shown /\ tab'[t].answer = answer
      /\ \A u \in Tabs : u # t => tab'[u] = tab[u]
  <2>1. tab' = [tab EXCEPT ![t] = [tab[t] EXCEPT !.answer = answer]]
    BY <1>1 DEF IndInv, Reviewer
  <2>2. [tab[t] EXCEPT !.answer = answer] \in Pages
    BY TabType DEF Pages
  <2>3. QED
    BY <2>1, <2>2, TabType DEF IndInv, Reviewer, Pages
<1>5. TabSound(t)'
  BY <1>2, <1>3, <1>4, TabType DEF TabSound
<1>6. Reviewer'
  <2>1. \A u \in Tabs : TabSound(u)'
    BY <1>3, <1>4, <1>5, TabStable
  <2>2. QED
    BY <1>4, <2>1 DEF Reviewer
<1>7. Agents' /\ Application' /\ Mail'
  BY <1>2, <1>3, AgentsStable, ApplicationStable, SameMail
<1>8. QED
  BY <1>3, <1>6, <1>7 DEF IndInv

LEMMA DecidedSound == ASSUME IndInv, NEW t \in Tabs, Decided(t) PROVE IndInv'
<1>1. tab[t].stage = "submitting"
  BY DEF Decided
<1>2. Mail'
  <2>1. \A m \in late' : Genuine(m)
    BY <1>1, DecisionGenuine DEF Decided, IndInv, Mail
  <2>2. QED
    BY <2>1 DEF Mail, Genuine
<1>3. CASE Show(t, [tab[t] EXCEPT !.stage = "error"])
  BY <1>1, <1>2, <1>3, TabMoves
<1>4. CASE tab[t].answer.kind = "recorded" /\ Show(t, [tab[t] EXCEPT !.stage = "done"])
  <2> DEFINE r == [tab[t] EXCEPT !.stage = "done"]
  <2>1. r \in Pages /\ r.stage = "done" /\ r.id = tab[t].id /\ r.shown = tab[t].shown
    BY TabType DEF Pages
  <2>2. tab' = [tab EXCEPT ![t] = r] /\ UNCHANGED <<service, status, row, agents, app>>
    BY <1>4 DEF Show, service
  <2> HIDE DEF r
  <2>3. tab'[t] = r
    BY <2>2 DEF IndInv, Reviewer
  <2>4. TabSound(t)'
    BY <1>1, <1>4, <2>1, <2>2, <2>3, TabType, OutcomeNames DEF TabSound
  <2>5. QED
    BY <1>2, <2>1, <2>2, <2>4, ShowSound
<1>5. QED
  BY <1>3, <1>4 DEF Decided

-----------------------------------------------------------------------------
(* The invariant.                                                          *)

LEMMA InitSound == ASSUME Init PROVE IndInv
<1>1. /\ status = [a \in Approvals |-> "ABSENT"] /\ outbox = {} /\ late = {}
      /\ known = {} /\ handling = {}
  BY DEF Init, Service!Init
<1>2. Ledger
  <2>1. [op |-> NoKey, key |-> NoKey, cancelKey |-> NoKey] \in Rows
    BY IdleType DEF Rows
  <2>2. /\ row \in [Approvals -> Rows]
        /\ \A a \in Approvals : row[a].op = NoKey /\ row[a].key = NoKey /\ row[a].cancelKey = NoKey
    BY <2>1 DEF Init
  <2>3. QED
    BY <1>1, <2>2, OutcomeNames DEF Ledger, OneApprovalPerOperation
<1>3. Agents
  <2>1. /\ call \in [Callers -> Calls] /\ starts \in [Callers -> 0..MaxStarts]
        /\ \A c \in Callers : call[c] = Idle
    BY IdleType, ClientAssumption DEF Init
  <2>2. QED
    BY <2>1, IdleType DEF Agents, CallSound
<1>4. Reviewer
  BY ClosedType DEF Init, Reviewer, TabSound
<1>5. Application
  BY <1>1 DEF Init, Application, None, Decisions
<1>6. QED
  BY <1>1, <1>2, <1>3, <1>4, <1>5 DEF IndInv, Mail

LEMMA StutterSound == ASSUME IndInv, UNCHANGED vars PROVE IndInv'
<1>1. UNCHANGED <<service, row, agents, late, tab, app>>
  BY DEF vars
<1>2. Application'
  BY <1>1, SameLedger, ApplicationStable DEF IndInv
<1>3. QED
  BY <1>1, <1>2, AppTurn

LEMMA CallerStep ==
    ASSUME IndInv, NEW c \in Callers, Step(c) \/ Restart(c)
    PROVE  IndInv' /\ UNCHANGED service
<1>1. IndInv'
  BY AttemptFailsSound, GateFailsSound, ReceiveGuardSound, ReceiveFlowSound,
     ReceiveGateSound, ReceiveCancelSound, PollSound, JudgeSound, WaitOnSound, RunSound,
     RestartSound DEF Step
<1>2. UNCHANGED service
  BY DEF Step, Restart, AttemptFails, GateFails, ReceiveGuard, ReceiveFlow, ReceiveGate,
         ReceiveCancel, Poll, Judge, WaitOn, Run
<1>3. QED
  BY <1>1, <1>2

LEMMA CallerStarts ==
    ASSUME IndInv, NEW c \in Callers,
           \/ \E op \in Operations : CallGuarded(c, op) \/ RequestFeedback(c, op) \/ CallTool(c, op)
           \/ \E a \in Approvals : Cancel(c, a)
    PROVE  IndInv' /\ UNCHANGED service
<1>1. CASE \E a \in Approvals : Cancel(c, a)
  BY <1>1, CancelSound DEF Cancel
<1>2. ASSUME NEW op \in Operations, NEW kind \in {"guard", "flow", "gate"}, Begin(c, kind, op)
      PROVE  IndInv' /\ UNCHANGED service
  <2>1. kind \in Kinds
    BY DEF Kinds
  <2>2. QED
    BY <1>2, <2>1, BeginSound DEF Begin
<1>3. QED
  BY <1>1, <1>2 DEF CallGuarded, RequestFeedback, CallTool

LEMMA TabStep ==
    ASSUME IndInv, NEW t \in Tabs,
           \/ Load(t) \/ LoadAgain(t) \/ Decided(t)
           \/ \E a \in Approvals : Open(t, a)
           \/ \E decision \in Decisions : Decide(t, decision)
    PROVE  IndInv' /\ UNCHANGED service
<1>1. IndInv'
  BY LoadSound, LoadAgainSound, DecidedSound, OpenSound, DecideSound
<1>2. UNCHANGED service
  BY DEF Load, LoadAgain, Decided, Open, Decide, Show
<1>3. QED
  BY <1>1, <1>2

LEMMA AppStep ==
    ASSUME IndInv,
           \/ \E n \in outbox : Deliver(n)
           \/ \E event \in handling : Handle(event)
           \/ AppCrash
    PROVE  IndInv' /\ UNCHANGED service
<1>1. IndInv'
  BY DeliverSound, HandleSound, AppCrashSound
<1>2. UNCHANGED service
  BY DEF Deliver, Handle, AppCrash
<1>3. QED
  BY <1>1, <1>2

LEMMA StepSound == ASSUME IndInv, [Next]_vars PROVE IndInv' /\ [Service!Next]_service
<1>1. ASSUME NEW c \in Callers, Serve(c) PROVE IndInv' /\ [Service!Next]_service
  BY <1>1, ServeSound
<1>2. ASSUME NEW m \in late, ServeLate(m) PROVE IndInv' /\ [Service!Next]_service
  BY <1>2, ServeLateSound
<1>3. ASSUME NEW a \in Approvals, Expire(a) PROVE IndInv' /\ [Service!Next]_service
  BY <1>3, ExpireSound
<1>4. ASSUME NEW t \in Tabs, ServeTab(t) PROVE IndInv' /\ [Service!Next]_service
  BY <1>4, ServeTabSound
<1>5. ASSUME UNCHANGED vars PROVE IndInv' /\ UNCHANGED service
  BY <1>5, StutterSound DEF vars
<1>6. QED
  BY <1>1, <1>2, <1>3, <1>4, <1>5, CallerStep, CallerStarts, TabStep, AppStep DEF Next

LEMMA ClientInvariant == Spec => []IndInv
BY InitSound, StepSound, PTL DEF Spec

-----------------------------------------------------------------------------
(* Every row, request on its way, call, page and event has a value of its  *)
(* type: no attempt beyond max_retries and no wait beyond the timeout.     *)
THEOREM ClientTypeCorrect == Spec => []TypeOK
<1>1. IndInv => TypeOK
  BY DEF IndInv, Ledger, Mail, Genuine, Agents, Reviewer, Application, TypeOK
<1>2. QED
  BY <1>1, ClientInvariant, PTL

(* The SDKs, the integrations, the application and the decision page act   *)
(* upon, and tell, only the outcome an approval has and keeps.             *)
THEOREM NobodyIsMisled == Spec => []NobodyMisled
<1>1. IndInv => NobodyMisled
  <2> SUFFICES ASSUME IndInv PROVE NobodyMisled
    OBVIOUS
  <2>1. ASSUME NEW c \in Callers
        PROVE  /\ call[c].stage \in {"run", "ran"} => status[call[c].id] = "APPROVED"
               /\ call[c].stage = "refused" =>
                     status[call[c].id] = call[c].seen /\ call[c].seen # "APPROVED"
               /\ call[c].stage = "cancelled" => status[call[c].id] = "CANCELLED"
               /\ call[c].stage = "conflict" =>
                     /\ status[call[c].id] \in Outcomes
                     /\ row[call[c].id].cancelKey # Key(c)
    <3>1. CallSound(c)
      BY DEF IndInv, Agents
    <3>2. QED
      BY <3>1 DEF CallSound, Beaten, CancelKey, Key, Doing
  <2>2. \A t \in Tabs : tab[t].stage \in {"done", "settled"} => tab[t].shown = status[tab[t].id]
    BY DEF IndInv, Reviewer, TabSound
  <2>3. \A a \in Approvals : thread[a] \in Decisions => thread[a] = status[a]
    BY DEF IndInv, Application
  <2>4. QED
    BY <2>1, <2>2, <2>3 DEF NobodyMisled
<1>2. QED
  BY <1>1, ClientInvariant, PTL

(* Idempotency-Keys at work: however an operation is retried, repeated and *)
(* restarted, and however late its requests are, one approval is made.     *)
THEOREM AskedOnce == Spec => []OneApprovalPerOperation
<1>1. IndInv => OneApprovalPerOperation
  BY DEF IndInv, Ledger
<1>2. QED
  BY <1>1, ClientInvariant, PTL

(* The replay guard and the finality of outcomes together: no thread is    *)
(* resumed twice, through whichever endpoint and in whichever order it is. *)
THEOREM ThreadsResumedOnce == Spec => []ResumedOnce
<1>1. IndInv => ResumedOnce
  BY DEF IndInv, Application, ResumedOnce
<1>2. QED
  BY <1>1, ClientInvariant, PTL

(* What the clients make the service do is what ApprovalContract allows,   *)
(* the contract ApprovalLifecycle is proved to implement.                  *)
THEOREM ClientsKeepContract == Spec => Service!Safety
<1>1. Init => Service!Init
  BY DEF Init
<1>2. IndInv /\ [Next]_vars => [Service!Next]_(Service!vars)
  BY StepSound DEF service, Service!vars
<1>3. QED
  BY <1>1, <1>2, ClientInvariant, PTL DEF Spec, Service!Safety


-----------------------------------------------------------------------------
(* Calls advance.                                                          *)

Running == {"create", "cancel", "poll", "judge", "run"}

LEMMA RunningStages == Running \cap Ended = {} /\ "idle" \notin Running \cup Ended
BY DEF Running, Ended

(* What is shown of the step of one caller: whom it leaves alone, and how  *)
(* far it brings the one who takes it.                                     *)
Further(c) ==
    /\ \A d \in Callers \ {c} : call'[d] = call[d]
    /\ call[c].stage \in Running /\ Nearer(call[c], call'[c])

LEMMA EndFurther ==
    ASSUME IndInv, NEW c \in Callers, NEW stage \in Ended, End(c, stage),
           call[c].stage \in Running
    PROVE  Further(c)
<1>1. call'[c].stage = stage /\ \A d \in Callers \ {c} : call'[d] = call[d]
  BY DEF End, Become, Idle, IndInv, Agents
<1>2. QED
  BY <1>1 DEF Further, Nearer

LEMMA BecomeFurther ==
    ASSUME IndInv, NEW c \in Callers, NEW r, Become(c, r), call[c].stage \in Running,
           Nearer(call[c], r)
    PROVE  Further(c)
BY DEF Become, Further, IndInv, Agents

LEMMA AttemptFurther == ASSUME IndInv, NEW c \in Callers, AttemptFails(c) PROVE Further(c)
<1>1. call[c].stage \in Running
  BY DEF AttemptFails, Running
<1>2. CASE Exhausted(c)
  BY <1>1, <1>2, EndFurther DEF AttemptFails, Ended
<1>3. CASE ~Exhausted(c)
  <2> DEFINE r == [call[c] EXCEPT !.try = call[c].try + 1, !.answer = Awaited]
  <2>1. Become(c, r)
    BY <1>3 DEF AttemptFails
  <2>2. r.elapsed = call[c].elapsed /\ r.stage = call[c].stage /\ r.try > call[c].try
    BY CallType, ClientAssumption DEF Calls
  <2>3. Nearer(call[c], r)
    BY <2>2 DEF Nearer
  <2> HIDE DEF r
  <2>4. QED
    BY <1>1, <2>1, <2>3, BecomeFurther
<1>4. QED
  BY <1>2, <1>3

LEMMA ReceiveGuardFurther == ASSUME IndInv, NEW c \in Callers, ReceiveGuard(c) PROVE Further(c)
<1> DEFINE r == [call[c] EXCEPT !.stage = "poll", !.id = call[c].answer.id, !.op = NoKey,
                                !.try = 0, !.answer = Awaited]
<1>1. Become(c, r) /\ call[c].stage = "create" /\ call[c].stage \in Running
  BY DEF ReceiveGuard, Told, Doing, Running
<1>2. r.elapsed = call[c].elapsed /\ r.stage = "poll"
  BY CallType DEF Calls
<1>3. Nearer(call[c], r)
  BY <1>1, <1>2 DEF Nearer, StageNumber
<1> HIDE DEF r
<1>4. QED
  BY <1>1, <1>3, BecomeFurther

LEMMA PollFurther == ASSUME IndInv, NEW c \in Callers, Poll(c) PROVE Further(c)
<1> DEFINE r == [call[c] EXCEPT !.stage = "judge", !.seen = status[call[c].id]]
<1>1. Become(c, r) /\ call[c].stage = "poll" /\ call[c].stage \in Running
  BY DEF Poll, Doing, Running
<1>2. r.elapsed = call[c].elapsed /\ r.stage = "judge"
  BY CallType DEF Calls
<1>3. Nearer(call[c], r)
  BY <1>1, <1>2 DEF Nearer, StageNumber
<1> HIDE DEF r
<1>4. QED
  BY <1>1, <1>3, BecomeFurther

LEMMA JudgeFurther == ASSUME IndInv, NEW c \in Callers, Judge(c) PROVE Further(c)
<1>1. call[c].stage = "judge" /\ call[c].stage \in Running
  BY DEF Judge, Doing, Running
<1>2. CASE ~Granted(call[c].seen)
  BY <1>1, <1>2, EndFurther DEF Judge, Ended
<1>3. CASE Granted(call[c].seen)
  <2> DEFINE r == [call[c] EXCEPT !.stage = "run"]
  <2>1. Become(c, r)
    BY <1>3 DEF Judge
  <2>2. r.elapsed = call[c].elapsed /\ r.stage = "run"
    BY CallType DEF Calls
  <2>3. Nearer(call[c], r)
    BY <1>1, <2>2 DEF Nearer, StageNumber
  <2> HIDE DEF r
  <2>4. QED
    BY <1>1, <2>1, <2>3, BecomeFurther
<1>4. QED
  BY <1>2, <1>3

(* A poll that is repeated costs time, and at the timeout there is none.   *)
LEMMA WaitOnFurther == ASSUME IndInv, NEW c \in Callers, WaitOn(c) PROVE Further(c)
<1>1. call[c].stage \in Running /\ call[c].elapsed \in 0..Timeout
  BY CallType DEF WaitOn, Doing, Running
<1>2. PICK e \in call[c].elapsed..Timeout :
          IF TimedOut(e) THEN End(c, "timeout")
          ELSE Become(c, [call[c] EXCEPT !.stage = "poll", !.try = 0, !.seen = None,
                                         !.elapsed = IF e < Timeout THEN e + 1 ELSE e])
  BY DEF WaitOn
<1>3. CASE TimedOut(e)
  BY <1>1, <1>2, <1>3, EndFurther DEF Ended
<1>4. CASE ~TimedOut(e)
  <2> DEFINE n == IF e < Timeout THEN e + 1 ELSE e
             r == [call[c] EXCEPT !.stage = "poll", !.try = 0, !.seen = None, !.elapsed = n]
  <2>1. n > call[c].elapsed
    BY <1>1, <1>4, ClientAssumption DEF TimedOut
  <2>2. Become(c, r)
    BY <1>2, <1>4
  <2> HIDE DEF n
  <2>3. r.elapsed = n
    BY CallType DEF Calls
  <2>4. Nearer(call[c], r)
    BY <2>1, <2>3 DEF Nearer
  <2> HIDE DEF r
  <2>5. QED
    BY <1>1, <2>2, <2>4, BecomeFurther
<1>5. QED
  BY <1>3, <1>4

LEMMA CallerFurther == ASSUME IndInv, NEW c \in Callers, Step(c) PROVE Further(c)
<1>1. CASE GateFails(c)
  BY <1>1, EndFurther DEF GateFails, Doing, Running, Ended
<1>2. CASE ReceiveFlow(c)
  BY <1>2, EndFurther DEF ReceiveFlow, Told, Doing, Running, Ended
<1>3. CASE ReceiveGate(c)
  BY <1>3, EndFurther DEF ReceiveGate, Told, Doing, Running, Ended
<1>4. CASE ReceiveCancel(c)
  BY <1>4, EndFurther DEF ReceiveCancel, Doing, Running, Ended
<1>5. CASE Run(c)
  BY <1>5, EndFurther DEF Run, Doing, Running, Ended
<1>6. QED
  BY <1>1, <1>2, <1>3, <1>4, <1>5, AttemptFurther, ReceiveGuardFurther, PollFurther,
     JudgeFurther, WaitOnFurther DEF Step

LEMMA ServeFurther == ASSUME IndInv, NEW c \in Callers, Serve(c) PROVE Further(c)
<1>1. PICK answer \in Answers : Become(c, [call[c] EXCEPT !.answer = answer])
  BY DEF Serve
<1>2. call[c].answer = Awaited /\ call[c].stage \in Running
  BY DEF Serve, Waiting, Running
<1> DEFINE r == [call[c] EXCEPT !.answer = answer]
<1>3. r.answer = answer /\ answer # Awaited
  BY CallType DEF Calls, Answers, Awaited
<1>4. Nearer(call[c], r)
  BY <1>2, <1>3 DEF Nearer
<1> HIDE DEF r
<1>5. Become(c, r)
  BY <1>1 DEF r
<1>6. QED
  BY <1>2, <1>4, <1>5, BecomeFurther

(* The polls of wait(), the retries of _request and the answers of the     *)
(* service: each brings a call nearer to its end in an order that has no   *)
(* infinite descent, so that a call takes a bounded number of steps,       *)
(* whatever service, network and reviewer do.                              *)
THEOREM CallsGetOn == Spec => CallsAdvance
<1>1. ASSUME IndInv, [Next]_vars, NEW c \in Callers, call[c].stage # "idle",
             starts'[c] = starts[c], call'[c] # call[c]
      PROVE  call[c].stage \notin Ended /\ Nearer(call[c], call'[c])
  <2>1. ASSUME NEW d \in Callers, Step(d) \/ Serve(d)
        PROVE  call[c].stage \notin Ended /\ Nearer(call[c], call'[c])
    <3>1. Further(d)
      BY <1>1, <2>1, CallerFurther, ServeFurther
    <3>2. c = d
      BY <1>1, <3>1 DEF Further
    <3>3. QED
      BY <3>1, <3>2, RunningStages DEF Further
  <2>2. ASSUME NEW d \in Callers, Restart(d) PROVE FALSE
    <3>1. /\ call' = [call EXCEPT ![d] = Idle] /\ starts' = [starts EXCEPT ![d] = starts[d] + 1]
          /\ starts[d] \in Nat
      BY <1>1, <2>2, CallType, ClientAssumption DEF Restart, Become
    <3>2. c = d
      BY <1>1, <3>1 DEF IndInv, Agents
    <3>3. starts'[c] = starts[c] + 1
      BY <1>1, <3>1, <3>2 DEF IndInv, Agents
    <3>4. QED
      BY <1>1, <3>1, <3>2, <3>3
  <2>3. ASSUME NEW d \in Callers,
               \/ \E op \in Operations : CallGuarded(d, op) \/ RequestFeedback(d, op) \/ CallTool(d, op)
               \/ \E a \in Approvals : Cancel(d, a)
        PROVE  FALSE
    <3>1. call[d].stage = "idle" /\ \E r : call' = [call EXCEPT ![d] = r]
      BY <2>3 DEF CallGuarded, RequestFeedback, CallTool, Begin, Cancel, Become, Doing
    <3>2. c = d
      BY <1>1, <3>1 DEF IndInv, Agents
    <3>3. QED
      BY <1>1, <3>1, <3>2
  <2>4. ASSUME UNCHANGED agents PROVE FALSE
    BY <1>1, <2>4 DEF agents
  <2>5. CASE Next
    BY <2>1, <2>2, <2>3, <2>4, <2>5 DEF Next, ServeLate, Expire, Deliver, Handle, AppCrash,
       Load, LoadAgain, ServeTab, Decided, Open, Decide, Show
  <2>6. QED
    BY <1>1, <2>4, <2>5 DEF vars
<1>2. ASSUME IndInv, [Next]_vars
      PROVE  \A c \in Callers :
                call[c].stage # "idle" /\ starts'[c] = starts[c] /\ call'[c] # call[c] =>
                    call[c].stage \notin Ended /\ Nearer(call[c], call'[c])
  BY <1>1, <1>2
<1>3. QED
  BY <1>2, ClientInvariant, PTL DEF Spec, CallsAdvance
====
