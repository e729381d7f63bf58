------------------------------ MODULE Clients ------------------------------
(***************************************************************************)
(* Everybody who talks to the approvals API from outside: agents through   *)
(* the Python SDK and its integrations, the OpenClaw plugin through the    *)
(* TypeScript SDK, the application that receives webhooks, and the page on *)
(* which the reviewer decides.  The API itself is ApprovalContract, which  *)
(* ApprovalLifecycle implements.                                           *)
(*                                                                         *)
(* A request is served some time after it was sent, or never, and its      *)
(* answer arrives or not: the request of a caller that has given up        *)
(* waiting may be served all the same.  Statuses to be retried (408, 429,  *)
(* 5xx) and failures of the transport are one, an attempt that failed.     *)
(* Time is what wait() measures, in polls; delays are left out.            *)
(***************************************************************************)
EXTENDS Naturals, FiniteSets

CONSTANTS
    Callers,      \* processes of agents
    Operations,   \* what callers want to do, as the default operation key tells it
    Approvals,    \* ids; when all are taken the quota of the month is reached
    Webhooks,
    Tabs,         \* open decision pages
    MaxRetries,   \* max_retries (2 by default)
    Timeout,      \* timeout of wait(), in polls
    MaxStarts     \* bound of the model

ASSUME ClientAssumption ==
    /\ Approvals \subseteq Nat /\ IsFiniteSet(Approvals)
    /\ MaxRetries \in Nat /\ Timeout \in Nat /\ MaxStarts \in Nat

VARIABLES
    status, trail, outbox,   \* the service, see ApprovalContract
    row,        \* the Idempotency-Keys an approval was created and cancelled with
    call,       \* the call each caller is in
    starts,     \* how often each caller was started anew
    late,       \* requests on their way that nobody waits for any more
    tab,        \* the reviewer's pages
    known,      \* event ids the replay guard has seen
    handling,   \* events verified and not yet acted upon
    thread,     \* the paused CrewAI flow or LangGraph thread of each approval
    resumes     \* history: how often it has been resumed

Service == INSTANCE ApprovalContract

service == <<status, trail, outbox>>
agents  == <<call, starts>>
app     == <<known, handling, thread, resumes>>
vars    == <<service, row, agents, late, tab, app>>

Outcomes == Service!Outcomes
Decisions == {"APPROVED", "REJECTED"}
None   == "none"
NoKey  == <<>>
Awaited == [kind |-> "awaited"]
Idle == [stage |-> "idle", kind |-> None, op |-> NoKey, id |-> 0, try |-> 0,
         elapsed |-> 0, seen |-> None, answer |-> Awaited]
Closed == [stage |-> "closed", id |-> 0, shown |-> None, answer |-> Awaited]

Init ==
    /\ Service!Init
    /\ row = [a \in Approvals |-> [op |-> NoKey, key |-> NoKey, cancelKey |-> NoKey]]
    /\ call = [c \in Callers |-> Idle]
    /\ starts = [c \in Callers |-> 0]
    /\ late = {}
    /\ tab = [t \in Tabs |-> Closed]
    /\ known = {} /\ handling = {}
    /\ thread = [a \in Approvals |-> None]
    /\ resumes = [a \in Approvals |-> 0]

Doing(c, stage) == call[c].stage = stage
Become(c, r) == call' = [call EXCEPT ![c] = r]

(* A call that has ended: all that is left is what it was told. *)
End(c, stage) == Become(c, [Idle EXCEPT !.stage = stage, !.id = call[c].id, !.seen = call[c].seen])

-----------------------------------------------------------------------------
(* Calls and the attempts they are made of.                                *)

(* What the Idempotency-Key tells apart: integration and operation. *)
OperationKey(kind, op) == <<kind, op>>

Begin(c, kind, op) ==
    /\ Doing(c, "idle")
    /\ Become(c, [Idle EXCEPT !.stage = "create", !.kind = kind, !.op = OperationKey(kind, op)])
    /\ UNCHANGED <<service, row, starts, late, tab, app>>

(* guard_callable; the CrewAI provider or a LangGraph interrupt; OpenClaw. *)
CallGuarded(c, op)     == Begin(c, "guard", op)
RequestFeedback(c, op) == Begin(c, "flow", op)
CallTool(c, op)        == Begin(c, "gate", op)

Cancel(c, a) ==
    /\ Doing(c, "idle") /\ status[a] # "ABSENT"
    /\ Become(c, [Idle EXCEPT !.stage = "cancel", !.id = a])
    /\ UNCHANGED <<service, row, starts, late, tab, app>>

(* The key of an operation is stable, that of a cancellation is drawn once *)
(* for all attempts of the call.                                           *)
KeyPerAttempt(c) == <<c, starts[c], call[c].try>>   \* defect: drawn in the loop
Key(c) == IF Doing(c, "create") THEN call[c].op ELSE <<c, starts[c], "cancel">>

Request(c) == [kind |-> call[c].stage, key |-> Key(c), op |-> call[c].op, id |-> call[c].id]

Waiting(c) == call[c].stage \in {"create", "cancel"} /\ call[c].answer = Awaited
Abandon(c) == late' = IF Waiting(c) THEN late \cup {Request(c)} ELSE late

ExhaustedLate(c) == call[c].try > MaxRetries   \* defect: off by one
Exhausted(c) == call[c].try >= MaxRetries

(* No answer, or one to be tried again. *)
AttemptFails(c) ==
    /\ call[c].stage \in {"create", "cancel", "poll"} /\ call[c].kind # "gate"
    /\ IF Exhausted(c) THEN End(c, "failed")
       ELSE Become(c, [call[c] EXCEPT !.try = @ + 1, !.answer = Awaited])
    /\ Abandon(c)
    /\ UNCHANGED <<service, row, starts, tab, app>>

(* The TypeScript SDK does not retry and OpenClaw makes every error a block. *)
GateFails(c) ==
    /\ Doing(c, "create") /\ call[c].kind = "gate"
    /\ End(c, "blocked") /\ Abandon(c)
    /\ UNCHANGED <<service, row, starts, tab, app>>

(* The process is killed, or comes to an end, and is started once more. *)
Restart(c) ==
    /\ ~Doing(c, "idle") /\ starts[c] < MaxStarts
    /\ Become(c, Idle) /\ Abandon(c)
    /\ starts' = [starts EXCEPT ![c] = @ + 1]
    /\ UNCHANGED <<service, row, tab, app>>

-----------------------------------------------------------------------------
(* The service, which serves a request in one step.                        *)

Free == {a \in Approvals : status[a] = "ABSENT"}

Answers == [kind : {"approval"}, id : Approvals]
           \cup [kind : {"cancelled", "conflict", "recorded", "refused"}]

(* A known key is answered with its approval, and a new one gets one while *)
(* the quota lasts.  The refusals that a client raises at once, 402 over   *)
(* quota and 409 for a key used with another body, are left out: such a    *)
(* call gets no answer here and ends after its attempts.                   *)
ServeCreate(m, answer) ==
    /\ m.kind = "create" /\ answer.kind = "approval"
    /\ \/ row[answer.id].key = m.key /\ UNCHANGED <<service, row>>
       \/ /\ \A a \in Approvals : row[a].key # m.key
          /\ answer.id \in Free /\ \A b \in Free : answer.id <= b
          /\ Service!Create(answer.id)
          /\ row' = [row EXCEPT ![answer.id].key = m.key, ![answer.id].op = m.op]

ServeCancel(m, answer) ==
    /\ m.kind = "cancel"
    /\ \/ /\ status[m.id] = "PENDING" /\ answer.kind = "cancelled"
          /\ Service!Enter(m.id, "CANCELLED")
          /\ row' = [row EXCEPT ![m.id].cancelKey = m.key]
       \/ /\ status[m.id] # "PENDING"
          /\ answer.kind = IF row[m.id].cancelKey = m.key THEN "cancelled" ELSE "conflict"
          /\ UNCHANGED <<service, row>>

ServeDecision(m, answer) ==
    /\ m.kind = "decide"
    /\ \/ /\ status[m.id] = "PENDING" /\ answer.kind = "recorded"
          /\ Service!Enter(m.id, m.decision)
       \/ status[m.id] # "PENDING" /\ answer.kind = "refused" /\ UNCHANGED service
    /\ UNCHANGED row

Serve(c) ==
    /\ Waiting(c)
    /\ \E answer \in Answers :
          /\ ServeCreate(Request(c), answer) \/ ServeCancel(Request(c), answer)
          /\ Become(c, [call[c] EXCEPT !.answer = answer])
    /\ UNCHANGED <<starts, late, tab, app>>

ServeLate(m) ==
    /\ \E answer \in Answers :
          ServeCreate(m, answer) \/ ServeCancel(m, answer) \/ ServeDecision(m, answer)
    /\ late' = late \ {m}
    /\ UNCHANGED <<agents, tab, app>>

Expire(a) ==
    /\ status[a] = "PENDING" /\ Service!Enter(a, "EXPIRED")
    /\ UNCHANGED <<row, agents, late, tab, app>>

-----------------------------------------------------------------------------
(* What a caller does with the answers.                                    *)

Told(c, kind) == Doing(c, "create") /\ call[c].kind = kind /\ call[c].answer.kind = "approval"

(* guard_callable goes on to wait for the decision. *)
ReceiveGuard(c) ==
    /\ Told(c, "guard")
    /\ Become(c, [call[c] EXCEPT !.stage = "poll", !.id = call[c].answer.id, !.op = NoKey,
                                 !.try = 0, !.answer = Awaited])
    /\ UNCHANGED <<service, row, starts, late, tab, app>>

(* HumanFeedbackPending: what waits for the approval is stored, the process *)
(* ends.                                                                    *)
ReceiveFlow(c) ==
    /\ Told(c, "flow") /\ End(c, "paused")
    /\ thread' = [thread EXCEPT ![call[c].answer.id] = IF @ = None THEN "paused" ELSE @]
    /\ UNCHANGED <<service, row, starts, late, tab, known, handling, resumes>>

(* OpenClaw blocks the tool whatever the status is. *)
ReceiveGate(c) ==
    /\ Told(c, "gate") /\ End(c, "blocked")
    /\ UNCHANGED <<service, row, starts, late, tab, app>>

ReceiveCancel(c) ==
    /\ Doing(c, "cancel") /\ call[c].answer.kind \in {"cancelled", "conflict"}
    /\ End(c, call[c].answer.kind)
    /\ UNCHANGED <<service, row, starts, late, tab, app>>

(* retrieve *)
Poll(c) ==
    /\ Doing(c, "poll")
    /\ Become(c, [call[c] EXCEPT !.stage = "judge", !.seen = status[call[c].id]])
    /\ UNCHANGED <<service, row, starts, late, tab, app>>

GrantedTerminal(seen) == seen \in Outcomes   \* defect: terminal for approved
Granted(seen) == seen = "APPROVED"

TimedOutNever(elapsed) == FALSE   \* defect: the time is not looked at
TimedOut(elapsed) == elapsed >= Timeout

(* A terminal status ends the wait, and require_approved judges it. *)
Judge(c) ==
    LET r == call[c] IN
    /\ Doing(c, "judge") /\ r.seen \in Outcomes
    /\ IF Granted(r.seen) THEN Become(c, [r EXCEPT !.stage = "run"]) ELSE End(c, "refused")
    /\ UNCHANGED <<service, row, starts, late, tab, app>>

(* The requests took some time, the sleep takes some more. *)
WaitOn(c) ==
    LET r == call[c] IN
    /\ Doing(c, "judge") /\ r.seen \notin Outcomes
    /\ \E e \in r.elapsed..Timeout :
          IF TimedOut(e) THEN End(c, "timeout")
          ELSE Become(c, [r EXCEPT !.stage = "poll", !.try = 0, !.seen = None,
                                   !.elapsed = IF e < Timeout THEN e + 1 ELSE e])
    /\ UNCHANGED <<service, row, starts, late, tab, app>>

(* The body of the guarded callable. *)
Run(c) ==
    /\ Doing(c, "run")
    /\ End(c, "ran")
    /\ UNCHANGED <<service, row, starts, late, tab, app>>

-----------------------------------------------------------------------------
(* The application that receives webhooks, with a durable replay guard.    *)

ReplayedNever(event) == FALSE   \* defect: verified without the guard
Replayed(event) == event \in known

(* verify_webhook accepts an attempt at a delivery.  Attempts are repeated *)
(* until one is acknowledged and deliveries overtake each other.           *)
Deliver(n) ==
    LET event == <<n[2], n[3]>> IN
    /\ ~Replayed(event)
    /\ known' = known \cup {event}
    /\ handling' = handling \cup {event}
    /\ UNCHANGED <<service, row, agents, late, tab, thread, resumes>>

(* feedback_from_webhook and resume_payload_from_webhook raise otherwise. *)
Resumable(event) == event[2] \in Decisions

Handle(event) ==
    LET a == event[1]  resumed == Resumable(event) /\ thread[a] # None IN
    /\ handling' = handling \ {event}
    /\ thread' = IF resumed THEN [thread EXCEPT ![a] = event[2]] ELSE thread
    /\ resumes' = IF resumed /\ resumes[a] < 2 THEN [resumes EXCEPT ![a] = @ + 1] ELSE resumes
    /\ UNCHANGED <<service, row, agents, late, tab, known>>

AppCrash ==
    /\ handling # {}
    /\ handling' = {}
    /\ UNCHANGED <<service, row, agents, late, tab, known, thread, resumes>>

-----------------------------------------------------------------------------
(* The decision page.                                                      *)

Show(t, r) == /\ tab' = [tab EXCEPT ![t] = r]
              /\ UNCHANGED <<service, row, agents, app>>

Open(t, a) ==
    /\ tab[t].stage = "closed" /\ status[a] # "ABSENT"
    /\ Show(t, [Closed EXCEPT !.stage = "loading", !.id = a]) /\ UNCHANGED late

(* Expired is an error, as is no answer; the page offers to try again. *)
Load(t) ==
    LET s == status[tab[t].id] IN
    /\ tab[t].stage = "loading"
    /\ \/ /\ s = "PENDING"
          /\ Show(t, [tab[t] EXCEPT !.stage = "ready"])
       \/ /\ s \in Outcomes \ {"EXPIRED"}
          /\ Show(t, [tab[t] EXCEPT !.stage = "settled", !.shown = s])
       \/ Show(t, [tab[t] EXCEPT !.stage = "unloaded"])
    /\ UNCHANGED late

LoadAgain(t) ==
    /\ tab[t].stage = "unloaded"
    /\ Show(t, [tab[t] EXCEPT !.stage = "loading"]) /\ UNCHANGED late

Decide(t, decision) ==
    /\ tab[t].stage = "ready"
    /\ Show(t, [tab[t] EXCEPT !.stage = "submitting", !.shown = decision]) /\ UNCHANGED late

Decision(t) == [kind |-> "decide", id |-> tab[t].id, decision |-> tab[t].shown]

ServeTab(t) ==
    /\ tab[t].stage = "submitting" /\ tab[t].answer = Awaited
    /\ \E answer \in Answers : /\ ServeDecision(Decision(t), answer)
                               /\ tab' = [tab EXCEPT ![t].answer = answer]
    /\ UNCHANGED <<agents, late, app>>

(* A decision that was refused, or whose answer is lost, is an error. *)
Decided(t) ==
    /\ tab[t].stage = "submitting"
    /\ \/ tab[t].answer.kind = "recorded" /\ Show(t, [tab[t] EXCEPT !.stage = "done"])
       \/ Show(t, [tab[t] EXCEPT !.stage = "error"])
    /\ late' = IF tab[t].answer = Awaited THEN late \cup {Decision(t)} ELSE late

Step(c) == \/ AttemptFails(c) \/ GateFails(c)
           \/ ReceiveGuard(c) \/ ReceiveFlow(c) \/ ReceiveGate(c) \/ ReceiveCancel(c)
           \/ Poll(c) \/ Judge(c) \/ WaitOn(c) \/ Run(c)

Next ==
    \/ \E c \in Callers : \/ Step(c) \/ Restart(c) \/ Serve(c)
                          \/ \E op \in Operations : \/ CallGuarded(c, op) \/ RequestFeedback(c, op)
                                                  \/ CallTool(c, op)
                          \/ \E a \in Approvals : Cancel(c, a)
    \/ \E m \in late : ServeLate(m)
    \/ \E a \in Approvals : Expire(a)
    \/ \E n \in outbox : Deliver(n)
    \/ \E event \in handling : Handle(event)
    \/ AppCrash
    \/ \E t \in Tabs : \/ Load(t) \/ LoadAgain(t) \/ ServeTab(t) \/ Decided(t)
                       \/ \E a \in Approvals : Open(t, a)
                       \/ \E decision \in Decisions : Decide(t, decision)

(* A caller goes on: a request it waits for is answered or times out.      *)
(* Nothing is asked of the service, the reviewer or the application.       *)
Fairness == \A c \in Callers : WF_vars(Step(c))
Spec == Init /\ [][Next]_vars /\ Fairness

-----------------------------------------------------------------------------
(* Properties.                                                             *)

Ended == {"ran", "refused", "timeout", "failed", "blocked", "paused", "cancelled", "conflict"}
Stages == {"idle", "create", "cancel", "poll", "judge", "run"} \cup Ended

Kinds == {None, "guard", "flow", "gate"}
Keys == {NoKey} \cup (Kinds \X Operations) \cup (Callers \X (0..MaxStarts) \X {"cancel"})
Rows == [op : Keys, key : Keys, cancelKey : Keys]
Ids == Approvals \cup {0}
Calls == [stage : Stages, kind : Kinds, op : Keys, id : Ids, try : 0..MaxRetries,
          elapsed : 0..Timeout, seen : Service!Statuses \cup {None},
          answer : Answers \cup {Awaited}]
Requests == [kind : {"create", "cancel"}, key : Keys, op : Keys, id : Ids]
            \cup [kind : {"decide"}, id : Approvals, decision : Decisions]
Pages == [stage : {"closed", "loading", "unloaded", "ready", "settled", "submitting",
                   "done", "error"},
          id : Ids, shown : Outcomes \cup {None}, answer : Answers \cup {Awaited}]

TypeOK ==
    /\ status \in [Approvals -> Service!Statuses] /\ row \in [Approvals -> Rows]
    /\ outbox \subseteq Webhooks \X Approvals \X Service!Statuses
    /\ call \in [Callers -> Calls] /\ starts \in [Callers -> 0..MaxStarts]
    /\ late \subseteq Requests /\ tab \in [Tabs -> Pages]
    /\ known \subseteq Approvals \X Service!Statuses /\ handling \subseteq known
    /\ thread \in [Approvals -> {None, "paused"} \cup Decisions]
    /\ resumes \in [Approvals -> 0..2]

(* Nobody acts upon, or is told, an outcome that is not the one the        *)
(* approval has and keeps.  A guarded function runs when it was approved   *)
(* and is refused when not, a thread resumes with the decision taken, the  *)
(* page says "Decision recorded" or "Already ..." only of what is, and a   *)
(* cancellation whose first answer is lost is not told it came too late.   *)
NobodyMisled ==
    /\ \A c \in Callers :
          LET r == call[c] IN
          /\ r.stage \in {"run", "ran"} => status[r.id] = "APPROVED"
          /\ r.stage = "refused" => status[r.id] = r.seen /\ r.seen # "APPROVED"
          /\ r.stage = "cancelled" => status[r.id] = "CANCELLED"
          /\ r.stage = "conflict" => /\ status[r.id] \in Outcomes
                                     /\ row[r.id].cancelKey # Key(c)
    /\ \A a \in Approvals : thread[a] \in Decisions => thread[a] = status[a]
    /\ \A t \in Tabs : tab[t].stage \in {"done", "settled"} => tab[t].shown = status[tab[t].id]

(* Retries, lost answers, late requests and restarts never ask the         *)
(* reviewer twice about one operation.                                     *)
OneApprovalPerOperation ==
    \A a, b \in Approvals : a # b /\ row[a].op # NoKey => row[a].op # row[b].op

(* Deliveries come at least once, to several endpoints and in any order,   *)
(* the application crashes: a paused thread is resumed once at most.       *)
ResumedOnce == \A a \in Approvals : resumes[a] <= 1

(* A call comes to an end although no request of it may ever be answered   *)
(* and nobody may ever decide.                                             *)
CallsEnd ==
    \A c \in Callers : call[c].stage # "idle" ~> call[c].stage \in Ended \cup {"idle"}

(* Why it does, for all bounds: whatever happens in a call brings it       *)
(* nearer to its end.  Retries start again with every poll but never give  *)
(* back time, an attempt is answered once, and what has ended only a new   *)
(* start changes.                                                          *)
StageNumber(stage) ==
    CASE stage \in {"create", "cancel"} -> 0
      [] stage = "poll" -> 1
      [] stage = "judge" -> 2
      [] stage = "run" -> 3
      [] OTHER -> 4
Nearer(r, s) ==
    \/ s.stage \in Ended
    \/ s.elapsed > r.elapsed
    \/ s.elapsed = r.elapsed /\ StageNumber(s.stage) > StageNumber(r.stage)
    \/ s.elapsed = r.elapsed /\ s.stage = r.stage /\ s.try > r.try
    \/ r.answer = Awaited /\ s.answer # Awaited /\ s = [r EXCEPT !.answer = s.answer]
CallsAdvance ==
    [][\A c \in Callers :
          call[c].stage # "idle" /\ starts'[c] = starts[c] /\ call'[c] # call[c] =>
              call[c].stage \notin Ended /\ Nearer(call[c], call'[c])]_vars
=============================================================================
