----------------------------- MODULE Dashboard -----------------------------
(***************************************************************************)
(* The dashboard in one browser tab: the session check of its layout and   *)
(* the pages for approvals, API keys, webhooks and settings, of which one  *)
(* is mounted at a time.                                                   *)
(*                                                                         *)
(* A page sends requests and goes on when the answer comes, in any order.  *)
(* The server handles a request in one step; the races inside its handlers *)
(* are the matter of Accounts, RateLimiter and ApprovalLifecycle.  Secrets *)
(* are numbered as they are made; texts, search and metrics are left out.  *)
(***************************************************************************)
EXTENDS Naturals

CONSTANTS
    Slots,      \* requests the tab can have in flight
    Hooks, ApiKeys,
    Filters,    \* statuses to filter by
    MaxSecret   \* bound of the model: secrets made of one kind

ASSUME DashboardAssumption ==
    /\ (Hooks \cup ApiKeys) \cap (Filters \cup {"all", "off", "on", "setup", "nothing"}) = {}
    /\ Filters \cap {"all", "off", "on", "setup", "nothing"} = {}
    /\ Hooks \cap ApiKeys = {} /\ MaxSecret \in Nat

VARIABLES
    session,   \* of the layout: checking, ready, or left for another page
    signedIn,  \* the server accepts the session cookie
    view,      \* state of the page that is mounted
    sent,      \* requests in flight
    alive,     \* server: webhooks and keys there are, revoked ones excluded
    number,    \* server: secrets made for a webhook or key so far
    factor,    \* server: TOTP secrets made, the pending and the enabled one
    shown,     \* history: TOTP secrets that were shown to the user
    tangled    \* history: work on one webhook overlapped with other work

server == <<signedIn, alive, number, factor>>
dashVars == <<session, view, sent, server, shown, tangled>>

Items == Hooks \cup ApiKeys
Nil == "nothing"
NoList == [of |-> Nil, items |-> {}]
NoSecret == [of |-> Nil, number |-> 0]

(* useState of a page.  busy: creating, tfLoading; working: workingId,     *)
(* revoking; dialog: pendingDelete, pendingRevoke, show2faModal; secret:   *)
(* newSecret, newKey, tfSecret; heading: deliveryWebhook.  raced is        *)
(* history: what the user chose last overtook a request not called off.    *)
Mounted(p) ==
    [page |-> p, filter |-> "all", list |-> NoList, loading |-> FALSE, error |-> FALSE,
     busy |-> FALSE, working |-> Nil, dialog |-> Nil, secret |-> NoSecret,
     heading |-> Nil, deliveries |-> Nil, fetching |-> FALSE, raced |-> FALSE]

(* A request: what it asks of what, what came back, the page still waits   *)
(* for it (by), it has a signal, what its handler resets in the end.       *)
Request(kind, of) ==
    [kind |-> kind, of |-> of, number |-> 0, items |-> {}, answer |-> "none",
     by |-> TRUE, signal |-> FALSE, closes |-> FALSE, then |-> Nil]
NoRequest == Request(Nil, Nil)

DashInit ==
    /\ session = "left" /\ signedIn \in BOOLEAN
    /\ view = Mounted(Nil)
    /\ sent = [s \in Slots |-> NoRequest]
    /\ alive \in SUBSET Items
    /\ number = [i \in Items |-> IF i \in alive THEN 1 ELSE 0]
    /\ factor = [made |-> 0, pending |-> 0, enabled |-> 0]
    /\ shown = {} /\ tangled = FALSE

-----------------------------------------------------------------------------
(* Sending.                                                                *)

Of(kinds)   == {s \in Slots : sent[s].kind \in kinds /\ sent[s].by}
Called      == {s \in Slots : sent[s].kind = "load" /\ sent[s].by /\ sent[s].signal}
SendAs(s, r) == sent[s] = NoRequest /\ sent' = [sent EXCEPT ![s] = r]
Loading(v)  == [v EXCEPT !.loading = TRUE, !.error = FALSE]
LoadOf(v, signal) ==
    [Request("load", IF v.page = "approvals" THEN v.filter ELSE "all") EXCEPT !.signal = signal]

(* The background of a dialog is inert. *)
At(p) == session = "ready" /\ view.page = p /\ view.dialog = Nil
Quiet == UNCHANGED <<session, server, shown>>

-----------------------------------------------------------------------------
(* The layout.                                                             *)

Enter(s) ==
    /\ session = "left" /\ session' = "checking"
    /\ SendAs(s, Request("session", Nil))
    /\ UNCHANGED <<view, server, shown, tangled>>

CheckSession(s) ==
    /\ session = "checking" /\ sent[s].kind = "session" /\ sent[s].answer # "none"
    /\ session' = IF sent[s].answer = "ok" THEN "ready" ELSE "left"
    /\ sent' = [sent EXCEPT ![s] = NoRequest]
    /\ UNCHANGED <<view, server, shown, tangled>>

(* Effects of the page before are cleaned up, those of the new one run.    *)
(* Requests that change something at the server may still be served.       *)
Changes == {"create", "rotate", "remove", "generate", "enable"}
Orphan(r) ==
    IF r.answer = "none" /\ r.kind \in Changes THEN [r EXCEPT !.by = FALSE] ELSE NoRequest
Unmounted(s) == IF sent[s].kind = "logout" THEN sent[s] ELSE Orphan(sent[s])
AtWork == {s \in Slots : \/ sent[s].kind \in {"create", "rotate", "remove", "test"}
                         \/ sent[s].then = "working"}

Mount(s, p) ==
    /\ session = "ready" /\ view.page # p
    /\ view' = Loading(Mounted(p))
    /\ Unmounted(s) = NoRequest
    /\ sent' = [t \in Slots |-> IF t = s THEN LoadOf(Mounted(p), TRUE) ELSE Unmounted(t)]
    /\ tangled' = (tangled \/ AtWork # {})
    /\ Quiet

SignOut(s) ==
    /\ session = "ready" /\ view.dialog = Nil
    /\ SendAs(s, Request("logout", Nil))
    /\ UNCHANGED <<session, view, server, shown, tangled>>

(* finally: the tab leaves the dashboard, whatever became of the request.  *)
SignedOut(s) ==
    /\ sent[s].kind = "logout" /\ sent[s].answer # "none"
    /\ session' = "left" /\ view' = Mounted(Nil)
    /\ sent' = [t \in Slots |-> IF t = s THEN NoRequest ELSE Unmounted(t)]
    /\ tangled' = (tangled \/ AtWork # {})
    /\ UNCHANGED <<server, shown>>

-----------------------------------------------------------------------------
(* What the user does on a page.                                           *)

(* ErrorState: the load is repeated, without a signal.                     *)
Retry(s) ==
    /\ session = "ready" /\ view.dialog = Nil /\ view.error /\ ~view.loading
    /\ view.page = "webhooks" => view.list.items = {}
    /\ SendAs(s, LoadOf(view, FALSE))
    /\ view' = Loading(view)
    /\ Quiet /\ UNCHANGED tangled

(* The effect of the filter before is cleaned up; the load it called off   *)
(* resets `loading` after the new one has set it.  If it was just reading  *)
(* the body of a refusal (readApiError), it sets its error as well.        *)
CalledOffNever == {}   \* defect: the effect has no cleanup
CalledOff == Called

ChooseFilter(s, f) ==
    /\ At("approvals") /\ f # view.filter
    /\ sent[s] = NoRequest \/ s \in CalledOff
    /\ LET v == [view EXCEPT !.filter = f, !.raced = Of({"load"}) # Called] IN
       /\ \E failed \in BOOLEAN :
             /\ failed => CalledOff # {}
             /\ view' = [Loading(v) EXCEPT !.loading = (CalledOff = {}), !.error = failed]
       /\ sent' = [t \in Slots |-> IF t = s THEN LoadOf(v, TRUE)
                                   ELSE IF t \in CalledOff THEN NoRequest ELSE sent[t]]
    /\ Quiet /\ UNCHANGED tangled

Create(s, i) ==
    /\ session = "ready" /\ view.dialog = Nil /\ ~view.busy
    /\ number[i] = 0 /\ \A t \in Slots : sent[t].of # i
    /\ SendAs(s, Request("create", i))
    /\ view' = [view EXCEPT !.busy = TRUE, !.error = FALSE, !.secret = NoSecret]
    /\ Quiet /\ UNCHANGED tangled
CreateKey(s, k)     == view.page = "keys" /\ k \in ApiKeys /\ Create(s, k)
CreateWebhook(s, h) == view.page = "webhooks" /\ h \in Hooks /\ Create(s, h)

(* Rows of the list have their buttons while the list is shown.            *)
Listed(i) ==
    /\ ~view.loading /\ i \in view.list.items
    /\ view.page = "keys" => ~view.error

OpenDialog(i) ==
    /\ At("keys") \/ At("webhooks")
    /\ Listed(i)
    /\ view' = [view EXCEPT !.dialog = i]
    /\ Quiet /\ UNCHANGED <<sent, tangled>>

CloseDialog ==
    /\ view.dialog # Nil
    /\ IF view.dialog = "setup" THEN ~view.busy ELSE view.working = Nil
    /\ view' = [view EXCEPT !.dialog = Nil]
    /\ Quiet /\ UNCHANGED <<sent, tangled>>

(* History: other work is under way when work on item i begins.            *)
Tangles(i) == \E s \in AtWork : sent[s].of # i \/ sent[s].kind = "create" \/ ~sent[s].by
Work(s, r, v) ==
    /\ SendAs(s, r)
    /\ view' = [v EXCEPT !.working = r.of, !.error = FALSE]
    /\ tangled' = (tangled \/ Tangles(r.of))
    /\ Quiet

(* revokeKey, deleteWebhook. *)
Remove(s) ==
    /\ view.dialog \in Items /\ view.working = Nil
    /\ Work(s, [Request("remove", view.dialog) EXCEPT !.closes = (view.heading = view.dialog)], view)

FreeAlways(h) == TRUE   \* defect: the button is not disabled
NotWorkedOn(h) == view.working # h

TestWebhook(s, h) ==
    /\ At("webhooks") /\ Listed(h) /\ NotWorkedOn(h)
    /\ Work(s, Request("test", h), view)

RotateSecret(s, h) ==
    /\ At("webhooks") /\ Listed(h) /\ NotWorkedOn(h)
    /\ Work(s, Request("rotate", h), [view EXCEPT !.secret = NoSecret])

LoadDeliveries(s, h) ==
    /\ At("webhooks") /\ Listed(h)
    /\ SendAs(s, Request("deliveries", h))
    /\ view' = [view EXCEPT !.heading = h, !.deliveries = Nil, !.fetching = TRUE,
                            !.error = FALSE, !.raced = (Of({"deliveries"}) # {})]
    /\ Quiet /\ UNCHANGED tangled

CloseDeliveries ==
    /\ At("webhooks") /\ view.heading # Nil
    /\ view' = [view EXCEPT !.heading = Nil]
    /\ Quiet /\ UNCHANGED <<sent, tangled>>

Start2faSetup(s) ==
    /\ At("settings") /\ ~view.loading /\ ~view.error /\ view.list.of = "off"
    /\ SendAs(s, Request("generate", "setup"))
    /\ view' = [view EXCEPT !.dialog = "setup", !.secret = NoSecret]
    /\ Quiet /\ UNCHANGED tangled

(* The code is one of a secret the user has put into the authenticator.    *)
Confirm2fa(s) ==
    /\ session = "ready" /\ view.dialog = "setup" /\ view.secret # NoSecret /\ ~view.busy
    /\ \E n \in shown : SendAs(s, [Request("enable", "setup") EXCEPT !.number = n])
    /\ view' = [view EXCEPT !.busy = TRUE]
    /\ Quiet /\ UNCHANGED tangled
-----------------------------------------------------------------------------
(* The server.                                                             *)

Answers(s, r) ==
    /\ sent[s].answer = "none" /\ sent[s] # NoRequest
    /\ sent' = [sent EXCEPT ![s] = IF r.by THEN [r EXCEPT !.answer = "ok"] ELSE NoRequest]
    /\ UNCHANGED <<session, view, shown, tangled>>

ServeSession(s) ==
    /\ sent[s].kind = "session" /\ signedIn
    /\ Answers(s, sent[s]) /\ UNCHANGED server
ServeLogout(s) ==
    /\ sent[s].kind = "logout"
    /\ Answers(s, sent[s]) /\ signedIn' = FALSE
    /\ UNCHANGED <<alive, number, factor>>

(* The lists, GET /auth/me of the settings, and reads of one webhook.      *)
Rows(p) == alive \cap (IF p = "keys" THEN ApiKeys ELSE IF p = "webhooks" THEN Hooks ELSE {})
ServeLoad(s) ==
    /\ sent[s].kind = "load" /\ signedIn
    /\ Answers(s, CASE view.page = "settings" /\ sent[s].by ->
                       [sent[s] EXCEPT !.of = IF factor.enabled = 0 THEN "off" ELSE "on"]
                    [] OTHER -> [sent[s] EXCEPT !.items = Rows(view.page)])
    /\ UNCHANGED server
ServeRead(s) ==
    /\ sent[s].kind \in {"deliveries", "test"} /\ signedIn
    /\ Answers(s, sent[s]) /\ UNCHANGED server

ServeCreate(s) ==
    /\ sent[s].kind = "create" /\ signedIn
    /\ Answers(s, [sent[s] EXCEPT !.number = 1])
    /\ number' = [number EXCEPT ![sent[s].of] = 1]
    /\ alive' = alive \cup {sent[s].of}
    /\ UNCHANGED <<signedIn, factor>>

ServeRemove(s) ==
    /\ sent[s].kind = "remove" /\ signedIn
    /\ Answers(s, sent[s])
    /\ alive' = alive \ {sent[s].of}
    /\ UNCHANGED <<signedIn, number, factor>>

ServeRotate(s) ==
    /\ sent[s].kind = "rotate" /\ signedIn /\ sent[s].of \in alive
    /\ number[sent[s].of] < MaxSecret
    /\ Answers(s, [sent[s] EXCEPT !.number = number[sent[s].of] + 1])
    /\ number' = [number EXCEPT ![sent[s].of] = @ + 1]
    /\ UNCHANGED <<signedIn, alive, factor>>

ServeGenerate(s) ==
    /\ sent[s].kind = "generate" /\ signedIn /\ factor.made < MaxSecret
    /\ Answers(s, [sent[s] EXCEPT !.number = factor.made + 1])
    /\ factor' = [factor EXCEPT !.made = @ + 1, !.pending = factor.made + 1]
    /\ UNCHANGED <<signedIn, alive, number>>

(* verifySync of the code with the pending secret.                         *)
ServeEnable(s) ==
    /\ sent[s].kind = "enable" /\ signedIn /\ sent[s].number = factor.pending
    /\ Answers(s, sent[s])
    /\ factor' = [factor EXCEPT !.enabled = factor.pending, !.pending = 0]
    /\ UNCHANGED <<signedIn, alive, number>>

Serve(s) ==
    \/ ServeSession(s) \/ ServeLogout(s) \/ ServeLoad(s) \/ ServeRead(s) \/ ServeCreate(s)
    \/ ServeRemove(s) \/ ServeRotate(s) \/ ServeGenerate(s) \/ ServeEnable(s)

(* Signing in, on the pages of Accounts; and a session that is revoked.    *)
SessionChanges ==
    /\ signedIn' = ~signedIn
    /\ UNCHANGED <<session, view, sent, alive, number, factor, shown, tangled>>

-----------------------------------------------------------------------------
(* Answers.                                                                *)

Reset(v, what) ==
    IF what = "busy" THEN [v EXCEPT !.busy = FALSE]
    ELSE IF what = "working" THEN [v EXCEPT !.working = Nil] ELSE v

Answered(s, kinds) == sent[s].kind \in kinds /\ sent[s].by /\ sent[s].answer = "ok"
Handled(s, v) ==
    /\ view' = v
    /\ sent' = [sent EXCEPT ![s] = NoRequest]
    /\ Quiet /\ UNCHANGED tangled

(* The handler awaits the load of the list before it resets its flag.      *)
Reloads(s, v, what) ==
    /\ view' = Loading(v)
    /\ sent' = [sent EXCEPT ![s] = [LoadOf(v, FALSE) EXCEPT !.then = what]]
    /\ Quiet /\ UNCHANGED tangled

Loaded(s) ==
    /\ Answered(s, {"load"})
    /\ Handled(s, Reset([view EXCEPT !.list = [of |-> sent[s].of, items |-> sent[s].items],
                                     !.loading = FALSE], sent[s].then))

Created(s) ==
    /\ Answered(s, {"create"})
    /\ Reloads(s, [view EXCEPT !.secret = [of |-> sent[s].of, number |-> sent[s].number]], "busy")

Removed(s) ==
    /\ Answered(s, {"remove"})
    /\ Reloads(s, [view EXCEPT !.dialog = Nil,
                               !.heading = IF sent[s].closes THEN Nil ELSE @], "working")

Tested(s) == Answered(s, {"test"}) /\ Handled(s, Reset(view, "working"))

Rotated(s) ==
    /\ Answered(s, {"rotate"})
    /\ Handled(s, [Reset(view, "working") EXCEPT
                      !.secret = [of |-> sent[s].of, number |-> sent[s].number]])

DeliveriesLoaded(s) ==
    /\ Answered(s, {"deliveries"})
    /\ Handled(s, [view EXCEPT !.deliveries = sent[s].of, !.fetching = FALSE])

(* A modal closed meanwhile shows nothing.                                 *)
Generated(s) ==
    /\ Answered(s, {"generate"})
    /\ view' = [view EXCEPT !.secret = [of |-> "setup", number |-> sent[s].number]]
    /\ shown' = IF view.dialog = "setup" THEN shown \cup {sent[s].number} ELSE shown
    /\ sent' = [sent EXCEPT ![s] = NoRequest]
    /\ UNCHANGED <<session, server, tangled>>

Confirmed(s) == Answered(s, {"enable"}) /\ Reloads(s, [view EXCEPT !.dialog = Nil], "busy")

(* Refused, or no answer: the catch blocks and finally.  A request without *)
(* an answer may still be served afterwards.                               *)
Failed(v, r) ==
    CASE r.kind = "load" -> Reset([v EXCEPT !.error = TRUE, !.loading = FALSE], r.then)
      [] r.kind = "create" -> [v EXCEPT !.error = TRUE, !.busy = FALSE]
      [] r.kind \in {"remove", "test", "rotate"} -> [v EXCEPT !.error = TRUE, !.working = Nil]
      [] r.kind = "deliveries" -> [v EXCEPT !.error = TRUE, !.fetching = FALSE]
      [] r.kind = "enable" -> [v EXCEPT !.busy = FALSE]
      [] OTHER -> v

Fails(s) ==
    /\ sent[s].by /\ sent[s].kind \notin {Nil, "session", "logout"}
    /\ view' = Failed(view, sent[s])
    /\ \E r \in {NoRequest, Orphan(sent[s])} :
          /\ sent' = [sent EXCEPT ![s] = r]
          /\ tangled' = (tangled \/ r # NoRequest)
    /\ Quiet

(* The layout's requests: CheckSession and SignedOut go on from here.      *)
FailsLayout(s) ==
    /\ sent[s].kind \in {"session", "logout"} /\ sent[s].answer = "none"
    /\ sent' = [sent EXCEPT ![s].answer = "failed"]
    /\ UNCHANGED <<session, view, server, shown, tangled>>

(* Nobody waits for it any more. *)
Forgotten(s) ==
    /\ sent[s] # NoRequest /\ ~sent[s].by
    /\ sent' = [sent EXCEPT ![s] = NoRequest]
    /\ UNCHANGED <<session, view, server, shown, tangled>>

-----------------------------------------------------------------------------
UserActs(s) ==
    \/ Enter(s) \/ SignOut(s) \/ Retry(s) \/ Remove(s) \/ Start2faSetup(s) \/ Confirm2fa(s)
    \/ \E p \in {"overview", "approvals", "keys", "webhooks", "settings"} : Mount(s, p)
    \/ \E f \in Filters \cup {"all"} : ChooseFilter(s, f)
    \/ \E k \in ApiKeys : CreateKey(s, k)
    \/ \E h \in Hooks : \/ CreateWebhook(s, h) \/ TestWebhook(s, h)
                         \/ RotateSecret(s, h) \/ LoadDeliveries(s, h)

PageActs(s) ==
    \/ CheckSession(s) \/ SignedOut(s) \/ Loaded(s) \/ Created(s) \/ Removed(s) \/ Tested(s)
    \/ Rotated(s) \/ DeliveriesLoaded(s) \/ Generated(s) \/ Confirmed(s)
    \/ Fails(s) \/ FailsLayout(s) \/ Forgotten(s)

DashNext ==
    \/ \E s \in Slots : UserActs(s) \/ Serve(s) \/ PageActs(s)
    \/ \E i \in Items : OpenDialog(i)
    \/ CloseDialog \/ CloseDeliveries \/ SessionChanges
DashSpec == DashInit /\ [][DashNext]_dashVars

-----------------------------------------------------------------------------
(* Properties.                                                             *)

(* When no load is under way, the approvals shown are those of the filter  *)
(* chosen last, in whatever order the answers to earlier choices came; only*)
(* a load that was retried, and cannot be called off, may still win.       *)
FilterShown ==
    view.page = "approvals" /\ Of({"load"}) = {} /\ ~view.error /\ ~view.raced =>
        view.list.of = view.filter

(* The deliveries shown are of the webhook in the heading, unless those of *)
(* another were asked for before they came.                                *)
DeliveriesShown ==
    view.heading # Nil /\ ~view.raced => view.deliveries \in {Nil, view.heading}

(* A signing secret the page asks to save is the one deliveries are signed *)
(* with, as long as the user works on one webhook at a time and no answer  *)
(* of the server is lost.  A deletion is work until its list is loaded.    *)
SecretShown ==
    view.page = "webhooks" /\ view.secret.of \in alive /\ ~tangled
        /\ (\A s \in Of({"rotate"}) : sent[s].of # view.secret.of) =>
            view.secret.number = number[view.secret.of]

(* No spinner turns and no button stays disabled without a request that    *)
(* will end it, whichever handler of the page set the flag last.           *)
NeverStuck ==
    /\ view.loading => Of({"load"}) # {}
    /\ view.fetching => Of({"deliveries"}) # {}
    /\ view.busy => \E s \in Of({"create", "enable", "load"}) :
                       sent[s].kind = "load" => sent[s].then = "busy"
    /\ view.working # Nil => \E s \in Of({"remove", "test", "rotate", "load"}) :
                                sent[s].kind = "load" => sent[s].then = "working"

(* Nobody is locked out: the secret that two-factor authentication is      *)
(* enabled with has been shown to the user, however often the set-up was   *)
(* started and in whatever order the secrets arrived.                      *)
NotLockedOut == factor.enabled # 0 => factor.enabled \in shown

PagesSound == FilterShown /\ DeliveriesShown /\ SecretShown /\ NeverStuck /\ NotLockedOut
=============================================================================
