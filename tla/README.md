# Nodsend approvals: TLA+ specifications and proofs

Nodsend is an approval service for software agents. An agent asks for approval
of an action, a human reviewer approves or rejects it through a link in an
email, the agent may cancel, a deadline may expire the request, and the outcome
is sent to the webhooks of the account. This directory holds TLA+ models of the
API server, the TLC configurations that check them, and proofs checked by TLAPS.
Paths below are relative to the repository.

    tlc -config LifecycleRace.cfg MCApprovalLifecycle.tla
    tlapm ApprovalLifecycleProofs.tla

## 1. The system

### Components

| Component (source) | State it keeps | Operations | Interacts with | Modelled by |
|---|---|---|---|---|
| Approval lifecycle (`api-server/lib/approval-lifecycle.js`, `routes/approvals.js`, `routes/decision-requests.js`) | rows Approval, ApprovalLog | decide, cancel, read with lazy expiry, background expiry | the two delivery outboxes, through rows written in its own transactions | ApprovalLifecycle |
| Approval creation (`routes/approvals.js`) | Approval: idempotency key, fingerprint; the monthly count | POST /v1/approvals | lifecycle, outboxes | ApprovalCreation |
| Webhook outbox (`lib/webhook.js`) | WebhookDelivery: status, attempts, nextAttemptAt | enqueue, drain, send, retry | receivers, ApprovalLog | Outboxes |
| Approval email outbox (`lib/email-outbox.js`) | EmailDelivery, with the encrypted decision token | enqueue, drain, send, retry, erase token | email provider, ApprovalLog | Outboxes |
| Authentication email outbox (`lib/auth-email-outbox.js`) | AuthEmailDelivery, with the encrypted code | drain, discard, give up, erase code | AuthCode, email provider | Outboxes |
| Accounts, codes, sessions (`routes/auth.js`, `lib/session.js`, `lib/auth-code.js`, `middleware/session-auth.js`) | User, AuthCode; sessions and challenges are signed tokens with a sessionVersion | signup, verify, resend, login, second factor, reset, logout | authentication outbox, every dashboard route | Accounts |
| Rate limiter (`middleware/rate-limiter.js`) | RateLimitBucket; a map in each replica outside production | count, fall back, refuse, clean up | every route | RateLimiter; the usage log is not modelled |
| API keys (`middleware/auth.js`, `routes/api-keys.js`) | ApiKey | create, revoke, look up | agents' routes | RateLimiter |
| Decision tokens (`lib/tokens.js`) | Approval.approvalToken | digest, start-up migration | decision routes | Startup |
| Webhook management (`routes/webhooks.js`) | Webhook | register, delete, test, rotate secret | lifecycle, webhook outbox | ApprovalLifecycle, Outboxes, Dashboard |
| Bootstrap (`server.js`, `lib/environment.js`) | none of its own | check the environment, migrate, listen, shut down | all of the server | Startup; failed requests and batches in the other modules |
| Python SDK (`sdks/python`) | the caller's replay guard | requests with retries, `wait()`, webhook verification | API | Clients |
| Framework integrations (`sdks/python/src/nodsend/integrations`) | none; flows and threads are the application's | run a function only after approval, pause and resume | Python SDK | Clients |
| TypeScript SDK (`sdks/typescript`) | none | create and retrieve, with a time-out and without retries | API | Clients |
| OpenClaw plugin (`integrations/openclaw`) | none | ask for approval of a tool call and block it | TypeScript SDK | Clients |
| Decision page (`app/a`) | page state | load, approve, reject, try again | decision routes | Clients |
| Dashboard (`app/dashboard`, `app/lib/api.ts`, `app/components/dashboard`) | state of the layout and of the page that is mounted; requests in flight | sign in and out, navigate, filter, retry, create, revoke, test, rotate, list deliveries, set up the second factor | Accounts' and management routes | Dashboard |
| Rest of the website, contact form, discovery documents (`app`, `public`, `routes/contact.js`, `routes/discovery.js`) | none | presentation | API | not modelled |

### What is hard, and what correct means

*Lifecycle.* A decision, a cancellation and two kinds of expiry compete for one
row, each with an await between its check and its update. The status column is
changed by compare-and-set. Correct means: one outcome per approval, final, in
the row, the trail and the outbox alike; a decision before its deadline; what a
client was told stays true.

*Creation.* The key is looked up outside the transaction, counted inside it and
enforced by a unique index, whose violation is handled in a catch block. Correct
means: a key creates one approval, all successful repetitions hear of that one,
and the quota of a month holds.

*Outboxes.* Each replica has a timer that drains them. A row is leased for 30
seconds by a compare-and-set; a worker may be slower than its lease, may die, or
may find the row replaced or deleted. Correct means: a running lease is
exclusive; nothing counts as delivered that nobody took; raw tokens and codes
are kept only as long as needed; every delivery settles.

*Accounts.* Each handler awaits between what it reads and what it writes: two
requests for a code, a guess and a claim, a login and a reset, a login and the
enabling of the second factor overlap. Correct means: of each type one usable
code, whose email has not been called off; a code claimed once; guesses bounded;
a reset that ends every login checked before it; no session from a password
alone once the second factor is on.

*Start and limits.* Replicas start while others serve and create approvals, and
die at any time. Correct means: when one serves, all links work; starting and
stopping end. A window admits at most its limit, across replicas, late queries,
failing queries and the cleanup of old counters.

*Clients.* A request can be served after its sender has given up, twice, or not
at all; deliveries come in any order and more than once. Correct means: one
approval per operation; nobody acts upon an outcome that is not so, or is told
one; a paused thread resumes once; every call ends.

*Dashboard.* A page awaits several requests at once, its handlers share flags
such as `workingId` and `error`, only the loads of an effect can be called off,
and the user may leave while a change is under way. Correct means: the list is
that of the filter chosen last and the deliveries are those of the heading; a
secret the user is asked to save is the one in use; no spinner or disabled
button outlives its request; nobody enables a second factor they never saw.

`PROJECT.json` lists each hazard at its line with the properties that cover it,
and a note where none does.

## 2. The modules

| Module | Content |
|---|---|
| `ApprovalContract` | abstract table: pending, then one of four outcomes, written with its notices |
| `ApprovalLifecycle` | the handlers and the expiry worker; implements `ApprovalContract` |
| `ApprovalLifecycleProofs` | its proofs |
| `CreationContract` | abstract creation: each request reads its clock and is served at one later instant |
| `ApprovalCreation` | POST /v1/approvals; implements `CreationContract` |
| `ApprovalCreationProofs` | its proofs |
| `DeliveryContract` | abstract outbox: one worker at a time, a limited number of tries, delivered only if taken |
| `Outboxes` | the lease protocol and the three ways to record an attempt; implements `DeliveryContract` |
| `OutboxesProofs` | its proofs |
| `AccountContract` | abstract account: four ways in, codes that let in once, two events that end what was begun before |
| `Accounts` | the handlers of /v1/auth and the session check, for one account; implements `AccountContract` |
| `AccountsProofs` | its proofs |
| `Startup` | start, migration of decision tokens, service and end of replicas |
| `RateLimiter` | API key lookup and the fixed-window counter, shared and local |
| `ServerProofs` | proofs about `Startup`, `RateLimiter` and the two side by side |
| `Clients` | agents, webhook consumer and decision page around an instance of `ApprovalContract` |
| `ClientsProofs` | its proofs |
| `Dashboard` | one browser tab: layout, pages, requests in flight, and what the server does with them |
| `DashboardProofs` | its proofs |
| `MCApprovalLifecycle`, `MCApprovalCreation`, `MCAccounts`, `MCServer`, `MCClients` | subscriptions, symmetry, parts and further constants for TLC |

Definitions marked "defect" next to a real one are deliberately wrong variants.
Nothing uses them. Put in the place of the definition that follows, each of them
makes a property fail, which shows that the property depends on that code.

### Granularity

One step is one database statement, or the code between two awaits. A
transaction is one step where its first write is a compare-and-set: under Read
Committed that update takes the row lock and evaluates its condition on the
latest committed row, nothing the transaction does afterwards depends on other
rows in a way another process can change, and nothing is visible before the
commit. This holds for `transitionDecision`, `expireApproval`, the cancellation
and the completion of an approval email. The completion of a *webhook* is not
one transaction in the code (update, then a log row), and it is two steps in the
model.

One thing is idealised by this. The webhooks to notify are read by a later
statement of the same transaction, which under Read Committed sees webhooks
registered or deleted since the first; in the model status change and audience
are of one instant (`Enter`, `Audience`). So `OutcomeIsAnnounced` and
`NoticesMatchStatus` speak of the webhooks at that query.

Creation runs at Serializable, and is split: the transaction takes its snapshot
at its first query, and inserts later. With a `webhook_id` that query is the one
for the webhook (`Open`), and the clock is read after it; without, it is the count
(`Count`), and the clock is read before it (`ReadClock`). PostgreSQL must abort an
insertion whose count missed another committed creation, because the two then
form a cycle of dependencies; it may abort others. So `Insert` requires an
up-to-date snapshot, and `SerializationFailure` is possible at the count and at
the insertion, with a conflict or without.

### Lifecycle: state and actions

`status`, `expiresAt`, `decidedAt`, `cancelKey`, `hookOf` are columns of
Approval; `trail` its log rows about the life cycle; `outbox` the delivery rows,
as triples of webhook, approval and event. An event is named by the status it
announces. A request has a program counter, a copy of the status it read
(`seen`), its time stamp (`at`) and its reply.

| Action | Code |
|---|---|
| `ReadRow`, `JudgeDecision`, `Stamp`, `CommitDecision` | decision routes and `transitionDecision` |
| `ReadRow`, `JudgeRead` | GET by the agent and by the reviewer |
| `CommitExpiry`, `ExpireNext` | `expireApproval`, for a request and for the worker |
| `ReadRow`, `CommitCancel`, `Reread` | cancellation |
| `SelectDue`, `ExpireNext`, `AbortBatch` | `expireDueApprovals` |
| `Create`, `RegisterWebhook`, `DeleteWebhook` | the rows others write; `Create` is refined by ApprovalCreation |
| `Fail` | a statement fails, or the server dies |

### Creation: state and actions

`Find` is the lookup before the transaction; `Open`, `ReadClock`, `Count`,
`Insert` are its beginning with the query for a webhook, the clock, the count and
the insertion; `KeyViolation` and `Recover` the unique violation and the catch
block; `SerializationFailure` the retry loop. The answer to a committed
insertion may be lost. A body is a fingerprint, which includes the `webhook_id`:
`WithWebhook` has the bodies that name one. `since` is `monthStart`, which may be
older than the month of the insertion and, without a webhook, older than the
snapshot.

### Outboxes: state and actions

`kind` says which outbox a behaviour is about, so one module and one run cover
all three. Time is relative: `wait[d]` is `nextAttemptAt` minus the clock, in
units of ten seconds, which keeps the state space finite without bounding time.
A batch remembers the clock of its selection: `due[w]` holds the rows whose
`nextAttemptAt` still precedes that instant, which is what the claim compares,
and every write of `nextAttemptAt` removes the row from it. `overrun` is a history
variable: deliveries of which a lease once ran out before its holder was done.
Properties of exclusive leases exclude those deliveries, others must hold for
them too.

| Action | Code |
|---|---|
| `Enqueue`, `Delete`, `Spend`, `Replace` | rows written by lifecycle, creation and accounts; cascade of a webhook's deletion; end of a code |
| `Select`, `Claim`, `Check`, `Send` | the drain functions up to the result of the send |
| `WebhookDelivered/Logged/Throws/Failed/Gone` | completion in `drainWebhookOutbox`, its catch block included |
| `EmailDelivered/Failed`, `AuthDiscarded/Delivered/Failed` | completion of the emails |
| `Test` | POST /v1/webhooks/:id/test, which leases its own row |
| `Abort` | an exception or a crash between two steps |

### Accounts: state and actions

`user` is the row of one account, `codes` the table AuthCode in the order of
`createdAt` with what became of each code's email, `cookie` and `challenge` what
each client holds. A token is its `sessionVersion` and, for the properties, how it
was earned and how many resets there had been by then. A password is right or
wrong; whoever logs in knew the one that was valid when the user was read.

| Action | Code |
|---|---|
| `Signup`, `CreateUser` | POST /signup up to the unique email |
| `ResendVerification`, `ForgotPassword`, `IssueBegin`, `IssueCommit`, `IssueConflict` | the requests for a code and the serializable transaction of `createAuthCode` with its three attempts |
| `SubmitVerification`, `SubmitReset`, `ConsumeAuthCode`, `RecordFailedAttempt`, `VerifyEmail`, `ResetPassword` | the two uses of a code: read, check, then claim in a transaction |
| `Login`, `AnswerLogin`, `LoginSecond`, `Logout`, `SessionRequest` | sessions; between `Login` and `AnswerLogin` bcrypt runs |
| `Generate`, `StorePending`, `Confirm`, `Enable` | /2fa/generate and /2fa/enable |
| `Expire`, `Fail` | the life of a code; a failing query |

The serializable transaction is split at its first query as in the creation. It
commits only if the codes of its type are those it read, and may be aborted at
any time.

### Startup and RateLimiter: state and actions

A decision token is a number: how often it has been hashed. The prototype's are
0, those of today's server 1, and 2 would be a link that no lookup finds.
`ReadPage`, `HashOne` and `ReadNothing` are the loop of `migrateLegacyApprovalTokens`
(`TakePage` is its query, with the page it may return and the cursor it moves), `Boot`,
`Signal`, `Exit`, `Crash` the life of the process, `CreateApproval` what other
replicas add meanwhile.

`Authenticate` looks the key up and takes the time of the window; `CountRequest`
is the upsert; `QueryFails` leads to the 503 of production or to `CountLocally`;
`Sweep` is the cleanup, with the time of the request that started it. The unit
of time is a window. The code keeps a bucket for an hour after its window, or
two windows if that is longer; the model keeps it for `Keep` windows from the
beginning of its own, so `Keep` is three or more in the code, and assumes
that no query is still on its way when its bucket may go (guard of `Tick`).

### Clients: state and actions

The service is `ApprovalContract`: a request is served in one step. Around it:
`call` (the one call of each agent), `late` (requests nobody waits for any more),
`tab` (decision pages), and `known`, `handling`, `thread` (the application that
receives webhooks). `row` has the keys an approval was created and cancelled with.

| Action | Code |
|---|---|
| `CallGuarded`, `ReceiveGuard`, `Poll`, `Judge`, `WaitOn`, `Run` | `guard_callable` with `wait()` and `require_approved` |
| `RequestFeedback`, `ReceiveFlow` | CrewAI provider; `approval_kwargs_from_interrupt` and the application's storage |
| `CallTool`, `ReceiveGate`, `GateFails` | OpenClaw hook on the TypeScript SDK |
| `Cancel`, `ReceiveCancel` | `approvals.cancel` |
| `AttemptFails`, `Restart` | the retry loop of `_request`; end and new start of an agent |
| `Serve`, `ServeLate`, `ServeTab`, `Expire` | the service, in time, late, for the page, and by itself |
| `Deliver`, `Handle`, `AppCrash` | `verify_webhook` with a durable replay guard, resumption, crash |
| `Open`, `Load`, `LoadAgain`, `Decide`, `Decided` | the decision page |

### Dashboard: state and actions

`view` is what the `useState` hooks of the mounted page hold, `sent` the requests
in flight with what came back for each. A request is answered in one step of the
server (the races inside its handlers are other modules' subject) and handled in
another, in any order. Every request may fail, and one that failed for the page
may still be served (`Orphan`). Secrets are numbered: `number[h]` secrets have
been made for webhook `h`, and the last one signs. `raced`, `tangled` and `shown`
are history: a request that could not be called off was overtaken; work on a
webhook overlapped other work; TOTP secrets the user has seen.

| Action | Code |
|---|---|
| `Enter`, `CheckSession`, `SignOut`, `SignedOut` | `layout.tsx` |
| `Mount` | navigation: cleanup of one page's effects, first load of the next. The overview's three requests count as one |
| `ChooseFilter`, `Retry`, `Loaded` | the lists, with and without a signal |
| `CreateKey`, `CreateWebhook`, `Created` | creation; its handler awaits the reload before `finally` |
| `OpenDialog`, `CloseDialog`, `Remove`, `Removed` | `ConfirmDialog`, `revokeKey`, `deleteWebhook` |
| `TestWebhook`, `RotateSecret`, `LoadDeliveries`, `CloseDeliveries` and their answers | `webhooks/page.tsx` |
| `Start2faSetup`, `Generated`, `Confirm2fa`, `Confirmed` | `settings/page.tsx` |
| `Serve...` | the routes behind them |
| `Fails`, `FailsLayout`, `Forgotten` | the `catch` blocks and `finally`; an answer nobody waits for |

## 3. The runs

| Run | Instance | Shows |
|---|---|---|
| `LifecycleRace` | 1 approval, 1 webhook, 3 requests of any kind, 1 worker, 2 keys, clock to 2 | trail, deadline, truth of replies, single winner |
| `LifecycleFanout` | 2 approvals, 2 webhooks that come and go, 2 requests, 1 key, clock to 1 | outbox, finality, the safety of `ApprovalContract` |
| `LifecycleLive` | 3 approvals, batches of 2, 1 request, no webhooks, no symmetry | nothing stays pending; `ApprovalContract` with its liveness |
| `LifecycleRefusals` | 1 approval, 3 requests | findings 1 and 2, in one behaviour |
| `Creation` | 3 requests, 3 keys, 2 bodies (with and without a webhook), 2 months, quota 2, 2 attempts | quota, agreement of repeated requests, `CreationContract` with its liveness |
| `CreationRepeats` | 3 requests, 1 key, 2 bodies, quota 1 | findings 3 and 4, in one behaviour |
| `Outboxes` | each outbox; 1 delivery, 2 workers, 1 test request, 2 attempts, lease of 2 | exclusive lease, honesty, secrets, trail, finality, settling; `DeliveryContract` |
| `OutboxBatches` | webhooks and approval emails; 3 deliveries, 1 worker with batches of 2, 1 attempt, lease of 1 | no delivery starves behind others, aborted batches and deleted webhooks included |
| `OutboxErase` | the authentication outbox, 2 workers | finding 5 |
| `Accounts` | 2 clients, 2 codes, 1 TOTP secret, 2 guesses, 2 changes of version; and a tab with 2 requests in flight, 2 webhooks, 1 key, 1 filter beside "all", 3 secrets | usable codes, claims, sessions after a reset, second factor; `AccountContract`; the pages of the dashboard |
| `Server` | 2 replicas with 3 approvals in pages of 2; and 2 replicas, 2 requests, 1 key, limit 1, 3 windows | links work, start and stop end; the limit of a window |
| `Clients` | 2 agents with 1 retry, 1 operation, 2 approvals, 1 endpoint, 1 page, 3 polls, 1 new start | nobody misled, one approval per operation, one resumption, calls end |

*Why the bounds are enough.* In the lifecycle, a race needs the winner, the
loser and someone who reads in between: three requests and a worker. A clock of
2 with deadlines of at most 1 lets an approval expire before, between and after
the steps of a handler. Two approvals and two
webhooks are needed for scoping, three approvals for a batch smaller than the backlog. In
the creation, a quota of two is the smallest that the rows of two months can fill
together; it takes two requests to fill it and a third that counts them, and
three keys to insert one row too many. Two attempts are one retried and one
rethrown; the three of the code are in `CreationRepeats` and in the proofs. Names
of requests and keys are interchangeable, so the initial states are one of each
kind (`MCSpec`), which unlike a symmetry set is sound for liveness. In the outboxes two
workers and a test request can overtake each other on one delivery, twice; a
lease of 2 can be over, half over or fresh; three deliveries and batches of two
make a batch that is smaller than the backlog and has a rest to lose. Races of
two workers over several deliveries are left to the proofs, which hold for any
number of either: safety only, so that `Settles` is not checked for them.

In `Accounts` every race is between two handlers, and the third party is the
clock or a crash; two codes are one replaced by another or one of each type; two
changes of version are two resets or a reset and the second factor. In `Server`
three approvals in pages of two are a full page and a last one. Its two parts
share no variable, so they are checked side by side and not multiplied.
`Clients` is checked in three parts as well (`MCClients`): agents side by side,
one agent with a new start, and one agent with the application. What the parts leave
out in combination is two agents *and* webhooks: the application knows approvals, not
agents.

The dashboard shares the run of `Accounts`, page by page (`MCAccounts`): the
approvals, the keys with the overview, the settings, the webhooks with one of
them at the start and creation, rotation and tests, and the webhooks with both,
deliveries and deletion. Two requests in flight are enough for one to overtake the other;
a third secret is what the second of two overlapping rotations makes. The proof
is about `DashSpec`, where all pages and everything on them combine and any number
of requests is in flight.

In `Clients`, `Timeout = 2` lets an outcome arrive between polls and at the last one.

*Bounds that are not in the code*: `MaxCodes`, `MaxVersion`, `MaxWindow`,
`MaxStarts`, `MaxSecret`, one cleanup at a time, `MaxTime`, `MaxTTL` (clock and longest
deadline), `MaxMonth`, and the sizes of the sets. `BatchLimit`, `BatchSize`, `MaxAttempts`,
`Lease`, `Keep`, `Limit`, `MaxRetries` and `Timeout` are constants of the code with smaller values. Deadlock
checking is off where requests are handled once and the system then stops.

*Fairness.*
- Lifecycle: the clock runs, the interval timer keeps firing (weak), and the
  worker's expiry does not fail each and every time (strong). Aborted batches
  are allowed infinitely often. An approval whose expiry *always* throws is
  excluded by this: since the worker takes the oldest rows first and one
  exception ends the batch, such a row would starve those behind it.
- Creation: a handler that has started is run to its end (weak). `Fail` has no fairness.
- Outboxes: the clock and the timers (weak); for each worker, a step that can be
  attempted again and again does not throw each time (strong). It has to be asked of
  every replica: one that claims a row and dies every time keeps taking it from
  the others, since an attempt is counted only when it is recorded. Test
  requests have no fairness.
- Accounts: a handler that has started goes on (weak); no property needs it.
- Startup: a replica that has started or was told to stop goes on (weak).
  Booting, signals and crashes have no fairness.
- Clients: an agent goes on with its call (weak), since its HTTP client ends
  every attempt by a time-out. Nothing is asked of service, network,
  application and reviewer.

## 4. Where documentation and code disagree

Findings 1 and 2 are the two halves of `SomeRefusalAccurate`, 3 and 4 those of
`SomeRepeatServed`: the run shows one behaviour in which both statements fail.

1. `GoneMeansExpired`: a decision that found the approval due is answered 410
   "expired" whatever row the expiry then returns, so also when a cancellation
   committed first (`api-server/lib/approval-lifecycle.js:17`; the FAQ promises
   "the already-decided state", `app/faq/page.tsx:13`).
2. `ConflictNamesOutcome`: a cancellation that lost the race reports the copy it
   read at first: "Approval has already been pending."
   (`api-server/routes/approvals.js:186`).
3. `ReuseIsConflict`: two concurrent creations with one key and different
   bodies: the loser's 409 is thrown inside the catch block and becomes a 500
   (`api-server/routes/approvals.js:98`).
4. `RepeatIsNotRefused`: a repeated creation that overlaps the original, which
   used up the quota, is answered 402 and not with the original result
   (`api-server/routes/approvals.js:253`).
5. `CodeRemovedOnDelivery`: when a worker past its lease records a failure, the
   success of the worker that took over finds the row no longer processing; the
   code is kept and mailed again (`api-server/lib/auth-email-outbox.js:77`,
   against the comment in `api-server/prisma/schema.prisma:212`).

Observed while modelling, without a statement of the repository against them: the
503 at `routes/approvals.js:279` is unreachable, since the third serialization
failure is rethrown; a delivery whose webhook is deleted while it is sent makes
the catch block throw, which ends the batch; attempts are counted when recorded,
so a crash during a send is not counted; an approval email that runs out of
attempts keeps its encrypted token, and one revived by a late failure has none.

- A creation without a `webhook_id` reads the clock before the count that takes
  the snapshot (`routes/approvals.js:251-253`). If the month turns in between and
  somebody else's creation commits in the new month, rows of two months are counted
  against one limit: with a limit of 2, one row in each of the two months is enough
  for a 402, though at no instant a month was full. So the request is not served as
  if at one instant, and `CreationContract` does not promise it: a refusal is by
  the clock the request has read, at some later instant. With a `webhook_id` the
  snapshot is the older of the two, and no such refusal exists: what it counts from
  its month on was there when it read the clock. The quota itself and the keys are
  not affected.

- `POST /v1/auth/2fa/enable` updates the user whatever has happened since the
  session was checked, and signs a session of the new version. If a reset commits
  in between, the session that was valid before it lives on in the new one; the
  page says "Your previous sessions have been invalidated." (`app/forgot-password`).
  `ResetEndsLogins` states the exception.
- `verify_webhook` consumes the replay guard before the event is acted upon. A
  consumer that crashes in between loses the event for good: its retries are
  refused as replays and the flow stays paused. So does a flow whose approval
  expires or is cancelled, or is decided before the flow is stored.
- OpenClaw's message for a pending approval says "Retry after the reviewer
  decides", but the retried call is blocked as well.
- A load that is called off resets `loading` in its `finally` after its successor
  has set it (`app/dashboard/approvals/page.tsx:33`): until the new list comes, the
  old one is shown under the new filter. `FilterShown` speaks of the time after. If
  it was just reading the body of a refusal, `readApiError` swallows the abort and
  its error is set as well (`app/components/dashboard/types.ts:80-87`,
  `app/dashboard/approvals/page.tsx:27,32`); it then stays beside the new list,
  since a load that succeeds does not clear it.
- On the webhooks page every handler clears the one `workingId` it may not have set
  (`app/dashboard/webhooks/page.tsx:81,98,116`), so that a webhook can be rotated
  twice at once; if the answers change places, the page asks to save a secret that
  is not in use any more. Creating and rotating write the same notice. `SecretShown`
  therefore speaks of users who work on one webhook at a time (`tangled`).
- `Retry`, and the reload after a creation or removal, cannot be called off: an
  older list may come last and show a revoked key as active.
- Signing out leaves the dashboard even when the request fails
  (`app/dashboard/layout.tsx:84`); the cookie is then still good.
- The decision page shows an error, without a retry, when the answer to a
  decision is lost, although the decision may be recorded.

## 5. What is proved

All theorems hold for every value of the constants that satisfies the named
assumptions (`LifecycleAssumption`, `CreationAssumption`, `OutboxAssumption`,
`AccountAssumption`, `StartupAssumption`, `LimiterAssumption`, `ClientAssumption`,
`DashboardAssumption`). These state the types of the constants, that null values
are not real values, that limits the code fixes above zero are, that clients,
deliveries and approvals are finitely many, and that the last two are numbers in
the order of their creation or of their ids. TLC evaluates them on every run.

**Lifecycle** (`ApprovalLifecycleProofs`). `TypeCorrect`, `HandlersCorrect`, `TrailCorrect`,
`NoticesCorrect`, `DeadlineCorrect`, `RepliesCorrect`, `WinnerUnique`,
`CancelKeyCorrect`, `OutcomeNeverChanges`, `OutcomesAnnounced`,
`ImplementsSafety`. The inductive invariant `IndInv` joins the invariants with
`HandlersSound`. The properties are not inductive alone: that an approval is
told expired only after its deadline needs that a handler on its way to the
expiry has seen it due, and that a refusal names the true outcome needs that a
*copied* outcome is final. The proof reduces every action to one step on one row
(`EveryRowStep`): created, ended by one of four outcomes, or unchanged. Each part
of the invariant, and the refinement, then follows from that lemma; only replies need
the handlers one by one (`HandleSound`).

**Creation** (`ApprovalCreationProofs`). `TypeCorrect`, `QuotaCorrect`,
`KeysCorrect`, `RepliesAgree`, `ImplementsSafety`. The invariant: the table is
finite, every snapshot is contained in the table, a request counts with a clock it
has read, and at `insert` the snapshot had room from `since` on. A fresh snapshot *is* the table, so there is room for one more
in any later month as well, which covers the turn of the month. The refinement
maps the transaction to its insertion, `ReadClock` to that of the contract, a
refusal to the count (the snapshot is contained in the table, so what is full there
from `since` on is full), and the rest to stuttering. A creation is within the quota
of the current month at its insertion; a refusal is only by the clock of the request.

**Outboxes** (`OutboxesProofs`). `TypeCorrect`, `LeaseCorrect`,
`DeliveredCorrect`, `SecretsCorrect`, `TrailCorrect`, `FinalCorrect`,
`OutboxKeepsContract`.
`LeaseExclusive` is inductive together with `TypeOK`, and is what the
other theorems rest on. Its proof knows four effects of a step on a delivery: nothing
(`Untouched`), released (`Release`), kept by its holder with a new state
(`Keep`), taken by a claim or test (`Take`). `Take` is the heart: a claim needs
the row in `due`, a running lease has removed it from everybody's `due`, hence
nobody else holds it. `FinalCorrect` is an action property from the same
invariants. `OutboxKeepsContract` is the refinement of `DeliveryContract`: batches,
the clock and the state of a send are gone, a delivery is open or has ended and
knows who works on it. It needs one more invariant, `Orderly`: nobody works on
a row that does not exist, each end belongs to its outbox, and an authentication
email that is to be retried has attempts left. Of a delivery whose lease ran out,
the contract says only what the code really keeps to, outbox by outbox.

**Accounts** (`AccountsProofs`). `AccountTypeCorrect`, `OneCodeAtATime`,
`CodesGuard`, `ResetsEndLogins`, `SecondFactorSound`, `EndingsLast`,
`AccountKeepsContract`. The invariants
are not inductive: they speak of what is accepted now, while the harm is done by a
request that has read something before. `IndInv` therefore says of every request in
flight that what it read belongs together (`Current`): the version it holds is the
account's only if no reset has come since, and a login that found the second factor
off is of the current version only while it still is off. A version that moves on
settles every older token at once, which is the argument of `ResetsEndLogins`.
`OneCodeAtATime` rests on the commit check of the serializable transaction: it
writes only if the codes of its type are those it read, so what it replaces is all
that was usable. `EndingsLast` is an action property (`EndedForGood`): from `IndInv`
no token is of a version ahead of the account's, and no step lets the version go
back (`Kept`), so that what was refused once stays refused. It is not among the
properties of a run.

`AccountKeepsContract` gathers these promises in one statement that also says that
nothing else happens: of handlers that overlap, each takes effect at one instant.
`AccountContract` has no versions, tokens, attempts or transactions. A
type of code is usable if some code of it can be claimed; a session, a
challenge or a login counts while its version is the account's. A claim takes the
type out of `usable` because there is only one such code (`MarkedUsable`, from
`OneUsableCode`), an issue puts it in because it replaces what it found
(`IssuedUsable`). A reset and the enabling of the second factor move the version
beyond every token there is (`VersionMoves`), so that all sessions, challenges and
logins end in that one step, as the contract has it. The last case is the answer to a
login whose version is outdated: it overwrites a cookie that may be good, and is
the contract's `Leave` (`AnswerAllowed`).

That codes and versions stay within the bounds of the model
needs a count of the requests under way (`RoomLeft`), hence the finite set of
clients.

**Startup** (`ServerProofs`). `StartupTypeCorrect`, `LinksCorrect`, `StartsGetOn`. `Progress`
says how far each replica is: up to its cursor everything is hashed, or on its
page as it was in the clear; a page that is not full is the last. What one replica has
hashed stays hashed for the others (`Kept`), and nobody creates tokens in the clear,
so that a replica that has read an empty or short page may serve. `StartsGetOn` proves the
action property `StartsAdvance`, the half of `StartsAndStops` that needs no fairness:
each step of a replica that starts makes its page shorter or moves its
cursor to the id of a later approval, and no step of another takes that back.

**RateLimiter** (`ServerProofs`). `LimiterTypeCorrect`, `WindowsCorrect`.
While a window can still be counted in, its counter is at least what it has
admitted, in the table and in each replica's map; later nobody asks. That a late
query never meets a counter that was swept is `ClocksSound`, which relates the
clock of each request and of each cleanup to `Keep`. `ServerTypeCorrect` is about
`MCServer`, in which the two parts take turns: each step of one leaves the
invariant of the other alone (`StartupPart`, `LimiterPart`).

**Clients** (`ClientsProofs`). `ClientTypeCorrect`, `NobodyIsMisled`, `AskedOnce`,
`ThreadsResumedOnce`, `ClientsKeepContract`, `CallsGetOn`. One conjunct per party: the service's rows
carry the keys of their operations, requests on their way carry the right key,
what an agent, a page or the application has read of an outcome is so. Outcomes are
final (`Forward`), so each conjunct survives every step of the others.
`ClientsKeepContract` closes the circle with `ImplementsSafety`: what the clients
rely on is what the handlers are proved to do. `CallsGetOn` proves the action property
`CallsAdvance`, the half of `CallsEnd` that needs no fairness: each step of a call
uses up an attempt, a stage or a poll, or ends it, so that there are only so many.

**Dashboard** (`DashboardProofs`). `DashboardTypeCorrect`, `PagesCorrect`, about
`DashSpec`. `PagesSound` promises nothing of a `raced` view, nor of a secret
once the history is `tangled` (section 4): the theorem has the same exceptions.
Each conjunct of `PagesSound` is strengthened to say what the requests in flight
will do when they are answered: those that are waited for and not `raced` ask what the page is about
(`Filtered`, `Headed`), a code is sent only for a secret that was shown
(`ShownFirst`), every flag has a request that resets it (`Ends`), and, as long as
no work overlaps, at most one request works on a webhook and an answer that is on
its way holds the newest secret (`Known`, `Current`). The last is the long part:
`LeavingKeeps`, `WorkBegins`, `CreateKeeps` and the lemmas after them follow one
request from the click to the notice.

**Only model-checked**: `PendingEventuallyEnds`, `Settles`, `StartsAndStops`,
`CallsEnd` and the liveness of `ApprovalContract` and `CreationContract`, since
fairness is beyond this prover (`DeliveryContract` and `AccountContract` are safety
only). Conversely, `EndedForGood`,
`StartsAdvance`, `CallsAdvance`, `OneApprovalPerKey` and `CancelKeyUnique` are
proved and not among the properties of a run: the first three hold beside the
liveness or the invariants that are, the fourth follows from what `CreationContract`
promises, and the fifth is part of the invariant of the lifecycle. The runs `Accounts`,
`Server` and `Clients` restrict what may be combined, so as to stay small; the
theorems are about the specifications without these restrictions. The refuted
statements of section 4 are about small instances by nature.

## 6. What is not modelled, and why

- Clocks of different replicas agree in the models. A skew would let one replica
  expire what another may still decide; the database compares with the clock of
  whoever asks.
- Parsing, validation, URL classification, signatures, encryption, HTML and
  wording: pure functions or cryptography, with no state to interleave. A
  ciphertext either exists or does not.
- List, search and log queries change nothing.
- Expiry of sessions and challenges: it only removes what is otherwise accepted.
- The usage log: one row per answered request, read by nothing in the server.
- Of the dashboard: search, metrics, menus, wording, the focus of dialogs, and the
  login form, a client of `Accounts`. Several tabs share nothing but the session,
  which may end at any time in the model (`SessionChanges`). Retried loads and
  deliveries asked for twice may show what is older; the properties name these cases
  instead of promising them.
- Contact form, discovery documents, blog and static pages keep no state.
- Digests of redacted arguments, which make operation keys: `Clients` starts from
  the operations they tell apart.

## 7. Plan

1. The pages of several tabs and the login form, if the properties gain from it.
2. A clock per replica in the lifecycle, to say what a bounded skew costs.

An abstract specification of the rate limit is not planned: a bag of admissions per
window would say what `WindowRespected` says.

`Create` of the lifecycle and the table of `CreationContract` describe one row;
composing both into one instance is not planned, since the contract already
makes creation atomic.
