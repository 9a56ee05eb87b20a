# TLA+ verification of raisin

raisin is an email platform written in Go: an HTTP API accepts emails,
broadcasts, contacts and webhooks and stores them in Postgres; Asynq (on Redis)
carries the work to worker processes; the workers hand messages to Amazon SES
and consume the notifications that SES sends back, pass events on to webhooks,
automations and live streams, and take in mail. Almost no operation of it is
a single transaction. A request is a sequence of SQL statements, enqueues and
calls to SES; other requests, workers and notifications come between any two of
them; a process can die after each; and many errors are dropped on purpose. Unit
tests see one such sequence at a time. The modules here look at all of them.

Contents:

1. [The system](#1-the-system): components, state, interactions, what is hard
2. [The modules](#2-the-modules): what models what, and how
3. [The runs](#3-the-runs): what TLC checks, bounds, fairness
4. [The theorems](#4-the-theorems): what TLAPS proves, and along which argument
5. [Where code and documentation differ](#5-where-code-and-documentation-differ)
6. [What is not promised](#6-what-is-not-promised)
7. [What is not modelled, and the plan](#7-what-is-not-modelled-and-the-plan)

To repeat it: `tlc -config EmailSendDeep.cfg MCEmailSend` for a run, `tlapm
EmailSend_proofs.tla` for a module of proofs. `PROJECT.json` lists the runs, the
faults that show each property can fail, the source lines of every definition,
the hazards and the theorems.

## 1. The system

Paths are relative to `internal/` of the repository.

| Component | State | Operations | Touches |
|---|---|---|---|
| Email send path (`email`, `jobs`, `jobs/handlers`) | `emails`, `idempotency_keys`, `usage_periods`, tasks `email:send` | Send, SendBatch, Cancel, UpdateSchedule, HandleEmailSend | suppressions and contacts (reads), IP warmup, sender, billing usage, RecordLocalEvent |
| Delivery events (`events`) | `emails.status`, `email_events`, the SQS queue | HandleSESJSON, SQSConsumer.Run, RecordLocalEvent | suppressions, webhooks, automations, live events |
| Suppression list (`suppression`) | `suppressions` | Add, AddBatch, Remove | read by Send |
| Dedicated IP warmup (`ippool`) | `ip_pools`, `warmup_schedules` | Create, Pause, Resume, Delete, TickWarmup, TickAllWarmups, ReserveSend | called by every send of a domain with a pool, and by `ip:warmup-tick` |
| Audience (`audience`) | `contacts`, `segments`, `topics`, subscriptions | contacts, segments, topics and their memberships | suppressions; read by Send, broadcasts and automations |
| Unsubscribe and tracking links (`tracking`, `jobs/handlers`) | none of their own | handleUnsubscribe, handleOpen, handleClick | contacts, suppressions, topics, events |
| Broadcasts (`broadcast`, `jobs/handlers`) | `broadcasts`, tasks `broadcast:send` | Create, Send, Cancel, Delete, HandleBroadcastSend | audience, Send |
| Automations (`automation`, `jobs/handlers`) | `automations`, steps, runs, tasks `automation:step` | Create, Update, SetEnabled, Trigger, HandleAutomationStep | events, audience, Send |
| Webhooks (`webhook`) | `webhooks`, events, attempts, tasks `webhook:deliver` | Create, Update, Delete, Fanout, Deliver | called for every event |
| Event stream (`events`, `httpapi`) | Redis channel, counter of streams per team | stream, ReplaySince | email events |
| Billing (`billing`) | `usage_periods`, `teams.billing_status` | checkout, HandleStripeEvent, IncrementUsage | Send reads quota and status |
| Domains (`domain`) | `domains`, SES identities | Create, Verify, Claim, ConfirmClaim, ReleaseClaim, Delete, EnableReceiving | Send requires a verified domain, inbound mail finds its team by it |
| Inbound mail (`inbound`) | `received_emails`, attachments, storage | HandleSESNNotification, StoreWithAttachments | domains, webhooks |
| Team members (`httpapi`) | `members`, `team_invites`, console tokens | sign in, provision, invite, revoke, accept, update, remove | authentication |
| OAuth (`oauth`) | codes, tokens | CreateAuthorizationCode, ExchangeCode, RefreshExchange | authentication |
| Templates, storage, senders, HTTP layer, console, SDKs | rows, files | row editing, I/O, decoding, display | |

How they interact: API handlers and workers share Postgres rows without locks
(only `ippool` and a few others open a transaction). Asynq runs a task at least
once: the handler is called again after an error or the death of the worker, up
to `MaxRetry` times, and then the task is archived. Tasks are never deleted and
never de-duplicated. SES answers through SNS and SQS, at least once and in any
order. Every worker process runs the queue's handlers, an SQS consumer and its
own scheduler.

Which behaviours are hard, and what makes each component correct:

- **Email send path.** An email may have several tasks (one per reschedule), a
  task several attempts. *Correct when* extra copies have a cause, a closed email
  stays closed, the row, the usage and the provider agree, nothing leaves before
  its time, and nothing waits for ever.
- **Delivery events.** Notifications arrive twice, late, concurrently, and before
  the row knows the message's id; partial bounces name some recipients only.
  *Correct when* a message bounces as a whole or not at all, an address is on the
  list exactly when something put it there, and a notification that left the
  queue was applied.
- **Suppressions, contacts, unsubscribe links.** The same wish is stored in two
  tables by separate statements. *Correct when* the two never both forget it.
- **IP warmup.** Ticks, retries and sends all advance a pool; reservation is a
  second transaction. *Correct when* the day's cap holds, a pool advances once a
  day, and a paused pool stands still.
- **Broadcasts.** A task retried or sent twice repeats a loop over many sends.
  *Correct when* a recipient is sent to twice only after a crash, a closed
  broadcast stays closed, the outcome tells what was done, and there is one.
- **Automations.** Every step is a task of its own that writes `current_step`
  unconditionally; a task interrupted after it enqueued the next one is retried
  beside it; steps can be edited under a running run. *Correct when* no step is
  passed over, none is done twice and no wait is cut short but by an
  interruption, and a run comes to an end.
- **Webhooks.** Event, task, POST and attempt are four separate effects, and a
  fanout needs two connections of a pool that other fanouts hold. *Correct when*
  every event that reached a webhook's row is answered or given up.
- **Event stream.** Replay and subscription are two steps with a gap; the counter
  of open streams is changed by requests that may vanish. *Correct when* nothing
  but the gap is missed, and the limit holds.
- **Billing.** Stripe events come late, twice and out of order, and are compared
  with nothing. *Correct when* the row says what Stripe says once all have come.
- **Domains and inbound mail.** Two teams may have rows for one name; the checks
  of a claim are made before the UPDATE they protect; mail looks up its team in
  each delivery anew. *Correct when* one team at most has a verified claim, and
  mail goes there, once, with its attachments.
- **Members.** Roles and invitations are read by one statement and acted on by a
  later one. *Correct when* a team keeps its owner, and nobody joins but by an
  invitation that was still good.
- **OAuth.** A code is checked, spent and exchanged in several statements while
  its app may be deleted. *Correct when* a token speaks for the team that granted
  it, or for nobody.
- **Topics and segments.** A choice is checked against rows that may be gone when
  it is stored. *Correct when* a no is kept until contact or topic goes.

`PROJECT.json` lists each of these hazards at its line with the properties that
would catch it. Five have none: a notification that comes before the message id, a
tick that fails before it reaches the other pools, a cancel during the loop of a
broadcast, a broadcast whose enqueue failed, and a fanout that is cut. All but the
second do go wrong in this code, and a property that excuses them catches nothing
(section 6); the second takes two pools, which is beyond the time of a run.

## 2. The modules

| Module | Models | Used by |
|---|---|---|
| `EmailStatus` | the statuses of an email, `isTerminalStatus`, `canTransitionStatus`, `statusFromEvent`, the worker's skip list | `EmailSend`, `DeliveryEvents` |
| `Suppressions` | reasons and the merge of an old and a new one, which three upserts repeat | `DeliveryEvents`, `Consent` |
| `OutboundPromise` | abstract specification: what the send path promises about an email, and what a report of the provider may do to it | refined by `EmailSend`, and by `Broadcast` for each recipient |
| `EmailSend` | `email.Service.Send`, `Cancel`, `UpdateSchedule`, the `email:send` queue, `HandleEmailSend`, `RecordLocalEvent`, the consumer's write of the status | `MCEmailSend`, proofs |
| `DeliveryEvents` | `HandleSESJSON`, `SQSConsumer.Run`, the sending attempt's own writes, `suppression.Service` | `MCDeliveryEvents` |
| `IPWarmup` | `internal/ippool`: pools, ticks, `advanceWarmupIfDue`, `ReserveSend` | `MCIPWarmup`, proofs |
| `Consent` | `handleUnsubscribe`, `UpdateContact`, contacts, `suppression.Service`, the two lookups of `Send` | `Workspace`, proofs |
| `Broadcast` | `broadcast.Service`, the `broadcast:send` queue, `HandleBroadcastSend` | proofs |
| `Tenancy` | teams and concurrent requests, the constants that the parts of a workspace share | `TeamMembers`, `ClaimedName`, `DomainClaims`, `Grants`, `Topics` |
| `TeamMembers` | console tokens, members, invitations (`httpapi/team_invites.go`, `console.go`) | `Workspace` |
| `ClaimedName` | abstract specification: what the rows for one domain name promise | refined by `DomainClaims`, relied on by `Inbound` |
| `DomainClaims` | `domain.Service`: one name, the rows of several teams, the identity at SES | `Workspace` |
| `Inbound` | `HandleSESNNotification`, `StoreWithAttachments` | `Workspace` |
| `Billing` | `CreateCheckout`, `HandleStripeEvent`; Stripe as the code relies on it | `Workspace` |
| `Grants` | OAuth apps, codes and tokens (`internal/oauth`) | `Workspace` |
| `Topics` | topics, choices, segments and `topicRecipientEmails` | `Workspace` |
| `EventStream` | `events_stream.go`, `live.go`, `replay.go`, the reader of the Go SDK | `Workspace` |
| `Queue` | what Asynq does with a task | `WebhookDelivery`, `AutomationRun` |
| `WebhookDelivery` | `webhook.Service`, `HandleWebhookDeliver`, the connection pool | `Outbound` |
| `AutomationRun` | `automation.Service`, `HandleAutomationStep` | `Outbound` |
| `Workspace` | composition: Consent, TeamMembers, DomainClaims, Inbound, Billing, Grants, Topics, EventStream | `MCWorkspace` |
| `Outbound` | composition: the two consumers of an event that are tasks | `MCOutbound` |
| `EmailSend_proofs`, `DeliveryEvents_proofs`, `IPWarmup_proofs`, `Consent_proofs`, `Broadcast_proofs` | theorems and proofs about the module of that name | |
| `Tenancy_proofs` | theorems and proofs about the parts that have teams: TeamMembers, DomainClaims, Grants, Inbound, Topics | `Workspace_proofs` |
| `Workspace_proofs`, `Outbound_proofs` | theorems and proofs about EventStream and Billing, and about Workspace; about AutomationRun, WebhookDelivery and Outbound | |

Conventions, the same in every module:

- **One action per statement.** An action is one SQL statement, one transaction
  (`IPWarmup`), one enqueue, one receive or delete, or one call to SES: whatever
  other processes cannot interleave with. A variable `pc` (or `reqPc`, `cpc`,
  `sendPc`) names the statement a process comes to next.
- **Faults of the world are actions or alternatives.** A worker dies in
  `LeaseExpires`, `Crash` or `Abort`; a statement whose error the code returns
  ends the attempt; one whose error the code drops lets it go on. An enqueue
  that answers with an error may or may not have stored the task; a call to SES
  that timed out may or may not have been accepted.
- **History variables** (`handed`, `slips`, `lost`, `mailed`, `out`, `granted`
  ...) record what happened, for the properties; no guard reads them, except
  where a bound on faults does.
- **Operators marked "Fault:"** are not part of a specification. Each is the
  operator below it with a plausible bug; `PROJECT.json` ("mutants") pairs them
  with the property that notices.
- **Data is abstract.** Addresses, keys, messages and notifications are model
  values; a task is a pair of its email (or broadcast) and a number.

### EmailSend

State: the row (`status`, `schedAt`, `messageId`), `idem` and `expired` for
idempotency keys, `usage`, `suppressed`; per request `reqPc` and its input; per
task `taskState`, `dueAt`, `retried`, `pc`, `seen`; per email `noticing`, the
statuses that consumers of notifications have decided on and not yet written.

`Send` is `ReceiveSend` (validation and lookups), `checkQuota`, `LookupKey`,
`InsertEmail`, `StoreAttachments`, `SaveKey`, `EnqueueSend`: the order of the
code, so the row exists before its key, and the key before its task. The SELECT
of a live key may fail: `Send` takes that for a miss and inserts a row of its own,
and the request is then in `blind`.
`UpdateSchedule` writes the row and only later (`EnqueueReschedule`) a further
task; the old one stays. A handler that never comes back is one whose next
action is not taken.

`HandleEmailSend` is `LoadEmail` (or `PrepareFails`), `ReserveWarmup`,
`SendToProvider`, then `RecordSent`, `IncrementUsage` and the event `email.sent`
on success (with Mailpit `email.delivered` too), `MarkFailed` and `email.failed`
on failure; an event is `LocalEventInsert` and `LocalEventStatus`, the second of
which acts on the status the first one read. `FindByMessage` and `NoticeStatus` are
`HandleSESJSON` as far as the send path sees it: the SELECT by message id, and the
UPDATE that follows it some time later, whatever the status is by then.
`DeliveryEvents` has the rest of it.

`OutboundPromise` knows only a phase per email (absent, open, closed), the
number of copies per task and the emails `reported` as gone wrong: copies leave only
while an email is open, at most `MaxRetry + 1` for a task, and a closed email is
opened again by a report only, of a copy that did leave: the worker skips rows that
are canceled, sent or delivered, and a report makes one bounced, complained or
failed, so that the tasks it has left send it once more. The refinement mapping of
`EmailSend` calls an email closed when no attempt is past its load and either the
row tells every worker to skip it or all of its tasks are over; `copies` is
`handed`.

### DeliveryEvents

State: `status`, `named` (the row knows the message's id), `reason`, `events`;
the sending attempt (`attempt`, `read`); the queue; per consumer `cpc`, `holds`,
`seen`, `todo`. A consumer runs `Receive`, `Lookup`, `InsertEvent`, `MoveStatus`,
`Suppress` (one call of `Add` at a time) and `Delete`. The sending attempt runs at
the same time with its `RecordSent` and its own `email.sent` event. A
notification that was not deleted may be received again, by the other consumer
too. What a notification says is one of `Published`: the model-checking module
picks the cases that `HandleSESJSON` tells apart (bounce of nobody, of one, of
all, without the list of destinations, transient or not, complaint, delivery).

### IPWarmup

State: the pool and its schedule; per caller `pc`, the pools still to visit, the
open transaction's pool and the day it began. Days are numbers and `Midnight`
moves the clock. `BeginAdvance` and `Advance` are the two ends of one
transaction, because the code reads two clocks: `now()` of SQL, which is when
the transaction began, and `time.Now()` after the locks are taken. `ReserveSend`
advances first and reserves in a second transaction.

### Consent

State: `contact` (the id of an address's contact), `unsubscribed`, `reason`; per
request `pc` and its input. `out` holds the addresses whose owner wants no email:
a request to unsubscribe adds the address when it has done its statements, and a
resubscription, `Remove` and (see section 6) the deletion of the only trace take
it out. `unwilling` holds the calls of `Send` whose recipient was in `out` from
their start. `Send` is `LookupSuppression`, `LookupContact` and `Accept`; a SELECT
of the first two that fails lets it go on as if it had found nothing.

### Broadcast

State: the row, the calls of `Send` (`sends`, `sendPc`), the queue, and per task
`pc`, the recipients still to come (`todo`) and those counted (`ok`, `fail`).
Since contacts come and go, the recipients query finds any set of addresses; since
they are suppressed too, any single `Send` may refuse, or fail after it has left
its email behind. `Promise(a)` instantiates `OutboundPromise` for recipient `a`,
with the emails queued to `a` as `copies`; nothing is ever reported here.

### TeamMembers

State: `member` (role and row id per team and user), `invite`, `lockedBy` (the
transaction that holds an invite's row lock), `sessions` (the console tokens ever
issued, whose role is never read again), `memberPc`, `memberCall`. A request
reads the member (`updateTeamMember`, `removeTeamMember`) and writes it later
(`UpdateRole`, `DeleteMember`) by row id; `acceptTeamInvite` is the `SELECT ...
FOR UPDATE` of a transaction that `Admit` commits, and `revokeTeamInvite` waits
for its lock. `consoleProvision` gives a user without a team a fresh one, in
three statements.

### DomainClaims, ClaimedName and Inbound

`DomainClaims` has one domain name. State: per team the row with its id, whether
it has a challenge, and which of verified, claimed and receiving are set;
`identity`, which is the name's and not a row's. Each handler is its checks (an
action in lower case) and its UPDATE by id (`SetStatus`, `SetClaimed` ...);
what DNS and SES answer is a free choice. `ClaimIsFree` is the unique index.

`ClaimedName` sees only the facts of each team: they change one team at a time,
and one team at most is verified and claimed. `DomainClaims` implements it
(`ImplementsClaimedName`; the mapping takes the facts out of the rows), and
`Inbound` relies on it: its rows move as `ClaimedName` lets them. A delivery of
one email is the lookup of the team, the SELECT for a row it has already, the
INSERT that a unique index may refuse, and the attachment; each may fail, and SNS
posts again until it is answered.

### Billing

State: the plan columns of the team (`plan`), the checkouts under way, the
status Stripe has for each subscription, and the events in flight. Stripe moves
a subscription along its life cycle and owes an event for each move;
`stripeWebhook` applies any event in flight, in any order, and may leave it
in flight: its 2xx was lost, and it will come again.

### Grants

State: `apps`, `rights` (rows of the code and token tables), `given` (what was
granted, for good). `oauthToken` reads a code or a refresh token, `Spend` marks
it, and `issueTokens` inserts two tokens in two steps; the error of spending is dropped, so one
code may be exchanged twice. `deleteOAuthApp` cascades; the foreign key is in
`InsertRight`.

### Topics

State: contacts and their ids, `topic` with its default, `choice`, segments and
members. `topicRecipientEmails` and `ListContactTopics` are the two queries that
say who is subscribed.

### EventStream

State: `liveEvent` (stored, then published), the Redis counter with its expiry,
per listener `streamPc`, the `pipe` to the client and its `lastId`. A request
takes a slot, replays, subscribes and streams; it may end anywhere, and then the
slot leaks, because the handler gives it back with the request's canceled
context. `readSSE` is the reader of the SDK, which keeps the id to resume from.

### WebhookDelivery

State: `hook`, per event the `fanout` under way (the rows of its SELECT left to
read), `hookEvents`, per pair the `webhook:deliver` task and what its handler
does next. A fanout holds a connection while it iterates and takes another for
each INSERT: `Connections` of the model is the pool. When all are held, only the
end of a context (`FanoutTimesOut`) lets it go on.

### AutomationRun

State: the automation and its `steps`, the request that writes them (`edit`), the
`run` with its position, and its `chain` of tasks with what each handler does
next and the position it has read. A handler reads the run (`ReadRun`), carries
out the step, moves the position and enqueues the next task, or in a wait
schedules it; every one of these is an action, and between any two of them the
worker may die or the steps be replaced. `told.sent` counts the emails that were
queued for a step; `Emails.Send` may fail after it queued one (`told.slips`), and the
retry of the task then queues a further one.

### Workspace and Outbound

The parts of `Workspace` share no row and no message, and neither do the two
consumers in `Outbound`. A step of one commutes with every step of another, and
no property speaks of two: exploring their product would only multiply the
states. A behaviour therefore chooses one part in its first state (`part`,
`consumer`) and runs that; together, the behaviours are those of the parts. Where
parts do interact, the interaction is in the model: `Inbound` reads the rows of
`DomainClaims` (through `ClaimedName`), `WebhookDelivery` and `AutomationRun` use
one `Queue`, `Consent` is contacts, links, suppressions and sends in one module.

## 3. The runs

| Run | Module, config | What it shows | Distinct states |
|---|---|---|---|
| `email_send` | `MCEmailSend`, `EmailSendDeep.cfg` | `TypeOK`, `CopiesExplained`, `SentIsTraceable`, `CompletedIsResolved`, `SentOnTime`, `UsageIsBacked`, and `KeepsPromise`: the send path implements `OutboundPromise` | 992 000 |
| `email_keys` | `MCEmailSend`, `EmailSendKeys.cfg` | `KeyedOnce`: a saved key adds no further row until it expires, but for a request whose SELECT of it failed | 283 000 |
| `email_live` | `MCEmailSend`, `EmailSendLive.cfg` | `EveryTaskEnds`, `QueuedIsResolved` under `FairSpec` | 94 000 |
| `email_replay` | `MCEmailSend`, `EmailSendReplay.cfg` | violation of `AnsweredIsQueued` (section 5) | |
| `email_suppressed` | `MCEmailSend`, `EmailSendSuppressed.cfg` | violation of `WorkerHonoursSuppressions` (section 5) | |
| `delivery_events` | `MCDeliveryEvents`, `DeliveryEvents.cfg` | `TypeOK`, `BounceIsWhole`, `SuppressionIsEarned`, `DeletedIsApplied` | 3 300 000 |
| `delivery_terminal` | `MCDeliveryEvents`, `DeliveryEventsTerminal.cfg` | violation of `EventsKeepTerminal` (section 5) | |
| `ip_warmup` | `MCIPWarmup`, `IPWarmup.cfg` | `TypeOK`, `GrantsFollowPlan`, `AdvancesDaily`, `PausedStandsStill`, and under `FairSpec` `DueIsAdvanced` | 244 000 |
| `ip_warmup_midnight` | `MCIPWarmup`, `IPWarmupMidnight.cfg` | violation of `AdvancesOnlyDaily` (section 5) | |
| `broadcast` | `Broadcast`, `Broadcast.cfg` | `TypeOK`, `CopiesExplained`, `OutcomeIsHonest`, `KeepsPromise` for each recipient, and under `FairSpec` `QueuedIsFinished` | 161 000 |
| `workspace` | `MCWorkspace`, `Workspace.cfg` | Consent: `UnsubscribeHolds`, `AcceptedMeansWilling`, `HardReasonsStay`; members: `MembershipIsGranted`; domains: `ImplementsClaimedName`; `MailArrivesOnce`, `BillingFollowsStripe`, `TokensFollowGrants`, `TopicChoiceIsKept`; stream: `MissedIsExplained`, `StreamsAreBounded`; and `WorkspaceTyped` | 849 000 |
| `outbound` | `MCOutbound`, `Outbound.cfg` | `EventReachesEndpoint`, `EveryStepOnce`, `RunsEnd`, `OutboundTyped` | 137 000 |

**Bounds, and why they are enough.**

- *EmailSend.* One email with one reschedule has two tasks whose attempts overlap
  in every way; `MaxRetry = 1` gives each a first and a last attempt, `MaxTime =
  1` a now and a later. Emails share only keys, usage and the suppression list:
  keys need two emails (`EmailSendKeys.cfg`), usage is a sum over tasks of which
  one email already has two. One write per email may be lost; a second loss
  changes nothing that `lost` does not already excuse. In `EmailSendKeys.cfg` the
  quota is 1, so that it refuses; elsewhere it is out of reach. `Notices` is
  `{"bounced"}` where tasks overlap: a bounce is the least that takes a row out of
  the skip list, `complained` and `failed` do the same, and `delivered` changes nothing
  for the worker (with it the run holds too, at 2.7 million states). `Listed` is empty
  where no property reads the suppression list. The theorems are for all of them.
- *DeliveryEvents.* One message with a To and a Cc recipient is the least that
  tells "every To recipient" from "every recipient"; two notifications and two
  consumers give duplicates, races and any order; one mishap (crash, failed
  statement or API edit) at a time. Emails do not interact here. Consumers and
  unpublished notifications are interchangeable, hence the symmetry set.
- *IPWarmup.* Pools do not interact except through `todo` of one call; one pool,
  two callers, three days, a plan shorter than that and one failure and pause
  reach the end of the plan, a straddled midnight and a failing tick.
- *Workspace.* One address, name, email, team's plan or app at a time, since they
  do not interact; two requests at a time, made again and again, cross in every
  way in which one overtakes another. Two contacts per address give an id that is
  stale (the theorems of section 4 hold for any number of calls and contacts).
  Two teams are the least that compete for a name, two users the least with an
  owner and a guest; three member rows let a guest be removed and come back;
  tokens issued by the operator's endpoint name no user (`TokenUsers`; with a user
  the run holds too, at 1.7 million states without symmetry);
  three deliveries of an email are two that cross and one that comes after; five
  events are a subscription, its end and one that starts over; four grants are a
  code and two tokens with one more. `MaxReplay` and `MaxStreams` are 1, so that
  the replay's LIMIT and the last slot are met at once. `Calls` and `Clients` are
  interchangeable, hence the symmetry set.
- *Outbound.* Two webhooks of one event let the first cut off the second; two
  events of one webhook let their fanouts hold both connections, the whole pool.
  `MaxDeliverRetry` and `MaxStepRetry` are 1. Three chain tasks, used again when
  done, are the two a crash leaves side by side and the next one. One fault and
  one edit during a run.
- *Broadcast.* Two recipients are the least with an outcome `partial`; two calls
  of `Send` give two tasks that overlap; `MaxRetry = 1` as above.

`CHECK_DEADLOCK FALSE` is set where every request has been made, every task has
ended and the clock stands at its bound: the system has stopped, and may.

**Fairness, and what justifies it.** Asynq takes due tasks with 20 goroutines per
process from weighted queues, so no task starves: weak fairness of
`StartAttempt(t)` for each task. A goroutine that runs a handler runs on:
`AttemptStep(t)` for each task; a worker may still die at any step
(`LeaseExpires`), after which the lease expires and the task is retried. The clock
advances: `Tick`. API handlers get no fairness, since a client or an API process
may go away between any two statements, so liveness is stated from the moment the
task is stored. In `IPWarmup` the daily tick is enqueued again and again:
strong fairness of `TickAllWarmups(w)`, which is enabled again and again but not
always, as the caller may be busy; weak fairness of the rest of a call. The
delay before a retry is not timed. In `Outbound` it is again the workers and the
clock that run on: `HandleWebhookDeliver(p)`, a fanout's next statement or the
end of its context (`FanoutStep(o)`), `HandleAutomationStep(k)`, and a wait that
elapses. Requests, events and endpoints owe nothing: no event need happen, and
an endpoint may refuse for ever.

**That the properties can fail.** For each property of each passing run a fault
in one mapped definition breaks it: a dropped guard, a missing retry limit, a
reset in the wrong place, a swallowed or returned error. The invariants also
cannot be vacuous by construction: the runs reach archived tasks, lost writes,
overlapping attempts, partial outcomes and paused pools, and fire every action.

## 4. The theorems

Proved for every value of the constants that meets the modules' assumptions.
They say that bounds are natural numbers and null values are none of the real
ones, and where a property counts, that what it counts is finite:

- `EmailSendAssumption`: a finite set of emails (`UsageIsBacked` counts accepted
  messages); `BroadcastAssumption`: of addresses (the outcome counts them);
  `StreamAssumption`: of listeners (`StreamsAreBounded`); `BillingAssumption`: of
  subscriptions (their number bounds the open checkouts).
- `AutomationAssumption`: there is a longest plan, so that the positions of all
  plans are a bounded interval. `WebhookAssumption`: `"none"`, the word for a
  fanout that is at no webhook, is not in `Hooks`.

TLC evaluates every assumption in a run.

| Theorem | States | Strengthening |
|---|---|---|
| `EmailSend_proofs!TypeCorrect` | `Spec => []TypeOK` | none needed |
| `EmailSend_proofs!CopiesAreExplained` | `[]CopiesExplained` | `Accounted` |
| `EmailSend_proofs!FirstTaskIsOnTime` | `[]SentOnTime` | `Timely` |
| `EmailSend_proofs!CompletedStaysResolved` | `[]CompletedIsResolved` | `Requests`, `Resolved` |
| `EmailSend_proofs!SentStaysTraceable` | `[]SentIsTraceable` | `Traced`, `TracedAttempt` |
| `EmailSend_proofs!UsageStaysBacked` | `[]UsageIsBacked` | `Backed` |
| `EmailSend_proofs!KeysAreUsedOnce` | `KeyedOnce`, a step property | `Requests` |
| `EmailSend_proofs!SendPathKeepsPromise` | `KeepsPromise`, a refinement | `IInv` with `Noticed` |
| `DeliveryEvents_proofs!TypeCorrect` | `[]TypeOK` | `PublishedIsKept` |
| `DeliveryEvents_proofs!BouncesAreWhole` | `[]BounceIsWhole` | `Handling` |
| `DeliveryEvents_proofs!SuppressionsAreEarned` | `[]SuppressionIsEarned` | `Handling` |
| `DeliveryEvents_proofs!DeletedMeansApplied` | `[]DeletedIsApplied` | `Handling`, `Applied` |
| `IPWarmup_proofs!TypeCorrect` | `[]TypeOK` | `AtPool` |
| `IPWarmup_proofs!OneDayADay` | `[]AdvancesDaily` | `Fresh`, `Past`, `Spaced` |
| `IPWarmup_proofs!PausedPoolsStandStill` | `PausedStandsStill` | `Fresh` |
| `IPWarmup_proofs!PlanIsNeverExceeded` | `[]GrantsFollowPlan` | `Unused`, `Account` |
| `Consent_proofs!TypeCorrect` | `[]TypeOK` | `Request`, `Issued` |
| `Consent_proofs!WishesHold` | `[]UnsubscribeHolds` | `Held` |
| `Consent_proofs!AcceptedAreWilling` | `AcceptedMeansWilling` | `Spared` |
| `Consent_proofs!HardReasonsRemain` | `HardReasonsStay` | `TypeOK` |
| `Broadcast_proofs!TypeCorrect` | `[]TypeOK` | none needed |
| `Broadcast_proofs!CopiesAreExplained` | `[]CopiesExplained` | `Numbered`, `Stored`, `Counted` |
| `Broadcast_proofs!OutcomesAreHonest` | `[]OutcomeIsHonest` | `Tallied`, `Recorded` |
| `Broadcast_proofs!BroadcastsKeepPromise` | `KeepsPromise`, a refinement for each recipient | `Numbered`, `Stored`, `Counted`, `Retried` |
| `Tenancy_proofs!MembersTypeCorrect` | `[]MembersTyped` | `MembersInv` |
| `Tenancy_proofs!MembersAreGranted` | `MembershipIsGranted` | `HoldsRow`, `HoldsInvite` |
| `Tenancy_proofs!DomainsTypeCorrect` | `[]DomainsTyped` | `Numbered` |
| `Tenancy_proofs!RowsKeepPromise` | `ImplementsClaimedName`, a refinement | `Exclusive` |
| `Tenancy_proofs!GrantsTypeCorrect` | `[]GrantsTyped` | `GrantRemembers`, `Descends` |
| `Tenancy_proofs!TokensStayWithGrants` | `[]TokensFollowGrants` | `GrantRemembers`, `Descends` |
| `Tenancy_proofs!InboundTypeCorrect` | `[]InboundTyped` | `InboundInv` |
| `Tenancy_proofs!MailIsStoredOnce` | `[]MailArrivesOnce` | `Settled`, `Led` |
| `Tenancy_proofs!TopicsTypeCorrect` | `[]TopicsTyped` | `TopicCallsInv`, `PeopleInv` |
| `Tenancy_proofs!NoIsANo` | `[]TopicChoiceIsKept` | `ChoiceInv`, `SegmentsInv` |
| `Workspace_proofs!StreamTypeCorrect` | `[]StreamTyped` | `Reading` |
| `Workspace_proofs!OpenStreamsAreBounded` | `[]StreamsAreBounded` | `CounterInv` |
| `Workspace_proofs!MissedEventsAreExplained` | `[]MissedIsExplained` | `Served`, `Reading` |
| `Workspace_proofs!BillingTypeCorrect` | `[]BillingTyped` | `EventsNumbered` |
| `Workspace_proofs!PlanFollowsStripe` | `[]BillingFollowsStripe` | `OneSub`, `UnpaidInv`, `InOrder` |
| `Workspace_proofs!WorkspaceTypeCorrect` | `WorkspaceSpec => []WorkspaceTyped` | those of the parts |
| `Workspace_proofs!WorkspaceIsSafe` | all properties of the parts, of `WorkspaceSpec` | those of the parts |
| `Outbound_proofs!OutboundTypeCorrect` | `OutboundSpec => []OutboundTyped` | `AutomationInv`, `WebhooksInv` |
| `Outbound_proofs!StepsAreDoneOnce` | `[]EveryStepOnce` | `OneTask`, `SentOnce`, `OnTime`, `Waits` |

The arguments:

- **EmailSend.** `CopiesExplained` is not inductive: whether a further copy may
  leave depends on what the attempt and the task have done so far. `Accounted`
  says that outside the statements after a success the copies of a task are at
  most its slips, and before an attempt is through at most its retries. `Timely`
  ties the first task's due time to its request and the clock. `Resolved` says
  that from the UPDATE to `sent` on the row waits for nothing: `UpdateSchedule`
  cannot put it back because it accepts waiting rows only. `Traced` says that the
  message a row names was accepted for it, and `TracedAttempt` that an attempt
  which is about to write `sent` holds such a message. `Backed` adds to the usage
  the attempts that have their message accepted and have not counted it: together
  they are at most the accepted messages. `KeyedOnce` is
  about one step: a request with a settled key is answered from it, or is `blind`
  from then on, and no other INSERT of a row or of a key touches it. `Noticed` says
  that a row which names a message waits for nothing any more, and that a consumer
  is about to write to such a row only.
- **The send path and broadcasts keep `OutboundPromise`.** Each step is about one
  email (one broadcast): the lemma `PhasesStep` says that all others keep their
  phase, and `PromiseStep` that it is then enough to see how this one phase moves.
  A closed one stays closed because what closes it (a final status, or tasks that
  are all over) is undone by no statement, unless an attempt is past its load,
  and then it is not closed; the consumer's UPDATE is a `Report`, by `Noticed`. Copies are the steps of `SendToProvider` (of
  `SendToRecipient`), which leave the phase open and are bounded by the retries.
  For broadcasts the mapping has a parameter, the recipient.
- **DeliveryEvents.** `Handling` is about a consumer between two statements: what
  it still has to suppress was named by the notification it holds, and what is
  neither suppressed nor left to do was lost. When nothing is left it may delete.
  An upsert of a hard reason is undone by `Remove` only, which the three
  properties except (`edited`). `Steady` collects what no step undoes (contents
  once published, `lost`, `vain`, `edited`), so that a step of one consumer is
  shown at once to disturb no other.
- **IPWarmup.** A schedule's day index plus the day of its creation never exceeds
  the day of its last reset (`Spaced`), which never lies ahead of the clock
  (`Past`, also about the begin of open transactions); a pool moves on only when
  that day has passed. A transaction that began on an earlier day breaks
  `Spaced`, and this is where the exception for straddled pools enters. `Fresh`:
  a pool without Create has no row. `GrantsFollowPlan` is not inductive because a
  new day forgets what was sent on the last; `Account` adds that this was at most
  the day's cap, so what was granted is within the plan of the days that are over.
- **Consent.** `UnsubscribeHolds` forgets who is about to delete the suppression.
  `Held` adds: while only the suppression says no, no resubscription is `Live`.
  One whose contact was deleted is not live, although it is still under way,
  because ids are issued in order (`Issued`) and so its id never comes back. For
  `AcceptedMeansWilling`, `Spared` says that a `Send` for an unwilling recipient
  which is past the suppression list, and whose SELECT did not fail, will find the
  flag, and that none is past both tables.
- **Broadcast.** `Counted`: an address has at most as many emails as its task had
  interruptions, but for the attempt that is past it, or the completed task.
  `Numbered` and `Stored` tie tasks to calls of `Send`, so that a broadcast sent
  once has one task. `Tallied` says that the counters of an uninterrupted attempt
  enclose what it did, and `Recorded` that the row's counts are the sizes of two
  such sets; the theorem follows by counting. `Retried` bounds interruptions by
  the retries of Asynq.
- **TeamMembers.** A request that changes or removes a member acts on what it has
  read. `HoldsRow`: the row with the id it has read, if there is one still, is
  not the owner's, because ids are given in order and no row rises to owner.
  `HoldsInvite`: an acceptance under way has the lock of an invite that is still
  pending, as revocations wait for the lock. The lemma `Bystander` says once that
  a step which raises no row and leaves the locked invites alone disturbs no other
  request; each action is then shown to be such a step.
- **DomainClaims.** `Exclusive` is what the unique index keeps at every UPDATE;
  every step changes the facts of one team, or nothing that the mapping sees, and
  so is a step of `ClaimedName`.
- **Grants.** What a request remembers, and every row, descends from a grant that
  was given (`GrantRemembers`, `Descends`), and a row is for an app that is there:
  the foreign key refuses the others.
- **Inbound.** The proof uses of the domains only what `ClaimedName` promises
  (`OneClaimant`). `Led`: while one team has held the name all along, every
  delivery at work is for that team or none. `Settled`: of the deliveries for a
  team only the one whose INSERT made the row can come to the attachment.
- **Topics.** `ChoiceInv`: a choice refers to a contact and a topic that are
  there, and whoever declined has a choice that says no; a request that checked a
  contact which is gone since finds no row for it (`TopicRemembers` keeps the id).
- **EventStream.** `CounterInv`: until the counter expires it is at least the
  number of handlers that hold a slot; leaked slots only raise it. `Served`: from
  the replay on, every event that was stored by then or is published since is
  explained; the step from replay to subscription is where the gap enters.
- **Billing.** Events are numbered. `EventsNumbered`: the youngest event is handled
  or in flight. `OneSub` and `UnpaidInv`: without an overlap, the youngest event
  speaks of the current subscription and agrees with it; one that is not yet paid
  says nothing and the event before its two counts. `InOrder` is what the
  property's exceptions leave.
- **AutomationRun.** Without an interruption one task at most is at work
  (`OneTask`) and it works where the run stands (`OnTime`), before it has sent
  there but for calls of `Send` that failed after they queued; positions ahead of
  the run are untouched (`SentOnce`). A wait that is
  behind the run has elapsed or delays the one task (`Waits`, `Pending`), as long
  as the steps are those the task has read (`AsListed`).
- **Workspace.** Each step of a part leaves the variables of the others alone, so
  `WorkspaceSpec` implements every part's specification (`OfConsent` ...
  `OfStream`), and the theorems of the parts carry over.

Only model-checked: the liveness properties (`EveryTaskEnds`, `QueuedIsResolved`,
`DueIsAdvanced`, `QueuedIsFinished`, `EventReachesEndpoint`, `RunsEnd`): fairness
and ENABLED are out of the prover's reach. All invariants, step properties and
refinements of the runs that pass are theorems. `UsageIsBacked` and
`GrantsFollowPlan` are about sums; both are stated as the size of a set of
messages, to which a step adds one element or one day's cap, since a sum
by recursion would need an induction that the provers cannot do.

## 5. Where code and documentation differ

The first four are runs that TLC ends with a counterexample; the last is what the
code of a passing run does, and its property excuses.

- `email_replay`: `Send` saves the idempotency key before it enqueues the task.
  When the enqueue fails the client gets an error, and its retry with the same
  key is answered 200 with an email that no task will ever send. The OpenAPI file
  calls that answer "Queued".
- `email_suppressed`: `docs/architecture.md` has the worker load "email,
  suppressions, warmup cap". `HandleEmailSend` loads no suppressions: an address
  that is suppressed while an email waits for it is still sent to.
- `delivery_terminal`: `canTransitionStatus` is said to block a delivery from
  overwriting a terminal status. It is asked about a status read earlier, and the
  UPDATE has no condition: a concurrent bounce is overwritten.
- `ip_warmup_midnight`: `advanceWarmupIfDue` compares the last reset with
  `time.Now()` but sets it to the day on which the transaction began. Around
  midnight a pool moves on twice on one day.
- The repository's README has clients of the stream "Reconnect with
  `Last-Event-ID` to replay missed events", and the SDK calls the stream
  at-least-once. The replay ends before the subscription begins: what is
  published in between reaches neither (`MissedIsExplained`, third alternative).

## 6. What is not promised

The properties say when they do not apply, because the code does not do more.

Sending:

- A `Cancel` that comes after an attempt has loaded the row is overwritten by
  that attempt; the same holds for a broadcast and its claim.
- After `UpdateSchedule` to a later time the older task still sends at the older
  time. `SentOnTime` is about emails that were never rescheduled.
- A message that SES accepted before the worker died or timed out is sent again
  by the retry; the properties bound and explain such copies.
- An email that was rescheduled has a task left after it was sent. When a
  notification has made the row bounced, complained or failed by the time this task
  runs, the worker does not skip it and sends the email again (handlers.go:93).
- A lookup of an idempotency key that fails counts as a miss (service.go:178-184): the
  request adds a row, and sends an email, under a key that has one.
- A notification that comes before the row knows its message id is acknowledged
  and lost (`vain`).
- A broadcast whose enqueue failed stays `queued` until someone calls `Send` again.
- A broadcast that is retried after a crash in its loop, or sent twice and
  claimed by both tasks while it is `sending`, reaches recipients again, and the
  later outcome replaces the earlier.
- The quota counts finished sends: a burst of accepted emails, each of which saw
  it unused, overruns it. Each retry of an email reserves warmup again and a
  send that fails gives nothing back. A pool whose schedule's INSERT failed
  refuses every send.

Consent:

- An unsubscribe link that crosses an older resubscription may leave only the
  contact's flag, which is forgotten when the contact is deleted; a `Send` that
  looked at the list before a suppression was added and at the contacts after
  the contact was deleted accepts the email; and so does one whose lookup in either
  table failed, since it takes the address for neither suppressed nor unsubscribed.
- A broadcast of a topic reads its list of recipients once (handlers.go:292) and sends
  over it (handlers.go:347-358) without looking at the choices again: who declines
  meanwhile, or while the email waits in the queue, is still sent to.
  `TopicChoiceIsKept` is about the list as it is read.
- The topic branch of the unsubscribe link drops its error: the page says done
  and the choice may not be stored.

Events (`Outbound`, `EventStream`):

- An error inside a fanout ends it for the webhooks that come after, also the
  foreign key that breaks when the webhook at hand was deleted meanwhile. Fanouts
  that hold the whole pool wait until their contexts end, and are cut.
- A task of a webhook that was disabled is still delivered; a crash after the
  POST posts again.
- A worker that dies after it has enqueued the next step leaves two chains, which
  carry out the later steps twice (emails of a run have no idempotency key). For the
  same reason a step whose `Send` failed after it had queued the email sends a further
  one when it is retried (automation.go:115-124, service.go:273-277). One
  that dies after the UPDATE of a wait skips the wait. Steps that are replaced
  under a run, or read while they are replaced, are those the run goes on with;
  a SELECT of the step that fails completes it. A run whose last UPDATE or first
  enqueue failed stays `running` for ever (`told.stuck`). A contact that could not
  be added to a segment is passed over.
- A stream's slot is lost whenever the client goes away, until the counter
  expires after a day; then the counter starts at zero, goes negative as open
  streams end, and the limit no longer holds. A replay whose SELECT failed is
  skipped silently.

Workspace:

- *Billing.* Cancelling one of two subscriptions cancels the team; the quota is
  never lowered; a late event is believed.
- *Domains.* `Delete` removes the SES identity of the name, and with it that of
  every other team that has the name. A release that crosses a confirmation
  may be undone by it. The error of the SELECT for another claim is
  dropped; the unique index is what holds.
- *Inbound.* A delivery whose lookup of the team failed is acknowledged, and the
  mail lost (`astray`). One that could not fetch the body stores the row without
  it, and one that dies between row and attachment leaves the attachment out:
  the next delivery finds the row and does nothing (`hurt`).
- *Members.* Two requests that provision one user, or one whose SELECT failed,
  make two teams; a crash between the two INSERTs leaves a team without an
  owner. Someone who is a member already and accepts an invitation gets a token
  with the role of the invitation, not their own. A token outlives the role it
  names, and the membership.
- *OAuth.* A code may be exchanged twice, and a refresh token used twice, by
  requests that cross.

## 7. What is not modelled, and the plan

Every component whose state several actors change in more than one statement has a
module now; templates, API keys and the request log are single rows. Left out
within the modelled ones, as the components' notes in `PROJECT.json` say: contact properties, tracking
flags and BIMI, the billing portal and usage reports, scopes and redirect URIs,
the overflow of a stream's buffer and a lost connection to Redis.
`PauseIfOverQuota` and `audience.TopicRecipientEmails` are called by nothing.

To come:

1. Composition of `EmailSend`, `DeliveryEvents` and `Suppressions` through the
   row they share, with `DeliveryEvents`' sending attempt replaced by the real
   one; and of `RecordLocalEvent` with the fanout and the trigger it calls.
2. Proofs: what `OutboundPromise` and `ClaimedName` promise by themselves (the
   bound on copies per task; that a claim changes hands only after its row is
   gone), carried over to the modules that implement them; and the safety part of
   the liveness arguments: what a task that is not over can still do.

Left out on purpose: rendering, templates, tracking pixels and link rewriting,
MIME, DNS and DKIM records, signatures, log lines and metrics (data, I/O or
cryptography); the console, the MCP server, the SDKs but for the reader of the
event stream, and deployment; authentication, rate limiting and the log of
requests; the HTTP layer where it only decodes and calls a service that is
modelled. Asynq, SQS, SNS, SES, Stripe, Redis and Postgres appear as what the code
relies on: at-least-once tasks with a retry limit, at-least-once unordered
notifications, a provider that may time out, single statements and transactions
that are atomic, unique indexes and foreign keys.
