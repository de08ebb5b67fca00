# TLA+ specifications of OpenQareer

OpenQareer acts in the name of a candidate: it applies to vacancies on hh.ru and
LinkedIn, at the candidate's click or by itself, out of a queue of prepared
applications. An application that is sent twice, sent after the candidate said
stop, sent with another text, or reported as sent when it was not, cannot be
taken back. It also charges a card every month, and tells the candidate what
happens by mail and Telegram, and it counts for each vacancy, with the help of a
model, how well the candidate fits. This directory models the code that decides about
these things, checks the models with TLC and proves the most important properties
of the executor with TLAPS.

    tlc -workers 2 -config MCDispatch.cfg MCDispatch      # one run
    tlapm ActionExecutorProofs.tla                        # the proofs

`PROJECT.json` lists the components, the runs with their properties, the lines of
the source that each definition stands for, the faulty variant that each property
was measured with, the hazards of the code, and the findings.

## 1. Inventory

The server (`server/`) is one Node process with one event loop over SQLite, whose
statements are synchronous and autocommitted unless a method opens a transaction.
Concurrency is that of handlers suspended at an `await`; a crash can fall between
any two statements.

| component | state | operations | what is hard | what makes it correct |
|---|---|---|---|---|
| **Action executor** (`candidate/candidateActionExecutor.ts`, `sqliteCandidateActionRepository.ts`, `routes/candidateActionRoutes.ts`, `shared/candidateActionPolicy.ts`) | tables of batches, receipts, kill switches and daily usage; the in-memory set `LINKEDIN_CANDIDATES_IN_FLIGHT` | `executeBatch` (nine awaits and statements per action), toggling a kill switch | repeated requests, shared action ids, waiting for sessions and pauses, crash around the provider's call, late answers | at most one run per action, a receipt for each run, limits and stops that hold when the action starts |
| **Auto-apply queue** (`sqliteCandidateAutomationRepository.ts`, `domain/candidateAutomation.ts`, `routes/candidateAutomationRoutes.ts`) | settings, consents, stop companies, queue rows | enable, disable, rules, revoke, pause, resume, add, edit, approve, remove, consultant, stop company, import of rejections | a candidate who acts while a row is being sent; modes that follow each other | no row waits for sending without consent, letter and approval; a closed row stays closed |
| **Dispatcher** (`candidateAutomationDispatch.ts`, `sqliteCandidateAutomationScheduleRepository.ts`, `routes/candidateAutomationScheduleRoutes.ts`) | the runtime row with its lease, the journal | `runCandidate`: claim, decide, execute, settle, record, release | a lease that runs out under a slow run, a guard that is read before and after an await, several statements after the answer | what the queue and the journal say is what happened; stops hold; approvals are answered |
| Schedule (`candidateAutomationScheduler.ts`) | the schedule row | next time, window, daily limit | midnight, windows, breaks | no run outside the limits |
| Capability consents (`auth/capabilityConsentStore.ts`) | consents by capability | give, revoke, read | revoked during a batch | read where the action commits |
| Platform runners (`candidate/runners/`) | browser pages | run one action | may answer late, throw, or leave the result unknown | at most what the executor is told |
| **Billing** (`billing/sqliteBillingRepository.ts`, `renewalRunner.ts`, `billingRoutes.ts`) | invoices, the subscription, reminders | checkout, callback, cancellation, and a runner each minute: remind, ask about open charges, start due ones | late, lost and repeated callbacks, charges whose outcome is unknown, a subscription that changes while the runner waits, crashes | one charge for a period and only an agreed one, access is paid for and is not lost, no money is written off |
| **Notifications** (`notifications/`, `data/sqliteNotificationRepository.ts`) | outbox of deliveries | record, withdraw, claim, deliver, retry | claims left behind by a crash, channels and events that change while a provider is awaited | everything queued is settled; the attempts are bounded; a message is sent again only when the answer to it was lost or could not be stored |
| **Vacancy mechanics** (`domain/vacancyMechanicsRuntime.ts`, `data/sqliteVacancyFitStore.ts`, `data/sqliteVacancyRequirementsStore.ts`, `domain/vacancyMechanicsLoop.ts`, `scripts/run-vacancy-mechanics-worker.ts`) | the queues of fits and of requirements; two pauses in memory | `enqueue`, `view`, and for each lane `runNext`: claim, read the text, assess, settle; `requeueAfterParserUpgrade` at the start | one queue waits for the other, leases run out under slow lanes, refusals and outages put rows back, a deploy changes the keys | a row is settled by its holder, a wait costs no attempt, nobody waits for work that nobody does, a percent comes |
| LinkedIn pool (`linkedinPool/`, `crawler/`) | accounts, leases, cooldowns, budgets, login sessions | lease, release, cool down, log in | leases that run out, budgets at a boundary | one user of an account, budget kept |
| Career commands (`orchestration/`) | commands with states and leases | plan, confirm, dispatch | confirmation of a stale command | one execution per confirmed command |
| Vacancy crawl (`vacancies/`) | sources, clusters | crawl, merge | long jobs, parsing | catalogue consistency |
| Bulk model calls (`providers/`) | spending ledger, queues | reserve, call, settle | concurrent reservations against a budget | spent within budget |
| Recruiter intelligence (`outreach/`) | tasks | claim, enrich, retry | as notifications | as notifications |
| Accounts (`auth/`), application tracker, coach, maintenance, server assembly, desktop shell | | | authentication, text, timers, browser | |

How they meet: `POST /candidate/actions` and the dispatcher both call
`executeBatch`; the dispatcher gives a batch the id of the queue row, which is
also the id of its one action and of its receipt, and a guard
(`beforeExecute`) that reads the queue again. The executor reads the consent
`actions_on_behalf`, the kill switches and the application tracker; the routes of
the queue set the kill switch `candidate:ID` on a pause and read the tracker when
they add a row. Nothing in the server calls `runDue`: dispatching is driven by
clients that post `/dispatch`. Billing, notifications and the vacancy
mechanics share no state with the automation that decides anything in either
direction (that the Pro plan is active is a guard before it), so each is a
specification of its own. The mechanics run in a process of their own (some twelve
lanes on one event loop) and meet the server in the database alone.

## 2. Modules

| module | content |
|---|---|
| `ActionExecutor` | the executor, its tables, its clients, crash and clock; its properties |
| `ActionExecutorProofs` | the inductive invariant of the executor: receipts, runs and the places of the calls |
| `ExecutorBatchProofs` | limits, stops, quiet hours, boosts, the guard of LinkedIn, the end of a batch |
| `Applications` | what automatic applications promise the candidate: the abstract specification |
| `AutoApply` | EXTENDS `ActionExecutor`: queue, settings, consents, dispatcher, the candidate; its properties, and the mapping to `Applications` |
| `AutoApplyProofs` | the executor's invariants with dispatchers as callers; types |
| `QueueProofs` | consents, letters, journal, leases and the emergency pause |
| `ApplicationsProofs` | who may commit, and that `AutoApply` implements `Applications`, the daily limit of the schedule |
| `Billing` | checkouts, callbacks, renewals and reminders of one account |
| `BillingProofs` | its invariant, and what a charge, a payment and a cancellation may do |
| `Notifications` | the outbox of one candidate and its poller |
| `NotificationsProofs` | its invariant, and the bound on the answers |
| `Mechanics` | the queues of fits and of requirements, the lanes of their worker |
| `MechanicsProofs` | its invariant, attempts and waits, and the fence of the leases |
| `MCActionExecutor`, `MCBoosts`, `MCRevocation` | instances of `ActionExecutor` |
| `MCDispatch`, `MCQueue`, `MCLive` | instances of `AutoApply` |
| `MCBilling`, `MCNotifications`, `MCMechanics` | instances of `Billing`, `Notifications` and `Mechanics` |

Definitions whose comment begins with "Faulty", and the section "Faulty
variants", are mistakes that could be made in the code. No specification uses
them. Each property was shown to fail when the definition a variant belongs to is
replaced by it.

### The executor

Everything is keyed by the candidate, so one candidate is modelled. The tables
`batch`, `receipt`, `kill`, `used`, `lastBoost` are durable; `call`, `loop` and
`inFlight` are memory and lost in a `Crash`. `onBehalf` is the consent, `card` the
stage of the application as far as the executor reads it, `runs` and `runAt` are
history: how often the runner was started for an action, and the time by which its
last start was judged. That is `CallNow`: the clock for the calls of clients, but for
those of a dispatcher the `now` that it passes along as `nowIso`, the time its run
began; what the code decides about days and quiet hours it decides by that time.

A call of `executeBatch` moves through the program counters

    idle -> timezone -> sessions -> receipts* -> check -> reserved -> running
         -> record -> advance -> after -> (pausing -> check | stopping* | close) -> done

`timezone`, `sessions`, `running`, `pausing` are awaits; `receipts`, `check`,
`reserved`, `record`, `advance`, `stopping` are database statements inside a
synchronous stretch, during which `loop` names the call and no other handler
runs, while `Crash` may fall before each of them. An await that is already
resolved is a step as well, so that the model allows other handlers in a few
places where Node would run only microtasks.

| action | code |
|---|---|
| `PostBatch`, `Begin` | the route, `executeBatch` up to its first await |
| `CheckBatchCapacity` | `assertBatchCapacity` |
| `NotConnected` | `resolveSessions` throws |
| `CreateBatch` | consent and guard again, `createBatch` |
| `CreatePendingReceipt` | one INSERT of `createPendingReceipts` |
| `CheckAction` | kill switch, `checkActionCapacity`, `recordActionUsage` |
| `StartRunner` | the LinkedIn guard, `runner.run` |
| `RunnerAnswers` | the runner resolves or throws; the safety stop of LinkedIn |
| `RecordOutcome`, `AdvanceApplication` | `recordOutcome`, the card |
| `AfterAction`, `PauseEnds`, `StopAction`, `CloseBatch` | the loop of `runBatch`, `appendStoppedActions`, `updateBatchStatus` |
| `SetOnBehalf`, `ToggleKillSwitch`, `MoveCard` | what the candidate does meanwhile (`MoveCard` as far as the executor reads the card) |
| `Crash`, `Tick` | the process, the clock |

An outcome `unconfirmed` is a runner that says `delivered` without the provider's
confirmation. `updateReceiptStatus` throws on a receipt that is not pending; the
model has no such step, and `SettlesOwnPending` shows that none is needed: every
call finds its receipts pending.

### The queue and the dispatcher

A dispatcher `d` is one run of `runCandidate` and a caller of the executor. Its
state is `disp[d]`, beside `call[d]` for the executor's part:

    idle -Claim-> deciding -DecideGate-> releasing
                  deciding -DecideItem-> releasing | settle | calling
                  calling -Continue-> releasing | settle | runtime
                  settle -CompleteItem-> runtime -RecordRuntime-> releasing -Release-> idle

`disp[d].at` is the time the run began, which the code passes along as `now`;
`disp[d].letter` is the version of the letter that was copied into the action.
`ItemVerdict` is the order of the checks of `processNextApproved` and
`sendApprovedItem`. `CompleteItem` is the transaction `completeScheduledQueueItem`,
`RecordRuntime` is `recordDelivery`, `recordFailure`, `recordUnconnected` or
`recordUnreceiptedFailure`, a statement of its own that a crash can keep from
happening.

The candidate's operations are one action each, named after the route. A handler
has no await between its statements, so it is one step; a crash inside a handler
is not modelled. The constant `Operations` says which of them an instance allows
(and whether a crash and a missing session are allowed). A row is reduced to its
status, the version of its letter (0 is blank), the kind of its approval and the
time of its last change.

Abstractions: the schedule (windows, limits, break, pauses) is constant and
`stopAfterErrors` is 1, the only value the schedule route accepts; the columns
`status`, `pause_until` and `last_failure_code` of the runtime row, which only
label what happened, are left out (`listDueCandidateIds` reads them, for `runDue`,
which nothing calls); the Pro plan is active; the consent `notifications` is asked
for and never read, so it is left out; enabling does not change the rules at the
same time; the limit of 500 open rows is not reached.

### The promise: `Applications`

`Applications` says in ninety lines what a candidate may rely on: an application is
prepared, approved, taken back or withdrawn; only while it is approved is it
committed to; a committed one is handed over once or refused; and what the
candidate is told in the end agrees with what is recorded: `sent` is never told of less
than a confirmed delivery, and `failed` never while the outcome is open.
`AutoApply` implements it (`KeepsPromise`, checked in the run `dispatch`): `told` is
the status of the row, and `fact` is read off the tables of the executor,

    no batch -> none, batch -> committed, run without an outcome -> handed,
    otherwise the receipt; a settled receipt without a run -> refused.

The receipt is what was recorded, which is not always what has happened: the
executor files a runner that threw (`candidateActionExecutor.ts:375-376`), a delivery
without the provider's confirmation (`:400-401`) and an attempt that came back with the
code of a stop (`:419-422`) as `failed`, although the application may have arrived.
`Applications` therefore promises of `failed` no more than that a failure or a refusal
is recorded (see also section 5). The run `dispatch` has all four outcomes of a runner.

Every step of the dispatchers, of the executor and of the candidate is one step of
`Applications` or a stutter, and so is a crash: what a crash loses is not part of
the promise.

### Billing

`invoices`, `sub` and `reminder` are the tables; `charge` is what the provider knows
of each invoice; `web` are the checkouts whose provider is awaited, `runner` is the
state of `runDueBillingRenewals`:

    idle -BeginRun-> mailing -FinishReminder-> listing -ListProcessing-> asking
         asking -StatusAnswers, StatusThrows-> asking -ListDue-> starting | idle
         starting -StartRenewal-> charging -ChargeAccepted, ChargeRejected, ChargeThrows-> idle

`runner.now` is the time the run began, which the code passes along as `now`, and
`runner.due` is the subscription as `listDueSubscriptions` returned it: between
`ListDue` and `StartRenewal` the code awaits the charges of other accounts. Each
transaction of the repository is one step (`ApplySuccessfulInvoice`,
`MarkRenewalFailed`, `MarkRenewalProcessing`, `PaidSubscription` ...), and a crash
falls between any two.

The provider is external. A request for a charge may arrive although the gateway
has thrown, may be lost, and a charge is decided at any later time, also over another
amount, which the code treats as a failure. `Callback` may come at any time after the
payment, any number of times, or never. The customer pays only on a page that was
offered, that is, after `setCheckoutUrl`.

### Notifications

`row` is the table of deliveries, one row for a notification and channel; `poll` is
the state of `processDue`, which claims the rows that are due and sends them one after
another. Times are kept relative (what is left to wait, how old a claim is), so that
the clock needs no bound. `answers` and `lost` are history: how often the provider took
a message, how often the poller learned of an answer, and the rows whose taken
message was not stored as delivered. The provider takes a message in a step of its
own: a crash may come before the answer is stored, and an answer that is lost or
cannot be stored is a `provider_error`, after which the message is sent again (an
email with the same key of idempotency, a Telegram message as a second one).

| action | code |
|---|---|
| `RecordEvent`, `WithdrawEvent`, `SetPreference`, `LinkTelegram` | what the candidate and the events do |
| `ClaimDue` | `claimDueDeliveries`, with the recovery of stale claims |
| `BeginSend`, `SkipRow` | `processOne` up to the provider, or `skipDelivery` |
| `ProviderTakes` | the provider accepts the message |
| `SendSucceeds` | its answer is stored: `completeDelivery` |
| `SendFails` | a refusal, a failed request, or a `completeDelivery` that throws: `retryDelivery` |
| `PollCrash`, `PassTime` | the process ends or a statement outside of the `try` throws; the clock |

### Vacancy mechanics

`reqs` and `fits` are the two queues, `read` and `result` their caches: the release
whose extractor read a text, and the release whose requirements a percent was counted
for. `lane[l]` is a lane inside `runNext`, `http` the handler of the server's process,
`budget` and `channel` are what is left of the two pauses, `spent` is history: the
claims of a fit that a failure of the model, a lost lease or an exception used up. A
lane moves through

    idle -Begin-> ready | reading | found     (the texts somebody looks at)
    ready, after -ClaimFit-> claimed -Require-> assessing | waited | reading | found
    ready -EndStep-> idle | reading | found (the tail)     after -EndStep-> idle
    reading, found -AnswerRead, ReadThrown-> after | ready | waited | idle
    waited -Resume-> assessing      waited -Wait-> idle
    assessing -AnswerFit-> idle
    ready, after -ClaimThrown-> idle      claimed, waited, assessing -FitThrown-> idle

where `reading` and `assessing` are the awaits of the model; `found` is a claimed text
whose result is there already, which is completed without a call.

| action | code |
|---|---|
| `Begin`, `ClaimFit`, `EndStep` | `runNext`, its claims of both queues (`ReadNext` is `extractNextRequirements` up to the model) |
| `Require`, `Resume`, `Wait` | the requirements of the claimed fit: there, asked for and read, or waited for; then go on, wait for the channel, defer, fail |
| `AnswerRead` | the answer, `complete`, `fail` or `pause` of the requirements; a second, fuller reading may be refused on its own |
| `AnswerFit` | `settleAssessment`, `settleFailure` and the store's `complete`, `pause`, `fail` |
| `ReadThrown`, `FitThrown` | a statement after the claim throws: the `catch` of the store's `runNext` fails the text, the one of the runtime the fit, which costs the attempt (`CaughtRow`); when that throws too the row stays leased |
| `ClaimThrown` | a claim throws, and the lane sleeps |
| `View`, `Ask`, `Look`, `Put`, `AskFit`, `HttpStops` | `view` and `enqueue` of the runtime, for a page, a card or a sweep: the look for a result, the upsert of the text and the row of the fit are statements of the server's process, and the lanes come between them |
| `Restart`, `Deploy` | the worker dies and starts, `requeueAfterParserUpgrade`; with a new extractor version |
| `Tick` | the clock |

Abstractions: times are kept as what is left of them. What a lane does between two
calls takes no time, and a call ends within `CallTime` (a reading within two). The
name of a lane stands for its fencing token: a lane holds one row of each queue, asks
for nothing else while it does, and loses its memory in a restart. A step that would
find nothing is no step. The growing delays between attempts are one length. Rows that
are fresh are taken in any order (the code takes the one asked for last). A text whose
row is `completed` without a result, which an earlier release left, may be there at
the start.

## 3. Runs

| run | instance and bounds | properties |
|---|---|---|
| `executor` | two clients, three batches that share an action id and a daily hh slot, four actions, kill switch, consent, crash | the ten of the executor, but for the quiet hours, the boosts and liveness |
| `boosts` | two days of four times, quiet hours around midnight, two boosts and an application | `NoRunAtNight`, `BoostsApart` |
| `live` | a dispatcher with one item and a client with a batch of two share the executor; fairness, no crash, sessions connected | `CallEnds`, `ApprovedIsAnswered` |
| `dispatch` | two dispatchers, one LinkedIn item, all four outcomes of the runner, leases of one unit in two, crash, every way to stop and to start again | `SentMeansDelivered`, `ClosedIsJournaled`, `ApprovedNeedsConsent`, `LeaseHolds`, `CommitIsAuthorised`, `EmergencyHolds`, `KeepsPromise` |
| `queue` | one dispatcher, two items of a company, two modes, two rule sets, stop company, letters, closed window, daily limit 1 | `AutoApplyTypeOK`, `ApprovedHasText`, `RunsWithinSchedule` |
| `billing` | two plans, two checkouts, two renewals, two months of two units, crash | the seven of billing |
| `billing_live` | one checkout, one renewal, fairness, crash | `ChargeIsSettled` |
| `notifications` | one notification over two channels, three attempts, fairness, crash, time without a bound | `AnswersAreBounded`, `DeliverySettles` |
| `mechanics` | two lanes, one fit and its text, leases of two calls, two attempts, two waits, two requests or looks, statements that throw, a restart or deploy; fairness, time without a bound | `MechanicsTypeOK`, `WaitsCostNothing`, `CallsAreNeeded`, `WaitsForWork`, `FenceHolds`, `PercentComes` |
| `revocation`, `outage`, `renewal_stuck` | small instances | one promise each, violated (section 5) |

Why the bounds are enough. Every conflict in this code is between two calls (a lease
and its thief, a batch and its repetition, a guard and its owner) over one or two
rows: two callers and a shared id reach each of them, and a third caller only
repeats what the second one does, since the tables hold no counter of callers but
the daily usage, whose limit is set so that one application more than fits is
waiting. Batches have one or two actions: the loop of `runBatch` distinguishes the
first action, a later one and the last one, and `executor` has two batches that
change the platform, one in each direction, so that a stop of one platform falls
before the first action as well as before the last. The clock has as many values as
a lease, a window or a day needs to run out while something waits; `boosts` has
almost two whole days. `live` leaves all of these out: it has no lease that runs out, no
closed window, no limit that is reached and no break, so it says nothing of an
approved row that waits behind one of them. `dispatch` has one item because the dispatcher looks at one
row at a time and its rows meet only in the limits, which `queue` has with two
items. In `billing` the second checkout may be an upgrade or the payment of a
subscription that is past due, and the second renewal can follow the first one or a
renewed checkout; the clock reaches the end of the second period. The outbox treats
its rows alike and in turn: two rows of different channels are enough for one to
wait behind the other through a crash or a stale claim, and three attempts are a
first one, one with a delay and a last one. In `mechanics` a lease is shorter than a
reading and an assessment together, as in the code, so it runs out under a lane
while the other one takes the row; a pause of the channel (1) is shorter than the wait
of the row that met it (2), as in the code (one minute, five minutes). Two attempts are
a first and a last one, and two requests a look at the text beside a request for the
fit. Answers that would only double an effect are left out of the instance: an
"unavailable" model leaves what an exception leaves, a reading that the budget refuses
does what one that the channel refuses does, and a profile that changed ends a fit as
any failure does; the proofs have them all. (With two fits for one text, without
`PercentComes` and up to symmetry, the safety properties were checked as well, over
2.4 million states.) Each limit is reached, each pause ends, and each outcome of the
runner occurs.

Fairness. `live` assumes that the event loop serves a continuation that stays ready
now and then, that the session resolver and the runner answer, which the browser
timeouts of the runners justify, and that the app of the candidate keeps posting
`/dispatch`. The fairness is strong because a step waits for `loop = Free`, which
other calls take again and again. Nothing is assumed about the client who applies by
hand or about the candidate. Crashes and missing sessions are left out there: the code
stops the automation after an error, and an unconnected session blocks the row for
as long as it lasts.

`billing_live` and `renewal_stuck` assume that the scheduler starts the runner every
minute, that its awaits end (the gateway has a time limit), that the provider takes
or refuses a request and decides a charge, and that it answers a question about a
charge some time, since the runner asks again every five minutes. Crashes are
possible at every step and may recur; the fairness of the runner's steps is strong,
which says that not every run is cut off. Nothing is assumed of callbacks or
customers. `notifications` assumes the poller (every fifteen seconds), the clock, and
that a request is answered or runs into the time limit of `fetch`, with crashes that
recur as well. `mechanics` assumes the clock, that every lane goes on, and that of the
good answers that could come again and again one comes while the lane still holds
its row: an outage that never ends, or a model that is always slower than the lease,
is left out. It also assumes that one day no statement of a lane throws any more: a
database that is busy at every claim lets nothing through, as it does in the code.
Nobody has to ask again or to restart.

Deadlock is checked in every run.

## 4. What the properties say

The executor. `AtMostOneRun`: no action reaches the runner twice; `RunLeavesReceipt`
and `SettlesOwnPending`: no attempt is without a trace, and no outcome is filed under
another call's action; `FinalStays`; `RunsWithinLimit`, `NoRunAtNight`, `BoostsApart`:
limits hold when the action starts, not only when its batch was accepted, for calls
that go by the clock (the last two say nothing of a dispatcher, whose `now` is the
time its run began; the runs of `executor` and `boosts` have clients only);
`OneLinkedinRunner`; `StopsAtFirstFailure`: nothing runs after a failure, and what is
returned is complete and consistent with the tables; `AppliedMeansDelivered`;
`NoStartWhenStopped`; `CallEnds`. `BoostsApart` holds
across midnight only because the quiet hours lie there and are no shorter than the
interval between boosts (nine hours against four in the code): the usage row of a
new day knows no last boost.

Auto-apply. `SentMeansDelivered` and `ClosedIsJournaled`: the queue and the journal
tell what happened;
`LeaseHolds`: a run whose lease was taken over does not release its successor's;
`ApprovedNeedsConsent`, `ApprovedHasText`; `CommitIsAuthorised`: the guard after the
await covers mode, consents, emergency pause and the row; `EmergencyHolds`: an
emergency pause stops an application that was chosen already as well, and no write
of a dispatcher undoes it (the candidate switching off the kill switch `candidate` by
hand is not part of it: the instances toggle only the platform scopes);
`RunsWithinSchedule`: the limit of the schedule, counted from the journal, limits
what is started by one dispatcher that is not cut off, by the day its run began; `ApprovedIsAnswered`;
`KeepsPromise`: the implementation of `Applications`, that is, of what was recorded.

Billing. `RenewalWasAgreed`: a renewal goes back to a paid checkout with the opt-in;
`ChargesWhatIsDue`: it is for the subscription as it is when the charge is asked for
and not as it was listed, and once for a period; `CancelHolds`: no charge in flight
switches auto-renewal on again; `AccessIsPaidFor`, `AccessNeverShrinks`: a period
grows with a payment, once for each invoice, and no order of payments shortens it
(but for a confirmation dated at the start of a run that took longer);
`MoneyIsNotWrittenOff`: a charge whose outcome is unknown is never recorded as
failed; `ChargeIsSettled`: with every callback lost, asking the provider
settles a charge.

Notifications. `AnswersAreBounded`: the attempts, counted before the answer, bound the
answers of a row, and a delivery is at least once but no more often than it must be:
the provider is given a message that it took a second time only if the answer was
lost or could not be stored; `DeliverySettles`: no row
stays open for ever, although crashes leave claims behind.

Mechanics. `FenceHolds`: while the lease of a fit or of a text runs only its holder
settles the row, and only a holder publishes a percent or what it read; a lane that lost
its row does not undo what another one did (a deploy begins with other rows of the texts);
`CallsAreNeeded`: the model is not paid for
a text that has been read, although the server's look and upsert let a row that was just
completed go back into the queue; `WaitsForWork`: a fit waits only for a row that can
still bring its requirements (completed rows without a result once kept 410 fits
waiting); `WaitsCostNothing`: refusals, outages and waits use up no attempt, so a fit
that fails for the model or an exception has really had its three failures, lost leases
or exceptions; `MechanicsTypeOK` bounds attempts and waits; `PercentComes`: neither a
crash, a lost lease nor a wait keeps a fit for ever.

## 5. Findings

Three promises are not kept by the code; each has a run whose counterexample shows
how.

* `revocation`: revoking the consent is said to stop any action at once; a batch
  under way reads only the kill switch before its next action.
* `outage`: a job that met an outage is never to turn failed. The text that met it
  waits five minutes, but the lanes pause for one: in the other four the fit is
  claimed, finds neither requirements nor a pause and is deferred; each five minutes
  of outage cost it some four of its thirty waits, until it fails with
  `requirements_wait_timeout` (the next start of the worker, or a request, opens it
  again).
* `renewal_stuck`: the client is told to wait for the confirmation of the current
  payment and that it may try again; a renewal whose run crashed before the answer of
  the provider was stored stays `pending`, which the reconciliation does not list, and
  blocks every renewal of that period and every checkout of the account.

Observed while modelling, without a run, most of them because no text of the
repository speaks of the case:

* In the mode with approval "Отправка только после вашего «Отправить» на каждый отклик"
  (`AutomationHomePanel.tsx`); rows that the automatic mode approved by itself stay
  approved when the mode is changed to it, and are sent.
* The letter is copied from the row before the sessions are awaited: one that is taken
  back, edited and approved again meanwhile goes out in its older version.
* The lease of a fit (300 s) covers the reading of its text, two passes, and the
  assessment: it can run out under a lane that works, and a second one takes the same
  fit (`vacancyMechanicsLanes.ts` says "Jobs are leased, so lanes never take the same
  job"). The fence keeps the result right; the model is paid twice.
* Three lost leases of a text fail it, although no answer of the model was bad.
* A pause of a number of days sets a kill switch without an end: after the days have
  passed the executor fails the next approved row, until the candidate resumes.
* The page of an upgrade is open when the renewal of the old plan starts
  (`reserveRenewal` does not look at open checkouts). When both are paid, and the
  renewal is confirmed last, the old plan is back, with the upgrade as the parent of
  further renewals, and two payments have bought one month, for a renewal counts from
  the period it renews.
* An abandoned checkout, or one that a crash cut off, stays `pending` and blocks every
  other checkout of the account.
* A renewal that fails late sets a subscription that was paid anew meanwhile to
  `past_due`.
* A notification that is withdrawn while its row is claimed is still sent.
* A message that the provider took before a crash, or before a `completeDelivery` that
  failed, is sent again.
* A run that threw and a delivery without confirmation are recorded as `failed`
  although the application may have arrived, and the journal of the automation shows every
  such row with the words "Ошибка · ничего не отправлено"
  (`src/features/automation/automationFormat.ts:21`), "nothing was sent".
* The server looks whether a text has been read and upserts its row later, without a
  transaction (`sqliteVacancyRequirementsStore.ts:126-149`): a row that a lane completes
  in between is queued once more and completed again, without a call of the model.
* An exception while the requirements of a claimed fit are asked for costs the fit an
  attempt, as a failure of the model does, though no model was asked.

## 6. Proofs

Eight modules of proofs, one for each component or part of one. What they prove
holds for every value of the constants that the assumptions named in the modules
(`ConstantsAssumption`, `AutoApplyAssumption`, `BillingAssumption`,
`NotificationsAssumption`, `MechanicsAssumption`) allow: any number of callers,
dispatchers, rows, lanes, invoices and requests, any limits, times and bounds. Five
theorems assume more, each in its ASSUME:

| assumption | theorem | what in the code justifies it |
|---|---|---|
| `NightsAreLong` | `BoostsStayApart` | the quiet hours are nine (23 to 8, `shared/candidateActionPolicy.ts:3-4`), the interval of boosts four (`minHhBoostIntervalMinutes` 240, `:56`); with a night shorter than the interval two boosts around midnight would be too close |
| `RequestsApart` | `CommitsAreAuthorised`, `PromiseIsKept`, `ScheduleHolds` | the ids a client posts and the ids of rows are both random UUIDs (`useCandidateActionPanel.ts:208`, `candidateActionExecutor.ts:263`, `sqliteCandidateAutomationRepository.ts:402`), so that no direct batch runs the action of a row |
| `"candidate"` is not in `UserScopes` | `EmergenciesHold` | the theorem is about a pause; the switch of the scope `candidate`, which a client can also clear by hand, is excluded, as the comment of `EmergencyHolds` says |
| `Dispatchers = {d}`, no `"crash"` | `ScheduleHolds` | not a guarantee of the code but the scope of the statement: the limit counts journal rows, which are written after the run (`sqliteCandidateAutomationScheduleRepository.ts:343`), so a process that dies, or whose lease is taken over, between the run and its journal row lets its successor start one application more; nothing in the repository promises otherwise (see the hazard at that line). The instance `queue` is of that form |

Every safety property and every action property that a passing run checks is proved
(`theorems` in `PROJECT.json` pairs them). Each inductive invariant was first
checked by TLC, as an invariant of the instances of section 3 that exercise it
(those of the executor and the queue on `MCQueue`, `MCDispatch` and `MCLive`, with over
a million states, the others on `MCNotifications`, `MCMechanics` and `MCBilling`),
before it was proved.

### The executor: `ActionExecutorProofs`, `ExecutorBatchProofs`

The lemmas are not about `ExecutorNext` but about `ExecutorMove`: a step in which one
call begins, one call moves, calls are forgotten (a crash), or something outside of
the calls changes. Every step of `ExecutorSpec` is one (`NextMoves`), and so is every
step of `AutoApplySpec`, so each lemma serves both specifications.

`AtMostOneRun` is not inductive: that an action has run once does not say why a call
about to start it has not the second right to. `ExecutorInv` adds what the code
relies on. Each call owns places of its batch (`Owned`): the ones whose pending
receipts it inserted and has still to settle. `WellPlaced` says that a call beyond
its checks stands at a place of its batch, `SettlesOwnPending` that owned receipts
are pending and owned by one place of one call only, `OwnedNotRun` that an owned
place that was not handed to the runner has no run, and `RunLeavesReceipt` that a
receipt that is missing belongs to an action that never ran. An insert takes a
receipt that is missing, so it is new to everybody and has no run; a run takes an
owned place out of `Waiting` and settles nothing; settling gives up a place; a crash
gives up all of them, and leaves their receipts in the table, where no insert can
take them again. `FinalStays` follows from the same invariant, since only an owned
receipt is ever settled.

`BatchInv` adds to it:

* `ReservedMayRun`: between the check of an action and its start nothing else can take
  the loop, so that no switch and no quiet hour comes between them; hence
  `NoRunAtNight` and `NoStartWhenStopped`;
* `UsageCounted`: the runs of a day, with the slot of the one call that stands between
  its reservation and its start, are at most what `used` says, and `used` is within
  the limit; `RunsWithinLimit` alone is not inductive, since it does not know of the
  slot;
* `OneLinkedinRunner`: the guard is the call that runs;
* `BatchIsOwn` and `SettledSoFar`: a call works on the batch it inserted, and the places
  before its own are settled and delivered; hence `StopsAtFirstFailure`;
* `AppliedMeansDelivered`.

`BoostsApart` needs `BoostsKept` on top: the last boost of a day is in the row of the
day, and nothing runs after it without looking.

### Auto-apply: `AutoApplyProofs`, `QueueProofs`, `ApplicationsProofs`

`AutoInv` is `BatchInv`, the types, and `DispatchInv`, which ties a dispatcher to its call: a
dispatcher that waits for the executor has the call of the batch of its row, one that
settles has a receipt to settle from, and one that decides holds the loop. `AutoMoves` shows
every step to be an `ExecutorMove`; then the theorems of the executor hold
(`ExecutorHoldsInAutoApply`), but for the two about days and quiet hours: they would be
about the `now` of a dispatcher, and an application may start after the session was awaited
into the night. They are stated of the executor alone (`LimitHolds`, `NightsAreQuiet`).

`QueueInv` is about the tables of the queue: an approved row has the consents behind it
and text in its letter (`ReviewHasText` says the same of rows in review, which is what
makes an approval safe), the letter a dispatcher captured has text, what is called sent
is delivered, what is closed is in the journal. The action properties `LeaseHolds`
and `EmergencyHolds` come from how the runtime row moves (`RuntimeMoves`): a claim, a release by
the holder, a write of the rest that keeps the token, or the candidate's.

`PromiseIsKept` is the refinement of `Applications`. `PromiseInv` adds what the mapping needs:
direct calls work on no row (`DirectApart`), what is handed has been handed by its dispatcher
(`HandedInv`), and the receipts of rows agree with the batches (`ItemReceipts`). Lemmas sort the steps by
what they do to batches, receipts and runs of a row (inserts, refuses, hands, learns) and to
its status; each combination is a step of `Applications` or a stutter.

`ScheduleHolds` relates two counts: the runs of a day, which the limit is about, and the
entries of the journal, which the code counts. `ScheduleInv` says that every run of a row is
told by an entry of its day or is the run under way (`RunIsTold`); that the dispatcher, from its
choice to the end of settling, has left a slot of the day free; and that no entry in the way (`Fresh`)
makes the one to come a duplicate, which the journal would drop. `ScheduleStep` goes
through the operations of the candidate too, since each may write to the journal or take
the row away while it is being sent.


### Billing: `BillingProofs`

`BillingInv` has seven parts: `TablesInv` (types, and that the next charge is at the end of the
period), `CountInv` (a key buys once and a period is renewed once, which bounds the rows),
`AgreedInv` (auto-renewal and renewals go back to a paid checkout with the opt-in), `OpenInv` (one
open checkout; an open renewal is of a period that is over, or of the last one beside an open
checkout), `ReminderInv`, `ProviderInv` (what failed was not paid) and `RunnerInv`. `RenewalWasAgreed`
alone is not inductive: a renewal takes its parent from the subscription, so the
subscription must know one. `MoneyIsNotWrittenOff` needs to know of the provider what a
failed invoice says. `AccessNeverShrinks` needs `OpenInv`: a renewal starts from the end of its own period
and could take time away, if it could be open beside a longer one.

`SalesStep` reduces the steps to five kinds of change of invoices and subscription (`SalesMove`:
nothing, a payment, a failure, a purchase, a renewal), and the four action properties are read off them.

### Outbox and mechanics: `NotificationsProofs`, `MechanicsProofs`

`OutboxInv` says of each row how many answers the poller can have learned, from its
attempts and from whether the poller holds it: the attempts are counted at the claim, so
one of them is still without an answer exactly while it is held; a crash loses the
holder and not the count. And a message that was taken is delivered, removed, in the
hands of the poller, or lost.

`MechanicsInv` is `ReleaseInv` (results belong to releases that were deployed), `Jobs`
(the rows of the requirements: owners, attempts within their bound), `FitsInv` (the
attempts of a fit are those that were spent, apart from the claim that is open, and within
their bound its waits), `LanesInv` and `HttpInv` (the lanes and the handler) and `CallsAreNeeded`, which is inductive
beside them: a lane that reads looked for the result as it claimed, only a holder writes
one, and a second holder begins after the lease of the first. `FenceHolds` and
`WaitsForWork` are proved per action from it: each write compares the token of the lease
with the row (`HoldsFit`, `HoldsReq`), and an exception or the server writes a leased
row only as its holder or not at all.

### Only model-checked

Liveness (`CallEnds`, `ApprovedIsAnswered`, `ChargeIsSettled`, `DeliverySettles`, `PercentComes`) is out of the
prover's reach, since it rests on fairness; so are the three properties of section 5, which fail.

## 7. Not modelled

The components without a module in `PROJECT.json`, with the reasons there; of the
modelled ones: pages and sessions in the browser, encryption and seals, wording,
time zones, calendars and minute arithmetic, changes of the schedule, other
candidates and accounts, the sizes of the pages that the runner and the poller take
(`LIMIT`), trials, legacy tiers and quotas, the tokens of unsubscription, crashes inside the
handlers of the candidate; of the mechanics the rows under the key of another release
(`rekey`, `OTHER_RELEASE_WAIT_MS`), two workers at once during a deploy, the requeues
after a change of the parser alone, clusters of vacancies, sealed payloads, the deletion
of a candidate, the recount of the answers of a fallback model, and the day's ceilings
other than as a free choice. Most of the repository reads pages, prompts
models, renders screens or holds data about sources: it decides nothing between
several actors and is left to its tests. Behaviour that the models contain and
no property forbids, since nothing in the repository does, is listed with a note
under `hazards`.

## 8. Plan

Done: the executor, the queue and the dispatcher on top of it, the refinement to
`Applications`, billing, the outbox and the vacancy mechanics, modelled and checked;
their safety proved. Next, in this order:

1. Proofs that generalise: the executor's and the queue's action properties
   `FinalStays` and `NoStartWhenStopped` for `AutoApplySpec`, and a second
   refinement, of an abstract specification of the two queues by `Mechanics`.
2. `AccountPool`: leases, cooldowns and budgets of the LinkedIn pool; the spending
   ledger of the model calls; a schedule that changes.
