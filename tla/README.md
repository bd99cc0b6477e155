# Referly in TLA+

Referly is a multi-tenant affiliate platform: merchants record the sales that affiliates send them,
each sale earns a commission, commissions become payable after a holding period and are paid in
batches. Everything that happens outside a request (notifications, webhooks, provider payouts,
settlement, exports, backups) goes through a jobs table that a worker in the API process drains.
State lives in PostgreSQL; a request is one transaction (`apps/api/src/lib/rls.ts`), and so is the
work of a job. This directory holds TLA+ models of that code, the TLC configurations that check
them and the proofs that TLAPS checks.

## Inventory

| Component | Code | State | What makes it correct |
|---|---|---|---|
| Conversions | `services/conversions.ts` | `conversions`, `attributions` | one row per order and source; refunds never exceed the sale; the latest commission is the only live one |
| Commissions, ledger | `services/commissions.ts`, `statemachine.ts` | `commissions`, `ledger_entries` (append-only) | ledger and rows agree; a paid row never changes; disputed and test sales are held back |
| Payouts | `services/payouts.ts` | `payouts`, `payoutId` on the rows covered | nothing is paid twice, nothing payable is stranded, a batch equals what it covers |
| Disputes | `services/disputes.ts` | `disputes`, the status of the sale | a dispute holds the sale; resolving puts it where it was, cancels or reattributes it |
| Money | `money.ts` | none | integer arithmetic, half-even rounding |
| Job queue | `services/jobs.ts`, `apps/api/src/worker.ts`, `services/platform.ts` | `jobs`, the loop of each process | a job is claimed by one worker, its work committed once, every job done or dead |
| Webhooks out | `services/webhooks.ts` | `webhook_subscriptions`, `webhook_outbound_deliveries` | a delivery is settled; an endpoint that fails is paused |
| Provider payouts | `services/integrations.ts`, `payoutProviders.ts` | `payouts.provider*`, the provider | the provider pays a batch at most once |
| Intake | `orderSources.ts`, `routes/public.ts`, `tracking.ts` | events log, clicks | duplicates and reordered events change nothing |
| Attribution, rates | `attribution.ts`, `commissions.ts`, `tiers.ts`, `campaigns.ts` | none: a choice among stored rows | who is credited brought a click or code that counts; what it earns is within the sale |
| Leads | `leads.ts` | `leads`, `conversions` | one person is paid for once; the merchant's verdict and the money agree |
| Partners | `affiliates.ts`, `groups.ts`, `campaigns.ts`, `plans.ts` | affiliates, logins, memberships, participants | who is shut out cannot sign in; a membership is not lost; a bonus is awarded once; limits hold |
| Automation, messages | `automation.ts`, `events.ts`, `messaging.ts`, `notifications.ts` | rules, runs, logs | a rule does not feed itself; run-once keys hold |
| Accounts | `auth.ts`, `account.ts`, `tenants.ts` | users, sessions, tokens | a reset ends every session |
| Upkeep | `retention.ts`, `privacy.ts`, `backup.ts`, `maintenance.ts` | all tables | deletion follows the policy; a backup restores |
| Reads | `reporting.ts`, `analytics.ts`, `exports.ts`, `journeys.ts`, `assets.ts`, `audit.ts` | logs, files | reads of what the others own |
| Clients | `apps/web`, the WordPress plugin, the browser snippet | none of the server's | not modelled |

Components interact in three ways. Services call each other inside one transaction (a refund calls
the commission service, a dispute calls the conversion service). They leave jobs in the outbox in
the same transaction as the change (`emitEvent`, `fanOut`, `queueProviderPayout`). And they meet in
rows: a batch, a refund and the settlement job all write the same commission.

What is hard: the order of many calls on the same money; statements of two transactions interleaved
under READ COMMITTED, since most writes are an unconditional `UPDATE` after a check; a process that
stops between a claim and a completion; a job repeated after its work was done; rows read before an
HTTP call and written back after it. `PROJECT.json` lists these hazards line by line.

## Modules

| Module | Models | Runs |
|---|---|---|
| `Money` | `divideHalfEven`, `proportion` | through Settlement |
| `Rates` | rates, basis, tiers, live campaigns as operators | `settlement` (its earnings, and assumptions) |
| `Settlement` | conversions, commissions, ledger, payouts, disputes as one state machine | `settlement`, `settlement_*` |
| `Wallets` | what Settlement promises an affiliate about its money | TLAPS |
| `SettlementProofs` | theorems about Settlement, Money and Rates, and that it implements Wallets | TLAPS |
| `SettlementRaces` | the same calls on one sale, statement by statement | `settlement_races` |
| `SettlementRacesProofs` | theorems about SettlementRaces | TLAPS |
| `JobQueue` | the jobs table, the workers' loop, crashes, an admin's retry | `job_queue` |
| `JobQueueProofs` | theorems about JobQueue | TLAPS |
| `Webhooks` | subscriptions and deliveries on top of `JobQueue` | `webhooks`, `webhooks_one` |
| `WebhooksProofs` | theorems about Webhooks, and that it implements JobQueue | TLAPS |
| `ProviderPayouts` | payouts sent through a provider, on top of `JobQueue` | `provider_payouts` |
| `ProviderPayoutsProofs` | theorems about ProviderPayouts, and that it implements JobQueue | TLAPS |
| `Intake` | orders, refunds and cancellations told by three senders; the campaign bonus | `intake` |
| `IntakeProofs` | theorems about Intake | TLAPS |
| `Automation` | the merchant's rules, run by the jobs of events | `automation` |
| `AutomationProofs` | theorems about Automation | TLAPS |
| `Affiliates` | affiliates, logins, memberships, the plan's limit | through Leads |
| `Attribution` | `resolveAttribution` over the state of Affiliates | through Leads |
| `Leads` | leads, dedupe and verdicts, on top of Affiliates and Attribution | `partners`, `partners_unqualified` |
| `LeadsProofs` | theorems about Affiliates, Attribution and Leads | TLAPS |
| `MC*` | the instances TLC checks | |

### Settlement

One action is one service call; its guard is the conjunction of the call's checks, since a call that
throws rolls back. `conversions[o]` is the sale with external order id `o` and carries its open
dispute: `"approved"` or `"other"` says which status the dispute found, all that
`releaseConversion` asks. `commissions[k]` are rows in the order of their `seq`, so that
`currentCommission` is the greatest id of an order. The ledger is kept in two parts:
`credited[k]`, the running sum of the credit and reversal rows of commission `k`, and `entries`, the
adjustments and clawbacks one by one, since batches carry those. `payouts[p]` keeps the row ids that
its audit record snapshots. Calls that call other services are built from the same operators as the
code: `RefundConversion` uses `ReverseCommissionRow` and `ReduceCommissionRow` as `refundConversion`
does.

Time is abstracted: `SettleHoldingPeriods` may find any set of held commissions due. A program's
refund policy can be edited at any moment, so a refund meets any policy. Commission amounts come
from a set. Left out: several currencies in one workspace, sales without an affiliate and leads,
comments on disputes.

`Wallets` is the abstract specification: commissions that are held, due, paid or closed, ledger
lines, and batches that are open, paid or cancelled; no sales, refunds or disputes. Whatever happens
to those (`Trade`) may only bring new commissions and lines, let a commission become due, or lower
one that is not paid; `Draw` takes all that is due to an affiliate, `Pay` and `Release` settle a
batch as a whole. `Promise` maps Settlement to it (a draft, a batch being processed and a failed
one are all open), and `KeepsPromise` is the refinement.

### JobQueue

A worker is a record of where it is in `runDueJobs`: it has picked a candidate, runs the handler,
has its work committed, or has caught an error. The claim is two steps, the `SELECT` and the
conditional `UPDATE`; the handler's transaction is one step, `Commit` or `Throw`; `CompleteJob` and
`FailJob` are statements of their own. `Slip` is a database error under the handler or under
`completeJob`, which share one `try`. `Crash` is a process that stops with a job in hand (`shutdown`
in `server.ts` does not wait for it), or whose `failJob` fails. `RetryJob` is the admin's retry,
which asks nothing about the job's status. Due times are abstracted: a queued job may be picked at
any moment.

### Webhooks

The queue is an instance, `Queue`, whose job ids are the deliveries (the job's key is `whk:<id>`).
An attempt is taken apart where the code waits: `Post` reads the delivery and its subscription and
records the endpoint's answer, `WriteDelivered`, `RetryLater` and `WriteExhausted` write what came
of it from the values read before. `accepted`, `lost` and `exhausted` are history variables for the
properties. `ImplementsQueue` is the refinement: every step of the webhooks is a step of the queue
or leaves it alone.

### ProviderPayouts

The queue is again an instance: the job of a batch is `send_payout:<id>`. A worker reads the batch
and whether its provider is still connected (`ExecuteRead`), asks the provider (`Send`) inside its
open transaction and writes the answer in a later step (`ApplyResult`), so that what it read may be
gone; the answer may be lost, since every error of the call, a timeout included, is returned as a
failure. `provider` is what each provider made of each idempotency key (`Keys`: a batch's key is
`payout:<id>`, and the two providers keep theirs apart); that a provider honours a key is the one
thing assumed of it, and that it forgets a key after a day or a month is not modelled.

A merchant's request is taken apart where the code waits: `AskBatch`, `AskSend` and `AskMove` read
and check, `FindProvider` is the look at the affiliate's method and the connected providers, and
`CreateBatch`, `QueueProviderPayout` and `SetStatus` write by the batch's key alone, whatever it has
become. `stale` is the history of batches written from a copy that no longer held. Meanwhile
providers are connected and disconnected, and the settlement job polls.

### SettlementRaces

The calls of Settlement once more, for one sale, one commission, batches and disputes, with the
statements of each call apart: refund, cancellation and approval of the sale; reversal, approval and
release of the commission, and settlement; reattribution to another affiliate and to nobody; drafts,
external payouts, and the batch's moves to processing, failed, paid and cancelled; opening (linking a
claim runs the same statements), reviewing and withdrawing a dispute, and its resolution by restoring
and reattributing, or by cancelling. A transaction keeps the copies it read (`seen`) and the rows it
wrote (`mine`), which others then wait for. A statement sees what was committed when it started, an
`UPDATE` by id writes what it was given, and the few with a condition in their `WHERE` look again; of
two transactions that wait for each other `EndDeadlock` ends one. A multi-row `UPDATE` is one step.
The properties name the pairs of calls that may not overlap, `met` being the pairs that have.

The program's refund policy is "partial" here. A later commission of the sale, which a reattribution
adds, is only known to be there (`superseded`): corrections of the sale then leave this one alone.
Clawback entries of paid commissions are left out: the ledger here is that of one commission. What a
provider writes is in `ProviderPayouts`, a lead's verdict in `Leads`.

### Intake

A delivery is one transaction: `Deliver` inserts the event's key in the log, the order is looked up
by the sender's ids (`Found`, `AddId`), the sale is inserted, refunded or cancelled, and all of it
commits or is rolled back. Refunds of Stripe say what a charge has returned so far, those of a shop
what one refund returned. Attribution's answer is an input (`claimed`), and which of two sales of
one order is looked at is left open. `evaluateBonus` is taken apart into its reads and its write.
That the campaign is live is assumed; its own life is not modelled.

### Automation

The job of an event is one transaction that reads the facts once and takes rules and actions in
order; a failed action is rolled back to its savepoint and ends its rule. Emails leave at once and
stay sent when the job is rolled back. `approveCommission`, read and update, is one step. Schedules,
rule toggles, the window in which a rule is active, tasks, texts and the other condition fields are
left out.

### Affiliates, Attribution, Leads

A call takes three steps: it reads the affiliate and counts against the plan, writes the row, which
others then wait for (the unique index on the email makes two inserts of a person wait as well), and
writes the memberships and commits. Read and count are one step; at most one invitation is open for
a person and a program; a plan has a limit; initial states are what one earlier call leaves (a person
unknown, an application, or an affiliate added by hand, to every program or to none).
`eraseAffiliate` and the columns one call writes alone (groups, profiles, overrides) are left out.

`Attribution` turns the evidence of a sale, clicks with their ages and a coupon, into the set of
possible answers: where two clicks are of the same time the order of the rows decides. It reads the
affiliates and memberships as committed. Test mode and the log of candidates are left out.

`Leads` records a lead with that answer, looks for an earlier lead of the person, lets the merchant
qualify or disqualify it, and lets the commission become payable and be paid. A lead shares the
connections of `Affiliates`, so that an approval and a lead may overlap. The sale is written from
the copy a verdict read, the commission is read again. Whether a program approves leads at once is
chosen freely at each recording. `LeaveWindow` and `EraseContact` are the two ways an earlier lead
is forgotten; nothing but the next lead of the person depends on it, so both are decided only while
one is being recorded. Settlement and payment are single steps here, taken only while no call has
written the lead; `SettlementRaces` covers their overlaps. The merchant's own calls do not ask whether
a sale is a lead's: refund, cancellation and approval of the sale, reversal, approval and release of
the commission are here, each with its read (`CancelConversion` and the others), its check
(`VoidRefused` where a payable commission cannot become void) and its write (`WriteByHand`);
`corrected` is the history of leads the merchant took money back from. Disputes and manual
reattribution of a lead's sale are left out.

### Rates

`ResolveRate` is the precedence of campaign, membership, tier, offer and program; `BasisAmount` and
`ComputeCommission` the amount; `Counted`, `Performance` and `ResolveTier` the tier an affiliate's
earlier sales give; `LiveCampaigns` the campaign that applies. They have no state: a commission keeps
the amount it was created with. `MCSettlement` takes Settlement's earnings from them and lets TLC
evaluate the proved statements, and tiers on three sales, on small numbers.

## Runs

Bounds are constants named in the module and set in the `.cfg`.

- `settlement`: two sales, two commissions (two sales, or one sale reattributed), one ledger entry,
  two batches, amounts of 2 so that a partial refund exists. Two batches are enough for one to be
  cancelled and drawn again. TypeOK, LedgerMatchesRows, OnlyLatestIsOpen, NoDoublePay,
  NothingStranded, NeverShort and PaidIsFinal hold.
- `settlement_reconcile`, `settlement_clawback`: what the guide or a comment says and the code does
  not do; see Findings.
- `settlement_races`: two connections and any four calls on a sale of two units that may be refunded
  one by one; two batches, two disputes. The sale is as it was recorded, or its commission is
  payable already: from there four calls are enough to draw, cancel, draw again and do something
  else to the first batch meanwhile. At most two pairs of calls overlap in one behaviour
  (`MaxMeetings`): a property's exception is one pair, and the second pair shows what another
  overlap adds to it. The proofs need neither bound. The run shows which overlaps lose a refund
  (`NoRefundLost`: two refunds), let ledger and row drift (`LedgerFollowsRow`: a reversal by hand or
  a reattribution, and another correction), put a commission into two live batches (`PaidOnce`: two
  draws, or a cancellation while another call gives the batch a status), let a disputed sale go
  (`HeldWhileOpen`: an approval of the sale, which asks nothing about the dispute, or calls about
  disputes that overlap each other or an approval), or bring back a commission that was taken back
  (`EndedStaysEnded`: a settlement or an approval and a correction, corrections that do not wait for
  each other, and what met the payment), and that nothing else does. `RefundsWithin` holds whatever
  overlaps, and two calls wait for each other only when one writes the sale first and the other the
  commission (`CycleOnlyAgainstOrder`: refund, cancellation and resolution against settlement,
  release and reattribution).
- `job_queue`: two workers (one deployment replacing another), two jobs, one retry per job, one
  database error per job, one crash, two attempts. Safety, and that every queued job settles.
- `webhooks`: the same two workers under two deliveries of one endpoint, with retries and errors.
- `webhooks_one`: one worker, as the API is deployed (`docs/COOLIFY.md:147`), three deliveries, so
  that a streak of two can be interrupted, a merchant's two edits and a crash. `AutoPause` is
  stated for this deployment only: with two processes two failures may be counted as one.
- `provider_payouts`: two requests that may overlap, one worker, one commission that may be drawn
  three times, two attempts, a crash, a retry of a job by an admin, and three requests besides the
  draws: enough to read a draft, cancel it, draw again and hand the second batch over before the
  first request writes. Unless a request wrote over what another had done (`stale`), one provider has
  one payment of a batch, whatever is retried, whatever method the affiliate chooses and whatever
  the workspace disconnects; a commission is paid twice only after a batch the provider had was
  recorded as failed; and a batch that waits to be sent has its job.
- `intake`: eight events about two orders, repeated and reordered, four deliveries on two
  connections. An order is one sale unless two senders' requests overlapped; an event answered as
  processed has done its work; refunds find their sale; the bonus is given once, and given.
- `automation`: two workers, three events about two commissions, three rules (a bonus with an
  approval, once per commission; an email with a tag, once per affiliate; a rule for the tagged),
  two edits or interruptions.
- `partners`: two affiliates, two programs (one accepts at once, one asks), one person in two leads,
  any three calls on two connections, the merchant's own calls on a lead's sale and commission among
  them. Three calls are needed: two that overlap and one that made the state they meet, or a lead, a
  correction by hand and a verdict.
- `partners_unqualified`: see Findings.

Every property of a passing run is violated by a plausible slip in the code, listed in
`PROJECT.json` as its mutant and found by TLC on the same instance. `TypeOK` is checked where it says
something of the code (in Settlement it bounds refunds by the sale) and proved for Settlement,
JobQueue, Webhooks, ProviderPayouts, SettlementRaces and Intake; the other modules state their shapes
as documentation and for their proofs.

Deadlock is not checked in any of them: the system rests when every job is settled, every sale is
closed or the bounded tables are full.

**Fairness.** Only workers are fair: each polls every two seconds and goes on while it lives
(`WF` on a worker's loop as a whole, so that nothing is assumed of which job it picks), and `post`
gives up after ten seconds. Merchants, admins, errors and crashes are not fair. Settlement states
no liveness: nothing in the code forces a merchant to pay.

## Findings

Shown by a run:

- A batch's amount is fixed when it is drawn; refunds and reversals of the commissions in it do not
  change it, and it is paid without reconciling (`PayoutReconciles`, against PAY-06,
  `payouts.ts:255`). It never pays less than what it covers (`NeverShort`).
- Two corrections of a paid commission take back more than was paid (`ClawbackWithinPaid`).
- A lead nobody has qualified becomes payable when its holding period is over
  (`NothingUnqualified`, against `affiliate-guide.md:60`): `settleHoldingPeriods` takes pending
  commissions of any kind of sale.

Met while modelling, without a run of their own:

- Opening a dispute once the commission is payable does not hold it (`merchant-guide.md:273`).
- Re-enabling an endpoint while a delivery is on its way is overwritten by the streak read before
  (`webhooks.ts:101`, `webhooks.ts:316`).
- A rejected affiliate who accepts an invitation stays rejected (`affiliates.ts:105` says it becomes
  active); a pending membership of an affiliate that is active already cannot be approved
  (`affiliates.ts:161-165`); an erased affiliate can be reactivated.
- Disqualifying a lead whose commission was paid writes no clawback (`leads.ts:198`), as a refund
  would. A lead whose id equals a sale's of the same source attaches to it (`conversions.ts:347`).
- Retention may blank a lead's contact (from 30 days) inside its program's dedupe window (up to 365
  days), after which the same person is paid for again; unattributed clicks, too, may be dropped
  inside a program's attribution window.
- With programs of different attribution models, one more click may move the credit from one
  affiliate to a third, or from its own affiliate to another (`MixedModelsShiftCredit` in `MCLeads`).
- `eligibleAmountMinor` is not held against the sale's amount as `netAmountMinor` is
  (`conversions.ts:80`): a commission is within its basis (`CommissionWithinBasis`), which need not
  be within the sale.

## Proofs

`SettlementProofs` proves, for every set of sales, affiliates and amounts and every bound, what the
`settlement` run checks on its instance.

- `TypeCorrect` is inductive with a strengthening: the refundable amounts keep
  `refunded <= amount`, hence the arguments of `Proportion` in its domain, and `Proportion` yields a
  natural number.
- `LedgerMatchesRowsCorrect` is inductive over types: every operation that changes an amount changes
  `credited` by the same difference.
- `OnlyLatestIsOpenCorrect` and `NoDoublePayCorrect` need more than themselves. `HistoryInv` adds
  that ids are handed out in order, so that the commission a reattribution creates is later than
  all others, and that every row but the latest of an order is closed. `BatchInv` ties the
  rows to the snapshots: what a live batch snapshots points back to it (`SnapshotsHold`), and rows
  not yet payable and unused lines are in no batch. Two live batches that shared a row would have
  it point to both.
- `NothingStrandedCorrect` and `PaidIsFinalCorrect` follow from `BatchInv`: no transition leads out
  of `paid`, a paid row is in a paid batch, and a paid batch cannot be cancelled, so that only rows
  of unpaid batches are released.
- `NeverShortCorrect` is inductive over `BatchInv`: a draw pays the sum of what it takes, a step that
  is not about the batch never raises a row that is in one and leaves its lines (`CoversStill`), and
  a cancelled batch covers nothing. It rests on lemmas about `SumFunctionOnSet`: any element may be
  summed first (`SumOneFirst`), larger terms sum up to no less (`SumMonotone`), and more terms, if
  they are not negative, neither (`SumGrows`). They are proved without induction over data, by a
  smallest subset that would be an exception (`SmallestSubset`, from the well-foundedness of `<`);
  that the function which the sum's definition chooses exists (`SumsExist`) likewise.

- `PromiseKept` is the refinement of Wallets. Every call that is not about a batch changes each
  commission as `RowStep` says and each line as `EntryStep` says (`OtherStep`), which is a `Trade`
  (`TradeStep`); a new batch is a `Draw` (`DrawStep`), where `RowsOwned` is needed for the code's
  filters on test sales to leave nothing due behind; the moves of a batch are `Pay`, `Release` or a
  stutter (`MoveStep`). TLC finds no error in `KeepsPromise` on the instance of `settlement` either,
  but takes more than twice as long there, so that the run does not list it.

The proofs assume `ConstantsOK`, which TLC evaluates on every run.

`JobQueueProofs` proves every safety property of the `job_queue` run for any finite set of workers,
any set of jobs and any numbers of attempts, retries, errors and crashes.

- `ClaimedOnceCorrect` and `AttemptsSpentCorrect` rest on `ClaimInv`: for a job no admin has retried,
  the copy of the row a worker decides on (`failJob` compares the attempt of the claim) agrees with
  the row, the row is running, and a queued row has attempts left. Without the agreement of copy and
  row, a stale worker could end a job early or put it back once too often.
- `DoneMeansDoneCorrect` rests on `DoneInv`: a worker about to complete a job has committed its work.
- `StuckOnlyByCrashCorrect` rests on `HeldInv`: while nothing has crashed, every running row is in
  some worker's hands. An admin's retry may put a second worker on it, and either may end it.
- `CommitBudgetCorrect` rests on `BudgetInv`, which counts the commits still to come: those made,
  the workers that may commit or send the job back, and one if it is queued, are together at most
  one more than the retries and errors. Each step of a worker changes one worker's share of the
  count (`PendingCounts`), and what it adds is paid for by a retry or an error (`PaidFor`).

They assume `QueueConstants`, of which the finiteness of `Workers` is needed to count them.

`WebhooksProofs` proves that Webhooks implements the queue (`QueueImplemented`: every step of a
worker, an endpoint or a merchant is a step of `JobQueue` or leaves it alone) and every safety
property of the two webhook runs, for any sets of workers, deliveries and subscriptions.

- `TablesInv` holds the shapes, that a delivery exists exactly if its job does, and that one worker
  at most has a job that nobody retried by hand.
- `PendingHasJobCorrect` rests on `WaitInv`: a worker that is done with a job has settled its
  delivery, and one that gives up has attempts left, unless an error made it, by the attempt number
  it carries from the claim.
- `AcceptedOnceCorrect` and `SettledIsFinalCorrect` rest on `AnswerInv`: while nobody has retried the
  job, a post that was accepted is written down, on its way with the one worker, or lost.
- `AutoPauseCorrect` assumes that there is one worker, as the property does. `PauseInv`: no
  subscription's streak, stored or in a worker's hands, is behind the failures in a row.

`ProviderPayoutsProofs` proves the same refinement and every safety property of its run, for any sets
of batches, commissions, requests and workers. `Named` says that an open request is about a batch,
`Base` adds the shapes and what a request has read (`RequestsInv`) and a worker's call can be
(`CallsInv`). `OnePaymentPerBatchCorrect` rests on `ViaInv`: once a provider is asked about a batch,
the batch names that provider and is no draft any more, or was written over.
`PaidTwiceOnlyInDoubtCorrect` rests on `DoubtInv` (a batch the provider has is being paid, paid, in
doubt, or was written over) and `HoldsRows` (rows leave a batch only when it is cancelled).
`QueuedHasJobCorrect` rests on `JobInv`: only a worker whose attempt is over ends a job, and no such
worker leaves the batch waiting, errors excepted.

`LeadsProofs` proves every property of the `partners` run for Spec of Leads, which contains
Affiliates, and theorems about Attribution.

- `WithinLimitCorrect`: `WithinInv` adds `Room`: every open admission during which no other one
  committed still has room for one more affiliate under the highest limit so far; an admission that
  commits takes its room and marks the others (`beaten`), which count as `late` when they commit.
- `ShutOutCorrect` and `NeverDemotedCorrect` rest on `CallsInv`: until another call about the person
  commits, the copies a call reads are what the tables hold, and what it will write suits them.
- `VerdictHoldsCorrect` rests on `VerdictInv`: status, sale and commission of each lead agree
  (`Agrees`), and a call writes what it makes (`Makes`) of a copy that permits it (`Permits`) and that
  the table still holds, unless two calls about the lead overlapped (`Judged`).
- `OnePayPerPersonCorrect` rests on `PayInv`, which says of leads that are written and not committed
  yet, too, that they are no second pay for a person. The look for earlier leads sees whatever pays
  already unless it was forgotten, or is being recorded at the same time.
- Attribution has no state to induct on: for any evidence and any state of the affiliates, who
  is credited brought a click or code that counts (`CreditIsEarned`), somebody is if anything counts
  (`SomebodyIsCredited`, which needs a longest window to have an earliest click), and where all
  programs share one model one more click gives the credit to its own affiliate or changes nothing
  (`OneMoreClick`). The last needs the one model: the program clicked last decides whose model
  applies.

`SettlementRacesProofs` proves every property of the `settlement_races` run, for any amount, any
finite set of batches and any numbers of calls, overlaps, disputes and sessions. `Base` says of each
session what it can have read and written where it stands: `Typed` and `Scope` which rows its call is
about, `Script` which rows are locked before each statement, `Wrote` how the copy it will commit
differs from the committed row. Locked rows are disjoint, and any two calls that are open have met
(`Meeting`). One lemma per kind of statement says what it does (`ReadBase`, `WriteBase`, `PassBase`,
`ThrowBase` and what is derived from them), so that every step opens a call, continues one or ends it
(`Opens`, `Progress`, `Ends`). On this stands one small invariant per property, always of one form:
unless the named pair of calls has met, what an open call read is what the row still says.
`RefundsRead` is that of two refunds, `LedgerRead` that of corrections (which lock the sale before
they read the commission, reversals by hand and reattributions excepted), `LiveHolds` that of draws
and of the calls that give a batch a status, `DisputeHolds` and `EndedSeen` those of disputes and of
commissions taken back or paid. `CycleOnlyAgainstOrder` follows from `Waiting`: what a call that holds
a row can still wait for (`WaitsAs`). `RaceConstants` is assumed: batches and disputes have different
names, which are not those of the sale and the commission.

`AutomationProofs` proves `FactsCurrent` and `ActsOnce` for any rules, any numbers of events, workers
and interruptions. `Base` says what the job of an event has done where it stands, and that two jobs
that are open have met. For `ActsOnce` take a rule that runs once, and the entities among which it
does (one entity, or all of them for once per affiliate). Unless two jobs of that kin have met,
`OnceInv` holds: a job that has been at the rule found no success on record (`Fresh`), and what was
booked or sent for it belongs to a run on record or to the one open job (`Booked`, `Sent`).

In `SettlementProofs` the theorems about Money and Rates say that half-even division is the nearest
(`HalfEvenIsNearest`) and monotone, hence that a percentage stays within its basis
(`CommissionWithinBasis`), that larger sales never earn less (`LargerSaleEarnsNoLess`), that a
further refund never raises what is left of a commission (`RefundsOnlyReduce`, the reason why
`reduceCommissionRow` may ignore a raise), and that better figures never lower a tier's threshold
(`BetterNeverLowers`). With the sums, more sales make better figures, so that one more sale never
costs an affiliate its tier (`MoreSalesNeverLower`).

`IntakeProofs` proves for any senders, orders, events, connections and thresholds, that an order has
one sale unless recordings overlapped (`OneSalePerOrderCorrect`), that a logged order has its sale
(`OrdersRecordedCorrect`), that its sale shows what the logged refunds returned (the other half of
`LoggedIsDoneCorrect`), that a refund finds it (`RefundFindsSaleCorrect`) and `BonusRightCorrect`.
`Base` says what an open request has read and written where it stands (`Script`, `Fits`), that
requests do not share rows (`Apart`), and that any two open ones about one order have met
(`Meeting`). Every statement is one of seven forms (`Finds`, `Misses`, `Attributes`, `Inserts`,
`Updates`, `Checks`, `Ponders`), on which the invariants are checked.

- `SaleInv`: when a request is about to insert a sale, or has inserted it, all other committed sales
  of its order are those of requests it overlapped.
- `FoundInv`: a logged order has its sale, with the shop's id if the shop told it, or nobody could be
  credited; and a refund that found nothing had no recorded order of its sender, or met it.
- `RefundInv`, for a sale that is `Quiet` (the only one of its order, whose refunds all found it and
  did not overlap): it shows what the logged refunds returned, or is cancelled; an open refund has
  read it as it is, and from its check on carries what the sale will have returned (`Refunding`);
  other events leave that (`NotRefunding`); and an event is handled once (`HandledOnce`). That
  `refundMapped`'s difference comes to this is `Asking`, with one refund more as `OneMoreRefund`.
- `BonusInv`, while no recordings overlap, no cancellation overlaps a refund and nobody is invited
  again: mark and bonus agree (`Marked`), what a request counts by still holds, nobody brings a
  cancelled sale back, and a recording that commits without a bonus owes none (`Won`, from the
  cardinality of subsets).

`IntakeConstants` is assumed, and for `LoggedIsDoneCorrect` also `RefundsAddUp`: the refunds of an
order come from one sender and never return more than was paid, in whatever part they have arrived.
That is what senders tell, not what the code enforces: a refund past the amount is cut to what is
left (`Asked`), so that the sale would show less than the events sum up to. `MCIntake` evaluates it
on the events of its run.

Only model-checked: all liveness (`Settles`, `DeliverySettles`), which is beyond the prover. The
violation runs are single instances.

## Assumptions

- One request is one transaction (`apps/api/src/lib/rls.ts`) at READ COMMITTED, the default: a
  statement sees what was committed when it started, writers of a row wait for each other, and
  Postgres ends one of two transactions in a cycle.
- Times are abstracted: anything that may be due may be found due. Windows are left at any moment.
- The atomic models (Settlement) say what calls do one after another; `SettlementRaces` says which
  of it survives overlaps. The two are not joined in one model, which would be out of TLC's reach.

## Plan

Done: the core (Settlement, JobQueue, Webhooks), provider payouts, races, intake, automation,
partners with attribution and leads, rates, and the proofs of all of them. Left:

1. A campaign's own life (draft, live, ended) and its terms in Intake, with the rates of Rates.

## Not modelled

- Messaging, email and text: sends are jobs, which JobQueue and Automation model; templates,
  transports and consent are wording and I/O.
- Sessions, accounts and API keys: random tokens and single rows written by one call; the one link
  to other state, the login an affiliate's status closes, is in Affiliates.
- Workspaces, teams and billing: record keeping; the limits of programs and team members have the
  shape of the modelled one.
- Journeys, reporting, analytics, exports, assets, audit: appends and reads of what others own.
- Backups, dumps, most of retention, the erasure of affiliates: deletes by age and copies of whole
  tables.
- HTTP routes, the web application, the WordPress plugin, the browser snippet: clients of the
  services, without state of the system. They are more than half of the code.
