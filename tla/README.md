# GetPaidHQ in TLA+

A TLA+ development of the parts of GetPaidHQ (a Go billing service in front of
payment gateways) whose correctness depends on the order in which things happen:
the recurring-billing engine, the way from an order to its first payment with the
coupon it holds, the transactional outbox of domain events, the recovery of failed
charges, the way of a usage event to an invoice, and requests with an idempotency key;
and of its algorithms that turn usage and discounts into amounts. The modules are
translated from the Go source; line references below are to files of the repository.
`PROJECT.json` maps every definition to the lines it stands for.

    tlc -workers 2 -config Billing_core.cfg MCBilling.tla      model-check a run
    tlapm Billing_proofs.tla                                   check the proofs

## 1. Inventory

### Components, their state, their operations

| component | state | operations | where |
|---|---|---|---|
| Recurring billing engine | none of its own: it moves subscription rows, invoices and payments | cron sweep, billing-cycle-runner, charge, the two result handlers, sweep of trials and retries | `core/service/subscription.go`, `adapter/hatchet/workflows/billing_*.go` |
| Subscription aggregate | status, cycles_processed, retries, renews_at, next_retry_at, period, trial | activate, advance, schedule a retry, pause, resume, cancel, anchor, change plan | `core/domain/subscription.go`, `core/service/subscription.go` |
| Invoices | status per (subscription, cycle), line items, number | build for an order or a cycle, open, pay, void, write off | `core/service/invoice.go`, `core/domain/invoice.go` |
| Orders and checkout | order status, items, checkout session | create, complete by API, complete by checkout webhook | `core/service/order.go`, `order_workflow.go` |
| Coupons and reservations | coupon and code caps, holds with expiry, discounts | gate, reserve, consume, preview | `core/service/coupon.go` |
| Payment webhooks | idempotency claims | claim, start a workflow, signal a waiting run, release | `core/service/webhook.go` |
| Payment gateways | external | charge, verify, initialise, refund | `adapter/paystack`, `adapter/checkout_com`, ... |
| Workflow engine adapter | runs keyed by run key, memoised steps, events | spawn, replay, evict, wait for event | `adapter/hatchet` |
| Domain event outbox | `outbox_events` rows and their locks | insert, claim, publish, mark, back off, purge | `lib/pubsub/relay.go`, `adapter/db/postgrespgx/outbox_repo.go` |
| NATS publisher | connection, client buffer | publish, flush, close | `adapter/nats/nats.go` |
| Application wiring | life of connection, relay and server | New, Run, shutdown | `app/app.go` |
| Dunning campaigns | campaign status, attempts, counters, configuration snapshot | open, attempt, recover, escalate, give up; pause, resume, cancel, charge by hand | `core/service/dunning.go`, `dunning_orchestration.go` |
| Dunning runner | a durable task per campaign | immediate and progressive retries, waits, signals | `adapter/hatchet/workflows/dunning_*.go`, `wait_*.go` |
| Payments and refunds | payment rows | record, refund | `core/service/payment.go` |
| Usage and meters | `meter_events` | record, attribute to a subscription, read a period, aggregate | `core/service/usage.go`, `core/domain/usage_interval.go`, `meter*.go` |
| Usage ingestion | a durable work queue, its message ids and deliveries | publish, fetch, write, acknowledge, give back | `adapter/jetstream` |
| Prices and discounts | none: pure functions | price a quantity, apply stacked discounts to lines | `core/domain/pricing.go`, `invoice_build.go`, `discount_apply.go` |
| HTTP idempotency | `idempotency_requests` | claim, complete, abandon, sweep | `adapter/http/middleware/idempotency.go`, `adapter/db/postgrespgx/idempotency_store.go` |

`PROJECT.json` lists the rest (catalogue, carts, authentication, the HTTP layer,
the second engine, clients) with the reason each is left out.

### How they interact

* **Calls.** An HTTP handler, a webhook and an engine task each call one service
  method; a service method groups its writes in `RunInTx`. Whatever it does after
  that transaction (spawning a run, writing an invoice off) is a second step that
  can fail or be overtaken by itself.
* **Shared state.** Everybody meets in the subscription row and in the invoice of
  a cycle. Some writers lock the row (`FindByIdForUpdate`), some read it, compute,
  and write all its columns back, some hold a snapshot taken hours before.
* **Messages.** The sweep and the order completion ask the engine for runs, keyed
  by subscription and cycle; the key deduplicates only while the run is in progress
  (`billing_cycle_runner.go:41-43` counts on the next sweep reusing it). The payment
  gateway answers a charge, or answers "pending" and sends a webhook, which becomes
  an engine event that every waiting run of the subscription takes.
* **Callbacks.** The engine replays a durable task from the top after an eviction,
  with the results of its finished steps memoised.
* **Events.** Services insert domain events in their own transaction; the relay of
  each server passes them to NATS later.

### What is hard here

Stale snapshots used after the row has moved; two runs of one subscription; a
charge captured whose answer is lost; replays that repeat a handler; writes after
the commit; unlocked read-modify-write endpoints; several relays on one table; a
crash between a publish and its mark; caps counted over two tables under one row
lock; transactions that take the same locks in opposite orders; campaigns written back
whole by whoever read them; tasks repeated in the middle of an escalation; resends with
a new timestamp; a claim made of three statements; events of a meter that arrive in any
order. `PROJECT.json` "hazards"
lists each at its line with the properties that cover it, or the reason none does yet.

### What makes each component correct

* **Billing.** The recorded payments agree with `cycles_processed`; a payment is
  recorded only for a charge the gateway did not refuse; a due subscription is charged and not forgotten;
  a fixed-term plan ends at its term; a failed attempt is reported once.
* **Invoices.** A cycle is settled once; a terminal invoice stays terminal.
* **Outbox.** Nothing uncommitted is announced; every committed event is published
  or visibly given up; a duplicate is the price of a fault and of nothing else.
* **Orders and coupons.** An order is completed once; a capped coupon is not
  redeemed beyond its cap; a paid order is completed.
* **Dunning.** What is called recovered had a charge the gateway did not refuse, what is
  given up leaves nothing to collect; a runner ends only after the suspension it made;
  every runner ends and leaves its campaign closed.
* **Usage.** What was answered is kept; an event is billed at most once, in its own
  period; unattributed usage is billed by one subscription and not by none.
* **Idempotency.** One request of a key runs at a time and takes effect once; all the
  others of the same body get its answer; a dead holder does not wedge the key.
* **Amounts.** A carry-over meter bills the stock as it was, in whatever order its
  events arrive; each unit is charged in one tier; the cents of a discount add up.

## 2. Modules

| module | what it is |
|---|---|
| `Billing` | the engine, one subscription, all its actors |
| `PaymentLedger` | abstract: payments of a subscription are recorded in order, one per cycle |
| `MCBilling` | instances of `Billing` for TLC |
| `Billing_proofs` | theorems about `Billing` |
| `Checkout` | orders, coupon holds and redemptions, the two completions, the payment webhook |
| `MCCheckout` | instances of `Checkout` for TLC |
| `Checkout_proofs` | theorems about `Checkout` |
| `Outbox` | outbox table, relays, NATS clients, server life |
| `EventQueue` | abstract: an event is queued, sent, then published or dropped |
| `MCOutbox` | instances of `Outbox` for TLC |
| `Outbox_proofs` | theorems about `Outbox` |
| `Dunning`, `MCDunning`, `Dunning_proofs` | the campaigns of a subscription, their runners and the calls beside them |
| `Usage`, `MCUsage`, `Usage_proofs` | usage events from the client through queue and store to the invoices |
| `Idempotency`, `MCIdempotency`, `Idempotency_proofs` | the requests of one idempotency key |
| `Rating`, `MCRating`, `Rating_proofs` | the amounts of one invoice: usage readings, price schemes, discounts |
| `FoldLemmas` | lemmas about the sums, folds, ranks and stable sorts that `Rating` is built from |

`Billing` implements `PaymentLedger` and `Outbox` implements `EventQueue`. The others
meet in rows and not in calls: each module has the rows it shares with another one as
part of its state, and moves them in every way the other one can (a campaign sees its
subscription cancelled, an invoice run sees subscriptions come and go).

### Billing

One subscription of one organisation: rows, invoices and run keys are scoped by
organisation and subscription, so subscriptions do not interact. It is the only
one of its order and has a flat price, which makes the order's invoice its cycle-0
invoice and keeps amounts out.

*State.* `row` is the subscriptions row (`status`, `cycles` for cycles_processed,
`retries`, and the dates; 0 is Go's zero time). `invoices[c]` is the status of the
invoice of cycle `c`. `requests` are spawn calls on their way to the engine, each
with the snapshot it carries. A runner slot `r` has a place `pc[r]`, its snapshot
`snap[r]`, the cycle it charged `target[r]` and the ChargeResult `result[r]`.
`captured` is the gateway's side of the books and `accepted` what it answered without an
error (both ghosts), `settled` the recorded payments, `reported` the published
charge.failed events.

*Actions.* One per transaction or per unlocked read or write, in the order of the code:

| action | code |
|---|---|
| `CompleteOrder`, `CompleteCheckoutSession` | the order completions, with the run they ask for |
| `Activate`, `PauseSubscription`, `ResumeSubscription`, `CancelSubscription` | the endpoints that lock the row |
| `FindOutstandingInvoice`, `WriteOffInvoice` | what a cancel does after its commit |
| `ReadForEdit`, `UpdateSubscription`, `UpdateBillingAnchor` | the endpoints that do not lock |
| `SweepFindsDue`, `StartRun`, `CollapseRequest`, `LoseRequest` | the sweep, the run key, a failed spawn |
| `ChargeBuildsInvoice`, `ChargeOpensInvoice`, `Gateway*`, `ChargeInterrupted` | ChargeForBillingPeriod up to the answer |
| `WaitTimesOut`, `DeliverWebhook`, `PendingDecided` | the hour's wait of a pending charge |
| `HandleResult`, `ReadInvoiceInTx`, `CommitSuccess`, `CommitFailure` | the two handlers: guard outside the transaction, the invoice read inside it, the commit |
| `HandlerFails`, `Replay`, `Finish` | errors nobody retries, replays of the durable task |

`ChargeBuildsInvoice` re-reads the row and charges the cycle it is in *now*; the
handlers apply the result to the cycle of the *snapshot*. Most of what is
interesting follows from that.

What a charge comes to is what the adapters make of it (`paystack.go:126-192`,
`checkout_com.go:242-268`): an error, or no answer, is a failed charge even when the
money was taken (`GatewayRefuses`, `GatewayReplyLost`); a rate limit is an error of the
task (`GatewayErrors`); every other answer is a success, also of a charge that is only
queued (`GatewayQueues`) or that the body reports as declined (`GatewayDeclines`). So
`accepted` and `captured` differ in both directions, and no property says that a recorded
payment was captured: see Observed behaviour. "pending" is an answer of the port that the
services handle and no shipped adapter gives (`GatewayDefers`).

### Checkout

Orders of one coupon (rows of other coupons are locked and counted separately).
`Cart` says of each order which code and customer it was placed with, whether it
carries a subscription, asks for an upfront invoice, and charges at checkout. What
completion does to the subscription itself is in `Billing`; here it decides only
which discount the invoice finds.

*State.* `order`, `hold` (coupon_reservations), `discounts`, `timesRedeemed`
(coupon_codes), `invoice` (the order's cycle-0 invoice), `payments` are the tables,
seen as committed. `tx[w]` is the transaction of worker `w`: which operation, on
which order, and at which statement. Row locks are not a variable: who holds which
follows from where each transaction is (`HoldsOrder`, `HoldsCoupon`, `SharesCoupon`,
`HoldsCode`). `psp`, `claim`, `handler` and `run` follow a payment made at the
gateway through the webhook to the payment-success run; `timely` is a ghost: the
orders whose hold was live when it was redeemed.

*Actions.* `CreateOrder`, then Reserve's `LockCode`, `LockCoupon`, `Gate`,
`InsertReservation`, and `BuildUpfrontInvoice`; `HoldExpires`. `CompleteOrder` and
`CompleteCheckoutSession`, then `LockOrder`, Consume's `InsertDiscount` and
`IncrementRedeemed`, and `Commit`, which builds and settles the invoice, or
`SettleRefused`. `DatabaseFails`, `DeadlockBroken` and `CommitUnreported` end a
transaction otherwise. `PayAtCheckout`, `ClaimWebhook`, `AlreadyClaimed`,
`StartWorkflow`, `StartFails`, `HandlerDies`, `ClaimExpires` are the gateway and
HandlePaymentWebhook.

Reserve locks the coupon FOR UPDATE and counts; Consume inserts a discount and locks
nothing explicitly. What makes the counts add up is the foreign key from discounts
to coupons: the insert locks the coupon FOR KEY SHARE until the commit, so a gate
sees a redemption entirely or not at all. The mutant without that key
(`SharesNothing`) breaks the cap. The same key inverts the lock order (code, coupon
against coupon, code), hence the deadlocks.

### Outbox

*State.* `tx[e]` is the business transaction that inserts event `e` (ids are the
BIGSERIAL); `rows[e]` its row, visible once committed; `relay[s]` the place of the
relay of server `s` and the row it has locked; `buffer[s]` what its NATS client
holds; `sent` and `delivered` are ghosts. Time matters only as how long a row still
waits and how long ago it was published, so rows carry timers and there is no clock.

*Actions.* `Publish`/`EndTx` (writers); `ClaimPending` (SELECT ... ORDER BY id LIMIT
1 FOR UPDATE SKIP LOCKED), `PublishPayload`, `PublishFails`, `MarkPublished`,
`RecordFailure`, `RelayRollsBack` (relayNext, one transaction per row),
`PurgePublished`; `Flush`, `Boot`, `NewReturns`, `Shutdown`, `Crash` (the client and
the process). `NewReturns` closes the connection, as app.New does.

### Dunning

The charge.failed events of one subscription. Each opens a campaign of its own
(`dunning_orchestration.go:77`), also those of a later retry of the same cycle.

*State.* `status` of the campaign rows; `sub` and `cycle` of the subscription's row and
`invoice` of each cycle, which escalations and the billing sweep both write; `billing` is
the sweep's run, `seen[c]` the cycle in the subscription as the runner of `c` read it,
since it writes the whole row back. `starter` is where HandleSubscriptionChargeFailure stands. `pc[c]` is the place
of the runner of `c` or of the task it waits for, `step` its retry over both phases,
`tries` the failed tries of that task; `call[k]` what a client's call does. `copy` is
the campaign as a process read it: campaigns are written back whole, and `lost`
remembers where a write undid another one. `accepted` is the gateway's side, `suspender`
the campaign whose suspension the row still shows, `slipped` the cycles whose invoice
escaped a write-off, `unwritten` says that a failed write was only logged.

*Actions.* `CreateCampaign`, `StartDunningWorkflow`, `StoreHandle` (the consumer of the
event); `IntervalElapses`, `ReadForAttempt`, `ChargePayment`, `RecordAttempt` (the
attempt task); `ApplySuccess`, `LookUpSubscription`, `Reactivate`, `ApplyFailure`,
`Suspend`, `CancelSubscription`, `FindCurrentCycle` and `MarkUncollectible`
(writeOffCurrentInvoice, silent when there is no invoice or it is closed),
`MarkCampaignFailed`, `Exhausted` (what the runner does with the outcome); `FindCampaign`, `UpdateCampaign`,
`Signal` (pause, resume, cancel), `TriggerManualAttempt`, `MarkManualRecovered`,
`MerchantCancels` (with what it does to the invoice); `BillingCharges`,
`BillingOpensInvoice`, `BillingSettles`, `BillingFails`, `BillingStops` (the sweep's own
retry of the subscription, one run at a time; the rest of it is `Billing`). `StarterFails`, `TaskFails`, `GivingUpFails`, `CountersUnwritten`,
`LeftUnwritten`, `CallFails` are errors and crashes at each place: the first three end
a task or send it back to its first step, the others leave a write undone.

### Usage

The subscriptions of one customer on one meter. An event names a subscription or none
(then the earliest metered one bills it), and carries a timestamp or is stamped when it
arrives.

*State.* `stream`, `window` (message ids JetStream remembers: an external id without its
organisation, so that `OtherPublishes`, another organisation's message, can take an
event's place; `shadowed` are the events it happened to) and `tries` are the work
queue; `batch` and `written` the consumer; `store` the rows of meter_events. `now` is
the period the clock is in, `cycle[s]` the one that subscription `s` bills next,
`reading` and `catchAll` the invoices under construction, `lines` what is billed.

*Actions.* `RecordInStore`, `RecordInStream`, `AnswerLost` (RecordEvent, in both
modes), `OtherPublishes`, `WindowPasses`; `Fetch`, `WriteBatch`, `AckBatch`, `NakBatch`, `ConsumerDies`;
`ReadMetered`, `BuildInvoice`, `InvoiceFails` (BuildForBillingPeriod: who bills
unattributed usage is asked before the store is read), `StatusChanges`, `PeriodEnds`.
`late` and `shifted` remember what the code does not promise anything about: an event
stored after its period was invoiced, and a change of the earliest subscription.

### Idempotency

*State.* `row` is the key's row, with the number of the run that claimed it as its
token; `pc[r]` and `run[r]` are where request `r` stands and under which claim; `reply`
what it was answered. `runs` and `effects` are the executions of the handler and those
that took effect; `lapsed`, `broken` and `forgotten` say which locks ran out, which
runs failed, which answers were no longer kept.

*Actions.* `Sweep`, `Insert`, `Classify` (Claim, statement by statement); `Handle`,
`HandlerFails`, `Complete`, `Abandon`; `AnswerLost`, `CompleteFails`, `ProcessDies`;
`Expires` (lock TTL and retention). The library between the handlers and the store is
not in the repository; it is modelled from the contract of port.IdempotencyStore.

### Rating

The functions of one BuildForBillingPeriod as a chain of steps: `RecordEvent` fills the
log of a carry-over meter, `ReadUsage` turns it into a quantity, `AddUsageLine` and
`AddBaseLine` price quantities, `ApplyDiscountTotals` splits the discounts. The
properties compare each with a definition that does not follow the code: the stock at
an instant, the rate of each slice of a unit, what each discount owes.
Decimals are integers: a quotient is in steps of 1/`Digits`, a reported level in steps of
1/`Grain`, a quantity in steps of 1/`One`, their product, in which a level times a fraction
is exact. A level may be any decimal, as `buildEvent` accepts it, a negative one too; with
such a level readings, prices and lines are negative, and `Amounts` is `Int` instead of
`Nat`. A weighed reading may differ from the exact time by `Rounding`, one quotient's step
per interval or per step of a reported level. A stable sort places the rows by rank
(`StableSort`), the replay and the sweep are folds from the left.

## 3. Runs

| run | asks | instance |
|---|---|---|
| `billing_core` | do the books stay right under overlap, replay, lost replies and the locked endpoints | 2 runners, 2 calls, 1 fault, charges declined in the body, refused, lost or limited, cycles 0..2, safety only, runner symmetry; 1,078,000 states |
| `billing_live` | is a due subscription always resolved; does a plan stop at its term | 1 runner, all four completions, trial, all seven answers and a webhook, 1 fault; fair, no symmetry; 229,000 states |
| `billing_edits` | what is left when the unlocked endpoints roll the row back | 1 runner, 2 calls, 1 fault, charges captured or refused; 1,134,000 states |
| `checkout_core` | are the caps kept, does an order settle once, is a one-time order's coupon on its invoice, does a queued run complete its order | 3 orders, 2 codes, 2 customers, 2 transactions at a time, 1 call of CompleteOrder, 1 payment at the gateway, 1 fault of any kind; fair |
| `outbox_relay` | the outbox's promises, its refinement of `EventQueue`, and settlement | 2 servers, 2 events, 2 attempts, 1 fault; fair |
| `dunning_core` | does what a campaign says agree with the gateway and the invoices; does a runner answer for its suspension; do campaigns and runners end | 2 campaigns (retries in both phases, a suspension and a cancel threshold; none at all), 1 call of a client or charge of the sweep, 1 repetition per task, 1 fault of any kind; fair; 842,000 states |
| `usage_core` | is an answered event kept, billed once, and by somebody; does the queue drain | 2 subscriptions, 1 event that names one or none, sent twice in either mode, 2 periods, 2 deliveries, 1 change of status, another organisation's use of the id; fair; 343,000 states |
| `idempotency_core` | one holder, one effect, one answer; is everybody answered | 3 requests, one of another body, 1 fault of any kind, locks and answers that lapse; fair; 679,000 states |
| `rating_core` | do readings, schemes and discounts compute what they are to | all logs of up to 3 events of 2 identities or 3 levels (-1/2, 1/2, 3/2) in any order, a period of 3 instants, a price of each scheme, up to 2 of 5 coupons over 3 lines; 55,000 states |
| `billing_double`, `checkout_lost`, `dunning_started` | the three disagreements of section 6 | 1 runner without faults; 1 order and one refused start; 1 campaign without faults |

*Why the bounds are enough to be interesting.* Two runs of one subscription overlap
only with different snapshots; two runners, two due dates and a request made before
the first run commits are enough for the second to charge a cycle ahead of its
snapshot. Cycles 0..2 with a term of 2 reach a first, a middle and a last cycle.
One retry reaches both a retry and exhaustion. `MaxCalls = 2` allows pause and
resume, or cancel and resume, around a run. A fault is one interruption, replay,
lost reply or lost call. `MaxAttempts = 2` with base 1 and cap 3 reaches every
branch of the backoff but the shift overflow, which the code treats as the cap.
Three orders with a cap of 2 on the coupon, 1 on each code and 1 per customer make
each of the three limits the one that refuses: two orders share a code, two share a
customer. The order that pays at the gateway shares its code with another, so its
run can lose a deadlock; two retries then cover one deadlock and one fault (the code
has ten). One call of CompleteOrder beside the run is the race of the two
completions of one order; with two calls and no fairness (1,349,639 states) the
safety properties hold as well, but the fair check takes too long to repeat.
The two campaigns of `dunning_core` differ in what they do to the same subscription:
while one suspends it and retries, the other writes the invoice off. `MaxCalls` bounds
clients' calls and the sweep's charges together: one already overwrites a status, charges
by hand between two retries, or moves the subscription to its next cycle between an
escalation's read and its write; and one
repetition per task repeats an escalation from its first step. An event sent twice, in
two modes and two periods, is what can be billed twice or in the wrong period; two
subscriptions are what can both bill an unattributed event, or neither; two deliveries
make the second the last one. Of three requests one holds the key, one outruns it and
one waits or comes with another body. Three events are an add, a remove and a second
add of one identity, or an operation among level reports. Every action of all modules fires in some passing run. `Many` caps ghost counters
at 2, since every property asks only about 0, 1 or more.

*Deadlock* is not checked: all the systems stop when the clock, the calls and the
faults of the instance are used up.

*Fairness.* `Billing`: the clock, the cron sweep, the engine's start of what it was
asked for, and every started task (the engine retries and resumes tasks). Nothing
is assumed of orders, clients, webhooks or faults, and no fairness makes the
gateway accept: a decline is an answer. `Outbox`: time, a server that is down is
started, app.New returns, the client's flusher runs, a relay keeps polling. Nothing
is assumed of writers, purging, shutdowns or faults. `Checkout`: a transaction that
has begun goes on, PostgreSQL serves those that wait and breaks deadlocks, passing
the lock to the one that waits for it (the loser's retry comes at least a second
later, `payment_success.go:48`); Hatchet runs what is queued; the PSP delivers until
it is answered. `Dunning`: the consumer of an event goes on, and the engine runs what
is due; nothing is assumed of clients or of the sweep, so a paused runner may stay paused. `Usage`: the
consumer's loop runs. `Idempotency`: a request that was taken goes on, clients repeat
what was not answered, and time passes. Nothing is assumed of clients, customers or
faults otherwise.

## 4. Proofs

All statements hold for every value of the constants that satisfies the modules'
ASSUMEs (types of the parameters).

**`Billing_proofs`.** `TypeCorrect` needs nothing else. `LedgerStaysDense` and
`ImplementsLedger` assume `LockedCallsOnly`: the two endpoints that write the row back
unlocked, and the combination of resume with an order that takes a payment, are the
code's ways of losing track of cycles_processed (`billing_edits` and the hazards show
what happens then). `RecordedWasAlwaysAccepted` needs the same and nothing of the gateway:
a webhook may settle a run of another charge than its own, but a run that waits for one was
answered without an error itself.

`LedgerIsDense` is not inductive. What is missing, and `Inv` adds, is why a commit
can trust its snapshot:

* `SnapshotsBehind`: no request or run is ahead of the row;
* `RunsDiffer`: two runs in progress have snapshots of different cycles (the key);
* `GuardPassed`: a run that has passed the guard and not committed still has the
  row's cycle. This is the heart: a run with the same cycle is excluded by the key,
  a run of an earlier cycle can not pass the guard, and no later one exists;
* `UnbilledBeforeOrder`: nothing is billed before the order is completed;
* `NoEdit`: no unlocked edit is half way through.

`AcceptInv` adds that a run charges the cycle of its snapshot or a later one
(`AimsPastSnapshot`), that every processed cycle was accepted, and that a success in
hand (`SuccessWasAccepted`), or a wait for one (`WaitsForPending`), was accepted for every
cycle from the snapshot to the one it aimed at.

Its second half is about the guards. `AttemptsAreReportedOnce` has the hypothesis of
the ledger, `LockedCallsOnly`: a snapshot of the row's cycle has seen at most the row's
retries (`RetriesBehind`), a failure past the guard is of the row's own attempt
(`FailurePassed`), and what was reported the row has left behind (`ReportedBehind`). It also
needs every run's row to have a renewal date (`SnapshotsScheduled`), for a retry scheduled
at the zero time would count as none. `TermIsRespected` excludes resumption and the order
that pays a plan's only cycle, too (`TermIsKept`, see Observed behaviour): at its term a row
has no date (`DatelessAtTerm`), and every run was started before it. `SettledOncePerCycle`
holds in two cases. With the locked endpoints only it is a corollary of the ledger, for
any overlap of runs. With the unlocked edits the guards are of no use, since the row may be
rolled back, and the argument is the invoice's: a settled cycle's invoice is closed, and who
opens an invoice or commits a payment has seen it open (`RunSawItOpen`). That needs runs
that do not overlap (and an order that takes no payment), for the copy that MarkOpen writes
back is stale otherwise: an unlocked edit together with two overlapping runs does settle a
cycle twice, see Observed behaviour.

**`Outbox_proofs`.** No hypothesis: any number of servers, events and faults. `Inv`
adds to the type invariant that no two relays hold a row (`LocksHold`), that rows of
open transactions are untouched, that marked rows were sent, that the sends of an
event are counted by faults, its mark and the relay that holds it (`SentPerFault`),
and where a sent event may be (`SentIsSomewhere`). From it: `OnlyCommittedIsSent`,
`DuplicatesNeedFaults`, `PublishedStaysOnItsWay`, and `ImplementsQueue`, the
refinement of `EventQueue`.

**`Checkout_proofs`.** No hypothesis either: any orders, codes, limits, number of
concurrent transactions and faults. `CapacityAlwaysHeld` rests on two invariants.
`Locks`: one transaction holds the coupon for update, and then none shares it.
`Capacity`: the orders of `Pledged` (held, redeemed in time, or being redeemed with a
hold that was live when Consume read it) are within the limits, and a transaction
that has passed the gate has room for one more in them (`AdmittedHaveRoom`).
`Pledged` is needed because a hold can expire between Consume's read and its commit:
it is then neither live nor redeemed, and only the lock keeps a gate from counting at
that moment. The gate counts by code with times_redeemed and by coupon and customer
with the discounts; `TimelyIsCounted` says that both cover the timely redemptions.

Its second half proves `OrderIsSettledOnce` and `OneTimeIsAlwaysDiscounted`, with no
hypothesis. `Settled` says what a transaction at
each place knows of its order (`CreateKnows`, `CompleteKnows`), that of two transactions
on one order both complete it and one still waits for the row lock (`Apart`), and what an
order's rows say of each other (`OrderKnows`): paid only once its invoice is, discounted
only once its hold is used up, and a one-time invoice raised with a hold is discounted. An order under creation is `Fresh`: gateway,
engine and merchant do not know it.

**`Idempotency_proofs`.** No hypothesis: any requests, bodies and faults. `Inv` says that
a request between claim and answer owns the row unless its lock lapsed
(`ClaimsAreOwn`, `HeldOrLapsed`), that the row is of the last run that was started
(`RowIsOfLastRun`: a run's number is its token, and no two runs have the same), that
every effect but the last run's was cut short or forgotten (`EffectsAccounted`), and
what a reply can be of (`RepliesAccounted`). `OneRunsTheHandler`, `EffectsAreOnce`,
`AnswersAgree` and `AnswersFitTheBody` follow. The token is what makes them hold: a
holder that outran its lock finds another token, or none, and changes nothing.

**`Usage_proofs`.** No hypothesis but that there is a subscription (`CatchAllIsAlwaysBilled`).
`Inv` says that an event has at most one row, of the period it was first stored with
(`StoreKeyed`, the unique index), that a batch that counts as written is in the store
(`WrittenIsStored`) and a message id of the organisation's own that is still remembered
belongs to an event that is kept (`RememberedIsKept`; nothing is known of the event behind
another organisation's message, hence `shadowed`), and that every line is of a stored row of its own period, billed
by the event's subscription or, without one, by the earliest (`LinesAreOwn`,
`CatchAllIsEarliest`, `EarliestHasBilled`). `AnsweredIsAlwaysKept` and
`EventsAreBilledOnce` follow: a resend with a new timestamp finds the row of the first.

**`Dunning_proofs`.** No hypothesis: any campaigns, policies, calls, charges of the sweep and
faults, whether the engine is told the campaign or not. `Inv` says what a process that
stands at a place knows: between read and record its copy was on the row, and what was true
of that status then is true still (`CopyOK`); a success in its hand was accepted; a runner
that is about to give up has dealt with the invoice of the cycle it saw (`RunnerInv`); a call
that will write has a copy that it may write over (`CallerInv`). What is dealt with stays so
(`Dealt`): a closed invoice is opened only by a stale copy of MarkOpen, which puts its cycle
into `slipped`. And a runner at its end sees no other cycle (`StartsOnce`: it is started
once). Cycles need a bound of their own (`CyclesInv`), since runner and sweep each write the
row back with the cycle they read. `HowStatusChanges` lists who writes a campaign's status
and from what, `AllSteps` that every step is good for its own process and leaves the others
alone, a signal's for two. A closed campaign is opened only by a write of an older copy,
which puts it into `lost` (`ClosedStays`).

`SuspensionsAreAnswered` (`SuspensionEnds`) adds `SuspensionInv`. The property is about the
one campaign whose suspension the row still shows: its runner is still at work or was
stopped from outside. Inductive it becomes with what makes that runner deal with the
suspension: one that stands before it will know of it and does not give up at the same
failure (`SuspenderGoesOn`, where `SuspendsLate` is needed), a runner that waits or works
has retries left (`HasRetries`), so that it does not end as exhausted without a last word,
and one that was not started is at its first retry (`NotStarted`). `Responsible` then passes
from step to step until the runner reactivates or cancels.

**`Rating_proofs`.** No hypothesis: any history, period, precision, prices, lines and
coupons within the types of `RatingAssumption`. `RatingInv` is the type invariant with the
lines and discounts as sequences of their types, and `Built`: the discount of each line of a
built invoice is its total less what `TakeOff`, one discount after the other, left of it. Most of the work is about the operators:

* `RatingIsTyped`: all amounts stay in `Amounts`, which is closed under what the code
  computes (`AmountsAreClosed`, `QuotientsAreAmounts`): they fall below zero only if a
  level does. On an invoice without credit lines (`NoCredits`) a coupon's shares are at
  most what is left of its lines, since the shares are rounded down and one cent more goes
  to no more lines than have a remainder (`RanksBelow`), hence each discount is between
  zero and its line's total;
* `DiscountsTakeTheirAmounts`, of an invoice without credit lines: the cents that the integer shares leave over are fewer than
  the lines and each goes to a line of its own, hence the sum is exact, and each line gets
  its share to within a cent; the stable sort puts the rows into the order of redemption;
* `UnitsAreChargedOnce`: in a schedule without gaps and overlaps the tiers that are used
  are those with a slice, and what is charged in each is the number of its slices;
* `ReadingsAreTheStock`. *The replay*: after `k` events in order, the intervals that are
  closed and open say who stood at each instant, as far as those events tell (`Told`), so
  the intervals of the whole history are told from the log alone (`FromHistory`): who
  stands is covered by exactly one of them, those of one identity do not overlap, and there
  are no more than events. The readings at the end and of distinct identities count them.
  *The weight*: summed over intervals, the time of each; summed over instants, the
  intervals that cover it; the two are equal (`DoubleCount`), and each fraction is off by a
  rounding at most. *The peak*: in the sweep the depth is what has begun less what is
  over; as ends go before starts, the depth after the edges of an instant is the stock at
  it (`DepthReaches`), and no depth in between is higher than the stock at some instant
  (`DepthIsBounded`). *Level reports*: the level in force is the last of the reports up to
  it (`InForceIs`); the weight up to the cursor follows the levels up to there, one
  rounding per step of a level for each stretch, whatever its sign (`LevelsWeigh`).

**`FoldLemmas`.** `FoldLeft`, `SumFunction` and the like are defined by a recursive
function over the subsets of a set, chosen with CHOOSE. An induction theorem with an
operator for its hypothesis can not be used here, so the induction is over sets:
`SubsetInduction` takes the *set* of the subsets for which a statement holds, and
`PrefixInduction` the set of prefixes. From them follow that such a function exists
(`FoldsExist`) and has one value (`FoldsAgree`), and what a sum or a fold from the left
comes to. Sorting rests on ranks: in a strict order of a finite set every rank is taken
once (`RankIsTaken`).

**Only model-checked.** Liveness (`DueIsResolved`, `QueuedRunCompletes`,
`EventuallySettled`, `RunnersEnd`, `QueueDrains`, `EveryoneAnswered`): it rests on
fairness, out of this prover's reach. Every other property that a passing run checks is
stated by a theorem, the ones about `Billing` under the hypotheses named above.

## 5. Not modelled, and why

Proration, calendar arithmetic and overflow of 64-bit amounts (pure algorithms without
a protocol, planned); reminders, catalogue, carts, settings and the HTTP layer
(single-row operations without a protocol); authentication and secrets (external
engines and stateless decisions); the token bucket of the rate limiter (one critical
section, or one script in Redis); the Temporal adapter (the alternative engine; Hatchet
is the default). Savepoints of nested transactions are left out: `RunInTx` joins the
transaction on the context.

Three quarters of the implementation's lines are the generated HTTP client and server of
the command line tool (`cli/internal/apigen`, about 130,000 of 175,000 lines); most of
the rest is record keeping, encoding and wiring. The modules cover the services, domain
types, workflows and repositories that carry protocol or arithmetic.

Within `Billing`: invoice numbering and line items, the reminder task, and a
subscription's siblings in an order of several.

Within `Checkout`: payment sessions of the gateway (InitOrderPayment), refunds,
restrictions of codes other than the capacity checks, coupons applied without a
code, and the administration of coupons.

Within `Dunning`: configurations and their selection, communications, tokens of the
payment page, and the customer's history (record keeping).

Within `Usage` and `Rating`: the ClickHouse store (see below for what differs),
aggregations that the database computes (count, sum, last), groups and price filters.

Within `Idempotency`: the checks that the external library makes of a request itself.

## 6. Disagreements found

1. **A customer can be charged twice for a cycle** (`billing_double`). README.md:32-33
   promises that retries never double-charge. A run started from a listing made
   before the previous run committed charges the row's next cycle, then skips its
   result as already applied; the sweep charges that cycle again. No fault needed.
2. **A paid order can be lost** (`checkout_lost`). The webhook service releases its
   claim when the engine does not answer and counts on the PSP's retry
   (`webhook.go:76-77`, `:118-120`); the endpoint has answered 200
   (`webhook_handler.go:69`), so there is none.
3. **A campaign is never worked** (`dunning_started`). hatchet.go:333-335 expects
   the campaign's id in the metadata of the start, and nothing puts it there
   (`dunning_orchestration.go:138`): the runner looks for a campaign with the
   subscription's id, finds none and ends. `dunning_core` is about the runner as it is
   when the id is passed.

### Observed behaviour

Met while modelling; no run of its own, because no statement of the repository is
contradicted, because the model has the code as it is and a property says so in a
precondition, or because the case is outside what is modelled.

*Billing and checkout.*

* A paid checkout is due for its second cycle at once: the dates are set before the
  first cycle is counted (`order_workflow.go:149`), contrary to the comment at
  `hatchet.go:267-270`; CompleteOrder does it in the other order.
* A cancellation can be undone: a run in progress writes its whole snapshot back
  (`subscription.go:586`); the guard looks at cycles and retries, not at the status,
  while `hatchet.go:300-302` counts on a cancelled
  subscription being skipped by the sweep.
* A plan of one cycle that its order pays is billed a second time: SetActive and
  CompleteCheckoutSession count the cycle and leave the subscription active
  (`domain/subscription.go:307`); only the next charge compares it with the term. A
  completed subscription that is paused and resumed is dated and billed again, too
  (`subscription.go:304`). Hence `TermIsKept`.
* A pending subscription that is paused and resumed is billed before its order, whose
  payment then settles cycle 0 again; hence the second half of `LockedCallsOnly`.
* app.New defers the close of the NATS connection (`app.go:160`) on which the relay
  goes on publishing, and the same one serves the jetstream ingest mode.
* A subscription's first invoice misses its coupon: the hold becomes a discount of the
  subscription (`order.go:595`), the order's invoice looks for discounts without a
  subscription (`discount_repo.go:67-80`). The comment at `order.go:587-588` and
  `coupon_billing_e2e_test.go:149` expect the discount.
* A refused row backs off while the rows behind it are relayed (`relay.go:145`):
  consumers may see a subscription's events out of order.
* Every answer of the gateway that is not an error is recorded as a payment: Paystack is
  called with `Queue: true` and the branch for "queued" is commented out
  (`paystack.go:114`, `:175-179`), and the status in Checkout.com's answer is not read
  (`checkout_com.go:258-260`). A charge that is queued and later refused, or declined in
  the body of a successful response, pays its invoice and advances the cycle.
* The attempt that exhausts the retries moves neither cycle nor retry counter, so its
  replay is not recognised (`subscription.go:646`): with failure action past_due each
  replay, and each sweep, reports the failure once more.
* MarkOpen reads, checks and writes in separate statements (`invoice.go:459`): a copy read
  before opens an invoice that has been paid or written off meanwhile. With locked
  endpoints the handlers' guards still keep the cycle from being settled twice; an unlocked
  edit that rolls the row back, together with two runs that overlap, settles it twice.
* The key of a reminder deduplicates only while its task is in progress (`keys.go:72`).
* The deletion of a coupon takes its live holds along (`coupon_repo.go:87`).

*Dunning.*

* Each failed charge opens one more campaign, a retry of the same cycle included.
* A policy that suspends within its immediate retries (the default: three immediate
  retries, suspension after three) suspends without the hint that tells a later success
  to reactivate: the campaign recovers and the subscription stays unpaid. Hence
  `SuspendsLate` in `SuspensionEnds`.
* A manual retry that succeeds closes the campaign and tells the runner nothing
  (`dunning.go:265`): it charges again, and may suspend who has paid.
* A pause, resume, cancellation or counter that was computed from an older copy opens
  a closed campaign again (`dunning.go:383`); hence `lost` in `RunnerClosesCampaign`.
* A success that the gateway has only queued, or declined in the body, closes the campaign
  as recovered, as above.
* An escalation writes the invoice of the cycle in the row it read, and returns in silence
  when there is none or when it is closed (`dunning.go:765-772`): a campaign can fail after
  the sweep has been paid for the cycle, or with nothing written off when the cycle has
  moved to one that is not invoiced yet. The sweep's MarkOpen can open again what was
  written off. Hence `Closed` and `slipped` in `GivenUpIsUncollectable`.
* A suspension, cancellation or reactivation writes the whole subscription back
  (`subscription_repo.go:68-75`): a cycle that the sweep has counted meanwhile is undone.
* A runner hears signals only while it waits; one sent during an attempt is lost.
* A reactivation revives a subscription that the merchant cancelled meanwhile.
* Charges carry no idempotency key, and a repeated task charges again; a success in
  dunning records no payment.

*Usage.*

* The ClickHouse store removes repetitions when it reads, within the period it reads
  (`event_store.go:179-198`): an event sent again with a new timestamp in the next
  period counts in both.
* The message id is the external id without the organisation (`ingestor.go:44-52`): within
  two minutes another organisation's event of the same id is acknowledged and dropped by
  the broker, although a returned nil error "means the event is persisted"
  (`ingestor.go:30-32`). The store's index, which has the organisation, never sees it.
  Hence `shadowed` in `AnsweredIsKept`.
* A failing batch is given back without delay and there is no dead-letter queue: an
  outage of the store uses up the five deliveries of every message at once, and the
  messages stay in the stream, answered and never billed.
* A late event of a period that was invoiced is never billed (`usage.go:271`).
* When the earliest metered subscription changes, two subscriptions may bill an
  unattributed event, or none; equal start dates are not ordered. Hence `shifted`.

*Idempotency.*

* The body is compared only once the key's row is completed: a request with another
  body is told to wait as long as the first one runs.
* A pending row whose lock has expired can still be completed by its holder until
  someone sweeps it. The lock lasts a minute, so a handler that takes longer runs twice.

*Amounts.*

* A fraction of time has 16 digits and a package rounds up: thirds of a period that
  add up to slightly more than a block bill one more (`usage_interval.go:243`,
  `pricing.go:43`).
* With both proration switches off an identity that is removed and added again bills
  two full periods, contrary to `stock-billing-architecture-impact.md:61-65`; hence
  `once` in `ReadingsFollowTheStock`.
* Of two level reports of one instant the peak counts the one that was overridden,
  too; one operation event among level reports makes all the levels ignored.
* A level report may be negative (`usage.go:214-222`): the last level and the weight bill
  a negative quantity, which a fixed price turns into a credit line, while the peak starts
  at zero and ignores it (`usage_interval.go:195-217`).
* Over several credit lines a discount need not be split exactly: Go's `/` and `%`
  truncate towards zero, so 4 cents off lines of -1, -1 and 7 cents are split into 0, 0
  and 5, and no cent is taken back, contrary to "so the parts sum to total exactly" (`discount_apply.go:96-128`);
  hence `NoCredits` in `DiscountsAreExact`.
* Volume tiers with a gap between their bounds price a quantity in the gap 0
  (`pricing.go:96-104`).
* `allocateProportional` multiplies in 64 bits and can overflow (`discount_apply.go`).

## 7. Plan

In this order:

1. The second half of checkout: refunds, the recurring webhook's claim, payment sessions.
2. Proration and the calendar, as recursive functions against reference definitions;
   `allocateProportional` in 64 bits.
3. The ClickHouse store as a second instance of the store of `Usage`.
4. The token bucket of the rate limiter.
