------------------------------ MODULE Billing ------------------------------
(***************************************************************************)
(* The recurring-billing engine, for one subscription of one organisation: *)
(* the subscription row, its per-cycle invoices, the cron sweep, the       *)
(* billing-cycle-runner tasks of the workflow engine, the charge against   *)
(* the payment gateway, the two handlers that apply its result, and the    *)
(* API calls that change the row while all of that is running.             *)
(*                                                                         *)
(* Subscriptions share nothing here (every row, invoice and run key is     *)
(* scoped by organisation and subscription), so one is enough.  It is the  *)
(* only subscription of its order, sold at a flat price: the order's       *)
(* invoice is then its cycle-0 invoice and amounts need no arithmetic.     *)
(***************************************************************************)
EXTENDS Integers, FiniteSets

CONSTANTS
    Cycles,          \* cycles the plan is sold for; 0 means until cancelled
    Period,          \* length of the billing interval, in clock ticks
    TrialLength,     \* length of the trial interval; 0 means no trial
    RetryAttempts,   \* domain.RetryPolicy.RetryAttempts
    RetryPeriod,     \* RetryPeriod * RetryInterval, in clock ticks
    FailureAction,   \* what the policy does once the retries are exhausted
    Orders,          \* the ways the order may be completed
    ApiCalls,        \* the subscription endpoints clients may call
    Outstanding,     \* the outstanding_invoice choices a cancel may carry
    Answers,         \* what the gateway may answer to a charge
    Runners,         \* engine slots for billing-cycle-runner tasks
    MaxTime,         \* bound: the clock stops here
    MaxCycle,        \* bound: the last cycle that is billed
    MaxRequests,     \* bound: spawn requests on their way to the engine
    MaxWebhooks,     \* bound: recurring webhooks not yet delivered
    MaxCalls,        \* bound: calls clients make to the subscription endpoints
    MaxFaults        \* bound: interruptions, lost calls and gateway errors

ASSUME PlanAssumption ==
    /\ Cycles \in Nat /\ Period \in Nat \ {0} /\ TrialLength \in Nat
    /\ RetryAttempts \in Nat /\ RetryPeriod \in Nat
    /\ FailureAction \in {"cancel", "mark_unpaid", "past_due"}

ASSUME EnvironmentAssumption ==
    /\ Orders \subseteq {"checkout_paid", "checkout_trial", "paid", "unpaid"}
    /\ ApiCalls \subseteq {"activate", "pause", "resume", "cancel", "update", "anchor"}
    /\ Outstanding \subseteq {"keep", "void", "uncollectible"}
    /\ Answers \subseteq {"captured", "queued", "declined", "refused", "reply_lost",
                    "gateway_error", "pending"}

ASSUME BoundAssumption ==
    /\ MaxTime \in Nat \ {0} /\ MaxCycle \in Nat
    /\ MaxRequests \in Nat /\ MaxWebhooks \in Nat
    /\ MaxCalls \in Nat /\ MaxFaults \in Nat

VARIABLES
    now,         \* the clock; 0 is Go's zero time, never the present
    order,       \* status of the order that created the subscription
    row,         \* the subscriptions row
    invoices,    \* cycle -> status of the subscription's invoice, or "none"
    requests,    \* snapshots whose run has been asked for and not yet started
    pc,          \* runner slot -> where its billing-cycle-runner task stands
    snap,        \* runner slot -> the subscription the task was started with
    target,      \* runner slot -> the cycle its charge attempt bills
    result,      \* runner slot -> its ChargeResult
    writeOff,    \* the invoice write-off a cancel leaves to do after its commit
    edit,        \* an unlocked read-modify-write endpoint half way through
    undecided,   \* cycles with a charge the PSP has taken and not yet decided
    webhooks,    \* recurring webhooks the PSP has yet to deliver
    calls,       \* client calls made so far
    faults,      \* faults injected so far
    captured,    \* cycle -> charges the gateway captured (0, 1 or Many)
    accepted,    \* cycle -> charges the gateway answered without an error
    settled,     \* cycle -> succeeded payments recorded for its invoice
    reported     \* <<cycle, retries>> -> charge.failed events published

task  == <<pc, snap, target, result>>
spent == <<calls, faults>>
books == <<captured, accepted, settled, reported>>
vars  == <<now, order, row, invoices, requests, task, writeOff, edit,
           undecided, webhooks, spent, books>>

NoTime  == 0
Many    == 2                        \* the counters of the books stop here
Cycle   == 0 .. MaxCycle
Attempt == Cycle \X (0 .. RetryAttempts)

Status == {"pending", "trial", "active", "paused", "past_due",
           "cancelled", "unpaid", "completed", ""}
InvoiceStatus == {"none", "draft", "open", "paid", "uncollectible", "void"}
Row == [status : Status, cycles : Nat, retries : Nat, renewsAt : Nat,
        nextRetryAt : Nat, periodEnd : Nat, startDate : Nat, trialEndsAt : Nat]
NoRow == [status |-> "pending", cycles |-> 0, retries |-> 0, renewsAt |-> NoTime,
          nextRetryAt |-> NoTime, periodEnd |-> NoTime, startDate |-> NoTime,
          trialEndsAt |-> NoTime]
Pc == {"idle", "charge", "open", "gateway", "wait", "handle", "settle",
       "commit", "done"}

CountUp(n) == IF n < Many THEN n + 1 ELSE Many

----------------------------------------------------------------------------
(* The subscription aggregate: pure functions of a row.                    *)

\* IsDueForBilling, and the SQL of FindDueForBilling it mirrors.
IsDue(sub, t) ==
    \/ sub.status = "active"   /\ sub.renewsAt    \in 1 .. t
    \/ sub.status = "past_due" /\ sub.nextRetryAt \in 1 .. t
    \/ sub.status = "trial"    /\ sub.trialEndsAt \in 1 .. t

\* CalculateNextBillingDate: the start date until the first cycle is charged
\* (last_charge is unset exactly while cycles_processed is 0), then one interval
\* after the end of the current period.
NextBillingDate(sub) ==
    IF sub.cycles = 0 THEN sub.startDate
    ELSE Period + IF sub.periodEnd = NoTime THEN sub.startDate ELSE sub.periodEnd

\* SetActivationDates
Activated(sub, t) ==
    LET dated == [sub EXCEPT
            !.startDate   = t,
            !.trialEndsAt = IF TrialLength = 0 THEN NoTime ELSE t + TrialLength]
        next  == NextBillingDate(dated)
    IN  [dated EXCEPT !.renewsAt = next, !.periodEnd = next]

\* SetActive, with or without the first cycle's payment.
SetActive(sub, charged, t) ==
    LET active == [Activated(sub, t) EXCEPT !.status = "active"]
        first  == [active EXCEPT !.cycles = @ + 1]
        next   == NextBillingDate(first)
    IN  IF charged THEN [first EXCEPT !.renewsAt = next, !.periodEnd = next]
        ELSE active

\* RetryPolicy.GetNextCharge; NoTime when the retries are exhausted.
RetryDate(sub) ==
    IF sub.retries >= RetryAttempts THEN NoTime
    ELSE sub.renewsAt + RetryPeriod \div (RetryAttempts - sub.retries)

Exhausted(sub) == RetryDate(sub) = NoTime

\* Mutants of Advanced: the cycle is not counted; the plan runs one cycle over;
\* a plan that reaches its term expires instead of completing.
AdvancedUncounted(sub) == [sub EXCEPT !.status = "active", !.renewsAt = @ + Period]
AdvancedPastTerm(sub) ==
    LET paid == [sub EXCEPT !.cycles = @ + 1, !.retries = 0, !.nextRetryAt = NoTime]
    IN  [paid EXCEPT !.status = IF paid.cycles > Cycles THEN "completed" ELSE "active",
                     !.renewsAt = NextBillingDate(paid), !.periodEnd = NextBillingDate(paid)]
AdvancedExpires(sub) ==
    [sub EXCEPT !.cycles = @ + 1, !.status = "expired", !.renewsAt = NoTime]

\* The row HandleSubscriptionChargeSuccess writes, from the run's snapshot.
Advanced(sub) ==
    LET paid == [sub EXCEPT !.cycles = @ + 1, !.retries = 0, !.nextRetryAt = NoTime]
    IN  IF Cycles # 0 /\ paid.cycles >= Cycles
        THEN [paid EXCEPT !.status = "completed", !.renewsAt = NoTime, !.periodEnd = NoTime]
        ELSE [paid EXCEPT !.status = "active",
                          !.renewsAt = NextBillingDate(paid),
                          !.periodEnd = NextBillingDate(paid)]

\* The row HandleSubscriptionChargeFailure writes, from the run's snapshot.
Failed(sub) ==
    CASE ~Exhausted(sub) ->
             [sub EXCEPT !.status = "past_due", !.retries = @ + 1, !.nextRetryAt = RetryDate(sub)]
      [] Exhausted(sub) /\ FailureAction = "cancel" ->
             [sub EXCEPT !.status = "cancelled", !.renewsAt = NoTime, !.nextRetryAt = NoTime]
      [] Exhausted(sub) /\ FailureAction = "mark_unpaid" -> [sub EXCEPT !.status = "unpaid"]
      [] Exhausted(sub) /\ FailureAction = "past_due" -> sub

\* An exhausted failure also gives the invoice up, unless the policy keeps trying.
WritesOff(sub) == Exhausted(sub) /\ FailureAction # "past_due"

\* Mutants of Outstandable: an open invoice cannot be opened or closed again;
\* a terminal one can.
OnlyDraft(status)  == status = "draft"
AnyInvoice(status) == status # "none"

\* The invoice transitions (MarkOpen, MarkPaid, MarkUncollectible, Void) all
\* leave from draft or open; from a terminal status they return an error.
Outstandable(status) == status \in {"draft", "open"}

\* BuildForBillingPeriod: find the cycle's invoice or create it as a draft.
Built(c) == IF invoices[c] = "none" THEN [invoices EXCEPT ![c] = "draft"] ELSE invoices

----------------------------------------------------------------------------
(* The order is placed: the row exists, pending, and nothing is billed.    *)
Init ==
    /\ now = 1
    /\ order = "pending"
    /\ row = NoRow
    /\ invoices = [c \in Cycle |-> "none"]
    /\ requests = {}
    /\ pc = [r \in Runners |-> "idle"]
    /\ snap = [r \in Runners |-> NoRow]
    /\ target = [r \in Runners |-> 0]
    /\ result = [r \in Runners |-> "none"]
    /\ writeOff = [pc |-> "idle", cycle |-> 0, to |-> "void"]
    /\ edit = [call |-> "none", copy |-> NoRow]
    /\ undecided = {}
    /\ webhooks = 0
    /\ calls = 0
    /\ faults = 0
    /\ captured = [c \in Cycle |-> 0]
    /\ accepted = [c \in Cycle |-> 0]
    /\ settled = [c \in Cycle |-> 0]
    /\ reported = [a \in Attempt |-> 0]

Tick ==
    /\ now < MaxTime
    /\ now' = now + 1
    /\ UNCHANGED <<order, row, invoices, requests, task, writeOff, edit,
                   undecided, webhooks, spent, books>>

\* StartSubscriptionWorkflow asks the engine for a run when the row it is given
\* is due.  The call may fail (it is logged; the sweep is the backstop).
StartSubscriptionWorkflow(sub) ==
    requests' \in
        {requests} \cup
        (IF IsDue(sub, now) /\ sub.cycles <= MaxCycle /\ Cardinality(requests) < MaxRequests
         THEN {requests \cup {sub}} ELSE {})

\* What both completions of an order have in common: the activated row, the
\* order's cycle-0 invoice and, when a first payment was made, its record, with
\* the invoice opened and settled by it.
Complete(activated, charged) ==
    /\ order = "pending"
    /\ order' = "completed"
    /\ row' = activated
    /\ IF charged
       THEN /\ Outstandable(Built(0)[0])
            /\ invoices' = [invoices EXCEPT ![0] = "paid"]
            /\ captured' = [captured EXCEPT ![0] = CountUp(@)]
            /\ accepted' = [accepted EXCEPT ![0] = CountUp(@)]
            /\ settled' = [settled EXCEPT ![0] = CountUp(@)]
       ELSE /\ invoices' = Built(0)
            /\ UNCHANGED <<captured, accepted, settled>>
    /\ StartSubscriptionWorkflow(activated)
    /\ UNCHANGED <<now, task, writeOff, edit, undecided, webhooks, spent, reported>>

\* CompleteCheckoutSession, run by the payment-success workflow.  A paid checkout
\* dates the subscription before it counts the first cycle as processed.
CompleteCheckoutSession(paid) ==
    /\ (IF paid THEN "checkout_paid" ELSE "checkout_trial") \in Orders
    /\ Complete(IF paid
                THEN [Activated(row, now) EXCEPT !.status = "active", !.cycles = 1]
                ELSE [Activated(row, now) EXCEPT !.status = "trial"],
                paid)

\* CompleteOrder, the HTTP call of the merchant's back end.
CompleteOrder(paid) ==
    /\ (IF paid THEN "paid" ELSE "unpaid") \in Orders
    /\ Complete(SetActive(row, paid, now), paid)

----------------------------------------------------------------------------
(* The subscription endpoints.  Four of them lock the row (SELECT FOR      *)
(* UPDATE) and are one atomic step.                                        *)

Call == calls < MaxCalls /\ calls' = calls + 1 /\ UNCHANGED faults

Activate ==
    /\ "activate" \in ApiCalls
    /\ Call
    /\ row' = [row EXCEPT !.status = "active"]
    /\ StartSubscriptionWorkflow(row')
    /\ UNCHANGED <<now, order, invoices, task, writeOff, edit, undecided, webhooks, books>>

PauseSubscription ==
    /\ "pause" \in ApiCalls
    /\ Call
    /\ row.status # "paused"
    /\ row' = [row EXCEPT !.status = "paused"]
    /\ UNCHANGED <<now, order, invoices, requests, task, writeOff, edit, undecided, webhooks, books>>

\* Continue the billing period the row is in, or start a new one shortly after
\* now (20 seconds: the same tick).
ResumeSubscription(behaviour) ==
    /\ "resume" \in ApiCalls
    /\ Call
    /\ row.status \in {"paused", "past_due"}
    /\ CASE behaviour = "continue" ->
              /\ NextBillingDate(row) >= now
              /\ row' = [row EXCEPT !.status = "active", !.renewsAt = NextBillingDate(row)]
         [] behaviour = "start_new" ->
              row' = [row EXCEPT !.status = "active", !.renewsAt = now, !.periodEnd = now + Period]
    /\ UNCHANGED <<now, order, invoices, requests, task, writeOff, edit, undecided, webhooks, books>>

\* CancelSubscription commits first and deals with the current cycle's invoice
\* afterwards, outside its transaction.
CancelSubscription(choice) ==
    /\ "cancel" \in ApiCalls
    /\ Call
    /\ row.status # "cancelled"
    /\ row' = [row EXCEPT !.status = "cancelled"]
    /\ writeOff.pc = "idle"
    /\ writeOff' = IF choice = "keep" \/ row.cycles > MaxCycle THEN writeOff
                   ELSE [pc |-> "find", cycle |-> row.cycles, to |-> choice]
    /\ UNCHANGED <<now, order, invoices, requests, task, edit, undecided, webhooks, books>>

\* applyOutstandingInvoiceAction reads the invoice ...
FindOutstandingInvoice ==
    /\ writeOff.pc = "find"
    /\ writeOff' = [writeOff EXCEPT
           !.pc = IF Outstandable(invoices[writeOff.cycle]) THEN "write" ELSE "idle"]
    /\ UNCHANGED <<now, order, row, invoices, requests, task, edit, undecided, webhooks, spent, books>>

\* ... and writes the copy it read back, under no lock.
WriteOffInvoice ==
    /\ writeOff.pc = "write"
    /\ invoices' = [invoices EXCEPT ![writeOff.cycle] = writeOff.to]
    /\ writeOff' = [writeOff EXCEPT !.pc = "idle"]
    /\ UNCHANGED <<now, order, row, requests, task, edit, undecided, webhooks, spent, books>>

\* Update and UpdateBillingAnchor read the row in one step ...
ReadForEdit(call) ==
    /\ call \in ApiCalls \cap {"update", "anchor"}
    /\ Call
    /\ edit.call = "none"
    /\ edit' = [call |-> call, copy |-> row]
    /\ UNCHANGED <<now, order, row, invoices, requests, task, writeOff, undecided, webhooks, books>>

\* ... and write all of it back in a later one, with the status the request
\* carried (the empty one when it carried none) ...
UpdateSubscription(status) ==
    /\ edit.call = "update"
    /\ row' = [edit.copy EXCEPT !.status = status]
    /\ edit' = [call |-> "none", copy |-> NoRow]
    /\ UNCHANGED <<now, order, invoices, requests, task, writeOff, undecided, webhooks, spent, books>>

\* ... or with the period moved to the next occurrence of the new anchor.
UpdateBillingAnchor(start) ==
    /\ edit.call = "anchor"
    /\ row' = [edit.copy EXCEPT !.periodEnd = start + Period, !.renewsAt = start + Period]
    /\ edit' = [call |-> "none", copy |-> NoRow]
    /\ UNCHANGED <<now, order, invoices, requests, task, writeOff, undecided, webhooks, spent, books>>

----------------------------------------------------------------------------
(* The cron sweep and the engine.                                          *)

\* org-billing lists the due rows, and asks for one run per row of that list
\* later in the same task: the run is started with the row as it was listed.
SweepFindsDue ==
    /\ IsDue(row, now)
    /\ row.cycles <= MaxCycle
    /\ row \notin requests
    /\ Cardinality(requests) < MaxRequests
    /\ requests' = requests \cup {row}
    /\ UNCHANGED <<now, order, row, invoices, task, writeOff, edit, undecided, webhooks, spent, books>>

\* Mutant of InProgress: runs are not keyed, and a second one starts.
NeverInProgress(c) == FALSE

\* The run key is the snapshot's cycle; while a run of that key is in progress
\* a second request for it collapses into the first.
InProgress(c) == \E r \in Runners : pc[r] # "idle" /\ snap[r].cycles = c

StartRun(r, sub) ==
    /\ sub \in requests
    /\ pc[r] = "idle"
    /\ ~InProgress(sub.cycles)
    /\ requests' = requests \ {sub}
    /\ pc' = [pc EXCEPT ![r] = "charge"]
    /\ snap' = [snap EXCEPT ![r] = sub]
    /\ UNCHANGED <<now, order, row, invoices, target, result, writeOff, edit, undecided, webhooks, spent, books>>

CollapseRequest(sub) ==
    /\ sub \in requests
    /\ InProgress(sub.cycles)
    /\ requests' = requests \ {sub}
    /\ UNCHANGED <<now, order, row, invoices, task, writeOff, edit, undecided, webhooks, spent, books>>

Fault == faults < MaxFaults /\ faults' = faults + 1 /\ UNCHANGED calls

\* The spawn call fails; org-billing logs it and goes on with the next row.
LoseRequest(sub) ==
    /\ sub \in requests
    /\ requests' = requests \ {sub}
    /\ Fault
    /\ UNCHANGED <<now, order, row, invoices, task, writeOff, edit, undecided, webhooks, books>>

----------------------------------------------------------------------------
(* One billing-cycle-runner task.                                          *)

To(r, place) == pc' = [pc EXCEPT ![r] = place] /\ UNCHANGED <<snap, target, result>>

Answered(r, res, place) ==
    /\ result' = [result EXCEPT ![r] = res]
    /\ pc' = [pc EXCEPT ![r] = place]
    /\ UNCHANGED <<snap, target>>

\* The task is over: completed, or failed with an error nobody retries.
Ends(r) ==
    /\ pc' = [pc EXCEPT ![r] = "idle"]
    /\ snap' = [snap EXCEPT ![r] = NoRow]
    /\ target' = [target EXCEPT ![r] = 0]
    /\ result' = [result EXCEPT ![r] = "none"]

\* charge-customer (the billing-cycle child run): ChargeForBillingPeriod reads
\* the row afresh, whatever its status, and finds or builds the invoice of the
\* cycle the row is in now.  A terminal invoice is an error: the engine retries
\* the task, and fails the run when the retries are used up.
ChargeBuildsInvoice(r) ==
    /\ pc[r] = "charge"
    /\ row.cycles <= MaxCycle
    /\ invoices' = Built(row.cycles)
    /\ IF Outstandable(Built(row.cycles)[row.cycles])
       THEN /\ target' = [target EXCEPT ![r] = row.cycles]
            /\ pc' = [pc EXCEPT ![r] = "open"]
            /\ UNCHANGED <<snap, result>>
       ELSE To(r, "charge") \/ Ends(r)
    /\ UNCHANGED <<now, order, row, requests, writeOff, edit, undecided, webhooks, spent, books>>

\* MarkOpen writes back the invoice it read, under no lock.
ChargeOpensInvoice(r) ==
    /\ pc[r] = "open"
    /\ invoices' = [invoices EXCEPT ![target[r]] = "open"]
    /\ To(r, "gateway")
    /\ UNCHANGED <<now, order, row, requests, writeOff, edit, undecided, webhooks, spent, books>>

Capture(c) == captured' = [captured EXCEPT ![c] = CountUp(@)] /\ UNCHANGED <<settled, reported>>
Accept(c)  == accepted' = [accepted EXCEPT ![c] = CountUp(@)]

\* The PSP announces a recurring capture to the webhook endpoint, the captures
\* it also answered synchronously included.
Announce == webhooks' = IF webhooks < MaxWebhooks THEN webhooks + 1 ELSE webhooks

\* gw.ChargePayment, by what becomes of the call.  The adapters make a succeeded
\* payment of every answer that is not an error: of a captured charge ...
GatewayCaptures(r) ==
    /\ pc[r] = "gateway" /\ "captured" \in Answers
    /\ Capture(target[r]) /\ Accept(target[r])
    /\ Announce
    /\ Answered(r, "succeeded", "handle")
    /\ UNCHANGED <<now, order, row, invoices, requests, writeOff, edit, undecided, spent>>

\* ... of one the PSP has only queued, which may yet be captured or not ...
GatewayQueues(r) ==
    /\ pc[r] = "gateway" /\ "queued" \in Answers
    /\ Accept(target[r])
    /\ undecided' = undecided \cup {target[r]}
    /\ Answered(r, "succeeded", "handle")
    /\ UNCHANGED <<now, order, row, invoices, requests, writeOff, edit, webhooks, spent,
                   captured, settled, reported>>

\* ... and of one that a successful response reports in its body as declined.
GatewayDeclines(r) ==
    /\ pc[r] = "gateway" /\ "declined" \in Answers
    /\ Accept(target[r])
    /\ Answered(r, "succeeded", "handle")
    /\ UNCHANGED <<now, order, row, invoices, requests, writeOff, edit, undecided, webhooks, spent,
                   captured, settled, reported>>

\* Mutant of GatewayRefuses: the adapter drops the error, and takes the reply it
\* has not got for a success.
GatewayRefusesUnseen(r) ==
    /\ pc[r] = "gateway" /\ "refused" \in Answers
    /\ Answered(r, "succeeded", "handle")
    /\ UNCHANGED <<now, order, row, invoices, requests, writeOff, edit, undecided, webhooks, spent, books>>

\* An error of the PSP's API: status Error, a failed payment.
GatewayRefuses(r) ==
    /\ pc[r] = "gateway" /\ "refused" \in Answers
    /\ Answered(r, "failed", "handle")
    /\ UNCHANGED <<now, order, row, invoices, requests, writeOff, edit, undecided, webhooks, spent, books>>

\* The charge is captured and the response is lost: the gateway adapters answer
\* any transport error with status Error, which is a failed payment.
GatewayReplyLost(r) ==
    /\ pc[r] = "gateway" /\ "reply_lost" \in Answers
    /\ Fault
    /\ Capture(target[r])
    /\ Announce
    /\ Answered(r, "failed", "handle")
    /\ UNCHANGED <<now, order, row, invoices, requests, writeOff, edit, undecided, accepted>>

\* A rate limit (GatewayError) is an error of the task: retried, or given up.
GatewayErrors(r) ==
    /\ pc[r] = "gateway" /\ "gateway_error" \in Answers
    /\ Fault
    /\ To(r, "charge") \/ Ends(r)
    /\ UNCHANGED <<now, order, row, invoices, requests, writeOff, edit, undecided, webhooks, books>>

\* The charge is captured, and the task is cut off before its result is stored
\* (its 60 s timeout, or the worker goes away): the engine runs it again.
ChargeInterrupted(r) ==
    /\ pc[r] = "gateway" /\ "captured" \in Answers
    /\ Fault
    /\ Capture(target[r])
    /\ Announce
    /\ To(r, "charge")
    /\ UNCHANGED <<now, order, row, invoices, requests, writeOff, edit, undecided, accepted>>

\* The port lets an adapter answer a charge as pending, and the engine waits for
\* its webhook then.  None of the adapters under src/ does.
GatewayDefers(r) ==
    /\ pc[r] = "gateway" /\ "pending" \in Answers
    /\ Accept(target[r])
    /\ undecided' = undecided \cup {target[r]}
    /\ Answered(r, "pending", "wait")
    /\ UNCHANGED <<now, order, row, invoices, requests, writeOff, edit, webhooks, spent,
                   captured, settled, reported>>

\* The PSP decides a charge it had queued or reported as pending.
PendingDecided(c, succeeds) ==
    /\ c \in undecided
    /\ undecided' = undecided \ {c}
    /\ IF succeeds
       THEN Capture(c) /\ Announce /\ UNCHANGED accepted
       ELSE UNCHANGED <<webhooks, books>>
    /\ UNCHANGED <<now, order, row, invoices, requests, task, writeOff, edit, spent>>

\* HandlePaymentWebhook signals the subscription's webhook event.  The key names
\* the subscription only, so every task that waits takes it, and with nobody
\* waiting it is dropped.
DeliverWebhook ==
    /\ webhooks > 0
    /\ webhooks' = webhooks - 1
    /\ pc' = [r \in Runners |-> IF pc[r] = "wait" THEN "handle" ELSE pc[r]]
    /\ result' = [r \in Runners |-> IF pc[r] = "wait" THEN "succeeded" ELSE result[r]]
    /\ UNCHANGED <<now, order, row, invoices, requests, snap, target, writeOff, edit, undecided, spent, books>>

\* One hour has passed: the result stays pending.
WaitTimesOut(r) ==
    /\ pc[r] = "wait"
    /\ To(r, "handle")
    /\ UNCHANGED <<now, order, row, invoices, requests, writeOff, edit, undecided, webhooks, spent, books>>

\* Mutant of FailureApplied: the guard of a failure does not look at the retries.
FailureAppliedByCycle(sub) == sub.cycles < row.cycles

\* The idempotency guards: the row has already moved past the run's snapshot.
SuccessApplied(sub) == sub.cycles < row.cycles
FailureApplied(sub) == sub.cycles < row.cycles \/ sub.retries < row.retries
AlreadyApplied(r) ==
    IF result[r] = "succeeded" THEN SuccessApplied(snap[r]) ELSE FailureApplied(snap[r])

\* HandleSubscriptionChargeSuccess / Failure, before the transaction: the guard
\* on the row as it is now, then the snapshot cycle's invoice.
HandleResult(r) ==
    /\ pc[r] = "handle"
    /\ IF AlreadyApplied(r)
       THEN To(r, "done") /\ UNCHANGED invoices
       ELSE To(r, "settle") /\ invoices' = Built(snap[r].cycles)
    /\ UNCHANGED <<now, order, row, requests, writeOff, edit, undecided, webhooks, spent, books>>

ClosesInvoice(r) == result[r] = "succeeded" \/ WritesOff(snap[r])

\* The transaction reads the invoice it is going to close.  A terminal one is
\* an error: the transaction rolls back and the task fails.
ReadInvoiceInTx(r) ==
    /\ pc[r] = "settle"
    /\ IF ClosesInvoice(r) /\ ~Outstandable(invoices[snap[r].cycles])
       THEN Ends(r)
       ELSE To(r, "commit")
    /\ UNCHANGED <<now, order, row, invoices, requests, writeOff, edit, undecided, webhooks, spent, books>>

\* Commit of a success: the payment, the paid invoice, the advanced row.
CommitSuccess(r) ==
    /\ pc[r] = "commit" /\ result[r] = "succeeded"
    /\ settled' = [settled EXCEPT ![snap[r].cycles] = CountUp(@)]
    /\ invoices' = [invoices EXCEPT ![snap[r].cycles] = "paid"]
    /\ row' = Advanced(snap[r])
    /\ To(r, "done")
    /\ UNCHANGED <<now, order, requests, writeOff, edit, undecided, webhooks, spent, captured, accepted, reported>>

\* Commit of a failure: the payment, the invoice when it is given up, the row
\* with its next retry (or what the policy does instead), the charge.failed event.
CommitFailure(r) ==
    /\ pc[r] = "commit" /\ result[r] # "succeeded"
    /\ reported' = [reported EXCEPT ![<<snap[r].cycles, snap[r].retries>>] = CountUp(@)]
    /\ invoices' = IF WritesOff(snap[r])
                   THEN [invoices EXCEPT ![snap[r].cycles] = "uncollectible"]
                   ELSE invoices
    /\ row' = Failed(snap[r])
    /\ To(r, "done")
    /\ UNCHANGED <<now, order, requests, writeOff, edit, undecided, webhooks, spent, captured, accepted, settled>>

\* The handler fails (a database error): the task fails, and is not retried.
HandlerFails(r) ==
    /\ pc[r] \in {"handle", "settle", "commit"}
    /\ Fault
    /\ Ends(r)
    /\ UNCHANGED <<now, order, row, invoices, requests, writeOff, edit, undecided, webhooks, books>>

\* The worker is evicted or restarts: the durable task replays from the top, and
\* comes back to the handler with the charge and the wait it has memoised.
Replay(r) ==
    /\ pc[r] \in {"settle", "commit", "done"}
    /\ Fault
    /\ To(r, "handle")
    /\ UNCHANGED <<now, order, row, invoices, requests, writeOff, edit, undecided, webhooks, books>>

Finish(r) ==
    /\ pc[r] = "done"
    /\ Ends(r)
    /\ UNCHANGED <<now, order, row, invoices, requests, writeOff, edit, undecided, webhooks, spent, books>>

----------------------------------------------------------------------------
OrderNext ==
    \E paid \in BOOLEAN : CompleteCheckoutSession(paid) \/ CompleteOrder(paid)

ApiNext ==
    \/ Activate
    \/ PauseSubscription
    \/ \E behaviour \in {"continue", "start_new"} : ResumeSubscription(behaviour)
    \/ \E choice \in Outstanding : CancelSubscription(choice)
    \/ \E call \in {"update", "anchor"} : ReadForEdit(call)
    \/ \E status \in {"", "active", "paused"} : UpdateSubscription(status)
    \/ \E start \in now .. now + Period : UpdateBillingAnchor(start)

WriteOffNext == FindOutstandingInvoice \/ WriteOffInvoice

EngineNext ==
    \/ SweepFindsDue
    \/ \E sub \in requests :
          \/ \E r \in Runners : StartRun(r, sub)
          \/ CollapseRequest(sub)
          \/ LoseRequest(sub)

ChargeNext(r) ==
    \/ ChargeBuildsInvoice(r) \/ ChargeOpensInvoice(r)
    \/ GatewayCaptures(r) \/ GatewayQueues(r) \/ GatewayDeclines(r) \/ GatewayRefuses(r)
    \/ GatewayReplyLost(r) \/ GatewayErrors(r) \/ ChargeInterrupted(r) \/ GatewayDefers(r)

HandlerNext(r) ==
    \/ WaitTimesOut(r) \/ HandleResult(r) \/ ReadInvoiceInTx(r)
    \/ CommitSuccess(r) \/ CommitFailure(r)
    \/ HandlerFails(r) \/ Replay(r) \/ Finish(r)

PspNext ==
    \/ \E c \in Cycle, succeeds \in BOOLEAN : PendingDecided(c, succeeds)
    \/ DeliverWebhook

Next ==
    \/ Tick \/ OrderNext \/ ApiNext \/ WriteOffNext \/ EngineNext \/ PspNext
    \/ \E r \in Runners : ChargeNext(r) \/ HandlerNext(r)

Spec == Init /\ [][Next]_vars

\* The clock runs, the cron sweeps, and the engine starts what it is asked for
\* and drives every task it has started; orders, clients and faults owe nothing.
Fairness ==
    /\ WF_vars(Tick)
    /\ WF_vars(SweepFindsDue)
    /\ WF_vars(\E sub \in requests, r \in Runners : StartRun(r, sub))
    /\ WF_vars(\E sub \in requests : CollapseRequest(sub))
    /\ \A r \in Runners : WF_vars(ChargeNext(r)) /\ WF_vars(HandlerNext(r))

FairSpec == Spec /\ Fairness

----------------------------------------------------------------------------
(* Properties.                                                             *)

\* The write-backs that take no lock, and an order that takes a payment for a
\* subscription a pause and a resume have already put into billing, are the ways
\* the code has of losing track of cycles_processed.  Without them:
LockedCallsOnly ==
    /\ ApiCalls \cap {"update", "anchor"} = {}
    /\ "resume" \in ApiCalls => Orders \cap {"paid", "checkout_paid"} = {}

\* Every variable stays in its domain.
TypeOK ==
    /\ now \in 1 .. MaxTime
    /\ order \in {"pending", "completed"}
    /\ row \in Row
    /\ invoices \in [Cycle -> InvoiceStatus]
    /\ requests \in SUBSET Row
    /\ pc \in [Runners -> Pc]
    /\ snap \in [Runners -> Row]
    /\ target \in [Runners -> Cycle]
    /\ result \in [Runners -> {"none", "succeeded", "failed", "pending"}]
    /\ writeOff \in [pc : {"idle", "find", "write"}, cycle : Cycle, to : (Outstanding \ {"keep"}) \cup {"void"}]
    /\ edit \in [call : {"none", "update", "anchor"}, copy : Row]
    /\ undecided \subseteq Cycle
    /\ webhooks \in 0 .. MaxWebhooks
    /\ calls \in 0 .. MaxCalls
    /\ faults \in 0 .. MaxFaults
    /\ captured \in [Cycle -> 0 .. Many]
    /\ accepted \in [Cycle -> 0 .. Many]
    /\ settled \in [Cycle -> 0 .. Many]
    /\ reported \in [Attempt -> 0 .. Many]

\* The books agree with the row, whatever the interleaving of runs, replays and
\* locked calls: every cycle the row counts as processed has exactly one recorded
\* payment, and no later cycle has any (the guards of the two handlers, the run
\* key and the invoice's terminal status together).
LedgerIsDense ==
    \A c \in Cycle : settled[c] = IF c < row.cycles THEN 1 ELSE 0

\* The same as a behaviour: the payments of a subscription are recorded one cycle
\* at a time, in order, and never taken back.
Ledger == INSTANCE PaymentLedger WITH next <- row.cycles, paid <- settled
LedgerSpec == Ledger!Spec

\* A replayed failure handler reports a failed attempt once, so that one campaign
\* of dunning is opened for it.  The attempt that exhausts the retries does not
\* move the retry counter, and is not covered.
AttemptReportedOnce ==
    \A c \in Cycle, k \in 0 .. RetryAttempts : k < RetryAttempts => reported[<<c, k>>] <= 1

\* A run that was started from a stale snapshot charges the cycle the row is in
\* now; the payment it records is still for a cycle whose charge the gateway
\* answered without an error.  (That it was captured nobody looks at: an answer
\* that is not an error is a succeeded payment, see GatewayDeclines.)
RecordedWasAccepted == \A c \in Cycle : settled[c] <= accepted[c]

\* When an unlocked edit rolls cycles_processed back, the terminal status of the
\* invoice is what keeps a settled cycle from being settled again.  (As long as
\* the runs of the subscription do not overlap: MarkOpen writes back a stale copy.)
OneSettlementPerCycle == \A c \in Cycle : settled[c] <= 1

\* A plan sold for a number of cycles is never advanced beyond it.  (Nothing looks at
\* the term when an order pays a plan's only cycle, or when a completed subscription
\* is paused and resumed.)
TermRespected == Cycles # 0 => row.cycles <= Cycles

\* A subscription that is due is charged until it no longer is: a charge answered
\* as pending, a lost request or a failed run delays it and never wedges it.
DueIsResolved == IsDue(row, now) ~> ~IsDue(row, now)

\* README.md:32-33 "Idempotent payment handling means retries never
\* double-charge": the gateway captures at most one charge per cycle.
NoDoubleCapture == \A c \in Cycle : captured[c] <= 1

=============================================================================
