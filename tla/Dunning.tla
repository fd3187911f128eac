------------------------------ MODULE Dunning ------------------------------
(***************************************************************************)
(* The recovery of failed charges, for one subscription: the campaigns its *)
(* failed charges open, the durable dunning-runner of each campaign and    *)
(* the tasks it spawns, the API calls on a campaign that run beside it,    *)
(* and the billing sweep, which goes on retrying the same subscription.    *)
(*                                                                         *)
(* The code reads a whole campaign, subscription or invoice row, changes a *)
(* field and writes the whole row back, without a lock or a version: what  *)
(* it reads and what it writes are separate steps.  Of the rows the model  *)
(* keeps the status, and of the subscription the cycle it is in.           *)
(***************************************************************************)
EXTENDS Integers, FiniteSets

CONSTANTS
    Campaigns,         \* the charge.failed events of the subscription
    Policy,            \* campaign -> the retry policy in its config snapshot
    PassesCampaignId,  \* whether Metadata["campaign_id"] is set for the engine
    Retries,           \* retries of the dunning-attempt and dunning-result tasks
    ApiCalls,          \* the calls that clients make, see below
    Callers,           \* concurrent API calls
    FaultKinds,        \* what may fail: "process", "engine", "database"
    MaxCalls,          \* bound: API calls and charges of the billing sweep, together
    MaxFaults          \* bound: faults

PolicyRecord == [immediate : Nat,     \* immediate retries; 0 if the reason is none of FailureTypes
                 progressive : Nat,   \* progressive retries
                 suspendAfter : Nat,  \* SuspendAfterAttempt; 0 means never
                 cancelAfter : Nat]   \* CancelAfterAttempt; 0 means never

ASSUME PolicyAssumption == Policy \in [Campaigns -> PolicyRecord]

ASSUME EnvironmentAssumption ==
    /\ PassesCampaignId \in BOOLEAN
    /\ Retries \in Nat /\ MaxCalls \in Nat /\ MaxFaults \in Nat
    /\ Campaigns \cap Callers = {}
    /\ ApiCalls \subseteq {"pause", "resume", "cancel", "manual", "cancel subscription"}
    /\ FaultKinds \subseteq {"process", "engine", "database"}

VARIABLES
    status,    \* campaign -> status of its row, or "none"
    starter,   \* campaign -> where HandleSubscriptionChargeFailure stands
    sub,       \* status of the subscription
    cycle,     \* cycles_processed of the subscription
    invoice,   \* cycle -> status of its invoice, or "absent"
    billing,   \* the sweep's run: where it stands, and the cycle of its copy
    pc,        \* process -> where it stands; a process is a campaign's runner or a caller
    step,      \* campaign -> the retry its runner is at, over both phases
    tries,     \* campaign -> failed tries of the task its runner waits for
    seen,      \* campaign -> the cycle in the subscription as its runner read it
    call,      \* caller -> the API call it makes, and the campaign it is about
    copy,      \* process -> the campaign's status as it read it
    result,    \* process -> status of the charge attempt it made
    calls,     \* API calls and charges of the sweep so far
    faults,    \* faults so far
    accepted,  \* campaigns for which the gateway answered a charge without an error (history)
    lost,      \* campaigns of which a stale write undid another one (history)
    suspender, \* the campaign whose suspension the subscription's row still shows (history)
    slipped,   \* cycles whose invoice escaped a write-off (history)
    unwritten  \* whether a write failed and was only logged (history)

rows    == <<status, sub, cycle, invoice>>
runners == <<step, tries, seen>>
clients == <<call, calls>>
history == <<accepted, lost, suspender, slipped, unwritten>>
vars == <<rows, billing, starter, pc, runners, clients, copy, result, faults, history>>

\* The cycles the sweep can reach within the bound; what collection can still move, and what it has ended.
Cycles == 0 .. MaxCalls
Outstanding == {"draft", "open"}
Closed == {"paid", "uncollectible", "void"}

NoBilling == [at |-> "idle", cycle |-> 0]
NoCall == [op |-> "none", about |-> "nothing"]

Procs == Campaigns \cup Callers
CampaignOf(p) == IF p \in Campaigns THEN p ELSE call[p].about

\* isDunningTerminal; nothing sets "expired".
Terminal == {"recovered", "failed", "cancelled"}

Init ==
    /\ status = [c \in Campaigns |-> "none"]
    /\ starter = [c \in Campaigns |-> "none"]
    /\ sub = "past_due"
    /\ cycle = 0
    /\ invoice = [k \in Cycles |-> IF k = 0 THEN "open" ELSE "absent"]
    /\ billing = NoBilling
    /\ pc = [p \in Procs |-> "idle"]
    /\ step = [c \in Campaigns |-> 1]
    /\ tries = [c \in Campaigns |-> 0]
    /\ seen = [c \in Campaigns |-> 0]
    /\ call = [k \in Callers |-> NoCall]
    /\ copy = [p \in Procs |-> "none"]
    /\ result = [p \in Procs |-> "none"]
    /\ calls = 0
    /\ faults = 0
    /\ accepted = {}
    /\ lost = {}
    /\ suspender = {}
    /\ slipped = {}
    /\ unwritten = FALSE

Fault(kind) == kind \in FaultKinds /\ faults < MaxFaults /\ faults' = faults + 1

Goto(p, l) == pc' = [pc EXCEPT ![p] = l]

\* What a process held goes with the task or the call that held it.
Forget(p) ==
    /\ copy' = [copy EXCEPT ![p] = "none"]
    /\ result' = [result EXCEPT ![p] = "none"]

----------------------------------------------------------------------------
(* Writes of a campaign's row.                                             *)

\* A process writes the row it read; what another one has written since is lost.
WriteBack(c, read, written) ==
    /\ status' = [status EXCEPT ![c] = written]
    /\ lost' = IF status[c] = read THEN lost ELSE lost \cup {c}

\* MarkCampaignRecovered and MarkCampaignFailed do not look at the status.
Mark(c, end) == status' = [status EXCEPT ![c] = end]

\* A runner writes the subscription as it read it back, with another status.
WriteSubscription(c, s) ==
    /\ sub' = s
    /\ cycle' = seen[c]
    /\ suspender' = IF s = "unpaid" THEN {c} ELSE {}

----------------------------------------------------------------------------
(* HandleSubscriptionChargeFailure: every charge.failed event opens one    *)
(* more campaign and starts a runner for it.                               *)

CreateCampaign(c) ==
    /\ status[c] = "none"
    /\ status' = [status EXCEPT ![c] = "active"]
    /\ starter' = [starter EXCEPT ![c] = "created"]
    /\ UNCHANGED <<sub, cycle, invoice, billing, pc, runners, clients, copy, result, faults, history>>

Last(c) == Policy[c].immediate + Policy[c].progressive

\* Mutant of After: the schedule ends without giving the campaign up.
StopsQuietly(c, s) == IF s < Last(c) THEN "wait" ELSE "closed"

\* Where the runner goes after its first s retries.
After(c, s) == IF s < Last(c) THEN "wait" ELSE "exhaust"

\* LoadConfigForCampaign looks for a campaign of the id the engine was given: without
\* Metadata["campaign_id"] that is the subscription's, and the runner ends at once.
StartRunner(c) == Goto(c, IF PassesCampaignId THEN After(c, 0) ELSE "failed")

StartDunningWorkflow(c) ==
    /\ starter[c] = "created"
    /\ StartRunner(c)
    /\ starter' = [starter EXCEPT ![c] = "started"]
    /\ UNCHANGED <<rows, billing, runners, clients, copy, result, faults, history>>

\* The campaign as created is written back, with the engine's handle.
StoreHandle(c) ==
    /\ starter[c] = "started"
    /\ WriteBack(c, "active", "active")
    /\ starter' = [starter EXCEPT ![c] = "done"]
    /\ UNCHANGED <<sub, cycle, invoice, billing, pc, runners, clients, copy, result, faults,
                   accepted, suspender, slipped, unwritten>>

\* The engine refuses, or the process dies: nobody takes the event up again.
StarterFails(c) ==
    /\ starter[c] \in {"created", "started"}
    /\ IF starter[c] = "created" THEN Fault("engine") \/ Fault("process")
       ELSE Fault("database") \/ Fault("process")
    /\ starter' = [starter EXCEPT ![c] = "done"]
    /\ UNCHANGED <<rows, billing, pc, runners, clients, copy, result, history>>

----------------------------------------------------------------------------
(* runChargeAttempt, by a runner's dunning-attempt task or a manual call.  *)

ReadForAttempt(p) ==
    /\ pc[p] = "read"
    /\ copy' = [copy EXCEPT ![p] = status[CampaignOf(p)]]
    /\ Goto(p, "charge")
    /\ UNCHANGED <<rows, billing, starter, runners, clients, result, faults, history>>

\* What an adapter makes of the gateway's answer.  "accepted" is every answer without an
\* error: captured, but also queued or declined in its body.  "refused" is an error or no
\* answer, whatever the gateway captured.  "pending" is in the port, and no adapter says it.
Answers == {"accepted", "refused", "pending"}

\* Mutant of AttemptStatus: the port's status is recorded as it came.
StatusAsAnswered(answer) == answer

\* Mutant of AttemptStatus: a charge that the gateway has yet to decide has succeeded.
PendingSucceeds(answer) == IF answer = "refused" THEN "failed" ELSE "succeeded"

AttemptStatus(answer) == CASE answer = "accepted" -> "succeeded"
                           [] answer = "pending"  -> "pending"
                           [] answer = "refused"  -> "failed"

\* Nothing asks whether the campaign is still open, and the gateway gets no
\* idempotency key.
ChargePayment(p, answer) ==
    /\ pc[p] = "charge"
    /\ result' = [result EXCEPT ![p] = AttemptStatus(answer)]
    /\ accepted' = IF answer = "accepted" THEN accepted \cup {CampaignOf(p)} ELSE accepted
    /\ Goto(p, "record")
    /\ UNCHANGED <<rows, billing, starter, runners, clients, copy, faults,
                   lost, suspender, slipped, unwritten>>

\* An API call is over.
Return(k) ==
    /\ Goto(k, "idle")
    /\ call' = [call EXCEPT ![k] = NoCall]
    /\ Forget(k)

\* What follows a recorded attempt.  A manual one that succeeded recovers the campaign.
AfterAttempt(p) ==
    IF p \in Campaigns \/ result[p] = "succeeded"
    THEN /\ Goto(p, IF p \in Campaigns THEN "apply" ELSE "recover")
         /\ tries' = IF p \in Campaigns THEN [tries EXCEPT ![p] = 0] ELSE tries
         /\ copy' = [copy EXCEPT ![p] = "none"]
         /\ UNCHANGED <<call, result>>
    ELSE Return(p) /\ UNCHANGED tries

\* CreateAttempt, and the campaign's counters with the rest of the row as it was read.
RecordAttempt(p) ==
    /\ pc[p] = "record"
    /\ WriteBack(CampaignOf(p), copy[p], copy[p])
    /\ AfterAttempt(p)
    /\ UNCHANGED <<sub, cycle, invoice, billing, starter, step, seen, calls, faults,
                   accepted, suspender, slipped, unwritten>>

\* An error of that second write is logged.
CountersUnwritten(p) ==
    /\ pc[p] = "record"
    /\ Fault("database")
    /\ AfterAttempt(p)
    /\ UNCHANGED <<rows, billing, starter, step, seen, calls, history>>

----------------------------------------------------------------------------
(* UpdateCampaignWithAttemptResult, by the runner's dunning-result task.   *)

\* Both phases number their attempts from one.
AttemptNumber(c) ==
    IF step[c] <= Policy[c].immediate THEN step[c] ELSE step[c] - Policy[c].immediate

Reached(c, threshold) == threshold > 0 /\ AttemptNumber(c) >= threshold

\* Mutant of WasSubscriptionSuspended: only the attempt at the threshold has the hint.
SuspendedJustNow(c) ==
    step[c] > Policy[c].immediate /\ AttemptNumber(c) = Policy[c].suspendAfter

\* The runner's hint; the immediate phase always says no.
WasSubscriptionSuspended(c) == step[c] > Policy[c].immediate /\ Reached(c, Policy[c].suspendAfter)

Suspendable == sub \notin {"unpaid", "cancelled", "expired", "completed"}

\* Mutant of NextRetry: the loop's counter is not advanced.
RetriesForever(c) == UNCHANGED step /\ Goto(c, "wait")

NextRetry(c) == step' = [step EXCEPT ![c] = @ + 1] /\ Goto(c, After(c, step[c]))

\* The task answers with the campaign as it read it first: the runner ends if someone
\* has closed it, and goes on to its next retry otherwise.
TaskAnswers(c, read) ==
    /\ IF read \in Terminal THEN Goto(c, "found closed") /\ UNCHANGED step ELSE NextRetry(c)
    /\ tries' = [tries EXCEPT ![c] = 0]
    /\ Forget(c)

\* The runner comes to its own end.
Close(c) == Goto(c, "closed") /\ Forget(c)

\* The task goes on.
GoesOn(c, l) == Goto(c, l) /\ UNCHANGED <<step, tries, copy, result>>

\* A success: the campaign is recovered, and a suspended subscription is looked up.
ApplySuccess(c) ==
    /\ pc[c] = "apply" /\ result[c] = "succeeded"
    /\ Mark(c, "recovered")
    /\ IF WasSubscriptionSuspended(c) THEN Goto(c, "look up") /\ UNCHANGED <<copy, result>>
       ELSE Close(c)
    /\ UNCHANGED <<sub, cycle, invoice, billing, starter, runners, clients, faults, history>>

\* Every step of a runner that reads the subscription notes the cycle it is in.
SeeSubscription(c) == seen' = [seen EXCEPT ![c] = cycle]

LookUpSubscription(c) ==
    /\ pc[c] = "look up"
    /\ SeeSubscription(c)
    /\ IF sub = "active" THEN Close(c) ELSE Goto(c, "reactivate") /\ UNCHANGED <<copy, result>>
    /\ UNCHANGED <<rows, billing, starter, step, tries, clients, faults, history>>

Reactivate(c) ==
    /\ pc[c] = "reactivate"
    /\ WriteSubscription(c, "active")
    /\ Close(c)
    /\ UNCHANGED <<status, invoice, billing, starter, runners, clients, faults,
                   accepted, lost, slipped, unwritten>>

\* Anything but a success: cancel, suspend, or wait for the next retry.
ApplyFailure(c) ==
    /\ pc[c] = "apply" /\ result[c] \in {"failed", "pending"}
    /\ SeeSubscription(c)
    /\ \/ Reached(c, Policy[c].cancelAfter) /\ GoesOn(c, "cancel")
       \/ /\ ~Reached(c, Policy[c].cancelAfter)
          /\ IF Reached(c, Policy[c].suspendAfter) /\ Suspendable
             THEN /\ Goto(c, "suspend")
                  /\ copy' = [copy EXCEPT ![c] = status[c]]
                  /\ UNCHANGED <<step, tries, result>>
             ELSE TaskAnswers(c, status[c])
    /\ UNCHANGED <<rows, billing, starter, clients, faults, history>>

Suspend(c) ==
    /\ pc[c] = "suspend"
    /\ WriteSubscription(c, "unpaid")
    /\ Goto(c, "write off")
    /\ UNCHANGED <<status, invoice, billing, starter, runners, clients, copy, result, faults,
                   accepted, lost, slipped, unwritten>>

CancelAndGoTo(c, l) ==
    /\ pc[c] = "cancel"
    /\ WriteSubscription(c, "cancelled")
    /\ Goto(c, l)
    /\ UNCHANGED <<status, invoice, billing, starter, runners, clients, copy, result, faults,
                   accepted, lost, slipped, unwritten>>

\* Mutant of CancelSubscription: the subscription's invoice is not written off.
CancelKeepsInvoice(c) == CancelAndGoTo(c, "fail")

CancelSubscription(c) == CancelAndGoTo(c, "write off")

GivesUp(c) == step[c] > Last(c) \/ Reached(c, Policy[c].cancelAfter)

\* Where the write-off leads.
WrittenOff(c) ==
    IF GivesUp(c) THEN GoesOn(c, "fail") ELSE TaskAnswers(c, copy[c])

\* writeOffCurrentInvoice looks for the invoice of the cycle in the subscription it was
\* given, and returns without a word when there is none or when it is no longer collected.
FindCurrentCycle(c) ==
    /\ pc[c] = "write off"
    /\ IF invoice[seen[c]] \in Outstanding THEN GoesOn(c, "update invoice") ELSE WrittenOff(c)
    /\ slipped' = IF invoice[seen[c]] = "absent" THEN slipped \cup {seen[c]} ELSE slipped
    /\ UNCHANGED <<rows, billing, starter, seen, clients, faults, accepted, lost, suspender, unwritten>>

\* MarkUncollectible writes the row as it found it.
MarkUncollectible(c) ==
    /\ pc[c] = "update invoice"
    /\ invoice' = [invoice EXCEPT ![seen[c]] = "uncollectible"]
    /\ WrittenOff(c)
    /\ UNCHANGED <<status, sub, cycle, billing, starter, seen, clients, faults, history>>

MarkCampaignFailed(c) ==
    /\ pc[c] = "fail"
    /\ Mark(c, "failed")
    /\ Close(c)
    /\ UNCHANGED <<sub, cycle, invoice, billing, starter, runners, clients, faults, history>>

\* FailCampaignAndCancelSubscription, in the runner itself.
Exhausted(c) ==
    /\ pc[c] = "exhaust"
    /\ SeeSubscription(c)
    /\ Goto(c, IF sub # "cancelled" THEN "cancel" ELSE "write off")
    /\ UNCHANGED <<rows, billing, starter, step, tries, clients, copy, result, faults, history>>

\* Errors in reading and writing the subscription and its invoice are logged, or not even
\* that, and what depended on them is left out.
LeftUnwritten(c) ==
    /\ Fault("database")
    /\ unwritten' = TRUE
    /\ \/ pc[c] \in {"look up", "reactivate"} /\ Close(c) /\ UNCHANGED <<step, tries>>
       \/ pc[c] = "suspend" /\ TaskAnswers(c, copy[c])
       \/ pc[c] = "cancel" /\ GoesOn(c, "write off")
       \/ pc[c] \in {"cancel", "exhaust"} /\ GoesOn(c, "fail")
       \/ pc[c] \in {"write off", "update invoice"} /\ WrittenOff(c)
    /\ UNCHANGED <<rows, billing, starter, seen, clients, accepted, lost, suspender, slipped>>

----------------------------------------------------------------------------
(* The runner between its tasks, and the engine under it.                  *)

AttemptTask == {"read", "charge", "record"}
ResultTask  == {"apply", "look up", "reactivate", "suspend", "cancel", "write off",
                "update invoice", "fail"}

\* The interval has passed.
IntervalElapses(c) ==
    /\ pc[c] = "wait"
    /\ Goto(c, "read")
    /\ UNCHANGED <<rows, billing, starter, runners, clients, copy, result, faults, history>>

\* The task's worker dies, or a write whose error it returns fails: the engine runs
\* the task again from its start, or fails the runner when its retries are used up.
\* A charge that was made, and an attempt that was recorded, are made again.
TaskFails(c) ==
    /\ Fault("process") \/ (pc[c] \in {"record", "apply", "fail"} /\ Fault("database"))
    /\ step[c] <= Last(c) /\ pc[c] \in AttemptTask \cup ResultTask
    /\ IF tries[c] < Retries
       THEN /\ Goto(c, IF pc[c] \in AttemptTask THEN "read" ELSE "apply")
            /\ tries' = [tries EXCEPT ![c] = @ + 1]
            /\ copy' = [copy EXCEPT ![c] = "none"]
            /\ UNCHANGED result
       ELSE Goto(c, "failed") /\ Forget(c) /\ UNCHANGED tries
    /\ IF pc[c] = "record" THEN WriteBack(c, copy[c], copy[c]) \/ UNCHANGED <<status, lost>>
       ELSE UNCHANGED <<status, lost>>
    /\ UNCHANGED <<sub, cycle, invoice, billing, starter, step, seen, clients,
                   accepted, suspender, slipped, unwritten>>

\* What the runner does itself when it gives up is replayed after a crash, and
\* not after an error.
GivingUpFails(c) ==
    /\ step[c] > Last(c) /\ pc[c] \in {"exhaust", "cancel", "write off", "update invoice", "fail"}
    /\ \/ Fault("process") /\ Goto(c, "exhaust")
       \/ pc[c] \in {"exhaust", "fail"} /\ Fault("database") /\ Goto(c, "failed")
    /\ UNCHANGED <<rows, billing, starter, runners, clients, copy, result, history>>

----------------------------------------------------------------------------
(* API calls.                                                              *)

Guarded == {"pause", "resume", "cancel"}

\* The statuses a call accepts, and the one it writes.
Accepted(op) == CASE op = "pause"  -> {"active"}
                  [] op = "resume" -> {"paused"}
                  [] op = "cancel" -> {"active", "paused"}
Written(op)  == CASE op = "pause"  -> "paused"
                  [] op = "resume" -> "active"
                  [] op = "cancel" -> "cancelled"

Begin(k, op, c, l) ==
    /\ pc[k] = "idle" /\ status[c] # "none"
    /\ op \in ApiCalls /\ calls < MaxCalls
    /\ call' = [call EXCEPT ![k] = [op |-> op, about |-> c]]
    /\ calls' = calls + 1
    /\ Goto(k, l)

\* PauseCampaign, ResumeCampaign, CancelCampaign
FindCampaign(k, op, c) ==
    /\ op \in Guarded /\ status[c] \in Accepted(op)
    /\ Begin(k, op, c, "update")
    /\ copy' = [copy EXCEPT ![k] = status[c]]
    /\ UNCHANGED <<rows, billing, starter, runners, result, faults, history>>

UpdateCampaign(k) ==
    /\ pc[k] = "update"
    /\ WriteBack(CampaignOf(k), copy[k], Written(call[k].op))
    /\ Goto(k, "signal")
    /\ copy' = [copy EXCEPT ![k] = "none"]
    /\ UNCHANGED <<sub, cycle, invoice, billing, starter, runners, clients, result, faults,
                   accepted, suspender, slipped, unwritten>>

\* Only a runner that waits hears a signal.
Wakes(c, op) == pc[c] = "wait" \/ (pc[c] = "parked" /\ op \in {"resume", "cancel"})

WokenTo(op) == CASE op = "cancel" -> "cancelled"
                 [] op = "pause"  -> "parked"
                 [] op = "resume" -> "read"

Signal(k) ==
    LET c == call[k].about
        op == call[k].op
    IN  /\ pc[k] = "signal"
        /\ pc' = [pc EXCEPT ![k] = "idle",
                            ![c] = IF Wakes(c, op) THEN WokenTo(op) ELSE @]
        /\ call' = [call EXCEPT ![k] = NoCall]
        /\ UNCHANGED <<rows, billing, starter, runners, calls, copy, result, faults, history>>

\* The engine does not take the signal, which is logged, or the caller dies.
CallFails(k) ==
    /\ pc[k] # "idle"
    /\ Fault("process") \/ (pc[k] = "signal" /\ Fault("engine"))
    /\ Return(k)
    /\ UNCHANGED <<rows, billing, starter, runners, calls, history>>

\* TriggerManualAttempt: a charge attempt on whatever campaign there is.
TriggerManualAttempt(k, c) ==
    /\ Begin(k, "manual", c, "read")
    /\ UNCHANGED <<rows, billing, starter, runners, copy, result, faults, history>>

\* No signal tells the runner.
MarkManualRecovered(k) ==
    /\ pc[k] = "recover"
    /\ Mark(CampaignOf(k), "recovered")
    /\ Return(k)
    /\ UNCHANGED <<sub, cycle, invoice, billing, starter, runners, calls, faults, history>>

\* The merchant cancels the subscription and keeps, voids or writes off its outstanding
\* invoice; no campaign is told.
MerchantCancels ==
    /\ "cancel subscription" \in ApiCalls /\ calls < MaxCalls
    /\ sub # "cancelled"
    /\ sub' = "cancelled" /\ suspender' = {}
    /\ \/ UNCHANGED invoice
       \/ /\ invoice[cycle] \in Outstanding
          /\ \E end \in {"void", "uncollectible"} : invoice' = [invoice EXCEPT ![cycle] = end]
    /\ calls' = calls + 1
    /\ UNCHANGED <<status, cycle, billing, starter, pc, runners, call, copy, result, faults,
                   accepted, lost, slipped, unwritten>>

----------------------------------------------------------------------------
(* The billing sweep retries the subscription on its own schedule.  One    *)
(* run at a time, with its steps as far as they touch what dunning does;   *)
(* the rest of it is Billing.                                              *)

\* FindDueForBilling lists the subscription; the charge builds the cycle's invoice, and
\* MarkOpen finds it outstanding.
BillingCharges ==
    /\ billing.at = "idle" /\ calls < MaxCalls
    /\ sub \in {"active", "past_due"}
    /\ invoice[cycle] \in {"absent"} \cup Outstanding
    /\ invoice' = [invoice EXCEPT ![cycle] = IF @ = "absent" THEN "draft" ELSE @]
    /\ billing' = [at |-> "open", cycle |-> cycle]
    /\ calls' = calls + 1
    /\ UNCHANGED <<status, sub, cycle, starter, pc, runners, call, copy, result, faults, history>>

\* The row as MarkOpen found it is written back, open.
BillingOpensInvoice ==
    LET k == billing.cycle
    IN  /\ billing.at = "open"
        /\ billing' = [billing EXCEPT !.at = "charged"]
        /\ invoice' = [invoice EXCEPT ![k] = "open"]
        /\ slipped' = IF invoice[k] \in Outstanding THEN slipped ELSE slipped \cup {k}
        /\ UNCHANGED <<status, sub, cycle, starter, pc, runners, clients, copy, result, faults,
                       accepted, lost, suspender, unwritten>>

\* A handler applies the result to the row as its run read it, unless the cycle has moved.
BillingWrites(s, k) ==
    /\ billing.at = "charged" /\ cycle <= billing.cycle
    /\ sub' = s /\ cycle' = k /\ suspender' = {}
    /\ billing' = NoBilling
    /\ UNCHANGED <<status, starter, pc, runners, clients, copy, result, faults,
                   accepted, lost, slipped, unwritten>>

\* MarkPaid and MarkUncollectible refuse a closed invoice.
BillingCloses(end) ==
    /\ invoice[billing.cycle] \in Outstanding
    /\ invoice' = [invoice EXCEPT ![billing.cycle] = end]

BillingSettles ==
    /\ \E s \in {"active", "completed"} : BillingWrites(s, billing.cycle + 1)
    /\ BillingCloses("paid")

\* The charge failed: it is retried later, or the retries are used up.
BillingFails ==
    \/ BillingWrites("past_due", billing.cycle) /\ UNCHANGED invoice
    \/ /\ \E s \in {"unpaid", "cancelled"} : BillingWrites(s, billing.cycle)
       /\ BillingCloses("uncollectible")

\* The run ends without a commit: an error, or a result that was applied already.
BillingStops ==
    /\ billing.at # "idle"
    /\ billing' = NoBilling
    /\ UNCHANGED <<rows, starter, pc, runners, clients, copy, result, faults, history>>

BillingNext ==
    BillingCharges \/ BillingOpensInvoice \/ BillingSettles \/ BillingFails \/ BillingStops

----------------------------------------------------------------------------

AttemptNext(p) ==
    ReadForAttempt(p) \/ (\E answer \in Answers : ChargePayment(p, answer)) \/ RecordAttempt(p)

RunnerNext(c) ==
    \/ IntervalElapses(c) \/ AttemptNext(c)
    \/ ApplySuccess(c) \/ LookUpSubscription(c) \/ Reactivate(c)
    \/ ApplyFailure(c) \/ Suspend(c) \/ CancelSubscription(c)
    \/ FindCurrentCycle(c) \/ MarkUncollectible(c) \/ MarkCampaignFailed(c) \/ Exhausted(c)

StarterNext(c) == StartDunningWorkflow(c) \/ StoreHandle(c)

CampaignFault(c) ==
    StarterFails(c) \/ CountersUnwritten(c) \/ LeftUnwritten(c) \/ TaskFails(c) \/ GivingUpFails(c)

CallerNext(k) ==
    \/ \E c \in Campaigns : TriggerManualAttempt(k, c) \/ \E op \in Guarded : FindCampaign(k, op, c)
    \/ UpdateCampaign(k) \/ Signal(k) \/ AttemptNext(k) \/ MarkManualRecovered(k)
    \/ CallFails(k) \/ CountersUnwritten(k)

Next ==
    \/ \E c \in Campaigns : CreateCampaign(c) \/ StarterNext(c) \/ RunnerNext(c) \/ CampaignFault(c)
    \/ \E k \in Callers : CallerNext(k)
    \/ MerchantCancels
    \/ BillingNext

Spec == Init /\ [][Next]_vars

\* The consumer of the event goes on, and the engine runs what is due.  Clients,
\* and the resume a paused runner waits for, owe nothing.
Fairness == \A c \in Campaigns : WF_vars(StarterNext(c)) /\ WF_vars(RunnerNext(c))

FairSpec == Spec /\ Fairness

----------------------------------------------------------------------------
(* Properties.                                                             *)

Ended == {"closed", "found closed", "cancelled", "failed"}
RunnerPcs == {"idle", "wait", "parked", "exhaust"} \cup AttemptTask \cup ResultTask \cup Ended
CallerPcs == {"idle", "update", "signal", "recover"} \cup AttemptTask

\* Every variable stays in its domain.
TypeOK ==
    /\ status \in [Campaigns -> {"none", "active", "paused"} \cup Terminal]
    /\ starter \in [Campaigns -> {"none", "created", "started", "done"}]
    /\ sub \in {"past_due", "unpaid", "active", "cancelled", "completed"}
    /\ cycle \in Cycles
    /\ invoice \in [Cycles -> {"absent"} \cup Outstanding \cup Closed]
    /\ billing \in [at : {"idle", "open", "charged"}, cycle : Cycles]
    /\ pc \in [Procs -> RunnerPcs \cup CallerPcs]
    /\ \A c \in Campaigns : pc[c] \in RunnerPcs
    /\ \A k \in Callers : pc[k] \in CallerPcs
    /\ step \in [Campaigns -> Nat \ {0}]
    /\ tries \in [Campaigns -> 0 .. Retries]
    /\ seen \in [Campaigns -> Cycles]
    /\ call \in [Callers -> [op : {"none", "manual"} \cup Guarded, about : Campaigns \cup {"nothing"}]]
    /\ copy \in [Procs -> {"none", "active", "paused"} \cup Terminal]
    /\ result \in [Procs -> {"none", "succeeded", "failed", "pending"}]
    /\ calls \in 0 .. MaxCalls
    /\ faults \in 0 .. MaxFaults
    /\ accepted \subseteq Campaigns
    /\ lost \subseteq Campaigns
    /\ suspender \subseteq Campaigns
    /\ slipped \subseteq Cycles
    /\ unwritten \in BOOLEAN

\* A campaign is called recovered only after the gateway answered a charge for it without
\* an error, through repeated tasks, stale copies and manual retries (MarkCampaignRecovered).
\* Whether the money was captured the adapters do not ask, see the README.
RecoveredWasAccepted == \A c \in Campaigns : status[c] = "recovered" => c \in accepted

\* A campaign that is given up leaves nothing to collect: the invoice of the cycle its
\* runner last saw is written off, paid or void, through crashes and repetitions of the
\* steps that lead there and whatever the billing sweep does meanwhile; unless a write
\* failed and was only logged, the sweep had not built that invoice yet, or it wrote an
\* older copy of it back (FailCampaignAndCancelSubscription, writeOffCurrentInvoice).
GivenUpIsUncollectable ==
    \A c \in Campaigns :
        status[c] = "failed" => \/ invoice[seen[c]] \in Closed
                                \/ seen[c] \in slipped
                                \/ unwritten

\* Where a runner stands that goes on by itself.
AtWork == {"wait", "exhaust"} \cup AttemptTask \cup ResultTask

\* Where a runner stands that someone or something else has stopped: its campaign was
\* closed, cancelled or paused by a call, or its task failed for good.
Stopped == {"found closed", "cancelled", "parked", "failed"}

\* A subscription that a runner suspends, and that nobody has written since, is never left
\* to itself: that runner, and not another one, still works at its campaign, or was
\* stopped.  It does not come to its own end before it has reactivated or cancelled the
\* subscription (UpdateCampaignWithAttemptResult).  For policies that do not suspend in the
\* immediate phase: there the runner's hint is missing, see the README.
SuspendsLate == \A c \in Campaigns : Policy[c].suspendAfter \notin 1 .. Policy[c].immediate
SuspensionEnds ==
    SuspendsLate => \A c \in suspender : unwritten \/ pc[c] \in AtWork \cup Stopped

\* A runner that has come to its own end leaves its campaign closed, except where a
\* call or task that had read the campaign before wrote its copy back over that.
RunnerClosesCampaign ==
    \A c \in Campaigns : pc[c] = "closed" => status[c] \in Terminal \/ c \in lost

\* Every runner comes to an end, or to a pause from which only a resume that it hears
\* wakes it.
RunnersEnd == <>[](\A c \in Campaigns : pc[c] \in {"idle", "parked"} \cup Ended)

\* dunning_orchestration.go:15-18: when a charge fails "a dunning campaign is started
\* automatically", and dunning-recovery.md:8: its runner "schedules retries over time".
\* A campaign that is left to itself is closed in the end.
CampaignIsWorked ==
    \A c \in Campaigns : starter[c] = "created" ~> status[c] \in Terminal

=============================================================================
