-------------------------- MODULE Billing_proofs --------------------------
(***************************************************************************)
(* What the billing engine keeps for every plan, retry policy, number of   *)
(* runner slots and bound: proofs, checked by TLAPS, about module Billing. *)
(***************************************************************************)
EXTENDS Billing, TLAPS

----------------------------------------------------------------------------
(* The operators the rows are computed with return rows.                   *)

\* NextBillingDate is a date of the clock for every row.
LEMMA NextBillingDateType ==
    ASSUME NEW sub \in Row PROVE NextBillingDate(sub) \in Nat
BY PlanAssumption DEF PlanAssumption, NextBillingDate, Row, NoTime

\* Activating a row dates it and changes neither its cycles nor its retries.
LEMMA ActivatedType ==
    ASSUME NEW sub \in Row, NEW t \in Nat
    PROVE  /\ Activated(sub, t) \in Row
           /\ Activated(sub, t).cycles = sub.cycles
<1> DEFINE trial == IF TrialLength = 0 THEN NoTime ELSE t + TrialLength
           dated == [sub EXCEPT !.startDate = t, !.trialEndsAt = trial]
           next  == NextBillingDate(dated)
<1>1. trial \in Nat
  BY PlanAssumption DEF PlanAssumption, NoTime
<1>2. Activated(sub, t) = [dated EXCEPT !.renewsAt = next, !.periodEnd = next]
  BY DEF Activated
<1> HIDE DEF trial
<1>3. dated \in Row
  BY <1>1 DEF Row
<1>4. dated.cycles = sub.cycles
  BY DEF Row
<1> HIDE DEF dated
<1>5. next \in Nat
  BY <1>3, NextBillingDateType
<1> HIDE DEF next
<1> QED BY <1>2, <1>3, <1>4, <1>5 DEF Row

\* Counting one more cycle yields a row.
LEMMA CountedType ==
    ASSUME NEW sub \in Row
    PROVE  /\ [sub EXCEPT !.cycles = @ + 1] \in Row
           /\ [sub EXCEPT !.cycles = @ + 1].cycles = sub.cycles + 1
BY DEF Row

\* Moving a row to its next period yields a row, and so does closing it.
LEMMA RenewedType ==
    ASSUME NEW sub \in Row, NEW date \in Nat
    PROVE  /\ [sub EXCEPT !.status = "active", !.renewsAt = date, !.periodEnd = date] \in Row
           /\ [sub EXCEPT !.status = "active", !.renewsAt = date, !.periodEnd = date].cycles = sub.cycles
BY DEF Row, Status

LEMMA CompletedType ==
    ASSUME NEW sub \in Row
    PROVE  /\ [sub EXCEPT !.status = "completed", !.renewsAt = NoTime, !.periodEnd = NoTime] \in Row
           /\ [sub EXCEPT !.status = "completed", !.renewsAt = NoTime, !.periodEnd = NoTime].cycles = sub.cycles
BY DEF Row, Status, NoTime

LEMMA CancelledType ==
    ASSUME NEW sub \in Row
    PROVE  /\ [sub EXCEPT !.status = "cancelled", !.renewsAt = NoTime, !.nextRetryAt = NoTime] \in Row
           /\ [sub EXCEPT !.status = "cancelled", !.renewsAt = NoTime, !.nextRetryAt = NoTime].cycles = sub.cycles
BY DEF Row, Status, NoTime

\* SetActive counts the first cycle exactly when it was charged.
LEMMA SetActiveType ==
    ASSUME NEW sub \in Row, NEW t \in Nat, NEW charged \in BOOLEAN
    PROVE  /\ SetActive(sub, charged, t) \in Row
           /\ SetActive(sub, charged, t).cycles = IF charged THEN sub.cycles + 1 ELSE sub.cycles
<1> DEFINE active == [Activated(sub, t) EXCEPT !.status = "active"]
           first  == [active EXCEPT !.cycles = @ + 1]
           next   == NextBillingDate(first)
<1>1. SetActive(sub, charged, t) =
        IF charged THEN [first EXCEPT !.renewsAt = next, !.periodEnd = next] ELSE active
  BY DEF SetActive
<1>2. active \in Row /\ active.cycles = sub.cycles
  BY ActivatedType DEF Row, Status
<1> HIDE DEF active
<1>3. first \in Row /\ first.cycles = sub.cycles + 1
  BY <1>2, CountedType
<1> HIDE DEF first
<1>4. next \in Nat
  BY <1>3, NextBillingDateType
<1> HIDE DEF next
<1> QED BY <1>1, <1>2, <1>3, <1>4 DEF Row

\* A success advances the row by exactly one cycle.
LEMMA AdvancedType ==
    ASSUME NEW sub \in Row
    PROVE  /\ Advanced(sub) \in Row
           /\ Advanced(sub).cycles = sub.cycles + 1
<1> DEFINE cycles == sub.cycles + 1
           paid   == [sub EXCEPT !.cycles = cycles, !.retries = 0, !.nextRetryAt = NoTime]
           next   == NextBillingDate(paid)
<1>1. Advanced(sub) = IF Cycles # 0 /\ paid.cycles >= Cycles
        THEN [paid EXCEPT !.status = "completed", !.renewsAt = NoTime, !.periodEnd = NoTime]
        ELSE [paid EXCEPT !.status = "active", !.renewsAt = next, !.periodEnd = next]
  BY DEF Advanced
<1>2. cycles \in Nat
  BY DEF Row
<1> HIDE DEF cycles
<1>3. paid \in Row
  BY <1>2 DEF Row, NoTime
<1>4. paid.cycles = cycles
  BY <1>2 DEF Row
<1> HIDE DEF paid
<1>5. next \in Nat
  BY <1>3, NextBillingDateType
<1> HIDE DEF next
<1>6. CASE Cycles # 0 /\ paid.cycles >= Cycles
  BY <1>1, <1>3, <1>4, <1>6, CompletedType DEF cycles
<1>7. CASE ~(Cycles # 0 /\ paid.cycles >= Cycles)
  BY <1>1, <1>3, <1>4, <1>5, <1>7, RenewedType DEF cycles
<1> QED BY <1>6, <1>7

\* A whole number of ticks divided by a positive whole number is one.
LEMMA DivIsNat ==
    ASSUME NEW a \in Nat, NEW b \in Nat \ {0} PROVE a \div b \in Nat
BY SMT

\* A failure schedules a retry or gives the row up, and counts no cycle.
LEMMA FailedType ==
    ASSUME NEW sub \in Row
    PROVE  /\ Failed(sub) \in Row
           /\ Failed(sub).cycles = sub.cycles
<1>1. CASE ~Exhausted(sub)
  <2> DEFINE retries == sub.retries + 1
             date    == RetryDate(sub)
  <2>1. sub.retries \in Nat /\ sub.renewsAt \in Nat /\ RetryAttempts \in Nat /\ RetryPeriod \in Nat
    BY PlanAssumption DEF PlanAssumption, Row
  <2>2. ~(sub.retries >= RetryAttempts)
    BY <1>1 DEF Exhausted, RetryDate
  <2>3. RetryAttempts - sub.retries \in Nat \ {0}
    BY <2>1, <2>2
  <2>4. RetryPeriod \div (RetryAttempts - sub.retries) \in Nat
    BY <2>1, <2>3, DivIsNat
  <2>5. date \in Nat /\ retries \in Nat
    BY <2>1, <2>2, <2>4 DEF RetryDate
  <2>6. Failed(sub) = [sub EXCEPT !.status = "past_due", !.retries = retries, !.nextRetryAt = date]
    BY <1>1 DEF Failed
  <2> HIDE DEF retries, date
  <2> QED BY <2>5, <2>6 DEF Row, Status
<1>2. CASE Exhausted(sub) /\ FailureAction = "cancel"
  <2>1. Failed(sub) = [sub EXCEPT !.status = "cancelled", !.renewsAt = NoTime, !.nextRetryAt = NoTime]
    BY <1>2 DEF Failed
  <2> QED BY <2>1, CancelledType
<1>3. CASE Exhausted(sub) /\ FailureAction = "mark_unpaid"
  <2>1. Failed(sub) = [sub EXCEPT !.status = "unpaid"]
    BY <1>3 DEF Failed
  <2> QED BY <2>1 DEF Row, Status
<1>4. CASE Exhausted(sub) /\ FailureAction = "past_due"
  <2>1. Failed(sub) = sub
    BY <1>4 DEF Failed
  <2> QED BY <2>1
<1> QED BY <1>1, <1>2, <1>3, <1>4, PlanAssumption DEF PlanAssumption

----------------------------------------------------------------------------
(* Types.                                                                  *)

\* Building the invoice of a cycle yields invoices.
LEMMA BuiltType ==
    ASSUME TypeOK, NEW c PROVE Built(c) \in [Cycle -> InvoiceStatus]
BY DEF TypeOK, Built, InvoiceStatus

\* Counting one more payment or event keeps the books in their domain.
LEMMA CountUpType ==
    ASSUME NEW S, NEW f \in [S -> 0 .. Many], NEW c
    PROVE  [f EXCEPT ![c] = CountUp(@)] \in [S -> 0 .. Many]
<1>1. \A n \in 0 .. Many : CountUp(n) \in 0 .. Many
  BY DEF CountUp, Many
<1>2. \A d \in S : [f EXCEPT ![c] = CountUp(@)][d] = IF d = c THEN CountUp(f[d]) ELSE f[d]
  OBVIOUS
<1> QED BY <1>1, <1>2

\* Every step of an order's completion keeps the types.
LEMMA OrderKeepsTypes == TypeOK /\ OrderNext => TypeOK'
<1> SUFFICES ASSUME TypeOK, NEW paid \in BOOLEAN,
                    CompleteCheckoutSession(paid) \/ CompleteOrder(paid)
             PROVE  TypeOK'
  BY DEF OrderNext
<1> DEFINE checkout == IF paid THEN [Activated(row, now) EXCEPT !.status = "active", !.cycles = 1]
                       ELSE [Activated(row, now) EXCEPT !.status = "trial"]
<1>1. row \in Row /\ now \in Nat
  BY BoundAssumption DEF BoundAssumption, TypeOK
<1>2. checkout \in Row
  BY <1>1, ActivatedType DEF Row, Status
<1>3. PICK activated \in Row : Complete(activated, paid)
  BY <1>1, <1>2, SetActiveType DEF CompleteCheckoutSession, CompleteOrder
<1> HIDE DEF checkout
<1>4. 0 \in Cycle
  BY BoundAssumption DEF BoundAssumption, Cycle
<1>5. row' \in Row /\ order' = "completed" /\ requests' \in SUBSET Row
  BY <1>3 DEF Complete, StartSubscriptionWorkflow, TypeOK
<1>6. invoices' \in [Cycle -> InvoiceStatus]
  BY <1>3, <1>4, BuiltType DEF Complete, TypeOK, InvoiceStatus
<1>7. captured' \in [Cycle -> 0 .. Many] /\ accepted' \in [Cycle -> 0 .. Many]
      /\ settled' \in [Cycle -> 0 .. Many]
  BY <1>3, <1>4 DEF Complete, TypeOK, CountUp, Many
<1> QED BY <1>3, <1>5, <1>6, <1>7 DEF Complete, TypeOK, task, spent, books

\* Every step of a client's call keeps the types.
LEMMA ApiKeepsTypes == TypeOK /\ ApiNext => TypeOK'
<1> SUFFICES ASSUME TypeOK, ApiNext PROVE TypeOK'
  OBVIOUS
<1> USE DEF TypeOK, task, spent, books
<1>1. CASE Activate
  <2>1. row' \in Row
    BY <1>1 DEF Activate, Row, Status
  <2>2. requests' \in SUBSET Row
    BY <1>1, <2>1 DEF Activate, StartSubscriptionWorkflow
  <2> QED BY <1>1, <2>1, <2>2, BoundAssumption DEF BoundAssumption, Activate, Call
<1>2. CASE PauseSubscription
  <2>1. row' \in Row
    BY <1>2 DEF PauseSubscription, Row, Status
  <2> QED BY <1>2, <2>1, BoundAssumption DEF BoundAssumption, PauseSubscription, Call
<1>3. ASSUME NEW behaviour \in {"continue", "start_new"}, ResumeSubscription(behaviour)
      PROVE  TypeOK'
  <2> DEFINE next == NextBillingDate(row)
             end  == now + Period
  <2>1. next \in Nat /\ now \in Nat /\ end \in Nat
    BY NextBillingDateType, PlanAssumption, BoundAssumption DEF PlanAssumption, BoundAssumption
  <2>2. \/ row' = [row EXCEPT !.status = "active", !.renewsAt = next]
        \/ row' = [row EXCEPT !.status = "active", !.renewsAt = now, !.periodEnd = end]
    BY <1>3 DEF ResumeSubscription
  <2> HIDE DEF next, end
  <2>3. [row EXCEPT !.status = "active", !.renewsAt = next] \in Row
    BY <2>1 DEF Row, Status
  <2>4. [row EXCEPT !.status = "active", !.renewsAt = now, !.periodEnd = end] \in Row
    BY <2>1 DEF Row, Status
  <2>5. row' \in Row
    BY <2>2, <2>3, <2>4
  <2> QED BY <1>3, <2>5, BoundAssumption DEF BoundAssumption, ResumeSubscription, Call
<1>4. ASSUME NEW choice \in Outstanding, CancelSubscription(choice) PROVE TypeOK'
  <2>1. row' \in Row
    BY <1>4 DEF CancelSubscription, Row, Status
  <2>2. writeOff' \in [pc : {"idle", "find", "write"}, cycle : Cycle,
                       to : (Outstanding \ {"keep"}) \cup {"void"}]
    <3>1. CASE choice = "keep" \/ row.cycles > MaxCycle
      BY <1>4, <3>1 DEF CancelSubscription
    <3>2. CASE ~(choice = "keep" \/ row.cycles > MaxCycle)
      <4>1. row.cycles \in Cycle
        BY <3>2, BoundAssumption DEF BoundAssumption, Row, Cycle
      <4> QED BY <1>4, <3>2, <4>1 DEF CancelSubscription
    <3> QED BY <3>1, <3>2
  <2> QED BY <1>4, <2>1, <2>2, BoundAssumption DEF BoundAssumption, CancelSubscription, Call
<1>5. ASSUME NEW call \in {"update", "anchor"}, ReadForEdit(call) PROVE TypeOK'
  BY <1>5, BoundAssumption DEF BoundAssumption, ReadForEdit, Call
<1>6. ASSUME NEW status \in {"", "active", "paused"}, UpdateSubscription(status) PROVE TypeOK'
  BY <1>6 DEF UpdateSubscription, Row, Status, NoRow, NoTime
<1>7. ASSUME NEW start \in now .. now + Period, UpdateBillingAnchor(start) PROVE TypeOK'
  <2>1. start + Period \in Nat
    BY PlanAssumption, BoundAssumption DEF PlanAssumption, BoundAssumption
  <2>2. row' \in Row
    BY <1>7, <2>1 DEF UpdateBillingAnchor, Row
  <2> QED BY <1>7, <2>2 DEF UpdateBillingAnchor, NoRow, NoTime, Row, Status
<1> QED BY <1>1, <1>2, <1>3, <1>4, <1>5, <1>6, <1>7 DEF ApiNext

\* Every step of the sweep, the engine, the write-off and the gateway's webhooks
\* keeps the types.
LEMMA EngineKeepsTypes == TypeOK /\ (WriteOffNext \/ EngineNext \/ PspNext) => TypeOK'
<1> SUFFICES ASSUME TypeOK, WriteOffNext \/ EngineNext \/ PspNext PROVE TypeOK'
  OBVIOUS
<1> USE DEF TypeOK, task, spent, books
<1>1. CASE FindOutstandingInvoice
  BY <1>1 DEF FindOutstandingInvoice
<1>2. CASE WriteOffInvoice
  BY <1>2, EnvironmentAssumption DEF EnvironmentAssumption, WriteOffInvoice, InvoiceStatus
<1>3. CASE SweepFindsDue
  BY <1>3 DEF SweepFindsDue
<1>4. ASSUME NEW sub \in requests, NEW r \in Runners, StartRun(r, sub) PROVE TypeOK'
  BY <1>4 DEF StartRun, Pc
<1>5. ASSUME NEW sub \in requests, CollapseRequest(sub) PROVE TypeOK'
  BY <1>5 DEF CollapseRequest
<1>6. ASSUME NEW sub \in requests, LoseRequest(sub) PROVE TypeOK'
  BY <1>6, BoundAssumption DEF BoundAssumption, LoseRequest, Fault
<1>7. ASSUME NEW c \in Cycle, NEW succeeds \in BOOLEAN, PendingDecided(c, succeeds) PROVE TypeOK'
  BY <1>7, BoundAssumption DEF BoundAssumption, PendingDecided, Capture, Announce, CountUp, Many
<1>8. CASE DeliverWebhook
  BY <1>8, BoundAssumption DEF BoundAssumption, DeliverWebhook, Pc
<1> QED BY <1>1, <1>2, <1>3, <1>4, <1>5, <1>6, <1>7, <1>8 DEF WriteOffNext, EngineNext, PspNext

\* The end of a task resets its slot.
LEMMA EndsType ==
    ASSUME TypeOK, NEW r \in Runners, Ends(r)
    PROVE  /\ pc' \in [Runners -> Pc]
           /\ snap' \in [Runners -> Row]
           /\ target' \in [Runners -> Cycle]
           /\ result' \in [Runners -> {"none", "succeeded", "failed", "pending"}]
<1>1. NoRow \in Row
  BY DEF NoRow, Row, Status, NoTime
<1>2. 0 \in Cycle
  BY BoundAssumption DEF BoundAssumption, Cycle
<1> QED BY <1>1, <1>2 DEF TypeOK, Ends, Pc

\* Every step of a charge keeps the types.
LEMMA ChargeKeepsTypes == ASSUME TypeOK, NEW r \in Runners, ChargeNext(r) PROVE TypeOK'
<1> USE DEF TypeOK, task, spent, books
<1>1. CASE ChargeBuildsInvoice(r)
  <2>1. row.cycles \in Cycle
    BY <1>1 DEF ChargeBuildsInvoice, Cycle, Row
  <2>2. invoices' \in [Cycle -> InvoiceStatus]
    BY <1>1, <2>1, BuiltType DEF ChargeBuildsInvoice
  <2>3. CASE Ends(r)
    BY <1>1, <2>2, <2>3, EndsType DEF ChargeBuildsInvoice
  <2>4. CASE ~Ends(r)
    BY <1>1, <2>1, <2>2, <2>4 DEF ChargeBuildsInvoice, To, Pc
  <2> QED BY <2>3, <2>4
<1>2. CASE ChargeOpensInvoice(r)
  BY <1>2 DEF ChargeOpensInvoice, To, Pc, InvoiceStatus
<1>3. CASE GatewayCaptures(r)
  BY <1>3, BoundAssumption DEF BoundAssumption, GatewayCaptures, Capture, Accept, Announce, Answered, Pc, CountUp, Many
<1>4. CASE GatewayRefuses(r)
  BY <1>4 DEF GatewayRefuses, Answered, Pc
<1>5. CASE GatewayReplyLost(r)
  BY <1>5, BoundAssumption
     DEF BoundAssumption, GatewayReplyLost, Fault, Capture, Announce, Answered, Pc, CountUp, Many
<1>6. CASE GatewayErrors(r)
  <2>1. faults' \in 0 .. MaxFaults
    BY <1>6, BoundAssumption DEF BoundAssumption, GatewayErrors, Fault
  <2>2. CASE Ends(r)
    BY <1>6, <2>1, <2>2, EndsType DEF GatewayErrors, Fault
  <2>3. CASE To(r, "charge")
    BY <1>6, <2>1, <2>3 DEF GatewayErrors, Fault, To, Pc
  <2> QED BY <1>6, <2>2, <2>3 DEF GatewayErrors
<1>7. CASE ChargeInterrupted(r)
  BY <1>7, BoundAssumption
     DEF BoundAssumption, ChargeInterrupted, Fault, Capture, Announce, To, Pc, CountUp, Many
<1>8. CASE GatewayDefers(r) \/ GatewayQueues(r)
  BY <1>8 DEF GatewayDefers, GatewayQueues, Accept, Answered, Pc, CountUp, Many
<1>9. CASE GatewayDeclines(r)
  BY <1>9 DEF GatewayDeclines, Accept, Answered, Pc, CountUp, Many
<1> QED BY <1>1, <1>2, <1>3, <1>4, <1>5, <1>6, <1>7, <1>8, <1>9 DEF ChargeNext

\* Every step of the handlers that apply a charge keeps the types.
LEMMA HandlerKeepsTypes == ASSUME TypeOK, NEW r \in Runners, HandlerNext(r) PROVE TypeOK'
<1> USE DEF TypeOK, task, spent, books
<1>1. CASE WaitTimesOut(r)
  BY <1>1 DEF WaitTimesOut, To, Pc
<1>2. CASE HandleResult(r)
  <2>1. invoices' \in [Cycle -> InvoiceStatus]
    BY <1>2, BuiltType DEF HandleResult
  <2> QED BY <1>2, <2>1 DEF HandleResult, To, Pc
<1>3. CASE ReadInvoiceInTx(r)
  <2>1. CASE Ends(r)
    BY <1>3, <2>1, EndsType DEF ReadInvoiceInTx
  <2>2. CASE To(r, "commit")
    BY <1>3, <2>2 DEF ReadInvoiceInTx, To, Pc
  <2> QED BY <1>3, <2>1, <2>2 DEF ReadInvoiceInTx
<1>4. CASE CommitSuccess(r)
  <2>1. row' \in Row
    BY <1>4, AdvancedType DEF CommitSuccess
  <2>2. invoices' \in [Cycle -> InvoiceStatus]
    BY <1>4 DEF CommitSuccess, InvoiceStatus
  <2>3. settled' \in [Cycle -> 0 .. Many]
    BY <1>4, CountUpType DEF CommitSuccess
  <2> QED BY <1>4, <2>1, <2>2, <2>3 DEF CommitSuccess, To, Pc
<1>5. CASE CommitFailure(r)
  <2>1. row' \in Row
    BY <1>5, FailedType DEF CommitFailure
  <2>2. invoices' \in [Cycle -> InvoiceStatus]
    BY <1>5 DEF CommitFailure, InvoiceStatus
  <2>3. reported' \in [Attempt -> 0 .. Many]
    BY <1>5, CountUpType DEF CommitFailure
  <2> QED BY <1>5, <2>1, <2>2, <2>3 DEF CommitFailure, To, Pc
<1>6. CASE HandlerFails(r)
  BY <1>6, EndsType, BoundAssumption DEF BoundAssumption, HandlerFails, Fault
<1>7. CASE Replay(r)
  BY <1>7, BoundAssumption DEF BoundAssumption, Replay, Fault, To, Pc
<1>8. CASE Finish(r)
  BY <1>8, EndsType DEF Finish
<1> QED BY <1>1, <1>2, <1>3, <1>4, <1>5, <1>6, <1>7, <1>8 DEF HandlerNext

\* The placed order is in its types.
LEMMA InitTypes == Init => TypeOK
BY BoundAssumption
   DEF BoundAssumption, Init, TypeOK, NoRow, Row, Status, NoTime, Cycle, InvoiceStatus, Pc, Attempt, Many

\* One step of the engine, of a client, of the clock or of the gateway.
LEMMA NextKeepsTypes == ASSUME TypeOK, [Next]_vars PROVE TypeOK'
<1>1. CASE Tick
  BY <1>1, BoundAssumption DEF BoundAssumption, Tick, TypeOK, task, spent, books
<1>2. CASE OrderNext
  BY <1>2, OrderKeepsTypes
<1>3. CASE ApiNext
  BY <1>3, ApiKeepsTypes
<1>4. CASE WriteOffNext \/ EngineNext \/ PspNext
  BY <1>4, EngineKeepsTypes
<1>5. ASSUME NEW r \in Runners, ChargeNext(r) PROVE TypeOK'
  BY <1>5, ChargeKeepsTypes
<1>6. ASSUME NEW r \in Runners, HandlerNext(r) PROVE TypeOK'
  BY <1>6, HandlerKeepsTypes
<1>7. CASE UNCHANGED vars
  BY <1>7 DEF vars, task, spent, books, TypeOK
<1> QED BY <1>1, <1>2, <1>3, <1>4, <1>5, <1>6, <1>7 DEF Next

\* Type correctness: the code's writes, stale snapshots and unlocked edits included,
\* never leave a variable's domain, for any plan, any policy and any environment.
THEOREM TypeCorrect == Spec => []TypeOK
<1>1. TypeOK /\ [Next]_vars => TypeOK'
  BY NextKeepsTypes
<1> QED BY InitTypes, <1>1, PTL DEF Spec

----------------------------------------------------------------------------
(* The books.  LedgerIsDense is not inductive: a commit writes a row       *)
(* computed from the snapshot its run was started with, so what has to be  *)
(* kept is how far every snapshot in the system can be from the row.       *)

Busy(r) == pc[r] # "idle"

\* No endpoint is half way through an unlocked read-modify-write.
NoEdit == edit.call = "none"

\* A snapshot may be stale, and never runs ahead of the row.
SnapshotsBehind ==
    /\ \A sub \in requests : sub.cycles \in Cycle /\ sub.cycles <= row.cycles
    /\ \A r \in Runners : Busy(r) => snap[r].cycles \in Cycle /\ snap[r].cycles <= row.cycles

\* The run key: two runs in progress were not started for the same cycle.
RunsDiffer ==
    \A r, q \in Runners : Busy(r) /\ Busy(q) /\ r # q => snap[r].cycles # snap[q].cycles

\* A run that has passed the handler's guard was started for the row's cycle.
GuardPassed ==
    \A r \in Runners : pc[r] \in {"settle", "commit"} => snap[r].cycles = row.cycles

\* An order that may still be paid for has not been billed: its row is undated.
UnbilledBeforeOrder ==
    order = "pending" /\ Orders \cap {"paid", "checkout_paid"} # {} =>
        /\ row.cycles = 0
        /\ row.renewsAt = NoTime /\ row.nextRetryAt = NoTime /\ row.trialEndsAt = NoTime
        /\ requests = {}
        /\ \A r \in Runners : ~Busy(r)

Inv ==
    /\ TypeOK
    /\ NoEdit
    /\ SnapshotsBehind
    /\ RunsDiffer
    /\ GuardPassed
    /\ UnbilledBeforeOrder
    /\ LedgerIsDense

\* What a step does to the books: nothing, or the settlement of the next cycle.
LedgerStep == Ledger!Settle \/ (UNCHANGED settled /\ row'.cycles = row.cycles)

\* A step that leaves the books alone, starts no run and puts none past the
\* handler's guard but for the row's cycle, keeps the invariant.
LEMMA QuietStep ==
    ASSUME Inv, TypeOK', UnbilledBeforeOrder',
           UNCHANGED <<edit, settled>>, row'.cycles = row.cycles,
           \A sub \in requests' : sub.cycles \in Cycle /\ sub.cycles <= row.cycles,
           \A r \in Runners : Busy(r)' => Busy(r) /\ snap'[r] = snap[r],
           \A r \in Runners : pc'[r] \in {"settle", "commit"} =>
              pc[r] \in {"settle", "commit"} \/ snap[r].cycles = row.cycles
    PROVE  Inv' /\ LedgerStep
<1>1. SnapshotsBehind'
  BY DEF Inv, SnapshotsBehind
<1>2. RunsDiffer'
  BY DEF Inv, RunsDiffer
<1>3. GuardPassed'
  BY DEF Inv, GuardPassed, Busy
<1>4. LedgerIsDense'
  BY DEF Inv, LedgerIsDense
<1> QED BY <1>1, <1>2, <1>3, <1>4 DEF Inv, NoEdit, LedgerStep

\* Where a run is in progress, every order it could conflict with is completed.
LEMMA OrderIsOver ==
    ASSUME Inv, NEW r \in Runners, Busy(r), UNCHANGED order
    PROVE  UnbilledBeforeOrder'
BY DEF Inv, UnbilledBeforeOrder

\* The step of a run that keeps the row's cycles, the books, its snapshot (or ends
\* it) and the pending requests, keeps the invariant.
LEMMA RunStep ==
    ASSUME Inv, TypeOK', NEW r \in Runners, Busy(r),
           UNCHANGED <<order, requests, edit, settled>>, row'.cycles = row.cycles,
           \/ Ends(r)
           \/ /\ snap' = snap
              /\ \E place \in Pc :
                    /\ pc' = [pc EXCEPT ![r] = place]
                    /\ place \in {"settle", "commit"} =>
                          pc[r] \in {"settle", "commit"} \/ snap[r].cycles = row.cycles
    PROVE  Inv' /\ LedgerStep
<1>1. UnbilledBeforeOrder'
  BY OrderIsOver
<1>2. \A sub \in requests' : sub.cycles \in Cycle /\ sub.cycles <= row.cycles
  BY DEF Inv, SnapshotsBehind
<1>3. CASE Ends(r)
  <2>1. \A q \in Runners : Busy(q)' => Busy(q) /\ snap'[q] = snap[q]
    BY <1>3 DEF Ends, Busy, Inv, TypeOK
  <2>2. \A q \in Runners : pc'[q] \in {"settle", "commit"} => pc[q] \in {"settle", "commit"}
    BY <1>3 DEF Ends, Inv, TypeOK
  <2> QED BY <1>1, <1>2, <2>1, <2>2, QuietStep
<1>4. ASSUME snap' = snap,
             NEW place \in Pc, pc' = [pc EXCEPT ![r] = place],
             place \in {"settle", "commit"} =>
                pc[r] \in {"settle", "commit"} \/ snap[r].cycles = row.cycles
      PROVE  Inv' /\ LedgerStep
  <2>1. \A q \in Runners : Busy(q)' => Busy(q) /\ snap'[q] = snap[q]
    BY <1>4 DEF Busy, Inv, TypeOK
  <2>2. \A q \in Runners : pc'[q] \in {"settle", "commit"} =>
           pc[q] \in {"settle", "commit"} \/ snap[q].cycles = row.cycles
    BY <1>4 DEF Inv, TypeOK
  <2> QED BY <1>1, <1>2, <2>1, <2>2, QuietStep
<1> QED BY <1>3, <1>4

\* The charge task changes neither the row nor the recorded payments.
LEMMA ChargeKeepsInv ==
    ASSUME Inv, TypeOK', NEW r \in Runners, ChargeNext(r) PROVE Inv' /\ LedgerStep
<1>1. Busy(r) /\ UNCHANGED <<order, row, requests, edit, settled>>
  BY DEF ChargeNext, ChargeBuildsInvoice, ChargeOpensInvoice, GatewayCaptures, GatewayQueues, GatewayDeclines, GatewayRefuses,
         GatewayReplyLost, GatewayErrors, ChargeInterrupted, GatewayDefers, Capture, books, Busy
<1>2. Ends(r) \/ (snap' = snap /\ \E place \in {"charge", "open", "gateway", "wait", "handle"} :
                                     pc' = [pc EXCEPT ![r] = place])
  BY DEF ChargeNext, ChargeBuildsInvoice, ChargeOpensInvoice, GatewayCaptures, GatewayQueues, GatewayDeclines, GatewayRefuses,
         GatewayReplyLost, GatewayErrors, ChargeInterrupted, GatewayDefers, To, Answered
<1> QED BY <1>1, <1>2, RunStep DEF Pc

\* The handlers' guard, and the transaction it protects: a success is committed only
\* for the row's own cycle, and is that cycle's settlement.
LEMMA HandlerKeepsInv ==
    ASSUME Inv, TypeOK', NEW r \in Runners, HandlerNext(r) PROVE Inv' /\ LedgerStep
<1> USE DEF books, task, spent
<1>1. row.cycles \in Nat /\ snap[r].cycles \in Nat
  BY DEF Inv, TypeOK, Row
<1>2. CASE WaitTimesOut(r) \/ Replay(r)
  BY <1>2, RunStep DEF WaitTimesOut, Replay, To, Busy, Pc
<1>3. CASE HandleResult(r)
  <2>1. Busy(r) /\ snap[r].cycles <= row.cycles
    BY <1>3 DEF HandleResult, Busy, Inv, SnapshotsBehind
  <2>2. ~AlreadyApplied(r) => snap[r].cycles = row.cycles
    BY <1>1, <2>1 DEF AlreadyApplied, SuccessApplied, FailureApplied
  <2> QED BY <1>3, <2>1, <2>2, RunStep DEF HandleResult, To, Pc
<1>4. CASE ReadInvoiceInTx(r)
  BY <1>4, RunStep DEF ReadInvoiceInTx, To, Busy, Pc
<1>5. CASE HandlerFails(r) \/ Finish(r)
  BY <1>5, RunStep DEF HandlerFails, Finish, Busy, Fault
<1>6. CASE CommitFailure(r)
  <2>1. snap[r].cycles = row.cycles /\ snap[r] \in Row
    BY <1>6 DEF CommitFailure, Inv, GuardPassed, TypeOK
  <2>2. row'.cycles = row.cycles
    BY <1>6, <2>1, FailedType DEF CommitFailure
  <2> QED BY <1>6, <2>2, RunStep DEF CommitFailure, To, Busy, Pc
<1>7. CASE CommitSuccess(r)
  <2>1. Busy(r) /\ snap[r].cycles = row.cycles /\ snap[r] \in Row /\ row.cycles \in Cycle
    BY <1>7 DEF CommitSuccess, Busy, Inv, GuardPassed, SnapshotsBehind, TypeOK
  <2>2. row'.cycles = row.cycles + 1
    BY <1>7, <2>1, AdvancedType DEF CommitSuccess
  <2>3. settled[row.cycles] = 0
    BY <1>1, <2>1 DEF Inv, LedgerIsDense
  <2>4. settled' = [settled EXCEPT ![row.cycles] = 1]
    BY <1>7, <2>1, <2>3 DEF CommitSuccess, CountUp, Many
  <2>5. UNCHANGED <<order, requests, edit, snap>> /\ pc' = [pc EXCEPT ![r] = "done"]
    BY <1>7 DEF CommitSuccess, To
  <2>6. \A q \in Runners : Busy(q)' => Busy(q)
    BY <2>1, <2>5 DEF Busy, Inv, TypeOK
  <2>7. SnapshotsBehind'
    <3>1. \A sub \in requests : sub.cycles \in Nat /\ sub.cycles <= row.cycles
      BY DEF Inv, SnapshotsBehind, Cycle
    <3>2. \A q \in Runners : Busy(q) => snap[q].cycles \in Nat /\ snap[q].cycles <= row.cycles
      BY DEF Inv, SnapshotsBehind, Cycle
    <3> QED BY <1>1, <2>2, <2>5, <2>6, <3>1, <3>2 DEF SnapshotsBehind, Inv
  <2>8. RunsDiffer'
    BY <2>5, <2>6 DEF RunsDiffer, Inv
  <2>9. GuardPassed'
    BY <2>1, <2>5 DEF GuardPassed, RunsDiffer, Busy, Inv, TypeOK
  <2>10. UnbilledBeforeOrder'
    BY <2>1, <2>5, OrderIsOver
  <2>11. LedgerIsDense'
    <3> SUFFICES ASSUME NEW c \in Cycle PROVE settled'[c] = IF c < row'.cycles THEN 1 ELSE 0
      BY DEF LedgerIsDense
    <3>1. settled[c] = IF c < row.cycles THEN 1 ELSE 0
      BY DEF Inv, LedgerIsDense
    <3>2. settled'[c] = IF c = row.cycles THEN 1 ELSE settled[c]
      BY <2>1, <2>4 DEF Inv, TypeOK
    <3> QED BY <1>1, <2>2, <3>1, <3>2 DEF Cycle
  <2>12. LedgerStep
    BY <2>1, <2>2, <2>3, <2>4 DEF LedgerStep, Ledger!Settle
  <2> QED BY <2>5, <2>7, <2>8, <2>9, <2>10, <2>11, <2>12 DEF Inv, NoEdit
<1> QED BY <1>2, <1>3, <1>4, <1>5, <1>6, <1>7 DEF HandlerNext

\* An order that takes a payment settles cycle 0 and counts it; one that does not
\* leaves the cycles and the books as they are.
LEMMA OrderKeepsInv == ASSUME LockedCallsOnly, Inv, TypeOK', OrderNext PROVE Inv' /\ LedgerStep
<1> USE DEF task, books
<1>1. row \in Row /\ now \in Nat /\ row.cycles \in Nat
  BY BoundAssumption DEF BoundAssumption, Inv, TypeOK, Row
<1>2. PICK paid \in BOOLEAN : CompleteCheckoutSession(paid) \/ CompleteOrder(paid)
  BY DEF OrderNext
<1>3. paid => row.cycles = 0 /\ requests = {} /\ \A r \in Runners : ~Busy(r)
  BY <1>2 DEF CompleteCheckoutSession, CompleteOrder, Complete, Inv, UnbilledBeforeOrder
<1>4. PICK activated : /\ Complete(activated, paid)
                       /\ activated.cycles = IF paid THEN row.cycles + 1 ELSE row.cycles
  <2>1. CASE CompleteOrder(paid)
    BY <1>1, <2>1, SetActiveType DEF CompleteOrder
  <2>2. CASE CompleteCheckoutSession(paid) /\ paid
    <3> DEFINE dated  == Activated(row, now)
               active == [dated EXCEPT !.status = "active", !.cycles = 1]
    <3>1. Complete(active, paid)
      BY <2>2 DEF CompleteCheckoutSession
    <3>2. dated \in Row
      BY <1>1, ActivatedType
    <3> HIDE DEF dated
    <3>3. active.cycles = 1
      BY <3>2 DEF Row
    <3> HIDE DEF active
    <3>4. active.cycles = row.cycles + 1
      BY <1>3, <2>2, <3>3
    <3> QED BY <2>2, <3>1, <3>4
  <2>3. CASE CompleteCheckoutSession(paid) /\ ~paid
    <3> DEFINE trial == [Activated(row, now) EXCEPT !.status = "trial"]
    <3>1. trial.cycles = row.cycles
      BY <1>1, ActivatedType DEF Row
    <3>2. Complete(trial, paid)
      BY <2>3 DEF CompleteCheckoutSession
    <3> HIDE DEF trial
    <3> QED BY <2>3, <3>1, <3>2
  <2> QED BY <1>2, <2>1, <2>2, <2>3
<1>5. /\ UNCHANGED <<edit, pc, snap>> /\ order' = "completed"
      /\ row' = activated
      /\ requests' \subseteq requests \cup {row'}
      /\ \A sub \in requests' \ requests : sub.cycles <= MaxCycle
  BY <1>4 DEF Complete, StartSubscriptionWorkflow
<1>6. row'.cycles = IF paid THEN row.cycles + 1 ELSE row.cycles
  BY <1>4, <1>5
<1>7. UnbilledBeforeOrder'
  BY <1>5 DEF UnbilledBeforeOrder
<1>8. \A sub \in requests' : sub.cycles \in Cycle /\ sub.cycles <= row'.cycles
  BY <1>1, <1>5, <1>6, BoundAssumption DEF BoundAssumption, Inv, SnapshotsBehind, Cycle
<1>9. CASE ~paid
  <2>1. UNCHANGED settled
    BY <1>4, <1>9 DEF Complete
  <2> QED BY <1>5, <1>6, <1>7, <1>8, <1>9, <2>1, QuietStep DEF Busy
<1>10. CASE paid
  <2>1. \A c \in Cycle : settled[c] = 0
    BY <1>3, <1>10 DEF Inv, LedgerIsDense, Cycle
  <2>2. 0 \in Cycle
    BY BoundAssumption DEF BoundAssumption, Cycle
  <2>3. settled' = [settled EXCEPT ![0] = 1]
    BY <1>4, <1>10, <2>1, <2>2 DEF Complete, CountUp, Many
  <2>4. row.cycles = 0 /\ row'.cycles = 1
    BY <1>3, <1>6, <1>10
  <2>5. LedgerIsDense'
    <3> SUFFICES ASSUME NEW c \in Cycle PROVE settled'[c] = IF c < row'.cycles THEN 1 ELSE 0
      BY DEF LedgerIsDense
    <3>1. settled'[c] = IF c = 0 THEN 1 ELSE 0
      BY <2>1, <2>3 DEF Inv, TypeOK
    <3> QED BY <2>4, <3>1 DEF Cycle
  <2>6. LedgerStep
    BY <2>1, <2>2, <2>3, <2>4 DEF LedgerStep, Ledger!Settle
  <2>7. SnapshotsBehind' /\ RunsDiffer' /\ GuardPassed'
    BY <1>3, <1>5, <1>8, <1>10 DEF SnapshotsBehind, RunsDiffer, GuardPassed, Busy
  <2> QED BY <1>5, <1>7, <2>5, <2>6, <2>7 DEF Inv, NoEdit
<1> QED BY <1>9, <1>10

\* The endpoints that lock the row change its status and its dates, never its cycles;
\* the two that do not are out of the hypothesis.
LEMMA ApiKeepsInv == ASSUME LockedCallsOnly, Inv, TypeOK', ApiNext PROVE Inv' /\ LedgerStep
<1> USE DEF task, books
<1>1. row \in Row /\ row.cycles \in Nat
  BY DEF Inv, TypeOK, Row
<1>2. UNCHANGED <<order, edit, pc, snap, settled>>
  BY DEF ApiNext, Activate, PauseSubscription, ResumeSubscription, CancelSubscription, ReadForEdit,
         UpdateSubscription, UpdateBillingAnchor, LockedCallsOnly, Inv, NoEdit
<1>3. ~(\E status \in {"", "active", "paused"} : UpdateSubscription(status))
  BY DEF UpdateSubscription, Inv, NoEdit
<1>4. ~(\E start \in now .. now + Period : UpdateBillingAnchor(start))
  BY DEF UpdateBillingAnchor, Inv, NoEdit
<1>5. ~(\E call \in {"update", "anchor"} : ReadForEdit(call))
  BY DEF ReadForEdit, LockedCallsOnly
<1>6. row'.cycles = row.cycles
  <2>1. CASE Activate
    BY <1>1, <2>1 DEF Activate, Row
  <2>2. CASE PauseSubscription
    BY <1>1, <2>2 DEF PauseSubscription, Row
  <2>3. ASSUME NEW behaviour \in {"continue", "start_new"}, ResumeSubscription(behaviour)
        PROVE  row'.cycles = row.cycles
    BY <1>1, <2>3 DEF ResumeSubscription, Row
  <2>4. ASSUME NEW choice \in Outstanding, CancelSubscription(choice)
        PROVE  row'.cycles = row.cycles
    BY <1>1, <2>4 DEF CancelSubscription, Row
  <2> QED BY <1>3, <1>4, <1>5, <2>1, <2>2, <2>3, <2>4 DEF ApiNext
<1>7. /\ requests' \subseteq requests \cup {row'}
      /\ \A sub \in requests' \ requests : sub.cycles <= MaxCycle
  BY <1>3, <1>4, <1>5 DEF ApiNext, Activate, PauseSubscription, ResumeSubscription, CancelSubscription,
                          StartSubscriptionWorkflow
<1>8. \A sub \in requests' : sub.cycles \in Cycle /\ sub.cycles <= row.cycles
  BY <1>1, <1>6, <1>7, BoundAssumption DEF BoundAssumption, Inv, SnapshotsBehind, Cycle
<1>9. UnbilledBeforeOrder'
  <2> SUFFICES ASSUME order' = "pending", Orders \cap {"paid", "checkout_paid"} # {}
               PROVE  /\ row'.cycles = 0
                      /\ row'.renewsAt = NoTime /\ row'.nextRetryAt = NoTime
                      /\ row'.trialEndsAt = NoTime
                      /\ requests' = {}
                      /\ \A r \in Runners : ~Busy(r)'
    BY DEF UnbilledBeforeOrder
  <2>1. /\ row.cycles = 0
        /\ row.renewsAt = NoTime /\ row.nextRetryAt = NoTime /\ row.trialEndsAt = NoTime
        /\ requests = {}
        /\ \A r \in Runners : ~Busy(r)
    BY <1>2 DEF Inv, UnbilledBeforeOrder
  <2>2. ~(\E behaviour \in {"continue", "start_new"} : ResumeSubscription(behaviour))
    BY DEF ResumeSubscription, LockedCallsOnly
  <2>3. row'.renewsAt = row.renewsAt /\ row'.nextRetryAt = row.nextRetryAt
        /\ row'.trialEndsAt = row.trialEndsAt
    BY <1>1, <1>3, <1>4, <1>5, <2>2 DEF ApiNext, Activate, PauseSubscription, CancelSubscription, Row
  <2>4. requests' = {}
    <3>1. ~IsDue(row', now)
      BY <2>1, <2>3 DEF IsDue, NoTime
    <3> QED BY <1>3, <1>4, <1>5, <2>1, <2>2, <3>1
            DEF ApiNext, Activate, PauseSubscription, CancelSubscription, StartSubscriptionWorkflow
  <2> QED BY <1>2, <1>6, <2>1, <2>3, <2>4 DEF Busy
<1> QED BY <1>2, <1>6, <1>8, <1>9, QuietStep DEF Busy

\* The sweep snapshots the row as it is; the run key keeps two runs apart.
LEMMA EngineKeepsInv ==
    ASSUME Inv, TypeOK', WriteOffNext \/ EngineNext \/ PspNext \/ Tick PROVE Inv' /\ LedgerStep
<1> USE DEF task, books
<1>1. row \in Row /\ row.cycles \in Nat
  BY DEF Inv, TypeOK, Row
<1>2. \A sub \in requests : sub.cycles \in Cycle /\ sub.cycles <= row.cycles
  BY DEF Inv, SnapshotsBehind
<1>3. UNCHANGED <<order, edit, settled, row>>
  BY DEF WriteOffNext, EngineNext, PspNext, Tick, FindOutstandingInvoice, WriteOffInvoice, SweepFindsDue,
         StartRun, CollapseRequest, LoseRequest, PendingDecided, Capture, DeliverWebhook
<1>4. CASE WriteOffNext \/ PspNext \/ Tick
  <2>1. UNCHANGED <<snap, requests>>
    BY <1>4 DEF WriteOffNext, PspNext, Tick, FindOutstandingInvoice, WriteOffInvoice, PendingDecided, DeliverWebhook
  <2>2. /\ \A r \in Runners : Busy(r)' <=> Busy(r)
        /\ \A r \in Runners : pc'[r] \in {"settle", "commit"} => pc[r] \in {"settle", "commit"}
    BY <1>4 DEF WriteOffNext, PspNext, Tick, FindOutstandingInvoice, WriteOffInvoice, PendingDecided,
                DeliverWebhook, Busy
  <2>3. UnbilledBeforeOrder'
    BY <1>3, <2>1, <2>2 DEF UnbilledBeforeOrder, Inv
  <2> QED BY <1>2, <1>3, <2>1, <2>2, <2>3, QuietStep
<1>5. CASE SweepFindsDue
  <2>1. UnbilledBeforeOrder'
    BY <1>3, <1>5 DEF SweepFindsDue, UnbilledBeforeOrder, Inv, IsDue, NoTime
  <2>2. \A sub \in requests' : sub.cycles \in Cycle /\ sub.cycles <= row.cycles
    BY <1>1, <1>2, <1>5, BoundAssumption DEF BoundAssumption, SweepFindsDue, Cycle
  <2> QED BY <1>3, <1>5, <2>1, <2>2, QuietStep DEF SweepFindsDue, Busy
<1>6. ASSUME NEW sub \in requests, CollapseRequest(sub) \/ LoseRequest(sub) PROVE Inv' /\ LedgerStep
  <2>1. requests' \subseteq requests /\ UNCHANGED <<pc, snap>>
    BY <1>6 DEF CollapseRequest, LoseRequest
  <2>2. UnbilledBeforeOrder'
    BY <1>3, <2>1 DEF UnbilledBeforeOrder, Inv, Busy
  <2> QED BY <1>2, <1>3, <2>1, <2>2, QuietStep DEF Busy
<1>7. ASSUME NEW sub \in requests, NEW r \in Runners, StartRun(r, sub) PROVE Inv' /\ LedgerStep
  <2>1. /\ requests' \subseteq requests
        /\ pc' = [pc EXCEPT ![r] = "charge"] /\ snap' = [snap EXCEPT ![r] = sub]
        /\ ~InProgress(sub.cycles)
    BY <1>7 DEF StartRun
  <2>2. UnbilledBeforeOrder'
    BY <1>3, <1>7 DEF UnbilledBeforeOrder, Inv
  <2>3. SnapshotsBehind'
    BY <1>2, <1>3, <2>1 DEF SnapshotsBehind, Inv, TypeOK, Busy
  <2>4. RunsDiffer'
    BY <2>1 DEF RunsDiffer, InProgress, Busy, Inv, TypeOK
  <2>5. GuardPassed'
    BY <1>3, <2>1 DEF GuardPassed, Inv, TypeOK
  <2>6. LedgerIsDense' /\ LedgerStep
    BY <1>3 DEF LedgerIsDense, LedgerStep, Inv
  <2> QED BY <1>3, <2>2, <2>3, <2>4, <2>5, <2>6 DEF Inv, NoEdit
<1> QED BY <1>4, <1>5, <1>6, <1>7 DEF EngineNext

\* One step of the engine, of a client, of the clock or of the gateway.
LEMMA NextKeepsInv == ASSUME LockedCallsOnly, Inv, [Next]_vars PROVE Inv' /\ LedgerStep
<1>1. TypeOK'
  BY NextKeepsTypes DEF Inv
<1>2. CASE OrderNext
  BY <1>1, <1>2, OrderKeepsInv
<1>3. CASE ApiNext
  BY <1>1, <1>3, ApiKeepsInv
<1>4. CASE WriteOffNext \/ EngineNext \/ PspNext \/ Tick
  BY <1>1, <1>4, EngineKeepsInv
<1>5. ASSUME NEW r \in Runners, ChargeNext(r) PROVE Inv' /\ LedgerStep
  BY <1>1, <1>5, ChargeKeepsInv
<1>6. ASSUME NEW r \in Runners, HandlerNext(r) PROVE Inv' /\ LedgerStep
  BY <1>1, <1>6, HandlerKeepsInv
<1>7. CASE UNCHANGED vars
  BY <1>1, <1>7 DEF vars, task, books, Inv, NoEdit, SnapshotsBehind, RunsDiffer, GuardPassed, Busy,
                    UnbilledBeforeOrder, LedgerIsDense, LedgerStep
<1> QED BY <1>2, <1>3, <1>4, <1>5, <1>6, <1>7 DEF Next

\* Nothing is billed before the order: the books are empty and no run exists.
LEMMA InitInv == Init => Inv
BY BoundAssumption, InitTypes
   DEF BoundAssumption, Init, Inv, NoEdit, SnapshotsBehind, RunsDiffer, GuardPassed, Busy,
       UnbilledBeforeOrder, LedgerIsDense, NoRow, NoTime, Cycle

\* For every plan, policy, number of runner slots and bound: as long as only the
\* endpoints that lock the row are called, replays, overlapping runs, stale
\* snapshots, lost calls and captured charges that were answered as failed never
\* make the recorded payments disagree with cycles_processed.
THEOREM LedgerStaysDense == ASSUME LockedCallsOnly PROVE Spec => []LedgerIsDense
<1>1. Inv /\ [Next]_vars => Inv'
  BY NextKeepsInv
<1>2. Inv => LedgerIsDense
  BY DEF Inv
<1> QED BY InitInv, <1>1, <1>2, PTL DEF Spec

\* The engine implements the payment ledger: cycles are settled one at a time, in
\* order, by one recorded payment each, and a settlement is never taken back.
THEOREM ImplementsLedger == ASSUME LockedCallsOnly PROVE Spec => LedgerSpec
<1>1. Init => Ledger!Init
  BY DEF Init, NoRow, Ledger!Init
<1>2. Inv /\ [Next]_vars => Inv'
  BY NextKeepsInv
<1>3. Inv /\ [Next]_vars => [Ledger!Settle]_<<row.cycles, settled>>
  BY NextKeepsInv DEF LedgerStep
<1> QED BY InitInv, <1>1, <1>2, <1>3, PTL DEF Spec, LedgerSpec, Ledger!Spec

----------------------------------------------------------------------------
(* The gateway.  A run charges the cycle the row is in, and judges the     *)
(* answer by the cycle it was started for.  That the two may differ costs  *)
(* a charge (it is made again), never a payment without one.               *)

\* A charge in flight bills a cycle no earlier than the one its run was started for.
AimsPastSnapshot ==
    \A r \in Runners : pc[r] \in {"open", "gateway"} =>
        snap[r].cycles <= target[r] /\ target[r] <= row.cycles

\* Every cycle the row has processed was accepted.
ProcessedWasAccepted == \A c \in Cycle : c < row.cycles => accepted[c] >= 1

\* A run that holds an answer that is no error was started for a cycle that has been
\* accepted, and a free slot holds none.
Taken == {"succeeded", "pending"}
SuccessWasAccepted ==
    \A r \in Runners : result[r] \in Taken => Busy(r) /\ accepted[snap[r].cycles] >= 1

\* A task waits only for a charge that was answered as pending.
WaitsForPending == \A r \in Runners : pc[r] = "wait" => result[r] = "pending"

AcceptInv ==
    /\ Inv
    /\ AimsPastSnapshot
    /\ ProcessedWasAccepted
    /\ SuccessWasAccepted
    /\ WaitsForPending

\* An accepted charge is never forgotten.
LEMMA AcceptGrows ==
    ASSUME TypeOK, NEW c \in Cycle, Accept(c)
    PROVE  accepted' \in [Cycle -> Nat] /\ accepted'[c] >= 1
           /\ \A d \in Cycle : accepted'[d] >= accepted[d]
BY DEF TypeOK, Accept, CountUp, Many

LEMMA AcceptedIsNat == ASSUME TypeOK PROVE accepted \in [Cycle -> Nat]
BY DEF TypeOK, Many

\* A step that forgets no capture, leaves the row's cycles, and lets no run take aim
\* at the gateway or hold a success it did not have, keeps the invariant.
LEMMA AcceptQuietStep ==
    ASSUME AcceptInv, Inv', row'.cycles = row.cycles,
           \A c \in Cycle : accepted'[c] \in Nat /\ accepted'[c] >= accepted[c],
           \A r \in Runners :
              \/ UNCHANGED <<snap[r], target[r], result[r]>> /\ pc'[r] = pc[r]
              \/ /\ snap'[r] = snap[r] /\ target'[r] = target[r] /\ result'[r] = result[r]
                 /\ Busy(r) /\ pc'[r] \notin {"idle", "open", "wait"}
                 /\ pc'[r] = "gateway" => pc[r] = "open"
              \/ pc'[r] = "idle" /\ result'[r] = "none"
    PROVE  AcceptInv'
<1>1. accepted \in [Cycle -> Nat] /\ row.cycles \in Nat
  BY AcceptedIsNat DEF AcceptInv, Inv, TypeOK, Row
<1>2. ProcessedWasAccepted'
  BY <1>1 DEF ProcessedWasAccepted, AcceptInv
<1>3. AimsPastSnapshot'
  BY DEF AimsPastSnapshot, AcceptInv
<1>4. SuccessWasAccepted'
  <2> SUFFICES ASSUME NEW r \in Runners, result'[r] \in Taken
               PROVE  Busy(r)' /\ accepted'[snap'[r].cycles] >= 1
    BY DEF SuccessWasAccepted
  <2>1. Busy(r) /\ accepted[snap[r].cycles] >= 1 /\ snap'[r] = snap[r] /\ Busy(r)'
    BY DEF AcceptInv, SuccessWasAccepted, Busy, Taken
  <2>2. snap[r].cycles \in Cycle
    BY <2>1 DEF AcceptInv, Inv, SnapshotsBehind
  <2> QED BY <1>1, <2>1, <2>2
<1>5. WaitsForPending'
  BY DEF WaitsForPending, AcceptInv
<1> QED BY <1>2, <1>3, <1>4, <1>5 DEF AcceptInv

\* The charge task.
LEMMA ChargeKeepsAcceptInv ==
    ASSUME AcceptInv, Inv', NEW r \in Runners, ChargeNext(r)
    PROVE  AcceptInv'
<1> USE DEF task, books
<1>1. TypeOK /\ row.cycles \in Nat /\ accepted \in [Cycle -> Nat]
  BY AcceptedIsNat DEF AcceptInv, Inv, TypeOK, Row
<1>2. UNCHANGED row
  BY DEF ChargeNext, ChargeBuildsInvoice, ChargeOpensInvoice, GatewayCaptures, GatewayQueues, GatewayDeclines, GatewayRefuses,
         GatewayReplyLost, GatewayErrors, ChargeInterrupted, GatewayDefers
<1>3. CASE ChargeBuildsInvoice(r)
  <2>1. UNCHANGED accepted
    BY <1>3 DEF ChargeBuildsInvoice
  <2>2. CASE Ends(r)
    BY <1>1, <1>2, <2>1, <2>2, AcceptQuietStep DEF Ends, TypeOK
  <2>3. CASE To(r, "charge")
    BY <1>1, <1>2, <1>3, <2>1, <2>3, AcceptQuietStep DEF To, TypeOK, ChargeBuildsInvoice
  <2>4. CASE ~Ends(r) /\ ~To(r, "charge")
    <3>1. /\ target' = [target EXCEPT ![r] = row.cycles]
          /\ pc' = [pc EXCEPT ![r] = "open"]
          /\ UNCHANGED <<snap, result>> /\ pc[r] = "charge"
      BY <1>3, <2>4 DEF ChargeBuildsInvoice
    <3>2. snap[r].cycles <= row.cycles
      BY <3>1 DEF AcceptInv, Inv, SnapshotsBehind, Busy
    <3>3. AimsPastSnapshot'
      BY <1>1, <1>2, <3>1, <3>2 DEF AimsPastSnapshot, AcceptInv, TypeOK
    <3>4. SuccessWasAccepted' /\ WaitsForPending'
      BY <1>1, <2>1, <3>1 DEF SuccessWasAccepted, WaitsForPending, AcceptInv, TypeOK, Busy
    <3>5. ProcessedWasAccepted'
      BY <1>2, <2>1 DEF ProcessedWasAccepted, AcceptInv
    <3> QED BY <3>3, <3>4, <3>5 DEF AcceptInv
  <2> QED BY <2>2, <2>3, <2>4
<1>4. CASE ChargeOpensInvoice(r)
  BY <1>1, <1>2, <1>4, AcceptQuietStep DEF ChargeOpensInvoice, To, TypeOK, Busy
<1>5. CASE GatewayCaptures(r) \/ GatewayQueues(r) \/ GatewayDeclines(r) \/ GatewayDefers(r)
  <2>0. PICK res \in Taken, place \in {"handle", "wait"} :
           Answered(r, res, place) /\ (place = "wait" => res = "pending")
    BY <1>5 DEF GatewayCaptures, GatewayQueues, GatewayDeclines, GatewayDefers, Taken
  <2>1. /\ Accept(target[r]) /\ target[r] \in Cycle /\ pc[r] = "gateway"
        /\ result' = [result EXCEPT ![r] = res] /\ pc' = [pc EXCEPT ![r] = place]
        /\ UNCHANGED <<snap, target>>
    BY <1>1, <1>5, <2>0 DEF GatewayCaptures, GatewayQueues, GatewayDeclines, GatewayDefers, Answered, TypeOK
  <2>2. /\ accepted' \in [Cycle -> Nat] /\ accepted'[target[r]] >= 1
        /\ \A c \in Cycle : accepted'[c] >= accepted[c]
    BY <1>1, <2>1, AcceptGrows
  <2>3. ProcessedWasAccepted'
    BY <1>1, <1>2, <2>2 DEF ProcessedWasAccepted, AcceptInv
  <2>4. AimsPastSnapshot' /\ WaitsForPending'
    BY <1>1, <1>2, <2>0, <2>1 DEF AimsPastSnapshot, WaitsForPending, AcceptInv, TypeOK
  <2>5. snap[r].cycles \in Cycle /\ snap[r].cycles <= target[r] /\ target[r] <= row.cycles
    BY <2>1 DEF AcceptInv, AimsPastSnapshot, Inv, SnapshotsBehind, Busy
  <2>6. accepted'[snap[r].cycles] >= 1
    <3>1. CASE snap[r].cycles = target[r]
      BY <2>2, <3>1
    <3>2. CASE snap[r].cycles # target[r]
      <4>1. snap[r].cycles < row.cycles
        BY <1>1, <2>1, <2>5, <3>2 DEF Cycle
      <4> QED BY <1>2, <2>3, <2>5, <4>1 DEF ProcessedWasAccepted
    <3> QED BY <3>1, <3>2
  <2>7. SuccessWasAccepted'
    <3> SUFFICES ASSUME NEW q \in Runners, result'[q] \in Taken
                 PROVE  Busy(q)' /\ accepted'[snap'[q].cycles] >= 1
      BY DEF SuccessWasAccepted
    <3>1. CASE q = r
      BY <1>1, <2>0, <2>1, <2>6, <3>1 DEF Busy, TypeOK
    <3>2. CASE q # r
      <4>1. Busy(q) /\ accepted[snap[q].cycles] >= 1 /\ Busy(q)'
        BY <1>1, <2>1, <3>2 DEF AcceptInv, SuccessWasAccepted, TypeOK, Busy
      <4>2. snap[q].cycles \in Cycle
        BY <4>1 DEF AcceptInv, Inv, SnapshotsBehind
      <4> QED BY <1>1, <2>1, <2>2, <4>1, <4>2
    <3> QED BY <3>1, <3>2
  <2> QED BY <2>3, <2>4, <2>7 DEF AcceptInv
<1>6. CASE GatewayRefuses(r) \/ GatewayReplyLost(r)
  <2>1. /\ pc[r] = "gateway"
        /\ result' = [result EXCEPT ![r] = "failed"] /\ pc' = [pc EXCEPT ![r] = "handle"]
        /\ UNCHANGED <<snap, target>>
        /\ UNCHANGED accepted
    BY <1>6 DEF GatewayRefuses, GatewayReplyLost, Answered
  <2>2. accepted' \in [Cycle -> Nat] /\ \A c \in Cycle : accepted'[c] >= accepted[c]
    BY <1>1, <2>1
  <2>3. ProcessedWasAccepted'
    BY <1>1, <1>2, <2>2 DEF ProcessedWasAccepted, AcceptInv
  <2>4. AimsPastSnapshot' /\ WaitsForPending'
    BY <1>1, <1>2, <2>1 DEF AimsPastSnapshot, WaitsForPending, AcceptInv, TypeOK
  <2>5. SuccessWasAccepted'
    <3> SUFFICES ASSUME NEW q \in Runners, result'[q] \in Taken
                 PROVE  Busy(q)' /\ accepted'[snap'[q].cycles] >= 1
      BY DEF SuccessWasAccepted
    <3>1. q # r
      BY <1>1, <2>1 DEF TypeOK, Taken
    <3>2. Busy(q) /\ accepted[snap[q].cycles] >= 1 /\ Busy(q)'
      BY <1>1, <2>1, <3>1 DEF AcceptInv, SuccessWasAccepted, TypeOK, Busy
    <3>3. snap[q].cycles \in Cycle
      BY <3>2 DEF AcceptInv, Inv, SnapshotsBehind
    <3> QED BY <1>1, <2>1, <2>2, <3>2, <3>3
  <2> QED BY <2>3, <2>4, <2>5 DEF AcceptInv
<1>7. CASE GatewayErrors(r)
  <2>1. UNCHANGED accepted /\ pc[r] = "gateway"
    BY <1>7 DEF GatewayErrors
  <2>2. CASE Ends(r)
    BY <1>1, <1>2, <2>1, <2>2, AcceptQuietStep DEF Ends, TypeOK
  <2>3. CASE To(r, "charge")
    BY <1>1, <1>2, <2>1, <2>3, AcceptQuietStep DEF To, TypeOK, Busy
  <2> QED BY <1>7, <2>2, <2>3 DEF GatewayErrors
<1>8. CASE ChargeInterrupted(r)
  <2>1. accepted' \in [Cycle -> Nat] /\ \A c \in Cycle : accepted'[c] >= accepted[c]
    BY <1>1, <1>8 DEF ChargeInterrupted
  <2> QED BY <1>1, <1>2, <1>8, <2>1, AcceptQuietStep DEF ChargeInterrupted, To, TypeOK, Busy
<1> QED BY <1>3, <1>4, <1>5, <1>6, <1>7, <1>8 DEF ChargeNext

\* The handlers: only a success that was accepted counts a cycle.
LEMMA HandlerKeepsAcceptInv ==
    ASSUME AcceptInv, Inv', NEW r \in Runners, HandlerNext(r) PROVE AcceptInv'
<1> USE DEF task, books, spent
<1>1. TypeOK /\ row.cycles \in Nat /\ accepted \in [Cycle -> Nat]
  BY AcceptedIsNat DEF AcceptInv, Inv, TypeOK, Row
<1>2. UNCHANGED accepted /\ Busy(r)
  BY DEF HandlerNext, WaitTimesOut, HandleResult, ReadInvoiceInTx, CommitSuccess, CommitFailure,
         HandlerFails, Replay, Finish, Fault, Busy
<1>3. Ends(r) \/ \E place \in {"handle", "settle", "commit", "done"} : To(r, place)
  BY <1>2 DEF HandlerNext, WaitTimesOut, HandleResult, ReadInvoiceInTx, CommitSuccess, CommitFailure,
         HandlerFails, Replay, Finish
<1>4. CASE row'.cycles = row.cycles
  <2>1. CASE Ends(r)
    BY <1>1, <1>2, <1>4, <2>1, AcceptQuietStep DEF Ends, TypeOK
  <2>2. ASSUME NEW place \in {"handle", "settle", "commit", "done"}, To(r, place) PROVE AcceptInv'
    BY <1>1, <1>2, <1>4, <2>2, AcceptQuietStep DEF To, TypeOK
  <2> QED BY <1>3, <2>1, <2>2
<1>5. CASE CommitSuccess(r)
  <2>1. snap[r].cycles = row.cycles /\ snap[r] \in Row /\ result[r] = "succeeded"
    BY <1>1, <1>5 DEF CommitSuccess, AcceptInv, Inv, GuardPassed, TypeOK
  <2>2. row'.cycles = row.cycles + 1
    BY <1>5, <2>1, AdvancedType DEF CommitSuccess
  <2>3. accepted[row.cycles] >= 1
    BY <2>1 DEF AcceptInv, SuccessWasAccepted, Taken
  <2>4. ProcessedWasAccepted'
    BY <1>1, <1>2, <2>2, <2>3 DEF ProcessedWasAccepted, AcceptInv, Cycle
  <2>5. UNCHANGED <<snap, target, result>> /\ pc' = [pc EXCEPT ![r] = "done"]
    BY <1>5 DEF CommitSuccess, To
  <2>6. AimsPastSnapshot'
    <3> SUFFICES ASSUME NEW q \in Runners, pc'[q] \in {"open", "gateway"}
                 PROVE  snap'[q].cycles <= target'[q] /\ target'[q] <= row'.cycles
      BY DEF AimsPastSnapshot
    <3>1. pc[q] \in {"open", "gateway"} /\ target[q] \in Nat
      BY <1>1, <2>5 DEF TypeOK, Cycle
    <3> QED BY <1>1, <2>2, <2>5, <3>1 DEF AcceptInv, AimsPastSnapshot
  <2>7. SuccessWasAccepted' /\ WaitsForPending'
    BY <1>1, <1>2, <2>5 DEF SuccessWasAccepted, WaitsForPending, AcceptInv, TypeOK, Busy
  <2> QED BY <2>4, <2>6, <2>7 DEF AcceptInv
<1>6. CASE ~CommitSuccess(r)
  <2>1. CASE CommitFailure(r)
    <3>1. snap[r] \in Row /\ snap[r].cycles = row.cycles
      BY <1>1, <2>1 DEF CommitFailure, AcceptInv, Inv, GuardPassed, TypeOK
    <3>2. row'.cycles = row.cycles
      BY <2>1, <3>1, FailedType DEF CommitFailure
    <3> QED BY <1>4, <3>2
  <2>2. CASE ~CommitFailure(r)
    BY <1>4, <1>6, <2>2 DEF HandlerNext, WaitTimesOut, HandleResult, ReadInvoiceInTx, HandlerFails, Replay, Finish
  <2> QED BY <2>1, <2>2
<1> QED BY <1>5, <1>6

\* Orders: the first cycle is counted with its capture.
LEMMA OrderKeepsAcceptInv ==
    ASSUME LockedCallsOnly, AcceptInv, Inv', OrderNext PROVE AcceptInv'
<1> USE DEF task, books
<1>1. TypeOK /\ row.cycles \in Nat /\ accepted \in [Cycle -> Nat] /\ accepted \in [Cycle -> 0 .. Many]
  BY AcceptedIsNat DEF AcceptInv, Inv, TypeOK, Row
<1>0. PICK paid \in BOOLEAN : CompleteCheckoutSession(paid) \/ CompleteOrder(paid)
  BY DEF OrderNext
<1>2. PICK activated : Complete(activated, paid)
  BY <1>0 DEF CompleteCheckoutSession, CompleteOrder
<1>3. LedgerStep
  BY OrderKeepsInv DEF AcceptInv, Inv
<1>4. UNCHANGED <<pc, snap, target, result>>
  BY <1>2 DEF Complete
<1>5. CASE UNCHANGED settled /\ row'.cycles = row.cycles
  <2>1. accepted' \in [Cycle -> Nat] /\ \A c \in Cycle : accepted'[c] >= accepted[c]
    BY <1>1, <1>2, BoundAssumption DEF BoundAssumption, Complete, CountUp, Many, Cycle
  <2> QED BY <1>1, <1>4, <1>5, <2>1, AcceptQuietStep
<1>6. CASE Ledger!Settle
  <2>1. row.cycles \in Cycle /\ settled' = [settled EXCEPT ![row.cycles] = 1] /\ settled[row.cycles] = 0
        /\ row'.cycles = row.cycles + 1
    BY <1>6 DEF Ledger!Settle
  <2>2. 0 \in Cycle /\ paid /\ row.cycles = 0
    BY <1>1, <1>2, <2>1, BoundAssumption DEF BoundAssumption, Complete, Cycle, TypeOK, CountUp, Many
  <2>3. accepted' \in [Cycle -> Nat] /\ accepted'[0] >= 1 /\ \A c \in Cycle : accepted'[c] >= accepted[c]
    BY <1>1, <1>2, <2>2 DEF Complete, CountUp, Many
  <2>4. ProcessedWasAccepted'
    BY <2>1, <2>2, <2>3 DEF ProcessedWasAccepted, Cycle
  <2>5. WaitsForPending'
    BY <1>4 DEF WaitsForPending, AcceptInv
  <2>6. AimsPastSnapshot'
    <3> SUFFICES ASSUME NEW q \in Runners, pc[q] \in {"open", "gateway"}
                 PROVE  snap[q].cycles <= target[q] /\ target[q] <= row'.cycles
      BY <1>4 DEF AimsPastSnapshot
    <3>1. target[q] \in Nat
      BY <1>1 DEF TypeOK, Cycle
    <3> QED BY <1>1, <2>1, <3>1 DEF AcceptInv, AimsPastSnapshot
  <2>7. SuccessWasAccepted'
    <3> SUFFICES ASSUME NEW q \in Runners, result[q] \in Taken
                 PROVE  Busy(q) /\ accepted'[snap[q].cycles] >= 1
      BY <1>4 DEF SuccessWasAccepted, Busy
    <3>1. Busy(q) /\ accepted[snap[q].cycles] >= 1 /\ snap[q].cycles \in Cycle
      BY DEF AcceptInv, SuccessWasAccepted, Inv, SnapshotsBehind
    <3> QED BY <1>1, <2>3, <3>1
  <2> QED BY <2>4, <2>5, <2>6, <2>7 DEF AcceptInv
<1> QED BY <1>3, <1>5, <1>6 DEF LedgerStep

\* Everything else: clients, the sweep, the engine, the clock.
LEMMA OthersKeepAcceptInv ==
    ASSUME LockedCallsOnly, AcceptInv, Inv', ApiNext \/ WriteOffNext \/ EngineNext \/ PspNext \/ Tick
    PROVE  AcceptInv'
<1> USE DEF task, books
<1>1. TypeOK /\ row.cycles \in Nat /\ accepted \in [Cycle -> Nat]
  BY AcceptedIsNat DEF AcceptInv, Inv, TypeOK, Row
<1>2. row'.cycles = row.cycles
  <2>1. LedgerStep
    BY ApiKeepsInv, EngineKeepsInv DEF AcceptInv, Inv
  <2>2. UNCHANGED settled
    BY DEF ApiNext, Activate, PauseSubscription, ResumeSubscription, CancelSubscription, ReadForEdit,
           UpdateSubscription, UpdateBillingAnchor, WriteOffNext, EngineNext, PspNext, Tick,
           FindOutstandingInvoice, WriteOffInvoice, SweepFindsDue, StartRun, CollapseRequest,
           LoseRequest, PendingDecided, Capture, DeliverWebhook
  <2>3. ~Ledger!Settle
    BY <1>1, <2>2 DEF Ledger!Settle, TypeOK, Many
  <2> QED BY <2>1, <2>3 DEF LedgerStep
<1>3. accepted' \in [Cycle -> Nat] /\ \A c \in Cycle : accepted'[c] >= accepted[c]
  <2>1. UNCHANGED accepted
    BY DEF ApiNext, Activate, PauseSubscription, ResumeSubscription, CancelSubscription, ReadForEdit,
           UpdateSubscription, UpdateBillingAnchor, WriteOffNext, EngineNext, PspNext, Tick,
           FindOutstandingInvoice, WriteOffInvoice, SweepFindsDue, StartRun, CollapseRequest,
           LoseRequest, PendingDecided, DeliverWebhook
  <2> QED BY <1>1, <2>1
<1>4. CASE UNCHANGED <<pc, snap, target, result>>
  BY <1>1, <1>2, <1>3, <1>4, AcceptQuietStep
<1>5. CASE DeliverWebhook
  <2>1. /\ UNCHANGED <<snap, target, accepted>>
        /\ \A r \in Runners : IF pc[r] = "wait" THEN pc'[r] = "handle" /\ result'[r] = "succeeded"
                              ELSE pc'[r] = pc[r] /\ result'[r] = result[r]
    BY <1>5 DEF DeliverWebhook
  <2>2. SuccessWasAccepted'
    <3> SUFFICES ASSUME NEW r \in Runners, result'[r] \in Taken
                 PROVE  Busy(r)' /\ accepted'[snap'[r].cycles] >= 1
      BY DEF SuccessWasAccepted
    <3>1. result[r] \in Taken
      BY <2>1 DEF AcceptInv, WaitsForPending, Taken
    <3> QED BY <2>1, <3>1 DEF AcceptInv, SuccessWasAccepted, Busy
  <2>3. AimsPastSnapshot' /\ WaitsForPending'
    BY <1>2, <2>1 DEF AcceptInv, AimsPastSnapshot, WaitsForPending
  <2>4. ProcessedWasAccepted'
    BY <1>2, <2>1 DEF AcceptInv, ProcessedWasAccepted
  <2> QED BY <2>2, <2>3, <2>4 DEF AcceptInv
<1>6. ASSUME NEW sub \in requests, NEW r \in Runners, StartRun(r, sub) PROVE AcceptInv'
  <2>1. /\ pc' = [pc EXCEPT ![r] = "charge"] /\ snap' = [snap EXCEPT ![r] = sub]
        /\ UNCHANGED <<target, result, accepted>> /\ ~Busy(r)
    BY <1>6 DEF StartRun, Busy
  <2>2. result[r] \notin Taken
    BY <2>1 DEF AcceptInv, SuccessWasAccepted
  <2>3. ProcessedWasAccepted'
    BY <1>2, <2>1 DEF ProcessedWasAccepted, AcceptInv
  <2>4. AimsPastSnapshot'
    BY <1>1, <1>2, <2>1 DEF AimsPastSnapshot, AcceptInv, TypeOK
  <2>5. SuccessWasAccepted' /\ WaitsForPending'
    BY <1>1, <2>1, <2>2 DEF SuccessWasAccepted, WaitsForPending, AcceptInv, TypeOK, Busy
  <2> QED BY <2>3, <2>4, <2>5 DEF AcceptInv
<1> QED BY <1>4, <1>5, <1>6
        DEF ApiNext, Activate, PauseSubscription, ResumeSubscription, CancelSubscription, ReadForEdit,
            UpdateSubscription, UpdateBillingAnchor, WriteOffNext, EngineNext, PspNext, Tick,
            FindOutstandingInvoice, WriteOffInvoice, SweepFindsDue, CollapseRequest, LoseRequest,
            PendingDecided

\* A run that charges another cycle than the one it was started for, a replay, a
\* lost reply, a retried charge, a charge that is still pending: none of them ever
\* gets a payment recorded for a cycle whose charge the gateway has not answered
\* without an error, whatever it answers.
THEOREM RecordedWasAlwaysAccepted ==
    ASSUME LockedCallsOnly PROVE Spec => []RecordedWasAccepted
<1>1. Init => AcceptInv
  BY InitInv, BoundAssumption
     DEF BoundAssumption, Init, AcceptInv, AimsPastSnapshot, ProcessedWasAccepted, SuccessWasAccepted,
         WaitsForPending, Taken, NoRow, Cycle
<1>2. AcceptInv /\ [Next]_vars => AcceptInv'
  <2> SUFFICES ASSUME AcceptInv, [Next]_vars PROVE AcceptInv'
    OBVIOUS
  <2>1. Inv'
    BY NextKeepsInv DEF AcceptInv
  <2>2. CASE OrderNext
    BY <2>1, <2>2, OrderKeepsAcceptInv
  <2>3. CASE ApiNext \/ WriteOffNext \/ EngineNext \/ PspNext \/ Tick
    BY <2>1, <2>3, OthersKeepAcceptInv
  <2>4. ASSUME NEW r \in Runners, ChargeNext(r) PROVE AcceptInv'
    BY <2>1, <2>4, ChargeKeepsAcceptInv
  <2>5. ASSUME NEW r \in Runners, HandlerNext(r) PROVE AcceptInv'
    BY <2>1, <2>5, HandlerKeepsAcceptInv
  <2>6. CASE UNCHANGED vars
    BY <2>1, <2>6 DEF vars, task, books, AcceptInv, AimsPastSnapshot, ProcessedWasAccepted,
                      SuccessWasAccepted, WaitsForPending, Busy
  <2> QED BY <2>2, <2>3, <2>4, <2>5, <2>6 DEF Next
<1>3. AcceptInv => RecordedWasAccepted
  <2> SUFFICES ASSUME AcceptInv, NEW c \in Cycle PROVE settled[c] <= accepted[c]
    BY DEF RecordedWasAccepted
  <2>1. accepted[c] \in Nat /\ row.cycles \in Nat
    BY AcceptedIsNat DEF AcceptInv, Inv, TypeOK, Row
  <2>2. settled[c] = IF c < row.cycles THEN 1 ELSE 0
    BY DEF AcceptInv, Inv, LedgerIsDense
  <2> QED BY <2>1, <2>2 DEF AcceptInv, ProcessedWasAccepted
<1> QED BY <1>1, <1>2, <1>3, PTL DEF Spec

----------------------------------------------------------------------------
(* A failed attempt is reported once.  The counter of retries is to the    *)
(* failure handler what cycles_processed is to both: a snapshot of the     *)
(* row's own cycle is at most as far as the row.                           *)

\* No snapshot of the row's cycle has seen more retries than the row.
BehindInRetries(sub) == sub.cycles = row.cycles => sub.retries <= row.retries

RetriesBehind ==
    /\ \A sub \in requests : BehindInRetries(sub)
    /\ \A r \in Runners : Busy(r) => BehindInRetries(snap[r])

\* A failure that has passed the guard was started for the row's own attempt.
FailurePassed ==
    \A r \in Runners :
        pc[r] \in {"settle", "commit"} /\ result[r] # "succeeded" => snap[r].retries = row.retries

\* A row the sweep may take has a date to schedule its retries from.
Scheduled(sub) == sub.status = "trial" \/ sub.nextRetryAt # NoTime => sub.renewsAt # NoTime

SnapshotsScheduled ==
    /\ Scheduled(row)
    /\ \A sub \in requests : sub.renewsAt # NoTime /\ Scheduled(sub)
    /\ \A r \in Runners : Busy(r) => snap[r].renewsAt # NoTime /\ Scheduled(snap[r])

\* Only attempts that the row has left behind were reported.
ReportedBehind ==
    \A c \in Cycle, k \in 0 .. RetryAttempts :
        k < RetryAttempts /\ reported[<<c, k>>] > 0 =>
            c < row.cycles \/ (c = row.cycles /\ k < row.retries)

AttemptInv ==
    /\ Inv
    /\ RetriesBehind
    /\ FailurePassed
    /\ SnapshotsScheduled
    /\ ReportedBehind
    /\ AttemptReportedOnce

----------------------------------------------------------------------------
(* A plan ends at its term.                                                *)

\* Nothing dates a subscription before its order is completed.
UndatedBeforeOrder ==
    order = "pending" =>
        /\ row.cycles = 0
        /\ row.renewsAt = NoTime /\ row.nextRetryAt = NoTime /\ row.trialEndsAt = NoTime
        /\ requests = {}
        /\ \A r \in Runners : ~Busy(r)

\* A row that has reached its term is not due, whatever its status becomes.
DatelessAtTerm ==
    row.cycles >= Cycles =>
        row.renewsAt = NoTime /\ row.nextRetryAt = NoTime /\ row.status # "trial"

\* Every run was started short of the term.
RunsBeforeTerm ==
    /\ \A sub \in requests : sub.cycles < Cycles
    /\ \A r \in Runners : Busy(r) => snap[r].cycles < Cycles

TermInv ==
    /\ Inv
    /\ UndatedBeforeOrder
    /\ Cycles # 0 => DatelessAtTerm /\ RunsBeforeTerm /\ row.cycles <= Cycles

----------------------------------------------------------------------------
(* A cycle is settled once, even when an unlocked edit rolls the row back. *)

Closed == {"paid", "uncollectible", "void"}

\* The invoice of a settled cycle is closed.
SettledIsClosed == \A c \in Cycle : settled[c] # 0 => invoices[c] \in Closed

\* A run that is about to open an invoice, or to commit a payment, has seen it open.
RunSawItOpen ==
    \A r \in Runners, c \in Cycle :
        \/ pc[r] = "open" /\ target[r] = c
        \/ pc[r] = "commit" /\ result[r] = "succeeded" /\ snap[r].cycles = c
        => settled[c] = 0

SettlementInv ==
    /\ TypeOK
    /\ SettledIsClosed
    /\ RunSawItOpen
    /\ OneSettlementPerCycle

----------------------------------------------------------------------------
(* What the operators do to the dates and the retries of a row.            *)

\* An activated row has a renewal date, and its retries are as they were.
LEMMA ActivatedDates ==
    ASSUME NEW sub \in Row, NEW t \in Nat \ {0}
    PROVE  /\ Activated(sub, t) \in Row
           /\ Activated(sub, t).renewsAt # NoTime
           /\ Activated(sub, t).retries = sub.retries
<1> DEFINE trial == IF TrialLength = 0 THEN NoTime ELSE t + TrialLength
           dated == [sub EXCEPT !.startDate = t, !.trialEndsAt = trial]
           next  == NextBillingDate(dated)
<1>1. Activated(sub, t) = [dated EXCEPT !.renewsAt = next, !.periodEnd = next]
  BY DEF Activated
<1>2. trial \in Nat
  BY PlanAssumption DEF PlanAssumption, NoTime
<1> HIDE DEF trial
<1>3. dated \in Row /\ dated.startDate = t /\ dated.retries = sub.retries
  BY <1>2 DEF Row
<1> HIDE DEF dated
<1>4. next \in Nat /\ next # 0
  BY <1>3, PlanAssumption DEF PlanAssumption, NextBillingDate, Row, NoTime
<1> HIDE DEF next
<1> QED BY <1>1, <1>3, <1>4 DEF Row, NoTime

\* So has one that CompleteOrder activates, paid or not.
LEMMA SetActiveDates ==
    ASSUME NEW sub \in Row, NEW t \in Nat \ {0}, NEW charged \in BOOLEAN
    PROVE  /\ SetActive(sub, charged, t).renewsAt # NoTime
           /\ SetActive(sub, charged, t).retries = sub.retries
<1> DEFINE active == [Activated(sub, t) EXCEPT !.status = "active"]
           first  == [active EXCEPT !.cycles = @ + 1]
           next   == NextBillingDate(first)
<1>1. SetActive(sub, charged, t) =
        IF charged THEN [first EXCEPT !.renewsAt = next, !.periodEnd = next] ELSE active
  BY DEF SetActive
<1>2. active \in Row /\ active.renewsAt # NoTime /\ active.retries = sub.retries
  BY ActivatedDates DEF Row, Status
<1> HIDE DEF active
<1>3. first \in Row /\ first.cycles # 0 /\ first.retries = sub.retries
  BY <1>2 DEF Row
<1> HIDE DEF first
<1>4. next \in Nat /\ next # 0
  BY <1>3, PlanAssumption DEF PlanAssumption, NextBillingDate, Row, NoTime
<1> HIDE DEF next
<1> QED BY <1>1, <1>2, <1>3, <1>4 DEF Row, NoTime

\* A success takes the retry date away, and at the term the renewal date, too.
LEMMA AdvancedDates ==
    ASSUME NEW sub \in Row
    PROVE  /\ Advanced(sub).nextRetryAt = NoTime
           /\ Advanced(sub).status # "trial"
           /\ Cycles # 0 /\ sub.cycles + 1 >= Cycles => Advanced(sub).renewsAt = NoTime
<1> DEFINE cycles == sub.cycles + 1
           paid   == [sub EXCEPT !.cycles = cycles, !.retries = 0, !.nextRetryAt = NoTime]
           next   == NextBillingDate(paid)
<1>1. Advanced(sub) = IF Cycles # 0 /\ paid.cycles >= Cycles
        THEN [paid EXCEPT !.status = "completed", !.renewsAt = NoTime, !.periodEnd = NoTime]
        ELSE [paid EXCEPT !.status = "active", !.renewsAt = next, !.periodEnd = next]
  BY DEF Advanced
<1>2. cycles \in Nat
  BY DEF Row
<1> HIDE DEF cycles
<1>3. paid \in Row /\ paid.cycles = cycles /\ paid.nextRetryAt = NoTime
  BY <1>2 DEF Row, NoTime
<1> HIDE DEF paid, next
<1>4. CASE Cycles # 0 /\ paid.cycles >= Cycles
  BY <1>1, <1>3, <1>4 DEF Row
<1>5. CASE ~(Cycles # 0 /\ paid.cycles >= Cycles)
  <2>1. ~(Cycles # 0 /\ sub.cycles + 1 >= Cycles)
    BY <1>3, <1>5 DEF cycles
  <2> QED BY <1>1, <1>3, <1>5, <2>1 DEF Row
<1> QED BY <1>4, <1>5

\* A failure with retries left moves the counter of a row that has a renewal date:
\* its next retry is scheduled from that date, and can not be mistaken for none.
LEMMA FailedRetries ==
    ASSUME NEW sub \in Row, sub.renewsAt # NoTime
    PROVE  /\ Failed(sub).retries >= sub.retries
           /\ sub.retries < RetryAttempts => Failed(sub).retries = sub.retries + 1
           /\ Scheduled(sub) => Scheduled(Failed(sub))
<1>1. sub.retries \in Nat /\ sub.renewsAt \in Nat /\ RetryAttempts \in Nat /\ RetryPeriod \in Nat
  BY PlanAssumption DEF PlanAssumption, Row
<1>2. sub.retries < RetryAttempts => ~Exhausted(sub)
  <2> SUFFICES ASSUME sub.retries < RetryAttempts PROVE ~Exhausted(sub)
    OBVIOUS
  <2> DEFINE after == RetryPeriod \div (RetryAttempts - sub.retries)
  <2>1. RetryAttempts - sub.retries \in Nat \ {0}
    BY <1>1
  <2>2. after \in Nat
    BY <1>1, <2>1, DivIsNat
  <2>3. RetryDate(sub) = sub.renewsAt + after
    BY <1>1 DEF RetryDate
  <2> HIDE DEF after
  <2> QED BY <1>1, <2>2, <2>3 DEF Exhausted, NoTime
<1>3. CASE ~Exhausted(sub)
  <2> DEFINE retries == sub.retries + 1
             date    == RetryDate(sub)
  <2>1. Failed(sub) = [sub EXCEPT !.status = "past_due", !.retries = retries, !.nextRetryAt = date]
    BY <1>3 DEF Failed
  <2>2. retries \in Nat /\ retries >= sub.retries
    BY <1>1
  <2> HIDE DEF date
  <2>3. Failed(sub).retries = retries /\ Failed(sub).renewsAt = sub.renewsAt
    BY <2>1 DEF Row
  <2> QED BY <2>2, <2>3 DEF Scheduled
<1>4. CASE Exhausted(sub)
  <2>1. Failed(sub).retries = sub.retries /\ (Scheduled(sub) => Scheduled(Failed(sub)))
    <3>1. CASE FailureAction = "cancel"
      <4>1. Failed(sub) = [sub EXCEPT !.status = "cancelled", !.renewsAt = NoTime, !.nextRetryAt = NoTime]
        BY <1>4, <3>1 DEF Failed
      <4> QED BY <4>1 DEF Row, Scheduled
    <3>2. CASE FailureAction = "mark_unpaid"
      <4>1. Failed(sub) = [sub EXCEPT !.status = "unpaid"]
        BY <1>4, <3>2 DEF Failed
      <4> QED BY <4>1 DEF Row, Scheduled
    <3>3. CASE FailureAction = "past_due"
      <4>1. Failed(sub) = sub
        BY <1>4, <3>3 DEF Failed
      <4> QED BY <4>1
    <3> QED BY <3>1, <3>2, <3>3, PlanAssumption DEF PlanAssumption
  <2> QED BY <1>1, <1>2, <1>4, <2>1
<1> QED BY <1>3, <1>4

\* Whatever is due has a renewal date.
LEMMA DueIsDated ==
    ASSUME NEW sub \in Row, NEW t \in Nat, IsDue(sub, t), Scheduled(sub) PROVE sub.renewsAt # NoTime
BY DEF IsDue, Scheduled, NoTime, Row

----------------------------------------------------------------------------
(* Attempts.                                                               *)

\* A step that reports nothing, leaves the row's cycles and retries, starts no run
\* and lets a failure pass the guard only for the row's own attempt.
LEMMA AttemptQuietStep ==
    ASSUME AttemptInv, Inv', UNCHANGED reported,
           row'.cycles = row.cycles, row'.retries = row.retries, Scheduled(row'),
           \A sub \in requests' : sub \in requests \/ (sub = row' /\ row'.renewsAt # NoTime),
           \A r \in Runners : Busy(r)' => Busy(r) /\ snap'[r] = snap[r],
           \A r \in Runners : pc'[r] \in {"settle", "commit"} /\ result'[r] # "succeeded" =>
              \/ pc[r] \in {"settle", "commit"} /\ result[r] # "succeeded"
              \/ snap[r].retries = row.retries
    PROVE  AttemptInv'
<1>1. row \in Row /\ row' \in Row /\ row.retries \in Nat
  BY DEF AttemptInv, Inv, TypeOK, Row
<1>2. RetriesBehind'
  BY <1>1 DEF AttemptInv, RetriesBehind, BehindInRetries
<1>3. FailurePassed'
  BY DEF AttemptInv, FailurePassed, Busy
<1>4. SnapshotsScheduled'
  BY DEF AttemptInv, SnapshotsScheduled, Scheduled
<1>5. ReportedBehind' /\ AttemptReportedOnce'
  BY DEF AttemptInv, ReportedBehind, AttemptReportedOnce
<1> QED BY <1>2, <1>3, <1>4, <1>5 DEF AttemptInv

\* A run's step that leaves the row and the reports, and puts no failure past the guard
\* but for the row's own attempt.
LEMMA AttemptRunStep ==
    ASSUME AttemptInv, Inv', NEW r \in Runners, Busy(r), UNCHANGED <<row, requests, reported>>,
           \/ Ends(r)
           \/ /\ snap' = snap /\ \A q \in Runners : q # r => result'[q] = result[q]
              /\ \E place \in Pc :
                    /\ pc' = [pc EXCEPT ![r] = place]
                    /\ place \in {"settle", "commit"} =>
                          /\ result'[r] = result[r]
                          /\ \/ pc[r] \in {"settle", "commit"}
                             \/ result[r] = "succeeded" \/ snap[r].retries = row.retries
    PROVE  AttemptInv'
<1>1. TypeOK /\ Scheduled(row)
  BY DEF AttemptInv, Inv, SnapshotsScheduled
<1>2. CASE Ends(r)
  <2>1. \A q \in Runners : Busy(q)' => Busy(q) /\ snap'[q] = snap[q]
    BY <1>1, <1>2 DEF Ends, Busy, TypeOK
  <2>2. \A q \in Runners : pc'[q] \in {"settle", "commit"} => pc[q] = pc'[q] /\ result'[q] = result[q]
    BY <1>1, <1>2 DEF Ends, TypeOK
  <2> QED BY <1>1, <2>1, <2>2, AttemptQuietStep DEF Scheduled
<1>3. ASSUME snap' = snap, \A q \in Runners : q # r => result'[q] = result[q],
             NEW place \in Pc, pc' = [pc EXCEPT ![r] = place],
             place \in {"settle", "commit"} =>
                /\ result'[r] = result[r]
                /\ \/ pc[r] \in {"settle", "commit"}
                   \/ result[r] = "succeeded" \/ snap[r].retries = row.retries
      PROVE  AttemptInv'
  <2>1. \A q \in Runners : Busy(q)' => Busy(q) /\ snap'[q] = snap[q]
    BY <1>1, <1>3 DEF Busy, TypeOK
  <2>2. \A q \in Runners : pc'[q] \in {"settle", "commit"} /\ result'[q] # "succeeded" =>
              \/ pc[q] \in {"settle", "commit"} /\ result[q] # "succeeded"
              \/ snap[q].retries = row.retries
    BY <1>1, <1>3 DEF TypeOK
  <2> QED BY <1>1, <2>1, <2>2, AttemptQuietStep DEF Scheduled
<1> QED BY <1>2, <1>3

\* The charge task reports nothing.
LEMMA ChargeKeepsAttempts ==
    ASSUME AttemptInv, Inv', NEW r \in Runners, ChargeNext(r) PROVE AttemptInv'
<1> USE DEF task, books
<1>1. Busy(r) /\ UNCHANGED <<row, requests, reported>>
  BY DEF ChargeNext, ChargeBuildsInvoice, ChargeOpensInvoice, GatewayCaptures, GatewayQueues, GatewayDeclines, GatewayRefuses,
         GatewayReplyLost, GatewayErrors, ChargeInterrupted, GatewayDefers, Capture, Busy
<1>2. TypeOK
  BY DEF AttemptInv, Inv
<1>3. Ends(r) \/ (/\ snap' = snap /\ \A q \in Runners : q # r => result'[q] = result[q]
                  /\ \E place \in {"charge", "open", "gateway", "wait", "handle"} :
                        pc' = [pc EXCEPT ![r] = place])
  BY <1>2 DEF ChargeNext, ChargeBuildsInvoice, ChargeOpensInvoice, GatewayCaptures, GatewayQueues, GatewayDeclines, GatewayRefuses,
         GatewayReplyLost, GatewayErrors, ChargeInterrupted, GatewayDefers, To, Answered, TypeOK
<1> QED BY <1>1, <1>3, AttemptRunStep DEF Pc

\* The guard lets a failure pass that is of the row's own attempt, and the commit moves
\* the row past the attempt it reports.
LEMMA HandlerKeepsAttempts ==
    ASSUME AttemptInv, Inv', NEW r \in Runners, HandlerNext(r) PROVE AttemptInv'
<1> USE DEF task, books, spent
<1>1. TypeOK /\ row.cycles \in Nat /\ row.retries \in Nat /\ snap[r] \in Row
      /\ snap[r].cycles \in Nat /\ snap[r].retries \in Nat
  BY DEF AttemptInv, Inv, TypeOK, Row
<1>2. Busy(r)
  BY DEF HandlerNext, WaitTimesOut, HandleResult, ReadInvoiceInTx, CommitSuccess, CommitFailure,
         HandlerFails, Replay, Finish, Busy
<1>3. CASE WaitTimesOut(r) \/ Replay(r)
  BY <1>2, <1>3, AttemptRunStep DEF WaitTimesOut, Replay, To, Pc
<1>4. CASE HandleResult(r)
  <2>1. snap[r].cycles <= row.cycles /\ BehindInRetries(snap[r])
    BY <1>2 DEF AttemptInv, Inv, SnapshotsBehind, RetriesBehind
  <2>2. ~AlreadyApplied(r) => result[r] = "succeeded" \/ snap[r].retries = row.retries
    BY <1>1, <2>1 DEF AlreadyApplied, SuccessApplied, FailureApplied, BehindInRetries
  <2> QED BY <1>2, <1>4, <2>2, AttemptRunStep DEF HandleResult, To, Pc
<1>5. CASE ReadInvoiceInTx(r)
  BY <1>2, <1>5, AttemptRunStep DEF ReadInvoiceInTx, To, Pc
<1>6. CASE HandlerFails(r) \/ Finish(r)
  BY <1>2, <1>6, AttemptRunStep DEF HandlerFails, Finish, Fault
<1>7. ASSUME pc[r] = "commit", pc' = [pc EXCEPT ![r] = "done"], UNCHANGED <<snap, result>>
      PROVE  FailurePassed'
  \* Whoever else is past the guard was started for the same cycle, and the key excludes it.
  <2>1. \A q \in Runners : q # r => pc[q] \notin {"settle", "commit"}
    BY <1>7 DEF AttemptInv, Inv, GuardPassed, RunsDiffer, Busy
  <2> QED BY <1>1, <1>7, <2>1 DEF FailurePassed, TypeOK
<1>8. CASE CommitSuccess(r)
  <2>1. /\ pc[r] = "commit" /\ pc' = [pc EXCEPT ![r] = "done"]
        /\ row' = Advanced(snap[r])
        /\ UNCHANGED <<requests, snap, result, reported>>
    BY <1>8 DEF CommitSuccess, To
  <2>2. snap[r].cycles = row.cycles
    BY <2>1 DEF AttemptInv, Inv, GuardPassed
  <2>3. row'.cycles = row.cycles + 1 /\ Scheduled(row')
    BY <1>1, <2>1, <2>2, AdvancedType, AdvancedDates DEF Scheduled
  <2>4. \A q \in Runners : Busy(q)' => Busy(q)
    BY <1>1, <1>2, <2>1 DEF Busy, TypeOK
  <2>5. RetriesBehind'
    <3>1. \A sub \in requests : sub.cycles \in Nat /\ sub.cycles <= row.cycles
      BY DEF AttemptInv, Inv, SnapshotsBehind, Cycle
    <3>2. \A q \in Runners : Busy(q) => snap[q].cycles \in Nat /\ snap[q].cycles <= row.cycles
      BY DEF AttemptInv, Inv, SnapshotsBehind, Cycle
    <3> QED BY <1>1, <2>1, <2>3, <2>4, <3>1, <3>2 DEF RetriesBehind, BehindInRetries
  <2>6. SnapshotsScheduled'
    BY <2>1, <2>3, <2>4 DEF AttemptInv, SnapshotsScheduled, Scheduled
  <2>7. ReportedBehind'
    <3> SUFFICES ASSUME NEW c \in Cycle, NEW k \in 0 .. RetryAttempts,
                        k < RetryAttempts, reported[<<c, k>>] > 0
                 PROVE  c < row'.cycles
      BY <2>1 DEF ReportedBehind
    <3>1. c < row.cycles \/ c = row.cycles
      BY DEF AttemptInv, ReportedBehind
    <3> QED BY <1>1, <2>3, <3>1 DEF Cycle
  <2>8. AttemptReportedOnce'
    BY <2>1 DEF AttemptInv, AttemptReportedOnce
  <2> QED BY <1>7, <2>1, <2>5, <2>6, <2>7, <2>8 DEF AttemptInv
<1>9. CASE CommitFailure(r)
  <2> DEFINE here == <<snap[r].cycles, snap[r].retries>>
  <2>1. /\ pc[r] = "commit" /\ result[r] # "succeeded" /\ pc' = [pc EXCEPT ![r] = "done"]
        /\ row' = Failed(snap[r])
        /\ reported' = [reported EXCEPT ![here] = CountUp(@)]
        /\ UNCHANGED <<requests, snap, result>>
    BY <1>9 DEF CommitFailure, To
  <2>2. snap[r].cycles = row.cycles /\ snap[r].retries = row.retries
        /\ snap[r].renewsAt # NoTime /\ Scheduled(snap[r])
    BY <1>2, <2>1 DEF AttemptInv, Inv, GuardPassed, FailurePassed, SnapshotsScheduled
  <2>3. /\ row'.cycles = row.cycles /\ row'.retries >= row.retries /\ row'.retries \in Nat
        /\ row.retries < RetryAttempts => row'.retries = row.retries + 1
        /\ Scheduled(row')
    <3>1. Failed(snap[r]) \in Row
      BY <1>1, FailedType
    <3> QED BY <1>1, <2>1, <2>2, <3>1, FailedType, FailedRetries DEF Row
  <2>4. \A q \in Runners : Busy(q)' => Busy(q)
    BY <1>1, <1>2, <2>1 DEF Busy, TypeOK
  <2>5. RetriesBehind'
    <3>1. \A sub \in requests : sub.retries \in Nat /\ BehindInRetries(sub)
      BY <1>1 DEF AttemptInv, RetriesBehind, TypeOK, Row
    <3>2. \A q \in Runners : snap[q].retries \in Nat /\ (Busy(q) => BehindInRetries(snap[q]))
      BY <1>1 DEF AttemptInv, RetriesBehind, TypeOK, Row
    <3> QED BY <1>1, <2>1, <2>3, <2>4, <3>1, <3>2 DEF RetriesBehind, BehindInRetries
  <2>6. SnapshotsScheduled'
    BY <2>1, <2>3, <2>4 DEF AttemptInv, SnapshotsScheduled, Scheduled
  <2>7. \A c \in Cycle, k \in 0 .. RetryAttempts :
           /\ reported[<<c, k>>] \in 0 .. Many
           /\ reported'[<<c, k>>] = IF c = row.cycles /\ k = row.retries
                                    THEN CountUp(reported[<<c, k>>]) ELSE reported[<<c, k>>]
    <3> SUFFICES ASSUME NEW c \in Cycle, NEW k \in 0 .. RetryAttempts
                 PROVE  /\ reported[<<c, k>>] \in 0 .. Many
                        /\ reported'[<<c, k>>] = IF c = row.cycles /\ k = row.retries
                                    THEN CountUp(reported[<<c, k>>]) ELSE reported[<<c, k>>]
      OBVIOUS
    <3>1. <<c, k>> \in Attempt /\ reported \in [Attempt -> 0 .. Many]
      BY <1>1 DEF Attempt, TypeOK
    <3>2. <<c, k>> = here <=> c = row.cycles /\ k = row.retries
      BY <2>2
    <3> HIDE DEF here
    <3> QED BY <2>1, <3>1, <3>2
  <2> HIDE DEF here
  <2>8. ReportedBehind'
    <3> SUFFICES ASSUME NEW c \in Cycle, NEW k \in 0 .. RetryAttempts,
                        k < RetryAttempts, reported'[<<c, k>>] > 0
                 PROVE  c < row'.cycles \/ (c = row'.cycles /\ k < row'.retries)
      BY DEF ReportedBehind
    <3>1. k \in Nat /\ RetryAttempts \in Nat
      BY PlanAssumption DEF PlanAssumption
    <3>2. CASE c = row.cycles /\ k = row.retries
      BY <1>1, <2>3, <3>1, <3>2
    <3>3. CASE ~(c = row.cycles /\ k = row.retries)
      <4>1. c < row.cycles \/ (c = row.cycles /\ k < row.retries)
        BY <2>7, <3>3 DEF AttemptInv, ReportedBehind
      <4> QED BY <1>1, <2>3, <3>1, <4>1
    <3> QED BY <3>2, <3>3
  <2>9. AttemptReportedOnce'
    <3> SUFFICES ASSUME NEW c \in Cycle, NEW k \in 0 .. RetryAttempts, k < RetryAttempts
                 PROVE  reported'[<<c, k>>] <= 1
      BY DEF AttemptReportedOnce
    <3>1. k \in Nat /\ c \in Nat /\ reported[<<c, k>>] \in 0 .. 2
      BY <2>7 DEF Many, Cycle
    <3>2. CASE c = row.cycles /\ k = row.retries
      <4>1. ~(reported[<<c, k>>] > 0)
        BY <1>1, <3>1, <3>2 DEF AttemptInv, ReportedBehind
      <4>2. reported[<<c, k>>] = 0
        BY <3>1, <4>1
      <4> QED BY <2>7, <3>2, <4>2 DEF CountUp, Many
    <3>3. CASE ~(c = row.cycles /\ k = row.retries)
      BY <2>7, <3>3 DEF AttemptInv, AttemptReportedOnce
    <3> QED BY <3>2, <3>3
  <2> QED BY <1>7, <2>1, <2>5, <2>6, <2>8, <2>9 DEF AttemptInv
<1> QED BY <1>3, <1>4, <1>5, <1>6, <1>8, <1>9 DEF HandlerNext

\* The endpoints that lock the row leave its cycles and retries, and take no date away.
LEMMA ApiLeavesAttempt ==
    ASSUME LockedCallsOnly, TypeOK, NoEdit, ApiNext
    PROVE  /\ row'.cycles = row.cycles /\ row'.retries = row.retries
           /\ row'.nextRetryAt = row.nextRetryAt /\ row'.trialEndsAt = row.trialEndsAt
           /\ row'.status # "trial"
           /\ \/ row'.renewsAt = row.renewsAt
              \/ "resume" \in ApiCalls /\ row'.renewsAt # NoTime
           /\ requests' = requests \/ (Activate /\ StartSubscriptionWorkflow(row'))
           /\ UNCHANGED <<now, order, invoices, task, edit, books>>
<1> USE DEF task, books
<1>1. row \in Row /\ now \in Nat /\ now # 0
  BY BoundAssumption DEF BoundAssumption, TypeOK
<1>2. CASE Activate
  BY <1>1, <1>2 DEF Activate, Row
<1>3. CASE PauseSubscription
  BY <1>1, <1>3 DEF PauseSubscription, Row
<1>4. ASSUME NEW behaviour \in {"continue", "start_new"}, ResumeSubscription(behaviour)
      PROVE  /\ row'.cycles = row.cycles /\ row'.retries = row.retries
             /\ row'.nextRetryAt = row.nextRetryAt /\ row'.trialEndsAt = row.trialEndsAt
             /\ row'.status = "active" /\ row'.renewsAt # NoTime /\ "resume" \in ApiCalls
             /\ UNCHANGED <<now, order, invoices, requests, task, edit, books>>
  <2> DEFINE next == NextBillingDate(row)
             end  == now + Period
  <2>1. next \in Nat
    BY <1>1, NextBillingDateType
  <2>2. \/ next >= now /\ row' = [row EXCEPT !.status = "active", !.renewsAt = next]
        \/ row' = [row EXCEPT !.status = "active", !.renewsAt = now, !.periodEnd = end]
    BY <1>4 DEF ResumeSubscription
  <2>3. "resume" \in ApiCalls /\ UNCHANGED <<now, order, invoices, requests, task, edit, books>>
    BY <1>4 DEF ResumeSubscription
  <2> HIDE DEF next, end
  <2>4. CASE next >= now /\ row' = [row EXCEPT !.status = "active", !.renewsAt = next]
    BY <1>1, <2>1, <2>3, <2>4 DEF Row, NoTime
  <2>5. CASE row' = [row EXCEPT !.status = "active", !.renewsAt = now, !.periodEnd = end]
    BY <1>1, <2>3, <2>5 DEF Row, NoTime
  <2> QED BY <2>2, <2>4, <2>5
<1>5. ASSUME NEW choice \in Outstanding, CancelSubscription(choice)
      PROVE  /\ row' = [row EXCEPT !.status = "cancelled"]
             /\ UNCHANGED <<now, order, invoices, requests, task, edit, books>>
  BY <1>5 DEF CancelSubscription
<1>6. CASE \E choice \in Outstanding : CancelSubscription(choice)
  BY <1>1, <1>5, <1>6 DEF Row
<1>7. /\ ~(\E status \in {"", "active", "paused"} : UpdateSubscription(status))
      /\ ~(\E start \in now .. now + Period : UpdateBillingAnchor(start))
      /\ ~(\E call \in {"update", "anchor"} : ReadForEdit(call))
  BY DEF UpdateSubscription, UpdateBillingAnchor, ReadForEdit, NoEdit, LockedCallsOnly
<1> QED BY <1>2, <1>3, <1>4, <1>6, <1>7 DEF ApiNext

\* So the calls keep what is known of attempts.
LEMMA ApiKeepsAttempts == ASSUME LockedCallsOnly, AttemptInv, Inv', ApiNext PROVE AttemptInv'
<1>1. TypeOK /\ NoEdit /\ row \in Row /\ row' \in Row /\ now \in Nat /\ Scheduled(row)
  BY BoundAssumption DEF BoundAssumption, AttemptInv, Inv, TypeOK, SnapshotsScheduled
<1>2. Scheduled(row')
  BY <1>1, ApiLeavesAttempt DEF Scheduled
<1>3. \A sub \in requests' : sub \in requests \/ (sub = row' /\ row'.renewsAt # NoTime)
  <2>1. CASE StartSubscriptionWorkflow(row')
    BY <1>1, <1>2, <2>1, DueIsDated DEF StartSubscriptionWorkflow
  <2> QED BY <1>1, <2>1, ApiLeavesAttempt
<1> QED BY <1>1, <1>2, <1>3, ApiLeavesAttempt, AttemptQuietStep DEF task, books, Busy

\* The sweep takes what is due, which has a renewal date.
LEMMA EngineKeepsAttempts ==
    ASSUME AttemptInv, Inv', WriteOffNext \/ EngineNext \/ PspNext \/ Tick PROVE AttemptInv'
<1> USE DEF task, books
<1>1. TypeOK /\ row \in Row /\ now \in Nat /\ Scheduled(row)
  BY BoundAssumption DEF BoundAssumption, AttemptInv, Inv, TypeOK, SnapshotsScheduled
<1>2. UNCHANGED <<row, reported>>
  BY DEF WriteOffNext, EngineNext, PspNext, Tick, FindOutstandingInvoice, WriteOffInvoice, SweepFindsDue,
         StartRun, CollapseRequest, LoseRequest, PendingDecided, Capture, DeliverWebhook
<1>3. CASE WriteOffNext \/ PspNext \/ Tick
  <2>1. UNCHANGED <<snap, requests>>
    BY <1>3 DEF WriteOffNext, PspNext, Tick, FindOutstandingInvoice, WriteOffInvoice, PendingDecided, DeliverWebhook
  <2>2. /\ \A r \in Runners : Busy(r)' <=> Busy(r)
        /\ \A r \in Runners : pc'[r] \in {"settle", "commit"} => pc[r] \in {"settle", "commit"} /\ result'[r] = result[r]
    BY <1>3 DEF WriteOffNext, PspNext, Tick, FindOutstandingInvoice, WriteOffInvoice, PendingDecided,
                DeliverWebhook, Busy
  <2> QED BY <1>1, <1>2, <2>1, <2>2, AttemptQuietStep
<1>4. CASE SweepFindsDue
  <2>1. row.renewsAt # NoTime /\ requests' = requests \cup {row} /\ UNCHANGED <<pc, snap, result>>
    BY <1>1, <1>4, DueIsDated DEF SweepFindsDue
  <2> QED BY <1>1, <1>2, <2>1, AttemptQuietStep DEF Busy
<1>5. ASSUME NEW sub \in requests, CollapseRequest(sub) \/ LoseRequest(sub) PROVE AttemptInv'
  <2>1. requests' \subseteq requests /\ UNCHANGED <<pc, snap, result>>
    BY <1>5 DEF CollapseRequest, LoseRequest
  <2> QED BY <1>1, <1>2, <2>1, AttemptQuietStep DEF Busy
<1>6. ASSUME NEW sub \in requests, NEW r \in Runners, StartRun(r, sub) PROVE AttemptInv'
  <2>1. /\ requests' \subseteq requests /\ UNCHANGED result
        /\ pc' = [pc EXCEPT ![r] = "charge"] /\ snap' = [snap EXCEPT ![r] = sub]
    BY <1>6 DEF StartRun
  <2>2. RetriesBehind'
    BY <1>1, <1>2, <2>1 DEF AttemptInv, RetriesBehind, BehindInRetries, TypeOK, Busy
  <2>3. FailurePassed'
    BY <1>1, <1>2, <2>1 DEF AttemptInv, FailurePassed, TypeOK
  <2>4. SnapshotsScheduled'
    BY <1>1, <1>2, <2>1 DEF AttemptInv, SnapshotsScheduled, Scheduled, TypeOK, Busy
  <2>5. ReportedBehind' /\ AttemptReportedOnce'
    BY <1>2 DEF AttemptInv, ReportedBehind, AttemptReportedOnce
  <2> QED BY <2>2, <2>3, <2>4, <2>5 DEF AttemptInv
<1> QED BY <1>3, <1>4, <1>5, <1>6 DEF EngineNext

\* What the completion of an order writes: a dated row with the retries it had, which
\* has one cycle more exactly when it was paid.
LEMMA OrderDates ==
    ASSUME TypeOK, OrderNext
    PROVE  \E paid \in BOOLEAN :
              /\ Complete(row', paid)
              /\ paid => Orders \cap {"paid", "checkout_paid"} # {}
              /\ row'.renewsAt # NoTime /\ row'.retries = row.retries
              /\ ~paid => row'.cycles = row.cycles
              /\ paid /\ row.cycles = 0 => row'.cycles = 1
<1>1. row \in Row /\ now \in Nat \ {0}
  BY BoundAssumption DEF BoundAssumption, TypeOK
<1>2. PICK paid \in BOOLEAN : CompleteCheckoutSession(paid) \/ CompleteOrder(paid)
  BY DEF OrderNext
<1>3. paid => Orders \cap {"paid", "checkout_paid"} # {}
  BY <1>2 DEF CompleteCheckoutSession, CompleteOrder
<1>4. CASE CompleteOrder(paid)
  <2>1. row' = SetActive(row, paid, now) /\ Complete(row', paid)
    BY <1>4 DEF CompleteOrder, Complete
  <2>2. row'.renewsAt # NoTime /\ row'.retries = row.retries
        /\ row'.cycles = IF paid THEN row.cycles + 1 ELSE row.cycles
    BY <1>1, <2>1, SetActiveDates, SetActiveType
  <2> QED BY <1>3, <2>1, <2>2
<1>5. CASE CompleteCheckoutSession(paid)
  <2> DEFINE dated == Activated(row, now)
  <2>1. dated \in Row /\ dated.renewsAt # NoTime /\ dated.retries = row.retries /\ dated.cycles = row.cycles
    BY <1>1, ActivatedDates, ActivatedType
  <2>2. Complete(row', paid) /\ row' = IF paid THEN [dated EXCEPT !.status = "active", !.cycles = 1]
                                       ELSE [dated EXCEPT !.status = "trial"]
    BY <1>5 DEF CompleteCheckoutSession, Complete
  <2> HIDE DEF dated
  <2>3. CASE paid
    <3>1. row'.cycles = 1 /\ row'.renewsAt # NoTime /\ row'.retries = row.retries
      BY <2>1, <2>2, <2>3 DEF Row
    <3> QED BY <1>3, <2>2, <2>3, <3>1
  <2>4. CASE ~paid
    <3>1. row'.cycles = row.cycles /\ row'.renewsAt # NoTime /\ row'.retries = row.retries
      BY <2>1, <2>2, <2>4 DEF Row
    <3> QED BY <2>2, <2>4, <3>1
  <2> QED BY <2>3, <2>4
<1> QED BY <1>2, <1>4, <1>5

\* An order that takes a payment comes before every attempt; one that does not leaves
\* the row's attempt as it is.
LEMMA OrderKeepsAttempts == ASSUME AttemptInv, Inv', OrderNext PROVE AttemptInv'
<1>1. TypeOK /\ row \in Row /\ row' \in Row /\ row.cycles \in Nat /\ now \in Nat
  BY BoundAssumption DEF BoundAssumption, AttemptInv, Inv, TypeOK, Row
<1>2. PICK paid \in BOOLEAN :
              /\ Complete(row', paid)
              /\ paid => Orders \cap {"paid", "checkout_paid"} # {}
              /\ row'.renewsAt # NoTime /\ row'.retries = row.retries
              /\ ~paid => row'.cycles = row.cycles
              /\ paid /\ row.cycles = 0 => row'.cycles = 1
  BY <1>1, OrderDates
<1>3. /\ UNCHANGED <<pc, snap, result, reported>> /\ order = "pending"
      /\ \A sub \in requests' : sub \in requests \/ sub = row'
  BY <1>2 DEF Complete, StartSubscriptionWorkflow, task, books
<1>4. Scheduled(row')
  BY <1>2 DEF Scheduled
<1>5. CASE ~paid
  BY <1>2, <1>3, <1>4, <1>5, AttemptQuietStep DEF Busy
<1>6. CASE paid
  <2>1. row.cycles = 0 /\ requests = {} /\ \A r \in Runners : pc[r] = "idle"
    BY <1>2, <1>3, <1>6 DEF AttemptInv, Inv, UnbilledBeforeOrder, Busy
  <2>2. row'.cycles = 1
    BY <1>2, <1>6, <2>1
  <2>3. RetriesBehind' /\ FailurePassed' /\ SnapshotsScheduled'
    <3>1. row'.retries \in Nat
      BY <1>1 DEF Row
    <3> QED BY <1>2, <1>3, <1>4, <2>1, <3>1 DEF RetriesBehind, BehindInRetries, FailurePassed, SnapshotsScheduled,
                                    Scheduled, Busy
  <2>4. ReportedBehind'
    <3> SUFFICES ASSUME NEW c \in Cycle, NEW k \in 0 .. RetryAttempts,
                        k < RetryAttempts, reported[<<c, k>>] > 0
                 PROVE  c < row'.cycles
      BY <1>3 DEF ReportedBehind
    <3>1. c < row.cycles \/ c = row.cycles
      BY DEF AttemptInv, ReportedBehind
    <3> QED BY <2>1, <2>2, <3>1 DEF Cycle
  <2>5. AttemptReportedOnce'
    BY <1>3 DEF AttemptInv, AttemptReportedOnce
  <2> QED BY <2>3, <2>4, <2>5 DEF AttemptInv
<1> QED BY <1>5, <1>6

\* However runs overlap, are replayed and see stale rows, a failed attempt is reported
\* once, and so opens one campaign of dunning, as long as only the endpoints that lock
\* the row are called.
THEOREM AttemptsAreReportedOnce == ASSUME LockedCallsOnly PROVE Spec => []AttemptReportedOnce
<1>1. Init => AttemptInv
  <2> SUFFICES ASSUME Init PROVE AttemptInv
    OBVIOUS
  <2>1. \A c \in Cycle, k \in 0 .. RetryAttempts : reported[<<c, k>>] = 0
    BY DEF Init, Attempt
  <2>2. \A r \in Runners : ~Busy(r)
    BY DEF Init, Busy
  <2> QED BY <2>1, <2>2, InitInv
          DEF Init, AttemptInv, RetriesBehind, FailurePassed, SnapshotsScheduled, Scheduled, ReportedBehind,
              AttemptReportedOnce, NoRow, Busy
<1>2. AttemptInv /\ [Next]_vars => AttemptInv'
  <2> SUFFICES ASSUME AttemptInv, [Next]_vars PROVE AttemptInv'
    OBVIOUS
  <2>1. Inv'
    BY NextKeepsInv DEF AttemptInv
  <2>2. CASE OrderNext
    BY <2>1, <2>2, OrderKeepsAttempts
  <2>3. CASE ApiNext
    BY <2>1, <2>3, ApiKeepsAttempts
  <2>4. CASE WriteOffNext \/ EngineNext \/ PspNext \/ Tick
    BY <2>1, <2>4, EngineKeepsAttempts
  <2>5. ASSUME NEW r \in Runners, ChargeNext(r) PROVE AttemptInv'
    BY <2>1, <2>5, ChargeKeepsAttempts
  <2>6. ASSUME NEW r \in Runners, HandlerNext(r) PROVE AttemptInv'
    BY <2>1, <2>6, HandlerKeepsAttempts
  <2>7. CASE UNCHANGED vars
    BY <2>1, <2>7 DEF vars, task, books, AttemptInv, RetriesBehind, BehindInRetries, FailurePassed,
                      SnapshotsScheduled, Scheduled, ReportedBehind, AttemptReportedOnce, Busy
  <2> QED BY <2>2, <2>3, <2>4, <2>5, <2>6, <2>7 DEF Next
<1>3. AttemptInv => AttemptReportedOnce
  BY DEF AttemptInv
<1> QED BY <1>1, <1>2, <1>3, PTL DEF Spec

----------------------------------------------------------------------------
(* The term.                                                               *)

\* The code's ways of billing a plan beyond its term: an unlocked edit, the pause and
\* resumption of a completed subscription, which dates it again, and an order that
\* pays the only cycle of its plan, which leaves it active.
TermIsKept ==
    /\ LockedCallsOnly
    /\ "resume" \notin ApiCalls
    /\ Cycles = 1 => Orders \cap {"paid", "checkout_paid"} = {}

\* At its term a row is not due.
LEMMA DatelessIsNotDue ==
    ASSUME NEW sub \in Row, NEW t \in Nat, sub.renewsAt = NoTime, sub.nextRetryAt = NoTime,
           sub.status # "trial" \/ sub.trialEndsAt = NoTime
    PROVE  ~IsDue(sub, t)
BY DEF IsDue, NoTime

\* What is due may be billed: its order is completed and it is short of the term.
LEMMA DueIsBeforeTerm ==
    ASSUME TermInv, IsDue(row, now)
    PROVE  order # "pending" /\ (Cycles # 0 => row.cycles < Cycles)
<1>1. row \in Row /\ row.cycles \in Nat /\ Cycles \in Nat /\ now \in Nat
  BY PlanAssumption, BoundAssumption DEF PlanAssumption, BoundAssumption, TermInv, Inv, TypeOK, Row
<1>2. order # "pending"
  BY <1>1, DatelessIsNotDue DEF TermInv, UndatedBeforeOrder
<1>3. Cycles # 0 => ~(row.cycles >= Cycles)
  BY <1>1, DatelessIsNotDue DEF TermInv, DatelessAtTerm
<1> QED BY <1>1, <1>2, <1>3

\* A step of a completed order that leaves the row and asks for no run but of the
\* row, when it is due, keeps the invariant; so does the loss of requests before that.
LEMMA TermQuietStep ==
    ASSUME TermInv, Inv', UNCHANGED <<row, order>>,
           \A sub \in requests' : sub \in requests \/ (sub = row /\ IsDue(row, now)),
           \A r \in Runners : Busy(r)' =>
              (Busy(r) /\ snap'[r] = snap[r]) \/ snap'[r] \in requests
    PROVE  TermInv'
<1>1. UndatedBeforeOrder'
  BY DueIsBeforeTerm DEF TermInv, UndatedBeforeOrder
<1>2. Cycles # 0 => DatelessAtTerm'
  BY DEF TermInv, DatelessAtTerm
<1>3. Cycles # 0 => RunsBeforeTerm'
  BY DueIsBeforeTerm DEF TermInv, RunsBeforeTerm
<1> QED BY <1>1, <1>2, <1>3 DEF TermInv

\* A runner's step that leaves the row.
LEMMA TermRunStep ==
    ASSUME TermInv, Inv', NEW r \in Runners, Busy(r), UNCHANGED <<row, order, requests>>,
           Ends(r) \/ (snap' = snap /\ \A q \in Runners : q # r => pc'[q] = pc[q])
    PROVE  TermInv'
<1>1. TypeOK
  BY DEF TermInv, Inv
<1>2. \A q \in Runners : Busy(q)' => Busy(q) /\ snap'[q] = snap[q]
  BY <1>1 DEF Ends, Busy, TypeOK
<1> QED BY <1>2, TermQuietStep

\* A charge leaves the row; the handlers move a row that is short of its term.
LEMMA RunKeepsTerm ==
    ASSUME TermInv, Inv', NEW r \in Runners, ChargeNext(r) \/ HandlerNext(r) PROVE TermInv'
<1> USE DEF task, books
<1>1. TypeOK /\ row.cycles \in Nat /\ snap[r] \in Row /\ snap[r].cycles \in Nat /\ Cycles \in Nat
  BY PlanAssumption DEF PlanAssumption, TermInv, Inv, TypeOK, Row
<1>2. Busy(r) /\ UNCHANGED <<order, requests>>
  BY DEF ChargeNext, ChargeBuildsInvoice, ChargeOpensInvoice, GatewayCaptures, GatewayQueues, GatewayDeclines, GatewayRefuses,
         GatewayReplyLost, GatewayErrors, ChargeInterrupted, GatewayDefers,
         HandlerNext, WaitTimesOut, HandleResult, ReadInvoiceInTx, CommitSuccess, CommitFailure,
         HandlerFails, Replay, Finish, Busy
<1>3. Ends(r) \/ (snap' = snap /\ \A q \in Runners : q # r => pc'[q] = pc[q])
  BY <1>1 DEF ChargeNext, ChargeBuildsInvoice, ChargeOpensInvoice, GatewayCaptures, GatewayQueues, GatewayDeclines, GatewayRefuses,
         GatewayReplyLost, GatewayErrors, ChargeInterrupted, GatewayDefers,
         HandlerNext, WaitTimesOut, HandleResult, ReadInvoiceInTx, CommitSuccess, CommitFailure,
         HandlerFails, Replay, Finish, To, Answered, TypeOK
<1>4. CASE UNCHANGED row
  BY <1>2, <1>3, <1>4, TermRunStep
<1>5. CASE CommitSuccess(r) \/ CommitFailure(r)
  <2>1. UNCHANGED snap /\ \A q \in Runners : q # r => pc'[q] = pc[q]
    BY <1>1, <1>5 DEF CommitSuccess, CommitFailure, To, TypeOK
  <2>2. snap[r].cycles = row.cycles /\ (Cycles # 0 => row.cycles < Cycles) /\ order # "pending"
    BY <1>2, <1>5
       DEF CommitSuccess, CommitFailure, TermInv, Inv, GuardPassed, RunsBeforeTerm, UndatedBeforeOrder
  <2>3. UndatedBeforeOrder'
    BY <1>2, <2>2 DEF UndatedBeforeOrder
  <2>4. Cycles # 0 => RunsBeforeTerm'
    BY <1>2, <2>1 DEF TermInv, RunsBeforeTerm, Busy
  <2>5. Cycles # 0 => DatelessAtTerm' /\ row'.cycles <= Cycles
    <3>1. CASE CommitSuccess(r)
      <4>1. row' = Advanced(snap[r]) /\ row'.cycles = row.cycles + 1
        BY <1>1, <2>2, <3>1, AdvancedType DEF CommitSuccess
      <4> QED BY <1>1, <2>2, <4>1, AdvancedDates DEF DatelessAtTerm
    <3>2. CASE CommitFailure(r)
      <4>1. row'.cycles = row.cycles
        BY <1>1, <2>2, <3>2, FailedType DEF CommitFailure
      <4> QED BY <1>1, <2>2, <4>1 DEF DatelessAtTerm
    <3> QED BY <1>5, <3>1, <3>2
  <2> QED BY <2>3, <2>4, <2>5 DEF TermInv
<1>6. UNCHANGED row \/ CommitSuccess(r) \/ CommitFailure(r)
  BY DEF ChargeNext, ChargeBuildsInvoice, ChargeOpensInvoice, GatewayCaptures, GatewayQueues, GatewayDeclines, GatewayRefuses,
         GatewayReplyLost, GatewayErrors, ChargeInterrupted, GatewayDefers,
         HandlerNext, WaitTimesOut, HandleResult, ReadInvoiceInTx, HandlerFails, Replay, Finish
<1> QED BY <1>4, <1>5, <1>6

\* The sweep takes only what is due, and what is due is short of its term.
LEMMA EngineKeepsTerm ==
    ASSUME TermInv, Inv', WriteOffNext \/ EngineNext \/ PspNext \/ Tick PROVE TermInv'
<1> USE DEF task, books
<1>1. TypeOK
  BY DEF TermInv, Inv
<1>2. UNCHANGED <<row, order>>
  BY DEF WriteOffNext, EngineNext, PspNext, Tick, FindOutstandingInvoice, WriteOffInvoice, SweepFindsDue,
         StartRun, CollapseRequest, LoseRequest, PendingDecided, Capture, DeliverWebhook
<1>3. CASE WriteOffNext \/ PspNext \/ Tick
  <2>1. UNCHANGED <<snap, requests>> /\ \A r \in Runners : Busy(r)' <=> Busy(r)
    BY <1>3 DEF WriteOffNext, PspNext, Tick, FindOutstandingInvoice, WriteOffInvoice, PendingDecided,
                DeliverWebhook, Busy
  <2> QED BY <1>2, <2>1, TermQuietStep
<1>4. CASE SweepFindsDue
  BY <1>2, <1>4, TermQuietStep DEF SweepFindsDue, Busy
<1>5. ASSUME NEW sub \in requests, CollapseRequest(sub) \/ LoseRequest(sub) PROVE TermInv'
  BY <1>2, <1>5, TermQuietStep DEF CollapseRequest, LoseRequest, Busy
<1>6. ASSUME NEW sub \in requests, NEW r \in Runners, StartRun(r, sub) PROVE TermInv'
  <2>1. \A q \in Runners : Busy(q)' => (Busy(q) /\ snap'[q] = snap[q]) \/ snap'[q] \in requests
    BY <1>1, <1>6 DEF StartRun, Busy, TypeOK
  <2> QED BY <1>2, <1>6, <2>1, TermQuietStep DEF StartRun
<1> QED BY <1>3, <1>4, <1>5, <1>6 DEF EngineNext

\* Without resumptions the calls change no date.
LEMMA ApiKeepsTerm == ASSUME TermIsKept, TermInv, Inv', ApiNext PROVE TermInv'
<1>1. TypeOK /\ NoEdit /\ row \in Row /\ row' \in Row /\ now \in Nat
  BY BoundAssumption DEF BoundAssumption, TermInv, Inv, TypeOK
<1>2. /\ row'.cycles = row.cycles /\ row'.nextRetryAt = row.nextRetryAt
      /\ row'.trialEndsAt = row.trialEndsAt /\ row'.renewsAt = row.renewsAt
      /\ row'.status # "trial"
      /\ UNCHANGED <<now, order, pc, snap>>
      /\ requests' = requests \/ StartSubscriptionWorkflow(row')
  BY <1>1, ApiLeavesAttempt DEF TermIsKept, task
<1>3. \A sub \in requests' : sub \in requests \/ (sub = row' /\ IsDue(row', now))
  BY <1>2 DEF StartSubscriptionWorkflow
<1>4. Cycles # 0 => DatelessAtTerm'
  BY <1>2 DEF TermInv, DatelessAtTerm
<1>5. UndatedBeforeOrder'
  BY <1>1, <1>2, <1>3, DatelessIsNotDue DEF TermInv, UndatedBeforeOrder, Busy
<1>6. Cycles # 0 => RunsBeforeTerm'
  <2> SUFFICES ASSUME Cycles # 0 PROVE RunsBeforeTerm'
    OBVIOUS
  <2>1. row'.cycles \in Nat /\ Cycles \in Nat
    BY <1>1, PlanAssumption DEF PlanAssumption, Row
  <2>2. IsDue(row', now) => row'.cycles < Cycles
    BY <1>1, <1>4, <2>1, DatelessIsNotDue DEF DatelessAtTerm
  <2> QED BY <1>2, <1>3, <2>2 DEF TermInv, RunsBeforeTerm, Busy
<1> QED BY <1>2, <1>4, <1>5, <1>6 DEF TermInv

\* An order is completed before anything is billed: it counts one cycle at most, of a
\* plan of more than one.
LEMMA OrderKeepsTerm == ASSUME TermIsKept, TermInv, Inv', OrderNext PROVE TermInv'
<1>1. TypeOK /\ row \in Row /\ row' \in Row /\ Cycles \in Nat
  BY PlanAssumption DEF PlanAssumption, TermInv, Inv, TypeOK
<1>2. PICK paid \in BOOLEAN :
              /\ Complete(row', paid)
              /\ paid => Orders \cap {"paid", "checkout_paid"} # {}
              /\ row'.renewsAt # NoTime /\ row'.retries = row.retries
              /\ ~paid => row'.cycles = row.cycles
              /\ paid /\ row.cycles = 0 => row'.cycles = 1
  BY <1>1, OrderDates
<1>3. /\ UNCHANGED <<pc, snap>> /\ order = "pending" /\ order' = "completed"
      /\ \A sub \in requests' : sub \in requests \/ sub = row'
  BY <1>2 DEF Complete, StartSubscriptionWorkflow, task
<1>4. row.cycles = 0 /\ requests = {} /\ \A r \in Runners : ~Busy(r)
  BY <1>3 DEF TermInv, UndatedBeforeOrder
<1>5. Cycles # 0 => row'.cycles < Cycles
  <2>1. CASE paid
    BY <1>1, <1>2, <1>4, <2>1 DEF TermIsKept
  <2>2. CASE ~paid
    BY <1>1, <1>2, <1>4, <2>2
  <2> QED BY <2>1, <2>2
<1>6. row'.cycles \in Nat
  BY <1>1 DEF Row
<1> QED BY <1>1, <1>3, <1>4, <1>5, <1>6 DEF TermInv, UndatedBeforeOrder, DatelessAtTerm, RunsBeforeTerm, Busy

\* A plan sold for a number of cycles is never advanced beyond it, in any order of
\* activations, pauses, cancellations, failures, retries and overlapping runs.
THEOREM TermIsRespected == ASSUME TermIsKept PROVE Spec => []TermRespected
<1>1. Init => TermInv
  <2> SUFFICES ASSUME Init PROVE TermInv
    OBVIOUS
  <2>1. Cycles \in Nat
    BY PlanAssumption DEF PlanAssumption
  <2> QED BY <2>1, InitInv
          DEF Init, TermInv, UndatedBeforeOrder, DatelessAtTerm, RunsBeforeTerm, NoRow, Busy
<1>2. TermInv /\ [Next]_vars => TermInv'
  <2> SUFFICES ASSUME TermInv, [Next]_vars PROVE TermInv'
    OBVIOUS
  <2>1. Inv'
    BY NextKeepsInv DEF TermInv, TermIsKept
  <2>2. CASE OrderNext
    BY <2>1, <2>2, OrderKeepsTerm
  <2>3. CASE ApiNext
    BY <2>1, <2>3, ApiKeepsTerm
  <2>4. CASE WriteOffNext \/ EngineNext \/ PspNext \/ Tick
    BY <2>1, <2>4, EngineKeepsTerm
  <2>5. ASSUME NEW r \in Runners, ChargeNext(r) \/ HandlerNext(r) PROVE TermInv'
    BY <2>1, <2>5, RunKeepsTerm
  <2>6. CASE UNCHANGED vars
    BY <2>1, <2>6, TermQuietStep DEF vars, task, Busy
  <2> QED BY <2>2, <2>3, <2>4, <2>5, <2>6 DEF Next
<1>3. TermInv => TermRespected
  BY DEF TermInv, TermRespected
<1> QED BY <1>1, <1>2, <1>3, PTL DEF Spec

----------------------------------------------------------------------------
(* Settlements under unlocked edits.                                       *)

\* One slot for the subscription's runs, and an order that takes no payment: MarkOpen
\* then opens no invoice that another run or the order has closed meanwhile.
RunsDoNotOverlap ==
    /\ \A r, q \in Runners : r = q
    /\ Orders \cap {"paid", "checkout_paid"} = {}

\* A step that settles nothing, opens no closed invoice, and brings a run to the place
\* where it opens an invoice or commits only if it has seen the invoice open.
LEMMA SettlementQuietStep ==
    ASSUME SettlementInv, TypeOK', UNCHANGED settled,
           \A c \in Cycle : invoices[c] \in Closed => invoices'[c] \in Closed,
           \A r \in Runners, c \in Cycle :
              pc'[r] = "open" /\ target'[r] = c =>
                 (pc[r] = "open" /\ target[r] = c) \/ invoices[c] \notin Closed,
           \A r \in Runners, c \in Cycle :
              pc'[r] = "commit" /\ result'[r] = "succeeded" /\ snap'[r].cycles = c =>
                 \/ pc[r] = "commit" /\ result[r] = "succeeded" /\ snap[r].cycles = c
                 \/ invoices[c] \notin Closed
    PROVE  SettlementInv'
<1>1. SettledIsClosed'
  BY DEF SettlementInv, SettledIsClosed
<1>2. RunSawItOpen'
  BY DEF SettlementInv, SettledIsClosed, RunSawItOpen
<1>3. OneSettlementPerCycle'
  BY DEF SettlementInv, OneSettlementPerCycle
<1> QED BY <1>1, <1>2, <1>3 DEF SettlementInv

\* Finding or building a cycle's invoice closes and opens none.
LEMMA BuiltKeepsClosed ==
    ASSUME TypeOK, NEW d
    PROVE  /\ \A c \in Cycle : invoices[c] \in Closed => Built(d)[c] = invoices[c]
           /\ \A c \in Cycle : Built(d)[c] \in Closed => invoices[c] \in Closed
BY DEF TypeOK, Built, Closed

\* The charge task sees the invoice open before it opens it.
LEMMA ChargeKeepsSettlement ==
    ASSUME RunsDoNotOverlap, SettlementInv, TypeOK', NEW r \in Runners, ChargeNext(r)
    PROVE  SettlementInv'
<1> USE DEF task, books
<1>1. TypeOK /\ UNCHANGED settled
  BY DEF SettlementInv, ChargeNext, ChargeBuildsInvoice, ChargeOpensInvoice, GatewayCaptures, GatewayQueues, GatewayDeclines, GatewayRefuses,
         GatewayReplyLost, GatewayErrors, ChargeInterrupted, GatewayDefers, Capture
<1>2. CASE ChargeBuildsInvoice(r)
  <2>1. row.cycles \in Cycle
    BY <1>1, <1>2 DEF ChargeBuildsInvoice, TypeOK, Row, Cycle
  <2>2. invoices' = Built(row.cycles)
    BY <1>2 DEF ChargeBuildsInvoice
  <2>3. \A c \in Cycle : invoices[c] \in Closed => invoices'[c] \in Closed
    BY <1>1, <2>2, BuiltKeepsClosed
  <2>4. \A q \in Runners : pc'[q] # "commit" \/ (pc[q] = "commit" /\ UNCHANGED <<result[q], snap[q]>>)
    BY <1>1, <1>2 DEF ChargeBuildsInvoice, To, Ends, TypeOK
  <2>5. CASE Outstandable(Built(row.cycles)[row.cycles])
    <3>1. invoices[row.cycles] \notin Closed
      BY <1>1, <2>1, <2>5, BuiltKeepsClosed DEF Outstandable, Closed
    <3>2. target' = [target EXCEPT ![r] = row.cycles] /\ pc' = [pc EXCEPT ![r] = "open"]
      BY <1>2, <2>5 DEF ChargeBuildsInvoice
    <3> QED BY <1>1, <2>3, <2>4, <3>1, <3>2, SettlementQuietStep DEF TypeOK
  <2>6. CASE ~Outstandable(Built(row.cycles)[row.cycles])
    <3>1. \A q \in Runners : pc'[q] # "open" \/ (pc[q] = "open" /\ UNCHANGED target[q])
      BY <1>1, <1>2, <2>6 DEF ChargeBuildsInvoice, To, Ends, TypeOK
    <3> QED BY <1>1, <2>3, <2>4, <3>1, SettlementQuietStep
  <2> QED BY <2>5, <2>6
<1>3. CASE ChargeOpensInvoice(r)
  <2>1. pc[r] = "open" /\ target[r] \in Cycle /\ settled[target[r]] = 0
    BY <1>1, <1>3 DEF ChargeOpensInvoice, SettlementInv, RunSawItOpen, TypeOK
  <2>2. invoices' = [invoices EXCEPT ![target[r]] = "open"] /\ pc' = [pc EXCEPT ![r] = "gateway"]
        /\ UNCHANGED <<snap, target, result>>
    BY <1>3 DEF ChargeOpensInvoice, To
  <2>3. SettledIsClosed'
    BY <1>1, <2>1, <2>2 DEF SettlementInv, SettledIsClosed, TypeOK
  <2>4. RunSawItOpen'
    BY <1>1, <2>2 DEF SettlementInv, RunSawItOpen, TypeOK
  <2>5. OneSettlementPerCycle'
    BY <1>1 DEF SettlementInv, OneSettlementPerCycle
  <2> QED BY <2>3, <2>4, <2>5 DEF SettlementInv
<1>4. CASE ~ChargeBuildsInvoice(r) /\ ~ChargeOpensInvoice(r)
  <2>1. UNCHANGED invoices
    BY <1>4 DEF ChargeNext, GatewayCaptures, GatewayQueues, GatewayDeclines, GatewayRefuses, GatewayReplyLost, GatewayErrors,
                ChargeInterrupted, GatewayDefers
  <2>2. \A q \in Runners : pc'[q] \notin {"open", "commit"} \/ UNCHANGED <<pc[q], target[q], result[q], snap[q]>>
    BY <1>1, <1>4 DEF ChargeNext, GatewayCaptures, GatewayQueues, GatewayDeclines, GatewayRefuses, GatewayReplyLost, GatewayErrors,
                ChargeInterrupted, GatewayDefers, To, Answered, Ends, TypeOK
  <2> QED BY <1>1, <2>1, <2>2, SettlementQuietStep
<1> QED BY <1>2, <1>3, <1>4

\* The transaction reads the invoice before it settles the cycle.
LEMMA HandlerKeepsSettlement ==
    ASSUME RunsDoNotOverlap, SettlementInv, TypeOK', NEW r \in Runners, HandlerNext(r)
    PROVE  SettlementInv'
<1> USE DEF task, books
<1>1. TypeOK
  BY DEF SettlementInv
<1>2. CASE HandleResult(r)
  <2>1. UNCHANGED settled /\ (UNCHANGED invoices \/ invoices' = Built(snap[r].cycles))
    BY <1>2 DEF HandleResult
  <2>2. \A c \in Cycle : invoices[c] \in Closed => invoices'[c] \in Closed
    BY <1>1, <2>1, BuiltKeepsClosed
  <2>3. \A q \in Runners : pc'[q] \notin {"open", "commit"} \/ UNCHANGED <<pc[q], target[q], result[q], snap[q]>>
    BY <1>1, <1>2 DEF HandleResult, To, TypeOK
  <2> QED BY <2>1, <2>2, <2>3, SettlementQuietStep
<1>3. CASE ReadInvoiceInTx(r)
  <2>1. UNCHANGED <<invoices, settled>>
    BY <1>3 DEF ReadInvoiceInTx
  <2>2. \A q \in Runners : pc'[q] # "open" \/ (pc[q] = "open" /\ UNCHANGED target[q])
    BY <1>1, <1>3 DEF ReadInvoiceInTx, To, Ends, TypeOK
  <2>3. \A q \in Runners, c \in Cycle :
           pc'[q] = "commit" /\ result'[q] = "succeeded" /\ snap'[q].cycles = c =>
              \/ pc[q] = "commit" /\ result[q] = "succeeded" /\ snap[q].cycles = c
              \/ invoices[c] \notin Closed
    BY <1>1, <1>3 DEF ReadInvoiceInTx, ClosesInvoice, Outstandable, Closed, To, Ends, TypeOK
  <2> QED BY <2>1, <2>2, <2>3, SettlementQuietStep
<1>4. CASE CommitSuccess(r)
  <2> DEFINE n == snap[r].cycles
  <2>1. /\ pc[r] = "commit" /\ result[r] = "succeeded" /\ pc' = [pc EXCEPT ![r] = "done"]
        /\ settled' = [settled EXCEPT ![n] = CountUp(@)]
        /\ invoices' = [invoices EXCEPT ![n] = "paid"]
    BY <1>4 DEF CommitSuccess, To
  <2>2. n \in Cycle => settled[n] = 0
    BY <2>1 DEF SettlementInv, RunSawItOpen
  <2>3. \A c \in Cycle : settled'[c] = IF c = n THEN 1 ELSE settled[c]
    BY <1>1, <2>1, <2>2 DEF TypeOK, CountUp, Many
  <2>4. \A c \in Cycle : invoices'[c] = IF c = n THEN "paid" ELSE invoices[c]
    BY <1>1, <2>1 DEF TypeOK
  <2> HIDE DEF n
  <2>5. SettledIsClosed'
    BY <2>3, <2>4 DEF SettlementInv, SettledIsClosed, Closed
  <2>6. RunSawItOpen'
    BY <1>1, <2>1 DEF RunsDoNotOverlap, RunSawItOpen, TypeOK
  <2>7. OneSettlementPerCycle'
    BY <2>3 DEF SettlementInv, OneSettlementPerCycle
  <2> QED BY <2>5, <2>6, <2>7 DEF SettlementInv
<1>5. CASE CommitFailure(r)
  <2>1. \A c \in Cycle : invoices[c] \in Closed => invoices'[c] \in Closed
    BY <1>1, <1>5 DEF CommitFailure, TypeOK, Closed
  <2>2. \A q \in Runners : pc'[q] \notin {"open", "commit"} \/ UNCHANGED <<pc[q], target[q], result[q], snap[q]>>
    BY <1>1, <1>5 DEF CommitFailure, To, TypeOK
  <2> QED BY <1>5, <2>1, <2>2, SettlementQuietStep DEF CommitFailure
<1>6. CASE WaitTimesOut(r) \/ HandlerFails(r) \/ Replay(r) \/ Finish(r)
  <2>1. UNCHANGED <<invoices, settled>>
    BY <1>6 DEF WaitTimesOut, HandlerFails, Replay, Finish
  <2>2. \A q \in Runners : pc'[q] \notin {"open", "commit"} \/ UNCHANGED <<pc[q], target[q], result[q], snap[q]>>
    BY <1>1, <1>6 DEF WaitTimesOut, HandlerFails, Replay, Finish, To, Ends, TypeOK
  <2> QED BY <2>1, <2>2, SettlementQuietStep
<1> QED BY <1>2, <1>3, <1>4, <1>5, <1>6 DEF HandlerNext

\* Clients, write-offs, the sweep, the engine and the clock settle nothing and open no
\* closed invoice, whatever they do to the row.
LEMMA OthersKeepSettlement ==
    ASSUME RunsDoNotOverlap, SettlementInv, TypeOK',
           OrderNext \/ ApiNext \/ WriteOffNext \/ EngineNext \/ PspNext \/ Tick
    PROVE  SettlementInv'
<1> USE DEF task, books
<1>1. TypeOK
  BY DEF SettlementInv
<1>2. CASE OrderNext
  <2>1. PICK activated : Complete(activated, FALSE)
    BY <1>2 DEF OrderNext, CompleteCheckoutSession, CompleteOrder, RunsDoNotOverlap
  <2>2. UNCHANGED <<settled, pc, target, result, snap>> /\ invoices' = Built(0)
    BY <2>1 DEF Complete
  <2> QED BY <1>1, <2>2, BuiltKeepsClosed, SettlementQuietStep
<1>3. CASE WriteOffInvoice
  <2>1. writeOff.to \in {"void", "uncollectible"}
    BY <1>1, EnvironmentAssumption DEF EnvironmentAssumption, TypeOK
  <2>2. UNCHANGED <<settled, pc, target, result, snap>>
        /\ invoices' = [invoices EXCEPT ![writeOff.cycle] = writeOff.to]
    BY <1>3 DEF WriteOffInvoice
  <2>3. \A c \in Cycle : invoices[c] \in Closed => invoices'[c] \in Closed
    BY <1>1, <2>1, <2>2 DEF TypeOK, Closed
  <2> QED BY <2>2, <2>3, SettlementQuietStep
<1>4. ASSUME NEW sub \in requests, NEW r \in Runners, StartRun(r, sub) PROVE SettlementInv'
  <2>1. \A q \in Runners : pc'[q] \notin {"open", "commit"} \/ UNCHANGED <<pc[q], target[q], result[q], snap[q]>>
    BY <1>1, <1>4 DEF StartRun, TypeOK
  <2> QED BY <1>4, <2>1, SettlementQuietStep DEF StartRun
<1>5. CASE DeliverWebhook
  <2>1. \A q \in Runners : pc'[q] \notin {"open", "commit"} \/ UNCHANGED <<pc[q], target[q], result[q], snap[q]>>
    BY <1>1, <1>5 DEF DeliverWebhook, TypeOK
  <2> QED BY <1>5, <2>1, SettlementQuietStep DEF DeliverWebhook
<1>6. CASE UNCHANGED <<invoices, settled, pc, target, result, snap>>
  BY <1>6, SettlementQuietStep
<1>7. CASE ApiNext \/ FindOutstandingInvoice \/ SweepFindsDue \/ Tick
  BY <1>6, <1>7 DEF ApiNext, Activate, PauseSubscription, ResumeSubscription, CancelSubscription,
                    ReadForEdit, UpdateSubscription, UpdateBillingAnchor, FindOutstandingInvoice,
                    SweepFindsDue, Tick
<1>8. ASSUME NEW sub \in requests, CollapseRequest(sub) \/ LoseRequest(sub) PROVE SettlementInv'
  BY <1>6, <1>8 DEF CollapseRequest, LoseRequest
<1>9. ASSUME NEW c \in Cycle, NEW succeeds \in BOOLEAN, PendingDecided(c, succeeds) PROVE SettlementInv'
  BY <1>6, <1>9 DEF PendingDecided, Capture
<1> QED BY <1>2, <1>3, <1>4, <1>5, <1>7, <1>8, <1>9 DEF WriteOffNext, EngineNext, PspNext

LEMMA SettledOnceWithoutOverlap ==
    ASSUME RunsDoNotOverlap PROVE Spec => []OneSettlementPerCycle
<1>1. Init => SettlementInv
  <2> SUFFICES ASSUME Init PROVE SettlementInv
    OBVIOUS
  <2>1. \A c \in Cycle : settled[c] = 0
    BY DEF Init
  <2> QED BY <2>1, InitTypes DEF SettlementInv, SettledIsClosed, RunSawItOpen, OneSettlementPerCycle
<1>2. SettlementInv /\ [Next]_vars => SettlementInv'
  <2> SUFFICES ASSUME SettlementInv, [Next]_vars PROVE SettlementInv'
    OBVIOUS
  <2>1. TypeOK'
    BY NextKeepsTypes DEF SettlementInv
  <2>2. CASE OrderNext \/ ApiNext \/ WriteOffNext \/ EngineNext \/ PspNext \/ Tick
    BY <2>1, <2>2, OthersKeepSettlement
  <2>3. ASSUME NEW r \in Runners, ChargeNext(r) PROVE SettlementInv'
    BY <2>1, <2>3, ChargeKeepsSettlement
  <2>4. ASSUME NEW r \in Runners, HandlerNext(r) PROVE SettlementInv'
    BY <2>1, <2>4, HandlerKeepsSettlement
  <2>5. CASE UNCHANGED vars
    BY <2>1, <2>5, SettlementQuietStep DEF vars, task, books
  <2> QED BY <2>2, <2>3, <2>4, <2>5 DEF Next
<1>3. SettlementInv => OneSettlementPerCycle
  BY DEF SettlementInv
<1> QED BY <1>1, <1>2, <1>3, PTL DEF Spec

\* No cycle is settled twice.  The endpoints that lock the row leave this to the two
\* handlers' guards, with any number of overlapping runs, replays and stale snapshots;
\* the unlocked edits may roll the row back to any earlier state, dates, status and
\* counters, and what they can not undo is the invoice.  (What is excluded is an
\* unlocked edit together with overlapping runs: MarkOpen then opens a paid invoice.)
THEOREM SettledOncePerCycle ==
    ASSUME LockedCallsOnly \/ RunsDoNotOverlap PROVE Spec => []OneSettlementPerCycle
<1>1. CASE LockedCallsOnly
  <2>1. LedgerIsDense => OneSettlementPerCycle
    BY DEF LedgerIsDense, OneSettlementPerCycle
  <2>2. Spec => []LedgerIsDense
    BY <1>1, LedgerStaysDense
  <2> QED BY <2>1, <2>2, PTL
<1>2. CASE RunsDoNotOverlap
  BY <1>2, SettledOnceWithoutOverlap
<1> QED BY <1>1, <1>2

===============================================================================
