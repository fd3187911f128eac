--------------------------- MODULE Dunning_proofs ---------------------------
(***************************************************************************)
(* Proofs about Dunning, for any campaigns, policies, clients and faults,  *)
(* whether the engine is told the campaign or not.                         *)
(***************************************************************************)
EXTENDS Dunning, TLAPS

----------------------------------------------------------------------------
(* Types.                                                                  *)

Statuses == {"none", "active", "paused"} \cup Terminal
Calls == [op : {"none", "manual"} \cup Guarded, about : Campaigns \cup {"nothing"}]

LEMMA Bounds ==
    /\ Retries \in Nat /\ MaxCalls \in Nat /\ MaxFaults \in Nat
    /\ Campaigns \cap Callers = {}
BY EnvironmentAssumption, Zenon DEF EnvironmentAssumption

\* Runners are at places of runners and callers at places of callers.
PcOK ==
    /\ pc \in [Procs -> RunnerPcs \cup CallerPcs]
    /\ \A c \in Campaigns : pc[c] \in RunnerPcs
    /\ \A k \in Callers : pc[k] \in CallerPcs

RunnersOK == step \in [Campaigns -> Nat \ {0}] /\ tries \in [Campaigns -> 0 .. Retries]
CopiesOK == copy \in [Procs -> Statuses] /\ result \in [Procs -> {"none", "succeeded", "failed", "pending"}]
ClientsOK == call \in [Callers -> Calls] /\ calls \in 0 .. MaxCalls
StatusOK == status \in [Campaigns -> Statuses]
Subscriptions == {"past_due", "unpaid", "active", "cancelled", "completed"}
Invoices == {"absent"} \cup Outstanding \cup Closed
RowsOK == sub \in Subscriptions /\ invoice \in [Cycles -> Invoices]
CyclesOK == /\ cycle \in Cycles /\ seen \in [Campaigns -> Cycles]
            /\ billing \in [at : {"idle", "open", "charged"}, cycle : Cycles]
StartersOK == starter \in [Campaigns -> {"none", "created", "started", "done"}]
HistoryOK == /\ faults \in 0 .. MaxFaults /\ accepted \subseteq Campaigns /\ lost \subseteq Campaigns
             /\ unwritten \in BOOLEAN
GhostsOK == suspender \subseteq Campaigns /\ slipped \subseteq Cycles

LEMMA TypeParts ==
    TypeOK <=> /\ PcOK /\ RunnersOK /\ CopiesOK /\ ClientsOK /\ StatusOK /\ RowsOK /\ CyclesOK
               /\ StartersOK /\ HistoryOK /\ GhostsOK
BY DEF TypeOK, PcOK, RunnersOK, CopiesOK, ClientsOK, StatusOK, RowsOK, CyclesOK, StartersOK, HistoryOK,
       GhostsOK, Statuses, Subscriptions, Invoices, Calls

\* A runner moves, and everybody else stays.
LEMMA RunnerMoves ==
    ASSUME PcOK, NEW c \in Campaigns, NEW l \in RunnerPcs, Goto(c, l)
    PROVE  PcOK' /\ pc'[c] = l /\ \A p \in Procs \ {c} : pc'[p] = pc[p]
<1>1. c \in Procs /\ c \notin Callers
    BY Bounds DEF Procs
<1> QED BY <1>1 DEF PcOK, Goto, Procs

\* A call moves on, and everybody else stays.
LEMMA CallerMoves ==
    ASSUME PcOK, NEW k \in Callers, NEW l \in CallerPcs, Goto(k, l)
    PROVE  PcOK' /\ pc'[k] = l /\ \A p \in Procs \ {k} : pc'[p] = pc[p]
<1>1. k \in Procs /\ k \notin Campaigns
    BY Bounds DEF Procs
<1> QED BY <1>1 DEF PcOK, Goto, Procs

\* The merchant and the billing sweep leave the campaigns, their runners and the calls alone.
LEMMA OthersAlone ==
    ASSUME MerchantCancels \/ BillingNext
    PROVE  /\ UNCHANGED <<status, starter, pc, step, tries, seen, call, copy, result, faults>>
           /\ UNCHANGED <<accepted, lost, unwritten>>
BY DEF MerchantCancels, BillingNext, BillingCharges, BillingOpensInvoice, BillingSettles, BillingFails,
       BillingStops, BillingWrites, rows, runners, clients, history

\* A fault is counted.
LEMMA FaultTypes ==
    ASSUME HistoryOK, NEW kind, Fault(kind)
    PROVE  faults' \in 0 .. MaxFaults
BY Bounds DEF HistoryOK, Fault

\* The runner goes on, or ends.
LEMMA AnswerMoves ==
    ASSUME PcOK, RunnersOK, NEW c \in Campaigns, NEW read, TaskAnswers(c, read)
    PROVE  /\ RunnersOK'
           /\ \E l \in {"wait", "exhaust", "found closed"} : Goto(c, l)
<1>1. After(c, step[c]) \in {"wait", "exhaust"}
    BY DEF After
<1>2. /\ step' = [step EXCEPT ![c] = @ + 1] \/ step' = step
      /\ tries' = [tries EXCEPT ![c] = 0]
    BY DEF TaskAnswers, NextRetry
<1>3. RunnersOK'
    <2>1. step' \in [Campaigns -> Nat \ {0}]
        BY <1>2 DEF RunnersOK
    <2>2. tries' \in [Campaigns -> 0 .. Retries]
        BY <1>2, Bounds DEF RunnersOK
    <2> QED BY <2>1, <2>2 DEF RunnersOK
<1>4. \E l \in {"wait", "exhaust", "found closed"} : Goto(c, l)
    BY <1>1 DEF TaskAnswers, NextRetry
<1> QED BY <1>3, <1>4

\* After the write-off the runner gives up, goes on, or ends.
LEMMA WrittenOffMoves ==
    ASSUME PcOK, RunnersOK, NEW c \in Campaigns, WrittenOff(c)
    PROVE  /\ RunnersOK'
           /\ \E l \in {"wait", "exhaust", "found closed", "fail"} : Goto(c, l)
<1>1. CASE GivesUp(c)
    BY <1>1 DEF WrittenOff, GoesOn, RunnersOK
<1>2. CASE ~GivesUp(c)
    BY <1>2, AnswerMoves DEF WrittenOff
<1> QED BY <1>1, <1>2

\* What follows a recorded attempt.
LEMMA AfterMoves ==
    ASSUME TypeOK, NEW p \in Procs, AfterAttempt(p), UNCHANGED step
    PROVE  /\ RunnersOK'
           /\ copy' = [copy EXCEPT ![p] = "none"]
           /\ UNCHANGED result \/ result' = [result EXCEPT ![p] = "none"]
           /\ \/ p \in Campaigns /\ Goto(p, "apply") /\ UNCHANGED call
              \/ p \in Callers /\ result[p] = "succeeded" /\ Goto(p, "recover") /\ UNCHANGED call
              \/ p \in Callers /\ Return(p)
<1>1. CASE p \in Campaigns
    <2>1. tries' \in [Campaigns -> 0 .. Retries]
        BY <1>1, TypeParts, Bounds DEF AfterAttempt, RunnersOK
    <2> QED BY <1>1, <2>1, TypeParts DEF AfterAttempt, RunnersOK
<1>2. CASE p \notin Campaigns
    BY <1>2, TypeParts DEF AfterAttempt, Return, Forget, RunnersOK, Procs
<1> QED BY <1>1, <1>2

\* Every call is about a campaign, and those that signal are those that may.
CallsAreReal ==
    \A k \in Callers :
        /\ pc[k] # "idle" => call[k].about \in Campaigns
        /\ pc[k] \in {"update", "signal"} => call[k].op \in Guarded

\* A signal ends the call, and may wake the runner of its campaign.
SignalMoves(k, c) ==
    /\ pc'[k] = "idle"
    /\ \/ pc'[c] = pc[c]
       \/ pc[c] \in {"wait", "parked"} /\ pc'[c] \in {"cancelled", "parked", "read"}
    /\ \A p \in Procs \ {k, c} : pc'[p] = pc[p]

LEMMA SignalPc ==
    ASSUME TypeOK, CallsAreReal, NEW k \in Callers, Signal(k)
    PROVE  PcOK' /\ SignalMoves(k, call[k].about)
<1> DEFINE c == call[k].about
<1> DEFINE new == IF Wakes(c, call[k].op) THEN WokenTo(call[k].op) ELSE pc[c]
<1>1. c \in Campaigns /\ k \in Procs /\ c \in Procs /\ k # c
    BY Bounds DEF CallsAreReal, Signal, Procs
<1>2. \/ new = pc[c]
      \/ pc[c] \in {"wait", "parked"} /\ new \in {"cancelled", "parked", "read"}
    <2>1. call[k].op \in Guarded
        BY DEF CallsAreReal, Signal
    <2>2. WokenTo(call[k].op) \in {"cancelled", "parked", "read"}
        BY <2>1 DEF WokenTo, Guarded
    <2> QED BY <2>2 DEF Wakes
<1>3. pc' = [[pc EXCEPT ![k] = "idle"] EXCEPT ![c] = new]
    <2>1. [pc EXCEPT ![k] = "idle"][c] = pc[c]
        BY <1>1, TypeParts DEF PcOK
    <2> QED BY <1>1, <2>1 DEF Signal
<1> HIDE DEF new
<1>4. PcOK
    BY TypeParts
<1>5. /\ pc'[k] = "idle" /\ pc'[c] = new
      /\ \A p \in Procs \ {k, c} : pc'[p] = pc[p]
      /\ DOMAIN pc' = Procs
    BY <1>1, <1>3, <1>4 DEF PcOK
<1>6. "idle" \in CallerPcs /\ new \in RunnerPcs
    BY <1>1, <1>2, <1>4 DEF PcOK, RunnerPcs, CallerPcs, AttemptTask, Ended
<1>7. PcOK'
    <2>1. \A d \in Campaigns : pc'[d] \in RunnerPcs
        BY <1>1, <1>4, <1>5, <1>6, Bounds DEF PcOK, Procs
    <2>2. \A j \in Callers : pc'[j] \in CallerPcs
        BY <1>1, <1>4, <1>5, <1>6, Bounds DEF PcOK, Procs
    <2>3. pc' = [p \in Procs |-> pc'[p]]
        BY <1>3, <1>4 DEF PcOK
    <2> QED BY <2>1, <2>2, <2>3 DEF PcOK, Procs
<1> QED BY <1>2, <1>5, <1>7 DEF SignalMoves

\* The places that processes move between are places of theirs.
LEMMA PcTypes ==
    ASSUME TypeOK, CallsAreReal, [Next]_vars
    PROVE  PcOK'
<1> USE TypeParts
<1>1. ASSUME NEW c \in Campaigns, NEW l \in RunnerPcs, Goto(c, l) PROVE PcOK'
    BY <1>1, RunnerMoves
<1>2. ASSUME NEW k \in Callers, NEW l \in CallerPcs, Goto(k, l) PROVE PcOK'
    BY <1>2, CallerMoves
<1>3. /\ RunnerPcs = {"idle", "wait", "parked", "exhaust", "read", "charge", "record", "apply", "look up",
                      "reactivate", "suspend", "cancel", "write off", "update invoice", "fail", "closed", "found closed",
                      "cancelled", "failed"}
      /\ CallerPcs = {"idle", "update", "signal", "recover", "read", "charge", "record"}
    BY DEF RunnerPcs, CallerPcs, AttemptTask, ResultTask, Ended
<1>4. ASSUME NEW p \in Procs, NEW l \in {"charge", "record"}, Goto(p, l) PROVE PcOK'
    <2>1. l \in RunnerPcs /\ l \in CallerPcs
        BY <1>3
    <2> QED BY <1>1, <1>2, <1>4, <2>1 DEF Procs
<1>5. ASSUME NEW p \in Procs, AfterAttempt(p), UNCHANGED step PROVE PcOK'
    BY <1>1, <1>2, <1>3, <1>5, AfterMoves DEF Return
<1>6. ASSUME NEW p \in Procs, AttemptNext(p) PROVE PcOK'
    BY <1>4, <1>5, <1>6 DEF AttemptNext, ReadForAttempt, ChargePayment, RecordAttempt
<1>7. ASSUME NEW p \in Procs, CountersUnwritten(p) PROVE PcOK'
    BY <1>5, <1>7 DEF CountersUnwritten
<1>8. ASSUME NEW c \in Campaigns, NEW read, TaskAnswers(c, read) PROVE PcOK'
    BY <1>1, <1>3, <1>8, AnswerMoves
<1>9. ASSUME NEW c \in Campaigns, WrittenOff(c) PROVE PcOK'
    BY <1>1, <1>3, <1>9, WrittenOffMoves
<1>10. ASSUME NEW c \in Campaigns, StarterNext(c) PROVE PcOK'
    <2>1. CASE StartDunningWorkflow(c)
        <3>1. After(c, 0) \in {"wait", "exhaust"}
            BY DEF After
        <3> QED BY <1>1, <1>3, <2>1, <3>1 DEF StartDunningWorkflow, StartRunner
    <2>2. CASE StoreHandle(c)
        BY <2>2 DEF StoreHandle, PcOK
    <2> QED BY <1>10, <2>1, <2>2 DEF StarterNext
<1>11. ASSUME NEW c \in Campaigns, RunnerNext(c) PROVE PcOK'
    <2>1. CASE IntervalElapses(c)
        BY <1>1, <1>3, <2>1 DEF IntervalElapses
    <2>2. CASE AttemptNext(c)
        BY <1>6, <2>2 DEF Procs
    <2>3. CASE ApplySuccess(c)
        BY <1>1, <1>3, <2>3 DEF ApplySuccess, Close
    <2>4. CASE LookUpSubscription(c)
        BY <1>1, <1>3, <2>4 DEF LookUpSubscription, Close
    <2>5. CASE Reactivate(c)
        BY <1>1, <1>3, <2>5 DEF Reactivate, Close
    <2>6. CASE ApplyFailure(c)
        BY <1>1, <1>3, <1>8, <2>6 DEF ApplyFailure, GoesOn
    <2>7. CASE Suspend(c)
        BY <1>1, <1>3, <2>7 DEF Suspend
    <2>8. CASE CancelSubscription(c)
        BY <1>1, <1>3, <2>8 DEF CancelSubscription, CancelAndGoTo
    <2>9. CASE FindCurrentCycle(c) \/ MarkUncollectible(c)
        BY <1>1, <1>3, <1>9, <2>9 DEF FindCurrentCycle, MarkUncollectible, GoesOn
    <2>10. CASE MarkCampaignFailed(c)
        BY <1>1, <1>3, <2>10 DEF MarkCampaignFailed, Close
    <2>11. CASE Exhausted(c)
        BY <1>1, <1>3, <2>11 DEF Exhausted
    <2> QED BY <1>11, <2>1, <2>2, <2>3, <2>4, <2>5, <2>6, <2>7, <2>8, <2>9, <2>10, <2>11 DEF RunnerNext
<1>12. ASSUME NEW c \in Campaigns, CampaignFault(c) PROVE PcOK'
    <2>1. CASE StarterFails(c)
        BY <2>1 DEF StarterFails, PcOK
    <2>2. CASE CountersUnwritten(c)
        BY <1>7, <2>2 DEF Procs
    <2>3. CASE LeftUnwritten(c)
        BY <1>1, <1>3, <1>8, <1>9, <2>3 DEF LeftUnwritten, Close, GoesOn
    <2>4. CASE TaskFails(c)
        BY <1>1, <1>3, <2>4 DEF TaskFails
    <2>5. CASE GivingUpFails(c)
        BY <1>1, <1>3, <2>5 DEF GivingUpFails
    <2> QED BY <1>12, <2>1, <2>2, <2>3, <2>4, <2>5 DEF CampaignFault
<1>13. ASSUME NEW k \in Callers, CallerNext(k) PROVE PcOK'
    <2>1. ASSUME NEW c \in Campaigns, TriggerManualAttempt(k, c) PROVE PcOK'
        BY <1>2, <1>3, <2>1 DEF TriggerManualAttempt, Begin
    <2>2. ASSUME NEW c \in Campaigns, NEW op \in Guarded, FindCampaign(k, op, c) PROVE PcOK'
        BY <1>2, <1>3, <2>2 DEF FindCampaign, Begin
    <2>3. CASE UpdateCampaign(k)
        BY <1>2, <1>3, <2>3 DEF UpdateCampaign
    <2>4. CASE Signal(k)
        BY SignalPc, <2>4
    <2>5. CASE AttemptNext(k)
        BY <1>6, <2>5 DEF Procs
    <2>6. CASE MarkManualRecovered(k)
        BY <1>2, <1>3, <2>6 DEF MarkManualRecovered, Return
    <2>7. CASE CallFails(k)
        BY <1>2, <1>3, <2>7 DEF CallFails, Return
    <2>8. CASE CountersUnwritten(k)
        BY <1>7, <2>8 DEF Procs
    <2> QED BY <1>13, <2>1, <2>2, <2>3, <2>4, <2>5, <2>6, <2>7, <2>8 DEF CallerNext
<1>14. CASE UNCHANGED pc
    BY <1>14 DEF PcOK
<1> QED BY <1>10, <1>11, <1>12, <1>13, <1>14, OthersAlone DEF Next, CreateCampaign, vars

\* The remaining variables, one at a time.
LEMMA RunnersTypes ==
    ASSUME TypeOK, [Next]_vars
    PROVE  RunnersOK'
<1> USE TypeParts
<1>1. ASSUME NEW p \in Procs, AfterAttempt(p), UNCHANGED step PROVE RunnersOK'
    BY <1>1, AfterMoves
<1>2. ASSUME NEW p \in Procs, AttemptNext(p) \/ CountersUnwritten(p) PROVE RunnersOK'
    BY <1>1, <1>2 DEF AttemptNext, ReadForAttempt, ChargePayment, RecordAttempt, CountersUnwritten,
                      GoesOn, runners, RunnersOK
<1>3. ASSUME NEW c \in Campaigns, (\E read : TaskAnswers(c, read)) \/ WrittenOff(c) PROVE RunnersOK'
    BY <1>3, AnswerMoves, WrittenOffMoves
<1>4. ASSUME NEW c \in Campaigns, TaskFails(c) PROVE RunnersOK'
    <2>1. tries' \in [Campaigns -> 0 .. Retries]
        BY <1>4, Bounds DEF TaskFails, RunnersOK
    <2> QED BY <1>4, <2>1 DEF TaskFails, RunnersOK
<1>5. ASSUME NEW c \in Campaigns, ApplyFailure(c) PROVE RunnersOK'
    BY <1>3, <1>5 DEF ApplyFailure, GoesOn, RunnersOK
<1>6. ASSUME NEW c \in Campaigns, FindCurrentCycle(c) \/ MarkUncollectible(c) PROVE RunnersOK'
    BY <1>3, <1>6 DEF FindCurrentCycle, MarkUncollectible, GoesOn, RunnersOK
<1>7. ASSUME NEW c \in Campaigns, LeftUnwritten(c) PROVE RunnersOK'
    BY <1>3, <1>7 DEF LeftUnwritten, GoesOn, RunnersOK
<1>8. CASE UNCHANGED <<step, tries>>
    BY <1>8 DEF RunnersOK
<1> QED BY <1>2, <1>4, <1>5, <1>6, <1>7, <1>8, OthersAlone
        DEF Next, CreateCampaign, StarterNext, StartDunningWorkflow, StoreHandle, RunnerNext,
            IntervalElapses, ApplySuccess, LookUpSubscription, Reactivate, Suspend, CancelSubscription,
            CancelAndGoTo, MarkCampaignFailed, Exhausted, CampaignFault, StarterFails, GivingUpFails,
            CallerNext, TriggerManualAttempt, FindCampaign, UpdateCampaign, Signal, MarkManualRecovered,
            CallFails, vars, runners, Procs

LEMMA StartersTypes ==
    ASSUME TypeOK, [Next]_vars
    PROVE  StartersOK'
<1> USE TypeParts
<1>1. ASSUME NEW c \in Campaigns, CreateCampaign(c) \/ StarterNext(c) \/ StarterFails(c) PROVE StartersOK'
    BY <1>1 DEF CreateCampaign, StarterNext, StartDunningWorkflow, StoreHandle, StarterFails, StartersOK
<1>2. CASE UNCHANGED starter
    BY <1>2 DEF StartersOK
<1> QED BY <1>1, <1>2, OthersAlone
        DEF Next, RunnerNext, AttemptNext, ReadForAttempt, ChargePayment, RecordAttempt,
            IntervalElapses, ApplySuccess, LookUpSubscription, Reactivate, ApplyFailure, Suspend,
            CancelSubscription, CancelAndGoTo, FindCurrentCycle, MarkUncollectible, MarkCampaignFailed, Exhausted,
            CampaignFault, CountersUnwritten, LeftUnwritten, TaskFails, GivingUpFails, CallerNext,
            TriggerManualAttempt, FindCampaign, UpdateCampaign, Signal, MarkManualRecovered, CallFails,
            vars

\* A call begins, or ends.
LEMMA ClientsTypes ==
    ASSUME TypeOK, [Next]_vars
    PROVE  ClientsOK'
<1> USE TypeParts
<1>1. NoCall \in Calls
    BY DEF NoCall, Calls
<1>2. ASSUME NEW k \in Callers, NEW c \in Campaigns, NEW op \in {"manual"} \cup Guarded, NEW l, Begin(k, op, c, l)
      PROVE  ClientsOK'
    <2>1. [op |-> op, about |-> c] \in Calls
        BY DEF Calls
    <2>2. calls' \in 0 .. MaxCalls
        BY <1>2, Bounds DEF Begin, ClientsOK
    <2> QED BY <1>2, <2>1, <2>2 DEF Begin, ClientsOK
<1>3. ASSUME NEW k \in Callers, call' = [call EXCEPT ![k] = NoCall], UNCHANGED calls PROVE ClientsOK'
    BY <1>1, <1>3 DEF ClientsOK
<1>4. CASE UNCHANGED clients
    BY <1>4 DEF clients, ClientsOK
<1>5. ASSUME NEW p \in Procs, AttemptNext(p) \/ CountersUnwritten(p) PROVE ClientsOK'
    <2>1. CASE RecordAttempt(p) \/ CountersUnwritten(p)
        BY <1>3, <2>1, AfterMoves DEF RecordAttempt, CountersUnwritten, Return, ClientsOK
    <2>2. CASE ~(RecordAttempt(p) \/ CountersUnwritten(p))
        BY <1>4, <1>5, <2>2 DEF AttemptNext, ReadForAttempt, ChargePayment
    <2> QED BY <2>1, <2>2
<1>6. ASSUME NEW k \in Callers, CallerNext(k) PROVE ClientsOK'
    <2>1. ASSUME NEW c \in Campaigns, TriggerManualAttempt(k, c) \/ \E op \in Guarded : FindCampaign(k, op, c)
          PROVE  ClientsOK'
        BY <1>2, <2>1 DEF TriggerManualAttempt, FindCampaign
    <2>2. CASE UpdateCampaign(k)
        BY <1>4, <2>2 DEF UpdateCampaign
    <2>3. CASE Signal(k) \/ MarkManualRecovered(k) \/ CallFails(k)
        BY <1>3, <2>3 DEF Signal, MarkManualRecovered, CallFails, Return
    <2> QED BY <1>5, <1>6, <2>1, <2>2, <2>3 DEF CallerNext, Procs
<1>7. CASE MerchantCancels \/ BillingNext
    <2>1. (calls' = calls + 1 /\ calls < MaxCalls) \/ calls' = calls
        BY <1>7 DEF MerchantCancels, BillingNext, BillingCharges, BillingOpensInvoice, BillingSettles,
                    BillingFails, BillingStops, BillingWrites, clients
    <2>2. calls' \in 0 .. MaxCalls
        BY <2>1, Bounds DEF ClientsOK
    <2> QED BY <1>7, <2>2, OthersAlone DEF ClientsOK
<1> QED BY <1>4, <1>5, <1>6, <1>7
        DEF Next, CreateCampaign, StarterNext, StartDunningWorkflow, StoreHandle, RunnerNext,
            IntervalElapses, ApplySuccess, LookUpSubscription, Reactivate, ApplyFailure, Suspend,
            CancelSubscription, CancelAndGoTo, FindCurrentCycle, MarkUncollectible, MarkCampaignFailed, Exhausted,
            CampaignFault, StarterFails, LeftUnwritten, TaskFails, GivingUpFails, vars, Procs

----------------------------------------------------------------------------
(* How the rows change.                                                    *)

\* The statuses a call writes, from those it accepts.
LEMMA WrittenStatus ==
    ASSUME NEW op \in Guarded
    PROVE  /\ Written(op) \in {"active", "paused", "cancelled"}
           /\ Accepted(op) \subseteq {"active", "paused"}
BY DEF Guarded, Written, Accepted

\* The row of one campaign is written: with a status that a process has read before, that
\* its place calls for, or that of a new campaign.
StatusWritten(c, w) ==
    \/ status[c] = "none" /\ w = "active" /\ starter'[c] = "created"
    \/ starter[c] = "started" /\ w = "active" /\ (status[c] = w \/ c \in lost')
    \/ \E p \in Procs : pc[p] = "record" /\ CampaignOf(p) = c /\ w = copy[p] /\ (status[c] = w \/ c \in lost')
    \/ \E k \in Callers : /\ pc[k] = "update" /\ call[k].about = c
                          /\ w = Written(call[k].op) /\ (status[c] = copy[k] \/ c \in lost')
    \/ pc[c] = "apply" /\ result[c] = "succeeded" /\ w = "recovered"
    \/ \E k \in Callers : pc[k] = "recover" /\ call[k].about = c /\ w = "recovered"
    \/ pc[c] = "fail" /\ pc'[c] = "closed" /\ seen'[c] = seen[c] /\ w = "failed"

LEMMA HowStatusChanges ==
    ASSUME TypeOK, CallsAreReal, [Next]_vars
    PROVE  /\ lost \subseteq lost' /\ lost' \subseteq lost \cup Campaigns
           /\ \/ UNCHANGED status
              \/ \E c \in Campaigns : \E w \in Statuses :
                    status' = [status EXCEPT ![c] = w] /\ StatusWritten(c, w)
<1> DEFINE Goal == /\ lost \subseteq lost' /\ lost' \subseteq lost \cup Campaigns
                   /\ \/ UNCHANGED status
                      \/ \E c \in Campaigns : \E w \in Statuses :
                            status' = [status EXCEPT ![c] = w] /\ StatusWritten(c, w)
<1> USE TypeParts
<1>1. ASSUME NEW c \in Campaigns, CreateCampaign(c) PROVE Goal
    <2>1. starter'[c] = "created"
        BY <1>1 DEF CreateCampaign, StartersOK
    <2> QED BY <1>1, <2>1 DEF CreateCampaign, StatusWritten, Statuses, history
<1>2. ASSUME NEW c \in Campaigns, StoreHandle(c) PROVE Goal
    <2>1. starter[c] = "started" /\ WriteBack(c, "active", "active")
        BY <1>2 DEF StoreHandle
    <2>2. lost \subseteq lost' /\ lost' \subseteq lost \cup {c} /\ (status[c] = "active" \/ c \in lost')
        BY <2>1 DEF WriteBack
    <2>3. StatusWritten(c, "active")
        BY <2>1, <2>2 DEF StatusWritten
    <2> QED BY <2>1, <2>2, <2>3 DEF WriteBack, Statuses
<1>3. ASSUME NEW p \in Procs, pc[p] = "record", WriteBack(CampaignOf(p), copy[p], copy[p]) PROVE Goal
    <2>1. CampaignOf(p) \in Campaigns
        BY <1>3 DEF CampaignOf, Procs, CallsAreReal
    <2> QED BY <1>3, <2>1 DEF WriteBack, StatusWritten, CopiesOK
<1>4. ASSUME NEW p \in Procs, AttemptNext(p) PROVE Goal
    <2>1. CASE RecordAttempt(p)
        BY <1>3, <2>1 DEF RecordAttempt
    <2>2. CASE ~RecordAttempt(p)
        BY <1>4, <2>2 DEF AttemptNext, ReadForAttempt, ChargePayment, rows, history
    <2> QED BY <2>1, <2>2
<1>5. ASSUME NEW c \in Campaigns, ApplySuccess(c) \/ MarkCampaignFailed(c) PROVE Goal
    <2>1. CASE ApplySuccess(c)
        BY <2>1 DEF ApplySuccess, Mark, StatusWritten, Statuses, Terminal, history
    <2>2. CASE MarkCampaignFailed(c)
        <3>1. pc'[c] = "closed"
            BY <2>2, RunnerMoves DEF MarkCampaignFailed, Close, RunnerPcs, Ended
        <3> QED BY <2>2, <3>1 DEF MarkCampaignFailed, Mark, StatusWritten, Statuses, Terminal, runners, history
    <2> QED BY <1>5, <2>1, <2>2
<1>6. ASSUME NEW c \in Campaigns, TaskFails(c) PROVE Goal
    <2>1. c \in Procs /\ CampaignOf(c) = c
        BY DEF Procs, CampaignOf
    <2>2. CASE pc[c] = "record" /\ WriteBack(c, copy[c], copy[c])
        BY <1>3, <2>1, <2>2
    <2>3. CASE UNCHANGED <<status, lost>>
        BY <2>3
    <2> QED BY <1>6, <2>2, <2>3 DEF TaskFails
<1>7. ASSUME NEW k \in Callers, UpdateCampaign(k) PROVE Goal
    <2>1. call[k].about \in Campaigns /\ call[k].op \in Guarded /\ k \notin Campaigns
        BY <1>7, Bounds DEF UpdateCampaign, CallsAreReal
    <2>2. Written(call[k].op) \in Statuses
        BY <2>1, WrittenStatus DEF Statuses, Terminal
    <2> QED BY <1>7, <2>1, <2>2 DEF UpdateCampaign, WriteBack, CampaignOf, StatusWritten
<1>8. ASSUME NEW k \in Callers, MarkManualRecovered(k) PROVE Goal
    <2>1. call[k].about \in Campaigns /\ k \notin Campaigns
        BY <1>8, Bounds DEF MarkManualRecovered, CallsAreReal
    <2> QED BY <1>8, <2>1 DEF MarkManualRecovered, Mark, CampaignOf, StatusWritten, Statuses, Terminal, history
<1>9. CASE UNCHANGED <<status, lost>>
    BY <1>9
<1> QED BY <1>1, <1>2, <1>4, <1>5, <1>6, <1>7, <1>8, <1>9, OthersAlone
        DEF Next, StarterNext, StartDunningWorkflow, RunnerNext, IntervalElapses, LookUpSubscription,
            Reactivate, ApplyFailure, Suspend, CancelSubscription, CancelAndGoTo, FindCurrentCycle, MarkUncollectible, Exhausted,
            CampaignFault, StarterFails, CountersUnwritten, LeftUnwritten, GivingUpFails, CallerNext,
            TriggerManualAttempt, FindCampaign, Signal, CallFails, vars, rows,
            history, Procs

\* A step accepts charges, and a write that fails raises the flag: neither is taken back.
LEMMA HistoryGrows ==
    ASSUME [Next]_vars
    PROVE  accepted \subseteq accepted' /\ (unwritten' = TRUE \/ unwritten' = unwritten)
<1>1. ASSUME NEW p \in Procs, AttemptNext(p)
      PROVE  accepted \subseteq accepted' /\ unwritten' = unwritten
    BY <1>1 DEF AttemptNext, ReadForAttempt, ChargePayment, RecordAttempt, history
<1>2. ASSUME NEW c \in Campaigns, LeftUnwritten(c)
      PROVE  accepted \subseteq accepted' /\ unwritten' = TRUE
    BY <1>2 DEF LeftUnwritten
<1>3. CASE UNCHANGED <<accepted, unwritten>>
    BY <1>3
<1> QED BY <1>1, <1>2, <1>3, OthersAlone
        DEF Next, CreateCampaign, StarterNext, StartDunningWorkflow, StoreHandle, RunnerNext,
            IntervalElapses, ApplySuccess, LookUpSubscription, Reactivate, ApplyFailure, Suspend,
            CancelSubscription, CancelAndGoTo, FindCurrentCycle, MarkUncollectible, MarkCampaignFailed,
            Exhausted, CampaignFault, StarterFails, CountersUnwritten, TaskFails, GivingUpFails, CallerNext,
            TriggerManualAttempt, FindCampaign, UpdateCampaign, Signal, MarkManualRecovered, CallFails,
            vars, history, Procs

\* A cycle is dealt with when its invoice is closed, or escaped a write-off, or a write failed.
Dealt(k) == invoice[k] \in Closed \/ k \in slipped \/ unwritten

\* How the invoice of a cycle changes: only the sweep's MarkOpen opens what was closed, and
\* that is noted.
InvoiceMoves(k) ==
    /\ invoice'[k] \in Invoices
    /\ invoice[k] \in Closed => invoice'[k] \in Closed \/ k \in slipped'
    /\ slipped \subseteq slipped' /\ slipped' \subseteq Cycles

LEMMA InvoicesMove ==
    ASSUME TypeOK, [Next]_vars
    PROVE  /\ invoice' \in [Cycles -> Invoices]
           /\ \A k \in Cycles : InvoiceMoves(k)
<1> DEFINE Goal == invoice' \in [Cycles -> Invoices] /\ \A k \in Cycles : InvoiceMoves(k)
<1>1. /\ invoice \in [Cycles -> Invoices] /\ cycle \in Cycles /\ seen \in [Campaigns -> Cycles]
      /\ billing.cycle \in Cycles /\ slipped \subseteq Cycles
    BY TypeParts DEF RowsOK, CyclesOK, GhostsOK
<1>2. {"absent", "draft", "open", "void", "paid", "uncollectible"} = Invoices
      /\ Closed = {"paid", "uncollectible", "void"} /\ Outstanding = {"draft", "open"}
    BY DEF Invoices, Outstanding, Closed
<1>3. ASSUME UNCHANGED <<invoice, slipped>> PROVE Goal
    BY <1>1, <1>3 DEF InvoiceMoves
<1>4. ASSUME NEW n \in Cycles, NEW s \in Closed, invoice' = [invoice EXCEPT ![n] = s], UNCHANGED slipped
      PROVE  Goal
    BY <1>1, <1>2, <1>4 DEF InvoiceMoves
<1>5. CASE MerchantCancels
    BY <1>1, <1>2, <1>3, <1>4, <1>5 DEF MerchantCancels
<1>6. CASE BillingNext
    <2>1. CASE BillingCharges
        <3>1. /\ invoice[cycle] \notin Closed /\ UNCHANGED slipped
              /\ invoice' = [invoice EXCEPT ![cycle] = IF @ = "absent" THEN "draft" ELSE @]
            BY <1>2, <2>1 DEF BillingCharges, history
        <3> QED BY <1>1, <1>2, <3>1 DEF InvoiceMoves
    <2>2. CASE BillingOpensInvoice
        <3>1. /\ invoice' = [invoice EXCEPT ![billing.cycle] = "open"]
              /\ slipped' = IF invoice[billing.cycle] \in Outstanding THEN slipped
                            ELSE slipped \cup {billing.cycle}
            BY <2>2 DEF BillingOpensInvoice
        <3> QED BY <1>1, <1>2, <3>1 DEF InvoiceMoves
    <2>3. CASE BillingSettles \/ BillingFails
        BY <1>1, <1>2, <1>3, <1>4, <2>3 DEF BillingSettles, BillingFails, BillingWrites, BillingCloses
    <2>4. CASE BillingStops
        BY <1>3, <2>4 DEF BillingStops, rows, history
    <2> QED BY <1>6, <2>1, <2>2, <2>3, <2>4 DEF BillingNext
<1>7. ASSUME NEW c \in Campaigns, FindCurrentCycle(c) PROVE Goal
    <2>1. /\ UNCHANGED invoice /\ seen[c] \in Cycles
          /\ slipped' = IF invoice[seen[c]] = "absent" THEN slipped \cup {seen[c]} ELSE slipped
        BY <1>1, <1>7 DEF FindCurrentCycle, rows
    <2> QED BY <1>1, <2>1 DEF InvoiceMoves
<1>8. ASSUME NEW c \in Campaigns, MarkUncollectible(c) PROVE Goal
    BY <1>1, <1>2, <1>4, <1>8 DEF MarkUncollectible, history
<1> QED BY <1>3, <1>5, <1>6, <1>7, <1>8
        DEF Next, CreateCampaign, StarterNext, StartDunningWorkflow, StoreHandle, RunnerNext,
            IntervalElapses, AttemptNext, ReadForAttempt, ChargePayment, RecordAttempt,
            ApplySuccess, LookUpSubscription, Reactivate, ApplyFailure, Suspend,
            CancelSubscription, CancelAndGoTo, MarkCampaignFailed, Exhausted,
            CampaignFault, StarterFails, CountersUnwritten, LeftUnwritten, TaskFails, GivingUpFails,
            CallerNext, TriggerManualAttempt, FindCampaign, UpdateCampaign, Signal, MarkManualRecovered,
            CallFails, vars, rows, history

\* So it stays.
LEMMA DealtStays ==
    ASSUME TypeOK, [Next]_vars, NEW k \in Cycles, Dealt(k)
    PROVE  Dealt(k)'
BY InvoicesMove, HistoryGrows, TypeParts DEF Dealt, InvoiceMoves, HistoryOK

LEMMA StatusTypes ==
    ASSUME TypeOK, CallsAreReal, [Next]_vars
    PROVE  StatusOK'
BY HowStatusChanges, TypeParts DEF StatusOK

LEMMA RowsTypes ==
    ASSUME TypeOK, [Next]_vars
    PROVE  RowsOK'
<1>1. ASSUME NEW c \in Campaigns, NEW s \in Subscriptions, WriteSubscription(c, s) PROVE sub' \in Subscriptions
    BY <1>1 DEF WriteSubscription
<1>2. ASSUME NEW s \in Subscriptions, NEW k, BillingWrites(s, k) PROVE sub' \in Subscriptions
    BY <1>2 DEF BillingWrites
<1>3. {"active", "unpaid", "cancelled", "past_due", "completed"} = Subscriptions
    BY DEF Subscriptions
<1>4. ASSUME NEW c \in Campaigns, Reactivate(c) \/ Suspend(c) \/ CancelSubscription(c) PROVE sub' \in Subscriptions
    BY <1>1, <1>3, <1>4 DEF Reactivate, Suspend, CancelSubscription, CancelAndGoTo
<1>5. ASSUME MerchantCancels PROVE sub' \in Subscriptions
    BY <1>3, <1>5 DEF MerchantCancels
<1>6. ASSUME BillingSettles \/ BillingFails PROVE sub' \in Subscriptions
    BY <1>2, <1>3, <1>6 DEF BillingSettles, BillingFails
<1>7. ASSUME UNCHANGED sub PROVE sub' \in Subscriptions
    BY <1>7, TypeParts DEF RowsOK
<1>8. sub' \in Subscriptions
    BY <1>4, <1>5, <1>6, <1>7
        DEF Next, CreateCampaign, StarterNext, StartDunningWorkflow, StoreHandle, RunnerNext,
            IntervalElapses, AttemptNext, ReadForAttempt, ChargePayment, RecordAttempt,
            ApplySuccess, LookUpSubscription, ApplyFailure, FindCurrentCycle, MarkUncollectible,
            MarkCampaignFailed, Exhausted, CampaignFault, StarterFails, CountersUnwritten, LeftUnwritten,
            TaskFails, GivingUpFails, CallerNext, TriggerManualAttempt, FindCampaign, UpdateCampaign,
            Signal, MarkManualRecovered, CallFails, BillingNext, BillingCharges, BillingOpensInvoice,
            BillingStops, vars, rows
<1> QED BY <1>8, InvoicesMove DEF RowsOK

\* The cycles that anybody knows of are bounded by the charges of the sweep.
CyclesInv ==
    /\ cycle <= calls
    /\ \A c \in Campaigns : seen[c] <= calls
    /\ billing.at # "idle" => billing.cycle < calls

\* What becomes of the cycle, and of what a runner or the sweep knows of it.
CycleMoves ==
    \/ UNCHANGED cycle
    \/ \E c \in Campaigns : cycle' = seen[c]
    \/ billing.at # "idle" /\ cycle' \in {billing.cycle, billing.cycle + 1}
SeenMoves == UNCHANGED seen \/ \E c \in Campaigns : seen' = [seen EXCEPT ![c] = cycle]
BillingMoves ==
    \/ UNCHANGED billing
    \/ billing' = NoBilling
    \/ billing' = [at |-> "open", cycle |-> cycle] /\ calls' = calls + 1
    \/ billing.at = "open" /\ billing' = [billing EXCEPT !.at = "charged"]
CallsMove == calls' = calls \/ calls' = calls + 1

LEMMA CyclesMove ==
    ASSUME [Next]_vars
    PROVE  CycleMoves /\ SeenMoves /\ BillingMoves /\ CallsMove
<1> DEFINE Goal == CycleMoves /\ SeenMoves /\ BillingMoves /\ CallsMove
<1>1. CASE UNCHANGED <<cycle, seen, billing, calls>>
    BY <1>1 DEF CycleMoves, SeenMoves, BillingMoves, CallsMove
<1>2. CASE UNCHANGED <<cycle, seen, billing>> /\ calls' = calls + 1
    BY <1>2 DEF CycleMoves, SeenMoves, BillingMoves, CallsMove
<1>3. ASSUME NEW k \in Callers, CallerNext(k) PROVE Goal
    BY <1>1, <1>2, <1>3
        DEF CallerNext, TriggerManualAttempt, FindCampaign, Begin, UpdateCampaign, Signal, AttemptNext,
            ReadForAttempt, ChargePayment, RecordAttempt, MarkManualRecovered, CallFails,
            CountersUnwritten, rows, runners, clients
<1>4. ASSUME NEW c \in Campaigns, RunnerNext(c) PROVE Goal
    <2>1. CASE LookUpSubscription(c) \/ ApplyFailure(c) \/ Exhausted(c)
        BY <2>1 DEF LookUpSubscription, ApplyFailure, Exhausted, SeeSubscription, rows, clients,
                    CycleMoves, SeenMoves, BillingMoves, CallsMove
    <2>2. CASE Reactivate(c) \/ Suspend(c) \/ CancelSubscription(c)
        BY <2>2 DEF Reactivate, Suspend, CancelSubscription, CancelAndGoTo, WriteSubscription, runners,
                    clients, CycleMoves, SeenMoves, BillingMoves, CallsMove
    <2> QED BY <1>1, <1>4, <2>1, <2>2
            DEF RunnerNext, IntervalElapses, AttemptNext, ReadForAttempt, ChargePayment, RecordAttempt,
                ApplySuccess, FindCurrentCycle, MarkUncollectible, MarkCampaignFailed, rows, runners, clients
<1>5. CASE BillingNext
    BY <1>5 DEF BillingNext, BillingCharges, BillingOpensInvoice, BillingSettles, BillingFails, BillingStops,
                BillingWrites, rows, runners, clients, CycleMoves, SeenMoves, BillingMoves, CallsMove
<1> QED BY <1>1, <1>2, <1>3, <1>4, <1>5
        DEF Next, CreateCampaign, StarterNext, StartDunningWorkflow, StoreHandle, CampaignFault,
            StarterFails, CountersUnwritten, LeftUnwritten, TaskFails, GivingUpFails, MerchantCancels,
            vars, rows, runners, clients

LEMMA CyclesStay ==
    ASSUME TypeOK, CyclesInv, [Next]_vars
    PROVE  CyclesOK' /\ CyclesInv'
<1>1. /\ calls \in 0 .. MaxCalls /\ calls' \in 0 .. MaxCalls /\ MaxCalls \in Nat
      /\ cycle \in 0 .. MaxCalls /\ seen \in [Campaigns -> 0 .. MaxCalls]
      /\ billing \in [at : {"idle", "open", "charged"}, cycle : 0 .. MaxCalls]
    BY ClientsTypes, TypeParts, Bounds DEF ClientsOK, CyclesOK, Cycles
<1>2. calls <= calls'
    BY <1>1, CyclesMove DEF CallsMove
<1>3. cycle' \in 0 .. MaxCalls /\ cycle' <= calls'
    <2>1. CASE UNCHANGED cycle
        BY <1>1, <1>2, <2>1 DEF CyclesInv
    <2>2. CASE \E c \in Campaigns : cycle' = seen[c]
        BY <1>1, <1>2, <2>2 DEF CyclesInv
    <2>3. CASE billing.at # "idle" /\ cycle' \in {billing.cycle, billing.cycle + 1}
        BY <1>1, <1>2, <2>3 DEF CyclesInv
    <2> QED BY <2>1, <2>2, <2>3, CyclesMove DEF CycleMoves
<1>4. seen' \in [Campaigns -> 0 .. MaxCalls] /\ \A c \in Campaigns : seen'[c] <= calls'
    <2>1. CASE UNCHANGED seen
        BY <1>1, <1>2, <2>1 DEF CyclesInv
    <2>2. ASSUME NEW c \in Campaigns, seen' = [seen EXCEPT ![c] = cycle]
          PROVE  seen' \in [Campaigns -> 0 .. MaxCalls] /\ \A d \in Campaigns : seen'[d] <= calls'
        BY <1>1, <1>2, <2>2 DEF CyclesInv
    <2> QED BY <2>1, <2>2, CyclesMove DEF SeenMoves
<1>5. /\ billing' \in [at : {"idle", "open", "charged"}, cycle : 0 .. MaxCalls]
      /\ billing'.at # "idle" => billing'.cycle < calls'
    <2>1. CASE UNCHANGED billing
        BY <1>1, <1>2, <2>1 DEF CyclesInv
    <2>2. CASE billing' = NoBilling
        BY <1>1, <2>2 DEF NoBilling
    <2>3. CASE billing' = [at |-> "open", cycle |-> cycle] /\ calls' = calls + 1
        BY <1>1, <2>3 DEF CyclesInv
    <2>4. CASE billing.at = "open" /\ billing' = [billing EXCEPT !.at = "charged"]
        BY <1>1, <1>2, <2>4 DEF CyclesInv
    <2> QED BY <2>1, <2>2, <2>3, <2>4, CyclesMove DEF BillingMoves
<1> QED BY <1>3, <1>4, <1>5 DEF CyclesOK, CyclesInv, Cycles

\* Whom a process reads is a campaign.
LEMMA AboutCampaigns ==
    ASSUME CallsAreReal, NEW p \in Procs, pc[p] # "idle"
    PROVE  CampaignOf(p) \in Campaigns
BY DEF CallsAreReal, CampaignOf, Procs

\* What a process holds it has read or been answered, or has forgotten.
Held(p) ==
    /\ UNCHANGED copy \/ \E w \in Statuses : copy' = [copy EXCEPT ![p] = w]
    /\ \/ UNCHANGED result
       \/ \E r \in {"none", "succeeded", "failed", "pending"} : result' = [result EXCEPT ![p] = r]

LEMMA HeldTypes ==
    ASSUME CopiesOK, NEW p \in Procs, Held(p)
    PROVE  CopiesOK' /\ \A q \in Procs \ {p} : copy'[q] = copy[q] /\ result'[q] = result[q]
BY DEF Held, CopiesOK

\* A task that answers, and an end of one's own, leave nothing behind.
LEMMA HeldNothing ==
    ASSUME NEW p \in Procs, Forget(p)
    PROVE  Held(p)
BY DEF Held, Forget, Statuses

LEMMA HeldAnswers ==
    ASSUME NEW c \in Campaigns, (\E read : TaskAnswers(c, read)) \/ WrittenOff(c) \/ Close(c)
    PROVE  Held(c)
<1>1. c \in Procs
    BY DEF Procs
<1>2. Forget(c) \/ UNCHANGED <<copy, result>>
    BY DEF TaskAnswers, WrittenOff, GoesOn, Close
<1> QED BY <1>1, <1>2, HeldNothing DEF Held

LEMMA HeldAttempts ==
    ASSUME TypeOK, CallsAreReal, NEW p \in Procs, AttemptNext(p) \/ CountersUnwritten(p)
    PROVE  Held(p)
<1>1. CASE ReadForAttempt(p)
    <2>1. status[CampaignOf(p)] \in Statuses
        BY <1>1, AboutCampaigns, TypeParts DEF ReadForAttempt, StatusOK
    <2> QED BY <1>1, <2>1 DEF ReadForAttempt, Held
<1>2. ASSUME NEW answer \in Answers, ChargePayment(p, answer) PROVE Held(p)
    <2>1. AttemptStatus(answer) \in {"none", "succeeded", "failed", "pending"}
        BY DEF AttemptStatus, Answers
    <2> QED BY <1>2, <2>1 DEF ChargePayment, Held
<1>3. CASE RecordAttempt(p) \/ CountersUnwritten(p)
    <2>1. AfterAttempt(p) /\ UNCHANGED step
        BY <1>3 DEF RecordAttempt, CountersUnwritten
    <2>2. "none" \in Statuses
        BY DEF Statuses
    <2> QED BY <2>1, <2>2, AfterMoves DEF Held
<1> QED BY <1>1, <1>2, <1>3 DEF AttemptNext

LEMMA HeldByRunner ==
    ASSUME TypeOK, CallsAreReal, NEW c \in Campaigns, StarterNext(c) \/ RunnerNext(c) \/ CampaignFault(c)
    PROVE  Held(c)
<1>1. c \in Procs /\ "none" \in Statuses /\ status[c] \in Statuses
    BY TypeParts DEF Procs, Statuses, StatusOK
<1>2. CASE UNCHANGED <<copy, result>>
    BY <1>2 DEF Held
<1>3. CASE AttemptNext(c) \/ CountersUnwritten(c)
    BY <1>1, <1>3, HeldAttempts
<1>4. CASE ApplySuccess(c) \/ LookUpSubscription(c) \/ Reactivate(c) \/ MarkCampaignFailed(c)
    BY <1>2, <1>4, HeldAnswers DEF ApplySuccess, LookUpSubscription, Reactivate, MarkCampaignFailed
<1>5. CASE ApplyFailure(c)
    <2>1. CASE copy' = [copy EXCEPT ![c] = status[c]] /\ UNCHANGED result
        BY <1>1, <2>1 DEF Held
    <2> QED BY <1>2, <1>5, <2>1, HeldAnswers DEF ApplyFailure, GoesOn
<1>6. CASE FindCurrentCycle(c) \/ MarkUncollectible(c) \/ LeftUnwritten(c)
    BY <1>2, <1>6, HeldAnswers DEF FindCurrentCycle, MarkUncollectible, LeftUnwritten, GoesOn
<1>7. CASE TaskFails(c)
    <2>1. CASE copy' = [copy EXCEPT ![c] = "none"] /\ UNCHANGED result
        BY <1>1, <2>1 DEF Held
    <2> QED BY <1>1, <1>7, <2>1, HeldNothing DEF TaskFails
<1> QED BY <1>2, <1>3, <1>4, <1>5, <1>6, <1>7
        DEF StarterNext, StartDunningWorkflow, StoreHandle, RunnerNext, IntervalElapses, Suspend,
            CancelSubscription, CancelAndGoTo, Exhausted, CampaignFault, StarterFails, GivingUpFails

LEMMA HeldByCaller ==
    ASSUME TypeOK, CallsAreReal, NEW k \in Callers, CallerNext(k)
    PROVE  Held(k)
<1>1. k \in Procs /\ "none" \in Statuses
    BY DEF Procs, Statuses
<1>2. CASE UNCHANGED <<copy, result>>
    BY <1>2 DEF Held
<1>3. CASE AttemptNext(k) \/ CountersUnwritten(k)
    BY <1>1, <1>3, HeldAttempts
<1>4. ASSUME NEW c \in Campaigns, NEW op, FindCampaign(k, op, c) PROVE Held(k)
    BY <1>4, TypeParts DEF FindCampaign, StatusOK, Held
<1>5. CASE UpdateCampaign(k)
    BY <1>1, <1>5 DEF UpdateCampaign, Held
<1>6. CASE MarkManualRecovered(k) \/ CallFails(k)
    BY <1>1, <1>6, HeldNothing DEF MarkManualRecovered, CallFails, Return
<1> QED BY <1>2, <1>3, <1>4, <1>5, <1>6 DEF CallerNext, TriggerManualAttempt, Signal

LEMMA CopiesTypes ==
    ASSUME TypeOK, CallsAreReal, [Next]_vars
    PROVE  CopiesOK'
<1>1. CASE \E p \in Procs : Held(p)
    BY <1>1, HeldTypes, TypeParts
<1>2. CASE UNCHANGED <<copy, result>>
    BY <1>2, TypeParts DEF CopiesOK
<1> QED BY <1>1, <1>2, HeldByRunner, HeldByCaller, OthersAlone DEF Next, CreateCampaign, vars, Procs

\* Whose suspension the row shows: a runner's, until somebody writes the row again.
SuspenderMoves ==
    \/ UNCHANGED <<sub, suspender>>
    \/ suspender' = {}
    \/ \E c \in Campaigns : Suspend(c) /\ sub' = "unpaid" /\ suspender' = {c}

LEMMA SuspendersMove ==
    ASSUME [Next]_vars
    PROVE  SuspenderMoves
<1>1. ASSUME NEW c \in Campaigns, Reactivate(c) \/ Suspend(c) \/ CancelSubscription(c) PROVE SuspenderMoves
    BY <1>1 DEF Reactivate, Suspend, CancelSubscription, CancelAndGoTo, WriteSubscription, SuspenderMoves
<1>2. CASE MerchantCancels \/ BillingNext
    BY <1>2 DEF MerchantCancels, BillingNext, BillingCharges, BillingOpensInvoice, BillingSettles,
                BillingFails, BillingStops, BillingWrites, rows, history, SuspenderMoves
<1>3. CASE UNCHANGED <<sub, suspender>>
    BY <1>3 DEF SuspenderMoves
<1> QED BY <1>1, <1>2, <1>3
        DEF Next, CreateCampaign, StarterNext, StartDunningWorkflow, StoreHandle, RunnerNext,
            IntervalElapses, AttemptNext, ReadForAttempt, ChargePayment, RecordAttempt,
            ApplySuccess, LookUpSubscription, ApplyFailure, FindCurrentCycle, MarkUncollectible,
            MarkCampaignFailed, Exhausted, CampaignFault, StarterFails, CountersUnwritten, LeftUnwritten,
            TaskFails, GivingUpFails, CallerNext, TriggerManualAttempt, FindCampaign, UpdateCampaign,
            Signal, MarkManualRecovered, CallFails, vars, rows, history

LEMMA HistoryTypes ==
    ASSUME TypeOK, CallsAreReal, [Next]_vars
    PROVE  HistoryOK' /\ GhostsOK'
<1> USE TypeParts
<1>1. lost' \subseteq Campaigns
    BY HowStatusChanges DEF HistoryOK
<1>2. accepted' \subseteq Campaigns
    <2>1. ASSUME NEW p \in Procs, NEW answer, ChargePayment(p, answer) PROVE accepted' \subseteq Campaigns
        BY <2>1, AboutCampaigns DEF ChargePayment, HistoryOK
    <2>2. CASE UNCHANGED accepted
        BY <2>2 DEF HistoryOK
    <2> QED BY <2>1, <2>2, OthersAlone
        DEF Next, CreateCampaign, StarterNext, StartDunningWorkflow, StoreHandle, RunnerNext,
        AttemptNext, ReadForAttempt, RecordAttempt, IntervalElapses, ApplySuccess,
        LookUpSubscription, Reactivate, ApplyFailure, Suspend, CancelSubscription, CancelAndGoTo,
        FindCurrentCycle, MarkUncollectible, MarkCampaignFailed, Exhausted, CampaignFault, StarterFails,
        CountersUnwritten, LeftUnwritten, TaskFails, GivingUpFails, CallerNext,
        TriggerManualAttempt, FindCampaign, UpdateCampaign, Signal, MarkManualRecovered, CallFails,
        vars, history, Procs
<1>3. faults' \in 0 .. MaxFaults
    <2>1. ASSUME NEW kind, Fault(kind) PROVE faults' \in 0 .. MaxFaults
        BY <2>1, FaultTypes
    <2>2. CASE UNCHANGED faults
        BY <2>2 DEF HistoryOK
    <2> QED BY <2>1, <2>2, OthersAlone
        DEF Next, CreateCampaign, StarterNext, StartDunningWorkflow, StoreHandle, RunnerNext,
        AttemptNext, ReadForAttempt, ChargePayment, RecordAttempt, IntervalElapses, ApplySuccess,
        LookUpSubscription, Reactivate, ApplyFailure, Suspend, CancelSubscription, CancelAndGoTo,
        FindCurrentCycle, MarkUncollectible, MarkCampaignFailed, Exhausted, CampaignFault, StarterFails,
        CountersUnwritten, LeftUnwritten, TaskFails, GivingUpFails, CallerNext,
        TriggerManualAttempt, FindCampaign, UpdateCampaign, Signal, MarkManualRecovered, CallFails,
        vars, Procs
<1>4. unwritten' \in BOOLEAN
    BY HistoryGrows DEF HistoryOK
<1>5. suspender' \subseteq Campaigns
    BY SuspendersMove DEF SuspenderMoves, GhostsOK
<1>6. slipped' \subseteq Cycles
    <2>1. 0 \in Cycles
        BY Bounds DEF Cycles
    <2> QED BY <2>1, InvoicesMove DEF InvoiceMoves
<1> QED BY <1>1, <1>2, <1>3, <1>4, <1>5, <1>6 DEF HistoryOK, GhostsOK

LEMMA TypesStay ==
    ASSUME TypeOK, CyclesInv, CallsAreReal, [Next]_vars
    PROVE  TypeOK' /\ CyclesInv'
<1>1. TypeOK' <=> (/\ PcOK /\ RunnersOK /\ CopiesOK /\ ClientsOK /\ StatusOK /\ RowsOK /\ CyclesOK
                   /\ StartersOK /\ HistoryOK /\ GhostsOK)'
    BY TypeParts DEF TypeOK, PcOK, RunnersOK, CopiesOK, ClientsOK, StatusOK, RowsOK, CyclesOK, StartersOK,
                     HistoryOK, GhostsOK, Statuses, Subscriptions, Invoices, Calls
<1> QED BY <1>1, PcTypes, RunnersTypes, StartersTypes, ClientsTypes, StatusTypes, RowsTypes, CyclesStay,
           CopiesTypes, HistoryTypes

----------------------------------------------------------------------------
(* The inductive invariant.                                                *)

\* The runner has given its campaign up, and is at its end.
GivenUp(c) == pc[c] = "closed" /\ Dealt(seen[c])

\* What a process has read of a campaign was there to be read.
CopyOK(p, c) ==
    /\ copy[p] # "none"
    /\ copy[p] = "recovered" => c \in accepted
    /\ copy[p] = "failed" => GivenUp(c)

\* A runner works on a campaign that exists, knows a success that was accepted, and is
\* about to give up only what has been dealt with.
RunnerInv(c) ==
    /\ pc[c] # "idle" => status[c] # "none"
    /\ pc[c] \in {"charge", "record"} => CopyOK(c, c)
    /\ result[c] = "succeeded" => c \in accepted
    /\ pc[c] = "fail" => Dealt(seen[c])

\* So does a call, which writes over a status that it may.
CallerInv(k) ==
    LET c == call[k].about
    IN  /\ pc[k] # "idle" => status[c] # "none"
        /\ pc[k] \in {"charge", "record"} => CopyOK(k, c)
        /\ pc[k] \in {"record", "recover"} /\ result[k] = "succeeded" => c \in accepted
        /\ pc[k] = "recover" => result[k] = "succeeded"
        /\ pc[k] = "update" => copy[k] \in Accepted(call[k].op)

\* What the row says has happened; the event's consumer works on a campaign that exists,
\* and starts its runner once.
RowInv(c) ==
    /\ status[c] = "recovered" => c \in accepted
    /\ status[c] = "failed" => GivenUp(c)
    /\ starter[c] # "none" => status[c] # "none"
StartsOnce(c) == starter[c] \in {"none", "created"} => pc[c] = "idle"

\* A runner that is about to end by itself, or has, leaves the campaign closed.
ClosedPcs == {"closed", "look up", "reactivate"}
ClosedInv(c) == pc[c] \in ClosedPcs => status[c] \in Terminal \/ c \in lost

Inv == /\ TypeOK /\ CyclesInv /\ CallsAreReal
       /\ \A c \in Campaigns : RunnerInv(c) /\ RowInv(c) /\ StartsOnce(c) /\ ClosedInv(c)
       /\ \A k \in Callers : CallerInv(k)

----------------------------------------------------------------------------
(* The rows.                                                               *)

\* Whoever has read a campaign has a copy of what was there.
LEMMA RecordedCopy ==
    ASSUME Inv, NEW p \in Procs, pc[p] \in {"charge", "record"}
    PROVE  CopyOK(p, CampaignOf(p))
BY DEF Inv, RunnerInv, CallerInv, CampaignOf, Procs

\* Where a runner is moved from, and where it looks at the subscription.
LEMMA WhereRunnersMove ==
    ASSUME TypeOK, CallsAreReal, [Next]_vars, NEW c \in Campaigns
    PROVE  /\ \/ pc'[c] = pc[c] \/ pc[c] \notin {"idle", "closed"}
              \/ starter[c] = "created" /\ starter'[c] = "started"
           /\ pc[c] \in {"idle", "closed", "fail", "write off", "update invoice"} => seen'[c] = seen[c]
<1> DEFINE Goal == /\ \/ pc'[c] = pc[c] \/ pc[c] \notin {"idle", "closed"}
                      \/ starter[c] = "created" /\ starter'[c] = "started"
                   /\ pc[c] \in {"idle", "closed", "fail", "write off", "update invoice"} => seen'[c] = seen[c]
<1>1. PcOK /\ StartersOK /\ seen \in [Campaigns -> Cycles] /\ c \in Procs
    BY TypeParts DEF CyclesOK, Procs
<1>2. ASSUME NEW p \in Procs, NEW l, Goto(p, l), p = c => pc[p] \notin {"idle", "closed"},
             UNCHANGED seen \/ (SeeSubscription(p) /\ pc[p] \in {"apply", "look up", "exhaust"})
      PROVE  Goal
    <2>1. CASE p = c
        BY <1>1, <1>2, <2>1 DEF SeeSubscription
    <2>2. CASE p # c
        BY <1>1, <1>2, <2>2 DEF Goto, PcOK, SeeSubscription
    <2> QED BY <2>1, <2>2
<1>3. CASE UNCHANGED <<pc, seen>>
    BY <1>3
<1>4. ASSUME NEW p \in Procs, AttemptNext(p) \/ CountersUnwritten(p) PROVE Goal
    <2>1. pc[p] \in {"read", "charge", "record"} /\ UNCHANGED seen
        BY <1>4 DEF AttemptNext, ReadForAttempt, ChargePayment, RecordAttempt, CountersUnwritten, runners
    <2>2. \E l : Goto(p, l)
        BY <1>4 DEF AttemptNext, ReadForAttempt, ChargePayment, RecordAttempt, CountersUnwritten,
                    AfterAttempt, Return
    <2> QED BY <1>2, <2>1, <2>2
<1>5. ASSUME NEW d \in Campaigns, StartDunningWorkflow(d) PROVE Goal
    <2>1. UNCHANGED seen /\ \E l : Goto(d, l)
        BY <1>5 DEF StartDunningWorkflow, StartRunner, runners
    <2>2. CASE d = c
        BY <1>1, <1>5, <2>1, <2>2 DEF StartDunningWorkflow, StartersOK
    <2>3. CASE d # c
        BY <1>2, <2>1, <2>3 DEF Procs
    <2> QED BY <2>2, <2>3
<1>6. ASSUME NEW d \in Campaigns, RunnerNext(d), ~AttemptNext(d) PROVE Goal
    <2>1. /\ \E l : Goto(d, l)
          /\ pc[d] \notin {"idle", "closed"}
          /\ UNCHANGED seen \/ (SeeSubscription(d) /\ pc[d] \in {"apply", "look up", "exhaust"})
        BY <1>6 DEF RunnerNext, IntervalElapses, ApplySuccess, LookUpSubscription, Reactivate, ApplyFailure,
                    Suspend, CancelSubscription, CancelAndGoTo, FindCurrentCycle, MarkUncollectible,
                    MarkCampaignFailed, Exhausted, WrittenOff, GoesOn, Close, TaskAnswers, NextRetry, runners
    <2> QED BY <1>2, <2>1 DEF Procs
<1>7. ASSUME NEW d \in Campaigns, LeftUnwritten(d) \/ TaskFails(d) \/ GivingUpFails(d) PROVE Goal
    <2>1. (\E l : Goto(d, l)) /\ pc[d] \notin {"idle", "closed"} /\ UNCHANGED seen
        BY <1>7 DEF LeftUnwritten, TaskFails, GivingUpFails, WrittenOff, GoesOn, Close, TaskAnswers,
                    NextRetry, AttemptTask, ResultTask, runners
    <2> QED BY <1>2, <2>1 DEF Procs
<1>8. ASSUME NEW k \in Callers, CallerNext(k) PROVE Goal
    <2>1. k # c /\ k \in Procs
        BY Bounds DEF Procs
    <2>2. CASE Signal(k)
        BY <1>1, <2>1, <2>2, SignalPc DEF SignalMoves, Signal, runners
    <2>3. CASE AttemptNext(k) \/ CountersUnwritten(k)
        BY <1>4, <2>1, <2>3
    <2>4. CASE ~(Signal(k) \/ AttemptNext(k) \/ CountersUnwritten(k))
        <3>1. UNCHANGED seen /\ \E l : Goto(k, l)
            BY <1>8, <2>4 DEF CallerNext, TriggerManualAttempt, FindCampaign, Begin, UpdateCampaign,
                              MarkManualRecovered, CallFails, Return, runners
        <3> QED BY <1>2, <2>1, <3>1
    <2> QED BY <2>2, <2>3, <2>4
<1> QED BY <1>3, <1>4, <1>5, <1>6, <1>7, <1>8, OthersAlone
        DEF Next, CreateCampaign, StarterNext, StoreHandle, CampaignFault, StarterFails, vars, runners, Procs

\* A runner that has given up is at its end for good, and what it dealt with stays so.
LEMMA DealtStaysSeen ==
    ASSUME TypeOK, [Next]_vars, NEW c \in Campaigns, Dealt(seen[c]), seen'[c] = seen[c]
    PROVE  Dealt(seen[c])'
<1>1. PICK k \in Cycles : k = seen[c]
    BY TypeParts DEF CyclesOK
<1> QED BY <1>1, DealtStays DEF Dealt

LEMMA GivenUpStays ==
    ASSUME Inv, [Next]_vars, NEW c \in Campaigns, GivenUp(c)
    PROVE  GivenUp(c)'
<1>1. pc[c] = "closed" /\ starter[c] # "created"
    BY DEF Inv, GivenUp, StartsOnce
<1>2. pc'[c] = "closed" /\ seen'[c] = seen[c]
    BY <1>1, WhereRunnersMove DEF Inv
<1> QED BY <1>2, DealtStaysSeen DEF Inv, GivenUp

\* How the event's consumer goes on.
StarterMoves(c) ==
    \/ starter'[c] = starter[c]
    \/ starter[c] = "none" /\ starter'[c] = "created" /\ status'[c] = "active"
    \/ starter[c] \in {"created", "started"} /\ starter'[c] \in {"started", "done"}

LEMMA StartersMove ==
    ASSUME Inv, [Next]_vars, NEW c \in Campaigns
    PROVE  StarterMoves(c)
<1>1. StatusOK /\ StartersOK
    BY TypeParts DEF Inv
<1>2. ASSUME NEW d \in Campaigns, CreateCampaign(d) PROVE StarterMoves(c)
    <2>1. d = c => starter[c] = "none"
        BY <1>2 DEF CreateCampaign, Inv, RowInv
    <2> QED BY <1>1, <1>2, <2>1 DEF CreateCampaign, StarterMoves, StartersOK, StatusOK
<1>3. ASSUME NEW d \in Campaigns, StarterNext(d) \/ StarterFails(d) PROVE StarterMoves(c)
    BY <1>1, <1>3 DEF StarterNext, StartDunningWorkflow, StoreHandle, StarterFails, StarterMoves, StartersOK
<1>4. CASE UNCHANGED starter
    BY <1>4 DEF StarterMoves
<1> QED BY <1>2, <1>3, <1>4, OthersAlone
        DEF Next, RunnerNext, AttemptNext, ReadForAttempt, ChargePayment, RecordAttempt,
            IntervalElapses, ApplySuccess, LookUpSubscription, Reactivate, ApplyFailure, Suspend,
            CancelSubscription, CancelAndGoTo, FindCurrentCycle, MarkUncollectible, MarkCampaignFailed, Exhausted,
            CampaignFault, CountersUnwritten, LeftUnwritten, TaskFails, GivingUpFails, CallerNext,
            TriggerManualAttempt, FindCampaign, UpdateCampaign, Signal, MarkManualRecovered, CallFails,
            vars

LEMMA StartsOnceStays ==
    ASSUME Inv, [Next]_vars, NEW c \in Campaigns
    PROVE  StartsOnce(c)'
<1>1. StarterMoves(c) /\ StartsOnce(c) /\ (starter'[c] \in {"none", "created"} => starter'[c] # "started")
    BY StartersMove DEF Inv
<1>2. pc[c] = "idle" => pc'[c] = "idle" \/ starter'[c] = "started"
    BY WhereRunnersMove DEF Inv
<1> QED BY <1>1, <1>2 DEF StarterMoves, StartsOnce

\* No campaign vanishes, and its row goes on saying what has happened.
LEMMA RowsStay ==
    ASSUME Inv, [Next]_vars
    PROVE  \A c \in Campaigns : (status[c] # "none" => status'[c] # "none") /\ RowInv(c)'
<1>1. TypeOK /\ CallsAreReal /\ accepted \subseteq accepted'
    BY HistoryGrows DEF Inv
<1>2. ASSUME NEW c \in Campaigns, NEW w \in Statuses, StatusWritten(c, w)
      PROVE  /\ w # "none"
             /\ w = "recovered" => c \in accepted
             /\ w = "failed" => GivenUp(c)'
    <2>1. ASSUME NEW p \in Procs, pc[p] = "record", CampaignOf(p) = c, w = copy[p]
          PROVE  w # "none" /\ (w = "recovered" => c \in accepted) /\ (w = "failed" => GivenUp(c)')
        BY <2>1, RecordedCopy, GivenUpStays DEF CopyOK
    <2>2. ASSUME NEW k \in Callers, pc[k] = "update", w = Written(call[k].op)
          PROVE  w \in {"active", "paused", "cancelled"}
        BY <1>1, <2>2, WrittenStatus DEF CallsAreReal
    <2>3. ASSUME NEW k \in Callers, pc[k] = "recover", call[k].about = c
          PROVE  c \in accepted
        BY <2>3 DEF Inv, CallerInv
    <2>4. pc[c] = "apply" /\ result[c] = "succeeded" => c \in accepted
        BY DEF Inv, RunnerInv
    <2>5. ASSUME pc[c] = "fail", pc'[c] = "closed", seen'[c] = seen[c] PROVE GivenUp(c)'
        <3>1. Dealt(seen[c])'
            BY <1>1, <2>5, DealtStaysSeen DEF Inv, RunnerInv
        <3> QED BY <2>5, <3>1 DEF GivenUp
    <2> QED BY <1>2, <2>1, <2>2, <2>3, <2>4, <2>5 DEF StatusWritten
<1>3. \A c \in Campaigns : starter'[c] # "none" => starter[c] # "none" \/ status'[c] = "active"
    BY StartersMove DEF StarterMoves
<1>4. CASE UNCHANGED status
    BY <1>1, <1>3, <1>4, GivenUpStays DEF Inv, RowInv
<1>5. ASSUME NEW c \in Campaigns, NEW w \in Statuses, status' = [status EXCEPT ![c] = w], StatusWritten(c, w)
      PROVE  \A d \in Campaigns : (status[d] # "none" => status'[d] # "none") /\ RowInv(d)'
    <2>1. \A d \in Campaigns : status'[d] = IF d = c THEN w ELSE status[d]
        BY <1>1, <1>5, TypeParts DEF StatusOK
    <2>2. \A d \in Campaigns : status[d] = "failed" => GivenUp(d)'
        BY GivenUpStays DEF Inv, RowInv
    <2> QED BY <1>1, <1>2, <1>3, <1>5, <2>1, <2>2 DEF Inv, RowInv
<1> QED BY <1>1, <1>4, <1>5, HowStatusChanges

----------------------------------------------------------------------------
(* The processes.                                                          *)

OthersStay(p) ==
    \A q \in Procs \ {p} : /\ pc'[q] = pc[q] /\ copy'[q] = copy[q] /\ result'[q] = result[q]
                           /\ q \in Callers => call'[q] = call[q]

\* The step ends the runner by itself only if it closes the campaign.
Closes(c) == pc'[c] \in ClosedPcs => pc[c] \in ClosedPcs \/ status'[c] \in Terminal

\* A runner or a call that does not move goes on as it was.
LEMMA RunnerStays ==
    ASSUME Inv, [Next]_vars, NEW c \in Campaigns,
           pc'[c] = pc[c], copy'[c] = copy[c], result'[c] = result[c]
    PROVE  RunnerInv(c)' /\ Closes(c)
<1>1. pc[c] = "fail" => Dealt(seen[c])'
    BY WhereRunnersMove, DealtStaysSeen DEF Inv, RunnerInv
<1>2. GivenUp(c) => GivenUp(c)'
    BY GivenUpStays
<1> QED BY <1>1, <1>2, RowsStay, HistoryGrows DEF Inv, RunnerInv, CopyOK, Closes

LEMMA CallerStays ==
    ASSUME Inv, [Next]_vars, NEW k \in Callers,
           pc'[k] = pc[k], copy'[k] = copy[k], result'[k] = result[k], call'[k] = call[k]
    PROVE  CallerInv(k)'
<1>1. pc[k] # "idle" => call[k].about \in Campaigns
    BY DEF Inv, CallsAreReal
<1>2. \A c \in Campaigns : GivenUp(c) => GivenUp(c)'
    BY GivenUpStays
<1> QED BY <1>1, <1>2, RowsStay, HistoryGrows DEF Inv, CallerInv, CopyOK

\* A runner that moves to a place where it has neither read nor given up anything.
LEMMA RunnerGoesOn ==
    ASSUME Inv, [Next]_vars, NEW c \in Campaigns,
           pc[c] # "idle" \/ starter[c] # "none", result'[c] \in {result[c], "none"},
           pc'[c] \notin {"charge", "record", "fail"}
    PROVE  RunnerInv(c)'
<1>1. status[c] # "none"
    BY DEF Inv, RunnerInv, RowInv
<1> QED BY <1>1, RowsStay, HistoryGrows DEF Inv, RunnerInv

\* An attempt, of a runner or a call: what it reads is what the row says, what it
\* charges is accepted if it says so, and what it records is what it read.
AttemptGoes(p) ==
    \/ pc[p] = "read" /\ pc'[p] = "charge" /\ copy'[p] = status[CampaignOf(p)] /\ result'[p] = result[p]
    \/ /\ pc[p] = "charge" /\ pc'[p] = "record" /\ copy'[p] = copy[p]
       /\ result'[p] = "succeeded" => CampaignOf(p) \in accepted'
    \/ pc[p] = "record" /\ result'[p] = result[p] /\ p \in Campaigns /\ pc'[p] = "apply"
    \/ /\ pc[p] = "record" /\ p \in Callers
       /\ \/ pc'[p] = "idle"
          \/ pc'[p] = "recover" /\ result'[p] = result[p] /\ result[p] = "succeeded" /\ call'[p] = call[p]

LEMMA ProcMoves ==
    ASSUME PcOK, NEW p \in Procs, NEW l \in RunnerPcs \cap CallerPcs, Goto(p, l)
    PROVE  pc'[p] = l /\ \A q \in Procs \ {p} : pc'[q] = pc[q]
BY RunnerMoves, CallerMoves DEF Procs

LEMMA AttemptSteps ==
    ASSUME TypeOK, CallsAreReal, NEW p \in Procs, AttemptNext(p) \/ CountersUnwritten(p)
    PROVE  /\ AttemptGoes(p) /\ OthersStay(p)
           /\ pc'[p] \in {"charge", "record"} => call' = call
<1> USE TypeParts
<1>1. CASE ReadForAttempt(p)
    <2>1. "charge" \in RunnerPcs \cap CallerPcs
        BY DEF RunnerPcs, CallerPcs, AttemptTask
    <2>2. pc'[p] = "charge" /\ \A q \in Procs \ {p} : pc'[q] = pc[q]
        BY <1>1, <2>1, ProcMoves DEF ReadForAttempt
    <2> QED BY <1>1, <2>2 DEF ReadForAttempt, AttemptGoes, OthersStay, CopiesOK, clients
<1>2. ASSUME NEW answer \in Answers, ChargePayment(p, answer)
      PROVE  AttemptGoes(p) /\ OthersStay(p) /\ call' = call
    <2>1. "record" \in RunnerPcs \cap CallerPcs
        BY DEF RunnerPcs, CallerPcs, AttemptTask
    <2>2. pc'[p] = "record" /\ \A q \in Procs \ {p} : pc'[q] = pc[q]
        BY <1>2, <2>1, ProcMoves DEF ChargePayment
    <2>3. result'[p] = "succeeded" => CampaignOf(p) \in accepted'
        BY <1>2 DEF ChargePayment, AttemptStatus, Answers, HistoryOK, CopiesOK
    <2>4. \A q \in Procs \ {p} : result'[q] = result[q]
        BY <1>2 DEF ChargePayment, CopiesOK
    <2> QED BY <1>2, <2>2, <2>3, <2>4 DEF ChargePayment, AttemptGoes, OthersStay, clients
<1>3. CASE RecordAttempt(p) \/ CountersUnwritten(p)
    <2>1. /\ pc[p] = "record" /\ \A q \in Procs \ {p} : copy'[q] = copy[q] /\ result'[q] = result[q]
          /\ \/ p \in Campaigns /\ Goto(p, "apply") /\ UNCHANGED <<result, call>>
             \/ p \in Callers /\ result[p] = "succeeded" /\ Goto(p, "recover") /\ UNCHANGED <<result, call>>
             \/ p \in Callers /\ Goto(p, "idle") /\ call' = [call EXCEPT ![p] = NoCall]
        <3>1. pc[p] = "record" /\ AfterAttempt(p) /\ UNCHANGED step
            BY <1>3 DEF RecordAttempt, CountersUnwritten
        <3>2. \A q \in Procs \ {p} : copy'[q] = copy[q] /\ result'[q] = result[q]
            BY <1>3, HeldAttempts, HeldTypes
        <3>3. \/ p \in Campaigns /\ Goto(p, "apply") /\ UNCHANGED <<result, call>>
              \/ p \in Callers /\ result[p] = "succeeded" /\ Goto(p, "recover") /\ UNCHANGED <<result, call>>
              \/ p \in Callers /\ Goto(p, "idle") /\ call' = [call EXCEPT ![p] = NoCall]
            BY <3>1 DEF AfterAttempt, Return, Procs
        <3> QED BY <3>1, <3>2, <3>3
    <2>2. "apply" \in RunnerPcs /\ "recover" \in CallerPcs /\ "idle" \in CallerPcs
        BY DEF RunnerPcs, CallerPcs, ResultTask
    <2>3. CASE p \in Campaigns /\ Goto(p, "apply") /\ UNCHANGED <<result, call>>
        BY <2>1, <2>2, <2>3, RunnerMoves DEF AttemptGoes, OthersStay, CopiesOK
    <2>4. CASE p \in Callers /\ result[p] = "succeeded" /\ Goto(p, "recover") /\ UNCHANGED <<result, call>>
        BY <2>1, <2>2, <2>4, CallerMoves DEF AttemptGoes, OthersStay, CopiesOK
    <2>5. CASE p \in Callers /\ Goto(p, "idle") /\ call' = [call EXCEPT ![p] = NoCall]
        <3>1. pc'[p] = "idle" /\ \A q \in Procs \ {p} : pc'[q] = pc[q]
            BY <2>2, <2>5, CallerMoves
        <3>2. \A q \in Callers \ {p} : call'[q] = call[q]
            BY <2>5 DEF ClientsOK
        <3> QED BY <2>1, <2>5, <3>1, <3>2 DEF AttemptGoes, OthersStay, CopiesOK
    <2> QED BY <2>1, <2>3, <2>4, <2>5
<1> QED BY <1>1, <1>2, <1>3 DEF AttemptNext

\* A step that goes well for the runner c, and leaves the others alone.
StepOK(c) == RunnerInv(c)' /\ Closes(c) /\ OthersStay(c)

\* The places where a runner has neither read nor given up anything.
FreePcs == {"wait", "parked", "exhaust", "read", "apply", "look up", "reactivate", "suspend", "cancel",
            "write off", "update invoice", "closed", "found closed", "cancelled", "failed"}

\* A step of a runner that is no attempt leaves the calls alone, and its own result or nothing.
Holds(c) == Held(c) /\ UNCHANGED call /\ result'[c] \in {result[c], "none"}

LEMMA RunnerHolds ==
    ASSUME Inv, NEW c \in Campaigns, StarterNext(c) \/ RunnerNext(c) \/ CampaignFault(c),
           ~AttemptNext(c), ~CountersUnwritten(c)
    PROVE  Holds(c)
<1>1. Held(c) /\ c \in Procs /\ CopiesOK
    BY HeldByRunner, TypeParts DEF Inv, Procs
<1>2. UNCHANGED call
    BY DEF StarterNext, StartDunningWorkflow, StoreHandle, RunnerNext, IntervalElapses, ApplySuccess,
           LookUpSubscription, Reactivate, ApplyFailure, Suspend, CancelSubscription, CancelAndGoTo,
           FindCurrentCycle, MarkUncollectible, MarkCampaignFailed, Exhausted, CampaignFault, StarterFails,
           LeftUnwritten, TaskFails, GivingUpFails, clients
<1>3. UNCHANGED result \/ result' = [result EXCEPT ![c] = "none"]
    BY DEF StarterNext, StartDunningWorkflow, StoreHandle, RunnerNext, IntervalElapses, ApplySuccess,
           LookUpSubscription, Reactivate, ApplyFailure, Suspend, CancelSubscription, CancelAndGoTo,
           FindCurrentCycle, MarkUncollectible, MarkCampaignFailed, Exhausted, CampaignFault, StarterFails,
           LeftUnwritten, TaskFails, GivingUpFails, WrittenOff, GoesOn, Close, TaskAnswers, Forget
<1> QED BY <1>1, <1>2, <1>3 DEF Holds, CopiesOK

LEMMA StepStays ==
    ASSUME Inv, [Next]_vars, NEW c \in Campaigns, UNCHANGED <<pc, copy, result, call>>
    PROVE  StepOK(c)
BY RunnerStays DEF StepOK, OthersStay

\* The runner moves to a place where it has read nothing.
LEMMA StepGoes ==
    ASSUME Inv, [Next]_vars, NEW c \in Campaigns, NEW l \in FreePcs, Goto(c, l), Holds(c),
           pc[c] # "idle" \/ starter[c] # "none",
           l \notin ClosedPcs \/ pc[c] \in ClosedPcs \/ status'[c] \in Terminal
    PROVE  StepOK(c)
<1>1. PcOK /\ l \in RunnerPcs /\ l \notin {"charge", "record", "fail"}
    BY TypeParts DEF Inv, FreePcs, RunnerPcs, AttemptTask, ResultTask, Ended
<1>2. pc'[c] = l /\ \A p \in Procs \ {c} : pc'[p] = pc[p]
    BY <1>1, RunnerMoves
<1>3. RunnerInv(c)'
    BY <1>1, <1>2, RunnerGoesOn DEF Holds
<1>4. \A p \in Procs \ {c} : copy'[p] = copy[p] /\ result'[p] = result[p]
    BY HeldTypes, TypeParts DEF Inv, Holds, Procs
<1> QED BY <1>2, <1>3, <1>4 DEF StepOK, Closes, OthersStay, Holds

\* The runner moves to where the campaign is given up.
LEMMA StepFails ==
    ASSUME Inv, [Next]_vars, NEW c \in Campaigns, Goto(c, "fail"), Holds(c), Dealt(seen[c])', pc[c] # "idle"
    PROVE  StepOK(c)
<1>1. PcOK /\ "fail" \in RunnerPcs
    BY TypeParts DEF Inv, RunnerPcs, ResultTask
<1>2. pc'[c] = "fail" /\ \A p \in Procs \ {c} : pc'[p] = pc[p]
    BY <1>1, RunnerMoves
<1>3. accepted \subseteq accepted' /\ status'[c] # "none"
    BY HistoryGrows, RowsStay DEF Inv, RunnerInv
<1>4. RunnerInv(c)'
    BY <1>2, <1>3 DEF Inv, RunnerInv, Holds
<1>5. \A p \in Procs \ {c} : copy'[p] = copy[p] /\ result'[p] = result[p]
    BY HeldTypes, TypeParts DEF Inv, Holds, Procs
<1> QED BY <1>2, <1>4, <1>5 DEF StepOK, Closes, ClosedPcs, OthersStay, Holds

\* The task answers, and the runner goes on or ends.
LEMMA StepAnswers ==
    ASSUME Inv, [Next]_vars, NEW c \in Campaigns, NEW read, TaskAnswers(c, read), Holds(c), pc[c] # "idle"
    PROVE  StepOK(c)
<1>1. PICK l \in {"wait", "exhaust", "found closed"} : Goto(c, l)
    BY AnswerMoves, TypeParts DEF Inv
<1>2. l \in FreePcs /\ l \notin ClosedPcs
    BY DEF FreePcs, ClosedPcs
<1> QED BY <1>1, <1>2, StepGoes

\* The invoice is dealt with, and the runner gives up, goes on or ends.
LEMMA StepWritesOff ==
    ASSUME Inv, [Next]_vars, NEW c \in Campaigns, WrittenOff(c), Holds(c), Dealt(seen[c])', pc[c] # "idle"
    PROVE  StepOK(c)
<1>1. PICK l \in {"wait", "exhaust", "found closed", "fail"} : Goto(c, l)
    BY WrittenOffMoves, TypeParts DEF Inv
<1>2. CASE l = "fail"
    BY <1>1, <1>2, StepFails
<1>3. CASE l # "fail"
    <2>1. l \in FreePcs /\ l \notin ClosedPcs
        BY <1>3 DEF FreePcs, ClosedPcs
    <2> QED BY <1>1, <2>1, StepGoes
<1> QED BY <1>2, <1>3

\* The runner's attempt.
LEMMA StepAttempts ==
    ASSUME Inv, [Next]_vars, NEW c \in Campaigns, AttemptNext(c) \/ CountersUnwritten(c)
    PROVE  StepOK(c)
<1>1. c \in Procs /\ CampaignOf(c) = c /\ c \notin Callers
    BY Bounds DEF Procs, CampaignOf
<1>2. /\ accepted \subseteq accepted' /\ (GivenUp(c) => GivenUp(c)')
      /\ status[c] # "none" => status'[c] # "none"
    BY HistoryGrows, RowsStay, GivenUpStays DEF Inv
<1>3. AttemptGoes(c) /\ OthersStay(c)
    BY <1>1, AttemptSteps DEF Inv
<1>4. CASE pc[c] = "read" /\ pc'[c] = "charge" /\ copy'[c] = status[c] /\ result'[c] = result[c]
    BY <1>2, <1>3, <1>4 DEF Inv, RunnerInv, RowInv, CopyOK, Closes, ClosedPcs, StepOK
<1>5. CASE /\ pc[c] = "charge" /\ pc'[c] = "record" /\ copy'[c] = copy[c]
           /\ result'[c] = "succeeded" => c \in accepted'
    BY <1>2, <1>3, <1>5 DEF Inv, RunnerInv, CopyOK, Closes, ClosedPcs, StepOK
<1>6. CASE pc[c] = "record" /\ result'[c] = result[c] /\ pc'[c] = "apply"
    BY <1>3, <1>6, RunnerGoesOn DEF Closes, ClosedPcs, StepOK
<1> QED BY <1>1, <1>3, <1>4, <1>5, <1>6 DEF AttemptGoes

\* What starts a runner.
LEMMA StarterSteps ==
    ASSUME Inv, [Next]_vars, NEW c \in Campaigns, StarterNext(c) \/ StarterFails(c)
    PROVE  StepOK(c)
<1>1. CASE StartDunningWorkflow(c)
    <2>1. PICK l \in {"wait", "exhaust", "failed"} : Goto(c, l)
        BY <1>1 DEF StartDunningWorkflow, StartRunner, After
    <2>2. l \in FreePcs /\ l \notin ClosedPcs
        BY DEF FreePcs, ClosedPcs
    <2>3. starter[c] # "none" /\ Holds(c)
        BY <1>1 DEF StartDunningWorkflow, clients, Holds, Held
    <2> QED BY <2>1, <2>2, <2>3, StepGoes
<1>2. CASE StoreHandle(c) \/ StarterFails(c)
    <2>1. UNCHANGED <<pc, copy, result, call>>
        BY <1>2 DEF StoreHandle, StarterFails, clients
    <2> QED BY <2>1, StepStays
<1> QED BY <1>1, <1>2 DEF StarterNext

\* The runner itself.
LEMMA RunnerSteps ==
    ASSUME Inv, [Next]_vars, NEW c \in Campaigns, RunnerNext(c)
    PROVE  StepOK(c)
<1> SUFFICES ASSUME ~AttemptNext(c), ~CountersUnwritten(c)
             PROVE  StepOK(c)
    BY StepAttempts
<1>a. Holds(c) /\ TypeOK
    BY RunnerHolds DEF Inv
<1>1. CASE IntervalElapses(c)
    <2>1. Goto(c, "read") /\ pc[c] # "idle"
        BY <1>1 DEF IntervalElapses
    <2>2. "read" \in FreePcs /\ "read" \notin ClosedPcs
        BY DEF FreePcs, ClosedPcs
    <2> QED BY <1>a, <2>1, <2>2, StepGoes
<1>2. CASE ApplySuccess(c) \/ MarkCampaignFailed(c)
    <2>1. status'[c] \in Terminal
        BY <1>2, TypeParts DEF Inv, ApplySuccess, MarkCampaignFailed, Mark, StatusOK, Terminal
    <2>2. PICK l \in {"look up", "closed"} : Goto(c, l)
        BY <1>2 DEF ApplySuccess, MarkCampaignFailed, Close
    <2>3. l \in FreePcs /\ pc[c] # "idle"
        BY <1>2 DEF FreePcs, ApplySuccess, MarkCampaignFailed
    <2> QED BY <1>a, <2>1, <2>2, <2>3, StepGoes
<1>3. CASE LookUpSubscription(c) \/ Reactivate(c)
    <2>1. PICK l \in {"reactivate", "closed"} : Goto(c, l)
        BY <1>3 DEF LookUpSubscription, Reactivate, Close
    <2>2. l \in FreePcs
        BY DEF FreePcs
    <2>3. pc[c] \in ClosedPcs /\ pc[c] # "idle"
        BY <1>3 DEF LookUpSubscription, Reactivate, ClosedPcs
    <2> QED BY <1>a, <2>1, <2>2, <2>3, StepGoes
<1>4. CASE ApplyFailure(c)
    <2>1. pc[c] # "idle"
        BY <1>4 DEF ApplyFailure
    <2>2. CASE TaskAnswers(c, status[c])
        BY <1>a, <2>1, <2>2, StepAnswers
    <2>3. CASE Goto(c, "cancel") \/ Goto(c, "suspend")
        <3>1. {"cancel", "suspend"} \subseteq FreePcs \ ClosedPcs
            BY DEF FreePcs, ClosedPcs
        <3> QED BY <1>a, <2>1, <2>3, <3>1, StepGoes
    <2>4. TaskAnswers(c, status[c]) \/ Goto(c, "cancel") \/ Goto(c, "suspend")
        BY <1>4, Zenon DEF ApplyFailure, GoesOn
    <2> QED BY <2>2, <2>3, <2>4
<1>5. CASE Suspend(c) \/ CancelSubscription(c) \/ Exhausted(c)
    <2>1. PICK l \in {"write off", "cancel"} : Goto(c, l)
        BY <1>5 DEF Suspend, CancelSubscription, CancelAndGoTo, Exhausted
    <2>2. l \in FreePcs /\ l \notin ClosedPcs
        BY DEF FreePcs, ClosedPcs
    <2>3. pc[c] # "idle"
        BY <1>5 DEF Suspend, CancelSubscription, CancelAndGoTo, Exhausted
    <2> QED BY <1>a, <2>1, <2>2, <2>3, StepGoes
<1>6. CASE FindCurrentCycle(c)
    <2>1. seen[c] \in Cycles /\ invoice[seen[c]] \in Invoices /\ UNCHANGED <<seen, invoice>> /\ pc[c] # "idle"
        BY <1>a, <1>6, TypeParts DEF RowsOK, CyclesOK, FindCurrentCycle, rows
    <2>2. CASE invoice[seen[c]] \in Outstanding
        <3>1. Goto(c, "update invoice")
            BY <1>6, <2>2 DEF FindCurrentCycle, GoesOn
        <3>2. "update invoice" \in FreePcs /\ "update invoice" \notin ClosedPcs
            BY DEF FreePcs, ClosedPcs
        <3> QED BY <1>a, <2>1, <3>1, <3>2, StepGoes
    <2>3. CASE invoice[seen[c]] \notin Outstanding
        <3>1. WrittenOff(c) /\ (invoice[seen[c]] \in Closed \/ seen[c] \in slipped')
            BY <1>6, <2>1, <2>3 DEF FindCurrentCycle, Invoices
        <3>2. Dealt(seen[c])'
            BY <2>1, <3>1 DEF Dealt
        <3> QED BY <1>a, <2>1, <3>1, <3>2, StepWritesOff
    <2> QED BY <2>2, <2>3
<1>7. CASE MarkUncollectible(c)
    <2>1. seen[c] \in Cycles /\ UNCHANGED seen /\ pc[c] # "idle" /\ WrittenOff(c)
        BY <1>a, <1>7, TypeParts DEF CyclesOK, MarkUncollectible
    <2>2. Dealt(seen[c])'
        BY <1>a, <1>7, <2>1, TypeParts DEF MarkUncollectible, RowsOK, Dealt, Closed
    <2> QED BY <1>a, <2>1, <2>2, StepWritesOff
<1> QED BY <1>1, <1>2, <1>3, <1>4, <1>5, <1>6, <1>7 DEF RunnerNext

\* What may fail about the runner.
LEMMA FaultSteps ==
    ASSUME Inv, [Next]_vars, NEW c \in Campaigns, CampaignFault(c)
    PROVE  StepOK(c)
<1> SUFFICES ASSUME ~AttemptNext(c), ~CountersUnwritten(c)
             PROVE  StepOK(c)
    BY StepAttempts
<1>a. Holds(c)
    BY RunnerHolds
<1>1. CASE TaskFails(c) \/ GivingUpFails(c)
    <2>1. PICK l \in {"read", "apply", "exhaust", "failed"} : Goto(c, l)
        BY <1>1 DEF TaskFails, GivingUpFails
    <2>2. l \in FreePcs /\ l \notin ClosedPcs
        BY DEF FreePcs, ClosedPcs
    <2>3. pc[c] # "idle"
        BY <1>1 DEF TaskFails, GivingUpFails, AttemptTask, ResultTask
    <2> QED BY <1>a, <2>1, <2>2, <2>3, StepGoes
<1>2. CASE LeftUnwritten(c)
    <2>1. Dealt(seen[c])'
        BY <1>2 DEF LeftUnwritten, Dealt
    <2>2. CASE pc[c] \in {"look up", "reactivate"} /\ Goto(c, "closed")
        <3>1. pc[c] \in ClosedPcs /\ pc[c] # "idle" /\ "closed" \in FreePcs
            BY <2>2 DEF FreePcs, ClosedPcs
        <3> QED BY <1>a, <2>2, <3>1, StepGoes
    <2>3. CASE pc[c] = "suspend" /\ TaskAnswers(c, copy[c])
        BY <1>a, <2>3, StepAnswers
    <2>4. CASE pc[c] = "cancel" /\ Goto(c, "write off")
        <3>1. "write off" \in FreePcs /\ "write off" \notin ClosedPcs
            BY DEF FreePcs, ClosedPcs
        <3> QED BY <1>a, <2>4, <3>1, StepGoes
    <2>5. CASE pc[c] \in {"cancel", "exhaust"} /\ Goto(c, "fail")
        BY <1>a, <2>1, <2>5, StepFails
    <2>6. CASE pc[c] \in {"write off", "update invoice"} /\ WrittenOff(c)
        BY <1>a, <2>1, <2>6, StepWritesOff
    <2> QED BY <1>2, <2>2, <2>3, <2>4, <2>5, <2>6 DEF LeftUnwritten, GoesOn, Close
<1> QED BY <1>1, <1>2, StarterSteps DEF CampaignFault

\* A call stays about its campaign, and as it should be.
CallReal(k) ==
    /\ pc[k] # "idle" => call[k].about \in Campaigns
    /\ pc[k] \in {"update", "signal"} => call[k].op \in Guarded

CallOK(k) == CallReal(k)' /\ CallerInv(k)'

LEMMA OthersGoOn ==
    ASSUME Inv, [Next]_vars, NEW p \in Procs, OthersStay(p)
    PROVE  /\ \A c \in Campaigns \ {p} : RunnerInv(c)' /\ Closes(c)
           /\ \A k \in Callers \ {p} : CallOK(k)
<1>1. ASSUME NEW c \in Campaigns \ {p} PROVE RunnerInv(c)' /\ Closes(c)
    BY RunnerStays DEF OthersStay, Procs
<1>2. ASSUME NEW k \in Callers \ {p} PROVE CallOK(k)
    <2>1. pc'[k] = pc[k] /\ copy'[k] = copy[k] /\ result'[k] = result[k] /\ call'[k] = call[k]
        BY <1>2 DEF OthersStay, Procs
    <2>2. CallerInv(k)'
        BY <1>2, <2>1, CallerStays
    <2> QED BY <1>2, <2>1, <2>2 DEF Inv, CallsAreReal, CallReal, CallOK
<1> QED BY <1>1, <1>2

\* A call that is over.
LEMMA CallEnds ==
    ASSUME NEW k \in Callers, pc'[k] = "idle"
    PROVE  CallOK(k)
BY DEF CallOK, CallReal, CallerInv

\* A call that begins, or goes on to signal.
LEMMA CallBegins ==
    ASSUME Inv, [Next]_vars, NEW k \in Callers, NEW c \in Campaigns, NEW op \in {"manual"} \cup Guarded,
           NEW l \in {"read", "update", "signal"}, Goto(k, l),
           status[c] # "none", call'[k] = [op |-> op, about |-> c],
           l # "read" => op \in Guarded,
           l = "update" => copy'[k] \in Accepted(op)
    PROVE  CallOK(k)
<1>1. PcOK /\ l \in CallerPcs
    BY TypeParts DEF Inv, CallerPcs, AttemptTask
<1>2. pc'[k] = l
    BY <1>1, CallerMoves
<1>3. call'[k].op = op /\ call'[k].about = c
    OBVIOUS
<1>4. status'[c] # "none"
    BY RowsStay
<1> QED BY <1>2, <1>3, <1>4 DEF CallOK, CallReal, CallerInv

\* A call that does not wake a runner leaves the others alone.
LEMMA CallStaysAlone ==
    ASSUME Inv, NEW k \in Callers, NEW l \in CallerPcs, Goto(k, l), NEW called, Held(k),
           UNCHANGED call \/ call' = [call EXCEPT ![k] = called]
    PROVE  OthersStay(k)
<1>1. \A p \in Procs \ {k} : pc'[p] = pc[p]
    BY CallerMoves, TypeParts DEF Inv
<1>2. \A q \in Callers \ {k} : call'[q] = call[q]
    BY TypeParts DEF Inv, ClientsOK
<1>3. \A p \in Procs \ {k} : copy'[p] = copy[p] /\ result'[p] = result[p]
    BY HeldTypes, TypeParts DEF Inv, Procs
<1> QED BY <1>1, <1>2, <1>3 DEF OthersStay

\* The attempt of a manual call.
LEMMA CallAttempts ==
    ASSUME Inv, [Next]_vars, NEW k \in Callers, AttemptNext(k) \/ CountersUnwritten(k)
    PROVE  CallOK(k) /\ OthersStay(k)
<1>1. k \in Procs /\ CampaignOf(k) = call[k].about /\ k \notin Campaigns
    BY Bounds DEF Procs, CampaignOf
<1>2. AttemptGoes(k) /\ OthersStay(k) /\ (pc'[k] \in {"charge", "record"} => call' = call)
    BY <1>1, AttemptSteps DEF Inv
<1>3. CASE pc'[k] = "idle"
    BY <1>2, <1>3, CallEnds
<1>4. CASE pc'[k] # "idle"
    <2>1. pc[k] # "idle" /\ call'[k] = call[k]
        BY <1>1, <1>2, <1>4 DEF AttemptGoes
    <2>2. PICK c \in Campaigns :
             /\ c = call[k].about /\ status[c] # "none"
             /\ status[c] = "recovered" => c \in accepted
             /\ status[c] = "failed" => GivenUp(c)
        BY <2>1 DEF Inv, CallsAreReal, CallerInv, RowInv
    <2>3. accepted \subseteq accepted' /\ (GivenUp(c) => GivenUp(c)') /\ status'[c] # "none"
        BY <2>2, HistoryGrows, RowsStay, GivenUpStays DEF Inv
    <2>4. ASSUME pc'[k] \in {"charge", "record"} => CopyOK(k, c)',
                 pc'[k] \in {"record", "recover"} /\ result'[k] = "succeeded" => c \in accepted',
                 pc'[k] = "recover" => result'[k] = "succeeded",
                 pc'[k] \notin {"update", "signal"}
          PROVE  CallOK(k)
        <3>1. call'[k].about = c
            BY <2>1, <2>2
        <3> QED BY <2>2, <2>3, <2>4, <3>1 DEF CallOK, CallReal, CallerInv
    <2>5. CASE pc[k] = "read" /\ pc'[k] = "charge" /\ copy'[k] = status[c]
        <3>1. CopyOK(k, c)'
            BY <2>1, <2>2, <2>3, <2>5 DEF CopyOK
        <3> QED BY <1>2, <2>4, <2>5, <3>1
    <2>6. CASE pc[k] \in {"charge", "record"}
        <3>1. CopyOK(k, c) /\ (pc[k] = "record" /\ result[k] = "succeeded" => c \in accepted)
            BY <2>2, <2>6 DEF Inv, CallerInv
        <3>2. CASE /\ pc[k] = "charge" /\ pc'[k] = "record" /\ copy'[k] = copy[k]
                   /\ result'[k] = "succeeded" => c \in accepted'
            <4>1. CopyOK(k, c)'
                BY <2>1, <2>3, <3>1, <3>2 DEF CopyOK
            <4> QED BY <1>2, <2>4, <3>2, <4>1
        <3>3. CASE /\ pc[k] = "record" /\ result'[k] = result[k]
                   /\ pc'[k] = "recover" /\ result[k] = "succeeded"
            BY <1>2, <2>3, <2>4, <3>1, <3>3
        <3> QED BY <1>1, <1>2, <1>4, <2>2, <2>6, <3>2, <3>3 DEF AttemptGoes
    <2> QED BY <1>1, <1>2, <1>4, <2>2, <2>5, <2>6 DEF AttemptGoes
<1> QED BY <1>2, <1>3, <1>4

\* A signal wakes its runner or nobody.
LEMMA CallSignals ==
    ASSUME Inv, [Next]_vars, NEW k \in Callers, Signal(k)
    PROVE  /\ \A c \in Campaigns : RunnerInv(c)' /\ Closes(c)
           /\ \A j \in Callers : CallOK(j)
<1> DEFINE d == call[k].about
<1>1. SignalMoves(k, d) /\ d \in Campaigns
    BY SignalPc DEF Inv, CallsAreReal, Signal
<1>2. UNCHANGED <<copy, result>> /\ \A j \in Callers \ {k} : call'[j] = call[j]
    BY TypeParts DEF Inv, Signal, ClientsOK
<1>3. ASSUME NEW c \in Campaigns PROVE RunnerInv(c)' /\ Closes(c)
    <2>1. CASE pc'[c] = pc[c]
        BY <1>2, <2>1, RunnerStays
    <2>2. CASE pc[c] \in {"wait", "parked"} /\ pc'[c] \in {"cancelled", "parked", "read"}
        BY <1>2, <2>2, RunnerGoesOn DEF Closes, ClosedPcs
    <2> QED BY <1>1, <2>1, <2>2, Bounds DEF SignalMoves, Procs
<1>4. ASSUME NEW j \in Callers PROVE CallOK(j)
    <2>1. CASE j = k
        BY <1>1, <2>1, CallEnds DEF SignalMoves
    <2>2. CASE j # k
        <3>1. pc'[j] = pc[j]
            BY <1>1, <2>2, Bounds DEF SignalMoves, Procs
        <3>2. CallerInv(j)'
            BY <1>2, <2>2, <3>1, CallerStays
        <3> QED BY <1>2, <2>2, <3>1, <3>2 DEF Inv, CallsAreReal, CallReal, CallOK
    <2> QED BY <2>1, <2>2
<1> QED BY <1>3, <1>4

\* A call.
LEMMA CallerSteps ==
    ASSUME Inv, [Next]_vars, NEW k \in Callers, CallerNext(k)
    PROVE  /\ \A c \in Campaigns : RunnerInv(c)' /\ Closes(c)
           /\ \A j \in Callers : CallOK(j)
<1>1. k \in Procs /\ k \notin Campaigns /\ CampaignOf(k) = call[k].about
    BY Bounds DEF Procs, CampaignOf
<1>2. ASSUME CallOK(k), OthersStay(k)
      PROVE  (\A c \in Campaigns : RunnerInv(c)' /\ Closes(c)) /\ \A j \in Callers : CallOK(j)
    <2>1. /\ \A c \in Campaigns \ {k} : RunnerInv(c)' /\ Closes(c)
          /\ \A j \in Callers \ {k} : CallOK(j)
        BY <1>1, <1>2, OthersGoOn
    <2>2. \A j \in Callers : CallOK(j)
        BY <1>2, <2>1
    <2>3. Campaigns \ {k} = Campaigns
        BY <1>1
    <2> QED BY <2>1, <2>2, <2>3
<1>3. {"idle", "read", "update", "signal"} \subseteq CallerPcs
    BY DEF CallerPcs, AttemptTask
<1>4. ClientsOK /\ CopiesOK /\ PcOK /\ Held(k)
    BY TypeParts, HeldByCaller DEF Inv
<1>5. ASSUME NEW c \in Campaigns, TriggerManualAttempt(k, c) PROVE CallOK(k) /\ OthersStay(k)
    <2>1. /\ Goto(k, "read") /\ status[c] # "none"
          /\ call' = [call EXCEPT ![k] = [op |-> "manual", about |-> c]]
        BY <1>5 DEF TriggerManualAttempt, Begin
    <2>2. call'[k] = [op |-> "manual", about |-> c]
        BY <1>4, <2>1 DEF ClientsOK
    <2>3. CallOK(k)
        BY <2>1, <2>2, CallBegins
    <2>4. OthersStay(k)
        BY <1>3, <1>4, <2>1, CallStaysAlone
    <2> QED BY <2>3, <2>4
<1>6. ASSUME NEW c \in Campaigns, NEW op \in Guarded, FindCampaign(k, op, c) PROVE CallOK(k) /\ OthersStay(k)
    <2>1. /\ Goto(k, "update") /\ status[c] # "none" /\ status[c] \in Accepted(op)
          /\ call' = [call EXCEPT ![k] = [op |-> op, about |-> c]]
          /\ copy' = [copy EXCEPT ![k] = status[c]]
        BY <1>6 DEF FindCampaign, Begin
    <2>2. call'[k] = [op |-> op, about |-> c] /\ copy'[k] \in Accepted(op)
        BY <1>1, <1>4, <2>1 DEF ClientsOK, CopiesOK
    <2>3. CallOK(k)
        BY <2>1, <2>2, CallBegins
    <2>4. OthersStay(k)
        BY <1>3, <1>4, <2>1, CallStaysAlone
    <2> QED BY <2>3, <2>4
<1>7. CASE UpdateCampaign(k)
    <2>1. pc[k] = "update" /\ Goto(k, "signal") /\ UNCHANGED call
        BY <1>7 DEF UpdateCampaign, clients
    <2>2. /\ call[k] \in Calls /\ call[k].about \in Campaigns /\ call[k].op \in Guarded
          /\ status[call[k].about] # "none"
        BY <1>4, <2>1 DEF Inv, CallsAreReal, CallerInv, ClientsOK
    <2>3. call'[k] = [op |-> call[k].op, about |-> call[k].about]
        BY <2>1, <2>2 DEF Calls
    <2>4. CallOK(k)
        BY <2>1, <2>2, <2>3, CallBegins
    <2>5. OthersStay(k)
        BY <1>3, <1>4, <2>1, CallStaysAlone
    <2> QED BY <1>2, <2>4, <2>5
<1>8. CASE MarkManualRecovered(k) \/ CallFails(k)
    <2>1. Goto(k, "idle") /\ call' = [call EXCEPT ![k] = NoCall]
        BY <1>8 DEF MarkManualRecovered, CallFails, Return
    <2>2. OthersStay(k)
        BY <1>3, <1>4, <2>1, CallStaysAlone
    <2>3. pc'[k] = "idle"
        BY <1>3, <1>4, <2>1, CallerMoves
    <2> QED BY <1>2, <2>2, <2>3, CallEnds
<1>9. CASE AttemptNext(k) \/ CountersUnwritten(k)
    BY <1>2, <1>9, CallAttempts
<1>10. CASE Signal(k)
    BY <1>10, CallSignals
<1> QED BY <1>2, <1>5, <1>6, <1>7, <1>8, <1>9, <1>10 DEF CallerNext

\* Every step is good for every runner and every call.
LEMMA AllSteps ==
    ASSUME Inv, [Next]_vars
    PROVE  /\ \A c \in Campaigns : RunnerInv(c)' /\ Closes(c)
           /\ \A k \in Callers : CallOK(k)
<1>1. ASSUME NEW c \in Campaigns, StarterNext(c) \/ RunnerNext(c) \/ CampaignFault(c)
      PROVE  (\A d \in Campaigns : RunnerInv(d)' /\ Closes(d)) /\ \A k \in Callers : CallOK(k)
    <2>1. StepOK(c)
        BY <1>1, StarterSteps, RunnerSteps, FaultSteps
    <2>2. c \in Procs /\ Callers \ {c} = Callers
        BY Bounds DEF Procs
    <2>3. /\ \A d \in Campaigns \ {c} : RunnerInv(d)' /\ Closes(d)
          /\ \A k \in Callers \ {c} : CallOK(k)
        BY <2>1, <2>2, OthersGoOn DEF StepOK
    <2> QED BY <2>1, <2>2, <2>3 DEF StepOK
<1>2. ASSUME UNCHANGED <<pc, copy, result, call>>
      PROVE  (\A d \in Campaigns : RunnerInv(d)' /\ Closes(d)) /\ \A k \in Callers : CallOK(k)
    <2>1. ASSUME NEW c \in Campaigns PROVE RunnerInv(c)' /\ Closes(c)
        BY <1>2, RunnerStays
    <2>2. ASSUME NEW k \in Callers PROVE CallOK(k)
        <3>1. CallerInv(k)'
            BY <1>2, CallerStays
        <3> QED BY <1>2, <3>1 DEF Inv, CallsAreReal, CallReal, CallOK
    <2> QED BY <2>1, <2>2
<1>3. CASE \E c \in Campaigns : StarterNext(c) \/ RunnerNext(c) \/ CampaignFault(c)
    BY <1>1, <1>3
<1>4. CASE \E k \in Callers : CallerNext(k)
    BY <1>4, CallerSteps
<1>5. CASE (\E c \in Campaigns : CreateCampaign(c)) \/ MerchantCancels \/ BillingNext \/ UNCHANGED vars
    BY <1>2, <1>5, OthersAlone DEF CreateCampaign, vars, clients
<1> QED BY <1>3, <1>4, <1>5 DEF Next

----------------------------------------------------------------------------
(* The theorems.                                                           *)

\* A closed campaign is opened again only by a write of what was read before.
LEMMA ClosedStays ==
    ASSUME Inv, [Next]_vars, NEW c \in Campaigns
    PROVE  ClosedInv(c)'
<1>1. TypeOK /\ CallsAreReal /\ RunnerInv(c) /\ ClosedInv(c) /\ Closes(c)
    BY AllSteps DEF Inv
<1>2. lost \subseteq lost'
    BY <1>1, HowStatusChanges
<1>3. ASSUME pc[c] \in ClosedPcs PROVE status'[c] \in Terminal \/ c \in lost'
    <2>1. status[c] # "none" /\ (status[c] \in Terminal \/ c \in lost')
        BY <1>1, <1>2, <1>3 DEF RunnerInv, ClosedInv, ClosedPcs
    <2>2. CASE status'[c] = status[c]
        BY <2>1, <2>2
    <2>3. ASSUME NEW w \in Statuses, StatusWritten(c, w), status'[c] = w
          PROVE  status'[c] \in Terminal \/ c \in lost'
        <3>1. ASSUME NEW k \in Callers, pc[k] = "update", call[k].about = c, status[c] = copy[k]
              PROVE  c \in lost'
            <4>1. status[c] \in {"active", "paused"}
                BY <1>1, <3>1, WrittenStatus DEF Inv, CallerInv, CallsAreReal
            <4> QED BY <2>1, <4>1 DEF Terminal
        <3>2. "recovered" \in Terminal /\ "failed" \in Terminal
            BY DEF Terminal
        <3> QED BY <2>1, <2>3, <3>1, <3>2 DEF StatusWritten
    <2> QED BY <1>1, <2>2, <2>3, HowStatusChanges, TypeParts DEF StatusOK
<1> QED BY <1>1, <1>3 DEF ClosedInv, Closes

LEMMA InvStarts ==
    ASSUME Init
    PROVE  Inv
<1>1. TypeOK
    <2>1. PcOK /\ StartersOK
        BY DEF Init, PcOK, StartersOK, RunnerPcs, CallerPcs, Procs
    <2>2. RunnersOK /\ HistoryOK /\ GhostsOK
        <3>1. unwritten \in BOOLEAN
            BY DEF Init
        <3> QED BY <3>1, Bounds DEF Init, RunnersOK, HistoryOK, GhostsOK
    <2>3. CopiesOK /\ StatusOK /\ RowsOK
        BY DEF Init, CopiesOK, StatusOK, RowsOK, Statuses, Subscriptions, Invoices, Outstanding
    <2>4. ClientsOK
        <3>1. NoCall \in Calls
            BY DEF NoCall, Calls
        <3> QED BY <3>1, Bounds DEF Init, ClientsOK
    <2>5. CyclesOK
        BY Bounds DEF Init, CyclesOK, Cycles, NoBilling
    <2> QED BY <2>1, <2>2, <2>3, <2>4, <2>5, TypeParts
<1>2. CallsAreReal /\ \A k \in Callers : CallerInv(k)
    BY DEF Init, CallsAreReal, CallerInv, Procs
<1>3. \A c \in Campaigns : RunnerInv(c) /\ RowInv(c) /\ StartsOnce(c) /\ ClosedInv(c)
    BY DEF Init, RunnerInv, RowInv, StartsOnce, ClosedInv, ClosedPcs, Procs
<1>4. CyclesInv
    BY DEF Init, CyclesInv, NoBilling
<1> QED BY <1>1, <1>2, <1>3, <1>4 DEF Inv

LEMMA InvStays ==
    ASSUME Inv, [Next]_vars
    PROVE  Inv'
<1>1. TypeOK' /\ CyclesInv'
    BY TypesStay DEF Inv
<1>2. CallsAreReal'
    BY AllSteps DEF CallOK, CallReal, CallsAreReal
<1>3. \A c \in Campaigns : RunnerInv(c)' /\ RowInv(c)' /\ StartsOnce(c)' /\ ClosedInv(c)'
    BY AllSteps, RowsStay, StartsOnceStays, ClosedStays
<1>4. \A k \in Callers : CallerInv(k)'
    BY AllSteps DEF CallOK
<1> QED BY <1>1, <1>2, <1>3, <1>4 DEF Inv

LEMMA SpecKeepsInv == Spec => []Inv
BY InvStarts, InvStays, PTL DEF Spec

\* Every variable stays in its domain, whatever the policies and the faults.
THEOREM DunningTypeCorrect == Spec => []TypeOK
<1>1. Inv => TypeOK
    BY DEF Inv
<1> QED BY <1>1, SpecKeepsInv, PTL

\* A campaign is called recovered only after the gateway answered a charge for it without an
\* error: what a runner or a call writes, it was answered, or has read of the row itself.
THEOREM RecoveredWasAlwaysAccepted == Spec => []RecoveredWasAccepted
<1>1. Inv => RecoveredWasAccepted
    BY DEF Inv, RowInv, RecoveredWasAccepted
<1> QED BY <1>1, SpecKeepsInv, PTL

\* A campaign that is given up leaves an invoice that is closed for good, unless the sweep
\* had not built it, or wrote an older copy back, or a write failed and was logged:
\* FailCampaignAndCancelSubscription and UpdateCampaignWithAttemptResult mark it last.
THEOREM GivenUpIsAlwaysUncollectable == Spec => []GivenUpIsUncollectable
<1>1. Inv => GivenUpIsUncollectable
    BY DEF Inv, RowInv, GivenUp, Dealt, GivenUpIsUncollectable
<1> QED BY <1>1, SpecKeepsInv, PTL

\* A runner that has come to its own end leaves its campaign closed, unless someone who
\* had read the campaign before wrote over that.
THEOREM RunnersCloseCampaigns == Spec => []RunnerClosesCampaign
<1>1. Inv => RunnerClosesCampaign
    BY DEF Inv, ClosedInv, ClosedPcs, RunnerClosesCampaign
<1> QED BY <1>1, SpecKeepsInv, PTL

----------------------------------------------------------------------------
(* Who answers for a suspended subscription.                               *)

\* Before its runner is started a campaign is at its first retry.
NotStarted(c) == pc[c] = "idle" => step[c] = 1

\* A runner that waits for a retry or is at work on one has not used them up.
WorkPcs == {"wait", "parked", "read", "charge", "record", "apply"}
HasRetries(c) == pc[c] \in WorkPcs => step[c] <= Last(c)

\* A runner that is about to suspend will know that it did, and goes on afterwards.
SuspenderGoesOn(c) == pc[c] = "suspend" => WasSubscriptionSuspended(c) /\ ~GivesUp(c)

\* The runner knows that the subscription was suspended and has not had its last word.
Responsible(c) ==
    /\ WasSubscriptionSuspended(c)
    /\ pc[c] \notin {"idle", "closed", "fail"}
    /\ pc[c] \in {"write off", "update invoice"} => ~GivesUp(c)

Answered == \A c \in suspender : unwritten \/ Responsible(c)

SuspensionInv ==
    /\ suspender # {} => sub = "unpaid"
    /\ \A c \in Campaigns : NotStarted(c) /\ HasRetries(c)
    /\ SuspendsLate => Answered /\ \A c \in Campaigns : SuspenderGoesOn(c)

LEMMA PolicyTypes ==
    ASSUME NEW c \in Campaigns
    PROVE  /\ Policy[c].immediate \in Nat /\ Policy[c].progressive \in Nat
           /\ Policy[c].suspendAfter \in Nat /\ Policy[c].cancelAfter \in Nat
           /\ Last(c) \in Nat
BY PolicyAssumption DEF PolicyAssumption, PolicyRecord, Last

\* The hint is not forgotten: attempts of the progressive phase are numbered upwards.
LEMMA HintStays ==
    ASSUME TypeOK, NEW c \in Campaigns, WasSubscriptionSuspended(c),
           step'[c] = step[c] \/ step'[c] = step[c] + 1
    PROVE  WasSubscriptionSuspended(c)'
<1>1. step[c] \in Nat
    BY TypeParts DEF RunnersOK
<1> QED BY <1>1, PolicyTypes DEF WasSubscriptionSuspended, Reached, AttemptNumber

\* A policy that does not suspend in the immediate phase suspends with the hint.
LEMMA SuspendsWithHint ==
    ASSUME TypeOK, SuspendsLate, NEW c \in Campaigns, Reached(c, Policy[c].suspendAfter)
    PROVE  WasSubscriptionSuspended(c)
<1>1. step[c] \in Nat \ {0}
    BY TypeParts DEF RunnersOK
<1>2. Policy[c].suspendAfter \notin 1 .. Policy[c].immediate
    BY DEF SuspendsLate
<1> QED BY <1>1, <1>2, PolicyTypes DEF WasSubscriptionSuspended, Reached, AttemptNumber

\* The row shows c's suspension after the step, and c answered for it before if it did then.
Shown(c) == SuspendsLate /\ c \in suspender' /\ ~unwritten' /\ (Responsible(c) \/ c \notin suspender)

\* What a step owes to the campaign c.
KeepsAnswer(c) ==
    /\ NotStarted(c)' /\ HasRetries(c)'
    /\ SuspendsLate => SuspenderGoesOn(c)'
    /\ Shown(c) => Responsible(c)'

\* It owes nothing more to a campaign whose runner it does not move.
LEMMA OthersKeepAnswer ==
    ASSUME TypeOK, SuspensionInv, NEW c \in Campaigns, pc'[c] = pc[c], step'[c] = step[c],
           c \in suspender' => c \in suspender
    PROVE  KeepsAnswer(c)
<1>1. NotStarted(c)' /\ HasRetries(c)'
    BY DEF SuspensionInv, NotStarted, HasRetries, Last
<1>2. /\ WasSubscriptionSuspended(c) => WasSubscriptionSuspended(c)'
      /\ GivesUp(c)' => GivesUp(c)
    BY HintStays DEF GivesUp, Reached, AttemptNumber, Last
<1> QED BY <1>1, <1>2 DEF SuspensionInv, SuspenderGoesOn, Responsible, KeepsAnswer, Shown

\* The runner goes from place to place within a retry.
LEMMA MoveKeepsAnswer ==
    ASSUME TypeOK, SuspensionInv, NEW c \in Campaigns, NEW l \in RunnerPcs \ {"idle"}, Goto(c, l),
           UNCHANGED step, pc[c] # "idle",
           l \in WorkPcs => step[c] <= Last(c),
           l = "suspend" /\ SuspendsLate => WasSubscriptionSuspended(c) /\ ~GivesUp(c),
           Shown(c) => /\ WasSubscriptionSuspended(c) /\ l \notin {"closed", "fail"}
                       /\ l \in {"write off", "update invoice"} => ~GivesUp(c)
    PROVE  KeepsAnswer(c)
<1>1. pc'[c] = l
    BY RunnerMoves, TypeParts
<1>2. step'[c] = step[c]
    OBVIOUS
<1>3. /\ WasSubscriptionSuspended(c)' <=> WasSubscriptionSuspended(c)
      /\ GivesUp(c)' <=> GivesUp(c)
      /\ Last(c)' = Last(c)
    BY <1>2 DEF WasSubscriptionSuspended, GivesUp, Reached, AttemptNumber, Last
<1>4. NotStarted(c)' /\ HasRetries(c)'
    BY <1>1, <1>2, <1>3 DEF SuspensionInv, NotStarted, HasRetries
<1> QED BY <1>1, <1>3, <1>4 DEF KeepsAnswer, SuspenderGoesOn, Responsible

\* The runner goes on to its next retry, or ends because it finds its campaign closed.
LEMMA AnswerKeepsAnswer ==
    ASSUME TypeOK, SuspensionInv, NEW c \in Campaigns, NEW read, TaskAnswers(c, read), pc[c] # "idle",
           Shown(c) => WasSubscriptionSuspended(c)
    PROVE  KeepsAnswer(c)
<1>1. CASE read \in Terminal
    <2>1. Goto(c, "found closed") /\ UNCHANGED step
        BY <1>1 DEF TaskAnswers
    <2>2. "found closed" \in RunnerPcs
        BY DEF RunnerPcs, Ended
    <2> QED BY <2>1, <2>2, MoveKeepsAnswer DEF WorkPcs
<1>2. CASE read \notin Terminal
    <2>1. step' = [step EXCEPT ![c] = @ + 1] /\ Goto(c, After(c, step[c]))
        BY <1>2 DEF TaskAnswers, NextRetry
    <2>2. step[c] \in Nat \ {0} /\ step'[c] = step[c] + 1
        BY <2>1, TypeParts DEF RunnersOK
    <2>3. After(c, step[c]) \in {"wait", "exhaust"} /\ {"wait", "exhaust"} \subseteq RunnerPcs
        BY DEF After, RunnerPcs
    <2>4. pc'[c] = After(c, step[c])
        BY <2>1, <2>3, RunnerMoves, TypeParts
    <2>5. pc'[c] = "wait" => step'[c] <= Last(c)
        BY <2>2, <2>4, PolicyTypes DEF After
    <2>6. NotStarted(c)'
        BY <2>3, <2>4 DEF NotStarted
    <2>7. HasRetries(c)'
        BY <2>3, <2>4, <2>5 DEF HasRetries, WorkPcs, Last
    <2>8. WasSubscriptionSuspended(c) => WasSubscriptionSuspended(c)'
        BY <2>2, HintStays
    <2> QED BY <2>3, <2>4, <2>6, <2>7, <2>8 DEF KeepsAnswer, SuspenderGoesOn, Responsible
<1> QED BY <1>1, <1>2

\* The write-off is over: the runner gives up, goes on or ends.
LEMMA WriteOffKeepsAnswer ==
    ASSUME TypeOK, SuspensionInv, NEW c \in Campaigns, pc[c] \in {"write off", "update invoice"},
           WrittenOff(c), c \in suspender' => c \in suspender
    PROVE  KeepsAnswer(c)
<1>1. CASE GivesUp(c)
    <2>1. Goto(c, "fail") /\ UNCHANGED step /\ ~Responsible(c)
        BY <1>1 DEF WrittenOff, GoesOn, Responsible
    <2>2. "fail" \in RunnerPcs
        BY DEF RunnerPcs, ResultTask
    <2> QED BY <2>1, <2>2, MoveKeepsAnswer DEF WorkPcs, Shown
<1>2. CASE ~GivesUp(c)
    BY <1>2, AnswerKeepsAnswer DEF WrittenOff, Responsible, Shown
<1> QED BY <1>1, <1>2

\* The runner's own steps, and what may fail about it.
LEMMA RunnerKeepsAnswer ==
    ASSUME TypeOK, SuspensionInv, NEW c \in Campaigns, RunnerNext(c)
    PROVE  KeepsAnswer(c)
<1>1. /\ {"read", "charge", "record", "apply", "look up", "reactivate", "suspend", "cancel", "write off",
          "update invoice", "fail", "closed"} \subseteq RunnerPcs \ {"idle"}
      /\ c \in Procs
    BY DEF RunnerPcs, AttemptTask, ResultTask, Ended, Procs
<1>2. HasRetries(c)
    BY DEF SuspensionInv
<1>3. CASE IntervalElapses(c)
    <2>1. pc[c] = "wait" /\ Goto(c, "read") /\ UNCHANGED <<step, suspender>>
        BY <1>3 DEF IntervalElapses, runners, history
    <2> QED BY <1>1, <1>2, <2>1, MoveKeepsAnswer DEF HasRetries, WorkPcs, Responsible, Shown
<1>4. CASE AttemptNext(c)
    <2>1. PICK l \in {"charge", "record", "apply"} : Goto(c, l)
        BY <1>4, <1>1 DEF AttemptNext, ReadForAttempt, ChargePayment, RecordAttempt, AfterAttempt
    <2>2. pc[c] \in {"read", "charge", "record"} /\ UNCHANGED <<step, suspender>>
        BY <1>4 DEF AttemptNext, ReadForAttempt, ChargePayment, RecordAttempt, runners, history
    <2> QED BY <1>1, <1>2, <2>1, <2>2, MoveKeepsAnswer DEF HasRetries, WorkPcs, Responsible, Shown
<1>5. CASE ApplySuccess(c)
    <2>1. /\ pc[c] = "apply" /\ UNCHANGED <<step, suspender>>
          /\ Goto(c, IF WasSubscriptionSuspended(c) THEN "look up" ELSE "closed")
        BY <1>5 DEF ApplySuccess, Close, runners, history
    <2>2. CASE WasSubscriptionSuspended(c)
        BY <1>1, <2>1, <2>2, MoveKeepsAnswer DEF WorkPcs
    <2>3. CASE ~WasSubscriptionSuspended(c)
        BY <1>1, <2>1, <2>3, MoveKeepsAnswer DEF WorkPcs, Responsible, Shown
    <2> QED BY <2>2, <2>3
<1>6. CASE LookUpSubscription(c) \/ Reactivate(c)
    <2>1. pc[c] # "idle" /\ UNCHANGED step
        BY <1>6 DEF LookUpSubscription, Reactivate, runners
    <2>2. \/ Goto(c, "closed") /\ suspender' = {}
          \/ Goto(c, "reactivate") /\ UNCHANGED suspender
        BY <1>6 DEF LookUpSubscription, Reactivate, WriteSubscription, Close, history, SuspensionInv
    <2>3. CASE Goto(c, "closed") /\ suspender' = {}
        BY <1>1, <2>1, <2>3, MoveKeepsAnswer DEF WorkPcs, Shown
    <2>4. CASE Goto(c, "reactivate") /\ UNCHANGED suspender
        BY <1>1, <2>1, <2>4, MoveKeepsAnswer DEF WorkPcs, Responsible, Shown
    <2> QED BY <2>2, <2>3, <2>4
<1>7. CASE ApplyFailure(c)
    <2>1. pc[c] = "apply" /\ step[c] <= Last(c) /\ UNCHANGED suspender
        BY <1>2, <1>7 DEF ApplyFailure, history, HasRetries, WorkPcs
    <2>2. CASE Reached(c, Policy[c].cancelAfter)
        <3>1. Goto(c, "cancel") /\ UNCHANGED step
            BY <1>7, <2>2 DEF ApplyFailure, GoesOn
        <3> QED BY <1>1, <2>1, <3>1, MoveKeepsAnswer DEF WorkPcs, Responsible, Shown
    <2>3. CASE ~Reached(c, Policy[c].cancelAfter) /\ Reached(c, Policy[c].suspendAfter) /\ Suspendable
        <3>1. Goto(c, "suspend") /\ UNCHANGED step
            BY <1>7, <2>3 DEF ApplyFailure
        <3>2. ~GivesUp(c)
            BY <2>1, <2>3, PolicyTypes, TypeParts DEF GivesUp, RunnersOK
        <3>3. SuspendsLate => WasSubscriptionSuspended(c)
            BY <2>3, SuspendsWithHint
        <3> QED BY <1>1, <2>1, <3>1, <3>2, <3>3, MoveKeepsAnswer DEF WorkPcs, Responsible, Shown
    <2>4. CASE TaskAnswers(c, status[c])
        BY <2>1, <2>4, AnswerKeepsAnswer DEF Responsible, Shown
    <2> QED BY <1>7, <2>2, <2>3, <2>4 DEF ApplyFailure
<1>8. CASE Suspend(c)
    <2>1. pc[c] = "suspend" /\ Goto(c, "write off") /\ UNCHANGED step
        BY <1>8 DEF Suspend, runners
    <2>2. SuspendsLate => WasSubscriptionSuspended(c) /\ ~GivesUp(c)
        BY <2>1 DEF SuspensionInv, SuspenderGoesOn
    <2> QED BY <1>1, <2>1, <2>2, MoveKeepsAnswer DEF WorkPcs, Shown
<1>9. CASE CancelSubscription(c)
    <2>1. /\ pc[c] = "cancel" /\ Goto(c, "write off") /\ UNCHANGED step
          /\ suspender' = {}
        BY <1>9 DEF CancelSubscription, CancelAndGoTo, WriteSubscription, runners
    <2> QED BY <1>1, <2>1, MoveKeepsAnswer DEF WorkPcs, Shown
<1>10. CASE FindCurrentCycle(c)
    <2>1. pc[c] = "write off" /\ UNCHANGED suspender
        BY <1>10 DEF FindCurrentCycle
    <2>2. CASE GoesOn(c, "update invoice")
        BY <1>1, <2>1, <2>2, MoveKeepsAnswer DEF GoesOn, WorkPcs, Responsible, Shown
    <2> QED BY <1>10, <2>1, <2>2, WriteOffKeepsAnswer DEF FindCurrentCycle
<1>11. CASE MarkUncollectible(c)
    BY <1>11, WriteOffKeepsAnswer DEF MarkUncollectible, history
<1>12. CASE MarkCampaignFailed(c)
    <2>1. /\ pc[c] = "fail" /\ Goto(c, "closed") /\ UNCHANGED <<step, suspender>>
        BY <1>12 DEF MarkCampaignFailed, Close, runners, history
    <2> QED BY <1>1, <2>1, MoveKeepsAnswer DEF WorkPcs, Responsible, Shown
<1>13. CASE Exhausted(c)
    <2>1. /\ pc[c] = "exhaust" /\ UNCHANGED <<step, suspender>>
          /\ Goto(c, IF sub # "cancelled" THEN "cancel" ELSE "write off")
        BY <1>13 DEF Exhausted, history
    <2>2. CASE sub # "cancelled"
        BY <1>1, <2>1, <2>2, MoveKeepsAnswer DEF WorkPcs, Responsible, Shown
    <2>3. CASE sub = "cancelled"
        BY <1>1, <2>1, <2>3, MoveKeepsAnswer DEF WorkPcs, Shown, SuspensionInv
    <2> QED BY <2>2, <2>3
<1> QED BY <1>3, <1>4, <1>5, <1>6, <1>7, <1>8, <1>9, <1>10, <1>11, <1>12, <1>13 DEF RunnerNext

LEMMA FaultKeepsAnswer ==
    ASSUME TypeOK, SuspensionInv, NEW c \in Campaigns, StarterNext(c) \/ CampaignFault(c), StartsOnce(c)
    PROVE  KeepsAnswer(c)
<1>1. /\ {"wait", "read", "apply", "cancel", "write off", "fail", "closed", "exhaust", "failed"}
             \subseteq RunnerPcs \ {"idle"}
      /\ c \in Procs
    BY DEF RunnerPcs, AttemptTask, ResultTask, Ended, Procs
<1>2. NotStarted(c) /\ HasRetries(c)
    BY DEF SuspensionInv
<1>3. CASE StartDunningWorkflow(c)
    <2>1. pc[c] = "idle" /\ step[c] = 1 /\ step'[c] = step[c] /\ UNCHANGED suspender
        BY <1>2, <1>3 DEF StartDunningWorkflow, StartsOnce, NotStarted, runners, history
    <2>2. PICK l \in {"wait", "exhaust", "failed"} : Goto(c, l) /\ (l = "wait" => 0 < Last(c))
        BY <1>3 DEF StartDunningWorkflow, StartRunner, After
    <2>3. pc'[c] = l
        BY <1>1, <2>2, RunnerMoves, TypeParts
    <2>4. NotStarted(c)'
        BY <2>1, <2>3 DEF NotStarted
    <2>5. HasRetries(c)'
        BY <2>1, <2>2, <2>3, PolicyTypes DEF HasRetries, WorkPcs, Last
    <2> QED BY <2>1, <2>3, <2>4, <2>5 DEF KeepsAnswer, SuspenderGoesOn, Responsible, Shown
<1>4. CASE StoreHandle(c) \/ StarterFails(c)
    <2>1. UNCHANGED <<pc, step, suspender>>
        BY <1>4 DEF StoreHandle, StarterFails, runners, history
    <2> QED BY <2>1, OthersKeepAnswer
<1>5. CASE CountersUnwritten(c)
    <2>1. pc[c] = "record" /\ Goto(c, "apply") /\ UNCHANGED <<step, suspender>>
        BY <1>5 DEF CountersUnwritten, AfterAttempt, history
    <2> QED BY <1>1, <1>2, <2>1, MoveKeepsAnswer DEF HasRetries, WorkPcs, Responsible, Shown
<1>6. CASE LeftUnwritten(c)
    <2>1. unwritten' = TRUE /\ UNCHANGED suspender
        BY <1>6 DEF LeftUnwritten
    <2>2. CASE pc[c] \in {"look up", "reactivate", "cancel", "exhaust"} /\ UNCHANGED step
               /\ \E l \in {"closed", "write off", "fail"} : Goto(c, l)
        BY <1>1, <2>1, <2>2, MoveKeepsAnswer DEF WorkPcs, Shown
    <2>3. CASE pc[c] = "suspend" /\ TaskAnswers(c, copy[c])
        BY <2>1, <2>3, AnswerKeepsAnswer DEF Shown
    <2>4. CASE pc[c] \in {"write off", "update invoice"} /\ WrittenOff(c)
        BY <2>1, <2>4, WriteOffKeepsAnswer
    <2> QED BY <1>6, <2>2, <2>3, <2>4 DEF LeftUnwritten, GoesOn, Close
<1>7. CASE TaskFails(c)
    <2>1. PICK l \in {"read", "apply", "failed"} : Goto(c, l)
        BY <1>7 DEF TaskFails
    <2>2. step[c] <= Last(c) /\ pc[c] # "idle" /\ UNCHANGED <<step, suspender>>
        BY <1>7 DEF TaskFails, AttemptTask, ResultTask
    <2> QED BY <1>1, <2>1, <2>2, MoveKeepsAnswer DEF Responsible, Shown
<1>8. CASE GivingUpFails(c)
    <2>1. PICK l \in {"exhaust", "failed"} : Goto(c, l)
        BY <1>8 DEF GivingUpFails
    <2>2. pc[c] # "idle" /\ UNCHANGED <<step, suspender>>
        BY <1>8 DEF GivingUpFails, runners, history
    <2> QED BY <1>1, <2>1, <2>2, MoveKeepsAnswer DEF Responsible, WorkPcs, Shown
<1> QED BY <1>3, <1>4, <1>5, <1>6, <1>7, <1>8 DEF StarterNext, CampaignFault

\* A step of a campaign leaves the others where they are, and shows no suspension of theirs.
LEMMA CampaignsAlone ==
    ASSUME Inv, [Next]_vars, NEW c \in Campaigns, StarterNext(c) \/ RunnerNext(c) \/ CampaignFault(c)
    PROVE  \A d \in Campaigns \ {c} : pc'[d] = pc[d] /\ step'[d] = step[d]
<1>1. \A d \in Campaigns \ {c} : pc'[d] = pc[d]
    BY StarterSteps, RunnerSteps, FaultSteps DEF StepOK, OthersStay, Procs
<1>2. RunnersOK
    BY TypeParts DEF Inv
<1>3. step' = step \/ step' = [step EXCEPT ![c] = @ + 1]
    BY DEF StarterNext, StartDunningWorkflow, StoreHandle, RunnerNext, IntervalElapses, AttemptNext,
           ReadForAttempt, ChargePayment, RecordAttempt, ApplySuccess, LookUpSubscription, Reactivate,
           ApplyFailure, Suspend, CancelSubscription, CancelAndGoTo, FindCurrentCycle, MarkUncollectible,
           MarkCampaignFailed, Exhausted, CampaignFault, StarterFails, CountersUnwritten, LeftUnwritten,
           TaskFails, GivingUpFails, TaskAnswers, NextRetry, WrittenOff, GoesOn, runners
<1> QED BY <1>1, <1>2, <1>3 DEF RunnersOK

\* A call moves a runner that waits, and nothing else of a campaign.
LEMMA CallsKeepAnswer ==
    ASSUME Inv, SuspensionInv, NEW k \in Callers, CallerNext(k), NEW c \in Campaigns
    PROVE  KeepsAnswer(c)
<1>1. TypeOK /\ CallsAreReal /\ PcOK /\ k \in Procs /\ c \in Procs /\ k # c
    BY TypeParts, Bounds DEF Inv, Procs
<1>2. UNCHANGED <<step, suspender>>
    BY <1>1, Bounds DEF CallerNext, TriggerManualAttempt, FindCampaign, UpdateCampaign, Signal,
        AttemptNext, ReadForAttempt, ChargePayment, RecordAttempt, MarkManualRecovered, CallFails,
        CountersUnwritten, runners, history
<1>3. CASE pc'[c] = pc[c]
    BY <1>1, <1>2, <1>3, OthersKeepAnswer
<1>4. CASE pc[c] \in {"wait", "parked"} /\ pc'[c] \in {"cancelled", "parked", "read"}
    <2>1. NotStarted(c)' /\ HasRetries(c)'
        BY <1>2, <1>4 DEF SuspensionInv, NotStarted, HasRetries, WorkPcs, Last
    <2>2. WasSubscriptionSuspended(c) => WasSubscriptionSuspended(c)'
        BY <1>1, <1>2, HintStays
    <2> QED BY <1>2, <1>4, <2>1, <2>2 DEF SuspenderGoesOn, Responsible, KeepsAnswer, Shown
<1>5. pc'[c] = pc[c] \/ (pc[c] \in {"wait", "parked"} /\ pc'[c] \in {"cancelled", "parked", "read"})
    <2>1. CASE Signal(k)
        BY <1>1, <2>1, SignalPc DEF SignalMoves
    <2>2. CASE ~Signal(k)
        <3>1. \E l : Goto(k, l)
            BY <1>1, <2>2, Bounds DEF CallerNext, TriggerManualAttempt, FindCampaign, Begin, UpdateCampaign,
                AttemptNext, ReadForAttempt, ChargePayment, RecordAttempt, MarkManualRecovered, CallFails,
                CountersUnwritten, AfterAttempt, Return
        <3> QED BY <1>1, <3>1 DEF Goto, PcOK
    <2> QED BY <2>1, <2>2
<1> QED BY <1>3, <1>4, <1>5

LEMMA SuspendMoves ==
    ASSUME TypeOK, NEW c \in Campaigns, Suspend(c)
    PROVE  pc'[c] # pc[c]
<1>1. PcOK /\ "write off" \in RunnerPcs
    BY TypeParts DEF RunnerPcs, ResultTask
<1>2. pc[c] = "suspend" /\ Goto(c, "write off")
    BY DEF Suspend
<1>3. pc'[c] = "write off"
    BY <1>1, <1>2, RunnerMoves
<1> QED BY <1>2, <1>3

LEMMA SuspensionInvStays ==
    ASSUME Inv, SuspensionInv, [Next]_vars
    PROVE  SuspensionInv'
<1>1. TypeOK /\ (unwritten' = TRUE \/ unwritten' = unwritten) /\ unwritten \in BOOLEAN
    BY HistoryGrows, TypeParts DEF Inv, HistoryOK
<1>2. suspender' \subseteq Campaigns
    BY HistoryTypes DEF Inv, GhostsOK
<1>3. suspender' # {} => sub' = "unpaid"
    BY SuspendersMove DEF SuspenderMoves, SuspensionInv
<1>4. ASSUME \A c \in Campaigns : KeepsAnswer(c) PROVE SuspensionInv'
    <2>1. SuspendsLate => Answered'
        BY <1>1, <1>2, <1>4 DEF SuspensionInv, Answered, KeepsAnswer, Shown
    <2> QED BY <1>3, <1>4, <2>1 DEF SuspensionInv, KeepsAnswer, SuspendsLate
<1>5. \A c \in Campaigns : c \in suspender' => c \in suspender \/ Suspend(c)
    BY SuspendersMove DEF SuspenderMoves
<1>6. ASSUME NEW c \in Campaigns, StarterNext(c) \/ RunnerNext(c) \/ CampaignFault(c)
      PROVE  SuspensionInv'
    <2>1. KeepsAnswer(c)
        BY <1>1, <1>6, RunnerKeepsAnswer, FaultKeepsAnswer DEF Inv
    <2>2. ASSUME NEW d \in Campaigns \ {c} PROVE KeepsAnswer(d)
        <3>1. pc'[d] = pc[d] /\ step'[d] = step[d]
            BY <1>6, CampaignsAlone
        <3>2. ~Suspend(d)
            BY <3>1, SuspendMoves DEF Inv
        <3> QED BY <1>1, <1>5, <3>1, <3>2, OthersKeepAnswer
    <2> QED BY <1>4, <2>1, <2>2
<1>7. ASSUME NEW k \in Callers, CallerNext(k) PROVE SuspensionInv'
    BY <1>4, <1>7, CallsKeepAnswer
<1>8. CASE (\E c \in Campaigns : CreateCampaign(c)) \/ MerchantCancels \/ BillingNext \/ UNCHANGED vars
    <2>1. UNCHANGED <<pc, step>>
        BY <1>8, OthersAlone DEF CreateCampaign, vars, runners
    <2>2. ASSUME NEW c \in Campaigns PROVE KeepsAnswer(c)
        <3>1. ~Suspend(c)
            BY <2>1, SuspendMoves DEF Inv
        <3> QED BY <1>1, <1>5, <2>1, <3>1, OthersKeepAnswer
    <2> QED BY <1>4, <2>2
<1> QED BY <1>6, <1>7, <1>8 DEF Next

\* A subscription that dunning suspends is not left suspended: as long as nobody else has
\* written the row, the runner that suspended it knows that it did and is still to
\* reactivate or cancel it, or has been stopped by someone, or a write has failed.
THEOREM SuspensionsAreAnswered == Spec => []SuspensionEnds
<1>1. Init => SuspensionInv
    <2>1. Init => \A c \in Campaigns : NotStarted(c) /\ HasRetries(c) /\ SuspenderGoesOn(c)
        BY DEF Init, NotStarted, HasRetries, WorkPcs, SuspenderGoesOn, Procs
    <2> QED BY <2>1 DEF Init, SuspensionInv, Answered
<1>2. Inv /\ SuspensionInv /\ [Next]_vars => SuspensionInv'
    BY SuspensionInvStays
<1>3. Inv /\ SuspensionInv => SuspensionEnds
    <2>1. Inv => \A c \in Campaigns : pc[c] \in RunnerPcs
        BY TypeParts DEF Inv, PcOK
    <2>2. Inv => suspender \subseteq Campaigns
        BY TypeParts DEF Inv, GhostsOK
    <2> QED BY <2>1, <2>2 DEF SuspensionInv, SuspensionEnds, Answered, Responsible, RunnerPcs, Ended, AtWork, Stopped
<1> QED BY <1>1, <1>2, <1>3, SpecKeepsInv, PTL DEF Spec

=============================================================================
