------------------------------ MODULE Checkout ------------------------------
(***************************************************************************)
(* From an order to its first payment: CreateOrder and the coupon hold it  *)
(* reserves, the two ways of completing an order (the merchant's call and  *)
(* the payment-success run started by the PSP's webhook), the redemption   *)
(* of the hold, and the claim that keeps a webhook from being handled      *)
(* twice.  All orders of the model use codes of one coupon.                *)
(*                                                                         *)
(* A transaction is a worker that takes row locks one statement at a time  *)
(* and whose writes become visible when it commits.                        *)
(***************************************************************************)
EXTENDS Integers, FiniteSets

CONSTANTS
    Orders,           \* the orders that may be created
    Codes,            \* the codes of the coupon
    Cart,             \* order -> what it was placed with, see CartRecord
    CouponCap,        \* coupons.max_redemptions; 0 means unlimited
    CodeCap,          \* coupon_codes.max_redemptions; 0 means unlimited
    OncePerCustomer,  \* coupons.once_per_customer
    Customers,        \* the customers who place the orders
    Workers,          \* concurrent transactions
    Payers,           \* the orders whose customer pays the gateway's checkout
    Retries,          \* retries of the complete-order task
    FaultKinds,       \* what may fail: "database", "engine", "process"
    MaxCalls,         \* bound: calls of CompleteOrder
    MaxFaults         \* bound: faults

NoCode  == "no code"
NoOrder == "no order"

CartRecord == [code : Codes \cup {NoCode}, customer : Customers,
               recurring : BOOLEAN,   \* the order carries a subscription
               upfront : BOOLEAN,     \* Config.UpfrontInvoice
               charge : BOOLEAN]      \* the checkout charges an amount

ASSUME CartAssumption == NoCode \notin Codes /\ NoOrder \notin Orders /\ Cart \in [Orders -> CartRecord]

ASSUME LimitAssumption ==
    /\ IsFiniteSet(Orders) /\ Payers \subseteq Orders
    /\ CouponCap \in Nat /\ CodeCap \in Nat /\ OncePerCustomer \in BOOLEAN
    /\ Retries \in Nat /\ MaxCalls \in Nat /\ MaxFaults \in Nat
    /\ FaultKinds \subseteq {"database", "engine", "process"}

VARIABLES
    order,         \* order -> its status
    hold,          \* order -> its coupon reservation: "none", "live", "expired"
    discounts,     \* order -> discounts rows it owns (0, 1 or Many)
    timesRedeemed, \* code -> coupon_codes.times_redeemed
    invoice,       \* order -> status of its cycle-0 invoice, and whether it is discounted
    payments,      \* order -> payments recorded (0, 1 or Many)
    tx,            \* worker -> its transaction
    psp,           \* order -> "unpaid", "owes" a notification, or "acked"
    claim,         \* the webhooks whose idempotency key is claimed
    handler,       \* the webhooks being handled
    run,           \* order -> its payment-success run
    tries,         \* order -> failed attempts of the run's complete-order task
    timely,        \* orders redeemed while their hold was live (history)
    calls,         \* calls of CompleteOrder so far
    faults         \* faults so far

coupon  == <<hold, discounts, timesRedeemed, timely>>
books   == <<invoice, payments>>
webhook == <<psp, claim, handler>>
runs    == <<run, tries>>
vars    == <<order, coupon, books, tx, webhook, runs, calls, faults>>

Many == 2
CountUp(n) == IF n < Many THEN n + 1 ELSE Many

NoTx  == [op |-> "none", order |-> NoOrder, pc |-> "idle", paid |-> FALSE, used |-> "none"]
Begin(op, o, pc, paid) == [op |-> op, order |-> o, pc |-> pc, paid |-> paid, used |-> "none"]

NoInvoice == [status |-> "none", discounted |-> FALSE]

Init ==
    /\ order = [o \in Orders |-> "none"]
    /\ hold = [o \in Orders |-> "none"]
    /\ discounts = [o \in Orders |-> 0]
    /\ timesRedeemed = [c \in Codes |-> 0]
    /\ invoice = [o \in Orders |-> NoInvoice]
    /\ payments = [o \in Orders |-> 0]
    /\ tx = [w \in Workers |-> NoTx]
    /\ psp = [o \in Orders |-> "unpaid"]
    /\ claim = {}
    /\ handler = {}
    /\ run = [o \in Orders |-> "none"]
    /\ tries = [o \in Orders |-> 0]
    /\ timely = {}
    /\ calls = 0
    /\ faults = 0

Fault(kind) == kind \in FaultKinds /\ faults < MaxFaults /\ faults' = faults + 1

----------------------------------------------------------------------------
(* Transactions and their row locks.                                       *)

In(w, ops, pcs) == tx[w].op \in ops /\ tx[w].pc \in pcs

Completes == {"complete", "checkout"}
CodeOf(w) == Cart[tx[w].order].code

\* SELECT ... FOR UPDATE on the order, or the UPDATE of its status.
HoldsOrder(w, o) == In(w, Completes, {"consume", "count", "settle"}) /\ tx[w].order = o

\* Reserve's SELECT ... FOR UPDATE on the coupon.
HoldsCoupon(w) == In(w, {"create"}, {"gate", "insert"})

\* Mutant of SharesCoupon: discounts.coupon_id without its foreign key.
SharesNothing(w) == FALSE

\* The foreign key of an inserted discount locks the coupon FOR KEY SHARE.
SharesCoupon(w) == In(w, Completes, {"count", "settle"}) /\ tx[w].used # "none"

\* Reserve's SELECT ... FOR UPDATE on the code, or the UPDATE of its counter.
HoldsCode(w, c) ==
    /\ \/ In(w, {"create"}, {"coupon", "gate", "insert"})
       \/ In(w, Completes, {"settle"}) /\ tx[w].used # "none"
    /\ CodeOf(w) = c

Others(w) == Workers \ {w}

\* What a transaction waits for: that none of others holds the lock it asks for.
CouponFree(others)  == \A v \in others : ~HoldsCoupon(v) /\ ~SharesCoupon(v)
CodeFree(w, others) == \A v \in others : ~HoldsCode(v, CodeOf(w))

Goto(w, pc) == tx' = [tx EXCEPT ![w].pc = pc]

----------------------------------------------------------------------------
(* CreateOrder.                                                            *)

\* Nobody knows the order's id before CreateOrder has answered.
Creating(o) == \E w \in Workers : tx[w].op = "create" /\ tx[w].order = o

\* What CreateOrder does last: build and open the invoice, if asked to.
AfterReserve(o) == IF Cart[o].upfront THEN Begin("create", o, "invoice", FALSE) ELSE NoTx

\* The order, its items and its subscription are written, and committed, first.
CreateOrder(w, o) ==
    /\ tx[w] = NoTx /\ order[o] = "none"
    /\ order' = [order EXCEPT ![o] = "pending"]
    /\ tx' = [tx EXCEPT ![w] = IF Cart[o].code = NoCode THEN AfterReserve(o)
                               ELSE Begin("create", o, "code", FALSE)]
    /\ UNCHANGED <<coupon, books, webhook, runs, calls, faults>>

\* Reserve locks the code, then the coupon ...
LockCode(w) ==
    /\ In(w, {"create"}, {"code"}) /\ CodeFree(w, Others(w))
    /\ Goto(w, "coupon")
    /\ UNCHANGED <<order, coupon, books, webhook, runs, calls, faults>>

LockCoupon(w) ==
    /\ In(w, {"create"}, {"coupon"}) /\ CouponFree(Others(w))
    /\ Goto(w, "gate")
    /\ UNCHANGED <<order, coupon, books, webhook, runs, calls, faults>>

Live     == {o \in Orders : hold[o] = "live"}
Redeemed == {o \in Orders : discounts[o] > 0}
OfCode(c)     == {o \in Orders : Cart[o].code = c}
OfCustomer(p) == {o \in Orders : Cart[o].customer = p}

\* CountLiveByCode, CountLiveByCoupon
HeldBy(S) == Cardinality(Live \cap S)

\* CountByCoupon
CountByCoupon == Cardinality(Redeemed) + Cardinality({o \in Orders : discounts[o] > 1})

\* The capacity checks of gate, on the code and then on the coupon.
Refused(o) ==
    LET code == Cart[o].code
        mine == OfCustomer(Cart[o].customer)
    IN  \/ CodeCap > 0 /\ timesRedeemed[code] + HeldBy(OfCode(code)) >= CodeCap
        \/ CouponCap > 0 /\ CountByCoupon + HeldBy(Orders) >= CouponCap
        \/ OncePerCustomer /\ (Redeemed \cap mine # {} \/ HeldBy(mine) > 0)

\* ... and asks the gate.  A refusal rolls Reserve back and fails CreateOrder; the
\* order stays behind, pending and without a hold.
Gate(w) ==
    /\ In(w, {"create"}, {"gate"})
    /\ tx' = IF Refused(tx[w].order) THEN [tx EXCEPT ![w] = NoTx]
             ELSE [tx EXCEPT ![w].pc = "insert"]
    /\ UNCHANGED <<order, coupon, books, webhook, runs, calls, faults>>

InsertReservation(w) ==
    /\ In(w, {"create"}, {"insert"})
    /\ hold' = [hold EXCEPT ![tx[w].order] = "live"]
    /\ tx' = [tx EXCEPT ![w] = AfterReserve(tx[w].order)]
    /\ UNCHANGED <<order, discounts, timesRedeemed, timely, books, webhook, runs, calls, faults>>

\* The upfront invoice is discounted by the reservation, expired or not.
BuildUpfrontInvoice(w) ==
    /\ In(w, {"create"}, {"invoice"})
    /\ LET o == tx[w].order IN
       invoice' = [invoice EXCEPT ![o] = [status |-> "open", discounted |-> hold[o] # "none"]]
    /\ tx' = [tx EXCEPT ![w] = NoTx]
    /\ UNCHANGED <<order, coupon, payments, webhook, runs, calls, faults>>

\* Thirty minutes later.  Nobody deletes expired holds: gate does not count them.
HoldExpires(o) ==
    /\ hold[o] = "live"
    /\ hold' = [hold EXCEPT ![o] = "expired"]
    /\ UNCHANGED <<order, discounts, timesRedeemed, timely, books, tx, webhook, runs, calls, faults>>

----------------------------------------------------------------------------
(* Completing an order: CompleteOrder, and CompleteCheckoutSession as the  *)
(* complete-order task of a payment-success run.                           *)

\* CompleteOrder reads the order without a lock, and fails unless it is pending.
CompleteOrder(w, o, paid) ==
    /\ tx[w] = NoTx /\ calls < MaxCalls
    /\ order[o] = "pending" /\ ~Creating(o)
    /\ calls' = calls + 1
    /\ tx' = [tx EXCEPT ![w] = Begin("complete", o, "order", paid)]
    /\ UNCHANGED <<order, coupon, books, webhook, runs, faults>>

CompleteCheckoutSession(w, o) ==
    /\ tx[w] = NoTx /\ run[o] = "queued"
    /\ run' = [run EXCEPT ![o] = "running"]
    /\ tx' = [tx EXCEPT ![w] = Begin("checkout", o, "order", Cart[o].charge)]
    /\ UNCHANGED <<order, coupon, books, webhook, tries, calls, faults>>

\* CompleteCheckoutSession looks at the order it has locked; CompleteOrder's
\* UPDATE goes by the order it read before.
StillToDo(w) == tx[w].op = "complete" \/ order[tx[w].order] = "pending"

RunEnds(w, end) == run' = IF tx[w].op = "checkout" THEN [run EXCEPT ![tx[w].order] = end] ELSE run

LockOrder(w) ==
    /\ In(w, Completes, {"order"})
    /\ \A v \in Others(w) : ~HoldsOrder(v, tx[w].order)
    /\ IF StillToDo(w) THEN Goto(w, "consume") /\ UNCHANGED run
       ELSE tx' = [tx EXCEPT ![w] = NoTx] /\ RunEnds(w, "done")
    /\ UNCHANGED <<order, coupon, books, webhook, tries, calls, faults>>

Using(t, h) == [t EXCEPT !.pc = "count", !.used = h]

\* Consume finds the order's reservation, live or expired, and inserts a discount
\* for it; without one it does nothing.
InsertDiscount(w) ==
    /\ In(w, Completes, {"consume"})
    /\ IF hold[tx[w].order] = "none" THEN Goto(w, "settle")
       ELSE /\ \A v \in Others(w) : ~HoldsCoupon(v)
            /\ tx' = [tx EXCEPT ![w] = Using(@, hold[tx[w].order])]
    /\ UNCHANGED <<order, coupon, books, webhook, runs, calls, faults>>

\* IncrementRedeemed waits for the code; DeleteByOrder follows.
IncrementRedeemed(w) ==
    /\ In(w, Completes, {"count"}) /\ CodeFree(w, Others(w))
    /\ Goto(w, "settle")
    /\ UNCHANGED <<order, coupon, books, webhook, runs, calls, faults>>

\* Mutant of OrderLevel: every discount is anchored on a subscription.
AnchoredOnSubscription(w) == FALSE

\* BuildForOrder: the invoice raised upfront, or a draft.  Its discount is the
\* order-level one just redeemed: ActiveForOrder leaves out a discount that was
\* given to a subscription, and the reservation is gone.
OrderLevel(w) == ~Cart[tx[w].order].recurring \/ (tx[w].op = "checkout" /\ ~tx[w].paid)
OrderInvoice(w) ==
    IF invoice[tx[w].order].status # "none" THEN invoice[tx[w].order]
    ELSE [status |-> "draft", discounted |-> tx[w].used # "none" /\ OrderLevel(w)]

\* Mutant of CanSettle: an order's invoice may be paid again.
SettlesAgain(w) == TRUE

\* SettleOrderInvoice: MarkOpen and MarkPaid refuse an invoice that is paid.
CanSettle(w) == tx[w].paid => OrderInvoice(w).status # "paid"

InvoiceLeft(w) == [status |-> IF tx[w].paid THEN "paid" ELSE OrderInvoice(w).status,
                   discounted |-> OrderInvoice(w).discounted]

\* Mutant of OneMore: the counter counts what is left instead of what is used.
OneLess(n) == n - 1

OneMore(n) == n + 1

\* What the transaction writes becomes visible.
Written(w) ==
    LET o == tx[w].order IN
    /\ order' = [order EXCEPT ![o] = "completed"]
    /\ IF tx[w].used = "none" THEN UNCHANGED coupon
       ELSE /\ discounts' = [discounts EXCEPT ![o] = CountUp(@)]
            /\ timesRedeemed' = [timesRedeemed EXCEPT ![CodeOf(w)] = OneMore(@)]
            /\ hold' = [hold EXCEPT ![o] = "none"]
            /\ timely' = IF tx[w].used = "live" THEN timely \cup {o} ELSE timely
    /\ invoice' = [invoice EXCEPT ![o] = InvoiceLeft(w)]
    /\ payments' = IF tx[w].paid THEN [payments EXCEPT ![o] = CountUp(@)] ELSE payments

Commit(w) ==
    /\ In(w, Completes, {"settle"})
    /\ CanSettle(w)
    /\ Written(w)
    /\ tx' = [tx EXCEPT ![w] = NoTx]
    /\ RunEnds(w, "done")
    /\ UNCHANGED <<webhook, tries, calls, faults>>

\* The commit is done and the worker dies before it can say so: the engine runs
\* the task again.
CommitUnreported(w) ==
    /\ In(w, {"checkout"}, {"settle"})
    /\ Fault("process")
    /\ CanSettle(w)
    /\ Written(w)
    /\ tx' = [tx EXCEPT ![w] = NoTx]
    /\ RunEnds(w, "queued")
    /\ UNCHANGED <<webhook, tries, calls>>

\* Mutant of MayRetry: the task is declared without retries.
NeverRetries(o) == FALSE

MayRetry(o) == tries[o] < Retries

\* A transaction rolls back.  CreateOrder and CompleteOrder answer an error; the
\* complete-order task is retried until its retries are used up.
RollBack(w) ==
    LET o == tx[w].order IN
    /\ RunEnds(w, IF MayRetry(o) THEN "queued" ELSE "failed")
    /\ tries' = IF tx[w].op = "checkout" /\ MayRetry(o)
                THEN [tries EXCEPT ![o] = @ + 1] ELSE tries
    /\ UNCHANGED <<order, coupon, books, webhook, calls>>

SettleRefused(w) ==
    /\ In(w, Completes, {"settle"})
    /\ ~CanSettle(w)
    /\ tx' = [tx EXCEPT ![w] = NoTx]
    /\ RollBack(w)
    /\ UNCHANGED faults

DatabaseFails(w) ==
    /\ tx[w] # NoTx
    /\ Fault("database")
    /\ tx' = [tx EXCEPT ![w] = NoTx]
    /\ RollBack(w)

\* Reserve takes the code and then the coupon, Consume the coupon and then the code.
Deadlocked(v, w) ==
    /\ In(v, {"create"}, {"coupon"}) /\ In(w, Completes, {"count"})
    /\ CodeOf(v) = CodeOf(w) /\ SharesCoupon(w)

\* Where the other goes when one of the two is rolled back: the lock passes to it,
\* unless it waits for others too.
Survivor(v, others) ==
    CASE tx[v].pc = "coupon" /\ CouponFree(others)  -> "gate"
      [] tx[v].pc = "count" /\ CodeFree(v, others) -> "settle"
      [] OTHER                                      -> tx[v].pc

\* PostgreSQL breaks a deadlock by rolling one of the two back.
DeadlockBroken(w) ==
    /\ \E v \in Others(w) :
          /\ Deadlocked(v, w) \/ Deadlocked(w, v)
          /\ tx' = [tx EXCEPT ![w] = NoTx, ![v].pc = Survivor(v, Others(w) \ {v})]
    /\ RollBack(w)
    /\ UNCHANGED faults

----------------------------------------------------------------------------
(* The gateway's checkout and its webhook.                                 *)

PayAtCheckout(o) ==
    /\ o \in Payers /\ order[o] # "none" /\ ~Creating(o)
    /\ psp[o] = "unpaid"
    /\ psp' = [psp EXCEPT ![o] = "owes"]
    /\ UNCHANGED <<order, coupon, books, tx, claim, handler, runs, calls, faults>>

\* The endpoint answers 200, whatever becomes of the event.
Answer(o) == psp' = [psp EXCEPT ![o] = "acked"]

\* The PSP delivers, again and again until it is answered.  The first delivery
\* claims the event ...
ClaimWebhook(o) ==
    /\ psp[o] = "owes" /\ o \notin claim
    /\ claim' = claim \cup {o}
    /\ handler' = handler \cup {o}
    /\ UNCHANGED <<order, coupon, books, tx, psp, runs, calls, faults>>

\* ... and any other is taken for a repetition.
AlreadyClaimed(o) ==
    /\ psp[o] = "owes" /\ o \in claim
    /\ Answer(o)
    /\ UNCHANGED <<order, coupon, books, tx, claim, handler, runs, calls, faults>>

\* A run of the same payment that is in progress takes the request over.
Start(o) ==
    IF run[o] \in {"queued", "running"} THEN UNCHANGED runs
    ELSE run' = [run EXCEPT ![o] = "queued"] /\ tries' = [tries EXCEPT ![o] = 0]

StartWorkflow(o) ==
    /\ o \in handler
    /\ Start(o)
    /\ handler' = handler \ {o}
    /\ Answer(o)
    /\ UNCHANGED <<order, coupon, books, tx, claim, calls, faults>>

\* The engine does not answer, having taken the request or not: the claim is
\* released for the PSP's retry.
StartFails(o) ==
    /\ o \in handler
    /\ Fault("engine")
    /\ Start(o) \/ UNCHANGED runs
    /\ handler' = handler \ {o}
    /\ claim' = claim \ {o}
    /\ Answer(o)
    /\ UNCHANGED <<order, coupon, books, tx, calls>>

\* The process dies with the claim taken; the PSP gets no answer and delivers again.
HandlerDies(o) ==
    /\ o \in handler
    /\ Fault("process")
    /\ handler' = handler \ {o}
    /\ UNCHANGED <<order, coupon, books, tx, psp, claim, runs, calls>>

\* Twenty-four hours later.
ClaimExpires(o) ==
    /\ o \in claim /\ o \notin handler
    /\ claim' = claim \ {o}
    /\ UNCHANGED <<order, coupon, books, tx, psp, handler, runs, calls, faults>>

----------------------------------------------------------------------------
CreateNext(w) == LockCode(w) \/ LockCoupon(w) \/ Gate(w) \/ InsertReservation(w) \/ BuildUpfrontInvoice(w)

CompleteNext(w) ==
    LockOrder(w) \/ InsertDiscount(w) \/ IncrementRedeemed(w) \/ Commit(w) \/ SettleRefused(w)

BeginNext(w) ==
    \E o \in Orders :
        CreateOrder(w, o) \/ CompleteCheckoutSession(w, o) \/ \E paid \in BOOLEAN : CompleteOrder(w, o, paid)

WebhookNext(o) ==
    ClaimWebhook(o) \/ AlreadyClaimed(o) \/ StartWorkflow(o) \/ StartFails(o) \/ HandlerDies(o)

Next ==
    \/ \E w \in Workers :
          \/ BeginNext(w) \/ CreateNext(w) \/ CompleteNext(w)
          \/ CommitUnreported(w) \/ DatabaseFails(w) \/ DeadlockBroken(w)
    \/ \E o \in Orders : HoldExpires(o) \/ PayAtCheckout(o) \/ WebhookNext(o) \/ ClaimExpires(o)

Spec == Init /\ [][Next]_vars

\* A transaction that has begun goes on, PostgreSQL serving those that wait and breaking
\* deadlocks; the engine runs what is queued; the PSP delivers until it is answered.
\* Clients, customers and faults owe nothing.
Fairness ==
    /\ \A w \in Workers : WF_vars(CreateNext(w) \/ CompleteNext(w) \/ DeadlockBroken(w))
    /\ \A o \in Payers :
          WF_vars(\E w \in Workers : CompleteCheckoutSession(w, o)) /\ WF_vars(WebhookNext(o))

FairSpec == Spec /\ Fairness

----------------------------------------------------------------------------
(* Properties.                                                             *)

\* Every variable stays in its domain.
TypeOK ==
    /\ order \in [Orders -> {"none", "pending", "completed"}]
    /\ hold \in [Orders -> {"none", "live", "expired"}]
    /\ discounts \in [Orders -> 0 .. Many]
    /\ timesRedeemed \in [Codes -> Nat]
    /\ invoice \in [Orders -> [status : {"none", "draft", "open", "paid"}, discounted : BOOLEAN]]
    /\ payments \in [Orders -> 0 .. Many]
    /\ tx \in [Workers -> [op : {"none", "create"} \cup Completes, order : Orders \cup {NoOrder},
                           pc : {"idle", "code", "coupon", "gate", "insert", "invoice",
                                 "order", "consume", "count", "settle"},
                           paid : BOOLEAN, used : {"none", "live", "expired"}]]
    /\ psp \in [Orders -> {"unpaid", "owes", "acked"}]
    /\ claim \subseteq Orders /\ handler \subseteq Orders /\ timely \subseteq Orders
    /\ run \in [Orders -> {"none", "queued", "running", "done", "failed"}]
    /\ tries \in [Orders -> 0 .. Retries]
    /\ calls \in 0 .. MaxCalls
    /\ faults \in 0 .. MaxFaults

\* What has been redeemed through a live hold and what is still held stay within
\* the three limits of a coupon, whatever reserves and consumes run side by side.
\* (A hold that is redeemed after it expired is beyond them: Consume does not ask.)
Claimed == Live \cup timely
CapacityHeld ==
    /\ CouponCap > 0 => Cardinality(Claimed) <= CouponCap
    /\ CodeCap > 0 => \A c \in Codes : Cardinality(Claimed \cap OfCode(c)) <= CodeCap
    /\ OncePerCustomer => \A p \in Customers : Cardinality(Claimed \cap OfCustomer(p)) <= 1

\* An order is paid and its coupon redeemed at most once, however many calls of
\* CompleteOrder, runs and repetitions of runs try to complete it.
OrderSettledOnce == \A o \in Orders : payments[o] <= 1 /\ discounts[o] <= 1

\* The coupon a one-time order redeems is on the invoice it pays, whether that
\* was raised upfront from the hold or built at completion from the discount.
OneTimeIsDiscounted ==
    \A o \in Orders : ~Cart[o].recurring /\ discounts[o] > 0 => invoice[o].discounted

\* A payment-success run that the engine has taken completes its order, whoever
\* else works on it, through deadlocks and lost transactions.
QueuedRunCompletes == \A o \in Payers : run[o] = "queued" ~> order[o] = "completed"

\* webhook.go:118-120: engine errors propagate, "The PSP's retry is our safety net":
\* an order paid at the gateway's checkout is completed in the end.
PaidOrderIsCompleted == \A o \in Payers : psp[o] = "owes" ~> order[o] = "completed"

=============================================================================
