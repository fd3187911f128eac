--------------------------- MODULE Checkout_proofs ---------------------------
(***************************************************************************)
(* Proofs about Checkout, for any number of orders, codes, customers and   *)
(* concurrent transactions, any limits and any number of faults.           *)
(***************************************************************************)
EXTENDS Checkout, FiniteSetTheorems, TLAPS

----------------------------------------------------------------------------
(* Types.                                                                  *)

Ops == {"none", "create"} \cup Completes
Pcs == {"idle", "code", "coupon", "gate", "insert", "invoice", "order", "consume", "count", "settle"}
TxRecord == [op : Ops, order : Orders \cup {NoOrder}, pc : Pcs, paid : BOOLEAN, used : {"none", "live", "expired"}]
InvoiceRecord == [status : {"none", "draft", "open", "paid"}, discounted : BOOLEAN]

\* The type of a transaction, and that one which is at work is at work on an order.
TxOK == /\ tx \in [Workers -> TxRecord]
        /\ \A w \in Workers : tx[w].op # "none" => tx[w].order \in Orders

TypeInv == TypeOK /\ TxOK

LEMMA CartTypes == ASSUME NEW o \in Orders
                   PROVE  /\ Cart[o].code \in Codes \cup {NoCode} /\ Cart[o].customer \in Customers
                          /\ Cart[o].recurring \in BOOLEAN /\ Cart[o].upfront \in BOOLEAN /\ Cart[o].charge \in BOOLEAN
BY CartAssumption DEF CartAssumption, CartRecord

LEMMA NoTxType == NoTx \in TxRecord /\ NoTx.op = "none"
BY DEF NoTx, TxRecord, Ops, Pcs, NoOrder, Completes

LEMMA AfterReserveType == ASSUME NEW o \in Orders
                          PROVE  /\ AfterReserve(o) \in TxRecord
                                 /\ AfterReserve(o).op # "none" => AfterReserve(o).order = o
<1>1. Begin("create", o, "invoice", FALSE) \in TxRecord /\ Begin("create", o, "invoice", FALSE).order = o
  BY DEF Begin, TxRecord, Ops, Pcs
<1>2. QED
  BY <1>1, NoTxType DEF AfterReserve

\* A transaction that ends, begins or goes on keeps its type.
LEMMA TxUpdate == ASSUME TxOK, NEW w \in Workers, NEW t \in TxRecord, t.op # "none" => t.order \in Orders,
                         tx' = [tx EXCEPT ![w] = t]
                  PROVE  TxOK'
BY DEF TxOK

LEMMA TxGoto == ASSUME TxOK, NEW w \in Workers, NEW pc \in Pcs, tx' = [tx EXCEPT ![w].pc = pc]
                PROVE  TxOK'
BY DEF TxOK, TxRecord

LEMMA InitType == Init => TypeInv
BY NoTxType, LimitAssumption
   DEF Init, TypeInv, TypeOK, TxOK, NoInvoice, NoTx, LimitAssumption, TxRecord, Ops, Pcs, InvoiceRecord, Many, Completes

\* The run and the tries of an order whose transaction rolls back.
LEMMA RollBackType == ASSUME TypeInv, NEW w \in Workers, tx[w] # NoTx \/ tx[w].op # "none", RollBack(w)
                      PROVE  /\ run' \in [Orders -> {"none", "queued", "running", "done", "failed"}]
                             /\ tries' \in [Orders -> 0 .. Retries]
<1> USE LimitAssumption DEF LimitAssumption
<1>1. run' \in [Orders -> {"none", "queued", "running", "done", "failed"}]
  BY DEF RollBack, RunEnds, TypeInv, TypeOK
<1>2. tries' \in [Orders -> 0 .. Retries]
  <2>1. CASE tx[w].op = "checkout" /\ MayRetry(tx[w].order)
    <3>1. tx[w].order \in Orders
      BY <2>1 DEF TypeInv, TxOK
    <3>2. tries[tx[w].order] + 1 \in 0 .. Retries
      BY <2>1, <3>1 DEF MayRetry, TypeInv, TypeOK
    <3> QED
      BY <2>1, <3>1, <3>2 DEF RollBack, TypeInv, TypeOK
  <2>2. CASE ~(tx[w].op = "checkout" /\ MayRetry(tx[w].order))
    BY <2>2 DEF RollBack, TypeInv, TypeOK
  <2> QED
    BY <2>1, <2>2
<1> QED
  BY <1>1, <1>2

\* What a committing transaction writes.
LEMMA WrittenType == ASSUME TypeInv, NEW w \in Workers, In(w, Completes, {"settle"}), Written(w)
                     PROVE  /\ order' \in [Orders -> {"none", "pending", "completed"}]
                            /\ hold' \in [Orders -> {"none", "live", "expired"}]
                            /\ discounts' \in [Orders -> 0 .. Many] /\ payments' \in [Orders -> 0 .. Many]
                            /\ timesRedeemed' \in [Codes -> Nat]
                            /\ invoice' \in [Orders -> InvoiceRecord]
                            /\ timely' \subseteq Orders
<1> DEFINE o == tx[w].order
<1>1. o \in Orders
  BY DEF TypeInv, TxOK, In, Completes
<1>2. \A n \in 0 .. Many : CountUp(n) \in 0 .. Many
  BY DEF CountUp, Many
<1>3. OrderInvoice(w) \in InvoiceRecord
  BY <1>1 DEF OrderInvoice, InvoiceRecord, TypeInv, TypeOK, OrderLevel
<1>4. InvoiceLeft(w) \in InvoiceRecord
  BY <1>3 DEF InvoiceLeft, InvoiceRecord
<1>5. invoice' \in [Orders -> InvoiceRecord]
  BY <1>1, <1>4 DEF Written, TypeInv, TypeOK, InvoiceRecord
<1>6. payments' \in [Orders -> 0 .. Many] /\ order' \in [Orders -> {"none", "pending", "completed"}]
  BY <1>1, <1>2 DEF Written, TypeInv, TypeOK
<1>7. /\ discounts' \in [Orders -> 0 .. Many] /\ timesRedeemed' \in [Codes -> Nat]
      /\ hold' \in [Orders -> {"none", "live", "expired"}] /\ timely' \subseteq Orders
  <2>1. CASE tx[w].used = "none"
    BY <2>1 DEF Written, TypeInv, TypeOK, coupon
  <2>2. CASE tx[w].used # "none"
    <3>1. discounts' \in [Orders -> 0 .. Many]
      BY <1>1, <1>2, <2>2 DEF Written, TypeInv, TypeOK
    <3>2. timesRedeemed' \in [Codes -> Nat]
      <4> DEFINE c == CodeOf(w)
      <4>1. timesRedeemed \in [Codes -> Nat]
        BY DEF TypeInv, TypeOK
      <4>2. timesRedeemed' = [timesRedeemed EXCEPT ![c] = timesRedeemed[c] + 1]
        BY <2>2 DEF Written, OneMore
      <4>3. c \in Codes => timesRedeemed[c] + 1 \in Nat
        BY <4>1
      <4> QED
        BY <4>1, <4>2, <4>3
    <3>3. hold' \in [Orders -> {"none", "live", "expired"}] /\ timely' \subseteq Orders
      BY <1>1, <2>2 DEF Written, TypeInv, TypeOK
    <3> QED
      BY <3>1, <3>2, <3>3
  <2> QED
    BY <2>1, <2>2
<1> QED
  BY <1>5, <1>6, <1>7

\* Starting a run, or leaving it to the one in progress.
LEMMA StartType == ASSUME TypeInv, NEW o \in Orders, Start(o) \/ UNCHANGED runs
                   PROVE  /\ run' \in [Orders -> {"none", "queued", "running", "done", "failed"}]
                          /\ tries' \in [Orders -> 0 .. Retries]
<1>1. CASE UNCHANGED runs
  BY <1>1 DEF runs, TypeInv, TypeOK
<1>2. CASE run' = [run EXCEPT ![o] = "queued"] /\ tries' = [tries EXCEPT ![o] = 0]
  BY <1>2, LimitAssumption DEF LimitAssumption, TypeInv, TypeOK
<1> QED
  BY <1>1, <1>2 DEF Start

\* A step that leaves the tables and the transactions alone.
LEMMA WebhookType == ASSUME TypeInv, NEW o \in Orders,
                            PayAtCheckout(o) \/ WebhookNext(o) \/ ClaimExpires(o) \/ HoldExpires(o)
                     PROVE  TypeInv'
<1> USE LimitAssumption DEF LimitAssumption, TypeInv, TypeOK, TxOK, coupon, books, runs, webhook
<1>1. CASE PayAtCheckout(o)
  BY <1>1 DEF PayAtCheckout
<1>2. CASE ClaimWebhook(o)
  BY <1>2 DEF ClaimWebhook
<1>3. CASE AlreadyClaimed(o)
  BY <1>3 DEF AlreadyClaimed, Answer
<1>4. CASE StartWorkflow(o)
  BY <1>4, StartType DEF StartWorkflow, Answer
<1>5. CASE StartFails(o)
  BY <1>5, StartType DEF StartFails, Answer, Fault
<1>6. CASE HandlerDies(o)
  BY <1>6 DEF HandlerDies, Fault
<1>7. CASE ClaimExpires(o)
  BY <1>7 DEF ClaimExpires
<1>8. CASE HoldExpires(o)
  BY <1>8 DEF HoldExpires
<1> QED
  BY <1>1, <1>2, <1>3, <1>4, <1>5, <1>6, <1>7, <1>8 DEF WebhookNext

\* The steps of CreateOrder.
LEMMA CreateType == ASSUME TypeInv, NEW w \in Workers,
                           CreateNext(w) \/ \E o \in Orders : CreateOrder(w, o)
                    PROVE  TypeInv'
<1>1. ASSUME NEW o \in Orders, CreateOrder(w, o)
      PROVE  TypeInv'
  <2> DEFINE t == IF Cart[o].code = NoCode THEN AfterReserve(o) ELSE Begin("create", o, "code", FALSE)
  <2>1. t \in TxRecord /\ (t.op # "none" => t.order \in Orders)
    BY AfterReserveType DEF Begin, TxRecord, Ops, Pcs
  <2>2. TxOK'
    BY <1>1, <2>1, TxUpdate DEF CreateOrder, TypeInv
  <2> QED
    BY <1>1, <2>2 DEF CreateOrder, TypeInv, TypeOK, TxOK, TxRecord, Ops, Pcs, coupon, books, webhook, runs
<1>2. CASE LockCode(w) \/ LockCoupon(w)
  <2>1. TxOK'
    BY <1>2, TxGoto DEF LockCode, LockCoupon, Goto, TypeInv, Pcs
  <2> QED
    BY <1>2, <2>1 DEF LockCode, LockCoupon, TypeInv, TypeOK, TxOK, TxRecord, Ops, Pcs, coupon, books, webhook, runs
<1>3. CASE Gate(w)
  <2>1. TxOK'
    BY <1>3, TxGoto, TxUpdate, NoTxType DEF Gate, TypeInv, Pcs
  <2> QED
    BY <1>3, <2>1 DEF Gate, TypeInv, TypeOK, TxOK, TxRecord, Ops, Pcs, coupon, books, webhook, runs
<1>4. CASE InsertReservation(w)
  <2>0. tx[w].order \in Orders
    BY <1>4 DEF InsertReservation, In, TypeInv, TxOK
  <2>1. TxOK'
    BY <1>4, <2>0, AfterReserveType, TxUpdate DEF InsertReservation, TypeInv
  <2> QED
    BY <1>4, <2>0, <2>1 DEF InsertReservation, TypeInv, TypeOK, TxOK, TxRecord, Ops, Pcs, books, webhook, runs
<1>5. CASE BuildUpfrontInvoice(w)
  <2>1. TxOK'
    BY <1>5, NoTxType, TxUpdate DEF BuildUpfrontInvoice, TypeInv
  <2> QED
    BY <1>5, <2>1 DEF BuildUpfrontInvoice, TypeInv, TypeOK, TxOK, TxRecord, Ops, Pcs, coupon, webhook, runs
<1> QED
  BY <1>1, <1>2, <1>3, <1>4, <1>5 DEF CreateNext

\* What InsertDiscount leaves of its transaction.
LEMMA DiscountTx == ASSUME TypeInv, NEW w \in Workers, InsertDiscount(w), hold[tx[w].order] # "none"
                    PROVE  tx' = [tx EXCEPT ![w] = [op |-> tx[w].op, order |-> tx[w].order, pc |-> "count",
                                                    paid |-> tx[w].paid, used |-> hold[tx[w].order]]]
<1> DEFINE h == hold[tx[w].order]
           t == [op |-> tx[w].op, order |-> tx[w].order, pc |-> "count", paid |-> tx[w].paid, used |-> h]
<1>1. tx[w] \in TxRecord
  BY DEF TypeInv, TxOK
<1>2. tx' = [tx EXCEPT ![w] = Using(tx[w], h)]
  BY DEF InsertDiscount
<1> HIDE DEF h
<1>3. Using(tx[w], h) = t
  <2> DEFINE r == [op |-> tx[w].op, order |-> tx[w].order, pc |-> "count", paid |-> tx[w].paid, used |-> tx[w].used]
  <2>1. [tx[w] EXCEPT !.pc = "count"] = r
    BY <1>1 DEF TxRecord
  <2>2. [r EXCEPT !.used = h] = t
    OBVIOUS
  <2>3. Using(tx[w], h) = [[tx[w] EXCEPT !.pc = "count"] EXCEPT !.used = h]
    BY DEF Using
  <2> QED
    BY <2>1, <2>2, <2>3
<1> QED
  BY <1>2, <1>3 DEF h

\* The steps of the two completions, up to their commit.
LEMMA CompleteType == ASSUME TypeInv, NEW w \in Workers, NEW o \in Orders, NEW paid \in BOOLEAN,
                             \/ CompleteOrder(w, o, paid) \/ CompleteCheckoutSession(w, o)
                             \/ LockOrder(w) \/ InsertDiscount(w) \/ IncrementRedeemed(w)
                      PROVE  TypeInv'
<1>1. CASE CompleteOrder(w, o, paid)
  <2> DEFINE t == Begin("complete", o, "order", paid)
  <2>0. t \in TxRecord /\ t.order = o
    BY DEF Begin, TxRecord, Ops, Pcs, Completes
  <2>1. TxOK'
    BY <1>1, <2>0, TxUpdate DEF CompleteOrder, TypeInv
  <2> QED
    BY <1>1, <2>1, LimitAssumption
       DEF CompleteOrder, LimitAssumption, TypeInv, TypeOK, TxOK, TxRecord, Ops, Pcs, coupon, books, webhook, runs
<1>2. CASE CompleteCheckoutSession(w, o)
  <2> DEFINE t == Begin("checkout", o, "order", Cart[o].charge)
  <2>0. t \in TxRecord /\ t.order = o
    BY CartTypes DEF Begin, TxRecord, Ops, Pcs, Completes
  <2>1. TxOK'
    BY <1>2, <2>0, TxUpdate DEF CompleteCheckoutSession, TypeInv
  <2> QED
    BY <1>2, <2>1 DEF CompleteCheckoutSession, TypeInv, TypeOK, TxOK, TxRecord, Ops, Pcs, coupon, books, webhook
<1>3. CASE LockOrder(w)
  <2>1. TxOK'
    BY <1>3, NoTxType, TxUpdate, TxGoto DEF LockOrder, Goto, TypeInv, Pcs
  <2>2. run' \in [Orders -> {"none", "queued", "running", "done", "failed"}]
    BY <1>3 DEF LockOrder, RunEnds, TypeInv, TypeOK
  <2> QED
    BY <1>3, <2>1, <2>2 DEF LockOrder, TypeInv, TypeOK, TxOK, TxRecord, Ops, Pcs, coupon, books, webhook
<1>4. CASE InsertDiscount(w)
  <2>0. tx[w].order \in Orders
    BY <1>4 DEF InsertDiscount, In, Completes, TypeInv, TxOK
  <2>1. TxOK'
    <3>1. CASE hold[tx[w].order] = "none"
      BY <1>4, <3>1, TxGoto DEF InsertDiscount, Goto, TypeInv, Pcs
    <3>2. CASE hold[tx[w].order] # "none"
      <4> DEFINE t == [op |-> tx[w].op, order |-> tx[w].order, pc |-> "count", paid |-> tx[w].paid,
                       used |-> hold[tx[w].order]]
      <4>1. tx' = [tx EXCEPT ![w] = t]
        BY <1>4, <3>2, DiscountTx
      <4>2. t \in TxRecord /\ t.order \in Orders
        BY <2>0 DEF TypeInv, TypeOK, TxOK, TxRecord, Pcs
      <4> HIDE DEF t
      <4> QED
        BY <4>1, <4>2, TxUpdate DEF TypeInv
    <3> QED
      BY <3>1, <3>2
  <2> QED
    BY <1>4, <2>1 DEF InsertDiscount, TypeInv, TypeOK, TxOK, TxRecord, Ops, Pcs, coupon, books, webhook, runs
<1>5. CASE IncrementRedeemed(w)
  <2>1. TxOK'
    BY <1>5, TxGoto DEF IncrementRedeemed, Goto, TypeInv, Pcs
  <2> QED
    BY <1>5, <2>1 DEF IncrementRedeemed, TypeInv, TypeOK, TxOK, TxRecord, Ops, Pcs, coupon, books, webhook, runs
<1> QED
  BY <1>1, <1>2, <1>3, <1>4, <1>5

\* The ends of a transaction.
LEMMA EndType == ASSUME TypeInv, NEW w \in Workers,
                        \/ Commit(w) \/ CommitUnreported(w)
                        \/ SettleRefused(w) \/ DatabaseFails(w) \/ DeadlockBroken(w)
                 PROVE  TypeInv'
<1> USE LimitAssumption DEF LimitAssumption
<1>1. CASE Commit(w) \/ CommitUnreported(w)
  <2>1. TxOK'
    BY <1>1, NoTxType, TxUpdate DEF Commit, CommitUnreported, TypeInv
  <2>2. run' \in [Orders -> {"none", "queued", "running", "done", "failed"}]
    BY <1>1 DEF Commit, CommitUnreported, RunEnds, TypeInv, TypeOK
  <2>3. In(w, Completes, {"settle"}) /\ Written(w)
    BY <1>1 DEF Commit, CommitUnreported, In, Completes
  <2>4. faults' \in 0 .. MaxFaults
    BY <1>1 DEF Commit, CommitUnreported, Fault, TypeInv, TypeOK
  <2> QED
    BY <1>1, <2>1, <2>2, <2>3, <2>4, WrittenType
       DEF Commit, CommitUnreported, TypeInv, TypeOK, TxOK, TxRecord, InvoiceRecord, Ops, Pcs, webhook
<1>2. CASE SettleRefused(w) \/ DatabaseFails(w) \/ DeadlockBroken(w)
  <2>1. tx[w] # NoTx \/ tx[w].op # "none"
    BY <1>2 DEF SettleRefused, DatabaseFails, DeadlockBroken, Deadlocked, In, Completes
  <2>2. RollBack(w)
    BY <1>2 DEF SettleRefused, DatabaseFails, DeadlockBroken
  <2>3. TxOK'
    <3>1. CASE SettleRefused(w) \/ DatabaseFails(w)
      BY <3>1, NoTxType, TxUpdate DEF SettleRefused, DatabaseFails, TypeInv
    <3>2. CASE DeadlockBroken(w)
      <4>1. PICK v \in Others(w) : tx' = [tx EXCEPT ![w] = NoTx, ![v].pc = Survivor(v, Others(w) \ {v})]
        BY <3>2 DEF DeadlockBroken
      <4>2. v \in Workers /\ v # w
        BY DEF Others
      <4>3. Survivor(v, Others(w) \ {v}) \in Pcs
        BY <4>2 DEF Survivor, Pcs, TypeInv, TxOK, TxRecord
      <4> QED
        BY <4>1, <4>2, <4>3, NoTxType DEF TypeInv, TxOK, TxRecord
    <3> QED
      BY <1>2, <3>1, <3>2
  <2>4. faults' \in 0 .. MaxFaults
    BY <1>2 DEF SettleRefused, DatabaseFails, DeadlockBroken, Fault, TypeInv, TypeOK
  <2> QED
    BY <2>1, <2>2, <2>3, <2>4, RollBackType
       DEF RollBack, TypeInv, TypeOK, TxOK, TxRecord, Ops, Pcs, coupon, books, webhook
<1> QED
  BY <1>1, <1>2

LEMMA TypeStep == TypeInv /\ [Next]_vars => TypeInv'
<1> SUFFICES ASSUME TypeInv, [Next]_vars
             PROVE  TypeInv'
  OBVIOUS
<1>1. CASE UNCHANGED vars
  BY <1>1 DEF vars, coupon, books, webhook, runs, TypeInv, TypeOK, TxOK
<1>2. ASSUME NEW w \in Workers, BeginNext(w) \/ CreateNext(w)
      PROVE  TypeInv'
  BY <1>2, CreateType, CompleteType DEF BeginNext
<1>3. ASSUME NEW w \in Workers,
             CompleteNext(w) \/ CommitUnreported(w) \/ DatabaseFails(w) \/ DeadlockBroken(w)
      PROVE  TypeInv'
  <2>1. CASE CompleteNext(w) /\ ~Commit(w) /\ ~SettleRefused(w)
    <3>1. LockOrder(w) \/ InsertDiscount(w) \/ IncrementRedeemed(w)
      BY <2>1 DEF CompleteNext
    <3>2. tx[w].order \in Orders
      BY <3>1 DEF LockOrder, InsertDiscount, IncrementRedeemed, In, Completes, TypeInv, TxOK
    <3> QED
      BY <3>1, <3>2, CompleteType
  <2> QED
    BY <1>3, <2>1, EndType DEF CompleteNext
<1>4. ASSUME NEW o \in Orders, HoldExpires(o) \/ PayAtCheckout(o) \/ WebhookNext(o) \/ ClaimExpires(o)
      PROVE  TypeInv'
  BY <1>4, WebhookType
<1> QED
  BY <1>1, <1>2, <1>3, <1>4 DEF Next

\* Checkout.TypeOK: every variable of the checkout stays in its domain; no run is
\* retried more often than the engine is told to.
THEOREM CheckoutTypeCorrect == Spec => []TypeOK
<1>1. TypeInv => TypeOK
  BY DEF TypeInv
<1> QED
  BY <1>1, InitType, TypeStep, PTL DEF Spec

----------------------------------------------------------------------------
(* The limits of the coupon.                                               *)

\* The three limits, of a set of orders.
Within(S) ==
    /\ CouponCap > 0 => Cardinality(S) <= CouponCap
    /\ CodeCap > 0 => \A c \in Codes : Cardinality(S \cap OfCode(c)) <= CodeCap
    /\ OncePerCustomer => \A p \in Customers : Cardinality(S \cap OfCustomer(p)) <= 1

\* They leave room for one more.
Room(S, o) ==
    /\ CouponCap > 0 => Cardinality(S) + 1 <= CouponCap
    /\ CodeCap > 0 => \A c \in Codes : o \in OfCode(c) => Cardinality(S \cap OfCode(c)) + 1 <= CodeCap
    /\ OncePerCustomer => \A p \in Customers : o \in OfCustomer(p) => S \cap OfCustomer(p) = {}

\* A set of orders is finite, and a subset of it is not larger.
LEMMA OrdersFinite ==
    ASSUME NEW T, T \subseteq Orders, NEW S, S \subseteq T
    PROVE  /\ IsFiniteSet(S) /\ IsFiniteSet(T)
           /\ Cardinality(S) \in Nat /\ Cardinality(T) \in Nat /\ Cardinality(S) <= Cardinality(T)
<1>1. IsFiniteSet(T)
  BY LimitAssumption, FS_Subset DEF LimitAssumption
<1>2. IsFiniteSet(S) /\ Cardinality(S) <= Cardinality(T)
  BY <1>1, FS_Subset
<1> QED
  BY <1>1, <1>2, FS_CardinalityType

LEMMA WithinShrinks == ASSUME NEW T, T \subseteq Orders, NEW S, S \subseteq T, Within(T)
                       PROVE  Within(S)
<1>1. Cardinality(S) \in Nat /\ Cardinality(T) \in Nat /\ Cardinality(S) <= Cardinality(T)
  BY OrdersFinite
<1>2. ASSUME NEW R
      PROVE  /\ Cardinality(S \cap R) \in Nat /\ Cardinality(T \cap R) \in Nat
             /\ Cardinality(S \cap R) <= Cardinality(T \cap R)
  <2>1. T \cap R \subseteq Orders /\ S \cap R \subseteq T \cap R
    OBVIOUS
  <2> QED
    BY <2>1, OrdersFinite
<1>3. CouponCap > 0 => Cardinality(S) <= CouponCap
  BY <1>1, LimitAssumption DEF LimitAssumption, Within
<1>4. CodeCap > 0 => \A c \in Codes : Cardinality(S \cap OfCode(c)) <= CodeCap
  <2> SUFFICES ASSUME CodeCap > 0, NEW c \in Codes
               PROVE  Cardinality(S \cap OfCode(c)) <= CodeCap
    OBVIOUS
  <2>1. Cardinality(T \cap OfCode(c)) <= CodeCap
    BY DEF Within
  <2>2. /\ Cardinality(S \cap OfCode(c)) \in Nat /\ Cardinality(T \cap OfCode(c)) \in Nat
        /\ Cardinality(S \cap OfCode(c)) <= Cardinality(T \cap OfCode(c))
    BY <1>2
  <2> QED
    BY <2>1, <2>2, LimitAssumption DEF LimitAssumption
<1>5. OncePerCustomer => \A p \in Customers : Cardinality(S \cap OfCustomer(p)) <= 1
  <2> SUFFICES ASSUME OncePerCustomer, NEW p \in Customers
               PROVE  Cardinality(S \cap OfCustomer(p)) <= 1
    OBVIOUS
  <2>1. Cardinality(T \cap OfCustomer(p)) <= 1
    BY DEF Within
  <2> QED
    BY <2>1, <1>2
<1> QED
  BY <1>3, <1>4, <1>5 DEF Within

LEMMA RoomShrinks == ASSUME NEW T, T \subseteq Orders, NEW S, S \subseteq T, NEW o, Room(T, o)
                     PROVE  Room(S, o)
<1>1. Cardinality(S) \in Nat /\ Cardinality(T) \in Nat /\ Cardinality(S) <= Cardinality(T)
  BY OrdersFinite
<1>2. ASSUME NEW R
      PROVE  /\ Cardinality(S \cap R) \in Nat /\ Cardinality(T \cap R) \in Nat
             /\ Cardinality(S \cap R) <= Cardinality(T \cap R)
  <2>1. T \cap R \subseteq Orders /\ S \cap R \subseteq T \cap R
    OBVIOUS
  <2> QED
    BY <2>1, OrdersFinite
<1>3. CouponCap > 0 => Cardinality(S) + 1 <= CouponCap
  BY <1>1, LimitAssumption DEF LimitAssumption, Room
<1>4. CodeCap > 0 => \A c \in Codes : o \in OfCode(c) => Cardinality(S \cap OfCode(c)) + 1 <= CodeCap
  <2> SUFFICES ASSUME CodeCap > 0, NEW c \in Codes, o \in OfCode(c)
               PROVE  Cardinality(S \cap OfCode(c)) + 1 <= CodeCap
    OBVIOUS
  <2>1. Cardinality(T \cap OfCode(c)) + 1 <= CodeCap
    BY DEF Room
  <2>2. /\ Cardinality(S \cap OfCode(c)) \in Nat /\ Cardinality(T \cap OfCode(c)) \in Nat
        /\ Cardinality(S \cap OfCode(c)) <= Cardinality(T \cap OfCode(c))
    BY <1>2
  <2> QED
    BY <2>1, <2>2, LimitAssumption DEF LimitAssumption
<1>5. OncePerCustomer => \A p \in Customers : o \in OfCustomer(p) => S \cap OfCustomer(p) = {}
  BY DEF Room
<1> QED
  BY <1>3, <1>4, <1>5 DEF Room

\* One order more, if there is room for it.
LEMMA WithinGrows == ASSUME NEW S, S \subseteq Orders, NEW o \in Orders, Within(S), Room(S, o)
                     PROVE  Within(S \cup {o})
<1>1. ASSUME NEW R
      PROVE  /\ Cardinality(S \cap R) \in Nat
             /\ o \in R => Cardinality((S \cup {o}) \cap R) <= Cardinality(S \cap R) + 1
             /\ o \in R => Cardinality((S \cup {o}) \cap R) \in Nat
             /\ o \notin R => (S \cup {o}) \cap R = S \cap R
  <2>1. IsFiniteSet(S \cap R) /\ Cardinality(S \cap R) \in Nat
    BY OrdersFinite
  <2>2. o \in R => (S \cup {o}) \cap R = (S \cap R) \cup {o}
    OBVIOUS
  <2>3. Cardinality((S \cap R) \cup {o}) = IF o \in S \cap R THEN Cardinality(S \cap R) ELSE Cardinality(S \cap R) + 1
    BY <2>1, FS_AddElement
  <2> QED
    BY <2>1, <2>2, <2>3
<1>2. CouponCap > 0 => Cardinality(S \cup {o}) <= CouponCap
  <2>1. S \cap Orders = S /\ (S \cup {o}) \cap Orders = S \cup {o}
    OBVIOUS
  <2>2. Cardinality(S \cup {o}) <= Cardinality(S) + 1 /\ Cardinality(S) \in Nat /\ Cardinality(S \cup {o}) \in Nat
    BY <1>1, <2>1
  <2> QED
    BY <2>2, LimitAssumption DEF LimitAssumption, Room
<1>3. CodeCap > 0 => \A c \in Codes : Cardinality((S \cup {o}) \cap OfCode(c)) <= CodeCap
  <2> SUFFICES ASSUME CodeCap > 0, NEW c \in Codes
               PROVE  Cardinality((S \cup {o}) \cap OfCode(c)) <= CodeCap
    OBVIOUS
  <2>1. CASE o \in OfCode(c)
    <3>1. Cardinality(S \cap OfCode(c)) + 1 <= CodeCap
      BY <2>1 DEF Room
    <3>2. /\ Cardinality(S \cap OfCode(c)) \in Nat /\ Cardinality((S \cup {o}) \cap OfCode(c)) \in Nat
          /\ Cardinality((S \cup {o}) \cap OfCode(c)) <= Cardinality(S \cap OfCode(c)) + 1
      BY <2>1, <1>1
    <3> QED
      BY <3>1, <3>2, LimitAssumption DEF LimitAssumption
  <2>2. CASE o \notin OfCode(c)
    BY <2>2, <1>1 DEF Within
  <2> QED
    BY <2>1, <2>2
<1>4. OncePerCustomer => \A p \in Customers : Cardinality((S \cup {o}) \cap OfCustomer(p)) <= 1
  <2> SUFFICES ASSUME OncePerCustomer, NEW p \in Customers
               PROVE  Cardinality((S \cup {o}) \cap OfCustomer(p)) <= 1
    OBVIOUS
  <2>1. CASE o \in OfCustomer(p)
    <3>1. Cardinality(S \cap OfCustomer(p)) = 0
      BY <2>1, FS_EmptySet DEF Room
    <3> QED
      BY <2>1, <3>1, <1>1
  <2>2. CASE o \notin OfCustomer(p)
    BY <2>2, <1>1 DEF Within
  <2> QED
    BY <2>1, <2>2
<1> QED
  BY <1>2, <1>3, <1>4 DEF Within

----------------------------------------------------------------------------
(* The locks.                                                              *)

\* HoldsCoupon and SharesCoupon, of a transaction.
Holding(t) == t.op = "create" /\ t.pc \in {"gate", "insert"}
Sharing(t) == t.op \in Completes /\ t.pc \in {"count", "settle"} /\ t.used # "none"

LEMMA LocksOfTx == ASSUME NEW w \in Workers
                   PROVE  (HoldsCoupon(w) <=> Holding(tx[w])) /\ (SharesCoupon(w) <=> Sharing(tx[w]))
BY DEF HoldsCoupon, SharesCoupon, Holding, Sharing, In

\* One transaction holds the coupon for update, and then none shares it; a
\* completion has not looked for its hold before it has the order.
Locks ==
    /\ \A v, w \in Workers : Holding(tx[v]) /\ Holding(tx[w]) => v = w
    /\ \A v, w \in Workers : Holding(tx[v]) => ~Sharing(tx[w])
    /\ \A w \in Workers : tx[w].pc \in {"order", "consume"} => tx[w].used = "none"

\* Where one transaction moves, the others stay.
LEMMA OthersStay == ASSUME TypeInv, NEW w \in Workers, NEW t, tx' = [tx EXCEPT ![w] = t]
                    PROVE  tx'[w] = t /\ \A v \in Workers \ {w} : tx'[v] = tx[v]
BY DEF TypeInv, TxOK

\* A transaction that moves without getting the coupon.
LEMMA MoveLocks == ASSUME TypeInv, Locks, NEW w \in Workers, NEW t, tx' = [tx EXCEPT ![w] = t],
                          Holding(t) => Holding(tx[w]), Sharing(t) => Sharing(tx[w]),
                          t.pc \in {"order", "consume"} => t.used = "none"
                   PROVE  Locks'
<1>1. tx'[w] = t /\ \A v \in Workers \ {w} : tx'[v] = tx[v]
  BY OthersStay
<1>2. \A v \in Workers : /\ Holding(tx'[v]) => Holding(tx[v])
                         /\ Sharing(tx'[v]) => Sharing(tx[v])
                         /\ tx'[v].pc \in {"order", "consume"} => tx'[v].used = "none"
  BY <1>1 DEF Locks
<1> QED
  BY <1>2 DEF Locks

\* A transaction that gets the coupon while nobody holds or shares it.
LEMMA TakeLocks == ASSUME TypeInv, Locks, NEW w \in Workers, NEW t, tx' = [tx EXCEPT ![w] = t],
                          ~Sharing(t), t.pc \notin {"order", "consume"},
                          \A v \in Workers \ {w} : ~Holding(tx[v]) /\ ~Sharing(tx[v])
                   PROVE  Locks'
<1>1. tx'[w] = t /\ \A v \in Workers \ {w} : tx'[v] = tx[v]
  BY OthersStay
<1> QED
  BY <1>1 DEF Locks

\* A transaction that shares the coupon while nobody holds it.
LEMMA ShareLocks == ASSUME TypeInv, Locks, NEW w \in Workers, NEW t, tx' = [tx EXCEPT ![w] = t],
                           ~Holding(t), t.pc \notin {"order", "consume"},
                           \A v \in Workers \ {w} : ~Holding(tx[v])
                    PROVE  Locks'
<1>1. tx'[w] = t /\ \A v \in Workers \ {w} : tx'[v] = tx[v]
  BY OthersStay
<1> QED
  BY <1>1 DEF Locks

\* [tx EXCEPT ![w].f = e] is a transaction put in the place of another.
LEMMA GotoIsMove == ASSUME TypeInv, NEW w \in Workers, NEW pc \in Pcs, tx' = [tx EXCEPT ![w].pc = pc]
                    PROVE  tx' = [tx EXCEPT ![w] = [op |-> tx[w].op, order |-> tx[w].order, pc |-> pc,
                                                    paid |-> tx[w].paid, used |-> tx[w].used]]
<1> DEFINE t == [op |-> tx[w].op, order |-> tx[w].order, pc |-> pc, paid |-> tx[w].paid, used |-> tx[w].used]
<1>1. tx[w] \in TxRecord
  BY DEF TypeInv, TxOK
<1>2. [tx[w] EXCEPT !.pc = pc] = t
  BY <1>1 DEF TxRecord
<1> QED
  BY <1>2

LEMMA EndLocks == ASSUME TypeInv, Locks, NEW w \in Workers, tx' = [tx EXCEPT ![w] = NoTx]
                  PROVE  Locks'
<1>1. ~Holding(NoTx) /\ ~Sharing(NoTx) /\ NoTx.pc = "idle"
  BY DEF Holding, Sharing, NoTx, Completes
<1> QED
  BY <1>1, MoveLocks

LEMMA GotoLocks == ASSUME TypeInv, Locks, NEW w \in Workers, NEW pc \in Pcs, tx' = [tx EXCEPT ![w].pc = pc],
                          \/ pc \in {"coupon", "insert"} /\ tx[w].op = "create" /\ (pc = "insert" => tx[w].pc = "gate")
                          \/ pc = "consume" /\ tx[w].op \in Completes /\ tx[w].pc = "order"
                          \/ pc = "settle" /\ tx[w].op \in Completes /\ tx[w].pc \in {"consume", "count"}
                   PROVE  Locks'
<1> DEFINE t == [op |-> tx[w].op, order |-> tx[w].order, pc |-> pc, paid |-> tx[w].paid, used |-> tx[w].used]
<1>1. tx' = [tx EXCEPT ![w] = t]
  BY GotoIsMove
<1>2. Holding(t) => Holding(tx[w])
  BY DEF Holding, Completes
<1>3. Sharing(t) => Sharing(tx[w])
  BY DEF Sharing, Locks, Completes
<1>4. t.pc \in {"order", "consume"} => t.used = "none"
  BY DEF Locks
<1> HIDE DEF t
<1> QED
  BY <1>1, <1>2, <1>3, <1>4, MoveLocks

\* The steps that take a lock of the coupon.
LEMMA LockCouponLocks == ASSUME TypeInv, Locks, NEW w \in Workers, LockCoupon(w)
                         PROVE  Locks'
<1> DEFINE t == [op |-> tx[w].op, order |-> tx[w].order, pc |-> "gate", paid |-> tx[w].paid, used |-> tx[w].used]
<1>1. tx' = [tx EXCEPT ![w] = t]
  BY GotoIsMove DEF LockCoupon, Goto, Pcs
<1>2. ~Sharing(t) /\ t.pc \notin {"order", "consume"}
  BY DEF Sharing
<1>3. \A v \in Workers \ {w} : ~Holding(tx[v]) /\ ~Sharing(tx[v])
  BY LocksOfTx DEF LockCoupon, CouponFree, Others
<1> HIDE DEF t
<1> QED
  BY <1>1, <1>2, <1>3, TakeLocks

LEMMA InsertDiscountLocks == ASSUME TypeInv, Locks, NEW w \in Workers, InsertDiscount(w)
                             PROVE  Locks'
<1>1. CASE hold[tx[w].order] = "none"
  BY <1>1, GotoLocks DEF InsertDiscount, Goto, In, Pcs
<1>2. CASE hold[tx[w].order] # "none"
  <2> DEFINE t == [op |-> tx[w].op, order |-> tx[w].order, pc |-> "count", paid |-> tx[w].paid, used |-> hold[tx[w].order]]
  <2>1. tx' = [tx EXCEPT ![w] = t]
    BY <1>2, DiscountTx
  <2>2. ~Holding(t) /\ t.pc \notin {"order", "consume"}
    BY DEF Holding
  <2>3. \A v \in Workers \ {w} : ~Holding(tx[v])
    BY <1>2, LocksOfTx DEF InsertDiscount, Others
  <2> HIDE DEF t
  <2> QED
    BY <2>1, <2>2, <2>3, ShareLocks
<1> QED
  BY <1>1, <1>2

\* The survivor of a deadlock gets the coupon only if the third parties have let it go.
LEMMA DeadlockLocks == ASSUME TypeInv, Locks, NEW w \in Workers, DeadlockBroken(w)
                       PROVE  Locks'
<1>1. PICK v \in Others(w) : /\ Deadlocked(v, w) \/ Deadlocked(w, v)
                             /\ tx' = [tx EXCEPT ![w] = NoTx, ![v].pc = Survivor(v, Others(w) \ {v})]
  BY DEF DeadlockBroken
<1> DEFINE others == Others(w) \ {v}
           pc == Survivor(v, others)
           t == [op |-> tx[v].op, order |-> tx[v].order, pc |-> pc, paid |-> tx[v].paid, used |-> tx[v].used]
<1>2. v \in Workers /\ v # w /\ tx[v] \in TxRecord
  BY DEF Others, TypeInv, TxOK
<1>3. tx'[w] = NoTx /\ tx'[v] = t /\ \A u \in others : tx'[u] = tx[u]
  <2> HIDE DEF pc
  <2>1. tx'[w] = NoTx /\ \A u \in others : tx'[u] = tx[u]
    BY <1>1, <1>2 DEF TypeInv, TxOK, Others
  <2>2. tx'[v] = [tx[v] EXCEPT !.pc = pc]
    BY <1>1, <1>2 DEF TypeInv, TxOK, pc
  <2> QED
    BY <2>1, <2>2, <1>2 DEF TxRecord
<1>4. ~Holding(NoTx) /\ ~Sharing(NoTx) /\ NoTx.pc = "idle"
  BY DEF Holding, Sharing, NoTx, Completes
<1>5. /\ t.pc \notin {"order", "consume"}
      /\ Sharing(t) => Sharing(tx[v])
      /\ Holding(t) => \A u \in others : ~Holding(tx[u]) /\ ~Sharing(tx[u])
  <2>1. CASE In(v, {"create"}, {"coupon"})
    <3>1. pc = IF CouponFree(others) THEN "gate" ELSE "coupon"
      BY <2>1 DEF Survivor, In
    <3>2. CouponFree(others) => \A u \in others : ~Holding(tx[u]) /\ ~Sharing(tx[u])
      BY LocksOfTx DEF CouponFree, Others
    <3>3. ~Sharing(t)
      BY <2>1 DEF Sharing, In, Completes
    <3> QED
      BY <3>1, <3>2, <3>3 DEF Holding
  <2>2. CASE In(v, Completes, {"count"})
    <3>1. pc = IF CodeFree(v, others) THEN "settle" ELSE "count"
      BY <2>2 DEF Survivor, In
    <3> QED
      BY <2>2, <3>1 DEF Sharing, Holding, In
  <2> QED
    BY <1>1, <2>1, <2>2 DEF Deadlocked
<1>6. \A u \in Workers : u = w \/ u = v \/ u \in others
  BY DEF Others
<1>7. others \subseteq Workers
  BY DEF Others
<1> HIDE DEF t, others
<1>8. \A u \in Workers : /\ Sharing(tx'[u]) => Sharing(tx[u])
                         /\ tx'[u].pc \in {"order", "consume"} => tx'[u].used = "none"
                         /\ Holding(tx'[u]) => Holding(tx[u]) \/ (u = v /\ Holding(t))
  BY <1>3, <1>4, <1>5, <1>6 DEF Locks
<1>9. CASE ~Holding(t)
  BY <1>8, <1>9 DEF Locks
<1>10. CASE Holding(t)
  <2>1. \A u \in Workers : u # v => ~Holding(tx'[u])
    BY <1>3, <1>4, <1>5, <1>6, <1>10
  <2>2. \A u \in Workers : ~Sharing(tx'[u])
    <3>1. ~Sharing(t)
      BY <1>10 DEF Holding, Sharing, Completes
    <3> QED
      BY <3>1, <1>3, <1>4, <1>5, <1>6, <1>10
  <2> QED
    BY <2>1, <2>2, <1>8 DEF Locks
<1> QED
  BY <1>9, <1>10

\* A step that leaves the transactions alone.
LEMMA StayLocks == Locks /\ tx' = tx => Locks'
BY DEF Locks

LEMMA LocksInit == Init => Locks
BY DEF Init, Locks, NoTx, Holding, Sharing, Completes

\* No step, of any number of transactions, gives the coupon away twice.
LEMMA LocksStep == ASSUME TypeInv, Locks, [Next]_vars
                   PROVE  Locks'
<1>1. CASE UNCHANGED vars
  BY <1>1, StayLocks DEF vars
<1>2. ASSUME NEW w \in Workers, BeginNext(w)
      PROVE  Locks'
  <2>1. PICK o \in Orders : \/ CreateOrder(w, o) \/ CompleteCheckoutSession(w, o)
                            \/ \E paid \in BOOLEAN : CompleteOrder(w, o, paid)
    BY <1>2 DEF BeginNext
  <2> DEFINE Fresh(t) == ~Holding(t) /\ ~Sharing(t) /\ (t.pc \in {"order", "consume"} => t.used = "none")
  <2>2. /\ Fresh(AfterReserve(o)) /\ Fresh(Begin("create", o, "code", FALSE))
        /\ \A paid : Fresh(Begin("complete", o, "order", paid)) /\ Fresh(Begin("checkout", o, "order", paid))
    BY DEF AfterReserve, Begin, NoTx, Holding, Sharing, Completes
  <2>3. \E t : tx' = [tx EXCEPT ![w] = t] /\ Fresh(t)
    <3>1. CASE CreateOrder(w, o)
      BY <3>1, <2>2 DEF CreateOrder
    <3>2. CASE CompleteCheckoutSession(w, o)
      BY <3>2, <2>2 DEF CompleteCheckoutSession
    <3>3. CASE \E paid \in BOOLEAN : CompleteOrder(w, o, paid)
      BY <3>3, <2>2 DEF CompleteOrder
    <3> QED
      BY <2>1, <3>1, <3>2, <3>3
  <2> QED
    BY <2>3, MoveLocks
<1>3. ASSUME NEW w \in Workers, CreateNext(w)
      PROVE  Locks'
  <2>1. CASE LockCode(w)
    BY <2>1, GotoLocks DEF LockCode, Goto, In, Pcs
  <2>2. CASE LockCoupon(w)
    BY <2>2, LockCouponLocks
  <2>3. CASE Gate(w)
    <3>1. CASE Refused(tx[w].order)
      BY <2>3, <3>1, EndLocks DEF Gate
    <3>2. CASE ~Refused(tx[w].order)
      <4>1. tx' = [tx EXCEPT ![w].pc = "insert"] /\ tx[w].op = "create" /\ tx[w].pc = "gate"
        BY <2>3, <3>2 DEF Gate, In
      <4> QED
        BY <4>1, GotoLocks DEF Pcs
    <3> QED
      BY <3>1, <3>2
  <2>4. CASE InsertReservation(w)
    <3> DEFINE t == AfterReserve(tx[w].order)
    <3>1. ~Holding(t) /\ ~Sharing(t) /\ t.pc \notin {"order", "consume"}
      BY DEF AfterReserve, Begin, NoTx, Holding, Sharing, Completes
    <3>2. tx' = [tx EXCEPT ![w] = t]
      BY <2>4 DEF InsertReservation
    <3> QED
      BY <3>1, <3>2, MoveLocks
  <2>5. CASE BuildUpfrontInvoice(w)
    BY <2>5, EndLocks DEF BuildUpfrontInvoice
  <2> QED
    BY <1>3, <2>1, <2>2, <2>3, <2>4, <2>5 DEF CreateNext
<1>4. ASSUME NEW w \in Workers, CompleteNext(w) \/ CommitUnreported(w) \/ DatabaseFails(w) \/ DeadlockBroken(w)
      PROVE  Locks'
  <2>1. CASE LockOrder(w)
    <3>1. CASE StillToDo(w)
      BY <2>1, <3>1, GotoLocks DEF LockOrder, Goto, In, Pcs
    <3>2. CASE ~StillToDo(w)
      BY <2>1, <3>2, EndLocks DEF LockOrder
    <3> QED
      BY <3>1, <3>2
  <2>2. CASE InsertDiscount(w)
    BY <2>2, InsertDiscountLocks
  <2>3. CASE IncrementRedeemed(w)
    BY <2>3, GotoLocks DEF IncrementRedeemed, Goto, In, Pcs
  <2>4. CASE Commit(w) \/ CommitUnreported(w) \/ SettleRefused(w) \/ DatabaseFails(w)
    BY <2>4, EndLocks DEF Commit, CommitUnreported, SettleRefused, DatabaseFails
  <2>5. CASE DeadlockBroken(w)
    BY <2>5, DeadlockLocks
  <2> QED
    BY <1>4, <2>1, <2>2, <2>3, <2>4, <2>5 DEF CompleteNext
<1>5. ASSUME NEW o \in Orders, HoldExpires(o) \/ PayAtCheckout(o) \/ WebhookNext(o) \/ ClaimExpires(o)
      PROVE  Locks'
  BY <1>5, StayLocks
     DEF HoldExpires, PayAtCheckout, WebhookNext, ClaimWebhook, AlreadyClaimed, StartWorkflow, StartFails,
         HandlerDies, ClaimExpires
<1> QED
  BY <1>1, <1>2, <1>3, <1>4, <1>5 DEF Next

----------------------------------------------------------------------------
(* The holds.                                                              *)

\* A transaction that redeems a hold which was live when it looked, and one that
\* has passed the gate.
Pledging(t) == Sharing(t) /\ t.used = "live"
Admitted(t) == t.op = "create" /\ t.pc = "insert"

\* The orders that are being redeemed, and all that the limits have to cover: a
\* hold that expires while it is redeemed is in Pledged, and no longer in Live.
Redeeming == {o \in Orders : \E w \in Workers : Pledging(tx[w]) /\ tx[w].order = o}
Pledged == Claimed \cup Redeeming

\* What gate counts of the redemptions covers those that were in time.
TimelyIsCounted ==
    /\ \A o \in timely : discounts[o] > 0
    /\ \A c \in Codes : Cardinality(timely \cap OfCode(c)) <= timesRedeemed[c]

\* What the gate has established lasts until the hold is inserted.
AdmittedHaveRoom == \A w \in Workers : Admitted(tx[w]) => Room(Pledged, tx[w].order)

Capacity == TimelyIsCounted /\ AdmittedHaveRoom /\ Within(Pledged)

LEMMA PledgedIsOrders == TypeInv => Pledged \subseteq Orders
BY DEF Pledged, Claimed, Live, Redeeming, TypeInv, TypeOK

\* A step by which nothing is pledged and nobody admitted.
LEMMA CalmStep == ASSUME TypeInv, Capacity, TimelyIsCounted', Pledged' \subseteq Pledged,
                         \A v \in Workers : Admitted(tx'[v]) => /\ Admitted(tx[v]) \/ Room(Pledged, tx'[v].order)
                                                                /\ Admitted(tx[v]) => tx'[v].order = tx[v].order
                  PROVE  Capacity'
<1>1. Pledged \subseteq Orders
  BY PledgedIsOrders
<1>2. Within(Pledged')
  BY <1>1, WithinShrinks DEF Capacity
<1>3. \A v \in Workers : Admitted(tx'[v]) => Room(Pledged', tx'[v].order)
  <2> SUFFICES ASSUME NEW v \in Workers, Admitted(tx'[v])
               PROVE  Room(Pledged', tx'[v].order)
    OBVIOUS
  <2>1. Room(Pledged, tx'[v].order)
    BY DEF Capacity, AdmittedHaveRoom
  <2> QED
    BY <1>1, <2>1, RoomShrinks
<1> QED
  BY <1>2, <1>3 DEF Capacity, AdmittedHaveRoom

\* What is pledged when transactions move and no hold is inserted.
LEMMA PledgedShrinks == ASSUME TypeInv, TypeInv', timely' = timely, Live' \subseteq Live,
                               \A v \in Workers : Pledging(tx'[v]) =>
                                  tx'[v].order \in Live \/ (Pledging(tx[v]) /\ tx'[v].order = tx[v].order)
                        PROVE  Pledged' \subseteq Pledged
BY DEF Pledged, Claimed, Redeeming

\* A transaction that moves without inserting a hold or a discount.
LEMMA MoveCapacity == ASSUME TypeInv, TypeInv', Capacity, NEW w \in Workers, NEW t, tx' = [tx EXCEPT ![w] = t],
                             UNCHANGED <<timely, discounts, timesRedeemed, hold>>,
                             Pledging(t) => t.order \in Live \/ (Pledging(tx[w]) /\ t.order = tx[w].order),
                             Admitted(t) => t.order = tx[w].order /\ (Admitted(tx[w]) \/ Room(Pledged, t.order))
                      PROVE  Capacity'
<1>1. tx'[w] = t /\ \A v \in Workers \ {w} : tx'[v] = tx[v]
  BY OthersStay
<1>2. TimelyIsCounted'
  BY DEF Capacity, TimelyIsCounted
<1>3. Pledged' \subseteq Pledged
  <2>1. \A v \in Workers : Pledging(tx'[v]) => tx'[v].order \in Live \/ (Pledging(tx[v]) /\ tx'[v].order = tx[v].order)
    BY <1>1
  <2>2. Live' \subseteq Live
    BY DEF Live
  <2> QED
    BY <2>1, <2>2, PledgedShrinks
<1>4. \A v \in Workers : Admitted(tx'[v]) => /\ Admitted(tx[v]) \/ Room(Pledged, tx'[v].order)
                                             /\ Admitted(tx[v]) => tx'[v].order = tx[v].order
  BY <1>1
<1> QED
  BY <1>2, <1>3, <1>4, CalmStep

LEMMA EndCapacity == ASSUME TypeInv, TypeInv', Capacity, NEW w \in Workers, tx' = [tx EXCEPT ![w] = NoTx],
                            UNCHANGED <<timely, discounts, timesRedeemed, hold>>
                     PROVE  Capacity'
<1>1. ~Pledging(NoTx) /\ ~Admitted(NoTx)
  BY DEF Pledging, Sharing, Admitted, NoTx, Completes
<1> QED
  BY <1>1, MoveCapacity

LEMMA GotoCapacity == ASSUME TypeInv, TypeInv', Locks, Capacity, NEW w \in Workers, NEW pc \in Pcs,
                             tx' = [tx EXCEPT ![w].pc = pc],
                             UNCHANGED <<timely, discounts, timesRedeemed, hold>>,
                             \/ pc \in {"coupon", "gate"} /\ tx[w].op = "create"
                             \/ pc = "insert" /\ tx[w].op = "create" /\ Room(Pledged, tx[w].order)
                             \/ pc = "consume" /\ tx[w].op \in Completes
                             \/ pc = "settle" /\ tx[w].op \in Completes /\ tx[w].pc \in {"consume", "count"}
                      PROVE  Capacity'
<1> DEFINE t == [op |-> tx[w].op, order |-> tx[w].order, pc |-> pc, paid |-> tx[w].paid, used |-> tx[w].used]
<1>1. tx' = [tx EXCEPT ![w] = t]
  BY GotoIsMove
<1>2. Pledging(t) => Pledging(tx[w]) /\ t.order = tx[w].order
  BY DEF Pledging, Sharing, Locks, Completes
<1>3. Admitted(t) => t.order = tx[w].order /\ (Admitted(tx[w]) \/ Room(Pledged, t.order))
  BY DEF Admitted, Completes
<1> HIDE DEF t
<1> QED
  BY <1>1, <1>2, <1>3, MoveCapacity

\* Under the lock of the coupon no redemption is under way, so that what the gate
\* counts is all that is pledged.
LEMMA GateRoom == ASSUME TypeInv, Locks, Capacity, NEW w \in Workers, Holding(tx[w]), ~Refused(tx[w].order)
                  PROVE  Room(Pledged, tx[w].order)
<1> DEFINE o == tx[w].order
<1> USE LimitAssumption DEF LimitAssumption
<1>0. o \in Orders
  BY DEF Holding, TypeInv, TxOK
<1>1. Pledged = Live \cup timely
  BY DEF Pledged, Claimed, Redeeming, Pledging, Locks
<1>2. Live \subseteq Orders /\ timely \subseteq Redeemed /\ Redeemed \subseteq Orders
  BY DEF Live, Redeemed, Capacity, TimelyIsCounted, TypeInv, TypeOK
<1>3. ASSUME NEW R
      PROVE  /\ Cardinality(Live \cap R) \in Nat /\ Cardinality(timely \cap R) \in Nat
             /\ Cardinality(Pledged \cap R) \in Nat
             /\ Cardinality(Pledged \cap R) <= Cardinality(Live \cap R) + Cardinality(timely \cap R)
  <2>1. /\ IsFiniteSet(Live \cap R) /\ IsFiniteSet(timely \cap R)
        /\ Cardinality(Live \cap R) \in Nat /\ Cardinality(timely \cap R) \in Nat
    BY <1>2, OrdersFinite
  <2>2. Pledged \cap R = (Live \cap R) \cup (timely \cap R)
    BY <1>1
  <2>3. /\ Cardinality((Live \cap R) \cap (timely \cap R)) \in Nat
        /\ Cardinality(Pledged \cap R) \in Nat
    BY <1>1, <1>2, OrdersFinite
  <2>4. Cardinality(Pledged \cap R) =
           Cardinality(Live \cap R) + Cardinality(timely \cap R) - Cardinality((Live \cap R) \cap (timely \cap R))
    BY <2>1, <2>2, FS_Union
  <2> QED
    BY <2>1, <2>3, <2>4
<1>4. CouponCap > 0 => Cardinality(Pledged) + 1 <= CouponCap
  <2> SUFFICES ASSUME CouponCap > 0
               PROVE  Cardinality(Pledged) + 1 <= CouponCap
    OBVIOUS
  <2>1. CountByCoupon + HeldBy(Orders) < CouponCap
    <3>1. ~(CountByCoupon + HeldBy(Orders) >= CouponCap)
      BY DEF Refused
    <3>2. CountByCoupon \in Nat /\ HeldBy(Orders) \in Nat
      BY <1>2, OrdersFinite DEF CountByCoupon, HeldBy
    <3> QED
      BY <3>1, <3>2
  <2>2. Cardinality(timely) <= CountByCoupon /\ CountByCoupon \in Nat
    <3> DEFINE twice == {x \in Orders : discounts[x] > 1}
    <3>1. Cardinality(twice) \in Nat /\ Cardinality(Redeemed) \in Nat
      BY <1>2, OrdersFinite
    <3>2. Cardinality(timely) <= Cardinality(Redeemed) /\ Cardinality(timely) \in Nat
      BY <1>2, OrdersFinite
    <3>3. CountByCoupon = Cardinality(Redeemed) + Cardinality(twice)
      BY DEF CountByCoupon
    <3> HIDE DEF twice
    <3> QED
      BY <3>1, <3>2, <3>3
  <2>3. Live \cap Orders = Live /\ timely \cap Orders = timely /\ Pledged \cap Orders = Pledged
    BY <1>1, <1>2
  <2>4. /\ Cardinality(Live) \in Nat /\ Cardinality(timely) \in Nat /\ Cardinality(Pledged) \in Nat
        /\ Cardinality(Pledged) <= Cardinality(Live) + Cardinality(timely)
    BY <1>3, <2>3
  <2>5. HeldBy(Orders) = Cardinality(Live)
    BY <2>3 DEF HeldBy
  <2> QED
    BY <2>1, <2>2, <2>4, <2>5
<1>5. CodeCap > 0 => \A c \in Codes : o \in OfCode(c) => Cardinality(Pledged \cap OfCode(c)) + 1 <= CodeCap
  <2> SUFFICES ASSUME CodeCap > 0, NEW c \in Codes, o \in OfCode(c)
               PROVE  Cardinality(Pledged \cap OfCode(c)) + 1 <= CodeCap
    OBVIOUS
  <2>1. Cart[o].code = c
    BY DEF OfCode
  <2>2. /\ Cardinality(Live \cap OfCode(c)) \in Nat /\ Cardinality(timely \cap OfCode(c)) \in Nat
        /\ Cardinality(Pledged \cap OfCode(c)) \in Nat
        /\ Cardinality(Pledged \cap OfCode(c)) <= Cardinality(Live \cap OfCode(c)) + Cardinality(timely \cap OfCode(c))
    BY <1>3
  <2>3. ~(timesRedeemed[c] + Cardinality(Live \cap OfCode(c)) >= CodeCap)
    BY <2>1 DEF Refused, HeldBy
  <2>4. timesRedeemed[c] \in Nat /\ Cardinality(timely \cap OfCode(c)) <= timesRedeemed[c]
    BY DEF TypeInv, TypeOK, Capacity, TimelyIsCounted
  <2> QED
    BY <2>2, <2>3, <2>4
<1>6. OncePerCustomer => \A p \in Customers : o \in OfCustomer(p) => Pledged \cap OfCustomer(p) = {}
  <2> SUFFICES ASSUME OncePerCustomer, NEW p \in Customers, o \in OfCustomer(p)
               PROVE  Pledged \cap OfCustomer(p) = {}
    OBVIOUS
  <2>1. Cart[o].customer = p
    BY DEF OfCustomer
  <2>2. Redeemed \cap OfCustomer(p) = {} /\ ~(Cardinality(Live \cap OfCustomer(p)) > 0)
    BY <2>1 DEF Refused, HeldBy
  <2>3. IsFiniteSet(Live \cap OfCustomer(p)) /\ Cardinality(Live \cap OfCustomer(p)) \in Nat
    BY <1>2, OrdersFinite
  <2>4. Cardinality(Live \cap OfCustomer(p)) = 0
    BY <2>2, <2>3
  <2>5. Live \cap OfCustomer(p) = {}
    BY <2>3, <2>4, FS_EmptySet
  <2> QED
    BY <1>1, <1>2, <2>2, <2>5
<1> QED
  BY <1>4, <1>5, <1>6 DEF Room

LEMMA GateCapacity == ASSUME TypeInv, TypeInv', Locks, Capacity, NEW w \in Workers, Gate(w)
                      PROVE  Capacity'
<1>0. UNCHANGED <<timely, discounts, timesRedeemed, hold>>
  BY DEF Gate, coupon
<1>1. CASE Refused(tx[w].order)
  BY <1>0, <1>1, EndCapacity DEF Gate
<1>2. CASE ~Refused(tx[w].order)
  <2>1. tx' = [tx EXCEPT ![w].pc = "insert"]
    BY <1>2 DEF Gate
  <2>2. Holding(tx[w]) /\ tx[w].op = "create"
    BY DEF Gate, In, Holding
  <2>3. Room(Pledged, tx[w].order)
    BY <1>2, <2>2, GateRoom
  <2> QED
    BY <1>0, <2>1, <2>2, <2>3, GotoCapacity DEF Pcs
<1> QED
  BY <1>1, <1>2

\* The hold is inserted into the room that its transaction, the only one that has
\* passed the gate, was given.
LEMMA InsertReservationCapacity ==
    ASSUME TypeInv, TypeInv', Locks, Capacity, NEW w \in Workers, InsertReservation(w)
    PROVE  Capacity'
<1> DEFINE o == tx[w].order
           t == AfterReserve(o)
<1>1. tx[w].op = "create" /\ tx[w].pc = "insert" /\ o \in Orders
  BY DEF InsertReservation, In, TypeInv, TxOK
<1>2. tx' = [tx EXCEPT ![w] = t] /\ hold' = [hold EXCEPT ![o] = "live"] /\ UNCHANGED <<timely, discounts, timesRedeemed>>
  BY DEF InsertReservation
<1>3. ~Pledging(t) /\ ~Admitted(t)
  BY DEF AfterReserve, Begin, NoTx, Pledging, Sharing, Admitted, Completes
<1> HIDE DEF t
<1>4. tx'[w] = t /\ \A v \in Workers \ {w} : tx'[v] = tx[v]
  BY <1>2, OthersStay
<1>5. Room(Pledged, o) /\ Within(Pledged)
  BY <1>1 DEF Capacity, AdmittedHaveRoom, Admitted
<1>6. \A v \in Workers : ~Admitted(tx'[v])
  BY <1>1, <1>3, <1>4 DEF Locks, Holding, Admitted
<1>7. Pledged' \subseteq Pledged \cup {o}
  <2>1. Live' \subseteq Live \cup {o}
    BY <1>1, <1>2 DEF Live, TypeInv, TypeOK
  <2>2. \A v \in Workers : Pledging(tx'[v]) => Pledging(tx[v]) /\ tx'[v].order = tx[v].order
    BY <1>3, <1>4
  <2> QED
    BY <1>2, <2>1, <2>2 DEF Pledged, Claimed, Redeeming
<1>8. Within(Pledged')
  <2>1. Pledged \subseteq Orders
    BY PledgedIsOrders
  <2>2. Within(Pledged \cup {o})
    BY <1>1, <1>5, <2>1, WithinGrows
  <2>3. Pledged \cup {o} \subseteq Orders
    BY <1>1, <2>1
  <2> QED
    BY <1>7, <2>2, <2>3, WithinShrinks
<1>9. TimelyIsCounted'
  BY <1>2 DEF Capacity, TimelyIsCounted
<1> QED
  BY <1>6, <1>8, <1>9 DEF Capacity, AdmittedHaveRoom

LEMMA InsertDiscountCapacity ==
    ASSUME TypeInv, TypeInv', Locks, Capacity, NEW w \in Workers, InsertDiscount(w)
    PROVE  Capacity'
<1>0. UNCHANGED <<timely, discounts, timesRedeemed, hold>> /\ tx[w].op \in Completes /\ tx[w].pc = "consume"
  BY DEF InsertDiscount, coupon, In
<1>1. CASE hold[tx[w].order] = "none"
  <2>1. tx' = [tx EXCEPT ![w].pc = "settle"]
    BY <1>1 DEF InsertDiscount, Goto
  <2> QED
    BY <1>0, <2>1, GotoCapacity DEF Pcs
<1>2. CASE hold[tx[w].order] # "none"
  <2> DEFINE t == [op |-> tx[w].op, order |-> tx[w].order, pc |-> "count", paid |-> tx[w].paid, used |-> hold[tx[w].order]]
  <2>1. tx' = [tx EXCEPT ![w] = t]
    BY <1>2, DiscountTx
  <2>2. tx[w].order \in Orders
    BY <1>0 DEF Completes, TypeInv, TxOK
  <2>3. Pledging(t) => t.order \in Live
    BY <2>2 DEF Pledging, Live
  <2>4. ~Admitted(t)
    BY DEF Admitted
  <2> HIDE DEF t
  <2> QED
    BY <1>0, <2>1, <2>3, <2>4, MoveCapacity
<1> QED
  BY <1>1, <1>2

\* One element more.
LEMMA AddOne == ASSUME NEW S, IsFiniteSet(S), NEW x, NEW n \in Nat, Cardinality(S) <= n
                PROVE  Cardinality(S) <= n + 1 /\ Cardinality(S \cup {x}) <= n + 1
<1>1. Cardinality(S) \in Nat
  BY FS_CardinalityType
<1>2. Cardinality(S \cup {x}) = IF x \in S THEN Cardinality(S) ELSE Cardinality(S) + 1
  BY FS_AddElement
<1> QED
  BY <1>1, <1>2

\* Redeeming an order that was pledged: what was held is now redeemed, and counted.
LEMMA CommitCapacity ==
    ASSUME TypeInv, TypeInv', Locks, Capacity, NEW w \in Workers,
           In(w, Completes, {"settle"}), Written(w), tx' = [tx EXCEPT ![w] = NoTx]
    PROVE  Capacity'
<1> DEFINE o == tx[w].order
           c == CodeOf(w)
<1>1. o \in Orders
  BY DEF In, Completes, TypeInv, TxOK
<1>2. tx'[w] = NoTx /\ \A v \in Workers \ {w} : tx'[v] = tx[v]
  BY OthersStay
<1>3. ~Pledging(NoTx) /\ ~Admitted(NoTx)
  BY DEF Pledging, Sharing, Admitted, NoTx, Completes
<1>4. CASE tx[w].used = "none"
  BY <1>4, EndCapacity DEF Written, coupon
<1>5. CASE tx[w].used # "none"
  <2>1. /\ discounts' = [discounts EXCEPT ![o] = CountUp(@)]
        /\ timesRedeemed' = [timesRedeemed EXCEPT ![c] = timesRedeemed[c] + 1]
        /\ hold' = [hold EXCEPT ![o] = "none"]
        /\ timely' = IF tx[w].used = "live" THEN timely \cup {o} ELSE timely
    BY <1>5 DEF Written, OneMore
  <2>2. /\ discounts \in [Orders -> 0 .. Many] /\ timesRedeemed \in [Codes -> Nat]
        /\ hold \in [Orders -> {"none", "live", "expired"}] /\ timely \subseteq Orders
    BY DEF TypeInv, TypeOK
  <2>3. tx[w].used = "live" => o \in Redeeming
    BY <1>1, <1>5 DEF Redeeming, Pledging, Sharing, In
  <2> HIDE DEF c
  <2>4. Pledged' \subseteq Pledged
    <3>1. Live' \subseteq Live
      BY <1>1, <2>1, <2>2 DEF Live
    <3>2. Redeeming' \subseteq Redeeming
      BY <1>2, <1>3 DEF Redeeming
    <3>3. timely' \subseteq timely \cup Redeeming
      BY <2>1, <2>3
    <3> QED
      BY <3>1, <3>2, <3>3 DEF Pledged, Claimed
  <2>5. TimelyIsCounted'
    <3>1. \A x \in timely' : discounts'[x] > 0
      <4>1. \A x \in Orders : /\ x # o => discounts'[x] = discounts[x]
                              /\ discounts'[o] > 0
        BY <1>1, <2>1, <2>2 DEF CountUp, Many
      <4> QED
        BY <1>1, <2>1, <2>2, <4>1 DEF Capacity, TimelyIsCounted
    <3>2. ASSUME NEW d \in Codes
          PROVE  Cardinality(timely' \cap OfCode(d)) <= timesRedeemed'[d]
      <4>1. /\ IsFiniteSet(timely \cap OfCode(d)) /\ Cardinality(timely \cap OfCode(d)) \in Nat
            /\ Cardinality(timely \cap OfCode(d)) <= timesRedeemed[d] /\ timesRedeemed[d] \in Nat
        BY <2>2, OrdersFinite DEF Capacity, TimelyIsCounted
      <4>2. CASE d = c
        <5>1. timesRedeemed'[d] = timesRedeemed[d] + 1
          BY <2>1, <2>2, <4>2
        <5>2. \/ timely' \cap OfCode(d) = timely \cap OfCode(d)
              \/ timely' \cap OfCode(d) = (timely \cap OfCode(d)) \cup {o}
          BY <2>1
        <5>3. /\ Cardinality(timely \cap OfCode(d)) <= timesRedeemed[d] + 1
              /\ Cardinality((timely \cap OfCode(d)) \cup {o}) <= timesRedeemed[d] + 1
          BY <4>1, AddOne
        <5> QED
          BY <5>1, <5>2, <5>3
      <4>3. CASE d # c
        <5>1. timesRedeemed'[d] = timesRedeemed[d]
          BY <2>1, <2>2, <4>3
        <5>2. o \notin OfCode(d)
          BY <4>3 DEF OfCode, CodeOf, c
        <5>3. timely' \cap OfCode(d) = timely \cap OfCode(d)
          BY <2>1, <5>2
        <5> QED
          BY <4>1, <5>1, <5>3
      <4> QED
        BY <4>2, <4>3
    <3> QED
      BY <3>1, <3>2 DEF TimelyIsCounted
  <2>6. \A v \in Workers : Admitted(tx'[v]) => /\ Admitted(tx[v]) \/ Room(Pledged, tx'[v].order)
                                               /\ Admitted(tx[v]) => tx'[v].order = tx[v].order
    BY <1>2, <1>3
  <2> QED
    BY <2>4, <2>5, <2>6, CalmStep
<1> QED
  BY <1>4, <1>5

LEMMA DeadlockCapacity == ASSUME TypeInv, TypeInv', Locks, Capacity, NEW w \in Workers, DeadlockBroken(w)
                          PROVE  Capacity'
<1>1. PICK v \in Others(w) : /\ Deadlocked(v, w) \/ Deadlocked(w, v)
                             /\ tx' = [tx EXCEPT ![w] = NoTx, ![v].pc = Survivor(v, Others(w) \ {v})]
  BY DEF DeadlockBroken
<1> DEFINE pc == Survivor(v, Others(w) \ {v})
           t == [op |-> tx[v].op, order |-> tx[v].order, pc |-> pc, paid |-> tx[v].paid, used |-> tx[v].used]
<1>2. v \in Workers /\ v # w /\ tx[v] \in TxRecord
  BY DEF Others, TypeInv, TxOK
<1>3. tx'[w] = NoTx /\ tx'[v] = t /\ \A u \in Workers \ {v, w} : tx'[u] = tx[u]
  <2> HIDE DEF pc
  <2>1. tx'[w] = NoTx /\ \A u \in Workers \ {v, w} : tx'[u] = tx[u]
    BY <1>1, <1>2 DEF TypeInv, TxOK
  <2>2. tx'[v] = [tx[v] EXCEPT !.pc = pc]
    BY <1>1, <1>2 DEF TypeInv, TxOK, pc
  <2> QED
    BY <2>1, <2>2, <1>2 DEF TxRecord
<1>4. ~Pledging(NoTx) /\ ~Admitted(NoTx)
  BY DEF Pledging, Sharing, Admitted, NoTx, Completes
<1>5. (Pledging(t) => Pledging(tx[v])) /\ ~Admitted(t) /\ t.order = tx[v].order
  BY <1>1 DEF Deadlocked, Survivor, Pledging, Sharing, Admitted, In, Completes
<1> HIDE DEF t
<1>6. \A u \in Workers : /\ Pledging(tx'[u]) => Pledging(tx[u]) /\ tx'[u].order = tx[u].order
                         /\ Admitted(tx'[u]) => Admitted(tx[u]) /\ tx'[u].order = tx[u].order
  BY <1>3, <1>4, <1>5
<1>7. UNCHANGED <<timely, discounts, timesRedeemed, hold>>
  BY DEF DeadlockBroken, RollBack, coupon
<1>8. Live' \subseteq Live /\ timely' = timely /\ TimelyIsCounted'
  BY <1>7 DEF Live, Capacity, TimelyIsCounted
<1>9. Pledged' \subseteq Pledged
  BY <1>6, <1>8, PledgedShrinks
<1> QED
  BY <1>6, <1>8, <1>9, CalmStep

\* A step that leaves the transactions and the tables alone, or by which a hold expires.
LEMMA StayCapacity == ASSUME TypeInv, TypeInv', Capacity, tx' = tx, Live' \subseteq Live,
                             UNCHANGED <<timely, discounts, timesRedeemed>>
                      PROVE  Capacity'
<1>1. TimelyIsCounted' /\ timely' = timely
  BY DEF Capacity, TimelyIsCounted
<1>2. Pledged' \subseteq Pledged
  BY PledgedShrinks
<1> QED
  BY <1>1, <1>2, CalmStep

LEMMA CapacityInit == Init => Capacity
<1> SUFFICES ASSUME Init
             PROVE  Capacity
  OBVIOUS
<1>1. \A w \in Workers : ~Pledging(tx[w]) /\ ~Admitted(tx[w])
  BY DEF Init, NoTx, Pledging, Sharing, Admitted, Completes
<1>2. timely = {} /\ Pledged = {}
  BY <1>1 DEF Init, Pledged, Claimed, Live, Redeeming
<1>3. Cardinality({}) = 0 /\ \A S : {} \cap S = {}
  BY FS_EmptySet
<1>4. TimelyIsCounted
  BY <1>2, <1>3 DEF Init, TimelyIsCounted
<1>5. Within({})
  BY <1>3, LimitAssumption DEF LimitAssumption, Within
<1> QED
  BY <1>1, <1>2, <1>4, <1>5 DEF Capacity, AdmittedHaveRoom

\* No step, of any number of transactions, pledges more than the limits allow.
LEMMA CapacityStep == ASSUME TypeInv, TypeInv', Locks, Capacity, [Next]_vars
                      PROVE  Capacity'
<1>1. CASE UNCHANGED vars
  BY <1>1, StayCapacity DEF vars, coupon, Live
<1>2. ASSUME NEW w \in Workers, BeginNext(w)
      PROVE  Capacity'
  <2>1. PICK o \in Orders : \/ CreateOrder(w, o) \/ CompleteCheckoutSession(w, o)
                            \/ \E paid \in BOOLEAN : CompleteOrder(w, o, paid)
    BY <1>2 DEF BeginNext
  <2> DEFINE Fresh(t) == ~Pledging(t) /\ ~Admitted(t)
  <2>2. /\ Fresh(AfterReserve(o)) /\ Fresh(Begin("create", o, "code", FALSE))
        /\ \A paid : Fresh(Begin("complete", o, "order", paid)) /\ Fresh(Begin("checkout", o, "order", paid))
    BY DEF AfterReserve, Begin, NoTx, Pledging, Sharing, Admitted, Completes
  <2>3. \E t : tx' = [tx EXCEPT ![w] = t] /\ Fresh(t)
    <3>1. CASE CreateOrder(w, o)
      BY <3>1, <2>2 DEF CreateOrder
    <3>2. CASE CompleteCheckoutSession(w, o)
      BY <3>2, <2>2 DEF CompleteCheckoutSession
    <3>3. CASE \E paid \in BOOLEAN : CompleteOrder(w, o, paid)
      BY <3>3, <2>2 DEF CompleteOrder
    <3> QED
      BY <2>1, <3>1, <3>2, <3>3
  <2>4. UNCHANGED <<timely, discounts, timesRedeemed, hold>>
    BY <2>1 DEF CreateOrder, CompleteCheckoutSession, CompleteOrder, coupon
  <2> QED
    BY <2>3, <2>4, MoveCapacity
<1>3. ASSUME NEW w \in Workers, CreateNext(w)
      PROVE  Capacity'
  <2>1. CASE LockCode(w)
    BY <2>1, GotoCapacity DEF LockCode, Goto, In, Pcs, coupon
  <2>2. CASE LockCoupon(w)
    BY <2>2, GotoCapacity DEF LockCoupon, Goto, In, Pcs, coupon
  <2>3. CASE Gate(w)
    BY <2>3, GateCapacity
  <2>4. CASE InsertReservation(w)
    BY <2>4, InsertReservationCapacity
  <2>5. CASE BuildUpfrontInvoice(w)
    BY <2>5, EndCapacity DEF BuildUpfrontInvoice, coupon
  <2> QED
    BY <1>3, <2>1, <2>2, <2>3, <2>4, <2>5 DEF CreateNext
<1>4. ASSUME NEW w \in Workers, CompleteNext(w) \/ CommitUnreported(w) \/ DatabaseFails(w) \/ DeadlockBroken(w)
      PROVE  Capacity'
  <2>1. CASE LockOrder(w)
    <3>1. CASE StillToDo(w)
      BY <2>1, <3>1, GotoCapacity DEF LockOrder, Goto, In, Pcs, coupon
    <3>2. CASE ~StillToDo(w)
      BY <2>1, <3>2, EndCapacity DEF LockOrder, coupon
    <3> QED
      BY <3>1, <3>2
  <2>2. CASE InsertDiscount(w)
    BY <2>2, InsertDiscountCapacity
  <2>3. CASE IncrementRedeemed(w)
    BY <2>3, GotoCapacity DEF IncrementRedeemed, Goto, In, Pcs, coupon
  <2>4. CASE Commit(w) \/ CommitUnreported(w)
    BY <2>4, CommitCapacity DEF Commit, CommitUnreported, In, Completes
  <2>5. CASE SettleRefused(w) \/ DatabaseFails(w)
    BY <2>5, EndCapacity DEF SettleRefused, DatabaseFails, RollBack, coupon
  <2>6. CASE DeadlockBroken(w)
    BY <2>6, DeadlockCapacity
  <2> QED
    BY <1>4, <2>1, <2>2, <2>3, <2>4, <2>5, <2>6 DEF CompleteNext
<1>5. ASSUME NEW o \in Orders, HoldExpires(o)
      PROVE  Capacity'
  <2>1. Live' \subseteq Live
    BY <1>5 DEF HoldExpires, Live, TypeInv, TypeOK
  <2> QED
    BY <1>5, <2>1, StayCapacity DEF HoldExpires
<1>6. ASSUME NEW o \in Orders, PayAtCheckout(o) \/ WebhookNext(o) \/ ClaimExpires(o)
      PROVE  Capacity'
  <2>1. UNCHANGED <<tx, timely, discounts, timesRedeemed, hold>>
    BY <1>6 DEF PayAtCheckout, WebhookNext, ClaimWebhook, AlreadyClaimed, StartWorkflow, StartFails,
                HandlerDies, ClaimExpires, coupon
  <2> QED
    BY <2>1, StayCapacity DEF Live
<1> QED
  BY <1>1, <1>2, <1>3, <1>4, <1>5, <1>6 DEF Next

\* Checkout.CapacityHeld: what is held and what was redeemed in time stay within the
\* limits of the coupon, of each code and of each customer, however many CreateOrder
\* and completions run side by side, through rollbacks and broken deadlocks.
THEOREM CapacityAlwaysHeld == Spec => []CapacityHeld
<1> DEFINE Inv == TypeInv /\ Locks /\ Capacity
<1>1. Init => Inv
  BY InitType, LocksInit, CapacityInit
<1>2. Inv /\ [Next]_vars => Inv'
  BY TypeStep, LocksStep, CapacityStep
<1>3. Inv => CapacityHeld
  <2> SUFFICES ASSUME TypeInv, Capacity
               PROVE  CapacityHeld
    OBVIOUS
  <2>1. Claimed \subseteq Pledged /\ Pledged \subseteq Orders
    BY PledgedIsOrders DEF Pledged
  <2>2. Within(Claimed)
    BY <2>1, WithinShrinks DEF Capacity
  <2> QED
    BY <2>2 DEF Within, CapacityHeld
<1> HIDE DEF Inv
<1> QED
  BY <1>1, <1>2, <1>3, PTL DEF Spec

----------------------------------------------------------------------------
(* The inductive invariant.                                                *)

\* An order that is still being created, and to which nothing has happened.
Fresh(o) ==
    /\ order[o] # "completed" /\ psp[o] = "unpaid"
    /\ discounts[o] = 0 /\ payments[o] = 0 /\ invoice[o].status = "none"

Locking == {"consume", "count", "settle"}

\* What a transaction at each place knows of its order.
CreateKnows(w) ==
    tx[w].op = "create" =>
        /\ order[tx[w].order] = "pending" /\ Fresh(tx[w].order)
        /\ tx[w].pc \in {"code", "coupon", "gate", "insert", "invoice"}
        /\ tx[w].pc # "invoice" => hold[tx[w].order] = "none"

CompleteKnows(w) ==
    tx[w].op \in Completes =>
        /\ order[tx[w].order] # "none"
        /\ tx[w].pc \in {"order"} \cup Locking
        /\ tx[w].op = "checkout" => psp[tx[w].order] # "unpaid"
        /\ tx[w].pc \in {"order", "consume"} => tx[w].used = "none"
        /\ tx[w].pc = "count" => tx[w].used # "none"
        /\ tx[w].used # "none" => hold[tx[w].order] # "none"
        /\ tx[w].pc = "settle" /\ tx[w].used = "none" => hold[tx[w].order] = "none"

\* Two transactions on one order: both complete it, and one of them waits for the other.
Apart ==
    \A v, w \in Workers :
        v # w /\ tx[v].op # "none" /\ tx[w].op # "none" /\ tx[v].order = tx[w].order =>
            /\ tx[v].op # "create" /\ tx[w].op # "create"
            /\ tx[v].pc \notin Locking \/ tx[w].pc \notin Locking

\* What an order's rows say of each other.
OrderKnows(o) ==
    /\ order[o] = "none" => Fresh(o) /\ hold[o] = "none"
    /\ psp[o] = "unpaid" => run[o] = "none" /\ o \notin claim \cup handler
    /\ payments[o] <= 1 /\ (payments[o] = 1 => invoice[o].status = "paid")
    /\ discounts[o] <= 1 /\ (discounts[o] = 1 => hold[o] = "none" /\ invoice[o].status # "none")
    /\ ~Cart[o].recurring /\ invoice[o].status # "none" /\ (hold[o] # "none" \/ discounts[o] = 1)
         => invoice[o].discounted

Settled ==
    /\ \A w \in Workers : CreateKnows(w) /\ CompleteKnows(w)
    /\ \A o \in Orders : OrderKnows(o)
    /\ Apart

LEMMA TxTypes ==
    ASSUME TypeInv, NEW w \in Workers
    PROVE  /\ tx[w].op \in Ops /\ tx[w].pc \in Pcs /\ tx[w].used \in {"none", "live", "expired"}
           /\ tx[w].paid \in BOOLEAN
           /\ tx[w].op # "none" => tx[w].order \in Orders
           /\ tx[w].op \in {"none", "create", "complete", "checkout"}
           /\ Completes = {"complete", "checkout"}
BY DEF TypeInv, TxOK, TxRecord, Ops, Completes

\* Where tx[w].pc is set, the rest of the transaction stays.
LEMMA GotoIs ==
    ASSUME TypeInv, NEW w \in Workers, NEW pc \in Pcs, tx' = [tx EXCEPT ![w].pc = pc]
    PROVE  /\ tx'[w].op = tx[w].op /\ tx'[w].order = tx[w].order /\ tx'[w].pc = pc
           /\ tx'[w].paid = tx[w].paid /\ tx'[w].used = tx[w].used
           /\ \A v \in Workers \ {w} : tx'[v] = tx[v]
<1> DEFINE t == [op |-> tx[w].op, order |-> tx[w].order, pc |-> pc, paid |-> tx[w].paid, used |-> tx[w].used]
<1>1. tx' = [tx EXCEPT ![w] = t]
    BY GotoIsMove
<1>2. tx'[w] = t /\ \A v \in Workers \ {w} : tx'[v] = tx[v]
    <2> HIDE DEF t
    <2> QED BY <1>1, OthersStay
<1> QED BY <1>2

\* Whoever is at work is at work on an order that was placed; and nobody else works on one
\* that is still being created.
LEMMA WorksOn ==
    ASSUME TypeInv, Settled, NEW w \in Workers, tx[w].op # "none"
    PROVE  /\ order[tx[w].order] # "none"
           /\ Creating(tx[w].order) => tx[w].op = "create"
BY TxTypes DEF Settled, CreateKnows, CompleteKnows, Creating, Apart

\* A step that leaves the tables alone, and of every transaction its operation and order,
\* unless it ends; at most one of them gets an order's lock, and no other has it.
Keeps(u) == tx'[u].op = "none" \/ (tx'[u].op = tx[u].op /\ tx'[u].order = tx[u].order)
Tables == <<order, hold, discounts, invoice, payments>>

LEMMA ApartStays ==
    ASSUME TypeInv, Apart, NEW w \in Workers,
           \A u \in Workers : Keeps(u),
           \A u \in Workers \ {w} : tx'[u].op # "none" /\ tx'[u].pc \in Locking => tx[u].pc \in Locking,
           \/ tx'[w].op = "none"
           \/ tx'[w].pc \in Locking => tx[w].pc \in Locking
           \/ \A u \in Others(w) : ~HoldsOrder(u, tx[w].order)
    PROVE  Apart'
<1>1. ASSUME NEW v \in Workers, NEW u \in Workers, v # u, tx'[v].op # "none", tx'[u].op # "none",
             tx'[v].order = tx'[u].order
      PROVE  /\ tx'[v].op # "create" /\ tx'[u].op # "create"
             /\ tx'[v].pc \notin Locking \/ tx'[u].pc \notin Locking
    <2>1. /\ tx'[v].op = tx[v].op /\ tx'[v].order = tx[v].order
          /\ tx'[u].op = tx[u].op /\ tx'[u].order = tx[u].order
        BY <1>1 DEF Keeps
    <2>2. /\ tx[v].op # "create" /\ tx[u].op # "create"
          /\ tx[v].pc \notin Locking \/ tx[u].pc \notin Locking
        BY <1>1, <2>1 DEF Apart
    <2>3. ASSUME NEW x \in Workers, x # w, tx[x].op # "none", tx[x].op # "create", tx[x].order = tx[w].order,
                 tx[x].pc \in Locking, tx'[w].op # "none"
          PROVE  tx'[w].pc \in Locking => tx[w].pc \in Locking
        <3>1. tx[x].op \in Completes
            BY <2>3, TxTypes
        <3>2. HoldsOrder(x, tx[w].order) /\ x \in Others(w)
            BY <2>3, <3>1 DEF HoldsOrder, In, Locking, Others
        <3> QED BY <2>3, <3>2
    <2> QED BY <1>1, <2>1, <2>2, <2>3
<1> QED BY <1>1 DEF Apart

LEMMA SettledStays ==
    ASSUME TypeInv, Settled, UNCHANGED Tables, Apart',
           \A o \in Orders : OrderKnows(o)',
           \A u \in Workers : CreateKnows(u)' /\ CompleteKnows(u)'
    PROVE  Settled'
BY DEF Settled

\* An order's rows go on agreeing while only its run and its webhook change, and know it.
LEMMA OrderStays ==
    ASSUME NEW o \in Orders, OrderKnows(o), UNCHANGED Tables,
           psp[o] # "unpaid" => psp'[o] # "unpaid",
           order[o] = "none" => psp'[o] = "unpaid",
           psp'[o] = "unpaid" => run'[o] = "none" /\ o \notin claim' \cup handler'
    PROVE  OrderKnows(o)'
BY DEF OrderKnows, Tables, Fresh

\* A transaction that goes on without a change of what it knows.
LEMMA WorkStays ==
    ASSUME NEW u \in Workers, CreateKnows(u), CompleteKnows(u), tx'[u] = tx[u], UNCHANGED <<Tables, psp>>
    PROVE  CreateKnows(u)' /\ CompleteKnows(u)'
BY DEF CreateKnows, CompleteKnows, Fresh, Tables

LEMMA WorkEnds ==
    ASSUME NEW u \in Workers, tx'[u] = NoTx
    PROVE  CreateKnows(u)' /\ CompleteKnows(u)' /\ tx'[u].op = "none"
BY NoTxType DEF CreateKnows, CompleteKnows, Completes

\* The run of an order that a checkout works on, or that rolls back.
LEMMA RunsKnown ==
    ASSUME TypeInv, Settled, NEW w \in Workers,
           UNCHANGED run \/ (\E end : RunEnds(w, end)),
           tx[w].op # "none"
    PROVE  \A o \in Orders : psp[o] = "unpaid" => run'[o] = "none"
<1>1. \A o \in Orders : psp[o] = "unpaid" => run[o] = "none"
    BY DEF Settled, OrderKnows
<1>2. tx[w].op = "checkout" => psp[tx[w].order] # "unpaid"
    BY TxTypes DEF Settled, CompleteKnows
<1> QED BY <1>1, <1>2 DEF RunEnds, TypeInv, TypeOK

\* One transaction moves; the tables, the webhooks and, where they are not known, the runs stay.
LEMMA OneMoves ==
    ASSUME TypeInv, Settled, NEW w \in Workers,
           \A v \in Workers \ {w} : tx'[v] = tx[v],
           UNCHANGED <<Tables, psp, claim, handler>>,
           \A o \in Orders : psp[o] = "unpaid" => run'[o] = "none",
           Keeps(w),
           \/ tx'[w].op = "none"
           \/ tx'[w].pc \in Locking => tx[w].pc \in Locking
           \/ \A u \in Others(w) : ~HoldsOrder(u, tx[w].order),
           CreateKnows(w)', CompleteKnows(w)'
    PROVE  Settled'
<1>1. \A o \in Orders : OrderKnows(o)'
    BY OrderStays DEF Settled, OrderKnows, Fresh
<1>2. \A u \in Workers : CreateKnows(u)' /\ CompleteKnows(u)'
    BY WorkStays DEF Settled
<1>3. Apart'
    <2>1. \A u \in Workers : Keeps(u)
        BY DEF Keeps
    <2> QED BY <2>1, ApartStays DEF Settled
<1> QED BY <1>1, <1>2, <1>3 DEF Settled

----------------------------------------------------------------------------
(* The steps.                                                              *)

\* A transaction ends without a trace.
LEMMA EndSettled ==
    ASSUME TypeInv, Settled, NEW w \in Workers, tx' = [tx EXCEPT ![w] = NoTx],
           UNCHANGED <<Tables, psp, claim, handler>>,
           \A o \in Orders : psp[o] = "unpaid" => run'[o] = "none"
    PROVE  Settled'
<1>1. tx'[w] = NoTx /\ \A v \in Workers \ {w} : tx'[v] = tx[v]
    BY OthersStay
<1>2. CreateKnows(w)' /\ CompleteKnows(w)' /\ tx'[w].op = "none"
    BY <1>1, WorkEnds
<1> QED BY <1>1, <1>2, OneMoves DEF Keeps

\* A transaction begins, on an order on which nothing that it could disturb is going on.
LEMMA BeginSettled ==
    ASSUME TypeInv, Settled, NEW w \in Workers, NEW o \in Orders, NEW t, tx[w] = NoTx,
           tx' = [tx EXCEPT ![w] = t], t.order = o, t.pc \notin Locking,
           UNCHANGED <<Tables, psp, claim, handler>>,
           \A d \in Orders : psp[d] = "unpaid" => run'[d] = "none",
           t.op \in Completes, ~Creating(o), CompleteKnows(w)'
    PROVE  Settled'
<1>1. tx'[w] = t /\ \A v \in Workers \ {w} : tx'[v] = tx[v]
    BY OthersStay
<1>2. t.op # "create" /\ t.op # "none"
    BY DEF Completes
<1>3. \A v \in Workers : tx[v].order = o => tx[v].op # "create"
    BY DEF Creating
<1>4. Apart'
    BY <1>1, <1>2, <1>3 DEF Settled, Apart
<1>5. \A d \in Orders : OrderKnows(d)'
    BY OrderStays DEF Settled, OrderKnows, Fresh
<1>6. \A u \in Workers : CreateKnows(u)' /\ CompleteKnows(u)'
    BY <1>1, <1>2, WorkStays DEF Settled, CreateKnows
<1> QED BY <1>4, <1>5, <1>6 DEF Settled

LEMMA CreateOrderSettled ==
    ASSUME TypeInv, Settled, NEW w \in Workers, NEW o \in Orders, CreateOrder(w, o)
    PROVE  Settled'
<1> DEFINE t == IF Cart[o].code = NoCode THEN AfterReserve(o) ELSE Begin("create", o, "code", FALSE)
<1>1. /\ t.op = "none" \/ (t.op = "create" /\ t.order = o /\ t.pc \in {"code", "invoice"})
      /\ t.op \in {"none", "create"}
    BY NoTxType DEF AfterReserve, Begin
<1>2. tx'[w] = t /\ \A v \in Workers \ {w} : tx'[v] = tx[v]
    <2> HIDE DEF t
    <2> QED BY OthersStay DEF CreateOrder, t
<1> HIDE DEF t
<1>3. /\ order[o] = "none" /\ order'[o] = "pending" /\ \A d \in Orders \ {o} : order'[d] = order[d]
      /\ UNCHANGED <<hold, discounts, invoice, payments, psp, claim, handler, run>>
    BY DEF CreateOrder, TypeInv, TypeOK, coupon, books, webhook, runs
<1>4. OrderKnows(o) /\ Fresh(o) /\ hold[o] = "none"
    BY <1>3 DEF Settled, OrderKnows
<1>5. \A v \in Workers : tx[v].op # "none" => tx[v].order # o /\ tx[v].order \in Orders
    BY <1>3, WorksOn, TxTypes
<1>6. \A d \in Orders : OrderKnows(d)'
    BY <1>3, <1>4 DEF Settled, OrderKnows, Fresh
<1>7. Apart'
    BY <1>1, <1>2, <1>5 DEF Settled, Apart
<1>8. CreateKnows(w)' /\ CompleteKnows(w)'
    BY <1>1, <1>2, <1>3, <1>4 DEF CreateKnows, CompleteKnows, Completes, Fresh
<1>9. ASSUME NEW u \in Workers \ {w} PROVE CreateKnows(u)' /\ CompleteKnows(u)'
    <2>1. CASE tx[u].op = "none"
        BY <1>2, <2>1 DEF CreateKnows, CompleteKnows, Completes
    <2>2. CASE tx[u].op # "none"
        <3>1. tx'[u] = tx[u] /\ order'[tx[u].order] = order[tx[u].order]
            BY <1>2, <1>3, <1>5, <2>2
        <3> QED BY <1>3, <3>1 DEF Settled, CreateKnows, CompleteKnows, Fresh
    <2> QED BY <2>1, <2>2
<1> QED BY <1>6, <1>7, <1>8, <1>9 DEF Settled

\* Reserve goes on.
LEMMA ReserveSettled ==
    ASSUME TypeInv, Settled, NEW w \in Workers, LockCode(w) \/ LockCoupon(w) \/ Gate(w)
    PROVE  Settled'
<1>1. /\ UNCHANGED <<Tables, psp, claim, handler, run>> /\ tx[w].op = "create"
      /\ tx[w].pc \in {"code", "coupon", "gate"}
    BY DEF LockCode, LockCoupon, Gate, In, Tables, coupon, books, webhook, runs
<1>2. \A o \in Orders : psp[o] = "unpaid" => run'[o] = "none"
    BY <1>1 DEF Settled, OrderKnows
<1>3. CASE tx' = [tx EXCEPT ![w] = NoTx]
    BY <1>1, <1>2, <1>3, EndSettled
<1>4. ASSUME NEW pc \in {"coupon", "gate", "insert"}, tx' = [tx EXCEPT ![w].pc = pc]
      PROVE  Settled'
    <2>1. /\ tx'[w].op = "create" /\ tx'[w].order = tx[w].order /\ tx'[w].pc = pc
          /\ \A v \in Workers \ {w} : tx'[v] = tx[v]
        BY <1>1, <1>4, GotoIs DEF Pcs
    <2>2. CreateKnows(w)'
        BY <1>1, <2>1 DEF Settled, CreateKnows, Fresh, Tables
    <2>3. CompleteKnows(w)' /\ tx'[w].pc \notin Locking /\ Keeps(w)
        BY <1>1, <2>1 DEF CompleteKnows, Completes, Locking, Keeps
    <2> QED BY <1>1, <1>2, <2>1, <2>2, <2>3, OneMoves
<1> QED BY <1>3, <1>4 DEF LockCode, LockCoupon, Gate, Goto

\* The order of a creating transaction is touched by no other.
LEMMA OnlyCreator ==
    ASSUME TypeInv, Settled, NEW w \in Workers, tx[w].op = "create"
    PROVE  /\ tx[w].order \in Orders /\ order[tx[w].order] = "pending" /\ Fresh(tx[w].order)
           /\ \A v \in Workers \ {w} : tx[v].op # "none" => tx[v].order # tx[w].order
BY TxTypes DEF Settled, CreateKnows, Apart

LEMMA InsertReservationSettled ==
    ASSUME TypeInv, Settled, NEW w \in Workers, InsertReservation(w)
    PROVE  Settled'
<1> DEFINE o == tx[w].order
<1> DEFINE t == AfterReserve(o)
<1>1. /\ o \in Orders /\ order[o] = "pending" /\ Fresh(o)
      /\ \A v \in Workers \ {w} : tx[v].op # "none" => tx[v].order # o
    BY OnlyCreator DEF InsertReservation, In
<1>2. t.op = "none" \/ (t.op = "create" /\ t.order = o /\ t.pc = "invoice")
    BY NoTxType DEF AfterReserve, Begin
<1> HIDE DEF t
<1>3. tx'[w] = t /\ \A v \in Workers \ {w} : tx'[v] = tx[v]
    BY OthersStay DEF InsertReservation, t
<1>4. /\ UNCHANGED <<order, discounts, invoice, payments, psp, claim, handler, run>>
      /\ \A d \in Orders \ {o} : hold'[d] = hold[d]
    BY DEF InsertReservation, books, webhook, runs, TypeInv, TypeOK
<1>5. \A d \in Orders : OrderKnows(d)'
    BY <1>1, <1>4 DEF Settled, OrderKnows, Fresh
<1>6. CreateKnows(w)' /\ CompleteKnows(w)' /\ t.op \notin Completes
    BY <1>1, <1>2, <1>3, <1>4 DEF CreateKnows, CompleteKnows, Completes, Fresh
<1>7. ASSUME NEW u \in Workers \ {w} PROVE CreateKnows(u)' /\ CompleteKnows(u)'
    <2>1. CASE tx[u].op = "none"
        BY <1>3, <2>1 DEF CreateKnows, CompleteKnows, Completes
    <2>2. CASE tx[u].op # "none"
        <3>1. tx'[u] = tx[u] /\ hold'[tx[u].order] = hold[tx[u].order]
            BY <1>1, <1>3, <1>4, <2>2, TxTypes
        <3> QED BY <1>4, <3>1 DEF Settled, CreateKnows, CompleteKnows, Fresh
    <2> QED BY <2>1, <2>2
<1>8. Apart'
    BY <1>1, <1>2, <1>3 DEF Settled, Apart
<1> QED BY <1>5, <1>6, <1>7, <1>8 DEF Settled

LEMMA UpfrontSettled ==
    ASSUME TypeInv, Settled, NEW w \in Workers, BuildUpfrontInvoice(w)
    PROVE  Settled'
<1>1. PICK o \in Orders :
         /\ o = tx[w].order /\ order[o] = "pending" /\ Fresh(o)
         /\ \A v \in Workers \ {w} : tx[v].op # "none" => tx[v].order # o
    BY OnlyCreator DEF BuildUpfrontInvoice, In
<1>2. tx'[w] = NoTx /\ \A v \in Workers \ {w} : tx'[v] = tx[v]
    BY OthersStay DEF BuildUpfrontInvoice
<1>3. /\ UNCHANGED <<order, hold, discounts, payments, psp, claim, handler, run>>
      /\ invoice'[o] = [status |-> "open", discounted |-> hold[o] # "none"]
      /\ \A d \in Orders \ {o} : invoice'[d] = invoice[d]
    BY <1>1 DEF BuildUpfrontInvoice, coupon, webhook, runs, TypeInv, TypeOK
<1>4. invoice'[o].status = "open" /\ (hold[o] # "none" => invoice'[o].discounted)
    <2> DEFINE r == [status |-> "open", discounted |-> hold[o] # "none"]
    <2>1. r.status = "open"
        OBVIOUS
    <2>2. hold[o] # "none" => r.discounted
        BY Zenon
    <2> HIDE DEF r
    <2> QED BY <1>3, <2>1, <2>2 DEF r
<1>5. \A d \in Orders \ {o} : OrderKnows(d)'
    BY <1>3 DEF Settled, OrderKnows, Fresh
<1>6. OrderKnows(o)'
    BY <1>1, <1>3, <1>4 DEF Settled, OrderKnows, Fresh
<1>7. ASSUME NEW u \in Workers \ {w} PROVE CreateKnows(u)' /\ CompleteKnows(u)'
    <2>1. CASE tx[u].op = "none"
        BY <1>2, <2>1 DEF CreateKnows, CompleteKnows, Completes
    <2>2. CASE tx[u].op # "none"
        <3>1. tx'[u] = tx[u] /\ invoice'[tx[u].order] = invoice[tx[u].order]
            BY <1>1, <1>2, <1>3, <2>2, TxTypes
        <3> QED BY <1>3, <3>1 DEF Settled, CreateKnows, CompleteKnows, Fresh
    <2> QED BY <2>1, <2>2
<1>8. Apart'
    BY <1>2, NoTxType DEF Settled, Apart
<1>9. CreateKnows(w)' /\ CompleteKnows(w)'
    BY <1>2, WorkEnds
<1> QED BY <1>5, <1>6, <1>7, <1>8, <1>9 DEF Settled

LEMMA BeginCompletionSettled ==
    ASSUME TypeInv, Settled, NEW w \in Workers, NEW o \in Orders, NEW paid \in BOOLEAN,
           CompleteOrder(w, o, paid) \/ CompleteCheckoutSession(w, o)
    PROVE  Settled'
<1>1. UNCHANGED <<Tables, psp, claim, handler>> /\ tx[w] = NoTx /\ OrderKnows(o)
    BY DEF CompleteOrder, CompleteCheckoutSession, Tables, coupon, books, webhook, Settled
<1>2. CASE CompleteOrder(w, o, paid)
    <2> DEFINE t == Begin("complete", o, "order", paid)
    <2>1. t.op = "complete" /\ t.order = o /\ t.pc = "order" /\ t.used = "none"
        BY DEF Begin
    <2>2. tx'[w] = t
        BY <1>2, OthersStay DEF CompleteOrder
    <2>3. tx' = [tx EXCEPT ![w] = t] /\ UNCHANGED run /\ order[o] = "pending" /\ ~Creating(o)
        BY <1>2 DEF CompleteOrder, runs
    <2> HIDE DEF t
    <2>4. CompleteKnows(w)' /\ t.op \in Completes /\ t.pc \notin Locking
        BY <1>1, <2>1, <2>2, <2>3 DEF CompleteKnows, Completes, Locking, Tables
    <2>5. \A d \in Orders : psp[d] = "unpaid" => run'[d] = "none"
        BY <2>3 DEF Settled, OrderKnows
    <2> QED BY <1>1, <2>1, <2>3, <2>4, <2>5, BeginSettled
<1>3. CASE CompleteCheckoutSession(w, o)
    <2> DEFINE t == Begin("checkout", o, "order", Cart[o].charge)
    <2>1. t.op = "checkout" /\ t.order = o /\ t.pc = "order" /\ t.used = "none"
        BY DEF Begin
    <2>2. tx'[w] = t
        BY <1>3, OthersStay DEF CompleteCheckoutSession
    <2>3. tx' = [tx EXCEPT ![w] = t] /\ run' = [run EXCEPT ![o] = "running"] /\ run[o] = "queued"
        BY <1>3 DEF CompleteCheckoutSession
    <2>4. psp[o] # "unpaid" /\ order[o] # "none"
        BY <1>1, <2>3 DEF OrderKnows, Fresh
    <2>5. ~Creating(o)
        BY <2>4 DEF Creating, Settled, CreateKnows, Fresh
    <2> HIDE DEF t
    <2>6. CompleteKnows(w)' /\ t.op \in Completes /\ t.pc \notin Locking
        BY <1>1, <2>1, <2>2, <2>4 DEF CompleteKnows, Completes, Locking, Tables
    <2>7. \A d \in Orders : psp[d] = "unpaid" => run'[d] = "none"
        BY <2>3, <2>4 DEF Settled, OrderKnows, TypeInv, TypeOK
    <2> QED BY <1>1, <2>1, <2>3, <2>5, <2>6, <2>7, BeginSettled
<1> QED BY <1>2, <1>3

\* A transaction that goes on to the place pc, with the order's lock or for it.
LEMMA GoesOnSettled ==
    ASSUME TypeInv, Settled, NEW w \in Workers, NEW pc \in Locking, tx[w].op \in Completes,
           tx' = [tx EXCEPT ![w].pc = pc], UNCHANGED <<Tables, psp, claim, handler, run>>,
           \/ tx[w].pc = "order" /\ pc = "consume" /\ \A v \in Others(w) : ~HoldsOrder(v, tx[w].order)
           \/ tx[w].pc = "consume" /\ pc = "settle" /\ hold[tx[w].order] = "none"
           \/ tx[w].pc = "count" /\ pc = "settle"
    PROVE  Settled'
<1>1. /\ tx'[w].op = tx[w].op /\ tx'[w].order = tx[w].order /\ tx'[w].pc = pc /\ tx'[w].used = tx[w].used
      /\ \A v \in Workers \ {w} : tx'[v] = tx[v]
    BY GotoIs DEF Pcs, Locking
<1>2. CompleteKnows(w)
    BY DEF Settled
<1>3. CompleteKnows(w)'
    BY <1>1, <1>2 DEF CompleteKnows, Locking, Tables
<1>4. CreateKnows(w)' /\ Keeps(w)
    BY <1>1 DEF CreateKnows, Completes, Keeps
<1>5. \A o \in Orders : psp[o] = "unpaid" => run'[o] = "none"
    BY DEF Settled, OrderKnows
<1>6. tx[w].pc \in Locking \/ \A v \in Others(w) : ~HoldsOrder(v, tx[w].order)
    BY DEF Locking
<1> QED BY <1>1, <1>3, <1>4, <1>5, <1>6, OneMoves

LEMMA CompletionSettled ==
    ASSUME TypeInv, Settled, NEW w \in Workers,
           LockOrder(w) \/ InsertDiscount(w) \/ IncrementRedeemed(w)
    PROVE  Settled'
<1>1. UNCHANGED <<Tables, psp, claim, handler>> /\ tx[w].op \in Completes /\ tx[w].op # "none"
    BY DEF LockOrder, InsertDiscount, IncrementRedeemed, In, Tables, coupon, books, webhook, Completes
<1>2. CASE LockOrder(w)
    <2>1. CASE StillToDo(w)
        <3>1. /\ tx' = [tx EXCEPT ![w].pc = "consume"] /\ UNCHANGED run /\ tx[w].pc = "order"
              /\ \A v \in Others(w) : ~HoldsOrder(v, tx[w].order)
            BY <1>2, <2>1 DEF LockOrder, Goto, In
        <3> QED BY <1>1, <3>1, GoesOnSettled DEF Locking
    <2>2. CASE ~StillToDo(w)
        <3>1. tx' = [tx EXCEPT ![w] = NoTx] /\ \E end : RunEnds(w, end)
            BY <1>2, <2>2 DEF LockOrder
        <3>2. \A o \in Orders : psp[o] = "unpaid" => run'[o] = "none"
            BY <1>1, <3>1, RunsKnown
        <3> QED BY <1>1, <3>1, <3>2, EndSettled
    <2> QED BY <2>1, <2>2
<1>3. CASE IncrementRedeemed(w)
    <2>1. tx' = [tx EXCEPT ![w].pc = "settle"] /\ UNCHANGED run /\ tx[w].pc = "count"
        BY <1>3 DEF IncrementRedeemed, Goto, In, runs
    <2> QED BY <1>1, <2>1, GoesOnSettled DEF Locking
<1>4. CASE InsertDiscount(w) /\ hold[tx[w].order] = "none"
    <2>1. tx' = [tx EXCEPT ![w].pc = "settle"] /\ UNCHANGED run /\ tx[w].pc = "consume"
        BY <1>4 DEF InsertDiscount, Goto, In, runs
    <2> QED BY <1>1, <1>4, <2>1, GoesOnSettled DEF Locking
<1>5. CASE InsertDiscount(w) /\ hold[tx[w].order] # "none"
    <2> DEFINE t == [op |-> tx[w].op, order |-> tx[w].order, pc |-> "count", paid |-> tx[w].paid,
                     used |-> hold[tx[w].order]]
    <2>1. tx' = [tx EXCEPT ![w] = t] /\ UNCHANGED run /\ tx[w].pc = "consume"
        BY <1>5, DiscountTx DEF InsertDiscount, In, runs
    <2>2. t.op = tx[w].op /\ t.order = tx[w].order /\ t.pc = "count" /\ t.used = hold[tx[w].order]
        OBVIOUS
    <2> HIDE DEF t
    <2>3. tx'[w] = t /\ \A v \in Workers \ {w} : tx'[v] = tx[v]
        BY <2>1, OthersStay
    <2>4. CompleteKnows(w)
        BY DEF Settled
    <2>5. CompleteKnows(w)'
        BY <1>1, <1>5, <2>2, <2>3, <2>4 DEF CompleteKnows, Locking, Tables
    <2>6. CreateKnows(w)' /\ Keeps(w) /\ tx[w].pc \in Locking
        BY <1>1, <2>1, <2>2, <2>3 DEF CreateKnows, Completes, Keeps, Locking
    <2>7. \A o \in Orders : psp[o] = "unpaid" => run'[o] = "none"
        BY <2>1 DEF Settled, OrderKnows
    <2> QED BY <1>1, <2>3, <2>5, <2>6, <2>7, OneMoves
<1> QED BY <1>2, <1>3, <1>4, <1>5

\* What a transaction that has the order leaves in its tables.
LEMMA WrittenKnows ==
    ASSUME TypeInv, Settled, NEW w \in Workers, NEW o \in Orders, o = tx[w].order,
           In(w, Completes, {"settle"}), CanSettle(w), Written(w)
    PROVE  /\ order'[o] = "completed"
           /\ payments'[o] <= 1 /\ (payments'[o] = 1 => invoice'[o].status = "paid")
           /\ discounts'[o] <= 1
           /\ hold'[o] = "none" /\ invoice'[o].status # "none"
           /\ ~Cart[o].recurring /\ discounts'[o] = 1 => invoice'[o].discounted
           /\ \A d \in Orders \ {o} : /\ order'[d] = order[d] /\ hold'[d] = hold[d]
                                      /\ discounts'[d] = discounts[d] /\ payments'[d] = payments[d]
                                      /\ invoice'[d] = invoice[d]
<1>1. /\ OrderKnows(o) /\ CompleteKnows(w) /\ tx[w].op \in Completes /\ tx[w].pc = "settle"
      /\ tx[w].paid \in BOOLEAN /\ invoice[o] \in InvoiceRecord
      /\ discounts[o] \in 0 .. Many /\ payments[o] \in 0 .. Many
    BY TxTypes DEF Settled, In, TypeInv, TypeOK, InvoiceRecord
<1>2. /\ order' = [order EXCEPT ![o] = "completed"]
      /\ invoice' = [invoice EXCEPT ![o] = InvoiceLeft(w)]
      /\ payments' = IF tx[w].paid THEN [payments EXCEPT ![o] = CountUp(@)] ELSE payments
    BY DEF Written
<1>3. invoice[o].status # "none" => OrderInvoice(w) = invoice[o]
    BY DEF OrderInvoice
<1>4. invoice[o].status = "none" =>
          /\ OrderInvoice(w).status = "draft"
          /\ tx[w].used # "none" /\ ~Cart[o].recurring => OrderInvoice(w).discounted
    <2> DEFINE r == [status |-> "draft", discounted |-> tx[w].used # "none" /\ OrderLevel(w)]
    <2>1. r.status = "draft"
        OBVIOUS
    <2>2. tx[w].used # "none" /\ ~Cart[o].recurring => r.discounted
        <3>1. ~Cart[o].recurring => OrderLevel(w)
            BY DEF OrderLevel
        <3> QED BY <3>1, Zenon
    <2>3. invoice[o].status = "none" => OrderInvoice(w) = r
        BY DEF OrderInvoice
    <2> HIDE DEF r
    <2> QED BY <2>1, <2>2, <2>3
<1>5. /\ InvoiceLeft(w).status = IF tx[w].paid THEN "paid" ELSE OrderInvoice(w).status
      /\ OrderInvoice(w).discounted => InvoiceLeft(w).discounted
    <2> DEFINE s == IF tx[w].paid THEN "paid" ELSE OrderInvoice(w).status
               d == OrderInvoice(w).discounted
               l == [status |-> s, discounted |-> d]
    <2>1. InvoiceLeft(w) = l
        BY DEF InvoiceLeft
    <2> HIDE DEF s, d
    <2>2. l.status = s /\ (d => l.discounted)
        <3>1. l.status = s
            OBVIOUS
        <3>2. l.discounted = d
            OBVIOUS
        <3> QED BY <3>1, <3>2, Zenon
    <2> HIDE DEF l
    <2> QED BY <2>1, <2>2, Zenon DEF s, d
<1>6. invoice'[o] = InvoiceLeft(w) /\ \A d \in Orders \ {o} : invoice'[d] = invoice[d]
    BY <1>2 DEF TypeInv, TypeOK
<1>7. /\ order'[o] = "completed"
      /\ \A d \in Orders \ {o} : order'[d] = order[d] /\ payments'[d] = payments[d]
      /\ payments'[o] = IF tx[w].paid THEN CountUp(payments[o]) ELSE payments[o]
    BY <1>2 DEF TypeInv, TypeOK
<1>8. tx[w].used # "none" <=> hold[o] # "none"
    BY <1>1 DEF CompleteKnows
<1>9. /\ hold'[o] = "none"
      /\ \A d \in Orders \ {o} : hold'[d] = hold[d] /\ discounts'[d] = discounts[d]
      /\ discounts'[o] = IF tx[w].used # "none" THEN CountUp(discounts[o]) ELSE discounts[o]
    BY <1>8 DEF Written, TypeInv, TypeOK, coupon
<1>10. tx[w].paid => payments[o] = 0
    <2>1. tx[w].paid => OrderInvoice(w).status # "paid"
        BY DEF CanSettle
    <2>2. tx[w].paid => invoice[o].status # "paid"
        BY <1>3, <2>1
    <2> QED BY <1>1, <2>2 DEF OrderKnows, Many
<1>11. tx[w].used # "none" => discounts[o] = 0
    BY <1>1, <1>8 DEF OrderKnows, Many
<1>12. payments'[o] <= 1 /\ (payments'[o] = 1 => invoice'[o].status = "paid")
    <2>1. CASE tx[w].paid
        BY <1>5, <1>6, <1>7, <1>10, <2>1 DEF CountUp, Many
    <2>2. CASE ~tx[w].paid
        BY <1>1, <1>3, <1>5, <1>6, <1>7, <2>2 DEF OrderKnows
    <2> QED BY <2>1, <2>2
<1>13. discounts'[o] <= 1 /\ invoice'[o].status # "none"
    BY <1>1, <1>3, <1>4, <1>5, <1>6, <1>9, <1>11 DEF OrderKnows, CountUp, Many
<1>14. ~Cart[o].recurring /\ discounts'[o] = 1 => invoice'[o].discounted
    <2>1. CASE invoice[o].status # "none"
        BY <1>1, <1>3, <1>5, <1>6, <1>8, <1>9, <2>1 DEF OrderKnows
    <2>2. CASE invoice[o].status = "none"
        BY <1>1, <1>4, <1>5, <1>6, <1>9, <2>2 DEF OrderKnows
    <2> QED BY <2>1, <2>2
<1> QED BY <1>6, <1>7, <1>9, <1>12, <1>13, <1>14

LEMMA CommitSettled ==
    ASSUME TypeInv, Settled, NEW w \in Workers, Commit(w) \/ CommitUnreported(w)
    PROVE  Settled'
<1>1. /\ In(w, Completes, {"settle"}) /\ CanSettle(w) /\ Written(w) /\ UNCHANGED <<psp, claim, handler>>
      /\ tx' = [tx EXCEPT ![w] = NoTx] /\ \E end : RunEnds(w, end)
    BY DEF Commit, CommitUnreported, In, Completes, webhook
<1>2. /\ tx[w].op \in Completes /\ tx[w].op # "none" /\ tx[w].pc \in Locking /\ tx[w].order \in Orders
    BY <1>1, TxTypes DEF In, Locking, Completes
<1>3. PICK o \in Orders : o = tx[w].order
    BY <1>2
<1>4. /\ order'[o] = "completed" /\ payments'[o] <= 1 /\ (payments'[o] = 1 => invoice'[o].status = "paid")
      /\ discounts'[o] <= 1 /\ hold'[o] = "none" /\ invoice'[o].status # "none"
      /\ ~Cart[o].recurring /\ discounts'[o] = 1 => invoice'[o].discounted
      /\ \A d \in Orders \ {o} : /\ order'[d] = order[d] /\ hold'[d] = hold[d]
                                 /\ discounts'[d] = discounts[d] /\ payments'[d] = payments[d]
                                 /\ invoice'[d] = invoice[d]
    BY <1>1, <1>3, WrittenKnows
<1>5. tx'[w] = NoTx /\ \A v \in Workers \ {w} : tx'[v] = tx[v]
    BY <1>1, OthersStay
<1>6. \A d \in Orders : psp[d] = "unpaid" => run'[d] = "none"
    BY <1>1, <1>2, RunsKnown
<1>7. ASSUME NEW d \in Orders \ {o} PROVE OrderKnows(d)'
    BY <1>1, <1>4, <1>6 DEF Settled, OrderKnows, Fresh
<1>8. OrderKnows(o)'
    <2>1. psp'[o] = "unpaid" => run'[o] = "none" /\ o \notin claim' \cup handler'
        BY <1>1, <1>6 DEF Settled, OrderKnows
    <2> QED BY <1>4, <2>1 DEF OrderKnows
<1>9. ASSUME NEW u \in Workers \ {w}, tx[u].op # "none" PROVE CreateKnows(u)' /\ CompleteKnows(u)'
    <2>1. CASE tx[u].order # o
        <3>1. tx[u].order \in Orders \ {o}
            BY <1>9, <2>1, TxTypes
        <3> QED BY <1>1, <1>4, <1>5, <1>9, <3>1 DEF Settled, CreateKnows, CompleteKnows, Fresh
    <2>2. CASE tx[u].order = o
        <3>1. tx[u].op # "create" /\ tx[u].pc \notin Locking
            BY <1>2, <1>3, <1>9, <2>2 DEF Settled, Apart
        <3>2. tx[u].op \in Completes /\ tx[u].pc = "order" /\ tx[u].used = "none" /\ CompleteKnows(u)
            BY <1>9, <3>1, TxTypes DEF Settled, CompleteKnows
        <3>3. tx'[u] = tx[u]
            BY <1>5
        <3> QED BY <1>1, <1>4, <2>2, <3>1, <3>2, <3>3 DEF CreateKnows, CompleteKnows, Locking
    <2> QED BY <2>1, <2>2
<1>10. ASSUME NEW u \in Workers PROVE CreateKnows(u)' /\ CompleteKnows(u)'
    <2>1. CASE u = w
        BY <1>5, <2>1, WorkEnds
    <2>2. CASE u # w /\ tx[u].op = "none"
        BY <1>5, <2>2 DEF CreateKnows, CompleteKnows, Completes
    <2> QED BY <1>9, <2>1, <2>2
<1>11. Apart'
    BY <1>5, NoTxType DEF Settled, Apart
<1> QED BY <1>7, <1>8, <1>10, <1>11 DEF Settled

LEMMA RollBackSettled ==
    ASSUME TypeInv, Settled, NEW w \in Workers, SettleRefused(w) \/ DatabaseFails(w)
    PROVE  Settled'
<1>1. /\ UNCHANGED <<Tables, psp, claim, handler>> /\ tx' = [tx EXCEPT ![w] = NoTx]
      /\ \E end : RunEnds(w, end)
    BY DEF SettleRefused, DatabaseFails, RollBack, Tables, coupon, books, webhook
<1>2. \A o \in Orders : psp[o] = "unpaid" => run'[o] = "none"
    <2>1. CASE tx[w].op = "none"
        BY <1>1, <2>1 DEF RunEnds, Settled, OrderKnows
    <2> QED BY <1>1, <2>1, RunsKnown
<1> QED BY <1>1, <1>2, EndSettled

LEMMA DeadlockSettled ==
    ASSUME TypeInv, Settled, NEW w \in Workers, DeadlockBroken(w)
    PROVE  Settled'
<1>1. PICK v \in Others(w) :
         /\ Deadlocked(v, w) \/ Deadlocked(w, v)
         /\ tx' = [tx EXCEPT ![w] = NoTx, ![v].pc = Survivor(v, Others(w) \ {v})]
    BY DEF DeadlockBroken
<1> DEFINE pc == Survivor(v, Others(w) \ {v})
<1>2. v \in Workers /\ v # w /\ tx[v] \in TxRecord
    BY DEF Others, TypeInv, TxOK
<1>3. \/ tx[v].op = "create" /\ tx[v].pc = "coupon" /\ pc \in {"coupon", "gate"}
      \/ tx[v].op \in Completes /\ tx[v].pc = "count" /\ pc \in {"count", "settle"}
    BY <1>1 DEF Deadlocked, In, Survivor
<1>4. tx'[w] = NoTx /\ \A u \in Workers \ {v, w} : tx'[u] = tx[u]
    <2> HIDE DEF pc
    <2> QED BY <1>1, <1>2 DEF TypeInv, TxOK
<1>5. /\ tx'[v].op = tx[v].op /\ tx'[v].order = tx[v].order /\ tx'[v].pc = pc /\ tx'[v].used = tx[v].used
    <2> HIDE DEF pc
    <2>1. tx'[v] = [tx[v] EXCEPT !.pc = pc]
        BY <1>1, <1>2 DEF TypeInv, TxOK, pc
    <2> QED BY <1>2, <2>1 DEF TxRecord
<1> HIDE DEF pc
<1>6. UNCHANGED <<Tables, psp, claim, handler>> /\ (\E end : RunEnds(w, end)) /\ tx[w].op # "none"
    BY <1>1 DEF DeadlockBroken, RollBack, Deadlocked, In, Completes, Tables, coupon, books, webhook
<1>7. \A o \in Orders : OrderKnows(o)'
    <2>1. \A o \in Orders : psp[o] = "unpaid" => run'[o] = "none"
        BY <1>6, RunsKnown
    <2> QED BY <1>6, <2>1, OrderStays DEF Settled, OrderKnows, Fresh
<1>8. CreateKnows(v)' /\ CompleteKnows(v)'
    <2>1. CreateKnows(v) /\ CompleteKnows(v)
        BY <1>2 DEF Settled
    <2> QED BY <1>3, <1>5, <1>6, <2>1 DEF CreateKnows, CompleteKnows, Completes, Locking, Fresh, Tables
<1>9. \A u \in Workers : CreateKnows(u)' /\ CompleteKnows(u)'
    <2>1. CreateKnows(w)' /\ CompleteKnows(w)'
        BY <1>4, WorkEnds
    <2>2. \A u \in Workers \ {v, w} : CreateKnows(u)' /\ CompleteKnows(u)'
        BY <1>4, <1>6, WorkStays DEF Settled
    <2> QED BY <1>8, <2>1, <2>2
<1>10. Apart'
    <2>1. \A u \in Workers : Keeps(u)
        BY <1>4, <1>5, NoTxType DEF Keeps
    <2>2. \A u \in Workers : tx'[u].op # "none" /\ tx'[u].pc \in Locking => tx[u].pc \in Locking
        BY <1>2, <1>3, <1>4, <1>5, NoTxType DEF Locking
    <2> QED BY <1>4, <2>1, <2>2, NoTxType, ApartStays DEF Settled
<1> QED BY <1>7, <1>9, <1>10 DEF Settled

\* Webhooks, runs and time.
LEMMA WebhookSettled ==
    ASSUME TypeInv, Settled, NEW o \in Orders, PayAtCheckout(o) \/ WebhookNext(o) \/ ClaimExpires(o)
    PROVE  Settled'
<1>1. UNCHANGED <<tx, Tables>> /\ OrderKnows(o)
    BY DEF PayAtCheckout, WebhookNext, ClaimWebhook, AlreadyClaimed, StartWorkflow, StartFails,
           HandlerDies, ClaimExpires, coupon, books, Tables, Settled
<1>2. /\ \A d \in Orders \ {o} : /\ psp'[d] = psp[d] /\ run'[d] = run[d]
                                 /\ d \in claim' <=> d \in claim
                                 /\ d \in handler' <=> d \in handler
      /\ psp'[o] = psp[o] \/ psp'[o] # "unpaid"
    BY DEF PayAtCheckout, WebhookNext, ClaimWebhook, AlreadyClaimed, StartWorkflow, StartFails, Start,
           HandlerDies, ClaimExpires, Answer, runs, TypeInv, TypeOK
<1>3. CASE PayAtCheckout(o)
    <2>1. psp'[o] = "owes" /\ order[o] # "none" /\ ~Creating(o)
        BY <1>3 DEF PayAtCheckout, TypeInv, TypeOK
    <2>2. \A u \in Workers : tx[u].op = "create" => tx[u].order # o
        BY <2>1 DEF Creating
    <2>3. \A d \in Orders : OrderKnows(d)'
        BY <1>1, <1>2, <2>1 DEF Settled, OrderKnows, Fresh, Tables
    <2>4. ASSUME NEW u \in Workers PROVE CreateKnows(u)' /\ CompleteKnows(u)'
        BY <1>1, <1>2, <2>1, <2>2, TxTypes DEF Settled, CreateKnows, CompleteKnows, Fresh, Tables
    <2> QED BY <1>1, <2>3, <2>4 DEF Settled, Apart
<1>4. CASE WebhookNext(o) \/ ClaimExpires(o)
    <2>1. psp[o] # "unpaid"
        BY <1>1, <1>4 DEF OrderKnows, WebhookNext, ClaimWebhook, AlreadyClaimed, StartWorkflow, StartFails,
                          HandlerDies, ClaimExpires
    <2>2. psp'[o] # "unpaid" /\ order[o] # "none"
        BY <1>1, <1>2, <2>1 DEF OrderKnows, Fresh
    <2>3. \A d \in Orders : OrderKnows(d)'
        BY <1>1, <1>2, <2>1, <2>2 DEF Settled, OrderKnows, Fresh, Tables
    <2>4. ASSUME NEW u \in Workers PROVE CreateKnows(u)' /\ CompleteKnows(u)'
        BY <1>1, <1>2, <2>1, <2>2, TxTypes DEF Settled, CreateKnows, CompleteKnows, Fresh, Tables
    <2> QED BY <1>1, <2>3, <2>4 DEF Settled, Apart
<1> QED BY <1>3, <1>4

LEMMA HoldExpiresSettled ==
    ASSUME TypeInv, Settled, NEW o \in Orders, HoldExpires(o)
    PROVE  Settled'
<1>1. /\ UNCHANGED <<order, discounts, invoice, payments, tx, psp, claim, handler, run>>
      /\ \A d \in Orders : (hold'[d] = "none" <=> hold[d] = "none")
    BY DEF HoldExpires, books, webhook, runs, TypeInv, TypeOK
<1>2. \A d \in Orders : OrderKnows(d)'
    BY <1>1 DEF Settled, OrderKnows, Fresh
<1>3. ASSUME NEW u \in Workers PROVE CreateKnows(u)' /\ CompleteKnows(u)'
    <2>1. CASE tx[u].op = "none"
        BY <1>1, <2>1 DEF CreateKnows, CompleteKnows, Completes
    <2>2. CASE tx[u].op # "none"
        <3>1. tx[u].order \in Orders
            BY <2>2, TxTypes
        <3> QED BY <1>1, <3>1 DEF Settled, CreateKnows, CompleteKnows, Fresh
    <2> QED BY <2>1, <2>2
<1> QED BY <1>1, <1>2, <1>3 DEF Settled, Apart

LEMMA SettledInit == Init => Settled
BY DEF Init, Settled, CreateKnows, CompleteKnows, OrderKnows, Apart, Fresh, NoTx, NoInvoice, Completes

LEMMA SettledStep ==
    ASSUME TypeInv, Settled, [Next]_vars
    PROVE  Settled'
<1>1. ASSUME NEW w \in Workers, BeginNext(w) PROVE Settled'
    BY <1>1, CreateOrderSettled, BeginCompletionSettled DEF BeginNext
<1>2. ASSUME NEW w \in Workers, CreateNext(w) PROVE Settled'
    BY <1>2, ReserveSettled, InsertReservationSettled, UpfrontSettled DEF CreateNext
<1>3. ASSUME NEW w \in Workers,
             CompleteNext(w) \/ CommitUnreported(w) \/ DatabaseFails(w) \/ DeadlockBroken(w)
      PROVE  Settled'
    BY <1>3, CompletionSettled, CommitSettled, RollBackSettled, DeadlockSettled DEF CompleteNext
<1>4. ASSUME NEW o \in Orders, HoldExpires(o) \/ PayAtCheckout(o) \/ WebhookNext(o) \/ ClaimExpires(o)
      PROVE  Settled'
    BY <1>4, HoldExpiresSettled, WebhookSettled
<1>5. CASE UNCHANGED vars
    BY <1>5 DEF vars, coupon, books, webhook, runs, Settled, CreateKnows, CompleteKnows, OrderKnows, Apart, Fresh
<1> QED BY <1>1, <1>2, <1>3, <1>4, <1>5 DEF Next

LEMMA SpecKeepsSettled == Spec => [](TypeInv /\ Settled)
BY InitType, TypeStep, SettledInit, SettledStep, PTL DEF Spec

----------------------------------------------------------------------------
(* The theorems.                                                           *)

\* Checkout.OrderSettledOnce: CompleteOrder and the payment-success run complete an order
\* under its row lock; its payment is refused when its invoice is paid, and its discount
\* uses the reservation up.
THEOREM OrderIsSettledOnce == Spec => []OrderSettledOnce
<1>1. TypeInv /\ Settled => OrderSettledOnce
    BY DEF Settled, OrderKnows, OrderSettledOnce
<1> QED BY <1>1, SpecKeepsSettled, PTL

\* Checkout.OneTimeIsDiscounted: the invoice is raised from the hold or built from the
\* discount, and no step in between loses the one without having the other.
THEOREM OneTimeIsAlwaysDiscounted == Spec => []OneTimeIsDiscounted
<1>1. ASSUME TypeInv, Settled, NEW o \in Orders, ~Cart[o].recurring, discounts[o] > 0
      PROVE  invoice[o].discounted
    <2>1. OrderKnows(o) /\ discounts[o] \in 0 .. Many
        BY <1>1 DEF Settled, TypeInv, TypeOK
    <2>2. discounts[o] = 1 /\ invoice[o].status # "none"
        BY <1>1, <2>1 DEF OrderKnows, Many
    <2> QED BY <1>1, <2>1, <2>2 DEF OrderKnows
<1>2. TypeInv /\ Settled => OneTimeIsDiscounted
    BY <1>1 DEF OneTimeIsDiscounted
<1> QED BY <1>2, SpecKeepsSettled, PTL

===============================================================================
