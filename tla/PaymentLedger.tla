--------------------------- MODULE PaymentLedger ---------------------------
(***************************************************************************)
(* What the billing engine promises about the payments of a subscription:  *)
(* cycles are settled in order, each by exactly one recorded payment, and  *)
(* nothing that is settled is ever taken back.  The engine's runs, replays *)
(* and retries are all invisible here.                                     *)
(***************************************************************************)
EXTENDS Naturals

CONSTANT Cycle      \* the cycles that are billed: an initial segment of Nat

VARIABLES
    next,           \* the first cycle without a payment
    paid            \* cycle -> recorded payments

Init ==
    /\ next = 0
    /\ paid = [c \in Cycle |-> 0]

Settle ==
    /\ next \in Cycle
    /\ paid[next] = 0
    /\ paid' = [paid EXCEPT ![next] = 1]
    /\ next' = next + 1

Spec == Init /\ [][Settle]_<<next, paid>>

=============================================================================
