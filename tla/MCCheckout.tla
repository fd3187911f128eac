---------------------------- MODULE MCCheckout ----------------------------
(* Instances of Checkout for TLC.  The other values are in the .cfg files. *)
EXTENDS Checkout

\* Two codes, two customers, an order of each kind.
Place(code, customer, recurring, upfront) ==
    [code |-> code, customer |-> customer, recurring |-> recurring,
     upfront |-> upfront, charge |-> TRUE]

CONSTANTS o1, o2, o3, A, B, alice, bob

ThreeCarts ==
    [o \in Orders |-> CASE o = o1 -> Place(A, alice, FALSE, TRUE)
                        [] o = o2 -> Place(B, alice, FALSE, FALSE)
                        [] o = o3 -> Place(B, bob, TRUE, FALSE)]

=============================================================================
