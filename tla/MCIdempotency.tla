--------------------------- MODULE MCIdempotency ---------------------------
(* Instances of Idempotency for TLC.  The other values are in the .cfg files. *)
EXTENDS Idempotency

CONSTANTS r1, r2, r3

\* Two requests are the same, and a third one comes with another body.
TwoBodies == [r \in Requests |-> IF r = r3 THEN "other" ELSE "same"]

=============================================================================
