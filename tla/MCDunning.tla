----------------------------- MODULE MCDunning -----------------------------
(* Instances of Dunning for TLC.  The other values are in the .cfg files.  *)
EXTENDS Dunning

CONSTANTS c1, c2

Schedule(immediate, progressive, suspendAfter, cancelAfter) ==
    [immediate |-> immediate, progressive |-> progressive,
     suspendAfter |-> suspendAfter, cancelAfter |-> cancelAfter]

\* One campaign retries at once and later, suspends the subscription and reaches its
\* cancel threshold; the other, of a policy without retries, gives up at once.
TwoSchedules ==
    [c \in Campaigns |-> IF c = c1 THEN Schedule(1, 3, 2, 3) ELSE Schedule(0, 0, 0, 0)]

=============================================================================
