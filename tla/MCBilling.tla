----------------------------- MODULE MCBilling -----------------------------
(* Instances of Billing for TLC.  The values are in the .cfg files.        *)
EXTENDS Billing, TLC

\* Runner slots are interchangeable (used where only safety is checked).
RunnerSymmetry == Permutations(Runners)

=============================================================================
