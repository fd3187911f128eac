------------------------------ MODULE MCOutbox ------------------------------
(* Instances of Outbox for TLC.  The values are in the .cfg files.         *)
EXTENDS Outbox

=============================================================================
