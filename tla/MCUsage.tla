------------------------------ MODULE MCUsage ------------------------------
(* Instances of Usage for TLC.  The other values are in the .cfg files.    *)
EXTENDS Usage

\* An event that names the second subscription, or one that names none and carries no
\* timestamp.
NamedOrNot == [Events -> {[sub |-> 2, timed |-> TRUE], [sub |-> NoSub, timed |-> FALSE]}]

=============================================================================
