----------------------------- MODULE EventQueue -----------------------------
(***************************************************************************)
(* What the transactional outbox promises about a domain event: it is     *)
(* queued when the business transaction commits, handed to the broker     *)
(* client at least once before it counts as published, and given up after *)
(* MaxAttempts refusals.  Relays, locks and restarts are invisible here.  *)
(***************************************************************************)
EXTENDS Naturals

CONSTANTS
    Events,
    MaxAttempts

VARIABLES
    status,       \* event -> "absent", "queued", "published" or "dropped"
    sent,         \* event -> times it was handed to the broker client
    refused       \* event -> times the broker client refused it

Init ==
    /\ status  = [e \in Events |-> "absent"]
    /\ sent    = [e \in Events |-> 0]
    /\ refused = [e \in Events |-> 0]

Enqueue(e) ==
    /\ status[e] = "absent"
    /\ status' = [status EXCEPT ![e] = "queued"]
    /\ UNCHANGED <<sent, refused>>

Send(e) ==
    /\ status[e] = "queued"
    /\ sent' = [sent EXCEPT ![e] = @ + 1]
    /\ UNCHANGED <<status, refused>>

Refuse(e) ==
    /\ status[e] = "queued"
    /\ refused' = [refused EXCEPT ![e] = @ + 1]
    /\ status' = IF refused[e] + 1 >= MaxAttempts
                 THEN [status EXCEPT ![e] = "dropped"] ELSE status
    /\ UNCHANGED sent

Publish(e) ==
    /\ status[e] = "queued" /\ sent[e] > 0
    /\ status' = [status EXCEPT ![e] = "published"]
    /\ UNCHANGED <<sent, refused>>

Next == \E e \in Events : Enqueue(e) \/ Send(e) \/ Refuse(e) \/ Publish(e)

Spec == Init /\ [][Next]_<<status, sent, refused>>

=============================================================================
