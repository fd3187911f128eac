---------------------------- MODULE Idempotency ----------------------------
(***************************************************************************)
(* Requests that carry one Idempotency-Key of one organisation: the claim  *)
(* of the key in the store, the handler that runs under it, and the answer *)
(* that is stored for the requests that come later.                        *)
(*                                                                         *)
(* Claim is three statements outside a transaction.  The library between   *)
(* the handlers and the store (idempo) is modelled from the contract that  *)
(* port.IdempotencyStore states: it runs the handler after a claim that is *)
(* new, completes it when the handler has answered and abandons it when    *)
(* the handler failed.                                                     *)
(***************************************************************************)
EXTENDS Integers, Sequences

CONSTANTS
    Requests,   \* requests that clients make, and repeat until they are answered
    Body,       \* request -> its body, which the key's row remembers as a hash
    FaultKinds, \* what may fail: "handler", "process", "database", "network"
    MaxFaults   \* bound: faults

ASSUME BoundAssumption ==
    MaxFaults \in Nat /\ FaultKinds \subseteq {"handler", "process", "database", "network"}

VARIABLES
    row,      \* the key's row in idempotency_requests
    pc,       \* request -> where it stands
    runs,     \* the executions of the handler so far, each with the request it is for
    run,      \* request -> the run it claimed the key for; its number is its token
    reply,    \* request -> how it was answered, and the run whose answer it got
    effects,  \* runs whose handler has taken effect
    lapsed,   \* runs whose lock ran out before they were over (history)
    broken,   \* runs that failed or died (history)
    forgotten,\* runs whose answer was kept until its retention ended (history)
    faults    \* faults so far

history == <<lapsed, broken, forgotten>>
vars == <<row, pc, runs, run, reply, effects, history, faults>>

NoRun == 0
NoRow == [state |-> "none"]

Init ==
    /\ row = NoRow
    /\ pc = [r \in Requests |-> "ready"]
    /\ runs = <<>>
    /\ run = [r \in Requests |-> NoRun]
    /\ reply = [r \in Requests |-> [kind |-> "none", of |-> NoRun]]
    /\ effects = {}
    /\ lapsed = {}
    /\ broken = {}
    /\ forgotten = {}
    /\ faults = 0

Fault(kind) == kind \in FaultKinds /\ faults < MaxFaults /\ faults' = faults + 1

Goto(r, l) == pc' = [pc EXCEPT ![r] = l]

Replied(r, kind, of) == reply' = [reply EXCEPT ![r] = [kind |-> kind, of |-> of]]

----------------------------------------------------------------------------
(* Claim.                                                                  *)

\* Mutant of Sweepable: a lock is swept whether its time has come or not.
Held == row.state = "pending"

\* Mutant of Sweepable: only stored answers are swept.
Retained == row.state = "completed" /\ row.expired

Sweepable == row # NoRow /\ row.expired

\* DELETE ... WHERE expires_at <= now
Sweep(r) ==
    /\ pc[r] = "ready"
    /\ row' = IF Sweepable THEN NoRow ELSE row
    /\ Goto(r, "insert")
    /\ UNCHANGED <<runs, run, reply, effects, history, faults>>

StartRun(r) ==
    /\ runs' = Append(runs, r)
    /\ run' = [run EXCEPT ![r] = Len(runs) + 1]
    /\ Goto(r, "handle")

\* INSERT ... ON CONFLICT DO NOTHING: one affected row is a new claim.
Insert(r) ==
    /\ pc[r] = "insert"
    /\ IF row = NoRow
       THEN /\ row' = [state |-> "pending", body |-> Body[r], token |-> Len(runs) + 1,
                       answer |-> NoRun, expired |-> FALSE]
            /\ StartRun(r)
       ELSE Goto(r, "select") /\ UNCHANGED <<row, runs, run>>
    /\ UNCHANGED <<reply, effects, history, faults>>

\* Mutant of Vanished: a key whose row has gone is claimed.
VanishedIsNew(r) == StartRun(r) /\ UNCHANGED reply

\* The row has gone since the INSERT: the client is told to wait, as for a lock.
Vanished(r) == Goto(r, "ready") /\ UNCHANGED <<runs, run, reply>>

\* Mutant of Mismatch: the body is not compared.
NoMismatch(r) == FALSE

Mismatch(r) == row.body # Body[r]

\* SELECT, and what the row's state means.  Only a completed row's body is compared.
Classify(r) ==
    /\ pc[r] = "select"
    /\ CASE row.state = "none"      -> Vanished(r)
         [] row.state = "pending"   -> Goto(r, "ready") /\ UNCHANGED <<runs, run, reply>>
         [] row.state = "completed" ->
              /\ IF Mismatch(r) THEN Replied(r, "conflict", NoRun) ELSE Replied(r, "replayed", row.answer)
              /\ Goto(r, "answered")
              /\ UNCHANGED <<runs, run>>
    /\ UNCHANGED <<row, effects, history, faults>>

----------------------------------------------------------------------------
(* The handler, and what becomes of the claim.                             *)

\* The handler answers; it may have refused the request.
Handle(r) ==
    /\ pc[r] = "handle"
    /\ effects' \in {effects, effects \cup {run[r]}}
    /\ Goto(r, "complete")
    /\ UNCHANGED <<row, runs, run, reply, history, faults>>

\* It fails, before or after it took effect.
HandlerFails(r) ==
    /\ pc[r] = "handle"
    /\ Fault("handler")
    /\ effects' \in {effects, effects \cup {run[r]}}
    /\ broken' = broken \cup {run[r]}
    /\ Goto(r, "abandon")
    /\ UNCHANGED <<row, runs, run, reply, lapsed, forgotten>>

\* Mutant of Owns: Complete and Abandon are not fenced by the token.
OwnsAny(r) == row.state = "pending"

\* WHERE key AND token AND state = 'pending'.  That the lock has lapsed does not matter.
Owns(r) == row.state = "pending" /\ row.token = run[r]

Release(r) == run' = [run EXCEPT ![r] = NoRun]

\* Mutant of StoreAnswer: a row that has gone is inserted again, without its body's hash.
UpsertAnswer(r) ==
    row' = IF Owns(r) THEN [row EXCEPT !.state = "completed", !.answer = run[r], !.expired = FALSE]
           ELSE IF row = NoRow
           THEN [state |-> "completed", token |-> run[r], answer |-> run[r], expired |-> FALSE]
           ELSE row

\* The answer is stored if the claim is still the request's.
StoreAnswer(r) ==
    row' = IF Owns(r) THEN [row EXCEPT !.state = "completed", !.answer = run[r], !.expired = FALSE]
           ELSE row

Complete(r) ==
    /\ pc[r] = "complete"
    /\ StoreAnswer(r)
    /\ Replied(r, "original", run[r])
    /\ Release(r)
    /\ Goto(r, "answered")
    /\ UNCHANGED <<runs, effects, history, faults>>

\* The answer is stored and does not reach the client.
AnswerLost(r) ==
    /\ pc[r] = "complete"
    /\ Fault("network")
    /\ StoreAnswer(r)
    /\ Release(r)
    /\ Goto(r, "ready")
    /\ UNCHANGED <<runs, reply, effects, history>>

\* The answer could not be stored; the lock stays until it lapses.
CompleteFails(r) ==
    /\ pc[r] = "complete"
    /\ Fault("database")
    /\ broken' = broken \cup {run[r]}
    /\ Replied(r, "original", run[r])
    /\ Release(r)
    /\ Goto(r, "answered")
    /\ UNCHANGED <<row, runs, effects, lapsed, forgotten>>

Abandon(r) ==
    /\ pc[r] = "abandon"
    /\ row' = IF Owns(r) THEN NoRow ELSE row
    /\ Release(r)
    /\ Goto(r, "ready")
    /\ UNCHANGED <<runs, reply, effects, history, faults>>

\* The process dies with the request, and leaves the row as it is.
ProcessDies(r) ==
    /\ pc[r] \notin {"ready", "answered"}
    /\ Fault("process")
    /\ broken' = IF run[r] = NoRun THEN broken ELSE broken \cup {run[r]}
    /\ Release(r)
    /\ Goto(r, "ready")
    /\ UNCHANGED <<row, runs, reply, effects, lapsed, forgotten>>

\* The lock's time, or the stored answer's retention, is over.
Expires ==
    /\ row # NoRow /\ ~row.expired
    /\ row' = [row EXCEPT !.expired = TRUE]
    /\ IF row.state = "pending"
       THEN lapsed' = lapsed \cup {row.token} /\ UNCHANGED forgotten
       ELSE forgotten' = forgotten \cup {row.token} /\ UNCHANGED lapsed
    /\ UNCHANGED <<pc, runs, run, reply, effects, broken, faults>>

----------------------------------------------------------------------------
RequestNext(r) ==
    \/ Sweep(r) \/ Insert(r) \/ Classify(r)
    \/ Handle(r) \/ Complete(r) \/ Abandon(r)

RequestFault(r) == HandlerFails(r) \/ AnswerLost(r) \/ CompleteFails(r) \/ ProcessDies(r)

Next ==
    \/ \E r \in Requests : RequestNext(r) \/ RequestFault(r)
    \/ Expires

Spec == Init /\ [][Next]_vars

\* Requests that have been taken go on, clients repeat those that were not answered,
\* and time passes.
FairSpec == Spec /\ WF_vars(Expires) /\ \A r \in Requests : WF_vars(RequestNext(r))

----------------------------------------------------------------------------
(* Properties.                                                             *)

Runs == 1 .. Len(runs)
Row == [state : {"pending", "completed"}, body : {Body[r] : r \in Requests}, token : Runs,
        answer : Runs \cup {NoRun}, expired : BOOLEAN]
Reply == [kind : {"none", "original", "replayed", "conflict"}, of : Runs \cup {NoRun}]

\* Every variable stays in its domain, and every run that is mentioned was started.
TypeOK ==
    /\ row \in Row \cup {NoRow}
    /\ pc \in [Requests -> {"ready", "insert", "select", "handle", "complete", "abandon", "answered"}]
    /\ runs \in Seq(Requests)
    /\ run \in [Requests -> Runs \cup {NoRun}]
    /\ reply \in [Requests -> Reply]
    /\ effects \subseteq Runs
    /\ lapsed \subseteq Runs /\ broken \subseteq Runs /\ forgotten \subseteq Runs
    /\ faults \in 0 .. MaxFaults

\* idempotency_store.go:31-34: exactly one concurrent caller runs the handler.  Of two
\* requests between claim and answer, one has outrun its lock.
Running(r) == pc[r] \in {"handle", "complete", "abandon"}
OneHolder ==
    \A r, q \in Requests : r # q /\ Running(r) /\ Running(q) => {run[r], run[q]} \cap lapsed # {}

Cut == lapsed \cup broken \cup forgotten

\* The handler takes effect a second time only after its lock lapsed, it failed, or
\* the answer of the first time was no longer kept.
EffectOnce == \A a, b \in effects : a < b => a \in Cut

\* The answer that is replayed is the one that the other requests of the same body get:
\* one that was replayed stays until its retention is over, and of a run that kept its
\* lock no other answer is ever replayed.
ReplaysAgree ==
    \A r, q \in Requests :
        reply[r].kind = "replayed" /\ reply[q].kind \in {"original", "replayed"}
            /\ reply[q].of # reply[r].of
        => reply[r].of \in forgotten \/ reply[q].of \in Cut

\* A replayed answer is the answer to a request with the same body.
ReplayIsOfBody ==
    \A r \in Requests : reply[r].kind = "replayed" => Body[runs[reply[r].of]] = Body[r]

\* idempotency_store.go:36-38: a stale lock does not wedge the key.  Requests that
\* are repeated are all answered in the end, whatever became of those before them.
EveryoneAnswered == <>(\A r \in Requests : pc[r] = "answered")

=============================================================================
