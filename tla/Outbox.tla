------------------------------- MODULE Outbox -------------------------------
(***************************************************************************)
(* Domain events: written to the outbox_events table by the transaction   *)
(* that changes the business data, relayed to the NATS client by the      *)
(* relay goroutine of every running server, and flushed to the broker by  *)
(* the client.  Every server has its own client connection; the table and *)
(* its row locks are shared.                                              *)
(*                                                                         *)
(* Time only matters as how long a row still has to wait for its next     *)
(* attempt and how long ago it was published, so rows carry timers and    *)
(* there is no clock.                                                     *)
(***************************************************************************)
EXTENDS Integers, FiniteSets

CONSTANTS
    MaxEvents,     \* bound: events inserted
    Servers,       \* server processes sharing the database
    MaxAttempts,   \* relayMaxAttempts
    BackoffBase,   \* relayBackoffBase, in clock ticks
    BackoffCap,    \* relayBackoffCap, in clock ticks
    Retention,     \* retention of published rows, in clock ticks
    MaxFaults      \* bound: restarts, crashes, database errors, losses of the broker

ASSUME RelayAssumption ==
    /\ MaxAttempts \in Nat \ {0} /\ BackoffBase \in Nat \ {0}
    /\ BackoffCap \in Nat \ {0} /\ Retention \in Nat \ {0}

ASSUME OutboxBoundAssumption == MaxEvents \in Nat /\ MaxFaults \in Nat

Events == 1 .. MaxEvents        \* outbox_events.id, a BIGSERIAL

VARIABLES
    tx,          \* event -> the transaction that inserts it
    rows,        \* event -> its row, visible once tx is committed
    server,      \* server -> "down", "booting" (in app.New) or "up"
    relay,       \* server -> its relay: where it stands and the row it has locked
    buffer,      \* server -> events its NATS client has accepted and not flushed
    sent,        \* event -> times a client accepted it
    delivered,   \* events the broker has received
    faults       \* faults and restarts so far

vars == <<tx, rows, server, relay, buffer, sent, delivered, faults>>

NoEvent == 0
Idle    == [pc |-> "idle", ev |-> NoEvent]
NewRow  == [state |-> "pending", attempts |-> 0, wait |-> 0, age |-> 0]

----------------------------------------------------------------------------
Init ==
    /\ tx = [e \in Events |-> "none"]
    /\ rows = [e \in Events |-> NewRow]
    /\ server = [s \in Servers |-> "down"]
    /\ relay = [s \in Servers |-> Idle]
    /\ buffer = [s \in Servers |-> {}]
    /\ sent = [e \in Events |-> 0]
    /\ delivered = {}
    /\ faults = 0

Fault == faults < MaxFaults /\ faults' = faults + 1

\* Outbox.Publish inserts the event with the next id, in the transaction on ctx.
Publish(e) ==
    /\ tx[e] = "none"
    /\ \A f \in 1 .. (e - 1) : tx[f] # "none"
    /\ tx' = [tx EXCEPT ![e] = "open"]
    /\ UNCHANGED <<rows, server, relay, buffer, sent, delivered, faults>>

\* RunInTx commits the business write and the event, or rolls both back.
EndTx(e, outcome) ==
    /\ tx[e] = "open"
    /\ tx' = [tx EXCEPT ![e] = outcome]
    /\ UNCHANGED <<rows, server, relay, buffer, sent, delivered, faults>>

\* Timers run: a row waits less for its next attempt, a published one gets older.
Aged(row) == [row EXCEPT
    !.wait = IF @ > 0 THEN @ - 1 ELSE 0,
    !.age  = IF row.state = "published" /\ @ <= Retention THEN @ + 1 ELSE @]

Tick ==
    /\ rows' = [e \in Events |-> Aged(rows[e])]
    /\ rows' # rows
    /\ UNCHANGED <<tx, server, relay, buffer, sent, delivered, faults>>

----------------------------------------------------------------------------
(* The relay of a server: one transaction per row.                         *)

Locked(e) == \E s \in Servers : relay[s].ev = e

Visible(e) == tx[e] = "committed"

\* Mutants of Claimable: uncommitted rows are read; rows are not locked; a row
\* is attempted once; a row that was published is attempted again.
ClaimableDirty(e) ==
    /\ tx[e] \in {"open", "committed"} /\ rows[e].state = "pending"
    /\ rows[e].attempts < MaxAttempts /\ rows[e].wait = 0
    /\ ~Locked(e)
ClaimableUnlocked(e) ==
    /\ Visible(e) /\ rows[e].state = "pending"
    /\ rows[e].attempts < MaxAttempts /\ rows[e].wait = 0
ClaimableOnce(e) ==
    /\ Visible(e) /\ rows[e].state = "pending"
    /\ rows[e].attempts = 0
    /\ ~Locked(e)
ClaimableForever(e) ==
    /\ Visible(e) /\ rows[e].state = "pending"
    /\ rows[e].attempts <= MaxAttempts /\ rows[e].wait = 0
    /\ ~Locked(e)

\* ClaimPending: unpublished, attempts left, its backoff over, and SKIP LOCKED.
Claimable(e) ==
    /\ Visible(e) /\ rows[e].state = "pending"
    /\ rows[e].attempts < MaxAttempts /\ rows[e].wait = 0
    /\ ~Locked(e)

\* relayNext claims the first claimable row, ORDER BY id LIMIT 1 FOR UPDATE.
ClaimPending(s, e) ==
    /\ server[s] # "down" /\ relay[s].pc = "idle"
    /\ Claimable(e)
    /\ \A f \in Events : Claimable(f) => e <= f
    /\ relay' = [relay EXCEPT ![s] = [pc |-> "claimed", ev |-> e]]
    /\ UNCHANGED <<tx, rows, server, buffer, sent, delivered, faults>>

\* PublishPayload: nats.Conn.Publish puts the message in the client's buffer and
\* returns.  The connection is open only while app.New runs (see NewReturns).
PublishPayload(s) ==
    /\ relay[s].pc = "claimed" /\ server[s] = "booting"
    /\ buffer' = [buffer EXCEPT ![s] = @ \cup {relay[s].ev}]
    /\ sent' = [sent EXCEPT ![relay[s].ev] = @ + 1]
    /\ relay' = [relay EXCEPT ![s].pc = "published"]
    /\ UNCHANGED <<tx, rows, server, delivered, faults>>

\* The connection is closed, or (a fault) its reconnect buffer is full.
PublishFails(s) ==
    /\ relay[s].pc = "claimed"
    /\ IF server[s] = "up" THEN UNCHANGED faults ELSE Fault
    /\ relay' = [relay EXCEPT ![s].pc = "refused"]
    /\ UNCHANGED <<tx, rows, server, buffer, sent, delivered>>

\* MarkPublished, and the commit that releases the row.
MarkPublished(s) ==
    /\ relay[s].pc = "published"
    /\ rows' = [rows EXCEPT ![relay[s].ev].state = "published"]
    /\ relay' = [relay EXCEPT ![s] = Idle]
    /\ UNCHANGED <<tx, server, buffer, sent, delivered, faults>>

\* backoff: exponential in the attempts made so far, capped (a shift that
\* overflows is capped too).
Backoff(attempts) ==
    LET delay == BackoffBase * 2 ^ attempts
    IN  IF delay \in 1 .. BackoffCap THEN delay ELSE BackoffCap

\* RecordFailure, and the commit that releases the row.
RecordFailure(s) ==
    /\ relay[s].pc = "refused"
    /\ rows' = [rows EXCEPT ![relay[s].ev].attempts = @ + 1,
                            ![relay[s].ev].wait = Backoff(rows[relay[s].ev].attempts)]
    /\ relay' = [relay EXCEPT ![s] = Idle]
    /\ UNCHANGED <<tx, server, buffer, sent, delivered, faults>>

\* A database error rolls the relay's transaction back and releases the row.
RelayRollsBack(s) ==
    /\ relay[s].pc # "idle"
    /\ Fault
    /\ relay' = [relay EXCEPT ![s] = Idle]
    /\ UNCHANGED <<tx, rows, server, buffer, sent, delivered>>

\* Mutant of Purgeable: retention is counted for rows that were never published.
PurgeableByAttempts(e) == Visible(e) /\ rows[e].state = "pending" /\ rows[e].attempts > 0

\* PurgePublished, run by the same goroutine between two batches.
Purgeable(e) == Visible(e) /\ rows[e].state = "published" /\ rows[e].age > Retention

PurgePublished(s) ==
    /\ server[s] # "down" /\ relay[s].pc = "idle"
    /\ \E e \in Events : Purgeable(e)
    /\ rows' = [e \in Events |-> IF Purgeable(e) THEN [rows[e] EXCEPT !.state = "purged"] ELSE rows[e]]
    /\ UNCHANGED <<tx, server, relay, buffer, sent, delivered, faults>>

----------------------------------------------------------------------------
(* The NATS client and the life of a server.                               *)

\* The client's flusher sends what it has buffered.
Flush(s) ==
    /\ buffer[s] # {}
    /\ delivered' = delivered \cup buffer[s]
    /\ buffer' = [buffer EXCEPT ![s] = {}]
    /\ UNCHANGED <<tx, rows, server, relay, sent, faults>>

\* app.New dials NATS and starts the relay.
Boot(s) ==
    /\ server[s] = "down"
    /\ server' = [server EXCEPT ![s] = "booting"]
    /\ UNCHANGED <<tx, rows, relay, buffer, sent, delivered, faults>>

\* Mutant of Drained: the connection is closed under the messages it holds.
DroppedOnClose(s) == delivered

\* NatsPubSub.Close drains the connection: what is buffered is flushed first.
Drained(s) == delivered \cup buffer[s]

\* app.New returns, and the Close it has deferred closes the connection, which is
\* drained unless (a fault) the client was not connected; the server now serves,
\* and its relay goes on.
NewReturns(s) ==
    /\ server[s] = "booting"
    /\ server' = [server EXCEPT ![s] = "up"]
    /\ \/ delivered' = Drained(s) /\ UNCHANGED faults
       \/ delivered' = delivered /\ Fault
    /\ buffer' = [buffer EXCEPT ![s] = {}]
    /\ UNCHANGED <<tx, rows, relay, sent>>

\* Shutdown: the relay finishes the row it is at, then the connection is closed.
Shutdown(s) ==
    /\ server[s] = "up" /\ relay[s].pc = "idle"
    /\ Fault
    /\ server' = [server EXCEPT ![s] = "down"]
    /\ UNCHANGED <<tx, rows, relay, buffer, sent, delivered>>

\* The process dies: its transaction rolls back and its client's buffer is lost.
Crash(s) ==
    /\ server[s] # "down"
    /\ Fault
    /\ server' = [server EXCEPT ![s] = "down"]
    /\ relay' = [relay EXCEPT ![s] = Idle]
    /\ buffer' = [buffer EXCEPT ![s] = {}]
    /\ UNCHANGED <<tx, rows, sent, delivered>>

----------------------------------------------------------------------------
WriterNext == \E e \in Events : Publish(e) \/ \E outcome \in {"committed", "aborted"} : EndTx(e, outcome)

RelayNext(s) ==
    \/ \E e \in Events : ClaimPending(s, e)
    \/ PublishPayload(s) \/ PublishFails(s) \/ MarkPublished(s) \/ RecordFailure(s)

LifeNext(s) == RelayRollsBack(s) \/ PurgePublished(s) \/ Flush(s) \/ Boot(s) \/ NewReturns(s) \/ Shutdown(s) \/ Crash(s)

Next == Tick \/ WriterNext \/ \E s \in Servers : RelayNext(s) \/ LifeNext(s)

Spec == Init /\ [][Next]_vars

\* Servers are (re)started, finish booting and keep polling; clients flush; time
\* passes.  Clients of the database and faults owe nothing.
Fairness ==
    /\ WF_vars(Tick)
    /\ \A s \in Servers :
          /\ WF_vars(Boot(s)) /\ WF_vars(NewReturns(s)) /\ WF_vars(Flush(s))
          /\ WF_vars(RelayNext(s))

FairSpec == Spec /\ Fairness

----------------------------------------------------------------------------
(* Properties.                                                             *)

\* Every variable stays in its domain.
TypeOK ==
    /\ tx \in [Events -> {"none", "open", "committed", "aborted"}]
    /\ rows \in [Events -> [state : {"pending", "published", "purged"}, attempts : 0 .. MaxAttempts,
                            wait : 0 .. BackoffCap, age : 0 .. Retention + 1]]
    /\ server \in [Servers -> {"down", "booting", "up"}]
    /\ relay \in [Servers -> [pc : {"idle", "claimed", "published", "refused"}, ev : Events \cup {NoEvent}]]
    /\ buffer \in [Servers -> SUBSET Events]
    /\ sent \in [Events -> Nat]
    /\ delivered \subseteq Events
    /\ faults \in 0 .. MaxFaults

\* An event leaves the system only if the business change it tells about was
\* committed: the reason for the outbox.
OnlyCommittedSent == \A e \in Events : sent[e] > 0 => tx[e] = "committed"

\* At-least-once costs a duplicate only where something broke between the publish
\* and the commit of its mark: relays of several servers never race for a row.
DuplicatesAreFaults == \A e \in Events : sent[e] <= 1 + faults

\* A row that says it is published, or is purged, was accepted by a client; and if
\* no process died, the broker has it or a live client is about to send it.
PublishedIsOnItsWay ==
    \A e \in Events : rows[e].state # "pending" =>
        /\ sent[e] > 0
        /\ faults = 0 => e \in delivered \/ \E s \in Servers : e \in buffer[s]

\* The outbox implements the event queue.
StatusOf(e) ==
    IF tx[e] # "committed" THEN "absent"
    ELSE IF rows[e].state # "pending" THEN "published"
    ELSE IF rows[e].attempts >= MaxAttempts THEN "dropped"
    ELSE "queued"

Queue == INSTANCE EventQueue WITH
    status  <- [e \in Events |-> StatusOf(e)],
    refused <- [e \in Events |-> rows[e].attempts]
QueueSpec == Queue!Spec

\* A committed event does not wait for ever: it is published, or given up after
\* MaxAttempts refusals, whatever the other events and relays do.
EventuallySettled ==
    \A e \in Events : tx[e] = "committed" ~> StatusOf(e) \in {"published", "dropped"}

=============================================================================
