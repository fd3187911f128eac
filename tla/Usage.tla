------------------------------- MODULE Usage -------------------------------
(***************************************************************************)
(* Usage events from the client to the invoice: RecordEvent, the durable   *)
(* stream and the consumer that drains it into the event store, and the    *)
(* invoices of the billing periods that read the store, each subscription  *)
(* for itself and the earliest one for the events that name none.          *)
(*                                                                         *)
(* All subscriptions are metered by one meter, belong to one customer and  *)
(* share the calendar of billing periods.  Every event of the organisation *)
(* has an external id of its own: one that comes without gets a new one    *)
(* each time it is sent.  The store keeps the ids of other organisations   *)
(* apart; the stream does not, and their events are in it as the message   *)
(* ids they take up.                                                       *)
(***************************************************************************)
EXTENDS Integers, FiniteSets

CONSTANTS
    Subs,        \* the subscriptions, numbers in the order of their start dates
    Events,      \* the events clients may send
    Contents,    \* what they may put into them: event -> EventRecord
    Modes,       \* USAGE_INGEST_MODE of the API processes: "sync", "jetstream"
    BatchSize,   \* events the consumer fetches at a time
    MaxDeliver,  \* deliveries of a message before JetStream gives up on it
    MaxPeriod,   \* bound: the last period that events are sent in; it ends, too
    MaxSends,    \* bound: requests that send an event, all in all
    MaxChanges   \* bound: changes of subscriptions' statuses

NoSub == 0

EventRecord == [sub : Subs \cup {NoSub},   \* the subscription it names
                timed : BOOLEAN]           \* the client sends a timestamp

ASSUME EventAssumption ==
    /\ IsFiniteSet(Subs) /\ Subs \subseteq Nat \ {0}
    /\ Contents \subseteq [Events -> EventRecord]

ASSUME BoundAssumption ==
    /\ Modes \subseteq {"sync", "jetstream"}
    /\ BatchSize \in Nat \ {0} /\ MaxDeliver \in Nat \ {0}
    /\ MaxPeriod \in Nat \ {0} /\ MaxSends \in Nat /\ MaxChanges \in Nat

VARIABLES
    content,   \* event -> what its client puts into it
    now,       \* the billing period the clock is in
    active,    \* the subscriptions in status active, trial or past_due
    sends,     \* requests so far
    usedAt,    \* event -> the period of the timestamp its client gives it; 0 if none yet
    answered,  \* events whose client was told that they are recorded
    shadowed,  \* events dropped since they were last kept, for another organisation's
               \* message of the same id (history)
    stream,    \* the messages of the work queue
    window,    \* message ids JetStream remembers, and whose message it was
    tries,     \* message -> times it was delivered
    batch,     \* the messages the consumer works on
    written,   \* whether they are in the store
    store,     \* rows of meter_events
    cycle,     \* subscription -> the period it bills next
    reading,   \* subscriptions whose invoice is being built
    catchAll,  \* those of them that include unattributed events
    lines,     \* subscription -> the rows its invoices bill
    late,      \* rows stored after an invoice of their period was started (history)
    shifted,   \* whether the earliest active subscription has changed (history)
    changes    \* changes of statuses so far

client  == <<content, sends, usedAt, answered, shadowed>>
queue   == <<stream, window, tries, batch, written>>
billing == <<cycle, reading, catchAll, lines>>
vars == <<now, active, client, queue, store, billing, late, shifted, changes>>

\* What is queued and stored: an event, the period of its timestamp, and the request
\* that sent it.
Row == [event : Events, at : 1 .. MaxPeriod, copy : 1 .. MaxSends]

\* A message id JetStream remembers: the external id of an event, and whether it is the
\* organisation's own message that has taken it or another's.
MessageId == [event : Events, own : BOOLEAN]

Init ==
    /\ content \in Contents
    /\ now = 1
    /\ active = Subs
    /\ sends = 0
    /\ usedAt = [e \in Events |-> 0]
    /\ answered = {}
    /\ shadowed = {}
    /\ stream = {}
    /\ window = {}
    /\ tries = [m \in Row |-> 0]
    /\ batch = {}
    /\ written = FALSE
    /\ store = {}
    /\ cycle = [s \in Subs |-> 1]
    /\ reading = {}
    /\ catchAll = {}
    /\ lines = [s \in Subs |-> {}]
    /\ late = {}
    /\ shifted = FALSE
    /\ changes = 0

----------------------------------------------------------------------------
(* The event store.                                                        *)

\* Mutant of SameKey: meter_events without its unique index.
NoUniqueIndex(r, q) == r = q

\* The unique index on (org_id, external_id).
SameKey(r, q) == r.event = q.event

\* INSERT ... ON CONFLICT DO NOTHING: of rows with one key the first is stored, in
\* whatever order they come.
Inserts(new, rows) ==
    /\ rows \subseteq new
    /\ \A r \in rows : \A q \in (rows \ {r}) \cup store : ~SameKey(r, q)
    /\ \A r \in new \ rows : \E q \in rows \cup store : SameKey(r, q)

\* An invoice of the row's period has been started already.
TooLate(r) == \E s \in Subs : cycle[s] > r.at \/ (cycle[s] = r.at /\ s \in reading)

Insert(new) ==
    \E rows \in SUBSET new :
        /\ Inserts(new, rows)
        /\ store' = store \cup rows
        /\ late' = late \cup {r \in rows : TooLate(r)}

----------------------------------------------------------------------------
(* RecordEvent.                                                            *)

\* buildEvent stamps an event that carries no timestamp, each time it is sent.
Stamped(e) ==
    [event |-> e, copy |-> sends + 1,
     at |-> IF content[e].timed /\ usedAt[e] # 0 THEN usedAt[e] ELSE now]

\* A subscription that an event names must be one of FindActiveMeteredForMeter.
Valid(e) == content[e].sub = NoSub \/ content[e].sub \in active

Send(e) ==
    /\ sends < MaxSends /\ now <= MaxPeriod /\ Valid(e)
    /\ sends' = sends + 1 /\ UNCHANGED content
    /\ usedAt' = [usedAt EXCEPT ![e] = IF content[e].timed THEN Stamped(e).at ELSE 0]

\* USAGE_INGEST_MODE=sync: the store is the ingestor.
RecordInStore(e) ==
    /\ "sync" \in Modes
    /\ Send(e)
    /\ Insert({Stamped(e)})
    /\ answered' = answered \cup {e}
    /\ shadowed' = shadowed \ {e}
    /\ UNCHANGED <<now, active, queue, billing, shifted, changes>>

Kept(e) == \E r \in stream \cup store : r.event = e

\* Nats-Msg-Id is the external id, without the organisation: JetStream drops a message
\* whose id it remembers, whoever sent that one, and acknowledges it.
Remembered(e) == \E own \in BOOLEAN : [event |-> e, own |-> own] \in window

Publish(e) ==
    IF Remembered(e)
    THEN /\ UNCHANGED <<stream, window>>
         /\ shadowed' = IF Kept(e) THEN shadowed ELSE shadowed \cup {e}
    ELSE /\ stream' = stream \cup {Stamped(e)}
         /\ window' = window \cup {[event |-> e, own |-> TRUE]}
         /\ shadowed' = shadowed \ {e}

\* USAGE_INGEST_MODE=jetstream
RecordInStream(e) ==
    /\ "jetstream" \in Modes
    /\ Send(e)
    /\ Publish(e)
    /\ answered' = answered \cup {e}
    /\ UNCHANGED <<now, active, tries, batch, written, store, billing, late, shifted, changes>>

\* The broker's acknowledgement, or the answer to the client, is lost.
AnswerLost(e) ==
    /\ "jetstream" \in Modes
    /\ Send(e)
    /\ Publish(e)
    /\ UNCHANGED <<now, active, answered, tries, batch, written, store, billing, late, shifted, changes>>

\* Another organisation sends an event with the same external id.  (Bound: this and the
\* next make no difference when no request follows.)
OtherPublishes(e) ==
    /\ "jetstream" \in Modes
    /\ ~Remembered(e) /\ sends < MaxSends /\ now <= MaxPeriod
    /\ window' = window \cup {[event |-> e, own |-> FALSE]}
    /\ UNCHANGED <<now, active, client, stream, tries, batch, written, store, billing, late, shifted,
                   changes>>

\* Two minutes later.
WindowPasses(id) ==
    /\ id \in window /\ sends < MaxSends /\ now <= MaxPeriod
    /\ window' = window \ {id}
    /\ UNCHANGED <<now, active, client, stream, tries, batch, written, store, billing, late, shifted,
                   changes>>

----------------------------------------------------------------------------
(* The consumer.  There is one, and it drains the queue batch by batch.    *)

\* Messages JetStream still delivers; the others stay in the stream for good.
Deliverable == {m \in stream : tries[m] < MaxDeliver}

\* Mutant of Fetchable: what was delivered before is not asked for again.
Undelivered == {m \in stream : tries[m] = 0}

\* Mutant of Fetchable: a stream without MaxDeliver.
Everything == stream

Fetchable == Deliverable

Fetch ==
    /\ batch = {}
    /\ \E b \in SUBSET Fetchable :
          /\ b # {} /\ Cardinality(b) <= BatchSize
          /\ batch' = b
          /\ tries' = [m \in Row |-> IF m \in b THEN tries[m] + 1 ELSE tries[m]]
    /\ UNCHANGED <<now, active, client, stream, window, written, store, billing, late, shifted,
                   changes>>

\* IngestBatch, in one statement.
WriteBatch ==
    /\ batch # {} /\ ~written
    /\ Insert(batch)
    /\ written' = TRUE
    /\ UNCHANGED <<now, active, client, stream, window, tries, batch, billing, shifted, changes>>

\* An acknowledged message leaves the work queue.
Acknowledge(messages) ==
    /\ stream' = stream \ messages
    /\ tries' = [m \in Row |-> IF m \in messages THEN 0 ELSE tries[m]]

\* Mutant of AckBatch: messages are acknowledged when they are fetched.
AckOnFetch ==
    /\ batch # {}
    /\ Acknowledge(batch)
    /\ batch' = {}
    /\ written' = FALSE
    /\ UNCHANGED <<now, active, client, window, store, billing, late, shifted, changes>>

AckBatch ==
    /\ batch # {} /\ written
    /\ Acknowledge(batch)
    /\ batch' = {}
    /\ written' = FALSE
    /\ UNCHANGED <<now, active, client, window, store, billing, late, shifted, changes>>

\* The write fails: every message is given back.
NakBatch ==
    /\ batch # {} /\ ~written
    /\ batch' = {}
    /\ UNCHANGED <<now, active, client, stream, window, tries, written, store, billing, late, shifted,
                   changes>>

\* The consumer dies, before or after the write, some messages acknowledged or none:
\* the others are delivered again when AckWait has passed.
ConsumerDies ==
    /\ batch # {}
    /\ \E acked \in SUBSET batch : (acked # {} => written) /\ Acknowledge(acked)
    /\ batch' = {}
    /\ written' = FALSE
    /\ UNCHANGED <<now, active, client, window, store, billing, late, shifted, changes>>

----------------------------------------------------------------------------
(* The invoices of the periods.                                            *)

\* The first of FindActiveMeteredForMeter.
Earliest(subs) == {s \in subs : \A t \in subs : s <= t}

IncludesUnattributed(s) == s \in Earliest(active)

\* BuildForBillingPeriod: the period has ended and the cycle has no invoice yet.
\* Whether the subscription is the catch-all is asked first ...
ReadMetered(s) ==
    /\ s \in active \ reading /\ cycle[s] < now
    /\ reading' = reading \cup {s}
    /\ catchAll' = IF IncludesUnattributed(s) THEN catchAll \cup {s} ELSE catchAll \ {s}
    /\ UNCHANGED <<now, active, client, queue, store, cycle, lines, late, shifted, changes>>

\* timestamp >= From AND timestamp < To
InPeriod(r, p) == r.at = p

\* Mutant of Matches: the filter on the subscription leaves no other event.
OnlyOwn(r, s) == InPeriod(r, cycle[s]) /\ content[r.event].sub = s

Matches(r, s) ==
    /\ InPeriod(r, cycle[s])
    /\ content[r.event].sub = s \/ (content[r.event].sub = NoSub /\ s \in catchAll)

\* ... and then the store is read and the invoice written.
BuildInvoice(s) ==
    /\ s \in reading
    /\ lines' = [lines EXCEPT ![s] = @ \cup {[row |-> r, period |-> cycle[s]] :
                                             r \in {q \in store : Matches(q, s)}}]
    /\ cycle' = [cycle EXCEPT ![s] = @ + 1]
    /\ reading' = reading \ {s}
    /\ catchAll' = catchAll \ {s}
    /\ UNCHANGED <<now, active, client, queue, store, late, shifted, changes>>

\* A read or the transaction fails; the billing run comes again.
InvoiceFails(s) ==
    /\ s \in reading
    /\ reading' = reading \ {s}
    /\ catchAll' = catchAll \ {s}
    /\ UNCHANGED <<now, active, client, queue, store, cycle, lines, late, shifted, changes>>

\* A subscription is paused, cancelled or marked unpaid; or resumed.
StatusChanges(s) ==
    /\ changes < MaxChanges
    /\ changes' = changes + 1
    /\ active' = IF s \in active THEN active \ {s} ELSE active \cup {s}
    /\ shifted' = (shifted \/ Earliest(active') # Earliest(active))
    /\ UNCHANGED <<now, client, queue, store, billing, late>>

PeriodEnds ==
    /\ now <= MaxPeriod
    /\ now' = now + 1
    /\ UNCHANGED <<active, client, queue, store, billing, late, shifted, changes>>

----------------------------------------------------------------------------
ConsumerNext == Fetch \/ WriteBatch \/ AckBatch

ClientNext(e) == RecordInStore(e) \/ RecordInStream(e) \/ AnswerLost(e)

InvoiceNext(s) == ReadMetered(s) \/ BuildInvoice(s)

Next ==
    \/ \E e \in Events : ClientNext(e) \/ OtherPublishes(e)
    \/ \E id \in window : WindowPasses(id)
    \/ ConsumerNext \/ NakBatch \/ ConsumerDies
    \/ \E s \in Subs : InvoiceNext(s) \/ InvoiceFails(s) \/ StatusChanges(s)
    \/ PeriodEnds

Spec == Init /\ [][Next]_vars

\* The consumer's loop runs.  Clients and the calendar owe nothing.
FairSpec == Spec /\ WF_vars(ConsumerNext)

----------------------------------------------------------------------------
(* Properties.                                                             *)

\* Every variable stays in its domain.
TypeOK ==
    /\ content \in Contents
    /\ now \in 1 .. MaxPeriod + 1
    /\ active \subseteq Subs /\ reading \subseteq Subs /\ catchAll \subseteq reading
    /\ sends \in 0 .. MaxSends
    /\ usedAt \in [Events -> 0 .. MaxPeriod]
    /\ answered \subseteq Events /\ shadowed \subseteq Events
    /\ stream \subseteq Row /\ batch \subseteq stream /\ store \subseteq Row /\ late \subseteq store
    /\ window \subseteq MessageId
    /\ tries \in [Row -> 0 .. MaxDeliver]
    /\ written \in BOOLEAN /\ shifted \in BOOLEAN
    /\ cycle \in [Subs -> 1 .. MaxPeriod + 1]
    /\ lines \in [Subs -> SUBSET [row : Row, period : 1 .. MaxPeriod]]
    /\ changes \in 0 .. MaxChanges

BilledOn(e) == UNION {{<<s, l>> : l \in {k \in lines[s] : k.row.event = e}} : s \in Subs}

\* An event is on at most one line of one invoice, and in the period of its own
\* timestamp, however often it is sent, delivered and stored.  (One that names no
\* subscription: as long as the earliest subscription stays the same, see the README.)
BilledOnce ==
    \A e \in Events :
        content[e].sub # NoSub \/ ~shifted => \A x, y \in BilledOn(e) : x = y /\ x[2].row.at = x[2].period

\* repository.go:31-32: unattributed usage goes to the earliest metered subscription, "so
\* a catch-all is billed exactly once": when every subscription has billed the period,
\* one of them has billed the event, unless it came too late or the earliest
\* subscription changed meanwhile.
CatchAllIsBilled ==
    \A r \in store \ late :
        content[r.event].sub = NoSub /\ ~shifted
            /\ (\A s \in Subs : cycle[s] > r.at)
        => BilledOn(r.event) # {}

\* ingestor.go:30-32: "a returned nil error means the event is persisted": an event that
\* was answered is in the stream until it is in the store, whatever fails in between,
\* unless another organisation's message had taken its id and it was never kept since.
AnsweredIsKept == \A e \in answered : Kept(e) \/ e \in shadowed

\* The consumer empties the queue: what is left has used up its deliveries.  (Until it
\* is written a message stays in the queue, so all others have reached the store.)
QueueDrains == <>[](Deliverable = {} /\ batch = {})

=============================================================================
