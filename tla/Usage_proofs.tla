---------------------------- MODULE Usage_proofs ----------------------------
(***************************************************************************)
(* Proofs about Usage, for any subscriptions, events and contents, in      *)
(* either mode, and for any number of requests and deliveries.             *)
(***************************************************************************)
EXTENDS Usage, WellFoundedInduction, TLAPS

----------------------------------------------------------------------------
(* The inductive invariant.                                                *)

\* The unique index: no two rows of the store are of one event.
StoreKeyed == \A r, q \in store : SameKey(r, q) => r = q

\* A batch that has been written is in the store.
WrittenIsStored == written => batch # {} /\ \A m \in batch : \E q \in store : SameKey(m, q)

\* What JetStream remembers of the organisation it has taken, and what it has taken is
\* kept.
RememberedIsKept == \A id \in window : id.own => Kept(id.event)

\* An invoice is built for a period that has ended.
ReadsThePast == \A s \in reading : cycle[s] < now

\* Until the earliest subscription changes it is one of the earliest of all, ...
NotShifted == ~shifted => Earliest(active) = Earliest(Subs)

\* ... and those that include unattributed events are the earliest.
CatchAllIsEarliest == ~shifted => \A s \in reading : s \in catchAll <=> s \in Earliest(Subs)

\* What an invoice bills is in the store, is of its period, and is the subscription's.
LinesAreOwn ==
    \A s \in Subs : \A l \in lines[s] :
        /\ l.row \in store
        /\ l.row.at = l.period
        /\ \/ content[l.row.event].sub = s
           \/ content[l.row.event].sub = NoSub /\ (~shifted => s \in Earliest(Subs))

\* The earliest subscription has billed the unattributed events of its past periods.
EarliestHasBilled ==
    ~shifted => \A r \in store \ late : \A s \in Earliest(Subs) :
        content[r.event].sub = NoSub /\ cycle[s] > r.at
            => [row |-> r, period |-> r.at] \in lines[s]

Inv == /\ TypeOK /\ ReadsThePast
       /\ StoreKeyed /\ WrittenIsStored /\ RememberedIsKept /\ AnsweredIsKept
       /\ NotShifted /\ CatchAllIsEarliest /\ LinesAreOwn /\ EarliestHasBilled

----------------------------------------------------------------------------
(* The store.                                                              *)

\* An insertion keeps what is stored, adds only new rows, leaves each of them or another
\* of its key in the store, and remembers which of those it adds are late.
LEMMA InsertAdds ==
    ASSUME NEW new, Insert(new)
    PROVE  /\ store \subseteq store' /\ store' \subseteq store \cup new
           /\ \A m \in new : \E q \in store' : SameKey(m, q)
           /\ StoreKeyed => StoreKeyed'
           /\ late \subseteq late'
           /\ \A r \in store' \ store : TooLate(r) => r \in late'
<1>1. PICK rows \in SUBSET new :
          /\ Inserts(new, rows)
          /\ store' = store \cup rows
          /\ late' = late \cup {r \in rows : TooLate(r)}
    BY DEF Insert
<1>2. \A m \in new : \E q \in store' : SameKey(m, q)
    BY <1>1 DEF Inserts, SameKey
<1>3. ASSUME StoreKeyed PROVE StoreKeyed'
    BY <1>1, <1>3 DEF StoreKeyed, Inserts, SameKey
<1> QED BY <1>1, <1>2, <1>3

\* What a request queues or stores is a row, and of its event.
LEMMA StampedIsRow ==
    ASSUME TypeOK, NEW e \in Events, Send(e)
    PROVE  /\ Stamped(e) \in Row /\ Stamped(e).event = e
           /\ sends' \in 0 .. MaxSends /\ usedAt' \in [Events -> 0 .. MaxPeriod]
<1>1. /\ sends \in Nat /\ sends < MaxSends /\ now \in 1 .. MaxPeriod
      /\ usedAt[e] # 0 => usedAt[e] \in 1 .. MaxPeriod
    BY BoundAssumption DEF BoundAssumption, TypeOK, Send
<1>2. Stamped(e).at \in 1 .. MaxPeriod
    BY <1>1 DEF Stamped
<1>3. sends + 1 \in 1 .. MaxSends
    BY <1>1, BoundAssumption DEF BoundAssumption
<1>4. Stamped(e) \in Row /\ Stamped(e).event = e
    BY <1>2, <1>3 DEF Stamped, Row
<1>5. usedAt' \in [Events -> 0 .. MaxPeriod]
    <2>1. (IF content[e].timed THEN Stamped(e).at ELSE 0) \in 0 .. MaxPeriod
        BY <1>2, BoundAssumption DEF BoundAssumption
    <2> QED BY <2>1 DEF Send, TypeOK
<1>6. sends' \in 0 .. MaxSends
    BY <1>1, <1>3 DEF Send
<1> QED BY <1>4, <1>5, <1>6

\* Publishing adds at most the event's own message, and leaves the event kept or shadowed
\* if all that JetStream remembers of the organisation is kept.
LEMMA PublishKeeps ==
    ASSUME NEW e \in Events, RememberedIsKept, Publish(e), UNCHANGED store
    PROVE  /\ stream \subseteq stream' /\ stream' \subseteq stream \cup {Stamped(e)}
           /\ \A id \in window' : id \in window \/ (id.event = e /\ Kept(e)')
           /\ Kept(e)' \/ e \in shadowed'
           /\ \A d \in shadowed : d \in shadowed' \/ (d = e /\ Kept(e)')
<1>1. Stamped(e).event = e
    BY DEF Stamped
<1>2. CASE Remembered(e)
    <2>1. UNCHANGED <<stream, window>>
          /\ shadowed' = IF Kept(e) THEN shadowed ELSE shadowed \cup {e}
        BY <1>2 DEF Publish
    <2> QED BY <2>1 DEF Kept
<1>3. CASE ~Remembered(e)
    <2>1. /\ stream' = stream \cup {Stamped(e)}
          /\ window' = window \cup {[event |-> e, own |-> TRUE]}
          /\ shadowed' = shadowed \ {e}
        BY <1>3 DEF Publish
    <2>2. Kept(e)'
        BY <1>1, <2>1 DEF Kept
    <2> QED BY <2>1, <2>2
<1> QED BY <1>2, <1>3

\* There is an earliest subscription if there are any: they are natural numbers.
LEMMA SomeoneIsEarliest ==
    ASSUME Subs # {}
    PROVE  Earliest(Subs) # {}
<1> DEFINE before == {ss \in Nat \X Nat : ss[1] < ss[2]}
<1>1. IsWellFoundedOn(before, Nat)
    BY NatLessThanWellFounded DEF OpToRel
<1>2. PICK s \in Subs : \A t \in Subs : ~(<<t, s>> \in before)
    <2> HIDE DEF before
    <2> QED BY <1>1, WFMin, EventAssumption, Zenon DEF EventAssumption
<1>3. \A t \in Subs : s <= t
    <2> TAKE t \in Subs
    <2>1. s \in Nat /\ t \in Nat /\ <<t, s>> \in Nat \X Nat
        BY EventAssumption DEF EventAssumption
    <2>2. ~(t < s)
        BY <1>2, <2>1
    <2> QED BY <2>1, <2>2
<1> QED BY <1>3 DEF Earliest

----------------------------------------------------------------------------
(* Types.                                                                  *)

LEMMA TypesStart ==
    ASSUME Init
    PROVE  TypeOK
<1> USE BoundAssumption DEF BoundAssumption
<1>1. tries \in [Row -> 0 .. MaxDeliver]
    BY DEF Init
<1>2. /\ cycle \in [Subs -> 1 .. MaxPeriod + 1]
      /\ lines \in [Subs -> SUBSET [row : Row, period : 1 .. MaxPeriod]]
    BY DEF Init
<1>3. usedAt \in [Events -> 0 .. MaxPeriod]
    BY DEF Init
<1>4. /\ now \in 1 .. MaxPeriod + 1 /\ sends \in 0 .. MaxSends /\ changes \in 0 .. MaxChanges
    BY DEF Init
<1>5. written \in BOOLEAN /\ shifted \in BOOLEAN
    BY DEF Init
<1>6. /\ active \subseteq Subs /\ reading \subseteq Subs /\ catchAll \subseteq reading
      /\ answered \subseteq Events /\ shadowed \subseteq Events /\ window \subseteq MessageId
      /\ content \in Contents
      /\ stream \subseteq Row /\ batch \subseteq stream /\ store \subseteq Row /\ late \subseteq store
    BY DEF Init
<1> QED BY <1>1, <1>2, <1>3, <1>4, <1>5, <1>6 DEF TypeOK

\* Publishing leaves the queue's variables in their domains.
LEMMA PublishTypes ==
    ASSUME TypeOK, NEW e \in Events, Send(e), Publish(e)
    PROVE  /\ stream' \subseteq Row /\ stream \subseteq stream' /\ window' \subseteq MessageId
           /\ shadowed' \subseteq Events
<1>1. Stamped(e) \in Row
    BY StampedIsRow
<1>2. [event |-> e, own |-> TRUE] \in MessageId
    BY DEF MessageId
<1>3. stream' \subseteq Row /\ stream \subseteq stream'
    BY <1>1 DEF TypeOK, Publish
<1>4. window' \subseteq MessageId
    BY <1>2 DEF TypeOK, Publish
<1>5. shadowed' \subseteq Events
    BY DEF TypeOK, Publish
<1> QED BY <1>3, <1>4, <1>5

\* A step leaves every variable in its domain.  An invoice is of a period that clients
\* have sent events in, since it is built only when the period has ended.
LEMMA TypesStay ==
    ASSUME TypeOK, ReadsThePast, [Next]_vars
    PROVE  TypeOK'
<1> USE BoundAssumption DEF BoundAssumption
<1>1. ASSUME NEW e \in Events, RecordInStore(e) PROVE TypeOK'
    <2>1. /\ Stamped(e) \in Row /\ sends' \in 0 .. MaxSends
          /\ usedAt' \in [Events -> 0 .. MaxPeriod]
        BY <1>1, StampedIsRow DEF RecordInStore
    <2>2. store' \subseteq Row /\ late' \subseteq store'
        BY <1>1, <2>1 DEF RecordInStore, Insert, TypeOK
    <2>3. content' = content
        BY <1>1 DEF RecordInStore, Send
    <2> QED BY <1>1, <2>1, <2>2, <2>3 DEF RecordInStore, TypeOK, queue, billing
<1>2. ASSUME NEW e \in Events, RecordInStream(e) PROVE TypeOK'
    <2>1. sends' \in 0 .. MaxSends /\ usedAt' \in [Events -> 0 .. MaxPeriod]
        BY <1>2, StampedIsRow DEF RecordInStream
    <2>2. stream' \subseteq Row /\ stream \subseteq stream' /\ window' \subseteq MessageId
          /\ shadowed' \subseteq Events
        BY <1>2, PublishTypes DEF RecordInStream
    <2>3. content' = content
        BY <1>2 DEF RecordInStream, Send
    <2> QED BY <1>2, <2>1, <2>2, <2>3 DEF RecordInStream, TypeOK, billing
<1>3. ASSUME NEW e \in Events, AnswerLost(e) PROVE TypeOK'
    <2>1. sends' \in 0 .. MaxSends /\ usedAt' \in [Events -> 0 .. MaxPeriod]
        BY <1>3, StampedIsRow DEF AnswerLost
    <2>2. stream' \subseteq Row /\ stream \subseteq stream' /\ window' \subseteq MessageId
          /\ shadowed' \subseteq Events
        BY <1>3, PublishTypes DEF AnswerLost
    <2>3. content' = content
        BY <1>3 DEF AnswerLost, Send
    <2> QED BY <1>3, <2>1, <2>2, <2>3 DEF AnswerLost, TypeOK, billing
<1>4. ASSUME NEW id \in window, WindowPasses(id) PROVE TypeOK'
    BY <1>4 DEF WindowPasses, TypeOK, client, billing
<1>17. ASSUME NEW e \in Events, OtherPublishes(e) PROVE TypeOK'
    <2>1. [event |-> e, own |-> FALSE] \in MessageId
        BY DEF MessageId
    <2>2. window' \subseteq MessageId
        BY <1>17, <2>1 DEF OtherPublishes, TypeOK
    <2> QED BY <1>17, <2>2 DEF OtherPublishes, TypeOK, client, billing
<1>5. CASE Fetch
    <2>1. PICK b \in SUBSET Deliverable :
              /\ batch' = b
              /\ tries' = [m \in Row |-> IF m \in b THEN tries[m] + 1 ELSE tries[m]]
        BY <1>5 DEF Fetch, Fetchable
    <2>2. tries' \in [Row -> 0 .. MaxDeliver]
        BY <2>1 DEF Deliverable, TypeOK
    <2>3. batch' \subseteq stream
        BY <2>1 DEF Deliverable
    <2> QED BY <1>5, <2>2, <2>3 DEF Fetch, TypeOK, client, billing
<1>6. CASE WriteBatch
    <2>1. store' \subseteq Row /\ late' \subseteq store'
        BY <1>6 DEF WriteBatch, Insert, TypeOK
    <2> QED BY <1>6, <2>1 DEF WriteBatch, TypeOK, client, billing
<1>7. ASSUME NEW acked \in SUBSET batch, Acknowledge(acked)
      PROVE  stream' \subseteq Row /\ tries' \in [Row -> 0 .. MaxDeliver]
    BY <1>7 DEF Acknowledge, TypeOK
<1>8. CASE AckBatch
    BY <1>7, <1>8 DEF AckBatch, TypeOK, client, billing
<1>9. CASE NakBatch
    BY <1>9 DEF NakBatch, TypeOK, client, billing
<1>10. CASE ConsumerDies
    BY <1>7, <1>10 DEF ConsumerDies, TypeOK, client, billing
<1>11. ASSUME NEW s \in Subs, ReadMetered(s) PROVE TypeOK'
    BY <1>11 DEF ReadMetered, TypeOK, client, queue
<1>12. ASSUME NEW s \in Subs, BuildInvoice(s) PROVE TypeOK'
    <2>1. cycle[s] \in 1 .. MaxPeriod
        BY <1>12 DEF BuildInvoice, ReadsThePast, TypeOK
    <2> DEFINE added == {[row |-> r, period |-> cycle[s]] : r \in {q \in store : Matches(q, s)}}
    <2>2. added \subseteq [row : Row, period : 1 .. MaxPeriod]
        BY <2>1 DEF TypeOK
    <2>3. lines' = [lines EXCEPT ![s] = @ \cup added]
        BY <1>12 DEF BuildInvoice
    <2> HIDE DEF added
    <2>4. lines' \in [Subs -> SUBSET [row : Row, period : 1 .. MaxPeriod]]
        BY <2>2, <2>3 DEF TypeOK
    <2>5. cycle' \in [Subs -> 1 .. MaxPeriod + 1]
        BY <1>12, <2>1 DEF BuildInvoice, TypeOK
    <2> QED BY <1>12, <2>4, <2>5 DEF BuildInvoice, TypeOK, client, queue
<1>13. ASSUME NEW s \in Subs, InvoiceFails(s) PROVE TypeOK'
    BY <1>13 DEF InvoiceFails, TypeOK, client, queue
<1>14. ASSUME NEW s \in Subs, StatusChanges(s) PROVE TypeOK'
    BY <1>14 DEF StatusChanges, TypeOK, client, queue, billing
<1>15. CASE PeriodEnds
    BY <1>15 DEF PeriodEnds, TypeOK, client, queue, billing
<1>16. CASE UNCHANGED vars
    BY <1>16 DEF vars, TypeOK, client, queue, billing
<1> QED BY <1>1, <1>2, <1>3, <1>4, <1>5, <1>6, <1>8, <1>9, <1>10, <1>11, <1>12, <1>13,
           <1>14, <1>15, <1>16, <1>17 DEF Next, ClientNext, ConsumerNext, InvoiceNext

----------------------------------------------------------------------------
(* What is kept.                                                           *)

\* A step leaves kept what was kept: messages leave the stream only when what they
\* bring is in the store, and the store loses nothing.
KeepsAll == \A e \in Events : Kept(e) => Kept(e)'

\* Acknowledging messages that are written loses no event.
LEMMA AcknowledgeKeeps ==
    ASSUME WrittenIsStored, NEW acked \in SUBSET batch, acked # {} => written,
           Acknowledge(acked), UNCHANGED store
    PROVE  KeepsAll
BY DEF WrittenIsStored, SameKey, Acknowledge, KeepsAll, Kept

LEMMA StepKeeps ==
    ASSUME Inv, [Next]_vars
    PROVE  KeepsAll
<1> USE DEF KeepsAll, Kept
<1>1. ASSUME NEW e \in Events, ClientNext(e) PROVE KeepsAll
    BY <1>1, InsertAdds DEF ClientNext, RecordInStore, RecordInStream, AnswerLost, Publish, queue
<1>2. CASE WriteBatch
    BY <1>2, InsertAdds DEF WriteBatch
<1>3. CASE AckBatch
    BY <1>3, AcknowledgeKeeps DEF AckBatch, Inv
<1>4. CASE ConsumerDies
    BY <1>4, AcknowledgeKeeps DEF ConsumerDies, Inv
<1>5. CASE UNCHANGED <<stream, store>>
    BY <1>5
<1> QED BY <1>1, <1>2, <1>3, <1>4, <1>5
        DEF Next, ConsumerNext, InvoiceNext,
            OtherPublishes, WindowPasses, Fetch, NakBatch, ReadMetered, BuildInvoice,
            InvoiceFails, StatusChanges, PeriodEnds, vars, queue

\* What a request sends, and what JetStream says it has already, is kept.
LEMMA AnsweredStays ==
    ASSUME Inv, [Next]_vars
    PROVE  AnsweredIsKept' /\ RememberedIsKept'
<1>1. KeepsAll
    BY StepKeeps
<1>2. answered \subseteq Events /\ \A id \in window : id.event \in Events
    BY DEF Inv, TypeOK, MessageId
<1>3. ASSUME NEW e \in Events, RecordInStore(e) PROVE AnsweredIsKept' /\ RememberedIsKept'
    <2>1. Kept(e)'
        <3>1. Stamped(e).event = e
            BY DEF Stamped
        <3> QED BY <1>3, <3>1, InsertAdds DEF RecordInStore, Kept, SameKey
    <2>2. answered' = answered \cup {e} /\ shadowed' = shadowed \ {e} /\ window' = window
        BY <1>3 DEF RecordInStore, queue
    <2> QED BY <1>1, <1>2, <2>1, <2>2 DEF Inv, KeepsAll, AnsweredIsKept, RememberedIsKept
<1>4. ASSUME NEW e \in Events, RecordInStream(e) \/ AnswerLost(e)
      PROVE  AnsweredIsKept' /\ RememberedIsKept'
    <2>1. /\ \A id \in window' : id \in window \/ (id.event = e /\ Kept(e)')
          /\ Kept(e)' \/ e \in shadowed'
          /\ \A d \in shadowed : d \in shadowed' \/ (d = e /\ Kept(e)')
        BY <1>4, PublishKeeps DEF RecordInStream, AnswerLost, Inv
    <2>2. answered' \subseteq answered \cup {e}
        BY <1>4 DEF RecordInStream, AnswerLost
    <2>3. RememberedIsKept'
        BY <1>1, <1>2, <2>1 DEF Inv, KeepsAll, RememberedIsKept
    <2>4. AnsweredIsKept'
        BY <1>1, <1>2, <2>1, <2>2 DEF Inv, KeepsAll, AnsweredIsKept
    <2> QED BY <2>3, <2>4
<1>5. CASE UNCHANGED <<answered, shadowed>> /\ \A id \in window' : id.own => id \in window
    BY <1>1, <1>2, <1>5 DEF Inv, KeepsAll, AnsweredIsKept, RememberedIsKept
<1> QED BY <1>3, <1>4, <1>5
        DEF Next, ClientNext, ConsumerNext, InvoiceNext,
            OtherPublishes, WindowPasses, Fetch, WriteBatch, AckBatch,
            NakBatch, ConsumerDies, ReadMetered, BuildInvoice, InvoiceFails, StatusChanges,
            PeriodEnds, vars, queue, client

\* The index stays unique, and a batch counts as written only from the insertion on.
LEMMA StoreStays ==
    ASSUME Inv, [Next]_vars
    PROVE  StoreKeyed' /\ WrittenIsStored' /\ store \subseteq store' /\ late \subseteq late'
<1>1. ASSUME NEW e \in Events, RecordInStore(e)
      PROVE  StoreKeyed' /\ WrittenIsStored' /\ store \subseteq store' /\ late \subseteq late'
    <2>1. StoreKeyed' /\ store \subseteq store' /\ late \subseteq late'
        BY <1>1, InsertAdds DEF RecordInStore, Inv
    <2> QED BY <1>1, <2>1 DEF RecordInStore, queue, Inv, WrittenIsStored, SameKey
<1>2. CASE WriteBatch
    <2>1. /\ StoreKeyed' /\ store \subseteq store' /\ late \subseteq late'
          /\ \A m \in batch : \E q \in store' : SameKey(m, q)
        BY <1>2, InsertAdds DEF WriteBatch, Inv
    <2> QED BY <1>2, <2>1 DEF WriteBatch, WrittenIsStored, SameKey
<1>3. CASE /\ UNCHANGED <<store, late>>
           /\ ~written' \/ UNCHANGED <<batch, written>> \/ (batch = {} /\ UNCHANGED written)
    BY <1>3 DEF Inv, StoreKeyed, WrittenIsStored, SameKey
<1> QED BY <1>1, <1>2, <1>3
        DEF Next, ClientNext, ConsumerNext, InvoiceNext, RecordInStream, AnswerLost,
            OtherPublishes, WindowPasses, Fetch,
            AckBatch, NakBatch, ConsumerDies, ReadMetered, BuildInvoice, InvoiceFails,
            StatusChanges, PeriodEnds, vars, queue, client

----------------------------------------------------------------------------
(* What is billed.                                                         *)

\* A step of the clock, the calendar or an invoice keeps invoices in the past.
LEMMA ReadingStaysPast ==
    ASSUME Inv, [Next]_vars
    PROVE  ReadsThePast'
<1> USE DEF ReadsThePast, Inv, TypeOK
<1>1. ASSUME NEW s \in Subs, ReadMetered(s) PROVE ReadsThePast'
    BY <1>1 DEF ReadMetered
<1>2. ASSUME NEW s \in Subs, BuildInvoice(s) PROVE ReadsThePast'
    BY <1>2 DEF BuildInvoice
<1>3. ASSUME NEW s \in Subs, InvoiceFails(s) PROVE ReadsThePast'
    BY <1>3 DEF InvoiceFails
<1>4. CASE PeriodEnds
    BY <1>4 DEF PeriodEnds, billing
<1>5. CASE UNCHANGED <<reading, cycle, now>>
    BY <1>5
<1> QED BY <1>1, <1>2, <1>3, <1>4, <1>5
        DEF Next, ClientNext, ConsumerNext, InvoiceNext, RecordInStore, RecordInStream, AnswerLost,
            OtherPublishes, WindowPasses, Fetch, WriteBatch, AckBatch,
            NakBatch, ConsumerDies, StatusChanges, vars, billing

\* While the earliest subscription stays the same, those that bill unattributed events
\* are the earliest of all.
LEMMA CatchAllStays ==
    ASSUME Inv, [Next]_vars
    PROVE  NotShifted' /\ CatchAllIsEarliest' /\ (shifted => shifted')
<1> USE DEF Inv, NotShifted, CatchAllIsEarliest
<1>1. ASSUME NEW s \in Subs, ReadMetered(s)
      PROVE  NotShifted' /\ CatchAllIsEarliest' /\ (shifted => shifted')
    <2>1. UNCHANGED <<shifted, active>>
        BY <1>1 DEF ReadMetered
    <2>2. ASSUME ~shifted PROVE s \in Earliest(active) <=> s \in Earliest(Subs)
        BY <2>2
    <2> QED BY <1>1, <2>1, <2>2 DEF ReadMetered, IncludesUnattributed
<1>2. ASSUME NEW s \in Subs, BuildInvoice(s) \/ InvoiceFails(s)
      PROVE  NotShifted' /\ CatchAllIsEarliest' /\ (shifted => shifted')
    BY <1>2 DEF BuildInvoice, InvoiceFails
<1>3. ASSUME NEW s \in Subs, StatusChanges(s)
      PROVE  NotShifted' /\ CatchAllIsEarliest' /\ (shifted => shifted')
    BY <1>3 DEF StatusChanges, billing
<1>4. CASE UNCHANGED <<shifted, active, reading, catchAll>>
    BY <1>4
<1> QED BY <1>1, <1>2, <1>3, <1>4
        DEF Next, ClientNext, ConsumerNext, InvoiceNext, RecordInStore, RecordInStream, AnswerLost,
            OtherPublishes, WindowPasses, Fetch, WriteBatch, AckBatch,
            NakBatch, ConsumerDies, PeriodEnds, vars, billing

\* Nobody changes what an event was sent with.
LEMMA ContentStays ==
    ASSUME [Next]_vars
    PROVE  content' = content
BY DEF Next, ClientNext, ConsumerNext, InvoiceNext, RecordInStore, RecordInStream, AnswerLost, Send,
       OtherPublishes, WindowPasses, Fetch, WriteBatch, AckBatch,
       NakBatch, ConsumerDies, ReadMetered, BuildInvoice,
       InvoiceFails, StatusChanges, PeriodEnds, vars, client

\* A built invoice adds rows of the store that are the subscription's.
LEMMA LinesStay ==
    ASSUME Inv, [Next]_vars
    PROVE  LinesAreOwn'
<1>1. content' = content /\ store \subseteq store' /\ (shifted => shifted')
    BY ContentStays, StoreStays, CatchAllStays
<1>2. ASSUME NEW s \in Subs, BuildInvoice(s) PROVE LinesAreOwn'
    <2> DEFINE added == {[row |-> r, period |-> cycle[s]] : r \in {q \in store : Matches(q, s)}}
    <2>1. lines' = [lines EXCEPT ![s] = @ \cup added]
        BY <1>2 DEF BuildInvoice
    <2>2. ASSUME NEW l \in added
          PROVE  /\ l.row \in store /\ l.row.at = l.period
                 /\ \/ content[l.row.event].sub = s
                    \/ content[l.row.event].sub = NoSub /\ (~shifted => s \in Earliest(Subs))
        <3>1. PICK r \in store : Matches(r, s) /\ l = [row |-> r, period |-> cycle[s]]
            BY <2>2
        <3>2. s \in reading
            BY <1>2 DEF BuildInvoice
        <3> QED BY <3>1, <3>2 DEF Matches, InPeriod, Inv, CatchAllIsEarliest
    <2> HIDE DEF added
    <2>3. \A t \in Subs : lines'[t] \subseteq lines[t] \cup (IF t = s THEN added ELSE {})
        BY <2>1 DEF Inv, TypeOK
    <2> QED BY <1>1, <2>2, <2>3 DEF Inv, LinesAreOwn
<1>3. CASE UNCHANGED lines
    BY <1>1, <1>3 DEF Inv, LinesAreOwn
<1> QED BY <1>2, <1>3
        DEF Next, ClientNext, ConsumerNext, InvoiceNext, RecordInStore, RecordInStream, AnswerLost,
            OtherPublishes, WindowPasses, Fetch, WriteBatch, AckBatch,
            NakBatch, ConsumerDies, ReadMetered,
            InvoiceFails, StatusChanges, PeriodEnds, vars, billing

\* A row that is stored in time has not been billed by anybody, and is billed with its
\* period by the earliest subscription.
LEMMA EarliestStillBills ==
    ASSUME Inv, [Next]_vars
    PROVE  EarliestHasBilled'
<1>1. content' = content /\ store \subseteq store' /\ late \subseteq late' /\ (shifted => shifted')
    BY ContentStays, StoreStays, CatchAllStays
<1>2. ASSUME NEW new, Insert(new), UNCHANGED <<cycle, lines>>, ~shifted' PROVE EarliestHasBilled'
    <2>1. ASSUME NEW r \in store' \ late', NEW s \in Earliest(Subs), cycle[s] > r.at
          PROVE  r \in store \ late
        BY <1>1, <1>2, <2>1, InsertAdds DEF TooLate, Earliest
    <2> QED BY <1>1, <1>2, <2>1 DEF Inv, EarliestHasBilled
<1>3. ASSUME NEW s \in Subs, BuildInvoice(s) PROVE EarliestHasBilled'
    <2> SUFFICES ASSUME ~shifted',
                        NEW r \in store' \ late', NEW t \in Earliest(Subs),
                        content'[r.event].sub = NoSub, cycle'[t] > r.at
                 PROVE  [row |-> r, period |-> r.at] \in lines'[t]
        BY DEF EarliestHasBilled
    <2>1. t \in Subs /\ r \in store \ late /\ ~shifted /\ content[r.event].sub = NoSub
        BY <1>1, <1>3 DEF BuildInvoice, Earliest
    <2>2. cycle[t] \in Nat /\ r.at \in Nat
        BY <2>1, BoundAssumption DEF BoundAssumption, Inv, TypeOK, Row
    <2>3. lines[t] \subseteq lines'[t]
        BY <1>3 DEF BuildInvoice, Inv, TypeOK
    <2>4. CASE cycle[t] > r.at
        BY <2>1, <2>3, <2>4 DEF Inv, EarliestHasBilled
    <2>5. CASE ~(cycle[t] > r.at)
        <3>1. t = s /\ cycle[t] = r.at
            BY <1>3, <2>1, <2>2, <2>5 DEF BuildInvoice, Inv, TypeOK
        <3>2. Matches(r, s)
            BY <1>3, <2>1, <3>1 DEF BuildInvoice, Matches, InPeriod, Inv, CatchAllIsEarliest
        <3> QED BY <1>3, <2>1, <3>1, <3>2 DEF BuildInvoice, Inv, TypeOK
    <2> QED BY <2>4, <2>5
<1>4. CASE UNCHANGED <<store, late, cycle, lines>>
    BY <1>1, <1>4 DEF Inv, EarliestHasBilled
<1>5. CASE shifted'
    BY <1>5 DEF EarliestHasBilled
<1> QED BY <1>2, <1>3, <1>4, <1>5
        DEF Next, ClientNext, ConsumerNext, InvoiceNext, RecordInStore, RecordInStream, AnswerLost,
            OtherPublishes, WindowPasses, Fetch, WriteBatch, AckBatch,
            NakBatch, ConsumerDies, ReadMetered,
            InvoiceFails, StatusChanges, PeriodEnds, vars, billing

----------------------------------------------------------------------------
(* The theorems.                                                           *)

LEMMA InvStarts == Init => Inv
BY TypesStart DEF Init, Inv, ReadsThePast, StoreKeyed, WrittenIsStored, RememberedIsKept, AnsweredIsKept,
                  NotShifted, CatchAllIsEarliest, LinesAreOwn, EarliestHasBilled

LEMMA InvStays == Inv /\ [Next]_vars => Inv'
BY TypesStay, ReadingStaysPast, StoreStays, AnsweredStays, CatchAllStays, LinesStay, EarliestStillBills
   DEF Inv

LEMMA SpecKeepsInv == Spec => []Inv
BY InvStarts, InvStays, PTL DEF Spec

\* Every variable stays in its domain; no message is delivered more often than JetStream
\* is told.
THEOREM UsageTypeCorrect == Spec => []TypeOK
<1>1. Inv => TypeOK
    BY DEF Inv
<1> QED BY <1>1, SpecKeepsInv, PTL

\* What a client was told to be recorded is in the stream or in the store, whatever the
\* consumer writes, gives back, acknowledges or leaves behind: the one way to lose it is
\* another organisation's message of the same id, which JetStream takes for it.
THEOREM AnsweredIsAlwaysKept == Spec => []AnsweredIsKept
<1>1. Inv => AnsweredIsKept
    BY DEF Inv
<1> QED BY <1>1, SpecKeepsInv, PTL

\* An event is billed at most once, by one subscription, in the period it was used in.
THEOREM EventsAreBilledOnce == Spec => []BilledOnce
<1>1. ASSUME Inv, NEW e \in Events, content[e].sub # NoSub \/ ~shifted,
             NEW x \in BilledOn(e), NEW y \in BilledOn(e)
      PROVE  x = y /\ x[2].row.at = x[2].period
    <2>1. PICK s \in Subs : \E l \in lines[s] : x = <<s, l>> /\ l.row.event = e
        BY <1>1 DEF BilledOn
    <2>2. PICK l \in lines[s] : x = <<s, l>> /\ l.row.event = e
        BY <2>1
    <2>3. PICK t \in Subs : \E k \in lines[t] : y = <<t, k>> /\ k.row.event = e
        BY <1>1 DEF BilledOn
    <2>4. PICK k \in lines[t] : y = <<t, k>> /\ k.row.event = e
        BY <2>3
    <2>5. l.row = k.row /\ l.row.at = l.period /\ k.row.at = k.period
        BY <1>1, <2>2, <2>4 DEF Inv, LinesAreOwn, StoreKeyed, SameKey
    <2>6. l = k
        BY <1>1, <2>2, <2>4, <2>5 DEF Inv, TypeOK
    <2>7. s = t
        <3>1. CASE content[e].sub # NoSub
            BY <1>1, <2>2, <2>4, <3>1 DEF Inv, LinesAreOwn
        <3>2. CASE content[e].sub = NoSub /\ ~shifted
            <4>1. s \in Earliest(Subs) /\ t \in Earliest(Subs)
                BY <1>1, <2>2, <2>4, <3>2, EventAssumption DEF EventAssumption, NoSub, Inv, LinesAreOwn
            <4> QED BY <4>1, EventAssumption DEF EventAssumption, Earliest
        <3> QED BY <1>1, <3>1, <3>2
    <2> QED BY <2>2, <2>4, <2>5, <2>6, <2>7
<1>2. Inv => BilledOnce
    BY <1>1 DEF BilledOnce
<1> QED BY <1>2, SpecKeepsInv, PTL

\* Unattributed usage that came in time is billed when all have billed its period, by the
\* earliest of the subscriptions, if there is one.
THEOREM CatchAllIsAlwaysBilled == ASSUME Subs # {} PROVE Spec => []CatchAllIsBilled
<1>1. ASSUME Inv, NEW r \in store \ late, content[r.event].sub = NoSub, ~shifted,
             \A s \in Subs : cycle[s] > r.at
      PROVE  BilledOn(r.event) # {}
    <2>1. PICK s \in Subs : s \in Earliest(Subs)
        BY SomeoneIsEarliest DEF Earliest
    <2> DEFINE l == [row |-> r, period |-> r.at]
    <2>2. l \in lines[s]
        BY <1>1, <2>1 DEF Inv, EarliestHasBilled
    <2>3. <<s, l>> \in BilledOn(r.event)
        BY <2>2 DEF BilledOn
    <2> QED BY <2>3
<1>2. Inv => CatchAllIsBilled
    BY <1>1 DEF CatchAllIsBilled
<1> QED BY <1>2, SpecKeepsInv, PTL

=============================================================================
