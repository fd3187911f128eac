---------------------------- MODULE Outbox_proofs ----------------------------
(***************************************************************************)
(* Proofs about Outbox, for any number of events and servers, any retry   *)
(* policy and any number of faults.                                       *)
(***************************************************************************)
EXTENDS Outbox, TLAPS

----------------------------------------------------------------------------
(* The inductive invariant.                                                *)

\* A relay that has claimed a row holds the row of a committed event that is
\* unpublished and has attempts left; no two relays hold the same row.
LocksHold ==
    /\ \A s \in Servers : relay[s].ev = NoEvent <=> relay[s].pc = "idle"
    /\ \A s \in Servers : relay[s].pc # "idle" =>
          /\ tx[relay[s].ev] = "committed"
          /\ rows[relay[s].ev].state = "pending"
          /\ rows[relay[s].ev].attempts < MaxAttempts
    /\ \A s, t \in Servers : relay[s].ev # NoEvent /\ relay[s].ev = relay[t].ev => s = t

\* A row nobody committed is as it was inserted, and was never sent.
UncommittedIsNew ==
    \A e \in Events : tx[e] # "committed" =>
        rows[e].state = "pending" /\ rows[e].attempts = 0 /\ sent[e] = 0

\* What a relay is about to mark, and what is marked, was sent.
MarkedWasSent ==
    /\ \A s \in Servers : relay[s].pc = "published" => sent[relay[s].ev] > 0
    /\ \A e \in Events : rows[e].state # "pending" => sent[e] > 0

\* An event was sent once per fault, and once more if it is marked or is about to be.
BeingMarked(e) == \E s \in Servers : relay[s].ev = e /\ relay[s].pc = "published"

SentPerFault ==
    \A e \in Events :
        /\ sent[e] <= 1 + faults
        /\ rows[e].state = "pending" /\ ~BeingMarked(e) => sent[e] <= faults

\* While nothing has failed, what was sent is delivered or in a client's buffer.
SentIsSomewhere ==
    faults = 0 => \A e \in Events :
        sent[e] > 0 => e \in delivered \/ \E s \in Servers : e \in buffer[s]

Inv == TypeOK /\ LocksHold /\ UncommittedIsNew /\ MarkedWasSent /\ SentPerFault /\ SentIsSomewhere

----------------------------------------------------------------------------
(* The steps.                                                              *)

\* Event ids start at 1, so NoEvent is none of them.
LEMMA NoEventIsNoEvent == NoEvent \notin Events
    BY DEF NoEvent, Events

\* A backoff never exceeds its cap.
LEMMA BackoffIsCapped == \A n \in Nat : Backoff(n) \in 0 .. BackoffCap
<1> TAKE n \in Nat
<1> DEFINE delay == BackoffBase * 2 ^ n
<1>1. Backoff(n) = IF delay \in 1 .. BackoffCap THEN delay ELSE BackoffCap
    BY DEF Backoff
<1>2. BackoffCap \in 0 .. BackoffCap
    BY RelayAssumption DEF RelayAssumption
<1>3. ASSUME delay \in 1 .. BackoffCap PROVE delay \in 0 .. BackoffCap
    <2> HIDE DEF delay
    <2> QED BY <1>3, RelayAssumption DEF RelayAssumption
<1> HIDE DEF delay
<1> QED BY <1>1, <1>2, <1>3

RowType == [state : {"pending", "published", "purged"}, attempts : 0 .. MaxAttempts,
            wait : 0 .. BackoffCap, age : 0 .. Retention + 1]

\* Timers leave what a row says alone, and stay in their ranges.
LEMMA AgedKeepsRow ==
    ASSUME NEW r \in RowType
    PROVE  Aged(r) \in RowType /\ Aged(r).state = r.state /\ Aged(r).attempts = r.attempts
<1> DEFINE w == IF r.wait > 0 THEN r.wait - 1 ELSE 0
           a == IF r.state = "published" /\ r.age <= Retention THEN r.age + 1 ELSE r.age
<1>1. w \in 0 .. BackoffCap
    BY RelayAssumption DEF RowType, RelayAssumption
<1>2. a \in 0 .. Retention + 1
    BY RelayAssumption DEF RowType, RelayAssumption
<1>3. Aged(r) = [r EXCEPT !.wait = w, !.age = a]
    BY DEF Aged
<1> HIDE DEF w, a
<1> QED BY <1>1, <1>2, <1>3 DEF RowType

\* Tick changes timers only.
LEMMA TickKeepsRows ==
    ASSUME TypeOK, Tick
    PROVE  /\ rows' \in [Events -> RowType]
           /\ \A e \in Events : rows'[e].state = rows[e].state /\ rows'[e].attempts = rows[e].attempts
<1>1. \A e \in Events : rows[e] \in RowType
    BY DEF TypeOK, RowType
<1>2. rows' = [e \in Events |-> Aged(rows[e])]
    BY DEF Tick
<1> QED BY <1>1, <1>2, AgedKeepsRow

\* Every step keeps the variables in their domains.
LEMMA TypeStep == Inv /\ [Next]_vars => TypeOK'
<1> SUFFICES ASSUME Inv, [Next]_vars PROVE TypeOK'
    OBVIOUS
<1> USE NoEventIsNoEvent, OutboxBoundAssumption DEF Inv, TypeOK
<1>1. CASE Tick
    BY <1>1, TickKeepsRows DEF Tick, RowType
<1>2. ASSUME NEW e \in Events, Publish(e) PROVE TypeOK'
    BY <1>2 DEF Publish
<1>3. ASSUME NEW e \in Events, NEW outcome \in {"committed", "aborted"}, EndTx(e, outcome)
      PROVE TypeOK'
    BY <1>3 DEF EndTx
<1>4. ASSUME NEW s \in Servers, NEW e \in Events, ClaimPending(s, e)
      PROVE TypeOK'
    BY <1>4 DEF ClaimPending, Claimable, Visible, Locked
<1>5. ASSUME NEW s \in Servers, PublishPayload(s) PROVE TypeOK'
    <2>1. relay[s].ev \in Events
        BY <1>5 DEF PublishPayload, LocksHold
    <2>2. sent' \in [Events -> Nat]
        BY <1>5, <2>1 DEF PublishPayload
    <2>3. buffer' \in [Servers -> SUBSET Events]
        BY <1>5, <2>1 DEF PublishPayload
    <2>4. relay' \in [Servers -> [pc : {"idle", "claimed", "published", "refused"}, ev : Events \cup {NoEvent}]]
        BY <1>5 DEF PublishPayload
    <2> QED BY <1>5, <2>2, <2>3, <2>4 DEF PublishPayload
<1>6. ASSUME NEW s \in Servers, PublishFails(s) PROVE TypeOK'
    BY <1>6 DEF PublishFails, Fault
<1>7. ASSUME NEW s \in Servers, MarkPublished(s) PROVE TypeOK'
    <2>1. rows' \in [Events -> RowType]
        BY <1>7 DEF MarkPublished, LocksHold, RowType
    <2> QED BY <1>7, <2>1 DEF MarkPublished, Idle, RowType
<1>8. ASSUME NEW s \in Servers, RecordFailure(s) PROVE TypeOK'
    <2>1. PICK e \in Events : relay[s].ev = e /\ rows[e].attempts < MaxAttempts /\ rows[e] \in RowType
        BY <1>8 DEF RecordFailure, LocksHold, RowType
    <2> DEFINE n == rows[e].attempts + 1
               w == Backoff(rows[e].attempts)
    <2>2. n \in 0 .. MaxAttempts
        BY <2>1, RelayAssumption DEF RowType, RelayAssumption
    <2>3. w \in 0 .. BackoffCap
        BY <2>1, BackoffIsCapped DEF RowType
    <2>4. rows' = [rows EXCEPT ![e] = [rows[e] EXCEPT !.attempts = n, !.wait = w]]
        BY <1>8, <2>1 DEF RecordFailure
    <2> HIDE DEF n, w
    <2>5. rows' \in [Events -> RowType]
        BY <2>1, <2>2, <2>3, <2>4 DEF RowType
    <2> QED BY <1>8, <2>5 DEF RecordFailure, Idle, RowType
<1>9. ASSUME NEW s \in Servers, RelayRollsBack(s) PROVE TypeOK'
    BY <1>9 DEF RelayRollsBack, Fault, Idle
<1>10. ASSUME NEW s \in Servers, PurgePublished(s) PROVE TypeOK'
    <2>1. rows' \in [Events -> RowType]
        BY <1>10 DEF PurgePublished, RowType
    <2> QED BY <1>10, <2>1 DEF PurgePublished, RowType
<1>11. ASSUME NEW s \in Servers, Flush(s) PROVE TypeOK'
    BY <1>11 DEF Flush
<1>12. ASSUME NEW s \in Servers, Boot(s) PROVE TypeOK'
    BY <1>12 DEF Boot
<1>13. ASSUME NEW s \in Servers, NewReturns(s) PROVE TypeOK'
    BY <1>13 DEF NewReturns, Fault, Drained
<1>14. ASSUME NEW s \in Servers, Shutdown(s) PROVE TypeOK'
    BY <1>14 DEF Shutdown, Fault
<1>15. ASSUME NEW s \in Servers, Crash(s) PROVE TypeOK'
    BY <1>15 DEF Crash, Fault, Idle
<1>16. CASE UNCHANGED vars
    BY <1>16 DEF vars
<1> HIDE DEF Inv, TypeOK
<1> QED
    BY <1>1, <1>2, <1>3, <1>4, <1>5, <1>6, <1>7, <1>8, <1>9, <1>10, <1>11, <1>12, <1>13, <1>14, <1>15, <1>16
       DEF Next, WriterNext, RelayNext, LifeNext

\* Every step keeps the locks exclusive and what they protect unpublished.
LEMMA LocksStep == Inv /\ [Next]_vars => LocksHold'
<1> SUFFICES ASSUME Inv, [Next]_vars PROVE LocksHold'
    OBVIOUS
<1> USE NoEventIsNoEvent, OutboxBoundAssumption DEF Inv, TypeOK, LocksHold
<1>1. CASE Tick
    BY <1>1, TickKeepsRows DEF Tick
<1>2. ASSUME NEW e \in Events, Publish(e) PROVE LocksHold'
    BY <1>2 DEF Publish
<1>3. ASSUME NEW e \in Events, NEW outcome \in {"committed", "aborted"}, EndTx(e, outcome)
      PROVE LocksHold'
    BY <1>3 DEF EndTx
<1>4. ASSUME NEW s \in Servers, NEW e \in Events, ClaimPending(s, e)
      PROVE LocksHold'
    BY <1>4 DEF ClaimPending, Claimable, Visible, Locked
<1>5. ASSUME NEW s \in Servers, PublishPayload(s) PROVE LocksHold'
    BY <1>5 DEF PublishPayload
<1>6. ASSUME NEW s \in Servers, PublishFails(s) PROVE LocksHold'
    BY <1>6 DEF PublishFails, Fault
<1>7. ASSUME NEW s \in Servers, MarkPublished(s) PROVE LocksHold'
    BY <1>7 DEF MarkPublished, Idle
<1>8. ASSUME NEW s \in Servers, RecordFailure(s) PROVE LocksHold'
    BY <1>8 DEF RecordFailure, Idle
<1>9. ASSUME NEW s \in Servers, RelayRollsBack(s) PROVE LocksHold'
    BY <1>9 DEF RelayRollsBack, Fault, Idle
<1>10. ASSUME NEW s \in Servers, PurgePublished(s) PROVE LocksHold'
    BY <1>10 DEF PurgePublished, Purgeable, Visible
<1>11. ASSUME NEW s \in Servers, Flush(s) PROVE LocksHold'
    BY <1>11 DEF Flush
<1>12. ASSUME NEW s \in Servers, Boot(s) PROVE LocksHold'
    BY <1>12 DEF Boot
<1>13. ASSUME NEW s \in Servers, NewReturns(s) PROVE LocksHold'
    BY <1>13 DEF NewReturns, Fault, Drained
<1>14. ASSUME NEW s \in Servers, Shutdown(s) PROVE LocksHold'
    BY <1>14 DEF Shutdown, Fault
<1>15. ASSUME NEW s \in Servers, Crash(s) PROVE LocksHold'
    BY <1>15 DEF Crash, Fault, Idle
<1>16. CASE UNCHANGED vars
    BY <1>16 DEF vars
<1> HIDE DEF Inv, TypeOK, LocksHold
<1> QED
    BY <1>1, <1>2, <1>3, <1>4, <1>5, <1>6, <1>7, <1>8, <1>9, <1>10, <1>11, <1>12, <1>13, <1>14, <1>15, <1>16
       DEF Next, WriterNext, RelayNext, LifeNext

\* Every step leaves the rows nobody committed alone.
LEMMA UncommittedStep == Inv /\ [Next]_vars => UncommittedIsNew'
<1> SUFFICES ASSUME Inv, [Next]_vars PROVE UncommittedIsNew'
    OBVIOUS
<1> USE NoEventIsNoEvent, OutboxBoundAssumption DEF Inv, TypeOK, LocksHold, UncommittedIsNew
<1>1. CASE Tick
    BY <1>1, TickKeepsRows DEF Tick
<1>2. ASSUME NEW e \in Events, Publish(e) PROVE UncommittedIsNew'
    BY <1>2 DEF Publish
<1>3. ASSUME NEW e \in Events, NEW outcome \in {"committed", "aborted"}, EndTx(e, outcome)
      PROVE UncommittedIsNew'
    BY <1>3 DEF EndTx
<1>4. ASSUME NEW s \in Servers, NEW e \in Events, ClaimPending(s, e)
      PROVE UncommittedIsNew'
    BY <1>4 DEF ClaimPending, Claimable, Visible, Locked
<1>5. ASSUME NEW s \in Servers, PublishPayload(s) PROVE UncommittedIsNew'
    BY <1>5 DEF PublishPayload
<1>6. ASSUME NEW s \in Servers, PublishFails(s) PROVE UncommittedIsNew'
    BY <1>6 DEF PublishFails, Fault
<1>7. ASSUME NEW s \in Servers, MarkPublished(s) PROVE UncommittedIsNew'
    BY <1>7 DEF MarkPublished, Idle
<1>8. ASSUME NEW s \in Servers, RecordFailure(s) PROVE UncommittedIsNew'
    BY <1>8 DEF RecordFailure, Idle
<1>9. ASSUME NEW s \in Servers, RelayRollsBack(s) PROVE UncommittedIsNew'
    BY <1>9 DEF RelayRollsBack, Fault, Idle
<1>10. ASSUME NEW s \in Servers, PurgePublished(s) PROVE UncommittedIsNew'
    BY <1>10 DEF PurgePublished, Purgeable, Visible
<1>11. ASSUME NEW s \in Servers, Flush(s) PROVE UncommittedIsNew'
    BY <1>11 DEF Flush
<1>12. ASSUME NEW s \in Servers, Boot(s) PROVE UncommittedIsNew'
    BY <1>12 DEF Boot
<1>13. ASSUME NEW s \in Servers, NewReturns(s) PROVE UncommittedIsNew'
    BY <1>13 DEF NewReturns, Fault, Drained
<1>14. ASSUME NEW s \in Servers, Shutdown(s) PROVE UncommittedIsNew'
    BY <1>14 DEF Shutdown, Fault
<1>15. ASSUME NEW s \in Servers, Crash(s) PROVE UncommittedIsNew'
    BY <1>15 DEF Crash, Fault, Idle
<1>16. CASE UNCHANGED vars
    BY <1>16 DEF vars
<1> HIDE DEF Inv, TypeOK, LocksHold, UncommittedIsNew
<1> QED
    BY <1>1, <1>2, <1>3, <1>4, <1>5, <1>6, <1>7, <1>8, <1>9, <1>10, <1>11, <1>12, <1>13, <1>14, <1>15, <1>16
       DEF Next, WriterNext, RelayNext, LifeNext

\* Only what was sent is marked.
LEMMA MarkedStep == Inv /\ [Next]_vars => MarkedWasSent'
<1> SUFFICES ASSUME Inv, [Next]_vars PROVE MarkedWasSent'
    OBVIOUS
<1> USE NoEventIsNoEvent, OutboxBoundAssumption DEF Inv, TypeOK, LocksHold, MarkedWasSent
<1>1. CASE Tick
    BY <1>1, TickKeepsRows DEF Tick
<1>2. ASSUME NEW e \in Events, Publish(e) PROVE MarkedWasSent'
    BY <1>2 DEF Publish
<1>3. ASSUME NEW e \in Events, NEW outcome \in {"committed", "aborted"}, EndTx(e, outcome)
      PROVE MarkedWasSent'
    BY <1>3 DEF EndTx
<1>4. ASSUME NEW s \in Servers, NEW e \in Events, ClaimPending(s, e)
      PROVE MarkedWasSent'
    BY <1>4 DEF ClaimPending, Claimable, Visible, Locked
<1>5. ASSUME NEW s \in Servers, PublishPayload(s) PROVE MarkedWasSent'
    BY <1>5 DEF PublishPayload
<1>6. ASSUME NEW s \in Servers, PublishFails(s) PROVE MarkedWasSent'
    BY <1>6 DEF PublishFails, Fault
<1>7. ASSUME NEW s \in Servers, MarkPublished(s) PROVE MarkedWasSent'
    BY <1>7 DEF MarkPublished, Idle
<1>8. ASSUME NEW s \in Servers, RecordFailure(s) PROVE MarkedWasSent'
    BY <1>8 DEF RecordFailure, Idle
<1>9. ASSUME NEW s \in Servers, RelayRollsBack(s) PROVE MarkedWasSent'
    BY <1>9 DEF RelayRollsBack, Fault, Idle
<1>10. ASSUME NEW s \in Servers, PurgePublished(s) PROVE MarkedWasSent'
    BY <1>10 DEF PurgePublished, Purgeable, Visible
<1>11. ASSUME NEW s \in Servers, Flush(s) PROVE MarkedWasSent'
    BY <1>11 DEF Flush
<1>12. ASSUME NEW s \in Servers, Boot(s) PROVE MarkedWasSent'
    BY <1>12 DEF Boot
<1>13. ASSUME NEW s \in Servers, NewReturns(s) PROVE MarkedWasSent'
    BY <1>13 DEF NewReturns, Fault, Drained
<1>14. ASSUME NEW s \in Servers, Shutdown(s) PROVE MarkedWasSent'
    BY <1>14 DEF Shutdown, Fault
<1>15. ASSUME NEW s \in Servers, Crash(s) PROVE MarkedWasSent'
    BY <1>15 DEF Crash, Fault, Idle
<1>16. CASE UNCHANGED vars
    BY <1>16 DEF vars
<1> HIDE DEF Inv, TypeOK, LocksHold, MarkedWasSent
<1> QED
    BY <1>1, <1>2, <1>3, <1>4, <1>5, <1>6, <1>7, <1>8, <1>9, <1>10, <1>11, <1>12, <1>13, <1>14, <1>15, <1>16
       DEF Next, WriterNext, RelayNext, LifeNext

\* A second send needs a fault.
LEMMA SentStep == Inv /\ [Next]_vars => SentPerFault'
<1> SUFFICES ASSUME Inv, [Next]_vars PROVE SentPerFault'
    OBVIOUS
<1> USE NoEventIsNoEvent, OutboxBoundAssumption DEF Inv, TypeOK, LocksHold, SentPerFault, BeingMarked
<1>1. CASE Tick
    BY <1>1, TickKeepsRows DEF Tick
<1>2. ASSUME NEW e \in Events, Publish(e) PROVE SentPerFault'
    BY <1>2 DEF Publish
<1>3. ASSUME NEW e \in Events, NEW outcome \in {"committed", "aborted"}, EndTx(e, outcome)
      PROVE SentPerFault'
    BY <1>3 DEF EndTx
<1>4. ASSUME NEW s \in Servers, NEW e \in Events, ClaimPending(s, e)
      PROVE SentPerFault'
    BY <1>4 DEF ClaimPending, Claimable, Visible, Locked
<1>5. ASSUME NEW s \in Servers, PublishPayload(s) PROVE SentPerFault'
    BY <1>5 DEF PublishPayload
<1>6. ASSUME NEW s \in Servers, PublishFails(s) PROVE SentPerFault'
    BY <1>6 DEF PublishFails, Fault
<1>7. ASSUME NEW s \in Servers, MarkPublished(s) PROVE SentPerFault'
    BY <1>7 DEF MarkPublished, Idle
<1>8. ASSUME NEW s \in Servers, RecordFailure(s) PROVE SentPerFault'
    BY <1>8 DEF RecordFailure, Idle
<1>9. ASSUME NEW s \in Servers, RelayRollsBack(s) PROVE SentPerFault'
    BY <1>9 DEF RelayRollsBack, Fault, Idle
<1>10. ASSUME NEW s \in Servers, PurgePublished(s) PROVE SentPerFault'
    BY <1>10 DEF PurgePublished, Purgeable, Visible
<1>11. ASSUME NEW s \in Servers, Flush(s) PROVE SentPerFault'
    BY <1>11 DEF Flush
<1>12. ASSUME NEW s \in Servers, Boot(s) PROVE SentPerFault'
    BY <1>12 DEF Boot
<1>13. ASSUME NEW s \in Servers, NewReturns(s) PROVE SentPerFault'
    BY <1>13 DEF NewReturns, Fault, Drained
<1>14. ASSUME NEW s \in Servers, Shutdown(s) PROVE SentPerFault'
    BY <1>14 DEF Shutdown, Fault
<1>15. ASSUME NEW s \in Servers, Crash(s) PROVE SentPerFault'
    BY <1>15 DEF Crash, Fault, Idle
<1>16. CASE UNCHANGED vars
    BY <1>16 DEF vars
<1> HIDE DEF Inv, TypeOK, LocksHold, SentPerFault
<1> QED
    BY <1>1, <1>2, <1>3, <1>4, <1>5, <1>6, <1>7, <1>8, <1>9, <1>10, <1>11, <1>12, <1>13, <1>14, <1>15, <1>16
       DEF Next, WriterNext, RelayNext, LifeNext

\* Without a fault nothing that was sent is lost.
LEMMA SomewhereStep == Inv /\ [Next]_vars => SentIsSomewhere'
<1> SUFFICES ASSUME Inv, [Next]_vars PROVE SentIsSomewhere'
    OBVIOUS
<1> USE NoEventIsNoEvent, OutboxBoundAssumption DEF Inv, TypeOK, LocksHold, SentIsSomewhere
<1>1. CASE Tick
    BY <1>1, TickKeepsRows DEF Tick
<1>2. ASSUME NEW e \in Events, Publish(e) PROVE SentIsSomewhere'
    BY <1>2 DEF Publish
<1>3. ASSUME NEW e \in Events, NEW outcome \in {"committed", "aborted"}, EndTx(e, outcome)
      PROVE SentIsSomewhere'
    BY <1>3 DEF EndTx
<1>4. ASSUME NEW s \in Servers, NEW e \in Events, ClaimPending(s, e)
      PROVE SentIsSomewhere'
    BY <1>4 DEF ClaimPending, Claimable, Visible, Locked
<1>5. ASSUME NEW s \in Servers, PublishPayload(s) PROVE SentIsSomewhere'
    BY <1>5 DEF PublishPayload
<1>6. ASSUME NEW s \in Servers, PublishFails(s) PROVE SentIsSomewhere'
    BY <1>6 DEF PublishFails, Fault
<1>7. ASSUME NEW s \in Servers, MarkPublished(s) PROVE SentIsSomewhere'
    BY <1>7 DEF MarkPublished, Idle
<1>8. ASSUME NEW s \in Servers, RecordFailure(s) PROVE SentIsSomewhere'
    BY <1>8 DEF RecordFailure, Idle
<1>9. ASSUME NEW s \in Servers, RelayRollsBack(s) PROVE SentIsSomewhere'
    BY <1>9 DEF RelayRollsBack, Fault, Idle
<1>10. ASSUME NEW s \in Servers, PurgePublished(s) PROVE SentIsSomewhere'
    BY <1>10 DEF PurgePublished, Purgeable, Visible
<1>11. ASSUME NEW s \in Servers, Flush(s) PROVE SentIsSomewhere'
    BY <1>11 DEF Flush
<1>12. ASSUME NEW s \in Servers, Boot(s) PROVE SentIsSomewhere'
    BY <1>12 DEF Boot
<1>13. ASSUME NEW s \in Servers, NewReturns(s) PROVE SentIsSomewhere'
    BY <1>13 DEF NewReturns, Fault, Drained
<1>14. ASSUME NEW s \in Servers, Shutdown(s) PROVE SentIsSomewhere'
    BY <1>14 DEF Shutdown, Fault
<1>15. ASSUME NEW s \in Servers, Crash(s) PROVE SentIsSomewhere'
    BY <1>15 DEF Crash, Fault, Idle
<1>16. CASE UNCHANGED vars
    BY <1>16 DEF vars
<1> HIDE DEF Inv, TypeOK, LocksHold, SentIsSomewhere
<1> QED
    BY <1>1, <1>2, <1>3, <1>4, <1>5, <1>6, <1>7, <1>8, <1>9, <1>10, <1>11, <1>12, <1>13, <1>14, <1>15, <1>16
       DEF Next, WriterNext, RelayNext, LifeNext

----------------------------------------------------------------------------
(* The theorems.                                                           *)

LEMMA InitInv == Init => Inv
    BY NoEventIsNoEvent, RelayAssumption, OutboxBoundAssumption
    DEF Init, Inv, TypeOK, LocksHold, UncommittedIsNew, MarkedWasSent, SentPerFault, SentIsSomewhere,
        BeingMarked, Idle, NewRow, RelayAssumption, OutboxBoundAssumption

LEMMA NextInv == Inv /\ [Next]_vars => Inv'
    BY TypeStep, LocksStep, UncommittedStep, MarkedStep, SentStep, SomewhereStep DEF Inv

LEMMA Invariance == Spec => []Inv
    BY InitInv, NextInv, PTL DEF Spec

\* Every variable stays in its domain.
THEOREM OutboxTypeCorrect == Spec => []TypeOK
<1>1. Inv => TypeOK
    BY DEF Inv
<1> QED BY <1>1, Invariance, PTL

\* The relays of any number of servers never send an event whose transaction has
\* not committed: Outbox.Publish and RunInTx in one transaction.
THEOREM OnlyCommittedIsSent == Spec => []OnlyCommittedSent
<1>1. Inv => OnlyCommittedSent
    BY DEF Inv, TypeOK, UncommittedIsNew, OnlyCommittedSent
<1> QED BY <1>1, Invariance, PTL

\* An event is sent twice only if something failed: FOR UPDATE SKIP LOCKED keeps
\* the relays apart from the claim to the commit of the mark.
THEOREM DuplicatesNeedFaults == Spec => []DuplicatesAreFaults
<1>1. Inv => DuplicatesAreFaults
    BY DEF Inv, SentPerFault, DuplicatesAreFaults
<1> QED BY <1>1, Invariance, PTL

\* A row marked published was sent; while nothing has failed, the broker has the
\* event or a client is about to flush it.
THEOREM PublishedStaysOnItsWay == Spec => []PublishedIsOnItsWay
<1>1. Inv => PublishedIsOnItsWay
    BY DEF Inv, MarkedWasSent, SentIsSomewhere, PublishedIsOnItsWay
<1> QED BY <1>1, Invariance, PTL

----------------------------------------------------------------------------
(* The outbox implements the event queue.                                  *)

LEMMA QueueInit == Init => Queue!Init
    BY RelayAssumption DEF Init, Queue!Init, StatusOf, NewRow, RelayAssumption

\* A step that neither commits, sends, refuses nor marks leaves the queue alone.
LEMMA QueueStutter ==
    ASSUME \A e \in Events : StatusOf(e)' = StatusOf(e) /\ rows'[e].attempts = rows[e].attempts,
           sent' = sent
    PROVE  UNCHANGED <<[e \in Events |-> StatusOf(e)], sent, [e \in Events |-> rows[e].attempts]>>
    OBVIOUS

QueueVars == <<[e \in Events |-> StatusOf(e)], sent, [e \in Events |-> rows[e].attempts]>>

LEMMA QueueStep == Inv /\ [Next]_vars => [Queue!Next]_QueueVars
<1> SUFFICES ASSUME Inv, [Next]_vars PROVE [Queue!Next]_QueueVars
    OBVIOUS
<1> USE NoEventIsNoEvent DEF Inv
<1>1. CASE Tick
    BY <1>1, TickKeepsRows, QueueStutter DEF Tick, StatusOf, QueueVars
<1>2. ASSUME NEW e \in Events, Publish(e) PROVE [Queue!Next]_QueueVars
    BY <1>2, QueueStutter DEF Publish, StatusOf, QueueVars, TypeOK
<1>3. ASSUME NEW e \in Events, NEW outcome \in {"committed", "aborted"}, EndTx(e, outcome)
      PROVE [Queue!Next]_QueueVars
    <2>1. CASE outcome = "aborted"
        BY <1>3, <2>1, QueueStutter DEF EndTx, StatusOf, QueueVars, TypeOK
    <2>2. CASE outcome = "committed"
        <3>1. /\ StatusOf(e) = "absent" /\ StatusOf(e)' = "queued"
              /\ \A f \in Events \ {e} : StatusOf(f)' = StatusOf(f)
            BY <1>3, <2>2, RelayAssumption
            DEF EndTx, StatusOf, TypeOK, UncommittedIsNew, RelayAssumption
        <3>2. Queue!Enqueue(e)
            BY <1>3, <3>1 DEF EndTx, Queue!Enqueue
        <3> QED BY <3>2 DEF Queue!Next
    <2> QED BY <2>1, <2>2
<1>4. ASSUME NEW s \in Servers, NEW e \in Events, ClaimPending(s, e) PROVE [Queue!Next]_QueueVars
    BY <1>4, QueueStutter DEF ClaimPending, StatusOf, QueueVars
<1>5. ASSUME NEW s \in Servers, PublishPayload(s) PROVE [Queue!Next]_QueueVars
    <2>0. PICK e \in Events : e = relay[s].ev
        BY <1>5 DEF PublishPayload, TypeOK, LocksHold
    <2>1. e \in Events /\ StatusOf(e) = "queued"
        BY <1>5, <2>0, RelayAssumption DEF PublishPayload, TypeOK, LocksHold, StatusOf, RelayAssumption
    <2>2. \A f \in Events : StatusOf(f)' = StatusOf(f) /\ rows'[f].attempts = rows[f].attempts
        BY <1>5, <2>0 DEF PublishPayload, StatusOf
    <2>3. sent' = [sent EXCEPT ![e] = @ + 1]
        BY <1>5, <2>0 DEF PublishPayload
    <2>4. Queue!Send(e)
        BY <2>1, <2>2, <2>3 DEF Queue!Send
    <2> QED BY <2>1, <2>4 DEF Queue!Next
<1>6. ASSUME NEW s \in Servers, PublishFails(s) PROVE [Queue!Next]_QueueVars
    BY <1>6, QueueStutter DEF PublishFails, StatusOf, QueueVars
<1>7. ASSUME NEW s \in Servers, MarkPublished(s) PROVE [Queue!Next]_QueueVars
    <2>0. PICK e \in Events : e = relay[s].ev
        BY <1>7 DEF MarkPublished, TypeOK, LocksHold
    <2>1. e \in Events /\ StatusOf(e) = "queued" /\ sent[e] > 0
        BY <1>7, <2>0, RelayAssumption DEF MarkPublished, TypeOK, LocksHold, MarkedWasSent, StatusOf, RelayAssumption
    <2>2. /\ tx[e] = "committed" /\ tx' = tx /\ sent' = sent
          /\ rows' = [rows EXCEPT ![e].state = "published"]
        BY <1>7, <2>0 DEF MarkPublished, LocksHold
    <2>3. /\ rows'[e].state = "published" /\ rows'[e].attempts = rows[e].attempts
          /\ \A f \in Events \ {e} : rows'[f] = rows[f]
        BY <2>1, <2>2 DEF TypeOK
    <2>4. /\ StatusOf(e)' = "published"
          /\ \A f \in Events \ {e} : StatusOf(f)' = StatusOf(f)
          /\ \A f \in Events : rows'[f].attempts = rows[f].attempts
          /\ sent' = sent
        BY <2>1, <2>2, <2>3 DEF StatusOf
    <2>5. Queue!Publish(e)
        BY <2>1, <2>4 DEF Queue!Publish
    <2> QED BY <2>1, <2>5 DEF Queue!Next
<1>8. ASSUME NEW s \in Servers, RecordFailure(s) PROVE [Queue!Next]_QueueVars
    <2>0. PICK e \in Events : e = relay[s].ev
        BY <1>8 DEF RecordFailure, TypeOK, LocksHold
    <2>1. e \in Events /\ tx[e] = "committed" /\ rows[e].state = "pending" /\ rows[e].attempts < MaxAttempts
        BY <1>8, <2>0 DEF RecordFailure, TypeOK, LocksHold
    <2>2. /\ rows'[e].attempts = rows[e].attempts + 1 /\ rows'[e].state = "pending" /\ tx' = tx /\ sent' = sent
          /\ \A f \in Events \ {e} : rows'[f] = rows[f]
        BY <1>8, <2>0, <2>1 DEF RecordFailure, TypeOK
    <2>3. /\ StatusOf(e) = "queued"
          /\ StatusOf(e)' = IF rows[e].attempts + 1 >= MaxAttempts THEN "dropped" ELSE "queued"
          /\ \A f \in Events \ {e} : StatusOf(f)' = StatusOf(f)
        BY <2>1, <2>2, RelayAssumption DEF StatusOf, TypeOK, RelayAssumption
    <2>4. [f \in Events |-> rows'[f].attempts] = [[f \in Events |-> rows[f].attempts] EXCEPT ![e] = @ + 1]
        BY <2>1, <2>2
    <2>5. [f \in Events |-> StatusOf(f)'] =
             IF rows[e].attempts + 1 >= MaxAttempts
             THEN [[f \in Events |-> StatusOf(f)] EXCEPT ![e] = "dropped"]
             ELSE [f \in Events |-> StatusOf(f)]
        BY <2>1, <2>3
    <2>6. Queue!Refuse(e)
        BY <2>1, <2>2, <2>3, <2>4, <2>5 DEF Queue!Refuse
    <2> QED BY <2>1, <2>6 DEF Queue!Next
<1>9. ASSUME NEW s \in Servers, RelayRollsBack(s) PROVE [Queue!Next]_QueueVars
    BY <1>9, QueueStutter DEF RelayRollsBack, StatusOf, QueueVars
<1>10. ASSUME NEW s \in Servers, PurgePublished(s) PROVE [Queue!Next]_QueueVars
    <2>1. \A e \in Events : /\ rows'[e].attempts = rows[e].attempts
                            /\ rows'[e].state = "pending" <=> rows[e].state = "pending"
        BY <1>10 DEF PurgePublished, Purgeable, TypeOK
    <2> QED BY <1>10, <2>1, QueueStutter DEF PurgePublished, StatusOf, QueueVars
<1>11. ASSUME NEW s \in Servers, Flush(s) PROVE [Queue!Next]_QueueVars
    BY <1>11, QueueStutter DEF Flush, StatusOf, QueueVars
<1>12. ASSUME NEW s \in Servers, Boot(s) PROVE [Queue!Next]_QueueVars
    BY <1>12, QueueStutter DEF Boot, StatusOf, QueueVars
<1>13. ASSUME NEW s \in Servers, NewReturns(s) PROVE [Queue!Next]_QueueVars
    BY <1>13, QueueStutter DEF NewReturns, StatusOf, QueueVars
<1>14. ASSUME NEW s \in Servers, Shutdown(s) PROVE [Queue!Next]_QueueVars
    BY <1>14, QueueStutter DEF Shutdown, StatusOf, QueueVars
<1>15. ASSUME NEW s \in Servers, Crash(s) PROVE [Queue!Next]_QueueVars
    BY <1>15, QueueStutter DEF Crash, StatusOf, QueueVars
<1>16. CASE UNCHANGED vars
    BY <1>16, QueueStutter DEF vars, StatusOf, QueueVars
<1> HIDE DEF Inv, QueueVars
<1> QED
    BY <1>1, <1>2, <1>3, <1>4, <1>5, <1>6, <1>7, <1>8, <1>9, <1>10, <1>11, <1>12, <1>13, <1>14, <1>15, <1>16
       DEF Next, WriterNext, RelayNext, LifeNext

\* The relays, for any number of servers, restarts and refusals, implement the
\* event queue: committed, sent at least once, then published, or given up after
\* exactly MaxAttempts refusals.
THEOREM ImplementsQueue == Spec => QueueSpec
    BY QueueInit, QueueStep, Invariance, PTL DEF Spec, QueueSpec, Queue!Spec, QueueVars

=============================================================================
