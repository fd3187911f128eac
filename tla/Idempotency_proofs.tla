------------------------ MODULE Idempotency_proofs ------------------------
(***************************************************************************)
(* Proofs about Idempotency, for any requests, any bodies and any number   *)
(* of faults of any of the kinds.                                          *)
(***************************************************************************)
EXTENDS Idempotency, SequenceTheorems, TLAPS

----------------------------------------------------------------------------
(* The inductive invariant.                                                *)

\* A request has a run exactly while it is between claim and answer, and the run is
\* its own: no two requests have the same.  What is about to be abandoned failed.
ClaimsAreOwn ==
    \A r \in Requests :
        /\ Running(r) <=> run[r] # NoRun
        /\ run[r] # NoRun => runs[run[r]] = r
        /\ pc[r] = "abandon" => run[r] \in broken

\* The key's row is of the last run that was started; what it says is what that
\* run's request came with, and its expiry is on record.
RowIsOfLastRun ==
    row # NoRow =>
        /\ row.token = Len(runs)
        /\ row.body = Body[runs[row.token]]
        /\ row.state = "completed" => row.answer = row.token
        /\ row.expired /\ row.state = "pending" => row.token \in lapsed
        /\ row.expired /\ row.state = "completed" => row.token \in forgotten

\* A request between claim and answer holds the lock, unless it has outrun it.
HasLock(r) == row # NoRow /\ row.state = "pending" /\ row.token = run[r] /\ ~row.expired
HeldOrLapsed == \A r \in Requests : Running(r) => run[r] \in lapsed \/ HasLock(r)

\* What took effect is of a run that was cut short or that the row is of.
EffectsAccounted == \A a \in effects : a \in Cut \/ (row # NoRow /\ row.token = a)

\* An answer that was given is the one that is stored, unless it was cut short.
Stored(a) == row # NoRow /\ row.state = "completed" /\ row.token = a
Accounted(r, a) ==
    /\ reply[r].kind = "original" => a \in Cut \/ Stored(a)
    /\ reply[r].kind = "replayed" => /\ a \in Runs /\ Body[runs[a]] = Body[r]
                                     /\ a \in forgotten \/ Stored(a)
RepliesAccounted == \A r \in Requests : Accounted(r, reply[r].of)

Inv == /\ TypeOK /\ ClaimsAreOwn /\ RowIsOfLastRun /\ HeldOrLapsed
       /\ EffectsAccounted /\ RepliesAccounted

----------------------------------------------------------------------------
(* The steps.                                                              *)

\* A row is there exactly if its state is not that of none.
LEMMA RowOrNone ==
    ASSUME TypeOK
    PROVE  /\ row = NoRow <=> row.state = "none"
           /\ row # NoRow => row \in Row
    BY DEF TypeOK, Row, NoRow

\* What a row's fields are.
LEMMA RowFields ==
    ASSUME TypeOK, row # NoRow
    PROVE  /\ row.state \in {"pending", "completed"} /\ row.token \in Runs
           /\ row.answer \in Runs \cup {NoRun} /\ row.expired \in BOOLEAN
    BY RowOrNone DEF Row

\* A request between claim and answer has a run.
LEMMA RunningHasRun ==
    ASSUME Inv, NEW r \in Requests, Running(r)
    PROVE  run[r] \in Runs /\ run[r] # NoRun
    BY DEF Inv, TypeOK, ClaimsAreOwn, Running

\* An answer is stored in the request's own row, or not at all.
LEMMA StoresOwnAnswer ==
    ASSUME Inv, NEW r \in Requests, Running(r), StoreAnswer(r), UNCHANGED runs
    PROVE  /\ row' \in Row \cup {NoRow}
           /\ row = NoRow <=> row' = NoRow
           /\ \/ row' = row /\ ~Owns(r)
              \/ /\ Owns(r) /\ row # NoRow
                 /\ row'.state = "completed" /\ row'.token = row.token /\ row'.token = run[r]
                 /\ row'.body = row.body /\ row'.answer = run[r] /\ row'.expired = FALSE
<1>1. run[r] \in Runs
    BY RunningHasRun
<1>2. row # NoRow => row \in Row
    BY RowOrNone DEF Inv
<1>3. CASE Owns(r)
    <2>1. row # NoRow
        BY <1>3 DEF Owns, NoRow
    <2>2. row \in Row
        BY <2>1, <1>2
    <2>3. row' = [row EXCEPT !.state = "completed", !.answer = run[r], !.expired = FALSE]
        BY <1>3 DEF StoreAnswer
    <2>4. row' \in Row
        BY <2>2, <2>3, <1>1 DEF Row
    <2>5. row' # NoRow
        BY <2>4 DEF Row, NoRow
    <2> QED BY <1>3, <2>1, <2>2, <2>3, <2>4, <2>5 DEF Row, Owns
<1>4. CASE ~Owns(r)
    BY <1>2, <1>4 DEF StoreAnswer, Inv, TypeOK
<1> QED BY <1>3, <1>4

\* What becomes of a request that could not claim the key.
LEMMA Classified ==
    ASSUME Inv, NEW r \in Requests, Classify(r)
    PROVE  /\ UNCHANGED <<row, runs, run, effects, lapsed, broken, forgotten, faults>>
           /\ pc[r] = "select"
           /\ \/ pc' = [pc EXCEPT ![r] = "ready"] /\ UNCHANGED reply
              \/ /\ pc' = [pc EXCEPT ![r] = "answered"] /\ row # NoRow /\ row.state = "completed"
                 /\ reply' = [reply EXCEPT ![r] = [kind |-> "conflict", of |-> NoRun]]
              \/ /\ pc' = [pc EXCEPT ![r] = "answered"] /\ row # NoRow /\ row.state = "completed"
                 /\ row.body = Body[r]
                 /\ reply' = [reply EXCEPT ![r] = [kind |-> "replayed", of |-> row.answer]]
<1>1. row # NoRow => row.state \in {"pending", "completed"}
    BY RowFields DEF Inv
<1>2. row = NoRow <=> row.state = "none"
    BY RowOrNone DEF Inv
<1>3. row.state \in {"none", "pending", "completed"}
    BY <1>1, <1>2
<1>4. CASE row.state = "none"
    BY <1>4 DEF Classify, Vanished, Goto, history
<1>5. CASE row.state = "pending"
    BY <1>5 DEF Classify, Goto, history
<1>6. CASE row.state = "completed"
    BY <1>2, <1>6 DEF Classify, Mismatch, Replied, Goto, history
<1> QED BY <1>3, <1>4, <1>5, <1>6

LEMMA SweepKeepsInv ==
    ASSUME Inv, NEW r \in Requests, Sweep(r)
    PROVE  Inv'
<1>1. /\ row # NoRow => row \in Row
      /\ row # NoRow => row.state \in {"pending", "completed"} /\ row.token \in Runs
    BY RowOrNone, RowFields DEF Inv
<1>0. row' = row \/ (row' = NoRow /\ row # NoRow /\ row.expired)
    BY DEF Sweep, Sweepable
<1>9. row # NoRow /\ row.expired =>
         (row.token \in Cut /\ (row.state = "completed" => row.token \in forgotten))
    BY <1>1 DEF Inv, RowIsOfLastRun, Cut
<1>10. UNCHANGED <<runs, run, reply, effects, lapsed, broken, forgotten>>
    BY DEF Sweep, history
<1>2. TypeOK'
    BY <1>1 DEF Inv, TypeOK, Row, Reply, Sweep, Sweepable, Goto, history, NoRun, NoRow, Runs
<1>3. ClaimsAreOwn'
    BY <1>1 DEF Inv, TypeOK, ClaimsAreOwn, Running, Sweep, Sweepable, Goto, history, NoRun, NoRow, Runs
<1>4. RowIsOfLastRun'
    BY <1>1 DEF Inv, TypeOK, RowIsOfLastRun, Row, Sweep, Sweepable, Goto, history, NoRun, NoRow, Runs
<1>5. HeldOrLapsed'
    BY <1>1 DEF Inv, TypeOK, HeldOrLapsed, HasLock, Running, Row, Sweep, Sweepable, Goto, history, NoRun, NoRow, Runs
<1>6. EffectsAccounted'
    BY <1>0, <1>9, <1>10 DEF Inv, EffectsAccounted, Cut, NoRow
<1>7. RepliesAccounted'
    <2>3. forgotten \subseteq Cut
        BY DEF Cut
    <2>4. ASSUME NEW q \in Requests
          PROVE  Accounted(q, reply[q].of)'
        <3> DEFINE a == reply[q].of
        <3>1. /\ reply[q].kind = "original" => a \in Cut \/ Stored(a)
              /\ reply[q].kind = "replayed" => /\ a \in Runs /\ Body[runs[a]] = Body[q]
                                               /\ a \in forgotten \/ Stored(a)
            BY DEF Inv, RepliesAccounted, Accounted
        <3>2. Stored(a) => a \in forgotten \/ (row' # NoRow /\ row'.state = "completed" /\ row'.token = a)
            BY <1>0, <1>9 DEF Stored
        <3>3. /\ reply' = reply /\ runs' = runs /\ forgotten' = forgotten /\ Runs' = Runs
              /\ Cut' = Cut
            BY <1>10 DEF Runs, Cut
        <3>4. Stored(reply[q].of)' <=> (row' # NoRow /\ row'.state = "completed" /\ row'.token = a)
            BY <3>3 DEF Stored
        <3> QED BY <2>3, <3>1, <3>2, <3>3, <3>4 DEF Accounted
    <2> QED BY <2>4 DEF RepliesAccounted
<1> QED BY <1>2, <1>3, <1>4, <1>5, <1>6, <1>7 DEF Inv

LEMMA InsertKeepsInv ==
    ASSUME Inv, NEW r \in Requests, Insert(r)
    PROVE  Inv'
<1>1. /\ row # NoRow => row \in Row
      /\ row # NoRow => row.state \in {"pending", "completed"} /\ row.token \in Runs
    BY RowOrNone, RowFields DEF Inv
<1>2. TypeOK'
    <2>1. CASE row = NoRow
        <3>1. /\ runs' = Append(runs, r) /\ run' = [run EXCEPT ![r] = Len(runs) + 1]
              /\ pc' = [pc EXCEPT ![r] = "handle"]
              /\ row' = [state |-> "pending", body |-> Body[r], token |-> Len(runs) + 1,
                         answer |-> NoRun, expired |-> FALSE]
              /\ UNCHANGED <<reply, effects, lapsed, broken, forgotten, faults>>
            BY <2>1 DEF Insert, StartRun, Goto, history
        <3>2. runs' \in Seq(Requests) /\ Len(runs') = Len(runs) + 1 /\ Len(runs) \in Nat
            BY <3>1 DEF Inv, TypeOK
        <3>3. Runs \subseteq Runs' /\ Len(runs) + 1 \in Runs'
            BY <3>2 DEF Runs
        <3>4. row' \in Row'
            BY <3>1, <3>3 DEF Row, NoRun
        <3>5. run' \in [Requests -> Runs' \cup {NoRun}]
            BY <3>1, <3>3 DEF Inv, TypeOK
        <3>6. reply' \in [Requests -> Reply']
            BY <3>1, <3>3 DEF Inv, TypeOK, Reply
        <3> QED BY <3>1, <3>2, <3>3, <3>4, <3>5, <3>6 DEF Inv, TypeOK
    <2>2. CASE row # NoRow
        BY <2>2 DEF Inv, TypeOK, Row, Reply, Insert, Goto, history, Runs
    <2> QED BY <2>1, <2>2
<1>3. ClaimsAreOwn'
    BY <1>1 DEF Inv, TypeOK, ClaimsAreOwn, Running, Insert, StartRun, Goto, history, NoRun, NoRow, Runs
<1>4. RowIsOfLastRun'
    BY <1>1 DEF Inv, TypeOK, RowIsOfLastRun, Row, Insert, StartRun, Goto, history, NoRun, NoRow, Runs
<1>5. HeldOrLapsed'
    BY <1>1 DEF Inv, TypeOK, HeldOrLapsed, HasLock, Running, Row, Insert, StartRun, Goto, history, NoRun, NoRow, Runs
<1>6. EffectsAccounted'
    BY <1>1 DEF Inv, TypeOK, EffectsAccounted, Cut, Row, Insert, StartRun, Goto, history, NoRun, NoRow, Runs
<1>7. RepliesAccounted'
    BY <1>1 DEF Inv, TypeOK, RepliesAccounted, Accounted, Stored, Cut, Row, Reply, Insert, StartRun, Goto, history, NoRun, NoRow, Runs
<1> QED BY <1>2, <1>3, <1>4, <1>5, <1>6, <1>7 DEF Inv

LEMMA ClassifyKeepsInv ==
    ASSUME Inv, NEW r \in Requests, Classify(r)
    PROVE  Inv'
<1>1. /\ row # NoRow => row \in Row
      /\ row # NoRow => row.state \in {"pending", "completed"} /\ row.token \in Runs
    BY RowOrNone, RowFields DEF Inv
<1>2. TypeOK'
    <2>1. /\ UNCHANGED <<row, runs, run, effects, lapsed, broken, forgotten, faults>>
          /\ pc' \in [Requests -> {"ready", "insert", "select", "handle", "complete", "abandon", "answered"}]
        BY Classified DEF Inv, TypeOK
    <2>2. row # NoRow => row.answer \in Runs \cup {NoRun}
        BY RowFields DEF Inv
    <2>3. reply' \in [Requests -> Reply]
        BY <2>2, Classified DEF Inv, TypeOK, Reply
    <2> QED BY <2>1, <2>3 DEF Inv, TypeOK, Runs, Row, Reply
<1>3. ClaimsAreOwn'
    BY Classified, <1>1 DEF Inv, TypeOK, ClaimsAreOwn, Running, Inv, history, NoRun, NoRow, Runs
<1>4. RowIsOfLastRun'
    BY Classified, <1>1 DEF Inv, TypeOK, RowIsOfLastRun, Row, Inv, history, NoRun, NoRow, Runs
<1>5. HeldOrLapsed'
    BY Classified, <1>1 DEF Inv, TypeOK, HeldOrLapsed, HasLock, Running, Row, Inv, history, NoRun, NoRow, Runs
<1>6. EffectsAccounted'
    BY Classified, <1>1 DEF Inv, TypeOK, EffectsAccounted, Cut, Row, Inv, history, NoRun, NoRow, Runs
<1>7. RepliesAccounted'
    <2>1. UNCHANGED <<row, runs, run, effects, lapsed, broken, forgotten, faults>>
        BY Classified
    <2>2. row # NoRow /\ row.state = "completed" =>
             row.answer = row.token /\ row.body = Body[runs[row.token]]
        BY DEF Inv, RowIsOfLastRun
    <2>3. ASSUME NEW q \in Requests
          PROVE  \/ reply'[q] = reply[q]
                 \/ reply'[q] = [kind |-> "conflict", of |-> NoRun]
                 \/ /\ reply'[q] = [kind |-> "replayed", of |-> row.answer]
                    /\ row # NoRow /\ row.state = "completed" /\ row.body = Body[q]
        BY Classified DEF Inv, TypeOK
    <2>4. ASSUME NEW q \in Requests, reply'[q] = [kind |-> "replayed", of |-> row.answer],
                 row # NoRow, row.state = "completed", row.body = Body[q]
          PROVE  /\ reply'[q].kind = "replayed" /\ reply'[q].of \in Runs
                 /\ Body[runs[reply'[q].of]] = Body[q] /\ Stored(reply'[q].of)
        BY <2>4, <2>2, <1>1 DEF Stored
    <2>5. ASSUME NEW q \in Requests, reply'[q] = [kind |-> "conflict", of |-> NoRun]
          PROVE  reply'[q].kind = "conflict"
        BY <2>5
    <2> QED BY <2>1, <2>3, <2>4, <2>5 DEF Inv, RepliesAccounted, Accounted, Stored, Cut, Runs
<1> QED BY <1>2, <1>3, <1>4, <1>5, <1>6, <1>7 DEF Inv

LEMMA HandleKeepsInv ==
    ASSUME Inv, NEW r \in Requests, Handle(r)
    PROVE  Inv'
<1>1. /\ row # NoRow => row \in Row
      /\ row # NoRow => row.state \in {"pending", "completed"} /\ row.token \in Runs
      /\ run[r] \in Runs /\ run[r] # NoRun
    BY RowOrNone, RowFields, RunningHasRun DEF Inv, Running, Handle
<1>2. TypeOK'
    BY <1>1 DEF Inv, TypeOK, Row, Reply, Handle, Goto, history, NoRun, NoRow, Runs
<1>3. ClaimsAreOwn'
    BY <1>1 DEF Inv, TypeOK, ClaimsAreOwn, Running, Handle, Goto, history, NoRun, NoRow, Runs
<1>4. RowIsOfLastRun'
    BY <1>1 DEF Inv, TypeOK, RowIsOfLastRun, Row, Handle, Goto, history, NoRun, NoRow, Runs
<1>5. HeldOrLapsed'
    BY <1>1 DEF Inv, TypeOK, HeldOrLapsed, HasLock, Running, Row, Handle, Goto, history, NoRun, NoRow, Runs
<1>6. EffectsAccounted'
    <2>1. /\ effects' \in {effects, effects \cup {run[r]}}
          /\ UNCHANGED <<row, lapsed, broken, forgotten>>
        BY DEF Handle, history
    <2>2. run[r] \in lapsed \/ (row # NoRow /\ row.token = run[r])
        BY DEF Handle, Inv, HeldOrLapsed, HasLock, Running
    <2> QED BY <2>1, <2>2 DEF Inv, EffectsAccounted, Cut
<1>7. RepliesAccounted'
    BY <1>1 DEF Inv, TypeOK, RepliesAccounted, Accounted, Stored, Cut, Row, Reply, Handle, Goto, history, NoRun, NoRow, Runs
<1> QED BY <1>2, <1>3, <1>4, <1>5, <1>6, <1>7 DEF Inv

LEMMA HandlerFailsKeepsInv ==
    ASSUME Inv, NEW r \in Requests, HandlerFails(r)
    PROVE  Inv'
<1>1. /\ row # NoRow => row \in Row
      /\ row # NoRow => row.state \in {"pending", "completed"} /\ row.token \in Runs
      /\ run[r] \in Runs /\ run[r] # NoRun
    BY RowOrNone, RowFields, RunningHasRun DEF Inv, Running, HandlerFails
<1>2. TypeOK'
    <2>1. faults' \in 0 .. MaxFaults
        BY BoundAssumption DEF BoundAssumption, HandlerFails, Fault, Inv, TypeOK
    <2>2. broken' \subseteq Runs
        BY <1>1 DEF HandlerFails, Inv, TypeOK
    <2>3. effects' \subseteq Runs
        BY <1>1 DEF HandlerFails, Inv, TypeOK
    <2>4. pc' \in [Requests -> {"ready", "insert", "select", "handle", "complete", "abandon", "answered"}]
        BY DEF HandlerFails, Goto, Inv, TypeOK
    <2>5. run' \in [Requests -> Runs \cup {NoRun}] /\ reply' \in [Requests -> Reply]
        BY <1>1 DEF HandlerFails, Release, Replied, Inv, TypeOK, Reply
    <2>6. UNCHANGED <<row, runs, lapsed, forgotten>>
        BY DEF HandlerFails
    <2> QED BY <2>1, <2>2, <2>3, <2>4, <2>5, <2>6 DEF Inv, TypeOK, Runs, Row, Reply
<1>3. ClaimsAreOwn'
    BY <1>1 DEF Inv, TypeOK, ClaimsAreOwn, Running, HandlerFails, Fault, Goto, history, NoRun, NoRow, Runs
<1>4. RowIsOfLastRun'
    BY <1>1 DEF Inv, TypeOK, RowIsOfLastRun, Row, HandlerFails, Fault, Goto, history, NoRun, NoRow, Runs
<1>5. HeldOrLapsed'
    BY <1>1 DEF Inv, TypeOK, HeldOrLapsed, HasLock, Running, Row, HandlerFails, Fault, Goto, history, NoRun, NoRow, Runs
<1>6. EffectsAccounted'
    BY <1>1 DEF Inv, TypeOK, EffectsAccounted, Cut, Row, HandlerFails, Fault, Goto, history, NoRun, NoRow, Runs
<1>7. RepliesAccounted'
    BY <1>1 DEF Inv, TypeOK, RepliesAccounted, Accounted, Stored, Cut, Row, Reply, HandlerFails, Fault, Goto, history, NoRun, NoRow, Runs
<1> QED BY <1>2, <1>3, <1>4, <1>5, <1>6, <1>7 DEF Inv

LEMMA CompleteKeepsInv ==
    ASSUME Inv, NEW r \in Requests, Complete(r)
    PROVE  Inv'
<1>1. /\ row # NoRow => row \in Row
      /\ row # NoRow => row.state \in {"pending", "completed"} /\ row.token \in Runs
      /\ run[r] \in Runs /\ run[r] # NoRun
    BY RowOrNone, RowFields, RunningHasRun DEF Inv, Running, Complete
<1>0. /\ row' \in Row \cup {NoRow}
      /\ row = NoRow <=> row' = NoRow
      /\ \/ row' = row /\ ~Owns(r)
         \/ /\ Owns(r) /\ row # NoRow
            /\ row'.state = "completed" /\ row'.token = row.token /\ row'.token = run[r]
            /\ row'.body = row.body /\ row'.answer = run[r] /\ row'.expired = FALSE
    BY StoresOwnAnswer DEF Running, Complete
<1>8. \A q \in Requests : Running(q) /\ q # r => run[q] # run[r]
    BY RunningHasRun, <1>1 DEF Inv, ClaimsAreOwn, Running
<1>2. TypeOK'
    BY <1>0, <1>1 DEF Inv, TypeOK, Row, Reply, Complete, Owns, Replied, Release, Goto, history, NoRun, NoRow, Runs
<1>3. ClaimsAreOwn'
    BY <1>0, <1>1 DEF Inv, TypeOK, ClaimsAreOwn, Running, Complete, Owns, Replied, Release, Goto, history, NoRun, NoRow, Runs
<1>4. RowIsOfLastRun'
    BY <1>0, <1>1 DEF Inv, TypeOK, RowIsOfLastRun, Row, Complete, Owns, Replied, Release, Goto, history, NoRun, NoRow, Runs
<1>5. HeldOrLapsed'
    <2>1. ASSUME NEW q \in Requests, Running(q)'
          PROVE  /\ Running(q) /\ q # r /\ run'[q] = run[q] /\ run[q] # run[r]
                 /\ run[q] \in lapsed \/ HasLock(q)
        BY <2>1, <1>8 DEF Inv, TypeOK, HeldOrLapsed, Running, Complete, Release, Goto
    <2>2. row' = row \/ row.token = run[r]
        BY <1>0 DEF Owns
    <2>3. UNCHANGED lapsed
        BY DEF Complete, history
    <2> QED BY <2>1, <2>2, <2>3 DEF HeldOrLapsed, HasLock
<1>6. EffectsAccounted'
    BY <1>0, <1>1 DEF Inv, TypeOK, EffectsAccounted, Cut, Row, Complete, Owns, Replied, Release, Goto, history, NoRun, NoRow, Runs
<1>7. RepliesAccounted'
    <2>1. UNCHANGED <<runs, lapsed, broken, forgotten>>
        BY DEF Complete, history
    <2>2. ASSUME NEW q \in Requests, q # r PROVE reply'[q] = reply[q]
        BY <2>2 DEF Complete, Replied, Inv, TypeOK
    <2>3. reply'[r].kind = "original" /\ reply'[r].of = run[r]
        BY DEF Complete, Replied, Inv, TypeOK
    <2>4. ASSUME NEW a, Stored(a) PROVE Stored(a)'
        BY <1>0, <2>4 DEF Stored, Owns
    <2>5. run[r] \in lapsed \/ HasLock(r)
        BY DEF Inv, HeldOrLapsed, Running, Complete
    <2>6. HasLock(r) => row' # NoRow /\ row'.state = "completed" /\ row'.token = run[r]
        BY <1>0 DEF HasLock, Owns
    <2>7. (reply[r].of \in lapsed \/ Stored(reply[r].of))'
        BY <2>1, <2>3, <2>5, <2>6 DEF Stored
    <2>8. ASSUME NEW q \in Requests, q # r
          PROVE  Accounted(q, reply[q].of)'
        <3> DEFINE a == reply[q].of
        <3>1. /\ reply[q].kind = "original" => a \in Cut \/ Stored(a)
              /\ reply[q].kind = "replayed" => /\ a \in Runs /\ Body[runs[a]] = Body[q]
                                               /\ a \in forgotten \/ Stored(a)
            BY DEF Inv, RepliesAccounted, Accounted
        <3>2. Stored(a) => row' # NoRow /\ row'.state = "completed" /\ row'.token = a
            BY <1>0 DEF Stored, Owns
        <3>3. reply'[q] = reply[q] /\ runs' = runs /\ forgotten' = forgotten /\ Runs' = Runs
              /\ Cut' = Cut
            BY <2>1, <2>2, <2>8 DEF Runs, Cut
        <3>4. Stored(reply[q].of)' <=> (row' # NoRow /\ row'.state = "completed" /\ row'.token = a)
            BY <3>3 DEF Stored
        <3> QED BY <3>1, <3>2, <3>3, <3>4 DEF Accounted
    <2>9. Accounted(r, reply[r].of)'
        BY <2>3, <2>7 DEF Cut, Accounted
    <2> QED BY <2>8, <2>9 DEF RepliesAccounted
<1> QED BY <1>2, <1>3, <1>4, <1>5, <1>6, <1>7 DEF Inv

LEMMA AnswerLostKeepsInv ==
    ASSUME Inv, NEW r \in Requests, AnswerLost(r)
    PROVE  Inv'
<1>1. /\ row # NoRow => row \in Row
      /\ row # NoRow => row.state \in {"pending", "completed"} /\ row.token \in Runs
      /\ run[r] \in Runs /\ run[r] # NoRun
    BY RowOrNone, RowFields, RunningHasRun DEF Inv, Running, AnswerLost
<1>0. /\ row' \in Row \cup {NoRow}
      /\ row = NoRow <=> row' = NoRow
      /\ \/ row' = row /\ ~Owns(r)
         \/ /\ Owns(r) /\ row # NoRow
            /\ row'.state = "completed" /\ row'.token = row.token /\ row'.token = run[r]
            /\ row'.body = row.body /\ row'.answer = run[r] /\ row'.expired = FALSE
    BY StoresOwnAnswer DEF Running, AnswerLost
<1>8. \A q \in Requests : Running(q) /\ q # r => run[q] # run[r]
    BY RunningHasRun, <1>1 DEF Inv, ClaimsAreOwn, Running
<1>2. TypeOK'
    BY <1>0, BoundAssumption, <1>1 DEF Inv, TypeOK, Row, Reply, AnswerLost, Owns, Fault, Release, Goto, history, NoRun, NoRow, Runs, BoundAssumption
<1>3. ClaimsAreOwn'
    BY <1>0, <1>1 DEF Inv, TypeOK, ClaimsAreOwn, Running, AnswerLost, Owns, Fault, Release, Goto, history, NoRun, NoRow, Runs
<1>4. RowIsOfLastRun'
    BY <1>0, <1>1 DEF Inv, TypeOK, RowIsOfLastRun, Row, AnswerLost, Owns, Fault, Release, Goto, history, NoRun, NoRow, Runs
<1>5. HeldOrLapsed'
    <2>1. ASSUME NEW q \in Requests, Running(q)'
          PROVE  /\ Running(q) /\ q # r /\ run'[q] = run[q] /\ run[q] # run[r]
                 /\ run[q] \in lapsed \/ HasLock(q)
        BY <2>1, <1>8 DEF Inv, TypeOK, HeldOrLapsed, Running, AnswerLost, Release, Goto
    <2>2. row' = row \/ row.token = run[r]
        BY <1>0 DEF Owns
    <2>3. UNCHANGED lapsed
        BY DEF AnswerLost, history
    <2> QED BY <2>1, <2>2, <2>3 DEF HeldOrLapsed, HasLock
<1>6. EffectsAccounted'
    BY <1>0, <1>1 DEF Inv, TypeOK, EffectsAccounted, Cut, Row, AnswerLost, Owns, Fault, Release, Goto, history, NoRun, NoRow, Runs
<1>7. RepliesAccounted'
    BY <1>0, <1>1 DEF Inv, TypeOK, RepliesAccounted, Accounted, Stored, Cut, Row, Reply, AnswerLost, Owns, Fault, Release, Goto, history, NoRun, NoRow, Runs
<1> QED BY <1>2, <1>3, <1>4, <1>5, <1>6, <1>7 DEF Inv

LEMMA CompleteFailsKeepsInv ==
    ASSUME Inv, NEW r \in Requests, CompleteFails(r)
    PROVE  Inv'
<1>1. /\ row # NoRow => row \in Row
      /\ row # NoRow => row.state \in {"pending", "completed"} /\ row.token \in Runs
      /\ run[r] \in Runs /\ run[r] # NoRun
    BY RowOrNone, RowFields, RunningHasRun DEF Inv, Running, CompleteFails
<1>2. TypeOK'
    <2>1. faults' \in 0 .. MaxFaults
        BY BoundAssumption DEF BoundAssumption, CompleteFails, Fault, Inv, TypeOK
    <2>2. broken' \subseteq Runs
        BY <1>1 DEF CompleteFails, Inv, TypeOK
    <2>3. effects' \subseteq Runs
        BY <1>1 DEF CompleteFails, Inv, TypeOK
    <2>4. pc' \in [Requests -> {"ready", "insert", "select", "handle", "complete", "abandon", "answered"}]
        BY DEF CompleteFails, Goto, Inv, TypeOK
    <2>5. run' \in [Requests -> Runs \cup {NoRun}] /\ reply' \in [Requests -> Reply]
        BY <1>1 DEF CompleteFails, Release, Replied, Inv, TypeOK, Reply
    <2>6. UNCHANGED <<row, runs, lapsed, forgotten>>
        BY DEF CompleteFails
    <2> QED BY <2>1, <2>2, <2>3, <2>4, <2>5, <2>6 DEF Inv, TypeOK, Runs, Row, Reply
<1>3. ClaimsAreOwn'
    BY <1>1 DEF Inv, TypeOK, ClaimsAreOwn, Running, CompleteFails, Fault, Replied, Release, Goto, history, NoRun, NoRow, Runs
<1>4. RowIsOfLastRun'
    BY <1>1 DEF Inv, TypeOK, RowIsOfLastRun, Row, CompleteFails, Fault, Replied, Release, Goto, history, NoRun, NoRow, Runs
<1>5. HeldOrLapsed'
    BY <1>1 DEF Inv, TypeOK, HeldOrLapsed, HasLock, Running, Row, CompleteFails, Fault, Replied, Release, Goto, history, NoRun, NoRow, Runs
<1>6. EffectsAccounted'
    BY <1>1 DEF Inv, TypeOK, EffectsAccounted, Cut, Row, CompleteFails, Fault, Replied, Release, Goto, history, NoRun, NoRow, Runs
<1>7. RepliesAccounted'
    BY <1>1 DEF Inv, TypeOK, RepliesAccounted, Accounted, Stored, Cut, Row, Reply, CompleteFails, Fault, Replied, Release, Goto, history, NoRun, NoRow, Runs
<1> QED BY <1>2, <1>3, <1>4, <1>5, <1>6, <1>7 DEF Inv

LEMMA AbandonKeepsInv ==
    ASSUME Inv, NEW r \in Requests, Abandon(r)
    PROVE  Inv'
<1>1. /\ row # NoRow => row \in Row
      /\ row # NoRow => row.state \in {"pending", "completed"} /\ row.token \in Runs
      /\ run[r] \in Runs /\ run[r] # NoRun
    BY RowOrNone, RowFields, RunningHasRun DEF Inv, Running, Abandon
<1>8. \A q \in Requests : Running(q) /\ q # r => run[q] # run[r]
    BY RunningHasRun, <1>1 DEF Inv, ClaimsAreOwn, Running
<1>9. row' = row \/ (row' = NoRow /\ row.token = run[r])
    <2>1. CASE Owns(r)
        BY <2>1 DEF Abandon, Owns
    <2>2. CASE ~Owns(r)
        BY <2>2 DEF Abandon
    <2> QED BY <2>1, <2>2
<1>2. TypeOK'
    BY <1>1 DEF Inv, TypeOK, Row, Reply, Abandon, Owns, Release, Goto, history, NoRun, NoRow, Runs
<1>3. ClaimsAreOwn'
    BY <1>1 DEF Inv, TypeOK, ClaimsAreOwn, Running, Abandon, Owns, Release, Goto, history, NoRun, NoRow, Runs
<1>4. RowIsOfLastRun'
    BY <1>1 DEF Inv, TypeOK, RowIsOfLastRun, Row, Abandon, Owns, Release, Goto, history, NoRun, NoRow, Runs
<1>5. HeldOrLapsed'
    <2>1. ASSUME NEW q \in Requests, Running(q)'
          PROVE  /\ Running(q) /\ q # r /\ run'[q] = run[q] /\ run[q] # run[r]
                 /\ run[q] \in lapsed \/ HasLock(q)
        BY <2>1, <1>8 DEF Inv, TypeOK, HeldOrLapsed, Running, Abandon, Release, Goto
    <2>2. row' = row \/ row.token = run[r]
        BY <1>9
    <2>3. UNCHANGED lapsed
        BY DEF Abandon, history
    <2> QED BY <2>1, <2>2, <2>3 DEF HeldOrLapsed, HasLock
<1>6. EffectsAccounted'
    <2>1. row' = row \/ (row' = NoRow /\ row.token = run[r])
        BY <1>9
    <2>2. run[r] \in broken /\ UNCHANGED <<effects, lapsed, broken, forgotten>>
        BY DEF Abandon, Inv, ClaimsAreOwn, history
    <2> QED BY <2>1, <2>2 DEF Inv, EffectsAccounted, Cut
<1>7. RepliesAccounted'
    BY <1>1 DEF Inv, TypeOK, RepliesAccounted, Accounted, Stored, Cut, Row, Reply, Abandon, Owns, Release, Goto, history, NoRun, NoRow, Runs
<1> QED BY <1>2, <1>3, <1>4, <1>5, <1>6, <1>7 DEF Inv

LEMMA ProcessDiesKeepsInv ==
    ASSUME Inv, NEW r \in Requests, ProcessDies(r)
    PROVE  Inv'
<1>1. /\ row # NoRow => row \in Row
      /\ row # NoRow => row.state \in {"pending", "completed"} /\ row.token \in Runs
    BY RowOrNone, RowFields DEF Inv
<1>2. TypeOK'
    <2>1. faults' \in 0 .. MaxFaults
        BY BoundAssumption DEF BoundAssumption, ProcessDies, Fault, Inv, TypeOK
    <2>2. broken' \subseteq Runs
        BY <1>1 DEF ProcessDies, Inv, TypeOK
    <2>3. effects' \subseteq Runs
        BY <1>1 DEF ProcessDies, Inv, TypeOK
    <2>4. pc' \in [Requests -> {"ready", "insert", "select", "handle", "complete", "abandon", "answered"}]
        BY DEF ProcessDies, Goto, Inv, TypeOK
    <2>5. run' \in [Requests -> Runs \cup {NoRun}] /\ reply' \in [Requests -> Reply]
        BY <1>1 DEF ProcessDies, Release, Replied, Inv, TypeOK, Reply
    <2>6. UNCHANGED <<row, runs, lapsed, forgotten>>
        BY DEF ProcessDies
    <2> QED BY <2>1, <2>2, <2>3, <2>4, <2>5, <2>6 DEF Inv, TypeOK, Runs, Row, Reply
<1>3. ClaimsAreOwn'
    BY <1>1 DEF Inv, TypeOK, ClaimsAreOwn, Running, ProcessDies, Fault, Release, Goto, history, NoRun, NoRow, Runs
<1>4. RowIsOfLastRun'
    BY <1>1 DEF Inv, TypeOK, RowIsOfLastRun, Row, ProcessDies, Fault, Release, Goto, history, NoRun, NoRow, Runs
<1>5. HeldOrLapsed'
    BY <1>1 DEF Inv, TypeOK, HeldOrLapsed, HasLock, Running, Row, ProcessDies, Fault, Release, Goto, history, NoRun, NoRow, Runs
<1>6. EffectsAccounted'
    BY <1>1 DEF Inv, TypeOK, EffectsAccounted, Cut, Row, ProcessDies, Fault, Release, Goto, history, NoRun, NoRow, Runs
<1>7. RepliesAccounted'
    BY <1>1 DEF Inv, TypeOK, RepliesAccounted, Accounted, Stored, Cut, Row, Reply, ProcessDies, Fault, Release, Goto, history, NoRun, NoRow, Runs
<1> QED BY <1>2, <1>3, <1>4, <1>5, <1>6, <1>7 DEF Inv

LEMMA ExpiresKeepsInv ==
    ASSUME Inv, Expires
    PROVE  Inv'
<1>1. /\ row # NoRow => row \in Row
      /\ row # NoRow => row.state \in {"pending", "completed"} /\ row.token \in Runs
    BY RowOrNone, RowFields DEF Inv
<1>2. TypeOK'
    BY <1>1 DEF Inv, TypeOK, Row, Reply, Expires, history, NoRun, NoRow, Runs
<1>3. ClaimsAreOwn'
    BY <1>1 DEF Inv, TypeOK, ClaimsAreOwn, Running, Expires, history, NoRun, NoRow, Runs
<1>4. RowIsOfLastRun'
    BY <1>1 DEF Inv, TypeOK, RowIsOfLastRun, Row, Expires, history, NoRun, NoRow, Runs
<1>5. HeldOrLapsed'
    BY <1>1 DEF Inv, TypeOK, HeldOrLapsed, HasLock, Running, Row, Expires, history, NoRun, NoRow, Runs
<1>6. EffectsAccounted'
    BY <1>1 DEF Inv, TypeOK, EffectsAccounted, Cut, Row, Expires, history, NoRun, NoRow, Runs
<1>7. RepliesAccounted'
    BY <1>1 DEF Inv, TypeOK, RepliesAccounted, Accounted, Stored, Cut, Row, Reply, Expires, history, NoRun, NoRow, Runs
<1> QED BY <1>2, <1>3, <1>4, <1>5, <1>6, <1>7 DEF Inv

LEMMA InitInv == Init => Inv
    BY BoundAssumption DEF BoundAssumption, Init, Inv, TypeOK, ClaimsAreOwn, Running, RowIsOfLastRun, HeldOrLapsed,
       EffectsAccounted, RepliesAccounted, Accounted, NoRow, NoRun, Runs, Reply

\* What leaves every variable alone keeps what is said of them.
LEMMA StutterKeepsInv == Inv /\ UNCHANGED vars => Inv'
    BY DEF vars, history, Inv, TypeOK, ClaimsAreOwn, Running, RowIsOfLastRun, HeldOrLapsed, HasLock,
       EffectsAccounted, RepliesAccounted, Accounted, Stored, Cut, Row, Reply, Runs

LEMMA NextKeepsInv == Inv /\ [Next]_vars => Inv'
<1> SUFFICES ASSUME Inv, [Next]_vars PROVE Inv'
    OBVIOUS
<1>1. CASE UNCHANGED vars
    BY <1>1, StutterKeepsInv
<1>2. CASE Expires
    BY <1>2, ExpiresKeepsInv
<1>3. ASSUME NEW r \in Requests, RequestNext(r) PROVE Inv'
    BY <1>3, SweepKeepsInv, InsertKeepsInv, ClassifyKeepsInv, HandleKeepsInv, CompleteKeepsInv,
       AbandonKeepsInv DEF RequestNext
<1>4. ASSUME NEW r \in Requests, RequestFault(r) PROVE Inv'
    BY <1>4, HandlerFailsKeepsInv, AnswerLostKeepsInv, CompleteFailsKeepsInv,
       ProcessDiesKeepsInv DEF RequestFault
<1> QED BY <1>1, <1>2, <1>3, <1>4 DEF Next

LEMMA SpecKeepsInv == Spec => []Inv
<1>1. Init => Inv
    BY InitInv
<1>2. Inv /\ [Next]_vars => Inv'
    BY NextKeepsInv
<1> QED BY <1>1, <1>2, PTL DEF Spec

----------------------------------------------------------------------------
(* The theorems.                                                           *)

\* The key's row, the claims and the answers stay in their domains.
THEOREM TypeCorrect == Spec => []TypeOK
<1>1. Inv => TypeOK
    BY DEF Inv
<1> QED BY <1>1, SpecKeepsInv, PTL

\* Of any number of requests with the key, two run the handler at once only after one
\* has outrun its lock: both would hold the one row, whose token is of one run.
THEOREM OneRunsTheHandler == Spec => []OneHolder
<1>1. Inv => OneHolder
    BY DEF Inv, OneHolder, HeldOrLapsed, HasLock, ClaimsAreOwn, Running
<1> QED BY <1>1, SpecKeepsInv, PTL

\* The handler takes effect again only after the run before was cut short: the row
\* is of the last run, so an earlier one that is not cut short cannot own it.
THEOREM EffectsAreOnce == Spec => []EffectOnce
<1>1. ASSUME Inv, NEW a \in effects, NEW b \in effects, a < b PROVE a \in Cut
    <2>1. a \in Runs /\ b \in Runs /\ Len(runs) \in Nat
        BY <1>1 DEF Inv, TypeOK
    <2>2. a \in Cut \/ a = Len(runs)
        BY <1>1 DEF Inv, EffectsAccounted, RowIsOfLastRun
    <2>3. b <= Len(runs) /\ a \in Int /\ b \in Int
        BY <2>1 DEF Runs
    <2> QED BY <2>1, <2>2, <2>3, <1>1
<1>2. Inv => EffectOnce
    BY <1>1 DEF EffectOnce
<1> QED BY <1>2, SpecKeepsInv, PTL

\* All who are answered get the same answer, but for those whose run was cut short.
THEOREM AnswersAgree == Spec => []ReplaysAgree
<1>1. Inv => ReplaysAgree
    BY DEF Inv, ReplaysAgree, RepliesAccounted, Accounted, Stored, Cut
<1> QED BY <1>1, SpecKeepsInv, PTL

\* No request gets the answer to another body.
THEOREM AnswersFitTheBody == Spec => []ReplayIsOfBody
<1>1. Inv => ReplayIsOfBody
    BY DEF Inv, ReplayIsOfBody, RepliesAccounted, Accounted
<1> QED BY <1>1, SpecKeepsInv, PTL

=============================================================================
