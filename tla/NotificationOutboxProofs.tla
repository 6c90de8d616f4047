---------------------- MODULE NotificationOutboxProofs ----------------------
(***************************************************************************)
(* Theorems about NotificationOutbox for any engines, batches, rows and     *)
(* crashes: its invariants hold however the ticks of several engines on the *)
(* one database interleave, and whenever they are cut off.                  *)
(***************************************************************************)
EXTENDS NotificationOutbox, FiniteSetTheorems, TLAPS

Unsettled == {"queued", "running"}
Deliver == {"claimed", "accepted", "refused"}

\* Rows are inserted in order, an unsettled row has an attempt left, and only a
\* running row is old.
RowsInOrder ==
  \A r \in Rows :
    /\ r >= nextRow => outbox[r] = NoRow
    /\ outbox[r].status \in Unsettled => outbox[r].attempts < MaxDeliveryAttempts
    /\ outbox[r].stalled => outbox[r].status = "running"

\* What the position of a tick points at: a batch, then a row that exists or did.
Positioned ==
  \A e \in Engines :
    /\ engine[e].pc \in {"waiting", "locked"} => engine[e].at \in Batches
    /\ engine[e].pc \in Deliver \cup {"selected"} =>
         engine[e].at \in Rows /\ engine[e].at < nextRow

Typed == TypeOK /\ RowsInOrder /\ Positioned

\* A row under delivery is running and too young for the sweep.
Young ==
  \A e \in Engines :
    engine[e].pc \in Deliver =>
      outbox[engine[e].at].status = "running" /\ ~outbox[engine[e].at].stalled

\* Two deliveries are deliveries of different rows.
Apart ==
  \A e, f \in Engines :
    engine[e].pc \in Deliver /\ engine[f].pc \in Deliver /\ engine[e].at = engine[f].at
    => e = f

\* An engine that was told so had its row taken.
Posted ==
  \A e \in Engines : engine[e].pc = "accepted" => posts[engine[e].at] > 0

\* A batch is locked once, by a tick that saw it unfinished under the lock.
LockedOnce ==
  /\ \A e \in Engines : engine[e].pc = "locked" => batch[engine[e].at].status = "processing"
  /\ \A e, f \in Engines :
       engine[e].pc = "locked" /\ engine[f].pc = "locked" /\ engine[e].at = engine[f].at
       => e = f

\* Only a completed batch is announced, and by one row.
OneAnnouncement ==
  \A b \in Batches :
    /\ \A r \in Rows : outbox[r].about = b => batch[b].status = "completed"
    /\ \A r, q \in Rows : outbox[r].about = b /\ outbox[q].about = b => r = q

-----------------------------------------------------------------------------
LEMMA ConstantsTyped ==
  /\ MaxBatches \in Nat /\ MaxRows \in Nat /\ MaxCrashes \in Nat /\ MaxBatches <= MaxRows
  /\ MaxDeliveryAttempts \in Nat /\ MaxDeliveryAttempts > 0
  /\ Batches \subseteq Rows /\ Rows \subseteq Nat /\ 0 \notin Rows
  /\ NoFailure \notin Batches /\ \A k \in Failures : k \notin Batches
  BY BoundsAssumption, FailuresAssumption DEF Rows, Batches

LEMMA RowsTyped ==
  /\ NoRow \in Row
  /\ \A k \in Failures \cup {NoFailure} \cup Batches : NewRow(k) \in Row
  BY ConstantsTyped DEF NoRow, NewRow, Row, Ended

LEMMA WorkersTyped ==
  /\ Idle \in Worker
  /\ At("finalized", 0) \in Worker
  /\ \A b \in Batches : At("waiting", b) \in Worker /\ At("locked", b) \in Worker
  BY ConstantsTyped DEF Idle, At, Worker, Rows

\* The rows reserved for announcements leave room for another notification.
LEMMA RoomForOne ==
  ASSUME nextRow \in Nat \ {0}, nextRow + Reserved <= MaxRows
  PROVE  nextRow \in Rows
<1>1. IsFiniteSet(Batches)
  BY ConstantsTyped, FS_Interval DEF Batches
<1>2. IsFiniteSet({b \in Batches : batch[b].status # "completed"})
  BY <1>1, FS_Subset
<1>3. Reserved \in Nat
  BY <1>2, FS_CardinalityType DEF Reserved
<1> QED BY <1>3, ConstantsTyped DEF Rows

LEMMA InitTyped == Init => Typed
<1> SUFFICES ASSUME Init PROVE Typed
  OBVIOUS
<1>1. window \in [Failures -> BOOLEAN]
  BY Zenon DEF Init
<1>2. outbox \in [Rows -> Row] /\ posts \in [Rows -> Nat] /\ crashes \in 0..MaxCrashes
  BY ConstantsTyped, RowsTyped DEF Init
<1>3. batch \in [Batches -> Batch]
  BY DEF Init, Batch
<1>4. engine \in [Engines -> Worker] /\ nextRow \in 1..(MaxRows + 1)
  BY ConstantsTyped, WorkersTyped DEF Init
<1>5. RowsInOrder /\ Positioned
  BY ConstantsTyped DEF Init, RowsInOrder, Positioned, NoRow, Idle, Unsettled, Deliver
<1> QED BY <1>1, <1>2, <1>3, <1>4, <1>5 DEF Typed, TypeOK

LEMMA InsertedInOrder ==
  ASSUME RowsInOrder, nextRow \in Nat, nextRow' = nextRow + 1, NEW about,
         \A r \in Rows : outbox'[r] = IF r = nextRow THEN NewRow(about) ELSE outbox[r]
  PROVE  RowsInOrder'
<1>1. NewRow(about).attempts = 0 /\ ~NewRow(about).stalled
  BY DEF NewRow
<1>2. ASSUME NEW r \in Rows
      PROVE  /\ r >= nextRow' => outbox'[r] = NoRow
             /\ outbox'[r].status \in Unsettled => outbox'[r].attempts < MaxDeliveryAttempts
             /\ outbox'[r].stalled => outbox'[r].status = "running"
  <2>1. CASE r = nextRow
    BY <1>1, <2>1, ConstantsTyped
  <2>2. CASE r # nextRow
    BY <2>2, ConstantsTyped DEF RowsInOrder
  <2> QED BY <2>1, <2>2
<1> QED BY <1>2 DEF RowsInOrder

\* The business transactions, the user and time.
LEMMA OutsideTyped ==
  ASSUME Typed,
         \/ \E k \in Failures \cup {NoFailure}, on \in BOOLEAN : Enqueue(k, on)
         \/ \E k \in Failures : WindowEnds(k)
         \/ \E b \in Batches : ScanEnds(b) \/ JobsDrain(b) \/ RetryJobs(b)
         \/ \E r \in Rows : AttemptDue(r) \/ Stall(r)
  PROVE  Typed'
<1> USE ConstantsTyped, RowsTyped DEF Typed
<1>1. ASSUME NEW k \in Failures \cup {NoFailure}, NEW on \in BOOLEAN, Enqueue(k, on)
      PROVE  Typed'
  <2>1. nextRow \in Rows
    BY <1>1, RoomForOne DEF Enqueue, TypeOK
  <2>2. window' \in [Failures -> BOOLEAN]
    BY <1>1, Zenon DEF Enqueue
  <2>3. outbox' \in [Rows -> Row] /\ nextRow' \in 1..(MaxRows + 1)
    BY <1>1, <2>1 DEF Enqueue, TypeOK, Rows
  <2>4. RowsInOrder'
    <3>1. CASE on
      <4>1. \A r \in Rows : outbox'[r] = IF r = nextRow THEN NewRow(k) ELSE outbox[r]
        BY <1>1, <3>1 DEF Enqueue, TypeOK
      <4>2. nextRow' = nextRow + 1 /\ nextRow \in Nat
        BY <1>1, <3>1, <2>1 DEF Enqueue
      <4> QED BY <4>1, <4>2, InsertedInOrder
    <3>2. CASE ~on
      BY <1>1, <3>2 DEF Enqueue, RowsInOrder
    <3> QED BY <3>1, <3>2
  <2>5. Positioned'
    BY <1>1, <2>1 DEF Enqueue, TypeOK, Positioned, Rows
  <2> QED BY <1>1, <2>2, <2>3, <2>4, <2>5 DEF Enqueue, TypeOK
<1>2. ASSUME NEW k \in Failures, WindowEnds(k) PROVE Typed'
  BY <1>2 DEF WindowEnds, TypeOK, RowsInOrder, Positioned
<1>3. ASSUME NEW b \in Batches, ScanEnds(b) \/ JobsDrain(b) \/ RetryJobs(b) PROVE Typed'
  <2>1. batch' \in [Batches -> Batch]
    <3>1. batch[b] \in Batch
      BY DEF TypeOK
    <3>2. CASE ScanEnds(b)
      <4>1. [batch[b] EXCEPT !.status = "processing"] \in Batch
        BY <3>1 DEF Batch
      <4> QED BY <3>2, <4>1 DEF ScanEnds, TypeOK
    <3>3. CASE JobsDrain(b)
      <4>1. [batch[b] EXCEPT !.busy = FALSE] \in Batch
        BY <3>1 DEF Batch
      <4> QED BY <3>3, <4>1 DEF JobsDrain, TypeOK
    <3>4. CASE RetryJobs(b)
      <4>1. [batch[b] EXCEPT !.busy = TRUE, !.retried = TRUE] \in Batch
        BY <3>1 DEF Batch
      <4> QED BY <3>4, <4>1 DEF RetryJobs, TypeOK
    <3> QED BY <1>3, <3>2, <3>3, <3>4
  <2>2. UNCHANGED <<outbox, nextRow, window, engine, posts, crashes>>
    BY <1>3 DEF ScanEnds, JobsDrain, RetryJobs
  <2> QED BY <2>1, <2>2 DEF TypeOK, RowsInOrder, Positioned
<1>4. ASSUME NEW r \in Rows, AttemptDue(r) \/ Stall(r) PROVE Typed'
  <2>1. outbox' \in [Rows -> Row]
    <3>1. outbox[r] \in Row
      BY DEF TypeOK
    <3>2. /\ [outbox[r] EXCEPT !.due = TRUE] \in Row
          /\ [outbox[r] EXCEPT !.stalled = TRUE] \in Row
      BY <3>1 DEF Row
    <3> QED BY <1>4, <3>2 DEF AttemptDue, Stall, TypeOK
  <2>2. UNCHANGED <<nextRow, window, batch, engine, posts, crashes>>
    BY <1>4 DEF AttemptDue, Stall
  <2>3. outbox[r] # NoRow
    BY <1>4 DEF AttemptDue, Stall, NoRow
  <2>4. \A q \in Rows : /\ q # r => outbox'[q] = outbox[q]
                        /\ outbox'[q].status = outbox[q].status
                        /\ outbox'[q].attempts = outbox[q].attempts
                        /\ outbox'[q].stalled => outbox[q].stalled \/ outbox[q].status = "running"
    BY <1>4 DEF AttemptDue, Stall, TypeOK, Row
  <2>5. RowsInOrder'
    BY <2>2, <2>3, <2>4 DEF RowsInOrder
  <2> QED BY <2>1, <2>2, <2>5 DEF TypeOK, Positioned
<1> QED BY <1>1, <1>2, <1>3, <1>4

-----------------------------------------------------------------------------
\* What a finished tick writes keeps the table typed and in order.
LEMMA SettledTyped ==
  ASSUME Typed, NEW e \in Engines, engine[e].pc \in Deliver,
         NEW row \in Row, row.status \in Unsettled => row.attempts < MaxDeliveryAttempts,
         ~row.stalled,
         Settle(e, row)
  PROVE  Typed'
<1> USE ConstantsTyped, WorkersTyped DEF Typed
<1> DEFINE r == engine[e].at
<1>1. r \in Rows /\ r < nextRow
  BY DEF Positioned
<1>2. outbox' \in [Rows -> Row] /\ \A q \in Rows : outbox'[q] = outbox[q] \/ (q = r /\ outbox'[q] = row)
  BY <1>1 DEF Settle, TypeOK
<1>3. engine' \in [Engines -> Worker]
  BY DEF Settle, TypeOK
<1>4. UNCHANGED <<nextRow, window, batch, posts, crashes>>
  BY DEF Settle
<1>5. RowsInOrder'
  BY <1>1, <1>2, <1>4 DEF RowsInOrder, TypeOK
<1>6. Positioned'
  BY <1>4 DEF Settle, Positioned, Idle, Deliver, TypeOK
<1> QED BY <1>2, <1>3, <1>4, <1>5, <1>6 DEF TypeOK

\* A step of the tick that moves no row: the engine's position stays meaningful.
LEMMA MovedTyped ==
  ASSUME Typed, NEW e \in Engines, NEW worker \in Worker,
         worker.pc \in {"waiting", "locked"} => worker.at \in Batches,
         worker.pc \in Deliver \cup {"selected"} => worker.at \in Rows /\ worker.at < nextRow,
         engine' = [engine EXCEPT ![e] = worker]
  PROVE  engine' \in [Engines -> Worker] /\ (nextRow' = nextRow => Positioned')
<1>1. \A f \in Engines : engine'[f] = IF f = e THEN worker ELSE engine[f]
  BY DEF Typed, TypeOK
<1>2. engine' \in [Engines -> Worker]
  BY DEF Typed, TypeOK
<1>3. nextRow' = nextRow => Positioned'
  BY <1>1 DEF Positioned, Typed
<1> QED BY <1>2, <1>3

LEMMA RowsExist ==
  ASSUME Typed, NEW r \in Rows, outbox[r].status # "absent"
  PROVE  r < nextRow
<1>1. outbox[r] # NoRow
  BY DEF NoRow
<1>2. ~(r >= nextRow)
  BY <1>1 DEF Typed, RowsInOrder
<1> QED BY <1>2, ConstantsTyped DEF Typed, TypeOK

\* Every step of a tick.
LEMMA TickTyped ==
  ASSUME Typed, NEW e \in Engines, Dispatch(e) \/ TickStep(e) \/ Crash(e)
  PROVE  Typed'
<1> USE ConstantsTyped, WorkersTyped, RowsTyped DEF Typed
<1>0. engine[e] \in Worker /\ outbox \in [Rows -> Row]
  BY DEF TypeOK
<1>1. CASE Dispatch(e)
  <2>1. [engine[e] EXCEPT !.pc = "dispatched"] \in Worker
    BY <1>0 DEF Worker
  <2>2. engine' = [engine EXCEPT ![e] = [engine[e] EXCEPT !.pc = "dispatched"]]
    BY <1>1 DEF Dispatch
  <2>3. UNCHANGED <<outbox, nextRow, window, batch, posts, crashes>>
    BY <1>1 DEF Dispatch
  <2>4. [engine[e] EXCEPT !.pc = "dispatched"].pc = "dispatched"
    BY <1>0 DEF Worker
  <2>5. engine' \in [Engines -> Worker] /\ Positioned'
    BY <2>1, <2>2, <2>3, <2>4, MovedTyped DEF Deliver
  <2> QED BY <2>3, <2>5 DEF TypeOK, RowsInOrder
<1>2. CASE Sweep(e)
  <2>1. [engine[e] EXCEPT !.pc = "swept"] \in Worker
    BY <1>0 DEF Worker
  <2>2. UNCHANGED <<nextRow, window, batch, posts, crashes>>
    BY <1>2 DEF Sweep
  <2>3. engine' \in [Engines -> Worker] /\ Positioned'
    <3>1. [engine[e] EXCEPT !.pc = "swept"].pc = "swept"
      BY <1>0 DEF Worker
    <3>2. engine' = [engine EXCEPT ![e] = [engine[e] EXCEPT !.pc = "swept"]]
      BY <1>2 DEF Sweep
    <3> QED BY <2>1, <2>2, <3>1, <3>2, MovedTyped DEF Deliver
  <2>4. PICK old \in SUBSET Rows :
          outbox' = [r \in Rows |->
            IF r \in old THEN NoRow
            ELSE IF Stalled(r)
            THEN [outbox[r] EXCEPT !.status = "queued", !.due = TRUE, !.stalled = FALSE]
            ELSE outbox[r]]
    BY <1>2 DEF Sweep
  <2>5. ASSUME NEW r \in Rows, Stalled(r)
        PROVE  [outbox[r] EXCEPT !.status = "queued", !.due = TRUE, !.stalled = FALSE] \in Row
    <3>1. outbox[r] \in Row
      BY <1>0
    <3> QED BY <3>1 DEF Row
  <2>6. outbox' \in [Rows -> Row]
    BY <1>0, <2>4, <2>5
  <2>7. ASSUME NEW r \in Rows
        PROVE  \/ outbox'[r] = NoRow \/ outbox'[r] = outbox[r]
               \/ /\ outbox[r].status = "running" /\ outbox'[r].attempts = outbox[r].attempts
                  /\ ~outbox'[r].stalled
    <3>1. outbox[r] \in Row
      BY <1>0
    <3> QED BY <2>4, <3>1 DEF Stalled, Row
  <2>8. RowsInOrder'
    <3>1. ASSUME NEW r \in Rows
          PROVE  /\ r >= nextRow => outbox'[r] = NoRow
                 /\ outbox'[r].status \in Unsettled => outbox'[r].attempts < MaxDeliveryAttempts
                 /\ outbox'[r].stalled => outbox'[r].status = "running"
      <4>1. outbox[r].status = "running" => r < nextRow /\ outbox[r].attempts < MaxDeliveryAttempts
        BY DEF RowsInOrder, NoRow, Unsettled, TypeOK, Rows
      <4>2. CASE outbox'[r] = NoRow
        BY <4>2 DEF NoRow, Unsettled
      <4>3. CASE outbox'[r] = outbox[r]
        BY <4>3 DEF RowsInOrder
      <4>4. CASE /\ outbox[r].status = "running" /\ outbox'[r].attempts = outbox[r].attempts
                 /\ ~outbox'[r].stalled
        <5>1. nextRow \in Nat /\ r \in Nat
          BY DEF TypeOK, Rows
        <5> QED BY <4>1, <4>4, <5>1
      <4> QED BY <2>7, <4>2, <4>3, <4>4
    <3> QED BY <2>2, <3>1 DEF RowsInOrder
  <2> QED BY <2>2, <2>3, <2>6, <2>8 DEF TypeOK
<1>3. CASE LockBatch(e)
  <2>1. UNCHANGED <<outbox, nextRow, window, batch, posts, crashes>>
    BY <1>3 DEF LockBatch
  <2>2. CASE engine' = [engine EXCEPT ![e].pc = "finalized"]
    <3>1. /\ [engine[e] EXCEPT !.pc = "finalized"] \in Worker
          /\ [engine[e] EXCEPT !.pc = "finalized"].pc = "finalized"
      BY <1>0 DEF Worker
    <3>2. engine' = [engine EXCEPT ![e] = [engine[e] EXCEPT !.pc = "finalized"]]
      BY <2>2
    <3> QED BY <2>1, <3>1, <3>2, MovedTyped DEF Deliver, TypeOK, RowsInOrder
  <2>3. ASSUME NEW b \in Batches, NEW pc \in {"waiting", "locked"},
               engine' = [engine EXCEPT ![e] = At(pc, b)]
        PROVE  Typed'
    <3>1. At(pc, b) \in Worker /\ At(pc, b).pc = pc /\ At(pc, b).at = b
      BY DEF At
    <3> QED BY <2>1, <2>3, <3>1, MovedTyped DEF Deliver, TypeOK, RowsInOrder
  <2> QED BY <1>3, <2>2, <2>3 DEF LockBatch
<1>4. CASE LockGranted(e)
  <2>1. UNCHANGED <<outbox, nextRow, window, batch, posts, crashes>> /\ engine[e].at \in Batches
    BY <1>4 DEF LockGranted, Positioned
  <2>2. /\ At("locked", engine[e].at) \in Worker /\ At("locked", engine[e].at).pc = "locked"
        /\ At("locked", engine[e].at).at = engine[e].at
        /\ At("finalized", 0) \in Worker /\ At("finalized", 0).pc = "finalized"
    BY <2>1 DEF At
  <2>3. engine' \in [Engines -> Worker] /\ Positioned'
    BY <1>4, <2>1, <2>2, MovedTyped DEF LockGranted, Deliver
  <2> QED BY <2>1, <2>3 DEF TypeOK, RowsInOrder
<1>5. ASSUME NEW on \in BOOLEAN, Finalize(e, on) PROVE Typed'
  <2> DEFINE b == engine[e].at
  <2>1. b \in Batches /\ batch[b] \in Batch
    BY <1>5 DEF Finalize, Positioned, TypeOK
  <2>2. [batch[b] EXCEPT !.status = "completed"] \in Batch
    BY <2>1 DEF Batch
  <2>3. batch' \in [Batches -> Batch]
    BY <1>5, <2>1, <2>2 DEF Finalize, TypeOK
  <2>4. /\ engine' = [engine EXCEPT ![e] = At("finalized", 0)]
        /\ At("finalized", 0).pc = "finalized"
        /\ UNCHANGED <<window, posts, crashes>>
    BY <1>5 DEF Finalize, At
  <2>5. CASE UNCHANGED <<outbox, nextRow>>
    BY <2>3, <2>4, <2>5, MovedTyped DEF TypeOK, RowsInOrder, Deliver
  <2>6. CASE /\ nextRow <= MaxRows /\ nextRow' = nextRow + 1
             /\ outbox' = [outbox EXCEPT ![nextRow] = NewRow(b)]
    <3>1. nextRow \in Rows /\ nextRow \in Nat
      BY <2>6 DEF TypeOK, Rows
    <3>2. outbox' \in [Rows -> Row] /\ nextRow' \in 1..(MaxRows + 1)
      BY <2>1, <2>6, <3>1 DEF TypeOK, Rows
    <3>3. \A r \in Rows : outbox'[r] = IF r = nextRow THEN NewRow(b) ELSE outbox[r]
      BY <2>6 DEF TypeOK
    <3>4. RowsInOrder'
      BY <2>6, <3>1, <3>3, InsertedInOrder
    <3>5. engine' \in [Engines -> Worker] /\ \A f \in Engines : f # e => engine'[f] = engine[f]
      BY <2>4 DEF TypeOK
    <3>6. Positioned'
      BY <2>4, <2>6, <3>1, <3>5 DEF Positioned, Deliver, TypeOK, Rows
    <3> QED BY <2>3, <2>4, <3>2, <3>4, <3>5, <3>6 DEF TypeOK
  <2>7. CASE batch[b].busy \/ ~on
    BY <1>5, <2>5, <2>7 DEF Finalize
  <2>8. CASE ~batch[b].busy /\ on
    BY <1>5, <2>6, <2>8 DEF Finalize
  <2> QED BY <2>7, <2>8
<1>6. CASE Select(e)
  <2>1. UNCHANGED <<outbox, nextRow, window, batch, posts, crashes>>
    BY <1>6 DEF Select
  <2>2. CASE engine' = [engine EXCEPT ![e] = Idle]
    BY <2>1, <2>2, MovedTyped DEF Idle, Deliver, TypeOK, RowsInOrder
  <2>3. ASSUME NEW r \in Rows, Due(r),
               engine' = [engine EXCEPT ![e] =
                 [pc |-> "selected", at |-> r, attempts |-> outbox[r].attempts]]
        PROVE  Typed'
    <3>1. outbox[r] \in Row /\ outbox[r].status = "queued"
      BY <1>0, <2>3 DEF Due
    <3>2. r < nextRow
      BY <3>1, RowsExist
    <3>3. outbox[r].attempts \in 0..(MaxDeliveryAttempts - 1)
      <4>1. outbox[r].attempts \in 0..MaxDeliveryAttempts
        BY <3>1 DEF Row
      <4>2. outbox[r].attempts < MaxDeliveryAttempts
        BY <3>1 DEF RowsInOrder, Unsettled
      <4> QED BY <4>1, <4>2
    <3>4. [pc |-> "selected", at |-> r, attempts |-> outbox[r].attempts] \in Worker
      BY <3>3 DEF Worker, Rows
    <3> QED BY <2>1, <2>3, <3>2, <3>4, MovedTyped DEF Deliver, TypeOK, RowsInOrder
  <2> QED BY <1>6, <2>2, <2>3 DEF Select
<1>7. CASE Claim(e)
  <2> DEFINE r == engine[e].at
  <2>1. r \in Rows /\ r < nextRow /\ UNCHANGED <<nextRow, window, batch, posts, crashes>>
    BY <1>7 DEF Claim, Positioned
  <2>2. CASE UNCHANGED outbox /\ engine' = [engine EXCEPT ![e] = Idle]
    BY <2>1, <2>2, MovedTyped DEF Idle, Deliver, TypeOK, RowsInOrder
  <2>3. CASE /\ outbox[r].status = "queued"
             /\ outbox' = [outbox EXCEPT ![r] = [outbox[r] EXCEPT !.status = "running"]]
             /\ engine' = [engine EXCEPT ![e].pc = "claimed"]
    <3>1. [outbox[r] EXCEPT !.status = "running"] \in Row
      <4>1. outbox[r] \in Row
        BY <2>1 DEF TypeOK
      <4> QED BY <4>1 DEF Row
    <3>2. outbox' \in [Rows -> Row]
      BY <2>1, <2>3, <3>1 DEF TypeOK
    <3>3. \A q \in Rows : /\ q # r => outbox'[q] = outbox[q]
                          /\ outbox'[q].attempts = outbox[q].attempts
                          /\ outbox'[r].status = "running"
      BY <2>1, <2>3 DEF TypeOK, Row
    <3>4. RowsInOrder'
      <4>1. nextRow \in Nat /\ outbox[r].attempts < MaxDeliveryAttempts
        BY <2>1, <2>3 DEF RowsInOrder, Unsettled, TypeOK
      <4>2. ASSUME NEW q \in Rows
            PROVE  /\ q >= nextRow => outbox'[q] = NoRow
                   /\ outbox'[q].status \in Unsettled => outbox'[q].attempts < MaxDeliveryAttempts
                   /\ outbox'[q].stalled => outbox'[q].status = "running"
        BY <2>1, <3>3, <4>1 DEF RowsInOrder
      <4> QED BY <2>1, <4>2 DEF RowsInOrder
    <3>5. /\ [engine[e] EXCEPT !.pc = "claimed"] \in Worker
          /\ [engine[e] EXCEPT !.pc = "claimed"].pc = "claimed"
          /\ [engine[e] EXCEPT !.pc = "claimed"].at = r
      BY <1>0 DEF Worker
    <3>6. engine' = [engine EXCEPT ![e] = [engine[e] EXCEPT !.pc = "claimed"]]
      BY <2>3
    <3>7. engine' \in [Engines -> Worker] /\ Positioned'
      BY <2>1, <3>5, <3>6, MovedTyped DEF Deliver
    <3> QED BY <2>1, <3>2, <3>4, <3>7 DEF TypeOK
  <2> QED BY <1>7, <2>2, <2>3 DEF Claim, Claimable
<1>8. CASE Crash(e)
  <2>1. UNCHANGED <<outbox, nextRow, window, batch, posts>> /\ crashes' \in 0..MaxCrashes
    BY <1>8 DEF Crash, TypeOK
  <2> QED BY <1>8, <2>1, MovedTyped DEF Crash, Idle, Deliver, TypeOK, RowsInOrder
<1>9. ASSUME NEW outcome \in Outcomes, Post(e, outcome) PROVE Typed'
  <2>1. engine[e].at \in Rows /\ engine[e].at < nextRow
    BY <1>9 DEF Post, Positioned, Deliver
  <2>2. posts' \in [Rows -> Nat] /\ UNCHANGED <<outbox, nextRow, window, batch, crashes>>
    BY <1>9, <2>1 DEF Post, TypeOK
  <2>3. ASSUME NEW pc \in {"accepted", "refused"}
        PROVE  /\ [engine[e] EXCEPT !.pc = pc] \in Worker
               /\ [engine[e] EXCEPT !.pc = pc].pc = pc
               /\ [engine[e] EXCEPT !.pc = pc].at = engine[e].at
    BY <1>0 DEF Worker
  <2>4. PICK pc \in {"accepted", "refused"} : engine' = [engine EXCEPT ![e] = [engine[e] EXCEPT !.pc = pc]]
    <3>1. CASE Accepted(outcome)
      BY <1>9, <3>1 DEF Post
    <3>2. CASE ~Accepted(outcome)
      BY <1>9, <3>2 DEF Post
    <3> QED BY <3>1, <3>2
  <2>5. engine' \in [Engines -> Worker] /\ Positioned'
    BY <2>1, <2>2, <2>3, <2>4, MovedTyped DEF Deliver
  <2> QED BY <2>2, <2>5 DEF TypeOK, RowsInOrder
<1>10. CASE Skip(e) \/ MarkSent(e)
  <2>1. engine[e].pc \in Deliver /\ engine[e].at \in Rows
    BY <1>10 DEF Skip, MarkSent, Deliver, Positioned
  <2>2. outbox[engine[e].at] \in Row
    BY <2>1, <1>0
  <2>3. ASSUME NEW status \in {"skipped", "sent"}
        PROVE  LET row == [outbox[engine[e].at] EXCEPT !.status = status, !.stalled = FALSE]
               IN  row \in Row /\ row.status \notin Unsettled /\ ~row.stalled
    BY <2>2 DEF Row, Ended, Unsettled
  <2>4. PICK status \in {"skipped", "sent"} :
          Settle(e, [outbox[engine[e].at] EXCEPT !.status = status, !.stalled = FALSE])
    BY <1>10 DEF Skip, MarkSent
  <2> QED BY <2>1, <2>3, <2>4, SettledTyped
<1>11. CASE NoteFailure(e)
  <2> DEFINE row == outbox[engine[e].at]
             attempt == engine[e].attempts + 1
             again == [row EXCEPT !.status = "queued", !.attempts = attempt, !.due = FALSE,
                                  !.stalled = FALSE]
             over == [row EXCEPT !.status = "failed", !.attempts = attempt, !.stalled = FALSE]
  <2>1. engine[e].pc \in Deliver /\ engine[e].at \in Rows
    BY <1>11 DEF NoteFailure, Deliver, Positioned
  <2>2. row \in Row /\ attempt \in 0..MaxDeliveryAttempts
    BY <2>1, <1>0 DEF Worker
  <2>3. /\ again \in Row /\ again.attempts = attempt /\ ~again.stalled
        /\ over \in Row /\ over.status \notin Unsettled /\ ~over.stalled
    BY <2>2 DEF Row, Ended, Unsettled
  <2>4. CASE MayRetry(attempt)
    <3>1. Settle(e, again)
      BY <1>11, <2>4 DEF NoteFailure
    <3>2. again.attempts < MaxDeliveryAttempts
      BY <2>3, <2>4 DEF MayRetry
    <3> QED BY <2>1, <2>3, <3>1, <3>2, SettledTyped
  <2>5. CASE ~MayRetry(attempt)
    <3>1. Settle(e, over)
      BY <1>11, <2>5 DEF NoteFailure
    <3> QED BY <2>1, <2>3, <3>1, SettledTyped
  <2> QED BY <2>4, <2>5
<1> QED BY <1>1, <1>2, <1>3, <1>4, <1>5, <1>6, <1>7, <1>8, <1>9, <1>10, <1>11 DEF TickStep

LEMMA StepTyped == Typed /\ [Next]_vars => Typed'
<1> SUFFICES ASSUME Typed, [Next]_vars PROVE Typed'
  OBVIOUS
<1>1. CASE UNCHANGED vars
  BY <1>1 DEF vars, Typed, TypeOK, RowsInOrder, Positioned
<1>2. CASE Next
  BY <1>2, OutsideTyped, TickTyped DEF Next
<1> QED BY <1>1, <1>2

\* Rows, windows, batches and the local variables of every tick keep their types.
THEOREM OutboxTyped == Spec => []TypeOK
<1>1. Spec => []Typed
  BY InitTyped, StepTyped, PTL DEF Spec
<1>2. Typed => TypeOK
  BY DEF Typed
<1> QED BY <1>1, <1>2, PTL
-----------------------------------------------------------------------------
\* A step that neither takes up a delivery nor touches the row of one.
LEMMA DeliveriesUndisturbed ==
  ASSUME Young, Apart,
         \A e \in Engines : engine'[e].pc \in Deliver =>
           engine[e].pc \in Deliver /\ engine'[e].at = engine[e].at,
         \A e \in Engines : engine[e].pc \in Deliver =>
           /\ outbox'[engine[e].at].status = outbox[engine[e].at].status
           /\ outbox'[engine[e].at].stalled = outbox[engine[e].at].stalled
  PROVE  Young' /\ Apart'
<1>1. Young'
  BY DEF Young
<1>2. Apart'
  BY DEF Apart
<1> QED BY <1>1, <1>2

\* The end of a delivery writes a row that no other engine delivers.
LEMMA SettledApart ==
  ASSUME Typed, Young, Apart, NEW e \in Engines, engine[e].pc \in Deliver,
         NEW row, Settle(e, row)
  PROVE  Young' /\ Apart'
<1>1. \A f \in Engines : engine'[f] = IF f = e THEN Idle ELSE engine[f]
  BY DEF Settle, Typed, TypeOK
<1>2. \A f \in Engines : f # e /\ engine[f].pc \in Deliver => engine[f].at # engine[e].at
  BY DEF Apart
<1>3. \A r \in Rows : r # engine[e].at => outbox'[r] = outbox[r]
  BY DEF Settle, Typed, TypeOK
<1>4. Idle.pc \notin Deliver
  BY DEF Idle, Deliver
<1>5. Apart'
  BY <1>1, <1>4 DEF Apart
<1>6. ASSUME NEW f \in Engines, engine'[f].pc \in Deliver
      PROVE  outbox'[engine'[f].at].status = "running" /\ ~outbox'[engine'[f].at].stalled
  <2>1. f # e /\ engine[f].pc \in Deliver /\ engine'[f].at = engine[f].at
    BY <1>1, <1>4, <1>6
  <2>2. engine[f].at \in Rows
    BY <2>1 DEF Typed, Positioned
  <2> QED BY <1>2, <1>3, <2>1, <2>2 DEF Young
<1> QED BY <1>5, <1>6 DEF Young

LEMMA OutsideApart ==
  ASSUME Typed, Young, Apart,
         \/ \E k \in Failures \cup {NoFailure}, on \in BOOLEAN : Enqueue(k, on)
         \/ \E k \in Failures : WindowEnds(k)
         \/ \E b \in Batches : ScanEnds(b) \/ JobsDrain(b) \/ RetryJobs(b)
         \/ \E r \in Rows : AttemptDue(r) \/ Stall(r)
  PROVE  Young' /\ Apart'
<1>0. \A e \in Engines : engine[e].pc \in Deliver => engine[e].at \in Rows /\ engine[e].at < nextRow
  BY DEF Typed, Positioned
<1>1. UNCHANGED engine
  BY DEF Enqueue, WindowEnds, ScanEnds, JobsDrain, RetryJobs, AttemptDue, Stall
<1>2. ASSUME NEW k \in Failures \cup {NoFailure}, NEW on \in BOOLEAN, Enqueue(k, on)
      PROVE  Young' /\ Apart'
  <2>1. \A r \in Rows : r < nextRow => outbox'[r] = outbox[r]
    BY <1>2, ConstantsTyped DEF Enqueue, Typed, TypeOK
  <2> QED BY <1>0, <1>1, <2>1, DeliveriesUndisturbed
<1>3. CASE UNCHANGED outbox
  BY <1>1, <1>3, DeliveriesUndisturbed
<1>4. ASSUME NEW r \in Rows, AttemptDue(r)
      PROVE  Young' /\ Apart'
  <2>1. \A q \in Rows : outbox'[q].status = outbox[q].status /\ outbox'[q].stalled = outbox[q].stalled
    BY <1>4 DEF AttemptDue, Typed, TypeOK, Row
  <2> QED BY <1>0, <1>1, <2>1, DeliveriesUndisturbed
<1>5. ASSUME NEW r \in Rows, Stall(r)
      PROVE  Young' /\ Apart'
  <2>1. \A q \in Rows : q # r => outbox'[q] = outbox[q]
    BY <1>5 DEF Stall, Typed, TypeOK
  <2>2. \A e \in Engines : engine[e].pc \in Deliver => engine[e].at # r
    BY <1>5 DEF Stall, Delivering, Deliver
  <2> QED BY <1>0, <1>1, <2>1, <2>2, DeliveriesUndisturbed
<1> QED BY <1>2, <1>3, <1>4, <1>5 DEF WindowEnds, ScanEnds, JobsDrain, RetryJobs

LEMMA TickApart ==
  ASSUME Typed, Young, Apart, NEW e \in Engines, Dispatch(e) \/ TickStep(e) \/ Crash(e)
  PROVE  Young' /\ Apart'
<1>0. /\ \A f \in Engines : engine[f] \in Worker
      /\ \A f \in Engines : engine[f].pc \in Deliver => engine[f].at \in Rows /\ engine[f].at < nextRow
  BY DEF Typed, TypeOK, Positioned
<1>1. ASSUME NEW worker, worker.pc \notin Deliver, engine' = [engine EXCEPT ![e] = worker],
             \A f \in Engines : engine[f].pc \in Deliver => outbox'[engine[f].at] = outbox[engine[f].at]
      PROVE  Young' /\ Apart'
  <2>1. \A f \in Engines : engine'[f] = IF f = e THEN worker ELSE engine[f]
    BY <1>1 DEF Typed, TypeOK
  <2> QED BY <1>1, <2>1, DeliveriesUndisturbed
<1>2. CASE Dispatch(e)
  <2>1. engine' = [engine EXCEPT ![e] = [engine[e] EXCEPT !.pc = "dispatched"]] /\ UNCHANGED outbox
    BY <1>2 DEF Dispatch
  <2>2. [engine[e] EXCEPT !.pc = "dispatched"].pc \notin Deliver
    BY <1>0 DEF Worker, Deliver
  <2> QED BY <1>1, <2>1, <2>2
<1>3. CASE Sweep(e)
  <2>1. engine' = [engine EXCEPT ![e] = [engine[e] EXCEPT !.pc = "swept"]]
    BY <1>3 DEF Sweep
  <2>2. [engine[e] EXCEPT !.pc = "swept"].pc \notin Deliver
    BY <1>0 DEF Worker, Deliver
  <2>3. \A r \in Rows : outbox[r].status \notin Ended /\ ~Stalled(r) => outbox'[r] = outbox[r]
    BY <1>3 DEF Sweep
  <2>4. \A f \in Engines : engine[f].pc \in Deliver => outbox'[engine[f].at] = outbox[engine[f].at]
    BY <1>0, <2>3 DEF Young, Stalled, Ended
  <2> QED BY <1>1, <2>1, <2>2, <2>4
<1>4. CASE LockBatch(e)
  <2>1. UNCHANGED outbox
    BY <1>4 DEF LockBatch
  <2>2. CASE engine' = [engine EXCEPT ![e].pc = "finalized"]
    <3>1. [engine[e] EXCEPT !.pc = "finalized"].pc \notin Deliver
      BY <1>0 DEF Worker, Deliver
    <3>2. engine' = [engine EXCEPT ![e] = [engine[e] EXCEPT !.pc = "finalized"]]
      BY <2>2
    <3> QED BY <1>1, <2>1, <3>1, <3>2
  <2>3. ASSUME NEW b \in Batches, NEW pc \in {"waiting", "locked"},
               engine' = [engine EXCEPT ![e] = At(pc, b)]
        PROVE  Young' /\ Apart'
    <3>1. At(pc, b).pc \notin Deliver
      BY DEF At, Deliver
    <3> QED BY <1>1, <2>1, <2>3, <3>1
  <2> QED BY <1>4, <2>2, <2>3 DEF LockBatch
<1>5. CASE LockGranted(e)
  <2>1. At("locked", engine[e].at).pc \notin Deliver /\ At("finalized", 0).pc \notin Deliver
    BY DEF At, Deliver
  <2> QED BY <1>1, <1>5, <2>1 DEF LockGranted
<1>6. ASSUME NEW on \in BOOLEAN, Finalize(e, on) PROVE Young' /\ Apart'
  <2>1. At("finalized", 0).pc \notin Deliver /\ engine' = [engine EXCEPT ![e] = At("finalized", 0)]
    BY <1>6 DEF At, Deliver, Finalize
  <2>2. \A r \in Rows : r < nextRow => outbox'[r] = outbox[r]
    <3>1. outbox' = outbox \/ outbox' = [outbox EXCEPT ![nextRow] = NewRow(engine[e].at)]
      <4>1. CASE batch[engine[e].at].busy \/ ~on
        BY <1>6, <4>1 DEF Finalize
      <4>2. CASE ~batch[engine[e].at].busy /\ on
        BY <1>6, <4>2 DEF Finalize
      <4> QED BY <4>1, <4>2
    <3>2. nextRow \in Nat
      BY DEF Typed, TypeOK
    <3> QED BY <3>1, <3>2, ConstantsTyped DEF Typed, TypeOK
  <2> QED BY <1>0, <1>1, <2>1, <2>2
<1>7. CASE Select(e)
  <2>1. UNCHANGED outbox
    BY <1>7 DEF Select
  <2>2. CASE engine' = [engine EXCEPT ![e] = Idle]
    <3>1. Idle.pc \notin Deliver
      BY DEF Idle, Deliver
    <3> QED BY <1>1, <2>1, <2>2, <3>1
  <2>3. ASSUME NEW r \in Rows,
               engine' = [engine EXCEPT ![e] =
                 [pc |-> "selected", at |-> r, attempts |-> outbox[r].attempts]]
        PROVE  Young' /\ Apart'
    <3>1. [pc |-> "selected", at |-> r, attempts |-> outbox[r].attempts].pc \notin Deliver
      BY DEF Deliver
    <3> QED BY <1>1, <2>1, <2>3, <3>1
  <2> QED BY <1>7, <2>2, <2>3 DEF Select
<1>8. CASE Claim(e)
  <2> DEFINE r == engine[e].at
  <2>1. r \in Rows
    BY <1>8 DEF Claim, Typed, Positioned
  <2>2. CASE UNCHANGED outbox /\ engine' = [engine EXCEPT ![e] = Idle]
    <3>1. Idle.pc \notin Deliver
      BY DEF Idle, Deliver
    <3> QED BY <1>1, <2>2, <3>1
  <2>3. CASE /\ outbox[r].status = "queued"
             /\ outbox' = [outbox EXCEPT ![r] = [outbox[r] EXCEPT !.status = "running"]]
             /\ engine' = [engine EXCEPT ![e].pc = "claimed"]
    <3>1. outbox[r] \in Row
      BY <2>1 DEF Typed, TypeOK
    <3>2. ~outbox[r].stalled
      BY <2>1, <2>3 DEF Typed, RowsInOrder
    <3>3. outbox'[r].status = "running" /\ ~outbox'[r].stalled
      BY <2>1, <2>3, <3>1, <3>2 DEF Typed, TypeOK, Row
    <3>4. \A q \in Rows : q # r => outbox'[q] = outbox[q]
      BY <2>3 DEF Typed, TypeOK
    <3>5. \A f \in Engines : engine[f].pc \in Deliver => engine[f].at # r
      BY <2>3 DEF Young
    <3>6. /\ \A f \in Engines : f # e => engine'[f] = engine[f]
          /\ engine'[e].at = r
      BY <1>0, <2>3 DEF Typed, TypeOK, Worker
    <3>7. Apart'
      BY <3>5, <3>6 DEF Apart
    <3>8. Young'
      BY <1>0, <3>3, <3>4, <3>5, <3>6 DEF Young
    <3> QED BY <3>7, <3>8
  <2> QED BY <1>8, <2>2, <2>3 DEF Claim, Claimable
<1>9. CASE \E row : engine[e].pc \in Deliver /\ Settle(e, row)
  BY <1>9, SettledApart
<1>10. ASSUME NEW outcome \in Outcomes, Post(e, outcome) PROVE Young' /\ Apart'
  <2>1. UNCHANGED outbox /\ engine[e].pc \in Deliver
    BY <1>10 DEF Post, Deliver
  <2>2. \A f \in Engines : engine'[f].at = engine[f].at /\ (f # e => engine'[f] = engine[f])
    BY <1>0, <1>10 DEF Post, Typed, TypeOK, Worker
  <2> QED BY <2>1, <2>2, DeliveriesUndisturbed
<1>11. CASE Crash(e)
  <2>1. Idle.pc \notin Deliver
    BY DEF Idle, Deliver
  <2> QED BY <1>1, <1>11, <2>1 DEF Crash
<1>12. CASE Skip(e) \/ MarkSent(e) \/ NoteFailure(e)
  <2>1. engine[e].pc \in Deliver
    BY <1>12 DEF Skip, MarkSent, NoteFailure, Deliver
  <2>2. \E row : Settle(e, row)
    <3>1. CASE Skip(e)
      BY <3>1 DEF Skip
    <3>2. CASE MarkSent(e)
      BY <3>2 DEF MarkSent
    <3>3. CASE NoteFailure(e)
      BY <3>3 DEF NoteFailure
    <3> QED BY <1>12, <3>1, <3>2, <3>3
  <2> QED BY <1>9, <2>1, <2>2
<1> QED
  BY <1>2, <1>3, <1>4, <1>5, <1>6, <1>7, <1>8, <1>10, <1>11, <1>12 DEF TickStep

LEMMA InitApart == Init => Young /\ Apart
  BY DEF Init, Young, Apart, Idle, Deliver

LEMMA AlwaysApart == Spec => [](Typed /\ Young /\ Apart)
<1>1. Typed /\ Young /\ Apart /\ [Next]_vars => (Typed /\ Young /\ Apart)'
  <2> SUFFICES ASSUME Typed, Young, Apart, [Next]_vars PROVE Typed' /\ Young' /\ Apart'
    OBVIOUS
  <2>1. CASE UNCHANGED vars
    BY <2>1, StepTyped DEF vars, Young, Apart
  <2>2. CASE Next
    BY <2>2, StepTyped, OutsideApart, TickApart DEF Next
  <2> QED BY <2>1, <2>2
<1> QED BY <1>1, InitTyped, InitApart, PTL DEF Spec

LEMMA ApartOwns == Typed /\ Young /\ Apart => DelivererOwnsRow
<1> SUFFICES ASSUME Typed, Young, Apart, NEW r \in Rows
             PROVE  /\ Cardinality(Delivering(r)) <= 1
                    /\ Delivering(r) # {} => outbox[r].status = "running"
  BY DEF DelivererOwnsRow
<1>1. CASE Delivering(r) = {}
  <2>1. Cardinality(Delivering(r)) = 0
    BY <1>1, FS_EmptySet, Zenon
  <2> QED BY <1>1, <2>1
<1>2. ASSUME NEW e \in Delivering(r)
      PROVE  Cardinality(Delivering(r)) <= 1 /\ outbox[r].status = "running"
  <2>1. outbox[r].status = "running"
    BY <1>2 DEF Delivering, Young, Deliver
  <2>2. Delivering(r) = {e}
    BY <1>2 DEF Delivering, Apart, Deliver
  <2>3. Cardinality({e}) = 1
    BY FS_Singleton, Zenon
  <2> QED BY <2>1, <2>2, <2>3
<1> QED BY <1>1, <1>2

\* Two engines never deliver one row, and the row of a delivery is running, for
\* any number of engines, rows, retries and crashes.
THEOREM DeliverersOwnTheirRows == Spec => []DelivererOwnsRow
  BY AlwaysApart, ApartOwns, PTL

-----------------------------------------------------------------------------
\* A row becomes sent by the UPDATE of an engine whose POST was accepted.
LEMMA StepPosted ==
  ASSUME Typed, Posted, SentWasDelivered, Next
  PROVE  Posted' /\ SentWasDelivered'
<1>0. /\ \A e \in Engines : engine[e] \in Worker
      /\ \A r \in Rows : outbox[r] \in Row /\ posts[r] \in Nat
      /\ \A e \in Engines : engine[e].pc \in Deliver => engine[e].at \in Rows
  BY DEF Typed, TypeOK, Positioned
<1>1. ASSUME \A e \in Engines : engine'[e].pc = "accepted" => engine'[e] = engine[e],
             \A r \in Rows : outbox'[r].status = "sent" => outbox[r].status = "sent",
             posts' = posts
      PROVE  Posted' /\ SentWasDelivered'
  BY <1>1 DEF Posted, SentWasDelivered
<1>2. ASSUME NEW k \in Failures \cup {NoFailure}, NEW on \in BOOLEAN, Enqueue(k, on)
      PROVE  Posted' /\ SentWasDelivered'
  <2>1. \A r \in Rows : outbox'[r] = outbox[r] \/ outbox'[r] = NewRow(k)
    BY <1>2 DEF Enqueue, Typed, TypeOK
  <2>2. NewRow(k).status # "sent"
    BY DEF NewRow
  <2> QED BY <1>1, <1>2, <2>1, <2>2 DEF Enqueue
<1>3. CASE UNCHANGED <<outbox, engine, posts>>
  BY <1>1, <1>3
<1>4. ASSUME NEW r \in Rows, AttemptDue(r) \/ Stall(r)
      PROVE  Posted' /\ SentWasDelivered'
  <2>1. \A q \in Rows : outbox'[q].status = outbox[q].status
    BY <1>0, <1>4 DEF AttemptDue, Stall, Typed, TypeOK, Row
  <2> QED BY <1>1, <1>4, <2>1 DEF AttemptDue, Stall
<1>5. ASSUME NEW e \in Engines, Dispatch(e) \/ TickStep(e) \/ Crash(e)
      PROVE  Posted' /\ SentWasDelivered'
  <2>1. ASSUME NEW worker, worker.pc # "accepted", engine' = [engine EXCEPT ![e] = worker],
               \A r \in Rows : outbox'[r].status = "sent" => outbox[r].status = "sent",
               posts' = posts
        PROVE  Posted' /\ SentWasDelivered'
    <3>1. \A f \in Engines : engine'[f] = IF f = e THEN worker ELSE engine[f]
      BY <2>1 DEF Typed, TypeOK
    <3> QED BY <1>1, <2>1, <3>1
  <2>2. ASSUME NEW pc \in {"dispatched", "swept", "finalized", "claimed"}
        PROVE  [engine[e] EXCEPT !.pc = pc].pc # "accepted"
    BY <1>0 DEF Worker
  <2>3. ASSUME NEW row, row.status # "sent", engine[e].pc \in Deliver, Settle(e, row)
        PROVE  Posted' /\ SentWasDelivered'
    <3>1. \A r \in Rows : outbox'[r] = outbox[r] \/ outbox'[r] = row
      BY <2>3 DEF Settle, Typed, TypeOK
    <3>2. Idle.pc # "accepted"
      BY DEF Idle
    <3> QED BY <2>1, <2>3, <3>1, <3>2 DEF Settle
  <2>4. CASE Dispatch(e)
    BY <2>1, <2>2, <2>4 DEF Dispatch
  <2>5. CASE Sweep(e)
    <3>1. ASSUME NEW r \in Rows, outbox'[r].status = "sent"
          PROVE  outbox[r].status = "sent"
      <4>1. \/ outbox'[r] = NoRow \/ outbox'[r] = outbox[r]
            \/ outbox'[r] = [outbox[r] EXCEPT !.status = "queued", !.due = TRUE, !.stalled = FALSE]
        BY <2>5 DEF Sweep
      <4>2. [outbox[r] EXCEPT !.status = "queued", !.due = TRUE, !.stalled = FALSE].status = "queued"
        BY <1>0 DEF Row
      <4>3. NoRow.status = "absent"
        BY DEF NoRow
      <4> QED BY <3>1, <4>1, <4>2, <4>3
    <3>2. engine' = [engine EXCEPT ![e] = [engine[e] EXCEPT !.pc = "swept"]] /\ posts' = posts
      BY <2>5 DEF Sweep
    <3> QED BY <2>1, <2>2, <3>1, <3>2
  <2>6. CASE LockBatch(e) \/ LockGranted(e)
    <3>1. UNCHANGED <<outbox, posts>>
      BY <2>6 DEF LockBatch, LockGranted
    <3>2. CASE engine' = [engine EXCEPT ![e].pc = "finalized"]
      BY <2>1, <2>2, <3>1, <3>2
    <3>3. ASSUME NEW pc \in {"waiting", "locked", "finalized"}, NEW n, engine' = [engine EXCEPT ![e] = At(pc, n)]
          PROVE  Posted' /\ SentWasDelivered'
      <4>1. At(pc, n).pc # "accepted"
        BY DEF At
      <4> QED BY <2>1, <3>1, <3>3, <4>1
    <3> QED BY <2>6, <3>2, <3>3 DEF LockBatch, LockGranted
  <2>7. ASSUME NEW on \in BOOLEAN, Finalize(e, on) PROVE Posted' /\ SentWasDelivered'
    <3>1. At("finalized", 0).pc # "accepted" /\ NewRow(engine[e].at).status # "sent"
      BY DEF At, NewRow
    <3>2. outbox' = outbox \/ outbox' = [outbox EXCEPT ![nextRow] = NewRow(engine[e].at)]
      <4>1. CASE batch[engine[e].at].busy \/ ~on
        BY <2>7, <4>1 DEF Finalize
      <4>2. CASE ~batch[engine[e].at].busy /\ on
        BY <2>7, <4>2 DEF Finalize
      <4> QED BY <4>1, <4>2
    <3>3. \A r \in Rows : outbox'[r] = outbox[r] \/ outbox'[r] = NewRow(engine[e].at)
      BY <3>2 DEF Typed, TypeOK
    <3>4. engine' = [engine EXCEPT ![e] = At("finalized", 0)] /\ posts' = posts
      BY <2>7 DEF Finalize
    <3> QED BY <2>1, <3>1, <3>3, <3>4
  <2>8. CASE Select(e)
    <3>1. UNCHANGED <<outbox, posts>>
      BY <2>8 DEF Select
    <3>2. ASSUME NEW worker, worker.pc \in {"idle", "selected"}, engine' = [engine EXCEPT ![e] = worker]
          PROVE  Posted' /\ SentWasDelivered'
      BY <2>1, <3>1, <3>2
    <3>3. Idle.pc = "idle"
      BY DEF Idle
    <3>4. \A r \in Rows : [pc |-> "selected", at |-> r, attempts |-> outbox[r].attempts].pc = "selected"
      OBVIOUS
    <3> QED BY <2>8, <3>2, <3>3, <3>4 DEF Select
  <2>9. CASE Claim(e)
    <3>1. CASE UNCHANGED outbox /\ engine' = [engine EXCEPT ![e] = Idle]
      BY <2>1, <2>9, <3>1 DEF Claim, Idle
    <3>2. CASE /\ outbox' = [outbox EXCEPT ![engine[e].at] = [outbox[engine[e].at] EXCEPT !.status = "running"]]
               /\ engine' = [engine EXCEPT ![e].pc = "claimed"]
      <4>1. engine[e].at \in Rows /\ posts' = posts
        BY <2>9 DEF Claim, Typed, Positioned
      <4>2. \A r \in Rows : outbox'[r].status = "sent" => outbox[r].status = "sent"
        BY <1>0, <3>2, <4>1 DEF Typed, TypeOK, Row
      <4> QED BY <2>1, <2>2, <3>2, <4>1, <4>2
    <3> QED BY <2>9, <3>1, <3>2 DEF Claim
  <2>10. ASSUME NEW outcome \in Outcomes, Post(e, outcome) PROVE Posted' /\ SentWasDelivered'
    <3>1. engine[e].at \in Rows /\ UNCHANGED outbox
      BY <2>10 DEF Post, Typed, Positioned, Deliver
    <3>2. \A f \in Engines : f # e => engine'[f] = engine[f]
      BY <2>10 DEF Post, Typed, TypeOK
    <3>3. \A r \in Rows : posts'[r] >= posts[r]
      BY <1>0, <2>10, <3>1 DEF Post, Typed, TypeOK
    <3>4. engine'[e].at = engine[e].at /\ (engine'[e].pc = "accepted" => Accepted(outcome))
      BY <1>0, <2>10 DEF Post, Typed, TypeOK, Worker
    <3>5. Accepted(outcome) => posts'[engine[e].at] > 0
      BY <1>0, <2>10, <3>1 DEF Post, Accepted, Taken, Typed, TypeOK
    <3>6. posts' \in [Rows -> Nat]
      BY <2>10, <3>1 DEF Post, Typed, TypeOK
    <3>7. Posted'
      BY <1>0, <3>1, <3>2, <3>3, <3>4, <3>5, <3>6 DEF Posted, Deliver
    <3> QED BY <1>0, <3>1, <3>3, <3>6, <3>7 DEF SentWasDelivered
  <2>11. CASE Skip(e)
    <3>1. engine[e].pc \in Deliver /\ outbox[engine[e].at] \in Row
      BY <1>0, <2>11 DEF Skip, Deliver
    <3>2. [outbox[engine[e].at] EXCEPT !.status = "skipped", !.stalled = FALSE].status # "sent"
      BY <3>1 DEF Row
    <3> QED BY <2>3, <2>11, <3>1, <3>2 DEF Skip
  <2>12. CASE MarkSent(e)
    <3>1. engine[e].at \in Rows /\ posts[engine[e].at] > 0 /\ UNCHANGED posts
      BY <1>0, <2>12 DEF MarkSent, Deliver, Posted, Settle
    <3>2. \A r \in Rows : r # engine[e].at => outbox'[r] = outbox[r]
      BY <2>12 DEF MarkSent, Settle, Typed, TypeOK
    <3>3. \A f \in Engines : engine'[f] = IF f = e THEN Idle ELSE engine[f]
      BY <2>12 DEF MarkSent, Settle, Typed, TypeOK
    <3>4. Posted'
      BY <3>1, <3>3 DEF Posted, Idle
    <3> QED BY <3>1, <3>2, <3>4 DEF SentWasDelivered
  <2>13. CASE NoteFailure(e)
    <3> DEFINE row == outbox[engine[e].at]
               attempt == engine[e].attempts + 1
    <3>1. engine[e].pc \in Deliver /\ row \in Row
      BY <1>0, <2>13 DEF NoteFailure, Deliver
    <3>2. /\ [row EXCEPT !.status = "queued", !.attempts = attempt, !.due = FALSE, !.stalled = FALSE].status # "sent"
          /\ [row EXCEPT !.status = "failed", !.attempts = attempt, !.stalled = FALSE].status # "sent"
      BY <3>1 DEF Row
    <3> QED BY <2>3, <2>13, <3>1, <3>2 DEF NoteFailure
  <2>14. CASE Crash(e)
    BY <2>1, <2>14 DEF Crash, Idle
  <2> QED BY <1>5, <2>4, <2>5, <2>6, <2>7, <2>8, <2>9, <2>10, <2>11, <2>12, <2>13, <2>14 DEF TickStep
<1> QED BY <1>2, <1>3, <1>4, <1>5 DEF Next, WindowEnds, ScanEnds, JobsDrain, RetryJobs

\* A row that is marked sent was taken by the receiver, whatever was refused, lost
\* or retried before.
THEOREM SentMeansDelivered == Spec => []SentWasDelivered
<1>1. Init => Posted /\ SentWasDelivered
  BY DEF Init, Posted, SentWasDelivered, Idle, NoRow
<1>2. Typed /\ Posted /\ SentWasDelivered /\ [Next]_vars => (Posted /\ SentWasDelivered)'
  <2> SUFFICES ASSUME Typed, Posted, SentWasDelivered, [Next]_vars
               PROVE  Posted' /\ SentWasDelivered'
    OBVIOUS
  <2>1. CASE UNCHANGED vars
    BY <2>1 DEF vars, Posted, SentWasDelivered
  <2> QED BY <2>1, StepPosted
<1> QED BY <1>1, <1>2, InitTyped, StepTyped, PTL DEF Spec

-----------------------------------------------------------------------------
Announced == LockedOnce /\ OneAnnouncement

\* A step that locks nothing, completes nothing and inserts nothing for a batch.
LEMMA NothingAnnounced ==
  ASSUME Typed, Announced,
         \A e \in Engines : engine'[e].pc = "locked" => engine'[e] = engine[e],
         \A b \in Batches : batch'[b].status = batch[b].status \/ batch[b].status = "scanning",
         \A r \in Rows : outbox'[r].about = outbox[r].about \/ outbox'[r].about \notin Batches
  PROVE  Announced'
<1>1. \A e \in Engines : engine[e].pc = "locked" => engine[e].at \in Batches
  BY DEF Typed, Positioned
<1>2. LockedOnce'
  BY <1>1 DEF Announced, LockedOnce
<1>3. OneAnnouncement'
  BY DEF Announced, OneAnnouncement
<1> QED BY <1>2, <1>3 DEF Announced

\* The step of one engine that ends up without a lock and leaves batches alone.
LEMMA EngineMoves ==
  ASSUME Typed, Announced, NEW e \in Engines, NEW worker, worker.pc # "locked",
         engine' = [engine EXCEPT ![e] = worker], UNCHANGED batch,
         \A r \in Rows : outbox'[r].about = outbox[r].about \/ outbox'[r].about \notin Batches
  PROVE  Announced'
<1>1. \A f \in Engines : engine'[f] = IF f = e THEN worker ELSE engine[f]
  BY DEF Typed, TypeOK
<1> QED BY <1>1, NothingAnnounced

LEMMA OutsideAnnounced ==
  ASSUME Typed, Announced,
         \/ \E k \in Failures \cup {NoFailure}, on \in BOOLEAN : Enqueue(k, on)
         \/ \E k \in Failures : WindowEnds(k)
         \/ \E b \in Batches : ScanEnds(b) \/ JobsDrain(b) \/ RetryJobs(b)
         \/ \E r \in Rows : AttemptDue(r) \/ Stall(r)
  PROVE  Announced'
<1>0. /\ \A b \in Batches : batch[b] \in Batch
      /\ \A r \in Rows : outbox[r] \in Row
  BY DEF Typed, TypeOK
<1>1. ASSUME NEW k \in Failures \cup {NoFailure}, NEW on \in BOOLEAN, Enqueue(k, on)
      PROVE  Announced'
  <2>1. \A r \in Rows : outbox'[r] = outbox[r] \/ outbox'[r] = NewRow(k)
    BY <1>1 DEF Enqueue, Typed, TypeOK
  <2>2. NewRow(k).about \notin Batches
    BY ConstantsTyped DEF NewRow
  <2> QED BY <1>1, <2>1, <2>2, NothingAnnounced DEF Enqueue
<1>2. ASSUME NEW k \in Failures, WindowEnds(k) PROVE Announced'
  BY <1>2, NothingAnnounced DEF WindowEnds
<1>3. ASSUME NEW b \in Batches, ScanEnds(b) \/ JobsDrain(b) \/ RetryJobs(b) PROVE Announced'
  <2>1. \A c \in Batches : batch'[c].status = batch[c].status \/ batch[c].status = "scanning"
    BY <1>0, <1>3 DEF ScanEnds, JobsDrain, RetryJobs, Typed, TypeOK, Batch
  <2> QED BY <1>3, <2>1, NothingAnnounced DEF ScanEnds, JobsDrain, RetryJobs
<1>4. ASSUME NEW r \in Rows, AttemptDue(r) \/ Stall(r) PROVE Announced'
  <2>1. \A q \in Rows : outbox'[q].about = outbox[q].about
    BY <1>0, <1>4 DEF AttemptDue, Stall, Typed, TypeOK, Row
  <2> QED BY <1>4, <2>1, NothingAnnounced DEF AttemptDue, Stall
<1> QED BY <1>1, <1>2, <1>3, <1>4

LEMMA TickAnnounced ==
  ASSUME Typed, Announced, NEW e \in Engines, Dispatch(e) \/ TickStep(e) \/ Crash(e)
  PROVE  Announced'
<1>0. /\ engine[e] \in Worker /\ \A r \in Rows : outbox[r] \in Row
      /\ \A f \in Engines : engine[f].pc \in {"waiting", "locked"} => engine[f].at \in Batches
  BY DEF Typed, TypeOK, Positioned
<1>1. ASSUME NEW pc \in {"dispatched", "swept", "finalized", "claimed", "accepted", "refused"}
      PROVE  [engine[e] EXCEPT !.pc = pc].pc # "locked"
  BY <1>0 DEF Worker
<1>2. CASE Dispatch(e)
  BY <1>1, <1>2, EngineMoves DEF Dispatch
<1>3. CASE Sweep(e)
  <2>1. ASSUME NEW r \in Rows
        PROVE  outbox'[r].about = outbox[r].about \/ outbox'[r].about \notin Batches
    <3>1. \/ outbox'[r] = NoRow \/ outbox'[r] = outbox[r]
          \/ outbox'[r] = [outbox[r] EXCEPT !.status = "queued", !.due = TRUE, !.stalled = FALSE]
      BY <1>3 DEF Sweep
    <3>2. [outbox[r] EXCEPT !.status = "queued", !.due = TRUE, !.stalled = FALSE].about = outbox[r].about
      BY <1>0 DEF Row
    <3>3. NoRow.about \notin Batches
      BY ConstantsTyped DEF NoRow
    <3> QED BY <3>1, <3>2, <3>3
  <2>2. engine' = [engine EXCEPT ![e] = [engine[e] EXCEPT !.pc = "swept"]] /\ UNCHANGED batch
    BY <1>3 DEF Sweep
  <2> QED BY <1>1, <2>1, <2>2, EngineMoves
<1>4. ASSUME NEW b \in Batches, ~Locked(b), batch[b].status = "processing",
             engine' = [engine EXCEPT ![e] = At("locked", b)], UNCHANGED <<outbox, batch>>
      PROVE  Announced'
  <2>1. \A f \in Engines : engine'[f] = IF f = e THEN At("locked", b) ELSE engine[f]
    BY <1>4 DEF Typed, TypeOK
  <2>2. At("locked", b).at = b
    BY DEF At
  <2>3. \A f \in Engines : engine[f].pc = "locked" => engine[f].at # b
    BY <1>4 DEF Locked
  <2>4. LockedOnce'
    BY <1>4, <2>1, <2>2, <2>3 DEF Announced, LockedOnce
  <2>5. OneAnnouncement'
    BY <1>4 DEF Announced, OneAnnouncement
  <2> QED BY <2>4, <2>5 DEF Announced
<1>5. CASE LockBatch(e)
  <2>1. UNCHANGED <<outbox, batch>>
    BY <1>5 DEF LockBatch
  <2>2. CASE engine' = [engine EXCEPT ![e].pc = "finalized"]
    BY <1>1, <2>1, <2>2, EngineMoves
  <2>3. ASSUME NEW b \in Batches, engine' = [engine EXCEPT ![e] = At("waiting", b)]
        PROVE  Announced'
    <3>1. At("waiting", b).pc # "locked"
      BY DEF At
    <3> QED BY <2>1, <2>3, <3>1, EngineMoves
  <2> QED BY <1>4, <1>5, <2>1, <2>2, <2>3 DEF LockBatch, Oldest
<1>6. CASE LockGranted(e)
  <2>1. UNCHANGED <<outbox, batch>> /\ engine[e].at \in Batches /\ ~Locked(engine[e].at)
    BY <1>0, <1>6 DEF LockGranted
  <2>2. CASE batch[engine[e].at].status = "processing"
    BY <1>4, <1>6, <2>1, <2>2 DEF LockGranted
  <2>3. CASE batch[engine[e].at].status # "processing"
    <3>1. At("finalized", 0).pc # "locked"
      BY DEF At
    <3> QED BY <1>6, <2>1, <2>3, <3>1, EngineMoves DEF LockGranted
  <2> QED BY <2>2, <2>3
<1>7. ASSUME NEW on \in BOOLEAN, Finalize(e, on) PROVE Announced'
  <2> DEFINE b == engine[e].at
  <2>1. /\ engine[e].pc = "locked" /\ b \in Batches /\ batch[b].status = "processing"
        /\ engine' = [engine EXCEPT ![e] = At("finalized", 0)]
    BY <1>0, <1>7 DEF Finalize, Announced, LockedOnce
  <2>2. At("finalized", 0).pc # "locked"
    BY DEF At
  <2>3. CASE batch[b].busy
    BY <1>7, <2>1, <2>2, <2>3, EngineMoves DEF Finalize
  <2>4. CASE ~batch[b].busy
    <3>1. \A f \in Engines : engine'[f] = IF f = e THEN At("finalized", 0) ELSE engine[f]
      BY <2>1 DEF Typed, TypeOK
    <3>2. \A f \in Engines : f # e /\ engine[f].pc = "locked" => engine[f].at # b
      BY <2>1 DEF Announced, LockedOnce
    <3>3. /\ batch'[b].status = "completed"
          /\ \A c \in Batches : c # b => batch'[c] = batch[c]
      BY <1>7, <2>1, <2>4 DEF Finalize, Typed, TypeOK, Batch
    <3>4. LockedOnce'
      BY <1>0, <2>2, <3>1, <3>2, <3>3 DEF Announced, LockedOnce
    <3>5. \A r \in Rows : outbox[r].about # b
      BY <2>1 DEF Announced, OneAnnouncement
    <3>6. CASE UNCHANGED outbox
      <4>1. OneAnnouncement'
        BY <3>3, <3>6 DEF Announced, OneAnnouncement
      <4> QED BY <3>4, <4>1 DEF Announced
    <3>7. CASE outbox' = [outbox EXCEPT ![nextRow] = NewRow(b)]
      <4>1. \A r \in Rows : outbox'[r] = IF r = nextRow THEN NewRow(b) ELSE outbox[r]
        BY <3>7 DEF Typed, TypeOK
      <4>2. NewRow(b).about = b
        BY DEF NewRow
      <4>3. OneAnnouncement'
        BY <3>3, <3>5, <4>1, <4>2 DEF Announced, OneAnnouncement
      <4> QED BY <3>4, <4>3 DEF Announced
    <3>8. CASE on
      BY <1>7, <2>4, <3>7, <3>8 DEF Finalize
    <3>9. CASE ~on
      BY <1>7, <2>4, <3>6, <3>9 DEF Finalize
    <3> QED BY <3>8, <3>9
  <2> QED BY <2>3, <2>4
<1>8. CASE Select(e)
  <2>1. UNCHANGED <<outbox, batch>>
    BY <1>8 DEF Select
  <2>2. ASSUME NEW worker, worker.pc \in {"idle", "selected"}, engine' = [engine EXCEPT ![e] = worker]
        PROVE  Announced'
    BY <2>1, <2>2, EngineMoves
  <2>3. Idle.pc = "idle"
    BY DEF Idle
  <2>4. \A r \in Rows : [pc |-> "selected", at |-> r, attempts |-> outbox[r].attempts].pc = "selected"
    OBVIOUS
  <2> QED BY <1>8, <2>2, <2>3, <2>4 DEF Select
<1>9. CASE Claim(e)
  <2>1. engine[e].at \in Rows /\ UNCHANGED batch
    BY <1>9 DEF Claim, Typed, Positioned
  <2>2. CASE UNCHANGED outbox /\ engine' = [engine EXCEPT ![e] = Idle]
    BY <2>1, <2>2, EngineMoves DEF Idle
  <2>3. CASE /\ outbox' = [outbox EXCEPT ![engine[e].at] = [outbox[engine[e].at] EXCEPT !.status = "running"]]
             /\ engine' = [engine EXCEPT ![e].pc = "claimed"]
    <3>1. \A r \in Rows : outbox'[r].about = outbox[r].about
      BY <1>0, <2>1, <2>3 DEF Typed, TypeOK, Row
    <3> QED BY <1>1, <2>1, <2>3, <3>1, EngineMoves
  <2> QED BY <1>9, <2>2, <2>3 DEF Claim
<1>10. ASSUME NEW outcome \in Outcomes, Post(e, outcome) PROVE Announced'
  <2>1. UNCHANGED <<outbox, batch>>
    BY <1>10 DEF Post
  <2>2. PICK pc \in {"accepted", "refused"} : engine' = [engine EXCEPT ![e] = [engine[e] EXCEPT !.pc = pc]]
    <3>1. CASE Accepted(outcome)
      BY <1>10, <3>1 DEF Post
    <3>2. CASE ~Accepted(outcome)
      BY <1>10, <3>2 DEF Post
    <3> QED BY <3>1, <3>2
  <2> QED BY <1>1, <2>1, <2>2, EngineMoves
<1>11. ASSUME NEW row, row.about = outbox[engine[e].at].about, Settle(e, row)
       PROVE  Announced'
  <2>1. \A r \in Rows : outbox'[r].about = outbox[r].about
    BY <1>11 DEF Settle, Typed, TypeOK
  <2> QED BY <1>11, <2>1, EngineMoves DEF Settle, Idle
<1>12. CASE Skip(e) \/ MarkSent(e) \/ NoteFailure(e)
  <2> DEFINE row == outbox[engine[e].at]
             attempt == engine[e].attempts + 1
  <2>1. row \in Row
    BY <1>0, <1>12 DEF Skip, MarkSent, NoteFailure, Typed, Positioned, Deliver
  <2>2. /\ [row EXCEPT !.status = "skipped", !.stalled = FALSE].about = row.about
        /\ [row EXCEPT !.status = "sent", !.stalled = FALSE].about = row.about
        /\ [row EXCEPT !.status = "queued", !.attempts = attempt, !.due = FALSE, !.stalled = FALSE].about = row.about
        /\ [row EXCEPT !.status = "failed", !.attempts = attempt, !.stalled = FALSE].about = row.about
    BY <2>1 DEF Row
  <2>3. CASE Skip(e)
    BY <1>11, <2>2, <2>3 DEF Skip
  <2>4. CASE MarkSent(e)
    BY <1>11, <2>2, <2>4 DEF MarkSent
  <2>5. CASE NoteFailure(e)
    BY <1>11, <2>2, <2>5 DEF NoteFailure
  <2> QED BY <1>12, <2>3, <2>4, <2>5
<1>13. CASE Crash(e)
  BY <1>13, EngineMoves DEF Crash, Idle
<1> QED
  BY <1>2, <1>3, <1>5, <1>6, <1>7, <1>8, <1>9, <1>10, <1>12, <1>13 DEF TickStep

LEMMA AnnouncedIsOnce == Announced => AnnouncedOnce
<1> SUFFICES ASSUME Announced, NEW b \in Batches
             PROVE  Cardinality({r \in Rows : outbox[r].about = b}) <= 1
  BY DEF AnnouncedOnce
<1> DEFINE S == {r \in Rows : outbox[r].about = b}
<1>1. CASE S = {}
  <2>1. Cardinality(S) = 0
    BY <1>1, FS_EmptySet, Zenon
  <2> QED BY <2>1
<1>2. ASSUME NEW r \in S PROVE Cardinality(S) <= 1
  <2>1. S = {r}
    BY <1>2 DEF Announced, OneAnnouncement
  <2>2. Cardinality({r}) = 1
    BY FS_Singleton, Zenon
  <2> QED BY <2>1, <2>2
<1> QED BY <1>1, <1>2

\* However many engines complete drained full scans, and wherever a tick is cut
\* off, a full scan is announced by one notification at most.
THEOREM ScansAreAnnouncedOnce == Spec => []AnnouncedOnce
<1>1. Init => Announced
  BY ConstantsTyped DEF Init, Announced, LockedOnce, OneAnnouncement, Idle, NoRow
<1>2. Typed /\ Announced /\ [Next]_vars => Announced'
  <2> SUFFICES ASSUME Typed, Announced, [Next]_vars PROVE Announced'
    OBVIOUS
  <2>1. CASE UNCHANGED vars
    BY <2>1 DEF vars, Announced, LockedOnce, OneAnnouncement
  <2> QED BY <2>1, OutsideAnnounced, TickAnnounced DEF Next
<1> QED BY <1>1, <1>2, InitTyped, StepTyped, AnnouncedIsOnce, PTL DEF Spec
=============================================================================
