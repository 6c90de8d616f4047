------------------------- MODULE NotificationOutbox -------------------------
(***************************************************************************)
(* The notification outbox (server/notifications.ts): business transactions *)
(* insert a row together with the state they change, engines deliver rows   *)
(* one at a time over HTTP, and a full-scan batch whose jobs have drained is *)
(* completed and announced in one transaction that locks the batch's row.   *)
(*                                                                         *)
(* Rows and batches are numbered in the order of created_at, id.  A step is *)
(* one SQL statement, one short transaction or one HTTP exchange.  The      *)
(* user's switch is read through cached settings, so every reading of it is *)
(* an input.                                                               *)
(***************************************************************************)
EXTENDS Naturals, FiniteSets

CONSTANTS
  Engines,          \* execution engines on the one database
  Failures,         \* what failureDedupeKey tells apart
  NoFailure,        \* stands for an event that is not merged with others
  MaxBatches,       \* bound: full-scan batches
  MaxRows,          \* bound: notifications ever queued
  MaxCrashes,       \* bound: deliveries cut off by a crash or a lost statement
  MaxDeliveryAttempts,
  LaterWork         \* TRUE: after a crash, later notifications dispatch the handler

ASSUME FailuresAssumption ==
  NoFailure \notin Failures /\ (Failures \cup {NoFailure}) \cap Nat = {}
ASSUME BoundsAssumption ==
  /\ MaxBatches \in Nat /\ MaxRows \in Nat /\ MaxCrashes \in Nat
  /\ MaxBatches <= MaxRows
  /\ MaxDeliveryAttempts \in Nat \ {0}
ASSUME ModeAssumption == LaterWork \in BOOLEAN

VARIABLES
  outbox,     \* notification_outbox
  nextRow,    \* its identity sequence
  window,     \* notification_dedupes: is the half hour of a failure running
  batch,      \* full_scan_batches, and whether jobs of the batch are active
  engine,     \* per engine: progress of runNotificationWorkerTick
  posts,      \* history: how often the receiver took each row
  crashes     \* history: deliveries cut off so far

vars == <<outbox, nextRow, window, batch, engine, posts, crashes>>

Rows == 1..MaxRows
Batches == 1..MaxBatches
Ended == {"sent", "failed", "skipped"}

Row == [status : {"absent", "queued", "running"} \cup Ended,
        about : Failures \cup {NoFailure} \cup Batches,
        attempts : 0..MaxDeliveryAttempts,
        due : BOOLEAN,          \* next_attempt_at has come
        stalled : BOOLEAN]      \* running, and started_at is ten minutes old

NoRow == [status |-> "absent", about |-> NoFailure, attempts |-> 0, due |-> FALSE, stalled |-> FALSE]
NewRow(about) == [status |-> "queued", about |-> about, attempts |-> 0, due |-> TRUE, stalled |-> FALSE]

Batch == [status : {"scanning", "processing", "completed"},
          busy : BOOLEAN,       \* a release, magnet or library job is active
          retried : BOOLEAN]    \* bound: the user requeues jobs of a batch once

Worker == [pc : {"idle", "dispatched", "swept", "waiting", "locked", "finalized",
                 "selected", "claimed", "accepted", "refused"},
           at : 0..MaxRows,                            \* the batch, then the row
           attempts : 0..(MaxDeliveryAttempts - 1)]    \* attempt_count as selected

Idle == [pc |-> "idle", at |-> 0, attempts |-> 0]
At(pc, n) == [pc |-> pc, at |-> n, attempts |-> 0]

TypeOK ==
  /\ outbox \in [Rows -> Row]
  /\ nextRow \in 1..(MaxRows + 1)
  /\ window \in [Failures -> BOOLEAN]
  /\ batch \in [Batches -> Batch]
  /\ engine \in [Engines -> Worker]
  /\ posts \in [Rows -> Nat]
  /\ crashes \in 0..MaxCrashes

Init ==
  /\ outbox = [r \in Rows |-> NoRow]
  /\ nextRow = 1
  /\ window = [k \in Failures |-> FALSE]
  /\ batch = [b \in Batches |-> [status |-> "scanning", busy |-> TRUE, retried |-> FALSE]]
  /\ engine = [e \in Engines |-> Idle]
  /\ posts = [r \in Rows |-> 0]
  /\ crashes = 0

-----------------------------------------------------------------------------
(* Reading the tables *)

Due(r) == outbox[r].status = "queued" /\ outbox[r].due

StalledNever(r) == FALSE
Stalled(r) == outbox[r].status = "running" /\ outbox[r].stalled

ClaimableById(r) == TRUE
Claimable(r) == outbox[r].status = "queued"

MayRetry(attempt) == attempt < MaxDeliveryAttempts

\* What the receiver's answer is: an error status is an answer too.
Outcomes == {"ok", "answer_lost", "error_status", "unreached"}
Taken(outcome) == outcome \in {"ok", "answer_lost"}
AcceptedIfAnswered(outcome) == outcome \in {"ok", "error_status"}
Accepted(outcome) == outcome = "ok"

OpensWindow(switchedOn) == switchedOn

\* The batch that finalizeOneFullScanBatch reads: the oldest one in processing.
Oldest(b) ==
  /\ batch[b].status = "processing"
  /\ \A a \in Batches : a < b => batch[a].status # "processing"

\* SELECT ... FOR UPDATE: another engine's transaction holds the batch.
NeverLocked(b) == FALSE
Locked(b) == \E e \in Engines : engine[e].pc = "locked" /\ engine[e].at = b

\* runnableHandlers().notification
RunnableForRows == \E r \in Rows : Due(r)
RunnableForBatches == \E b \in Batches : batch[b].status = "processing" /\ ~batch[b].busy
Runnable ==
  \/ \E r \in Rows : Due(r)
  \/ \E b \in Batches : batch[b].status = "processing" /\ ~batch[b].busy

Delivering(r) ==
  {e \in Engines : engine[e].pc \in {"claimed", "accepted", "refused"} /\ engine[e].at = r}

-----------------------------------------------------------------------------
(* Business transactions and the user *)

\* The rows that the announcements of the unfinished batches will take.
Reserved == Cardinality({b \in Batches : batch[b].status # "completed"})

\* enqueueNotification for a failed operation (k names what is merged) or for
\* another event.
Enqueue(k, switchedOn) ==
  /\ k \in Failures => ~window[k]
  /\ nextRow + Reserved <= MaxRows
  /\ IF switchedOn
     THEN /\ outbox' = [outbox EXCEPT ![nextRow] = NewRow(k)]
          /\ nextRow' = nextRow + 1
     ELSE UNCHANGED <<outbox, nextRow>>
  /\ window' = [f \in Failures |-> window[f] \/ (f = k /\ OpensWindow(switchedOn))]
  /\ UNCHANGED <<batch, engine, posts, crashes>>

WindowEnds(k) ==
  /\ window[k]
  /\ window' = [window EXCEPT ![k] = FALSE]
  /\ UNCHANGED <<outbox, nextRow, batch, engine, posts, crashes>>

\* A full scan has read its last page, and later the jobs of its entries end.
ScanEnds(b) ==
  /\ batch[b].status = "scanning"
  /\ batch' = [batch EXCEPT ![b].status = "processing"]
  /\ UNCHANGED <<outbox, nextRow, window, engine, posts, crashes>>

JobsDrain(b) ==
  /\ batch[b].busy
  /\ batch' = [batch EXCEPT ![b].busy = FALSE]
  /\ UNCHANGED <<outbox, nextRow, window, engine, posts, crashes>>

RetryJobs(b) ==
  /\ ~batch[b].busy
  /\ ~batch[b].retried
  /\ batch' = [batch EXCEPT ![b].busy = TRUE, ![b].retried = TRUE]
  /\ UNCHANGED <<outbox, nextRow, window, engine, posts, crashes>>

-----------------------------------------------------------------------------
(* runNotificationWorkerTick *)

Dispatch(e) ==
  /\ engine[e].pc = "idle"
  /\ Runnable \/ (LaterWork /\ crashes > 0)
  /\ engine' = [engine EXCEPT ![e].pc = "dispatched"]
  /\ UNCHANGED <<outbox, nextRow, window, batch, posts, crashes>>

\* maintainNotificationOutbox drops ended rows that are a month old (any whose
\* half hour is over), recoverStalledNotifications requeues; they share no row.
Sweep(e) ==
  /\ engine[e].pc = "dispatched"
  /\ \E old \in SUBSET {r \in Rows : /\ outbox[r].status \in Ended
                                     /\ \A k \in Failures : outbox[r].about = k => ~window[k]} :
       outbox' = [r \in Rows |->
         IF r \in old THEN NoRow
         ELSE IF Stalled(r)
         THEN [outbox[r] EXCEPT !.status = "queued", !.due = TRUE, !.stalled = FALSE]
         ELSE outbox[r]]
  /\ engine' = [engine EXCEPT ![e].pc = "swept"]
  /\ UNCHANGED <<nextRow, window, batch, posts, crashes>>

\* finalizeOneFullScanBatch takes the batch's row lock, or waits for it and then
\* reads the row again.
LockBatch(e) ==
  /\ engine[e].pc = "swept"
  /\ \/ /\ \A b \in Batches : ~Oldest(b)
        /\ engine' = [engine EXCEPT ![e].pc = "finalized"]
     \/ \E b \in Batches :
          /\ Oldest(b)
          /\ \/ Locked(b) /\ engine' = [engine EXCEPT ![e] = At("waiting", b)]
             \/ ~Locked(b) /\ engine' = [engine EXCEPT ![e] = At("locked", b)]
  /\ UNCHANGED <<outbox, nextRow, window, batch, posts, crashes>>

LockGranted(e) ==
  /\ engine[e].pc = "waiting"
  /\ ~Locked(engine[e].at)
  /\ IF batch[engine[e].at].status = "processing"
     THEN engine' = [engine EXCEPT ![e] = At("locked", engine[e].at)]
     ELSE engine' = [engine EXCEPT ![e] = At("finalized", 0)]
  /\ UNCHANGED <<outbox, nextRow, window, batch, posts, crashes>>

\* The rest of the transaction: announce and complete, unless a job is active.
Finalize(e, switchedOn) ==
  /\ engine[e].pc = "locked"
  /\ LET b == engine[e].at IN
       IF batch[b].busy
       THEN UNCHANGED <<batch, outbox, nextRow>>
       ELSE /\ batch' = [batch EXCEPT ![b].status = "completed"]
            /\ IF switchedOn
               THEN /\ nextRow <= MaxRows
                    /\ outbox' = [outbox EXCEPT ![nextRow] = NewRow(b)]
                    /\ nextRow' = nextRow + 1
               ELSE UNCHANGED <<outbox, nextRow>>
  /\ engine' = [engine EXCEPT ![e] = At("finalized", 0)]
  /\ UNCHANGED <<window, posts, crashes>>

Select(e) ==
  /\ engine[e].pc = "finalized"
  /\ \/ /\ \A r \in Rows : ~Due(r)
        /\ engine' = [engine EXCEPT ![e] = Idle]
     \/ \E r \in Rows :
          /\ Due(r)
          /\ \A q \in Rows : Due(q) => r <= q
          /\ engine' = [engine EXCEPT ![e] =
               [pc |-> "selected", at |-> r, attempts |-> outbox[r].attempts]]
  /\ UNCHANGED <<outbox, nextRow, window, batch, posts, crashes>>

Claim(e) ==
  /\ engine[e].pc = "selected"
  /\ LET r == engine[e].at IN
       IF outbox[r].status # "absent" /\ Claimable(r)
       THEN /\ outbox' = [outbox EXCEPT ![r] = [outbox[r] EXCEPT !.status = "running"]]
            /\ engine' = [engine EXCEPT ![e].pc = "claimed"]
       ELSE /\ engine' = [engine EXCEPT ![e] = Idle]
            /\ UNCHANGED outbox
  /\ UNCHANGED <<nextRow, window, batch, posts, crashes>>

\* The statements that end a delivery name the row and not its state.
Settle(e, row) ==
  LET r == engine[e].at IN
    /\ outbox' = IF outbox[r].status = "absent" THEN outbox ELSE [outbox EXCEPT ![r] = row]
    /\ engine' = [engine EXCEPT ![e] = Idle]
    /\ UNCHANGED <<nextRow, window, batch, posts, crashes>>

\* The switch was found off.
Skip(e) ==
  /\ engine[e].pc = "claimed"
  /\ Settle(e, [outbox[engine[e].at] EXCEPT !.status = "skipped", !.stalled = FALSE])

Post(e, outcome) ==
  /\ engine[e].pc = "claimed"
  /\ posts' = IF Taken(outcome)
              THEN [posts EXCEPT ![engine[e].at] = posts[engine[e].at] + 1] ELSE posts
  /\ engine' = [engine EXCEPT ![e].pc = IF Accepted(outcome) THEN "accepted" ELSE "refused"]
  /\ UNCHANGED <<outbox, nextRow, window, batch, crashes>>

MarkSent(e) ==
  /\ engine[e].pc = "accepted"
  /\ Settle(e, [outbox[engine[e].at] EXCEPT !.status = "sent", !.stalled = FALSE])

\* The catch block, which also runs when the delivery was accepted and the
\* UPDATE to 'sent' failed.
NoteFailure(e) ==
  /\ engine[e].pc \in {"accepted", "refused"}
  /\ LET attempt == engine[e].attempts + 1
         row == outbox[engine[e].at] IN
       IF MayRetry(attempt)
       THEN Settle(e, [row EXCEPT !.status = "queued", !.attempts = attempt, !.due = FALSE,
                                  !.stalled = FALSE])
       ELSE Settle(e, [row EXCEPT !.status = "failed", !.attempts = attempt, !.stalled = FALSE])

\* The engine dies, or the statement that should end the tick is lost.
Crash(e) ==
  /\ engine[e].pc # "idle"
  /\ crashes < MaxCrashes
  /\ crashes' = crashes + 1
  /\ engine' = [engine EXCEPT ![e] = Idle]
  /\ UNCHANGED <<outbox, nextRow, window, batch, posts>>

-----------------------------------------------------------------------------
(* Time *)

AttemptDue(r) ==
  /\ outbox[r].status = "queued"
  /\ ~outbox[r].due
  /\ outbox' = [outbox EXCEPT ![r].due = TRUE]
  /\ UNCHANGED <<nextRow, window, batch, engine, posts, crashes>>

\* A delivery ends within its fifteen-second timeout, so only an abandoned row
\* grows ten minutes old.
Stall(r) ==
  /\ outbox[r].status = "running"
  /\ ~outbox[r].stalled
  /\ Delivering(r) = {}
  /\ outbox' = [outbox EXCEPT ![r].stalled = TRUE]
  /\ UNCHANGED <<nextRow, window, batch, engine, posts, crashes>>

TickStep(e) ==
  \/ Sweep(e) \/ LockBatch(e) \/ LockGranted(e)
  \/ \E switchedOn \in BOOLEAN : Finalize(e, switchedOn)
  \/ Select(e) \/ Claim(e) \/ Skip(e)
  \/ \E outcome \in Outcomes : Post(e, outcome)
  \/ MarkSent(e) \/ NoteFailure(e)

Next ==
  \/ \E e \in Engines : Dispatch(e) \/ TickStep(e) \/ Crash(e)
  \/ \E k \in Failures \cup {NoFailure}, switchedOn \in BOOLEAN : Enqueue(k, switchedOn)
  \/ \E k \in Failures : WindowEnds(k)
  \/ \E b \in Batches : ScanEnds(b) \/ JobsDrain(b) \/ RetryJobs(b)
  \/ \E r \in Rows : AttemptDue(r) \/ Stall(r)

Spec == Init /\ [][Next]_vars

\* Statements return, timers fire, a POST is answered or times out, and the jobs
\* of a batch end.
Fairness ==
  /\ \A e \in Engines : WF_vars(Dispatch(e)) /\ WF_vars(TickStep(e))
  /\ \A b \in Batches : WF_vars(JobsDrain(b))
  /\ \A r \in Rows : WF_vars(AttemptDue(r)) /\ WF_vars(Stall(r))

FairSpec == Spec /\ Fairness

-----------------------------------------------------------------------------
(* Properties *)

\* A notification is delivered by one engine at a time, and its row says so: the
\* statements that end a delivery never meet a row in another state.
DelivererOwnsRow ==
  \A r \in Rows :
    /\ Cardinality(Delivering(r)) <= 1
    /\ Delivering(r) # {} => outbox[r].status = "running"

\* A row marked sent was taken by the receiver: an error status, a lost answer
\* and an unreachable receiver are never taken for a delivery.
SentWasDelivered == \A r \in Rows : outbox[r].status = "sent" => posts[r] > 0

\* A full scan is announced once, whichever engines finalize it at a time.
AnnouncedOnce ==
  \A b \in Batches : Cardinality({r \in Rows : outbox[r].about = b}) <= 1

\* Every notification of a committed transition is sent, given up after its
\* attempts, or dropped by the user's switch.
EveryNotificationSettles ==
  \A r \in Rows : outbox[r].status = "queued" ~> outbox[r].status \notin {"queued", "running"}

\* Every finished full scan is completed once its jobs have drained, older
\* batches first.
EveryBatchCompletes ==
  \A b \in Batches : batch[b].status = "processing" ~> batch[b].status = "completed"
=============================================================================
