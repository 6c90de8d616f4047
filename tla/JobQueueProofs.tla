--------------------------- MODULE JobQueueProofs ---------------------------
(***************************************************************************)
(* Theorems about JobQueue for any engines, producers, subjects and bounds. *)
(* Unless a theorem says otherwise it needs Disciplined: either no handler  *)
(* outlives the ten minutes of the sweep, or one engine serves the queue.   *)
(***************************************************************************)
EXTENDS JobQueue, FiniteSetTheorems, TLAPS

Disciplined == ~OverrunAllowed \/ \A e, f \in Engines : e = f

\* Rows are inserted in order, and an unfinished row has an attempt left.
RowsInOrder ==
  \A j \in JobIds :
    /\ j >= nextId => job[j] = NoRow
    /\ job[j].status \in ActiveStatus => job[j].attempts < MaxAttempts

\* An engine that chose a row chose one that was inserted.
ChosenRowsExist ==
  \A e \in Engines :
    engine[e].pc \in {"selected", "working"}
    => engine[e].job \in JobIds /\ engine[e].job < nextId

\* Two executions are executions of different rows.
Apart ==
  \A e, f \in Engines :
    /\ engine[e].pc = "working"
    /\ engine[f].pc = "working"
    /\ engine[e].job = engine[f].job
    => e = f

\* Without overruns the row of a running execution is younger than the sweep's cutoff.
Prompt ==
  ~OverrunAllowed =>
    \A e \in Engines : engine[e].pc = "working" => ~job[engine[e].job].stalled

Typed == TypeOK /\ RowsInOrder /\ ChosenRowsExist

Held == ExecutorOwnsRow /\ Apart /\ Prompt

-----------------------------------------------------------------------------
\* What one row update leaves of the table: the form every single-row statement has.
LEMMA ConstantsTyped == /\ JobIds \subseteq Nat
                        /\ MaxJobs \in Nat /\ MaxCrashes \in Nat
                        /\ MaxAttempts \in Nat /\ MaxAttempts > 0
                        /\ 0 \notin JobIds
  BY BoundsAssumption DEF JobIds

LEMMA NoRowTyped == NoRow \in Row
  BY ConstantsTyped DEF NoRow, Row, Priorities

LEMMA IdleTyped == Idle \in Worker /\ NoRequest \in Request
  BY ConstantsTyped DEF Idle, Worker, NoRequest, Request, Priorities, QueueAttempts

\* The initial table is empty and nobody holds a row.
LEMMA InitTyped == Init => Typed
  BY ConstantsTyped, NoRowTyped, IdleTyped
  DEF Init, Typed, TypeOK, RowsInOrder, ChosenRowsExist, NoRow, Idle, ActiveStatus, Executing

\* Requests keep the table typed and its rows in order.
LEMMA ProducerTyped ==
  ASSUME NEW p \in Producers, Typed, ProducerStep(p)
  PROVE Typed'
<1> USE ConstantsTyped, NoRowTyped, IdleTyped
<1>0. producer[p] \in Request
  BY DEF Typed, TypeOK
<1>1. ASSUME NEW s \in Subjects, NEW priority \in Priorities, Ask(p, s, priority)
      PROVE Typed'
  BY <1>1 DEF Ask, Typed, TypeOK, RowsInOrder, ChosenRowsExist, Request, QueueAttempts
<1>2. CASE LookUp(p)
  <2>1. [producer[p] EXCEPT !.pc = "insert"] \in Request
    BY <1>0 DEF Request
  <2>2. \A j \in JobIds : [producer[p] EXCEPT !.pc = "promote", !.found = j] \in Request
    BY <1>0 DEF Request
  <2>3. producer' \in [Producers -> Request]
    BY <1>2, <2>1, <2>2 DEF LookUp, Typed, TypeOK, ActiveRows
  <2> QED BY <1>2, <2>3 DEF LookUp, Typed, TypeOK, RowsInOrder, ChosenRowsExist
<1>3. CASE Promote(p)
  <2>0. \A j \in JobIds : [job[j] EXCEPT !.priority = producer[p].priority] \in Row
    BY <1>0 DEF Typed, TypeOK, Request, Row
  <2>1. job' \in [JobIds -> Row]
    <3>1. \A j \in JobIds :
            \/ job'[j] = job[j]
            \/ job'[j] = [job[j] EXCEPT !.priority = producer[p].priority]
            \/ job'[j] = [job[j] EXCEPT !.priority = job[j].priority]
      BY <1>3 DEF Promote, Typed, TypeOK
    <3>2. \A j \in JobIds : [job[j] EXCEPT !.priority = job[j].priority] \in Row
      BY DEF Typed, TypeOK, Row
    <3> QED BY <1>3, <2>0, <3>1, <3>2 DEF Promote, Typed, TypeOK
  <2>2. \A j \in JobIds : /\ job'[j].status = job[j].status
                          /\ job'[j].attempts = job[j].attempts
                          /\ job[j] = NoRow => job'[j] = NoRow
    BY <1>0, <1>3 DEF Promote, Typed, TypeOK, Request, Row, NoRow
  <2> QED BY <1>3, <2>1, <2>2 DEF Promote, Typed, TypeOK, RowsInOrder, ChosenRowsExist
<1>4. CASE Insert(p)
  <2>1. NewRow(producer[p].subject, producer[p].priority) \in Row
    BY <1>0 DEF NewRow, Row, Request
  <2>2. job' \in [JobIds -> Row] /\ nextId \in JobIds
    BY <1>4, <2>1 DEF Insert, Typed, TypeOK, JobIds
  <2>3. \A j \in JobIds : j # nextId => job'[j] = job[j]
    BY <1>4 DEF Insert, Typed, TypeOK
  <2>4. job'[nextId].attempts = 0
    BY <1>4, <2>2 DEF Insert, Typed, TypeOK, NewRow
  <2>5. nextId' = nextId + 1 /\ nextId' \in 1..(MaxJobs + 1)
    BY <1>4 DEF Insert, Typed, TypeOK
  <2>6. RowsInOrder'
    BY <2>2, <2>3, <2>4, <2>5 DEF Typed, TypeOK, RowsInOrder, JobIds
  <2>7. ChosenRowsExist'
    BY <1>4, <2>5 DEF Insert, Typed, TypeOK, ChosenRowsExist, JobIds
  <2> QED BY <1>4, <2>2, <2>5, <2>6, <2>7 DEF Insert, Typed, TypeOK
<1>5. CASE LoseRace(p)
  <2>1. producer[p].tries + 1 < QueueAttempts =>
          [producer[p] EXCEPT !.pc = "lookup", !.tries = producer[p].tries + 1] \in Request
    <3>1. producer[p].tries \in 0..3
      BY <1>0 DEF Request, QueueAttempts
    <3>2. producer[p].tries + 1 < QueueAttempts => producer[p].tries + 1 \in 0..QueueAttempts
      BY <3>1 DEF QueueAttempts
    <3> QED BY <1>0, <3>2 DEF Request
  <2>2. producer' \in [Producers -> Request]
    BY <1>5, <2>1 DEF LoseRace, Typed, TypeOK
  <2> QED BY <1>5, <2>2 DEF LoseRace, Typed, TypeOK, RowsInOrder, ChosenRowsExist
<1> QED BY <1>1, <1>2, <1>3, <1>4, <1>5 DEF ProducerStep

\* So do deletions, the cancellation of a rule's queue, and time.
LEMMA TableTyped ==
  ASSUME Typed, UserStep \/ Time
  PROVE Typed'
<1> USE ConstantsTyped, NoRowTyped
<1>1. ASSUME NEW s \in Subjects, NEW statuses, Delete(s, statuses)
      PROVE Typed'
  BY <1>1 DEF Delete, Typed, TypeOK, RowsInOrder, ChosenRowsExist, NoRow, ActiveStatus
<1>2. CASE CancelQueued
  <2>1. \A j \in JobIds : [job[j] EXCEPT !.status = "completed"] \in Row
    BY DEF Typed, TypeOK, Row
  <2>2. job' \in [JobIds -> Row]
    BY <1>2, <2>1 DEF CancelQueued, Typed, TypeOK
  <2>3. RowsInOrder'
    BY <1>2 DEF CancelQueued, Typed, TypeOK, RowsInOrder, NoRow, Row, ActiveStatus
  <2> QED BY <1>2, <2>2, <2>3 DEF CancelQueued, Typed, TypeOK, ChosenRowsExist
<1>3. ASSUME NEW j \in JobIds, RetryDue(j)
      PROVE Typed'
  BY <1>3 DEF RetryDue, Typed, TypeOK, Row, RowsInOrder, ChosenRowsExist, NoRow
<1>4. ASSUME NEW j \in JobIds, Stall(j)
      PROVE Typed'
  BY <1>4 DEF Stall, Typed, TypeOK, Row, RowsInOrder, ChosenRowsExist, NoRow
<1> QED BY <1>1, <1>2, <1>3, <1>4 DEF UserStep, Time

\* And every step of an engine.
LEMMA EngineTyped ==
  ASSUME NEW e \in Engines, Typed, EngineStep(e)
  PROVE Typed'
<1> USE ConstantsTyped, IdleTyped
<1>0. engine[e] \in Worker
  BY DEF Typed, TypeOK
<1>1. CASE Dispatch(e)
  BY <1>0, <1>1 DEF Dispatch, Typed, TypeOK, Worker, RowsInOrder, ChosenRowsExist
<1>2. ASSUME NEW sweep \in BOOLEAN, BeginTick(e, sweep)
      PROVE Typed'
  <2>1. \A j \in JobIds : [job[j] EXCEPT !.status = "queued", !.stalled = FALSE] \in Row
    BY DEF Typed, TypeOK, Row
  <2>2. job' \in [JobIds -> Row]
    BY <1>2, <2>1 DEF BeginTick, Typed, TypeOK
  <2>3. ASSUME NEW j \in JobIds
        PROVE \/ job'[j] = job[j]
              \/ /\ job[j].status = "running"
                 /\ job'[j].attempts = job[j].attempts
    BY <1>2 DEF BeginTick, Stalled, Typed, TypeOK, Row
  <2>4. RowsInOrder'
    <3>1. nextId' = nextId
      BY <1>2 DEF BeginTick
    <3>2. ASSUME NEW j \in JobIds
          PROVE /\ j >= nextId => job'[j] = NoRow
                /\ job'[j].status \in ActiveStatus => job'[j].attempts < MaxAttempts
      <4>1. NoRow.status = "absent" /\ "running" \in ActiveStatus
        BY DEF NoRow, ActiveStatus
      <4>2. CASE job'[j] = job[j]
        BY <4>2 DEF Typed, RowsInOrder
      <4>3. CASE job[j].status = "running" /\ job'[j].attempts = job[j].attempts
        BY <4>1, <4>3 DEF Typed, RowsInOrder
      <4> QED BY <2>3, <4>2, <4>3
    <3> QED BY <3>1, <3>2 DEF RowsInOrder
  <2> QED BY <1>0, <1>2, <2>2, <2>4 DEF BeginTick, Typed, TypeOK, Worker, ChosenRowsExist
<1>3. CASE Select(e)
  <2>1. ASSUME NEW j \in JobIds, Due(j)
        PROVE /\ [pc |-> "selected", job |-> j, attempts |-> job[j].attempts] \in Worker
              /\ j < nextId
    <3>1. job[j] # NoRow /\ job[j].attempts < MaxAttempts
      BY <2>1 DEF Due, Typed, RowsInOrder, NoRow, ActiveStatus
    <3>2. j \in Nat /\ nextId \in Nat /\ j < nextId
      BY <3>1 DEF Typed, TypeOK, RowsInOrder, JobIds
    <3>3. job[j].attempts \in 0..(MaxAttempts - 1)
      BY <3>1 DEF Typed, TypeOK, Row
    <3> QED BY <3>2, <3>3 DEF Worker
  <2>2. engine' \in [Engines -> Worker] /\ ChosenRowsExist'
    BY <1>3, <2>1 DEF Select, Typed, TypeOK, ChosenRowsExist, Idle
  <2> QED BY <1>3, <2>2 DEF Select, Typed, TypeOK, RowsInOrder
<1>4. CASE Claim(e)
  <2> DEFINE j == engine[e].job
  <2>1. j \in JobIds /\ j < nextId
    BY <1>4 DEF Claim, Typed, ChosenRowsExist
  <2>2. CASE Claimable(j)
    <3> DEFINE claimed == [job[j] EXCEPT !.status = "running", !.delayed = FALSE, !.stalled = FALSE]
    <3>1. job[j] \in Row
      BY <2>1 DEF Typed, TypeOK
    <3>2. claimed \in Row /\ claimed.attempts = job[j].attempts
      <4> HIDE DEF j
      <4> QED BY <3>1 DEF Row
    <3>3. [engine[e] EXCEPT !.pc = "working"] \in Worker
      BY <1>0 DEF Worker
    <3>4. job' = [job EXCEPT ![j] = claimed] /\ nextId' = nextId
      BY <1>4, <2>2 DEF Claim
    <3>5. engine' = [engine EXCEPT ![e] = [engine[e] EXCEPT !.pc = "working"]]
      BY <1>4, <2>2 DEF Claim
    <3>6. job' \in [JobIds -> Row] /\ engine' \in [Engines -> Worker]
      BY <3>2, <3>3, <3>4, <3>5 DEF Typed, TypeOK
    <3>7. job[j].attempts < MaxAttempts /\ ~(j >= nextId)
      BY <2>1, <2>2 DEF Claimable, Typed, TypeOK, RowsInOrder, ActiveStatus, NoRow, JobIds
    <3>8. RowsInOrder'
      <4> HIDE DEF claimed, j
      <4> QED BY <2>1, <3>2, <3>4, <3>7 DEF Typed, TypeOK, RowsInOrder
    <3>9. ChosenRowsExist'
      BY <2>1, <3>4, <3>5 DEF Typed, TypeOK, ChosenRowsExist, Worker
    <3> QED BY <1>4, <3>6, <3>8, <3>9 DEF Claim, Typed, TypeOK
  <2>3. CASE ~Claimable(j)
    BY <1>4, <2>3 DEF Claim, Typed, TypeOK, RowsInOrder, ChosenRowsExist, Idle
  <2> QED BY <2>2, <2>3
<1>5. ASSUME engine[e].pc = "working",
             NEW status \in {"queued", "completed", "failed"},
             NEW delayed \in BOOLEAN, NEW attempts \in 0..MaxAttempts,
             status = "queued" => attempts < MaxAttempts,
             Settle(e, status, delayed, attempts),
             failures' \in [JobIds -> Nat]
      PROVE Typed'
  <2> DEFINE j == engine[e].job
  <2>1. j \in JobIds
    BY <1>5 DEF Typed, ChosenRowsExist
  <2>2. [job[j] EXCEPT !.status = status, !.delayed = delayed,
                       !.attempts = attempts, !.stalled = FALSE] \in Row
    <3>1. job[j] \in Row /\ status \in {"absent", "queued", "running", "completed", "failed"}
      BY <2>1 DEF Typed, TypeOK
    <3> HIDE DEF j
    <3> QED BY <3>1 DEF Row
  <2>3. job' \in [JobIds -> Row] /\ engine' \in [Engines -> Worker]
    BY <1>5, <2>2 DEF Settle, Typed, TypeOK
  <2>6. ASSUME NEW k \in JobIds
        PROVE \/ job'[k] = job[k]
              \/ /\ job[k] # NoRow
                 /\ job'[k].status \in ActiveStatus => job'[k].attempts < MaxAttempts
    <3>1. job[k] \in Row
      BY DEF Typed, TypeOK
    <3>2. CASE k # j \/ job[j].status = "absent"
      BY <1>5, <3>2 DEF Settle, Typed, TypeOK
    <3>3. CASE k = j /\ job[j].status # "absent"
      <4>1. job'[k] = [job[k] EXCEPT !.status = status, !.delayed = delayed,
                                     !.attempts = attempts, !.stalled = FALSE]
        BY <1>5, <3>3 DEF Settle, Typed, TypeOK
      <4>2. job'[k].status = status /\ job'[k].attempts = attempts
        BY <3>1, <4>1 DEF Row
      <4> QED BY <1>5, <3>3, <4>2 DEF NoRow, ActiveStatus
    <3> QED BY <3>2, <3>3
  <2>4. RowsInOrder'
    BY <1>5, <2>6 DEF Settle, Typed, RowsInOrder
  <2>5. ChosenRowsExist'
    BY <1>5 DEF Settle, Typed, TypeOK, ChosenRowsExist, Idle
  <2> QED BY <1>5, <2>3, <2>4, <2>5 DEF Settle, Typed, TypeOK
<1>6. CASE Complete(e)
  <2>1. job[engine[e].job].attempts \in 0..MaxAttempts
    BY <1>6 DEF Complete, Typed, TypeOK, ChosenRowsExist, Row
  <2> QED BY <1>5, <1>6, <2>1 DEF Complete, Typed, TypeOK
<1>7. CASE Retry(e)
  <2>1. /\ engine[e].attempts + 1 \in 0..MaxAttempts
        /\ engine[e].attempts + 1 < MaxAttempts
        /\ failures' \in [JobIds -> Nat]
    <3>1. engine[e].attempts \in 0..(MaxAttempts - 1)
      BY <1>0 DEF Worker
    <3>2. engine[e].attempts + 1 < MaxAttempts
      BY <1>7 DEF Retry, MayRetry
    <3>3. failures' \in [JobIds -> Nat]
      <4>1. failures[engine[e].job] + 1 \in Nat
          <5>1. engine[e].job \in JobIds
            BY <1>7 DEF Retry, Typed, ChosenRowsExist
          <5>2. failures[engine[e].job] \in Nat
            BY <5>1 DEF Typed, TypeOK
          <5> QED BY <5>2
      <4> QED BY <1>7, <4>1 DEF Retry, Typed, TypeOK
    <3> QED BY <3>1, <3>2, <3>3
  <2>2. CASE Settle(e, "queued", TRUE, engine[e].attempts + 1)
    BY <1>5, <1>7, <2>1, <2>2 DEF Retry
  <2>3. CASE engine' = [engine EXCEPT ![e] = Idle] /\ UNCHANGED <<job, nextId, producer, crashes>>
    BY <2>1, <2>3 DEF Typed, TypeOK, RowsInOrder, ChosenRowsExist, Idle
  <2> QED BY <1>7, <2>2, <2>3 DEF Retry
<1>8. CASE Fail(e)
  <2>1. engine[e].attempts + 1 \in 0..MaxAttempts
    <3>1. engine[e].attempts \in 0..(MaxAttempts - 1)
      BY <1>0 DEF Worker
    <3> QED BY <3>1
  <2>2. failures' \in [JobIds -> Nat]
    <3>1. failures[engine[e].job] + 1 \in Nat
        <4>1. engine[e].job \in JobIds
          BY <1>8 DEF Fail, Typed, ChosenRowsExist
        <4>2. failures[engine[e].job] \in Nat
          BY <4>1 DEF Typed, TypeOK
        <4> QED BY <4>2
    <3> QED BY <1>8, <3>1 DEF Fail, Typed, TypeOK
  <2> QED BY <1>5, <1>8, <2>1, <2>2 DEF Fail
<1>9. CASE Crash(e)
  BY <1>9 DEF Crash, Typed, TypeOK, RowsInOrder, ChosenRowsExist, Idle
<1> QED BY <1>1, <1>2, <1>3, <1>4, <1>6, <1>7, <1>8, <1>9 DEF EngineStep

LEMMA StepTyped == Typed /\ [Next]_vars => Typed'
<1> SUFFICES ASSUME Typed, [Next]_vars PROVE Typed'
  OBVIOUS
<1>1. CASE UNCHANGED vars
  BY <1>1 DEF vars, Typed, TypeOK, RowsInOrder, ChosenRowsExist
<1> QED BY <1>1, EngineTyped, ProducerTyped, TableTyped DEF Next

\* The table and the local variables of every process keep their types, for any
\* number of engines, with or without overruns.
THEOREM TypeCorrect == Spec => []TypeOK
<1>1. Spec => []Typed
  BY InitTyped, StepTyped, PTL DEF Spec
<1>2. Typed => TypeOK
  BY DEF Typed
<1> QED BY <1>1, <1>2, PTL
-----------------------------------------------------------------------------
\* A step that makes no row active keeps the subjects of active rows distinct.
LEMMA NoNewActiveRow ==
  ASSUME UniqueActive,
         \A j \in JobIds : job'[j].status \in ActiveStatus =>
           job[j].status \in ActiveStatus /\ job'[j].subject = job[j].subject
  PROVE  UniqueActive'
  BY DEF UniqueActive

LEMMA StepUnique ==
  ASSUME Typed, UniqueActive, Next
  PROVE  UniqueActive'
<1> DEFINE NoneNew == \A j \in JobIds : job'[j].status \in ActiveStatus =>
      job[j].status \in ActiveStatus /\ job'[j].subject = job[j].subject
<1>0. /\ \A j \in JobIds : job[j] \in Row
      /\ NoRow.status = "absent"
      /\ ActiveStatus = {"queued", "running"}
      /\ JobIds \subseteq Nat
  BY ConstantsTyped DEF Typed, TypeOK, NoRow, ActiveStatus
<1>1. ASSUME NEW p \in Producers, NEW s \in Subjects, NEW priority \in Priorities,
             Ask(p, s, priority)
      PROVE NoneNew
  BY <1>1 DEF Ask
<1>2. ASSUME NEW p \in Producers, LookUp(p) \/ LoseRace(p)
      PROVE NoneNew
  BY <1>2 DEF LookUp, LoseRace
<1>3. ASSUME NEW p \in Producers, Promote(p)
      PROVE NoneNew
  BY <1>0, <1>3 DEF Promote, Typed, TypeOK, Row
<1>4. ASSUME NEW p \in Producers, Insert(p)
      PROVE UniqueActive'
  <2> DEFINE s == producer[p].subject
  <2>1. nextId \in JobIds
    BY <1>4, ConstantsTyped DEF Insert, Typed, TypeOK, JobIds
  <2>2. job'[nextId].subject = s
    BY <1>4, <2>1 DEF Insert, Typed, TypeOK, NewRow
  <2>3. \A j \in JobIds : j # nextId => job'[j] = job[j]
    BY <1>4 DEF Insert, Typed, TypeOK
  <2>4. \A j \in JobIds : job[j].status \in ActiveStatus => job[j].subject # s
    BY <1>4 DEF Insert, Conflict, ActiveRows
  <2> SUFFICES ASSUME NEW j \in JobIds, NEW k \in JobIds,
                      job'[j].status \in ActiveStatus, job'[k].status \in ActiveStatus,
                      job'[j].subject = job'[k].subject, j # k
               PROVE  FALSE
    BY DEF UniqueActive
  <2>5. CASE j # nextId /\ k # nextId
    BY <2>3, <2>5 DEF UniqueActive
  <2>6. CASE j = nextId
    BY <2>2, <2>3, <2>4, <2>6
  <2>7. CASE k = nextId
    BY <2>2, <2>3, <2>4, <2>7
  <2> QED BY <2>5, <2>6, <2>7
<1>5. ASSUME NEW s \in Subjects, NEW statuses, Delete(s, statuses)
      PROVE NoneNew
  BY <1>0, <1>5 DEF Delete
<1>6. ASSUME CancelQueued
      PROVE NoneNew
  BY <1>0, <1>6 DEF CancelQueued, Row
<1>7. ASSUME NEW j \in JobIds, RetryDue(j) \/ Stall(j)
      PROVE NoneNew
  <2>1. ASSUME NEW k \in JobIds
        PROVE job'[k].status = job[k].status /\ job'[k].subject = job[k].subject
    <3>1. job[k] \in Row /\ job \in [JobIds -> Row]
      BY DEF Typed, TypeOK
    <3>2. CASE RetryDue(j)
      BY <3>1, <3>2 DEF RetryDue, Row
    <3>3. CASE Stall(j)
      BY <3>1, <3>3 DEF Stall, Row
    <3> QED BY <1>7, <3>2, <3>3
  <2> QED BY <2>1
<1>8. ASSUME NEW e \in Engines, Dispatch(e) \/ Select(e) \/ Crash(e)
      PROVE NoneNew
  BY <1>8 DEF Dispatch, Select, Crash
<1>9. ASSUME NEW e \in Engines, NEW sweep \in BOOLEAN, BeginTick(e, sweep)
      PROVE NoneNew
  BY <1>0, <1>9 DEF BeginTick, Stalled, Row
<1>10. ASSUME NEW e \in Engines, Claim(e)
       PROVE NoneNew
  <2> DEFINE j == engine[e].job
  <2>1. CASE Claimable(j)
    <3>1. j \in JobIds /\ job[j] \in Row
      BY <1>0, <1>10 DEF Claim, Typed, ChosenRowsExist
    <3>2. job'[j].subject = job[j].subject
      <4>1. job' = [job EXCEPT ![j] =
              [job[j] EXCEPT !.status = "running", !.delayed = FALSE, !.stalled = FALSE]]
        BY <1>10, <2>1 DEF Claim
      <4>2. job \in [JobIds -> Row]
        BY DEF Typed, TypeOK
      <4> HIDE DEF j
      <4> QED BY <3>1, <4>1, <4>2 DEF Row
    <3>3. \A k \in JobIds : k # j => job'[k] = job[k]
      BY <1>10, <2>1 DEF Claim, Typed, TypeOK
    <3> QED BY <1>0, <2>1, <3>2, <3>3 DEF Claimable
  <2>2. CASE ~Claimable(j)
    BY <1>10, <2>2 DEF Claim
  <2> QED BY <2>1, <2>2
<1>11. ASSUME NEW e \in Engines, Complete(e) \/ Fail(e)
       PROVE NoneNew
  <2>1. ASSUME NEW status \in {"completed", "failed"}, NEW delayed, NEW attempts,
               Settle(e, status, delayed, attempts)
        PROVE NoneNew
    BY <1>0, <2>1 DEF Settle, Typed, TypeOK, Row
  <2> QED BY <1>11, <2>1 DEF Complete, Fail
<1>12. ASSUME NEW e \in Engines, Retry(e)
       PROVE UniqueActive'
  <2> DEFINE j == engine[e].job
  <2>1. j \in JobIds
    BY <1>12 DEF Retry, Typed, ChosenRowsExist
  <2>2. CASE UNCHANGED job
    BY <2>2 DEF UniqueActive
  <2>3. CASE /\ ActiveRows(job[j].subject) \subseteq {j}
             /\ Settle(e, "queued", TRUE, engine[e].attempts + 1)
    <3>1. \A k \in JobIds : k # j => job'[k] = job[k]
      BY <2>3 DEF Settle, Typed, TypeOK
    <3>2. job'[j].subject = job[j].subject
      BY <1>0, <2>1, <2>3 DEF Settle, Typed, TypeOK, Row
    <3>3. \A k \in JobIds : k # j /\ job[k].status \in ActiveStatus
                            => job[k].subject # job[j].subject
      BY <2>3 DEF ActiveRows
    <3> QED BY <2>1, <3>1, <3>2, <3>3 DEF UniqueActive
  <2> QED BY <1>12, <2>2, <2>3 DEF Retry
<1>13. NoneNew => UniqueActive'
  BY NoNewActiveRow
<1>14. ASSUME NEW e \in Engines, EngineStep(e) PROVE UniqueActive'
  BY <1>8, <1>9, <1>10, <1>11, <1>12, <1>13, <1>14 DEF EngineStep
<1>15. ASSUME NEW p \in Producers, ProducerStep(p) PROVE UniqueActive'
  BY <1>1, <1>2, <1>3, <1>4, <1>13, <1>15 DEF ProducerStep
<1>16. CASE UserStep \/ Time
  BY <1>5, <1>6, <1>7, <1>13, <1>16 DEF UserStep, Time
<1> QED BY <1>14, <1>15, <1>16 DEF Next

\* A subject never has two queued or running rows: the unique index settles the
\* races of queueUnique, and no other statement makes a second row active.  No
\* discipline is needed.
THEOREM OneActiveRow == Spec => []UniqueActive
<1>1. Init => UniqueActive
  BY DEF Init, UniqueActive, NoRow, ActiveStatus
<1>2. Typed /\ UniqueActive /\ [Next]_vars => UniqueActive'
  <2>1. CASE UNCHANGED vars
    BY <2>1 DEF vars, UniqueActive
  <2> QED BY <2>1, StepUnique
<1>3. Spec => []Typed
  BY InitTyped, StepTyped, PTL DEF Spec
<1> QED BY <1>1, <1>2, <1>3, PTL DEF Spec

-----------------------------------------------------------------------------
\* A step that starts no execution keeps executions apart, as long as the rows
\* that are executed stay running (or deleted) and, without overruns, young.
LEMMA NoNewExecution ==
  ASSUME Held,
         \A f \in Engines : engine'[f].pc = "working" =>
           /\ engine[f].pc = "working" /\ engine'[f].job = engine[f].job
           /\ job'[engine[f].job].status \in {"running", "absent"}
           /\ ~OverrunAllowed => ~job'[engine[f].job].stalled
  PROVE  Held'
  BY DEF Held, ExecutorOwnsRow, Apart, Prompt

\* A step that leaves the engines alone and touches no executed row.
LEMMA ExecutedRowsKept ==
  ASSUME Held, UNCHANGED engine,
         \A f \in Engines : engine[f].pc = "working" =>
           \/ job'[engine[f].job] = job[engine[f].job]
           \/ job'[engine[f].job] = NoRow
           \/ /\ job'[engine[f].job].status = job[engine[f].job].status
              /\ job'[engine[f].job].stalled = job[engine[f].job].stalled
  PROVE  Held'
<1>1. NoRow.status = "absent" /\ NoRow.stalled = FALSE
  BY DEF NoRow
<1> QED BY <1>1 DEF Held, ExecutorOwnsRow, Apart, Prompt

\* What requests, users and time do leaves the executions apart.
LEMMA OthersKeepHeld ==
  ASSUME Typed, Held, UserStep \/ Time \/ \E p \in Producers : ProducerStep(p)
  PROVE  Held'
<1>0. \A e \in Engines : engine[e].pc = "working" =>
         /\ engine[e].job \in JobIds /\ engine[e].job < nextId
         /\ job[engine[e].job] \in Row
         /\ job[engine[e].job].status \in {"running", "absent"}
  BY DEF Typed, TypeOK, ChosenRowsExist, Held, ExecutorOwnsRow
<1>1. ASSUME NEW p \in Producers, NEW s \in Subjects, NEW priority \in Priorities,
             Ask(p, s, priority)
      PROVE Held'
  BY <1>1, ExecutedRowsKept DEF Ask
<1>2. ASSUME NEW p \in Producers, LookUp(p) \/ LoseRace(p)
      PROVE Held'
  BY <1>2, ExecutedRowsKept DEF LookUp, LoseRace
<1>3. ASSUME NEW p \in Producers, Promote(p)
      PROVE Held'
  <2>1. \A j \in JobIds : job'[j].status = job[j].status /\ job'[j].stalled = job[j].stalled
    BY <1>3 DEF Promote, Typed, TypeOK, Row
  <2> QED BY <1>0, <1>3, <2>1, ExecutedRowsKept DEF Promote
<1>4. ASSUME NEW p \in Producers, Insert(p)
      PROVE Held'
  <2>1. \A j \in JobIds : j < nextId => job'[j] = job[j]
    BY <1>4, ConstantsTyped DEF Insert, Typed, TypeOK, JobIds
  <2> QED BY <1>0, <1>4, <2>1, ExecutedRowsKept DEF Insert
<1>5. ASSUME NEW s \in Subjects, NEW statuses, Delete(s, statuses)
      PROVE Held'
  BY <1>0, <1>5, ExecutedRowsKept DEF Delete
<1>6. CASE CancelQueued
  BY <1>0, <1>6, ExecutedRowsKept DEF CancelQueued
<1>7. ASSUME NEW j \in JobIds, RetryDue(j)
      PROVE Held'
  <2>1. \A k \in JobIds : job'[k].status = job[k].status /\ job'[k].stalled = job[k].stalled
    BY <1>7 DEF RetryDue, Typed, TypeOK, Row
  <2> QED BY <1>0, <1>7, <2>1, ExecutedRowsKept DEF RetryDue
<1>8. ASSUME NEW j \in JobIds, Stall(j)
      PROVE Held'
  <2>1. \A k \in JobIds : job'[k].status = job[k].status /\ (k # j => job'[k] = job[k])
    BY <1>8 DEF Stall, Typed, TypeOK, Row
  <2>2. ~OverrunAllowed => \A f \in Engines : engine[f].pc = "working" => engine[f].job # j
    BY <1>8 DEF Stall, Executing
  <2> QED BY <1>0, <1>8, <2>1, <2>2 DEF Stall, Held, ExecutorOwnsRow, Apart, Prompt
<1> QED BY <1>1, <1>2, <1>3, <1>4, <1>5, <1>6, <1>7, <1>8 DEF ProducerStep, UserStep, Time

\* An engine keeps executions apart: its sweep requeues no executed row, its
\* claim takes a row that nobody executes, and it ends only its own row.
LEMMA EngineKeepsHeld ==
  ASSUME Disciplined, Typed, Held, NEW e \in Engines, EngineStep(e)
  PROVE  Held'
<1>0. /\ \A f \in Engines : engine[f].pc = "working" =>
            /\ engine[f].job \in JobIds
            /\ job[engine[f].job].status \in {"running", "absent"}
      /\ engine \in [Engines -> Worker]
      /\ job \in [JobIds -> Row]
  BY DEF Typed, TypeOK, ChosenRowsExist, Held, ExecutorOwnsRow
<1>1. CASE Dispatch(e) \/ Select(e) \/ Crash(e)
  <2>1. /\ UNCHANGED job
        /\ \A f \in Engines : f # e => engine'[f] = engine[f]
        /\ engine'[e].pc # "working"
    BY <1>0, <1>1 DEF Dispatch, Select, Crash, Idle, Worker
  <2> QED BY <2>1, NoNewExecution DEF Held, ExecutorOwnsRow, Prompt
<1>2. ASSUME NEW sweep \in BOOLEAN, BeginTick(e, sweep)
      PROVE Held'
  <2>1. engine'[e].pc # "working" /\ \A f \in Engines : f # e => engine'[f] = engine[f]
    BY <1>0, <1>2 DEF BeginTick, Worker
  <2>2. ASSUME NEW f \in Engines, engine[f].pc = "working"
        PROVE job'[engine[f].job] = job[engine[f].job]
    <3>1. CASE ~OverrunAllowed
      BY <1>0, <1>2, <2>2, <3>1 DEF BeginTick, Stalled, Held, Prompt
    <3>2. CASE \A g, h \in Engines : g = h
      BY <1>2, <2>2, <3>2 DEF BeginTick
    <3> QED BY <3>1, <3>2 DEF Disciplined
  <2> QED BY <1>0, <2>1, <2>2, NoNewExecution DEF Held, ExecutorOwnsRow, Prompt
<1>3. CASE Claim(e)
  <2> DEFINE j == engine[e].job
  <2>1. CASE Claimable(j)
    <3>1. j \in JobIds /\ job[j] \in Row
      BY <1>0, <1>3 DEF Claim, Typed, ChosenRowsExist
    <3>2. job'[j].status = "running" /\ job'[j].stalled = FALSE
      <4>1. job' = [job EXCEPT ![j] =
              [job[j] EXCEPT !.status = "running", !.delayed = FALSE, !.stalled = FALSE]]
        BY <1>3, <2>1 DEF Claim
      <4>2. job \in [JobIds -> Row]
        BY DEF Typed, TypeOK
      <4> HIDE DEF j
      <4> QED BY <3>1, <4>1, <4>2 DEF Row
    <3>3. \A k \in JobIds : k # j => job'[k] = job[k]
      BY <1>0, <1>3, <2>1 DEF Claim
    <3>4. \A f \in Engines : engine[f].pc = "working" => engine[f].job # j
      BY <1>0, <2>1 DEF Claimable
    <3>5. engine'[e].job = j /\ \A f \in Engines : f # e => engine'[f] = engine[f]
      BY <1>0, <1>3, <2>1 DEF Claim, Worker
    <3> HIDE DEF j
    <3> QED BY <1>0, <3>2, <3>3, <3>4, <3>5 DEF Held, ExecutorOwnsRow, Apart, Prompt
  <2>2. CASE ~Claimable(j)
    <3>1. /\ UNCHANGED job
          /\ \A f \in Engines : f # e => engine'[f] = engine[f]
          /\ engine'[e].pc # "working"
      BY <1>0, <1>3, <2>2 DEF Claim, Idle
    <3> QED BY <3>1, NoNewExecution DEF Held, ExecutorOwnsRow, Prompt
  <2> QED BY <2>1, <2>2
<1>4. ASSUME engine[e].pc = "working",
             engine' = [engine EXCEPT ![e] = Idle],
             \A k \in JobIds : k # engine[e].job => job'[k] = job[k]
      PROVE Held'
  <2>1. engine'[e].pc # "working" /\ \A f \in Engines : f # e => engine'[f] = engine[f]
    BY <1>0, <1>4 DEF Idle
  <2>2. \A f \in Engines : f # e /\ engine[f].pc = "working" => engine[f].job # engine[e].job
    BY <1>4 DEF Held, Apart
  <2> QED BY <1>0, <1>4, <2>1, <2>2, NoNewExecution DEF Held, ExecutorOwnsRow, Prompt
<1>5. ASSUME NEW status, NEW delayed, NEW attempts, Settle(e, status, delayed, attempts)
      PROVE /\ engine' = [engine EXCEPT ![e] = Idle]
            /\ \A k \in JobIds : k # engine[e].job => job'[k] = job[k]
  BY <1>0, <1>5 DEF Settle
<1>6. CASE Complete(e) \/ Fail(e)
  BY <1>4, <1>5, <1>6 DEF Complete, Fail
<1>7. CASE Retry(e)
  <2>1. CASE Settle(e, "queued", TRUE, engine[e].attempts + 1)
    BY <1>4, <1>5, <1>7, <2>1 DEF Retry
  <2>2. CASE engine' = [engine EXCEPT ![e] = Idle] /\ UNCHANGED <<job, nextId, producer, crashes>>
    BY <1>4, <1>7, <2>2 DEF Retry
  <2> QED BY <1>7, <2>1, <2>2 DEF Retry
<1> QED BY <1>1, <1>2, <1>3, <1>6, <1>7 DEF EngineStep

LEMMA StepHeld == Disciplined /\ Typed /\ Held /\ [Next]_vars => Held'
<1> SUFFICES ASSUME Disciplined, Typed, Held, [Next]_vars PROVE Held'
  OBVIOUS
<1>1. CASE UNCHANGED vars
  BY <1>1 DEF vars, Held, ExecutorOwnsRow, Apart, Prompt
<1> QED BY <1>1, OthersKeepHeld, EngineKeepsHeld DEF Next

LEMMA AlwaysHeld == ASSUME Disciplined PROVE Spec => [](Typed /\ Held)
<1>1. Init => Typed /\ Held
  BY InitTyped DEF Init, Held, ExecutorOwnsRow, Apart, Prompt, Idle
<1>2. Disciplined
  OBVIOUS
<1>3. Typed /\ Held /\ [Next]_vars => (Typed /\ Held)'
  BY <1>2, StepTyped, StepHeld
<1> QED BY <1>1, <1>3, PTL DEF Spec

\* The row of an execution stays running until the execution ends it, or is
\* deleted by the user.
THEOREM ExecutionsOwnTheirRows == ASSUME Disciplined PROVE Spec => []ExecutorOwnsRow
<1>1. Held => ExecutorOwnsRow
  BY DEF Held
<1> QED BY <1>1, AlwaysHeld, PTL

\* No job is executed by two engines at once.
THEOREM ExecutionsAreExclusive == ASSUME Disciplined PROVE Spec => []ExclusiveExecution
<1>1. Held => ExclusiveExecution
  <2> SUFFICES ASSUME Held, NEW j \in JobIds PROVE Cardinality(Executing(j)) <= 1
    BY DEF ExclusiveExecution
  <2>1. CASE Executing(j) = {}
    BY <2>1, FS_EmptySet
  <2>2. ASSUME NEW e \in Executing(j) PROVE Cardinality(Executing(j)) <= 1
    <3>1. Executing(j) = {e}
      BY <2>2 DEF Executing, Held, Apart
    <3>2. Cardinality({e}) = 1
      BY FS_Singleton, Zenon
    <3> QED BY <3>1, <3>2
  <2> QED BY <2>1, <2>2
<1> QED BY <1>1, AlwaysHeld, PTL

\* A job that ended keeps its outcome until it is deleted: no late statement of
\* an execution reaches it.
THEOREM EndingsAreFinal == ASSUME Disciplined PROVE Spec => EndedStaysEnded
<1> DEFINE Final == \A j \in JobIds :
      job[j].status \in {"completed", "failed"}
      => job'[j].status \in {job[j].status, "absent"}
<1>1. ASSUME Typed, Held, [Next]_vars PROVE Final
  <2>0. /\ \A j \in JobIds : job[j] \in Row /\ NoRow.status = "absent"
        /\ job \in [JobIds -> Row]
    BY <1>1 DEF Typed, TypeOK, NoRow
  <2>1. ASSUME NEW e \in Engines, EngineStep(e) PROVE Final
    <3>1. CASE Dispatch(e) \/ Select(e) \/ Crash(e)
      BY <3>1 DEF Dispatch, Select, Crash
    <3>2. ASSUME NEW sweep \in BOOLEAN, BeginTick(e, sweep) PROVE Final
      BY <2>0, <3>2 DEF BeginTick, Stalled
    <3>3. CASE Claim(e)
      BY <2>0, <3>3 DEF Claim, Claimable
    <3>4. ASSUME engine[e].pc = "working",
                 \A k \in JobIds : k # engine[e].job => job'[k] = job[k]
          PROVE Final
      BY <1>1, <3>4 DEF Held, ExecutorOwnsRow
    <3>5. ASSUME NEW status, NEW delayed, NEW attempts, Settle(e, status, delayed, attempts)
          PROVE \A k \in JobIds : k # engine[e].job => job'[k] = job[k]
      BY <2>0, <3>5 DEF Settle
    <3>6. CASE Complete(e) \/ Fail(e)
      BY <3>4, <3>5, <3>6 DEF Complete, Fail
    <3>7. CASE Retry(e)
      BY <3>4, <3>5, <3>7 DEF Retry
    <3> QED BY <2>1, <3>1, <3>2, <3>3, <3>6, <3>7 DEF EngineStep
  <2>2. ASSUME NEW p \in Producers, ProducerStep(p) PROVE Final
    <3>1. CASE Promote(p)
      BY <2>0, <3>1 DEF Promote, Row
    <3>2. CASE Insert(p)
      <4>1. job[nextId].status = "absent" \/ nextId \notin JobIds
        BY <1>1, <2>0, ConstantsTyped DEF Typed, RowsInOrder, JobIds
      <4> QED BY <2>0, <3>2, <4>1 DEF Insert
    <3>3. CASE UNCHANGED job
      BY <3>3
    <3> QED BY <2>2, <3>1, <3>2, <3>3 DEF ProducerStep, Ask, LookUp, LoseRace
  <2>3. CASE UserStep
    BY <2>0, <2>3 DEF UserStep, Delete, CancelQueued
  <2>4. ASSUME NEW j \in JobIds, RetryDue(j) \/ Stall(j) PROVE Final
    BY <2>0, <2>4 DEF RetryDue, Stall, Row
  <2>5. CASE UNCHANGED vars
    BY <2>5 DEF vars
  <2> QED BY <1>1, <2>1, <2>2, <2>3, <2>4, <2>5 DEF Next, Time
<1>2. Typed /\ Held /\ [Next]_vars => [Final]_vars
  BY <1>1
<1> QED BY <1>2, AlwaysHeld, PTL DEF Spec, EndedStaysEnded

-----------------------------------------------------------------------------
(* The retry budget, for one engine.  Two engines may read the attempts of  *)
(* a row before one of them writes them, so the count of a row may lag      *)
(* behind what was executed; one engine never selects a row it works on.    *)

OneEngine == \A e, f \in Engines : e = f

\* What the attempts, in the table and in the engine's memory, know of the failures.
Counted ==
  /\ RetryBudget
  /\ \A j \in JobIds :
       /\ job[j].status # "absent" => failures[j] <= job[j].attempts
       /\ j >= nextId => failures[j] = 0
  /\ \A e \in Engines :
       engine[e].pc \in {"selected", "working"}
       => failures[engine[e].job] <= engine[e].attempts

\* Steps that count no failure and select nothing: rows keep their attempts or
\* disappear, and an engine keeps what it knows of its row or lets it go.
LEMMA NothingCounted ==
  ASSUME Counted, UNCHANGED failures, nextId' = nextId,
         \A j \in JobIds : job'[j].status # "absent" =>
            job[j].status # "absent" /\ job'[j].attempts = job[j].attempts,
         \A e \in Engines : engine'[e].pc \in {"selected", "working"} =>
            /\ engine[e].pc \in {"selected", "working"}
            /\ engine'[e].job = engine[e].job /\ engine'[e].attempts = engine[e].attempts
  PROVE  Counted'
  BY DEF Counted, RetryBudget

\* What requests, users and time do counts nothing; a new row has failed never.
LEMMA OthersKeepCounted ==
  ASSUME Typed, Counted, UserStep \/ Time \/ \E p \in Producers : ProducerStep(p)
  PROVE  Counted'
<1>0. /\ job \in [JobIds -> Row] /\ \A j \in JobIds : job[j] \in Row
      /\ NoRow.status = "absent" /\ UNCHANGED engine /\ UNCHANGED failures
  BY DEF Typed, TypeOK, NoRow, UserStep, Delete, CancelQueued, Time, RetryDue, Stall,
         ProducerStep, Ask, LookUp, Promote, Insert, LoseRace
<1>1. ASSUME NEW p \in Producers, NEW s \in Subjects, NEW priority \in Priorities,
             Ask(p, s, priority)
      PROVE Counted'
  BY <1>0, <1>1, NothingCounted DEF Ask
<1>2. ASSUME NEW p \in Producers, LookUp(p) \/ LoseRace(p)
      PROVE Counted'
  BY <1>0, <1>2, NothingCounted DEF LookUp, LoseRace
<1>3. ASSUME NEW p \in Producers, Promote(p)
      PROVE Counted'
  <2>1. \A j \in JobIds : job'[j].status = job[j].status /\ job'[j].attempts = job[j].attempts
    BY <1>0, <1>3 DEF Promote, Row
  <2> QED BY <1>0, <1>3, <2>1, NothingCounted DEF Promote
<1>4. ASSUME NEW p \in Producers, Insert(p)
      PROVE Counted'
  <2>1. nextId \in JobIds /\ nextId' = nextId + 1
    BY <1>4, ConstantsTyped DEF Insert, Typed, TypeOK, JobIds
  <2>2. job'[nextId].attempts = 0
    BY <1>0, <1>4, <2>1 DEF Insert, NewRow
  <2>3. \A j \in JobIds : j # nextId => job'[j] = job[j]
    BY <1>0, <1>4 DEF Insert
  <2>4. failures[nextId] = 0
    BY <2>1, ConstantsTyped DEF Counted
  <2>5. \A j \in JobIds : job'[j].status # "absent" => failures[j] <= job'[j].attempts
    BY <2>2, <2>3, <2>4 DEF Counted
  <2>6. \A j \in JobIds : j >= nextId' => failures[j] = 0
    <3>1. \A j \in JobIds : j >= nextId + 1 => j >= nextId
      BY <2>1, ConstantsTyped
    <3> QED BY <2>1, <3>1 DEF Counted
  <2> QED BY <1>0, <2>5, <2>6 DEF Counted, RetryBudget
<1>5. ASSUME NEW s \in Subjects, NEW statuses, Delete(s, statuses)
      PROVE Counted'
  BY <1>0, <1>5, NothingCounted DEF Delete
<1>6. CASE CancelQueued
  <2>1. \A j \in JobIds : job'[j].status # "absent" =>
           job[j].status # "absent" /\ job'[j].attempts = job[j].attempts
    BY <1>0, <1>6 DEF CancelQueued, Row
  <2> QED BY <1>0, <1>6, <2>1, NothingCounted DEF CancelQueued
<1>7. ASSUME NEW j \in JobIds, RetryDue(j) \/ Stall(j)
      PROVE Counted'
  <2>1. ASSUME NEW k \in JobIds
        PROVE job'[k].status = job[k].status /\ job'[k].attempts = job[k].attempts
    <3>1. CASE RetryDue(j)
      BY <1>0, <3>1 DEF RetryDue, Row
    <3>2. CASE Stall(j)
      BY <1>0, <3>2 DEF Stall, Row
    <3> QED BY <1>7, <3>1, <3>2
  <2> QED BY <1>0, <1>7, <2>1, NothingCounted DEF RetryDue, Stall
<1> QED BY <1>1, <1>2, <1>3, <1>4, <1>5, <1>6, <1>7 DEF ProducerStep, UserStep, Time

\* The engine counts a failure of its own row only, and writes the count it
\* remembers plus one, unless the row is gone.
LEMMA EngineKeepsCounted ==
  ASSUME OneEngine, Typed, Held, UniqueActive, Counted, NEW e \in Engines, EngineStep(e)
  PROVE  Counted'
<1>0. /\ job \in [JobIds -> Row] /\ \A j \in JobIds : job[j] \in Row
      /\ engine \in [Engines -> Worker] /\ engine[e] \in Worker
      /\ failures \in [JobIds -> Nat] /\ Idle.pc = "idle"
      /\ \A f \in Engines : f = e
  BY DEF Typed, TypeOK, Idle, OneEngine
<1>1. CASE Dispatch(e) \/ Crash(e)
  BY <1>0, <1>1, NothingCounted DEF Dispatch, Crash, Worker
<1>2. ASSUME NEW sweep \in BOOLEAN, BeginTick(e, sweep)
      PROVE Counted'
  <2>1. \A j \in JobIds : job'[j].status # "absent" =>
           job[j].status # "absent" /\ job'[j].attempts = job[j].attempts
    BY <1>0, <1>2 DEF BeginTick, Stalled, Row
  <2> QED BY <1>0, <1>2, <2>1, NothingCounted DEF BeginTick, Worker
<1>3. CASE Select(e)
  <2>1. CASE engine' = [engine EXCEPT ![e] = Idle]
    BY <1>0, <1>3, <2>1, NothingCounted DEF Select
  <2>2. ASSUME NEW j \in JobIds, Due(j),
               engine' = [engine EXCEPT ![e] =
                 [pc |-> "selected", job |-> j, attempts |-> job[j].attempts]]
        PROVE Counted'
    <3>1. failures[j] <= job[j].attempts
      BY <2>2 DEF Counted, Due
    <3>2. engine'[e].job = j /\ engine'[e].attempts = job[j].attempts
      BY <1>0, <2>2
    <3> QED BY <1>0, <1>3, <3>1, <3>2 DEF Select, Counted, RetryBudget
  <2> QED BY <1>3, <2>1, <2>2 DEF Select
<1>4. CASE Claim(e)
  <2> DEFINE j == engine[e].job
  <2>0. j \in JobIds
    BY <1>4 DEF Claim, Typed, ChosenRowsExist
  <2>1. CASE Claimable(j)
    <3>1. /\ job' = [job EXCEPT ![j] =
               [job[j] EXCEPT !.status = "running", !.delayed = FALSE, !.stalled = FALSE]]
          /\ engine' = [engine EXCEPT ![e].pc = "working"]
          /\ UNCHANGED failures /\ nextId' = nextId
      BY <1>4, <2>1 DEF Claim
    <3>2. \A k \in JobIds : job'[k].status # "absent" =>
             job[k].status # "absent" /\ job'[k].attempts = job[k].attempts
      <4>1. job[j].status = "queued"
        BY <2>1 DEF Claimable
      <4> HIDE DEF j
      <4> QED BY <1>0, <2>0, <3>1, <4>1 DEF Row
    <3>3. engine'[e].job = engine[e].job /\ engine'[e].attempts = engine[e].attempts
      BY <1>0, <3>1 DEF Worker
    <3>4. engine[e].pc = "selected"
      BY <1>4 DEF Claim
    <3> QED BY <1>0, <3>1, <3>2, <3>3, <3>4, NothingCounted
  <2>2. CASE ~Claimable(j)
    BY <1>0, <1>4, <2>2, NothingCounted DEF Claim
  <2> QED BY <2>1, <2>2
<1>5. CASE Complete(e)
  <2> DEFINE j == engine[e].job
  <2>1. /\ engine' = [engine EXCEPT ![e] = Idle] /\ UNCHANGED failures /\ nextId' = nextId
        /\ job' = IF job[j].status = "absent" THEN job
                  ELSE [job EXCEPT ![j] =
                    [job[j] EXCEPT !.status = "completed", !.delayed = FALSE,
                                   !.attempts = job[j].attempts, !.stalled = FALSE]]
    BY <1>5 DEF Complete, Settle
  <2>2. j \in JobIds
    BY <1>5 DEF Complete, Typed, ChosenRowsExist
  <2>3. \A k \in JobIds : job'[k].status # "absent" =>
           job[k].status # "absent" /\ job'[k].attempts = job[k].attempts
    <3> HIDE DEF j
    <3> QED BY <1>0, <2>1, <2>2 DEF Row
  <2> QED BY <1>0, <2>1, <2>3, NothingCounted
<1>6. ASSUME engine[e].pc = "working",
             NEW status \in {"queued", "failed"}, NEW delayed \in BOOLEAN,
             \/ Settle(e, status, delayed, engine[e].attempts + 1)
             \/ /\ job[engine[e].job].status = "absent" /\ UNCHANGED job
                /\ engine' = [engine EXCEPT ![e] = Idle] /\ nextId' = nextId,
             failures' = [failures EXCEPT ![engine[e].job] = failures[engine[e].job] + 1]
      PROVE Counted'
  <2> DEFINE j == engine[e].job  a == engine[e].attempts
  <2>1. /\ j \in JobIds /\ j < nextId
        /\ a \in 0..(MaxAttempts - 1) /\ failures[j] \in Nat /\ failures[j] <= a
    BY <1>0, <1>6 DEF Typed, ChosenRowsExist, Counted, Worker
  <2>2. /\ \A k \in JobIds : k # j => failures'[k] = failures[k]
        /\ failures'[j] = failures[j] + 1
        /\ engine'[e].pc = "idle" /\ nextId' = nextId
    BY <1>0, <1>6, <2>1 DEF Settle
  <2>3. \A k \in JobIds : k # j => job'[k] = job[k]
    BY <1>0, <1>6 DEF Settle
  <2>4. job'[j].status # "absent" => job'[j].attempts = a + 1
    <3>1. CASE job[j].status = "absent"
      BY <1>6, <3>1 DEF Settle
    <3>2. CASE job[j].status # "absent"
      <4>1. job' = [job EXCEPT ![j] = [job[j] EXCEPT !.status = status, !.delayed = delayed,
                                       !.attempts = a + 1, !.stalled = FALSE]]
        BY <1>6, <3>2 DEF Settle
      <4> HIDE DEF j, a
      <4> QED BY <1>0, <2>1, <4>1 DEF Row
    <3> QED BY <3>1, <3>2
  <2>5. failures'[j] <= a + 1 /\ failures'[j] <= MaxAttempts /\ ~(j >= nextId)
    <3> HIDE DEF j, a
    <3> QED BY <2>1, <2>2, ConstantsTyped DEF Typed, TypeOK
  <2> HIDE DEF j, a
  <2>6. RetryBudget'
    BY <2>1, <2>2, <2>5 DEF Counted, RetryBudget
  <2>7. ASSUME NEW k \in JobIds
        PROVE /\ job'[k].status # "absent" => failures'[k] <= job'[k].attempts
              /\ k >= nextId' => failures'[k] = 0
    <3>1. CASE k = j
      BY <2>2, <2>4, <2>5, <3>1
    <3>2. CASE k # j
      BY <2>2, <2>3, <3>2 DEF Counted
    <3> QED BY <3>1, <3>2
  <2> QED BY <1>0, <2>2, <2>6, <2>7 DEF Counted
<1>7. CASE Retry(e)
  <2> DEFINE j == engine[e].job
  <2>1. CASE Settle(e, "queued", TRUE, engine[e].attempts + 1)
    BY <1>6, <1>7, <2>1 DEF Retry
  <2>2. CASE /\ ~(ActiveRows(job[j].subject) \subseteq {j})
             /\ engine' = [engine EXCEPT ![e] = Idle]
             /\ UNCHANGED <<job, nextId, producer, crashes>>
    <3>1. job[j].status \in {"running", "absent"} /\ j \in JobIds
      BY <1>7 DEF Retry, Held, ExecutorOwnsRow, Typed, ChosenRowsExist
    <3>2. job[j].status # "running"
      BY <2>2, <3>1 DEF ActiveRows, UniqueActive, ActiveStatus
    <3> QED BY <1>6, <1>7, <2>2, <3>1, <3>2 DEF Retry
  <2> QED BY <1>7, <2>1, <2>2 DEF Retry
<1>8. CASE Fail(e)
  BY <1>6, <1>8 DEF Fail
<1> QED BY <1>1, <1>2, <1>3, <1>4, <1>5, <1>7, <1>8 DEF EngineStep

\* With one engine no job fails more than MaxAttempts times, whatever requests,
\* deletions, sweeps, overruns and crashes come between its executions: the count
\* the engine writes back is never behind what it executed.
THEOREM RetriesAreBounded == ASSUME OneEngine PROVE Spec => []RetryBudget
<1>1. Init => Counted
  BY ConstantsTyped DEF Init, Counted, RetryBudget, NoRow, Idle
<1>2. OneEngine /\ Disciplined
  BY DEF OneEngine, Disciplined
<1>3. Typed /\ Held /\ UniqueActive /\ Counted /\ [Next]_vars => Counted'
  <2> SUFFICES ASSUME Typed, Held, UniqueActive, Counted, [Next]_vars PROVE Counted'
    OBVIOUS
  <2>1. CASE UNCHANGED vars
    BY <2>1 DEF vars, Counted, RetryBudget
  <2> QED BY <1>2, <2>1, OthersKeepCounted, EngineKeepsCounted DEF Next
<1>4. Counted => RetryBudget
  BY DEF Counted
<1>5. Spec => [](Typed /\ Held)
  BY <1>2, AlwaysHeld
<1> QED BY <1>1, <1>3, <1>4, <1>5, OneActiveRow, PTL DEF Spec

-----------------------------------------------------------------------------
(* The refinement of JobLifecycle *)

stage == [j \in JobIds |-> Stage(j)]
owner == [j \in JobIds |-> job[j].subject]
holders == [j \in JobIds |-> Executing(j)]

\* What the abstract stage says of a row.
LEMMA StageOfRow ==
  ASSUME Typed, NEW j \in JobIds
  PROVE  /\ job[j].status = "queued" <=> Stage(j) = "waiting"
         /\ job[j].status = "running" <=> Stage(j) = "held"
         /\ job[j].status \in {"completed", "failed"} <=> Stage(j) = "done"
         /\ job[j].status = "absent" /\ j < nextId <=> Stage(j) = "gone"
         /\ job[j].status = "absent" /\ ~(j < nextId) <=> Stage(j) = "none"
<1>1. job[j].status \in {"absent", "queued", "running", "completed", "failed"}
  BY DEF Typed, TypeOK, Row
<1> QED BY <1>1 DEF Stage

\* A step that changes neither the stages, the owners nor the holders stutters.
LEMMA Stutter ==
  ASSUME \A j \in JobIds : /\ Stage(j)' = Stage(j)
                           /\ job'[j].subject = job[j].subject
                           /\ Executing(j)' = Executing(j)
  PROVE  UNCHANGED Lifecycle!vars
  BY DEF Lifecycle!vars

\* Nobody executes a row that waits.
LEMMA NobodyHoldsWaiting ==
  ASSUME Held, NEW j \in JobIds, job[j].status = "queued"
  PROVE  Executing(j) = {}
  BY DEF Executing, Held, ExecutorOwnsRow

\* An execution is the only one of its row.
LEMMA HolderIsAlone ==
  ASSUME Held, NEW e \in Engines, engine[e].pc = "working"
  PROVE  Executing(engine[e].job) = {e}
  BY DEF Executing, Held, Apart

\* A request in progress names a subject.
Asked == \A p \in Producers : producer[p].pc # "idle" => producer[p].subject \in Subjects

LEMMA StepAsked == Typed /\ Asked /\ [Next]_vars => Asked'
<1> SUFFICES ASSUME Typed, Asked, [Next]_vars PROVE Asked'
  OBVIOUS
<1>0. producer \in [Producers -> Request] /\ NoRequest.pc = "idle"
  BY DEF Typed, TypeOK, NoRequest
<1>1. CASE UNCHANGED producer
  BY <1>1 DEF Asked
<1>2. ASSUME NEW p \in Producers, NEW s \in Subjects, NEW priority \in Priorities,
             Ask(p, s, priority)
      PROVE Asked'
  BY <1>0, <1>2 DEF Ask, Asked
<1>3. ASSUME NEW p \in Producers, producer[p].pc # "idle",
             \A q \in Producers : q # p => producer'[q] = producer[q],
             producer'[p] = NoRequest \/ producer'[p].subject = producer[p].subject
      PROVE Asked'
  BY <1>0, <1>3 DEF Asked
<1>4. ASSUME NEW p \in Producers, LookUp(p) PROVE Asked'
  <2>1. producer'[p] = NoRequest \/ producer'[p].subject = producer[p].subject
    BY <1>0, <1>4 DEF LookUp, Request
  <2> QED BY <1>0, <1>3, <1>4, <2>1 DEF LookUp
<1>5. ASSUME NEW p \in Producers, Promote(p) \/ Insert(p) PROVE Asked'
  BY <1>0, <1>3, <1>5 DEF Promote, Insert
<1>6. ASSUME NEW p \in Producers, LoseRace(p) PROVE Asked'
  <2>1. producer'[p] = NoRequest \/ producer'[p].subject = producer[p].subject
    BY <1>0, <1>6 DEF LoseRace, Request
  <2> QED BY <1>0, <1>3, <1>6, <2>1 DEF LoseRace
<1>7. ASSUME NEW e \in Engines, EngineStep(e) PROVE UNCHANGED producer
  BY <1>7 DEF EngineStep, Dispatch, BeginTick, Select, Claim, Complete, Retry, Fail, Crash, Settle
<1>8. ASSUME UserStep \/ Time PROVE UNCHANGED producer
  BY <1>8 DEF UserStep, Delete, CancelQueued, Time, RetryDue, Stall
<1> QED BY <1>1, <1>2, <1>4, <1>5, <1>6, <1>7, <1>8 DEF Next, ProducerStep, vars

LEMMA InitMaps == Init => Lifecycle!Init
  BY ConstantsTyped DEF Init, Lifecycle!Init, Stage, NoRow, Executing, Idle, JobIds

\* Requests: an INSERT submits, everything else is invisible.
LEMMA ProducerMaps ==
  ASSUME Typed, Asked, NEW p \in Producers, ProducerStep(p)
  PROVE  [Lifecycle!Next]_(Lifecycle!vars)
<1>0. job \in [JobIds -> Row] /\ producer[p] \in Request
  BY DEF Typed, TypeOK
<1>1. CASE UNCHANGED <<job, nextId, engine>>
  BY <1>1, Stutter DEF Stage, Executing
<1>2. CASE Promote(p)
  <2>1. \A j \in JobIds : job'[j].status = job[j].status /\ job'[j].subject = job[j].subject
    BY <1>0, <1>2 DEF Promote, Row
  <2> QED BY <1>2, <2>1, Stutter DEF Promote, Stage, Executing
<1>3. CASE Insert(p)
  <2> DEFINE s == producer[p].subject
  <2>1. nextId \in JobIds /\ nextId' = nextId + 1
    BY <1>3, ConstantsTyped DEF Insert, Typed, TypeOK, JobIds
  <2>2. job'[nextId].status = "queued" /\ job'[nextId].subject = s
    BY <1>0, <1>3, <2>1 DEF Insert, NewRow
  <2>3. \A j \in JobIds : j # nextId => job'[j] = job[j] /\ (j < nextId' <=> j < nextId)
    BY <1>0, <1>3, <2>1, ConstantsTyped DEF Insert
  <2>4. Stage(nextId) = "none"
    <3>1. job[nextId].status = "absent"
      BY <2>1, ConstantsTyped DEF Typed, RowsInOrder, NoRow
    <3> QED BY <2>1, <3>1, ConstantsTyped, StageOfRow
  <2>5. stage' = [stage EXCEPT ![nextId] = "waiting"]
    <3>1. ASSUME NEW j \in JobIds, j # nextId PROVE Stage(j)' = Stage(j)
      BY <2>3, <3>1 DEF Stage
    <3>3. \A j \in JobIds : j = nextId => Stage(j)' = "waiting"
      BY <2>2 DEF Stage
    <3> QED BY <2>1, <3>1, <3>3 DEF stage
  <2>6. owner' = [owner EXCEPT ![nextId] = s]
    BY <2>2, <2>3 DEF owner
  <2>7. holders' = holders
    BY <1>3 DEF Insert, holders, Executing
  <2>8. Lifecycle!Active(s) = {}
    <3>1. \A j \in JobIds : job[j].subject = s => job[j].status \notin ActiveStatus
      BY <1>3 DEF Insert, Conflict, ActiveRows
    <3> QED BY <3>1, StageOfRow DEF Lifecycle!Active, ActiveStatus
  <2>9. s \in Subjects
    BY <1>3 DEF Insert, Asked
  <2> QED BY <2>1, <2>4, <2>5, <2>6, <2>7, <2>8, <2>9
       DEF Lifecycle!Next, Lifecycle!Submit, stage, owner, holders
<1> QED BY <1>1, <1>2, <1>3 DEF ProducerStep, Ask, LookUp, LoseRace

\* Users and time: deletions discard, a disabled rule cancels, the clock is invisible.
LEMMA TableMaps ==
  ASSUME Typed, UserStep \/ Time
  PROVE  [Lifecycle!Next]_(Lifecycle!vars)
<1>0. job \in [JobIds -> Row] /\ NoRow.status = "absent" /\ NoRow.subject = NoSubject
  BY DEF Typed, TypeOK, NoRow
<1>1. ASSUME NEW s \in Subjects, NEW statuses, Delete(s, statuses)
      PROVE Lifecycle!Next
  <2> DEFINE lost == {j \in JobIds : job[j].subject = s /\ job[j].status \in statuses}
  <2>1. ASSUME NEW j \in lost PROVE Stage(j) # "none"
    <3>1. job[j] # NoRow
      BY <1>0, NoSubjectAssumption
    <3>2. j < nextId
      BY <3>1, ConstantsTyped DEF Typed, TypeOK, RowsInOrder
    <3> QED BY <3>2, StageOfRow
  <2>2. \A j \in JobIds : IF j \in lost THEN job'[j] = NoRow ELSE job'[j] = job[j]
    BY <1>1 DEF Delete
  <2>3. ASSUME NEW j \in lost PROVE Stage(j)' = "gone"
    <3>1. job[j] # NoRow
      BY <1>0, NoSubjectAssumption
    <3>2. j < nextId /\ nextId' = nextId
      BY <1>1, <3>1, ConstantsTyped DEF Delete, Typed, TypeOK, RowsInOrder
    <3> QED BY <1>0, <2>2, <3>2 DEF Stage
  <2>4. \A j \in JobIds : j \notin lost => Stage(j)' = Stage(j)
    BY <1>1, <2>2 DEF Delete, Stage
  <2>5. stage' = [j \in JobIds |-> IF j \in lost THEN "gone" ELSE stage[j]]
    BY <2>3, <2>4 DEF stage
  <2>6. owner' = [j \in JobIds |-> IF j \in lost THEN NoSubject ELSE owner[j]]
    BY <1>0, <2>2 DEF owner
  <2>7. holders' = holders
    BY <1>1 DEF Delete, holders, Executing
  <2> HIDE DEF lost
  <2>8. lost \in SUBSET JobIds
    BY DEF lost
  <2> QED BY <2>1, <2>5, <2>6, <2>7, <2>8
       DEF Lifecycle!Next, Lifecycle!Discard, stage, owner, holders
<1>2. CASE CancelQueued
  <2> DEFINE called == {j \in JobIds : job[j].status = "queued"}
  <2>1. \A j \in called : Stage(j) = "waiting"
    BY StageOfRow
  <2>2. \A j \in JobIds : /\ job'[j].subject = job[j].subject
                          /\ IF j \in called THEN job'[j].status = "completed"
                             ELSE job'[j].status = job[j].status
    BY <1>0, <1>2 DEF CancelQueued, Row
  <2>3. stage' = [j \in JobIds |-> IF j \in called THEN "done" ELSE stage[j]]
    <3>1. \A j \in called : Stage(j)' = "done"
      BY <2>2 DEF Stage
    <3>2. \A j \in JobIds : j \notin called => Stage(j)' = Stage(j)
      BY <1>2, <2>2 DEF CancelQueued, Stage
    <3> QED BY <3>1, <3>2 DEF stage
  <2>4. owner' = owner
    BY <2>2 DEF owner
  <2>5. holders' = holders
    BY <1>2 DEF CancelQueued, holders, Executing
  <2> HIDE DEF called
  <2>6. called \in SUBSET JobIds
    BY DEF called
  <2>7. Lifecycle!Cancel(called)
    BY <2>1, <2>3, <2>4, <2>5, <2>6 DEF Lifecycle!Cancel, stage, owner, holders
  <2> QED BY <2>6, <2>7 DEF Lifecycle!Next
<1>3. ASSUME NEW j \in JobIds, RetryDue(j) \/ Stall(j)
      PROVE UNCHANGED Lifecycle!vars
  <2>1. \A k \in JobIds : job'[k].status = job[k].status /\ job'[k].subject = job[k].subject
    <3>1. CASE RetryDue(j)
      BY <1>0, <3>1 DEF RetryDue, Row
    <3>2. CASE Stall(j)
      BY <1>0, <3>2 DEF Stall, Row
    <3> QED BY <1>3, <3>1, <3>2
  <2> QED BY <1>3, <2>1, Stutter DEF RetryDue, Stall, Stage, Executing
<1> QED BY <1>1, <1>2, <1>3 DEF UserStep, Time

\* An engine that stops executing and leaves its row alone has vanished.
LEMMA LeaveIsVanish ==
  ASSUME Typed, Held, NEW e \in Engines, engine[e].pc = "working",
         engine' = [engine EXCEPT ![e] = Idle], UNCHANGED <<job, nextId>>
  PROVE  Lifecycle!Next
<1> DEFINE j == engine[e].job
<1>1. j \in JobIds /\ Executing(j) = {e}
  BY HolderIsAlone DEF Typed, ChosenRowsExist
<1>2. holders' = [holders EXCEPT ![j] = {}]
  <2>1. ASSUME NEW k \in JobIds PROVE Executing(k)' = IF k = j THEN {} ELSE Executing(k)
    BY <1>1 DEF Executing, Typed, TypeOK, Idle
  <2> QED BY <1>1, <2>1 DEF holders
<1>3. stage' = stage /\ owner' = owner
  BY DEF stage, Stage, owner
<1> HIDE DEF j
<1>4. Lifecycle!Vanish(j, e)
  BY <1>1, <1>2, <1>3 DEF Lifecycle!Vanish, stage, owner, holders
<1> QED BY <1>1, <1>4 DEF Lifecycle!Next

\* The write that ends an execution releases the job; if the row was deleted,
\* the engine merely leaves.
LEMMA SettleIsRelease ==
  ASSUME Typed, Held, NEW e \in Engines, engine[e].pc = "working",
         NEW status \in {"queued", "completed", "failed"}, NEW delayed, NEW attempts,
         Settle(e, status, delayed, attempts)
  PROVE  Lifecycle!Next
<1> DEFINE j == engine[e].job
<1>0. job \in [JobIds -> Row] /\ engine' = [engine EXCEPT ![e] = Idle] /\ nextId' = nextId
  BY DEF Typed, TypeOK, Settle
<1>1. CASE job[j].status = "absent"
  BY <1>0, <1>1, LeaveIsVanish DEF Settle
<1>2. CASE job[j].status # "absent"
  <2> DEFINE next == IF status = "queued" THEN "waiting" ELSE "done"
  <2>1. j \in JobIds /\ Executing(j) = {e}
    BY HolderIsAlone DEF Typed, ChosenRowsExist
  <2>2. Stage(j) = "held"
    <3>1. job[j].status = "running"
      BY <1>2 DEF Held, ExecutorOwnsRow
    <3> QED BY <2>1, <3>1 DEF Stage
  <2>3. \A k \in JobIds : k # j => job'[k] = job[k]
    BY <1>0, <1>2 DEF Settle
  <2>4. job'[j].status = status /\ job'[j].subject = job[j].subject
    <3>1. job' = [job EXCEPT ![j] = [job[j] EXCEPT !.status = status, !.delayed = delayed,
                                       !.attempts = attempts, !.stalled = FALSE]]
      BY <1>2 DEF Settle
    <3> HIDE DEF j
    <3> QED BY <1>0, <2>1, <3>1 DEF Row
  <2>5. stage' = [stage EXCEPT ![j] = next]
    <3>1. \A k \in JobIds : k # j => Stage(k)' = Stage(k)
      BY <1>0, <2>3 DEF Stage
    <3>2. \A k \in JobIds : k = j => Stage(k)' = next
      BY <2>4 DEF Stage
    <3> QED BY <2>1, <3>1, <3>2 DEF stage
  <2>6. owner' = owner
    BY <2>3, <2>4 DEF owner
  <2>7. holders' = [holders EXCEPT ![j] = {}]
    <3>1. ASSUME NEW k \in JobIds PROVE Executing(k)' = IF k = j THEN {} ELSE Executing(k)
      BY <1>0, <2>1 DEF Executing, Typed, TypeOK, Idle
    <3> QED BY <2>1, <3>1 DEF holders
  <2>8. next \in {"done", "waiting"}
    OBVIOUS
  <2> HIDE DEF j, next
  <2>9. Lifecycle!Release(j, e, next)
    BY <2>1, <2>2, <2>5, <2>6, <2>7 DEF Lifecycle!Release, stage, owner, holders
  <2> QED BY <2>1, <2>8, <2>9 DEF Lifecycle!Next
<1> QED BY <1>1, <1>2

\* Engines: a claim takes, the sweep reclaims what nobody holds.
LEMMA EngineMaps ==
  ASSUME Disciplined, Typed, Held, NEW e \in Engines, EngineStep(e)
  PROVE  [Lifecycle!Next]_(Lifecycle!vars)
<1>0. job \in [JobIds -> Row] /\ engine \in [Engines -> Worker]
  BY DEF Typed, TypeOK
<1>1. ASSUME UNCHANGED <<job, nextId>>, engine[e].pc # "working", engine'[e].pc # "working",
             \A f \in Engines : f # e => engine'[f] = engine[f]
      PROVE UNCHANGED Lifecycle!vars
  <2>1. \A j \in JobIds : Executing(j)' = Executing(j)
    BY <1>1 DEF Executing
  <2> QED BY <1>1, <2>1, Stutter DEF Stage
<1>2. CASE Dispatch(e) \/ Select(e)
  BY <1>0, <1>1, <1>2 DEF Dispatch, Select, Idle, Worker
<1>3. ASSUME NEW sweep \in BOOLEAN, BeginTick(e, sweep)
      PROVE Lifecycle!Next
  <2> DEFINE lost == {j \in JobIds : sweep /\ Stalled(j)}
  <2>1. \A j \in lost : Stage(j) = "held"
    BY DEF Stalled, Stage
  <2>2. \A j \in lost : Executing(j) = {}
    <3>1. CASE ~OverrunAllowed
      BY <3>1 DEF Stalled, Executing, Held, Prompt
    <3>2. CASE \A g, h \in Engines : g = h
      BY <1>3, <3>2 DEF BeginTick, Executing
    <3> QED BY <3>1, <3>2 DEF Disciplined
  <2>3. \A j \in JobIds : /\ job'[j].subject = job[j].subject
                          /\ IF j \in lost THEN job'[j].status = "queued"
                             ELSE job'[j].status = job[j].status
    BY <1>0, <1>3 DEF BeginTick, Row
  <2>4. stage' = [j \in JobIds |-> IF j \in lost THEN "waiting" ELSE stage[j]]
    <3>1. \A j \in lost : Stage(j)' = "waiting"
      BY <2>3 DEF Stage
    <3>2. \A j \in JobIds : j \notin lost => Stage(j)' = Stage(j)
      BY <1>3, <2>3 DEF BeginTick, Stage
    <3> QED BY <3>1, <3>2 DEF stage
  <2>5. owner' = owner
    BY <2>3 DEF owner
  <2>6. holders' = holders
    BY <1>0, <1>3 DEF BeginTick, holders, Executing, Worker
  <2> HIDE DEF lost
  <2>7. lost \in SUBSET JobIds
    BY DEF lost
  <2>8. Lifecycle!Reclaim(lost)
    BY <2>1, <2>2, <2>4, <2>5, <2>6, <2>7 DEF Lifecycle!Reclaim, stage, owner, holders
  <2> QED BY <2>7, <2>8 DEF Lifecycle!Next
<1>4. CASE Claim(e)
  <2> DEFINE j == engine[e].job
  <2>1. CASE Claimable(j)
    <3>1. j \in JobIds
      BY <1>4 DEF Claim, Typed, ChosenRowsExist
    <3>2. Stage(j) = "waiting" /\ Executing(j) = {}
      BY <2>1, <3>1, NobodyHoldsWaiting DEF Claimable, Stage
    <3>3. /\ job' = [job EXCEPT ![j] =
               [job[j] EXCEPT !.status = "running", !.delayed = FALSE, !.stalled = FALSE]]
          /\ nextId' = nextId
          /\ engine' = [engine EXCEPT ![e].pc = "working"]
      BY <1>4, <2>1 DEF Claim
    <3>4. /\ \A k \in JobIds : k # j => job'[k] = job[k]
          /\ job'[j].status = "running" /\ job'[j].subject = job[j].subject
      <4> HIDE DEF j
      <4> QED BY <1>0, <3>1, <3>3 DEF Row
    <3>5. stage' = [stage EXCEPT ![j] = "held"]
      <4>1. \A k \in JobIds : k # j => Stage(k)' = Stage(k)
        BY <3>3, <3>4 DEF Stage
      <4>2. \A k \in JobIds : k = j => Stage(k)' = "held"
        BY <3>4 DEF Stage
      <4> QED BY <3>1, <4>1, <4>2 DEF stage
    <3>6. owner' = owner
      BY <3>4 DEF owner
    <3>7. holders' = [holders EXCEPT ![j] = {e}]
      <4>1. ASSUME NEW k \in JobIds PROVE Executing(k)' = IF k = j THEN {e} ELSE Executing(k)
        BY <1>0, <1>4, <3>2, <3>3 DEF Claim, Executing, Worker
      <4> QED BY <3>1, <4>1 DEF holders
    <3> HIDE DEF j
    <3>8. Lifecycle!Take(j, e)
      BY <3>1, <3>2, <3>5, <3>6, <3>7 DEF Lifecycle!Take, stage, owner, holders
    <3> QED BY <3>1, <3>8 DEF Lifecycle!Next
  <2>2. CASE ~Claimable(j)
    BY <1>0, <1>1, <1>4, <2>2 DEF Claim, Idle
  <2> QED BY <2>1, <2>2
<1>5. CASE Complete(e) \/ Fail(e)
  BY <1>5, SettleIsRelease DEF Complete, Fail
<1>6. CASE Retry(e)
  BY <1>6, SettleIsRelease, LeaveIsVanish DEF Retry
<1>7. CASE Crash(e)
  <2>1. engine' = [engine EXCEPT ![e] = Idle] /\ UNCHANGED <<job, nextId>>
    BY <1>7 DEF Crash
  <2>2. CASE engine[e].pc = "working"
    BY <2>1, <2>2, LeaveIsVanish
  <2>3. CASE engine[e].pc # "working"
    BY <1>0, <1>1, <2>1, <2>3 DEF Idle
  <2> QED BY <2>2, <2>3
<1> QED BY <1>2, <1>3, <1>4, <1>5, <1>6, <1>7 DEF EngineStep

\* The queue implements JobLifecycle: whatever engines, requests, crashes and
\* deletions do, a job is taken only when nobody holds it and returns only from
\* its holder, or once its holder vanished.
THEOREM QueueImplementsLifecycle == ASSUME Disciplined PROVE Spec => ImplementsLifecycle
<1>1. Disciplined
  OBVIOUS
<1>2. Init => Asked
  BY DEF Init, Asked, NoRequest
<1>3. Typed /\ Held /\ Asked /\ [Next]_vars => [Lifecycle!Next]_(Lifecycle!vars)
  <2> SUFFICES ASSUME Typed, Held, Asked, [Next]_vars
               PROVE  [Lifecycle!Next]_(Lifecycle!vars)
    OBVIOUS
  <2>1. CASE UNCHANGED vars
    BY <2>1, Stutter DEF vars, Stage, Executing
  <2> QED BY <1>1, <2>1, ProducerMaps, EngineMaps, TableMaps DEF Next
<1> QED BY <1>2, <1>3, InitMaps, StepAsked, AlwaysHeld, PTL DEF Spec, ImplementsLifecycle, Lifecycle!Spec
=============================================================================
