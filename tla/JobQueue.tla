------------------------------ MODULE JobQueue ------------------------------
(***************************************************************************)
(* The durable job queue that capture, release, magnet and download share  *)
(* (server/db.ts queueUnique and the four workers' runNext...Job and       *)
(* recoverStalledJobs): one table, one row per job, a unique index over    *)
(* the subject of the queued and running rows, a compare-and-set claim,    *)
(* completion writes that name the row but not its state, and a sweep that *)
(* requeues rows that have run for ten minutes.                            *)
(*                                                                         *)
(* A step is one SQL statement (or one transaction) of one process.  Rows  *)
(* are numbered in the order of their INSERT, which stands for the order   *)
(* of requested_at as well: the time is read just before the INSERT.       *)
(***************************************************************************)
EXTENDS Naturals, FiniteSets

CONSTANTS
  Engines,          \* execution engines on the one database
  Producers,        \* API requests and pipeline steps that queue work
  Subjects,         \* subscriptions, or archive entries
  NoSubject,        \* the subject of a row that does not exist
  MaxJobs,          \* bound: rows ever inserted
  MaxCrashes,       \* bound: executions lost to a crash
  MaxAttempts,      \* retry.ts MAX_JOB_ATTEMPTS
  OverrunAllowed,   \* TRUE: a handler may still run after ten minutes
  TicksUnprompted   \* TRUE: the handler is dispatched without queued work too

ASSUME NoSubjectAssumption == NoSubject \notin Subjects
ASSUME BoundsAssumption ==
  MaxJobs \in Nat /\ MaxCrashes \in Nat /\ MaxAttempts \in Nat \ {0}
ASSUME ModeAssumption == OverrunAllowed \in BOOLEAN /\ TicksUnprompted \in BOOLEAN

VARIABLES
  job,        \* the table
  nextId,     \* its identity sequence
  engine,     \* per engine: the worker's progress and its local variables
  producer,   \* per producer: the progress of its queueUnique call
  failures,   \* history: executions of each job that ended in an error
  crashes     \* history: executions lost so far

vars == <<job, nextId, engine, producer, failures, crashes>>

JobIds == 1..MaxJobs
Priorities == {0, 100}          \* JOB_PRIORITY.normal, JOB_PRIORITY.manual
QueueAttempts == 3              \* rounds of queueUnique
ActiveStatus == {"queued", "running"}

Row == [status : {"absent", "queued", "running", "completed", "failed"},
        subject : Subjects \cup {NoSubject},
        priority : Priorities,
        attempts : 0..MaxAttempts,
        delayed : BOOLEAN,     \* retry_after lies in the future
        stalled : BOOLEAN]     \* running, and started_at is ten minutes old

NoRow == [status |-> "absent", subject |-> NoSubject, priority |-> 0,
          attempts |-> 0, delayed |-> FALSE, stalled |-> FALSE]

NewRow(s, p) == [status |-> "queued", subject |-> s, priority |-> p,
                 attempts |-> 0, delayed |-> FALSE, stalled |-> FALSE]

Worker == [pc : {"idle", "dispatched", "ticking", "selected", "working"},
           job : JobIds \cup {0},
           attempts : 0..(MaxAttempts - 1)]   \* attempt_count as selected

Idle == [pc |-> "idle", job |-> 0, attempts |-> 0]

Request == [pc : {"idle", "lookup", "promote", "insert"},
            subject : Subjects \cup {NoSubject},
            priority : Priorities,
            found : JobIds \cup {0},
            tries : 0..QueueAttempts]

NoRequest == [pc |-> "idle", subject |-> NoSubject, priority |-> 0, found |-> 0, tries |-> 0]

TypeOK ==
  /\ job \in [JobIds -> Row]
  /\ nextId \in 1..(MaxJobs + 1)
  /\ engine \in [Engines -> Worker]
  /\ producer \in [Producers -> Request]
  /\ failures \in [JobIds -> Nat]
  /\ crashes \in 0..MaxCrashes

Init ==
  /\ job = [j \in JobIds |-> NoRow]
  /\ nextId = 1
  /\ engine = [e \in Engines |-> Idle]
  /\ producer = [p \in Producers |-> NoRequest]
  /\ failures = [j \in JobIds |-> 0]
  /\ crashes = 0

-----------------------------------------------------------------------------
(* Reading the table *)

ActiveRows(s) == {j \in JobIds : job[j].subject = s /\ job[j].status \in ActiveStatus}

\* retry_after IS NULL OR retry_after <= now
Due(j) == job[j].status = "queued" /\ ~job[j].delayed

\* ORDER BY priority DESC, requested_at ASC, id ASC
Before(j, k) ==
  \/ job[j].priority > job[k].priority
  \/ job[j].priority = job[k].priority /\ j <= k

\* What INSERT ... ON CONFLICT checks, through the unique index.
NoConflict(s) == FALSE
Conflict(s) == ActiveRows(s) # {}

\* started_at < now - 10 minutes
StalledAnyAge(j) == job[j].status = "running"
StalledNever(j) == FALSE
Stalled(j) == job[j].status = "running" /\ job[j].stalled

\* The WHERE clause of the claim.
ClaimableWhenActive(j) == job[j].status \in ActiveStatus
Claimable(j) == job[j].status = "queued"

\* attempt < MAX_JOB_ATTEMPTS
MayRetryOnceMore(attempt) == attempt <= MaxAttempts
MayRetry(attempt) == attempt < MaxAttempts

Executing(j) == {e \in Engines : engine[e].pc = "working" /\ engine[e].job = j}

-----------------------------------------------------------------------------
(* queueUnique: look for an active row, promote it or insert a new one *)

Ask(p, s, priority) ==
  /\ producer[p].pc = "idle"
  /\ producer' = [producer EXCEPT ![p] =
       [pc |-> "lookup", subject |-> s, priority |-> priority, found |-> 0, tries |-> 0]]
  /\ UNCHANGED <<job, nextId, engine, failures, crashes>>

LookUp(p) ==
  /\ producer[p].pc = "lookup"
  /\ LET request == producer[p]
         active == ActiveRows(request.subject) IN
       \/ /\ active = {}
          /\ producer' = [producer EXCEPT ![p] = [request EXCEPT !.pc = "insert"]]
       \/ \E j \in active :
            producer' = [producer EXCEPT ![p] =
              IF job[j].priority < request.priority
              THEN [request EXCEPT !.pc = "promote", !.found = j]
              ELSE NoRequest]
  /\ UNCHANGED <<job, nextId, engine, failures, crashes>>

Promote(p) ==
  /\ producer[p].pc = "promote"
  /\ LET j == producer[p].found
         priority == producer[p].priority IN
       job' = [job EXCEPT ![j].priority =
         IF job[j].status = "queued" /\ job[j].priority < priority
         THEN priority ELSE job[j].priority]
  /\ producer' = [producer EXCEPT ![p] = NoRequest]
  /\ UNCHANGED <<nextId, engine, failures, crashes>>

\* INSERT ... ON CONFLICT DO NOTHING, when the unique index lets it in ...
Insert(p) ==
  /\ producer[p].pc = "insert"
  /\ ~Conflict(producer[p].subject)
  /\ nextId <= MaxJobs
  /\ job' = [job EXCEPT ![nextId] = NewRow(producer[p].subject, producer[p].priority)]
  /\ nextId' = nextId + 1
  /\ producer' = [producer EXCEPT ![p] = NoRequest]
  /\ UNCHANGED <<engine, failures, crashes>>

\* ... and when it does not: look again, and throw after three lost races.
LoseRace(p) ==
  /\ producer[p].pc = "insert"
  /\ Conflict(producer[p].subject)
  /\ LET request == producer[p] IN
       producer' = [producer EXCEPT ![p] =
         IF request.tries + 1 < QueueAttempts
         THEN [request EXCEPT !.pc = "lookup", !.tries = request.tries + 1]
         ELSE NoRequest]
  /\ UNCHANGED <<job, nextId, engine, failures, crashes>>

\* Deleting a subscription drops all its rows; resetting its archive drops the
\* queued rows of the jobs table and leaves a running one alone.
Delete(s, statuses) ==
  /\ \E j \in JobIds : job[j].subject = s
  /\ job' = [j \in JobIds |->
       IF job[j].subject = s /\ job[j].status \in statuses THEN NoRow ELSE job[j]]
  /\ UNCHANGED <<nextId, engine, producer, failures, crashes>>

\* Switching the release-date or magnet rule off ends every queued row of its
\* table in one statement.
CancelQueued ==
  /\ job' = [j \in JobIds |->
       IF job[j].status = "queued" THEN [job[j] EXCEPT !.status = "completed"] ELSE job[j]]
  /\ UNCHANGED <<nextId, engine, producer, failures, crashes>>

-----------------------------------------------------------------------------
(* One engine: dispatch, tick, select, claim, execute *)

\* The dispatcher runs the handler when runnableHandlers() reports work.
Dispatch(e) ==
  /\ engine[e].pc = "idle"
  /\ TicksUnprompted \/ \E j \in JobIds : Due(j)
  /\ engine' = [engine EXCEPT ![e].pc = "dispatched"]
  /\ UNCHANGED <<job, nextId, producer, failures, crashes>>

\* recoverStalledJobs, which does nothing within a minute of its last sweep.
BeginTick(e, sweep) ==
  /\ engine[e].pc = "dispatched"
  /\ job' = [j \in JobIds |->
       IF sweep /\ Stalled(j)
       THEN [job[j] EXCEPT !.status = "queued", !.stalled = FALSE]
       ELSE job[j]]
  /\ engine' = [engine EXCEPT ![e].pc = "ticking"]
  /\ UNCHANGED <<nextId, producer, failures, crashes>>

Select(e) ==
  /\ engine[e].pc = "ticking"
  /\ \/ /\ \A j \in JobIds : ~Due(j)
        /\ engine' = [engine EXCEPT ![e] = Idle]
     \/ \E j \in JobIds :
          /\ Due(j)
          /\ \A k \in JobIds : Due(k) => Before(j, k)
          /\ engine' = [engine EXCEPT ![e] =
               [pc |-> "selected", job |-> j, attempts |-> job[j].attempts]]
  /\ UNCHANGED <<job, nextId, producer, failures, crashes>>

\* UPDATE ... SET status = 'running' WHERE id = ? AND status = 'queued'
Claim(e) ==
  /\ engine[e].pc = "selected"
  /\ LET j == engine[e].job IN
       IF Claimable(j)
       THEN /\ job' = [job EXCEPT ![j] =
                 [job[j] EXCEPT !.status = "running", !.delayed = FALSE, !.stalled = FALSE]]
            /\ engine' = [engine EXCEPT ![e].pc = "working"]
       ELSE /\ engine' = [engine EXCEPT ![e] = Idle]
            /\ UNCHANGED job
  /\ UNCHANGED <<nextId, producer, failures, crashes>>

\* The execution of e's job ends: its row, if it is still there, gets the new
\* state, delay and attempt count.  The statement names the row only.
Settle(e, status, delayed, attempts) ==
  LET j == engine[e].job IN
    /\ job' = IF job[j].status = "absent" THEN job
              ELSE [job EXCEPT ![j] =
                [job[j] EXCEPT !.status = status, !.delayed = delayed,
                               !.attempts = attempts, !.stalled = FALSE]]
    /\ engine' = [engine EXCEPT ![e] = Idle]
    /\ UNCHANGED <<nextId, producer, crashes>>

Complete(e) ==
  /\ engine[e].pc = "working"
  /\ Settle(e, "completed", FALSE, job[engine[e].job].attempts)
  /\ UNCHANGED failures

\* A transient error requeues the row.  If the row had ended meanwhile and its
\* subject has another active row, the unique index refuses the statement and
\* the tick ends with the table as it was.
Retry(e) ==
  /\ engine[e].pc = "working"
  /\ MayRetry(engine[e].attempts + 1)
  /\ LET j == engine[e].job IN
       /\ \/ /\ ActiveRows(job[j].subject) \subseteq {j}
             /\ Settle(e, "queued", TRUE, engine[e].attempts + 1)
          \/ /\ ~(ActiveRows(job[j].subject) \subseteq {j})
             /\ engine' = [engine EXCEPT ![e] = Idle]
             /\ UNCHANGED <<job, nextId, producer, crashes>>
       /\ failures' = [failures EXCEPT ![j] = failures[j] + 1]

\* A permanent error, or the last attempt.
Fail(e) ==
  /\ engine[e].pc = "working"
  /\ Settle(e, "failed", FALSE, engine[e].attempts + 1)
  /\ failures' = [failures EXCEPT ![engine[e].job] = failures[engine[e].job] + 1]

\* The engine dies, or its last statement cannot reach the database: the row
\* stays as it is and nobody remembers it.
Crash(e) ==
  /\ engine[e].pc # "idle"
  /\ crashes < MaxCrashes
  /\ crashes' = crashes + 1
  /\ engine' = [engine EXCEPT ![e] = Idle]
  /\ UNCHANGED <<job, nextId, producer, failures>>

-----------------------------------------------------------------------------
(* Time *)

RetryDue(j) ==
  /\ job[j].delayed
  /\ job' = [job EXCEPT ![j].delayed = FALSE]
  /\ UNCHANGED <<nextId, engine, producer, failures, crashes>>

\* Ten minutes have passed since the row was claimed.
Stall(j) ==
  /\ job[j].status = "running"
  /\ ~job[j].stalled
  /\ OverrunAllowed \/ Executing(j) = {}
  /\ job' = [job EXCEPT ![j].stalled = TRUE]
  /\ UNCHANGED <<nextId, engine, producer, failures, crashes>>

EngineStep(e) ==
  \/ Dispatch(e)
  \/ \E sweep \in BOOLEAN : BeginTick(e, sweep)
  \/ Select(e) \/ Claim(e) \/ Complete(e) \/ Retry(e) \/ Fail(e) \/ Crash(e)

ProducerStep(p) ==
  \/ \E s \in Subjects, priority \in Priorities : Ask(p, s, priority)
  \/ LookUp(p) \/ Promote(p) \/ Insert(p) \/ LoseRace(p)

UserStep ==
  \/ \E s \in Subjects :
       \/ Delete(s, {"queued"})
       \/ Delete(s, {"queued", "running", "completed", "failed"})
  \/ CancelQueued

Time == \E j \in JobIds : RetryDue(j) \/ Stall(j)

Next ==
  \/ \E e \in Engines : EngineStep(e)
  \/ \E p \in Producers : ProducerStep(p)
  \/ UserStep
  \/ Time

Spec == Init /\ [][Next]_vars

\* Timers fire, statements return, every execution ends, and the one-minute
\* throttle of the sweep cannot hold for ever.
Fairness ==
  /\ \A e \in Engines :
       /\ WF_vars(Dispatch(e))
       /\ WF_vars(\E sweep \in BOOLEAN : BeginTick(e, sweep))
       /\ SF_vars(BeginTick(e, TRUE))
       /\ WF_vars(Select(e))
       /\ WF_vars(Claim(e))
       /\ WF_vars(Complete(e) \/ Retry(e) \/ Fail(e))
  /\ \A j \in JobIds : WF_vars(RetryDue(j)) /\ WF_vars(Stall(j))

FairSpec == Spec /\ Fairness

-----------------------------------------------------------------------------
(* Properties *)

\* A subject never has two queued or running rows, whatever the requests,
\* retries and sweeps of several processes do (the unique index, and the
\* statements that could run into it).
UniqueActive ==
  \A j, k \in JobIds :
    /\ job[j].status \in ActiveStatus
    /\ job[k].status \in ActiveStatus
    /\ job[j].subject = job[k].subject
    => j = k

\* No job is executed by two engines at once.
ExclusiveExecution ==
  \A j \in JobIds : Cardinality(Executing(j)) <= 1

\* While an engine executes a job nobody else moves its row: it is running, or
\* the user deleted it.  The completion writes, which do not look at the
\* state, rely on this.
ExecutorOwnsRow ==
  \A e \in Engines :
    engine[e].pc = "working" => job[engine[e].job].status \in {"running", "absent"}

\* A job that ended stays as it ended until it is deleted: no late write of a
\* previous execution revives it or changes its outcome.
EndedStaysEnded ==
  [][\A j \in JobIds :
       job[j].status \in {"completed", "failed"}
       => job'[j].status \in {job[j].status, "absent"}]_vars

\* An execution that fails is repeated at most MaxAttempts - 1 times (README:
\* two automatic retries).
RetryBudget == \A j \in JobIds : failures[j] <= MaxAttempts

\* Every queued job is completed, fails for good or is deleted, across crashes.
EveryJobSettles ==
  \A j \in JobIds :
    job[j].status = "queued" ~> job[j].status \notin ActiveStatus

Stage(j) ==
  CASE job[j].status = "queued" -> "waiting"
    [] job[j].status = "running" -> "held"
    [] job[j].status \in {"completed", "failed"} -> "done"
    [] job[j].status = "absent" -> IF j < nextId THEN "gone" ELSE "none"

Lifecycle == INSTANCE JobLifecycle WITH
  stage <- [j \in JobIds |-> Stage(j)],
  owner <- [j \in JobIds |-> job[j].subject],
  holders <- [j \in JobIds |-> Executing(j)]

\* The table and the engines together behave like the abstract queue: a job is
\* taken only when nobody holds it and comes back only from its holder or, if
\* that one vanished, from nobody.
ImplementsLifecycle == Lifecycle!Spec
=============================================================================
