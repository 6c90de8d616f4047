---------------------------- MODULE JobLifecycle ----------------------------
(***************************************************************************)
(* What one durable job queue of Page Watch promises, without saying how.  *)
(* A job is submitted for a subject (a subscription or an archive entry),  *)
(* waits, is held by at most one engine, and ends.  A holder may put the   *)
(* job back, or vanish; only a job that nobody holds is put back by        *)
(* somebody else.  JobQueue.tla implements this with one PostgreSQL row    *)
(* per job and no lock, under the condition stated there.                  *)
(***************************************************************************)

CONSTANTS Engines, Subjects, JobIds, NoSubject

VARIABLES
  stage,     \* of each job: none, waiting, held, done or gone
  owner,     \* the subject each job was submitted for
  holders    \* the engines that are executing each job now

vars == <<stage, owner, holders>>

Active(s) == {j \in JobIds : owner[j] = s /\ stage[j] \in {"waiting", "held"}}

Init ==
  /\ stage = [j \in JobIds |-> "none"]
  /\ owner = [j \in JobIds |-> NoSubject]
  /\ holders = [j \in JobIds |-> {}]

\* A job is accepted for a subject that has no unfinished job.
Submit(j, s) ==
  /\ stage[j] = "none"
  /\ Active(s) = {}
  /\ stage' = [stage EXCEPT ![j] = "waiting"]
  /\ owner' = [owner EXCEPT ![j] = s]
  /\ UNCHANGED holders

\* An engine takes a waiting job that nobody executes.
Take(j, e) ==
  /\ stage[j] = "waiting"
  /\ holders[j] = {}
  /\ stage' = [stage EXCEPT ![j] = "held"]
  /\ holders' = [holders EXCEPT ![j] = {e}]
  /\ UNCHANGED owner

\* The holder ends the job, or puts it back to be tried again.
Release(j, e, next) ==
  /\ stage[j] = "held"
  /\ holders[j] = {e}
  /\ stage' = [stage EXCEPT ![j] = next]
  /\ holders' = [holders EXCEPT ![j] = {}]
  /\ UNCHANGED owner

\* The engine that holds the job leaves without a word.
Vanish(j, e) ==
  /\ holders[j] = {e}
  /\ holders' = [holders EXCEPT ![j] = {}]
  /\ UNCHANGED <<stage, owner>>

\* Held jobs that nobody executes any more wait again.
Reclaim(lost) ==
  /\ \A j \in lost : stage[j] = "held" /\ holders[j] = {}
  /\ stage' = [j \in JobIds |-> IF j \in lost THEN "waiting" ELSE stage[j]]
  /\ UNCHANGED <<owner, holders>>

\* Waiting jobs are called off.
Cancel(called) ==
  /\ \A j \in called : stage[j] = "waiting"
  /\ stage' = [j \in JobIds |-> IF j \in called THEN "done" ELSE stage[j]]
  /\ UNCHANGED <<owner, holders>>

\* The jobs of a subject are deleted, whatever they were doing.
Discard(gone) ==
  /\ \A j \in gone : stage[j] # "none"
  /\ stage' = [j \in JobIds |-> IF j \in gone THEN "gone" ELSE stage[j]]
  /\ owner' = [j \in JobIds |-> IF j \in gone THEN NoSubject ELSE owner[j]]
  /\ UNCHANGED holders

Next ==
  \/ \E j \in JobIds, s \in Subjects : Submit(j, s)
  \/ \E j \in JobIds, e \in Engines :
       \/ Take(j, e)
       \/ \E next \in {"done", "waiting"} : Release(j, e, next)
       \/ Vanish(j, e)
  \/ \E js \in SUBSET JobIds : Reclaim(js) \/ Cancel(js) \/ Discard(js)

Spec == Init /\ [][Next]_vars
=============================================================================
