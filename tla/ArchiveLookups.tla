--------------------------- MODULE ArchiveLookups ---------------------------
(***************************************************************************)
(* What becomes of a captured entry: its release date is read, the local   *)
(* library is asked whether it is there already, and its magnet is         *)
(* searched.  Three workers of the engine execute the jobs, the API queues *)
(* them again on request, the library sync rewrites the entries behind the *)
(* workers' back, and the engine may die between any two statements.       *)
(***************************************************************************)
EXTENDS Integers, FiniteSets

CONSTANTS
  Entries,      \* archive entries
  FirstRules,   \* the rules and settings a behaviour may start with
  MaxEvents,    \* bound on all of the following together
  MaxRequests,  \* bound on what users ask for or change
  MaxFaults,    \* bound on failed executions and deaths of the engine
  MaxMoves,     \* bound on passes of the library sync over an entry
  MaxMeddling   \* bound on acts of qBittorrent's users, and on its restarts

Rules == [release : BOOLEAN, magnet : BOOLEAN, library : BOOLEAN, skip : BOOLEAN]
ASSUME RulesAssumption == FirstRules \subseteq Rules
ASSUME BoundsAssumption ==
  {MaxEvents, MaxRequests, MaxFaults, MaxMoves, MaxMeddling} \subseteq Nat

VARIABLES
  archive,   \* archive_entries: release, library and magnet status
  jobs,      \* the active row of an entry in each job table
  worker,    \* the workers of the engine
  rules,     \* the inspection rules and the library settings in force
  ask,       \* a backfill or retry route between its SELECT and its writes
  stranded,  \* history: what a dead engine left without anyone to go on
  spent      \* how often each bounded event has happened

lookupVars == <<archive, jobs, worker, rules, ask, stranded>>

Kinds == {"release", "library", "magnet"}
Statuses == [release : {"absent", "unsearched", "pending", "found", "unavailable", "failed"},
             library : {"absent", "unconfigured", "pending", "available", "not_found", "failed"},
             magnet : {"absent", "unsearched", "pending", "found", "not_found", "skipped", "failed"},
             suppressed : BOOLEAN]
JobStates == {"none", "queued", "running"}

Absent == [release |-> "absent", library |-> "absent", magnet |-> "absent", suppressed |-> FALSE]
Idle == [pc |-> "idle", entry |-> "none", seen |-> FALSE]
NoAsk == [kind |-> "none", entries |-> {}]

Bound == [requests |-> MaxRequests, faults |-> MaxFaults, moves |-> MaxMoves,
          meddling |-> MaxMeddling]
Spend(event) ==
  /\ spent[event] < Bound[event]
  /\ spent["requests"] + spent["faults"] + spent["moves"] + spent["meddling"] < MaxEvents
  /\ spent' = [spent EXCEPT ![event] = @ + 1]

Archived == {e \in Entries : archive[e].release # "absent"}
Works(k, e) == worker[k].pc = "working" /\ worker[k].entry = e

\* queueUnique: an active row is found and kept, or else one is inserted.
Queue(js, k, es) ==
  [js EXCEPT ![k] = [e \in Entries |-> IF e \in es /\ @[e] = "none" THEN "queued" ELSE @[e]]]
WithJob(js, k, e, state) == [js EXCEPT ![k][e] = state]

LookupTypeOK ==
  /\ archive \in [Entries -> Statuses]
  /\ jobs \in [Kinds -> [Entries -> JobStates]]
  /\ worker \in [Kinds -> [pc : {"idle", "working", "marked"},
                           entry : Entries \cup {"none"}, seen : BOOLEAN]]
  /\ rules \in Rules
  /\ ask \in [kind : {"none", "release", "magnet"}, entries : SUBSET Entries]
  /\ stranded \subseteq Kinds \X Entries

LookupInit ==
  /\ archive = [e \in Entries |-> Absent]
  /\ jobs = [k \in Kinds |-> [e \in Entries |-> "none"]]
  /\ worker = [k \in Kinds |-> Idle]
  /\ rules \in FirstRules
  /\ ask = NoAsk
  /\ stranded = {}

-----------------------------------------------------------------------------
(* The capture worker, the library sync and the rules of the user.         *)

\* With a library to ask, the magnet waits for the answer.
Capture(e, suppressed) ==
  LET first == rules.magnet /\ rules.library /\ rules.skip
      magnet == rules.magnet /\ ~first
  IN /\ e \notin Archived
     /\ archive' = [archive EXCEPT ![e] =
          [release |-> IF rules.release THEN "pending" ELSE "unsearched",
           library |-> IF first THEN "pending" ELSE "unconfigured",
           magnet |-> IF magnet THEN "pending" ELSE "unsearched",
           suppressed |-> suppressed]]
     /\ LET one(b) == IF b THEN {e} ELSE {}
        IN jobs' = Queue(Queue(Queue(jobs, "library", one(first)), "magnet", one(magnet)),
                         "release", one(rules.release))
     /\ UNCHANGED <<worker, rules, ask, stranded, spent>>

\* A full sync judges every entry, whatever its jobs are doing.
SyncWrites(e, held) ==
  /\ e \in Archived /\ rules.library
  /\ Spend("moves")
  /\ archive' = [archive EXCEPT ![e].library = IF held THEN "available" ELSE "not_found",
                                ![e].magnet = IF held /\ rules.skip /\ @ # "found"
                                              THEN "skipped" ELSE @]
  /\ UNCHANGED <<jobs, worker, rules, ask, stranded>>

\* A rule that is switched off takes back what it had queued.
Forgotten(r, k, status) == IF ~r[k] /\ status = "pending" THEN "unsearched" ELSE status

ChangeRules(r) ==
  /\ r \in Rules \ {rules}
  /\ r.library = rules.library /\ r.skip = rules.skip
  /\ Spend("requests")
  /\ rules' = r
  /\ archive' = [e \in Entries |->
       [archive[e] EXCEPT !.release = Forgotten(r, "release", @),
                          !.magnet = Forgotten(r, "magnet", @)]]
  /\ jobs' = [k \in Kinds |-> [e \in Entries |->
       IF k # "library" /\ ~r[k] /\ jobs[k][e] = "queued" THEN "none" ELSE jobs[k][e]]]
  /\ UNCHANGED <<worker, ask, stranded>>

\* Saving the library settings also forgets what was known of every entry.
ChangeLibrary(library, skip) ==
  /\ <<library, skip>> # <<rules.library, rules.skip>>
  /\ Spend("requests")
  /\ rules' = [rules EXCEPT !.library = library, !.skip = skip]
  /\ archive' = [e \in Entries |->
       IF e \in Archived
       THEN [archive[e] EXCEPT !.library = IF library THEN "pending" ELSE "unconfigured"]
       ELSE archive[e]]
  /\ UNCHANGED <<jobs, worker, ask, stranded>>

-----------------------------------------------------------------------------
(* The API queues lookups again.                                           *)

AskMagnets(es) ==
  /\ rules.magnet /\ ask = NoAsk
  /\ \/ es = {e \in Archived : archive[e].magnet \in {"unsearched", "failed", "skipped"}}
     \/ \E e \in Archived : archive[e].magnet \notin {"found", "pending"} /\ es = {e}
  /\ es # {}
  /\ Spend("requests")
  /\ ask' = [kind |-> "magnet", entries |-> es]
  /\ UNCHANGED <<archive, jobs, worker, rules, stranded>>

AskReleases ==
  /\ rules.release /\ ask = NoAsk
  /\ Spend("requests")
  /\ ask' = [kind |-> "release", entries |->
       {e \in Archived : archive[e].release \in {"unsearched", "unavailable", "failed"}}]
  /\ ask'.entries # {}
  /\ UNCHANGED <<archive, jobs, worker, rules, stranded>>

\* The candidates are written as they were selected, in one transaction.
QueueAsked ==
  /\ ask # NoAsk
  /\ archive' = [e \in Entries |->
       IF e \notin ask.entries THEN archive[e]
       ELSE IF ask.kind = "release" THEN [archive[e] EXCEPT !.release = "pending"]
       ELSE [archive[e] EXCEPT !.magnet = "pending"]]
  /\ jobs' = Queue(jobs, ask.kind, ask.entries)
  /\ ask' = NoAsk
  /\ UNCHANGED <<worker, rules, stranded, spent>>

-----------------------------------------------------------------------------
(* The workers.                                                            *)

\* What a worker keeps of the entry it selected.
Seen(k, e) == IF k = "library" THEN archive[e].library = "available" ELSE rules[k]

Claim(k, e) ==
  /\ worker[k] = Idle /\ jobs[k][e] = "queued"
  /\ jobs' = WithJob(jobs, k, e, "running")
  /\ worker' = [worker EXCEPT ![k] = [pc |-> "working", entry |-> e, seen |-> Seen(k, e)]]
  /\ UNCHANGED <<archive, rules, ask, stranded, spent>>

\* Entries of a time before the rule was enabled are picked up when no row is
\* due: marked in one statement, queued in the next.
MarkUnsearched(e) ==
  /\ worker["release"] = Idle /\ rules.release
  /\ archive[e].release = "unsearched"
  /\ \/ /\ archive' = [archive EXCEPT ![e].release = "pending"]
        /\ worker' = [worker EXCEPT !["release"] = [pc |-> "marked", entry |-> e, seen |-> TRUE]]
     \/ /\ archive' = [archive EXCEPT ![e].release = "unavailable"]
        /\ UNCHANGED worker
  /\ UNCHANGED <<jobs, rules, ask, stranded, spent>>

QueueMarked ==
  /\ worker["release"].pc = "marked"
  /\ jobs' = Queue(jobs, "release", {worker["release"].entry})
  /\ worker' = [worker EXCEPT !["release"] = Idle]
  /\ UNCHANGED <<archive, rules, ask, stranded, spent>>

\* The end of an execution: the entry and its row in one transaction.
Ends(k, e, entry, js) ==
  /\ Works(k, e)
  /\ archive' = [archive EXCEPT ![e] = entry]
  /\ jobs' = js
  /\ worker' = [worker EXCEPT ![k] = Idle]
  /\ UNCHANGED <<rules, ask>>

\* Without the rule the row is completed and the entry forgets the lookup.
ReleaseEnds(e) ==
  \E status \in IF worker["release"].seen THEN {"found", "unavailable"} ELSE {"unsearched"} :
    /\ Ends("release", e, [archive[e] EXCEPT !.release = status],
            WithJob(jobs, "release", e, "none"))
    /\ UNCHANGED <<stranded, spent>>

ReleaseFails(e, retry) ==
  /\ worker["release"].seen /\ Spend("faults")
  /\ Ends("release", e, [archive[e] EXCEPT !.release = IF retry THEN "pending" ELSE "failed"],
          WithJob(jobs, "release", e, IF retry THEN "queued" ELSE "none"))
  /\ UNCHANGED stranded

MagnetFound(e) ==
  /\ worker["magnet"].seen
  /\ Ends("magnet", e, [archive[e] EXCEPT !.magnet = "found"], WithJob(jobs, "magnet", e, "none"))
  /\ UNCHANGED <<stranded, spent>>

MagnetNotFound(e) ==
  /\ Ends("magnet", e, [archive[e] EXCEPT !.magnet =
            IF worker["magnet"].seen THEN "not_found" ELSE "unsearched"],
          WithJob(jobs, "magnet", e, "none"))
  /\ UNCHANGED <<stranded, spent>>

MagnetFails(e, retry) ==
  /\ worker["magnet"].seen /\ Spend("faults")
  /\ Ends("magnet", e, [archive[e] EXCEPT !.magnet = IF retry THEN "pending" ELSE "failed"],
          WithJob(jobs, "magnet", e, IF retry THEN "queued" ELSE "none"))
  /\ UNCHANGED stranded

LibraryMatches(e) ==
  LET done == WithJob(jobs, "library", e, "none")
  IN /\ rules.library
     /\ Ends("library", e, [archive[e] EXCEPT !.library = "available",
                                              !.magnet = IF rules.skip THEN "skipped" ELSE @],
             IF rules.skip THEN done ELSE Queue(done, "magnet", {e}))
     /\ UNCHANGED <<stranded, spent>>

NothingNext(js, e) == js
MagnetNext(js, e) == Queue(js, "magnet", {e})

\* A miss or a final failure sends the entry on to the magnets, unless a match
\* was confirmed: then the row ends and nothing else happens.
GoesOn(e, status) ==
  LET done == WithJob(jobs, "library", e, "none")
  IN IF worker["library"].seen
     THEN /\ Ends("library", e, archive[e], done)
          /\ stranded' = stranded \cup {<<"library", e>>}
     ELSE /\ Ends("library", e, [archive[e] EXCEPT !.library = status, !.magnet = "pending"],
                  MagnetNext(done, e))
          /\ UNCHANGED stranded

LibraryMisses(e) == rules.library /\ GoesOn(e, "not_found") /\ UNCHANGED spent

\* A library that was switched off fails the row at once.
LibraryFails(e) ==
  /\ GoesOn(e, "failed")
  /\ IF rules.library THEN Spend("faults") ELSE UNCHANGED spent

\* The magnet is marked as pending even while the library is to be asked again.
LibraryRetries(e) ==
  /\ rules.library /\ Spend("faults")
  /\ Ends("library", e,
          IF worker["library"].seen THEN archive[e]
          ELSE [archive[e] EXCEPT !.library = "failed", !.magnet = "pending"],
          WithJob(jobs, "library", e, "queued"))
  /\ UNCHANGED stranded

SweptInOneTable == {"release"}
Swept == {"release", "magnet"}

\* Ten minutes later a tick finds the row of a dead engine; library_jobs has
\* no such sweep.
Sweep(k, e) ==
  /\ k \in Swept
  /\ jobs[k][e] = "running" /\ ~Works(k, e)
  /\ jobs' = WithJob(jobs, k, e, "queued")
  /\ UNCHANGED <<archive, worker, rules, ask, stranded, spent>>

EngineDies ==
  /\ worker' = [k \in Kinds |-> Idle]
  /\ stranded' = stranded
       \cup {<<"library", e>> : e \in {x \in Entries : jobs["library"][x] = "running"}}
       \cup (IF worker["release"].pc = "marked" THEN {<<"release", worker["release"].entry>>} ELSE {})
  /\ UNCHANGED <<archive, jobs, rules, ask>>
=============================================================================
