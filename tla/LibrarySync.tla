---------------------------- MODULE LibrarySync ----------------------------
(***************************************************************************)
(* The local snapshot of the Jellyfin library and the archive entries that *)
(* are matched against it: the durable sync job, the library worker of the *)
(* engine (with its cached settings), the short-lived child that streams   *)
(* the remote pages into PostgreSQL, the settings route of the API that    *)
(* throws the snapshot away, and the scheduler that releases a job whose   *)
(* engine died.  Jellyfin itself is external: its content may change at    *)
(* any moment, and any request to it may fail.                             *)
(***************************************************************************)
EXTENDS Integers, FiniteSets

CONSTANTS
  Entries,      \* archive entries; an entry is identified with its code
  Libraries,    \* Jellyfin libraries that can be selected
  Items,        \* the <<library, entry>> pairs Jellyfin may hold
  Steady,       \* the items Jellyfin holds all the time
  Selections,   \* the <<enabled, libraries>> pairs a user saves
  First,        \* those saved before the behaviour begins
  MaxRequests,  \* bound on settings changes and manual sync requests
  MaxMoves,     \* bound on changes of Jellyfin's content
  MaxIntervals, \* bound on elapsed sync intervals
  MaxFaults,    \* bound on failures and crashes
  ChangesRace,  \* the settings route runs between the worker's statements
  EarlyExit     \* the child may end before the client listens to it

ASSUME ItemsAssumption ==
  /\ Items \subseteq Libraries \X Entries
  /\ Steady \subseteq Items
  /\ First \subseteq Selections /\ Selections \subseteq BOOLEAN \X SUBSET Libraries
ASSUME BoundsAssumption ==
  MaxRequests \in Nat /\ MaxMoves \in Nat /\ MaxIntervals \in Nat /\ MaxFaults \in Nat

VARIABLES
  row,       \* the latest library_sync_jobs row
  settings,  \* app_settings, as PostgreSQL holds them
  due,       \* the sync interval has elapsed since the last success
  resting,   \* the retry delay since the last attempt has not elapsed
  index,     \* jellyfin_media_items and their codes
  server,    \* the items Jellyfin holds
  jf,        \* archive_entries.jellyfin_status
  queued,    \* entries with a queued library_jobs row
  engine,    \* the library worker in the execution engine
  child,     \* the sync process
  put,       \* PUT /api/settings/jellyfin in progress
  spent      \* how often each bounded event has happened

vars == <<row, settings, due, resting, index, server, jf, queued, engine,
          child, put, spent>>

Statuses == {"absent", "unconfigured", "pending", "available", "not_found", "failed"}
RowStates == {"none", "queued", "running", "completed", "failed"}
Configs == {[enabled |-> s[1], libs |-> s[2]] : s \in Selections}
NoConfig == [enabled |-> FALSE, libs |-> {}]
Saved == [enabled : BOOLEAN, libs : SUBSET Libraries, ready : BOOLEAN, synced : BOOLEAN]
Events == {"requests", "moves", "intervals", "faults"}
Bound == [requests |-> MaxRequests, moves |-> MaxMoves, intervals |-> MaxIntervals,
          faults |-> MaxFaults]

Spend(event) ==
  /\ spent[event] < Bound[event]
  /\ spent' = [spent EXCEPT ![event] = @ + 1]

NoChild == [pc |-> "none", libs |-> {}, left |-> {}, orphan |-> FALSE]
Down == [pc |-> "down", cache |-> settings, news |-> "none", entry |-> "none", found |-> FALSE]
NoPut == [pc |-> "idle", config |-> NoConfig]

Usable(s) == s.enabled /\ s.libs # {}
Active == row.status \in {"queued", "running"}
HoldsLeaseWhileUp == engine.pc # "down"
HoldsLease == engine.pc \in {"forked", "listening"}
Stored(items) == {r \in index : r.item \in items}

\* What a complete reading of library l returns, and how one page is stored.
Page(l) == {i \in server : i[1] = l}
InIndex(e, libs) == Stored(libs \X {e}) # {}
InJellyfin(e, libs) == (libs \X {e}) \cap server # {}
WritePage(page) == (index \ Stored(page)) \cup [item : page, sync : {row.id}]

\* With ChangesRace FALSE the route and the worker take turns.
WorkerMayRun == ChangesRace \/ put.pc = "idle"
RouteMayRun == ChangesRace \/ (engine.pc \in {"idle", "down"} /\ child.pc = "none")

TypeOK ==
  /\ row \in [id : Nat, status : RowStates]
  /\ settings \in Saved
  /\ due \in BOOLEAN /\ resting \in BOOLEAN
  /\ index \subseteq [item : Items, sync : 1..row.id]
  /\ Steady \subseteq server /\ server \subseteq Items
  /\ jf \in [Entries -> Statuses]
  /\ queued \subseteq Entries
  /\ engine.pc \in {"down", "idle", "sync", "forked", "listening", "mirror", "jobs", "answer"}
  /\ engine.cache \in Saved
  /\ child.pc \in {"none", "start", "reading", "indexed", "matching", "done", "failed"}
  /\ put.pc \in {"idle", "write", "clear", "reset"} /\ put.config \in Configs \cup {NoConfig}
  /\ \A e \in Events : spent[e] \in 0..Bound[e]

Init ==
  /\ row = [id |-> 0, status |-> "none"]
  /\ \E s \in First : settings = [enabled |-> s[1], libs |-> s[2],
                                  ready |-> FALSE, synced |-> FALSE]
  /\ due = FALSE /\ resting = FALSE
  /\ index = {}
  /\ server = Steady
  /\ jf = [e \in Entries |-> "absent"]
  /\ queued = {}
  /\ engine = Down
  /\ child = NoChild
  /\ put = NoPut
  /\ spent = [e \in Events |-> 0]

-----------------------------------------------------------------------------
(* The environment: Jellyfin, time, and the capture of new entries.        *)

\* Items other than the steady ones come and go.
LibraryChanges(i) ==
  /\ i \in Items \ Steady
  /\ Spend("moves")
  /\ server' = IF i \in server THEN server \ {i} ELSE server \cup {i}
  /\ UNCHANGED <<row, settings, due, resting, index, jf, queued, engine, child, put>>

IntervalElapses ==
  /\ settings.synced /\ ~due
  /\ Spend("intervals")
  /\ due' = TRUE
  /\ UNCHANGED <<row, settings, resting, index, server, jf, queued, engine, child, put>>

\* Five minutes after an attempt; only an idle engine looks at this, and by then
\* it has read the settings again.
RetryDelayElapses ==
  /\ resting /\ resting' = FALSE
  /\ engine.pc \in {"idle", "down"}
  /\ engine' = [engine EXCEPT !.cache = settings]
  /\ UNCHANGED <<row, settings, due, index, server, jf, queued, child, put, spent>>

\* A captured entry is looked up in the library before its magnet is searched.
Archive(e) ==
  /\ jf[e] = "absent"
  /\ jf' = [jf EXCEPT ![e] = IF Usable(settings) THEN "pending" ELSE "unconfigured"]
  /\ queued' = IF Usable(settings) THEN queued \cup {e} ELSE queued
  /\ UNCHANGED <<row, settings, due, resting, index, server, engine, child, put, spent>>

-----------------------------------------------------------------------------
(* The API: a manual sync and a change of the connection.                  *)

\* At most one row is queued or running: the insert meets a unique index.
QueueSync ==
  row' = IF Active THEN row ELSE [id |-> row.id + 1, status |-> "queued"]

RequestSync ==
  /\ Usable(settings)
  /\ Spend("requests")
  /\ QueueSync
  /\ UNCHANGED <<settings, due, resting, index, server, jf, queued, engine, child, put>>

\* The route refuses while a sync is running, and looks only once.
PutCheck(config) ==
  /\ put.pc = "idle" /\ RouteMayRun
  /\ row.status # "running"
  /\ Spend("requests")
  /\ put' = [pc |-> "write", config |-> config]
  /\ UNCHANGED <<row, settings, due, resting, index, server, jf, queued, engine, child>>

PutWriteKeepsReady ==
  /\ put.pc = "write"
  /\ settings' = [settings EXCEPT !.enabled = put.config.enabled, !.libs = put.config.libs]
  /\ put' = [put EXCEPT !.pc = "clear"]
  /\ UNCHANGED <<row, due, resting, index, server, jf, queued, engine, child, spent>>

PutWrite ==
  /\ put.pc = "write"
  /\ settings' = [enabled |-> put.config.enabled, libs |-> put.config.libs,
                  ready |-> FALSE, synced |-> FALSE]
  /\ put' = [put EXCEPT !.pc = "clear"]
  /\ UNCHANGED <<row, due, resting, index, server, jf, queued, engine, child, spent>>

PutClear ==
  /\ put.pc = "clear"
  /\ index' = {}
  /\ put' = [put EXCEPT !.pc = "reset"]
  /\ UNCHANGED <<row, settings, due, resting, server, jf, queued, engine, child, spent>>

\* Every entry forgets its match; a disabled library drops the waiting sync.
PutReset ==
  /\ put.pc = "reset"
  /\ jf' = [e \in Entries |->
             IF jf[e] = "absent" THEN "absent"
             ELSE IF put.config.enabled /\ put.config.libs # {} THEN "pending"
             ELSE "unconfigured"]
  /\ row' = IF ~put.config.enabled /\ row.status = "queued"
            THEN [row EXCEPT !.status = "completed"] ELSE row
  /\ put' = NoPut
  /\ UNCHANGED <<settings, due, resting, index, server, queued, engine, child, spent>>

\* A statement of the route fails: what it wrote so far stays.
PutFails ==
  /\ put.pc \in {"clear", "reset"}
  /\ Spend("faults")
  /\ put' = NoPut
  /\ UNCHANGED <<row, settings, due, resting, index, server, jf, queued, engine, child>>

-----------------------------------------------------------------------------
(* The library worker of the engine.                                       *)

EngineStarts ==
  /\ engine.pc = "down" /\ WorkerMayRun
  /\ engine' = [Down EXCEPT !.pc = "idle", !.cache = settings]
  /\ UNCHANGED <<row, settings, due, resting, index, server, jf, queued, child, put, spent>>

\* refreshSettings reads the table again at most every three seconds.
Cached == {engine.cache, settings}

SyncDue(cache) == (~cache.ready \/ ~cache.synced \/ due) /\ ~resting

\* A tick that has something to do.  Without a usable library it only drains
\* the local jobs; otherwise it queues a sync that is due and tries that first.
Tick(cache) ==
  /\ engine.pc = "idle" /\ WorkerMayRun
  /\ IF Usable(cache)
     THEN /\ SyncDue(cache) \/ row.status = "queued" \/ queued # {}
          /\ IF SyncDue(cache) THEN QueueSync ELSE UNCHANGED row
          /\ engine' = [engine EXCEPT !.pc = "sync", !.cache = cache]
     ELSE /\ queued # {}
          /\ engine' = [engine EXCEPT !.pc = "jobs", !.cache = cache]
          /\ UNCHANGED row
  /\ UNCHANGED <<settings, due, resting, index, server, jf, queued, child, put, spent>>

\* Claims the queued sync, notes the attempt and forks the child.
ClaimSync ==
  /\ engine.pc = "sync" /\ WorkerMayRun
  /\ IF row.status = "queued"
     THEN /\ row' = [row EXCEPT !.status = "running"]
          /\ resting' = TRUE
          /\ child' = [NoChild EXCEPT !.pc = "start"]
          /\ engine' = [engine EXCEPT !.pc = "forked", !.news = "none"]
     ELSE /\ engine' = [engine EXCEPT !.pc = "jobs"]
          /\ UNCHANGED <<row, resting, child>>
  /\ UNCHANGED <<settings, due, index, server, jf, queued, put, spent>>

\* run() awaits a metric before it listens: what the child did before is lost.
Listen ==
  /\ engine.pc = "forked"
  /\ engine' = [engine EXCEPT !.pc = "listening", !.news = "none"]
  /\ UNCHANGED <<row, settings, due, resting, index, server, jf, queued, child, put, spent>>

\* UPDATE ... WHERE status = 'running': a released row is left alone.
SyncEnds ==
  /\ engine.pc = "listening" /\ engine.news # "none"
  /\ LET ok == engine.news = "result"
         held == row.status = "running"
     IN /\ row' = IF held THEN [row EXCEPT !.status = IF ok THEN "completed" ELSE "failed"]
                  ELSE row
        /\ engine' = [engine EXCEPT !.pc = IF ok /\ held THEN "mirror" ELSE "idle",
                                    !.news = "none"]
  /\ UNCHANGED <<settings, due, resting, index, server, jf, queued, child, put, spent>>

\* The runner repeats the child's two settings, to have them in its cache too.
Mirror ==
  /\ engine.pc = "mirror" /\ WorkerMayRun
  /\ settings' = [settings EXCEPT !.ready = TRUE, !.synced = TRUE]
  /\ due' = FALSE
  /\ engine' = [engine EXCEPT !.pc = "idle", !.cache.ready = TRUE, !.cache.synced = TRUE]
  /\ UNCHANGED <<row, resting, index, server, jf, queued, child, put, spent>>

\* One local job: claimed, then answered by the index or, before the first
\* snapshot, by Jellyfin.
LookUp(e) ==
  /\ engine.pc = "jobs" /\ e \in queued /\ WorkerMayRun
  /\ queued' = queued \ {e}
  /\ engine' = [engine EXCEPT !.pc = "answer", !.entry = e,
        !.found = IF engine.cache.ready THEN InIndex(e, engine.cache.libs)
                  ELSE InJellyfin(e, engine.cache.libs)]
  /\ UNCHANGED <<row, settings, due, resting, index, server, jf, child, put, spent>>

\* The miss of one lookup never overwrites a confirmed match.
Answer ==
  /\ engine.pc = "answer" /\ Usable(engine.cache) /\ WorkerMayRun
  /\ LET e == engine.entry
     IN jf' = [jf EXCEPT ![e] = IF engine.found THEN "available"
                                ELSE IF @ # "available" THEN "not_found" ELSE @]
  /\ engine' = [engine EXCEPT !.pc = "jobs", !.entry = "none", !.found = FALSE]
  /\ UNCHANGED <<row, settings, due, resting, index, server, queued, child, put, spent>>

\* A lookup without a library hands the entry to the magnets.
HandOver ==
  /\ engine.pc = "answer" /\ WorkerMayRun
  /\ jf' = [jf EXCEPT ![engine.entry] = IF @ # "available" THEN "failed" ELSE @]
  /\ engine' = [engine EXCEPT !.pc = "jobs", !.entry = "none", !.found = FALSE]
  /\ UNCHANGED <<row, settings, due, resting, index, server, child, put>>
AnswerUnconfigured == HandOver /\ ~Usable(engine.cache) /\ UNCHANGED <<queued, spent>>

\* A failed lookup does so too; a temporary failure leaves the job queued.
AnswerFails ==
  /\ HandOver /\ ~engine.cache.ready /\ Spend("faults")
  /\ queued' \in {queued, queued \cup {engine.entry}}

JobsDone ==
  /\ engine.pc = "jobs" /\ queued = {}
  /\ engine' = [engine EXCEPT !.pc = "idle"]
  /\ UNCHANGED <<row, settings, due, resting, index, server, jf, queued, child, put, spent>>

\* The last crash leaves an interval to elapse, so that a sync still follows.
Crash ==
  /\ engine.pc # "down"
  /\ spent.intervals < MaxIntervals
  /\ Spend("faults")
  /\ engine' = Down
  /\ child' = IF child.pc = "none" THEN child ELSE [child EXCEPT !.orphan = TRUE]
  /\ UNCHANGED <<row, settings, due, resting, index, server, jf, queued, put>>

\* The wake scheduler releases a row whose lease is five minutes old; an
\* orphaned child has noticed the closed channel long before.
ReleaseStale ==
  /\ row.status = "running" /\ ~HoldsLease /\ child.pc = "none"
  /\ row' = [row EXCEPT !.status = "failed"]
  /\ UNCHANGED <<settings, due, resting, index, server, jf, queued, engine, child, put, spent>>

-----------------------------------------------------------------------------
(* The sync process.                                                       *)

ChildMayRun == WorkerMayRun /\ (EarlyExit \/ engine.pc # "forked" \/ child.orphan)

\* What the client hears of the child, if it listens and is still there.
Tell(news) ==
  engine' = IF engine.pc = "listening" /\ ~child.orphan
            THEN [engine EXCEPT !.news = news] ELSE engine

ChildStarts ==
  /\ child.pc = "start" /\ ChildMayRun
  /\ child' = IF Usable(settings)
              THEN [child EXCEPT !.pc = "reading", !.libs = settings.libs, !.left = settings.libs]
              ELSE [child EXCEPT !.pc = "failed"]
  /\ UNCHANGED <<row, settings, due, resting, index, server, jf, queued, engine, put, spent>>

\* One page of a library is stored in one transaction; items it does not
\* mention stay until finalize.
ReadPage(l) ==
  /\ child.pc = "reading" /\ l \in child.left /\ ChildMayRun
  /\ index' = WritePage(Page(l))
  /\ child' = [child EXCEPT !.left = @ \ {l}]
  /\ UNCHANGED <<row, settings, due, resting, server, jf, queued, engine, put, spent>>

FinalizeAfterOnePage ==
  /\ child.pc = "reading" /\ child.left # child.libs /\ ChildMayRun
  /\ index' = {r \in index : r.item[1] \in child.libs => r.sync = row.id}
  /\ child' = [child EXCEPT !.pc = "indexed"]
  /\ UNCHANGED <<row, settings, due, resting, server, jf, queued, engine, put, spent>>

\* finalize() drops what this sync has not seen in the selected libraries.
Finalize ==
  /\ child.pc = "reading" /\ child.left = {} /\ ChildMayRun
  /\ index' = {r \in index : r.item[1] \in child.libs => r.sync = row.id}
  /\ child' = [child EXCEPT !.pc = "indexed"]
  /\ UNCHANGED <<row, settings, due, resting, server, jf, queued, engine, put, spent>>

MarkReady ==
  /\ child.pc = "indexed" /\ ChildMayRun
  /\ settings' = [settings EXCEPT !.ready = TRUE]
  /\ child' = [child EXCEPT !.pc = "matching", !.left = {e \in Entries : jf[e] # "absent"}]
  /\ UNCHANGED <<row, due, resting, index, server, jf, queued, engine, put, spent>>

\* writeArchiveBatch: an entry is judged by the stored index alone.
Judged(e) == IF InIndex(e, child.libs) THEN "available" ELSE "not_found"

WriteMatches(e) ==
  /\ child.pc = "matching" /\ e \in child.left /\ ChildMayRun
  /\ jf' = [jf EXCEPT ![e] = Judged(e)]
  /\ child' = [child EXCEPT !.left = @ \ {e}]
  /\ UNCHANGED <<row, settings, due, resting, index, server, queued, engine, put, spent>>

ChildFinishes ==
  /\ child.pc = "matching" /\ child.left = {} /\ ChildMayRun
  /\ settings' = [settings EXCEPT !.synced = TRUE]
  /\ due' = FALSE
  /\ child' = [child EXCEPT !.pc = "done"]
  /\ UNCHANGED <<row, resting, index, server, jf, queued, engine, put, spent>>

\* A request or a statement fails, or the process is killed.
ChildFails ==
  /\ child.pc \in {"start", "reading", "indexed", "matching"} /\ ChildMayRun
  /\ Spend("faults")
  /\ child' = [child EXCEPT !.pc = "failed"]
  /\ UNCHANGED <<row, settings, due, resting, index, server, jf, queued, engine, put>>

\* The child reports and exits.
ChildExits ==
  /\ child.pc \in {"done", "failed"} /\ ChildMayRun
  /\ Tell(IF child.pc = "done" THEN "result" ELSE "error")
  /\ child' = NoChild
  /\ UNCHANGED <<row, settings, due, resting, index, server, jf, queued, put, spent>>

\* process.once('disconnect'): an orphan exits wherever it is.
OrphanExits ==
  /\ child.orphan
  /\ child' = NoChild
  /\ UNCHANGED <<row, settings, due, resting, index, server, jf, queued, engine, put, spent>>

ChildStep ==
  \/ ChildStarts \/ Finalize \/ MarkReady \/ ChildFinishes \/ ChildExits \/ OrphanExits
  \/ \E l \in Libraries : ReadPage(l)
  \/ \E e \in Entries : WriteMatches(e)

WorkerStep ==
  \/ EngineStarts \/ ClaimSync \/ Listen \/ SyncEnds \/ Mirror
  \/ Answer \/ AnswerUnconfigured \/ JobsDone
  \/ \E e \in Entries : LookUp(e)

PutStep == PutWrite \/ PutClear \/ PutReset

Next ==
  \/ \E i \in Items : LibraryChanges(i)
  \/ IntervalElapses \/ RetryDelayElapses
  \/ \E e \in Entries : Archive(e)
  \/ RequestSync
  \/ \E config \in Configs : PutCheck(config)
  \/ PutStep \/ PutFails
  \/ WorkerStep \/ AnswerFails
  \/ \E cache \in Cached : Tick(cache)
  \/ Crash \/ ReleaseStale
  \/ ChildStep \/ ChildFails

Fairness ==
  /\ WF_vars(IntervalElapses) /\ WF_vars(RetryDelayElapses)
  /\ WF_vars(PutStep) /\ WF_vars(WorkerStep) /\ WF_vars(Tick(settings))
  /\ WF_vars(ReleaseStale) /\ WF_vars(ChildStep)

Spec == Init /\ [][Next]_vars
FairSpec == Spec /\ Fairness

-----------------------------------------------------------------------------
(* Whenever app_settings say that there is a local index, lookups trust it *)
(* and record "not_found" for what it lacks (library-worker.ts:117), so it *)
(* must hold every item that Jellyfin had all along in the libraries that  *)
(* are selected: while a sync is half-way, after one failed or was killed  *)
(* between two pages, and after the selection changed.                     *)
ReadyIndexIsWhole ==
  settings.ready =>
    \A i \in Steady : i[1] \in settings.libs => Stored({i}) # {}

(* An item that the last complete snapshot had and that Jellyfin still has *)
(* is never dropped from the index by a sync; only a settings change does. *)
SyncKeepsWhatIsThere ==
  [][put.pc # "clear" => \A r \in index : r.item \in Steady => \E s \in index' : s.item = r.item]_vars

(* Every entry that waits for the library gets an answer, through its own  *)
(* job or through the next complete sync, although syncs fail, the engine  *)
(* crashes and the settings change in between.                             *)
EveryEntryIsMatched ==
  \A e \in Entries : jf[e] = "pending" ~> (jf[e] # "pending" \/ ~Usable(settings))
=============================================================================
