--------------------------- MODULE LibrarySyncProofs ---------------------------
(***************************************************************************)
(* Theorems about LibrarySync for any entries, libraries, items, settings  *)
(* and bounds, whether or not the child may end before the client listens. *)
(* They need TakeTurns: the settings route and the worker take turns.      *)
(***************************************************************************)
EXTENDS LibrarySync, TLAPS

TakeTurns == ~ChangesRace

-----------------------------------------------------------------------------
(* The inductive invariant.                                                *)

\* A row that was queued has a number, an answer is about an entry.
Rows == {r \in [id : Nat, status : RowStates] : r.status # "none" => r.id # 0}
Engine ==
  {e \in [pc : {"down", "idle", "sync", "forked", "listening", "mirror", "jobs", "answer"},
          cache : Saved, news : {"none", "result", "error"}, entry : Entries \cup {"none"},
          found : BOOLEAN] : e.pc = "answer" => e.entry \in Entries}
Child ==
  [pc : {"none", "start", "reading", "indexed", "matching", "done", "failed"},
   libs : SUBSET Libraries, left : SUBSET (Libraries \cup Entries), orphan : BOOLEAN]
Route == [pc : {"idle", "write", "clear", "reset"}, config : Configs \cup {NoConfig}]

Typed ==
  /\ row \in Rows
  /\ settings \in Saved
  /\ due \in BOOLEAN /\ resting \in BOOLEAN
  /\ index \subseteq [item : Items, sync : 1..row.id]
  /\ Steady \subseteq server /\ server \subseteq Items
  /\ jf \in [Entries -> Statuses]
  /\ queued \subseteq Entries
  /\ engine \in Engine /\ child \in Child /\ put \in Route
  /\ spent \in [Events -> Nat] /\ \A e \in Events : spent[e] <= Bound[e]

\* Between two statements of the route nothing else runs.
Turns == put.pc # "idle" => engine.pc \in {"idle", "down"} /\ child.pc = "none"

\* A child works for a row that is running, and has ended when it is heard of.
OfRow == child.pc # "none" => row.status = "running"
News == engine.news # "none" => engine.pc = "listening" /\ child.pc = "none"

\* What a child reads is what is selected.
SameLibs == child.pc \in {"reading", "indexed", "matching", "done"} => child.libs = settings.libs

\* The libraries it has read are stored under the id of its row.
Seen ==
  child.pc = "reading" =>
    \A i \in Steady : i[1] \in child.libs /\ i[1] \notin child.left =>
      [item |-> i, sync |-> row.id] \in index

Whole(libs) == \A i \in Steady : i[1] \in libs => \E r \in index : r.item = i
Indexed == child.pc = "indexed" => Whole(child.libs)

\* The index was ready before the child or its client say so again.
SaidReady ==
  child.pc \in {"matching", "done"} \/ engine.news = "result" \/ engine.pc = "mirror" =>
    settings.ready

\* The route clears an index that nobody trusts.
Cleared == put.pc = "clear" => ~settings.ready

Trusted == settings.ready => Whole(settings.libs)

Inv ==
  /\ Typed /\ Turns /\ OfRow /\ News /\ SameLibs /\ Seen /\ Indexed /\ SaidReady /\ Cleared
  /\ Trusted

LEMMA Shapes ==
  /\ Configs \subseteq [enabled : BOOLEAN, libs : SUBSET Libraries]
  /\ NoConfig \in [enabled : BOOLEAN, libs : SUBSET Libraries]
  /\ NoChild \in Child /\ NoPut \in Route /\ NoChild.pc = "none" /\ NoPut.pc = "idle"
  /\ \A i \in Items : i[1] \in Libraries
  /\ Steady \subseteq Items
<1>1. Configs \subseteq [enabled : BOOLEAN, libs : SUBSET Libraries]
  <2> SUFFICES ASSUME NEW s \in Selections
               PROVE  [enabled |-> s[1], libs |-> s[2]] \in [enabled : BOOLEAN, libs : SUBSET Libraries]
    BY DEF Configs
  <2>1. s \in BOOLEAN \X SUBSET Libraries
    BY ItemsAssumption
  <2> QED BY <2>1
<1>2. NoConfig \in [enabled : BOOLEAN, libs : SUBSET Libraries]
  BY DEF NoConfig
<1>3. NoChild \in Child /\ NoChild.pc = "none"
  BY DEF NoChild, Child
<1>4. NoPut \in Route /\ NoPut.pc = "idle"
  BY DEF NoPut, Route
<1> QED BY <1>1, <1>2, <1>3, <1>4, ItemsAssumption

LEMMA DownIsDown ==
  ASSUME settings \in Saved
  PROVE  Down \in Engine /\ Down.pc = "down" /\ Down.news = "none"
BY DEF Down, Engine

\* A row that goes from one status to another keeps its number.
LEMMA RowKeepsNumber ==
  ASSUME row \in Rows, row.status # "none", NEW status \in RowStates,
         row' = [row EXCEPT !.status = status]
  PROVE  row' \in Rows /\ row'.id = row.id /\ row'.status = status
<1>1. row' \in [id : Nat, status : RowStates] /\ row'.id = row.id /\ row'.status = status
  BY DEF Rows
<1>2. row.id # 0
  BY DEF Rows
<1> QED BY <1>1, <1>2 DEF Rows

LEMMA SpendKeeps ==
  ASSUME Typed, NEW event \in Events, Spend(event)
  PROVE  spent' \in [Events -> Nat] /\ \A e \in Events : spent'[e] <= Bound[e]
<1>1. \A e \in Events : Bound[e] \in Nat
  BY BoundsAssumption DEF Events, Bound
<1> HIDE DEF Bound
<1> QED BY <1>1 DEF Typed, Spend

LEMMA InitInv == Init => Inv
<1> SUFFICES ASSUME Init PROVE Inv
  OBVIOUS
<1>1. PICK s \in First : settings = [enabled |-> s[1], libs |-> s[2], ready |-> FALSE, synced |-> FALSE]
  BY DEF Init
<1>2. s \in BOOLEAN \X SUBSET Libraries
  BY ItemsAssumption
<1>3. settings \in Saved /\ settings.ready = FALSE
  BY <1>1, <1>2 DEF Saved
<1>4. engine \in Engine /\ engine.pc = "down" /\ engine.news = "none"
  BY <1>3, DownIsDown DEF Init
<1>5. child \in Child /\ put \in Route /\ child.pc = "none" /\ put.pc = "idle"
  BY Shapes DEF Init
<1>6. \A e \in Events : Bound[e] \in Nat
  BY BoundsAssumption DEF Events, Bound
<1>7. spent \in [Events -> Nat] /\ \A e \in Events : spent[e] <= Bound[e]
  BY <1>6 DEF Init
<1>8. Typed
  BY <1>3, <1>4, <1>5, <1>7, ItemsAssumption DEF Init, Typed, Statuses, Rows, RowStates
<1> QED BY <1>3, <1>4, <1>5, <1>8
        DEF Inv, Turns, OfRow, News, SameLibs, Seen, Indexed, SaidReady, Cleared, Trusted

-----------------------------------------------------------------------------
(* Steps that leave the index and the selection alone.                     *)

Protocol ==
  Turns /\ OfRow /\ News /\ SameLibs /\ Seen /\ Indexed /\ SaidReady /\ Cleared /\ Trusted

LEMMA EnvironmentStep ==
  ASSUME Inv,
         (\E i \in Items : LibraryChanges(i)) \/ IntervalElapses \/ RetryDelayElapses
         \/ \E e \in Entries : Archive(e)
  PROVE  Inv'
<1>1. /\ UNCHANGED <<row, settings, index, child, put>>
      /\ engine' = engine \/ engine' = [engine EXCEPT !.cache = settings]
  BY DEF LibraryChanges, IntervalElapses, RetryDelayElapses, Archive
<1>2. engine' \in Engine /\ engine'.pc = engine.pc /\ engine'.news = engine.news
  BY <1>1 DEF Inv, Typed, Engine
<1>3. due' \in BOOLEAN /\ resting' \in BOOLEAN /\ queued' \subseteq Entries
  BY DEF Inv, Typed, LibraryChanges, IntervalElapses, RetryDelayElapses, Archive
<1>4. Steady \subseteq server' /\ server' \subseteq Items
  BY DEF Inv, Typed, LibraryChanges, IntervalElapses, RetryDelayElapses, Archive
<1>5. jf' \in [Entries -> Statuses]
  BY DEF Inv, Typed, Statuses, LibraryChanges, IntervalElapses, RetryDelayElapses, Archive
<1>6. spent' \in [Events -> Nat] /\ \A e \in Events : spent'[e] <= Bound[e]
  <2>1. CASE UNCHANGED spent
    BY <2>1 DEF Inv, Typed
  <2>2. CASE Spend("moves") \/ Spend("intervals")
    BY <2>2, SpendKeeps DEF Inv, Events
  <2> QED BY <2>1, <2>2 DEF LibraryChanges, IntervalElapses, RetryDelayElapses, Archive
<1>7. Typed'
  BY <1>1, <1>2, <1>3, <1>4, <1>5, <1>6 DEF Inv, Typed
<1>8. Protocol'
  BY <1>1, <1>2 DEF Inv, Protocol, Turns, OfRow, News, SameLibs, Seen, Indexed, SaidReady, Cleared,
                    Trusted, Whole
<1> QED BY <1>7, <1>8 DEF Inv, Protocol

\* A sync is queued only when none is active, and so while no child runs.
LEMMA QueueSyncKeeps ==
  ASSUME Inv, QueueSync, UNCHANGED <<index, child>>
  PROVE  /\ row' \in Rows /\ index' \subseteq [item : Items, sync : 1..row'.id]
         /\ child.pc # "none" => row' = row
<1>1. row' = row \/ (row' = [id |-> row.id + 1, status |-> "queued"] /\ ~Active)
  BY DEF QueueSync
<1>2. row.id \in Nat
  BY DEF Inv, Typed, Rows
<1>3. row' \in Rows /\ row'.id >= row.id
  BY <1>1, <1>2 DEF Inv, Typed, Rows, RowStates
<1>4. 1..row.id \subseteq 1..row'.id
  BY <1>2, <1>3 DEF Rows
<1>5. index' \subseteq [item : Items, sync : 1..row'.id]
  BY <1>4 DEF Inv, Typed
<1>6. child.pc # "none" => row' = row
  BY <1>1 DEF Inv, OfRow, Active
<1> QED BY <1>3, <1>5, <1>6

LEMMA RequestSyncStep ==
  ASSUME Inv, RequestSync
  PROVE  Inv'
<1>1. QueueSync /\ Spend("requests")
      /\ UNCHANGED <<settings, due, resting, index, server, jf, queued, engine, child, put>>
  BY DEF RequestSync
<1>2. Typed'
  BY <1>1, QueueSyncKeeps, SpendKeeps DEF Inv, Typed, Events
<1>3. Protocol'
  BY <1>1, QueueSyncKeeps DEF Inv, Protocol, Turns, OfRow, News, SameLibs, Seen, Indexed, SaidReady,
     Cleared, Trusted, Whole
<1> QED BY <1>2, <1>3 DEF Inv, Protocol

-----------------------------------------------------------------------------
(* The settings route.                                                     *)

LEMMA PutStepInv ==
  ASSUME TakeTurns, Inv, (\E config \in Configs : PutCheck(config)) \/ PutStep \/ PutFails
  PROVE  Inv'
<1>1. UNCHANGED <<due, resting, server, queued, engine, child>>
  BY DEF PutCheck, PutStep, PutWrite, PutClear, PutReset, PutFails
<1>2. CASE \E config \in Configs : PutCheck(config)
  <2>1. PICK config \in Configs : PutCheck(config)
    BY <1>2
  <2>2. /\ RouteMayRun /\ Spend("requests") /\ put' = [pc |-> "write", config |-> config]
        /\ UNCHANGED <<row, settings, index, jf>>
    BY <2>1 DEF PutCheck
  <2>3. engine.pc \in {"idle", "down"} /\ child.pc = "none"
    BY <2>2 DEF RouteMayRun, TakeTurns
  <2>4. put' \in Route /\ put'.pc = "write"
    BY <2>2 DEF Route
  <2>5. Typed'
    BY <1>1, <2>2, <2>4, SpendKeeps DEF Inv, Typed, Events
  <2>6. Protocol'
    BY <1>1, <2>2, <2>3, <2>4 DEF Inv, Protocol, Turns, OfRow, News, SameLibs, Seen, Indexed, SaidReady,
       Cleared, Trusted, Whole
  <2> QED BY <2>5, <2>6 DEF Inv, Protocol
<1>3. CASE PutStep \/ PutFails
  <2>1. /\ put.pc # "idle" /\ child.pc = "none" /\ engine.pc \in {"idle", "down"}
        /\ engine.news = "none"
    BY <1>3 DEF PutStep, PutFails, PutWrite, PutClear, PutReset, Inv, Turns, News
  <2>2. put' \in Route /\ put'.pc \in {"idle", "clear", "reset"}
    <3>1. put \in Route
      BY DEF Inv, Typed
    <3> QED BY <1>3, <3>1, Shapes DEF PutStep, PutFails, PutWrite, PutClear, PutReset, Route
  <2>3. /\ row' \in Rows /\ row'.id = row.id
    BY <1>3 DEF PutStep, PutFails, PutWrite, PutClear, PutReset, Inv, Typed, Rows, RowStates
  <2>4. settings' \in Saved
    <3>1. put.config.enabled \in BOOLEAN /\ put.config.libs \in SUBSET Libraries
      <4>1. put.config \in Configs \cup {NoConfig}
        BY DEF Inv, Typed, Route
      <4> QED BY <4>1, Shapes
    <3>2. CASE PutWrite
      BY <3>1, <3>2 DEF PutWrite, Saved
    <3>3. CASE UNCHANGED settings
      BY <3>3 DEF Inv, Typed
    <3> QED BY <1>3, <3>2, <3>3 DEF PutStep, PutFails, PutClear, PutReset
  <2>5. index' = index \/ (index' = {} /\ put.pc = "clear" /\ UNCHANGED settings)
    BY <1>3 DEF PutStep, PutFails, PutWrite, PutClear, PutReset
  <2>6. settings' = settings \/ settings'.ready = FALSE
    BY <1>3 DEF PutStep, PutFails, PutWrite, PutClear, PutReset
  <2>7. put'.pc = "clear" => settings'.ready = FALSE
    BY <1>3, Shapes DEF PutStep, PutFails, PutWrite, PutClear, PutReset, Inv, Typed, Route
  <2>8. jf' \in [Entries -> Statuses]
    BY <1>3 DEF PutStep, PutFails, PutWrite, PutClear, PutReset, Inv, Typed, Statuses
  <2>9. spent' \in [Events -> Nat] /\ \A e \in Events : spent'[e] <= Bound[e]
    <3>1. UNCHANGED spent \/ Spend("faults")
      BY <1>3 DEF PutStep, PutFails, PutWrite, PutClear, PutReset
    <3> QED BY <3>1, SpendKeeps DEF Inv, Typed, Events
  <2>10. Typed'
    BY <1>1, <2>2, <2>3, <2>4, <2>5, <2>8, <2>9 DEF Inv, Typed
  <2>11. Protocol'
    BY <1>1, <2>1, <2>2, <2>5, <2>6, <2>7 DEF Inv, Protocol, Turns, OfRow, News, SameLibs, Seen, Indexed,
       SaidReady, Cleared, Trusted, Whole
  <2> QED BY <2>10, <2>11 DEF Inv, Protocol
<1> QED BY <1>2, <1>3

-----------------------------------------------------------------------------
(* The library worker.                                                     *)

\* What a step of the worker that is not about the sync may do.
LEMMA WorkerKeeps ==
  ASSUME Inv, UNCHANGED <<settings, index, child, put>>, Typed',
         child.pc # "none" => row' = row,
         engine.pc \in {"idle", "down"} /\ put.pc # "idle" => engine'.pc \in {"idle", "down"},
         engine'.news = engine.news \/ engine'.news = "none",
         engine'.news # "none" => engine'.pc = engine.pc,
         engine'.pc = "mirror" => settings.ready
  PROVE  Inv'
<1>1. Turns' /\ OfRow' /\ News'
  BY DEF Inv, Turns, OfRow, News
<1>2. SameLibs' /\ Seen' /\ Indexed' /\ SaidReady' /\ Cleared' /\ Trusted'
  BY DEF Inv, SameLibs, Seen, Indexed, SaidReady, Cleared, Trusted, Whole
<1> QED BY <1>1, <1>2 DEF Inv

LEMMA TickStep ==
  ASSUME TakeTurns, Inv, NEW cache \in Cached, Tick(cache)
  PROVE  Inv'
<1>1. /\ engine.pc = "idle" /\ put.pc = "idle"
      /\ UNCHANGED <<settings, due, resting, index, server, jf, queued, child, put, spent>>
      /\ QueueSync \/ UNCHANGED row
      /\ engine' \in {[engine EXCEPT !.pc = "sync", !.cache = cache],
                      [engine EXCEPT !.pc = "jobs", !.cache = cache]}
  BY DEF Tick, WorkerMayRun, TakeTurns
<1>2. cache \in Saved /\ engine \in Engine
  BY DEF Cached, Inv, Typed, Engine
<1>3. engine' \in Engine /\ engine'.pc \in {"sync", "jobs"} /\ engine'.news = engine.news
  BY <1>1, <1>2 DEF Engine
<1>4. /\ row' \in Rows /\ index' \subseteq [item : Items, sync : 1..row'.id]
      /\ child.pc # "none" => row' = row
  BY <1>1, QueueSyncKeeps DEF Inv, Typed
<1>5. Typed'
  BY <1>1, <1>3, <1>4 DEF Inv, Typed
<1>6. engine.news = "none"
  BY <1>1 DEF Inv, News
<1> QED BY <1>1, <1>3, <1>4, <1>5, <1>6, WorkerKeeps

LEMMA ClaimSyncStep ==
  ASSUME TakeTurns, Inv, ClaimSync
  PROVE  Inv'
<1>1. /\ engine.pc = "sync" /\ put.pc = "idle" /\ engine \in Engine
      /\ UNCHANGED <<settings, due, index, server, jf, queued, put, spent>>
  BY DEF ClaimSync, WorkerMayRun, TakeTurns, Inv, Typed
<1>2. CASE row.status # "queued"
  <2>1. engine' = [engine EXCEPT !.pc = "jobs"] /\ UNCHANGED <<row, resting, child>>
    BY <1>2 DEF ClaimSync
  <2>2. engine' \in Engine /\ engine'.pc = "jobs" /\ engine'.news = engine.news
    BY <1>1, <2>1 DEF Engine
  <2>3. engine.news = "none"
    BY <1>1 DEF Inv, News
  <2>4. Typed'
    BY <1>1, <2>1, <2>2 DEF Inv, Typed
  <2> QED BY <1>1, <2>1, <2>2, <2>3, <2>4, WorkerKeeps
<1>3. CASE row.status = "queued"
  <2>1. /\ row' = [row EXCEPT !.status = "running"] /\ resting' = TRUE
        /\ child' = [NoChild EXCEPT !.pc = "start"]
        /\ engine' = [engine EXCEPT !.pc = "forked", !.news = "none"]
    BY <1>3 DEF ClaimSync
  <2>2. row' \in Rows /\ row'.id = row.id /\ row'.status = "running"
    BY <1>3, <2>1, RowKeepsNumber DEF Inv, Typed, RowStates
  <2>3. engine' \in Engine /\ engine'.pc = "forked" /\ engine'.news = "none"
    BY <1>1, <2>1 DEF Engine
  <2>4. child' \in Child /\ child'.pc = "start"
    BY <2>1 DEF NoChild, Child
  <2>6. Typed'
    BY <1>1, <2>1, <2>2, <2>3, <2>4 DEF Inv, Typed
  <2>7. Protocol'
    BY <1>1, <2>2, <2>3, <2>4 DEF Inv, Protocol, Turns, OfRow, News, SameLibs, Seen, Indexed,
       SaidReady, Cleared, Trusted, Whole
  <2> QED BY <2>6, <2>7 DEF Inv, Protocol
<1> QED BY <1>2, <1>3

LEMMA SyncEndsStep ==
  ASSUME Inv, SyncEnds
  PROVE  Inv'
<1>1. /\ engine.pc = "listening" /\ engine.news # "none" /\ child.pc = "none"
      /\ UNCHANGED <<settings, due, resting, index, server, jf, queued, child, put, spent>>
      /\ \/ row' = row
         \/ /\ row.status = "running"
            /\ \E status \in {"completed", "failed"} : row' = [row EXCEPT !.status = status]
      /\ \/ engine' = [engine EXCEPT !.pc = "idle", !.news = "none"]
         \/ engine' = [engine EXCEPT !.pc = "mirror", !.news = "none"] /\ engine.news = "result"
  BY DEF SyncEnds, Inv, News
<1>2. row' \in Rows /\ row'.id = row.id
  BY <1>1, RowKeepsNumber DEF Inv, Typed, RowStates
<1>3. /\ engine' \in Engine /\ engine'.news = "none" /\ engine'.pc \in {"idle", "mirror"}
      /\ engine'.pc = "mirror" => engine.news = "result"
  BY <1>1 DEF Inv, Typed, Engine
<1>4. Typed'
  BY <1>1, <1>2, <1>3 DEF Inv, Typed
<1> QED BY <1>1, <1>2, <1>3, <1>4, WorkerKeeps DEF Inv, SaidReady

LEMMA MirrorStep ==
  ASSUME TakeTurns, Inv, Mirror
  PROVE  Inv'
<1>1. /\ engine.pc = "mirror" /\ put.pc = "idle" /\ engine \in Engine /\ settings \in Saved
      /\ settings' = [settings EXCEPT !.ready = TRUE, !.synced = TRUE] /\ due' = FALSE
      /\ engine' = [engine EXCEPT !.pc = "idle", !.cache.ready = TRUE, !.cache.synced = TRUE]
      /\ UNCHANGED <<row, resting, index, server, jf, queued, child, put, spent>>
  BY DEF Mirror, WorkerMayRun, TakeTurns, Inv, Typed
<1>2. /\ engine' \in Engine /\ engine'.pc = "idle" /\ engine'.news = engine.news
  BY <1>1 DEF Engine, Saved
<1>3. /\ settings' \in Saved /\ settings'.libs = settings.libs /\ settings'.ready = TRUE
  BY <1>1 DEF Saved
<1>4. settings.ready
  BY <1>1 DEF Inv, SaidReady
<1>5. engine.news = "none"
  BY <1>1 DEF Inv, News
<1>6. Typed'
  BY <1>1, <1>2, <1>3 DEF Inv, Typed
<1>7. Protocol'
  BY <1>1, <1>2, <1>3, <1>4, <1>5 DEF Inv, Protocol, Turns, OfRow, News, SameLibs, Seen, Indexed,
     SaidReady, Cleared, Trusted, Whole
<1> QED BY <1>6, <1>7 DEF Inv, Protocol

LEMMA LookUpStep ==
  ASSUME TakeTurns, Inv, NEW e \in Entries, LookUp(e)
  PROVE  Inv'
<1> DEFINE found == IF engine.cache.ready THEN InIndex(e, engine.cache.libs)
                    ELSE InJellyfin(e, engine.cache.libs)
<1>1. /\ engine.pc = "jobs" /\ put.pc = "idle" /\ engine \in Engine /\ queued' = queued \ {e}
      /\ engine' = [engine EXCEPT !.pc = "answer", !.entry = e, !.found = found]
      /\ UNCHANGED <<row, settings, due, resting, index, server, jf, child, put, spent>>
  BY DEF LookUp, WorkerMayRun, TakeTurns, Inv, Typed
<1>2. found \in BOOLEAN
  BY DEF InIndex, InJellyfin
<1> HIDE DEF found
<1>3. engine' \in Engine /\ engine'.pc = "answer" /\ engine'.news = engine.news
  BY <1>1, <1>2 DEF Engine
<1>4. engine.news = "none"
  BY <1>1 DEF Inv, News
<1>5. Typed'
  BY <1>1, <1>3 DEF Inv, Typed
<1> QED BY <1>1, <1>3, <1>4, <1>5, WorkerKeeps

LEMMA AnswerStep ==
  ASSUME TakeTurns, Inv, Answer \/ AnswerUnconfigured \/ AnswerFails
  PROVE  Inv'
<1>1. /\ engine.pc = "answer" /\ put.pc = "idle" /\ engine \in Engine
      /\ engine' = [engine EXCEPT !.pc = "jobs", !.entry = "none", !.found = FALSE]
      /\ UNCHANGED <<row, settings, due, resting, index, server, child, put>>
  BY DEF Answer, AnswerUnconfigured, AnswerFails, HandOver, WorkerMayRun, TakeTurns, Inv, Typed
<1>2. engine' \in Engine /\ engine'.pc = "jobs" /\ engine'.news = engine.news
  BY <1>1 DEF Engine
<1>3. engine.news = "none"
  BY <1>1 DEF Inv, News
<1>4. jf' \in [Entries -> Statuses]
  BY DEF Answer, AnswerUnconfigured, AnswerFails, HandOver, Inv, Typed, Statuses
<1>5. engine.entry \in Entries
  BY <1>1 DEF Engine
<1>6. queued' \subseteq Entries
  BY <1>5 DEF Answer, AnswerUnconfigured, AnswerFails, Inv, Typed
<1>7. spent' \in [Events -> Nat] /\ \A event \in Events : spent'[event] <= Bound[event]
  <2>1. UNCHANGED spent \/ Spend("faults")
    BY DEF Answer, AnswerUnconfigured, AnswerFails
  <2> QED BY <2>1, SpendKeeps DEF Inv, Typed, Events
<1>8. Typed'
  BY <1>1, <1>2, <1>4, <1>6, <1>7 DEF Inv, Typed
<1> QED BY <1>1, <1>2, <1>3, <1>8, WorkerKeeps

LEMMA OtherWorkerStep ==
  ASSUME TakeTurns, Inv, EngineStarts \/ Listen \/ JobsDone \/ ReleaseStale
  PROVE  Inv'
<1>1. /\ UNCHANGED <<settings, due, resting, index, server, jf, queued, child, put, spent>>
      /\ \/ row' = row
         \/ row.status = "running" /\ row' = [row EXCEPT !.status = "failed"] /\ child.pc = "none"
      /\ \/ UNCHANGED engine
         \/ engine' = [Down EXCEPT !.pc = "idle", !.cache = settings]
         \/ engine' = [engine EXCEPT !.pc = "listening", !.news = "none"] /\ engine.pc = "forked"
         \/ engine' = [engine EXCEPT !.pc = "idle"] /\ engine.pc = "jobs"
  BY DEF EngineStarts, Listen, JobsDone, ReleaseStale
<1>2. row' \in Rows /\ row'.id = row.id
  BY <1>1, RowKeepsNumber DEF Inv, Typed, RowStates
<1>3. engine \in Engine /\ settings \in Saved /\ Down \in Engine /\ Down.news = "none"
  BY DownIsDown DEF Inv, Typed
<1>4. CASE UNCHANGED engine
  <2>1. Typed'
    BY <1>1, <1>2, <1>3, <1>4 DEF Inv, Typed
  <2> QED BY <1>1, <1>4, <2>1, WorkerKeeps DEF Inv, SaidReady
<1>5. CASE engine' = [Down EXCEPT !.pc = "idle", !.cache = settings]
  <2>1. engine' \in Engine /\ engine'.pc = "idle" /\ engine'.news = "none"
    BY <1>3, <1>5 DEF Engine
  <2>2. Typed'
    BY <1>1, <1>2, <2>1 DEF Inv, Typed
  <2> QED BY <1>1, <2>1, <2>2, WorkerKeeps
<1>6. CASE engine' = [engine EXCEPT !.pc = "listening", !.news = "none"] /\ engine.pc = "forked"
  <2>1. engine' \in Engine /\ engine'.pc = "listening" /\ engine'.news = "none"
    BY <1>3, <1>6 DEF Engine
  <2>2. Typed'
    BY <1>1, <1>2, <2>1 DEF Inv, Typed
  <2> QED BY <1>1, <1>6, <2>1, <2>2, WorkerKeeps
<1>7. CASE engine' = [engine EXCEPT !.pc = "idle"] /\ engine.pc = "jobs"
  <2>1. engine' \in Engine /\ engine'.pc = "idle" /\ engine'.news = engine.news
    BY <1>3, <1>7 DEF Engine
  <2>2. engine.news = "none"
    BY <1>7 DEF Inv, News
  <2>3. Typed'
    BY <1>1, <1>2, <2>1 DEF Inv, Typed
  <2> QED BY <1>1, <2>1, <2>2, <2>3, WorkerKeeps
<1> QED BY <1>1, <1>4, <1>5, <1>6, <1>7

LEMMA CrashStep ==
  ASSUME Inv, Crash
  PROVE  Inv'
<1>1. /\ engine' = Down /\ child' \in {child, [child EXCEPT !.orphan = TRUE]} /\ Spend("faults")
      /\ UNCHANGED <<row, settings, due, resting, index, server, jf, queued, put>>
  BY DEF Crash
<1>2. engine' \in Engine /\ engine'.pc = "down" /\ engine'.news = "none"
  BY <1>1, DownIsDown DEF Inv, Typed
<1>3. child' \in Child /\ child'.pc = child.pc /\ child'.libs = child.libs /\ child'.left = child.left
  BY <1>1 DEF Inv, Typed, Child
<1>4. Typed'
  BY <1>1, <1>2, <1>3, SpendKeeps DEF Inv, Typed, Events
<1>5. Protocol'
  BY <1>1, <1>2, <1>3 DEF Inv, Protocol, Turns, OfRow, News, SameLibs, Seen, Indexed, SaidReady,
     Cleared, Trusted, Whole
<1> QED BY <1>4, <1>5 DEF Inv, Protocol

-----------------------------------------------------------------------------
(* The child.                                                              *)

\* While a child is there and the route and the worker take turns, the route
\* rests.
LEMMA ChildMoves ==
  ASSUME TakeTurns, Inv, child.pc # "none"
  PROVE  put.pc = "idle" /\ row.status = "running" /\ row.id \in Nat /\ row.id \in 1..row.id
         /\ engine.news = "none" /\ child \in Child
BY DEF Inv, Typed, Rows, Turns, OfRow, News

\* A step of the child that leaves the index alone.
LEMMA ChildKeeps ==
  ASSUME TakeTurns, Inv, child.pc # "none", UNCHANGED <<row, index, put>>, Typed',
         settings'.libs = settings.libs,
         settings.ready => settings'.ready, settings'.ready => Whole(settings.libs),
         engine'.pc = engine.pc,
         \/ engine' = engine
         \/ /\ child'.pc = "none" /\ engine.pc = "listening"
            /\ engine'.news = "result" => child.pc = "done",
         \/ child'.pc \in {"none", "failed"}
         \/ /\ child'.pc = "reading" /\ child'.libs = settings.libs /\ child'.left = child'.libs
         \/ /\ child'.pc \in {"matching", "done"} /\ child'.libs = child.libs
            /\ child.pc \in {"indexed", "matching", "done"} /\ settings'.ready
  PROVE  Inv'
<1>1. Turns' /\ OfRow' /\ News'
  BY ChildMoves DEF Inv, Turns, OfRow, News
<1>2. SameLibs' /\ Seen' /\ Indexed'
  BY DEF Inv, SameLibs, Seen, Indexed
<1>3. SaidReady'
  BY ChildMoves DEF Inv, SaidReady, News
<1>4. Cleared' /\ Trusted'
  BY ChildMoves DEF Inv, Cleared, Trusted, Whole
<1> QED BY <1>1, <1>2, <1>3, <1>4 DEF Inv

LEMMA ChildStartsStep ==
  ASSUME TakeTurns, Inv, ChildStarts
  PROVE  Inv'
<1>1. /\ child.pc = "start" /\ child \in Child /\ settings \in Saved
      /\ \/ child' = [child EXCEPT !.pc = "reading", !.libs = settings.libs, !.left = settings.libs]
         \/ child' = [child EXCEPT !.pc = "failed"]
      /\ UNCHANGED <<row, settings, due, resting, index, server, jf, queued, engine, put, spent>>
  BY DEF ChildStarts, Inv, Typed
<1>2. /\ child' \in Child
      /\ \/ child'.pc = "failed"
         \/ child'.pc = "reading" /\ child'.libs = settings.libs /\ child'.left = child'.libs
  BY <1>1 DEF Child, Saved
<1>3. Typed'
  BY <1>1, <1>2 DEF Inv, Typed
<1> QED BY <1>1, <1>2, <1>3, ChildKeeps DEF Inv, Trusted

LEMMA ChildFailsStep ==
  ASSUME TakeTurns, Inv, ChildFails
  PROVE  Inv'
<1>1. /\ child.pc # "none" /\ child \in Child /\ child' = [child EXCEPT !.pc = "failed"]
      /\ UNCHANGED <<row, settings, due, resting, index, server, jf, queued, engine, put>>
      /\ Spend("faults")
  BY DEF ChildFails, Inv, Typed
<1>2. child' \in Child /\ child'.pc = "failed"
  BY <1>1 DEF Child
<1>3. Typed'
  BY <1>1, <1>2, SpendKeeps DEF Inv, Typed, Events
<1> QED BY <1>1, <1>2, <1>3, ChildKeeps DEF Inv, Trusted

LEMMA MarkReadyStep ==
  ASSUME TakeTurns, Inv, MarkReady
  PROVE  Inv'
<1>1. /\ child.pc = "indexed" /\ child \in Child /\ settings \in Saved
      /\ settings' = [settings EXCEPT !.ready = TRUE]
      /\ child' = [child EXCEPT !.pc = "matching", !.left = {e \in Entries : jf[e] # "absent"}]
      /\ UNCHANGED <<row, due, resting, index, server, jf, queued, engine, put, spent>>
  BY DEF MarkReady, Inv, Typed
<1>2. settings' \in Saved /\ settings'.libs = settings.libs /\ settings'.ready = TRUE
  BY <1>1 DEF Saved
<1>3. child' \in Child /\ child'.pc = "matching" /\ child'.libs = child.libs
  BY <1>1 DEF Child
<1>4. Whole(settings.libs)
  BY <1>1 DEF Inv, Indexed, SameLibs
<1>5. Typed'
  BY <1>1, <1>2, <1>3 DEF Inv, Typed
<1> QED BY <1>1, <1>2, <1>3, <1>4, <1>5, ChildKeeps

LEMMA WriteMatchesStep ==
  ASSUME TakeTurns, Inv, NEW e \in Entries, WriteMatches(e)
  PROVE  Inv'
<1>1. /\ child.pc = "matching" /\ child \in Child
      /\ jf' = [jf EXCEPT ![e] = Judged(e)] /\ Judged(e) \in Statuses
      /\ child' = [child EXCEPT !.left = @ \ {e}]
      /\ UNCHANGED <<row, settings, due, resting, index, server, queued, engine, put, spent>>
  BY DEF WriteMatches, Judged, Statuses, Inv, Typed
<1>2. child' \in Child /\ child'.pc = "matching" /\ child'.libs = child.libs
  BY <1>1 DEF Child
<1>3. jf' \in [Entries -> Statuses]
  <2> HIDE DEF Judged
  <2> QED BY <1>1 DEF Inv, Typed
<1>4. Typed'
  BY <1>1, <1>2, <1>3 DEF Inv, Typed
<1> QED BY <1>1, <1>2, <1>4, ChildKeeps DEF Inv, Trusted, SaidReady

LEMMA ChildFinishesStep ==
  ASSUME TakeTurns, Inv, ChildFinishes
  PROVE  Inv'
<1>1. /\ child.pc = "matching" /\ child \in Child /\ settings \in Saved
      /\ settings' = [settings EXCEPT !.synced = TRUE] /\ due' = FALSE
      /\ child' = [child EXCEPT !.pc = "done"]
      /\ UNCHANGED <<row, resting, index, server, jf, queued, engine, put, spent>>
  BY DEF ChildFinishes, Inv, Typed
<1>2. settings' \in Saved /\ settings'.libs = settings.libs /\ settings'.ready = settings.ready
  BY <1>1 DEF Saved
<1>3. child' \in Child /\ child'.pc = "done" /\ child'.libs = child.libs
  BY <1>1 DEF Child
<1>4. settings.ready
  BY <1>1 DEF Inv, SaidReady
<1>5. Typed'
  BY <1>1, <1>2, <1>3 DEF Inv, Typed
<1> QED BY <1>1, <1>2, <1>3, <1>4, <1>5, ChildKeeps DEF Inv, Trusted

LEMMA ChildExitsStep ==
  ASSUME TakeTurns, Inv, ChildExits \/ (OrphanExits /\ child.pc # "none")
  PROVE  Inv'
<1>1. /\ child.pc # "none" /\ child' = NoChild /\ engine \in Engine
      /\ UNCHANGED <<row, settings, due, resting, index, server, jf, queued, put, spent>>
      /\ \/ engine' = engine
         \/ engine.pc = "listening" /\ engine' = [engine EXCEPT !.news = "error"]
         \/ /\ engine.pc = "listening" /\ engine' = [engine EXCEPT !.news = "result"]
            /\ child.pc = "done"
  BY DEF ChildExits, OrphanExits, Tell, Inv, Typed
<1>2. child' \in Child /\ child'.pc = "none"
  BY <1>1, Shapes
<1>3. engine' \in Engine /\ engine'.pc = engine.pc
  BY <1>1 DEF Engine
<1>4. engine' = engine \/ (engine.pc = "listening" /\ (engine'.news = "result" => child.pc = "done"))
  BY <1>1 DEF Engine
<1>5. Typed'
  BY <1>1, <1>2, <1>3 DEF Inv, Typed
<1> QED BY <1>1, <1>2, <1>3, <1>4, <1>5, ChildKeeps DEF Inv, Trusted

\* A child that is not there has nothing to leave.
LEMMA NoOrphan ==
  ASSUME Inv, OrphanExits, child.pc = "none"
  PROVE  Inv'
<1>1. /\ child' \in Child /\ child'.pc = "none"
      /\ UNCHANGED <<row, settings, due, resting, index, server, jf, queued, engine, put, spent>>
  BY Shapes DEF OrphanExits
<1>2. Typed'
  BY <1>1 DEF Inv, Typed
<1>3. Protocol'
  BY <1>1 DEF Inv, Protocol, Turns, OfRow, News, SameLibs, Seen, Indexed, SaidReady, Cleared,
              Trusted, Whole
<1> QED BY <1>2, <1>3 DEF Inv, Protocol

\* Neither a page nor the end of a sync loses an item that is steady.
LEMMA ReadPageStep ==
  ASSUME TakeTurns, Inv, NEW l \in Libraries, ReadPage(l)
  PROVE  /\ Inv'
         /\ \A r \in index : r.item \in Steady => \E q \in index' : q.item = r.item
<1>1. /\ child.pc = "reading" /\ l \in child.left
      /\ index' = (index \ Stored(Page(l))) \cup [item : Page(l), sync : {row.id}]
      /\ child' = [child EXCEPT !.left = @ \ {l}]
      /\ UNCHANGED <<row, settings, due, resting, server, jf, queued, engine, put, spent>>
  BY DEF ReadPage, WritePage
<1>2. /\ put.pc = "idle" /\ row.id \in 1..row.id /\ engine.news = "none" /\ child \in Child
      /\ engine.pc # "mirror" \/ settings.ready
  BY <1>1, ChildMoves DEF Inv, SaidReady
<1>3. /\ child' \in Child /\ child'.pc = "reading" /\ child'.libs = child.libs
      /\ child'.left = child.left \ {l}
  BY <1>1, <1>2 DEF Child
<1>4. Page(l) \subseteq Items /\ \A i \in Steady : i \in Page(l) <=> i[1] = l
  BY DEF Page, Inv, Typed
<1>5. index' \subseteq [item : Items, sync : 1..row.id]
  BY <1>1, <1>2, <1>4 DEF Inv, Typed
<1>6. ASSUME NEW r \in index, r.item \notin Page(l) PROVE r \in index'
  BY <1>1, <1>6 DEF Stored
<1>7. ASSUME NEW i \in Page(l) PROVE [item |-> i, sync |-> row.id] \in index'
  BY <1>1
<1>8. ASSUME NEW r \in index PROVE \E q \in index' : q.item = r.item
  <2>1. CASE r.item \in Page(l)
    <3>1. [item |-> r.item, sync |-> row.id] \in index'
      BY <1>7, <2>1
    <3> QED BY <3>1
  <2> QED BY <1>6, <2>1
<1>9. Typed'
  BY <1>1, <1>3, <1>5 DEF Inv, Typed
<1>10. Seen'
  <2> SUFFICES ASSUME NEW i \in Steady, i[1] \in child.libs, i[1] \notin child.left \/ i[1] = l
               PROVE  [item |-> i, sync |-> row.id] \in index'
    BY <1>1, <1>3 DEF Seen
  <2>1. CASE i[1] = l
    BY <1>4, <1>7, <2>1
  <2>2. CASE i[1] # l
    <3>1. [item |-> i, sync |-> row.id] \in index
      BY <1>1, <2>2 DEF Inv, Seen
    <3> QED BY <1>4, <1>6, <2>2, <3>1
  <2> QED BY <2>1, <2>2
<1>11. Turns' /\ OfRow' /\ News' /\ SameLibs' /\ Indexed' /\ SaidReady' /\ Cleared'
  BY <1>1, <1>2, <1>3 DEF Inv, Turns, OfRow, News, SameLibs, Indexed, SaidReady, Cleared
<1>12. Trusted'
  BY <1>1, <1>8 DEF Inv, Trusted, Whole
<1> QED BY <1>8, <1>9, <1>10, <1>11, <1>12 DEF Inv

LEMMA FinalizeStep ==
  ASSUME TakeTurns, Inv, Finalize
  PROVE  /\ Inv'
         /\ \A r \in index : r.item \in Steady => \E q \in index' : q.item = r.item
<1>1. /\ child.pc = "reading" /\ child.left = {}
      /\ index' = {r \in index : r.item[1] \in child.libs => r.sync = row.id}
      /\ child' = [child EXCEPT !.pc = "indexed"]
      /\ UNCHANGED <<row, settings, due, resting, server, jf, queued, engine, put, spent>>
  BY DEF Finalize
<1>2. /\ put.pc = "idle" /\ engine.news = "none" /\ child \in Child
  BY <1>1, ChildMoves
<1>3. child' \in Child /\ child'.pc = "indexed" /\ child'.libs = child.libs
  BY <1>1, <1>2 DEF Child
<1>4. ASSUME NEW i \in Steady, i[1] \in child.libs PROVE \E q \in index' : q.item = i
  <2>1. [item |-> i, sync |-> row.id] \in index
    BY <1>1, <1>4 DEF Inv, Seen
  <2>2. [item |-> i, sync |-> row.id] \in index'
    BY <1>1, <2>1
  <2> QED BY <2>2
<1>5. ASSUME NEW r \in index, r.item \in Steady PROVE \E q \in index' : q.item = r.item
  <2>1. CASE r.item[1] \in child.libs
    BY <1>4, <1>5, <2>1
  <2>2. CASE r.item[1] \notin child.libs
    BY <1>1, <2>2
  <2> QED BY <2>1, <2>2
<1>6. Typed'
  BY <1>1, <1>3 DEF Inv, Typed
<1>7. Turns' /\ OfRow' /\ News' /\ SameLibs' /\ Seen' /\ SaidReady' /\ Cleared'
  BY <1>1, <1>2, <1>3 DEF Inv, Turns, OfRow, News, SameLibs, Seen, SaidReady, Cleared
<1>8. Indexed'
  BY <1>3, <1>4 DEF Indexed, Whole
<1>9. Trusted'
  <2> SUFFICES ASSUME settings.ready, NEW i \in Steady, i[1] \in settings.libs
               PROVE  \E q \in index' : q.item = i
    BY <1>1 DEF Trusted, Whole
  <2>1. PICK r \in index : r.item = i
    BY DEF Inv, Trusted, Whole
  <2> QED BY <1>5, <2>1
<1> QED BY <1>5, <1>6, <1>7, <1>8, <1>9 DEF Inv

-----------------------------------------------------------------------------
(* The theorems.                                                           *)

StoredItems == \A r \in index : r.item \in Steady => \E q \in index' : q.item = r.item

LEMMA NextInv ==
  ASSUME TakeTurns, Inv, [Next]_vars
  PROVE  Inv' /\ (put.pc # "clear" => StoredItems)
<1>0. UNCHANGED index => StoredItems
  BY DEF StoredItems
<1>1. CASE \/ \E i \in Items : LibraryChanges(i)
           \/ IntervalElapses \/ RetryDelayElapses
           \/ \E e \in Entries : Archive(e)
  <2>1. UNCHANGED index
    BY <1>1 DEF LibraryChanges, IntervalElapses, RetryDelayElapses, Archive
  <2> QED BY <1>0, <1>1, <2>1, EnvironmentStep
<1>2. CASE RequestSync
  BY <1>0, <1>2, RequestSyncStep DEF RequestSync
<1>3. CASE (\E config \in Configs : PutCheck(config)) \/ PutStep \/ PutFails
  <2>1. put.pc # "clear" => UNCHANGED index
    BY <1>3 DEF PutCheck, PutStep, PutWrite, PutClear, PutReset, PutFails
  <2> QED BY <1>0, <1>3, <2>1, PutStepInv
<1>4. CASE WorkerStep \/ AnswerFails \/ Crash \/ ReleaseStale \/ \E cache \in Cached : Tick(cache)
  <2>1. UNCHANGED index
    BY <1>4 DEF WorkerStep, EngineStarts, ClaimSync, Listen, SyncEnds, Mirror, Answer,
       AnswerUnconfigured, AnswerFails, HandOver, JobsDone, LookUp, Crash, ReleaseStale, Tick
  <2>2. Inv'
    BY <1>4, ClaimSyncStep, SyncEndsStep, MirrorStep, LookUpStep, AnswerStep, OtherWorkerStep,
       CrashStep, TickStep DEF WorkerStep
  <2> QED BY <1>0, <2>1, <2>2
<1>5. CASE ChildStarts \/ MarkReady \/ ChildFinishes \/ ChildExits \/ OrphanExits \/ ChildFails
           \/ \E e \in Entries : WriteMatches(e)
  <2>1. UNCHANGED index
    BY <1>5 DEF ChildStarts, MarkReady, ChildFinishes, ChildExits, OrphanExits, ChildFails,
       WriteMatches
  <2>2. Inv'
    BY <1>5, ChildStartsStep, MarkReadyStep, ChildFinishesStep, ChildExitsStep, NoOrphan,
       ChildFailsStep, WriteMatchesStep
  <2> QED BY <1>0, <2>1, <2>2
<1>6. CASE Finalize \/ \E l \in Libraries : ReadPage(l)
  BY <1>6, FinalizeStep, ReadPageStep DEF StoredItems
<1>7. CASE UNCHANGED vars
  <2>1. Typed' /\ UNCHANGED index
    BY <1>7 DEF vars, Inv, Typed
  <2>2. Protocol'
    BY <1>7 DEF vars, Inv, Protocol, Turns, OfRow, News, SameLibs, Seen, Indexed, SaidReady, Cleared,
       Trusted, Whole
  <2> QED BY <1>0, <2>1, <2>2 DEF Inv, Protocol
<1> QED BY <1>1, <1>2, <1>3, <1>4, <1>5, <1>6, <1>7 DEF Next, ChildStep

LEMMA SpecInv ==
  ASSUME TakeTurns
  PROVE  Spec => []Inv
<1>1. Inv /\ [Next]_vars => Inv'
  BY NextInv
<1> QED BY <1>1, InitInv, PTL DEF Spec

(* The sync job, the settings, the index, the worker, its child and the    *)
(* route keep their types, and every bounded event its bound               *)
(* (library-worker.ts, library-sync.ts).                                   *)
THEOREM TypeCorrect ==
  ASSUME TakeTurns
  PROVE  Spec => []TypeOK
<1>1. ASSUME Inv PROVE TypeOK
  <2>1. \A e \in Events : spent[e] \in 0..Bound[e]
    <3>1. \A e \in Events : Bound[e] \in Nat /\ spent[e] \in Nat /\ spent[e] <= Bound[e]
      BY <1>1, BoundsAssumption DEF Inv, Typed, Events, Bound
    <3> QED BY <3>1
  <2>2. row \in [id : Nat, status : RowStates]
    BY <1>1 DEF Inv, Typed, Rows
  <2>3. /\ engine.pc \in {"down", "idle", "sync", "forked", "listening", "mirror", "jobs", "answer"}
        /\ engine.cache \in Saved
    BY <1>1 DEF Inv, Typed, Engine
  <2>4. child.pc \in {"none", "start", "reading", "indexed", "matching", "done", "failed"}
    BY <1>1 DEF Inv, Typed, Child
  <2>5. put.pc \in {"idle", "write", "clear", "reset"} /\ put.config \in Configs \cup {NoConfig}
    BY <1>1 DEF Inv, Typed, Route
  <2> QED BY <1>1, <2>1, <2>2, <2>3, <2>4, <2>5 DEF Inv, Typed, TypeOK
<1> QED BY <1>1, SpecInv, PTL

(* An index that the settings call ready holds every item that Jellyfin    *)
(* had all along in the selected libraries, for any items, libraries and   *)
(* selections, and whatever sync failed, was killed or was overtaken       *)
(* (library-worker.ts:117, library-sync.ts).                               *)
THEOREM IndexCanBeTrusted ==
  ASSUME TakeTurns
  PROVE  Spec => []ReadyIndexIsWhole
<1>1. ASSUME Inv PROVE ReadyIndexIsWhole
  <2> SUFFICES ASSUME settings.ready, NEW i \in Steady, i[1] \in settings.libs
               PROVE  Stored({i}) # {}
    BY DEF ReadyIndexIsWhole
  <2>1. PICK r \in index : r.item = i
    BY <1>1 DEF Inv, Trusted, Whole
  <2> QED BY <2>1 DEF Stored
<1> QED BY <1>1, SpecInv, PTL

(* A sync replaces what it reads and drops what it has not seen, and loses *)
(* nothing of what is still there (library-sync.ts finalize).              *)
THEOREM SyncLosesNothing ==
  ASSUME TakeTurns
  PROVE  Spec => SyncKeepsWhatIsThere
<1>1. Inv /\ [Next]_vars =>
        [put.pc # "clear" => \A r \in index : r.item \in Steady => \E s \in index' : s.item = r.item]_vars
  BY NextInv DEF StoredItems
<1> QED BY <1>1, SpecInv, PTL DEF Spec, SyncKeepsWhatIsThere
=============================================================================
