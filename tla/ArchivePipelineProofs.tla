------------------------ MODULE ArchivePipelineProofs ------------------------
(***************************************************************************)
(* Theorems about ArchivePipeline for any entries, rules, settings and     *)
(* bounds: what is shown as pending has work, a download is announced once *)
(* in its cycle, and no small file of a staged torrent is loaded.          *)
(*                                                                         *)
(* The lookups and the downloads change variables of their own; a step of  *)
(* the system is a step of either, of both or of none of them.             *)
(***************************************************************************)
EXTENDS ArchivePipeline, TLAPS

LookupStep ==
  \/ LookupNext
  \/ \E e \in Entries : MagnetFound(e)
  \/ EngineDies
  \/ UNCHANGED lookupVars

DownloadStep ==
  \/ DownloadNext
  \/ \E e \in Entries : QueueFound(e)
  \/ SenderDies
  \/ UNCHANGED downloadVars

LEMMA StepOfParts ==
  ASSUME [Next]_vars
  PROVE  LookupStep /\ DownloadStep
<1>1. CASE UNCHANGED vars
  BY <1>1 DEF vars, LookupStep, DownloadStep
<1>2. CASE LookupNext /\ UNCHANGED downloadVars
  BY <1>2 DEF LookupStep, DownloadStep
<1>3. CASE DownloadNext /\ UNCHANGED lookupVars
  BY <1>3 DEF LookupStep, DownloadStep
<1>4. ASSUME NEW e \in Entries, FindsMagnet(e) PROVE LookupStep /\ DownloadStep
  BY <1>4 DEF FindsMagnet, LookupStep, DownloadStep
<1>5. CASE Dies
  BY <1>5 DEF Dies, LookupStep, DownloadStep
<1> QED BY <1>1, <1>2, <1>3, <1>4, <1>5 DEF Next

-----------------------------------------------------------------------------
(* The bounded events.                                                     *)

Events == {"requests", "faults", "moves", "meddling"}

Counted ==
  /\ spent \in [Events -> Nat]
  /\ \A event \in DOMAIN Bound : spent[event] \in 0..Bound[event]

LEMMA BoundsTyped == DOMAIN Bound = Events /\ \A event \in Events : Bound[event] \in Nat
  BY BoundsAssumption DEF Bound, Events

LEMMA SpendCounts ==
  ASSUME Counted, NEW event \in Events, Spend(event)
  PROVE  Counted'
<1>1. spent[event] \in Nat /\ Bound[event] \in Nat /\ spent[event] < Bound[event]
  BY BoundsTyped DEF Counted, Spend
<1>2. spent' = [spent EXCEPT ![event] = spent[event] + 1]
  BY DEF Spend
<1>3. spent' \in [Events -> Nat]
  BY <1>1, <1>2 DEF Counted
<1>4. ASSUME NEW other \in Events PROVE spent'[other] \in 0..Bound[other]
  <2>1. CASE other = event
    BY <1>1, <1>2, <2>1 DEF Counted
  <2>2. CASE other # event
    BY <1>2, <2>2, BoundsTyped DEF Counted
  <2> QED BY <2>1, <2>2
<1> QED BY <1>3, <1>4, BoundsTyped DEF Counted

LEMMA StepCounts ==
  ASSUME Counted, [Next]_vars
  PROVE  Counted'
<1> DEFINE Free == UNCHANGED spent
           Paid == \E event \in Events : Spend(event)
<1>1. Free \/ Paid => Counted'
  <2>1. CASE Free
    BY <2>1 DEF Counted
  <2>2. CASE Paid
    BY <2>2, SpendCounts
  <2> QED BY <2>1, <2>2
<1>2. ASSUME LookupNext PROVE Free \/ Paid
  <2>1. CASE QueueAsked \/ QueueMarked
    BY <2>1 DEF QueueAsked, QueueMarked
  <2>2. ASSUME NEW e \in Entries, NEW b \in BOOLEAN, Capture(e, b) \/ MarkUnsearched(e)
        PROVE  Free
    BY <2>2 DEF Capture, MarkUnsearched
  <2>3. ASSUME NEW r, NEW b, NEW c, NEW es, NEW e,
               \/ ChangeRules(r) \/ ChangeLibrary(b, c) \/ AskMagnets(es) \/ AskReleases
               \/ SyncWrites(e, b)
        PROVE  Paid
    BY <2>3 DEF ChangeRules, ChangeLibrary, AskMagnets, AskReleases, SyncWrites, Events
  <2>5. ASSUME NEW e \in Entries, NEW retry \in BOOLEAN,
               \/ LibraryFails(e) \/ LibraryRetries(e) \/ ReleaseFails(e, retry)
               \/ MagnetFails(e, retry)
        PROVE  Free \/ Paid
    BY <2>5 DEF LibraryFails, LibraryRetries, ReleaseFails, MagnetFails, Events
  <2>4. ASSUME NEW k \in Kinds, WorkerEnds(k) PROVE Free \/ Paid
    <3>1. PICK e \in Entries : \/ ReleaseEnds(e) \/ MagnetNotFound(e) \/ LibraryMatches(e)
                               \/ LibraryMisses(e) \/ LibraryFails(e)
      BY <2>4 DEF WorkerEnds
    <3>2. CASE LibraryFails(e)
      BY <2>5, <3>2
    <3>3. ASSUME ReleaseEnds(e) \/ MagnetNotFound(e) \/ LibraryMisses(e) PROVE Free
      BY <3>3 DEF ReleaseEnds, MagnetNotFound, LibraryMisses
    <3>4. ASSUME LibraryMatches(e) PROVE Free
      BY <3>4 DEF LibraryMatches
    <3> QED BY <3>1, <3>2, <3>3, <3>4
  <2>6. ASSUME NEW k \in Kinds, NEW e \in Entries, Claim(k, e) \/ Sweep(k, e) PROVE Free
    BY <2>6 DEF Claim, Sweep
  <2> HIDE DEF Free, Paid
  <2> QED BY <1>2, <2>1, <2>2, <2>3, <2>4, <2>5, <2>6 DEF LookupNext
<1>3. ASSUME DownloadNext PROVE Free \/ Paid
  <2>1. ASSUME NEW e \in Entries,
               \/ Proceeds(e) \/ GraceElapses(e) \/ SenderClaims(e) \/ SenderSweeps(e)
        PROVE  Free
    BY <2>1 DEF Proceeds, GraceElapses, SenderClaims, SenderSweeps
  <2>2. ASSUME NEW e, NEW es,
               Pauses(e) \/ Resumes(e) \/ Deletes(e) \/ AskDownload(es) \/ ChangeMinimum
        PROVE  Paid
    BY <2>2 DEF Pauses, Resumes, Deletes, AskDownload, ChangeMinimum, Events
  <2>3. ASSUME \/ QueueClicked \/ SenderAdds \/ SenderRefilters \/ SenderRecords
               \/ ObserverSelects \/ ObserverFilters \/ ObserverStarts \/ ObserverWrites
        PROVE  Free
    BY <2>3 DEF QueueClicked, SenderAdds, SenderRefilters, SenderRecords, ObserverSelects,
                ObserverFilters, ObserverStarts, ObserverWrites
  <2>4. ASSUME NEW retry \in BOOLEAN, NEW omit \in BOOLEAN,
               \/ SenderFails(retry) \/ ObserverStops \/ ObserverFails
               \/ ObserverAsks(retry, omit)
        PROVE  Free \/ Paid
    <3>1. CASE SenderFails(retry)
      BY <3>1 DEF SenderFails, Events
    <3>2. CASE ObserverStops
      BY <3>2 DEF ObserverStops, Events
    <3>3. CASE ObserverFails
      BY <3>3 DEF ObserverFails, Events
    <3>4. CASE ObserverAsks(retry, omit)
      <4>1. IF omit THEN Spend("meddling") ELSE UNCHANGED spent
        BY <3>4 DEF ObserverAsks
      <4> QED BY <4>1 DEF Events
    <3> QED BY <2>4, <3>1, <3>2, <3>3, <3>4
  <2> HIDE DEF Free, Paid
  <2> QED BY <1>3, <2>1, <2>2, <2>3, <2>4 DEF DownloadNext
<1>4. ASSUME NEW e \in Entries, FindsMagnet(e) PROVE Free
  BY <1>4 DEF FindsMagnet, MagnetFound
<1>5. ASSUME Dies PROVE Paid
  BY <1>5 DEF Dies, Events
<1>6. ASSUME UNCHANGED vars PROVE Free
  BY <1>6 DEF vars
<1> QED BY <1>1, <1>2, <1>3, <1>4, <1>5, <1>6 DEF Next

-----------------------------------------------------------------------------
(* The lookups.                                                            *)

LookupsTyped ==
  /\ LookupTypeOK
  /\ \A k \in Kinds : worker[k].pc # "idle" => worker[k].entry \in Entries
  /\ ask # NoAsk => ask.kind # "none"

\* What a table of jobs becomes when rows are queued.
LEMMA Queued ==
  ASSUME NEW js \in [Kinds -> [Entries -> JobStates]], NEW k \in Kinds, NEW es
  PROVE  /\ Queue(js, k, es) \in [Kinds -> [Entries -> JobStates]]
         /\ \A l \in Kinds : l # k => Queue(js, k, es)[l] = js[l]
         /\ \A e \in Entries : Queue(js, k, es)[k][e] =
              IF e \in es /\ js[k][e] = "none" THEN "queued" ELSE js[k][e]
         /\ \A l \in Kinds, e \in Entries : js[l][e] # "none" => Queue(js, k, es)[l][e] # "none"
<1> DEFINE row == [e \in Entries |-> IF e \in es /\ js[k][e] = "none" THEN "queued" ELSE js[k][e]]
<1>1. row \in [Entries -> JobStates]
  BY DEF JobStates
<1>2. Queue(js, k, es) = [js EXCEPT ![k] = row]
  BY DEF Queue
<1>3. \A e \in Entries : row[e] = IF e \in es /\ js[k][e] = "none" THEN "queued" ELSE js[k][e]
  OBVIOUS
<1> HIDE DEF row
<1>4. Queue(js, k, es)[k] = row /\ \A l \in Kinds : l # k => Queue(js, k, es)[l] = js[l]
  BY <1>1, <1>2
<1> QED BY <1>1, <1>2, <1>3, <1>4

\* What PendingHasWork asks for one entry.
HasWork(e) ==
  /\ archive[e].release = "pending" =>
       \/ jobs["release"][e] # "none" \/ <<"release", e>> \in stranded
       \/ worker["release"].pc = "marked" /\ worker["release"].entry = e
  /\ archive[e].magnet = "pending" =>
       jobs["magnet"][e] # "none" \/ jobs["library"][e] # "none" \/ <<"library", e>> \in stranded

LEMMA WorkOfAll == PendingHasWork <=> \A e \in Entries : HasWork(e)
  BY DEF PendingHasWork, HasWork

\* A step that marks nothing and takes no work away.
LEMMA NoWorkLost ==
  ASSUME NEW e \in Entries, HasWork(e), stranded \subseteq stranded',
         archive'[e].release = "pending" => archive[e].release = "pending",
         archive'[e].magnet = "pending" => archive[e].magnet = "pending",
         \A k \in Kinds : jobs[k][e] # "none" => jobs'[k][e] # "none",
         worker["release"].pc = "marked" => worker'["release"] = worker["release"]
  PROVE  HasWork(e)'
  BY DEF HasWork, Kinds

\* The facts about the parts of the state that every step below needs.
LEMMA LookupParts ==
  ASSUME LookupsTyped
  PROVE  /\ archive \in [Entries -> Statuses] /\ \A e \in Entries : archive[e] \in Statuses
         /\ jobs \in [Kinds -> [Entries -> JobStates]]
         /\ \A k \in Kinds : /\ jobs[k] \in [Entries -> JobStates]
                             /\ \A e \in Entries : jobs[k][e] \in JobStates
         /\ worker \in [Kinds -> [pc : {"idle", "working", "marked"},
                                  entry : Entries \cup {"none"}, seen : BOOLEAN]]
         /\ rules \in Rules /\ stranded \subseteq Kinds \X Entries
         /\ ask \in [kind : {"none", "release", "magnet"}, entries : SUBSET Entries]
         /\ \A k \in Kinds : worker[k].pc # "idle" => worker[k].entry \in Entries
         /\ ask # NoAsk => ask.kind # "none"
         /\ Kinds = {"release", "library", "magnet"}
         /\ "none" \in JobStates /\ "queued" \in JobStates /\ "running" \in JobStates
  BY DEF LookupsTyped, LookupTypeOK, Kinds, JobStates

\* The entries that a capture, a sync or a change of rules writes.
LEMMA RequestsKeepWork ==
  ASSUME LookupsTyped, PendingHasWork,
         \/ \E e \in Entries, suppressed \in BOOLEAN : Capture(e, suppressed)
         \/ \E e \in Entries, held \in BOOLEAN : SyncWrites(e, held)
         \/ \E r \in Rules : ChangeRules(r)
         \/ \E library, skip \in BOOLEAN : ChangeLibrary(library, skip)
         \/ \E es \in SUBSET Entries : AskMagnets(es)
         \/ AskReleases \/ QueueAsked
  PROVE  LookupsTyped' /\ PendingHasWork'
<1> USE LookupParts
<1>0. \A e \in Entries : HasWork(e)
  BY WorkOfAll
<1>1. ASSUME NEW e \in Entries, NEW suppressed \in BOOLEAN, Capture(e, suppressed)
      PROVE  LookupsTyped' /\ PendingHasWork'
  <2> DEFINE first == rules.magnet /\ rules.library /\ rules.skip
             magnet == rules.magnet /\ ~first
             row == [release |-> IF rules.release THEN "pending" ELSE "unsearched",
                     library |-> IF first THEN "pending" ELSE "unconfigured",
                     magnet |-> IF magnet THEN "pending" ELSE "unsearched",
                     suppressed |-> suppressed]
             one(b) == IF b THEN {e} ELSE {}
             js == Queue(jobs, "library", one(first))
             ks == Queue(js, "magnet", one(magnet))
  <2>0. e \in Entries /\ first \in BOOLEAN /\ magnet \in BOOLEAN /\ rules.release \in BOOLEAN
    BY DEF Rules
  <2>1. /\ archive' = [archive EXCEPT ![e] = row]
        /\ jobs' = Queue(ks, "release", one(rules.release))
        /\ UNCHANGED <<worker, rules, ask, stranded, spent>>
    BY <1>1 DEF Capture
  <2>2. row \in Statuses
    BY DEF Statuses
  <2>3. /\ js \in [Kinds -> [Entries -> JobStates]]
        /\ \A k \in Kinds, x \in Entries : jobs[k][x] # "none" => js[k][x] # "none"
    <3>1. jobs \in [Kinds -> [Entries -> JobStates]] /\ "library" \in Kinds
      OBVIOUS
    <3> DEFINE es == one(first)
    <3>2. js = Queue(jobs, "library", es)
      OBVIOUS
    <3> HIDE DEF js, es
    <3> QED BY ONLY <3>1, <3>2, Queued
  <2>4. /\ ks \in [Kinds -> [Entries -> JobStates]]
        /\ \A k \in Kinds, x \in Entries : js[k][x] # "none" => ks[k][x] # "none"
        /\ magnet => ks["magnet"][e] # "none"
    <3>1. "magnet" \in Kinds
      OBVIOUS
    <3> DEFINE es == one(magnet)
    <3>2. ks = Queue(js, "magnet", es) /\ (magnet => e \in es)
      OBVIOUS
    <3> HIDE DEF js, ks, es, magnet
    <3> QED BY ONLY <2>0, <2>3, <3>1, <3>2, Queued
  <2>5. /\ jobs' \in [Kinds -> [Entries -> JobStates]]
        /\ \A k \in Kinds, x \in Entries : ks[k][x] # "none" => jobs'[k][x] # "none"
        /\ rules.release => jobs'["release"][e] # "none"
    <3> DEFINE es == one(rules.release)
    <3>1. "release" \in Kinds /\ jobs' = Queue(ks, "release", es) /\ (rules.release => e \in es)
      BY <2>1
    <3> HIDE DEF ks, es
    <3> QED BY ONLY <2>0, <2>4, <3>1, Queued
  <2>6. LookupsTyped'
    <3> HIDE DEF row
    <3> QED BY <2>1, <2>2, <2>5 DEF LookupsTyped, LookupTypeOK
  <2>7. ASSUME NEW x \in Entries PROVE HasWork(x)'
    <3>1. \A k \in Kinds : jobs[k][x] # "none" => jobs'[k][x] # "none"
      BY <2>3, <2>4, <2>5
    <3>2. CASE x # e
      <4>1. archive'[x] = archive[x]
        BY <2>1, <3>2
      <4> QED BY <1>0, <2>1, <3>1, <4>1, NoWorkLost
    <3>3. CASE x = e
      <4>1. archive'[e] = row
        BY <2>1
      <4>2. /\ archive'[e].release = "pending" => rules.release
            /\ archive'[e].magnet = "pending" => magnet
        BY <4>1
      <4>3. magnet => jobs'["magnet"][e] # "none"
        BY <2>4, <2>5
      <4> HIDE DEF magnet
      <4> QED BY <2>5, <3>3, <4>2, <4>3 DEF HasWork
    <3> QED BY <3>2, <3>3
  <2> QED BY <2>6, <2>7, WorkOfAll DEF HasWork, PendingHasWork
<1>2. ASSUME NEW e \in Entries, NEW held \in BOOLEAN, SyncWrites(e, held)
      PROVE  LookupsTyped' /\ PendingHasWork'
  <2> DEFINE judged == [archive EXCEPT ![e].library = IF held THEN "available" ELSE "not_found"]
  <2>1. /\ archive' = [judged EXCEPT ![e].magnet =
              IF held /\ rules.skip /\ @ # "found" THEN "skipped" ELSE @]
        /\ UNCHANGED <<jobs, worker, rules, ask, stranded>>
    BY <1>2 DEF SyncWrites
  <2>2. /\ judged \in [Entries -> Statuses]
        /\ \A x \in Entries : /\ judged[x].release = archive[x].release
                              /\ judged[x].magnet = archive[x].magnet
    BY DEF Statuses
  <2>3. /\ archive' \in [Entries -> Statuses]
        /\ \A x \in Entries : /\ archive'[x].release = archive[x].release
                              /\ archive'[x].magnet \in {archive[x].magnet, "skipped"}
    <3> HIDE DEF judged
    <3>1. ASSUME NEW x \in Entries, x # e PROVE archive'[x] = judged[x]
      BY <2>1, <2>2, <3>1
    <3>2. archive'[e] = [judged[e] EXCEPT !.magnet =
             IF held /\ rules.skip /\ judged[e].magnet # "found" THEN "skipped" ELSE judged[e].magnet]
      BY <2>1, <2>2
    <3>3. /\ archive'[e] \in Statuses /\ archive'[e].release = judged[e].release
          /\ archive'[e].magnet \in {judged[e].magnet, "skipped"}
      <4>1. judged[e] \in Statuses
        BY <2>2
      <4> QED BY ONLY <3>2, <4>1 DEF Statuses
    <3>4. archive' = [x \in Entries |-> archive'[x]]
      BY <2>1, <2>2
    <3>5. ASSUME NEW x \in Entries
          PROVE  /\ archive'[x] \in Statuses /\ archive'[x].release = archive[x].release
                 /\ archive'[x].magnet \in {archive[x].magnet, "skipped"}
      <4>1. CASE x = e
        BY ONLY <2>2, <3>3, <4>1
      <4>2. CASE x # e
        BY ONLY <2>2, <3>1, <4>2
      <4> QED BY <4>1, <4>2
    <3> QED BY ONLY <3>4, <3>5
  <2>4. LookupsTyped'
    BY <2>1, <2>3 DEF LookupsTyped, LookupTypeOK
  <2>5. ASSUME NEW x \in Entries PROVE HasWork(x)'
    <3>1. /\ archive'[x].release = "pending" => archive[x].release = "pending"
          /\ archive'[x].magnet = "pending" => archive[x].magnet = "pending"
      BY <2>1, <2>3
    <3> QED BY <1>0, <2>1, <3>1, NoWorkLost
  <2> QED BY <2>4, <2>5 DEF HasWork, PendingHasWork
<1>3. ASSUME NEW r \in Rules, ChangeRules(r)
      PROVE  LookupsTyped' /\ PendingHasWork'
  <2>1. /\ rules' = r
        /\ archive' = [e \in Entries |->
             [archive[e] EXCEPT !.release = Forgotten(r, "release", @),
                                !.magnet = Forgotten(r, "magnet", @)]]
        /\ jobs' = [k \in Kinds |-> [e \in Entries |->
             IF k # "library" /\ ~r[k] /\ jobs[k][e] = "queued" THEN "none" ELSE jobs[k][e]]]
        /\ UNCHANGED <<worker, ask, stranded>>
    BY <1>3 DEF ChangeRules
  <2>2. ASSUME NEW e \in Entries
        PROVE  /\ archive'[e] \in Statuses
               /\ archive'[e].release = Forgotten(r, "release", archive[e].release)
               /\ archive'[e].magnet = Forgotten(r, "magnet", archive[e].magnet)
    <3>1. archive[e] \in Statuses
      OBVIOUS
    <3>2. archive'[e] = [archive[e] EXCEPT !.release = Forgotten(r, "release", @),
                                           !.magnet = Forgotten(r, "magnet", @)]
      BY <2>1
    <3> QED BY <3>1, <3>2 DEF Statuses, Forgotten
  <2>3. jobs' \in [Kinds -> [Entries -> JobStates]]
    BY <2>1
  <2>4. LookupsTyped'
    BY <2>1, <2>2, <2>3 DEF LookupsTyped, LookupTypeOK
  <2>5. ASSUME NEW x \in Entries PROVE HasWork(x)'
    <3>1. /\ jobs'["library"][x] = jobs["library"][x]
          /\ r["release"] => jobs'["release"][x] = jobs["release"][x]
          /\ r["magnet"] => jobs'["magnet"][x] = jobs["magnet"][x]
      BY <2>1
    <3>2. /\ archive'[x].release = "pending" => archive[x].release = "pending" /\ r["release"]
          /\ archive'[x].magnet = "pending" => archive[x].magnet = "pending" /\ r["magnet"]
      BY <2>2 DEF Forgotten
    <3>3. HasWork(x) /\ UNCHANGED <<worker, stranded>>
      BY <1>0, <2>1
    <3> QED BY <3>1, <3>2, <3>3 DEF HasWork
  <2> QED BY <2>4, <2>5 DEF HasWork, PendingHasWork
<1>4. ASSUME NEW library \in BOOLEAN, NEW skip \in BOOLEAN, ChangeLibrary(library, skip)
      PROVE  LookupsTyped' /\ PendingHasWork'
  <2>1. /\ rules' = [rules EXCEPT !.library = library, !.skip = skip]
        /\ archive' = [e \in Entries |->
             IF e \in Archived
             THEN [archive[e] EXCEPT !.library = IF library THEN "pending" ELSE "unconfigured"]
             ELSE archive[e]]
        /\ UNCHANGED <<jobs, worker, ask, stranded>>
    BY <1>4 DEF ChangeLibrary
  <2>2. rules' \in Rules
    BY <2>1 DEF Rules
  <2>3. ASSUME NEW e \in Entries
        PROVE  /\ archive'[e] \in Statuses
               /\ archive'[e].release = archive[e].release
               /\ archive'[e].magnet = archive[e].magnet
    <3>1. archive[e] \in Statuses
      OBVIOUS
    <3>2. \/ archive'[e] = archive[e]
          \/ archive'[e] = [archive[e] EXCEPT !.library =
                              IF library THEN "pending" ELSE "unconfigured"]
      BY <2>1
    <3> QED BY <3>1, <3>2 DEF Statuses
  <2>4. LookupsTyped'
    BY <2>1, <2>2, <2>3 DEF LookupsTyped, LookupTypeOK
  <2>5. ASSUME NEW x \in Entries PROVE HasWork(x)'
    BY <1>0, <2>1, <2>3, NoWorkLost
  <2> QED BY <2>4, <2>5 DEF HasWork, PendingHasWork
<1>5. ASSUME NEW es \in SUBSET Entries, AskMagnets(es) \/ AskReleases
      PROVE  LookupsTyped' /\ PendingHasWork'
  <2>1. UNCHANGED <<archive, jobs, worker, rules, stranded>>
    BY <1>5 DEF AskMagnets, AskReleases
  <2>2. ask' \in [kind : {"release", "magnet"}, entries : SUBSET Entries]
    <3>1. CASE AskMagnets(es)
      BY <3>1 DEF AskMagnets
    <3>2. CASE AskReleases
      BY <3>2 DEF AskReleases, Archived
    <3> QED BY <1>5, <3>1, <3>2
  <2>3. LookupsTyped'
    BY <2>1, <2>2 DEF LookupsTyped, LookupTypeOK
  <2> QED BY <2>1, <2>3 DEF PendingHasWork
<1>6. CASE QueueAsked
  <2>1. /\ ask # NoAsk
        /\ archive' = [e \in Entries |->
             IF e \notin ask.entries THEN archive[e]
             ELSE IF ask.kind = "release" THEN [archive[e] EXCEPT !.release = "pending"]
             ELSE [archive[e] EXCEPT !.magnet = "pending"]]
        /\ jobs' = Queue(jobs, ask.kind, ask.entries)
        /\ ask' = NoAsk
        /\ UNCHANGED <<worker, rules, stranded>>
    BY <1>6 DEF QueueAsked
  <2>2. ask.kind \in Kinds /\ NoAsk.kind = "none" /\ NoAsk.entries = {}
    BY <2>1 DEF LookupsTyped, NoAsk
  <2>3. ASSUME NEW e \in Entries
        PROVE  /\ archive'[e] \in Statuses
               /\ IF e \in ask.entries
                  THEN IF ask.kind = "release" THEN archive'[e].magnet = archive[e].magnet
                       ELSE archive'[e].release = archive[e].release
                  ELSE archive'[e] = archive[e]
    <3>1. archive[e] \in Statuses
      OBVIOUS
    <3>2. archive'[e] = IF e \notin ask.entries THEN archive[e]
             ELSE IF ask.kind = "release" THEN [archive[e] EXCEPT !.release = "pending"]
             ELSE [archive[e] EXCEPT !.magnet = "pending"]
      BY <2>1
    <3> QED BY <3>1, <3>2 DEF Statuses
  <2>4. /\ jobs' \in [Kinds -> [Entries -> JobStates]]
        /\ \A l \in Kinds, e \in Entries : jobs[l][e] # "none" => jobs'[l][e] # "none"
        /\ \A e \in Entries : e \in ask.entries => jobs'[ask.kind][e] # "none"
    BY <2>1, <2>2, Queued
  <2>5. LookupsTyped'
    BY <2>1, <2>2, <2>3, <2>4 DEF LookupsTyped, LookupTypeOK, NoAsk
  <2>6. ASSUME NEW x \in Entries PROVE HasWork(x)'
    <3>1. CASE x \notin ask.entries
      BY <1>0, <2>1, <2>3, <2>4, <3>1, NoWorkLost
    <3>2. CASE x \in ask.entries /\ ask.kind = "release"
      BY <1>0, <2>1, <2>3, <2>4, <3>2 DEF HasWork
    <3>3. CASE x \in ask.entries /\ ask.kind # "release"
      BY <1>0, <2>1, <2>2, <2>3, <2>4, <3>3 DEF HasWork
    <3> QED BY <3>1, <3>2, <3>3
  <2> QED BY <2>5, <2>6 DEF HasWork, PendingHasWork
<1> QED BY <1>1, <1>2, <1>3, <1>4, <1>5, <1>6

\* The end of an execution leaves the other entries with their work.
LEMMA EndsParts ==
  ASSUME LookupsTyped, PendingHasWork, NEW k \in Kinds, NEW e \in Entries, NEW entry \in Statuses,
         NEW js \in [Kinds -> [Entries -> JobStates]], Ends(k, e, entry, js),
         stranded \subseteq stranded', stranded' \subseteq Kinds \X Entries,
         \A l \in Kinds, x \in Entries : x # e /\ jobs[l][x] # "none" => js[l][x] # "none"
  PROVE  /\ LookupsTyped'
         /\ archive'[e] = entry /\ jobs' = js
         /\ worker["release"].pc = "marked" => worker'["release"] = worker["release"]
         /\ HasWork(e)' => PendingHasWork'
<1> USE LookupParts
<1>0. \A x \in Entries : HasWork(x)
  BY WorkOfAll
<1>1. /\ Works(k, e) /\ jobs' = js /\ archive' = [archive EXCEPT ![e] = entry]
      /\ worker' = [worker EXCEPT ![k] = Idle] /\ UNCHANGED <<rules, ask>>
  BY DEF Ends
<1>2. /\ worker' \in [Kinds -> [pc : {"idle", "working", "marked"},
                                entry : Entries \cup {"none"}, seen : BOOLEAN]]
      /\ \A l \in Kinds : worker'[l].pc # "idle" => worker'[l].entry \in Entries
  BY <1>1 DEF Idle
<1>3. LookupsTyped'
  BY <1>1, <1>2 DEF LookupsTyped, LookupTypeOK
<1>4. worker["release"].pc = "marked" => worker'["release"] = worker["release"]
  <2>1. k = "release" => worker["release"].pc = "working"
    BY <1>1 DEF Works
  <2> QED BY <1>1, <2>1
<1>5. archive'[e] = entry
  BY <1>1
<1>6. ASSUME NEW x \in Entries, x # e PROVE HasWork(x)'
  <2>1. archive'[x] = archive[x]
    BY <1>1, <1>6
  <2> QED BY <1>0, <1>1, <1>4, <1>6, <2>1, NoWorkLost
<1>7. HasWork(e)' => PendingHasWork'
  BY <1>6 DEF HasWork, PendingHasWork
<1> QED BY <1>1, <1>3, <1>4, <1>5, <1>7

LEMMA DeathKeepsWork ==
  ASSUME LookupsTyped, PendingHasWork, EngineDies
  PROVE  LookupsTyped' /\ PendingHasWork'
<1> USE LookupParts
<1>0. \A x \in Entries : HasWork(x)
  BY WorkOfAll
<1> DEFINE marked == IF worker["release"].pc = "marked" THEN {<<"release", worker["release"].entry>>} ELSE {}
           asking == {<<"library", e>> : e \in {x \in Entries : jobs["library"][x] = "running"}}
<1>1. /\ worker' = [k \in Kinds |-> Idle] /\ UNCHANGED <<archive, jobs, rules, ask>>
      /\ stranded' = (stranded \cup asking) \cup marked
  BY DEF EngineDies
<1>2. marked \subseteq Kinds \X Entries
  OBVIOUS
<1>3. asking \subseteq Kinds \X Entries
  OBVIOUS
<1>4. /\ worker' \in [Kinds -> [pc : {"idle", "working", "marked"},
                                entry : Entries \cup {"none"}, seen : BOOLEAN]]
      /\ \A l \in Kinds : worker'[l].pc # "idle" => worker'[l].entry \in Entries
  BY <1>1 DEF Idle
<1>5. stranded \subseteq stranded' /\ stranded' \subseteq Kinds \X Entries
  <2> HIDE DEF marked, asking
  <2> QED BY <1>1, <1>2, <1>3
<1>6. LookupsTyped'
  BY <1>1, <1>4, <1>5 DEF LookupsTyped, LookupTypeOK
<1>7. \A x \in Entries : worker["release"].pc = "marked" /\ worker["release"].entry = x
                           => <<"release", x>> \in stranded'
  <2> HIDE DEF asking
  <2> QED BY <1>1
<1>8. ASSUME NEW x \in Entries PROVE HasWork(x)'
  <2> HIDE DEF marked, asking
  <2>1. UNCHANGED <<archive, jobs>>
    BY <1>1
  <2> QED BY <1>0, <1>5, <1>7, <2>1 DEF HasWork
<1> QED BY <1>6, <1>8 DEF HasWork, PendingHasWork

\* What is claimed, swept, marked and queued.
LEMMA QueueKeepsWork ==
  ASSUME LookupsTyped, PendingHasWork,
         \/ \E k \in Kinds, e \in Entries : Claim(k, e) \/ Sweep(k, e)
         \/ \E e \in Entries : MarkUnsearched(e)
         \/ QueueMarked
  PROVE  LookupsTyped' /\ PendingHasWork'
<1> USE LookupParts
<1>0. \A x \in Entries : HasWork(x)
  BY WorkOfAll
<1>1. ASSUME NEW k \in Kinds, NEW e \in Entries, Claim(k, e)
      PROVE  LookupsTyped' /\ PendingHasWork'
  <2>1. /\ jobs' = WithJob(jobs, k, e, "running")
        /\ worker[k] = Idle
        /\ worker' = [worker EXCEPT ![k] = [pc |-> "working", entry |-> e, seen |-> Seen(k, e)]]
        /\ UNCHANGED <<archive, rules, ask, stranded>>
    BY <1>1 DEF Claim
  <2>2. Seen(k, e) \in BOOLEAN
    <3>1. k # "library" => rules[k] \in BOOLEAN
      BY DEF Rules
    <3> QED BY <3>1 DEF Seen
  <2>3. /\ jobs' \in [Kinds -> [Entries -> JobStates]]
        /\ \A l \in Kinds, x \in Entries : jobs[l][x] # "none" => jobs'[l][x] # "none"
    <3>1. k \in Kinds /\ e \in Entries /\ jobs \in [Kinds -> [Entries -> JobStates]] /\ "running" \in JobStates
      OBVIOUS
    <3>2. jobs' = WithJob(jobs, k, e, "running")
      BY <2>1
    <3> DEFINE js == WithJob(jobs, k, e, "running")
    <3>3. /\ js \in [Kinds -> [Entries -> JobStates]]
          /\ \A l \in Kinds, x \in Entries : jobs[l][x] # "none" => js[l][x] # "none"
      BY ONLY <3>1 DEF WithJob, JobStates
    <3> HIDE DEF js
    <3> QED BY ONLY <3>2, <3>3 DEF js
  <2>4. /\ worker' \in [Kinds -> [pc : {"idle", "working", "marked"},
                                  entry : Entries \cup {"none"}, seen : BOOLEAN]]
        /\ \A l \in Kinds : worker'[l].pc # "idle" => worker'[l].entry \in Entries
    BY <2>1, <2>2
  <2>5. worker["release"].pc = "marked" => worker'["release"] = worker["release"]
    BY <2>1 DEF Idle
  <2>6. LookupsTyped'
    BY <2>1, <2>3, <2>4 DEF LookupsTyped, LookupTypeOK
  <2>7. ASSUME NEW x \in Entries PROVE HasWork(x)'
    BY <1>0, <2>1, <2>3, <2>5, NoWorkLost
  <2> QED BY <2>6, <2>7 DEF HasWork, PendingHasWork
<1>2. ASSUME NEW k \in Kinds, NEW e \in Entries, Sweep(k, e)
      PROVE  LookupsTyped' /\ PendingHasWork'
  <2>1. /\ jobs' = WithJob(jobs, k, e, "queued")
        /\ UNCHANGED <<archive, worker, rules, ask, stranded>>
    BY <1>2 DEF Sweep
  <2>2. /\ jobs' \in [Kinds -> [Entries -> JobStates]]
        /\ \A l \in Kinds, x \in Entries : jobs[l][x] # "none" => jobs'[l][x] # "none"
    <3>1. k \in Kinds /\ e \in Entries /\ jobs \in [Kinds -> [Entries -> JobStates]] /\ "queued" \in JobStates
      OBVIOUS
    <3>2. jobs' = WithJob(jobs, k, e, "queued")
      BY <2>1
    <3> DEFINE js == WithJob(jobs, k, e, "queued")
    <3>3. /\ js \in [Kinds -> [Entries -> JobStates]]
          /\ \A l \in Kinds, x \in Entries : jobs[l][x] # "none" => js[l][x] # "none"
      BY ONLY <3>1 DEF WithJob, JobStates
    <3> HIDE DEF js
    <3> QED BY ONLY <3>2, <3>3 DEF js
  <2>3. LookupsTyped'
    BY <2>1, <2>2 DEF LookupsTyped, LookupTypeOK
  <2>4. ASSUME NEW x \in Entries PROVE HasWork(x)'
    BY <1>0, <2>1, <2>2, NoWorkLost
  <2> QED BY <2>3, <2>4 DEF HasWork, PendingHasWork
<1>3. ASSUME NEW e \in Entries, MarkUnsearched(e)
      PROVE  LookupsTyped' /\ PendingHasWork'
  <2>1. /\ worker["release"] = Idle
        /\ \/ /\ archive' = [archive EXCEPT ![e].release = "pending"]
              /\ worker' = [worker EXCEPT !["release"] = [pc |-> "marked", entry |-> e, seen |-> TRUE]]
           \/ /\ archive' = [archive EXCEPT ![e].release = "unavailable"]
              /\ UNCHANGED worker
        /\ UNCHANGED <<jobs, rules, ask, stranded>>
    BY <1>3 DEF MarkUnsearched
  <2> DEFINE Pending == /\ archive' = [archive EXCEPT ![e].release = "pending"]
                        /\ worker' = [worker EXCEPT !["release"] =
                                        [pc |-> "marked", entry |-> e, seen |-> TRUE]]
             Unavailable == /\ archive' = [archive EXCEPT ![e].release = "unavailable"]
                            /\ UNCHANGED worker
  <2>0. Pending \/ Unavailable
    BY <2>1
  <2>2. /\ worker' \in [Kinds -> [pc : {"idle", "working", "marked"},
                                  entry : Entries \cup {"none"}, seen : BOOLEAN]]
        /\ \A l \in Kinds : worker'[l].pc # "idle" => worker'[l].entry \in Entries
    <3>1. CASE Pending
      BY <3>1
    <3>2. CASE Unavailable
      BY <3>2
    <3> QED BY <2>0, <3>1, <3>2
  <2>3. /\ archive' \in [Entries -> Statuses]
        /\ \A x \in Entries : /\ x # e => archive'[x] = archive[x]
                              /\ archive'[x].magnet = archive[x].magnet
    <3>0. archive[e] \in Statuses
      OBVIOUS
    <3> DEFINE Writes(s) == archive' = [archive EXCEPT ![e] = [archive[e] EXCEPT !.release = s]]
    <3>1. ASSUME NEW s \in {"pending", "unavailable"}, Writes(s)
          PROVE  /\ archive' \in [Entries -> Statuses]
                 /\ \A x \in Entries : /\ x # e => archive'[x] = archive[x]
                                       /\ archive'[x].magnet = archive[x].magnet
      BY <3>0, <3>1 DEF Statuses
    <3>2. Writes("pending") \/ Writes("unavailable")
      BY <2>1
    <3> HIDE DEF Writes
    <3> QED BY <3>1, <3>2
  <2>4. LookupsTyped'
    BY <2>1, <2>2, <2>3 DEF LookupsTyped, LookupTypeOK
  <2>5. archive'[e].release = "pending" => worker'["release"].pc = "marked" /\ worker'["release"].entry = e
    <3>1. CASE Pending
      BY <3>1
    <3>2. ASSUME Unavailable PROVE archive'[e].release # "pending"
      BY <3>2 DEF Statuses
    <3> QED BY <2>0, <3>1, <3>2
  <2>6. ASSUME NEW x \in Entries PROVE HasWork(x)'
    <3>1. worker["release"].pc # "marked"
      BY <2>1 DEF Idle
    <3> QED BY <1>0, <2>1, <2>3, <2>5, <3>1 DEF HasWork
  <2> QED BY <2>4, <2>6 DEF HasWork, PendingHasWork
<1>4. CASE QueueMarked
  <2> DEFINE e == worker["release"].entry
             es == {e}
  <2>1. /\ e \in Entries
        /\ jobs' = Queue(jobs, "release", es)
        /\ worker' = [worker EXCEPT !["release"] = Idle]
        /\ UNCHANGED <<archive, rules, ask, stranded>>
    BY <1>4 DEF QueueMarked
  <2>2. "release" \in Kinds /\ jobs \in [Kinds -> [Entries -> JobStates]] /\ e \in es
    OBVIOUS
  <2>3. /\ jobs' \in [Kinds -> [Entries -> JobStates]]
        /\ \A l \in Kinds, x \in Entries : jobs[l][x] # "none" => jobs'[l][x] # "none"
        /\ jobs'["release"][e] # "none"
    <3> HIDE DEF e, es
    <3> QED BY ONLY <2>1, <2>2, Queued
  <2>4. /\ worker' \in [Kinds -> [pc : {"idle", "working", "marked"},
                                  entry : Entries \cup {"none"}, seen : BOOLEAN]]
        /\ \A l \in Kinds : worker'[l].pc # "idle" => worker'[l].entry \in Entries
    BY <2>1 DEF Idle
  <2>5. LookupsTyped'
    BY <2>1, <2>3, <2>4 DEF LookupsTyped, LookupTypeOK
  <2>6. ASSUME NEW x \in Entries PROVE HasWork(x)'
    <3>1. HasWork(x) /\ (x = e => jobs'["release"][x] # "none")
      BY <1>0, <2>3
    <3>2. UNCHANGED <<archive, stranded>> /\ \A l \in Kinds : jobs[l][x] # "none" => jobs'[l][x] # "none"
      BY <2>1, <2>3
    <3>3. Kinds = {"release", "library", "magnet"}
      OBVIOUS
    <3> QED BY ONLY <3>1, <3>2, <3>3 DEF HasWork
  <2> QED BY <2>5, <2>6 DEF HasWork, PendingHasWork
<1> QED BY <1>1, <1>2, <1>3, <1>4

\* The release and magnet workers settle their own lookup or queue it again.
LEMMA LookupEndsKeepWork ==
  ASSUME LookupsTyped, PendingHasWork, NEW e \in Entries,
         \/ ReleaseEnds(e) \/ MagnetNotFound(e) \/ MagnetFound(e)
         \/ \E retry \in BOOLEAN : ReleaseFails(e, retry) \/ MagnetFails(e, retry)
  PROVE  LookupsTyped' /\ PendingHasWork'
<1> DEFINE Settled(k, entry, state) ==
             /\ Ends(k, e, entry, WithJob(jobs, k, e, state)) /\ UNCHANGED stranded
<1>1. ASSUME NEW k \in {"release", "magnet"}, NEW state \in {"none", "queued"},
             NEW status \in {"unsearched", "pending", "found", "unavailable", "not_found", "failed"},
             status = "pending" => state = "queued",
             \/ k = "release" /\ status # "not_found"
                /\ Settled(k, [archive[e] EXCEPT !.release = status], state)
             \/ k = "magnet" /\ status # "unavailable"
                /\ Settled(k, [archive[e] EXCEPT !.magnet = status], state)
      PROVE  LookupsTyped' /\ PendingHasWork'
  <2> DEFINE entry == IF k = "release" THEN [archive[e] EXCEPT !.release = status]
                                       ELSE [archive[e] EXCEPT !.magnet = status]
             js == WithJob(jobs, k, e, state)
  <2>1. Ends(k, e, entry, js) /\ stranded' = stranded
    BY <1>1
  <2>2. archive[e] \in Statuses /\ k \in Kinds /\ stranded \subseteq Kinds \X Entries
    BY LookupParts
  <2>3. /\ entry \in Statuses
        /\ k = "release" => entry.release = status /\ entry.magnet = archive[e].magnet
        /\ k = "magnet" => entry.magnet = status /\ entry.release = archive[e].release
    BY <1>1, <2>2 DEF Statuses
  <2>4. /\ js \in [Kinds -> [Entries -> JobStates]]
        /\ \A l \in Kinds : l # k => js[l] = jobs[l]
        /\ \A x \in Entries : x # e => js[k][x] = jobs[k][x]
        /\ js[k][e] = state
    <3>1. jobs \in [Kinds -> [Entries -> JobStates]] /\ state \in JobStates
      BY LookupParts DEF JobStates
    <3> QED BY ONLY <2>2, <3>1 DEF WithJob
  <2> HIDE DEF entry, js, Settled
  <2>5. \A l \in Kinds, x \in Entries : x # e /\ jobs[l][x] # "none" => js[l][x] # "none"
    BY <2>4
  <2>6. /\ LookupsTyped' /\ archive'[e] = entry /\ jobs' = js
        /\ worker["release"].pc = "marked" => worker'["release"] = worker["release"]
        /\ HasWork(e)' => PendingHasWork'
    BY ONLY LookupsTyped, PendingHasWork, <2>1, <2>2, <2>3, <2>4, <2>5, EndsParts
  <2>7. HasWork(e)
    BY WorkOfAll
  <2>8. k = "release" => worker["release"].pc # "marked"
    BY <2>1 DEF Ends, Works
  <2>9. HasWork(e)'
    BY ONLY <1>1, <2>1, <2>3, <2>4, <2>6, <2>7, <2>8 DEF HasWork, Kinds
  <2> QED BY <2>6, <2>9
<1> HIDE DEF Settled
<1>2. CASE ReleaseEnds(e)
  <2>1. PICK status \in {"found", "unavailable", "unsearched"} :
          Settled("release", [archive[e] EXCEPT !.release = status], "none")
    BY <1>2 DEF ReleaseEnds, Settled
  <2> QED BY <1>1, <2>1
<1>3. CASE MagnetNotFound(e)
  <2>1. PICK status \in {"not_found", "unsearched"} :
          Settled("magnet", [archive[e] EXCEPT !.magnet = status], "none")
    BY <1>3 DEF MagnetNotFound, Settled
  <2> QED BY <1>1, <2>1
<1>4. CASE MagnetFound(e)
  <2>1. Settled("magnet", [archive[e] EXCEPT !.magnet = "found"], "none")
    BY <1>4 DEF MagnetFound, Settled
  <2> QED BY <1>1, <2>1
<1>5. ASSUME NEW retry \in BOOLEAN, ReleaseFails(e, retry) PROVE LookupsTyped' /\ PendingHasWork'
  <2>1. \/ Settled("release", [archive[e] EXCEPT !.release = "pending"], "queued")
        \/ Settled("release", [archive[e] EXCEPT !.release = "failed"], "none")
    BY <1>5 DEF ReleaseFails, Settled
  <2> QED BY <1>1, <2>1
<1>6. ASSUME NEW retry \in BOOLEAN, MagnetFails(e, retry) PROVE LookupsTyped' /\ PendingHasWork'
  <2>1. \/ Settled("magnet", [archive[e] EXCEPT !.magnet = "pending"], "queued")
        \/ Settled("magnet", [archive[e] EXCEPT !.magnet = "failed"], "none")
    BY <1>6 DEF MagnetFails, Settled
  <2> QED BY <1>1, <2>1
<1> QED BY <1>2, <1>3, <1>4, <1>5, <1>6

\* The library worker sends the entry on to the magnets, asks again, or ends
\* a lookup that contradicts a confirmed match.
LEMMA LibraryKeepsWork ==
  ASSUME LookupsTyped, PendingHasWork, NEW e \in Entries,
         LibraryMatches(e) \/ LibraryMisses(e) \/ LibraryFails(e) \/ LibraryRetries(e)
  PROVE  LookupsTyped' /\ PendingHasWork'
<1> DEFINE done == WithJob(jobs, "library", e, "none")
           again == WithJob(jobs, "library", e, "queued")
           next == Queue(done, "magnet", {e})
<1>1. /\ archive[e] \in Statuses /\ "library" \in Kinds /\ "magnet" \in Kinds
      /\ stranded \subseteq Kinds \X Entries /\ jobs \in [Kinds -> [Entries -> JobStates]]
      /\ Kinds = {"release", "library", "magnet"}
  BY LookupParts
<1>2. HasWork(e)
  BY WorkOfAll
<1>3. /\ done \in [Kinds -> [Entries -> JobStates]]
      /\ \A l \in Kinds : l # "library" => done[l] = jobs[l]
      /\ \A x \in Entries : x # e => done["library"][x] = jobs["library"][x]
  BY ONLY <1>1 DEF WithJob, JobStates
<1>4. /\ again \in [Kinds -> [Entries -> JobStates]]
      /\ \A l \in Kinds : l # "library" => again[l] = jobs[l]
      /\ \A x \in Entries : x # e => again["library"][x] = jobs["library"][x]
      /\ again["library"][e] # "none"
  BY ONLY <1>1 DEF WithJob, JobStates
<1>5. /\ next \in [Kinds -> [Entries -> JobStates]]
      /\ \A l \in Kinds : l # "magnet" => next[l] = done[l]
      /\ \A x \in Entries : done["magnet"][x] # "none" => next["magnet"][x] # "none"
      /\ next["magnet"][e] # "none"
  <2> DEFINE es == {e}
  <2>1. e \in es /\ next = Queue(done, "magnet", es)
    OBVIOUS
  <2> HIDE DEF done, next, es
  <2> QED BY ONLY <1>1, <1>3, <2>1, Queued
<1> HIDE DEF done, again, next
<1>6. ASSUME NEW js \in {done, again, next}
      PROVE  /\ js \in [Kinds -> [Entries -> JobStates]] /\ js["release"] = jobs["release"]
             /\ jobs["magnet"][e] # "none" => js["magnet"][e] # "none"
             /\ \A l \in Kinds, x \in Entries : x # e /\ jobs[l][x] # "none" => js[l][x] # "none"
  BY ONLY <1>1, <1>3, <1>4, <1>5, <1>6
\* An execution that writes "entry" and leaves the jobs "js".
<1> DEFINE Writes(entry, js) ==
             /\ Ends("library", e, entry, js) /\ stranded \subseteq stranded'
             /\ stranded' \subseteq Kinds \X Entries /\ entry.release = archive[e].release
             /\ entry.magnet = "pending" => \/ js["magnet"][e] # "none" \/ js["library"][e] # "none"
                                            \/ <<"library", e>> \in stranded'
<1>7. ASSUME NEW js \in {done, again, next}, NEW entry \in Statuses, Writes(entry, js)
      PROVE  LookupsTyped' /\ PendingHasWork'
  <2>1. /\ LookupsTyped' /\ archive'[e] = entry /\ jobs' = js
        /\ worker["release"].pc = "marked" => worker'["release"] = worker["release"]
        /\ HasWork(e)' => PendingHasWork'
    <3>1. /\ Ends("library", e, entry, js) /\ entry \in Statuses
          /\ stranded \subseteq stranded' /\ stranded' \subseteq Kinds \X Entries
      BY <1>7
    <3>2. /\ js \in [Kinds -> [Entries -> JobStates]] /\ "library" \in Kinds
          /\ \A l \in Kinds, x \in Entries : x # e /\ jobs[l][x] # "none" => js[l][x] # "none"
      BY <1>1, <1>6
    <3> QED BY ONLY LookupsTyped, PendingHasWork, <3>1, <3>2, EndsParts
  <2>2. HasWork(e)'
    BY ONLY <1>2, <1>6, <1>7, <2>1 DEF HasWork
  <2> QED BY <2>1, <2>2
<1>8. CASE LibraryMatches(e)
  <2> DEFINE entry == [archive[e] EXCEPT !.library = "available",
                                         !.magnet = IF rules.skip THEN "skipped" ELSE @]
             js == IF rules.skip THEN done ELSE next
  <2>1. Ends("library", e, entry, js) /\ UNCHANGED stranded
    BY <1>8 DEF LibraryMatches, done, next
  <2>2. /\ entry \in Statuses /\ entry.release = archive[e].release
        /\ rules.skip => entry.magnet = "skipped"
    BY <1>1 DEF Statuses
  <2>3. js \in {done, again, next} /\ (~rules.skip => js = next)
    OBVIOUS
  <2> HIDE DEF entry, js
  <2>4. Writes(entry, js)
    BY <1>1, <1>5, <2>1, <2>2, <2>3
  <2> HIDE DEF Writes
  <2> QED BY <1>7, <2>2, <2>3, <2>4
<1>9. ASSUME NEW status \in {"not_found", "failed"}, GoesOn(e, status)
      PROVE  LookupsTyped' /\ PendingHasWork'
  <2>1. CASE worker["library"].seen
    <3>1. /\ Ends("library", e, archive[e], done)
          /\ stranded' = stranded \cup {<<"library", e>>}
      BY <1>9, <2>1 DEF GoesOn, done
    <3>2. Writes(archive[e], done)
      BY <1>1, <3>1
    <3> HIDE DEF Writes
    <3> QED BY <1>1, <1>7, <3>2
  <2>2. CASE ~worker["library"].seen
    <3> DEFINE entry == [archive[e] EXCEPT !.library = status, !.magnet = "pending"]
    <3>1. Ends("library", e, entry, next) /\ UNCHANGED stranded
      BY <1>9, <2>2 DEF GoesOn, MagnetNext, done, next
    <3>2. entry \in Statuses /\ entry.release = archive[e].release
      BY <1>1 DEF Statuses
    <3> HIDE DEF entry
    <3>3. Writes(entry, next)
      BY <1>1, <1>5, <3>1, <3>2
    <3> HIDE DEF Writes
    <3> QED BY <1>7, <3>2, <3>3
  <2> QED BY <2>1, <2>2
<1>10. CASE LibraryRetries(e)
  <2> DEFINE entry == IF worker["library"].seen THEN archive[e]
                      ELSE [archive[e] EXCEPT !.library = "failed", !.magnet = "pending"]
  <2>1. Ends("library", e, entry, again) /\ UNCHANGED stranded
    BY <1>10 DEF LibraryRetries, again
  <2>2. entry \in Statuses /\ entry.release = archive[e].release
    BY <1>1 DEF Statuses
  <2> HIDE DEF entry
  <2>3. Writes(entry, again)
    BY <1>1, <1>4, <2>1, <2>2
  <2> HIDE DEF Writes
  <2> QED BY <1>7, <2>2, <2>3
<1>11. LibraryMisses(e) => GoesOn(e, "not_found")
  BY DEF LibraryMisses
<1>12. LibraryFails(e) => GoesOn(e, "failed")
  BY DEF LibraryFails
<1> HIDE DEF Writes
<1> QED BY <1>8, <1>9, <1>10, <1>11, <1>12

LEMMA LookupsKeepWork ==
  ASSUME LookupsTyped, PendingHasWork, LookupStep
  PROVE  LookupsTyped' /\ PendingHasWork'
<1>1. CASE UNCHANGED lookupVars
  BY <1>1 DEF lookupVars, LookupsTyped, LookupTypeOK, Works, PendingHasWork
<1>2. CASE EngineDies
  BY <1>2, DeathKeepsWork
<1>3. ASSUME NEW e \in Entries, MagnetFound(e) PROVE LookupsTyped' /\ PendingHasWork'
  BY <1>3, LookupEndsKeepWork
<1>4. ASSUME NEW k \in Kinds, WorkerEnds(k) PROVE LookupsTyped' /\ PendingHasWork'
  <2>1. PICK e \in Entries : \/ ReleaseEnds(e) \/ MagnetNotFound(e) \/ LibraryMatches(e)
                             \/ LibraryMisses(e) \/ LibraryFails(e)
    BY <1>4 DEF WorkerEnds
  <2> QED BY <2>1, LookupEndsKeepWork, LibraryKeepsWork
<1>5. CASE LookupNext
  <2>1. CASE \/ \E e \in Entries, suppressed \in BOOLEAN : Capture(e, suppressed)
             \/ \E e \in Entries, held \in BOOLEAN : SyncWrites(e, held)
             \/ \E r \in Rules : ChangeRules(r)
             \/ \E library, skip \in BOOLEAN : ChangeLibrary(library, skip)
             \/ \E es \in SUBSET Entries : AskMagnets(es)
             \/ AskReleases \/ QueueAsked
    BY ONLY LookupsTyped, PendingHasWork, <2>1, RequestsKeepWork
  <2>2. CASE \/ \E k \in Kinds, e \in Entries : Claim(k, e) \/ Sweep(k, e)
             \/ \E e \in Entries : MarkUnsearched(e)
             \/ QueueMarked
    BY ONLY LookupsTyped, PendingHasWork, <2>2, QueueKeepsWork
  <2>3. ASSUME NEW e \in Entries, LibraryFails(e) \/ LibraryRetries(e)
        PROVE  LookupsTyped' /\ PendingHasWork'
    BY <2>3, LibraryKeepsWork
  <2>4. ASSUME NEW e \in Entries, NEW retry \in BOOLEAN, ReleaseFails(e, retry) \/ MagnetFails(e, retry)
        PROVE  LookupsTyped' /\ PendingHasWork'
    BY <2>4, LookupEndsKeepWork
  <2> QED BY ONLY <1>4, <1>5, <2>1, <2>2, <2>3, <2>4 DEF LookupNext
<1> QED BY <1>1, <1>2, <1>3, <1>5 DEF LookupStep

LEMMA LookupsBegin == ASSUME Init PROVE LookupsTyped /\ PendingHasWork
<1>1. LookupInit
  BY DEF Init
<1>2. archive \in [Entries -> Statuses] /\ \A e \in Entries : archive[e] = Absent
  BY <1>1 DEF LookupInit, Absent, Statuses
<1>3. LookupsTyped
  BY <1>1, <1>2, RulesAssumption
     DEF LookupInit, LookupsTyped, LookupTypeOK, Idle, NoAsk, JobStates
<1>4. PendingHasWork
  BY <1>2 DEF PendingHasWork, Absent
<1> QED BY <1>3, <1>4

(* What an entry shows as pending has a row that will be executed          *)
(* (release-worker.ts:51, library-worker.ts:127), but for the entries that *)
(* a death of the engine or a contradicted match strands.                  *)
THEOREM PendingIsWorkedOn == Spec => []PendingHasWork
<1>1. Init => LookupsTyped /\ PendingHasWork
  BY LookupsBegin
<1>2. LookupsTyped /\ PendingHasWork /\ [Next]_vars => LookupsTyped' /\ PendingHasWork'
  BY StepOfParts, LookupsKeepWork
<1> QED BY <1>1, <1>2, PTL DEF Spec

-----------------------------------------------------------------------------
(* The downloads.                                                          *)

Observers ==
  [pc : {"idle", "ask", "filter", "start", "stop", "write"}, rows : [Entries -> Row],
   tracked : SUBSET Entries, seen : [Entries -> Torrent], plans : SUBSET Entries,
   pending : SUBSET Entries, stopped : SUBSET Entries]

DownloadsTyped ==
  /\ DownloadTypeOK
  /\ observer \in Observers
  /\ \A e \in observer.tracked : observer.rows[e].status \in Tracked
  /\ click \in [rows : SUBSET Entries, filtered : SUBSET Entries]
  /\ sender.pc # "idle" => sender.entry \in Entries /\ submit[sender.entry] = "running"

\* A followed entry, or one that the observer took for it, may be announced.
Followed(e) ==
  \/ download[e].status \in Tracked
  \/ observer.pc # "idle" /\ observer.rows[e].status \in Tracked

\* The announcement of a cycle is still with the job, or with the followed
\* entry that came of it, or was made.
Owed(e) ==
  notices[e] + (IF submit[e] # "none" THEN 1 ELSE 0) + (IF Followed(e) THEN 1 ELSE 0) <= cycles[e]

Safe(t) == t.stage /\ t.state \in {"loading", "halted", "seeding", "done"} => ~t.small

\* What is about to be started has its small files excluded, if it is staged.
Harmless(e) ==
  /\ Safe(torrents[e])
  /\ observer.pc = "start" /\ e \in observer.plans
       => torrents[e].state # "none" /\ (torrents[e].stage => ~torrents[e].small)

DownloadInv == DownloadsTyped /\ \A e \in Entries : Owed(e) /\ Harmless(e)

LEMMA DownloadParts ==
  ASSUME DownloadsTyped
  PROVE  /\ download \in [Entries -> Row]
         /\ submit \in [Entries -> {"none", "queued", "running"}]
         /\ sender \in [pc : {"idle", "working", "sent"}, entry : Entries \cup {"none"},
                        refilter : BOOLEAN, keep : BOOLEAN]
         /\ observer \in Observers /\ missed \subseteq Entries
         /\ click.filtered \subseteq click.rows /\ click.rows \subseteq Entries
         /\ torrents \in [Entries -> Torrent] /\ options \in Options
         /\ notices \in [Entries -> Nat] /\ cycles \in [Entries -> Nat]
         /\ click \in [rows : SUBSET Entries, filtered : SUBSET Entries]
         /\ observer.rows \in [Entries -> Row] /\ observer.seen \in [Entries -> Torrent]
         /\ observer.tracked \subseteq Entries
         /\ \A e \in observer.tracked : observer.rows[e].status \in Tracked
         /\ \A e \in Entries : /\ download[e] \in Row /\ torrents[e] \in Torrent
                               /\ notices[e] \in Nat /\ cycles[e] \in Nat
                               /\ observer.rows[e] \in Row /\ observer.seen[e] \in Torrent
  BY DEF DownloadsTyped, DownloadTypeOK, Observers

\* A step that queues, announces and follows nothing new for an entry.
LEMMA OwedKept ==
  ASSUME DownloadsTyped, NEW e \in Entries, Owed(e),
         notices'[e] = notices[e], cycles'[e] = cycles[e],
         submit'[e] # "none" => submit[e] # "none", Followed(e)' => Followed(e)
  PROVE  Owed(e)'
<1>1. notices[e] \in Nat /\ cycles[e] \in Nat
  BY DownloadParts
<1> HIDE DEF Followed
<1> QED BY <1>1 DEF Owed

\* qBittorrent acts on one torrent.
LEMMA OneTorrent ==
  ASSUME DownloadInv, NEW e \in Entries, NEW t \in Torrent, Safe(t),
         torrents' = [torrents EXCEPT ![e] = t],
         UNCHANGED observer,
         observer.pc = "start" /\ e \in observer.plans
           => t.state # "none" /\ (t.stage => ~t.small)
  PROVE  torrents' \in [Entries -> Torrent] /\ \A x \in Entries : Harmless(x)'
<1>1. torrents \in [Entries -> Torrent]
  BY DownloadParts DEF DownloadInv
<1>2. ASSUME NEW x \in Entries PROVE Harmless(x)'
  <2>1. torrents'[x] = IF x = e THEN t ELSE torrents[x]
    BY <1>1
  <2>2. Harmless(x)
    BY DEF DownloadInv
  <2> QED BY <2>1, <2>2 DEF Harmless
<1> QED BY <1>1, <1>2

LEMMA OnlyTorrents ==
  ASSUME DownloadInv, torrents' \in [Entries -> Torrent], \A e \in Entries : Harmless(e)',
         UNCHANGED <<download, submit, sender, observer, missed, click, options, notices, cycles>>
  PROVE  DownloadInv'
<1>1. DownloadsTyped'
  BY DEF DownloadInv, DownloadsTyped, DownloadTypeOK
<1>2. \A e \in Entries : Owed(e)'
  BY DEF DownloadInv, Owed, Followed
<1> QED BY <1>1, <1>2 DEF DownloadInv

LEMMA StartedTyped ==
  \A state \in TorrentStates :
    /\ Started(state) \in TorrentStates
    /\ state # "none" => Started(state) # "none"
    /\ Started(state) \in {"loading", "halted", "seeding", "done"}
         => state \in {"staged", "loading", "halted", "seeding", "done"}
  BY DEF Started, TorrentStates

LEMMA QbittorrentIsHarmless ==
  ASSUME DownloadInv, NEW e \in Entries,
         Proceeds(e) \/ Pauses(e) \/ Resumes(e) \/ Deletes(e)
  PROVE  DownloadInv'
<1> DEFINE t == torrents[e]
           Rest == UNCHANGED <<download, submit, sender, observer, missed, click, options,
                               notices, cycles>>
<1>1. t \in Torrent /\ Safe(t) /\ Harmless(e)
  BY DownloadParts DEF DownloadInv, Harmless
<1>2. torrents \in [Entries -> Torrent]
  BY DownloadParts DEF DownloadInv
<1>3. ASSUME NEW u \in Torrent, torrents' = [torrents EXCEPT ![e] = u], Safe(u), Rest,
             observer.pc = "start" /\ e \in observer.plans
               => u.state # "none" /\ (u.stage => ~u.small)
      PROVE  DownloadInv'
  BY <1>3, OneTorrent, OnlyTorrents
<1>4. ASSUME NEW state \in TorrentStates \ {"none"}, Moves(e, state),
             \/ state = "staged" \/ state = "unstaged"
             \/ state = "loading" /\ ~t.stage
             \/ t.state = "loading"
      PROVE  DownloadInv'
  <2> DEFINE u == [t EXCEPT !.state = state]
  <2>1. torrents' = [torrents EXCEPT ![e] = u] /\ Rest
    BY <1>2, <1>4 DEF Moves
  <2>2. u \in Torrent /\ u.state = state /\ u.stage = t.stage /\ u.small = t.small
    BY <1>1 DEF Torrent
  <2>3. Safe(u)
    BY <1>1, <1>4, <2>2 DEF Safe
  <2> HIDE DEF u
  <2> QED BY <1>1, <1>3, <2>1, <2>2, <2>3 DEF Harmless
<1>5. CASE Proceeds(e)
  BY <1>4, <1>5 DEF Proceeds, TorrentStates
<1>6. CASE Pauses(e)
  BY <1>4, <1>6 DEF Pauses, TorrentStates
<1>7. CASE Resumes(e)
  <2> DEFINE u == [t EXCEPT !.state = Started(t.state), !.stage = t.stage /\ t.state # "staged"]
  <2>1. torrents' = [torrents EXCEPT ![e] = u] /\ Rest /\ t.state \in {"unstaged", "halted", "staged"}
    BY <1>2, <1>7 DEF Resumes
  <2>2. /\ u \in Torrent /\ u.state = Started(t.state) /\ u.small = t.small
        /\ u.stage => t.stage /\ t.state # "staged"
    BY <1>1, StartedTyped DEF Torrent
  <2>3. Safe(u)
    BY <1>1, <2>1, <2>2 DEF Safe, Started
  <2>4. u.state # "none"
    BY <2>1, <2>2 DEF Started
  <2> HIDE DEF u
  <2> QED BY <1>1, <1>3, <2>1, <2>2, <2>3, <2>4 DEF Harmless
<1>8. CASE Deletes(e)
  <2>1. torrents' = [torrents EXCEPT ![e] = Gone] /\ Rest /\ e \notin observer.plans
    BY <1>8 DEF Deletes
  <2>2. Gone \in Torrent /\ Safe(Gone)
    BY DEF Gone, Torrent, TorrentStates, Safe
  <2> QED BY <1>3, <2>1, <2>2
<1> QED BY <1>5, <1>6, <1>7, <1>8

LEMMA QueueIsOwed ==
  ASSUME DownloadInv, NEW es \in SUBSET Entries, NEW filtered, QueueDownloads(es, filtered),
         click' \in [rows : SUBSET Entries, filtered : SUBSET Entries],
         click'.filtered \subseteq click'.rows,
         UNCHANGED <<sender, observer, missed, torrents, options, notices>>
  PROVE  DownloadInv'
<1> USE DownloadParts DEF DownloadInv
<1> DEFINE new == {e \in es : submit[e] = "none"}
           Reset(e) == [download[e] EXCEPT !.status = "queued", !.filter = FALSE, !.notified = FALSE]
           Again(e) == [download[e] EXCEPT !.notified = FALSE]
<1>1. /\ submit' = [e \in Entries |-> IF e \in new THEN "queued" ELSE submit[e]]
      /\ cycles' = [e \in Entries |-> IF e \in new THEN cycles[e] + 1 ELSE cycles[e]]
      /\ download' = [e \in Entries |-> IF e \notin new THEN download[e]
                                        ELSE IF e \in filtered THEN Again(e) ELSE Reset(e)]
  BY DEF QueueDownloads
<1>2. ASSUME NEW e \in Entries
      PROVE  /\ Reset(e) \in Row /\ Reset(e).status \notin Tracked
             /\ Again(e) \in Row /\ Again(e).status = download[e].status
  <2>1. download[e] \in Row
    OBVIOUS
  <2> QED BY ONLY <2>1 DEF Row, Tracked, Active, Requested
<1> HIDE DEF Reset, Again
<1>3. ASSUME NEW e \in Entries
      PROVE  /\ download'[e] \in Row /\ (Followed(e)' => Followed(e))
             /\ IF e \in new THEN submit[e] = "none" /\ submit'[e] = "queued" /\ cycles'[e] = cycles[e] + 1
                ELSE submit'[e] = submit[e] /\ cycles'[e] = cycles[e]
  <2>1. /\ e \notin new => download'[e] = download[e]
        /\ e \in new => download'[e] \in {Reset(e), Again(e)}
    BY <1>1
  <2>2. download'[e] \in Row /\ (download'[e].status \in Tracked => download[e].status \in Tracked)
    BY <1>2, <2>1
  <2> QED BY <1>1, <2>2 DEF Followed
<1>4. DownloadsTyped'
  <2>1. /\ submit' \in [Entries -> {"none", "queued", "running"}] /\ cycles' \in [Entries -> Nat]
        /\ download' \in [Entries -> Row]
    BY <1>1, <1>3
  <2>2. sender.pc # "idle" => submit'[sender.entry] = "running"
    BY <1>1 DEF DownloadsTyped
  <2> QED BY <2>1, <2>2 DEF DownloadsTyped, DownloadTypeOK
<1>5. ASSUME NEW e \in Entries PROVE Owed(e)'
  <2>1. CASE e \in new
    <3> HIDE DEF Followed
    <3> QED BY <1>3, <2>1 DEF Owed
  <2>2. CASE e \notin new
    BY <1>3, <2>2, OwedKept
  <2> QED BY <2>1, <2>2
<1>6. \A e \in Entries : Harmless(e)'
  BY DEF Harmless
<1> QED BY <1>4, <1>5, <1>6

LEMMA RequestsAreOwed ==
  ASSUME DownloadInv,
         \/ \E e \in Entries : GraceElapses(e) \/ QueueFound(e)
         \/ \E es \in SUBSET Entries : AskDownload(es)
         \/ QueueClicked \/ ChangeMinimum
  PROVE  DownloadInv'
<1> USE DownloadParts DEF DownloadInv
<1>1. ASSUME NEW e \in Entries, GraceElapses(e) PROVE DownloadInv'
  <2> DEFINE row == [download[e] EXCEPT !.fresh = FALSE]
  <2>1. /\ download' = [download EXCEPT ![e] = row]
        /\ UNCHANGED <<submit, sender, observer, missed, click, torrents, options, notices, cycles>>
    BY <1>1 DEF GraceElapses
  <2>2. row \in Row /\ row.status = download[e].status
    BY DEF Row
  <2> HIDE DEF row
  <2>3. /\ download' \in [Entries -> Row]
        /\ \A x \in Entries : download'[x].status = download[x].status
    BY <2>1, <2>2
  <2>4. DownloadsTyped'
    BY <2>1, <2>3 DEF DownloadsTyped, DownloadTypeOK
  <2>5. \A x \in Entries : Owed(x)'
    BY <2>1, <2>3 DEF Owed, Followed
  <2>6. \A x \in Entries : Harmless(x)'
    BY <2>1 DEF Harmless
  <2> QED BY <2>4, <2>5, <2>6
<1>2. ASSUME NEW e \in Entries, QueueFound(e) PROVE DownloadInv'
  <2>1. CASE options.auto
    <3>1. /\ QueueDownloads({e}, {})
          /\ UNCHANGED <<sender, observer, missed, click, torrents, options, notices>>
      BY <1>2, <2>1 DEF QueueFound
    <3> QED BY <3>1, QueueIsOwed
  <2>2. CASE ~options.auto
    <3>1. UNCHANGED downloadVars
      BY <1>2, <2>2 DEF QueueFound, downloadVars
    <3> QED BY <3>1 DEF downloadVars, DownloadsTyped, DownloadTypeOK, Owed, Followed, Harmless
  <2> QED BY <2>1, <2>2
<1>3. ASSUME NEW es \in SUBSET Entries, AskDownload(es) PROVE DownloadInv'
  <2>1. /\ click' = [rows |-> es, filtered |-> {e \in es : download[e].status = "filtered"}]
        /\ UNCHANGED <<download, submit, sender, observer, missed, torrents, options, notices, cycles>>
    BY <1>3 DEF AskDownload
  <2>2. DownloadsTyped'
    BY <2>1 DEF DownloadsTyped, DownloadTypeOK
  <2> QED BY <2>1, <2>2 DEF Owed, Followed, Harmless
<1>4. CASE QueueClicked
  <2>1. /\ QueueDownloads(click.rows, click.filtered) /\ click' = NoClick
        /\ UNCHANGED <<sender, observer, missed, torrents, options, notices>>
    BY <1>4 DEF QueueClicked
  <2> QED BY <2>1, QueueIsOwed DEF NoClick
<1>5. CASE ChangeMinimum
  <2>1. /\ options' = [options EXCEPT !.minimum = ~@]
        /\ UNCHANGED <<download, submit, sender, observer, missed, click, torrents, notices, cycles>>
    BY <1>5 DEF ChangeMinimum
  <2>2. options' \in Options
    BY <2>1 DEF Options
  <2>3. DownloadsTyped'
    BY <2>1, <2>2 DEF DownloadsTyped, DownloadTypeOK
  <2> QED BY <2>1, <2>3 DEF Owed, Followed, Harmless
<1> QED BY <1>1, <1>2, <1>3, <1>4, <1>5

\* The worker's job becomes what the observer may announce, or is given up.
LEMMA SenderIsOwed ==
  ASSUME DownloadInv,
         \/ \E e \in Entries : SenderClaims(e) \/ SenderSweeps(e)
         \/ SenderRecords \/ SenderDies
         \/ \E retry \in BOOLEAN : SenderFails(retry)
  PROVE  DownloadInv'
<1> USE DownloadParts DEF DownloadInv
<1>1. ASSUME \A e \in Entries : Owed(e)', DownloadsTyped', UNCHANGED <<observer, torrents>>
      PROVE  DownloadInv'
  BY <1>1 DEF Harmless
<1>2. ASSUME NEW e \in Entries, SenderClaims(e) PROVE DownloadInv'
  <2> DEFINE claim == [Resting EXCEPT !.pc = "working", !.entry = e,
                                      !.refilter = download[e].status = "filtered"]
  <2>1. /\ sender' = claim /\ submit' = [submit EXCEPT ![e] = "running"] /\ submit[e] = "queued"
        /\ UNCHANGED <<download, observer, missed, click, torrents, options, notices, cycles>>
    BY <1>2 DEF SenderClaims
  <2>2. /\ claim.entry = e
        /\ claim \in [pc : {"idle", "working", "sent"}, entry : Entries \cup {"none"},
                      refilter : BOOLEAN, keep : BOOLEAN]
    BY DEF Resting
  <2> HIDE DEF claim
  <2>3. DownloadsTyped'
    BY <2>1, <2>2 DEF DownloadsTyped, DownloadTypeOK
  <2>4. \A x \in Entries : submit'[x] # "none" => submit[x] # "none"
    BY <2>1
  <2>5. \A x \in Entries : Owed(x)'
    BY <2>1, <2>4, OwedKept DEF Followed
  <2> QED BY <1>1, <2>1, <2>3, <2>5
<1>3. ASSUME NEW e \in Entries, SenderSweeps(e) PROVE DownloadInv'
  <2>1. /\ submit' = [submit EXCEPT ![e] = "queued"] /\ submit[e] = "running" /\ sender.entry # e
        /\ UNCHANGED <<download, sender, observer, missed, click, torrents, options, notices, cycles>>
    BY <1>3 DEF SenderSweeps
  <2>2. DownloadsTyped'
    BY <2>1 DEF DownloadsTyped, DownloadTypeOK
  <2>3. \A x \in Entries : submit'[x] # "none" => submit[x] # "none"
    BY <2>1
  <2>4. \A x \in Entries : Owed(x)'
    BY <2>1, <2>3, OwedKept DEF Followed
  <2> QED BY <1>1, <2>1, <2>2, <2>4
<1>4. CASE SenderDies
  <2>1. /\ sender' = Resting
        /\ UNCHANGED <<download, submit, observer, missed, click, torrents, options, notices, cycles>>
    BY <1>4 DEF SenderDies
  <2>2. DownloadsTyped'
    BY <2>1 DEF DownloadsTyped, DownloadTypeOK, Resting
  <2>3. \A x \in Entries : Owed(x)'
    BY <2>1, OwedKept DEF Followed
  <2> QED BY <1>1, <2>1, <2>2, <2>3
<1>5. CASE SenderRecords
  <2> DEFINE e == sender.entry
             row == IF sender.refilter
                    THEN [download[e] EXCEPT !.status = IF sender.keep THEN "added" ELSE "filtered",
                                             !.filter = FALSE, !.fresh = TRUE, !.notified = FALSE]
                    ELSE [status |-> IF sender.keep THEN "waiting" ELSE "added",
                          filter |-> sender.keep, fresh |-> TRUE, notified |-> FALSE]
  <2>1. /\ e \in Entries /\ submit[e] = "running"
        /\ download' = [download EXCEPT ![e] = row] /\ submit' = [submit EXCEPT ![e] = "none"]
        /\ sender' = Resting
        /\ UNCHANGED <<observer, missed, click, torrents, options, notices, cycles>>
    BY <1>5 DEF SenderRecords, JobEnds, DownloadsTyped
  <2>2. row \in Row
    <3>1. sender.keep \in BOOLEAN /\ download[e] \in Row
      BY <2>1
    <3> QED BY ONLY <3>1 DEF Row, Tracked, Active, Requested
  <2> HIDE DEF e, row
  <2>3. DownloadsTyped'
    <3>1. download' \in [Entries -> Row] /\ submit' \in [Entries -> {"none", "queued", "running"}]
      BY <2>1, <2>2
    <3> QED BY <2>1, <3>1 DEF DownloadsTyped, DownloadTypeOK, Resting
  <2>4. ASSUME NEW x \in Entries PROVE Owed(x)'
    <3>1. CASE x = e
      <4>1. submit[x] # "none" /\ submit'[x] = "none" /\ notices[x] \in Nat /\ cycles[x] \in Nat
            /\ notices'[x] = notices[x] /\ cycles'[x] = cycles[x] /\ Owed(x)
        BY <2>1, <3>1
      <4> HIDE DEF Followed
      <4> QED BY ONLY <4>1 DEF Owed
    <3>2. CASE x # e
      <4>1. submit'[x] = submit[x] /\ download'[x] = download[x]
        BY <2>1, <3>2
      <4> QED BY <2>1, <4>1, OwedKept DEF Followed
    <3> QED BY <3>1, <3>2
  <2> QED BY <1>1, <2>1, <2>3, <2>4
<1>6. ASSUME NEW retry \in BOOLEAN, SenderFails(retry) PROVE DownloadInv'
  <2> DEFINE e == sender.entry
             status == IF ~retry THEN "failed" ELSE IF sender.refilter THEN "filtered" ELSE "queued"
             row == [download[e] EXCEPT !.status = status]
             state == IF retry THEN "queued" ELSE "none"
  <2>1. /\ e \in Entries /\ submit[e] = "running"
        /\ download' = [download EXCEPT ![e] = row] /\ submit' = [submit EXCEPT ![e] = state]
        /\ sender' = Resting
        /\ UNCHANGED <<observer, missed, click, torrents, options, notices, cycles>>
    BY <1>6 DEF SenderFails, DownloadsTyped
  <2>2. row \in Row /\ row.status \notin Tracked
    <3>1. download[e] \in Row
      BY <2>1
    <3> QED BY ONLY <3>1 DEF Row, Tracked, Active, Requested
  <2> HIDE DEF e, row
  <2>3. DownloadsTyped'
    <3>1. download' \in [Entries -> Row] /\ submit' \in [Entries -> {"none", "queued", "running"}]
      BY <2>1, <2>2
    <3> QED BY <2>1, <3>1 DEF DownloadsTyped, DownloadTypeOK, Resting
  <2>4. ASSUME NEW x \in Entries PROVE Owed(x)'
    <3>1. /\ submit'[x] # "none" => submit[x] # "none"
          /\ download'[x].status \in Tracked => download[x].status \in Tracked
      <4>1. download'[x] = (IF x = e THEN row ELSE download[x])
            /\ submit'[x] = (IF x = e THEN state ELSE submit[x])
        BY <2>1
      <4> HIDE DEF state
      <4> QED BY <2>1, <2>2, <4>1
    <3> QED BY <2>1, <3>1, OwedKept DEF Followed
  <2> QED BY <1>1, <2>1, <2>3, <2>4
<1> QED BY <1>2, <1>3, <1>4, <1>5, <1>6

\* What the worker asks of qBittorrent.
LEMMA SenderIsHarmless ==
  ASSUME DownloadInv, SenderAdds \/ SenderRefilters
  PROVE  DownloadInv'
<1> DEFINE e == sender.entry
           Rest == UNCHANGED <<download, submit, observer, missed, click, options, notices, cycles>>
<1>0. /\ sender \in [pc : {"idle", "working", "sent"}, entry : Entries \cup {"none"},
                     refilter : BOOLEAN, keep : BOOLEAN]
      /\ torrents \in [Entries -> Torrent] /\ options.minimum \in BOOLEAN
  BY DownloadParts DEF DownloadInv, Options
<1>1. e \in Entries /\ torrents[e] \in Torrent /\ Harmless(e)
  BY DownloadParts DEF DownloadInv, DownloadsTyped, SenderAdds, SenderRefilters
<1>2. \A keep \in BOOLEAN : [sender EXCEPT !.pc = "sent", !.keep = keep] \in
        [pc : {"idle", "working", "sent"}, entry : Entries \cup {"none"}, refilter : BOOLEAN, keep : BOOLEAN]
  BY <1>0
<1>3. ASSUME NEW keep \in BOOLEAN, sender.pc = "working", Rest,
             sender' = [sender EXCEPT !.pc = "sent", !.keep = keep],
             torrents' \in [Entries -> Torrent], \A x \in Entries : Harmless(x)'
      PROVE  DownloadInv'
  <2>1. sender'.entry = sender.entry
    BY <1>0, <1>3
  <2>2. DownloadsTyped'
    BY <1>2, <1>3, <2>1 DEF DownloadInv, DownloadsTyped, DownloadTypeOK
  <2>3. \A x \in Entries : Owed(x)'
    BY <1>3 DEF DownloadInv, Owed, Followed
  <2> QED BY <1>3, <2>2, <2>3 DEF DownloadInv
<1>4. CASE SenderAdds
  <2> DEFINE t == [state |-> "metadata", stage |-> options.minimum, small |-> TRUE]
  <2>1. /\ sender.pc = "working" /\ Rest
        /\ sender' = [sender EXCEPT !.pc = "sent", !.keep = options.minimum]
        /\ \/ torrents' = torrents
           \/ torrents[e] = Gone /\ torrents' = [torrents EXCEPT ![e] = t]
    BY <1>4 DEF SenderAdds
  <2>2. t \in Torrent /\ Safe(t)
    BY <1>0 DEF Torrent, TorrentStates, Safe
  <2>3. CASE torrents' = torrents
    <3>1. \A x \in Entries : Harmless(x)'
      BY <2>1, <2>3 DEF DownloadInv, Harmless
    <3> QED BY <1>0, <1>3, <2>1, <2>3, <3>1
  <2>4. CASE torrents[e] = Gone /\ torrents' = [torrents EXCEPT ![e] = t]
    <3>1. ~(observer.pc = "start" /\ e \in observer.plans)
      BY <1>1, <2>4 DEF Harmless, Gone
    <3>2. UNCHANGED observer
      BY <2>1
    <3> HIDE DEF t, e
    <3>3. torrents' \in [Entries -> Torrent] /\ \A x \in Entries : Harmless(x)'
      BY <1>1, <2>2, <2>4, <3>1, <3>2, OneTorrent
    <3> QED BY <1>0, <1>3, <2>1, <3>3
  <2> QED BY <2>1, <2>3, <2>4
<1>5. CASE SenderRefilters
  <2> DEFINE keep == ~options.minimum \/ e \in options.large
             t == [torrents[e] EXCEPT !.small = ~options.minimum, !.stage = @ /\ options.minimum,
                                      !.state = IF keep THEN Started(@) ELSE @]
  <2>1. /\ sender.pc = "working" /\ Rest /\ HasFiles(torrents[e])
        /\ sender' = [sender EXCEPT !.pc = "sent", !.keep = keep]
        /\ torrents' = [torrents EXCEPT ![e] = t]
    <3>1. /\ sender.pc = "working" /\ Rest /\ HasFiles(torrents[e])
          /\ sender' = [sender EXCEPT !.pc = "sent", !.keep = keep]
      BY <1>5 DEF SenderRefilters
    <3>2. torrents' = [torrents EXCEPT ![e] = t]
      BY <1>5 DEF SenderRefilters
    <3> QED BY ONLY <3>1, <3>2
  <2>2. /\ t \in Torrent /\ (t.stage => ~t.small)
        /\ t.state \in {torrents[e].state, Started(torrents[e].state)}
    BY <1>0, <1>1, StartedTyped DEF Torrent
  <2>3. t.state # "none" /\ Safe(t) /\ keep \in BOOLEAN
    BY <1>1, <2>1, <2>2, StartedTyped DEF HasFiles, Safe, Torrent
  <2>4. UNCHANGED observer
    BY <2>1
  <2> HIDE DEF t, e, keep
  <2>5. torrents' \in [Entries -> Torrent] /\ \A x \in Entries : Harmless(x)'
    BY <1>1, <2>1, <2>2, <2>3, <2>4, OneTorrent
  <2> QED BY <1>3, <2>1, <2>3, <2>5
<1> QED BY <1>4, <1>5

\* The observer turns to its next request; what it plans to start is harmless.
LEMMA ObserverTurns ==
  ASSUME DownloadInv, NEW o \in Observers, Observes(o),
         \A e \in o.tracked : o.rows[e].status \in Tracked,
         o.pc # "idle" => observer.pc # "idle" /\ o.rows = observer.rows,
         missed' \subseteq Entries, torrents' \in [Entries -> Torrent],
         UNCHANGED <<download, notices>>,
         \A e \in Entries : Harmless(e)'
  PROVE  DownloadInv'
<1>1. observer' = o /\ UNCHANGED <<submit, sender, click, options, cycles>>
  BY DEF Observes
<1>2. DownloadsTyped'
  BY <1>1 DEF DownloadInv, DownloadsTyped, DownloadTypeOK, Observers
<1>3. ASSUME NEW e \in Entries PROVE Owed(e)'
  <2>1. Followed(e)' => Followed(e)
    BY <1>1 DEF Followed
  <2>2. Owed(e) /\ DownloadsTyped
    BY DEF DownloadInv
  <2> QED BY <1>1, <2>1, <2>2, OwedKept
<1> QED BY <1>2, <1>3 DEF DownloadInv

LEMMA BlindTyped == /\ Blind \in Observers /\ Blind.pc = "idle" /\ Blind.tracked = {}
                    /\ Gone \in Torrent
  BY DEF Blind, Observers, Unqueued, Row, Gone, Torrent, TorrentStates, Tracked, Active, Requested

\* Turning to any request but the start keeps what qBittorrent holds harmless.
LEMMA StillHarmless ==
  ASSUME DownloadInv, UNCHANGED torrents, observer'.pc # "start"
  PROVE  \A e \in Entries : Harmless(e)'
  BY DEF DownloadInv, Harmless

LEMMA ObserverLooks ==
  ASSUME DownloadInv,
         \/ ObserverSelects \/ ObserverFails
         \/ \E probe, omit \in BOOLEAN : ObserverAsks(probe, omit)
  PROVE  DownloadInv'
<1> USE DownloadParts DEF DownloadInv
<1>1. CASE ObserverSelects
  <2> DEFINE o == [Blind EXCEPT !.pc = "ask", !.rows = download]
  <2>1. /\ observer.pc = "idle" /\ Observes(o)
        /\ UNCHANGED <<download, missed, torrents, notices>>
    BY <1>1 DEF ObserverSelects
  <2>2. o \in Observers /\ o.pc = "ask" /\ o.tracked = {} /\ o.rows = download
    BY BlindTyped DEF Observers
  <2> HIDE DEF o
  <2>3. observer' = o /\ UNCHANGED <<submit, sender, click, options, cycles>>
    BY <2>1 DEF Observes
  <2>4. DownloadsTyped'
    BY <2>1, <2>2, <2>3 DEF DownloadsTyped, DownloadTypeOK
  <2>5. \A e \in Entries : Harmless(e)'
    BY <2>1, <2>2, <2>3, StillHarmless
  <2>6. ASSUME NEW e \in Entries PROVE Owed(e)'
    <3>1. Followed(e)' => Followed(e)
      BY <2>1, <2>2, <2>3 DEF Followed
    <3> QED BY <2>1, <2>3, <3>1, OwedKept
  <2> QED BY <2>4, <2>5, <2>6
<1>2. CASE ObserverFails
  <2>1. Observes(Blind) /\ UNCHANGED <<download, missed, torrents, notices>>
    BY <1>2 DEF ObserverFails
  <2>2. \A e \in Entries : Harmless(e)'
    BY <2>1, BlindTyped, StillHarmless DEF Observes
  <2> QED BY <2>1, <2>2, BlindTyped, ObserverTurns
<1>3. ASSUME NEW probe \in BOOLEAN, NEW omit \in BOOLEAN, ObserverAsks(probe, omit)
      PROVE  DownloadInv'
  <2> DEFINE of(statuses) == {e \in Entries : observer.rows[e].status \in statuses}
             paused == of({"paused"})
             seen == IF omit THEN [e \in Entries |-> Gone] ELSE torrents
             tracked == of(Active) \cup (IF probe THEN Returned(paused, seen) ELSE {})
             look == [e \in Entries |-> IF e \in tracked THEN seen[e] ELSE Gone]
             turned == [observer EXCEPT !.pc = "filter", !.tracked = tracked, !.seen = look]
             o == IF tracked = {} THEN Blind ELSE turned
  <2>1. /\ observer.pc = "ask" /\ Observes(o)
        /\ missed' = IF probe /\ paused # {} THEN {e \in paused : seen[e] = Gone} ELSE missed
        /\ UNCHANGED <<download, torrents, notices>>
    BY <1>3 DEF ObserverAsks
  <2>2. tracked \subseteq Entries /\ \A e \in tracked : observer.rows[e].status \in Tracked
    <3>1. Returned(paused, seen) \subseteq paused
      BY DEF Returned
    <3> HIDE DEF seen
    <3> QED BY <3>1 DEF Tracked
  <2>3. look \in [Entries -> Torrent]
    <3>1. seen \in [Entries -> Torrent]
      BY BlindTyped
    <3> HIDE DEF seen, tracked
    <3> QED BY <3>1, BlindTyped
  <2>4. missed' \subseteq Entries
    BY <2>1
  <2> HIDE DEF tracked, look
  <2>5. /\ turned \in Observers /\ turned.pc = "filter" /\ turned.tracked = tracked
        /\ turned.rows = observer.rows
    BY <2>2, <2>3 DEF Observers
  <2> HIDE DEF turned
  <2>6. /\ o \in Observers /\ o.pc # "start" /\ \A e \in o.tracked : o.rows[e].status \in Tracked
        /\ o.pc # "idle" => o.rows = observer.rows
    BY <2>2, <2>5, BlindTyped
  <2> HIDE DEF o
  <2>7. \A e \in Entries : Harmless(e)'
    BY <2>1, <2>6, StillHarmless DEF Observes
  <2> QED BY <2>1, <2>4, <2>6, <2>7, ObserverTurns
<1> QED BY <1>1, <1>2, <1>3

\* The small files of all that is planned are excluded before any of it starts.
LEMMA ObserverActs ==
  ASSUME DownloadInv, ObserverFilters \/ ObserverStarts \/ ObserverStops
  PROVE  DownloadInv'
<1> USE DownloadParts DEF DownloadInv
<1>1. CASE ObserverFilters
  <2> DEFINE asked == {e \in Filterable : observer.seen[e] # Gone}
             plans == {e \in asked : HasFiles(torrents[e])}
             pending == Filterable \ plans
             o == [observer EXCEPT !.pc = "start", !.plans = plans, !.pending = pending]
  <2>1. /\ observer.pc = "filter" /\ ExcludeSmall(plans) /\ Observes(o)
        /\ UNCHANGED <<download, missed, notices>>
    BY <1>1 DEF ObserverFilters
  <2>2. plans \subseteq Entries /\ pending \subseteq Entries /\ \A e \in plans : HasFiles(torrents[e])
    BY DEF Filterable
  <2> HIDE DEF plans, pending
  <2>3. /\ o \in Observers /\ o.pc = "start" /\ o.plans = plans /\ o.rows = observer.rows
        /\ o.tracked = observer.tracked
    BY <2>2 DEF Observers
  <2> HIDE DEF o
  <2>4. ASSUME NEW e \in Entries
        PROVE  /\ torrents'[e] \in Torrent /\ torrents'[e].stage = torrents[e].stage
               /\ torrents'[e].state = torrents[e].state
               /\ e \in plans => ~torrents'[e].small
               /\ ~torrents[e].small => ~torrents'[e].small
    <3>1. torrents[e] \in Torrent
      OBVIOUS
    <3>2. torrents'[e] = IF e \in plans THEN [torrents[e] EXCEPT !.small = FALSE] ELSE torrents[e]
      BY <2>1 DEF ExcludeSmall
    <3> QED BY ONLY <3>1, <3>2 DEF Torrent
  <2>5. torrents' \in [Entries -> Torrent]
    BY <2>1, <2>4 DEF ExcludeSmall
  <2>6. ASSUME NEW e \in Entries PROVE Harmless(e)'
    <3>1. observer' = o /\ Harmless(e) /\ (e \in plans => HasFiles(torrents[e]))
      BY <2>1, <2>2 DEF Observes
    <3> QED BY ONLY <2>3, <2>4, <3>1 DEF Harmless, Safe, HasFiles
  <2> QED BY <2>1, <2>3, <2>5, <2>6, ObserverTurns
<1>2. CASE ObserverStarts
  <2> DEFINE o == [observer EXCEPT !.pc = "stop"]
             started == observer.plans \cap options.large
  <2>1. /\ observer.pc = "start" /\ Observes(o)
        /\ torrents' = [e \in Entries |->
             IF e \in started THEN [torrents[e] EXCEPT !.state = Started(@)] ELSE torrents[e]]
        /\ UNCHANGED <<download, missed, notices>>
    BY <1>2 DEF ObserverStarts
  <2>2. o \in Observers /\ o.pc = "stop" /\ o.rows = observer.rows /\ o.tracked = observer.tracked
    BY DEF Observers
  <2> HIDE DEF o
  <2>3. ASSUME NEW e \in Entries PROVE torrents'[e] \in Torrent /\ Safe(torrents'[e])
    <3>1. torrents[e] \in Torrent /\ Harmless(e)
      OBVIOUS
    <3>2. CASE e \in started
      <4>1. torrents'[e] = [torrents[e] EXCEPT !.state = Started(@)]
        BY <2>1, <3>2
      <4>2. /\ torrents'[e] \in Torrent /\ torrents'[e].stage = torrents[e].stage
            /\ torrents'[e].small = torrents[e].small
        BY ONLY <3>1, <4>1, StartedTyped DEF Torrent
      <4>3. torrents[e].stage => ~torrents[e].small
        BY ONLY <2>1, <3>1, <3>2 DEF Harmless
      <4> QED BY ONLY <4>2, <4>3 DEF Safe
    <3>3. CASE e \notin started
      BY <2>1, <3>1, <3>3 DEF Harmless
    <3> QED BY <3>2, <3>3
  <2>4. torrents' \in [Entries -> Torrent]
    <3> HIDE DEF started
    <3> QED BY <2>1, <2>3
  <2>5. \A e \in Entries : Harmless(e)'
    BY <2>1, <2>2, <2>3 DEF Observes, Harmless
  <2> QED BY <2>1, <2>2, <2>4, <2>5, ObserverTurns
<1>3. CASE ObserverStops
  <2> DEFINE stopped(e) == IF e \in ReadyToStop /\ torrents[e].state = "seeding"
                           THEN [torrents[e] EXCEPT !.state = "done"] ELSE torrents[e]
             done == {e \in ReadyToStop : Paused(stopped(e)) \/ stopped(e).state = "done"}
             told == [observer EXCEPT !.pc = "write", !.stopped = done]
             failed == [observer EXCEPT !.pc = "write"]
  <2>1. /\ observer.pc = "stop" /\ UNCHANGED <<download, missed, notices>>
        /\ torrents' \in {torrents, [e \in Entries |-> stopped(e)]}
        /\ Observes(told) \/ Observes(failed)
    BY <1>3 DEF ObserverStops
  <2>2. done \subseteq Entries
    BY DEF ReadyToStop
  <2> HIDE DEF done
  <2>3. ASSUME NEW o \in {told, failed}
        PROVE  /\ o \in Observers /\ o.pc = "write" /\ o.rows = observer.rows
               /\ o.tracked = observer.tracked
    BY <2>2 DEF Observers
  <2> HIDE DEF told, failed
  <2>4. ASSUME NEW e \in Entries PROVE stopped(e) \in Torrent /\ Safe(stopped(e))
    <3>1. torrents[e] \in Torrent /\ Safe(torrents[e])
      BY DEF Harmless
    <3> QED BY ONLY <3>1 DEF Torrent, TorrentStates, Safe
  <2> HIDE DEF stopped
  <2>5. torrents' \in [Entries -> Torrent] /\ \A e \in Entries : Safe(torrents'[e])
    <3>1. CASE torrents' = torrents
      BY <3>1 DEF Harmless
    <3>2. CASE torrents' = [e \in Entries |-> stopped(e)]
      BY <2>4, <3>2
    <3> QED BY <2>1, <3>1, <3>2
  <2>6. ASSUME NEW o \in {told, failed}, Observes(o) PROVE DownloadInv'
    <3>1. observer'.pc = "write"
      BY <2>3, <2>6 DEF Observes
    <3>2. \A e \in Entries : Harmless(e)'
      BY <2>5, <3>1 DEF Harmless
    <3> QED BY <2>1, <2>3, <2>5, <2>6, <3>2, ObserverTurns
  <2> QED BY <2>1, <2>6
<1> QED BY <1>1, <1>2, <1>3

\* What is written for an entry, and that an announced entry is written as
\* completed, which no one follows.
LEMMA MirroredTyped ==
  ASSUME DownloadsTyped, NEW e \in Entries
  PROVE  Mirrored(e).status \in Tracked \cup Requested \cup {"queued", "completed"}
<1>1. observer.rows[e] \in Row
  BY DownloadParts
<1>2. /\ StatusAfterStop(e) \in {"completed", "paused", "downloading"}
  BY DEF StatusAfterStop, StateForDownload
<1> HIDE DEF StatusAfterStop
<1> QED BY ONLY <1>1, <1>2 DEF Mirrored, Row, Tracked, Active, Requested

LEMMA ObserverAnnounces ==
  ASSUME DownloadInv, ObserverWrites
  PROVE  DownloadInv'
<1> USE DownloadParts DEF DownloadInv
<1>1. PICK figures \in SUBSET {e \in observer.tracked : Skipped(e)} :
        download' = [e \in Entries |->
          IF e \notin observer.tracked \/ (Skipped(e) /\ e \notin figures) THEN download[e]
          ELSE [download[e] EXCEPT !.status = Mirrored(e).status,
                                   !.filter = IF e \in observer.plans THEN FALSE ELSE @,
                                   !.notified = @ \/ Announces(e)]]
  BY DEF ObserverWrites
<1>2. /\ observer.pc = "write"
      /\ notices' = [e \in Entries |-> IF e \in observer.tracked /\ Announces(e)
                                       THEN notices[e] + 1 ELSE notices[e]]
      /\ observer' = Blind
      /\ UNCHANGED <<submit, sender, click, options, cycles, missed, torrents>>
  BY DEF ObserverWrites, Observes
<1>3. ASSUME NEW e \in Entries
      PROVE  /\ download'[e] \in Row
             /\ \/ download'[e].status = download[e].status
                \/ e \in observer.tracked /\ download'[e].status = Mirrored(e).status
             /\ e \in observer.tracked /\ ~Skipped(e) => download'[e].status = Mirrored(e).status
  <2>1. /\ download[e] \in Row
        /\ Mirrored(e).status \in Tracked \cup Requested \cup {"queued", "completed"}
        /\ Announces(e) \in BOOLEAN
    BY MirroredTyped DEF Announces
  <2>2. CASE e \notin observer.tracked \/ (Skipped(e) /\ e \notin figures)
    <3>1. download'[e] = download[e]
      BY <1>1, <2>2
    <3> QED BY <2>1, <2>2, <3>1, <1>1
  <2>3. CASE ~(e \notin observer.tracked \/ (Skipped(e) /\ e \notin figures))
    <3>1. download'[e] = [download[e] EXCEPT !.status = Mirrored(e).status,
                                             !.filter = IF e \in observer.plans THEN FALSE ELSE @,
                                             !.notified = @ \/ Announces(e)]
      BY <1>1, <2>3
    <3> HIDE DEF Mirrored, Announces
    <3>2. download'[e] \in Row /\ download'[e].status = Mirrored(e).status
      BY ONLY <2>1, <3>1 DEF Row
    <3> QED BY <2>3, <3>2
  <2> QED BY <2>2, <2>3
<1>4. download' \in [Entries -> Row] /\ notices' \in [Entries -> Nat]
  <2>1. download' = [e \in Entries |-> download'[e]]
    BY <1>1
  <2>2. notices' \in [Entries -> Nat]
    BY <1>2
  <2> QED BY <1>3, <2>1, <2>2
<1>5. DownloadsTyped'
  BY <1>2, <1>4, BlindTyped DEF DownloadsTyped, DownloadTypeOK
<1>6. ASSUME NEW e \in Entries PROVE Owed(e)'
  <2>1. Followed(e)' <=> download'[e].status \in Tracked
    BY <1>2, BlindTyped DEF Followed
  <2>2. e \in observer.tracked => Followed(e)
    BY <1>2 DEF Followed
  <2>3. CASE e \in observer.tracked /\ Announces(e)
    <3>1. Mirrored(e).status = "completed" /\ observer.rows[e].status \in Tracked
      BY <2>3 DEF Announces
    <3>2. ~Skipped(e)
      BY <3>1 DEF Skipped, Tracked, Active
    <3>3. ~Followed(e)'
      BY <1>3, <2>1, <2>3, <3>1, <3>2 DEF Tracked, Active
    <3>4. notices'[e] = notices[e] + 1 /\ submit'[e] = submit[e] /\ cycles'[e] = cycles[e]
      BY <1>2, <2>3
    <3>5. notices[e] \in Nat /\ cycles[e] \in Nat /\ Owed(e) /\ Followed(e)
      BY <2>2, <2>3
    <3> HIDE DEF Followed
    <3> QED BY ONLY <3>3, <3>4, <3>5 DEF Owed
  <2>4. CASE ~(e \in observer.tracked /\ Announces(e))
    <3>1. Followed(e)' => Followed(e)
      BY <1>3, <2>1, <2>2 DEF Followed
    <3>2. notices'[e] = notices[e] /\ submit'[e] = submit[e] /\ cycles'[e] = cycles[e]
      BY <1>2, <2>4
    <3> QED BY <3>1, <3>2, OwedKept
  <2> QED BY <2>3, <2>4
<1>7. \A e \in Entries : Harmless(e)'
  BY <1>2, BlindTyped, StillHarmless
<1> QED BY <1>5, <1>6, <1>7

LEMMA DownloadsKeepInv ==
  ASSUME DownloadInv, DownloadStep
  PROVE  DownloadInv'
<1>1. CASE UNCHANGED downloadVars
  BY <1>1 DEF downloadVars, DownloadInv, DownloadsTyped, DownloadTypeOK, Owed, Followed, Harmless
<1>2. ASSUME NEW e \in Entries, Proceeds(e) \/ Pauses(e) \/ Resumes(e) \/ Deletes(e)
      PROVE  DownloadInv'
  BY <1>2, QbittorrentIsHarmless
<1>3. CASE \/ \E e \in Entries : GraceElapses(e) \/ QueueFound(e)
           \/ \E es \in SUBSET Entries : AskDownload(es)
           \/ QueueClicked \/ ChangeMinimum
  BY ONLY DownloadInv, <1>3, RequestsAreOwed
<1>4. CASE \/ \E e \in Entries : SenderClaims(e) \/ SenderSweeps(e)
           \/ SenderRecords \/ SenderDies
           \/ \E retry \in BOOLEAN : SenderFails(retry)
  BY ONLY DownloadInv, <1>4, SenderIsOwed
<1>5. CASE SenderAdds \/ SenderRefilters
  BY <1>5, SenderIsHarmless
<1>6. CASE \/ ObserverSelects \/ ObserverFails
           \/ \E probe, omit \in BOOLEAN : ObserverAsks(probe, omit)
  BY ONLY DownloadInv, <1>6, ObserverLooks
<1>7. CASE ObserverFilters \/ ObserverStarts \/ ObserverStops
  BY <1>7, ObserverActs
<1>8. CASE ObserverWrites
  BY <1>8, ObserverAnnounces
<1>9. CASE DownloadNext
  BY ONLY <1>2, <1>3, <1>4, <1>5, <1>6, <1>7, <1>8, <1>9 DEF DownloadNext
<1> QED BY ONLY DownloadStep, <1>1, <1>3, <1>4, <1>9 DEF DownloadStep

LEMMA DownloadsBegin == ASSUME Init PROVE DownloadInv
<1>1. DownloadInit
  BY DEF Init
<1>2. Unqueued \in Row /\ Unqueued.status \notin Tracked /\ Gone \in Torrent /\ Safe(Gone)
  BY DEF Unqueued, Row, Gone, Torrent, TorrentStates, Tracked, Active, Requested, Safe
<1>3. DownloadsTyped
  BY <1>1, <1>2, BlindTyped, OptionsAssumption
     DEF DownloadInit, DownloadsTyped, DownloadTypeOK, Resting, NoClick, Observers
<1>4. ASSUME NEW e \in Entries PROVE Owed(e) /\ Harmless(e)
  <2>1. /\ notices[e] = 0 /\ cycles[e] = 0 /\ submit[e] = "none" /\ download[e] = Unqueued
        /\ torrents[e] = Gone /\ observer.pc = "idle"
    BY <1>1, BlindTyped DEF DownloadInit
  <2> QED BY <1>2, <2>1 DEF Owed, Followed, Harmless
<1> QED BY <1>3, <1>4 DEF DownloadInv

LEMMA DownloadsInvariant == Spec => []DownloadInv
<1>1. Init => DownloadInv
  BY DownloadsBegin
<1>2. DownloadInv /\ [Next]_vars => DownloadInv'
  BY StepOfParts, DownloadsKeepInv
<1> QED BY <1>1, <1>2, PTL DEF Spec

(* A download cycle is announced at most once                              *)
(* (download-notification.ts:1): the job that starts a cycle hands its one *)
(* announcement to the entry it leaves followed, and the observer takes it *)
(* away when it writes the entry as completed.                             *)
THEOREM AnnouncedOnce == Spec => []NotifiedOncePerCycle
<1>1. ASSUME DownloadInv PROVE NotifiedOncePerCycle
  <2> SUFFICES ASSUME NEW e \in Entries PROVE notices[e] <= cycles[e]
    BY DEF NotifiedOncePerCycle
  <2>1. Owed(e) /\ notices[e] \in Nat /\ cycles[e] \in Nat
    BY <1>1, DownloadParts DEF DownloadInv
  <2> HIDE DEF Followed
  <2> QED BY <2>1 DEF Owed
<1> QED BY <1>1, DownloadsInvariant, PTL

(* A torrent submitted under a minimal size loads none of its small files  *)
(* unless a user of qBittorrent starts them (qbittorrent-download-sync.ts, *)
(* which excludes them before it starts anything).                         *)
THEOREM SmallFilesStay == Spec => []NoSmallPayload
<1>1. DownloadInv => NoSmallPayload
  BY DEF DownloadInv, Harmless, Safe, NoSmallPayload
<1> QED BY <1>1, DownloadsInvariant, PTL

(* Every variable keeps its type, and no bounded event is overspent.       *)
THEOREM TypeCorrect == Spec => []TypeOK
<1> DEFINE Inv == (LookupsTyped /\ PendingHasWork) /\ DownloadInv /\ Counted
<1>1. ASSUME Init PROVE Inv
  <2>1. Counted
    <3>1. spent = [event \in DOMAIN Bound |-> 0]
      BY <1>1 DEF Init
    <3> QED BY <3>1, BoundsTyped DEF Counted
  <2> QED BY <1>1, <2>1, LookupsBegin, DownloadsBegin
<1>2. ASSUME Inv, [Next]_vars PROVE Inv'
  BY <1>2, StepOfParts, StepCounts, LookupsKeepWork, DownloadsKeepInv
<1>3. Inv => TypeOK
  BY DEF LookupsTyped, DownloadInv, DownloadsTyped, Counted, TypeOK
<1> HIDE DEF Inv
<1> QED BY <1>1, <1>2, <1>3, PTL DEF Spec
=============================================================================
