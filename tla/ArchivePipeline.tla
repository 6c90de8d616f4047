-------------------------- MODULE ArchivePipeline --------------------------
(***************************************************************************)
(* The life of an archive entry: the lookups of ArchiveLookups and the     *)
(* downloads of Downloads, joined where the code joins them.  The magnet   *)
(* worker queues the download of what it finds, the routes offer found     *)
(* magnets only, and one engine carries all the workers, so that it dies   *)
(* with all of them.                                                       *)
(***************************************************************************)
EXTENDS Downloads

vars == <<lookupVars, downloadVars, spent>>

Init == LookupInit /\ spent = [event \in DOMAIN Bound |-> 0] /\ DownloadInit

\* The magnet, the row and the queued download in one transaction.
FindsMagnet(e) ==
  /\ MagnetFound(e)
  /\ IF archive[e].suppressed THEN UNCHANGED downloadVars ELSE QueueFound(e)

\* A death costs every worker its execution.
Dies ==
  /\ worker # [k \in Kinds |-> Idle] \/ sender # Resting
  /\ Spend("faults")
  /\ EngineDies /\ SenderDies

WorkerEnds(k) ==
  \E e \in Entries :
    \/ k = "release" /\ ReleaseEnds(e)
    \/ k = "magnet" /\ MagnetNotFound(e)
    \/ k = "library" /\ (LibraryMatches(e) \/ LibraryMisses(e) \/ (~rules.library /\ LibraryFails(e)))

LookupNext ==
  \/ \E e \in Entries, suppressed \in BOOLEAN : Capture(e, suppressed)
  \/ \E e \in Entries, held \in BOOLEAN : SyncWrites(e, held)
  \/ \E r \in Rules : ChangeRules(r)
  \/ \E library, skip \in BOOLEAN : ChangeLibrary(library, skip)
  \/ \E es \in SUBSET Entries : AskMagnets(es)
  \/ AskReleases \/ QueueAsked \/ QueueMarked
  \/ \E k \in Kinds, e \in Entries : Claim(k, e) \/ Sweep(k, e)
  \/ \E e \in Entries : MarkUnsearched(e) \/ LibraryFails(e) \/ LibraryRetries(e)
  \/ \E e \in Entries, retry \in BOOLEAN : ReleaseFails(e, retry) \/ MagnetFails(e, retry)
  \/ \E k \in Kinds : WorkerEnds(k)

Next ==
  \/ LookupNext /\ UNCHANGED downloadVars
  \/ DownloadNext /\ UNCHANGED lookupVars
  \/ \E e \in Entries : FindsMagnet(e)
  \/ Dies

\* The step of a worker: an execution always ends, one way or another.
Ending(k) == \/ WorkerEnds(k) /\ UNCHANGED downloadVars
             \/ k = "magnet" /\ \E e \in Entries : FindsMagnet(e)

\* The minute between two probes passes however often the observer runs.
Fairness ==
  /\ \A k \in Kinds : /\ WF_vars(\E e \in Entries : Claim(k, e) /\ UNCHANGED downloadVars)
                      /\ WF_vars(Ending(k))
  /\ WF_vars((\E k \in Kinds, e \in Entries : Sweep(k, e)) /\ UNCHANGED downloadVars)
  /\ WF_vars((QueueMarked \/ QueueAsked) /\ UNCHANGED downloadVars)
  /\ WF_vars(SenderStep /\ UNCHANGED lookupVars)
  /\ WF_vars(ObserverStep /\ UNCHANGED lookupVars)
  /\ SF_vars(ObserverAsks(TRUE, FALSE) /\ UNCHANGED lookupVars)
  /\ WF_vars(QueueClicked /\ UNCHANGED lookupVars)
  /\ WF_vars((\E e \in Entries : SenderClaims(e) \/ SenderSweeps(e)) /\ UNCHANGED lookupVars)
  /\ WF_vars((\E e \in Entries : GraceElapses(e)) /\ UNCHANGED lookupVars)

Spec == Init /\ [][Next]_vars
FairSpec == Spec /\ Fairness

TypeOK == LookupTypeOK /\ DownloadTypeOK /\ \A event \in DOMAIN Bound : spent[event] \in 0..Bound[event]

-----------------------------------------------------------------------------
(* An entry that shows a lookup as pending has a row that will be executed *)
(* (release-worker.ts:51, library-worker.ts:127).  Only a death of the     *)
(* engine inside the legacy backfill or a library lookup, and a lookup     *)
(* that contradicts a confirmed match, leave one without; such entries are *)
(* recorded in stranded.                                                   *)
PendingHasWork ==
  \A e \in Entries :
    /\ archive[e].release = "pending" =>
         \/ jobs["release"][e] # "none" \/ <<"release", e>> \in stranded
         \/ worker["release"].pc = "marked" /\ worker["release"].entry = e
    /\ archive[e].magnet = "pending" =>
         jobs["magnet"][e] # "none" \/ jobs["library"][e] # "none" \/ <<"library", e>> \in stranded

(* Every lookup that was queued is finished, through failures, deaths of   *)
(* the engine, changed rules and repeated requests.                        *)
EveryLookupSettles ==
  \A k \in Kinds, e \in Entries :
    jobs[k][e] # "none" ~> (jobs[k][e] = "none" \/ <<k, e>> \in stranded)
=============================================================================
