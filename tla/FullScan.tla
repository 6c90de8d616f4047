------------------------------ MODULE FullScan ------------------------------
(***************************************************************************)
(* One subscription and its capture job: the staged full scan and the check *)
(* of the first page (server/capture.ts), the job around them               *)
(* (server/worker.ts runNextJob), and what the user does to it meanwhile    *)
(* (server/routes/subscriptions.ts, and the rule groups of routes/rules.ts  *)
(* that give a subscription its pagination).                                *)
(*                                                                         *)
(* Page p holds one item, also called p, whatever the address is.  A page   *)
(* is read over the network in one step and written by one transaction in a *)
(* later one.  `resets' counts the deletions of the archive and stamps      *)
(* whatever is read.                                                       *)
(***************************************************************************)
EXTENDS Naturals, Sequences, SequencesExt, FiniteSetsExt

CONSTANTS
  Scanners,        \* web executors that run captures on the one database
  MaxPages,        \* bound: pages of the listing
  MaxScans,        \* bound: full-scan batches
  Budgets,         \* bounds: how often each disturbance may happen in a behaviour
  Slice,           \* rows that the storing transaction reads at a time
  OverrunAllowed   \* TRUE: a scan may outlive the ten-minute cutoff

ASSUME BoundsAssumption ==
  /\ MaxPages \in Nat \ {0} /\ MaxScans \in Nat \ {0} /\ Slice \in Nat \ {0}
  /\ Budgets \subseteq
       [resets : Nat,      \* deletions of the archive
        requests : Nat,    \* full scans the user asks for
        failures : Nat,    \* failed captures and crashes
        edits : Nat]       \* edits of the subscription and of its rule group
ASSUME ModeAssumption == OverrunAllowed \in BOOLEAN

VARIABLES
  sub,        \* subscriptions: the columns a capture reads and writes
  staged,     \* initial_scan_items, in the order of id
  batch,      \* full_scan_batches, in the order of created_at
  archive,    \* archive_entries of the subscription
  job,        \* its active row in jobs, if any
  scanner,    \* per web executor: progress of captureSubscription
  request,    \* progress of POST full-scan
  resets,     \* history: deletions of the archive
  budget      \* history: the disturbances that may still happen

vars == <<sub, staged, batch, archive, job, scanner, request, resets, budget>>

Pages == 1..MaxPages
ScanIds == 1..MaxScans
Item == [page : Pages, era : Nat,
         first : BOOLEAN]           \* it opened a full scan

Subscription ==
  [exists : BOOLEAN,                \* the row itself
   paged : BOOLEAN,                 \* pagination_selector is set
   run : {0} \cup ScanIds,          \* initial_scan_run_id
   total : 0..MaxPages,             \* initial_scan_total, 0 for NULL
   next : 1..(MaxPages + 1),        \* initial_scan_next_page
   done : BOOLEAN,                  \* initial_scan_completed
   content : SUBSET Pages]          \* last_content, and {} while last_hash is NULL

Scanner ==
  [pc : {"idle", "lookup", "resume", "first", "open", "read", "stage", "store",
         "check", "checked", "stored", "missing"},
   full : BOOLEAN,                  \* fullScan of runNextJob
   scan : {0} \cup ScanIds,
   page : 1..(MaxPages + 1),
   total : 0..MaxPages,
   prev : SUBSET Pages,             \* last_content as selected
   era : Nat,              \* when the page at hand was read
   fresh : BOOLEAN,                 \* updated_at is still the one selected
   owns : BOOLEAN]                  \* its job is still the active row

Idle == [pc |-> "idle", full |-> FALSE, scan |-> 0, page |-> 1, total |-> 0, prev |-> {},
         era |-> 0, fresh |-> FALSE, owns |-> FALSE]

TypeOK ==
  /\ sub \in Subscription
  /\ staged \in Seq([scan : ScanIds, page : Pages, era : Nat])
  /\ batch \in [ScanIds -> {"absent", "scanning", "scan_failed", "processing"}]
  /\ archive \in SUBSET Item
  /\ job \in {"none", "queued", "running"}
  /\ scanner \in [Scanners -> Scanner]
  /\ request \in [pc : {"idle", "checked", "looked", "reset"}, scan : {0} \cup ScanIds]
  /\ resets \in Nat
  /\ budget \in [{"resets", "requests", "failures", "edits"} -> Nat]

Init ==
  /\ sub \in [exists : {TRUE}, paged : BOOLEAN, run : {0}, total : {0}, next : {1},
               done : {FALSE}, content : {{}}]
  /\ staged = <<>>
  /\ batch = [i \in ScanIds |-> "absent"]
  /\ archive = {}
  /\ job = "none"
  /\ scanner = [s \in Scanners |-> Idle]
  /\ request = [pc |-> "idle", scan |-> 0]
  /\ resets = 0
  /\ budget \in Budgets

Spend(what) ==
  /\ budget[what] > 0
  /\ budget' = [budget EXCEPT ![what] = @ - 1]

-----------------------------------------------------------------------------
(* Reading and writing the tables *)

Archived == {a.page : a \in archive}

Scanning == {i \in ScanIds : batch[i] = "scanning"}
KnownScans ==
  {0, sub.run, request.scan} \cup {scanner[s].scan : s \in Scanners}
    \cup {i \in ScanIds : batch[i] # "absent"}
NewScan == Max(KnownScans) + 1

\* The pending batch if there is one, else a new UUID.
PendingScan == IF Scanning # {} THEN Max(Scanning) ELSE NewScan

StageRow(s) == [scan |-> scanner[s].scan, page |-> scanner[s].page, era |-> scanner[s].era]
StagedPages(scan) == {staged[i].page : i \in {j \in DOMAIN staged : staged[j].scan = scan}}

\* The rows that the cursor loop visits: slices in page order, each beyond the
\* id of the last row of the one before.
Beyond(scan, c) == {i \in DOMAIN staged : i > c /\ staged[i].scan = scan}
InSlice(scan, c) == {i \in Beyond(scan, c) :
  Cardinality({j \in Beyond(scan, c) : staged[j].page < staged[i].page}) < Slice}
LastOf(scan, c) ==
  CHOOSE i \in InSlice(scan, c) : \A j \in InSlice(scan, c) : staged[j].page <= staged[i].page

VisitedFrom(scan) ==
  LET from[c \in 0..Len(staged)] ==
        IF Beyond(scan, c) = {} THEN {} ELSE InSlice(scan, c) \cup from[LastOf(scan, c)]
  IN from
Visited(scan) ==
  {[page |-> staged[i].page, era |-> staged[i].era, first |-> staged[i].page = 1] : i \in VisitedFrom(scan)[0]}

\* archiveNewItems: what the last content lacked, or all for an empty archive.
Additions(items, prev) ==
  {a \in items : a.page \notin Archived /\ (archive = {} \/ a.page \notin prev)}

\* The statements of a full scan that are meant for its own run only.
AnyRun(s) == TRUE
OwnRun(s) == sub.exists /\ sub.run = scanner[s].scan

KeepsNoRun(s) == sub.run
OpenedRun(s) == scanner[s].scan

\* The page after which a resumed scan goes on.
NextPage(page) == page + 1

ClearStaged(items) == <<>>

EvenIfStale(s) == TRUE
Fresh(s) == sub.exists /\ scanner[s].fresh

\* Every write to the subscription gives it a new updated_at.
Touched(table) == [s \in Scanners |-> [table[s] EXCEPT !.fresh = FALSE]]

-----------------------------------------------------------------------------
(* Jobs and the user *)

\* The row has been running for ten minutes.
Stalled ==
  /\ job = "running"
  /\ OverrunAllowed \/ \A s \in Scanners : scanner[s].owns => scanner[s].pc = "idle"

Queue ==
  /\ job = "none"
  /\ job' = "queued"
  /\ scanner' = [s \in Scanners |-> [scanner[s] EXCEPT !.owns = FALSE]]

\* A schedule or POST run.
Schedule ==
  /\ sub.exists
  /\ Queue
  /\ UNCHANGED <<sub, staged, batch, archive, request, resets, budget>>

\* recoverStalledJobs, by an engine that is not itself capturing.
Recover ==
  /\ Stalled
  /\ \E s \in Scanners : scanner[s].pc = "idle"
  /\ job' = "queued"
  /\ UNCHANGED <<sub, staged, batch, archive, scanner, request, resets, budget>>

\* DELETE archive: one transaction.
ResetArchive ==
  /\ sub.exists
  /\ Spend("resets")
  /\ resets' = resets + 1
  /\ staged' = <<>>
  /\ archive' = {}
  /\ job' = IF job = "queued" THEN "none" ELSE job
  /\ sub' = [sub EXCEPT !.run = 0, !.total = 0, !.next = 1, !.done = ~sub.paged, !.content = {}]
  /\ scanner' = Touched([s \in Scanners |->
       [scanner[s] EXCEPT !.owns = scanner[s].owns /\ job # "queued"]])
  /\ UNCHANGED <<batch, request>>

\* DELETE subscription: one transaction.  Its batches stay.
Delete ==
  /\ sub.exists
  /\ Spend("edits")
  /\ sub' = [sub EXCEPT !.exists = FALSE]
  /\ staged' = <<>>
  /\ archive' = {}
  /\ job' = "none"
  /\ scanner' = [s \in Scanners |-> [scanner[s] EXCEPT !.owns = FALSE]]
  /\ UNCHANGED <<batch, request, resets>>

\* PUT subscription: with pagination a first scan is due, without it none.
KeepsDone(paged) == [sub EXCEPT !.paged = paged]
Edited(paged) ==
  IF ~paged THEN [sub EXCEPT !.paged = FALSE, !.done = TRUE]
  ELSE IF sub.paged THEN sub
  ELSE [sub EXCEPT !.paged = TRUE, !.done = FALSE, !.total = 0]

Edit ==
  /\ sub.exists
  /\ Spend("edits")
  /\ \E paged \in BOOLEAN : sub' = Edited(paged)
  /\ scanner' = Touched(scanner)
  /\ UNCHANGED <<staged, batch, archive, job, request, resets>>

\* A rule group is saved: its subscriptions take its pagination.  A scan in
\* progress is left alone.
SyncFromGroup ==
  /\ sub.exists
  /\ Spend("edits")
  /\ \E paged \in BOOLEAN :
       sub' = IF paged /\ ~sub.paged /\ sub.run = 0
              THEN [sub EXCEPT !.paged = TRUE, !.done = FALSE, !.total = 0, !.next = 1]
              ELSE [sub EXCEPT !.paged = paged]
  /\ scanner' = Touched(scanner)
  /\ UNCHANGED <<staged, batch, archive, job, request, resets>>

\* POST full-scan: the check for an active job, the lookup of a pending batch,
\* the transaction and queueJob are separate statements.
AskFullScan ==
  /\ sub.exists /\ sub.paged
  /\ request.pc = "idle"
  /\ Spend("requests")
  /\ job = "none"
  /\ request' = [request EXCEPT !.pc = "checked"]
  /\ UNCHANGED <<sub, staged, batch, archive, job, scanner, resets>>

AskLookUp ==
  /\ request.pc = "checked"
  /\ PendingScan \in ScanIds
  /\ request' = [pc |-> "looked", scan |-> PendingScan]
  /\ UNCHANGED <<sub, staged, batch, archive, job, scanner, resets, budget>>

AskReset ==
  /\ request.pc = "looked"
  /\ request' = [request EXCEPT !.pc = "reset"]
  /\ staged' = <<>>
  /\ sub' = IF sub.exists THEN [sub EXCEPT !.run = 0, !.total = 0, !.next = 1, !.done = FALSE] ELSE sub
  /\ batch' = [batch EXCEPT ![request.scan] = "scanning"]
  /\ scanner' = Touched(scanner)
  /\ UNCHANGED <<archive, job, resets, budget>>

AskQueue ==
  /\ request.pc = "reset"
  /\ request' = [pc |-> "idle", scan |-> 0]
  /\ Queue \/ (job # "none" /\ UNCHANGED <<job, scanner>>)
  /\ UNCHANGED <<sub, staged, batch, archive, resets, budget>>

-----------------------------------------------------------------------------
(* runNextJob and captureSubscription *)

ScanIsDue == sub.exists /\ sub.paged /\ ~sub.done

\* The claim and getSubscription.
Start(s) ==
  /\ scanner[s].pc = "idle"
  /\ job = "queued"
  /\ job' = "running"
  /\ scanner' = [scanner EXCEPT ![s] =
       [Idle EXCEPT !.pc = CASE ~sub.exists -> "missing"
                             [] sub.exists /\ ~ScanIsDue -> "check"
                             [] ScanIsDue /\ sub.run = 0 -> "lookup"
                             [] ScanIsDue /\ sub.run # 0 /\ sub.total = 0 -> "first"
                             [] ScanIsDue /\ sub.run # 0 /\ sub.total # 0 -> "resume",
                    !.full = ScanIsDue, !.scan = sub.run, !.page = sub.next, !.total = sub.total,
                    !.prev = sub.content, !.fresh = TRUE, !.owns = TRUE]]
  /\ UNCHANGED <<sub, staged, batch, archive, request, resets, budget>>

LookUp(s) ==
  /\ scanner[s].pc = "lookup"
  /\ PendingScan \in ScanIds
  /\ scanner' = [scanner EXCEPT ![s].pc = "first", ![s].scan = PendingScan]
  /\ UNCHANGED <<sub, staged, batch, archive, job, request, resets, budget>>

\* The first page and the number of pages it shows.
ReadFirst(s) ==
  /\ scanner[s].pc = "first"
  /\ \E n \in Pages :
       scanner' = [scanner EXCEPT ![s].pc = "open", ![s].total = n, ![s].page = 1, ![s].era = resets]
  /\ UNCHANGED <<sub, staged, batch, archive, job, request, resets, budget>>

\* The transaction that opens a run: unlike the others it does not ask whether
\* the run is still wanted.
Open(s) ==
  /\ scanner[s].pc = "open"
  /\ staged' = ClearStaged(staged)
  /\ sub' = IF sub.exists
            THEN [sub EXCEPT !.run = OpenedRun(s), !.total = scanner[s].total, !.next = 1] ELSE sub
  /\ batch' = [batch EXCEPT ![scanner[s].scan] = "scanning"]
  /\ scanner' = Touched([scanner EXCEPT ![s].pc = "stage"])
  /\ UNCHANGED <<archive, job, request, resets, budget>>

\* A saved run goes on: its batch is inserted if it is missing.
Resume(s) ==
  /\ scanner[s].pc = "resume"
  /\ batch' = IF batch[scanner[s].scan] = "absent"
              THEN [batch EXCEPT ![scanner[s].scan] = "scanning"] ELSE batch
  /\ scanner' = [scanner EXCEPT ![s].pc = IF scanner[s].page <= scanner[s].total THEN "read" ELSE "store"]
  /\ UNCHANGED <<sub, staged, archive, job, request, resets, budget>>

ReadPage(s) ==
  /\ scanner[s].pc = "read"
  /\ scanner' = [scanner EXCEPT ![s].pc = "stage", ![s].era = resets]
  /\ UNCHANGED <<sub, staged, batch, archive, job, request, resets, budget>>

\* stagePage: the rows go in whatever happened to the run, the progress is
\* saved only for the run.
Stage(s) ==
  /\ scanner[s].pc = "stage"
  /\ LET next == NextPage(scanner[s].page)
         moved == [scanner EXCEPT ![s].pc = IF scanner[s].page < scanner[s].total THEN "read" ELSE "store",
                                  ![s].page = scanner[s].page + 1] IN
       /\ staged' = IF scanner[s].page \in StagedPages(scanner[s].scan)
                    THEN staged ELSE Append(staged, StageRow(s))
       /\ IF OwnRun(s)
          THEN /\ sub' = [sub EXCEPT !.next = next]
               /\ scanner' = Touched(moved)
          ELSE /\ scanner' = moved
               /\ UNCHANGED sub
  /\ UNCHANGED <<batch, archive, job, request, resets, budget>>

\* The storing transaction: everything, if the run is still the subscription's.
Store(s) ==
  /\ scanner[s].pc = "store"
  /\ IF OwnRun(s)
     THEN LET scan == scanner[s].scan
              items == Visited(scan) IN
          /\ archive' = archive \cup Additions(items, scanner[s].prev)
          /\ sub' = [sub EXCEPT !.run = 0, !.total = scanner[s].total, !.next = 1, !.done = TRUE,
                                !.content = {a.page : a \in items}]
          /\ batch' = [batch EXCEPT ![scan] = "processing"]
          /\ staged' = SelectSeq(staged, LAMBDA row : row.scan # scan)
          /\ scanner' = Touched([scanner EXCEPT ![s].pc = "stored"])
     ELSE /\ scanner' = [scanner EXCEPT ![s].pc = "stored"]
          /\ UNCHANGED <<archive, sub, batch, staged>>
  /\ UNCHANGED <<job, request, resets, budget>>

\* The check of the first page, once a full scan has been stored.
ReadCheck(s) ==
  /\ scanner[s].pc = "check"
  /\ scanner' = [scanner EXCEPT ![s].pc = "checked", ![s].era = resets]
  /\ UNCHANGED <<sub, staged, batch, archive, job, request, resets, budget>>

StoreCheck(s) ==
  /\ scanner[s].pc = "checked"
  /\ IF Fresh(s)
     THEN LET items == {[page |-> 1, era |-> scanner[s].era, first |-> FALSE]} IN
          /\ archive' = archive \cup Additions(items, scanner[s].prev)
          /\ sub' = [sub EXCEPT !.content = {1}]
          /\ scanner' = Touched([scanner EXCEPT ![s].pc = "stored"])
     ELSE /\ scanner' = [scanner EXCEPT ![s].pc = "stored"]
          /\ UNCHANGED <<archive, sub>>
  /\ UNCHANGED <<staged, batch, job, request, resets, budget>>

\* The statements that end a job name the row and not its state.
EndJob(s, status) == job' = IF scanner[s].owns THEN status ELSE job

\* The subscription has been deleted: no retry.
GiveUp(s) ==
  /\ scanner[s].pc = "missing"
  /\ EndJob(s, "none")
  /\ scanner' = [scanner EXCEPT ![s] = Idle]
  /\ UNCHANGED <<sub, staged, batch, archive, request, resets, budget>>

Complete(s) ==
  /\ scanner[s].pc = "stored"
  /\ EndJob(s, "none")
  /\ scanner' = [scanner EXCEPT ![s] = Idle]
  /\ UNCHANGED <<sub, staged, batch, archive, request, resets, budget>>

Fail(s) ==
  /\ scanner[s].pc # "idle"
  /\ Spend("failures")
  /\ \/ EndJob(s, "queued") /\ UNCHANGED batch
     \/ /\ EndJob(s, "none")
        /\ batch' = [i \in ScanIds |->
             IF scanner[s].full /\ batch[i] = "scanning" THEN "scan_failed" ELSE batch[i]]
  /\ scanner' = [scanner EXCEPT ![s] = Idle]
  /\ UNCHANGED <<sub, staged, archive, request, resets>>

\* The engine and its web executor die together.
Crash(s) ==
  /\ scanner[s].pc # "idle"
  /\ Spend("failures")
  /\ scanner' = [scanner EXCEPT ![s] = Idle]
  /\ UNCHANGED <<sub, staged, batch, archive, job, request, resets>>

Scan(s) ==
  \/ LookUp(s) \/ ReadFirst(s) \/ Open(s) \/ Resume(s) \/ ReadPage(s) \/ Stage(s) \/ Store(s)
  \/ ReadCheck(s) \/ StoreCheck(s) \/ Complete(s) \/ GiveUp(s)

Next ==
  \/ Schedule \/ Recover \/ ResetArchive \/ Delete \/ Edit \/ SyncFromGroup
  \/ AskFullScan \/ AskLookUp \/ AskReset \/ AskQueue
  \/ \E s \in Scanners : Start(s) \/ Scan(s) \/ Fail(s) \/ Crash(s)

Spec == Init /\ [][Next]_vars

\* The subscription is active, so its schedule keeps queueing checks; pages are
\* read or time out; a request in progress ends.
Fairness ==
  /\ WF_vars(Schedule) /\ WF_vars(Recover)
  /\ WF_vars(AskLookUp \/ AskReset \/ AskQueue)
  /\ \A s \in Scanners : WF_vars(Start(s)) /\ WF_vars(Scan(s))

FairSpec == Spec /\ Fairness

-----------------------------------------------------------------------------
(* Properties *)

\* A subscription with pagination that counts as scanned has been scanned since
\* it has it, and every page of that scan is in the archive.  One that a PUT
\* without pagination declared scanned in the middle of a scan (it keeps the run)
\* is excused: a rule group that then gives it pagination again starts no scan.
CompletedScanIsWhole ==
  sub.exists /\ sub.done /\ sub.run = 0 =>
    /\ 1..sub.total \subseteq Archived
    /\ sub.paged => sub.total # 0

\* What was read before the archive was deleted never turns up in it again.  The
\* first page of a scan is the exception: the transaction that opens the run does
\* not ask whether the subscription was reset while the page was read.
\* Nothing turns up for a subscription that was deleted while it was scanned.
ArchiveIsOfThisEra == \A a \in archive : sub.exists /\ (a.first \/ a.era = resets)

\* A full scan that is due is eventually stored, if it stays due.
EveryScanIsStored == ScanIsDue ~> ~ScanIsDue
=============================================================================
