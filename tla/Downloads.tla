----------------------------- MODULE Downloads -----------------------------
(***************************************************************************)
(* From a found magnet to a finished torrent: the download worker of the   *)
(* engine submits magnets to qBittorrent, and the observer in the API      *)
(* process mirrors the torrents into the entries, applies the filter by    *)
(* file size to torrents that were staged for it, and stops what is        *)
(* complete.  qBittorrent is external; its users pause, resume and delete  *)
(* torrents, and any request to it may fail.                               *)
(***************************************************************************)
EXTENDS ArchiveLookups

CONSTANT FirstOptions   \* the download settings a behaviour may start with

\* large: the torrents that have a file of the minimal size.
Options == [auto : BOOLEAN, minimum : BOOLEAN, stop : BOOLEAN, large : SUBSET Entries]
ASSUME OptionsAssumption == FirstOptions \subseteq Options

VARIABLES
  download,  \* the download columns of archive_entries
  submit,    \* the active download_jobs row of an entry
  sender,    \* the download worker
  observer,  \* a running syncDownloadStates
  missed,    \* paused entries that the last probe did not find
  click,     \* a download route between its SELECT and its writes
  torrents,  \* what qBittorrent holds for an entry
  options,   \* the download settings
  notices,   \* history: completion notifications of an entry
  cycles     \* history: download jobs that were queued for an entry

downloadVars == <<download, submit, sender, observer, missed, click, torrents,
                  options, notices, cycles>>

Active == {"added", "waiting", "downloading"}
Tracked == Active \cup {"paused"}
Requested == {"not_queued", "failed", "filtered", "removed"}
Row == [status : Tracked \cup Requested \cup {"queued", "completed"},
        filter : BOOLEAN,    \* download_filter_min_size_bytes is set
        fresh : BOOLEAN,     \* within the grace period of its submission
        notified : BOOLEAN]  \* download_completion_notified_at is set

\* Fetching metadata, stopped with and without them, loading, stopped while
\* loading, seeding, and stopped after that.
TorrentStates ==
  {"none", "metadata", "staged", "unstaged", "loading", "halted", "seeding", "done"}
Torrent == [state : TorrentStates,
            stage : BOOLEAN,  \* to be stopped when the metadata are there
            small : BOOLEAN]  \* the small files are to be loaded too

Unqueued == [status |-> "not_queued", filter |-> FALSE, fresh |-> FALSE, notified |-> FALSE]
Gone == [state |-> "none", stage |-> FALSE, small |-> TRUE]
Resting == [pc |-> "idle", entry |-> "none", refilter |-> FALSE, keep |-> FALSE]
Blind == [pc |-> "idle", rows |-> [e \in Entries |-> Unqueued], tracked |-> {},
          seen |-> [e \in Entries |-> Gone], plans |-> {}, pending |-> {}, stopped |-> {}]
NoClick == [rows |-> {}, filtered |-> {}]

DownloadTypeOK ==
  /\ download \in [Entries -> Row]
  /\ submit \in [Entries -> {"none", "queued", "running"}]
  /\ sender \in [pc : {"idle", "working", "sent"}, entry : Entries \cup {"none"},
                 refilter : BOOLEAN, keep : BOOLEAN]
  /\ observer.pc \in {"idle", "ask", "filter", "start", "stop", "write"}
  /\ missed \subseteq Entries /\ click.filtered \subseteq click.rows /\ click.rows \subseteq Entries
  /\ torrents \in [Entries -> Torrent]
  /\ options \in Options
  /\ notices \in [Entries -> Nat] /\ cycles \in [Entries -> Nat]

DownloadInit ==
  /\ download = [e \in Entries |-> Unqueued]
  /\ submit = [e \in Entries |-> "none"]
  /\ sender = Resting /\ observer = Blind /\ missed = {} /\ click = NoClick
  /\ torrents = [e \in Entries |-> Gone]
  /\ options \in FirstOptions
  /\ notices = [e \in Entries |-> 0] /\ cycles = [e \in Entries |-> 0]

-----------------------------------------------------------------------------
(* qBittorrent and its users.                                              *)

Moves(e, state) ==
  /\ torrents' = [torrents EXCEPT ![e].state = state]
  /\ UNCHANGED <<download, submit, sender, observer, missed, click, options, notices, cycles>>

\* A torrent gets its metadata, stops there if it was staged, and is loaded.
Proceeds(e) ==
  /\ \/ torrents[e].state = "metadata" /\ Moves(e, IF torrents[e].stage THEN "staged" ELSE "loading")
     \/ torrents[e].state = "loading" /\ Moves(e, "seeding")
  /\ UNCHANGED spent

Pauses(e) ==
  /\ \/ torrents[e].state = "metadata" /\ Moves(e, "unstaged")
     \/ torrents[e].state = "loading" /\ Moves(e, "halted")
  /\ Spend("meddling")

Started(state) == CASE state = "unstaged" -> "metadata"
                    [] state \in {"halted", "staged"} -> "loading"
                    [] OTHER -> state

\* A user resumes what is stopped; for a staged torrent it ends the staging.
Resumes(e) ==
  /\ torrents[e].state \in {"unstaged", "halted", "staged"}
  /\ torrents' = [torrents EXCEPT ![e].state = Started(@),
                                  ![e].stage = @ /\ torrents[e].state # "staged"]
  /\ Spend("meddling")
  /\ UNCHANGED <<download, submit, sender, observer, missed, click, options, notices, cycles>>

\* Not between the requests of one observation that filter and start it.
Deletes(e) ==
  /\ torrents[e] # Gone /\ e \notin observer.plans
  /\ Spend("meddling")
  /\ torrents' = [torrents EXCEPT ![e] = Gone]
  /\ UNCHANGED <<download, submit, sender, observer, missed, click, options, notices, cycles>>

\* What the Web API reports: staged and user-made stops look the same.
Paused(t) == t.state \in {"staged", "unstaged", "halted"}
Complete(t) == t.state \in {"seeding", "done"}
HasFiles(t) == t.state \notin {"none", "metadata", "unstaged"}

StateForDownload(t) ==
  IF Complete(t) THEN "completed" ELSE IF Paused(t) THEN "paused" ELSE "downloading"

GraceElapses(e) ==
  /\ download[e].fresh
  /\ download' = [download EXCEPT ![e].fresh = FALSE]
  /\ UNCHANGED <<submit, sender, observer, missed, click, torrents, options, notices, cycles, spent>>

-----------------------------------------------------------------------------
(* Download jobs are queued by a found magnet or by a user.                *)

\* queueDownloadJob and the columns its callers reset; a filtered entry keeps
\* its status until the worker has looked at its files again.
QueueDownloads(es, filtered) ==
  LET new == {e \in es : submit[e] = "none"}
  IN /\ submit' = [e \in Entries |-> IF e \in new THEN "queued" ELSE submit[e]]
     /\ cycles' = [e \in Entries |-> IF e \in new THEN cycles[e] + 1 ELSE cycles[e]]
     /\ download' = [e \in Entries |->
          IF e \notin new THEN download[e]
          ELSE IF e \in filtered THEN [download[e] EXCEPT !.notified = FALSE]
          ELSE [download[e] EXCEPT !.status = "queued", !.filter = FALSE, !.notified = FALSE]]

QueueFound(e) ==
  /\ IF options.auto THEN QueueDownloads({e}, {}) ELSE UNCHANGED <<download, submit, cycles>>
  /\ UNCHANGED <<sender, observer, missed, click, torrents, options, notices, spent>>

Found == {e \in Entries : archive[e].magnet = "found"}

\* POST download and download-backfill: a complete torrent must be deleted first.
AskDownload(es) ==
  /\ click = NoClick /\ es # {} /\ es \subseteq Found
  /\ \/ es = {e \in Found : download[e].status \in Requested}
     \/ \E e \in Found : /\ es = {e} /\ download[e].status # "added"
                         /\ download[e].status = "completed" => torrents[e] = Gone
  /\ Spend("requests")
  /\ click' = [rows |-> es, filtered |-> {e \in es : download[e].status = "filtered"}]
  /\ UNCHANGED <<download, submit, sender, observer, missed, torrents, options, notices, cycles>>

QueueClicked ==
  /\ click # NoClick
  /\ QueueDownloads(click.rows, click.filtered)
  /\ click' = NoClick
  /\ UNCHANGED <<sender, observer, missed, torrents, options, notices, spent>>

ChangeMinimum ==
  /\ Spend("requests")
  /\ options' = [options EXCEPT !.minimum = ~@]
  /\ UNCHANGED <<download, submit, sender, observer, missed, click, torrents, notices, cycles>>

-----------------------------------------------------------------------------
(* The download worker.                                                    *)

SenderClaims(e) ==
  /\ sender = Resting /\ submit[e] = "queued"
  /\ submit' = [submit EXCEPT ![e] = "running"]
  /\ sender' = [Resting EXCEPT !.pc = "working", !.entry = e,
                               !.refilter = download[e].status = "filtered"]
  /\ UNCHANGED <<download, observer, missed, click, torrents, options, notices, cycles, spent>>

\* qBittorrent itself recognises a torrent it already has.
SenderAdds ==
  LET e == sender.entry
  IN /\ sender.pc = "working" /\ ~sender.refilter
     /\ torrents' = IF torrents[e] # Gone THEN torrents
                    ELSE [torrents EXCEPT ![e] = [state |-> "metadata",
                                                  stage |-> options.minimum, small |-> TRUE]]
     /\ sender' = [sender EXCEPT !.pc = "sent", !.keep = options.minimum]
     /\ UNCHANGED <<download, submit, observer, missed, click, options, notices, cycles, spent>>

\* The files of a filtered torrent are chosen again, by the present minimum.
SenderRefilters ==
  LET e == sender.entry
      keep == ~options.minimum \/ e \in options.large
  IN /\ sender.pc = "working" /\ sender.refilter
     /\ HasFiles(torrents[e])
     /\ torrents' = [torrents EXCEPT ![e] =
          [torrents[e] EXCEPT !.small = ~options.minimum, !.stage = @ /\ options.minimum,
                              !.state = IF keep THEN Started(@) ELSE @]]
     /\ sender' = [sender EXCEPT !.pc = "sent", !.keep = keep]
     /\ UNCHANGED <<download, submit, observer, missed, click, options, notices, cycles, spent>>

\* The row ends in the transaction that records the submission.
JobStaysRunning(e) == UNCHANGED submit
JobEnds(e) == submit' = [submit EXCEPT ![e] = "none"]

SenderRecords ==
  LET e == sender.entry
  IN /\ sender.pc = "sent"
     /\ download' = [download EXCEPT ![e] =
          IF sender.refilter
          THEN [@ EXCEPT !.status = IF sender.keep THEN "added" ELSE "filtered",
                         !.filter = FALSE, !.fresh = TRUE, !.notified = FALSE]
          ELSE [status |-> IF sender.keep THEN "waiting" ELSE "added",
                filter |-> sender.keep, fresh |-> TRUE, notified |-> FALSE]]
     /\ JobEnds(e)
     /\ sender' = Resting
     /\ UNCHANGED <<observer, missed, click, torrents, options, notices, cycles, spent>>

\* A request fails, maybe after qBittorrent has acted on it.
SenderFails(retry) ==
  LET e == sender.entry
      nothing == sender.pc = "working" /\ sender.refilter /\ ~HasFiles(torrents[e])
  IN /\ sender.pc # "idle"
     /\ IF nothing THEN ~retry /\ UNCHANGED spent ELSE Spend("faults")
     /\ download' = [download EXCEPT ![e].status =
          IF ~retry THEN "failed" ELSE IF sender.refilter THEN "filtered" ELSE "queued"]
     /\ submit' = [submit EXCEPT ![e] = IF retry THEN "queued" ELSE "none"]
     /\ sender' = Resting
     /\ UNCHANGED <<observer, missed, click, torrents, options, notices, cycles>>

SenderDies ==
  /\ sender' = Resting
  /\ UNCHANGED <<download, submit, observer, missed, click, torrents, options, notices, cycles>>

SenderSweeps(e) ==
  /\ submit[e] = "running" /\ sender.entry # e
  /\ submit' = [submit EXCEPT ![e] = "queued"]
  /\ UNCHANGED <<download, sender, observer, missed, click, torrents, options, notices, cycles, spent>>

-----------------------------------------------------------------------------
(* The observer.                                                           *)

Observes(o) ==
  /\ observer' = o
  /\ UNCHANGED <<submit, sender, click, options, cycles>>

\* Completed entries are terminal: they are not selected.
ObserverSelects ==
  /\ observer.pc = "idle"
  /\ \E e \in Entries : download[e].status \in Tracked
  /\ Observes([Blind EXCEPT !.pc = "ask", !.rows = download])
  /\ UNCHANGED <<download, missed, torrents, notices, spent>>

\* Paused entries are probed less often.  They are followed again when they
\* run, or when two probes in a row do not find them: qBittorrent may omit
\* torrents while it restarts.
ReturnedOnlyLost(paused, seen) == {e \in paused : seen[e] = Gone /\ e \in missed}
Returned(paused, seen) ==
  {e \in paused : IF seen[e] = Gone THEN e \in missed ELSE ~Paused(seen[e])}

ObserverAsks(probe, omit) ==
  LET of(statuses) == {e \in Entries : observer.rows[e].status \in statuses}
      paused == of({"paused"})
      seen == IF omit THEN [e \in Entries |-> Gone] ELSE torrents
      tracked == of(Active) \cup (IF probe THEN Returned(paused, seen) ELSE {})
  IN /\ observer.pc = "ask"
     /\ IF omit THEN Spend("meddling") ELSE UNCHANGED spent
     /\ missed' = IF probe /\ paused # {} THEN {e \in paused : seen[e] = Gone} ELSE missed
     /\ Observes(IF tracked = {} THEN Blind
                 ELSE [observer EXCEPT !.pc = "filter", !.tracked = tracked, !.seen =
                        [e \in Entries |-> IF e \in tracked THEN seen[e] ELSE Gone]])
     /\ UNCHANGED <<download, torrents, notices>>

Filterable ==
  {e \in observer.tracked : /\ observer.rows[e].filter
                            /\ Paused(observer.seen[e]) => observer.rows[e].status = "waiting"}

\* filePrio 0 for the small files of every planned torrent.
ExcludeRejected(plans) ==
  torrents' = [e \in Entries |-> IF e \in plans \ options.large
                                 THEN [torrents[e] EXCEPT !.small = FALSE] ELSE torrents[e]]
ExcludeSmall(plans) ==
  torrents' = [e \in Entries |-> IF e \in plans THEN [torrents[e] EXCEPT !.small = FALSE]
                                 ELSE torrents[e]]

\* The small files are excluded before anything is started.
ObserverFilters ==
  LET asked == {e \in Filterable : observer.seen[e] # Gone}
      plans == {e \in asked : HasFiles(torrents[e])}
  IN /\ observer.pc = "filter"
     /\ \A e \in asked : torrents[e] # Gone
     /\ ExcludeSmall(plans)
     /\ Observes([observer EXCEPT !.pc = "start", !.plans = plans, !.pending = Filterable \ plans])
     /\ UNCHANGED <<download, missed, notices, spent>>

ObserverStarts ==
  /\ observer.pc = "start"
  /\ torrents' = [e \in Entries |->
       IF e \in observer.plans \cap options.large THEN [torrents[e] EXCEPT !.state = Started(@)]
       ELSE torrents[e]]
  /\ Observes([observer EXCEPT !.pc = "stop"])
  /\ UNCHANGED <<download, missed, notices, spent>>

ReadyToStop ==
  IF ~options.stop THEN {}
  ELSE {e \in observer.tracked \ (observer.pending \cup (observer.plans \ options.large)) :
          observer.seen[e].state = "seeding"}

\* A failure to stop is caught: the entry stays among the active ones.
ObserverStops ==
  LET stopped(e) == IF e \in ReadyToStop /\ torrents[e].state = "seeding"
                    THEN [torrents[e] EXCEPT !.state = "done"] ELSE torrents[e]
  IN /\ observer.pc = "stop"
     /\ \/ /\ torrents' = [e \in Entries |-> stopped(e)]
           /\ Observes([observer EXCEPT !.pc = "write", !.stopped =
                {e \in ReadyToStop : Paused(stopped(e)) \/ stopped(e).state = "done"}])
           /\ UNCHANGED spent
        \/ /\ ReadyToStop # {} /\ Spend("faults")
           /\ torrents' \in {torrents, [e \in Entries |-> stopped(e)]}
           /\ Observes([observer EXCEPT !.pc = "write"])
     /\ UNCHANGED <<download, missed, notices>>

StatusAfterStop(e) ==
  LET t == observer.seen[e]
  IN IF options.stop /\ t.state = "seeding" /\ e \notin observer.stopped
     THEN "downloading" ELSE StateForDownload(t)

\* The status and the filter written for an entry, from the row that was
\* selected and the torrent that was seen.
Mirrored(e) ==
  LET row == observer.rows[e]
      t == observer.seen[e]
      next == StatusAfterStop(e)
      write(status, filter) == [status |-> status, filter |-> filter]
  IN IF t = Gone
     THEN IF (row.status = "added" \/ row.filter) /\ row.fresh
          THEN write(IF row.filter THEN "waiting" ELSE row.status, row.filter)
          ELSE write("removed", row.filter)
     ELSE IF e \in observer.pending
     THEN write(IF Paused(t) THEN "paused" ELSE "waiting", TRUE)
     ELSE IF e \in observer.plans \ options.large THEN write("filtered", FALSE)
     ELSE IF e \in observer.plans THEN write(IF next = "paused" THEN "waiting" ELSE next, FALSE)
     ELSE write(next, row.filter)

\* An entry whose status did not change is written only for its figures.
Skipped(e) == Mirrored(e).status = observer.rows[e].status
              /\ Mirrored(e).filter = observer.rows[e].filter

Announces(e) ==
  /\ observer.seen[e] # Gone /\ Mirrored(e).status = "completed"
  /\ ~observer.rows[e].notified /\ ~download[e].notified

ObserverWrites ==
  /\ observer.pc = "write"
  /\ \E figures \in SUBSET {e \in observer.tracked : Skipped(e)} :
       download' = [e \in Entries |->
         IF e \notin observer.tracked \/ (Skipped(e) /\ e \notin figures) THEN download[e]
         ELSE [download[e] EXCEPT
                 !.status = Mirrored(e).status,
                 !.filter = IF e \in observer.plans THEN FALSE ELSE @,
                 !.notified = @ \/ Announces(e)]]
  /\ notices' = [e \in Entries |-> IF e \in observer.tracked /\ Announces(e)
                                   THEN notices[e] + 1 ELSE notices[e]]
  /\ Observes(Blind)
  /\ UNCHANGED <<missed, torrents, spent>>

\* Any other failing request ends the observation; a deleted torrent has no
\* list of files.
ObserverFails ==
  /\ observer.pc \in {"ask", "filter", "start"}
  /\ IF observer.pc = "filter"
        /\ \E e \in Filterable : observer.seen[e] # Gone /\ torrents[e] = Gone
     THEN UNCHANGED spent ELSE Spend("faults")
  /\ Observes(Blind)
  /\ UNCHANGED <<download, missed, torrents, notices>>

-----------------------------------------------------------------------------
SenderStep == SenderAdds \/ SenderRefilters \/ SenderRecords
              \/ (sender.refilter /\ ~HasFiles(torrents[sender.entry]) /\ SenderFails(FALSE))
ObserverStep ==
  \/ ObserverSelects \/ ObserverAsks(TRUE, FALSE) \/ ObserverFilters \/ ObserverStarts
  \/ ObserverStops \/ ObserverWrites
  \/ (\E e \in Filterable : observer.seen[e] # Gone /\ torrents[e] = Gone) /\ ObserverFails

DownloadNext ==
  \/ \E e \in Entries : \/ Proceeds(e) \/ Pauses(e) \/ Resumes(e) \/ Deletes(e)
                        \/ GraceElapses(e) \/ SenderClaims(e) \/ SenderSweeps(e)
  \/ \E es \in SUBSET Entries : AskDownload(es)
  \/ QueueClicked \/ ChangeMinimum
  \/ SenderAdds \/ SenderRefilters \/ SenderRecords
  \/ \E retry \in BOOLEAN : SenderFails(retry)
  \/ ObserverSelects \/ ObserverFilters \/ ObserverStarts \/ ObserverStops
  \/ ObserverWrites \/ ObserverFails
  \/ \E probe, omit \in BOOLEAN : ObserverAsks(probe, omit)

-----------------------------------------------------------------------------
(* A download cycle, from the job that starts it to the next, is announced *)
(* at most once (download-notification.ts:1), although submissions are     *)
(* repeated after a death of the engine, and the observer writes what it   *)
(* saw over rows that were queued meanwhile.                               *)
NotifiedOncePerCycle == \A e \in Entries : notices[e] <= cycles[e]

(* A torrent that was submitted under a minimal file size loads none of    *)
(* its small files, whichever request fails and whenever the settings or   *)
(* the entry change; only a user of qBittorrent may start them.            *)
NoSmallPayload ==
  \A e \in Entries :
    torrents[e].stage /\ torrents[e].state \in {"loading", "halted", "seeding", "done"}
      => ~torrents[e].small

(* A followed download that is complete and stays so is recorded as        *)
(* completed in the end: no pause, miss, stop or filter drops it.          *)
EveryDownloadIsFollowed ==
  \A e \in Entries :
    (download[e].status \in Tracked /\ Complete(torrents[e]))
      ~> (download[e].status \notin Tracked \/ ~Complete(torrents[e]))
=============================================================================
