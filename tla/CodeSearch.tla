------------------------------ MODULE CodeSearch ------------------------------
(***************************************************************************)
(* The server behind the code search (server/routes/code-search.ts): the   *)
(* results it remembers for a quarter of an hour, the subscription to an   *)
(* actress with the film that was searched, one request at a time for each *)
(* actress, and the index of product codes that is completed in the        *)
(* background (server/archive-code-index.ts).                              *)
(*                                                                         *)
(* A film has one code; Performers gives the actresses of its page.  What  *)
(* the full scans do is in FullScan: here a scan reads the pending batch,  *)
(* opens a run and stores its films in three steps.                        *)
(***************************************************************************)
EXTENDS Naturals, Sequences, SequencesExt, FiniteSetsExt

CONSTANTS
  Tabs,            \* pages of the web interface, one subscription request each
  Codes, Actresses,
  Performers,      \* code -> the actresses on its detail page
  SubIds, EntryIds, BatchIds, SessionIds,   \* bounds: rows and results, 1..n
  SessionLimit,    \* codeSearchSessionLimit
  Chunk,           \* rows of the index completed at a time
  RuleSets,        \* rules a behaviour may begin with
  None,            \* no value; for a scan, that it is not under way
  Fresh            \* a UUID that no row has yet

States == {"pending", "found", "failed", "disabled", "not_found", "unsearched", "unavailable",
            "unconfigured"}
RuleChoices == [magnet : BOOLEAN, release : BOOLEAN, library : BOOLEAN, paged : BOOLEAN]

\* Rows of subscriptions, archive_entries and full_scan_batches; a result.
SubRow == [actress : Actresses, done : BOOLEAN, run : BatchIds \cup {0}, based : BOOLEAN]
EntryRow == [sub : SubIds, code : Codes, magnet : States, release : States, library : States,
             batch : BatchIds \cup {0}]
BatchRow == [sub : SubIds, status : {"scanning", "processing", "scan_failed"}]
ResultRow == [code : Codes, magnet : States, release : States]

ASSUME IdentityAssumption ==
    /\ 1 \in SubIds
    /\ \A ids \in {SubIds, EntryIds, BatchIds, SessionIds} :
          IsFiniteSet(ids) /\ ids \subseteq Nat \ {0}

ASSUME SearchAssumption ==
    /\ Chunk \in Nat \ {0}
    /\ RuleSets \subseteq RuleChoices
    /\ Performers \in [Codes -> SUBSET Actresses]

\* NULL is no value, and a new UUID no identity.
ASSUME NoneAssumption ==
    /\ None \notin Nat \cup Tabs \cup Codes \cup {Fresh}
    /\ None \notin SubRow \cup EntryRow \cup BatchRow \cup ResultRow
    /\ None # [sub |-> 0, code |-> None]
    /\ Fresh \notin Nat

VARIABLES
  session,      \* every result, also those no longer remembered
  remembered,   \* codeSearchSessions, in the order of insertion
  old,          \* results older than a quarter of an hour
  tail,         \* codeSearchSubscriptionLocks: the last request for an actress
  call,         \* per tab: progress of POST /api/code-search/subscribe
  subs,         \* subscriptions to an actress's films
  entries,      \* archive_entries
  jobs,         \* active rows of release_jobs, magnet_jobs and library_jobs
  indexed,      \* entries with rows in archive_entry_codes
  fill,         \* backfillArchiveCodeIndex
  batches,      \* full_scan_batches
  scan,         \* per subscription: its capture
  rules,        \* what the inspection rules and the Jellyfin settings enable
  stray         \* history: batches planned before the scan moved on

serverVars == <<session, remembered, old, tail, call, subs, entries, jobs, indexed,
                fill, batches, scan, rules, stray>>

Zero == 0          \* no row

-----------------------------------------------------------------------------
(* Rows.                                                                   *)

Rows(table) == {i \in DOMAIN table : table[i] # None}
Unused(table) == DOMAIN table \ Rows(table)

\* Identities are never given twice: the next one is above all those in use.
NextId(table, ids) == CHOOSE i \in ids : table[i] = None /\ \A j \in ids : j < i => table[j] # None
Gone == [sub |-> Zero, code |-> None]      \* what remains of a deleted row
Deleted(table, ids) == [i \in DOMAIN table |-> IF i \in ids THEN Gone ELSE table[i]]
Present(table, i) == i \in DOMAIN table /\ table[i] # None /\ table[i] # Gone
All(table) == {i \in DOMAIN table : Present(table, i)}

NewEntry(s, c, settled, b) == [sub |-> s, code |-> c, magnet |-> settled.magnet,
                               release |-> settled.release, library |-> settled.library,
                               batch |-> b]

Wanted(settled) == {k \in {"magnet", "release", "library"} : settled[k] = "pending"}

-----------------------------------------------------------------------------
(* The index of codes.                                                     *)

OfCode(ids, c) == {e \in ids : entries[e].code = c}
OfSub(s) == {e \in All(entries) : entries[e].sub = s}

\* A film is put into the index with its row.
LeftToFill(e) == indexed
WithCodes(e) == indexed \cup {e}

\* Rows the index does not know yet are looked for in the texts, until the
\* index is complete.
Matches(ids, c) ==
    LET known == OfCode(ids \cap indexed, c)
    IN  IF fill.done THEN known ELSE known \cup OfCode(ids, c)

OnlyFill == UNCHANGED <<session, remembered, old, tail, call, subs, entries, jobs, batches,
                        scan, rules, stray>>

FillStarts ==
    /\ ~fill.done /\ fill.target = None
    /\ fill' = [fill EXCEPT !.target = IF All(entries) = {} THEN Zero ELSE Max(All(entries))]
    /\ UNCHANGED indexed /\ OnlyFill

PageOf(cursor, target) ==
    LET beyond == {e \in All(entries) : e > cursor /\ e <= target}
    IN  {e \in beyond : Cardinality({d \in beyond : d < e}) < Chunk}

CursorAfter(page) == IF page = {} THEN fill.target ELSE Max(page)

FillPage ==
    /\ fill.target # None /\ fill.cursor < fill.target
    /\ LET page == PageOf(fill.cursor, fill.target)
       IN  /\ indexed' = indexed \cup page
           /\ fill' = [fill EXCEPT !.cursor = CursorAfter(page)]
    /\ OnlyFill

FillEnds ==
    /\ ~fill.done /\ fill.target # None /\ fill.cursor >= fill.target
    /\ fill' = [fill EXCEPT !.done = TRUE]
    /\ UNCHANGED indexed /\ OnlyFill

-----------------------------------------------------------------------------
(* The results that are remembered.                                        *)

Live(sid) == sid \in Range(remembered) /\ sid \notin old

NewSession == NextId(session, SessionIds)

\* Those past their time go first, then the oldest as long as there are too many.
Trim(ids) == IF Len(ids) < SessionLimit THEN ids
             ELSE SubSeq(ids, Len(ids) - SessionLimit + 2, Len(ids))

Remember(c, magnet, release) ==
    LET young == SelectSeq(remembered, LAMBDA sid : sid \notin old)
    IN  /\ Unused(session) # {}
        /\ session' = [session EXCEPT ![NewSession] =
                          [code |-> c, magnet |-> magnet, release |-> release]]
        /\ remembered' = Append(Trim(young), NewSession)

\* A result past its time is dropped when it is asked for.
Forget(sid) == remembered' = SelectSeq(remembered, LAMBDA i : i # sid)

Age(sid) ==
    /\ sid \in Range(remembered) \ old
    /\ old' = old \cup {sid}
    /\ UNCHANGED <<session, remembered, tail, call, subs, entries, jobs, indexed, fill,
                   batches, scan, rules, stray>>

-----------------------------------------------------------------------------
(* Subscribing to an actress.                                              *)

NoCall == [pc |-> "idle", sid |-> Zero, actress |-> None, prev |-> None, dup |-> Zero,
           seen |-> None, batch |-> Zero, rules |-> None, found |-> Zero, settled |-> None]

At(t, pc) == call[t].pc = pc
Go(t, pc) == call' = [call EXCEPT ![t].pc = pc]
OnlyCall == UNCHANGED <<session, remembered, old, tail, subs, entries, jobs, indexed, fill,
                        batches, scan, rules, stray>>

AskSubscription(t, sid, a) ==
    /\ At(t, "idle") /\ Live(sid)
    /\ a \in Performers[session[sid].code]
    /\ call' = [call EXCEPT ![t] = [NoCall EXCEPT !.pc = "name", !.sid = sid, !.actress = a]]
    /\ OnlyCall

\* The result asked for is no longer remembered.
SubscriptionRefused(t, sid) ==
    /\ At(t, "idle") /\ ~Live(sid)
    /\ Forget(sid)
    /\ UNCHANGED <<session, old, tail, call, subs, entries, jobs, indexed, fill, batches, scan,
                   rules, stray>>

\* The actress's page was read; the request stands behind the last one for her.
NameRead(t) ==
    /\ At(t, "name")
    /\ call' = [call EXCEPT ![t].pc = "lock", ![t].prev = tail[call[t].actress]]
    /\ tail' = [tail EXCEPT ![call[t].actress] = t]
    /\ UNCHANGED <<session, remembered, old, subs, entries, jobs, indexed, fill, batches, scan,
                   rules, stray>>

NameFails(t) ==
    /\ At(t, "name")
    /\ call' = [call EXCEPT ![t] = NoCall]
    /\ OnlyCall

SubsOf(a) == {s \in All(subs) : subs[s].actress = a}

\* First in the lock: is there a subscription to her?
Look(t) ==
    /\ At(t, "lock") /\ call[t].prev = None
    /\ LET known == SubsOf(call[t].actress)
           dup == IF known = {} THEN Zero ELSE Min(known)
       IN  call' = [call EXCEPT ![t].pc = "plan", ![t].dup = dup,
                       ![t].seen = IF dup = Zero THEN None ELSE subs[dup]]
    /\ OnlyCall

ScanningOf(s) == {b \in All(batches) : batches[b].sub = s /\ batches[b].status = "scanning"}
PendingBatch(s) == IF ScanningOf(s) = {} THEN Fresh ELSE Max(ScanningOf(s))

AlwaysNew(c) == IF c.seen = None \/ ~c.seen.done THEN Fresh ELSE Zero

\* The full scan that will announce the film, as the subscription looked.
BatchFor(c) ==
    CASE c.dup = Zero -> IF rules.paged THEN Fresh ELSE Zero
      [] c.dup # Zero /\ c.seen.done -> Zero
      [] OTHER -> IF c.seen.run # Zero THEN c.seen.run ELSE PendingBatch(c.dup)

Plan(t) ==
    /\ At(t, "plan")
    /\ call' = [call EXCEPT ![t].pc = "match", ![t].batch = BatchFor(call[t]), ![t].rules = rules]
    /\ OnlyCall

\* The film's columns, from the result at hand and the rules read before.
Settled(s, r) ==
    LET first == s.magnet = "pending" /\ r.magnet /\ r.library
    IN  [magnet |-> CASE s.magnet \in {"found", "not_found", "failed"} -> s.magnet
                      [] s.magnet = "disabled" \/ ~r.magnet \/ first -> "unsearched"
                      [] OTHER -> "pending",
         release |-> CASE s.release = "pending" -> IF r.release THEN "pending" ELSE "unavailable"
                       [] OTHER -> s.release,
         library |-> IF first THEN "pending" ELSE "unconfigured"]

\* In the transaction: the film may be in the archive already.
Match(t) ==
    /\ At(t, "match")
    /\ LET known == IF call[t].dup = Zero THEN {}
                    ELSE Matches(OfSub(call[t].dup), session[call[t].sid].code)
       IN  call' = [call EXCEPT ![t].pc = "commit",
                       ![t].found = IF known = {} THEN Zero ELSE Min(known),
                       ![t].settled = Settled(session[call[t].sid], call[t].rules)]
    /\ OnlyCall

\* The scan that the plan counted on has not moved since.
StillAhead(s) == Present(subs, s) /\ ~subs[s].done /\ subs[s].run = Zero /\ scan[s] = None

Commit(t) ==
    LET c == call[t]
        s == IF c.dup # Zero THEN c.dup ELSE NextId(subs, SubIds)
        b == IF c.batch = Fresh THEN NextId(batches, BatchIds) ELSE c.batch
        e == NextId(entries, EntryIds)
        code == session[c.sid].code
    IN  /\ At(t, "commit")
        /\ c.dup = Zero => Unused(subs) # {}
        /\ c.batch = Fresh => Unused(batches) # {}
        /\ Unused(entries) # {}
        /\ subs' = IF c.dup # Zero THEN subs
                   ELSE [subs EXCEPT ![s] = [actress |-> c.actress, done |-> ~rules.paged,
                                             run |-> Zero, based |-> FALSE]]
        /\ batches' = IF c.batch # Fresh THEN batches
                      ELSE [batches EXCEPT ![b] = [sub |-> s, status |-> "scanning"]]
        /\ IF c.found = Zero
           THEN /\ entries' = [entries EXCEPT ![e] = NewEntry(s, code, c.settled, b)]
                /\ indexed' = WithCodes(e)
                /\ jobs' = jobs \cup {<<e, k>> : k \in Wanted(c.settled)}
           ELSE /\ entries' = IF Present(entries, c.found) /\ entries[c.found].batch = Zero
                              THEN [entries EXCEPT ![c.found].batch = b] ELSE entries
                /\ UNCHANGED <<indexed, jobs>>
        /\ stray' = IF c.batch = Fresh /\ c.dup # Zero /\ ~StillAhead(s) THEN stray \cup {b} ELSE stray
        /\ Go(t, "answer")
        /\ UNCHANGED <<session, remembered, old, tail, fill, scan, rules>>

\* No group of rules to subscribe with, or a statement that failed.
SubscriptionFails(t) ==
    /\ call[t].pc \in {"plan", "match", "commit"}
    /\ Go(t, "answer")
    /\ OnlyCall

\* The lock goes to the request behind; the last one removes it.
NobodyTold(t) == [call EXCEPT ![t] = NoCall]
Resolved(t) == [u \in Tabs |-> CASE u = t -> NoCall
                                 [] u # t /\ call[u].prev = t -> [call[u] EXCEPT !.prev = None]
                                 [] OTHER -> call[u]]
AlwaysRemoved(t) == [tail EXCEPT ![call[t].actress] = None]
LastRemoves(t) == IF tail[call[t].actress] = t THEN [tail EXCEPT ![call[t].actress] = None] ELSE tail

Answer(t) ==
    /\ At(t, "answer")
    /\ call' = Resolved(t)
    /\ tail' = LastRemoves(t)
    /\ UNCHANGED <<session, remembered, old, subs, entries, jobs, indexed, fill, batches, scan,
                   rules, stray>>

SubscriptionStep(t) ==
    \/ NameRead(t) \/ NameFails(t)
    \/ Look(t) \/ Plan(t) \/ Match(t) \/ Commit(t) \/ Answer(t)

-----------------------------------------------------------------------------
(* What goes on around it.                                                 *)

OnlyTables == UNCHANGED <<session, remembered, old, tail, call, fill, rules, stray>>

\* A full scan: it takes up the run or the pending batch it finds, ...
ScanReads(s) ==
    /\ Present(subs, s) /\ ~subs[s].done /\ scan[s] = None
    /\ scan' = [scan EXCEPT ![s] = IF subs[s].run # Zero THEN subs[s].run ELSE PendingBatch(s)]
    /\ UNCHANGED <<subs, entries, jobs, indexed, batches>> /\ OnlyTables

\* ... opens its run once the first page is read ...
ScanOpens(s) ==
    LET b == IF scan[s] = Fresh THEN NextId(batches, BatchIds) ELSE scan[s]
    IN  /\ scan[s] # None /\ Present(subs, s) /\ subs[s].run = Zero
        /\ scan[s] = Fresh => Unused(batches) # {}
        /\ subs' = [subs EXCEPT ![s].run = b]
        /\ batches' = [batches EXCEPT ![b] = [sub |-> s, status |-> "scanning"]]
        /\ scan' = [scan EXCEPT ![s] = b]
        /\ UNCHANGED <<entries, jobs, indexed>> /\ OnlyTables

\* ... and archives the films that the subscription does not have.
ScanStores(s) ==
    /\ Present(subs, s) /\ subs[s].run # Zero /\ scan[s] = subs[s].run
    /\ \E c \in Codes \cup {None} :
          LET e == NextId(entries, EntryIds)
              b == subs[s].run
              new == c # None /\ Matches(OfSub(s), c) = {}
              Adopted == [i \in EntryIds |->
                             IF Present(entries, i) /\ entries[i].sub = s /\ entries[i].batch = Zero
                                /\ ~subs[s].based
                             THEN [entries[i] EXCEPT !.batch = b] ELSE entries[i]]
              settled == Settled([magnet |-> "pending", release |-> "pending"], rules)
          IN  /\ c # None => \E a \in Performers[c] : subs[s].actress = a
              /\ new => Unused(entries) # {}
              /\ entries' = IF new THEN [Adopted EXCEPT ![e] = NewEntry(s, c, settled, b)] ELSE Adopted
              /\ indexed' = IF new THEN WithCodes(e) ELSE indexed
              /\ jobs' = IF new THEN jobs \cup {<<e, k>> : k \in Wanted(settled)} ELSE jobs
              /\ batches' = [batches EXCEPT ![b].status = "processing"]
    /\ subs' = [subs EXCEPT ![s].run = Zero, ![s].done = TRUE, ![s].based = TRUE]
    /\ scan' = [scan EXCEPT ![s] = None]
    /\ OnlyTables

\* Its last attempt fails: no batch of the subscription is waited for any more.
ScanFails(s) ==
    /\ scan[s] # None
    /\ batches' = [b \in BatchIds |-> IF b \in ScanningOf(s)
                                      THEN [batches[b] EXCEPT !.status = "scan_failed"] ELSE batches[b]]
    /\ scan' = [scan EXCEPT ![s] = None]
    /\ UNCHANGED <<subs, entries, jobs, indexed>> /\ OnlyTables

\* DELETE /api/subscriptions/:id and what a full scan does without its row.
DeleteSubscription(s) ==
    /\ Present(subs, s)
    /\ entries' = Deleted(entries, OfSub(s))
    /\ indexed' = indexed \ OfSub(s)
    /\ jobs' = {j \in jobs : j[1] \notin OfSub(s)}
    /\ subs' = Deleted(subs, {s})
    /\ scan' = [scan EXCEPT ![s] = None]
    /\ UNCHANGED <<batches>> /\ OnlyTables

\* DELETE archive: the next scan is a first one again.
ClearArchive(s) ==
    /\ Present(subs, s) /\ scan[s] = None
    /\ entries' = Deleted(entries, OfSub(s))
    /\ indexed' = indexed \ OfSub(s)
    /\ jobs' = {j \in jobs : j[1] \notin OfSub(s)}
    /\ subs' = [subs EXCEPT ![s].done = ~rules.paged, ![s].run = Zero, ![s].based = FALSE]
    /\ UNCHANGED <<scan, batches>> /\ OnlyTables

\* The lookup of a film ends; Jellyfin's answer may call for a magnet.
WorkEnds(e, k) ==
    /\ <<e, k>> \in jobs
    /\ \E answer \in {"found", "failed"} : entries' = [entries EXCEPT ![e][k] = answer]
    /\ jobs' = jobs \ {<<e, k>>}
    /\ UNCHANGED <<subs, indexed, batches, scan>> /\ OnlyTables

RulesChange ==
    /\ rules' = [rules EXCEPT !.magnet = ~@]
    /\ UNCHANGED <<session, remembered, old, tail, call, subs, entries, jobs, indexed, fill,
                   batches, scan, stray>>

\* The API restarts: what it held in memory is gone, its transactions with it.
ServerRestarts ==
    /\ remembered' = <<>>
    /\ tail' = [a \in Actresses |-> None]
    /\ call' = [t \in Tabs |-> NoCall]
    /\ fill' = [fill EXCEPT !.target = None]
    /\ UNCHANGED <<session, old, subs, entries, jobs, indexed, batches, scan, rules, stray>>

\* An actress may be subscribed to, with films from before there was an index.
ServerInit ==
    /\ session = [i \in SessionIds |-> None]
    /\ remembered = <<>> /\ old = {}
    /\ tail = [a \in Actresses |-> None]
    /\ call = [t \in Tabs |-> NoCall]
    /\ rules \in RuleSets
    /\ \E known \in Actresses \cup {None}, film \in Codes \cup {None} :
          /\ subs = [s \in SubIds |-> IF s = 1 /\ known # None
                        THEN [actress |-> known, done |-> ~rules.paged, run |-> Zero, based |-> FALSE]
                        ELSE None]
          /\ film # None => known # None
          /\ entries = [e \in EntryIds |-> IF e = 1 /\ film # None
                           THEN [sub |-> 1, code |-> film, magnet |-> "found", release |-> "found",
                                 library |-> "unconfigured", batch |-> Zero]
                           ELSE None]
    /\ jobs = {} /\ indexed = {}
    /\ fill = [target |-> None, cursor |-> Zero, done |-> FALSE]
    /\ batches = [b \in BatchIds |-> None]
    /\ scan = [s \in SubIds |-> None]
    /\ stray = {}

=============================================================================
