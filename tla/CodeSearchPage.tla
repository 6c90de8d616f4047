---------------------------- MODULE CodeSearchPage ----------------------------
(***************************************************************************)
(* The page of the code search (CodeSearchPage in src/App.tsx) with the    *)
(* routes it calls: a search that looks in the archive and then on the     *)
(* site, the magnet looked up once a result is shown, the actresses of an  *)
(* archived film, and subscriptions.  An answer may come after the user    *)
(* has searched for something else.                                        *)
(***************************************************************************)
EXTENDS CodeSearch

CONSTANTS Budgets      \* what a behaviour may hold of each kind of event

VARIABLES search,      \* per tab: the search under way
          shown,       \* per tab: result
          lookups,     \* requests for a magnet under way
          loads,       \* per tab: the actresses of an archived film being read
          local,       \* per tab: the result that reading gave
          left         \* what the behaviour may still hold

pageVars == <<search, shown, lookups, loads, local>>
vars == <<session, remembered, old, tail, call, subs, entries, jobs, indexed, fill, batches,
          scan, rules, stray, search, shown, lookups, loads, local, left>>

Spend(kind) == left[kind] > 0 /\ left' = [left EXCEPT ![kind] = @ - 1]

Nothing == [sid |-> Zero, code |-> None, magnet |-> None, of |-> Zero]
Found(sid, magnet) == [sid |-> sid, code |-> None, magnet |-> magnet, of |-> sid]
Archived(c) == [sid |-> Zero, code |-> c, magnet |-> None, of |-> Zero]
NoLoad == [entry |-> Zero, code |-> None, magnet |-> None, release |-> None]

SessionsOnly == UNCHANGED <<old, tail, call, subs, entries, jobs, indexed, fill, batches, scan,
                            rules, stray>>

-----------------------------------------------------------------------------
(* Searching.                                                              *)

\* The result goes, and the answer to its first magnet request with it.
RunSearch(t, c) ==
    /\ search[t] = None
    /\ search' = [search EXCEPT ![t] = [code |-> c, at |-> "archive"]]
    /\ shown' = [shown EXCEPT ![t] = Nothing]
    /\ local' = [local EXCEPT ![t] = Zero]
    /\ lookups' = {[l EXCEPT !.heard = @ /\ ~(l.tab = t /\ l.first)] : l \in lookups}
    /\ UNCHANGED loads /\ UNCHANGED serverVars

\* Only when the archive has no film of the code is the site asked.
ArchiveAnswers(t) ==
    /\ search[t] # None /\ search[t].at = "archive"
    /\ IF Matches(All(entries), search[t].code) # {}
       THEN /\ search' = [search EXCEPT ![t] = None]
            /\ shown' = [shown EXCEPT ![t] = Archived(search[t].code)]
       ELSE /\ search' = [search EXCEPT ![t].at = "site"]
            /\ UNCHANGED shown
    /\ UNCHANGED <<lookups, loads, local>> /\ UNCHANGED serverVars

SearchEnds(t) == search[t] # None /\ search[t].at = "site" /\ search' = [search EXCEPT ![t] = None]

Lookup(t, sid, nth) == [tab |-> t, sid |-> sid, first |-> nth = 0, nth |-> nth, heard |-> TRUE]

\* The film is remembered and shown; its magnet is asked for at once.
SiteFinds(t) ==
    /\ SearchEnds(t)
    /\ Remember(search[t].code, IF rules.magnet THEN "pending" ELSE "disabled", "found")
    /\ shown' = [shown EXCEPT ![t] = Found(NewSession, session'[NewSession].magnet)]
    /\ lookups' = IF rules.magnet THEN lookups \cup {Lookup(t, NewSession, 0)} ELSE lookups
    /\ UNCHANGED <<loads, local>> /\ SessionsOnly

\* Not found, or the site cannot be read.
SiteFails(t) ==
    /\ SearchEnds(t)
    /\ UNCHANGED <<shown, lookups, loads, local>> /\ UNCHANGED serverVars

-----------------------------------------------------------------------------
(* The magnet of a result.                                                 *)

\* The button stays while a retry is under way.
Retry(t) ==
    /\ shown[t].sid # Zero /\ shown[t].magnet = "failed"
    /\ LET retries == {l \in lookups : l.tab = t /\ ~l.first}
       IN  lookups' = lookups \cup {Lookup(t, shown[t].sid, Cardinality(retries) + 1)}
    /\ UNCHANGED <<search, shown, loads, local>> /\ UNCHANGED serverVars

AnySearch(l) == l.heard
SameSearch(l) == l.heard /\ shown[l.tab].sid = l.sid

\* The answer is shown where its result still is.
Hears(l, magnet) ==
    /\ lookups' = lookups \ {l}
    /\ shown' = IF SameSearch(l)
                THEN [shown EXCEPT ![l.tab].magnet = magnet, ![l.tab].of = l.sid]
                ELSE shown
    /\ UNCHANGED <<search, loads, local>>

\* What the handler finds when it looks at the result first.
Settles(l) ==
    /\ \/ /\ ~Live(l.sid)
          /\ Forget(l.sid) /\ Hears(l, "failed") /\ UNCHANGED session
       \/ /\ Live(l.sid) /\ ~rules.magnet
          /\ session' = [session EXCEPT ![l.sid].magnet = "disabled"]
          /\ Hears(l, "disabled") /\ UNCHANGED remembered
       \/ /\ Live(l.sid) /\ rules.magnet
          /\ session[l.sid].magnet # "pending"
          /\ ~(~l.first /\ session[l.sid].magnet = "failed")
          /\ Hears(l, session[l.sid].magnet) /\ UNCHANGED <<session, remembered>>
    /\ SessionsOnly

\* A lookup that was sent writes its answer to the result, remembered or not.
MagnetRead(l) ==
    /\ session[l.sid].magnet = "pending" \/ (~l.first /\ session[l.sid].magnet = "failed")
    /\ \E answer \in {"found", "failed"} :
          /\ session' = [session EXCEPT ![l.sid].magnet = answer]
          /\ Hears(l, answer)
    /\ UNCHANGED remembered /\ SessionsOnly

-----------------------------------------------------------------------------
(* The actresses of a film of the archive.                                 *)

LoadPerformers(t, e) ==
    /\ shown[t].code # None /\ loads[t] = NoLoad
    /\ Present(entries, e) /\ entries[e].code = shown[t].code
    /\ loads' = [loads EXCEPT ![t] = [entry |-> e, code |-> entries[e].code,
                    magnet |-> IF entries[e].magnet = "unsearched" THEN "pending" ELSE entries[e].magnet,
                    release |-> entries[e].release]]
    /\ UNCHANGED <<search, shown, lookups, local>> /\ UNCHANGED serverVars

\* The result remembered is of the row as it was before the page was read.
PerformersRead(t) ==
    /\ loads[t] # NoLoad
    /\ Remember(loads[t].code, loads[t].magnet, loads[t].release)
    /\ local' = [local EXCEPT ![t] = NewSession]
    /\ loads' = [loads EXCEPT ![t] = NoLoad]
    /\ UNCHANGED <<search, shown, lookups>> /\ SessionsOnly

PerformersFail(t) ==
    /\ loads[t] # NoLoad
    /\ loads' = [loads EXCEPT ![t] = NoLoad]
    /\ UNCHANGED <<search, shown, lookups, local>> /\ UNCHANGED serverVars

-----------------------------------------------------------------------------
(* The system.                                                             *)

OnScreen(t) == {shown[t].sid, local[t]} \ {Zero}

UserActs ==
    \/ \E t \in Tabs, c \in Codes : RunSearch(t, c) /\ Spend("searches")
    \/ \E t \in Tabs : Retry(t) /\ Spend("retries")
    \/ \E t \in Tabs, e \in EntryIds : LoadPerformers(t, e) /\ Spend("searches")
    \/ /\ UNCHANGED pageVars /\ Spend("subscribing")
       /\ \E t \in Tabs : \E sid \in OnScreen(t) :
             \/ SubscriptionRefused(t, sid)
             \/ \E a \in Actresses : AskSubscription(t, sid, a)

Answers ==
    /\ UNCHANGED left
    /\ \/ \E t \in Tabs : ArchiveAnswers(t)
       \/ \E t \in Tabs : SiteFinds(t)
       \/ \E t \in Tabs : SiteFails(t)
       \/ \E t \in Tabs : PerformersRead(t)
       \/ \E t \in Tabs : PerformersFail(t)
       \/ \E l \in lookups : Settles(l)
       \/ \E l \in lookups : MagnetRead(l)

Subscribes == UNCHANGED pageVars /\ UNCHANGED left /\ \E t \in Tabs : SubscriptionStep(t)

\* A restart answers every request under way with an error.
Restart ==
    /\ ServerRestarts /\ Spend("restarts")
    /\ search' = [t \in Tabs |-> None]
    /\ shown' = [t \in Tabs |-> IF \E l \in lookups : l.tab = t /\ SameSearch(l)
                                THEN [shown[t] EXCEPT !.magnet = "failed"] ELSE shown[t]]
    /\ lookups' = {}
    /\ loads' = [t \in Tabs |-> NoLoad]
    /\ UNCHANGED local

Around ==
    /\ UNCHANGED pageVars
    /\ \/ FillStarts /\ Spend("fills")
       \/ (FillPage \/ FillEnds) /\ UNCHANGED left
       \/ \E s \in SubIds : ScanReads(s) /\ Spend("scans")
       \/ \E s \in SubIds : ScanOpens(s) /\ UNCHANGED left
       \/ \E s \in SubIds : ScanStores(s) /\ UNCHANGED left
       \/ \E s \in SubIds : ScanFails(s) /\ UNCHANGED left
       \/ \E s \in SubIds : DeleteSubscription(s) /\ Spend("deletions")
       \/ \E s \in SubIds : ClearArchive(s) /\ Spend("deletions")
       \/ \E e \in EntryIds, k \in {"magnet", "release", "library"} : WorkEnds(e, k) /\ Spend("work")
       \/ \E sid \in SessionIds : Age(sid) /\ Spend("ages")
       \/ \E t \in Tabs : SubscriptionFails(t) /\ Spend("failures")
       \/ RulesChange /\ Spend("rules")

Init ==
    /\ ServerInit
    /\ search = [t \in Tabs |-> None]
    /\ shown = [t \in Tabs |-> Nothing]
    /\ lookups = {}
    /\ loads = [t \in Tabs |-> NoLoad]
    /\ local = [t \in Tabs |-> Zero]
    /\ left \in Budgets

Next == UserActs \/ Answers \/ Subscribes \/ Restart \/ Around

Spec == Init /\ [][Next]_vars

-----------------------------------------------------------------------------
(* Properties.                                                             *)

\* However many requests of any tabs name her, an actress is subscribed to
\* once: the look at the subscriptions and the insert are not one statement,
\* and only the requests' queue keeps them together (code-search.ts:63).
OneSubscriptionPerActress ==
    \A r, s \in All(subs) : subs[r].actress = subs[s].actress => r = s

\* A request stands behind one that is still going and will let it pass, after
\* failures, restarts and in any order of arrival (code-search.ts:69-72).
WaitsForTheLiving ==
    \A t \in Tabs :
        /\ call[t].prev # None =>
              /\ call[call[t].prev].pc \notin {"idle", "name"}
              /\ call[call[t].prev].actress = call[t].actress
        /\ call[t].pc \notin {"idle", "name"} => tail[call[t].actress] # None

\* A film that waits for a full scan to announce it waits for the scan that
\* will be run next, not for a batch no scan takes up (code-search.ts:220):
\* with a second batch its magnet and its date would never be announced.
\* Known to be left is the batch planned before a scan began or ended.
BatchIsScanned ==
    \A e \in All(entries) :
        LET b == entries[e].batch
            s == entries[e].sub
        IN  (b # Zero /\ b \notin stray /\ Present(subs, s) /\ batches[b].status = "scanning") =>
               /\ ~subs[s].done
               /\ \/ subs[s].run = b
                  \/ subs[s].run = Zero /\ \A d \in ScanningOf(s) : d <= b

\* When the slow look through the texts is given up, every film is in the
\* index: those archived meanwhile, by scans and by subscriptions, and those
\* from before, across restarts (archive-code-index.ts:60).
IndexIsWhole == fill.done => All(entries) \subseteq indexed

\* What a tab shows of a magnet is of the result it shows, and where it says
\* that the lookup goes on, an answer is coming (App.tsx:947, 958).
ResultFollowsItsSearch ==
    \A t \in Tabs :
        shown[t].sid # Zero =>
            /\ shown[t].of = shown[t].sid
            /\ shown[t].magnet = "pending" => \E l \in lookups :
                   l.tab = t /\ l.sid = shown[t].sid /\ l.heard

=============================================================================
