----------------------------- MODULE MCCodeSearch -----------------------------
(* Two tabs, two films of which one has a second actress.                   *)
EXTENDS CodeSearchPage

CONSTANTS t1, t2, film, other, alice

MCTabs == {t1, t2}
MCCodes == {film, other}
MCActresses == {alice}
MCPerformers == (film :> {alice}) @@ (other :> {alice})

\* One with paginated full scans, one that looks in the library first.
MCRuleSets == {[magnet |-> TRUE, release |-> TRUE, library |-> FALSE, paged |-> TRUE],
               [magnet |-> TRUE, release |-> TRUE, library |-> TRUE, paged |-> FALSE]}

Symmetry == Permutations(MCTabs)

Plain == [searches |-> 2, retries |-> 0, subscribing |-> 1, restarts |-> 0, scans |-> 0,
          deletions |-> 0, work |-> 0, ages |-> 0, failures |-> 0, rules |-> 0, fills |-> 0]
Waiting == [Plain EXCEPT !.subscribing = 3, !.failures = 1]
Scanning == [Plain EXCEPT !.subscribing = 2, !.scans = 1]
Interrupted == [Plain EXCEPT !.retries = 2, !.restarts = 1, !.rules = 1,
                         !.subscribing = 0]
Indexing == [Plain EXCEPT !.fills = 1, !.scans = 1, !.deletions = 1, !.searches = 1]
Resuming == [Plain EXCEPT !.fills = 2, !.restarts = 1, !.searches = 1]
Evicting == [Plain EXCEPT !.searches = 3, !.subscribing = 0]
Working == [Plain EXCEPT !.work = 1]
Expiring == [Plain EXCEPT !.ages = 1, !.rules = 1]
MCBudgets == {Waiting, Scanning, Interrupted, Indexing, Resuming, Evicting, Working, Expiring}
=============================================================================
