----------------------------- MODULE MCRulesPage -----------------------------
(* Two clients besides the page, one subscription, up to three groups. *)
EXTENDS RulesPage

CONSTANTS page, c1, c2, s1

MCClients == {page, c1, c2}
MCSubs == {s1}
MCHost == [s \in MCSubs |-> "x"]
MCReadings == {[selector |-> "a", match |-> Blank, pager |-> FALSE],
               [selector |-> "b", match |-> "p", pager |-> TRUE],
               [selector |-> Blank, match |-> Blank, pager |-> FALSE]}
MCSiteSets == {{}, {"y"}, {"y", "z"}}
MCStepSets == {{"release"}, {"release", "own"}, {Blank}}
MCDefaultSites == {"z"}
MCKinds == {"release"}
MCPatterns == {Blank, "q"}

\* A page of an attentive user and one other request; or requests only.
MCBudgets ==
    {[opens |-> 1, typing |-> 3, saves |-> 2, others |-> 0, legacy |-> 0, restarts |-> 0],
     [opens |-> 1, typing |-> 1, saves |-> 1, others |-> 1, legacy |-> 0, restarts |-> 1],
     [opens |-> 0, typing |-> 0, saves |-> 0, others |-> 3, legacy |-> 0, restarts |-> 0],
     [opens |-> 0, typing |-> 0, saves |-> 0, others |-> 2, legacy |-> 1, restarts |-> 0]}
=============================================================================
