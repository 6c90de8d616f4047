----------------------------- MODULE MCFullScan -----------------------------
(* Model values for the runs of FullScan. *)
EXTENDS FullScan

CONSTANTS s1, s2

OneScanner == {s1}
TwoScanners == {s1, s2}

\* Failures with a deleted archive and a requested scan; failures with edits;
\* edits with a deleted archive and a requested scan.
MCBudgets == {
  [resets |-> 1, requests |-> 1, failures |-> 2, edits |-> 0],
  [resets |-> 0, requests |-> 0, failures |-> 2, edits |-> 2],
  [resets |-> 1, requests |-> 1, failures |-> 0, edits |-> 2]}
=============================================================================
