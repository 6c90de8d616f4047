---------------------------- MODULE MCLibrarySync ----------------------------
(* Two libraries with one steady item and one that comes and goes.         *)
EXTENDS LibrarySync

CONSTANTS a1, a2, l1, l2

TwoEntries == {a1, a2}
TwoLibraries == {l1, l2}
SmallItems == {<<l1, a1>>, <<l2, a2>>}
OneSteady == {<<l1, a1>>}
OneOrBoth == {<<TRUE, {l1}>>, <<TRUE, {l1, l2}>>}
WiderOrOff == {<<TRUE, {l1}>>, <<TRUE, {l1, l2}>>, <<FALSE, {}>>}
=============================================================================
