--------------------------- MODULE MCLiveUpdates ---------------------------
EXTENDS LiveUpdates
CONSTANTS tab1, tab2, line, counter
TwoTabs == {tab1, tab2}
TabSymmetry == Permutations(TwoTabs)
OneLine == {line}
OneCounter == {counter}

Budget(records, stops, writes, faults, acts, ties, views) ==
  [records |-> records, stops |-> stops, writes |-> writes, faults |-> faults,
   acts |-> acts, ties |-> ties, views |-> views]
Either == {{"archive"}, {"logs"}}
Archive == {{"archive"}}
\* A failing engine without a tab; a page whose events are lost; tabs that come
\* and go; and all of it in small.
Some ==
  {Budget(2, 1, 0, 2, 0, 0, {}), Budget(0, 0, 1, 1, 1, 0, Either),
   Budget(0, 0, 2, 1, 1, 0, Archive), Budget(0, 0, 0, 0, 3, 1, Archive),
   Budget(0, 0, 1, 0, 2, 0, Archive), Budget(1, 0, 0, 0, 2, 0, {{"logs"}, {}})}
=============================================================================
