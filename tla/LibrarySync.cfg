\* One engine one fault (a crash or a failing request), one change of the settings or manual sync.
SPECIFICATION FairSpec
CONSTANTS
  a1 = a1
  a2 = a2
  l1 = l1
  l2 = l2
  Entries <- TwoEntries
  Libraries <- TwoLibraries
  Items <- SmallItems
  Steady <- OneSteady
  Selections <- WiderOrOff
  First <- OneOrBoth
  MaxRequests = 1
  MaxMoves = 1
  MaxIntervals = 1
  MaxFaults = 1
  ChangesRace = FALSE
  EarlyExit = FALSE
INVARIANT ReadyIndexIsWhole
PROPERTY SyncKeepsWhatIsThere
 
CHECK_DEADLOCK FALSE
