\* Two pages at a time, a third one waiting, two children and two troubles.
SPECIFICATION ExecutorSpec
CONSTANTS
  capture = capture
  preview = preview
  magnet = magnet
  Tasks <- Pages
  Priority <- Urgency
  Plain <- Searches
  Capacities <- BothProfiles
  Browsers = {1, 2, 3}
  MaxQueued = 1
  MaxTrouble = 2
  MaxChildren = 3
INVARIANT NoRequestIsForgotten
INVARIANT NoBrowserLeaks
INVARIANT NeverRecycledUnderAPage
CHECK_DEADLOCK FALSE
