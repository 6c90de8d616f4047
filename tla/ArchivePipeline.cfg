\* One entry and two disturbances: requests, failures or deaths, and acts of outsiders.
SPECIFICATION FairSpec
CONSTANTS
  a1 = a1
  Entries <- OneEntry
  FirstRules <- LibraryOrRelease
  FirstOptions <- Staged
  MaxEvents = 2
  MaxRequests = 1
  MaxFaults = 1
  MaxMoves = 1
  MaxMeddling = 2
INVARIANT PendingHasWork
 
INVARIANT NotifiedOncePerCycle
CHECK_DEADLOCK FALSE
PROPERTY EveryLookupSettles
 
