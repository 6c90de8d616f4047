\* One web executor: failures, a deleted archive, a requested scan and edits.
SPECIFICATION FairSpec
CONSTANTS
  s1 = s1
  s2 = s2
  Scanners <- OneScanner
  MaxPages = 3
  MaxScans = 5
  Budgets <- MCBudgets
  Slice = 2
  OverrunAllowed = FALSE
 
INVARIANT ArchiveIsOfThisEra
PROPERTY EveryScanIsStored
CHECK_DEADLOCK FALSE
