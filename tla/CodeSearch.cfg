CONSTANTS
  t1 = t1
  t2 = t2
  film = film
  other = other
  alice = alice
  None = None
  Fresh = Fresh
  Tabs <- MCTabs
  Codes <- MCCodes
  Actresses <- MCActresses
  Performers <- MCPerformers
  RuleSets <- MCRuleSets
  Budgets <- MCBudgets
  SubIds = {1, 2}
  EntryIds = {1, 2, 3}
  BatchIds = {1, 2, 3}
  SessionIds = {1, 2, 3}
  SessionLimit = 2
  Chunk = 1
SPECIFICATION Spec
SYMMETRY Symmetry
INVARIANT OneSubscriptionPerActress
INVARIANT WaitsForTheLiving
INVARIANT BatchIsScanned
INVARIANT IndexIsWhole
 
CHECK_DEADLOCK FALSE
