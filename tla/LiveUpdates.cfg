\* Two tabs, one archive and the log; every bound counts over a whole behaviour.
SPECIFICATION Spec
CONSTANTS
  tab1 = tab1
  tab2 = tab2
  line = line
  counter = counter
  Tabs <- TwoTabs
  Logs <- OneLine
  Metrics <- OneCounter
  Limit = 2
  Budgets <- Some
INVARIANT OneStream
 
PROPERTY NothingIsForgotten
SYMMETRY TabSymmetry
CHECK_DEADLOCK FALSE
