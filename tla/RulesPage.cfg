SPECIFICATION RulesPageSpec
CONSTANTS
  page = page
  c1 = c1
  c2 = c2
  s1 = s1
  Page = page
  Clients <- MCClients
  Subs <- MCSubs
  Host <- MCHost
  MaxGroup = 3
  Readings <- MCReadings
  SiteSets <- MCSiteSets
  StepSets <- MCStepSets
  Kinds <- MCKinds
  Patterns <- MCPatterns
  Own = "own"
  MaxSites = 1
  DefaultSites <- MCDefaultSites
  Blank = ""
  None = None
  RuleBudgets <- MCBudgets
 
INVARIANT UnionIsOfTheGroups
 
PROPERTY BuiltinStays
CHECK_DEADLOCK FALSE
