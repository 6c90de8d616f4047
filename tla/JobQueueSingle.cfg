\* One engine, dispatched by a schedule too, and executions of any length.
SPECIFICATION FairSpec
CONSTANTS
  e1 = e1
  e2 = e2
  p1 = p1
  p2 = p2
  s1 = s1
  s2 = s2
  NoSubject = NoSubject
  Engines <- OneEngine
  Producers <- TwoProducers
  Subjects <- OneSubject
  MaxJobs = 2
  MaxCrashes = 1
  MaxAttempts = 2
  OverrunAllowed = TRUE
  TicksUnprompted = TRUE
INVARIANT UniqueActive
INVARIANT RetryBudget
PROPERTY EveryJobSettles
CHECK_DEADLOCK FALSE
