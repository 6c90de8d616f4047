\* Two engines on one database; no execution outlives ten minutes.
SPECIFICATION Spec
CONSTANTS
  e1 = e1
  e2 = e2
  p1 = p1
  p2 = p2
  s1 = s1
  s2 = s2
  NoSubject = NoSubject
  Engines <- TwoEngines
  Producers <- OneProducer
  Subjects <- OneSubject
  MaxJobs = 2
  MaxCrashes = 1
  MaxAttempts = 2
  OverrunAllowed = FALSE
  TicksUnprompted = FALSE
INVARIANT ExclusiveExecution
INVARIANT ExecutorOwnsRow
 
CHECK_DEADLOCK FALSE
