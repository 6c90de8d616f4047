\* One engine: rows and batches dispatch their own handler, later work does after a crash.
SPECIFICATION FairSpec
CONSTANTS
  e1 = e1
  e2 = e2
  f1 = f1
  NoFailure = NoFailure
  Engines <- OneEngine
  Failures <- NoFailures
  MaxBatches = 2
  MaxRows = 2
  MaxCrashes = 1
  MaxDeliveryAttempts = 2
  LaterWork = TRUE
PROPERTY EveryNotificationSettles
 
CHECK_DEADLOCK FALSE
