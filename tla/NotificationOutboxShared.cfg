\* Two engines on the same rows and batches; a delivery may be cut off.
SPECIFICATION Spec
CONSTANTS
  e1 = e1
  e2 = e2
  f1 = f1
  NoFailure = NoFailure
  Engines <- TwoEngines
  Failures <- OneFailure
  MaxBatches = 1
  MaxRows = 2
  MaxCrashes = 1
  MaxDeliveryAttempts = 2
  LaterWork = FALSE
SYMMETRY EnginesAlike
INVARIANT DelivererOwnsRow
INVARIANT SentWasDelivered
INVARIANT AnnouncedOnce
CHECK_DEADLOCK FALSE
