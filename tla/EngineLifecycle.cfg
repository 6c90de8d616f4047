SPECIFICATION FairSpec
CONSTANTS
  Modes <- MCModes
  MaxWakes = 1
PROPERTY OneEngine
PROPERTY WorkIsHandled
PROPERTY EngineSleeps
CHECK_DEADLOCK FALSE
