SPECIFICATION FairIntake
CONSTANTS
  steer = steer
  again = again
  followup = followup
  post = post
  retry = retry
  attempt = attempt
  executor = executor
  successor = successor
  Item <- MCItem
  Post <- MCPost
  Executor <- MCExecutor
  Runs <- MCRuns
  Key <- MCKey
  Target <- MCTarget
  Expiring <- MCExpiring
  Limit = 1
  SweepLimit = 1
  MaxCrash = 1
INVARIANTS
  IntakeTypeOK
  CommandUsedOnce
  OneTurnPerKey
  AcknowledgedWasUsed
PROPERTIES
  OverdueEnds
CHECK_DEADLOCK FALSE
