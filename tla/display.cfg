SPECIFICATION FairSpec
CONSTANTS
  DRAW_JOB_QUEUE_SIZE = 2
  STERILIZER_MAILBOX_SIZE = 1
  MaxValue = 1
  MaxPresses = 2
  MaxUpdates = 1
INVARIANTS
  TypeOK
  JobsConserved
  ShownOrPending
PROPERTIES
  DisplayCatchesUp
  RunCanBeStopped
  StopIsObeyed
CHECK_DEADLOCK FALSE
