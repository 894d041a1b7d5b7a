SPECIFICATION FairSpec
CONSTANTS
  SDC_POLLING_INTERVAL = 2
  FILE_BUFFER_SIZE = 2
  ResultLines = 3
  Cards <- MCCards
  Failures <- MCFailures
  Hasty = TRUE
  MaxSwaps = 4
INVARIANTS
  TypeOK
  BusyMeansOpen
  StateFollowsDriver
PROPERTIES
  DebouncedInsertion
  ImplementsFileBuffers
  RemovedCardIsNoticed
  WriterIsServed
CHECK_DEADLOCK FALSE
