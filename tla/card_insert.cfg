SPECIFICATION FairSpec
CONSTANTS
  SDC_POLLING_INTERVAL = 2
  FILE_BUFFER_SIZE = 1
  ResultLines = 1
  Cards = {"READY"}
  Failures = {}
  Hasty = FALSE
  MaxSwaps = 2
PROPERTY InsertedCardIsMounted
CHECK_DEADLOCK FALSE
