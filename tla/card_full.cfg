SPECIFICATION FairSpec
CONSTANTS
  SDC_POLLING_INTERVAL = 2
  FILE_BUFFER_SIZE = 1
  ResultLines = 1
  Cards = {"FULL"}
  Failures = {}
  Hasty = FALSE
  MaxSwaps = 1
PROPERTY LinesArePosted
CHECK_DEADLOCK FALSE
