SPECIFICATION FairSpec
CONSTANTS
  ERR_HANDL_MAILBOX_SIZE = 1
  FUZZYREG_MAILBOX_SIZE = 6
  STERILIZER_MAILBOX_SIZE = 4
  FILE_BUFFER_SIZE = 1
  Cards = {"READY", "FULL"}
  CHANNEL_NUM = 1
  DutyCycles = {0}
  RESULT_LIST_SIZE = 1
  NUM_OF_TEMP_SWING = 0
  SAVE_INTERVAL = 2
  ERROR_LIST_MAX_SIZE = 1
  FUSE_NUM = 0
  MaxPresses = 1
  MaxFaults = 1
PROPERTIES
  ErrorDisablesHeat
  ErrorStopsRun
  EndOfRunStopsHeat
  SaveEnds
CHECK_DEADLOCK FALSE
