SPECIFICATION Spec
CONSTANTS
  ERR_HANDL_MAILBOX_SIZE = 1
  FUZZYREG_MAILBOX_SIZE = 2
  STERILIZER_MAILBOX_SIZE = 2
  FILE_BUFFER_SIZE = 1
  Cards = {}
  CHANNEL_NUM = 1
  DutyCycles <- MCDutyCycles
  RESULT_LIST_SIZE = 2
  NUM_OF_TEMP_SWING = 0
  SAVE_INTERVAL = 2
  ERROR_LIST_MAX_SIZE = 1
  FUSE_NUM = 1
  MaxPresses = 3
  MaxFaults = 1
INVARIANTS
  TypeOK
  FailSafe
  ListedErrorDisables
  QuietUnlessActive
  HeatFollowsSterilizer
  SuccessIsSterile
PROPERTIES
  ErrorsAreFinal
  DisableComesFirst
  RecordsAreKept
  IsFailSafeHeater
CHECK_DEADLOCK FALSE
