SPECIFICATION FairSpec
CONSTANTS
  CHANNEL_NUM = 2
  RUNNING_AVG_FIFO_SIZE = 2
  H_DELTA = 4
  STERILE_TEMP = 9720
  TEMP_FIFO_SIZE = 1
  Readings <- MCReadings
  NoReading = NoReading
  MaxFaults = 1
INVARIANTS
  TypeOK
  ReportsAreMeasured
PROPERTIES
  SteadyReports
  SlopesAddUp
  ControlIsTotal
  HotterIsHeatedLess
  InitEnds
