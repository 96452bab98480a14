CONSTANTS
  Tables <- MCTables
  Names <- MCNames
  BUF = 2
  ROW = 3
  WORD = 16
  Blank = Blank
  Dot = Dot
  UPTIME = 42949672
  MEGABYTES = 4096
  LONG = 12
  SHORT = 4
  Seconds = {0, 59, 60, 3599, 3600, 3661, 36000, 35999999, 36000000, 42949672}
  Megabytes = {0, 9, 10, 99, 100, 1000, 4095}
  Numbers = {0, 10, 99, 2147483647}
  Formats <- MCFormats
  SECS = 11
  MINS = 2
  HOURS = 3
  MaxTicks = 2
SPECIFICATION FairSpec
INVARIANTS FileShownWhole NumeralsExact OverrunOnlyInHours 
PROPERTY CommandsEnd
CHECK_DEADLOCK FALSE
