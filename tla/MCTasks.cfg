CONSTANTS
  WORD = 4
  MaxPid = 2
  MaxElapsed = 4
  Lines <- MCLines
SPECIFICATION FairSpec
PROPERTIES SleepNotEarly  SleepReturns EveryIrqTaken
