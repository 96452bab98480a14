CONSTANTS
  Infos <- MCInfos
  NIBBLE = 4
  TssAddrs <- MCTssAddrs
SPECIFICATION FairSpec
PROPERTY ReachesPrompt
