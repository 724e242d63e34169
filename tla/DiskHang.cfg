SPECIFICATION FairSpec
CONSTANTS
  NumFiles = 1
  MaxChunks = 5
  FileCap = 1
  Configs <- HangConfigs
PROPERTIES ShutsDown
CHECK_DEADLOCK FALSE
