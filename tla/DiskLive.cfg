SPECIFICATION FairSpec
CONSTANTS
  NumFiles = 3
  MaxChunks = 1
  FileCap = 1
  Configs <- LiveConfigs
PROPERTIES ShutsDown
