SPECIFICATION Spec
CONSTANTS
  NumFiles = 1
  MaxChunks = 1
  FileCap = 2
  Configs <- DelayConfigs
INVARIANTS RemovedSourceHasLanded
