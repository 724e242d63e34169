SPECIFICATION Spec
CONSTANTS
  NumFiles = 2
  MaxChunks = 2
  FileCap = 4
  Configs <- SafetyConfigs
INVARIANTS TypeOK NoTornDestination OldVersionKept NoTempLeftBehind ResultsMatchCommits
  ConfirmedMeansSafe CleanExitAccountsForAll
