SPECIFICATION FairSpec
CONSTANTS
  Items = 5
  TickWindow = 2
  Configs <- OneThread
PROPERTY SubmitReturns
CHECK_DEADLOCK FALSE
