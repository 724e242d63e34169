SPECIFICATION FairSpec
CONSTANTS
  Items = 5
  TickWindow = 2
  Configs <- GoodConfigs
INVARIANTS TypeOK RingInOrder InOnePlace FlushComplete PermitsBalance
PROPERTIES CallsReturn ImplementsDelivery
