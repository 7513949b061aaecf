CONSTANTS
  NumRanks = 2
  Peers <- TwoPeriodicBlocks
  Plan <- TwoRounds
  EpochExchanges = 2
  ReserveStages = 1
  MaxFaults = 1
  FaultKinds = {"epochStart"}
SPECIFICATION FairSpec
PROPERTIES
  EveryRoundReturns
CHECK_DEADLOCK FALSE
