CONSTANTS
  NumRanks = 2
  Peers <- TwoPeriodicBlocks
  Plan <- FiveRounds
  EpochExchanges = 2
  ReserveStages = 2
  MaxFaults = 3
  FaultKinds = {"reject", "rebind", "start", "wait", "pending", "requests",
                "reserve", "epochReject", "epochRebind", "epochStart",
                "epochWait"}
SPECIFICATION FairSpec
INVARIANTS
  FreshGhosts
  AgreedOutcomes
  QuietBetweenRounds
  PoisonedTogether
PROPERTIES
  RoundsReturn
  ImplementsRounds
CHECK_DEADLOCK FALSE
