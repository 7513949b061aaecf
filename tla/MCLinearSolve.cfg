CONSTANTS
  NumRanks = 3
  MaxCode = 1
  MaxIterations = 2
  MaxFaults = 2
  Fuel = 19
  Code <- MCCode
  Entries <- MCEntries
SPECIFICATION FairSpec
INVARIANTS
  PacketsExact
  OneSchedule
  SolveAgrees
  FailureNamesRank
  PublishedTogether
  Lockstep
PROPERTIES
  SolveReturns
