CONSTANTS
  NumRanks = 3
  MaxCode = 1
  MaxIterations = 2
  MaxFaults = 2
  Fuel = 19
  Code <- MCCode
  Entries <- MCLoneEntries
SPECIFICATION Spec
INVARIANTS
  LoneReturnAgreed
