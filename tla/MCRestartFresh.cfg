CONSTANTS
  Ranks = {r1, r2}
  Manifest = Manifest
  MaxWrites = 3
  Steps = {1, 2}
  KeepLast = 1
  Fresh = TRUE
SPECIFICATION Spec
INVARIANT DurableKept
