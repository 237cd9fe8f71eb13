SPECIFICATION ProxySpec
CONSTANTS
  r1 = r1
  r2 = r2
  r3 = r3
  r4 = r4
  a = a
  b = b
  c = c
  None = None
  Entries <- OneModel
  Request <- Three
  Wants <- AllToA
  Generates <- Three
  Memory <- Sizes
  Budget = 3
  Resident <- OnlyA
  Generating <- OnlyA
  Batched <- Nothing
  MaxNumSeqs = 2
  MaxInFlight = 3
  MayLeave <- OnlyFirst
  MayDie <- Nothing
  MayStall <- Nothing
  MayNotStart <- Nothing
  MaxStarts = 2
INVARIANT NeverBusy
CHECK_DEADLOCK FALSE
