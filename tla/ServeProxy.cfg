SPECIFICATION TwoAndOneSpec
CONSTANTS
  r1 = r1
  r2 = r2
  r3 = r3
  r4 = r4
  a = a
  b = b
  c = c
  None = None
  Entries <- ThreeModels
  Request <- Four
  Wants <- Targets
  Generates <- LastTwo
  Memory <- Sizes
  Budget = 3
  Resident <- OnlyB
  Generating <- OnlyC
  Batched <- OnlyC
  MaxNumSeqs = 2
  MaxInFlight = 2
  MayLeave <- OnlyFirst
  MayDie <- OnlyA
  MayStall <- OnlyA
  MayNotStart <- OnlyC
  MaxStarts = 2
INVARIANTS
  WithinBudget
  FaultsStayInTheirModel
  NeverBusy
PROPERTIES
  DeadChildIsReplaced
  EveryForwardEnds
CHECK_DEADLOCK FALSE
