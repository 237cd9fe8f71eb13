SPECIFICATION Spec

CONSTANTS
  r1 = r1
  r2 = r2
  r3 = r3
  None = None
  Request <- ThreeRequests
  PromptTokens <- Prompts
  MaxNew <- ThirdOutgrows
  NumBlocks = 4
  BlockTokens = 2
  MaxNumSeqs = 2
  Pipelines = TRUE
  Greedy <- TwoRequests
  MayCancel <- OnlyFirst
  MayExpire <- OnlyFirst
  MayFail = TRUE

INVARIANTS
  HeldOnce
  BlocksFollowTurns
PROPERTIES
  RefusedOnlyIfTooBig
  OrderKept
  LoneTurnKeepsItsBlocks

\* The engine may stop: it blocks in recv once every turn has ended.
CHECK_DEADLOCK FALSE
