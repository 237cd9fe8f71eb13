SPECIFICATION FairSpec

CONSTANTS
  r1 = r1
  r2 = r2
  r3 = r3
  None = None
  Request <- ThreeRequests
  PromptTokens <- Prompts
  MaxNew <- UpToTwo
  NumBlocks = 5
  BlockTokens = 2
  MaxNumSeqs = 2
  Pipelines = TRUE
  Greedy <- TwoRequests
  MayCancel <- OnlyFirst
  MayExpire <- OnlyFirst
  MayFail = FALSE

PROPERTIES
  EveryTurnEnds
  WritersReleased

\* The engine may stop: it blocks in recv once every turn has ended.
CHECK_DEADLOCK FALSE
