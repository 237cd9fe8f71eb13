SPECIFICATION FairSpec

CONSTANTS
  r1 = r1
  r2 = r2
  r3 = r3
  None = None
  Request <- TwoRequests
  PromptTokens <- Prompts
  MaxNew <- UpToThree
  NumBlocks = 3
  BlockTokens = 2
  MaxNumSeqs = 2
  Pipelines = TRUE
  Greedy <- TwoRequests
  MayCancel <- OnlyFirst
  MayExpire <- NoRequest
  MayFail = FALSE

PROPERTIES
  EveryTurnEnds

\* The engine may stop: it blocks in recv once every turn has ended.
CHECK_DEADLOCK FALSE
