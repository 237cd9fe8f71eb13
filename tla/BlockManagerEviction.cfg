SPECIFICATION Spec
CONSTANTS
  NumBlocks = 3
  BlockTokens = 2
  PrefixCaching = TRUE
  None = None
  s1 = s1
  s2 = s2
  s3 = s3
  SequenceId <- Sequences2
  Token = {1}
  HashKeys <- NoKeys
  Prompts <- PromptsFull
  MaxTokens = 4
SYMMETRY SymmetricIds
INVARIANT ChainsEvictedFromTail
