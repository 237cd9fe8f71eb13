SPECIFICATION Spec
CONSTANTS
  NumBlocks = 2
  BlockTokens = 2
  PrefixCaching = TRUE
  None = None
  s1 = s1
  s2 = s2
  s3 = s3
  SequenceId <- Sequences3
  Token = {1, 2}
  HashKeys <- MixedKeys
  Prompts <- PromptsTails
  MaxTokens = 3
SYMMETRY SymmetricIds
INVARIANT Accounting
INVARIANT ReadsOwnTokens
