SPECIFICATION PartsSpec
CONSTANTS
  Block = {b1, b2, b3}
  SequenceId = {s1, s2, s3}
  Key = {k1, k2}
  None = None
  NumBlocks = 4
  NIL = 99
  p1 = p1
  p2 = p2
  i1 = i1
  i2 = i2
  Identity = {i1, i2}
  Prompt <- Chats
  CacheBudget = 7
  StoreBudget <- Shrinking
  WriteQueue = 2
  MaxTurns = 3
  MaxKills = 1
  MaxStoreFaults = 1
  Reader = {p1, p2}
  Wanted <- Reads
  Version <- RowVersions
  MaxFetches = 2
  MaxStops = 2
  MaxRowFaults = 1
  Thread = {p1, p2}
  Tensor = {"1a", "1b", "2a", "3a"}
  ExpertOf <- Belongs
  Pinned = {3}
  MaxAcquired = 2
  Squeeze = {0, 1}
  Content <- Served
  JournalFactor = 0
  JournalSlack = 1
  MaxDownloads = 3
  MaxRestarts = 1
  PageTokens = 2
  PageCount = 3
  Demand = {0, 1, 2, 3, 5, 7}
  MaxId = 5
  Vocabulary = {0, 1, 2}
  EndTurn = 0
  Limit = 6
  Prompts <- TurnPrompts
  Picking = {"rows", "greedy", "sampled"}
  MinNgram = 1
  MaxNgram = 2
  MaxDraft = 3
  MayClose = TRUE
  Formats <- BothFormats
  MaxText = 6
  MaxUses = 1
  MaxPieces = 2
  MaxCalls = 2
  Schedule <- SevenLayers
  Window = 3
  MaxTokens = 9
  MaxStepTokens = 4
  Asked = {0, 1, 2, 3, 5, 6}
  MaxRebuilds = 1
SYMMETRY Symmetric
CHECK_DEADLOCK FALSE
INVARIANTS
  LedgerInv
  LinksAgree
  ReusesOwnValues
  BytesExact
  RowsReadBack
  WithinEnvelope
  KvIsTheTurns
  WithholdsMarkersOnly
  OutputMatchesEvents
  EarlyFailureIsHttp
  StreamedMessageIsWhole
  ReadsOwnPast
  LayersInStep
PROPERTIES
  ImplementsOrder
  RestartKeepsNewest
  RowsSurvive
  
  PagesAreReserved
  ImplementsPlain
