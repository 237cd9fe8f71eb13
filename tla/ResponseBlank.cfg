SPECIFICATION ResponseSpec
CONSTANTS
  MaxUses = 1
  MaxPieces = 2
  MaxCalls = 2
CHECK_DEADLOCK FALSE
INVARIANT DeltasNameOutput
