\* The ledger of a market's collateral on its own.
CONSTANTS
  Amounts <- SmallAmounts
  OverrideWindow = 2
  OverrideLimit = 2
  MintLimit = 5
  LastTick = 3
SPECIFICATION Spec
INVARIANTS TypeOK Solvent WindowsCounted
PROPERTIES OutcomeFinal
CHECK_DEADLOCK FALSE
