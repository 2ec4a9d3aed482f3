\* Trading with a third of a cent lost in every division and an order of
\* each size: partial fills, merges, price improvement and refunds.
CONSTANTS
  Dollar = 3
  FeeBps = 1
  BpsBase = 2
  MinOrder = 2
  MaxLevels = 2
  MaxOrderId = 3
  NoOrder = NoOrder
  Users = {u1, u2}
  Funds = 3
  OrderQtys = {2, 3}
  MaxFillsSet = {10}
  CrankBatches = {2}
  Close = 9
  Blackout = 0
  Staleness = 1
  AdminDelay = 1
  Window = 1
  MaxOverrides = 1
  Strike = 2
  FeedPrices = {}
  FeedAges = {}
  OtherObligations = 0
  MayPause = FALSE
  MaxMinted = 4
  MaxTime = 1
SYMMETRY Symmetry
VIEW View
SPECIFICATION Spec
INVARIANTS TypeOK EscrowBacksBook VaultBacksTokens MoneyConserved
PROPERTIES MakersPaidTheirPrice
CHECK_DEADLOCK FALSE
