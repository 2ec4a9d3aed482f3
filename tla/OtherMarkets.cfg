\* Two other pairs are owed by settled markets while this one trades.
CONSTANTS
  Dollar = 2
  FeeBps = 1
  BpsBase = 2
  MinOrder = 2
  MaxLevels = 2
  MaxOrderId = 3
  NoOrder = NoOrder
  Users = {u1, u2}
  Funds = 4
  OrderQtys = {2}
  MaxFillsSet = {10}
  CrankBatches = {2}
  Close = 9
  Blackout = 0
  Staleness = 1
  AdminDelay = 1
  Window = 1
  MaxOverrides = 1
  Strike = 2
  FeedPrices = {}
  FeedAges = {}
  OtherObligations = 2
  MayPause = FALSE
  MaxMinted = 4
  MaxTime = 1
SYMMETRY Symmetry
VIEW View
SPECIFICATION Spec
INVARIANTS OtherMarketsStillOwed
CHECK_DEADLOCK FALSE
