\* From the first order to the closed market: settlement by feed and by
\* admin, overrides, pauses, cranks, redemptions and the swept rounding dust.
CONSTANTS
  Dollar = 2
  FeeBps = 1
  BpsBase = 3
  MinOrder = 3
  MaxLevels = 2
  MaxOrderId = 2
  NoOrder = NoOrder
  Users = {u1, u2}
  Funds = 4
  OrderQtys = {3}
  MaxFillsSet = {10}
  CrankBatches = {1}
  Close = 2
  Blackout = 1
  Staleness = 1
  AdminDelay = 1
  Window = 1
  MaxOverrides = 2
  Strike = 2
  FeedPrices = {1, 2}
  FeedAges = {0}
  OtherObligations = 0
  MayPause = TRUE
  MaxMinted = 6
  MaxTime = 3
SYMMETRY Symmetry
VIEW View
SPECIFICATION Spec
INVARIANTS EscrowBacksBook MoneyConserved ObligationsTrackMarket OverrideBounded WayOut
PROPERTIES PaidOutcomeFinal ImplementsVault
CHECK_DEADLOCK FALSE
