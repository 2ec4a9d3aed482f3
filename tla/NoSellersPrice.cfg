\* No-backed bids at two prices and a Yes seller that may take either.
CONSTANTS
  Dollar = 4
  FeeBps = 1
  BpsBase = 2
  MinOrder = 2
  MaxLevels = 3
  MaxOrderId = 3
  NoOrder = NoOrder
  Owners = {u1}
  OrderQtys = {2}
  LimitCaps = {10}
  MarketCaps = {10}
  CrankBatches = {2}
  LastTick = 1
  Unallocated = 7
  MaxSlots = 2
VIEW View
SPECIFICATION Spec
PROPERTIES BestPriceFirstForNo
CHECK_DEADLOCK FALSE
