\* Two prices, three orders, levels of at most two slots and one more level
\* than prices: every order of filling, freeing, growing and appending.
CONSTANTS
  Dollar = 3
  FeeBps = 1
  BpsBase = 2
  MinOrder = 2
  MaxLevels = 3
  MaxOrderId = 3
  NoOrder = NoOrder
  Owners = {u1}
  OrderQtys = {2, 4}
  LimitCaps = {1, 10}
  MarketCaps = {10}
  CrankBatches = {2}
  LastTick = 2
  Unallocated = 5
  MaxSlots = 2
VIEW View
SPECIFICATION Spec
INVARIANTS LayoutSound
PROPERTIES EngineImplementsBook CrossedOnlyByCap TimePriority BestPriceFirst
CHECK_DEADLOCK FALSE
