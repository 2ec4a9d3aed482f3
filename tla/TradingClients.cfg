CONSTANTS
  Dollar = 6
  FeeBps = 5
  BpsBase = 100
  MinOrder = 12
  MaxLevels = 20
  MaxOrderId = 100
  NoOrder = NoOrder
  Users = {web, mm, dir, scalp, op, tester, other}
  Funds = 72
  OrderQtys = {12}
  MaxFillsSet = {3}
  CrankBatches = {1}
  Close = 2
  Blackout = 0
  Staleness = 1
  AdminDelay = 1
  Window = 1
  MaxOverrides = 1
  Strike = 2
  FeedPrices = {1, 2}
  FeedAges = {0}
  OtherObligations = 0
  MayPause = TRUE
  MaxMinted = 5000
  MaxTime = 3
  Trader = web
  Unit = 12
  TicketSizes = {1}
  TicketPrices = {4}
  WebMaxFills = 3
  MaxTickets = 1
  MarketMakers = {mm}
  Directionals = {dir}
  Scalpers = {scalp}
  web = web
  mm = mm
  dir = dir
  scalp = scalp
  op = op
  tester = tester
  other = other
  Roster <- MCRoster
  MintQty = 24
  Offsets <- MCOffsets
  Middles = {3}
  DirPrices = {2, 5}
  AgentMaxFills = 5
  CancelBatch = 1
  RedeemBatch = 1
  MaxActs = 2
  Operator = op
  Tickers = {"T1", "T2"}
  FeeCap = 1000
  Wallets <- MCWallets
  ActQty = 240
  UsdcPerAgent = 4800
  ActCancelBatch = 20
  SweptPrices <- MCSweptPrices
  Tester = tester
  SeedQtys <- MCSeedQtys
  SeedBid = 2
  SeedAsk = 4
  TestBid = 1
  TestQty = 60
  MaxInterruptions = 1
  Fairs = {0, 5000}
  SpreadBps = 500
  MaxInventory = 5
  MinEdge = 1
  BotQty = 12
  MaxErrors = 1
  MaxPolls = 1
  CreationFeeCap = 1000
  Holder = tester
  Heir = other
  Inputs = {6, 1001}
  PairQty = 12
  Gifts = 24
  Reserves = {6}
  MaxClicks = 1
  SimTickers <- MCSimTickers
  ConfigSlots = 1
  NumAgents = 20
  SimPrices = {18, 19}
  DayOffset = 100
  Spread = 0
  SimDays = 2
  CloseOffset = 4
  TradingMinutes = 3
  LongestWait = 10
  MaxStrikes = 1
  MaxLost = 1
SPECIFICATION ClientsSpec
INVARIANTS DepthIsExecutable FreshTicketAccepted FreshClickAccepted TestsPass
PROPERTIES TicketWithinQuote StackComesUp
CHECK_DEADLOCK FALSE
