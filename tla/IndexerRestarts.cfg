\* Listener and backfill with every fault: a lost notification, a late
\* subscription, a failing node, a crash anywhere.
CONSTANTS
  Txs <- Kinds
  Known = {"fill", "settlement", "crank_cancel"}
  Markets = {"m1"}
  Wallets = {"w1", "w2", "w3"}
  Mag7 = {"AAPL", "TSLA"}
  EtOffset = 10
  TickerNames = {"AAPL"}
  BatchSize = 2
  Concurrency = 1
  Faults = {"lost", "late", "rpc", "crash"}
  MaxTxs = 3
  MaxFaults = 1
SPECIFICATION LiveSpec
INVARIANTS TypeOK OnlyFaultsLoseEvents WholeTransactions  
PROPERTIES EventuallyIndexed
CHECK_DEADLOCK FALSE
