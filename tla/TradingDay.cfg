\* Three days of the services, with one fault of any kind.
SPECIFICATION LiveSpec
CONSTANTS
  ticker = ticker
  Tickers = {ticker}
  Prices = {1, 2}
  Holidays = {1}
  EarlyDays = {2}
  FirstWeekday = 3
  FirstDate = 25
  MonthLength = 30
  FallBack <- MCFallBack
  MidnightHour = 24
  Instants <- MCInstants
  FirstMarkets <- MCFirstMarkets
  Deployed <- MCDeployed
  Leaving <- MCFirstMarkets
  Faults = {"rpc", "quote", "outage", "crash", "override"}
  MaxFaults = 1
INVARIANTS
  TypeOK
  OneCycle
  OkMeansReady
  SafetyNet
  CalendarAgrees
PROPERTIES
  ClosingPrice
  SettledEventually
CHECK_DEADLOCK FALSE
