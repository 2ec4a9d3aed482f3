\* The scheduler's header: after the morning job the markets of the day exist.
SPECIFICATION Spec
CONSTANTS
  ticker = ticker
  Tickers = {ticker}
  Prices = {1, 2}
  Holidays = {1}
  EarlyDays = {2}
  FirstWeekday = 3
  FirstDate = 25
  MonthLength = 30
  FallBack <- MCFallBack
  MidnightHour = 24
  Instants <- MCInstants
  FirstMarkets <- MCFirstMarkets
  Deployed = {}
  Leaving <- MCFirstMarkets
  Faults = {}
  MaxFaults = 0
INVARIANT
  MorningReady
CHECK_DEADLOCK FALSE
