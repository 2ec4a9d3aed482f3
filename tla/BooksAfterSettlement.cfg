\* The comment of crankMarket: a settled book is cranked until it is empty.
SPECIFICATION LiveSpec
CONSTANTS
  ticker = ticker
  Tickers = {ticker}
  Prices = {1, 2}
  Holidays = {1}
  EarlyDays = {2}
  FirstWeekday = 3
  FirstDate = 25
  MonthLength = 30
  FallBack <- MCFallBack
  MidnightHour = 24
  Instants <- MCInstants
  FirstMarkets <- MCFirstMarkets
  Deployed <- MCDeployed
  Leaving = {}
  Faults = {}
  MaxFaults = 0
PROPERTY
  BooksEmptied
CHECK_DEADLOCK FALSE
