SPECIFICATION NodeSpec
CONSTANTS
  EURUSD = EURUSD
  Running = {"sizing"}
  Symbols = {EURUSD}
  Cycles = {c1}
  Clicks = {k1}
  MaxCandle = 1
  CandlesPerHour = 2
  ShortlistSize = 2
  TopCount = 1
  StageB = 1
  MaxPlans = 2
  Passes = {first, second}
  CandleMinutes = 2
  BrokerAhead = 2
  Buffer = 1
  MaxCandles = 3
  MaxMinutes = 4
  MaxMinute = 8
  Expiry = 3
  MaxHolding = 4
  TapePrices = {1, 2, 3}
  Bars <- stBars
  Setups <- stSetups
  Tapes <- btTapes
  InitialCash = 45
  FeePerShare = 1
  MinFee = 2
  Scale = 10
  Slippage = 1
  Candidates <- btCandidates
  TrainSize = 4
  TestSize = 5
  StepSize = 2
  QuietAndLiquid <- btQuiet
  Sharpe <- btSharpe
  SetupGroup = 2
  TrendGroup = 4
  SessionClose = 45
  NoNewTrades = 15
  ForceClose = 5
  MaxHoldingMinutes = 15
  Quantity = 1
  Needed <- btNeeded
  Uptrend <- btUp
  Confirms <- btUp
  AverageRange <- btRange
  StopMultiple = 1
  TargetMultiple = 2
  MinReward = 1
  Tick = 1
  Answers <- dsAnswers
  TrendSets <- dsTrends
  Symbol <- dsSymbol
  Settings <- dsSettings
  Strict <- dsSettings
  Quality <- dsQuality
  Accounts <- dsAccounts
  Prices = {20, 21}
  Outcomes <- dsOutcomes
  MaxOutcomes = 2
  MaxQuoteMoves = 2
  WeekDays = 3
  DayLength = 4
  ServerAhead = 1
  Gap = 1
  Schedule <- ssSchedule
  BarSets <- ssBars
  Parts = 4
  Phases = {22, 25, 26, 27}
  Manual <- prManual
  Markets <- prMarkets
  Portfolios <- prAccounts
  Limits <- prLimits
  MaxMoves = 2
  MaxToday = 2
  PageSymbols = {EURUSD}
  PagePlans = {1, 2}
  Nobody = Nobody
  DeskSymbols = {EURUSD, XAUUSD}
  NoSymbol = NoSymbol
  MaxLoads = 2
  RequestSlots = {r1}
  MaxCandleNo = 1
  HourSymbols = {AAPL}
  Ticks = {t1, t2}
  MaxHour = 2
INVARIANT SentWithinTier
CHECK_DEADLOCK FALSE
