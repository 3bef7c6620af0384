------------------------------- MODULE MCNode -------------------------------
(***************************************************************************)
(* The components that do not share state, on small instances, in one      *)
(* model: the initial state picks one of the parts in Running, and every   *)
(* step is a step of that part.  The parts that were not picked keep one   *)
(* fixed state.  The definitions below are the values of their constants.  *)
(***************************************************************************)
EXTENDS OpportunityScan, ShadowTrade, Backtest, DemoSizing, SessionStatus, PaperRisk,
        AiTradePage, AnalysisPage, HourlyScanner, TLC

CONSTANTS
  Running,  \* the parts that may be picked
  EURUSD

VARIABLE part   \* the part picked

webVars == <<pageVars, deskVars, hourlyVars>>

nodeVars == <<vars, part, shadowVars, backtestVars, sizingVars, sessionVars, riskVars, webVars>>

-----------------------------------------------------------------------------
(* Shadow trades: a market entry, a pullback whose plan has no trigger      *)
(* price, a breakout; prices 1 to 3.                                        *)

stBars == {<<2, 2>>, <<1, 2>>, <<2, 3>>, <<1, 3>>}

stSetups ==
  {[side |-> "BUY", order |-> "MARKET", entry |-> 2, trigger |-> -1, stop |-> 1, target |-> 3],
   [side |-> "SELL", order |-> "SELL_LIMIT", entry |-> 2, trigger |-> -1, stop |-> 3, target |-> 1],
   [side |-> "BUY", order |-> "BUY_STOP", entry |-> -1, trigger |-> 2, stop |-> 1, target |-> 3]}

-----------------------------------------------------------------------------
(* Backtests: nine bars, every sequence of rises and falls.                 *)

btMoves == [1 .. 9 -> {-1, 1}]

\* The price after the first i moves; every third move is twice as large.
RECURSIVE btPrice(_, _)
btPrice(m, i) ==
  IF i = 0 THEN 20 ELSE btPrice(m, i - 1) + m[i] * (IF i % 3 = 0 THEN 2 ELSE 1)

btBar(open, close, minute) ==
  [open |-> open, close |-> close, minute |-> minute,
   low |-> IF open < close THEN open ELSE close - 1,
   high |-> IF open < close THEN close + 1 ELSE open]

btTapes ==
  {[i \in 1 .. 9 |-> btBar(btPrice(m, i - 1), btPrice(m, i), 5 * (i - 1))] : m \in btMoves}

btUp(bars) == bars[Len(bars)].close > bars[1].open

btRange(bars) == 1

btQuiet(p, bars) == TRUE

btSharpe(curve) == 0

btCandidates ==
  <<[kind |-> "moving_average_crossover", short |-> 1, long |-> 2, quantity |-> 2],
    [kind |-> "us_stock_factor", short |-> 1, long |-> 2, trend |-> 2, momentum |-> 1,
     volatility |-> 2, volume |-> 1, minTrend |-> 0, minMomentum |-> 0, exitTrend |-> -5,
     exitMomentum |-> -5, quantity |-> 1]>>

btNeeded == [trend |-> 1, setup |-> 1, entry |-> 2]

-----------------------------------------------------------------------------
(* Sizing: answers of each entry type, two of them refused by the schema or *)
(* waiting; accounts that are rich, poor, out of margin or without leverage.*)

dsAnswer(side, type, pending, entry, zone, trigger, stop, target, ratio, percent) ==
  [decision |-> side, type |-> type, pending |-> pending, current |-> 20, entry |-> entry,
   zoneLow |-> zone[1], zoneHigh |-> zone[2], trigger |-> trigger, stop |-> stop,
   target |-> target, ratio |-> ratio, profitability |-> percent, tradeability |-> percent,
   confidence |-> percent]

dsAnswers ==
  {dsAnswer("BUY", "MARKET_NOW", "NONE", 20, <<0, 0>>, 0, 17, 26, 20, 90),
   dsAnswer("BUY", "MARKET_NOW", "NONE", 20, <<0, 0>>, 0, 18, 22, 10, 90),
   dsAnswer("SELL", "PULLBACK", "SELL_LIMIT", 0, <<22, 24>>, 0, 25, 12, 30, 70),
   dsAnswer("BUY", "PULLBACK", "BUY_STOP", 18, <<0, 0>>, 0, 17, 26, 20, 90),
   dsAnswer("BUY", "BREAKOUT", "BUY_STOP", 24, <<0, 0>>, 23, 20, 34, -1, 70),
   dsAnswer("WAIT", "NO_ENTRY", "NONE", 0, <<0, 0>>, 0, 0, 0, -1, 10)}

dsTrends == {[H4 |-> "BULLISH", H1 |-> "BULLISH", M15 |-> "RANGE", M5 |-> "BEARISH"]}

dsSymbol == [contract |-> 1, tickValue |-> 1, min |-> 2, max |-> 4, step |-> 2, stopsLevel |-> 2]

dsSettings ==
  [killSwitch |-> FALSE, fastLearning |-> FALSE, maxRiskPct |-> 10, maxLoss |-> 12,
   minRatio |-> 15, maxPositions |-> 1, maxTrades |-> 1, bufferPct |-> 50]

dsQuality ==
  [weights |-> [profitability |-> 35, tradeability |-> 20, confidence |-> 15,
                alignment |-> 15, history |-> 15],
   minSamples |-> 1, fullSamples |-> 3, lossStreak |-> 2, lossPenalty |-> 10,
   highScore |-> 80, highCap |-> 8, normalScore |-> 65, normalCap |-> 6]

dsAccounts ==
  {[equity |-> a[1], free |-> a[2], leverage |-> a[3]] :
     a \in {<<140, 90, 2>>, <<40, 90, 2>>, <<140, 45, 2>>, <<140, 0, 2>>, <<140, 90, 0>>}}

dsOutcomes == {[loss |-> FALSE, r |-> 20, net |-> 6], [loss |-> TRUE, r |-> -10, net |-> -3]}

-----------------------------------------------------------------------------
(* Sessions: a week of three days of four slots; one window runs past       *)
(* midnight, one day only quotes.                                           *)

ssWindow(day, from, to, kind) == [day |-> day, from |-> from, to |-> to, kind |-> kind]

ssSchedule ==
  {ssWindow(0, 1, 3, "trade"), ssWindow(0, 0, 4, "quote"), ssWindow(1, 3, 1, "trade"),
   ssWindow(1, 3, 2, "quote"), ssWindow(2, 2, 4, "quote")}

ssBars == {{}, {<<0, 1>>, <<0, 3>>, <<1, 3>>}, {<<1, 0>>, <<1, 1>>, <<1, 3>>}}

-----------------------------------------------------------------------------
(* Paper risk: one market and one account for each limit.                   *)

prCalm ==
  [price |-> 10, atr |-> 1, trend |-> "UP", confirmed |-> TRUE, narrow |-> TRUE,
   stale |-> FALSE, open |-> TRUE]

prMarkets ==
  {prCalm, [prCalm EXCEPT !.price = 11], [prCalm EXCEPT !.price = 12], [prCalm EXCEPT !.atr = 3],
   [prCalm EXCEPT !.atr = 0], [prCalm EXCEPT !.trend = "DOWN"], [prCalm EXCEPT !.stale = TRUE],
   [prCalm EXCEPT !.narrow = FALSE], [prCalm EXCEPT !.open = FALSE]}

prRich ==
  [cash |-> 100, held |-> 0, others |-> 0, equity |-> 200, dailyPnl |-> 0, exposed |-> {},
   ordered |-> FALSE, cooling |-> FALSE]

prAccounts ==
  {prRich, [prRich EXCEPT !.cash = 21], [prRich EXCEPT !.held = 1], [prRich EXCEPT !.held = 8],
   [prRich EXCEPT !.held = -4],
   [prRich EXCEPT !.others = 2], [prRich EXCEPT !.equity = 45], [prRich EXCEPT !.dailyPnl = -25],
   [prRich EXCEPT !.dailyPnl = -15], [prRich EXCEPT !.exposed = {"BUY"}],
   [prRich EXCEPT !.ordered = TRUE], [prRich EXCEPT !.cooling = TRUE]}

prLimits ==
  [stopMultiple |-> 1, targetMultiple |-> 2, minReward |-> 2, stopPct |-> 10,
   slippagePct |-> 1, feePct |-> 1, fee |-> 0, minFee |-> 1,
   maxLoss |-> [p \in {22, 25, 26, 27} |-> 6], maxPosition |-> 45, concentrationPct |-> 50,
   maxDailyLoss |-> 20, maxCryptoLoss |-> 10, maxToday |-> 2, maxNotional |-> 60,
   maxOpen |-> 2, driftPct |-> 10, defaultQuantity |-> 12,
   preventDuplicate |-> TRUE]

prManual == {[side |-> "BUY", quantity |-> 10], [side |-> "SELL", quantity |-> 8]}

-----------------------------------------------------------------------------

\* What a part that was not picked is.
ScanIdle ==
  /\ candle = 0 /\ plans = <<>> /\ processed = None /\ shadowed = {} /\ held = {}
  /\ scan = [s \in Scans |-> Idle]

BacktestIdle ==
  series = <<>> /\ start = 0 /\ folds = <<>> /\ compared = <<>>

SizingIdle ==
  /\ account = (CHOOSE a \in dsAccounts : TRUE) /\ bid = 20 /\ quoteMoves = 0 /\ history = <<>>
  /\ plan = NoPlan /\ scanned = NotRead /\ approval = NotRead
  /\ order = NoOrder

SessionIdle ==
  clock = <<0, 0>> /\ trade_enabled = TRUE /\ cache = {} /\ report = NoReport

RiskIdle ==
  market = prCalm /\ portfolio = prRich /\ moves = 0 /\ today = 0 /\ deal = NoDeal

\* The pages and the hourly scheduler: nothing has happened.
WebIdle == PageInit /\ DeskInit /\ HourlyInit

NodeInit ==
  /\ part \in Running
  /\ IF part = "scan" THEN Init ELSE ScanIdle
  /\ ShadowInit
  /\ IF part = "backtest" THEN BacktestInit ELSE BacktestIdle
  /\ IF part = "sizing" THEN SizingInit ELSE SizingIdle
  /\ IF part = "session" THEN SessionInit ELSE SessionIdle
  /\ IF part = "risk" THEN RiskInit ELSE RiskIdle
  /\ WebIdle

\* Bound: once a second plan exists, one scan runs at a time, and that plan is
\* claimed, released or ended, but its order neither placed nor refused.
OneAtATime == Len(plans) < MaxPlans \/ Cardinality({s \in Scans : scan[s] # Idle}) <= 1

OneOrdered == \A p \in DOMAIN plans \ {1} : plans[p].status \notin {"PLACED", "EXECUTION_FAILED"}

ScanStep == part = "scan" /\ Next /\ (OneAtATime /\ OneOrdered)'
  /\ UNCHANGED <<part, shadowVars, backtestVars, sizingVars, sessionVars, riskVars, webVars>>

\* Bound: the trade is made within the first candle or at its end, the price stays
\* between the levels after the second candle, and from then on one pass runs at a time.
OneTradeSoon ==
  /\ trade = NoTrade => now <= CandleMinutes
  /\ \A m \in DOMAIN tape : m > 2 * CandleMinutes => tape[m] = <<2, 2>>
  /\ now <= 2 * CandleMinutes \/ Cardinality({w \in Passes : pass[w] # Away}) <= 1

ShadowStep == part = "shadow" /\ ShadowNext /\ OneTradeSoon'
  /\ UNCHANGED <<part, vars, backtestVars, sizingVars, sessionVars, riskVars, webVars>>

BacktestStep == part = "backtest" /\ BacktestNext
  /\ UNCHANGED <<part, vars, shadowVars, sizingVars, sessionVars, riskVars, webVars>>

SizingStep == part = "sizing" /\ SizingNext
  /\ UNCHANGED <<part, vars, shadowVars, backtestVars, sessionVars, riskVars, webVars>>

SessionStep == part = "session" /\ SessionNext
  /\ UNCHANGED <<part, vars, shadowVars, backtestVars, sizingVars, riskVars, webVars>>

RiskStep == part = "risk" /\ RiskNext
  /\ UNCHANGED <<part, vars, shadowVars, backtestVars, sizingVars, sessionVars, webVars>>

serverSideVars == <<part, vars, shadowVars, backtestVars, sizingVars, sessionVars, riskVars>>

\* Bound: ids of plans are used in their order.
InOrder == \A p \in PagePlans : rows[p] # Row!NoRow => \A q \in 1 .. p - 1 : rows[q] # Row!NoRow

\* Bound: the second plan waits, is submitted, placed and opened; the first one may
\* also end or fail.
OneEnds ==
  \A p \in PagePlans \ {1} :
    rows[p].status \in {Row!Absent, "WAITING_FOR_APPROVAL"} \cup Row!ActivePlan

PageStep == part = "page" /\ PageNext /\ (InOrder /\ OneEnds)'
  /\ UNCHANGED <<serverSideVars, deskVars, hourlyVars>>

\* Bound: only EURUSD is traded, other symbols are analysed.
Waiting == Plans!persistEntryPlan(Plans!NoRow, "WAITING")

OneTraded == \A s \in DeskSymbols \ {EURUSD} : desk[s].row \in {Plans!NoRow, Waiting}

DeskStep == part = "desk" /\ DeskNext /\ OneTraded'
  /\ UNCHANGED <<serverSideVars, pageVars, hourlyVars>>

HourlyStep == part = "hourly" /\ HourlyNext
  /\ UNCHANGED <<serverSideVars, pageVars, deskVars>>

NodeNext ==
  \/ ScanStep \/ ShadowStep \/ BacktestStep \/ SizingStep \/ SessionStep \/ RiskStep
  \/ PageStep \/ DeskStep \/ HourlyStep

NodeSpec == NodeInit /\ [][NodeNext]_nodeVars
=============================================================================
