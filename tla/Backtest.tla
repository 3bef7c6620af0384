----------------------------- MODULE Backtest -----------------------------
(***************************************************************************)
(* The backtests of the trading engine: run_backtest() over one series of  *)
(* bars (backtesting/engine.py), the walk-forward validation built on it   *)
(* (validation.py) and run_intraday_backtest() over bars of five minutes   *)
(* resampled to three timeframes (intraday.py, strategy/intraday).         *)
(*                                                                         *)
(* A loop over bars is a fold; the loop over walk-forward folds and the    *)
(* comparison of the entry timeframes are the actions.  Money is counted   *)
(* in 1/Scale: a fill multiplies the price by (Scale +- Slippage) / Scale. *)
(* Indicators that need more than comparisons (averages with weights,      *)
(* volumes, deviations, the Sharpe ratio) are parameters.                  *)
(***************************************************************************)
EXTENDS Integers, Sequences, FiniteSets, SequencesExt, FiniteSetsExt

CONSTANTS
  Tapes,           \* series of bars [open, low, high, close]
  InitialCash, FeePerShare, MinFee,
  Scale, Slippage, \* slippage_bps is Slippage / Scale
  Candidates,      \* StrategyParameters tried by a walk-forward fold, in order
  TrainSize, TestSize, StepSize,
  QuietAndLiquid(_, _), \* volatility_pct <= max and volume_ratio >= min
  Sharpe(_),       \* twice the Sharpe ratio of an equity curve
  SetupGroup, TrendGroup,   \* bars of 5 minutes in a bar of the setup and trend timeframes
  SessionClose, NoNewTrades, ForceClose, \* minutes; the tape starts at minute 0
  MaxHoldingMinutes, Quantity,
  Needed,          \* [trend, setup, entry] bars of history the analysis needs
  Uptrend(_), Confirms(_), AverageRange(_), \* of closed bars: EMA trend, momentum and volume, ATR
  StopMultiple, TargetMultiple, MinReward, Tick

VARIABLES
  series,    \* the bars
  start,     \* where the next fold begins
  folds,     \* results of walk_forward_validate()
  compared   \* results of compare_intraday_timeframes(), by bars per primary bar

backtestVars == <<series, start, folds, compared>>

Bar == [open : Int, low : Int, high : Int, close : Int, minute : Int]

NoSignal == "none"

larger(a, b) == IF a > b THEN a ELSE b

\* Body of a value computed once, where a LET would compute it at each use.
Once(value, Body(_)) == CHOOSE result \in {Body(v) : v \in {value}} : TRUE

lastOf(s, n) == SubSeq(s, Len(s) - n + 1, Len(s))

total(s) == FoldLeft(LAMBDA a, b : a + b, 0, s)

closes(bars) == [i \in DOMAIN bars |-> bars[i].close]

(***************************************************************************)
(* Fills                                                                   *)
(***************************************************************************)

feeOf(quantity) == larger(quantity * FeePerShare, MinFee)

fillPrice(side, price) == price * (IF side = "BUY" THEN Scale + Slippage ELSE Scale - Slippage)

fill(side, quantity, price, at, bar) ==
  [side |-> side, quantity |-> quantity, price |-> fillPrice(side, price),
   fee |-> feeOf(quantity), at |-> at, bar |-> bar]

\* Mutant: a sale's fee is forgotten.
cashAfterFreeSale(cash, t) ==
  IF t.side = "BUY" THEN cash - (t.quantity * t.price + t.fee)
  ELSE cash + t.quantity * t.price

cashAfter(cash, t) ==
  IF t.side = "BUY" THEN cash - (t.quantity * t.price + t.fee)
  ELSE cash + t.quantity * t.price - t.fee

\* A purchase the cash does not cover is dropped without a trace.
refused(cash, t) == t.side = "BUY" /\ cashAfter(cash, t) < 0

(***************************************************************************)
(* Signal models of run_backtest()                                         *)
(***************************************************************************)

\* prev is short - long after the last full window, if any; holding is
\* _in_position, what the model believes, whatever became of its signals.
newModel == [seen |-> <<>>, prev |-> <<>>, holding |-> FALSE]

\* The two averages, over the common denominator.
crossing(p, prices) ==
  total(lastOf(prices, p.short)) * p.long - total(lastOf(prices, p.long)) * p.short

\* MovingAverageSignalModel.on_bar_close()
movingAverage(p, model, bar) ==
  LET seen == Append(model.seen, bar)
      now == crossing(p, closes(seen))
      known == model.prev # <<>>
      side == CASE known /\ model.prev[1] <= 0 /\ now > 0 -> "BUY"
                [] known /\ model.prev[1] >= 0 /\ now < 0 -> "SELL"
                [] OTHER -> NoSignal
  IN IF Len(seen) < p.long
     THEN [model |-> [model EXCEPT !.seen = seen], side |-> NoSignal]
     ELSE [model |-> [model EXCEPT !.seen = seen, !.prev = <<now>>], side |-> side]

requiredHistory(p) == Max({p.long, p.trend, p.momentum, p.volatility})

\* _pct_change(current, base) against a threshold in percent.
atLeast(current, base, pct) == 100 * current >= (100 + pct) * base

atMost(current, base, pct) == 100 * current <= (100 + pct) * base

\* USStockFactorSignalModel.on_bar_close()
factor(p, model, bar) ==
  LET seen == Append(model.seen, bar)
      c == closes(seen)
      back(n) == c[Len(c) - n]
      entry == /\ atLeast(bar.close, back(p.trend), p.minTrend)
               /\ atLeast(bar.close, back(p.momentum), p.minMomentum)
               /\ QuietAndLiquid(p, seen)
               /\ crossing(p, c) > 0
      leave == \/ atMost(bar.close, back(p.trend), p.exitTrend)
               \/ atMost(bar.close, back(p.momentum), p.exitMomentum)
               \/ crossing(p, c) < 0
      side == CASE ~model.holding /\ entry -> "BUY"
                [] model.holding /\ leave -> "SELL"
                [] OTHER -> NoSignal
  IN IF Len(seen) < larger(requiredHistory(p), p.volume) + 1
     THEN [model |-> [model EXCEPT !.seen = seen], side |-> NoSignal]
     ELSE [model |-> [model EXCEPT !.seen = seen,
                                   !.holding = (side = "BUY") \/ (@ /\ side # "SELL")],
           side |-> side]

onBarClose(p, model, bar) ==
  IF p.kind = "moving_average_crossover" THEN movingAverage(p, model, bar)
  ELSE factor(p, model, bar)

(***************************************************************************)
(* run_backtest()                                                          *)
(***************************************************************************)

\* _execute_signal(), at the open of the bar after the signal.  Only a position
\* can be sold.
executeSignal(book, p, bar, index) ==
  LET quantity == IF book.pending = "BUY" THEN p.quantity
                  ELSE Min({p.quantity, book.position})
      booked(t) ==
        IF t.quantity <= 0 \/ refused(book.cash, t) THEN book
        ELSE [book EXCEPT !.cash = cashAfter(@, t), !.trades = Append(@, t),
                          !.position = @ + (IF t.side = "BUY" THEN quantity ELSE -quantity)]
  IN IF book.pending = NoSignal THEN book
     ELSE Once(fill(book.pending, quantity, bar.open, index, index), booked)

newBook == [cash |-> Scale * InitialCash, position |-> 0, pending |-> NoSignal,
            trades |-> <<>>, curve |-> <<>>, exposure |-> 0, model |-> newModel]

\* One bar: last bar's signal, the equity curve, and this bar's signal unless no
\* bar is left to execute it on.
dailyBar(bars, p, book, i) ==
  LET valued(done) == [done EXCEPT
        !.curve = Append(@, done.cash + Scale * done.position * bars[i].close),
        !.exposure = @ + (IF done.position > 0 THEN 1 ELSE 0),
        !.pending = NoSignal]
      signalled(done, signal) ==
        [valued(done) EXCEPT !.pending = signal.side, !.model = signal.model]
      rest(done) ==
        IF i = Len(bars) THEN valued(done)
        ELSE Once(onBarClose(p, done.model, bars[i]), LAMBDA signal : signalled(done, signal))
  IN Once(executeSignal(book, p, bars[i], i), rest)

runBacktest(bars, p) ==
  FoldLeft(LAMBDA book, i : dailyBar(bars, p, book, i), newBook,
           [i \in 1 .. Len(bars) |-> i])

(***************************************************************************)
(* Metrics                                                                 *)
(***************************************************************************)

\* _round_trip_pnls(): a sale is paired with the last purchase before it, and a
\* purchase is forgotten when another one follows.
pairTrade(acc, t) ==
  CASE t.side = "BUY" -> [acc EXCEPT !.open = <<t>>]
    [] t.side = "SELL" /\ acc.open # <<>> ->
         [open |-> <<>>,
          pnls |-> Append(acc.pnls, (t.price - acc.open[1].price) * t.quantity
                                    - t.fee - acc.open[1].fee)]
    [] OTHER -> acc

paired(trades) == FoldLeft(pairTrade, [open |-> <<>>, pnls |-> <<>>], trades)

roundTrips(trades) == paired(trades).pnls

winsOf(pnls) == {n \in DOMAIN pnls : pnls[n] > 0}

lossesOf(pnls) == DOMAIN pnls \ winsOf(pnls)

totalOf(pnls, some) == total([n \in DOMAIN pnls |-> IF n \in some THEN pnls[n] ELSE 0])

\* Percentages are rounded down to whole ones.
drawdownPoint(acc, equity) ==
  LET peak == larger(acc.peak, equity)
  IN [peak |-> peak,
      worst |-> IF peak > 0 THEN larger(acc.worst, (100 * (peak - equity)) \div peak)
                ELSE acc.worst]

maxDrawdown(curve) == FoldLeft(drawdownPoint, [peak |-> curve[1], worst |-> 0], curve).worst

totalReturn(curve) ==
  (100 * (curve[Len(curve)] - Scale * InitialCash)) \div (Scale * InitialCash)

winRate(pnls) == IF pnls = <<>> THEN 0 ELSE (100 * Cardinality(winsOf(pnls))) \div Len(pnls)

\* min(profit_factor, 10); a factor without losses is 999999999, one without
\* round trips counts as 0.  Losses that only break even sum to 0, by which the
\* code would divide: the model counts them as none.
profitFactor(pnls) ==
  CASE pnls = <<>> -> 0
    [] lossesOf(pnls) # {} /\ totalOf(pnls, lossesOf(pnls)) # 0 ->
         Min({10, totalOf(pnls, winsOf(pnls)) \div (-totalOf(pnls, lossesOf(pnls)))})
    [] OTHER -> 10

selectionScore(result) ==
  totalReturn(result.curve) - maxDrawdown(result.curve) + Sharpe(result.curve)
  + Once(roundTrips(result.trades), LAMBDA pnls : winRate(pnls) \div 20 + profitFactor(pnls))
  - (IF result.trades = <<>> THEN 5 ELSE 0)

(***************************************************************************)
(* walk_forward_validate()                                                 *)
(***************************************************************************)

\* max() keeps the first of the candidates with the best score.
firstBest(scores) ==
  Min({c \in DOMAIN scores : \A d \in DOMAIN scores : scores[d] <= scores[c]})

selectParameters(train) ==
  Once([c \in DOMAIN Candidates |-> Once(runBacktest(train, Candidates[c]), selectionScore)],
       firstBest)

\* Mutant: the training window reaches one bar into the test window.
foldOverlapping(bars, from) ==
  LET train == SubSeq(bars, from + 1, from + TrainSize + 1)
      test == SubSeq(bars, from + TrainSize + 1, from + TrainSize + TestSize)
      tested(chosen) ==
        [from |-> from, chosen |-> chosen, test |-> runBacktest(test, Candidates[chosen])]
  IN Once(selectParameters(train), tested)

fold(bars, from) ==
  LET train == SubSeq(bars, from + 1, from + TrainSize)
      test == SubSeq(bars, from + TrainSize + 1, from + TrainSize + TestSize)
      tested(chosen) ==
        [from |-> from, chosen |-> chosen, test |-> runBacktest(test, Candidates[chosen])]
  IN Once(selectParameters(train), tested)

Fold ==
  /\ start + TrainSize + TestSize <= Len(series)
  /\ folds' = Append(folds, fold(series, start))
  /\ start' = start + (IF StepSize = 0 THEN TestSize ELSE StepSize)
  /\ UNCHANGED <<series, compared>>

(***************************************************************************)
(* The intraday strategy                                                   *)
(***************************************************************************)

\* _merge()
merge(bars) ==
  [open |-> bars[1].open, low |-> Min({bars[i].low : i \in DOMAIN bars}),
   high |-> Max({bars[i].high : i \in DOMAIN bars}),
   close |-> bars[Len(bars)].close, minute |-> bars[Len(bars)].minute]

\* BarResampler: a group of bars is one bar once it is complete.
resample(bars, size) ==
  [g \in 1 .. Len(bars) \div size |-> merge(SubSeq(bars, (g - 1) * size + 1, g * size))]

\* session_status_for(); the tape starts at the opening of the market.
sessionStatus(minute) ==
  LET remaining == SessionClose - minute
  IN CASE minute >= SessionClose -> "CLOSED"
       [] minute < SessionClose /\ remaining <= ForceClose -> "FORCE_CLOSE_WINDOW"
       [] remaining > ForceClose /\ remaining <= NoNewTrades -> "NO_NEW_TRADES_NEAR_CLOSE"
       [] OTHER -> "OPEN_FOR_ENTRIES"

closedBars(bars, now) == SelectSeq(bars, LAMBDA b : b.minute <= now)

\* analyze_multi_timeframe() on a quote without spread: the levels of a purchase,
\* or None.
analyzeMultiTimeframe(trend, setup, entry, price, now) ==
  LET h == closedBars(trend, now)
      s == closedBars(setup, now)
      e == closedBars(entry, now)
      risk == AverageRange(e) * StopMultiple
      reward == AverageRange(e) * TargetMultiple
  IN IF /\ sessionStatus(now) = "OPEN_FOR_ENTRIES"
        /\ Len(h) >= Needed.trend /\ Len(s) >= Needed.setup /\ Len(e) >= Needed.entry
        /\ Uptrend(h) /\ Confirms(s) /\ Confirms(e)
        /\ risk > 0 /\ reward >= MinReward * risk
     THEN <<[stop |-> price - risk, target |-> price + reward]>>
     ELSE <<>>

(***************************************************************************)
(* run_intraday_backtest()                                                 *)
(***************************************************************************)

\* _check_exit(): the price of the exit, if any.  The stop comes first, and fills
\* at its own price however far the bar gapped below it.
checkExit(bar, position) ==
  CASE bar.low <= position.stop -> <<position.stop>>
    [] bar.low > position.stop /\ bar.high >= position.target -> <<position.target>>
    [] /\ bar.low > position.stop /\ bar.high < position.target
       /\ \/ bar.minute - position.since >= MaxHoldingMinutes
          \/ sessionStatus(bar.minute) \in {"FORCE_CLOSE_WINDOW", "CLOSED"} -> <<bar.close>>
    [] OTHER -> <<>>

\* `value or fallback`: a level of 0 counts as missing.
orFallback(value, fallback) == IF value = 0 THEN fallback ELSE value

leave(book, price, minute, bar) ==
  LET t == fill("SELL", Quantity, price, minute, bar)
  IN [book EXCEPT !.cash = cashAfter(@, t), !.trades = Append(@, t), !.position = <<>>]

enter(book, level, next, index) ==
  LET t == fill("BUY", Quantity, next.open, next.minute, index)
  IN IF refused(book.cash, t) THEN book
     ELSE [book EXCEPT
       !.cash = cashAfter(@, t), !.trades = Append(@, t),
       !.position = <<[stop |-> orFallback(level.stop, next.open - Tick),
                       target |-> orFallback(level.target, next.open + Tick),
                       since |-> next.minute, index |-> index]>>]

newIntradayBook ==
  [cash |-> Scale * InitialCash, position |-> <<>>, trades |-> <<>>, curve |-> <<>>,
   exposure |-> 0]

\* Not on the bar of the entry itself.
exited(book, bar, i) ==
  IF book.position = <<>> \/ book.position[1].index = i THEN book
  ELSE LET price == checkExit(bar, book.position[1])
       IN IF price = <<>> THEN book ELSE leave(book, price[1], bar.minute, i)

\* Bars of the coarser timeframes, in primary bars of `size` bars of 5 minutes.
group(timeframe, size) == larger(timeframe \div size, 1)

intradayBar(bars, size, book, i) ==
  LET done == exited(book, bars[i], i)
      held == IF done.position = <<>> THEN 0 ELSE 1
      valued == [done EXCEPT
        !.curve = Append(@, done.cash + Scale * held * Quantity * bars[i].close),
        !.exposure = @ + held]
      seen == SubSeq(bars, 1, i)
      level == analyzeMultiTimeframe(resample(seen, group(TrendGroup, size)),
                                     resample(seen, group(SetupGroup, size)),
                                     seen, bars[i].close, bars[i].minute)
  IN IF held = 1 \/ i = Len(bars) \/ level = <<>> THEN valued
     ELSE enter(valued, level[1], bars[i + 1], i + 1)

\* A position still open after the last bar is sold at its close.
liquidated(book, bars) ==
  IF book.position = <<>> THEN book
  ELSE LET sold == leave(book, bars[Len(bars)].close, bars[Len(bars)].minute, Len(bars))
       IN [sold EXCEPT !.curve[Len(bars)] = sold.cash, !.exposure = larger(@ - 1, 0)]

runIntradayBacktest(bars5m, size) ==
  LET bars == resample(bars5m, size)
  IN liquidated(FoldLeft(LAMBDA book, i : intradayBar(bars, size, book, i),
                         newIntradayBook, [i \in 1 .. Len(bars) |-> i]), bars)

\* compare_intraday_timeframes(): the three entry timeframes in turn.
Timeframes == <<1, SetupGroup, TrendGroup>>

Compare ==
  /\ Len(compared) < Len(Timeframes)
  /\ LET size == Timeframes[Len(compared) + 1]
     IN /\ Len(series) \div size >= 2
        /\ compared' = Append(compared, runIntradayBacktest(series, size))
  /\ UNCHANGED <<series, start, folds>>

\* The tape as it could have gone on after its first k bars.
unknownAfter(bars, k) ==
  [i \in DOMAIN bars |-> IF i <= k THEN bars[i] ELSE [bars[k] EXCEPT !.minute = bars[i].minute]]

\* Money, levels and scores are numbers, windows have bars, and there is something
\* to choose from.
BacktestAssumption ==
  /\ Tapes \subseteq Seq(Bar)
  /\ {InitialCash, Scale, TrainSize, TestSize, SetupGroup, TrendGroup} \subseteq Nat \ {0}
  /\ {FeePerShare, MinFee, Slippage, Quantity, StopMultiple, TargetMultiple, Tick} \subseteq Int
  /\ StepSize \in Nat
  /\ Len(Candidates) \in Nat \ {0} /\ DOMAIN Candidates = 1 .. Len(Candidates)
  /\ \A c \in DOMAIN Candidates : Candidates[c].quantity \in Int
  /\ \A bars \in Tapes, c \in DOMAIN Candidates : \A from \in 0 .. Len(bars) - TrainSize :
       Sharpe(runBacktest(SubSeq(bars, from + 1, from + TrainSize), Candidates[c]).curve) \in Int
  /\ \A bars \in Tapes : \A k \in DOMAIN bars, size \in {1, SetupGroup, TrendGroup} :
       LET merged == resample(unknownAfter(bars, k), size)
       IN \A i \in DOMAIN merged :
            AverageRange(closedBars(SubSeq(merged, 1, i), merged[i].minute)) \in Int

ASSUME BacktestAssumed == BacktestAssumption

BacktestInit == series \in Tapes /\ start = 0 /\ folds = <<>> /\ compared = <<>>

BacktestNext == Fold \/ Compare

BacktestSpec == BacktestInit /\ [][BacktestNext]_backtestVars

(***************************************************************************)
(* Properties                                                              *)
(***************************************************************************)

\* The trades, with their numbers, on the bars up to j.
tradesUntil(trades, j) ==
  {<<n, trades[n]>> : n \in {m \in DOMAIN trades : trades[m].bar <= j}}

\* What a run had done by the end of bar j.
until(result, j) == <<SubSeq(result.curve, 1, j), tradesUntil(result.trades, j)>>

foldForesees(k) ==
  LET f == folds[Len(folds)]
      g == fold(unknownAfter(series, k), f.from)
      j == k - f.from - TrainSize
  IN j >= 0 /\ (g.chosen # f.chosen \/ until(g.test, j) # until(f.test, j))

comparisonForesees(k) ==
  LET size == Timeframes[Len(compared)]
      j == k \div size
      bars == Len(series) \div size
  IN j < bars /\ until(runIntradayBacktest(unknownAfter(series, k), size), j)
                 # until(compared[Len(compared)], j)

\* No trade, no point of an equity curve and no choice of parameters depends on a
\* bar that came later: with any other continuation of the tape, the run up to
\* that bar is the same (run_backtest, walk_forward_validate, BarResampler).
NoLookAhead ==
  \A k \in 1 .. Len(series) - 1 :
    /\ folds # <<>> => ~foldForesees(k)
    /\ compared # <<>> => ~comparisonForesees(k)

gain(result) == result.curve[Len(result.curve)] - Scale * InitialCash

\* The wins and losses behind win rate, profit factor and selection score add up
\* to what the equity curve gained, fees and slippage included, in every intraday
\* run and in every run of the factor model that ends without a position.
RoundTripsAddUp ==
  /\ \A i \in DOMAIN compared : total(roundTrips(compared[i].trades)) = gain(compared[i])
  /\ \A i \in DOMAIN folds :
       Candidates[folds[i].chosen].kind = "us_stock_factor" /\ folds[i].test.position = 0 =>
         total(roundTrips(folds[i].test.trades)) = gain(folds[i].test)
=============================================================================
