---------------------------- MODULE Mt5RiskEngine ----------------------------
(***************************************************************************)
(* The server-side MT5 Risk Engine (apps/api/src/services/                 *)
(* mt5-risk-engine.ts), the settings it is given (config/                  *)
(* mt5-risk-settings.ts) and the broker distance check that follows it     *)
(* (trading-ai/broker-price.ts), as functions.                             *)
(*                                                                         *)
(* Prices are counted in ticks, volumes in hundredths of a lot, money in   *)
(* the account currency; percentages stay integers, and a comparison of    *)
(* two Decimals is a comparison of cross products.  0 stands for a missing *)
(* price and NoRatio for a missing risk/reward, which is in tenths.        *)
(***************************************************************************)
EXTENDS Integers, FiniteSetsExt

Null == 0
NoRatio == -1
distance(a, b) == IF a < b THEN b - a ELSE a - b

\* What symbol_info() says of the symbol; tickValue is the loss of one unit
\* of volume over one tick, 0 when the terminal gives none.
usable(symbol) == symbol.contract > 0 /\ symbol.min > 0 /\ symbol.max > 0 /\ symbol.step > 0

\* Without a verified demo account the loosened profile gives way to the
\* strict one.
effectiveMt5RiskSettings(verified, settings, strict) ==
  IF settings.fastLearning /\ ~verified
  THEN [strict EXCEPT !.killSwitch = settings.killSwitch, !.minRatio = settings.minRatio,
                      !.bufferPct = settings.bufferPct]
  ELSE settings

\* num / den is the raw volume: never rounded up, 0 below the minimum.
normalizeVolume(num, den, symbol) ==
  IF num < symbol.min * den THEN 0
  ELSE (Min({num, symbol.max * den}) \div (den * symbol.step)) * symbol.step

\* In hundredths of the account currency.
riskBudget(account, settings) == Min({100 * settings.maxLoss, account.equity * settings.maxRiskPct})

riskDistance(in) == IF in.stop = Null THEN 0 ELSE distance(in.entry, in.stop)

lossPerUnit(in) == riskDistance(in) * in.symbol.tickValue

\* The volume the budget pays for, or the smallest one when its loss at the
\* stop still fits the absolute cap.
sizedVolume(in) ==
  LET loss == lossPerUnit(in)
      byBudget == IF loss > 0 THEN normalizeVolume(riskBudget(in.account, in.settings), 100 * loss, in.symbol) ELSE 0
  IN IF byBudget = 0 /\ loss > 0 /\ in.symbol.min * loss <= in.settings.maxLoss
     THEN in.symbol.min ELSE byBudget

\* margin = volume * contract size * price / leverage, against the share of
\* the free margin one position may take.
marginExceeded(in, volume) ==
  100 * volume * in.symbol.contract * in.entry > in.account.free * in.settings.bufferPct * in.account.leverage

sizingFailures(in) ==
  IF ~usable(in.symbol) THEN {"SYMBOL_INFO_UNAVAILABLE"}
  ELSE LET volume == sizedVolume(in)
       IN (IF volume > 0 THEN {} ELSE IF lossPerUnit(in) > 0 THEN {"MINIMUM_VOLUME_EXCEEDS_RISK"}
                                      ELSE {"POSITION_SIZE_INVALID"})
          \cup (IF volume > 0 /\ in.account.leverage = 0 THEN {"MARGIN_UNVERIFIABLE"} ELSE {})
          \cup (IF volume > 0 /\ in.account.leverage > 0 /\ marginExceeded(in, volume)
                THEN {"INSUFFICIENT_MARGIN"} ELSE {})

\* The ratio of the plan when it has one, whatever the entry it is sent at.
ratioTooLow(in) ==
  IF in.ratio # NoRatio THEN in.ratio < in.settings.minRatio
  ELSE in.stop = Null \/ in.target = Null
       \/ 10 * distance(in.target, in.entry) < in.settings.minRatio * riskDistance(in)

rule(failed, name) == IF failed THEN {name} ELSE {}

failedRules(in) ==
  rule(in.settings.killSwitch, "SAFETY_SWITCH_ON")
  \cup rule(in.market # "OPEN", "MARKET_CLOSED") \cup rule(in.data # "LIVE", "STALE_DATA")
  \cup rule(in.decision \notin {"BUY", "SELL"}, "NO_EXECUTABLE_DECISION")
  \cup rule(in.stop = Null, "STOP_LOSS_REQUIRED") \cup rule(in.target = Null, "TAKE_PROFIT_REQUIRED")
  \cup rule(riskDistance(in) = 0, "INVALID_STOP_DISTANCE")
  \cup rule(ratioTooLow(in), "RISK_REWARD_TOO_LOW")
  \cup rule(in.positions >= in.settings.maxPositions, "MAX_SIMULTANEOUS_POSITIONS")
  \cup rule(in.trades >= in.settings.maxTrades, "MAX_TRADES_PER_DAY")
  \cup rule(in.stale, "STALE_QUOTE")
  \cup rule(in.account.free <= 0, "MARGIN_INSUFFICIENT")
  \cup sizingFailures(in)

\* recommendedVolume and riskAmount are reported whatever the verdict; the
\* risk amount is the budget, not the loss of the volume.
evaluateMt5Risk(in) ==
  [pass |-> failedRules(in) = {},
   volume |-> IF usable(in.symbol) THEN sizedVolume(in) ELSE 0,
   amount |-> riskBudget(in.account, in.settings)]

\* trade_stops_level, in ticks; 0 when the broker imposes none.
checkBrokerStopDistance(symbol, type, entry, price, stop, target) ==
  symbol.stopsLevel = 0
    \/ /\ distance(entry, stop) >= symbol.stopsLevel
       /\ distance(target, entry) >= symbol.stopsLevel
       /\ type = "MARKET_NOW" \/ distance(entry, price) >= symbol.stopsLevel

=============================================================================
