------------------------------ MODULE PaperRisk ------------------------------
(***************************************************************************)
(* The numbers behind a paper trade proposal: the decision of a strategy   *)
(* (services/trading-engine/strategy), the sizing and the risk controls of *)
(* the Node services (phases 22, 25, 26 and 27), the rules of              *)
(* services/trading-engine/risk/engine.py, and what the approval makes of  *)
(* all three after the market and the portfolio have moved on.             *)
(*                                                                         *)
(* PaperTrading has the concurrency, the statuses and the broker; here one *)
(* symbol and one proposal at a time.  Quantities are in 1/Parts of a      *)
(* share, percentages are whole, and a loss is in 1/(100 * Parts) dollars, *)
(* so that every comparison of the code is exact.                          *)
(***************************************************************************)
EXTENDS Integers, FiniteSets, FiniteSetsExt

CONSTANTS
  Parts,      \* 8 decimals of a coin: what a share is divided into
  Phases,     \* the strategies: 22 (manual), 25 (intraday), 26 (crypto), 27 (hourly)
  Manual,     \* side and quantity of the requests of phase 22
  Markets,    \* what the market data service may answer
  Portfolios, \* the paper portfolio, the latest snapshot and the rows of the symbol
  Limits,     \* system_settings
  MaxMoves,   \* bound: changes of the market or the account
  MaxToday    \* bound: proposals of one day

\* Percentages and amounts are not negative and a price is positive; what is held
\* may be: NeverShort of PaperTrading says when a symbol is sold short.
ASSUME RiskAssumption ==
  /\ Parts \in Nat \ {0} /\ Phases \subseteq {22, 25, 26, 27}
  /\ Manual \subseteq [side : {"BUY", "SELL"}, quantity : Int]
  /\ Markets \subseteq [price : Nat \ {0}, atr : Nat, trend : STRING, confirmed : BOOLEAN,
                       narrow : BOOLEAN, stale : BOOLEAN, open : BOOLEAN]
  /\ Portfolios \subseteq [cash : Int, held : Int, others : Nat, equity : Int, dailyPnl : Int,
                          exposed : SUBSET {"BUY", "SELL"}, ordered : BOOLEAN, cooling : BOOLEAN]
  /\ Limits \in [stopMultiple : Nat, targetMultiple : Nat, minReward : Nat, stopPct : Nat, slippagePct : Nat,
                 feePct : Nat, fee : Nat, minFee : Nat, maxLoss : [{22, 25, 26, 27} -> Nat],
                 maxPosition : Nat, concentrationPct : Nat, maxDailyLoss : Nat, maxCryptoLoss : Nat,
                 maxToday : Nat, maxNotional : Nat, maxOpen : Nat, driftPct : Nat, defaultQuantity : Nat,
                 preventDuplicate : BOOLEAN]

VARIABLES
  market, portfolio,
  moves,      \* changes so far
  today,      \* today's proposals of the strategy that passed their first check
  deal        \* the decision, then the proposal, at hand

riskVars == <<market, portfolio, moves, today, deal>>

NoDeal == [status |-> "none"]

-----------------------------------------------------------------------------
(* The strategies: what they decide, at which price and levels.            *)

liquid(m) == m.narrow /\ ~m.stale

\* The bracket of a purchase, where its reward is worth its risk.
bracket(m) ==
  LET risk == m.atr * Limits.stopMultiple
      reward == m.atr * Limits.targetMultiple
  IN IF risk > 0 /\ reward >= Limits.minReward * risk
     THEN <<[stop |-> m.price - risk, target |-> m.price + reward]>> ELSE <<>>

\* analyze_multi_timeframe() of the intraday strategy, which only buys; that of the
\* crypto strategy, open at any hour; analyze_hourly(), which buys only without a
\* position.  A sale only closes what is held.  `confirmed` is the setup with the
\* entry timing or the higher timeframe.
wantsBuy(phase, m, held) ==
  /\ m.trend = "UP" /\ m.confirmed /\ liquid(m) /\ bracket(m) # <<>>
  /\ phase # 26 => m.open
  /\ phase = 27 => ~held

wantsSell(phase, m, held) ==
  /\ phase \in {26, 27}
  /\ m.trend = "DOWN" /\ m.confirmed /\ liquid(m) /\ held
  /\ phase # 26 => m.open

decision(phase, m, held) ==
  CASE wantsBuy(phase, m, held) -> "BUY"
    [] wantsSell(phase, m, held) -> "SELL"
    [] OTHER -> "HOLD"

analyze(phase, m, held) ==
  [decision |-> decision(phase, m, held), price |-> m.price, liquid |-> liquid(m),
   open |-> m.open, bracket |-> IF wantsBuy(phase, m, held) THEN bracket(m) ELSE <<>>]

-----------------------------------------------------------------------------
(* phase22RiskControls() to phase27RiskControls().                         *)
(* c: phase, side, requested; m and a as read; analysis; count, today's    *)
(* proposals of the strategy.                                              *)

entryPrice(c) == IF c.phase = 22 THEN c.m.price ELSE c.analysis.price

\* Loss per share in hundredths of a dollar: to the stop, then slippage and fee.
stopDistance(c) ==
  CASE c.phase = 22 -> c.m.price * Limits.stopPct
    [] c.phase # 22 /\ c.side = "BUY" /\ c.analysis.bracket # <<>> ->
         100 * (c.analysis.price - c.analysis.bracket[1].stop)
    [] OTHER -> 0

slippage(c) == entryPrice(c) * Limits.slippagePct

feePerShare(c) == IF c.phase = 26 THEN entryPrice(c) * Limits.feePct ELSE 100 * Limits.fee

fee(c, quantity) ==
  IF c.phase = 26 THEN quantity * feePerShare(c)
  ELSE Max({quantity * feePerShare(c), 100 * Parts * Limits.minFee})

maxLoss(c, quantity) ==
  quantity * (stopDistance(c) + slippage(c)) + fee(c, quantity)

budget(c) == 100 * Parts * Limits.maxLoss[c.phase]

riskQuantity(c) ==
  IF stopDistance(c) > 0
  THEN budget(c) \div (stopDistance(c) + slippage(c) + feePerShare(c)) ELSE 0

cashQuantity(c) == (100 * Parts * c.a.cash) \div (100 * entryPrice(c) + slippage(c))

positionLimitQuantity(c) == (Parts * Limits.maxPosition) \div entryPrice(c)

concentrationQuantity(c) ==
  IF c.a.equity > 0
  THEN (Parts * c.a.equity * Limits.concentrationPct) \div (100 * entryPrice(c))
  ELSE riskQuantity(c)

\* Decimals round down: whole shares, or eight places of a coin.
roundedDown(c, quantity) == IF c.phase = 26 THEN quantity ELSE quantity - (quantity % Parts)

sized(c) ==
  roundedDown(c, CASE c.side = "BUY" -> Min({c.requested, riskQuantity(c), cashQuantity(c),
                                        positionLimitQuantity(c), concentrationQuantity(c)})
               [] c.side = "SELL" /\ c.phase = 22 -> c.requested
               [] OTHER -> Min({c.requested, c.a.held}))

\* The rules by name, without the number of the phase.  A manual sale is held to
\* the budget of a loss; a strategy's is not.
controls(c) ==
  [NO_ENTRY_SIGNAL |-> c.phase # 22 /\ c.analysis.decision # c.side,
   SESSION_STATUS |-> c.phase \in {25, 27} /\ ~c.analysis.open,
   FRESH_MARKET_DATA |-> c.m.stale,
   BID_ASK_SPREAD |-> ~c.m.narrow,
   LIQUIDITY |-> c.phase # 22 /\ ~c.analysis.liquid,
   INVALID_STOP_DISTANCE |-> c.phase # 22 /\ c.side = "BUY" /\ stopDistance(c) <= 0,
   NO_POSITION_TO_SELL |-> c.phase # 22 /\ c.side = "SELL" /\ c.a.held <= 0,
   POSITION_SIZE |-> sized(c) <= 0,
   MAX_LOSS_PER_TRADE |-> (c.phase = 22 \/ c.side = "BUY") /\ maxLoss(c, sized(c)) > budget(c),
   MAX_DAILY_LOSS |-> c.a.dailyPnl < -Limits.maxDailyLoss,
   CRYPTO_MAX_DAILY_LOSS |-> c.phase = 26 /\ c.a.dailyPnl < -Limits.maxCryptoLoss,
   DUPLICATE_EXPOSURE |->
     c.side = "BUY" /\ (c.phase = 22 => Limits.preventDuplicate) /\ (c.a.held > 0 \/ c.a.exposed # {}),
   DUPLICATE_PENDING_ORDER |-> c.a.ordered,
   COOLDOWN |-> c.a.cooling,
   MAX_TRADES_PER_DAY |-> c.phase # 22 /\ c.count >= Limits.maxToday]

failed(rules) == {r \in DOMAIN rules : rules[r]}

(***************************************************************************)
(* evaluate() of risk/engine.py.                                           *)
(***************************************************************************)

positionAfter(c, quantity) == (c.a.held + quantity) * c.m.price

rulesAtBothStages(c, quantity) ==
  [MARKET_DATA_FRESHNESS |-> c.m.stale,
   MAX_ORDER_NOTIONAL |-> quantity * c.m.price > Parts * Limits.maxNotional,
   AVAILABLE_CASH |-> c.side = "BUY" /\ Parts * c.a.cash < quantity * c.m.price,
   AVAILABLE_POSITION |-> c.side = "SELL" /\ c.a.held < quantity,
   MAX_POSITION_SIZE |-> c.side = "BUY" /\ positionAfter(c, quantity) > Parts * Limits.maxPosition,
   MAX_PORTFOLIO_CONCENTRATION |->
     c.side = "BUY" /\ c.a.equity > 0
       /\ 100 * positionAfter(c, quantity) > Parts * c.a.equity * Limits.concentrationPct,
   MAX_OPEN_POSITIONS |-> c.side = "BUY" /\ c.a.held = 0 /\ c.a.others >= Limits.maxOpen,
   MAX_DAILY_LOSS |-> c.a.dailyPnl < -Limits.maxDailyLoss,
   DUPLICATE_EXPOSURE |-> c.side \in c.a.exposed]

apart(p, q) == IF p < q THEN q - p ELSE p - q

priceDrift(c, reference) == 100 * apart(c.m.price, reference) > Limits.driftPct * reference

evaluate(c, quantity) == failed(rulesAtBothStages(c, quantity))

evaluateAgain(c, quantity, reference) ==
  evaluate(c, quantity) \cup (IF priceDrift(c, reference) THEN {"PRICE_DRIFT"} ELSE {})

-----------------------------------------------------------------------------
(* The proposal.                                                           *)

idle == deal.status \in {"none", "RISK_REJECTED", "APPROVED", "RISK_REJECTED_AFTER_APPROVAL"}

\* A manual request (createManualTestSignalAndProposal(), analyzeUsStock()) names
\* its side and quantity.
AskManually ==
  /\ idle /\ 22 \in Phases
  /\ \E r \in Manual :
       deal' = [status |-> "asked", phase |-> 22, side |-> r.side, requested |-> r.quantity,
                reference |-> market.price, analysis |-> analyze(22, market, FALSE)]
  /\ UNCHANGED <<market, portfolio, moves, today>>

\* createIntraday-, createCrypto- and createHourlyDecisionAndProposal(): on HOLD there is
\* no proposal; a sale is for all that is held, in whole shares by toFixed(0).
Decide(phase) ==
  LET a == analyze(phase, market, portfolio.held > 0)
      all == IF phase = 26 THEN portfolio.held
             ELSE Parts * ((2 * portfolio.held + Parts) \div (2 * Parts))
  IN
  /\ idle /\ phase \in Phases \ {22}
  /\ a.decision # "HOLD"
  /\ deal' = [status |-> "asked", phase |-> phase, side |-> a.decision,
              requested |-> IF a.decision = "BUY" THEN Limits.defaultQuantity ELSE all,
              reference |-> a.price, analysis |-> a]
  /\ UNCHANGED <<market, portfolio, moves, today>>

check(requested, analysis, count) ==
  [phase |-> deal.phase, side |-> deal.side, requested |-> requested, analysis |-> analysis,
   m |-> market, a |-> portfolio, count |-> count]

\* createSignalAndProposal() reads the market and the portfolio again.
CreateProposal ==
  LET c == check(deal.requested, deal.analysis, today)
      passed == failed(controls(c)) \cup evaluate(c, sized(c)) = {}
  IN
  /\ deal.status = "asked" /\ today < MaxToday /\ deal.requested > 0
  /\ deal' = [status |-> IF passed THEN "PENDING_APPROVAL" ELSE "RISK_REJECTED",
              phase |-> deal.phase, side |-> deal.side, quantity |-> sized(c),
              reference |-> deal.reference]
  /\ today' = IF passed THEN today + 1 ELSE today
  /\ UNCHANGED <<market, portfolio, moves>>

\* The request of a sale of nothing is refused: "quantity must be positive".
RequestRefused ==
  /\ deal.status = "asked" /\ deal.requested <= 0
  /\ deal' = NoDeal
  /\ UNCHANGED <<market, portfolio, moves, today>>

\* approveProposal() reads the market, then the portfolio, ...
ReadForApproval ==
  /\ deal.status = "PENDING_APPROVAL"
  /\ deal' = [status |-> "APPROVING", phase |-> deal.phase, side |-> deal.side, quantity |-> deal.quantity,
              reference |-> deal.reference, m |-> market, a |-> portfolio]
  /\ UNCHANGED <<market, portfolio, moves, today>>

\* The check of the approval if it kept the price the proposal was made at.
recheckAtReference ==
  [phase |-> deal.phase, side |-> deal.side, requested |-> deal.quantity,
   analysis |-> analyze(deal.phase, market, deal.a.held > 0),
   m |-> [deal.m EXCEPT !.price = deal.reference], count |-> today,
   a |-> [portfolio EXCEPT !.cash = deal.a.cash, !.held = deal.a.held, !.others = deal.a.others]]

recheck ==
  [phase |-> deal.phase, side |-> deal.side, requested |-> deal.quantity,
   analysis |-> analyze(deal.phase, market, deal.a.held > 0),
   m |-> deal.m, count |-> today,
   a |-> [portfolio EXCEPT !.cash = deal.a.cash, !.held = deal.a.held, !.others = deal.a.others]]

\* ... then has the strategy look again, and reads the rows.  The controls size the quantity anew and
\* judge what they sized; the proposal keeps its own.  The count has the proposal.
Approve ==
  LET c == recheck
      passed == failed(controls(c)) \cup evaluateAgain(c, deal.quantity, deal.reference) = {}
  IN
  /\ deal.status = "APPROVING"
  /\ deal' = [status |-> IF passed THEN "APPROVED" ELSE "RISK_REJECTED_AFTER_APPROVAL",
              phase |-> deal.phase, side |-> deal.side, quantity |-> deal.quantity, m |-> deal.m, checked |-> c]
  /\ UNCHANGED <<market, portfolio, moves, today>>

\* Prices move; fills, exits and other symbols change the account.
Moves ==
  /\ moves < MaxMoves /\ moves' = moves + 1
  /\ \/ market' \in Markets /\ UNCHANGED portfolio
     \/ portfolio' \in Portfolios /\ UNCHANGED market
  /\ UNCHANGED <<today, deal>>

RiskInit == market \in Markets /\ portfolio \in Portfolios /\ moves = 0 /\ today = 0 /\ deal = NoDeal

RiskNext ==
  \/ AskManually \/ (\E phase \in Phases : Decide(phase))
  \/ CreateProposal \/ RequestRefused \/ ReadForApproval \/ Approve \/ Moves

RiskSpec == RiskInit /\ [][RiskNext]_riskVars

-----------------------------------------------------------------------------
approved == deal.status = "APPROVED"

\* What is approved fits the portfolio it is approved for, at the price it is
\* approved at: a purchase sized on an older price and portfolio leaves cash, the
\* position, the concentration and the number of positions within their limits and
\* is no second position of its symbol; a sale sells no more than is held; and the
\* strategy still wants either.
ApprovedWithinLimits ==
  approved =>
    LET q == deal.quantity
        a == deal.checked.a
        spent == q * deal.m.price
        position == (a.held + q) * deal.m.price
    IN /\ q > 0
       /\ deal.phase # 22 => deal.checked.analysis.decision = deal.side
       /\ deal.side = "SELL" => q <= a.held
       /\ deal.side = "BUY" =>
            /\ spent <= Parts * a.cash
            /\ position <= Parts * Limits.maxPosition
            /\ a.equity > 0 => 100 * position <= Parts * a.equity * Limits.concentrationPct
            /\ (deal.phase = 22 => Limits.preventDuplicate) => a.held <= 0
            /\ a.held = 0 => a.others < Limits.maxOpen
=============================================================================
