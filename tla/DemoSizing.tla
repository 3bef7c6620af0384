----------------------------- MODULE DemoSizing -----------------------------
(***************************************************************************)
(* How large a DEMO trade is: the numbers of one AI trade plan from its    *)
(* analysis (analyzeSymbolWithAI), through the sizing by quality of the M5 *)
(* cycle (m5-opportunity-scan.ts, demo-sizing.ts), to the order its        *)
(* approval sends (approveAiTradePlan), while the account, the quote and   *)
(* the trading history move in between.                                    *)
(*                                                                         *)
(* The statuses and the races of a plan are the subject of AiTradePlan;    *)
(* here one approval runs at a time and order_send answers at once.        *)
(***************************************************************************)
EXTENDS Integers, Sequences, Mt5RiskEngine, PlanSchema, PlanQuality

CONSTANTS
  Answers,      \* AI answers, as PlanSchema describes them
  TrendSets,    \* [H4, H1, M15, M5] trends of the market package
  Symbol,       \* symbol_info(): contract, tickValue, min, max, step, stopsLevel
  Settings,     \* the owner's risk settings
  Strict,       \* STRICT_FALLBACK_RISK_SETTINGS
  Quality,      \* the final quality settings
  Accounts,     \* [equity, free, leverage] the account may show
  Prices,       \* bid prices, in ticks; the ask is one tick higher
  Outcomes,     \* decided outcomes the history may gain
  MaxOutcomes,  \* bound of the history
  MaxQuoteMoves \* bound of the account's and the quote's moves together

\* The smallest volume is one of the broker's steps, an account that was read
\* is never the marker NotRead.
ASSUME SizingAssumption ==
  /\ Symbol \in [contract : Nat, tickValue : Nat, min : Nat, max : Nat, step : Nat, stopsLevel : Nat]
  /\ Symbol.min <= Symbol.max /\ \E k \in 0 .. Symbol.min : Symbol.min = k * Symbol.step
  /\ Settings \in [killSwitch : BOOLEAN, fastLearning : BOOLEAN, maxRiskPct : Nat, maxLoss : Nat,
                   minRatio : Int, maxPositions : Nat, maxTrades : Nat, bufferPct : Nat]
  /\ Accounts \subseteq [equity : Nat, free : Int, leverage : Nat] /\ Prices \subseteq Nat
  /\ \A ai \in Answers : {ai.entry, ai.trigger, ai.zoneLow, ai.stop} \subseteq Nat

VARIABLES account, bid, quoteMoves, history, plan, scanned, approval, order

sizingVars == <<account, bid, quoteMoves, history, plan, scanned, approval, order>>

NoPlan == [status |-> "NONE"]
NoOrder == [volume |-> 0]
\* The account a cycle or an approval has read and still works with.
NotRead == [equity |-> -1, free |-> 0, leverage |-> 0]

ask(price) == price + 1

\* What positions_get() and countTradesToday() may answer.
OpenPositions == 0 .. Settings.maxPositions
TradesToday == 0 .. Settings.maxTrades

SizingInit ==
  /\ account \in Accounts /\ bid \in Prices
  /\ quoteMoves = 0 /\ history = <<>> /\ plan = NoPlan
  /\ scanned = NotRead /\ approval = NotRead /\ order = NoOrder

\* What evaluateMt5Risk() is given for a plan at an entry level.
RiskInput(ai, entry, seen, settings, verified, connected, positions, trades) ==
  [decision |-> ai.decision, entry |-> entry, stop |-> ai.stop, target |-> ai.target,
   ratio |-> ai.ratio, account |-> seen, settings |-> settings, symbol |-> Symbol,
   positions |-> positions, trades |-> trades, stale |-> FALSE,
   market |-> IF connected THEN "OPEN" ELSE "UNKNOWN",
   data |-> IF verified THEN "LIVE" ELSE "DISCONNECTED"]

\* An analysis stores a plan, or nothing for an invalid or waiting answer.
Analyse ==
  /\ plan = NoPlan
  /\ \E ai \in Answers, trends \in TrendSets, verified, connected \in BOOLEAN,
        positions \in OpenPositions, trades \in TradesToday :
       /\ parseTradeAIPlan(ai) /\ ai.decision # "WAIT"
       /\ LET entry == referenceEntryForRisk(ai, bid, ask(bid))
              cfg == effectiveMt5RiskSettings(verified, Settings, Strict)
              risk == evaluateMt5Risk(RiskInput(ai, entry, account, cfg, verified, connected, positions, trades))
              passes == risk.pass /\ checkBrokerStopDistance(Symbol, ai.type, entry, ai.current, ai.stop, ai.target)
          IN plan' = [status |-> IF passes THEN "WAITING_FOR_APPROVAL" ELSE "RISK_BLOCKED",
                      ai |-> ai, trends |-> trends, recommended_volume |-> risk.volume,
                      max_planned_loss |-> risk.amount, tier |-> "NONE", cap |-> 0,
                      final_volume |-> 0]
  /\ UNCHANGED <<account, bid, quoteMoves, history, scanned, approval, order>>

\* The M5 cycle reads the account once, at its start.
ScanReads ==
  /\ plan # NoPlan /\ plan.status = "WAITING_FOR_APPROVAL" /\ scanned = NotRead /\ plan.tier = "NONE"
  /\ scanned' = account
  /\ UNCHANGED <<account, bid, quoteMoves, history, plan, approval, order>>

\* applyQualityBasedSizing() for a plan in the cycle's top: the same engine
\* with the tier's cap in the place of the flat one; the UPDATE asks that
\* the plan still waits.
Resize ==
  /\ scanned # NotRead
  /\ scanned' = NotRead
  /\ \E positions \in OpenPositions, trades \in TradesToday :
     LET score == computeFinalQualityScore(plan.ai, plan.trends, history, Quality)
         quality == qualityTierFor(score, Quality)
         cfg == [effectiveMt5RiskSettings(TRUE, Settings, Strict) EXCEPT !.maxLoss = quality.cap]
         risk == evaluateMt5Risk(RiskInput(plan.ai, sizingEntry(plan.ai), scanned, cfg, TRUE, TRUE, positions, trades))
     IN IF quality.tier # "SHADOW_ONLY" /\ risk.pass /\ plan.status = "WAITING_FOR_APPROVAL"
        THEN plan' = [plan EXCEPT !.recommended_volume = risk.volume, !.max_planned_loss = risk.amount,
                                  !.tier = quality.tier, !.cap = quality.cap]
        ELSE plan' = plan
  /\ UNCHANGED <<account, bid, quoteMoves, history, approval, order>>

\* The owner approves: the plan is claimed and the account is read first,
ApproveReads ==
  /\ plan # NoPlan /\ plan.status = "WAITING_FOR_APPROVAL"
  /\ \/ /\ ~Settings.killSwitch
        /\ plan' = [plan EXCEPT !.status = "PENDING_ORDER_SUBMITTING"]
        /\ approval' = account
     \/ /\ plan' = [plan EXCEPT !.status = "RISK_BLOCKED"]    \* the kill switch, or no verified account
        /\ UNCHANGED approval
  /\ UNCHANGED <<account, bid, quoteMoves, history, scanned, order>>

\* mutant: the volume of the stored plan is sent
SendStored(entry, volume) == [volume |-> plan.recommended_volume, entry |-> entry, seen |-> approval]

\* The order request, with the account its volume was sized for.
SendOrder(entry, volume) == [volume |-> volume, entry |-> entry, seen |-> approval]

\* then the quote; the plan is sized again from the flat settings, and its
\* volume is normalised a second time before it is sent.
ApproveSends ==
  /\ approval # NotRead
  /\ approval' = NotRead
  /\ \E positions \in OpenPositions, trades \in TradesToday :
     LET ai == plan.ai
         entry == approvalEntry(ai, bid, ask(bid))
         cfg == effectiveMt5RiskSettings(TRUE, Settings, Strict)
         risk == evaluateMt5Risk(RiskInput(ai, entry, approval, cfg, TRUE, TRUE, positions, trades))
         price == IF ai.decision = "BUY" THEN ask(bid) ELSE bid
         volume == normalizeVolume(risk.volume, 1, Symbol)
     IN IF risk.pass /\ checkBrokerStopDistance(Symbol, ai.type, entry, price, ai.stop, ai.target) /\ volume > 0
        THEN /\ order' = SendOrder(entry, volume)
             /\ plan' = [plan EXCEPT !.final_volume = volume,
                                     !.status = IF ai.type = "MARKET_NOW" THEN "POSITION_OPEN" ELSE "PENDING_ORDER_PLACED"]
        ELSE plan' = [plan EXCEPT !.status = "RISK_BLOCKED"] /\ UNCHANGED order
  /\ UNCHANGED <<account, bid, quoteMoves, history, scanned>>

AccountMoves ==
  /\ quoteMoves < MaxQuoteMoves /\ quoteMoves' = quoteMoves + 1
  /\ account' \in Accounts \ {account}
  /\ UNCHANGED <<bid, history, plan, scanned, approval, order>>

PriceMoves ==
  /\ quoteMoves < MaxQuoteMoves /\ quoteMoves' = quoteMoves + 1
  /\ bid' \in Prices \ {bid}
  /\ UNCHANGED <<account, history, plan, scanned, approval, order>>

TradeCloses ==
  /\ Len(history) < MaxOutcomes
  /\ \E outcome \in Outcomes : history' = Append(history, outcome)
  /\ UNCHANGED <<account, bid, quoteMoves, plan, scanned, approval, order>>

SizingNext ==
  \/ Analyse \/ ScanReads \/ Resize \/ ApproveReads \/ ApproveSends
  \/ AccountMoves \/ PriceMoves \/ TradeCloses

SizingSpec == SizingInit /\ [][SizingNext]_sizingVars

-----------------------------------------------------------------------------

lossAt(volume, entry) == volume * distance(entry, plan.ai.stop) * Symbol.tickValue

(***************************************************************************)
(* Whatever the account, the quote and the stored numbers did since the    *)
(* analysis, the order an approval sends is sized for what it was sized    *)
(* against: tradeable, within the owner's absolute cap at the entry it     *)
(* names, within the share of the free margin read by the approval, and    *)
(* beyond the percentage of that equity only when it is the smallest lot   *)
(* (evaluateMt5Risk 153-195; normalizeVolume 84-89).                       *)
(***************************************************************************)
SentWithinCap ==
  order # NoOrder =>
    /\ order.volume \in Symbol.min .. Symbol.max
    /\ lossAt(order.volume, order.entry) <= Settings.maxLoss
    /\ \/ order.volume = Symbol.min
       \/ 100 * lossAt(order.volume, order.entry) <= order.seen.equity * Settings.maxRiskPct
    /\ 100 * order.volume * Symbol.contract * order.entry
         <= order.seen.free * Settings.bufferPct * order.seen.leverage

(***************************************************************************)
(* "a REAL DEMO candidate's planned max loss is capped by its Final        *)
(* Quality tier" (demo-sizing.ts 10-12): the order sent for a plan that    *)
(* was sized by its tier loses no more than the tier's cap.  The approval  *)
(* sizes the plan again from the flat settings (839-857), so this fails.   *)
(***************************************************************************)
SentWithinTier ==
  order # NoOrder /\ plan.tier # "NONE" => lossAt(order.volume, order.entry) <= plan.cap

=============================================================================
