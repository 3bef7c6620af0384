--------------------------- MODULE DecisionProofs ---------------------------
(***************************************************************************)
(* What is decided of one trade is right for every account, price, limit   *)
(* and schedule: the size of a DEMO order (DemoSizing), the verdict on a   *)
(* paper proposal (PaperRisk) and the status of a symbol's session         *)
(* (SessionStatus).                                                        *)
(***************************************************************************)
EXTENDS DemoSizing, PaperRisk, SessionStatus, WellFoundedInduction, TLAPS

(***************************************************************************)
(* Arithmetic                                                              *)
(***************************************************************************)

LEMMA MinOfTwo ==
  ASSUME NEW a \in Int, NEW b \in Int
  PROVE  Min({a, b}) \in {a, b} /\ Min({a, b}) <= a /\ Min({a, b}) <= b
<1>1. \E x \in {a, b} : \A y \in {a, b} : x <= y BY a <= b \/ b <= a
<1> QED BY <1>1 DEF Min

LEMMA Product == ASSUME NEW a \in Nat, NEW b \in Nat PROVE a * b \in Nat
OBVIOUS

LEMMA Scales ==
  ASSUME NEW a \in Nat, NEW b \in Nat, NEW c \in Nat, a <= b
  PROVE  a * c <= b * c
<1>1. PICK k \in Nat : b = a + k BY b - a \in Nat, b = a + (b - a)
<1>2. b * c = a * c + k * c BY <1>1
<1>3. k * c \in Nat /\ a * c \in Nat OBVIOUS
<1> QED BY <1>2, <1>3

LEMMA Cancels ==
  ASSUME NEW a \in Nat, NEW b \in Nat, NEW c \in Nat \ {0}, a * c < b * c
  PROVE  a < b
<1> SUFFICES ASSUME b <= a PROVE FALSE OBVIOUS
<1>1. b * c <= a * c BY Scales
<1>2. a * c \in Nat /\ b * c \in Nat OBVIOUS
<1> QED BY <1>1, <1>2

LEMMA Division ==
  ASSUME NEW x \in Nat, NEW d \in Nat \ {0}
  PROVE  x \div d \in Nat /\ (x \div d) * d <= x /\ x < (x \div d + 1) * d
OBVIOUS

(***************************************************************************)
(* DemoSizing                                                              *)
(***************************************************************************)

Lot == Symbol.step

LEMMA SymbolFacts ==
  ASSUME SizingAssumption, usable(Symbol)
  PROVE  /\ Lot \in Nat \ {0} /\ Symbol.min \in Nat \ {0} /\ Symbol.max \in Nat /\ Symbol.min <= Symbol.max
         /\ Symbol.tickValue \in Nat /\ Symbol.contract \in Nat
         /\ \E k \in Nat : Symbol.min = k * Lot
BY DEF SizingAssumption, usable, Lot

\* A volume is 0 or a number of steps between the smallest and the largest
\* volume, and never costs more than what it was computed from (normalizeVolume).
LEMMA NormalVolume ==
  ASSUME SizingAssumption, usable(Symbol), NEW num \in Nat, NEW den \in Nat \ {0}
  PROVE  LET r == normalizeVolume(num, den, Symbol)
         IN r = 0 \/ /\ r \in Symbol.min .. Symbol.max /\ r * den <= num
                     /\ \E k \in Nat : r = k * Lot
<1> DEFINE m == Min({num, Symbol.max * den})
           d == den * Lot
           k == m \div d
           r == k * Lot
<1>1. /\ Lot \in Nat \ {0} /\ Symbol.min \in Nat \ {0} /\ Symbol.max \in Nat /\ Symbol.min <= Symbol.max
      /\ \E j \in Nat : Symbol.min = j * Lot
  BY SymbolFacts
<1>2. CASE num < Symbol.min * den BY <1>2 DEF normalizeVolume
<1>3. CASE ~(num < Symbol.min * den)
  <2>1. normalizeVolume(num, den, Symbol) = r BY <1>3 DEF normalizeVolume, Lot
  <2>2. Symbol.max * den \in Nat /\ Symbol.min * den \in Nat /\ d \in Nat \ {0} BY <1>1
  <2>3. m \in Nat /\ m <= num /\ m <= Symbol.max * den /\ m \in {num, Symbol.max * den}
    <3>1. num \in Int /\ Symbol.max * den \in Int BY <2>2
    <3> QED BY <2>2, <3>1, MinOfTwo
  <2>4. Symbol.min * den <= Symbol.max * den BY <1>1, Scales
  <2>5. Symbol.min * den <= m BY <1>3, <2>2, <2>3, <2>4
  <2> HIDE DEF m
  <2>6. k \in Nat /\ k * d <= m /\ m < (k + 1) * d
    <3> HIDE DEF d
    <3> QED BY <2>2, <2>3, Division
  <2> HIDE DEF k
  <2>7. r \in Nat /\ k * d = r * den /\ r * den \in Nat BY <1>1, <2>6
  <2>8. r * den <= num /\ r * den <= Symbol.max * den BY <2>2, <2>3, <2>6, <2>7
  <2>9. r <= Symbol.max
    <3> SUFFICES ASSUME Symbol.max < r PROVE FALSE BY <1>1, <2>7
    <3>1. (Symbol.max + 1) * den <= r * den BY <1>1, <2>7, Scales
    <3>2. (Symbol.max + 1) * den = Symbol.max * den + den BY <1>1
    <3> QED BY <2>2, <2>7, <2>8, <3>1, <3>2
  <2>10. Symbol.min <= r
    <3>1. PICK j \in Nat : Symbol.min = j * Lot BY <1>1
    <3>2. Symbol.min * den = j * d BY <1>1, <3>1
    <3>3. j * d < (k + 1) * d /\ j * d \in Nat /\ (k + 1) * d \in Nat
      <4>1. j * d \in Nat /\ (k + 1) * d \in Nat BY <2>2, <2>6
      <4> QED BY <2>3, <2>5, <2>6, <3>2, <4>1
    <3>4. j < k + 1
      <4> HIDE DEF d
      <4> QED BY <2>2, <2>6, <3>3, Cancels
    <3>5. j * Lot <= k * Lot BY <1>1, <2>6, <3>4, Scales
    <3> QED BY <3>1, <3>5
  <2> QED BY <1>1, <2>1, <2>6, <2>7, <2>8, <2>9, <2>10
<1> QED BY <1>2, <1>3

\* Such a volume is not changed by a second normalisation.
LEMMA NormalAgain ==
  ASSUME SizingAssumption, usable(Symbol), NEW v \in Symbol.min .. Symbol.max, \E k \in Nat : v = k * Lot
  PROVE  normalizeVolume(v, 1, Symbol) = v
<1>1. Lot \in Nat \ {0} /\ Symbol.min \in Nat \ {0} /\ Symbol.max \in Nat BY SymbolFacts
<1>2. PICK k \in Nat : v = k * Lot OBVIOUS
<1>3. v \in Nat /\ v <= Symbol.max * 1 /\ ~(v < Symbol.min * 1) BY <1>1
<1>4. Min({v, Symbol.max * 1}) = v
  <2>1. v \in Int /\ Symbol.max * 1 \in Int BY <1>1, <1>3
  <2> DEFINE m == Min({v, Symbol.max * 1})
  <2>2. m \in {v, Symbol.max * 1} /\ m <= v /\ m <= Symbol.max * 1 BY <2>1, MinOfTwo
  <2> QED BY <1>1, <1>3, <2>1, <2>2
<1>5. v \div (1 * Lot) = k
  <2> DEFINE q == v \div Lot
  <2>1. q \in Nat /\ q * Lot <= v /\ v < (q + 1) * Lot BY <1>1, <1>3, Division
  <2> HIDE DEF q
  <2>2. k * Lot < (q + 1) * Lot /\ k * Lot \in Nat BY <1>1, <1>2, <2>1
  <2>3. k < q + 1 BY <1>1, <2>1, <2>2, Cancels
  <2>4. (k + 1) * Lot = k * Lot + Lot BY <1>1
  <2>5. q * Lot < (k + 1) * Lot
    <3>1. q * Lot \in Nat BY <1>1, <2>1
    <3> QED BY <1>1, <1>2, <2>1, <2>2, <2>4, <3>1
  <2>6. q < k + 1 BY <1>1, <2>1, <2>5, Cancels
  <2>7. q = k BY <2>1, <2>3, <2>6
  <2> QED BY <1>1, <2>7 DEF q
<1> QED BY <1>2, <1>3, <1>4, <1>5 DEF normalizeVolume, Lot

\* The input of the engine, for what the sizing asks of it.
GoodInput(in) ==
  /\ in.symbol = Symbol /\ in.settings = Settings /\ in.account \in Accounts
  /\ in.entry \in Nat /\ in.stop \in Nat

LEMMA Passed ==
  ASSUME NEW in, evaluateMt5Risk(in).pass
  PROVE  /\ riskDistance(in) # 0 /\ in.stop # Null /\ usable(in.symbol)
         /\ sizedVolume(in) > 0 /\ in.account.leverage # 0
         /\ (in.account.leverage > 0 => ~marginExceeded(in, sizedVolume(in)))
         /\ evaluateMt5Risk(in).volume = sizedVolume(in)
<1>1. failedRules(in) = {} BY DEF evaluateMt5Risk
<1>2. /\ rule(in.stop = Null, "STOP_LOSS_REQUIRED") = {}
      /\ rule(riskDistance(in) = 0, "INVALID_STOP_DISTANCE") = {}
      /\ sizingFailures(in) = {}
  BY <1>1 DEF failedRules
<1>3. in.stop # Null /\ riskDistance(in) # 0 BY <1>2 DEF rule
<1>4. usable(in.symbol) BY <1>2 DEF sizingFailures
<1>5. /\ sizedVolume(in) > 0 /\ in.account.leverage # 0
      /\ (in.account.leverage > 0 => ~marginExceeded(in, sizedVolume(in)))
  BY <1>2, <1>4 DEF sizingFailures
<1> QED BY <1>3, <1>4, <1>5 DEF evaluateMt5Risk

\* The size a passing verdict carries is within budget, cap and margin
\* (evaluateMt5Risk 153-195).
LEMMA SizedWithin ==
  ASSUME SizingAssumption, NEW in, GoodInput(in), evaluateMt5Risk(in).pass
  PROVE  LET v == evaluateMt5Risk(in).volume
             loss == distance(in.entry, in.stop) * Symbol.tickValue
         IN /\ usable(Symbol) /\ v \in Symbol.min .. Symbol.max /\ \E k \in Nat : v = k * Lot
            /\ v * loss <= Settings.maxLoss
            /\ v = Symbol.min \/ 100 * (v * loss) <= in.account.equity * Settings.maxRiskPct
            /\ 100 * v * Symbol.contract * in.entry
                 <= in.account.free * Settings.bufferPct * in.account.leverage
<1> DEFINE loss == lossPerUnit(in)
           v == sizedVolume(in)
           den == 100 * loss
           byBudget == normalizeVolume(riskBudget(in.account, in.settings), den, in.symbol)
<1>1. /\ riskDistance(in) # 0 /\ in.stop # Null /\ usable(in.symbol) /\ v > 0
      /\ in.account.leverage # 0 /\ (in.account.leverage > 0 => ~marginExceeded(in, v))
      /\ evaluateMt5Risk(in).volume = v
  BY Passed
<1>2. usable(Symbol) BY <1>1 DEF GoodInput
<1>3. /\ Symbol.min \in Nat \ {0} /\ Symbol.max \in Nat /\ Symbol.min <= Symbol.max /\ Symbol.tickValue \in Nat
      /\ \E k \in Nat : Symbol.min = k * Lot
  BY <1>2, SymbolFacts
<1>4. /\ Settings.maxLoss \in Nat /\ Settings.maxRiskPct \in Nat /\ in.account.equity \in Nat
      /\ in.account.leverage \in Nat
  BY DEF SizingAssumption, GoodInput
<1>5. riskDistance(in) = distance(in.entry, in.stop) /\ riskDistance(in) \in Nat
  BY <1>1 DEF riskDistance, distance, GoodInput
<1>6. loss \in Nat /\ loss = distance(in.entry, in.stop) * Symbol.tickValue
  BY <1>3, <1>5, Product DEF lossPerUnit, GoodInput
<1> DEFINE spare == riskBudget(in.account, in.settings)
<1>7. /\ spare \in Nat /\ spare <= 100 * Settings.maxLoss
      /\ spare <= in.account.equity * Settings.maxRiskPct
  <2> DEFINE a == 100 * Settings.maxLoss
             b == in.account.equity * Settings.maxRiskPct
  <2>1. a \in Nat /\ b \in Nat BY <1>4, Product
  <2>2. spare = Min({a, b}) BY DEF riskBudget, GoodInput
  <2> HIDE DEF a, b, spare
  <2>3. spare \in {a, b} /\ spare <= a /\ spare <= b
    <3>1. a \in Int /\ b \in Int BY <2>1
    <3> QED BY <2>2, <3>1, MinOfTwo
  <2>4. spare \in Nat /\ spare <= a /\ spare <= b BY <2>1, <2>3
  <2> QED BY <2>4 DEF a, b
<1> HIDE DEF spare
<1>8. loss > 0
  <2> SUFFICES ASSUME ~(loss > 0) PROVE FALSE OBVIOUS
  <2>1. v = 0 BY DEF sizedVolume
  <2> QED BY <1>1, <2>1
<1>9. den \in Nat \ {0} BY <1>6, <1>8
<1>10. byBudget = normalizeVolume(spare, den, Symbol) BY DEF GoodInput, spare
<1>11. byBudget = 0
         \/ /\ byBudget \in Symbol.min .. Symbol.max /\ byBudget * den <= spare
            /\ \E k \in Nat : byBudget = k * Lot
  <2> HIDE DEF byBudget, den
  <2> QED BY <1>2, <1>7, <1>9, <1>10, NormalVolume
<1>12. v = IF byBudget = 0 /\ Symbol.min * loss <= Settings.maxLoss THEN Symbol.min ELSE byBudget
  BY <1>8 DEF sizedVolume, GoodInput
<1> HIDE DEF v, byBudget
<1>13. /\ v \in Symbol.min .. Symbol.max /\ \E k \in Nat : v = k * Lot
       /\ v * loss <= Settings.maxLoss
       /\ v = Symbol.min \/ 100 * (v * loss) <= in.account.equity * Settings.maxRiskPct
  <2>1. CASE byBudget = 0 BY <1>1, <1>3, <1>12, <2>1
  <2>2. CASE byBudget # 0
    <3>1. /\ v = byBudget /\ v \in Symbol.min .. Symbol.max /\ v * den <= spare
          /\ \E k \in Nat : v = k * Lot
      BY <1>11, <1>12, <2>2
    <3>2. v \in Nat BY <1>3, <3>1
    <3>3. v * den = 100 * (v * loss) /\ v * loss \in Nat BY <1>6, <3>2
    <3>4. in.account.equity * Settings.maxRiskPct \in Nat BY <1>4, Product
    <3>5. 100 * (v * loss) <= spare BY <3>1, <3>3
    <3> HIDE DEF den, loss
    <3>6. v * loss <= Settings.maxLoss BY <1>4, <1>7, <3>3, <3>5
    <3>7. 100 * (v * loss) <= in.account.equity * Settings.maxRiskPct BY <1>7, <3>3, <3>4, <3>5
    <3> QED BY <3>1, <3>6, <3>7
  <2> QED BY <2>1, <2>2
<1>14. 100 * v * Symbol.contract * in.entry
         <= in.account.free * Settings.bufferPct * in.account.leverage
  <2> DEFINE need == 100 * v * Symbol.contract * in.entry
             has == in.account.free * Settings.bufferPct * in.account.leverage
  <2>1. ~(need > has)
    <3>1. ~marginExceeded(in, v) BY <1>1, <1>4
    <3> QED BY <3>1 DEF marginExceeded, GoodInput
  <2>2. need \in Int
    <3>1. v \in Int /\ Symbol.contract \in Int /\ in.entry \in Int
      BY <1>3, <1>13 DEF SizingAssumption, GoodInput
    <3> QED BY <3>1
  <2>3. has \in Int
    <3>1. in.account.free \in Int /\ Settings.bufferPct \in Int /\ in.account.leverage \in Int
      BY DEF SizingAssumption, GoodInput
    <3> QED BY <3>1
  <2> HIDE DEF need, has
  <2>4. need <= has BY <2>1, <2>2, <2>3
  <2> QED BY <2>4 DEF need, has
<1> QED BY <1>1, <1>2, <1>6, <1>13, <1>14 DEF v

(***************************************************************************)
(* The order is what was sized.                                            *)
(***************************************************************************)

PlanFields ==
  {"status", "ai", "trends", "recommended_volume", "max_planned_loss", "tier", "cap", "final_volume"}

PlanRow(p) == p = [x \in PlanFields |-> p[x]]

SizingInv ==
  /\ account \in Accounts /\ bid \in Prices
  /\ plan # NoPlan => PlanRow(plan) /\ plan.ai \in Answers
  /\ approval # NotRead => approval \in Accounts /\ plan # NoPlan
  /\ order # NoOrder => plan # NoPlan
  /\ SentWithinCap

LEMMA PlanEdit ==
  ASSUME NEW p, PlanRow(p), NEW f \in PlanFields \ {"ai"}, NEW x
  PROVE  PlanRow([p EXCEPT ![f] = x]) /\ [p EXCEPT ![f] = x].ai = p.ai
BY DEF PlanRow, PlanFields

LEMMA RowIsPlan ==
  ASSUME NEW p, PlanRow(p)
  PROVE  p # NoPlan
<1>1. "ai" \in DOMAIN p BY DEF PlanRow, PlanFields
<1>2. "ai" \notin DOMAIN NoPlan BY DEF NoPlan
<1> QED BY <1>1, <1>2

\* The order, the account it was sized for and the answer of its plan stay.
LEMMA OrderStays ==
  ASSUME SizingInv, order' = order, order # NoOrder => plan'.ai = plan.ai
  PROVE  SentWithinCap'
BY DEF SizingInv, SentWithinCap, lossAt

\* A plan that is edited keeps its answer.
Edited == plan # NoPlan /\ PlanRow(plan') /\ plan'.ai = plan.ai

LEMMA EditHolds ==
  ASSUME SizingInv, Edited, order' = order, account' \in Accounts, bid' \in Prices,
         approval' # NotRead => approval' \in Accounts
  PROVE  SizingInv'
<1>1. plan' # NoPlan /\ plan'.ai \in Answers BY RowIsPlan DEF Edited, SizingInv
<1>2. SentWithinCap' BY OrderStays DEF Edited
<1> QED BY <1>1, <1>2 DEF SizingInv, Edited

LEMMA OthersHold ==
  ASSUME SizingInv, plan' = plan, order' = order, approval' \in {approval, NotRead},
         account' \in Accounts, bid' \in Prices
  PROVE  SizingInv'
<1>1. SentWithinCap' BY OrderStays
<1>2. (plan # NoPlan => PlanRow(plan) /\ plan.ai \in Answers)' BY DEF SizingInv
<1>3. (approval # NotRead => approval \in Accounts /\ plan # NoPlan)' BY DEF SizingInv, NotRead
<1>4. (order # NoOrder => plan # NoPlan)' BY DEF SizingInv
<1> QED BY <1>1, <1>2, <1>3, <1>4 DEF SizingInv

LEMMA AnalyseHolds == SizingAssumption /\ SizingInv /\ Analyse => SizingInv'
<1> SUFFICES ASSUME SizingAssumption, SizingInv, Analyse PROVE SizingInv' OBVIOUS
<1>1. plan = NoPlan /\ order = NoOrder /\ approval = NotRead BY DEF Analyse, SizingInv
<1>2. order' = NoOrder /\ approval' = NotRead /\ account' = account /\ bid' = bid BY <1>1 DEF Analyse
<1>3. PICK ai \in Answers, trends \in TrendSets, verified \in BOOLEAN, connected \in BOOLEAN,
           positions \in OpenPositions, trades \in TradesToday :
         LET entry == referenceEntryForRisk(ai, bid, ask(bid))
             cfg == effectiveMt5RiskSettings(verified, Settings, Strict)
             risk == evaluateMt5Risk(RiskInput(ai, entry, account, cfg, verified, connected, positions, trades))
             passes == risk.pass /\ checkBrokerStopDistance(Symbol, ai.type, entry, ai.current, ai.stop, ai.target)
         IN plan' = [status |-> IF passes THEN "WAITING_FOR_APPROVAL" ELSE "RISK_BLOCKED",
                     ai |-> ai, trends |-> trends, recommended_volume |-> risk.volume,
                     max_planned_loss |-> risk.amount, tier |-> "NONE", cap |-> 0,
                     final_volume |-> 0]
  BY DEF Analyse
<1>4. PlanRow(plan') /\ plan'.ai \in Answers BY <1>3 DEF PlanRow, PlanFields
<1>5. SentWithinCap' BY <1>2 DEF SentWithinCap
<1>6. account' \in Accounts /\ bid' \in Prices BY <1>2 DEF SizingInv
<1>7. plan' # NoPlan BY <1>4, RowIsPlan
<1> QED BY <1>2, <1>4, <1>5, <1>6, <1>7 DEF SizingInv

LEMMA ResizeHolds == SizingAssumption /\ SizingInv /\ Resize => SizingInv'
<1> SUFFICES ASSUME SizingAssumption, SizingInv, Resize PROVE SizingInv' OBVIOUS
<1>1. account' = account /\ bid' = bid /\ approval' = approval /\ order' = order BY DEF Resize
<1>2. plan' = plan \/ \E v, l, r, c :
        plan.status = "WAITING_FOR_APPROVAL"
        /\ plan' = [plan EXCEPT !.recommended_volume = v, !.max_planned_loss = l, !.tier = r, !.cap = c]
  <2>1. PICK positions \in OpenPositions, trades \in TradesToday :
     LET score == computeFinalQualityScore(plan.ai, plan.trends, history, Quality)
         quality == qualityTierFor(score, Quality)
         cfg == [effectiveMt5RiskSettings(TRUE, Settings, Strict) EXCEPT !.maxLoss = quality.cap]
         risk == evaluateMt5Risk(RiskInput(plan.ai, sizingEntry(plan.ai), scanned, cfg, TRUE, TRUE, positions, trades))
     IN IF quality.tier # "SHADOW_ONLY" /\ risk.pass /\ plan.status = "WAITING_FOR_APPROVAL"
        THEN plan' = [plan EXCEPT !.recommended_volume = risk.volume, !.max_planned_loss = risk.amount,
                                  !.tier = quality.tier, !.cap = quality.cap]
        ELSE plan' = plan
    BY DEF Resize
  <2> DEFINE quality == qualityTierFor(computeFinalQualityScore(plan.ai, plan.trends, history, Quality), Quality)
             cfg == [effectiveMt5RiskSettings(TRUE, Settings, Strict) EXCEPT !.maxLoss = quality.cap]
             risk == evaluateMt5Risk(RiskInput(plan.ai, sizingEntry(plan.ai), scanned, cfg, TRUE, TRUE, positions, trades))
  <2>2. CASE plan' # plan
    <3>1. /\ plan.status = "WAITING_FOR_APPROVAL"
          /\ plan' = [plan EXCEPT !.recommended_volume = risk.volume, !.max_planned_loss = risk.amount,
                                  !.tier = quality.tier, !.cap = quality.cap]
      BY <2>1, <2>2
    <3> HIDE DEF quality, risk
    <3> QED BY <3>1
  <2> QED BY <2>2
<1>3. CASE plan' = plan BY <1>1, <1>3, OthersHold DEF SizingInv
<1>4. CASE plan' # plan
  <2>1. PICK v, l, r, c :
          plan.status = "WAITING_FOR_APPROVAL"
          /\ plan' = [plan EXCEPT !.recommended_volume = v, !.max_planned_loss = l, !.tier = r, !.cap = c]
    BY <1>2, <1>4
  <2>2. plan # NoPlan /\ PlanRow(plan) BY <2>1 DEF NoPlan, SizingInv
  <2> DEFINE edited == {"recommended_volume", "max_planned_loss", "tier", "cap"}
  <2>0. edited \subseteq PlanFields \ {"ai"} BY DEF PlanFields
  <2>3. PICK p : p = [plan EXCEPT !.recommended_volume = v] OBVIOUS
  <2>4. PlanRow(p) /\ p.ai = plan.ai BY <2>0, <2>2, <2>3, PlanEdit
  <2>5. PICK q : q = [p EXCEPT !.max_planned_loss = l] OBVIOUS
  <2>6. PlanRow(q) /\ q.ai = plan.ai BY <2>0, <2>4, <2>5, PlanEdit
  <2>7. PICK s : s = [q EXCEPT !.tier = r] OBVIOUS
  <2>8. PlanRow(s) /\ s.ai = plan.ai BY <2>0, <2>6, <2>7, PlanEdit
  <2>9. plan' = [s EXCEPT !.cap = c] BY <2>1, <2>3, <2>5, <2>7
  <2>10. Edited BY <2>0, <2>2, <2>8, <2>9, PlanEdit DEF Edited
  <2> QED BY <1>1, <2>10, EditHolds DEF SizingInv
<1> QED BY <1>3, <1>4

LEMMA ReadsHold == SizingAssumption /\ SizingInv /\ ApproveReads => SizingInv'
<1> SUFFICES ASSUME SizingAssumption, SizingInv, ApproveReads PROVE SizingInv' OBVIOUS
<1>1. /\ plan # NoPlan /\ account' = account /\ bid' = bid /\ order' = order
      /\ approval' \in {approval, account} /\ \E s : plan' = [plan EXCEPT !.status = s]
  BY DEF ApproveReads
<1>2. PICK s : plan' = [plan EXCEPT !.status = s] BY <1>1
<1>3. Edited BY <1>1, <1>2, PlanEdit DEF Edited, PlanFields, SizingInv
<1> QED BY <1>1, <1>3, EditHolds DEF SizingInv

\* The approval: what passed the engine is what is sent, since a volume of the
\* engine is its own normal form.
LEMMA SendsHold == SizingAssumption /\ SizingInv /\ ApproveSends => SizingInv'
<1> SUFFICES ASSUME SizingAssumption, SizingInv, ApproveSends PROVE SizingInv' OBVIOUS
<1> DEFINE ai == plan.ai
           entry == approvalEntry(ai, bid, ask(bid))
           cfg == effectiveMt5RiskSettings(TRUE, Settings, Strict)
           input(positions, trades) == RiskInput(ai, entry, approval, cfg, TRUE, TRUE, positions, trades)
<1>1. /\ approval \in Accounts /\ approval' = NotRead /\ plan # NoPlan /\ PlanRow(plan) /\ ai \in Answers
      /\ account' = account /\ bid' = bid
  BY DEF ApproveSends, SizingInv
<1>2. PICK positions \in OpenPositions, trades \in TradesToday :
        LET risk == evaluateMt5Risk(input(positions, trades))
            price == IF ai.decision = "BUY" THEN ask(bid) ELSE bid
            volume == normalizeVolume(risk.volume, 1, Symbol)
        IN IF risk.pass /\ checkBrokerStopDistance(Symbol, ai.type, entry, price, ai.stop, ai.target) /\ volume > 0
           THEN /\ order' = SendOrder(entry, volume)
                /\ plan' = [plan EXCEPT !.final_volume = volume,
                                        !.status = IF ai.type = "MARKET_NOW" THEN "POSITION_OPEN" ELSE "PENDING_ORDER_PLACED"]
           ELSE plan' = [plan EXCEPT !.status = "RISK_BLOCKED"] /\ UNCHANGED order
  BY DEF ApproveSends
<1> DEFINE in == input(positions, trades)
           risk == evaluateMt5Risk(in)
           volume == normalizeVolume(risk.volume, 1, Symbol)
<1>3. CASE order' = order /\ plan' = [plan EXCEPT !.status = "RISK_BLOCKED"]
  <2>1. Edited BY <1>1, <1>3, PlanEdit DEF Edited, PlanFields
  <2> QED BY <1>1, <1>3, <2>1, EditHolds DEF SizingInv
<1>4. CASE ~(order' = order /\ plan' = [plan EXCEPT !.status = "RISK_BLOCKED"])
  <2>1. /\ risk.pass /\ order' = SendOrder(entry, volume)
        /\ \E s : plan' = [plan EXCEPT !.final_volume = volume, !.status = s]
    BY <1>2, <1>4
  <2>2. PlanRow(plan') /\ plan'.ai = ai
    <3> HIDE DEF volume, ai
    <3>0. "final_volume" \in PlanFields \ {"ai"} /\ "status" \in PlanFields \ {"ai"} BY DEF PlanFields
    <3>1. PICK s : plan' = [plan EXCEPT !.final_volume = volume, !.status = s] BY <2>1
    <3>2. PICK p : p = [plan EXCEPT !.final_volume = volume] OBVIOUS
    <3>3. PlanRow(p) /\ p.ai = plan.ai BY <1>1, <3>0, <3>2, PlanEdit
    <3>4. plan' = [p EXCEPT !.status = s] BY <3>1, <3>2
    <3>5. PlanRow(plan') /\ plan'.ai = plan.ai BY <3>0, <3>3, <3>4, PlanEdit
    <3> QED BY <3>5 DEF ai
  <2>3. GoodInput(in)
    <3>1. cfg = Settings BY DEF effectiveMt5RiskSettings
    <3>2. {ai.entry, ai.trigger, ai.zoneLow, ai.stop} \subseteq Nat /\ bid \in Nat
      BY <1>1 DEF SizingAssumption, SizingInv
    <3> HIDE DEF ai
    <3>3. entry \in Nat BY <3>2 DEF approvalEntry, orElse, ask
    <3> HIDE DEF entry, cfg
    <3> QED BY <1>1, <3>1, <3>2, <3>3 DEF RiskInput, GoodInput
  <2>4. in.entry = entry /\ in.stop = ai.stop /\ in.account = approval BY DEF RiskInput
  <2>5. in \in {in} /\ risk.volume \in {risk.volume} OBVIOUS
  <2> HIDE DEF ai, entry, in
  <2> DEFINE loss == distance(entry, ai.stop) * Symbol.tickValue
  <2>6. /\ usable(Symbol) /\ risk.volume \in Symbol.min .. Symbol.max /\ \E k \in Nat : risk.volume = k * Lot
        /\ risk.volume * loss <= Settings.maxLoss
        /\ risk.volume = Symbol.min \/ 100 * (risk.volume * loss) <= approval.equity * Settings.maxRiskPct
        /\ 100 * risk.volume * Symbol.contract * entry
             <= approval.free * Settings.bufferPct * approval.leverage
    BY <2>1, <2>3, <2>4, SizedWithin
  <2>7. volume = risk.volume
    <3> HIDE DEF risk
    <3> QED BY <2>6, NormalAgain
  <2>8. order'.volume = volume /\ order'.entry = entry /\ order'.seen = approval BY <2>1 DEF SendOrder
  <2> HIDE DEF risk, volume
  <2>9. lossAt(order.volume, order.entry)' = volume * loss
    <3>1. lossAt(order.volume, order.entry)' = volume * distance(entry, ai.stop) * Symbol.tickValue
      BY <2>2, <2>8 DEF lossAt
    <3>2. volume \in Int /\ distance(entry, ai.stop) \in Int /\ Symbol.tickValue \in Int
      <4>1. Symbol.min \in Nat /\ Symbol.max \in Nat /\ Symbol.tickValue \in Nat BY DEF SizingAssumption
      <4>2. volume \in Int BY <2>6, <2>7, <4>1
      <4>3. entry \in Nat /\ ai.stop \in Nat BY <2>3, <2>4 DEF GoodInput
      <4> QED BY <4>1, <4>2, <4>3 DEF distance
    <3> HIDE DEF volume
    <3> QED BY <3>1, <3>2
  <2>10. SentWithinCap' BY <2>6, <2>7, <2>8, <2>9 DEF SentWithinCap
  <2>11. plan' # NoPlan BY <2>2, RowIsPlan
  <2>12. account' \in Accounts /\ bid' \in Prices BY <1>1 DEF SizingInv
  <2> QED BY <1>1, <2>2, <2>10, <2>11, <2>12 DEF SizingInv, ai
<1> QED BY <1>3, <1>4

LEMMA MovesHold ==
  SizingAssumption /\ SizingInv /\ (ScanReads \/ AccountMoves \/ PriceMoves \/ TradeCloses) => SizingInv'
<1> SUFFICES ASSUME SizingAssumption, SizingInv, ScanReads \/ AccountMoves \/ PriceMoves \/ TradeCloses
             PROVE  SizingInv'
  OBVIOUS
<1>1. plan' = plan /\ order' = order /\ approval' = approval
  BY DEF ScanReads, AccountMoves, PriceMoves, TradeCloses
<1>2. account' \in Accounts /\ bid' \in Prices
  BY DEF ScanReads, AccountMoves, PriceMoves, TradeCloses, SizingInv
<1> QED BY <1>1, <1>2, OthersHold

\* An order is tradeable and within the owner's cap, the share of the margin
\* and, unless it is the smallest lot, the percentage of the equity the
\* approval read: for every account, quote, answer, history and setting.
THEOREM OrderWithinCap == SizingSpec => []SentWithinCap
<1>1. SizingInit => SizingInv
  <2>1. SizingInit => SentWithinCap BY DEF SizingInit, SentWithinCap
  <2> QED BY <2>1 DEF SizingInit, SizingInv
<1>2. SizingInv /\ [SizingNext]_sizingVars => SizingInv'
  <2> SUFFICES ASSUME SizingInv, [SizingNext]_sizingVars PROVE SizingInv' OBVIOUS
  <2>1. CASE Analyse BY <2>1, SizingAssumption, AnalyseHolds
  <2>2. CASE Resize BY <2>2, SizingAssumption, ResizeHolds
  <2>3. CASE ApproveReads BY <2>3, SizingAssumption, ReadsHold
  <2>4. CASE ApproveSends BY <2>4, SizingAssumption, SendsHold
  <2>5. CASE ScanReads \/ AccountMoves \/ PriceMoves \/ TradeCloses BY <2>5, SizingAssumption, MovesHold
  <2>6. CASE UNCHANGED sizingVars
    <3>1. account' \in Accounts /\ bid' \in Prices BY <2>6 DEF SizingInv, sizingVars
    <3> QED BY <2>6, <3>1, OthersHold DEF sizingVars
  <2> QED BY <2>1, <2>2, <2>3, <2>4, <2>5, <2>6 DEF SizingNext
<1>3. SizingInv => SentWithinCap BY DEF SizingInv
<1> QED BY <1>1, <1>2, <1>3, PTL DEF SizingSpec

(***************************************************************************)
(* PaperRisk                                                               *)
(***************************************************************************)

NoneFails(rules) == \A r \in DOMAIN rules : ~rules[r]

LEMMA Passes ==
  ASSUME NEW rules, failed(rules) = {}
  PROVE  NoneFails(rules)
BY DEF failed, NoneFails

\* What the controls of a service require.
LEMMA ControlsRequire ==
  ASSUME NEW c, failed(controls(c)) = {}
  PROVE  /\ ~(sized(c) <= 0)
         /\ ~(c.phase # 22 /\ c.analysis.decision # c.side)
         /\ ~(c.side = "BUY" /\ (c.phase = 22 => Limits.preventDuplicate) /\ (c.a.held > 0 \/ c.a.exposed # {}))
<1>1. NoneFails(controls(c)) BY Passes
<1>2. {"POSITION_SIZE", "NO_ENTRY_SIGNAL", "DUPLICATE_EXPOSURE"} \subseteq DOMAIN controls(c) BY DEF controls
<1>3. ~controls(c).POSITION_SIZE /\ ~controls(c).NO_ENTRY_SIGNAL /\ ~controls(c).DUPLICATE_EXPOSURE
  BY <1>1, <1>2 DEF NoneFails
<1>4. ~(sized(c) <= 0) BY <1>3 DEF controls
<1>5. ~(c.phase # 22 /\ c.analysis.decision # c.side) BY <1>3 DEF controls
<1>6. ~(c.side = "BUY" /\ (c.phase = 22 => Limits.preventDuplicate) /\ (c.a.held > 0 \/ c.a.exposed # {}))
  BY <1>3 DEF controls
<1> QED BY <1>4, <1>5, <1>6

\* What the rules of the engine require.
LEMMA RulesRequire ==
  ASSUME NEW c, NEW quantity, evaluate(c, quantity) = {}
  PROVE  /\ ~(c.side = "BUY" /\ Parts * c.a.cash < quantity * c.m.price)
         /\ ~(c.side = "SELL" /\ c.a.held < quantity)
         /\ ~(c.side = "BUY" /\ positionAfter(c, quantity) > Parts * Limits.maxPosition)
         /\ ~(c.side = "BUY" /\ c.a.equity > 0
               /\ 100 * positionAfter(c, quantity) > Parts * c.a.equity * Limits.concentrationPct)
         /\ ~(c.side = "BUY" /\ c.a.held = 0 /\ c.a.others >= Limits.maxOpen)
<1> DEFINE rules == rulesAtBothStages(c, quantity)
<1>1. NoneFails(rules) BY Passes DEF evaluate
<1>2. {"AVAILABLE_CASH", "AVAILABLE_POSITION", "MAX_POSITION_SIZE", "MAX_PORTFOLIO_CONCENTRATION",
       "MAX_OPEN_POSITIONS"} \subseteq DOMAIN rules
  BY DEF rulesAtBothStages
<1>3. /\ ~rules.AVAILABLE_CASH /\ ~rules.AVAILABLE_POSITION /\ ~rules.MAX_POSITION_SIZE
      /\ ~rules.MAX_PORTFOLIO_CONCENTRATION /\ ~rules.MAX_OPEN_POSITIONS
  BY <1>1, <1>2 DEF NoneFails
<1>4. ~(c.side = "BUY" /\ Parts * c.a.cash < quantity * c.m.price) BY <1>3 DEF rulesAtBothStages
<1>5. ~(c.side = "SELL" /\ c.a.held < quantity) BY <1>3 DEF rulesAtBothStages
<1>6. ~(c.side = "BUY" /\ positionAfter(c, quantity) > Parts * Limits.maxPosition)
  BY <1>3 DEF rulesAtBothStages
<1>7. ~(c.side = "BUY" /\ c.a.equity > 0
        /\ 100 * positionAfter(c, quantity) > Parts * c.a.equity * Limits.concentrationPct)
  BY <1>3 DEF rulesAtBothStages
<1>8. ~(c.side = "BUY" /\ c.a.held = 0 /\ c.a.others >= Limits.maxOpen) BY <1>3 DEF rulesAtBothStages
<1> QED BY <1>4, <1>5, <1>6, <1>7, <1>8

\* The quantity a check computes is a number.
Analysed(analysis) ==
  /\ analysis.price \in Nat \ {0}
  /\ analysis.bracket # <<>> => analysis.bracket[1].stop \in Int

Sizable(c) ==
  /\ c.side \in {"BUY", "SELL"} /\ c.phase \in {22, 25, 26, 27} /\ c.requested \in Int
  /\ c.m \in Markets /\ c.a \in Portfolios /\ Analysed(c.analysis)

LEMMA MinOfFive ==
  ASSUME NEW a \in Int, NEW b \in Int, NEW c \in Int, NEW d \in Int, NEW e \in Int
  PROVE  Min({a, b, c, d, e}) \in Int
<1>1. \E x \in {a, b, c, d, e} : \A y \in {a, b, c, d, e} : x <= y
  <2>1. PICK p \in {a, b} : p <= a /\ p <= b BY a <= b \/ b <= a
  <2>2. PICK q \in {p, c} : q <= p /\ q <= c BY p <= c \/ c <= p
  <2>3. PICK r \in {q, d} : r <= q /\ r <= d BY q <= d \/ d <= q
  <2>4. PICK s \in {r, e} : s <= r /\ s <= e BY r <= e \/ e <= r
  <2> QED BY <2>1, <2>2, <2>3, <2>4
<1> QED BY <1>1 DEF Min

LEMMA Quotient ==
  ASSUME NEW a \in Int, NEW b \in Nat \ {0}
  PROVE  a \div b \in Int
OBVIOUS

LEMMA SizedIsNumber ==
  ASSUME RiskAssumption, NEW c, Sizable(c)
  PROVE  sized(c) \in Int
<1>1. /\ Limits.stopPct \in Nat /\ Limits.slippagePct \in Nat /\ Limits.feePct \in Nat /\ Limits.fee \in Nat
      /\ Limits.maxPosition \in Nat /\ Limits.concentrationPct \in Nat /\ Limits.maxLoss[c.phase] \in Nat
      /\ Parts \in Nat \ {0}
  BY DEF RiskAssumption, Sizable
<1>2. /\ c.m.price \in Nat \ {0} /\ c.analysis.price \in Nat \ {0}
      /\ c.a.cash \in Int /\ c.a.equity \in Int /\ c.a.held \in Int /\ c.requested \in Int
  BY DEF RiskAssumption, Sizable, Analysed
<1> DEFINE price == entryPrice(c)
<1>3. price \in Nat \ {0} BY <1>2 DEF entryPrice
<1>4. slippage(c) \in Nat BY <1>1, <1>3, Product DEF slippage
<1>5. feePerShare(c) \in Nat BY <1>1, <1>3, Product DEF feePerShare
<1>6. stopDistance(c) \in Int
  <2>1. CASE c.phase = 22
    <3>1. c.m.price * Limits.stopPct \in Int BY <1>1, <1>2, Product
    <3> QED BY <2>1, <3>1 DEF stopDistance
  <2>2. CASE c.phase # 22 /\ c.side = "BUY" /\ c.analysis.bracket # <<>>
    <3>1. c.analysis.bracket[1].stop \in Int BY <2>2 DEF Sizable, Analysed
    <3>2. stopDistance(c) = 100 * (c.analysis.price - c.analysis.bracket[1].stop) BY <2>2 DEF stopDistance
    <3> QED BY <1>2, <3>1, <3>2
  <2>3. CASE c.phase # 22 /\ ~(c.side = "BUY" /\ c.analysis.bracket # <<>>) BY <2>3 DEF stopDistance
  <2> QED BY <2>1, <2>2, <2>3
<1>7. riskQuantity(c) \in Int
  <2>1. CASE stopDistance(c) > 0
    <3> DEFINE den == stopDistance(c) + slippage(c) + feePerShare(c)
    <3>1. den \in Nat \ {0} BY <1>4, <1>5, <1>6, <2>1
    <3>2. budget(c) \in Int BY <1>1, Product DEF budget
    <3> HIDE DEF den
    <3>3. budget(c) \div den \in Int BY <3>1, <3>2, Quotient
    <3> QED BY <2>1, <3>3 DEF riskQuantity, den
  <2> QED BY <2>1 DEF riskQuantity
<1>8. cashQuantity(c) \in Int
  <2> DEFINE num == 100 * Parts * c.a.cash
             den == 100 * entryPrice(c) + slippage(c)
  <2>1. den \in Nat \ {0} BY <1>3, <1>4
  <2>2. num \in Int BY <1>1, <1>2
  <2> HIDE DEF num, den
  <2>3. num \div den \in Int BY <2>1, <2>2, Quotient
  <2> QED BY <2>3 DEF cashQuantity, num, den
<1>9. positionLimitQuantity(c) \in Int
  <2> DEFINE num == Parts * Limits.maxPosition
  <2>1. num \in Int BY <1>1, Product
  <2> HIDE DEF num
  <2>2. num \div price \in Int BY <1>3, <2>1, Quotient
  <2> QED BY <2>2 DEF positionLimitQuantity, num
<1>10. concentrationQuantity(c) \in Int
  <2> DEFINE num == Parts * c.a.equity * Limits.concentrationPct
             den == 100 * entryPrice(c)
  <2>1. den \in Nat \ {0} BY <1>3
  <2>2. num \in Int BY <1>1, <1>2
  <2> HIDE DEF num, den
  <2>3. num \div den \in Int BY <2>1, <2>2, Quotient
  <2> QED BY <1>7, <2>3 DEF concentrationQuantity, num, den
<1> DEFINE raw == CASE c.side = "BUY" -> Min({c.requested, riskQuantity(c), cashQuantity(c),
                                              positionLimitQuantity(c), concentrationQuantity(c)})
                    [] c.side = "SELL" /\ c.phase = 22 -> c.requested
                    [] OTHER -> Min({c.requested, c.a.held})
<1>11. raw \in Int
  <2>1. CASE c.side = "BUY" BY <1>2, <1>7, <1>8, <1>9, <1>10, <2>1, MinOfFive
  <2>2. CASE c.side = "SELL" /\ c.phase = 22 BY <1>2, <2>2
  <2>3. CASE c.side # "BUY" /\ ~(c.side = "SELL" /\ c.phase = 22)
    <3>1. Min({c.requested, c.a.held}) \in {c.requested, c.a.held} BY <1>2, MinOfTwo
    <3> QED BY <1>2, <2>3, <3>1
  <2> QED BY <2>1, <2>2, <2>3
<1> HIDE DEF raw
<1>12. raw % Parts \in Int BY <1>1, <1>11
<1>13. roundedDown(c, raw) \in Int BY <1>11, <1>12 DEF roundedDown
<1> QED BY <1>13 DEF sized, raw

LEMMA Analysing ==
  ASSUME RiskAssumption, NEW phase, NEW m \in Markets, NEW held
  PROVE  Analysed(analyze(phase, m, held))
<1> DEFINE r == analyze(phase, m, held)
<1>1. m.price \in Nat \ {0} /\ m.atr \in Nat /\ Limits.stopMultiple \in Nat BY DEF RiskAssumption
<1>2. r.price = m.price /\ (r.bracket # <<>> => r.bracket = bracket(m)) BY DEF analyze
<1>3. ASSUME r.bracket # <<>> PROVE r.bracket[1].stop \in Int
  <2>1. r.bracket = bracket(m) /\ bracket(m) # <<>> BY <1>2, <1>3
  <2>2. bracket(m)[1].stop = m.price - m.atr * Limits.stopMultiple
    <3>1. bracket(m) = <<[stop |-> m.price - m.atr * Limits.stopMultiple,
                          target |-> m.price + m.atr * Limits.targetMultiple]>>
      BY <2>1 DEF bracket
    <3> QED BY <3>1
  <2>3. m.atr * Limits.stopMultiple \in Nat BY <1>1, Product
  <2>4. bracket(m)[1].stop \in Int
    <3> HIDE DEF r
    <3> DEFINE risk == m.atr * Limits.stopMultiple
    <3> HIDE DEF risk
    <3>1. bracket(m)[1].stop = m.price - risk /\ risk \in Nat BY <2>2, <2>3 DEF risk
    <3> QED BY <1>1, <3>1
  <2> HIDE DEF r
  <2> QED BY <2>1, <2>4
<1> QED BY <1>1, <1>2, <1>3 DEF Analysed

\* A proposal that can still be approved has a side, a strategy and a quantity.
Proposed ==
  /\ deal.side \in {"BUY", "SELL"} /\ deal.phase \in {22, 25, 26, 27}
  /\ deal.quantity \in Int /\ deal.quantity > 0

RiskInv ==
  /\ market \in Markets /\ portfolio \in Portfolios
  /\ deal.status = "asked" =>
       /\ deal.side \in {"BUY", "SELL"} /\ deal.phase \in {22, 25, 26, 27} /\ deal.requested \in Int
       /\ Analysed(deal.analysis)
  /\ deal.status \in {"PENDING_APPROVAL", "APPROVING"} => Proposed
  /\ deal.status = "APPROVING" => deal.m \in Markets /\ deal.a \in Portfolios
  /\ ApprovedWithinLimits

LEMMA AsksHold == RiskAssumption /\ RiskInv /\ AskManually => RiskInv'
<1> SUFFICES ASSUME RiskAssumption, RiskInv, AskManually PROVE RiskInv' OBVIOUS
<1>1. market' = market /\ portfolio' = portfolio /\ market \in Markets /\ portfolio \in Portfolios
  BY DEF AskManually, RiskInv
<1>2. PICK r \in Manual :
        deal' = [status |-> "asked", phase |-> 22, side |-> r.side, requested |-> r.quantity,
                 reference |-> market.price, analysis |-> analyze(22, market, FALSE)]
  BY DEF AskManually
<1>3. r.side \in {"BUY", "SELL"} /\ r.quantity \in Int BY DEF RiskAssumption
<1>4. Analysed(analyze(22, market, FALSE)) BY <1>1, Analysing
<1>5. /\ deal'.status = "asked" /\ deal'.side = r.side /\ deal'.phase = 22 /\ deal'.requested = r.quantity
      /\ deal'.analysis = analyze(22, market, FALSE)
  BY <1>2
<1> QED BY <1>1, <1>3, <1>4, <1>5 DEF RiskInv, ApprovedWithinLimits, approved

LEMMA DecisionHolds ==
  ASSUME RiskAssumption, RiskInv, NEW phase \in Phases, Decide(phase)
  PROVE  RiskInv'
<1> DEFINE a == analyze(phase, market, portfolio.held > 0)
           all == IF phase = 26 THEN portfolio.held
                  ELSE Parts * ((2 * portfolio.held + Parts) \div (2 * Parts))
           asked == IF a.decision = "BUY" THEN Limits.defaultQuantity ELSE all
<1>1. market' = market /\ portfolio' = portfolio /\ market \in Markets /\ portfolio \in Portfolios
  BY DEF Decide, RiskInv
<1>2. phase \in {22, 25, 26, 27} BY DEF RiskAssumption
<1>3. /\ deal'.status = "asked" /\ deal'.side = a.decision /\ deal'.phase = phase
      /\ deal'.requested = asked /\ deal'.analysis = a
  BY DEF Decide
<1>4. a.decision \in {"BUY", "SELL"} BY DEF Decide, analyze, decision
<1>5. Analysed(a) BY <1>1, Analysing
<1>6. asked \in Int
  <2>1. Parts \in Nat \ {0} /\ portfolio.held \in Int /\ Limits.defaultQuantity \in Int
    BY <1>1 DEF RiskAssumption
  <2>2. (2 * portfolio.held + Parts) \div (2 * Parts) \in Int
    <3>1. 2 * portfolio.held + Parts \in Int /\ 2 * Parts \in Nat \ {0} BY <2>1
    <3> QED BY <3>1, Quotient
  <2>3. Parts * ((2 * portfolio.held + Parts) \div (2 * Parts)) \in Int BY <2>1, <2>2
  <2> HIDE DEF a
  <2> QED BY <2>1, <2>3
<1> HIDE DEF a, asked
<1> QED BY <1>1, <1>2, <1>3, <1>4, <1>5, <1>6 DEF RiskInv, ApprovedWithinLimits, approved

LEMMA CreationHolds == RiskAssumption /\ RiskInv /\ CreateProposal => RiskInv'
<1> SUFFICES ASSUME RiskAssumption, RiskInv, CreateProposal PROVE RiskInv' OBVIOUS
<1> DEFINE c == check(deal.requested, deal.analysis, today)
           passed == failed(controls(c)) \cup evaluate(c, sized(c)) = {}
<1>1. /\ market' = market /\ portfolio' = portfolio /\ market \in Markets /\ portfolio \in Portfolios
      /\ deal.status = "asked" /\ deal.side \in {"BUY", "SELL"} /\ deal.phase \in {22, 25, 26, 27}
      /\ deal.requested \in Int /\ Analysed(deal.analysis)
  BY DEF CreateProposal, RiskInv
<1>2. /\ deal'.status = IF passed THEN "PENDING_APPROVAL" ELSE "RISK_REJECTED"
      /\ deal'.phase = deal.phase /\ deal'.side = deal.side /\ deal'.quantity = sized(c)
  BY DEF CreateProposal
<1>3. Sizable(c) BY <1>1 DEF check, Sizable
<1>4. sized(c) \in Int BY <1>3, SizedIsNumber
<1>5. ASSUME passed PROVE sized(c) > 0
  <2>1. failed(controls(c)) = {} BY <1>5
  <2> HIDE DEF c
  <2>2. ~(sized(c) <= 0) BY <2>1, ControlsRequire
  <2> QED BY <1>4, <2>2
<1> HIDE DEF c, passed
<1>6. deal'.status \in {"PENDING_APPROVAL", "RISK_REJECTED"} BY <1>2
<1>7. deal'.status = "PENDING_APPROVAL" => Proposed' BY <1>1, <1>2, <1>4, <1>5 DEF Proposed
<1>8. ApprovedWithinLimits' BY <1>6 DEF ApprovedWithinLimits, approved
<1> QED BY <1>1, <1>6, <1>7, <1>8 DEF RiskInv

LEMMA ApprovalReads == RiskAssumption /\ RiskInv /\ ReadForApproval => RiskInv'
<1> SUFFICES ASSUME RiskAssumption, RiskInv, ReadForApproval PROVE RiskInv' OBVIOUS
<1>1. /\ market' = market /\ portfolio' = portfolio /\ market \in Markets /\ portfolio \in Portfolios
      /\ Proposed
  BY DEF ReadForApproval, RiskInv
<1>2. /\ deal'.status = "APPROVING" /\ deal'.phase = deal.phase /\ deal'.side = deal.side
      /\ deal'.quantity = deal.quantity /\ deal'.m = market /\ deal'.a = portfolio
  BY DEF ReadForApproval
<1>3. Proposed' BY <1>1, <1>2 DEF Proposed
<1>4. ApprovedWithinLimits' BY <1>2 DEF ApprovedWithinLimits, approved
<1> QED BY <1>1, <1>2, <1>3, <1>4 DEF RiskInv

\* What passes both lists of rules is within the limits.
LEMMA ApprovalHolds == RiskAssumption /\ RiskInv /\ Approve => RiskInv'
<1> SUFFICES ASSUME RiskAssumption, RiskInv, Approve PROVE RiskInv' OBVIOUS
<1> DEFINE c == recheck
           q == deal.quantity
           passed == failed(controls(c)) \cup evaluateAgain(c, q, deal.reference) = {}
<1>1. /\ market' = market /\ portfolio' = portfolio /\ market \in Markets /\ portfolio \in Portfolios
      /\ Proposed /\ deal.m \in Markets /\ deal.a \in Portfolios
  BY DEF Approve, RiskInv
<1>2. /\ deal'.status = IF passed THEN "APPROVED" ELSE "RISK_REJECTED_AFTER_APPROVAL"
      /\ deal'.phase = deal.phase /\ deal'.side = deal.side /\ deal'.quantity = q
      /\ deal'.m = deal.m /\ deal'.checked = c
  BY DEF Approve
<1>3. c.m = deal.m /\ c.side = deal.side /\ c.phase = deal.phase BY DEF recheck
<1>4. /\ c.a.held = deal.a.held /\ c.a.cash = deal.a.cash /\ c.a.others = deal.a.others
      /\ c.a.equity = portfolio.equity
  <2>1. portfolio \in [cash : Int, held : Int, others : Nat, equity : Int, dailyPnl : Int,
                       exposed : SUBSET {"BUY", "SELL"}, ordered : BOOLEAN, cooling : BOOLEAN]
    BY <1>1 DEF RiskAssumption
  <2>2. c.a = [portfolio EXCEPT !.cash = deal.a.cash, !.held = deal.a.held, !.others = deal.a.others]
    BY DEF recheck
  <2> HIDE DEF c
  <2> QED BY <2>1, <2>2
<1>5. /\ c.a.held \in Int /\ c.a.cash \in Int /\ c.a.equity \in Int /\ c.a.others \in Nat
      /\ c.m.price \in Nat \ {0} /\ Parts \in Nat \ {0} /\ q \in Int /\ q > 0
      /\ Limits.maxPosition \in Nat /\ Limits.concentrationPct \in Nat /\ Limits.maxOpen \in Nat
  BY <1>1, <1>3, <1>4 DEF RiskAssumption, Proposed
<1> HIDE DEF c
<1>6. ASSUME passed PROVE ApprovedWithinLimits'
  <2>1. failed(controls(c)) = {} /\ evaluate(c, q) = {} BY <1>6 DEF evaluateAgain
  <2>2. /\ ~(c.phase # 22 /\ c.analysis.decision # c.side)
        /\ ~(c.side = "BUY" /\ (c.phase = 22 => Limits.preventDuplicate) /\ (c.a.held > 0 \/ c.a.exposed # {}))
    BY <2>1, ControlsRequire
  <2> HIDE DEF q
  <2>3. /\ ~(c.side = "BUY" /\ Parts * c.a.cash < q * c.m.price)
        /\ ~(c.side = "SELL" /\ c.a.held < q)
        /\ ~(c.side = "BUY" /\ positionAfter(c, q) > Parts * Limits.maxPosition)
        /\ ~(c.side = "BUY" /\ c.a.equity > 0
              /\ 100 * positionAfter(c, q) > Parts * c.a.equity * Limits.concentrationPct)
        /\ ~(c.side = "BUY" /\ c.a.held = 0 /\ c.a.others >= Limits.maxOpen)
    BY <2>1, RulesRequire
  <2> DEFINE spent == q * c.m.price
             position == (c.a.held + q) * c.m.price
             share == Parts * c.a.equity * Limits.concentrationPct
             most == Parts * Limits.maxPosition
             cash == Parts * c.a.cash
  <2>4. spent \in Int /\ position \in Int /\ share \in Int /\ most \in Int /\ cash \in Int
    <3>1. spent \in Int /\ most \in Int /\ cash \in Int BY <1>5
    <3>2. position \in Int /\ share \in Int BY <1>5
    <3> QED BY <3>1, <3>2
  <2>5. positionAfter(c, q) = position BY DEF positionAfter
  <2> HIDE DEF spent, position, share, most, cash
  <2>6. /\ ~(c.side = "BUY" /\ cash < spent) /\ ~(c.side = "BUY" /\ position > most)
        /\ ~(c.side = "BUY" /\ c.a.equity > 0 /\ 100 * position > share)
    BY <2>3, <2>5 DEF spent, position, share, most, cash
  <2>7. /\ c.phase # 22 => c.analysis.decision = c.side
        /\ c.side = "SELL" => q <= c.a.held
        /\ c.side = "BUY" => /\ spent <= cash /\ position <= most /\ (c.a.equity > 0 => 100 * position <= share)
                             /\ (c.phase = 22 => Limits.preventDuplicate) => c.a.held <= 0
                             /\ c.a.held = 0 => c.a.others < Limits.maxOpen
    BY <1>5, <2>2, <2>3, <2>4, <2>6
  <2>8. /\ deal'.quantity = q /\ deal'.checked = c /\ deal'.m = c.m /\ deal'.side = c.side /\ deal'.phase = c.phase
    BY <1>2, <1>3
  <2> QED BY <1>5, <2>7, <2>8 DEF ApprovedWithinLimits, spent, position, share, most, cash
<1> HIDE DEF passed
<1>7. deal'.status \in {"APPROVED", "RISK_REJECTED_AFTER_APPROVAL"} BY <1>2
<1>8. ApprovedWithinLimits'
  <2>1. CASE passed BY <1>6, <2>1
  <2>2. CASE ~passed BY <1>2, <2>2 DEF ApprovedWithinLimits, approved
  <2> QED BY <2>1, <2>2
<1> QED BY <1>1, <1>7, <1>8 DEF RiskInv

\* What is approved fits the portfolio and the price it is approved for, under
\* every limit, whatever the market and the account did since the proposal.
THEOREM ApprovalWithinLimits == RiskSpec => []ApprovedWithinLimits
<1>1. RiskInit => RiskInv
  <2>1. RiskInit => deal.status = "none" BY DEF RiskInit, NoDeal
  <2> QED BY <2>1 DEF RiskInit, RiskInv, ApprovedWithinLimits, approved
<1>2. RiskInv /\ [RiskNext]_riskVars => RiskInv'
  <2> SUFFICES ASSUME RiskInv, [RiskNext]_riskVars PROVE RiskInv' OBVIOUS
  <2>1. CASE AskManually BY <2>1, RiskAssumption, AsksHold
  <2>2. ASSUME NEW phase \in Phases, Decide(phase) PROVE RiskInv' BY <2>2, RiskAssumption, DecisionHolds
  <2>3. CASE CreateProposal BY <2>3, RiskAssumption, CreationHolds
  <2>4. CASE RequestRefused
    <3>1. deal'.status = "none" /\ market' = market /\ portfolio' = portfolio
      BY <2>4 DEF RequestRefused, NoDeal
    <3> QED BY <3>1 DEF RiskInv, ApprovedWithinLimits, approved
  <2>5. CASE ReadForApproval BY <2>5, RiskAssumption, ApprovalReads
  <2>6. CASE Approve BY <2>6, RiskAssumption, ApprovalHolds
  <2>7. CASE Moves \/ UNCHANGED riskVars
    <3>1. deal' = deal /\ market' \in Markets /\ portfolio' \in Portfolios
      BY <2>7 DEF Moves, riskVars, RiskInv
    <3>2. ApprovedWithinLimits' /\ (Proposed => Proposed')
      BY <3>1 DEF RiskInv, ApprovedWithinLimits, approved, Proposed
    <3> QED BY <3>1, <3>2 DEF RiskInv
  <2> QED BY <2>1, <2>2, <2>3, <2>4, <2>5, <2>6, <2>7 DEF RiskNext
<1>3. RiskInv => ApprovedWithinLimits BY DEF RiskInv
<1> QED BY <1>1, <1>2, <1>3, PTL DEF RiskSpec

(***************************************************************************)
(* SessionStatus                                                           *)
(***************************************************************************)

LEMMA SmallestOf ==
  ASSUME NEW S, S \subseteq Nat, S # {}
  PROVE  Min(S) \in S /\ \A d \in S : Min(S) <= d
<1>1. \E c \in S : \A d \in S : ~(<<d, c>> \in OpToRel(<, Nat))
  BY NatLessThanWellFounded, WFMin
<1>2. \E c \in S : \A d \in S : c <= d
  <2>1. PICK c \in S : \A d \in S : ~(<<d, c>> \in OpToRel(<, Nat)) BY <1>1
  <2>2. ASSUME NEW d \in S PROVE c <= d
    <3>1. ~(d < c) BY <2>1, <2>2 DEF OpToRel
    <3> QED BY <3>1
  <2> QED BY <2>2
<1> QED BY <1>2 DEF Min

LEMMA LargestOf ==
  ASSUME NEW n \in Nat, NEW S, S \subseteq 0 .. n, S # {}
  PROVE  Max(S) \in S
<1> DEFINE T == {n - x : x \in S}
<1>1. T \subseteq Nat /\ T # {}
  <2>1. \A x \in S : x \in 0 .. n OBVIOUS
  <2>2. \A x \in S : n - x \in Nat BY <2>1
  <2> QED BY <2>2
<1>2. PICK t \in T : \A d \in T : t <= d
  <2> HIDE DEF T
  <2> QED BY <1>1, SmallestOf
<1>3. PICK x \in S : t = n - x OBVIOUS
<1>4. \A y \in S : x >= y
  <2> TAKE y \in S
  <2>1. n - y \in T OBVIOUS
  <2>2. n - x <= n - y BY <1>2, <1>3, <2>1
  <2> QED BY <2>2
<1> QED BY <1>4 DEF Max

\* A remainder is found by naming the quotient.
LEMMA RemainderIs ==
  ASSUME NEW m \in Nat \ {0}, NEW x \in Int, NEW q \in Int, NEW r \in 0 .. m - 1, x = q * m + r
  PROVE  x % m = r
<1> DEFINE p == x \div m
           s == x % m
<1>1. p \in Int /\ s \in 0 .. m - 1 /\ x = p * m + s OBVIOUS
<1> HIDE DEF p, s
<1>2. p * m \in Int /\ q * m \in Int BY <1>1
<1>3. ~(p < q)
  <2> SUFFICES ASSUME p < q PROVE FALSE OBVIOUS
  <2>1. PICK j \in Nat : q = p + 1 + j BY <1>1, q - p - 1 \in Nat, q = p + 1 + (q - p - 1)
  <2>2. q * m = p * m + m + j * m BY <1>1, <2>1
  <2>3. j * m \in Nat OBVIOUS
  <2> QED BY <1>1, <1>2, <2>2, <2>3
<1>4. ~(q < p)
  <2> SUFFICES ASSUME q < p PROVE FALSE OBVIOUS
  <2>1. PICK j \in Nat : p = q + 1 + j BY <1>1, p - q - 1 \in Nat, p = q + 1 + (p - q - 1)
  <2>2. p * m = q * m + m + j * m BY <1>1, <2>1
  <2>3. j * m \in Nat OBVIOUS
  <2> QED BY <1>1, <1>2, <2>2, <2>3
<1>5. p = q BY <1>1, <1>3, <1>4
<1>6. s = r BY <1>1, <1>2, <1>5
<1> QED BY <1>6 DEF s

\* Days from e to the next d, and slots from a time of day e to one of day d.
ahead(d, e) == IF d >= e THEN d - e ELSE d - e + WeekDays

LEMMA WeekFacts ==
  ASSUME SessionAssumption
  PROVE  /\ WeekDays \in Nat \ {0} /\ DayLength \in Nat \ {0} /\ Week \in Nat \ {0}
         /\ WeekDays = 1 => Week = DayLength
         /\ WeekDays >= 2 => Week >= 2 * DayLength
         /\ Week >= DayLength
<1>1. WeekDays \in Nat \ {0} /\ DayLength \in Nat \ {0} BY DEF SessionAssumption
<1>2. Week \in Nat BY <1>1 DEF Week
<1>3. WeekDays = 1 => Week = DayLength BY <1>1 DEF Week
<1>4. WeekDays >= 2 => Week >= 2 * DayLength BY <1>1, Scales DEF Week
<1>5. Week >= DayLength BY <1>1, <1>2, <1>3, <1>4
<1> QED BY <1>1, <1>2, <1>3, <1>4, <1>5

LEMMA DaysAhead ==
  ASSUME SessionAssumption, NEW d \in Days, NEW e \in Days
  PROVE  /\ ahead(d, e) \in Days
         /\ ahead(d, e) = 0 => ahead(d, e) * DayLength = 0
         /\ ahead(d, e) = 1 => ahead(d, e) * DayLength = DayLength
         /\ ahead(d, e) >= 2 => ahead(d, e) * DayLength >= 2 * DayLength
         /\ ahead(d, e) * DayLength \in Nat
         /\ ahead(d, e) * DayLength + DayLength <= Week
<1> DEFINE k == ahead(d, e)
<1>1. WeekDays \in Nat \ {0} /\ DayLength \in Nat \ {0} /\ Week \in Nat \ {0} BY WeekFacts
<1>2. k \in Days BY <1>1 DEF Days, ahead
<1> HIDE DEF k
<1>3. k \in Nat /\ k + 1 <= WeekDays BY <1>1, <1>2 DEF Days
<1>4. k = 0 => k * DayLength = 0 BY <1>1
<1>5. k = 1 => k * DayLength = DayLength BY <1>1
<1>6. k >= 2 => k * DayLength >= 2 * DayLength BY <1>1, <1>3, Scales
<1>7. k * DayLength \in Nat BY <1>1, <1>3
<1>8. (k + 1) * DayLength <= Week BY <1>1, <1>3, Scales DEF Week
<1>9. (k + 1) * DayLength = k * DayLength + DayLength BY <1>1, <1>3
<1> QED BY <1>2, <1>4, <1>5, <1>6, <1>7, <1>8, <1>9 DEF k

\* On the circle of the week.
LEMMA OnCircle ==
  ASSUME SessionAssumption, NEW d \in Days, NEW e \in Days, NEW s \in (-DayLength) .. (DayLength - 1)
  PROVE  LET far == ahead(d, e) * DayLength + s
         IN (d * DayLength - e * DayLength + s) % Week = IF far >= 0 THEN far ELSE Week + s
<1> DEFINE k == ahead(d, e)
           far == k * DayLength + s
           x == d * DayLength - e * DayLength + s
<1>1. WeekDays \in Nat \ {0} /\ DayLength \in Nat \ {0} /\ Week \in Nat \ {0} /\ Week >= DayLength BY WeekFacts
<1>2. /\ k \in Days /\ k * DayLength \in Nat /\ k * DayLength + DayLength <= Week
      /\ k = 0 => k * DayLength = 0
      /\ k = 1 => k * DayLength = DayLength
      /\ k >= 2 => k * DayLength >= 2 * DayLength
  BY DaysAhead
<1>3. d \in Int /\ e \in Int /\ s \in Int BY <1>1 DEF Days
<1>4. PICK q \in {0, -1} : d - e = q * WeekDays + k BY <1>1, <1>3 DEF ahead
<1> HIDE DEF k
<1>5. k \in Nat BY <1>1, <1>2 DEF Days
<1>6. x = q * Week + far
  <2>1. x = (d - e) * DayLength + s BY <1>1, <1>3
  <2>2. (d - e) * DayLength = (q * WeekDays + k) * DayLength BY <1>4
  <2>3. (q * WeekDays + k) * DayLength = q * Week + k * DayLength BY <1>1, <1>4, <1>5 DEF Week
  <2>4. q * Week \in Int BY <1>1, <1>4
  <2> QED BY <1>1, <1>2, <1>3, <2>1, <2>2, <2>3, <2>4
<1>7. x \in Int BY <1>1, <1>3
<1>8. far \in Int BY <1>1, <1>2, <1>3
<1> HIDE DEF x
<1>9. CASE far >= 0
  <2>1. far \in 0 .. Week - 1 BY <1>1, <1>2, <1>3, <1>9
  <2> HIDE DEF far
  <2>2. x % Week = far BY <1>1, <1>4, <1>6, <1>7, <2>1, RemainderIs
  <2> QED BY <1>9, <2>2 DEF k, far, x
<1>10. CASE ~(far >= 0)
  <2>1. k = 0 BY <1>1, <1>2, <1>3, <1>5, <1>10
  <2>2. far = s /\ Week + s \in 0 .. Week - 1 BY <1>1, <1>2, <1>3, <1>10, <2>1
  <2>3. x = (q - 1) * Week + (Week + s) BY <1>1, <1>3, <1>4, <1>6, <2>2
  <2>4. q - 1 \in Int BY <1>4
  <2> HIDE DEF far
  <2>5. x % Week = Week + s BY <1>1, <1>7, <2>2, <2>3, <2>4, RemainderIs
  <2> QED BY <1>10, <2>5 DEF k, far, x
<1> QED BY <1>9, <1>10

\* The three ways a window of the code matches.
matches(w, day, slot) ==
  \/ w.day = day /\ w.from <= w.to /\ w.from <= slot /\ slot < w.to
  \/ w.day = day /\ w.from > w.to /\ slot >= w.from
  \/ w.day = (day - 1) % WeekDays /\ w.from > w.to /\ slot < w.to

LEMMA DayBefore ==
  ASSUME SessionAssumption, NEW day \in Days
  PROVE  (day - 1) % WeekDays = IF day >= 1 THEN day - 1 ELSE WeekDays - 1
<1>1. WeekDays \in Nat \ {0} BY WeekFacts
<1>2. CASE day >= 1
  <2>1. day - 1 \in 0 .. WeekDays - 1 /\ day - 1 = 0 * WeekDays + (day - 1) BY <1>1, <1>2 DEF Days
  <2>2. (day - 1) % WeekDays = day - 1
    <3> DEFINE y == day - 1
    <3>1. y \in Int /\ y \in 0 .. WeekDays - 1 /\ y = 0 * WeekDays + y BY <2>1
    <3> HIDE DEF y
    <3>2. y % WeekDays = y BY <1>1, <3>1, RemainderIs
    <3> QED BY <3>2 DEF y
  <2> QED BY <1>2, <2>2
<1>3. CASE ~(day >= 1)
  <2>1. day = 0 BY <1>1, <1>3 DEF Days
  <2>2. WeekDays - 1 \in 0 .. WeekDays - 1 /\ -1 = (-1) * WeekDays + (WeekDays - 1) BY <1>1
  <2> DEFINE r == WeekDays - 1
  <2> HIDE DEF r
  <2>3. r \in 0 .. WeekDays - 1 /\ -1 = (-1) * WeekDays + r BY <2>2 DEF r
  <2>4. (-1) % WeekDays = r
    <3>1. -1 \in Int OBVIOUS
    <3> QED BY <1>1, <2>3, <3>1, RemainderIs
  <2> QED BY <1>3, <2>1, <2>4 DEF r
<1> QED BY <1>2, <1>3

\* A window matches exactly while it covers the instant, counted from its start
\* around the week: for windows past midnight, and for a week of one day.
LEMMA MatchIsCover ==
  ASSUME SessionAssumption, NEW day \in Days, NEW slot \in Slots, NEW w \in Windows
  PROVE  matches(w, day, slot) <=> (day * DayLength + slot - startOf(w)) % Week < lengthOf(w)
<1> DEFINE k == ahead(day, w.day)
           P == k * DayLength
           s == slot - w.from
           x == day * DayLength + slot - startOf(w)
<1>1. /\ WeekDays \in Nat \ {0} /\ DayLength \in Nat \ {0} /\ Week \in Nat \ {0}
      /\ WeekDays = 1 => Week = DayLength
      /\ WeekDays >= 2 => Week >= 2 * DayLength
  BY WeekFacts
<1>2. w.day \in Days /\ w.from \in Slots /\ w.to \in 0 .. DayLength BY DEF Windows
<1>3. /\ day \in 0 .. WeekDays - 1 /\ w.day \in 0 .. WeekDays - 1 /\ slot \in 0 .. DayLength - 1
      /\ w.from \in 0 .. DayLength - 1 /\ w.to \in 0 .. DayLength
  BY <1>2 DEF Days, Slots
<1>4. /\ k \in 0 .. WeekDays - 1 /\ P \in Nat
      /\ k = 0 => P = 0
      /\ k = 1 => P = DayLength
      /\ k >= 2 => P >= 2 * DayLength
  BY <1>2, DaysAhead DEF Days
<1>5. x % Week = IF P + s >= 0 THEN P + s ELSE Week + s
  <2>1. s \in (-DayLength) .. (DayLength - 1) BY <1>1, <1>3
  <2>2. x = day * DayLength - w.day * DayLength + s
    <3>1. day * DayLength \in Int /\ w.day * DayLength \in Int BY <1>1, <1>3
    <3> QED BY <1>1, <1>3, <3>1 DEF startOf
  <2> HIDE DEF s, x
  <2>3. (day * DayLength - w.day * DayLength + s) % Week
          = IF ahead(day, w.day) * DayLength + s >= 0 THEN ahead(day, w.day) * DayLength + s ELSE Week + s
    BY <1>2, <2>1, OnCircle
  <2> QED BY <2>2, <2>3
<1>6. k = 0 <=> w.day = day BY <1>1, <1>3 DEF ahead
<1>7. w.day = (day - 1) % WeekDays <=> (IF WeekDays = 1 THEN k = 0 ELSE k = 1)
  <2>1. (day - 1) % WeekDays = IF day >= 1 THEN day - 1 ELSE WeekDays - 1 BY DayBefore
  <2> QED BY <1>1, <1>3, <2>1 DEF ahead
<1> HIDE DEF k, P, x
<1> DEFINE len == IF w.from <= w.to THEN w.to - w.from ELSE w.to + DayLength - w.from
           r == IF P + s >= 0 THEN P + s ELSE Week + s
<1>8. (r < len) <=>
        \/ k = 0 /\ w.from <= w.to /\ w.from <= slot /\ slot < w.to
        \/ k = 0 /\ w.from > w.to /\ slot >= w.from
        \/ (IF WeekDays = 1 THEN k = 0 ELSE k = 1) /\ w.from > w.to /\ slot < w.to
  <2>1. CASE k = 0 BY <1>1, <1>3, <1>4, <2>1
  <2>2. CASE k = 1 BY <1>1, <1>3, <1>4, <2>2
  <2>3. CASE k >= 2 BY <1>1, <1>3, <1>4, <2>3
  <2> QED BY <1>4, <2>1, <2>2, <2>3
<1> HIDE DEF s
<1>9. x % Week = r /\ lengthOf(w) = len BY <1>5 DEF lengthOf
<1>10. matches(w, day, slot) <=> (r < len)
  <2> HIDE DEF r, len
  <2> QED BY <1>6, <1>7, <1>8 DEF matches
<1> QED BY <1>9, <1>10 DEF x

\* The slots until a window's next start, less one.
until(w, day, slot) == (startOf(w) - (day * DayLength + slot) - 1) % Week

LEMMA UntilStart ==
  ASSUME SessionAssumption, NEW day \in Days, NEW slot \in Slots, NEW w \in Windows
  PROVE  LET k == ahead(w.day, day)
         IN until(w, day, slot) = IF k = 0 /\ w.from <= slot THEN Week + w.from - slot - 1
                                  ELSE k * DayLength + w.from - slot - 1
<1> DEFINE k == ahead(w.day, day)
           P == k * DayLength
           s == w.from - slot - 1
           x == startOf(w) - (day * DayLength + slot) - 1
<1>1. WeekDays \in Nat \ {0} /\ DayLength \in Nat \ {0} /\ Week \in Nat \ {0} BY WeekFacts
<1>2. w.day \in Days /\ w.from \in Slots BY DEF Windows
<1>3. /\ day \in 0 .. WeekDays - 1 /\ w.day \in 0 .. WeekDays - 1 /\ slot \in 0 .. DayLength - 1
      /\ w.from \in 0 .. DayLength - 1
  BY <1>2 DEF Days, Slots
<1>4. /\ k \in 0 .. WeekDays - 1 /\ P \in Nat
      /\ k = 0 => P = 0
      /\ k = 1 => P = DayLength
      /\ k >= 2 => P >= 2 * DayLength
  BY <1>2, DaysAhead DEF Days
<1>5. s \in (-DayLength) .. (DayLength - 1) BY <1>1, <1>3
<1>6. x = w.day * DayLength - day * DayLength + s
  <2>1. day * DayLength \in Int /\ w.day * DayLength \in Int BY <1>1, <1>3
  <2> QED BY <1>1, <1>3, <2>1 DEF startOf
<1> HIDE DEF x
<1>7. x % Week = IF P + s >= 0 THEN P + s ELSE Week + s
  <2> HIDE DEF s
  <2>1. (w.day * DayLength - day * DayLength + s) % Week
          = IF ahead(w.day, day) * DayLength + s >= 0 THEN ahead(w.day, day) * DayLength + s ELSE Week + s
    BY <1>2, <1>5, OnCircle
  <2> QED BY <1>6, <2>1
<1> HIDE DEF k, P
<1>8. (P + s >= 0) <=> ~(k = 0 /\ w.from <= slot)
  <2>1. CASE k = 0 BY <1>1, <1>3, <1>4, <2>1
  <2>2. CASE k # 0 BY <1>1, <1>3, <1>4, <2>2
  <2> QED BY <2>1, <2>2
<1>9. P + s = P + w.from - slot - 1 /\ Week + s = Week + w.from - slot - 1 BY <1>1, <1>3, <1>4
<1> HIDE DEF s
<1>10. x % Week = IF k = 0 /\ w.from <= slot THEN Week + w.from - slot - 1 ELSE P + w.from - slot - 1
  BY <1>7, <1>8, <1>9
<1> QED BY <1>10 DEF until, x, k, P

LEMMA DayAfter ==
  ASSUME SessionAssumption, NEW day \in Days, NEW n \in 0 .. WeekDays
  PROVE  LET next == (day + n) % WeekDays
         IN next = IF day + n < WeekDays THEN day + n ELSE day + n - WeekDays
<1>1. WeekDays \in Nat \ {0} /\ day \in 0 .. WeekDays - 1 BY WeekFacts DEF Days
<1>2. PICK x \in Int : x = day + n BY <1>1
<1>3. PICK r \in 0 .. WeekDays - 1 : r = IF x < WeekDays THEN x ELSE x - WeekDays
  <2>1. CASE x < WeekDays BY <1>1, <1>2, <2>1
  <2>2. CASE ~(x < WeekDays)
    <3>1. x - WeekDays \in 0 .. WeekDays - 1 BY <1>1, <1>2, <2>2
    <3> QED BY <2>2, <3>1
  <2> QED BY <2>1, <2>2
<1>4. PICK q \in {0, 1} : x = q * WeekDays + r BY <1>1, <1>2, <1>3
<1>5. x % WeekDays = r
  <2>1. q \in Int BY <1>4
  <2> QED BY <1>1, <1>4, <2>1, RemainderIs
<1> QED BY <1>1, <1>2, <1>3, <1>5

\* A day that comes is the window's next one, or its own a week later.
comes(n, w, day, slot) == w.day = (day + n) % WeekDays /\ (n > 0 \/ w.from > slot)

LEMMA Coming ==
  ASSUME SessionAssumption, NEW day \in Days, NEW slot \in Slots, NEW w \in Windows
  PROVE  /\ until(w, day, slot) \in Nat
         /\ \E n \in 0 .. WeekDays :
              comes(n, w, day, slot) /\ n * DayLength + w.from - slot = 1 + until(w, day, slot)
         /\ \A n \in 0 .. WeekDays :
              comes(n, w, day, slot) => n * DayLength + w.from - slot >= 1 + until(w, day, slot)
<1> DEFINE k == ahead(w.day, day)
           u == until(w, day, slot)
<1>1. WeekDays \in Nat \ {0} /\ DayLength \in Nat \ {0} /\ Week \in Nat \ {0} /\ Week >= DayLength BY WeekFacts
<1>2. w.day \in Days /\ w.from \in Slots BY DEF Windows
<1>3. /\ day \in 0 .. WeekDays - 1 /\ w.day \in 0 .. WeekDays - 1 /\ slot \in 0 .. DayLength - 1
      /\ w.from \in 0 .. DayLength - 1
  BY <1>2 DEF Days, Slots
<1>4. u = IF k = 0 /\ w.from <= slot THEN Week + w.from - slot - 1 ELSE k * DayLength + w.from - slot - 1
  BY UntilStart
<1>5. /\ k \in 0 .. WeekDays - 1 /\ k * DayLength \in Nat
      /\ k = 0 => k * DayLength = 0
      /\ k = 1 => k * DayLength = DayLength
      /\ k >= 2 => k * DayLength >= 2 * DayLength
  BY <1>2, DaysAhead DEF Days
<1>6. \A n \in 0 .. WeekDays : w.day = (day + n) % WeekDays <=> n = k \/ (n = WeekDays /\ k = 0)
  <2> TAKE n \in 0 .. WeekDays
  <2>1. (day + n) % WeekDays = IF day + n < WeekDays THEN day + n ELSE day + n - WeekDays BY DayAfter
  <2> QED BY <1>1, <1>3, <2>1 DEF ahead
<1>7. u \in Nat
  <2> HIDE DEF k, u
  <2>1. CASE k = 0 BY <1>1, <1>3, <1>4, <1>5, <2>1
  <2>2. CASE k # 0 BY <1>1, <1>3, <1>4, <1>5, <2>2
  <2> QED BY <2>1, <2>2
<1>8. \E n \in 0 .. WeekDays : comes(n, w, day, slot) /\ n * DayLength + w.from - slot = 1 + u
  <2>1. CASE k = 0 /\ w.from <= slot
    <3>1. WeekDays \in 0 .. WeekDays /\ WeekDays > 0 BY <1>1
    <3>2. comes(WeekDays, w, day, slot) BY <1>6, <2>1, <3>1 DEF comes
    <3>3. WeekDays * DayLength = Week BY DEF Week
    <3> HIDE DEF k, u
    <3>4. Week + w.from - slot = 1 + u BY <1>1, <1>3, <1>4, <2>1
    <3> QED BY <3>1, <3>2, <3>3, <3>4
  <2>2. CASE ~(k = 0 /\ w.from <= slot)
    <3>1. k \in 0 .. WeekDays BY <1>1, <1>5
    <3>2. k > 0 \/ w.from > slot BY <1>1, <1>3, <1>5, <2>2
    <3>3. comes(k, w, day, slot) BY <1>6, <3>1, <3>2 DEF comes
    <3> HIDE DEF k, u
    <3>4. k * DayLength + w.from - slot = 1 + u BY <1>1, <1>3, <1>4, <1>5, <2>2
    <3> QED BY <3>1, <3>3, <3>4
  <2> QED BY <2>1, <2>2
<1>9. ASSUME NEW n \in 0 .. WeekDays, comes(n, w, day, slot)
      PROVE  n * DayLength + w.from - slot >= 1 + u
  <2>1. n = k \/ (n = WeekDays /\ k = 0) BY <1>6, <1>9 DEF comes
  <2>2. n > 0 \/ w.from > slot BY <1>9 DEF comes
  <2> HIDE DEF k, u
  <2>3. CASE n = k
    <3>1. ~(k = 0 /\ w.from <= slot) BY <1>1, <1>3, <1>5, <2>2, <2>3
    <3>2. u = k * DayLength + w.from - slot - 1 BY <1>4, <3>1
    <3> DEFINE P == k * DayLength
    <3> HIDE DEF P
    <3>3. u = P + w.from - slot - 1 /\ P \in Nat BY <1>5, <3>2 DEF P
    <3>4. P + w.from - slot >= 1 + u BY <1>1, <1>3, <3>3
    <3> QED BY <2>3, <3>4 DEF P
  <2>4. CASE n = WeekDays /\ k = 0
    <3>1. n * DayLength = Week BY <2>4 DEF Week
    <3>2. u = (IF w.from <= slot THEN Week ELSE 0) + w.from - slot - 1 BY <1>1, <1>3, <1>4, <1>5, <2>4
    <3>3. Week + w.from - slot >= 1 + u BY <1>1, <1>3, <3>2
    <3> QED BY <3>1, <3>3
  <2> QED BY <2>1, <2>3, <2>4
<1> QED BY <1>7, <1>8, <1>9

\* The next opening is the first start after now.
LEMMA NextIsFirst ==
  ASSUME SessionAssumption, NEW day \in Days, NEW slot \in Slots, NEW sessions, sessions \subseteq Windows
  PROVE  LET trade == {w \in sessions : w.kind = "trade"}
         IN nextTradeSession(sessions, day, slot)
              = IF trade = {} THEN -1 ELSE 1 + Min({until(w, day, slot) : w \in trade})
<1> DEFINE trade == {w \in sessions : w.kind = "trade"}
           coming == {c \in (0 .. WeekDays) \X trade :
                        c[2].day = (day + c[1]) % WeekDays /\ (c[1] > 0 \/ c[2].from > slot)}
           V == {c[1] * DayLength + c[2].from - slot : c \in coming}
           Y == {until(w, day, slot) : w \in trade}
<1>1. nextTradeSession(sessions, day, slot) = IF coming = {} THEN -1 ELSE Min(V) BY DEF nextTradeSession
<1>2. \A w \in trade : w \in Windows OBVIOUS
<1>3. \A w \in trade : \E n \in 0 .. WeekDays :
        <<n, w>> \in coming /\ n * DayLength + w.from - slot = 1 + until(w, day, slot)
  <2> TAKE w \in trade
  <2>1. PICK n \in 0 .. WeekDays :
          comes(n, w, day, slot) /\ n * DayLength + w.from - slot = 1 + until(w, day, slot)
    BY <1>2, Coming
  <2>2. <<n, w>> \in coming BY <2>1 DEF comes
  <2> QED BY <2>1, <2>2
<1>4. \A c \in coming : c[2] \in trade /\ c[1] * DayLength + c[2].from - slot >= 1 + until(c[2], day, slot)
  <2> TAKE c \in coming
  <2>1. c[1] \in 0 .. WeekDays /\ c[2] \in trade /\ comes(c[1], c[2], day, slot) BY DEF comes
  <2>2. c[2] \in Windows BY <1>2, <2>1
  <2> HIDE DEF trade, coming
  <2> QED BY <2>1, <2>2, Coming
<1>5. Y \subseteq Nat
  <2>1. \A w \in trade : until(w, day, slot) \in Nat BY <1>2, Coming
  <2> QED BY <2>1
<1> HIDE DEF coming
<1>6. CASE trade = {}
  <2>1. coming = {} BY <1>4, <1>6
  <2> QED BY <1>1, <1>6, <2>1
<1>7. CASE trade # {}
  <2>1. PICK w0 \in trade : TRUE BY <1>7
  <2>2. coming # {} BY <1>3, <2>1
  <2>3. Y # {} BY <2>1
  <2>4. Min(Y) \in Y /\ \A y \in Y : Min(Y) <= y
    <3> HIDE DEF Y
    <3> QED BY <1>5, <2>3, SmallestOf
  <2>5. PICK w \in trade : Min(Y) = until(w, day, slot) BY <2>4
  <2>6. 1 + Min(Y) \in V
    <3>1. PICK n \in 0 .. WeekDays :
            <<n, w>> \in coming /\ n * DayLength + w.from - slot = 1 + until(w, day, slot)
      BY <1>3, <2>5
    <3>2. PICK c \in coming : c = <<n, w>> BY <3>1
    <3>3. c[1] * DayLength + c[2].from - slot = 1 + Min(Y) BY <2>5, <3>1, <3>2
    <3> QED BY <3>3
  <2>7. \A v \in V : v \in Int /\ 1 + Min(Y) <= v
    <3> TAKE v \in V
    <3>1. PICK c \in coming : v = c[1] * DayLength + c[2].from - slot OBVIOUS
    <3>2. c[2] \in trade /\ v >= 1 + until(c[2], day, slot) BY <1>4, <3>1
    <3>3. until(c[2], day, slot) \in Y BY <3>2
    <3>4. until(c[2], day, slot) \in Nat /\ Min(Y) \in Nat /\ Min(Y) <= until(c[2], day, slot)
      BY <1>5, <2>4, <3>3
    <3>5. v \in Int
      <4>1. c[1] \in Int /\ DayLength \in Int /\ c[2].from \in Int /\ slot \in Int
        <5>1. c[1] \in 0 .. WeekDays /\ c[2] \in Windows BY <1>2, <3>2 DEF coming
        <5>2. c[2].from \in Slots BY <5>1 DEF Windows
        <5>3. DayLength \in Nat /\ WeekDays \in Nat BY WeekFacts
        <5> QED BY <5>1, <5>2, <5>3 DEF Slots
      <4>2. c[1] * DayLength \in Int BY <4>1
      <4> QED BY <3>1, <4>1, <4>2
    <3> QED BY <3>2, <3>4, <3>5
  <2>8. Min(V) = 1 + Min(Y)
    <3> DEFINE m == 1 + Min(Y)
    <3>1. m \in V /\ m \in Int /\ \A v \in V : v \in Int /\ m <= v BY <2>6, <2>7
    <3> HIDE DEF m, V
    <3>2. Min(V) \in V /\ \A v \in V : Min(V) <= v
      <4>1. \E x \in V : \A v \in V : x <= v BY <3>1
      <4> QED BY <4>1 DEF Min
    <3>3. Min(V) \in Int /\ Min(V) <= m /\ m <= Min(V) BY <3>1, <3>2
    <3>4. Min(V) = m BY <3>1, <3>3
    <3> QED BY <3>4 DEF m
  <2> QED BY <1>1, <1>7, <2>2, <2>8
<1> QED BY <1>6, <1>7

(***************************************************************************)
(* What is kept is made of windows.                                        *)
(***************************************************************************)

LEMMA MinuteWindows ==
  ASSUME SessionAssumption, NEW day \in Days, NEW open \in Slots, NEW close \in Int
  PROVE  minuteSessions(day, open, close) \subseteq Windows
<1> DEFINE m == Min({DayLength, close})
           to == IF m <= open THEN DayLength ELSE m
<1>1. DayLength \in Nat \ {0} /\ open \in 0 .. DayLength - 1 BY WeekFacts DEF Slots
<1>2. m \in {DayLength, close} /\ m <= DayLength
  <2>1. DayLength \in Int BY <1>1
  <2> QED BY <2>1, MinOfTwo
<1> HIDE DEF m
<1>3. to \in 0 .. DayLength BY <1>1, <1>2
<1> HIDE DEF to
<1>4. minuteSessions(day, open, close)
        = {[day |-> day, from |-> open, to |-> to, kind |-> kind] : kind \in {"trade", "quote"}}
  BY DEF minuteSessions, to, m
<1>5. \A kind \in {"trade", "quote"} : [day |-> day, from |-> open, to |-> to, kind |-> kind] \in Windows
  BY <1>3 DEF Windows
<1> QED BY <1>4, <1>5

LEMMA HistoryWindows ==
  ASSUME SessionAssumption, NEW bars \in BarSets
  PROVE  historicalSessions(bars) \subseteq Windows
<1> DEFINE slots(day) == {b[2] : b \in {c \in bars : c[1] = day}}
<1>1. DayLength \in Nat \ {0} /\ Slots = 0 .. DayLength - 1 BY WeekFacts DEF Slots
<1>2. bars \subseteq Days \X Slots BY DEF SessionAssumption
<1>3. \A day \in Days : slots(day) \subseteq Slots BY <1>2
<1>4. ASSUME NEW day \in Days, NEW S, S \subseteq Slots PROVE historicalOf(day, S) \subseteq Windows
  <2> DEFINE starts == {s \in S : \A t \in S : t < s => s - t > Gap}
             run(s) == {t \in S : t >= s /\ \A u \in starts : u > s => t < u}
             lastOf(s) == Max(run(s))
  <2>1. historicalOf(day, S) = UNION {minuteSessions(day, s, lastOf(s) + 1) : s \in starts} BY DEF historicalOf
  <2>2. ASSUME NEW s \in starts PROVE minuteSessions(day, s, lastOf(s) + 1) \subseteq Windows
    <3>1. s \in S /\ s \in Slots BY <1>4
    <3>2. s \in Int /\ s <= s BY <1>1, <3>1
    <3>3. s \in run(s) BY <3>1, <3>2
    <3>4. run(s) \subseteq 0 .. DayLength - 1 /\ run(s) # {} BY <1>1, <1>4, <3>3
    <3>5. DayLength - 1 \in Nat BY <1>1
    <3> DEFINE R == run(s)
    <3>6. R \subseteq 0 .. DayLength - 1 /\ R # {} BY <3>4
    <3> HIDE DEF R
    <3>7. Max(R) \in R BY <3>5, <3>6, LargestOf
    <3>8. Max(R) + 1 \in Int
      <4>1. Max(R) \in 0 .. DayLength - 1 BY <3>6, <3>7
      <4> QED BY <1>1, <4>1
    <3>9. minuteSessions(day, s, Max(R) + 1) \subseteq Windows BY <3>1, <3>8, MinuteWindows
    <3> QED BY <3>9 DEF R
  <2> HIDE DEF starts, lastOf
  <2> QED BY <2>1, <2>2
<1> DEFINE found == UNION {historicalOf(day, slots(day)) : day \in Days}
<1>5. found \subseteq Windows
  <2>1. \A day \in Days : historicalOf(day, slots(day)) \subseteq Windows
    <3> HIDE DEF slots
    <3> QED BY <1>3, <1>4
  <2> HIDE DEF slots
  <2> QED BY <2>1
<1>6. historicalSessions(bars) = IF Cardinality(found) >= 2 THEN found ELSE {} BY DEF historicalSessions
<1> HIDE DEF found
<1> QED BY <1>5, <1>6

(***************************************************************************)
(* The report                                                              *)
(***************************************************************************)

LEMMA StatusOf ==
  ASSUME SessionAssumption, NEW day \in Days, NEW slot \in Slots, NEW sessions, sessions \subseteq Windows,
         NEW kind
  PROVE  sessionMatch(sessions, day, slot, kind)
           <=> \E w \in sessions : w.kind = kind
                 /\ (day * DayLength + slot - startOf(w)) % Week < lengthOf(w)
<1>1. sessionMatch(sessions, day, slot, kind) <=> \E w \in sessions : w.kind = kind /\ matches(w, day, slot)
  BY DEF sessionMatch, matches
<1>2. \A w \in sessions : matches(w, day, slot)
                             <=> (day * DayLength + slot - startOf(w)) % Week < lengthOf(w)
  BY MatchIsCover
<1> QED BY <1>1, <1>2

SessionInv ==
  /\ clock \in Days \X Slots /\ cache \subseteq Windows
  /\ StatusIsRight

\* Both clocks go around the same week: what the server showed ServerAhead slots ago
\* is what the UTC clock shows now.
LEMMA ThenIsNow ==
  ASSUME SessionAssumption, clock \in Days \X Slots
  PROVE  (serverInstant - ServerAhead) % Week = instant
<1> DEFINE x == instant + ServerAhead
           q == x \div Week
           s == x % Week
           y == s - ServerAhead
<1>1. WeekDays \in Nat \ {0} /\ DayLength \in Nat \ {0} /\ Week \in Nat \ {0} BY WeekFacts
<1>2. ServerAhead \in Nat BY DEF SessionAssumption
<1>3. instant \in 0 .. Week - 1
  <2> DEFINE day == clock[1]
             P == day * DayLength
  <2>1. day \in Nat /\ day + 1 <= WeekDays /\ clock[2] \in 0 .. DayLength - 1 BY <1>1 DEF Days, Slots
  <2> HIDE DEF day
  <2>2. P \in Nat /\ (day + 1) * DayLength = P + DayLength BY <1>1, <2>1
  <2>3. (day + 1) * DayLength <= Week BY <1>1, <2>1, Scales DEF Week
  <2>4. instant = P + clock[2] BY DEF instant, day
  <2> HIDE DEF P
  <2> QED BY <1>1, <2>1, <2>2, <2>3, <2>4
<1>4. x \in Int BY <1>1, <1>2, <1>3
<1> HIDE DEF x
<1>5. q \in Int /\ s \in 0 .. Week - 1 /\ x = q * Week + s BY <1>1, <1>4
<1>6. serverInstant = s BY DEF serverInstant, x
<1> HIDE DEF q, s
<1>7. q * Week \in Int /\ (-q) * Week = -(q * Week) /\ -q \in Int BY <1>1, <1>5
<1>8. y = (-q) * Week + instant /\ y \in Int BY <1>1, <1>2, <1>3, <1>5, <1>7 DEF x
<1> HIDE DEF y
<1>9. y % Week = instant BY <1>1, <1>3, <1>7, <1>8, RemainderIs
<1> QED BY <1>6, <1>9 DEF y

LEMMA EvaluationHolds == SessionAssumption /\ SessionInv /\ Evaluate => SessionInv'
<1> SUFFICES ASSUME SessionAssumption, SessionInv, Evaluate PROVE SessionInv' OBVIOUS
<1>1. clock' = clock /\ trade_enabled' = trade_enabled BY DEF Evaluate
<1> DEFINE day == clock[1]
           slot == clock[2]
           then == (serverInstant - ServerAhead) % Week
<1>2. day \in Days /\ slot \in Slots /\ clock \in Days \X Slots /\ cache \subseteq Windows BY DEF SessionInv
<1>3. CASE /\ report' = [market |-> "UNKNOWN", sessions |-> {}, next |-> -1, ticked |-> FALSE, unread |-> FALSE]
           /\ UNCHANGED cache
  <2>1. ~report'.ticked BY <1>3
  <2>2. StatusIsRight' BY <2>1 DEF StatusIsRight
  <2> QED BY <1>1, <1>2, <1>3, <2>2 DEF SessionInv
<1>4. ASSUME NEW api \in ApiAnswers, NEW bridge \in BridgeAnswers, NEW found \in HistoryAnswers, NEW unread \in BOOLEAN,
             LET fresh    == sessionsFrom(api, bridge, found, {})
                 sessions == sessionsFrom(api, bridge, found, IF unread THEN {} ELSE cache)
             IN /\ report' = [market |-> marketStatus(sessions, trade_enabled, clock[1], clock[2]),
                              sessions |-> sessions, next |-> nextTradeSession(sessions, clock[1], clock[2]),
                              ticked |-> TRUE, unread |-> unread]
                /\ cache' \in saveCached(fresh)
      PROVE SessionInv'
  <2> DEFINE kept == IF unread THEN {} ELSE cache
             sessions == sessionsFrom(api, bridge, found, kept)
             fresh == sessionsFrom(api, bridge, found, {})
             trade == {w \in sessions : w.kind = "trade"}
             at == day * DayLength + slot
  <2>1. /\ report'.market = marketStatus(sessions, trade_enabled, day, slot) /\ report'.sessions = sessions
        /\ report'.next = nextTradeSession(sessions, day, slot) /\ report'.unread = unread
        /\ cache' \in saveCached(fresh)
    BY <1>4
  <2>2. api \subseteq Windows /\ bridge \subseteq Windows /\ found \subseteq Windows /\ kept \subseteq Windows
    <3>1. Schedule \subseteq Windows BY DEF SessionAssumption
    <3>2. api \subseteq Schedule /\ bridge \subseteq Schedule BY DEF ApiAnswers, BridgeAnswers
    <3>3. found \subseteq Windows BY HistoryWindows DEF HistoryAnswers
    <3> QED BY <1>2, <3>1, <3>2, <3>3
  <2> HIDE DEF kept
  <2>3. /\ sessions \in {api, bridge, found, kept} /\ fresh \in {api, bridge, found, {}}
        /\ sessions = {} => fresh = {} /\ kept = {}
    BY DEF sessionsFrom
  <2> HIDE DEF sessions, fresh
  <2>4. sessions \subseteq Windows /\ fresh \subseteq Windows BY <2>2, <2>3
  <2>5. cache' \in {fresh, cache, {}} /\ (fresh = {} => cache' = cache) BY <2>1 DEF saveCached
  <2>6. sessions = {} => cache' = {} \/ unread BY <2>3, <2>5 DEF kept
  <2>7. then' = at
    <3>1. then = at BY <1>2, ThenIsNow DEF instant
    <3>2. then' = then BY <1>1 DEF serverInstant, instant, Week
    <3> HIDE DEF then, at
    <3> QED BY <3>1, <3>2
  <2> HIDE DEF day, slot, then
  <2>8. \A kind : sessionMatch(sessions, day, slot, kind) <=> \E w \in sessions : w.kind = kind /\ covers(w, at)
    <3> DEFINE on(w) == (day * DayLength + slot - startOf(w)) % Week < lengthOf(w)
    <3>1. \A kind : sessionMatch(sessions, day, slot, kind) <=> \E w \in sessions : w.kind = kind /\ on(w)
      BY <1>2, <2>4, StatusOf
    <3>2. \A w \in sessions : covers(w, at) <=> on(w)
      <4>1. DayLength \in Nat \ {0} /\ Week \in Nat \ {0} BY WeekFacts
      <4>2. PICK t \in Int : t = at BY <1>2, <4>1 DEF Days, Slots
      <4>3. ASSUME NEW w \in sessions PROVE startOf(w) \in Int /\ lengthOf(w) \in Int
        <5>1. w.day \in Int /\ w.from \in Int /\ w.to \in Int BY <2>4, <4>1 DEF Windows, Days, Slots
        <5>2. w.day * DayLength \in Int BY <4>1, <5>1
        <5> QED BY <4>1, <5>1, <5>2 DEF startOf, lengthOf
      <4>4. \A w \in sessions : on(w) <=> (t - startOf(w)) % Week < lengthOf(w)
        <5>1. day \in Int /\ slot \in Int BY <1>2, <4>1 DEF Days, Slots
        <5> QED BY <4>1, <4>2, <4>3, <5>1
      <4>5. \A w \in sessions : covers(w, t) <=> (t - startOf(w)) % Week < lengthOf(w) BY <4>1, <4>2, <4>3 DEF covers
      <4> HIDE DEF on, at
      <4> QED BY <4>2, <4>4, <4>5
    <3> HIDE DEF on, at
    <3> QED BY <3>1, <3>2
  <2>9. nextTradeSession(sessions, day, slot)
          = IF trade = {} THEN -1 ELSE 1 + Min({until(w, day, slot) : w \in trade})
    BY <1>2, <2>4, NextIsFirst
  <2>10. trade_enabled => (report'.market = "OPEN" <=> \E w \in trade : covers(w, at))
    <3>1. trade_enabled => (report'.market = "OPEN" <=> sessionMatch(sessions, day, slot, "trade"))
      <4>1. sessions = {} => ~sessionMatch(sessions, day, slot, "trade") BY <2>8
      <4> QED BY <2>1, <4>1 DEF marketStatus
    <3> HIDE DEF at
    <3> QED BY <2>8, <3>1
  <2>11. report'.market = "QUOTE_ONLY" =>
           (\E w \in sessions \ trade : covers(w, at)) /\ ~\E w \in trade : covers(w, at)
    <3>1. report'.market = "QUOTE_ONLY" =>
            sessionMatch(sessions, day, slot, "quote") /\ ~sessionMatch(sessions, day, slot, "trade")
      BY <2>1 DEF marketStatus
    <3> HIDE DEF at
    <3> QED BY <2>8, <3>1
  <2>12. report'.market = "UNKNOWN" => cache' = {} \/ report'.unread
    <3>1. report'.market = "UNKNOWN" => sessions = {} BY <2>1 DEF marketStatus
    <3> QED BY <2>1, <2>6, <3>1
  <2>13. report'.next = IF trade = {} THEN -1 ELSE 1 + Min({(startOf(w) - at - 1) % Week : w \in trade})
    <3>1. {(startOf(w) - at - 1) % Week : w \in trade} = {until(w, day, slot) : w \in trade} BY DEF until
    <3> HIDE DEF at, trade
    <3> QED BY <2>1, <2>9, <3>1
  <2> HIDE DEF at
  <2>14. StatusIsRight'
    <3>1. /\ trade_enabled' => (report'.market = "OPEN" <=> \E w \in trade : covers(w, then'))
          /\ report'.market = "QUOTE_ONLY" =>
               (\E w \in sessions \ trade : covers(w, then')) /\ ~\E w \in trade : covers(w, then')
          /\ report'.next = IF trade = {} THEN -1 ELSE 1 + Min({(startOf(w) - then' - 1) % Week : w \in trade})
      BY <1>1, <2>7, <2>10, <2>11, <2>13
    <3> QED BY <2>1, <2>12, <3>1 DEF StatusIsRight, then
  <2>15. cache' \subseteq Windows BY <1>2, <2>4, <2>5
  <2> QED BY <1>1, <1>2, <2>14, <2>15 DEF SessionInv
<1> QED BY <1>3, <1>4 DEF Evaluate

\* For every week, schedule, lead of the server's clock, history of bars, failing source
\* and lost cache file, the answer is the one that was right on the broker's clock
\* ServerAhead slots ago, and UNKNOWN only when no source and no readable cache has the
\* schedule.
THEOREM StatusAlwaysRight == SessionSpec => []StatusIsRight
<1>1. SessionInit => SessionInv
  <2>1. SessionInit => StatusIsRight BY DEF SessionInit, StatusIsRight
  <2> QED BY <2>1 DEF SessionInit, SessionInv
<1>2. SessionInv /\ [SessionNext]_sessionVars => SessionInv'
  <2> SUFFICES ASSUME SessionInv, [SessionNext]_sessionVars PROVE SessionInv' OBVIOUS
  <2>1. CASE Evaluate BY <2>1, SessionAssumption, EvaluationHolds
  <2>2. CASE TimePasses
    <3>1. WeekDays \in Nat \ {0} /\ DayLength \in Nat \ {0} BY SessionAssumption, WeekFacts
    <3>2. clock[1] \in 0 .. WeekDays - 1 /\ clock[2] \in 0 .. DayLength - 1 BY DEF SessionInv, Days, Slots
    <3>3. (clock[1] + 1) % WeekDays \in 0 .. WeekDays - 1 BY <3>1, <3>2
    <3>4. clock' \in Days \X Slots BY <2>2, <3>1, <3>2, <3>3 DEF TimePasses, Days, Slots
    <3>5. StatusIsRight' BY <2>2 DEF TimePasses, StatusIsRight
    <3> QED BY <2>2, <3>4, <3>5 DEF TimePasses, SessionInv
  <2>3. CASE TradeModeChanges
    <3>1. StatusIsRight' BY <2>3 DEF TradeModeChanges, StatusIsRight
    <3> QED BY <2>3, <3>1 DEF TradeModeChanges, SessionInv
  <2>4. CASE Answered
    <3>1. StatusIsRight' BY <2>4 DEF Answered, StatusIsRight
    <3> QED BY <2>4, <3>1 DEF Answered, SessionInv
  <2>5. CASE CacheLost
    <3>1. serverInstant' = serverInstant BY <2>5 DEF CacheLost, serverInstant, instant, Week
    <3>2. StatusIsRight'
      BY <2>5, <3>1 DEF CacheLost, SessionInv, StatusIsRight, covers, startOf, lengthOf, Week
    <3> QED BY <2>5, <3>2 DEF CacheLost, SessionInv
  <2>6. CASE UNCHANGED sessionVars
    <3>1. serverInstant' = serverInstant BY <2>6 DEF sessionVars, serverInstant, instant, Week
    <3>2. StatusIsRight'
      BY <2>6, <3>1 DEF sessionVars, SessionInv, StatusIsRight, covers, startOf, lengthOf, Week
    <3> QED BY <2>6, <3>2 DEF sessionVars, SessionInv
  <2> QED BY <2>1, <2>2, <2>3, <2>4, <2>5, <2>6 DEF SessionNext
<1>3. SessionInv => StatusIsRight BY DEF SessionInv
<1> QED BY <1>1, <1>2, <1>3, PTL DEF SessionSpec

===============================================================================
