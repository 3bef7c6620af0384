----------------------------- MODULE PlanSchema -----------------------------
(***************************************************************************)
(* What the backend accepts as an AI trade plan (trading-ai/schema.ts) and *)
(* which of its levels each later step takes for the planned entry         *)
(* (trading-ai-service.ts, demo-sizing.ts).                                *)
(*                                                                         *)
(* An answer is a record: decision, type (entry_type), pending             *)
(* (pending_order_type), the levels current, entry, zoneLow, zoneHigh,     *)
(* trigger, stop and target, in ticks with 0 for null, the ratio the AI    *)
(* states, and its three percentages.                                      *)
(***************************************************************************)
EXTENDS Integers

LOCAL Missing == 0

\* entry_price ?? other
orElse(level, other) == IF level # Missing THEN level ELSE other

hasZone(ai) == ai.zoneLow # Missing /\ ai.zoneHigh # Missing

pullbackShape(ai) ==
  /\ ai.entry # Missing \/ hasZone(ai)
  /\ ai.pending = IF ai.decision = "BUY" THEN "BUY_LIMIT" ELSE "SELL_LIMIT"
  /\ ai.entry # Missing /\ hasZone(ai) => ai.entry \in ai.zoneLow .. ai.zoneHigh

breakoutShape(ai) ==
  /\ ai.trigger # Missing
  /\ ai.pending = IF ai.decision = "BUY" THEN "BUY_STOP" ELSE "SELL_STOP"

\* The level compared with the current price: the trigger of a breakout,
\* whatever its entry_price.
geometryAnchor(ai) ==
  IF ai.type = "BREAKOUT" THEN ai.trigger
  ELSE orElse(ai.entry, IF ai.decision = "BUY" THEN ai.zoneHigh ELSE ai.zoneLow)

pendingGeometry(ai) ==
  LET anchor == geometryAnchor(ai)
  IN anchor = Missing
     \/ IF ai.pending \in {"BUY_LIMIT", "SELL_STOP"} THEN anchor < ai.current ELSE anchor > ai.current

\* The level the stop and the target are compared with.
protectionAnchor(ai) == orElse(ai.entry, IF ai.type = "PULLBACK" THEN ai.zoneLow ELSE ai.trigger)

protects(ai, level) ==
  IF ai.decision = "BUY" THEN ai.stop < level /\ level < ai.target
  ELSE ai.target < level /\ level < ai.stop

parseTradeAIPlan(ai) ==
  ai.decision = "WAIT"
    \/ /\ ai.type # "NO_ENTRY"
       /\ ai.stop # Missing /\ ai.target # Missing /\ ai.current # Missing
       /\ ai.type = "MARKET_NOW" => ai.entry # Missing
       /\ hasZone(ai) => ai.zoneLow <= ai.zoneHigh
       /\ ai.type = "PULLBACK" => pullbackShape(ai)
       /\ ai.type = "BREAKOUT" => breakoutShape(ai)
       /\ ai.type \in {"PULLBACK", "BREAKOUT"} => pendingGeometry(ai)
       /\ protectionAnchor(ai) # Missing => protects(ai, protectionAnchor(ai))

\* The analysis sizes a plan at this level,
referenceEntryForRisk(ai, bid, ask) ==
  CASE ai.type = "MARKET_NOW" -> IF ai.decision = "BUY" THEN ask ELSE bid
    [] ai.type = "PULLBACK" ->
         orElse(ai.entry, IF ai.decision = "BUY" THEN orElse(ai.zoneHigh, ai.zoneLow)
                          ELSE orElse(ai.zoneLow, ai.zoneHigh))
    [] ai.type = "BREAKOUT" -> orElse(ai.entry, ai.trigger)

\* the sizing by quality at this one, from the stored row,
sizingEntry(ai) == orElse(ai.entry, orElse(ai.zoneHigh, orElse(ai.trigger, ai.current)))

\* and the approval sizes and sends it at this one.
approvalEntry(ai, bid, ask) ==
  IF ai.type = "MARKET_NOW" THEN IF ai.decision = "BUY" THEN ask ELSE bid
  ELSE orElse(ai.entry, orElse(ai.trigger, ai.zoneLow))

=============================================================================
