-------------------------- MODULE AiTradePlanClaims --------------------------
(* What the code says of AI trade plans, and does not keep.                  *)
EXTENDS AiTradePlan

CONSTANT EURUSD
ClaimsSameSymbol == [p \in Plans |-> EURUSD]

\* ORDER_CANCELLED is for a plan whose order the history "proved" cancelled,
\* rejected or expired (blockPlan): none of its orders is alive at MT5.
CancelledIsGone ==
  \A p \in Plans : plan[p].status = "ORDER_CANCELLED" =>
    Mine(p, "inflight") \cup Mine(p, "pending") \cup Mine(p, "open") = {}
=============================================================================
