---------------------------- MODULE MCAiTradePlan ----------------------------
(* AiTradePlan on small instances.                                           *)
EXTENDS AiTradePlan, TLC

CONSTANT EURUSD

MCSameSymbol == [p \in Plans |-> EURUSD]

MCSymmetry == Permutations(Flows)
=============================================================================
