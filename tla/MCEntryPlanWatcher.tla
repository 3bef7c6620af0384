------------------------- MODULE MCEntryPlanWatcher -------------------------
(* EntryPlanWatcher on small instances: one plan, on which flows and passes *)
(* meet.  Plans meet only in the counts and in the checks POSITION_EXISTS   *)
(* and COOLDOWN, which refuse.                                              *)
EXTENDS EntryPlanWatcher, TLC

CONSTANT EURUSD

MCSameSymbol == [p \in Plans |-> EURUSD]

MCSymmetry == Permutations(Plans) \cup Permutations(Workers) \cup Permutations(Recs)
=============================================================================
