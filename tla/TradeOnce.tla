----------------------------- MODULE TradeOnce -----------------------------
(***************************************************************************)
(* What the execution paths promise of each plan, as the comments of      *)
(* mt5-entry-plan-watcher.ts and trading-ai-service.ts put it: at most one *)
(* order at MT5, retried only after MT5 has none, and on record exactly    *)
(* once.  EntryPlanWatcher refines it (TradesOnce, OrderResolved), and so  *)
(* do AiTradePlan and PaperTrading (TradesOnce).                           *)
(***************************************************************************)
EXTENDS Naturals

CONSTANT Plans

VARIABLES
  orders,   \* orders[p]: how many of the plan's orders MT5 holds or filled
  book      \* book[p]: the plan's trade on record

vars == <<orders, book>>

Init ==
  /\ orders = [p \in Plans |-> 0]
  /\ book   = [p \in Plans |-> "none"]

Place(p) ==
  /\ orders[p] = 0 /\ book[p] = "none"
  /\ orders' = [orders EXCEPT ![p] = 1]
  /\ UNCHANGED book

\* An order that is not on record goes; a broker that forgets loses several.
Refuse(S) ==
  /\ \A p \in S : orders[p] = 1 /\ book[p] = "none"
  /\ orders' = [p \in Plans |-> IF p \in S THEN 0 ELSE orders[p]]
  /\ UNCHANGED book

Record(p) ==
  /\ orders[p] = 1 /\ book[p] = "none"
  /\ book' = [book EXCEPT ![p] = "open"]
  /\ UNCHANGED orders

Settle(p) ==
  /\ book[p] = "open"
  /\ book' = [book EXCEPT ![p] = "closed"]
  /\ UNCHANGED orders

Next ==
  \/ \E p \in Plans : Place(p) \/ Record(p) \/ Settle(p)
  \/ \E S \in SUBSET Plans : Refuse(S)

Spec == Init /\ [][Next]_vars

\* An order at MT5 is refused or put on record: it is never lost.
Resolved == \A p \in Plans : orders[p] = 1 ~> (orders[p] = 0 \/ book[p] # "none")
=============================================================================
