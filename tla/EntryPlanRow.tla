---------------------------- MODULE EntryPlanRow ----------------------------
(***************************************************************************)
(* One row of mt5_entry_plans: the statuses it may hold, the status the    *)
(* app computes from a quote, and each SQL statement of                    *)
(* mt5-entry-plan-watcher.ts as a function from the stored row to the row  *)
(* after the statement.  Constant level: EntryPlanWatcher.tla applies      *)
(* these functions one await at a time.                                    *)
(*                                                                         *)
(* A row keeps the columns the guards read: status, the execution lock     *)
(* (execution_key, NoKey for NULL), and whether executing_at is older than *)
(* the reconciliation grace period (aged).                                 *)
(***************************************************************************)
EXTENDS Naturals

EntryStatus == {"WAITING", "READY", "TRIGGERED", "EXECUTING", "EXECUTED",
                "EXPIRED", "CANCELLED", "BLOCKED", "RECONCILIATION_FAILED"}

\* The table declared beside canTransition(): no statement consults it.
VALID_TRANSITIONS ==
  [s \in EntryStatus |->
     CASE s = "WAITING"   -> {"READY", "TRIGGERED", "EXPIRED", "CANCELLED", "BLOCKED"}
       [] s = "READY"     -> {"TRIGGERED", "EXECUTING", "EXPIRED", "CANCELLED", "BLOCKED", "WAITING"}
       [] s = "TRIGGERED" -> {"EXECUTING", "EXPIRED", "CANCELLED", "BLOCKED"}
       [] s = "EXECUTING" -> {"EXECUTED", "BLOCKED", "TRIGGERED"}
       [] s = "EXECUTED"  -> {"RECONCILIATION_FAILED"}
       [] OTHER           -> {}]

canTransition(from, to) == from = to \/ to \in VALID_TRANSITIONS[from]

NoKey  == 0
Absent == "ABSENT"                        \* no row for this decision yet

Active     == {"WAITING", "READY", "TRIGGERED"}
Claimable  == {"TRIGGERED", "READY"}
Settled    == {"EXECUTED", "EXPIRED", "CANCELLED"}
Protected  == Settled \cup {"EXECUTING"}  \* a refresh never overwrites these

NoRow == [status |-> Absent, key |-> NoKey, aged |-> FALSE]

-----------------------------------------------------------------------------
(* The status computed from the decision and a live quote.  An input says  *)
(* what the branches of computeRawEntryStatus() test: the side is BUY or   *)
(* SELL and the strategy is not NO_ENTRY; valid_until has passed; market   *)
(* OPEN and data LIVE; a price could be read; the levels the strategy      *)
(* needs are there; the price has reached them.                            *)

EntryInput ==
  [entry: BOOLEAN, expired: BOOLEAN, tradable: BOOLEAN, quoted: BOOLEAN,
   strategy: {"MARKET_NOW", "PULLBACK", "BREAKOUT"}, levels: BOOLEAN, reached: BOOLEAN]

computeRawEntryStatus(i) ==
  CASE ~i.entry                                -> "BLOCKED"
    [] i.entry /\ i.expired                    -> "EXPIRED"
    [] i.entry /\ ~i.expired
       /\ ~(i.tradable /\ i.quoted)            -> "BLOCKED"
    [] OTHER ->
         IF i.strategy = "MARKET_NOW" THEN "READY"
         ELSE IF ~i.levels THEN "BLOCKED"
         ELSE IF i.reached THEN "TRIGGERED" ELSE "WAITING"

\* TRIGGERED is sticky against a price that moves back out of the zone.
refreshPlanStatus(prior, computed) ==
  IF prior = "TRIGGERED" /\ computed \in {"WAITING", "READY"} THEN "TRIGGERED" ELSE computed

FreshComputed == {computeRawEntryStatus(i) : i \in {j \in EntryInput : ~j.expired}}
PastComputed  == {computeRawEntryStatus(i) : i \in {j \in EntryInput : j.expired}}

Computed(past) == IF past THEN PastComputed ELSE FreshComputed

-----------------------------------------------------------------------------
(* The statements.                                                         *)

\* mutant of persistEntryPlan: EXPIRED is missing from the protected statuses.
persistEntryPlanRevivesExpired(row, s) ==
  IF row.status \in Protected \ {"EXPIRED"} THEN row
  ELSE [row EXCEPT !.status = s, !.key = IF s \in Active THEN NoKey ELSE row.key]

\* INSERT ... ON CONFLICT(ai_decision_id) DO UPDATE: the status and the lock
\* of a protected row stay; any other row takes the computed status and, when
\* that status is active again, loses its stale lock.
persistEntryPlan(row, s) ==
  IF row.status \in Protected
  THEN row
  ELSE [row EXCEPT !.status = s,
                   !.key    = IF s \in Active THEN NoKey ELSE row.key,
                   !.aged   = IF s \in Active THEN FALSE ELSE row.aged]

\* the single-row conditional UPDATE that takes the execution lock.
isClaimable(row) == row.status \in Claimable /\ row.key = NoKey

claimPlanForExecution(row, k) == [row EXCEPT !.status = "EXECUTING", !.key = k, !.aged = FALSE]

blockPlan(row) ==
  IF row.status \in Settled THEN row ELSE [row EXCEPT !.status = "BLOCKED"]

expirePlanRow(row) ==
  IF row.status \in Settled THEN row ELSE [row EXCEPT !.status = "EXPIRED"]

\* every UPDATE ... WHERE id=$1 AND status='EXECUTING'.
whenExecuting(row, s) ==
  IF row.status = "EXECUTING" THEN [row EXCEPT !.status = s] ELSE row

\* mutant of releasePlan: the lock is kept on the way back to TRIGGERED.
releasePlanKeepsLock(row) == whenExecuting(row, "TRIGGERED")

releasePlan(row) ==
  IF row.status = "EXECUTING"
  THEN [row EXCEPT !.status = "TRIGGERED", !.key = NoKey, !.aged = FALSE]
  ELSE row

markReconciliationFailed(row) ==
  IF row.status \in {"EXPIRED", "CANCELLED", "RECONCILIATION_FAILED"} THEN row
  ELSE [row EXCEPT !.status = "RECONCILIATION_FAILED"]

expireStalePlan(row, past) ==
  IF row.status \in Active /\ past THEN [row EXCEPT !.status = "EXPIRED"] ELSE row
=============================================================================
