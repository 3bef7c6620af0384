--------------------------- MODULE AiTradePlanRow ---------------------------
(***************************************************************************)
(* One row of ai_trade_plans, and the SQL statements of                    *)
(* trading-ai-service.ts and ai-trade-plan-watcher.ts as functions of it.  *)
(* Constant level.                                                         *)
(*                                                                         *)
(* A row keeps the columns that some guard reads, in the statuses where it *)
(* reads them: status; whether execution_key is set (locked); why an       *)
(* EXECUTION_FAILED plan failed (blocked_reason); the mt5_order_ticket of  *)
(* a PENDING_ORDER_PLACED one; and whether submitting_at is older than the *)
(* watcher's grace period (aged).  AI_PLAN_CREATED and                     *)
(* PENDING_ORDER_TRIGGERED are statuses that no statement writes.          *)
(***************************************************************************)
EXTENDS Naturals

PlanStatus == {"WAITING_FOR_APPROVAL", "PENDING_ORDER_SUBMITTING", "PENDING_ORDER_PLACED",
               "POSITION_OPEN", "POSITION_CLOSED", "PLAN_EXPIRED", "ORDER_CANCELLED",
               "EXECUTION_FAILED", "RISK_BLOCKED"}

\* blocked_reason, as reconcileInconclusiveExecution() tells reasons apart.
Reasons == {"none", "PENDING_ORDER_NOT_CONFIRMED", "PENDING_ORDER_CONFIRMATION_AMBIGUOUS", "other"}

NoTicket == 0
Absent   == "ABSENT"                      \* not saved yet

\* a plan that is on its way to MT5 or there: one per symbol.
ActivePlan == {"PENDING_ORDER_SUBMITTING", "PENDING_ORDER_PLACED", "POSITION_OPEN"}

\* what blockPlan() never overwrites.
Settled == {"POSITION_OPEN", "POSITION_CLOSED", "PLAN_EXPIRED", "ORDER_CANCELLED"}

\* A row in status s with execution_key NULL.
Unlocked(s) == [status |-> s, locked |-> FALSE, reason |-> "none", ticket |-> NoTicket, aged |-> FALSE]

NoRow == Unlocked(Absent)

-----------------------------------------------------------------------------
isApprovable(row) == row.status = "WAITING_FOR_APPROVAL" /\ ~row.locked

claimPlanForApproval(row) == [Unlocked("PENDING_ORDER_SUBMITTING") EXCEPT !.locked = TRUE]

failed(why) == [Unlocked("EXECUTION_FAILED") EXCEPT !.reason = why]

blockPlan(row, blocked) == IF row.status \in Settled THEN row ELSE blocked

\* The statements that report what MT5 has: some are conditional on the
\* status (whenSubmitting, whenPlaced), some go by id alone.
placed(k) == [Unlocked("PENDING_ORDER_PLACED") EXCEPT !.ticket = k]
opened    == Unlocked("POSITION_OPEN")

whenSubmitting(row, new) == IF row.status = "PENDING_ORDER_SUBMITTING" THEN new ELSE row
whenPlaced(row, new)     == IF row.status = "PENDING_ORDER_PLACED" THEN new ELSE row

\* mutant of released: execution_key is not cleared.
releasedLocked == [Unlocked("WAITING_FOR_APPROVAL") EXCEPT !.locked = TRUE]

released == Unlocked("WAITING_FOR_APPROVAL")

releaseFailed(row) == IF row.status = "EXECUTION_FAILED" THEN released ELSE row

expireUnapproved(row, past) ==
  IF row.status = "WAITING_FOR_APPROVAL" /\ past
  THEN [Unlocked("PLAN_EXPIRED") EXCEPT !.locked = row.locked] ELSE row

\* mutant of syncClosed: any trade on record counts as closed.
syncClosedAny(row, outcome) ==
  IF row.status = "POSITION_OPEN" /\ outcome # "none" THEN Unlocked("POSITION_CLOSED") ELSE row

\* outcome: the state of the plan's trade_outcomes row.
syncClosed(row, outcome) ==
  CASE row.status = "POSITION_OPEN" /\ outcome = "closed" -> Unlocked("POSITION_CLOSED")
    [] row.status = "POSITION_OPEN" /\ outcome = "failed" -> failed("other")
    [] OTHER -> row
=============================================================================
