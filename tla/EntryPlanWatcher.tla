-------------------------- MODULE EntryPlanWatcher --------------------------
(***************************************************************************)
(* The H1 demo pipeline's execution engine, apps/api/src/services/         *)
(* mt5-entry-plan-watcher.ts, with the broker behind it:                   *)
(*                                                                         *)
(*  - Workers are the flows of the Node process that refresh, claim and    *)
(*    execute a plan: the row loop of a watcher tick, GET /entry-plans     *)
(*    (refresh only), and an owner's "Trade in Demo" click.  Ticks start   *)
(*    from setInterval with no overlap guard, so several run at once.      *)
(*  - Recs are the reconciliation passes at the head of a tick.            *)
(*  - order[k] is what became of the one order_send made under claim key   *)
(*    k; the gateway and MT5 live on when the Node process dies.           *)
(*                                                                         *)
(* One action per await: a value read before an await is kept in the       *)
(* worker's or the pass's local state and used after it.                   *)
(***************************************************************************)
EXTENDS EntryPlanRow, FiniteSets

CONSTANTS
  Plans,         \* mt5_entry_plans ids, one per AI decision
  NoPlan,
  SymbolOf,      \* the plan's symbol
  Workers,
  Recs,
  MaxClaims,     \* bound: executions claimed in one behaviour
  MaxCrashes,    \* bound: restarts of the Node process
  MaxPositions,  \* mt5_max_simultaneous_positions
  MaxTrades,     \* mt5_max_trades_per_day, within one trading day
  Faults         \* what the environment may do besides answering in time

FaultKinds ==
  {"read",       \* a call to list positions fails: caught, taken as []
   "blank",      \* positions_get() returns None: the adapter answers []
   "history",    \* the deal history cannot be fetched
   "db",         \* a database statement of an execution fails
   "slow",       \* an execution or its order_send outlives the grace period
   "dealonly",   \* order_send answers with a deal and no order (order = 0)
   "fastclose"}  \* a position closes before the app has recorded it

ASSUME PlansAssumption    == NoPlan \notin Plans
ASSUME SymbolAssumption   == DOMAIN SymbolOf = Plans
ASSUME BoundsAssumption   == /\ MaxClaims \in Nat
                             /\ MaxCrashes \in Nat
                             /\ MaxPositions \in Nat
                             /\ MaxTrades \in Nat
ASSUME FaultsAssumption   == Faults \subseteq FaultKinds

Keys == 1 .. MaxClaims

VARIABLES
  plan,      \* plan[p]: the row of mt5_entry_plans
  past,      \* past[p]: valid_until <= now()
  outcome,   \* outcome[p]: the trade_outcomes row with entry_plan_id p
  nextKey,   \* the next claim's execution_key
  owner,     \* owner[k]: the plan claimed under k; its comment tags the order
  order,     \* order[k]: what MT5 did with the order sent under k
  worker, rec,
  crashes

vars == <<plan, past, outcome, nextKey, owner, order, worker, rec, crashes>>

-----------------------------------------------------------------------------
(* Records and views.                                                      *)

RowType     == [status: EntryStatus \cup {Absent}, key: Keys \cup {NoKey}, aged: BOOLEAN]
OrderState  == {"none", "inflight", "open", "closed", "refused"}
NoOutcome   == [state |-> "none", ticket |-> NoKey, recent |-> FALSE]
OutcomeType == [state: {"open", "closed", "failed"}, ticket: Keys \cup {NoKey}, recent: BOOLEAN] \cup {NoOutcome}

WorkerPc   == {"idle", "picked", "refresh", "claim", "claimed", "gates", "limits", "send", "await", "record", "block"}
IdleWorker == [pc |-> "idle", plan |-> NoPlan, key |-> NoKey, prior |-> Absent,
               tick |-> FALSE, seen |-> 0]
WorkerType == [pc: WorkerPc, plan: Plans \cup {NoPlan}, key: Keys \cup {NoKey},
               prior: EntryStatus \cup {Absent}, tick: BOOLEAN, seen: Nat]

RecPc   == {"idle", "stuckread", "stuck", "adopt", "heal", "release",
            "outcomes", "outread", "outrows", "close", "fail", "failplan", "expire"}
IdleRec == [pc |-> "idle", todo |-> {}, view |-> {}, cur |-> NoPlan]
RecType == [pc: RecPc, todo: SUBSET Plans, view: SUBSET Keys, cur: Plans \cup {NoPlan}]

OpenKeys   == {k \in Keys : order[k] = "open"}
Filled(k)  == order[k] \in {"open", "closed"}
Reached(k) == order[k] \in {"inflight", "open", "closed"}   \* sent and not refused

\* what a caller that turns a failed read into [] may take for the positions.
PositionsOrEmpty == {OpenKeys} \cup (IF Faults \cap {"read", "blank"} # {} THEN {{}} ELSE {})

Executing(p) == plan[p].status = "EXECUTING"

Init ==
  /\ plan    = [p \in Plans |-> NoRow]
  /\ past    = [p \in Plans |-> FALSE]
  /\ outcome = [p \in Plans |-> NoOutcome]
  /\ nextKey = 1
  /\ owner   = [k \in Keys |-> NoPlan]
  /\ order   = [k \in Keys |-> "none"]
  /\ worker  = [w \in Workers |-> IdleWorker]
  /\ rec     = [r \in Recs |-> IdleRec]
  /\ crashes = 0

-----------------------------------------------------------------------------
(* Refreshing and claiming.                                                *)

\* An analysis of the plan's own signal candle upserts the same decision and
\* so the same plan, at any time and from any status.
AnalyzePlan(p) ==
  /\ \E s \in Computed(past[p]) : plan' = [plan EXCEPT ![p] = persistEntryPlan(@, s)]
  /\ UNCHANGED <<past, outcome, nextKey, owner, order, worker, rec, crashes>>

\* the SELECT of a tick's row loop, or of listActiveEntryPlans().
PickRow(w, p, tick) ==
  /\ worker[w].pc = "idle"
  /\ plan[p].status \in (IF tick THEN Active ELSE Active \cup {"BLOCKED"})
  /\ worker' = [worker EXCEPT ![w] = [IdleWorker EXCEPT !.pc = "picked", !.plan = p,
                                        !.prior = plan[p].status, !.tick = tick]]
  /\ UNCHANGED <<plan, past, outcome, nextKey, owner, order, rec, crashes>>

\* the row the tick selected has run out: expirePlanRow() by id.
TickExpire(w) ==
  LET p == worker[w].plan IN
  /\ worker[w].pc = "picked" /\ worker[w].tick /\ past[p]
  /\ plan' = [plan EXCEPT ![p] = expirePlanRow(@)]
  /\ worker' = [worker EXCEPT ![w] = IdleWorker]
  /\ UNCHANGED <<past, outcome, nextKey, owner, order, rec, crashes>>

\* the row is still valid (a refresh from the list does not ask): its quote
\* and market status are fetched.
FetchQuote(w) ==
  /\ worker[w].pc = "picked" /\ ~(worker[w].tick /\ past[worker[w].plan])
  /\ worker' = [worker EXCEPT ![w].pc = "refresh"]
  /\ UNCHANGED <<plan, past, outcome, nextKey, owner, order, rec, crashes>>

\* refreshStoredEntryPlan(): status from the row as it was selected and the
\* tick read since; a tick in AUTO-DEMO goes on to claim an eligible plan.
RefreshRow(w) ==
  LET p == worker[w].plan IN
  /\ worker[w].pc = "refresh"
  /\ \E s \in Computed(past[p]), auto \in BOOLEAN :
       /\ plan' = [plan EXCEPT ![p] = persistEntryPlan(@, refreshPlanStatus(worker[w].prior, s))]
       /\ worker' = [worker EXCEPT ![w] =
                       IF worker[w].tick /\ auto /\ plan'[p].status \in Claimable
                       THEN [IdleWorker EXCEPT !.pc = "claim", !.plan = p] ELSE IdleWorker]
  /\ UNCHANGED <<past, outcome, nextKey, owner, order, rec, crashes>>

\* mutant: an EXECUTING row can be claimed again.
ClaimTwice(w, p) ==
  /\ worker[w].pc = "idle" \/ (worker[w].pc = "claim" /\ worker[w].plan = p)
  /\ nextKey \in Keys
  /\ plan[p].status \in Claimable \cup {"EXECUTING"}
  /\ plan' = [plan EXCEPT ![p] = claimPlanForExecution(@, nextKey)]
  /\ owner' = [owner EXCEPT ![nextKey] = p]
  /\ nextKey' = nextKey + 1
  /\ worker' = [worker EXCEPT ![w] = [IdleWorker EXCEPT !.pc = "claimed", !.plan = p, !.key = nextKey]]
  /\ UNCHANGED <<past, outcome, order, rec, crashes>>

\* the tick's claim, or executeEntryPlanById() for an owner's click (idle).
ClaimPlan(w, p) ==
  /\ worker[w].pc = "idle" \/ (worker[w].pc = "claim" /\ worker[w].plan = p)
  /\ nextKey \in Keys
  /\ isClaimable(plan[p])
  /\ plan' = [plan EXCEPT ![p] = claimPlanForExecution(@, nextKey)]
  /\ owner' = [owner EXCEPT ![nextKey] = p]
  /\ nextKey' = nextKey + 1
  /\ worker' = [worker EXCEPT ![w] = [IdleWorker EXCEPT !.pc = "claimed", !.plan = p, !.key = nextKey]]
  /\ UNCHANGED <<past, outcome, order, rec, crashes>>

\* 0 rows came back: ALREADY_PROCESSING (or the bound on claims is spent).
ClaimFails(w) ==
  /\ worker[w].pc = "claim"
  /\ ~isClaimable(plan[worker[w].plan]) \/ nextKey \notin Keys
  /\ worker' = [worker EXCEPT ![w] = IdleWorker]
  /\ UNCHANGED <<plan, past, outcome, nextKey, owner, order, rec, crashes>>

-----------------------------------------------------------------------------
(* executeClaimedPlan().                                                   *)

\* the claimed row is checked against the clock, once.
PassExpiry(w) ==
  /\ worker[w].pc = "claimed" /\ ~past[worker[w].plan]
  /\ worker' = [worker EXCEPT ![w].pc = "gates"]
  /\ UNCHANGED <<plan, past, outcome, nextKey, owner, order, rec, crashes>>

ExpireClaimed(w) ==
  LET p == worker[w].plan IN
  /\ worker[w].pc = "claimed" /\ past[p]
  /\ plan' = [plan EXCEPT ![p] = expirePlanRow(@)]
  /\ worker' = [worker EXCEPT ![w] = IdleWorker]
  /\ UNCHANGED <<past, outcome, nextKey, owner, order, rec, crashes>>

\* any gate on inputs alone: kill switch, DEMO verification, quote, market,
\* pending order, the Risk Engine's price rules, SL/TP, order_check.
GateRejects(w) ==
  /\ worker[w].pc \in {"gates", "limits", "send"}
  /\ worker' = [worker EXCEPT ![w].pc = "block"]
  /\ UNCHANGED <<plan, past, outcome, nextKey, owner, order, rec, crashes>>

\* the live positions, read once: POSITION_EXISTS for the symbol, and the
\* count the Risk Engine is given later.
ReadPositions(w) ==
  /\ worker[w].pc = "gates"
  /\ \E view \in PositionsOrEmpty :
       worker' = [worker EXCEPT
                    ![w].pc = IF \E k \in view : SymbolOf[owner[k]] = SymbolOf[worker[w].plan]
                              THEN "block" ELSE "limits",
                    ![w].seen = Cardinality(view)]
  /\ UNCHANGED <<plan, past, outcome, nextKey, owner, order, rec, crashes>>

InCooldown(symbol) == \E p \in Plans : SymbolOf[p] = symbol /\ outcome[p].recent
TradesToday == Cardinality({p \in Plans : outcome[p].state \in {"open", "closed"}})

\* trade_outcomes: the symbol's cooldown, then countTradesToday() against the
\* limits of evaluateMt5Risk().
CheckLimits(w) ==
  /\ worker[w].pc = "limits"
  /\ worker' = [worker EXCEPT
                  ![w].pc = IF \/ InCooldown(SymbolOf[worker[w].plan])
                               \/ worker[w].seen >= MaxPositions
                               \/ TradesToday >= MaxTrades
                            THEN "block" ELSE "send"]
  /\ UNCHANGED <<plan, past, outcome, nextKey, owner, order, rec, crashes>>

\* blockPlan(), by id and not by execution_key.
BlockClaimed(w) ==
  /\ worker[w].pc = "block"
  /\ plan' = [plan EXCEPT ![worker[w].plan] = blockPlan(@)]
  /\ worker' = [worker EXCEPT ![w] = IdleWorker]
  /\ UNCHANGED <<past, outcome, nextKey, owner, order, rec, crashes>>

\* order_check passed; POST /order-send reaches the gateway.
SendOrder(w) ==
  /\ worker[w].pc = "send"
  /\ order' = [order EXCEPT ![worker[w].key] = "inflight"]
  /\ worker' = [worker EXCEPT ![w].pc = "await"]
  /\ UNCHANGED <<plan, past, outcome, nextKey, owner, rec, crashes>>

\* The gateway answers only for a filled order whose position it can see, by
\* ticket or by the plan's comment.
ConfirmedAnswer(w) ==
  /\ worker[w].pc = "await"
  /\ Filled(worker[w].key)
  /\ \E k \in OpenKeys : k = worker[w].key \/ owner[k] = worker[w].plan
  /\ worker' = [worker EXCEPT ![w].pc = "record"]
  /\ UNCHANGED <<plan, past, outcome, nextKey, owner, order, rec, crashes>>

\* EXECUTION_UNCONFIRMED: refused, timed out after 15 s, or not confirmed.
\* The plan is left EXECUTING.
NoAnswer(w) ==
  /\ worker[w].pc = "await"
  /\ worker' = [worker EXCEPT ![w] = IdleWorker]
  /\ UNCHANGED <<plan, past, outcome, nextKey, owner, order, rec, crashes>>

\* INSERT INTO trade_outcomes ... ON CONFLICT (entry_plan_id) DO NOTHING.
insertOutcome(row, k) ==
  IF row.state = "none" THEN [state |-> "open", ticket |-> k, recent |-> TRUE] ELSE row

\* The order ticket an answer names: the gateway also accepts one that names
\* its deal alone, and String(0), or null, is stored, a position of no one.
AnsweredTickets(k) == {k} \cup (IF "dealonly" \in Faults THEN {NoKey} ELSE {})

\* one transaction: the trade_outcomes row and the plan's EXECUTED.
RecordExecution(w) ==
  /\ worker[w].pc = "record"
  /\ \E t \in AnsweredTickets(worker[w].key) :
       outcome' = [outcome EXCEPT ![worker[w].plan] = insertOutcome(@, t)]
  /\ plan' = [plan EXCEPT ![worker[w].plan] = whenExecuting(@, "EXECUTED")]
  /\ worker' = [worker EXCEPT ![w] = IdleWorker]
  /\ UNCHANGED <<past, nextKey, owner, order, rec, crashes>>

\* a statement throws: the outer catch marks a claimed plan BLOCKED, unless
\* that fails too; a row not claimed yet is dropped with the rest of the tick.
UnexpectedError(w) ==
  /\ "db" \in Faults
  /\ worker[w].pc \notin {"idle", "await"}
  /\ \/ /\ worker[w].key # NoKey
        /\ plan' = [plan EXCEPT ![worker[w].plan] = whenExecuting(@, "BLOCKED")]
     \/ UNCHANGED plan
  /\ worker' = [worker EXCEPT ![w] = IdleWorker]
  /\ UNCHANGED <<past, outcome, nextKey, owner, order, rec, crashes>>

-----------------------------------------------------------------------------
(* reconcileStuckExecutions(): plans EXECUTING past the grace period.      *)

\* Where a pass goes when it is done with the row in hand.
AfterStuck(r)   == [rec[r] EXCEPT !.cur = NoPlan,
                                  !.pc  = IF rec[r].todo = {} THEN "outcomes" ELSE "stuck"]
AfterOutcome(r) == [rec[r] EXCEPT !.cur = NoPlan,
                                  !.pc  = IF rec[r].todo = {} THEN "expire" ELSE "outrows"]

StuckSelect(r) ==
  LET stuck == {p \in Plans : Executing(p) /\ plan[p].aged} IN
  /\ rec[r].pc = "idle"
  /\ rec' = [rec EXCEPT ![r] = [IdleRec EXCEPT !.todo = stuck,
                                  !.pc = IF stuck = {} THEN "outcomes" ELSE "stuckread"]]
  /\ UNCHANGED <<plan, past, outcome, nextKey, owner, order, worker, crashes>>

\* one read of the live positions serves every row of the pass.
StuckRead(r) ==
  /\ rec[r].pc = "stuckread"
  /\ \E view \in PositionsOrEmpty : rec' = [rec EXCEPT ![r].view = view, ![r].pc = "stuck"]
  /\ UNCHANGED <<plan, past, outcome, nextKey, owner, order, worker, crashes>>

\* mutant: no trade_outcomes row is taken to mean no order.
StuckLookupRecordOnly(r) ==
  /\ rec[r].pc = "stuck"
  /\ \E p \in rec[r].todo :
       rec' = [rec EXCEPT ![r].cur = p, ![r].todo = @ \ {p},
                          ![r].pc = IF outcome[p].state # "none" THEN "heal" ELSE "release"]
  /\ UNCHANGED <<plan, past, outcome, nextKey, owner, order, worker, crashes>>

\* the evidence for one row: the local record, else a live position whose
\* comment names the plan, else none.
StuckLookup(r) ==
  /\ rec[r].pc = "stuck"
  /\ \E p \in rec[r].todo :
       rec' = [rec EXCEPT ![r].cur = p, ![r].todo = @ \ {p},
                          ![r].pc = IF outcome[p].state # "none" THEN "heal"
                                    ELSE IF \E k \in rec[r].view : owner[k] = p THEN "adopt"
                                    ELSE "release"]
  /\ UNCHANGED <<plan, past, outcome, nextKey, owner, order, worker, crashes>>

\* mutant: the plan is healed without the trade_outcomes row.
AdoptWithoutRecord(r) ==
  /\ rec[r].pc = "adopt"
  /\ rec' = [rec EXCEPT ![r].pc = "heal"]
  /\ UNCHANGED <<plan, past, outcome, nextKey, owner, order, worker, crashes>>

AdoptPosition(r) ==
  /\ rec[r].pc = "adopt"
  /\ \E k \in rec[r].view :
       /\ owner[k] = rec[r].cur
       /\ outcome' = [outcome EXCEPT ![rec[r].cur] = insertOutcome(@, k)]
  /\ rec' = [rec EXCEPT ![r].pc = "heal"]
  /\ UNCHANGED <<plan, past, nextKey, owner, order, worker, crashes>>

HealPlan(r) ==
  /\ rec[r].pc = "heal"
  /\ plan' = [plan EXCEPT ![rec[r].cur] = whenExecuting(@, "EXECUTED")]
  /\ rec' = [rec EXCEPT ![r] = AfterStuck(r)]
  /\ UNCHANGED <<past, outcome, nextKey, owner, order, worker, crashes>>

\* mutant: the plan is left for a later pass, which finds it as it was.
KeepStuck(r) ==
  /\ rec[r].pc = "release"
  /\ rec' = [rec EXCEPT ![r] = AfterStuck(r)]
  /\ UNCHANGED <<plan, past, outcome, nextKey, owner, order, worker, crashes>>

\* by id and status: neither the execution_key nor executing_at is read again.
ReleasePlan(r) ==
  /\ rec[r].pc = "release"
  /\ plan' = [plan EXCEPT ![rec[r].cur] = releasePlan(@)]
  /\ rec' = [rec EXCEPT ![r] = AfterStuck(r)]
  /\ UNCHANGED <<past, outcome, nextKey, owner, order, worker, crashes>>

-----------------------------------------------------------------------------
(* reconcileOpenTradeOutcomes(), then expireStalePlans().                  *)

\* mutant: only trades opened lately are checked.
OutcomeSelectRecent(r) ==
  LET openRows == {p \in Plans : outcome[p].state = "open" /\ outcome[p].recent} IN
  /\ rec[r].pc = "outcomes"
  /\ rec' = [rec EXCEPT ![r] = [IdleRec EXCEPT !.todo = openRows,
                                  !.pc = IF openRows = {} THEN "expire" ELSE "outread"]]
  /\ UNCHANGED <<plan, past, outcome, nextKey, owner, order, worker, crashes>>

OutcomeSelect(r) ==
  LET openRows == {p \in Plans : outcome[p].state = "open"} IN
  /\ rec[r].pc = "outcomes"
  /\ rec' = [rec EXCEPT ![r] = [IdleRec EXCEPT !.todo = openRows,
                                  !.pc = IF openRows = {} THEN "expire" ELSE "outread"]]
  /\ UNCHANGED <<plan, past, outcome, nextKey, owner, order, worker, crashes>>

\* mutant: a failed read counts as no positions, as it does in StuckRead.
OutcomeReadOrEmpty(r) ==
  /\ rec[r].pc = "outread"
  /\ \E view \in PositionsOrEmpty : rec' = [rec EXCEPT ![r].view = view, ![r].pc = "outrows"]
  /\ UNCHANGED <<plan, past, outcome, nextKey, owner, order, worker, crashes>>

\* a failed call ends the pass; an empty answer is believed.
OutcomeRead(r) ==
  /\ rec[r].pc = "outread"
  /\ \/ \E view \in {OpenKeys} \cup (IF "blank" \in Faults THEN {{}} ELSE {}) :
          rec' = [rec EXCEPT ![r].view = view, ![r].pc = "outrows"]
     \/ /\ "read" \in Faults
        /\ rec' = [rec EXCEPT ![r] = [IdleRec EXCEPT !.pc = "expire"]]
  /\ UNCHANGED <<plan, past, outcome, nextKey, owner, order, worker, crashes>>

\* the closing deals of a position id; none when the history call fails.
ClosingDealFound(k) == {k # NoKey /\ order[k] = "closed"} \cup (IF "history" \in Faults THEN {FALSE} ELSE {})

\* A ticket among the live positions is left alone; without closing deals the
\* row is written off, and so is one whose ticket is no number or "0", which
\* no position and no closing deal has.
OutcomeCheck(r) ==
  /\ rec[r].pc = "outrows"
  /\ \E p \in rec[r].todo :
       \/ /\ outcome[p].ticket \in rec[r].view
          /\ rec' = [rec EXCEPT ![r].todo = @ \ {p},
                                ![r].pc = IF rec[r].todo = {p} THEN "expire" ELSE "outrows"]
       \/ /\ outcome[p].ticket \notin rec[r].view
          /\ \E found \in ClosingDealFound(outcome[p].ticket) :
               rec' = [rec EXCEPT ![r].todo = @ \ {p}, ![r].cur = p,
                                  ![r].pc = IF found THEN "close" ELSE "fail"]
  /\ UNCHANGED <<plan, past, outcome, nextKey, owner, order, worker, crashes>>

\* UPDATE trade_outcomes ... WHERE id=$1 AND closed_at IS NULL.
closeOutcome(row, state) == IF row.state = "open" THEN [row EXCEPT !.state = state] ELSE row

CloseOutcome(r) ==
  /\ rec[r].pc = "close"
  /\ outcome' = [outcome EXCEPT ![rec[r].cur] = closeOutcome(@, "closed")]
  /\ rec' = [rec EXCEPT ![r] = AfterOutcome(r)]
  /\ UNCHANGED <<plan, past, nextKey, owner, order, worker, crashes>>

\* markTradeOutcomeReconciliationFailed(): the outcome, then the plan.
FailOutcome(r) ==
  /\ rec[r].pc = "fail"
  /\ outcome' = [outcome EXCEPT ![rec[r].cur] = closeOutcome(@, "failed")]
  /\ rec' = [rec EXCEPT ![r].pc = "failplan"]
  /\ UNCHANGED <<plan, past, nextKey, owner, order, worker, crashes>>

FailPlan(r) ==
  /\ rec[r].pc = "failplan"
  /\ plan' = [plan EXCEPT ![rec[r].cur] = markReconciliationFailed(@)]
  /\ rec' = [rec EXCEPT ![r] = AfterOutcome(r)]
  /\ UNCHANGED <<past, outcome, nextKey, owner, order, worker, crashes>>

ExpireStalePlans(r) ==
  /\ rec[r].pc = "expire"
  /\ plan' = [p \in Plans |-> expireStalePlan(plan[p], past[p])]
  /\ rec' = [rec EXCEPT ![r] = IdleRec]
  /\ UNCHANGED <<past, outcome, nextKey, owner, order, worker, crashes>>

\* each of the tick's three parts is caught on its own; the tick goes on.
PassFails(r) ==
  /\ "db" \in Faults
  /\ rec[r].pc # "idle"
  /\ rec' = [rec EXCEPT ![r] =
               [IdleRec EXCEPT !.pc =
                  CASE rec[r].pc \in {"stuckread", "stuck", "adopt", "heal", "release"} -> "outcomes"
                    [] rec[r].pc \in {"outcomes", "outread", "outrows", "close", "fail", "failplan"} -> "expire"
                    [] rec[r].pc = "expire" -> "idle"]]
  /\ UNCHANGED <<plan, past, outcome, nextKey, owner, order, worker, crashes>>

-----------------------------------------------------------------------------
(* MT5, the clock and the process.                                         *)

Fill(k) ==
  /\ order[k] = "inflight"
  /\ order' = [order EXCEPT ![k] = "open"]
  /\ UNCHANGED <<plan, past, outcome, nextKey, owner, worker, rec, crashes>>

Refuse(k) ==
  /\ order[k] = "inflight"
  /\ order' = [order EXCEPT ![k] = "refused"]
  /\ UNCHANGED <<plan, past, outcome, nextKey, owner, worker, rec, crashes>>

\* SL, TP or an operator closes the position.
ClosePosition(k) ==
  /\ order[k] = "open"
  /\ "fastclose" \in Faults \/ (outcome[owner[k]].state # "none" /\ outcome[owner[k]].ticket \in {k, NoKey})
  /\ order' = [order EXCEPT ![k] = "closed"]
  /\ UNCHANGED <<plan, past, outcome, nextKey, owner, worker, rec, crashes>>

Deadline(p) ==
  /\ ~past[p]
  /\ past' = [past EXCEPT ![p] = TRUE]
  /\ UNCHANGED <<plan, outcome, nextKey, owner, order, worker, rec, crashes>>

\* executing_at is graceSeconds old.  Unless "slow", the execution (each call
\* to the gateway is aborted after 15 s) and its order are done by then.
GraceElapses(p) ==
  /\ Executing(p) /\ ~plan[p].aged
  /\ \/ "slow" \in Faults
     \/ /\ \A w \in Workers : worker[w].key # plan[p].key
        /\ plan[p].key \in Keys => order[plan[p].key] # "inflight"
  /\ plan' = [plan EXCEPT ![p].aged = TRUE]
  /\ UNCHANGED <<past, outcome, nextKey, owner, order, worker, rec, crashes>>

CooldownElapses(p) ==
  /\ outcome[p].recent
  /\ outcome' = [outcome EXCEPT ![p].recent = FALSE]
  /\ UNCHANGED <<plan, past, nextKey, owner, order, worker, rec, crashes>>

\* the Node process dies and starts again; the database and MT5 do not notice.
Crash ==
  /\ crashes < MaxCrashes
  /\ crashes' = crashes + 1
  /\ worker' = [w \in Workers |-> IdleWorker]
  /\ rec' = [r \in Recs |-> IdleRec]
  /\ UNCHANGED <<plan, past, outcome, nextKey, owner, order>>

-----------------------------------------------------------------------------
\* What the flow w does once it has a row or a claim.
Execution(w) ==
  \/ TickExpire(w) \/ FetchQuote(w) \/ RefreshRow(w) \/ ClaimFails(w)
  \/ PassExpiry(w) \/ ExpireClaimed(w) \/ GateRejects(w) \/ ReadPositions(w) \/ CheckLimits(w) \/ BlockClaimed(w)
  \/ SendOrder(w) \/ ConfirmedAnswer(w) \/ NoAnswer(w) \/ RecordExecution(w) \/ UnexpectedError(w)

Reconciliation(r) ==
  \/ StuckSelect(r) \/ StuckRead(r) \/ StuckLookup(r)
  \/ AdoptPosition(r) \/ HealPlan(r) \/ ReleasePlan(r)
  \/ OutcomeSelect(r) \/ OutcomeRead(r) \/ OutcomeCheck(r)
  \/ CloseOutcome(r) \/ FailOutcome(r) \/ FailPlan(r)
  \/ ExpireStalePlans(r) \/ PassFails(r)

Next ==
  \/ \E p \in Plans : \/ AnalyzePlan(p) \/ Deadline(p) \/ GraceElapses(p) \/ CooldownElapses(p)
                      \/ \E w \in Workers : ClaimPlan(w, p) \/ \E tick \in BOOLEAN : PickRow(w, p, tick)
  \/ \E w \in Workers : Execution(w)
  \/ \E r \in Recs : Reconciliation(r)
  \/ \E k \in Keys : Fill(k) \/ Refuse(k) \/ ClosePosition(k)
  \/ Crash

Spec == Init /\ [][Next]_vars

\* The event loop runs every flow it has started on to its end, setInterval
\* starts a pass every 15 s, MT5 answers an order, and time passes.  Nothing
\* obliges an owner to click, an analysis to run or a position to close.
Fairness ==
  /\ \A w \in Workers : WF_vars(Execution(w) \/ \E p \in Plans : worker[w].pc = "claim" /\ ClaimPlan(w, p))
  /\ \A r \in Recs : WF_vars(Reconciliation(r))
  /\ \A k \in Keys : WF_vars(Fill(k) \/ Refuse(k))
  /\ \A p \in Plans : WF_vars(GraceElapses(p))

FairSpec == Spec /\ Fairness

-----------------------------------------------------------------------------
(* What the pipeline promises whatever fails.                              *)

\* Every variable holds values of its kind.
TypeOK ==
  /\ plan    \in [Plans -> RowType]
  /\ past    \in [Plans -> BOOLEAN]
  /\ outcome \in [Plans -> OutcomeType]
  /\ nextKey \in 1 .. MaxClaims + 1
  /\ owner   \in [Keys -> Plans \cup {NoPlan}]
  /\ order   \in [Keys -> OrderState]
  /\ worker  \in [Workers -> WorkerType]
  /\ rec     \in [Recs -> RecType]
  /\ crashes \in 0 .. MaxCrashes

\* A plan shown as active can be claimed: no path back to WAITING, READY or
\* TRIGGERED leaves a stale execution_key behind (the ALREADY_PROCESSING bug
\* that persistEntryPlan() documents).
LockReleased == \A p \in Plans : plan[p].status \in Active => plan[p].key = NoKey

\* EXECUTED is never shown without a trade_outcomes row behind it, whichever
\* of the worker and the reconciliation wrote it and wherever one died.
ExecutedHasOutcome == \A p \in Plans : plan[p].status = "EXECUTED" => outcome[p].state # "none"

\* Every trade on record is a position MT5 opened, for that very plan (the
\* trade shown as open with no MT5 position that the comments recall), under
\* that position's ticket unless order_send answered without one.
RealTickets ==
  \A p \in Plans : outcome[p].state # "none" =>
    \E k \in Keys : /\ Filled(k) /\ owner[k] = p
                    /\ outcome[p].ticket = k \/ ("dealonly" \in Faults /\ outcome[p].ticket = NoKey)

\* No step of any flow, stale or not, takes a plan out of EXPIRED, or out of
\* EXECUTED to anything but RECONCILIATION_FAILED.
TerminalStays ==
  [][\A p \in Plans :
       /\ plan[p].status = "EXPIRED"  => plan'[p].status = "EXPIRED"
       /\ plan[p].status = "EXECUTED" => plan'[p].status \in {"EXECUTED", "RECONCILIATION_FAILED"}]_vars

\* A trade is written off as RECONCILIATION_FAILED for two reasons only (as long
\* as an answered position list is complete): its position closed and its deal
\* history could not be read, or order_send had answered with a deal and no
\* order.  For the second reason the pass also writes off a live position,
\* whatever it can read.
NoFalseFailure ==
  \A p \in Plans : outcome[p].state = "failed" =>
    \/ "dealonly" \in Faults /\ outcome[p].ticket = NoKey
    \/ "history" \in Faults /\ outcome[p].ticket \in Keys /\ order[outcome[p].ticket] = "closed"

-----------------------------------------------------------------------------
(* What it promises while MT5 and the database answer (Faults = {}) and    *)
(* passes do not overlap.                                                  *)

\* A plan never has two orders that MT5 accepted or still holds.
AtMostOneOrder ==
  \A j, k \in Keys : Reached(j) /\ Reached(k) /\ owner[j] = owner[k] => j = k

\* A live position is recorded under its ticket or its plan is still
\* EXECUTING under the key that opened it, so that a pass will find it.
PositionAccounted ==
  \A k \in OpenKeys : \/ outcome[owner[k]].ticket = k
                      \/ Executing(owner[k]) /\ plan[owner[k]].key = k

\* A claimed plan does not stay EXECUTING.
ExecutionResolves == \A p \in Plans : Executing(p) ~> ~Executing(p)

\* Every position MT5 opened ends up on record.
PositionRecorded == \A k \in Keys : order[k] = "open" ~> \E p \in Plans : outcome[p].ticket = k

\* A trade on record whose position has closed is closed on record too.
ClosedIsBooked ==
  \A p \in Plans : (\E k \in Keys : order[k] = "closed" /\ outcome[p].ticket = k)
                     ~> outcome[p].state = "closed"

-----------------------------------------------------------------------------
(* The abstract specification and the mapping to it.                       *)

PlacedOrders == [p \in Plans |-> Cardinality({k \in Keys : owner[k] = p /\ Reached(k)})]
Booked       == [p \in Plans |-> outcome[p].state]

Abstract == INSTANCE TradeOnce WITH orders <- PlacedOrders, book <- Booked

\* Every step of the engine places, loses, records or settles the one order
\* of a plan, or none of these.
TradesOnce == Abstract!Spec

\* No order at MT5 is lost sight of.
OrderResolved == Abstract!Resolved
=============================================================================
