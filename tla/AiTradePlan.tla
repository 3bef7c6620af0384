---------------------------- MODULE AiTradePlan ----------------------------
(***************************************************************************)
(* From an owner's approval of an AI trade plan to its real order at MT5   *)
(* and back: trading-ai-service.ts and ai-trade-plan-watcher.ts, with the  *)
(* answers of the demo gateway (mt5/adapter.py) and MT5 behind them.       *)
(*                                                                         *)
(*  - Flows are HTTP requests: approve, or cancel, one plan.               *)
(*  - bg[k] is the background confirmation of the pending order sent under *)
(*    claim k: a chain of timers of the Node process.                      *)
(*  - Passes are ticks of the watcher (setInterval, no overlap guard).     *)
(*                                                                         *)
(* The four write the same rows, one SQL statement at a time, and each     *)
(* acts on what it read some awaits ago.  An order carries its plan in its *)
(* comment (planComment), not the claim it was sent under.                 *)
(***************************************************************************)
EXTENDS AiTradePlanRow, FiniteSets

CONSTANTS
  Plans,         \* ai_trade_plans ids
  NoPlan,
  SymbolOf,      \* the plan's symbol
  Market,        \* the plans with entry_type MARKET_NOW; others place a pending order
  Flows,
  Passes,
  Attempts,      \* backgroundReconcileDelaysMs().length
  OneActive,     \* mt5_one_active_plan_per_symbol
  MaxClaims,     \* bound: approvals claimed in one behaviour
  MaxCrashes,    \* bound: restarts of the Node process
  Faults

FaultKinds ==
  {"read",       \* listing orders or positions fails
   "blank",      \* orders_get() or positions_get() returns None: answered as []
   "torn",       \* an order triggers between the reads of orders and positions
   "history",    \* order and deal history cannot be fetched
   "lost",       \* the gateway answers with an error although MT5 has the order
   "db",         \* a database statement fails
   "slow",       \* a request, a timer chain or an order outlives the grace period
   "alike",      \* where nothing carries the plan's comment, an order or a deal
                 \* of another plan has the fields that the gateway compares
   "dealonly",   \* a market order is answered with its deal and order = 0
   "reject",     \* MT5 keeps an order that it refused in its history
   "fastend"}    \* an order or a position ends before its plan shows it, or
                 \* while a tick takes the plan for stuck

ASSUME PlansAssumption  == NoPlan \notin Plans /\ Market \subseteq Plans
ASSUME SymbolAssumption == DOMAIN SymbolOf = Plans
ASSUME BoundsAssumption == MaxClaims \in Nat /\ MaxCrashes \in Nat /\ Attempts \in Nat \ {0}
ASSUME FaultsAssumption == Faults \subseteq FaultKinds /\ OneActive \in BOOLEAN

Keys == 1 .. MaxClaims

VARIABLES
  plan,      \* plan[p]: the row of ai_trade_plans
  past,      \* past[p]: plan_expiry <= now()
  outcome,   \* outcome[p]: the trade_outcomes row with ai_trade_plan_id p
  nextKey,   \* the next claim
  owner,     \* owner[k]: the plan claimed under k, named in its order's comment
  order,     \* order[k]: what MT5 did with the order sent under k
  flow, bg, pass,
  crashes

vars == <<plan, past, outcome, nextKey, owner, order, flow, bg, pass, crashes>>

-----------------------------------------------------------------------------
(* Records and views.                                                      *)

Tickets     == Keys \cup {NoTicket}
RowType     == [status: PlanStatus \cup {Absent}, locked: BOOLEAN, reason: Reasons,
                ticket: Tickets, aged: BOOLEAN]
\* "refused": MT5 has no order; "rejected": its history has one, REJECTED.
OrderState  == {"none", "inflight", "pending", "open", "closed", "cancelled", "refused", "rejected"}
NoOutcome   == [state |-> "none", ticket |-> NoTicket]
OutcomeType == [state: {"open", "closed", "failed"}, ticket: Tickets] \cup {NoOutcome}

\* What a flow found MT5 to have of a plan: a pending order, a position (or a
\* fill in the history), or nothing.
NoEvidence   == [kind |-> "none", key |-> NoTicket]
Evidence     == [kind: {"order", "position"}, key: Keys] \cup {NoEvidence}
found(s, k)  == [kind |-> s, key |-> k]

FlowPc   == {"idle", "lookup", "already", "adopt", "sweep", "settle", "reclaim",
             "claimed", "gates", "reads", "check", "await", "place", "record", "audit",
             "cancel", "cancelled"}
IdleFlow == [pc |-> "idle", plan |-> NoPlan, key |-> NoTicket, saw |-> "other", ev |-> NoEvidence]
FlowType == [pc: FlowPc, plan: Plans \cup {NoPlan}, key: Tickets,
             saw: {"PENDING_ORDER_SUBMITTING"} \cup Reasons, ev: Evidence]

BgOff  == [pc |-> "off", attempt |-> 0, ev |-> NoEvidence]
BgType == [pc: {"off", "tick", "read", "history", "write"}, attempt: 0 .. Attempts, ev: Evidence]

ViewType == [orders: SUBSET Keys, positions: SUBSET Keys]
NoView   == [orders |-> {}, positions |-> {}]
NoPick   == [plan |-> NoPlan, ticket |-> NoTicket]
PickType == [plan: Plans, ticket: Tickets]
PassPc   == {"idle", "stuck", "stuckread", "stuckrows",
             "placed", "placedread", "placedrows", "cancel", "cancelled", "sync"}
IdlePass == [pc |-> "idle", rows |-> {}, view |-> NoView, cur |-> NoPick]
PassType == [pc: PassPc, rows: SUBSET PickType, view: ViewType, cur: PickType \cup {NoPick}]

Holding(s)  == {k \in Keys : order[k] = s}
Mine(p, s)  == {k \in Holding(s) : owner[k] = p}
Filled(k)   == order[k] \in {"open", "closed"}
Live(k)     == order[k] \in {"pending", "open"}
Reached(k)  == order[k] \in {"inflight", "pending", "open", "closed"}

Submitting(p) == plan[p].status = "PENDING_ORDER_SUBMITTING"

\* a tick has read the plan as stuck and has yet to settle it.
TakenForStuck(p) ==
  \E r \in Passes : pass[r].pc \in {"stuckread", "stuckrows"} /\ \E row \in pass[r].rows : row.plan = p

Init ==
  /\ plan    = [p \in Plans |-> NoRow]
  /\ past    = [p \in Plans |-> FALSE]
  /\ outcome = [p \in Plans |-> NoOutcome]
  /\ nextKey = 1
  /\ owner   = [k \in Keys |-> NoPlan]
  /\ order   = [k \in Keys |-> "none"]
  /\ flow    = [f \in Flows |-> IdleFlow]
  /\ bg      = [k \in Keys |-> BgOff]
  /\ pass    = [r \in Passes |-> IdlePass]
  /\ crashes = 0

-----------------------------------------------------------------------------
(* Reading MT5.  orders_get() and positions_get() are two calls: a pending *)
(* order that triggers after the second list was taken and before the      *)
(* first is in neither.                                                    *)

CurrentView == [orders |-> Holding("pending"), positions |-> Holding("open")]

\* what the two reads show, with the state of MT5 when both have been made.
CleanReads == {[view |-> CurrentView, order |-> order]}
TornReads  == {[view  |-> [CurrentView EXCEPT !.orders = @ \ {k}],
                order |-> [order EXCEPT ![k] = "open"]] : k \in Holding("pending")}
EmptyReads == {[view |-> v, order |-> order] :
                 v \in {NoView, [CurrentView EXCEPT !.orders = {}], [CurrentView EXCEPT !.positions = {}]}}

AnsweredReads ==                         \* both calls were answered
  CleanReads \cup (IF "torn" \in Faults THEN TornReads ELSE {})
             \cup (IF "blank" \in Faults THEN EmptyReads ELSE {})

LiveReads ==                             \* .catch(() => [])
  AnsweredReads \cup (IF "read" \in Faults THEN EmptyReads ELSE {})

\* findMt5EvidenceForPlan(): by symbol and comment, a pending order first.
LiveEvidence(p, v) ==
  LET orders    == {k \in v.orders : owner[k] = p}
      positions == {k \in v.positions : owner[k] = p}
  IN IF orders # {} THEN {found("order", k) : k \in orders}
     ELSE IF positions # {} THEN {found("position", k) : k \in positions}
     ELSE {NoEvidence}

\* a FILLED order or an entry deal with the plan's comment in the history.
HistoryEvidence(p) ==
  LET fills == {k \in Keys : owner[k] = p /\ Filled(k)}
  IN (IF fills = {} \/ "history" \in Faults THEN {NoEvidence} ELSE {})
       \cup {found("position", k) : k \in fills}

rowOf(ev) == IF ev.kind = "order" THEN placed(ev.key) ELSE opened

-----------------------------------------------------------------------------
(* approveAndPlaceAiTradePlan(): the claim, or why it cannot be had.       *)

\* analyzeSymbolWithAI() saves a plan, which the risk engine may have refused.
SavePlan(p) ==
  /\ plan[p].status = Absent
  /\ \E s \in {"WAITING_FOR_APPROVAL", "RISK_BLOCKED"} : plan' = [plan EXCEPT ![p] = Unlocked(s)]
  /\ UNCHANGED <<past, outcome, nextKey, owner, order, flow, bg, pass, crashes>>

\* mutant of ClaimPlan: the claim does not ask for WAITING_FOR_APPROVAL.
ClaimSubmitting(f, p) ==
  /\ flow[f].pc = "idle" \/ (flow[f].pc = "reclaim" /\ flow[f].plan = p)
  /\ nextKey \in Keys
  /\ isApprovable(plan[p]) \/ Submitting(p)
  /\ plan' = [plan EXCEPT ![p] = claimPlanForApproval(@)]
  /\ owner' = [owner EXCEPT ![nextKey] = p]
  /\ nextKey' = nextKey + 1
  /\ flow' = [flow EXCEPT ![f] = [IdleFlow EXCEPT !.pc = "claimed", !.plan = p, !.key = nextKey]]
  /\ UNCHANGED <<past, outcome, order, bg, pass, crashes>>

ClaimPlan(f, p) ==
  /\ flow[f].pc = "idle" \/ (flow[f].pc = "reclaim" /\ flow[f].plan = p)
  /\ nextKey \in Keys
  /\ isApprovable(plan[p])
  /\ plan' = [plan EXCEPT ![p] = claimPlanForApproval(@)]
  /\ owner' = [owner EXCEPT ![nextKey] = p]
  /\ nextKey' = nextKey + 1
  /\ flow' = [flow EXCEPT ![f] = [IdleFlow EXCEPT !.pc = "claimed", !.plan = p, !.key = nextKey]]
  /\ UNCHANGED <<past, outcome, order, bg, pass, crashes>>

ClaimMisses(f, p) ==
  /\ flow[f].pc = "idle"
  /\ plan[p].status # Absent /\ ~isApprovable(plan[p])
  /\ flow' = [flow EXCEPT ![f] = [IdleFlow EXCEPT !.pc = "lookup", !.plan = p]]
  /\ UNCHANGED <<plan, past, outcome, nextKey, owner, order, bg, pass, crashes>>

\* the row as it is now decides between the two looks at MT5.
Lookup(f) ==
  LET row == plan[flow[f].plan]
      saw == CASE row.status = "PENDING_ORDER_SUBMITTING" -> row.status
               [] row.status = "EXECUTION_FAILED"         -> row.reason
               [] OTHER                                   -> "other"
  IN /\ flow[f].pc = "lookup"
     /\ flow' = [flow EXCEPT ![f].saw = saw,
                             ![f].pc  = CASE saw = "PENDING_ORDER_SUBMITTING" -> "already"
                                          [] saw \in {"none", "other"}        -> "reclaim"
                                          [] OTHER                            -> "sweep"]
     /\ UNCHANGED <<plan, past, outcome, nextKey, owner, order, bg, pass, crashes>>

\* checkAlreadyPlacedOnConflict(): the live lists.
AlreadyRead(f) ==
  /\ flow[f].pc = "already"
  /\ \E read \in LiveReads : \E ev \in LiveEvidence(flow[f].plan, read.view) :
       /\ order' = read.order
       /\ flow' = [flow EXCEPT ![f].ev = ev, ![f].pc = IF ev = NoEvidence THEN "reclaim" ELSE "adopt"]
  /\ UNCHANGED <<plan, past, outcome, nextKey, owner, bg, pass, crashes>>

AlreadyWrite(f) ==
  /\ flow[f].pc = "adopt"
  /\ plan' = [plan EXCEPT ![flow[f].plan] = whenSubmitting(@, rowOf(flow[f].ev))]
  /\ flow' = [flow EXCEPT ![f] = IdleFlow]
  /\ UNCHANGED <<past, outcome, nextKey, owner, order, bg, pass, crashes>>

\* reconcileInconclusiveExecution(): the live lists, then the histories.
SweepRead(f) ==
  /\ flow[f].pc = "sweep"
  /\ \E read \in LiveReads : \E live \in LiveEvidence(flow[f].plan, read.view) :
       /\ order' = read.order
       /\ \E ev \in IF live = NoEvidence THEN HistoryEvidence(flow[f].plan) ELSE {live} :
            flow' = [flow EXCEPT ![f].ev = ev, ![f].pc = "settle"]
  /\ UNCHANGED <<plan, past, outcome, nextKey, owner, bg, pass, crashes>>

\* Evidence is written by id alone; a release asks for EXECUTION_FAILED, and
\* is for a plan that was read as NOT_CONFIRMED, never for an AMBIGUOUS one.
SweepWrite(f) ==
  LET p == flow[f].plan  ev == flow[f].ev IN
  /\ flow[f].pc = "settle"
  /\ plan' = [plan EXCEPT ![p] = IF ev # NoEvidence THEN rowOf(ev)
                                 ELSE IF flow[f].saw = "PENDING_ORDER_NOT_CONFIRMED" THEN releaseFailed(@)
                                 ELSE @]
  /\ flow' = [flow EXCEPT ![f] = IF ev # NoEvidence THEN IdleFlow
                                 ELSE [IdleFlow EXCEPT !.pc = "reclaim", !.plan = p]]
  /\ UNCHANGED <<past, outcome, nextKey, owner, order, bg, pass, crashes>>

\* NOT_CLAIMABLE (or the bound on claims is spent).
ReclaimMisses(f) ==
  /\ flow[f].pc = "reclaim"
  /\ ~isApprovable(plan[flow[f].plan]) \/ nextKey \notin Keys
  /\ flow' = [flow EXCEPT ![f] = IdleFlow]
  /\ UNCHANGED <<plan, past, outcome, nextKey, owner, order, bg, pass, crashes>>

-----------------------------------------------------------------------------
(* The checks before order_send.                                           *)

PassExpiry(f) ==
  /\ flow[f].pc = "claimed" /\ ~past[flow[f].plan]
  /\ flow' = [flow EXCEPT ![f].pc = "gates"]
  /\ UNCHANGED <<plan, past, outcome, nextKey, owner, order, bg, pass, crashes>>

ExpireClaimed(f) ==
  /\ flow[f].pc = "claimed" /\ past[flow[f].plan]
  /\ plan' = [plan EXCEPT ![flow[f].plan] = Unlocked("PLAN_EXPIRED")]
  /\ flow' = [flow EXCEPT ![f] = IdleFlow]
  /\ UNCHANGED <<past, outcome, nextKey, owner, order, bg, pass, crashes>>

\* any check that refuses, of those modelled and of those on prices, the
\* account and the market; blockPlan() writes at once.
GateRejects(f) ==
  /\ flow[f].pc \in {"gates", "reads", "check"}
  /\ \E blocked \in {Unlocked("RISK_BLOCKED"), failed("other")} :
       plan' = [plan EXCEPT ![flow[f].plan] = blockPlan(@, blocked)]
  /\ flow' = [flow EXCEPT ![f] = IdleFlow]
  /\ UNCHANGED <<past, outcome, nextKey, owner, order, bg, pass, crashes>>

\* mutant of OneActivePlan: plans still being submitted are not counted.
OneActivePlanAtMt5(f) ==
  LET p == flow[f].plan IN
  /\ flow[f].pc = "gates"
  /\ OneActive => ~ \E q \in Plans \ {p} :
       SymbolOf[q] = SymbolOf[p] /\ plan[q].status \in ActivePlan \ {"PENDING_ORDER_SUBMITTING"}
  /\ flow' = [flow EXCEPT ![f].pc = "reads"]
  /\ UNCHANGED <<plan, past, outcome, nextKey, owner, order, bg, pass, crashes>>

OneActivePlan(f) ==
  LET p == flow[f].plan IN
  /\ flow[f].pc = "gates"
  /\ OneActive => ~ \E q \in Plans \ {p} :
       SymbolOf[q] = SymbolOf[p] /\ plan[q].status \in ActivePlan
  /\ flow' = [flow EXCEPT ![f].pc = "reads"]
  /\ UNCHANGED <<plan, past, outcome, nextKey, owner, order, bg, pass, crashes>>

\* neither POSITION_EXISTS nor PENDING_ORDER for the symbol.
ReadSymbol(f) ==
  /\ flow[f].pc = "reads"
  /\ \E read \in LiveReads :
       /\ \A k \in read.view.orders \cup read.view.positions :
            SymbolOf[owner[k]] # SymbolOf[flow[f].plan]
       /\ order' = read.order
  /\ flow' = [flow EXCEPT ![f].pc = "check"]
  /\ UNCHANGED <<plan, past, outcome, nextKey, owner, bg, pass, crashes>>

SendOrder(f) ==
  /\ flow[f].pc = "check"
  /\ order' = [order EXCEPT ![flow[f].key] = "inflight"]
  /\ flow' = [flow EXCEPT ![f].pc = "await"]
  /\ UNCHANGED <<plan, past, outcome, nextKey, owner, bg, pass, crashes>>

-----------------------------------------------------------------------------
(* The gateway's answer.  A market order is answered once its position is  *)
(* seen.  For a pending order the gateway searches four lists: the live    *)
(* orders and positions, then the orders and the deals of the history.     *)

\* _match_orders_by_fields() and its kin: what carries the plan's comment, and
\* if nothing in the list does, whatever agrees with the request in its fields.
Matches(p, list) ==
  LET own == {k \in list : owner[k] = p} IN
  IF own # {} \/ "alike" \notin Faults THEN {own}
  ELSE SUBSET {k \in list : SymbolOf[owner[k]] = SymbolOf[p]}

InHistory == {k \in Keys : order[k] \in {"open", "closed", "cancelled", "rejected"}}

Candidates(p) ==
  {[orders |-> o, positions |-> q, history |-> h, deals |-> d] :
     o \in Matches(p, Holding("pending")), q \in Matches(p, Holding("open")),
     h \in Matches(p, InHistory), d \in Matches(p, {k \in Keys : Filled(k)})}

MarketFilled(f) ==
  LET p == flow[f].plan  k == flow[f].key IN
  /\ flow[f].pc = "await" /\ p \in Market
  /\ Filled(k) /\ (order[k] = "open" \/ Mine(p, "open") # {})
  /\ flow' = [flow EXCEPT ![f].pc = "record", ![f].ev = found("position", k)]
  /\ UNCHANGED <<plan, past, outcome, nextKey, owner, order, bg, pass, crashes>>

AwaitsPending(f) == flow[f].pc = "await" /\ flow[f].plan \notin Market

\* mutant of PendingAnswer: the ticket of order_send is not looked up.
PendingAnswerUnconfirmed(f) ==
  /\ AwaitsPending(f)
  /\ flow' = [flow EXCEPT ![f].pc = "place", ![f].ev = found("order", flow[f].key)]
  /\ UNCHANGED <<plan, past, outcome, nextKey, owner, order, bg, pass, crashes>>

\* execution_state PENDING: by its ticket, or as the only candidate.
PendingAnswer(f) ==
  /\ AwaitsPending(f)
  /\ \E k \in Holding("pending") :
       /\ \/ k = flow[f].key
          \/ \E c \in Candidates(flow[f].plan) : c.orders = {k} /\ c.positions = {}
       /\ flow' = [flow EXCEPT ![f].pc = "place", ![f].ev = found("order", k)]
  /\ UNCHANGED <<plan, past, outcome, nextKey, owner, order, bg, pass, crashes>>

\* TRIGGERED_POSITION, or FILLED_HISTORY by the order or by its entry deal.
FilledAnswer(f) ==
  /\ AwaitsPending(f)
  /\ \E k \in Keys, c \in Candidates(flow[f].plan) :
       /\ c.orders = {}
       /\ \/ c.positions = {k}
          \/ c.positions = {} /\ c.history = {k} /\ Filled(k)
          \/ c.positions \cup c.history = {} /\ c.deals = {k}
       /\ flow' = [flow EXCEPT ![f].pc = "record", ![f].ev = found("position", k)]
  /\ UNCHANGED <<plan, past, outcome, nextKey, owner, order, bg, pass, crashes>>

\* PENDING_ORDER_CANCELLED: the one order that the history has of the plan was
\* cancelled, rejected or expired.  It may be that of an earlier attempt.
CancelledAnswer(f) ==
  /\ AwaitsPending(f)
  /\ \E k \in Keys, c \in Candidates(flow[f].plan) :
       c.orders \cup c.positions = {} /\ c.history = {k} /\ ~Filled(k)
  /\ plan' = [plan EXCEPT ![flow[f].plan] = blockPlan(@, Unlocked("ORDER_CANCELLED"))]
  /\ flow' = [flow EXCEPT ![f] = IdleFlow]
  /\ UNCHANGED <<past, outcome, nextKey, owner, order, bg, pass, crashes>>

\* PENDING_ORDER_CONFIRMATION_AMBIGUOUS: two candidates, or one that was
\* listed as an order and, having triggered meanwhile, as a position too.
AmbiguousAnswer(f) ==
  LET p == flow[f].plan
      Several(S) == Cardinality(S) > 1
  IN
  /\ AwaitsPending(f)
  /\ \/ \E c \in Candidates(p) :
          \/ Several(c.orders) \/ Several(c.positions) \/ (c.orders # {} /\ c.positions # {})
          \/ /\ c.orders \cup c.positions = {}
             /\ Several(c.history) \/ (c.history = {} /\ Several(c.deals))
     \/ "torn" \in Faults /\ Mine(p, "open") # {}
  /\ plan' = [plan EXCEPT ![p] = blockPlan(@, failed("PENDING_ORDER_CONFIRMATION_AMBIGUOUS"))]
  /\ flow' = [flow EXCEPT ![f] = IdleFlow]
  /\ UNCHANGED <<past, outcome, nextKey, owner, order, bg, pass, crashes>>

\* PENDING_ORDER_NOT_CONFIRMED: nothing to see yet; timers take over.
NotConfirmedAnswer(f) ==
  /\ AwaitsPending(f)
  /\ \E c \in Candidates(flow[f].plan) : c.orders \cup c.positions \cup c.history \cup c.deals = {}
  /\ bg' = [bg EXCEPT ![flow[f].key] = [BgOff EXCEPT !.pc = "tick", !.attempt = 1]]
  /\ flow' = [flow EXCEPT ![f] = IdleFlow]
  /\ UNCHANGED <<plan, past, outcome, nextKey, owner, order, pass, crashes>>

\* any other answer with an HTTP status settles a pending order's plan.
RejectedAnswer(f) ==
  /\ AwaitsPending(f)
  /\ order[flow[f].key] \in {"refused", "rejected"} \/ "lost" \in Faults
  /\ plan' = [plan EXCEPT ![flow[f].plan] = blockPlan(@, failed("other"))]
  /\ flow' = [flow EXCEPT ![f] = IdleFlow]
  /\ UNCHANGED <<past, outcome, nextKey, owner, order, bg, pass, crashes>>

\* EXECUTION_UNCONFIRMED: no answer, or any error for a market order.  The
\* plan is left PENDING_ORDER_SUBMITTING.
NoAnswer(f) ==
  /\ flow[f].pc = "await"
  /\ flow' = [flow EXCEPT ![f] = IdleFlow]
  /\ UNCHANGED <<plan, past, outcome, nextKey, owner, order, bg, pass, crashes>>

\* INSERT INTO trade_outcomes ... ON CONFLICT (ai_trade_plan_id) DO NOTHING.
insertOutcome(row, k) == IF row.state = "none" THEN [state |-> "open", ticket |-> k] ELSE row

\* by id alone, whatever the plan has become.
RecordPlaced(f) ==
  /\ flow[f].pc = "place"
  /\ plan' = [plan EXCEPT ![flow[f].plan] = placed(flow[f].ev.key)]
  /\ flow' = [flow EXCEPT ![f].pc = "audit"]
  /\ UNCHANGED <<past, outcome, nextKey, owner, order, bg, pass, crashes>>

\* the order_ticket of the record: '0', or none, without an order in the answer.
AnsweredTickets(p, k) ==
  {k} \cup (IF "dealonly" \in Faults /\ p \in Market THEN {NoTicket} ELSE {})

\* one transaction.
RecordOpened(f) ==
  /\ flow[f].pc = "record"
  /\ \E t \in AnsweredTickets(flow[f].plan, flow[f].ev.key) :
       outcome' = [outcome EXCEPT ![flow[f].plan] = insertOutcome(@, t)]
  /\ plan' = [plan EXCEPT ![flow[f].plan] = opened]
  /\ flow' = [flow EXCEPT ![f].pc = "audit"]
  /\ UNCHANGED <<past, nextKey, owner, order, bg, pass, crashes>>

\* createAuditLog(), and the request is answered.
AuditPlacement(f) ==
  /\ flow[f].pc = "audit"
  /\ flow' = [flow EXCEPT ![f] = IdleFlow]
  /\ UNCHANGED <<plan, past, outcome, nextKey, owner, order, bg, pass, crashes>>

\* a statement throws.  Once the plan is claimed the catch marks it
\* EXECUTION_FAILED by id alone, unless that fails as well.
UnexpectedError(f) ==
  /\ "db" \in Faults
  /\ flow[f].pc \notin {"idle", "cancel"}
  /\ \/ /\ flow[f].key # NoTicket
        /\ plan' = [plan EXCEPT ![flow[f].plan] = failed("other")]
     \/ UNCHANGED plan
  /\ flow' = [flow EXCEPT ![f] = IdleFlow]
  /\ UNCHANGED <<past, outcome, nextKey, owner, order, bg, pass, crashes>>

-----------------------------------------------------------------------------
(* cancelAiTradePlanOrder().  A cancellation succeeds at MT5 only for an   *)
(* order still pending, and its answer may be lost.                        *)

CancelStart(f, p) ==
  /\ flow[f].pc = "idle"
  /\ plan[p].status = "PENDING_ORDER_PLACED"
  /\ flow' = [flow EXCEPT ![f] = [IdleFlow EXCEPT !.pc = "cancel", !.plan = p,
                                                  !.ev = found("order", plan[p].ticket)]]
  /\ UNCHANGED <<plan, past, outcome, nextKey, owner, order, bg, pass, crashes>>

CancelAtMt5(f) ==
  LET k == flow[f].ev.key IN
  /\ flow[f].pc = "cancel" /\ order[k] = "pending"
  /\ "fastend" \in Faults \/ ~TakenForStuck(flow[f].plan)
  /\ order' = [order EXCEPT ![k] = "cancelled"]
  /\ \/ flow' = [flow EXCEPT ![f].pc = "cancelled"]
     \/ flow' = [flow EXCEPT ![f] = IdleFlow]
  /\ UNCHANGED <<plan, past, outcome, nextKey, owner, bg, pass, crashes>>

CancelFails(f) ==
  /\ flow[f].pc = "cancel"
  /\ flow' = [flow EXCEPT ![f] = IdleFlow]
  /\ UNCHANGED <<plan, past, outcome, nextKey, owner, order, bg, pass, crashes>>

CancelWrite(f) ==
  /\ flow[f].pc = "cancelled"
  /\ plan' = [plan EXCEPT ![flow[f].plan] = whenPlaced(@, Unlocked("ORDER_CANCELLED"))]
  /\ flow' = [flow EXCEPT ![f] = IdleFlow]
  /\ UNCHANGED <<past, outcome, nextKey, owner, order, bg, pass, crashes>>

-----------------------------------------------------------------------------
(* scheduleBackgroundPendingOrderReconciliation().                         *)

BgTick(k) ==
  /\ bg[k].pc = "tick"
  /\ bg' = [bg EXCEPT ![k] = IF Submitting(owner[k]) THEN [@ EXCEPT !.pc = "read"] ELSE BgOff]
  /\ UNCHANGED <<plan, past, outcome, nextKey, owner, order, flow, pass, crashes>>

\* mutant of BgRead: one timer too many.
BgReadOneMore(k) ==
  /\ bg[k].pc = "read"
  /\ \E read \in LiveReads : \E ev \in LiveEvidence(owner[k], read.view) :
       /\ order' = read.order
       /\ bg' = [bg EXCEPT ![k] =
                   CASE ev # NoEvidence         -> [@ EXCEPT !.pc = "write", !.ev = ev]
                     [] ev = NoEvidence /\ bg[k].attempt <= Attempts
                                                -> [@ EXCEPT !.pc = "tick", !.attempt = bg[k].attempt + 1]
                     [] OTHER                   -> [@ EXCEPT !.pc = "history"]]
  /\ UNCHANGED <<plan, past, outcome, nextKey, owner, flow, pass, crashes>>

\* evidence is written; else the next timer, or after the last one the history.
\* By the last one, unless "slow", MT5 has decided on the order.
BgRead(k) ==
  /\ bg[k].pc = "read"
  /\ bg[k].attempt = Attempts => order[k] # "inflight" \/ "slow" \in Faults
  /\ \E read \in LiveReads : \E ev \in LiveEvidence(owner[k], read.view) :
       /\ order' = read.order
       /\ bg' = [bg EXCEPT ![k] =
                   CASE ev # NoEvidence         -> [@ EXCEPT !.pc = "write", !.ev = ev]
                     [] ev = NoEvidence /\ bg[k].attempt < Attempts
                                                -> [@ EXCEPT !.pc = "tick", !.attempt = bg[k].attempt + 1]
                     [] OTHER                   -> [@ EXCEPT !.pc = "history"]]
  /\ UNCHANGED <<plan, past, outcome, nextKey, owner, flow, pass, crashes>>

BgHistory(k) ==
  /\ bg[k].pc = "history"
  /\ \E ev \in HistoryEvidence(owner[k]) : bg' = [bg EXCEPT ![k].pc = "write", ![k].ev = ev]
  /\ UNCHANGED <<plan, past, outcome, nextKey, owner, order, flow, pass, crashes>>

BgWrite(k) ==
  LET ev == bg[k].ev IN
  /\ bg[k].pc = "write"
  /\ plan' = [plan EXCEPT ![owner[k]] =
                whenSubmitting(@, IF ev # NoEvidence THEN rowOf(ev)
                                  ELSE failed("PENDING_ORDER_NOT_CONFIRMED"))]
  /\ bg' = [bg EXCEPT ![k] = BgOff]
  /\ UNCHANGED <<past, outcome, nextKey, owner, order, flow, pass, crashes>>

\* a statement throws: logged, and no further timer is set.
BgFails(k) ==
  /\ "db" \in Faults /\ bg[k].pc # "off"
  /\ bg' = [bg EXCEPT ![k] = BgOff]
  /\ UNCHANGED <<plan, past, outcome, nextKey, owner, order, flow, pass, crashes>>

-----------------------------------------------------------------------------
(* The watcher: runAiTradePlanWatcherTick().                               *)

\* the pass when it is done with a row, whose last one ends the part.
Done(r, row, next) ==
  [pass[r] EXCEPT !.rows = @ \ {row}, !.cur = NoPick,
                  !.pc   = IF pass[r].rows \ {row} = {} THEN next[2] ELSE next[1]]
StuckLoop  == <<"stuckrows", "placed">>
PlacedLoop == <<"placedrows", "sync">>

ExpireUnapprovedPlans(r) ==
  /\ pass[r].pc = "idle"
  /\ plan' = [p \in Plans |-> expireUnapproved(plan[p], past[p])]
  /\ pass' = [pass EXCEPT ![r].pc = "stuck"]
  /\ UNCHANGED <<past, outcome, nextKey, owner, order, flow, bg, crashes>>

\* reconcileStuckSubmissions().
SelectStuck(r) ==
  LET rows == {[plan |-> p, ticket |-> NoTicket] : p \in {q \in Plans : Submitting(q) /\ plan[q].aged}} IN
  /\ pass[r].pc = "stuck"
  /\ pass' = [pass EXCEPT ![r] = [IdlePass EXCEPT !.rows = rows,
                                    !.pc = IF rows = {} THEN "placed" ELSE "stuckread"]]
  /\ UNCHANGED <<plan, past, outcome, nextKey, owner, order, flow, bg, crashes>>

StuckRead(r) ==
  /\ pass[r].pc = "stuckread"
  /\ \E read \in LiveReads :
       /\ order' = read.order
       /\ pass' = [pass EXCEPT ![r].view = read.view, ![r].pc = "stuckrows"]
  /\ UNCHANGED <<plan, past, outcome, nextKey, owner, flow, bg, crashes>>

\* mutant of StuckRow: without evidence the plan is left to a later pass.
StuckRowKeep(r) ==
  /\ pass[r].pc = "stuckrows"
  /\ \E row \in pass[r].rows : \E ev \in LiveEvidence(row.plan, pass[r].view) :
       /\ plan' = [plan EXCEPT ![row.plan] = IF ev = NoEvidence THEN @ ELSE rowOf(ev)]
       /\ pass' = [pass EXCEPT ![r] = Done(r, row, StuckLoop)]
  /\ UNCHANGED <<past, outcome, nextKey, owner, order, flow, bg, crashes>>

\* by id alone; a position adopted here gets no trade_outcomes row.
StuckRow(r) ==
  /\ pass[r].pc = "stuckrows"
  /\ \E row \in pass[r].rows : \E ev \in LiveEvidence(row.plan, pass[r].view) :
       /\ plan' = [plan EXCEPT ![row.plan] = IF ev = NoEvidence THEN released ELSE rowOf(ev)]
       /\ pass' = [pass EXCEPT ![r] = Done(r, row, StuckLoop)]
  /\ UNCHANGED <<past, outcome, nextKey, owner, order, flow, bg, crashes>>

\* reconcilePendingOrders().
SelectPlaced(r) ==
  LET rows == {[plan |-> p, ticket |-> plan[p].ticket] :
                 p \in {q \in Plans : plan[q].status = "PENDING_ORDER_PLACED"}} IN
  /\ pass[r].pc = "placed"
  /\ pass' = [pass EXCEPT ![r] = [IdlePass EXCEPT !.rows = rows,
                                    !.pc = IF rows = {} THEN "sync" ELSE "placedread"]]
  /\ UNCHANGED <<plan, past, outcome, nextKey, owner, order, flow, bg, crashes>>

\* "never guess": a failed call ends this part.
PlacedRead(r) ==
  /\ pass[r].pc = "placedread"
  /\ \/ \E read \in AnsweredReads :
          /\ order' = read.order
          /\ pass' = [pass EXCEPT ![r].view = read.view, ![r].pc = "placedrows"]
     \/ /\ "read" \in Faults
        /\ pass' = [pass EXCEPT ![r] = [IdlePass EXCEPT !.pc = "sync"]]
        /\ UNCHANGED order
  /\ UNCHANGED <<plan, past, outcome, nextKey, owner, flow, bg, crashes>>

StillPending(r) ==
  /\ pass[r].pc = "placedrows"
  /\ \E row \in pass[r].rows :
       /\ row.ticket \in pass[r].view.orders /\ ~past[row.plan]
       /\ pass' = [pass EXCEPT ![r] = Done(r, row, PlacedLoop)]
  /\ UNCHANGED <<plan, past, outcome, nextKey, owner, order, flow, bg, crashes>>

PickExpired(r) ==
  /\ pass[r].pc = "placedrows"
  /\ \E row \in pass[r].rows :
       /\ row.ticket \in pass[r].view.orders /\ past[row.plan]
       /\ pass' = [pass EXCEPT ![r].cur = row, ![r].pc = "cancel"]
  /\ UNCHANGED <<plan, past, outcome, nextKey, owner, order, flow, bg, crashes>>

CancelExpired(r) ==
  LET k == pass[r].cur.ticket IN
  /\ pass[r].pc = "cancel" /\ order[k] = "pending"
  /\ order' = [order EXCEPT ![k] = "cancelled"]
  /\ \/ pass' = [pass EXCEPT ![r].pc = "cancelled"]
     \/ pass' = [pass EXCEPT ![r] = Done(r, pass[r].cur, PlacedLoop)]
  /\ UNCHANGED <<plan, past, outcome, nextKey, owner, flow, bg, crashes>>

\* mutant of CancelExpiredFails: the plan is expired although the order stays.
ExpireUncancelled(r) ==
  /\ pass[r].pc = "cancel"
  /\ pass' = [pass EXCEPT ![r].pc = "cancelled"]
  /\ UNCHANGED <<plan, past, outcome, nextKey, owner, order, flow, bg, crashes>>

CancelExpiredFails(r) ==
  /\ pass[r].pc = "cancel"
  /\ pass' = [pass EXCEPT ![r] = Done(r, pass[r].cur, PlacedLoop)]
  /\ UNCHANGED <<plan, past, outcome, nextKey, owner, order, flow, bg, crashes>>

ExpirePlaced(r) ==
  /\ pass[r].pc = "cancelled"
  /\ plan' = [plan EXCEPT ![pass[r].cur.plan] = whenPlaced(@, Unlocked("PLAN_EXPIRED"))]
  /\ pass' = [pass EXCEPT ![r] = Done(r, pass[r].cur, PlacedLoop)]
  /\ UNCHANGED <<past, outcome, nextKey, owner, order, flow, bg, crashes>>

\* mutant of Triggered: the trade is recorded, the plan is left as placed.
TriggeredOutcomeOnly(r) ==
  /\ pass[r].pc = "placedrows"
  /\ \E row \in pass[r].rows : \E k \in pass[r].view.positions :
       /\ row.ticket \notin pass[r].view.orders /\ owner[k] = row.plan
       /\ outcome' = [outcome EXCEPT ![row.plan] = insertOutcome(@, k)]
       /\ pass' = [pass EXCEPT ![r] = Done(r, row, PlacedLoop)]
  /\ UNCHANGED <<plan, past, nextKey, owner, order, flow, bg, crashes>>

\* one transaction, for the position that carries the plan's comment.
Triggered(r) ==
  /\ pass[r].pc = "placedrows"
  /\ \E row \in pass[r].rows : \E k \in pass[r].view.positions :
       /\ row.ticket \notin pass[r].view.orders /\ owner[k] = row.plan
       /\ outcome' = [outcome EXCEPT ![row.plan] = insertOutcome(@, k)]
       /\ plan' = [plan EXCEPT ![row.plan] = whenPlaced(@, opened)]
       /\ pass' = [pass EXCEPT ![r] = Done(r, row, PlacedLoop)]
  /\ UNCHANGED <<past, nextKey, owner, order, flow, bg, crashes>>

\* neither: taken to be cancelled or rejected by the broker.
NoLongerPending(r) ==
  /\ pass[r].pc = "placedrows"
  /\ \E row \in pass[r].rows :
       /\ row.ticket \notin pass[r].view.orders
       /\ \A k \in pass[r].view.positions : owner[k] # row.plan
       /\ plan' = [plan EXCEPT ![row.plan] = whenPlaced(@, Unlocked("ORDER_CANCELLED"))]
       /\ pass' = [pass EXCEPT ![r] = Done(r, row, PlacedLoop)]
  /\ UNCHANGED <<past, outcome, nextKey, owner, order, flow, bg, crashes>>

SyncClosedPlans(r) ==
  /\ pass[r].pc = "sync"
  /\ plan' = [p \in Plans |-> syncClosed(plan[p], outcome[p].state)]
  /\ pass' = [pass EXCEPT ![r] = IdlePass]
  /\ UNCHANGED <<past, outcome, nextKey, owner, order, flow, bg, crashes>>

\* each part is caught on its own, and an expired row's cancellation too.
PassFails(r) ==
  /\ "db" \in Faults
  /\ pass' = [pass EXCEPT ![r] =
                CASE pass[r].pc = "cancelled"                           -> Done(r, pass[r].cur, PlacedLoop)
                  [] pass[r].pc = "idle"                                -> [IdlePass EXCEPT !.pc = "stuck"]
                  [] pass[r].pc \in {"stuck", "stuckread", "stuckrows"} -> [IdlePass EXCEPT !.pc = "placed"]
                  [] pass[r].pc = "sync"                                -> IdlePass
                  [] OTHER                                              -> [IdlePass EXCEPT !.pc = "sync"]]
  /\ UNCHANGED <<plan, past, outcome, nextKey, owner, order, flow, bg, crashes>>

-----------------------------------------------------------------------------
(* The rest of the world.                                                  *)

\* mutant of ReconcileOutcome: the closing deal is never found.
ReconcileWithoutDeals(p) ==
  /\ outcome[p].state = "open"
  /\ order[outcome[p].ticket] # "open"
  /\ outcome' = [outcome EXCEPT ![p].state = "failed"]
  /\ UNCHANGED <<plan, past, nextKey, owner, order, flow, bg, pass, crashes>>

\* reconcileOpenTradeOutcomes() of the entry-plan watcher runs over these
\* rows too: a ticket no longer listed is looked up in the deal history.  One
\* step, since a position that closed stays closed.
ReconcileOutcome(p) ==
  LET k == outcome[p].ticket IN
  /\ outcome[p].state = "open"
  /\ k = NoTicket \/ order[k] # "open" \/ "blank" \in Faults
  /\ \/ k # NoTicket /\ order[k] = "closed" /\ outcome' = [outcome EXCEPT ![p].state = "closed"]
     \/ /\ k = NoTicket \/ order[k] # "closed" \/ "history" \in Faults
        /\ outcome' = [outcome EXCEPT ![p].state = "failed"]
  /\ UNCHANGED <<plan, past, nextKey, owner, order, flow, bg, pass, crashes>>

\* MT5 decides on an order: a pending order may trigger at once.
Accept(k) ==
  /\ order[k] = "inflight"
  /\ \/ order' = [order EXCEPT ![k] = "open"]
     \/ owner[k] \notin Market /\ order' = [order EXCEPT ![k] = "pending"]
  /\ UNCHANGED <<plan, past, outcome, nextKey, owner, flow, bg, pass, crashes>>

Refuse(k) ==
  /\ order[k] = "inflight"
  /\ \/ order' = [order EXCEPT ![k] = "refused"]
     \/ "reject" \in Faults /\ order' = [order EXCEPT ![k] = "rejected"]
  /\ UNCHANGED <<plan, past, outcome, nextKey, owner, flow, bg, pass, crashes>>

Trigger(k) ==
  /\ order[k] = "pending"
  /\ order' = [order EXCEPT ![k] = "open"]
  /\ UNCHANGED <<plan, past, outcome, nextKey, owner, flow, bg, pass, crashes>>

mayEnd(k, shown) ==
  "fastend" \in Faults \/ (plan[owner[k]].status = shown /\ ~TakenForStuck(owner[k]))

\* the broker, an operator or the order's own expiration.
BrokerCancel(k) ==
  /\ order[k] = "pending"
  /\ mayEnd(k, "PENDING_ORDER_PLACED")
  /\ order' = [order EXCEPT ![k] = "cancelled"]
  /\ UNCHANGED <<plan, past, outcome, nextKey, owner, flow, bg, pass, crashes>>

ClosePosition(k) ==
  /\ order[k] = "open"
  /\ mayEnd(k, "POSITION_OPEN")
  /\ order' = [order EXCEPT ![k] = "closed"]
  /\ UNCHANGED <<plan, past, outcome, nextKey, owner, flow, bg, pass, crashes>>

Deadline(p) ==
  /\ ~past[p]
  /\ past' = [past EXCEPT ![p] = TRUE]
  /\ UNCHANGED <<plan, outcome, nextKey, owner, order, flow, bg, pass, crashes>>

\* submitting_at is graceSeconds old.  Unless "slow", the request, its timers
\* and its order are done by then.
GraceElapses(p) ==
  /\ Submitting(p) /\ ~plan[p].aged
  /\ \/ "slow" \in Faults
     \/ /\ \A f \in Flows : flow[f].plan = p => flow[f].key = NoTicket
        /\ \A k \in Keys : owner[k] = p => bg[k].pc = "off" /\ order[k] # "inflight"
  /\ plan' = [plan EXCEPT ![p].aged = TRUE]
  /\ UNCHANGED <<past, outcome, nextKey, owner, order, flow, bg, pass, crashes>>

Crash ==
  /\ crashes < MaxCrashes
  /\ crashes' = crashes + 1
  /\ flow' = [f \in Flows |-> IdleFlow]
  /\ bg' = [k \in Keys |-> BgOff]
  /\ pass' = [r \in Passes |-> IdlePass]
  /\ UNCHANGED <<plan, past, outcome, nextKey, owner, order>>

-----------------------------------------------------------------------------
\* What a request does once it has begun.
Request(f) ==
  \/ Lookup(f) \/ AlreadyRead(f) \/ AlreadyWrite(f) \/ SweepRead(f) \/ SweepWrite(f) \/ ReclaimMisses(f)
  \/ PassExpiry(f) \/ ExpireClaimed(f) \/ GateRejects(f) \/ OneActivePlan(f) \/ ReadSymbol(f) \/ SendOrder(f)
  \/ MarketFilled(f) \/ PendingAnswer(f) \/ FilledAnswer(f) \/ CancelledAnswer(f) \/ AmbiguousAnswer(f)
  \/ NotConfirmedAnswer(f) \/ RejectedAnswer(f) \/ NoAnswer(f)
  \/ RecordPlaced(f) \/ RecordOpened(f) \/ AuditPlacement(f) \/ UnexpectedError(f)
  \/ CancelAtMt5(f) \/ CancelFails(f) \/ CancelWrite(f)

Background(k) == BgTick(k) \/ BgRead(k) \/ BgHistory(k) \/ BgWrite(k) \/ BgFails(k)

Tick(r) ==
  \/ ExpireUnapprovedPlans(r)
  \/ SelectStuck(r) \/ StuckRead(r) \/ StuckRow(r)
  \/ SelectPlaced(r) \/ PlacedRead(r) \/ StillPending(r) \/ Triggered(r) \/ NoLongerPending(r)
  \/ PickExpired(r) \/ CancelExpired(r) \/ CancelExpiredFails(r) \/ ExpirePlaced(r)
  \/ SyncClosedPlans(r) \/ PassFails(r)

Next ==
  \/ \E p \in Plans : \/ SavePlan(p) \/ Deadline(p) \/ GraceElapses(p) \/ ReconcileOutcome(p)
                      \/ \E f \in Flows : ClaimPlan(f, p) \/ ClaimMisses(f, p) \/ CancelStart(f, p)
  \/ \E f \in Flows : Request(f)
  \/ \E k \in Keys : Background(k)
  \/ \E r \in Passes : Tick(r)
  \/ \E k \in Keys : Accept(k) \/ Refuse(k) \/ Trigger(k) \/ BrokerCancel(k) \/ ClosePosition(k)
  \/ Crash

Spec == Init /\ [][Next]_vars

\* The event loop runs what it has started, setInterval starts ticks of both
\* watchers for ever, MT5 decides on an order, and time passes.  Nothing
\* obliges the owner, the market or the broker.
Fairness ==
  /\ \A f \in Flows : WF_vars(Request(f) \/ \E p \in Plans : flow[f].pc = "reclaim" /\ ClaimPlan(f, p))
  /\ \A k \in Keys : WF_vars(Background(k)) /\ WF_vars(Accept(k) \/ Refuse(k))
  /\ \A r \in Passes : WF_vars(Tick(r))
  /\ \A p \in Plans : WF_vars(GraceElapses(p)) /\ WF_vars(ReconcileOutcome(p))

FairSpec == Spec /\ Fairness

-----------------------------------------------------------------------------
(* What holds whatever fails.                                              *)

\* Every variable holds values of its kind.
TypeOK ==
  /\ plan    \in [Plans -> RowType]
  /\ past    \in [Plans -> BOOLEAN]
  /\ outcome \in [Plans -> OutcomeType]
  /\ nextKey \in 1 .. MaxClaims + 1
  /\ owner   \in [Keys -> Plans \cup {NoPlan}]
  /\ order   \in [Keys -> OrderState]
  /\ flow    \in [Flows -> FlowType]
  /\ bg      \in [Keys -> BgType]
  /\ pass    \in [Passes -> PassType]
  /\ crashes \in 0 .. MaxCrashes

\* A plan waiting for approval can be approved: whichever of the release
\* paths brought it back, its old execution_key is gone.
WaitingIsApprovable ==
  \A p \in Plans : plan[p].status = "WAITING_FOR_APPROVAL" => isApprovable(plan[p])

\* A plan shown as placed names an order that MT5 did accept, and its own unless
\* the gateway had to compare fields: the watcher takes a ticket it cannot find
\* for a cancelled order.
PlacedIsReal ==
  \A p \in Plans : plan[p].status = "PENDING_ORDER_PLACED" =>
    /\ plan[p].ticket \in Keys
    /\ owner[plan[p].ticket] = p \/ "alike" \in Faults
    /\ order[plan[p].ticket] \in {"pending", "open", "closed", "cancelled"}

\* A plan is shown as closed only after its own trade was closed on record.
ClosedOnRecord ==
  \A p \in Plans : plan[p].status = "POSITION_CLOSED" => outcome[p].state = "closed"

-----------------------------------------------------------------------------
(* What holds while MT5 and the database answer, a refused order leaves no *)
(* trace in MT5's history and ticks do not overlap.                        *)

\* A symbol never has two orders of AI plans alive at once, although a claim
\* is checked against the other plans only after it is made.
OneOrderPerSymbol ==
  \A j, k \in {i \in Keys : Reached(i) /\ order[i] # "closed"} :
    SymbolOf[owner[j]] = SymbolOf[owner[k]] => j = k

\* A live order or position is never lost sight of: its plan is shown as
\* placed under its ticket, as open, or as one that the watcher will look up.
LiveIsWatched ==
  \A k \in Keys : Live(k) =>
    LET row == plan[owner[k]] IN
    \/ row.status = "PENDING_ORDER_SUBMITTING"
    \/ row.status = "PENDING_ORDER_PLACED" /\ row.ticket = k
    \/ row.status = "POSITION_OPEN" /\ order[k] = "open"

\* An approved plan does not stay PENDING_ORDER_SUBMITTING.
SubmissionResolves == \A p \in Plans : Submitting(p) ~> ~Submitting(p)

\* A placed order that has triggered or gone is noticed.
PlacementResolves ==
  \A p \in Plans : (plan[p].status = "PENDING_ORDER_PLACED" /\ order[plan[p].ticket] # "pending")
                     ~> plan[p].status # "PENDING_ORDER_PLACED"

\* A plan whose recorded trade has closed at MT5 ends up closed.
RecordedClosureSynced ==
  \A p \in Plans : (outcome[p].state = "open" /\ order[outcome[p].ticket] = "closed")
                     ~> plan[p].status = "POSITION_CLOSED"

-----------------------------------------------------------------------------
PlacedOrders == [p \in Plans |-> Cardinality({k \in Keys : owner[k] = p /\ Reached(k)})]
Booked       == [p \in Plans |-> outcome[p].state]

Abstract == INSTANCE TradeOnce WITH orders <- PlacedOrders, book <- Booked

\* "NO BLIND RETRY": every step places, loses, records or settles the one
\* order of a plan, or none of these.
TradesOnce == Abstract!Spec
=============================================================================
