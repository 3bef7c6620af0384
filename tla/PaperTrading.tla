---------------------------- MODULE PaperTrading ----------------------------
(***************************************************************************)
(* The paper trade proposals: trade-proposal-service.ts,                   *)
(* trade-execution-service.ts, their routes and repositories, in front of  *)
(* the paper broker.                                                       *)
(*                                                                         *)
(*  - Flows are HTTP requests (or the hourly scheduler): create, approve   *)
(*    and execute, execute, reject or cancel one proposal.  A flow keeps   *)
(*    its requestId when it is sent again.                                 *)
(*  - Passes are loads of the paper dashboard: reconcile the brackets, the *)
(*    intraday and the hourly time exits, then expire what is due.         *)
(*                                                                         *)
(* A service call is one database transaction around calls of the broker:  *)
(* its writes take effect when it commits, the broker's when it answers.   *)
(* SELECT ... FOR UPDATE holds the proposal from the first read to COMMIT. *)
(***************************************************************************)
EXTENDS PaperBroker, FiniteSetsExt

CONSTANTS
  SymbolOf,          \* the proposal's symbol
  Kinds,             \* what may be proposed: functions from Proposals to KindType
  Flows, Passes,
  NoProposal,
  PreventDuplicate,  \* phase22_prevent_duplicate_exposure
  MaxFaults,         \* bound: faults in one behaviour
  Faults

FaultKinds ==
  {"rollback",   \* a statement, or the portfolio read before COMMIT, fails
   "lost",       \* engineFetch() gives up after 5 s, or fails, in submitOrder()
   "error",      \* the broker answers with status ERROR
   "uncancelled",\* both cancelBrokerOrder() fail: .catch(() => null)
   "crash",      \* the Node process restarts
   "restart"}    \* the Python process restarts: its broker forgets

ASSUME SymbolOfAssumption == SymbolOf \in [Proposals -> Symbols] /\ NoProposal \notin Proposals
ASSUME FaultsAssumption   == Faults \subseteq FaultKinds /\ MaxFaults \in Nat
ASSUME PreventAssumption  == PreventDuplicate \in BOOLEAN

VARIABLES
  kind,       \* kind[p]: what is proposed (never changes)
  proposal,   \* proposal[p]: the row of trade_proposals
  approval,   \* approval[p]: the rows of trade_approvals, by requestId and action
  execution,  \* execution[p]: the executions row of proposal:<p>:attempt:1
  order,      \* order[o]: filled quantity of the orders row with o's broker_order_id
  position,   \* position[s]: positions.quantity
  enabled,    \* trading_kill_switch_enabled (on means trading is allowed)
  broker,
  overdue,    \* overdue[p]: the maximum holding time has passed
  closing,    \* the session is in its force-close window, or closed
  flow, pass,
  faults      \* faults so far

rows  == <<proposal, approval, execution, order, position, enabled>>
clock == <<overdue, closing>>
vars  == <<kind, rows, broker, clock, flow, pass, faults>>

-----------------------------------------------------------------------------
(* Statuses: proposal-state-machine.ts.                                    *)

KindType == [phase: {22, 25, 26, 27}, side: {"BUY", "SELL"}, type: {"MARKET", "LIMIT"}]

ASSUME KindsAssumption == Kinds \subseteq [Proposals -> KindType]

allowedTransitions ==
  [RISK_CHECKING    |-> {"RISK_REJECTED", "PENDING_APPROVAL", "EXPIRED", "CANCELLED"},
   PENDING_APPROVAL |-> {"APPROVED", "OWNER_REJECTED", "EXPIRED", "CANCELLED"},
   APPROVED         |-> {"REVALIDATING", "SUBMITTING", "EXPIRED"},
   REVALIDATING     |-> {"RISK_REJECTED_AFTER_APPROVAL", "SUBMITTING", "EXPIRED"},
   SUBMITTING       |-> {"SUBMITTED", "EXECUTION_ERROR"},
   SUBMITTED        |-> {"PARTIALLY_FILLED", "FILLED", "EXECUTION_REJECTED", "EXECUTION_ERROR",
                         "CANCEL_PENDING"},
   PARTIALLY_FILLED |-> {"FILLED", "CANCEL_PENDING", "EXECUTION_ERROR"},
   CANCEL_PENDING   |-> {"CANCELLED", "FILLED"},
   EXECUTION_ERROR  |-> {"SUBMITTING", "CANCELLED"}]

canMove(from, to) == from \in DOMAIN allowedTransitions /\ to \in allowedTransitions[from]

Absent         == "none"
ProposalStatus == DOMAIN allowedTransitions \cup UNION {allowedTransitions[s] : s \in DOMAIN allowedTransitions}
Active         == {"PENDING_APPROVAL", "APPROVED", "REVALIDATING", "SUBMITTING", "SUBMITTED",
                   "PARTIALLY_FILLED"}
Expirable      == {"RISK_CHECKING", "PENDING_APPROVAL", "APPROVED", "REVALIDATING"}

\* proposalStatusFromBroker().
fromBroker(status) ==
  CASE status = "REJECTED" -> "EXECUTION_REJECTED"
    [] status = "ERROR"    -> "EXECUTION_ERROR"
    [] OTHER               -> status

-----------------------------------------------------------------------------
(* Records and views.                                                      *)

NoRow       == -1
OrderRows   == Orders \cup (Proposals \X {"bracket"})
NoOrderRow  == <<NoProposal, "none">>

\* submitOrder() failed, or the broker said ERROR.
Lost        == [status |-> "LOST", quantity |-> 0]
ErrorAnswer == [status |-> "ERROR", quantity |-> 0]

RowType  == [status: ProposalStatus \cup {Absent}, quantity: 0 .. MaxQuantity, due: BOOLEAN]
FlowPc   == {"idle", "create", "created", "approve", "approved", "execute", "submit", "commit"}
IdleFlow == [pc |-> "idle", proposal |-> NoProposal, held |-> 0, verdict |-> "none", answer |-> Unknown]
PassPc   == {"idle", "brackets", "record", "intraday", "hourly", "cancel", "sell", "book"}
IdlePass == [pc |-> "idle", todo |-> {}, cur |-> NoOrderRow, quantity |-> 0]

\* mutant of locked: the row is read without FOR UPDATE.
lockedNever(p) == FALSE

\* The flow whose transaction holds the row: SELECT ... FOR UPDATE.
locked(p) == \E f \in Flows : flow[f].proposal = p /\ flow[f].pc \in {"approve", "approved", "submit", "commit"}

isBuy(p)   == kind[p].side = "BUY"
hasExit(p) == \E o \in OrderRows : o[1] = p /\ o[2] # "entry" /\ order[o] # NoRow
entered(p) == isBuy(p) /\ execution[p] = "FILLED" /\ ~hasExit(p)

findOpenBracketOrders == {p \in Proposals : entered(p) /\ kind[p].type = "MARKET"}

findOpenPositions(n)    == {p \in Proposals : entered(p) /\ kind[p].phase = n}
findActiveOrders(s)     == {p \in Proposals : SymbolOf[p] = s
                              /\ execution[p] \in {"SUBMITTED", "PARTIALLY_FILLED"}}
findActiveExposure(p)   == {q \in Proposals \ {p} : proposal[q].status \in Active}
sameSymbol(p)           == {q \in Proposals : SymbolOf[q] = SymbolOf[p]}

Init ==
  /\ kind      \in Kinds
  /\ proposal  = [p \in Proposals |-> [status |-> Absent, quantity |-> 0, due |-> FALSE]]
  /\ approval  = [p \in Proposals |-> {}]
  /\ execution = [p \in Proposals |-> "none"]
  /\ order     = [o \in OrderRows |-> NoRow]
  /\ position  = [s \in Symbols |-> 0]
  /\ enabled   = TRUE
  /\ broker    = emptyBroker
  /\ overdue   = [p \in Proposals |-> FALSE]
  /\ closing   = FALSE
  /\ flow      = [f \in Flows |-> IdleFlow]
  /\ pass      = [r \in Passes |-> IdlePass]
  /\ faults    = 0

-----------------------------------------------------------------------------
(* Risk controls.  Prices, sizing limits and daily counts are their own    *)
(* module: here any of them may fail, and what rests on the proposals, the *)
(* orders and the portfolio of this model does fail.                       *)

\* mutant of mustReject: other proposals do not count.
mustRejectHeldOnly(p, held, quantity) ==
  ~enabled \/ (isBuy(p) /\ held > 0) \/ (~isBuy(p) /\ held < quantity) \/ quantity <= 0

mustReject(p, held, quantity) ==
  LET exposure == findActiveExposure(p) \cap sameSymbol(p) IN
  \/ ~enabled                                                     \* KILL_SWITCH
  \/ \E q \in exposure : kind[q].side = kind[p].side              \* DUPLICATE_EXPOSURE
  \/ findActiveOrders(SymbolOf[p]) # {}                           \* DUPLICATE_PENDING_ORDER
  \/ /\ isBuy(p) /\ (kind[p].phase = 22 => PreventDuplicate)
     /\ held > 0 \/ exposure # {}                                 \* PHASEnn_DUPLICATE_EXPOSURE
  \/ ~isBuy(p) /\ held < quantity                                 \* AVAILABLE_POSITION
  \/ quantity <= 0                                                \* PHASEnn_POSITION_SIZE

\* "LOSS" is a rejection for the daily loss while trading is allowed.
verdicts(p, held, quantity) ==
  (IF enabled THEN {"REJECT", "LOSS"} ELSE {"REJECT"}) \cup (IF mustReject(p, held, quantity) THEN {} ELSE {"PASS"})

maybeAutoDisableKillSwitch(verdict) == enabled' = (enabled /\ verdict # "LOSS")

-----------------------------------------------------------------------------
(* createSignalAndProposal().                                              *)

\* BUY asks for the default size; a SELL of the crypto and hourly strategies
\* for what the portfolio holds, a manual one for what its caller says.
proposedQuantity(p, held) ==
  IF isBuy(p) \/ kind[p].phase = 22 THEN Lot ELSE IF held > 0 THEN held ELSE 0

\* The market and the paper portfolio are read before the transaction.
CreateStart(f, p) ==
  /\ flow[f] = IdleFlow /\ proposal[p].status = Absent
  /\ ~ \E g \in Flows : flow[g].proposal = p
  /\ flow' = [flow EXCEPT ![f] = [IdleFlow EXCEPT !.pc = "create", !.proposal = p,
                                                  !.held = broker.position[SymbolOf[p]]]]
  /\ UNCHANGED <<kind, rows, broker, clock, pass, faults>>

CreateRisk(f) ==
  LET p == flow[f].proposal IN
  /\ flow[f].pc = "create"
  /\ \E v \in verdicts(p, flow[f].held, proposedQuantity(p, flow[f].held)) :
       flow' = [flow EXCEPT ![f].pc = "created", ![f].verdict = v]
  /\ UNCHANGED <<kind, rows, broker, clock, pass, faults>>

CreateCommit(f) ==
  LET p    == flow[f].proposal
      next == IF flow[f].verdict = "PASS" THEN "PENDING_APPROVAL" ELSE "RISK_REJECTED"
  IN
  /\ flow[f].pc = "created"
  /\ canMove("RISK_CHECKING", next)
  /\ proposal' = [proposal EXCEPT ![p].status = next,
                                  ![p].quantity = proposedQuantity(p, flow[f].held)]
  /\ maybeAutoDisableKillSwitch(flow[f].verdict)
  /\ flow' = [flow EXCEPT ![f] = IdleFlow]
  /\ UNCHANGED <<kind, approval, execution, order, position, broker, clock, pass, faults>>

-----------------------------------------------------------------------------
(* approveProposal(), rejectProposal(), cancelProposal().                  *)

answered(f, p) == \E a \in {"APPROVE", "REJECT"} : <<f, a>> \in approval[p]

\* A proposal past its expiry is marked EXPIRED and ProposalExpiredError is
\* thrown out of the transaction, which takes the mark back.
ApproveStart(f, p) ==
  /\ flow[f] = IdleFlow /\ ~locked(p) /\ ~answered(f, p)
  /\ proposal[p].status = "PENDING_APPROVAL" /\ ~proposal[p].due
  /\ flow' = [flow EXCEPT ![f] = [IdleFlow EXCEPT !.pc = "approve", !.proposal = p,
                                                  !.held = broker.position[SymbolOf[p]]]]
  /\ UNCHANGED <<kind, rows, broker, clock, pass, faults>>

\* The re-check leaves the proposal itself out of the exposure.
ApproveRisk(f) ==
  LET p == flow[f].proposal IN
  /\ flow[f].pc = "approve"
  /\ \E v \in verdicts(p, flow[f].held, proposal[p].quantity) :
       flow' = [flow EXCEPT ![f].pc = "approved", ![f].verdict = v]
  /\ UNCHANGED <<kind, rows, broker, clock, pass, faults>>

\* A rejection passes through APPROVED and REVALIDATING in the transaction.
ApproveCommit(f) ==
  LET p == flow[f].proposal
      v == flow[f].verdict
  IN
  /\ flow[f].pc = "approved"
  /\ approval' = [approval EXCEPT ![p] = @ \cup {<<f, "APPROVE">>}]
  /\ proposal' = [proposal EXCEPT ![p].status =
                    IF v = "PASS" THEN "APPROVED" ELSE "RISK_REJECTED_AFTER_APPROVAL"]
  /\ maybeAutoDisableKillSwitch(v)
  /\ flow' = [flow EXCEPT ![f] = IF v = "PASS" THEN [IdleFlow EXCEPT !.pc = "execute", !.proposal = p]
                                 ELSE IdleFlow]
  /\ UNCHANGED <<kind, execution, order, position, broker, clock, pass, faults>>

RejectProposal(f, p) ==
  /\ flow[f] = IdleFlow /\ ~locked(p) /\ ~answered(f, p)
  /\ proposal[p].status = "PENDING_APPROVAL" /\ ~proposal[p].due
  /\ approval' = [approval EXCEPT ![p] = @ \cup {<<f, "REJECT">>}]
  /\ proposal' = [proposal EXCEPT ![p].status = "OWNER_REJECTED"]
  /\ UNCHANGED <<kind, execution, order, position, enabled, broker, clock, flow, pass, faults>>

CancelProposal(p) ==
  /\ ~locked(p) /\ canMove(proposal[p].status, "CANCELLED")
  /\ ~(proposal[p].due /\ proposal[p].status = "PENDING_APPROVAL")
  /\ proposal' = [proposal EXCEPT ![p].status = "CANCELLED"]
  /\ UNCHANGED <<kind, approval, execution, order, position, enabled, broker, clock, flow, pass, faults>>

-----------------------------------------------------------------------------
(* executeApprovedProposal().                                              *)

alreadyExecuted(p) == execution[p] \notin {"none", "ERROR"} \/ order[entryOf(p)] # NoRow

executable(p) ==
  /\ ~alreadyExecuted(p)
  /\ proposal[p].status \in {"APPROVED", "EXECUTION_ERROR"}
  /\ proposal[p].due => proposal[p].status = "EXECUTION_ERROR"
  /\ enabled                                              \* assertPaperExecutionAllowed()

\* After an approval.  A request that may not execute ends there.
ExecuteStart(f) ==
  LET p == flow[f].proposal IN
  /\ flow[f].pc = "execute" /\ ~locked(p)
  /\ flow' = [flow EXCEPT ![f] = IF executable(p) THEN [@ EXCEPT !.pc = "submit"] ELSE IdleFlow]
  /\ UNCHANGED <<kind, rows, broker, clock, pass, faults>>

\* POST /:id/execute, and POST /:id/approve sent again: its approval is on
\* record, and it goes on to the execution.
ExecuteRequest(f, p) ==
  /\ flow[f] = IdleFlow /\ ~locked(p) /\ executable(p)
  /\ flow' = [flow EXCEPT ![f] = [IdleFlow EXCEPT !.pc = "submit", !.proposal = p]]
  /\ UNCHANGED <<kind, rows, broker, clock, pass, faults>>

entryRequest(p) ==
  request(p, entryOf(p), SymbolOf[p], kind[p].side, proposal[p].quantity, kind[p].type, isBuy(p))

Spend(k) == k \in Faults /\ faults < MaxFaults /\ faults' = faults + 1

\* One call of the broker for r, and the answer it gives a.
Submit(r, a) ==
  \/ /\ broker' \in submitOrder(broker, r)
     /\ a = broker'.order[r.order]
     /\ UNCHANGED faults
  \/ /\ Spend("lost")
     /\ broker' \in submitOrder(broker, r) \cup {broker}
     /\ a = Lost
  \/ /\ Spend("error")
     /\ a = ErrorAnswer
     /\ UNCHANGED broker

\* What it may be answered.
answersTo(r) == {Lost, ErrorAnswer} \cup {b.order[r.order] : b \in submitOrder(broker, r)}

\* The row of positions is there from the first fill on record.
positionRow(s) == \E o \in OrderRows : SymbolOf[o[1]] = s /\ order[o] > 0

\* What the request has seen of the position: nothing, if it may be read before
\* it has a row.
seen(s) == IF positionRow(s) THEN 0 ELSE NoRow

SubmitEntry(f) ==
  LET p == flow[f].proposal IN
  /\ flow[f].pc = "submit"
  /\ \E a \in answersTo(entryRequest(p)) :
       /\ Submit(entryRequest(p), a)
       /\ flow' = [flow EXCEPT ![f].pc = "commit", ![f].answer = a,
                              ![f].held = seen(SymbolOf[p])]
  /\ UNCHANGED <<kind, rows, clock, pass>>

\* mutant of accountable: any SELL is booked.
accountableAlways(s, side, q) == TRUE

\* calculatePositionAccounting() refuses to sell more than is held.
accountable(s, side, q) == side = "SELL" => q <= position[s]

account(s, side, q)     == position' = [position EXCEPT ![s] = @ + signed(side, q)]

\* FOR UPDATE holds nothing where there is no row.  The flow has read none, and
\* its upsert sets the quantity to its own fill, whatever was added meanwhile.
readNothing(f) == flow[f].held = NoRow /\ flow[f].answer.quantity > 0
overwrite(s, q) == position' = [position EXCEPT ![s] = q]

\* mutant of RecordFailure: an unknown result is taken for SUBMITTED.
RecordUnknownAsSubmitted(f) ==
  LET p == flow[f].proposal IN
  /\ flow[f].pc = "commit" /\ flow[f].answer = Lost
  /\ execution' = [execution EXCEPT ![p] = "SUBMITTED"]
  /\ proposal'  = [proposal EXCEPT ![p].status = "SUBMITTED"]
  /\ flow' = [flow EXCEPT ![f] = IdleFlow]
  /\ UNCHANGED <<kind, approval, order, position, enabled, broker, clock, pass, faults>>

RecordFailure(f) ==
  LET p == flow[f].proposal IN
  /\ flow[f].pc = "commit" /\ flow[f].answer = Lost
  /\ execution' = [execution EXCEPT ![p] = "ERROR"]
  /\ proposal'  = [proposal EXCEPT ![p].status = "EXECUTION_ERROR"]
  /\ flow' = [flow EXCEPT ![f] = IdleFlow]
  /\ UNCHANGED <<kind, approval, order, position, enabled, broker, clock, pass, faults>>

\* mutant of RecordExecution: the position is booked in full.
RecordExecutionInFull(f) ==
  LET p == flow[f].proposal
      a == flow[f].answer
  IN
  /\ flow[f].pc = "commit" /\ a # Lost
  /\ accountable(SymbolOf[p], kind[p].side, Lot)
  /\ order'     = [order EXCEPT ![entryOf(p)] = a.quantity]
  /\ execution' = [execution EXCEPT ![p] = a.status]
  /\ proposal'  = [proposal EXCEPT ![p].status = fromBroker(a.status)]
  /\ account(SymbolOf[p], kind[p].side, Lot)
  /\ flow' = [flow EXCEPT ![f] = IdleFlow]
  /\ UNCHANGED <<kind, approval, enabled, broker, clock, pass, faults>>

RecordExecution(f) ==
  LET p == flow[f].proposal
      a == flow[f].answer
  IN
  /\ flow[f].pc = "commit" /\ a # Lost
  /\ \/ accountable(SymbolOf[p], kind[p].side, a.quantity) /\ account(SymbolOf[p], kind[p].side, a.quantity)
     \/ readNothing(f) /\ isBuy(p) /\ overwrite(SymbolOf[p], a.quantity)
  /\ order'     = [order EXCEPT ![entryOf(p)] = a.quantity]
  /\ execution' = [execution EXCEPT ![p] = a.status]
  /\ proposal'  = [proposal EXCEPT ![p].status = fromBroker(a.status)]
  /\ flow' = [flow EXCEPT ![f] = IdleFlow]
  /\ UNCHANGED <<kind, approval, enabled, broker, clock, pass, faults>>

\* PositionAccountingError: everything but the fill is taken back.
RecordExecutionFails(f) ==
  LET p == flow[f].proposal IN
  /\ flow[f].pc = "commit" /\ flow[f].answer # Lost
  /\ \/ ~accountable(SymbolOf[p], kind[p].side, flow[f].answer.quantity)
     \/ readNothing(f) /\ ~isBuy(p)
  /\ flow' = [flow EXCEPT ![f] = IdleFlow]
  /\ UNCHANGED <<kind, rows, broker, clock, pass, faults>>

\* A transaction that fails before it calls the broker has done nothing.
FlowFails(f) ==
  /\ flow[f].pc = "commit" /\ Spend("rollback")
  /\ flow' = [flow EXCEPT ![f] = IdleFlow]
  /\ UNCHANGED <<kind, rows, broker, clock, pass>>

-----------------------------------------------------------------------------
(* reconcileBracketOrders() and recordApprovedBracketExit().               *)

\* GET /dashboard/paper.
PassStart(r) ==
  /\ pass[r].pc = "idle"
  /\ pass' = [pass EXCEPT ![r].pc = "brackets", ![r].todo = findOpenBracketOrders \X {"bracket"}]
  /\ UNCHANGED <<kind, rows, broker, clock, flow, faults>>

GetLegs(r) ==
  /\ pass[r].pc = "brackets"
  /\ \E o \in pass[r].todo :
       /\ broker' \in getOrder(broker, o[1])
       /\ pass' = [pass EXCEPT ![r].todo = @ \ {o},
                               ![r].pc   = IF broker'.legs[o[1]].status = "FILLED" THEN "record" ELSE @,
                               ![r].cur  = IF broker'.legs[o[1]].status = "FILLED" THEN o ELSE @]
  /\ UNCHANGED <<kind, rows, clock, flow, faults>>

Resume(r, pc) == pass' = [pass EXCEPT ![r].pc = pc, ![r].cur = NoOrderRow, ![r].quantity = 0]

\* mutant of recordable: the owner's switch stops the records too.
recordableEnabled(p) ==
  /\ enabled
  /\ isBuy(p) /\ kind[p].phase = 22
  /\ order[entryOf(p)] # NoRow
  /\ order[<<p, "bracket">>] = NoRow
  /\ accountable(SymbolOf[p], "SELL", Lot)

\* Only the risk snapshot of phase 22 makes a bracket here.
recordable(p) ==
  /\ isBuy(p) /\ kind[p].phase = 22
  /\ order[entryOf(p)] # NoRow
  /\ order[<<p, "bracket">>] = NoRow                      \* brokerFillId
  /\ accountable(SymbolOf[p], "SELL", Lot)

RecordBracketExit(r) ==
  LET p == pass[r].cur[1] IN
  /\ pass[r].pc = "record" /\ ~locked(p)
  /\ Resume(r, "brackets")
  /\ \/ /\ recordable(p)
        /\ order' = [order EXCEPT ![<<p, "bracket">>] = Lot]
        /\ account(SymbolOf[p], "SELL", Lot)
     \/ ~recordable(p) /\ UNCHANGED <<order, position>>   \* result.errors, or done already
  /\ UNCHANGED <<kind, proposal, approval, execution, enabled, broker, clock, flow, faults>>

-----------------------------------------------------------------------------
(* reconcileIntradayTimeExits() and reconcileHourlyTimeExits(), with       *)
(* closeIntradayPosition() and closeHourlyPosition().                      *)

\* mutant of timeExits: only the end of the day is looked at.
timeExitsAtCloseOnly(n) ==
  {exitOf(p, "END_OF_DAY") : p \in {q \in findOpenPositions(n) : closing}}

timeExits(n) ==
  {exitOf(p, "MAX_HOLDING_TIME") : p \in {q \in findOpenPositions(n) : overdue[q]}}
  \cup {exitOf(p, "END_OF_DAY") : p \in {q \in findOpenPositions(n) : ~overdue[q] /\ closing}}

IntradayScan(r) ==
  /\ pass[r].pc = "brackets" /\ pass[r].todo = {}
  /\ pass' = [pass EXCEPT ![r].pc = "intraday", ![r].todo = timeExits(25)]
  /\ UNCHANGED <<kind, rows, broker, clock, flow, faults>>

HourlyScan(r) ==
  /\ pass[r].pc = "intraday" /\ pass[r].todo = {}
  /\ pass' = [pass EXCEPT ![r].pc = "hourly", ![r].todo = timeExits(27)]
  /\ UNCHANGED <<kind, rows, broker, clock, flow, faults>>

\* An execution with an exit on record is done with; the row is not locked.
TimeExitStart(r) ==
  /\ pass[r].pc \in {"intraday", "hourly"}
  /\ \E o \in pass[r].todo :
       pass' = [pass EXCEPT ![r].todo = @ \ {o},
                            ![r].pc   = IF hasExit(o[1]) THEN @ ELSE "cancel",
                            ![r].cur  = IF hasExit(o[1]) THEN @ ELSE o]
  /\ UNCHANGED <<kind, rows, broker, clock, flow, faults>>

CancelLegs(r) ==
  /\ pass[r].pc = "cancel"
  /\ pass' = [pass EXCEPT ![r].pc = "sell"]
  /\ \/ broker' = cancelOrder(broker, pass[r].cur[1]) /\ UNCHANGED faults
     \/ Spend("uncancelled") /\ UNCHANGED broker
  /\ UNCHANGED <<kind, rows, clock, flow>>

scanOf(p) == IF kind[p].phase = 25 THEN "intraday" ELSE "hourly"

\* Without a fill there is nothing to write.
SubmitTimeExit(r) ==
  LET o    == pass[r].cur
      p    == o[1]
      sell == request(p, o, SymbolOf[p], "SELL", Lot, "MARKET", FALSE)
  IN
  /\ pass[r].pc = "sell"
  /\ \E a \in answersTo(sell) :
       /\ Submit(sell, a)
       /\ IF a.quantity = 0 THEN Resume(r, scanOf(p))
          ELSE pass' = [pass EXCEPT ![r].pc = "book", ![r].quantity = a.quantity]
  /\ UNCHANGED <<kind, rows, clock, flow>>

\* orders.broker_order_id is UNIQUE.
RecordTimeExit(r) ==
  LET o == pass[r].cur
      p == o[1]
      q == pass[r].quantity
  IN
  /\ pass[r].pc = "book" /\ ~locked(p)
  /\ Resume(r, scanOf(p))
  /\ IF order[o] = NoRow /\ accountable(SymbolOf[p], "SELL", q)
     THEN order' = [order EXCEPT ![o] = q] /\ account(SymbolOf[p], "SELL", q)
     ELSE UNCHANGED <<order, position>>
  /\ UNCHANGED <<kind, proposal, approval, execution, enabled, broker, clock, flow, faults>>

PassFails(r) ==
  /\ pass[r].pc \in {"record", "cancel", "sell", "book"} /\ Spend("rollback")
  /\ Resume(r, IF pass[r].pc = "record" THEN "brackets" ELSE scanOf(pass[r].cur[1]))
  /\ UNCHANGED <<kind, rows, broker, clock, flow>>

\* expireOpenProposals(): one UPDATE, which waits for the rows it must change.
dueOpen == {p \in Proposals : proposal[p].due /\ proposal[p].status \in Expirable}

expireOpenProposals ==
  /\ \A p \in dueOpen : ~locked(p)
  /\ proposal' = [p \in Proposals |-> IF p \in dueOpen THEN [proposal[p] EXCEPT !.status = "EXPIRED"]
                                      ELSE proposal[p]]

PassEnd(r) ==
  /\ pass[r].pc = "hourly" /\ pass[r].todo = {}
  /\ expireOpenProposals
  /\ pass' = [pass EXCEPT ![r] = IdlePass]
  /\ UNCHANGED <<kind, approval, execution, order, position, enabled, broker, clock, flow, faults>>

\* GET /trade-proposals and GET /trade-proposals/:id.
ListProposals ==
  /\ dueOpen # {} /\ expireOpenProposals
  /\ UNCHANGED <<kind, approval, execution, order, position, enabled, broker, clock, flow, pass, faults>>

-----------------------------------------------------------------------------
(* Time, the owner's switch, and restarts.                                 *)

\* Where the expiry and the session no longer matter, they stand still.
ExpiryPasses(p) ==
  /\ proposal[p].status \in Expirable /\ ~proposal[p].due
  /\ proposal' = [proposal EXCEPT ![p].due = TRUE]
  /\ UNCHANGED <<kind, approval, execution, order, position, enabled, broker, clock, flow, pass, faults>>

timed(p) == entered(p) /\ kind[p].phase \in {25, 27}

HoldingTimePasses(p) ==
  /\ timed(p) /\ ~overdue[p]
  /\ overdue' = [overdue EXCEPT ![p] = TRUE]
  /\ UNCHANGED <<kind, rows, broker, closing, flow, pass, faults>>

SessionTurns ==
  /\ \E p \in Proposals : timed(p)
  /\ closing' = ~closing
  /\ UNCHANGED <<kind, rows, broker, overdue, flow, pass, faults>>

SetKillSwitch ==
  /\ enabled' = ~enabled
  /\ UNCHANGED <<kind, proposal, approval, execution, order, position, broker, clock, flow, pass, faults>>

Crash ==
  /\ Spend("crash")
  /\ \/ \E f \in Flows : flow[f].pc \in {"execute", "commit"}
     \/ \E r \in Passes : pass[r].pc \in {"record", "sell", "book"}
  /\ flow' = [f \in Flows |-> IdleFlow]
  /\ pass' = [r \in Passes |-> IdlePass]
  /\ UNCHANGED <<kind, rows, broker, clock>>

BrokerRestart ==
  /\ Spend("restart") /\ broker # emptyBroker
  /\ broker' = emptyBroker
  /\ UNCHANGED <<kind, rows, clock, flow, pass>>

Request(f) ==
  \/ CreateRisk(f) \/ CreateCommit(f) \/ ApproveRisk(f) \/ ApproveCommit(f)
  \/ ExecuteStart(f) \/ SubmitEntry(f)
  \/ RecordFailure(f) \/ RecordExecution(f) \/ RecordExecutionFails(f) \/ FlowFails(f)

Dashboard(r) ==
  \/ PassStart(r) \/ GetLegs(r) \/ RecordBracketExit(r)
  \/ IntradayScan(r) \/ HourlyScan(r)
  \/ TimeExitStart(r) \/ CancelLegs(r) \/ SubmitTimeExit(r) \/ RecordTimeExit(r)
  \/ PassFails(r) \/ PassEnd(r)

Next ==
  \/ \E f \in Flows : \/ Request(f)
                      \/ \E p \in Proposals : \/ CreateStart(f, p) \/ ApproveStart(f, p)
                                              \/ RejectProposal(f, p) \/ ExecuteRequest(f, p)
  \/ \E r \in Passes : Dashboard(r)
  \/ \E p \in Proposals : CancelProposal(p) \/ ExpiryPasses(p) \/ HoldingTimePasses(p)
  \/ ListProposals \/ SessionTurns \/ SetKillSwitch \/ Crash \/ BrokerRestart

Spec == Init /\ [][Next]_vars

\* Requests that have started run on, and the dashboard is loaded again and
\* again.  Nothing obliges the owner or the market.
Fairness ==
  /\ \A f \in Flows : WF_vars(Request(f))
  /\ \A r \in Passes : WF_vars(Dashboard(r))

FairSpec == Spec /\ Fairness

-----------------------------------------------------------------------------
(* What holds whatever fails.                                              *)

\* Every variable holds values of its kind.
TypeOK ==
  /\ kind      \in [Proposals -> KindType]
  /\ proposal  \in [Proposals -> RowType]
  /\ approval  \in [Proposals -> SUBSET (Flows \X {"APPROVE", "REJECT"})]
  /\ execution \in [Proposals -> OrderStatus \cup {"none", "ERROR"}]
  /\ order     \in [OrderRows -> NoRow .. MaxQuantity]
  /\ position  \in [Symbols -> 0 .. MaxQuantity]
  /\ enabled \in BOOLEAN /\ closing \in BOOLEAN
  /\ overdue   \in [Proposals -> BOOLEAN]
  /\ BrokerType(broker)
  /\ \A f \in Flows : flow[f].pc \in FlowPc /\ flow[f].proposal \in Proposals \cup {NoProposal}
  /\ \A r \in Passes : pass[r].pc \in PassPc /\ pass[r].todo \subseteq OrderRows
  /\ faults \in 0 .. MaxFaults

\* The position of a symbol is the sum of the fills on record for it: no retry,
\* second pass or failed transaction counts a fill twice or not at all.  Two
\* entries that are recorded at the same time, which takes the retry of a failed
\* one, may lose a fill between them; none is ever counted that is not on record.
bookedQuantity(o) ==
  IF order[o] = NoRow THEN 0
  ELSE signed(IF o[2] = "entry" THEN kind[o[1]].side ELSE "SELL", order[o])

fillsOf(s)   == MapThenSumSet(bookedQuantity, {o \in OrderRows : SymbolOf[o[1]] = s})
enteredIn(s) == {p \in Proposals : SymbolOf[p] = s /\ isBuy(p) /\ order[entryOf(p)] > 0}

Ledger ==
  \A s \in Symbols :
    /\ position[s] <= fillsOf(s)
    /\ (faults = 0 \/ \A p, q \in enteredIn(s) : p = q) => position[s] = fillsOf(s)

\* The broker holds each order of a proposal once: a submission sent again
\* after a lost answer, or by two requests, is not filled again.
brokerQuantity(o) ==
  signed(IF o[2] = "entry" THEN kind[o[1]].side ELSE "SELL", broker.order[o].quantity)
legSold(p) == IF broker.legs[p].status = "FILLED" THEN broker.legs[p].quantity ELSE 0

FilledOnce ==
  \A s \in Symbols :
    broker.position[s] = MapThenSumSet(brokerQuantity, {o \in Orders : SymbolOf[o[1]] = s})
                           - MapThenSumSet(legSold, {p \in Proposals : SymbolOf[p] = s})

\* Two BUY proposals of a symbol are never approved at the same time, although
\* neither transaction sees what the other has not committed.
ApprovedExclusive ==
  \A p, q \in Proposals :
    (/\ proposal[p].status = "APPROVED" /\ proposal[q].status = "APPROVED"
     /\ isBuy(p) /\ isBuy(q) /\ SymbolOf[p] = SymbolOf[q]) => p = q

-----------------------------------------------------------------------------
(* What holds until something fails.                                       *)

\* A BUY that was expired, cancelled or rejected has not been traded, whatever
\* was running while its status changed.
DeadNeverTraded ==
  faults = 0 => \A p \in {q \in Proposals : isBuy(q)} :
    proposal[p].status \in {"EXPIRED", "CANCELLED", "OWNER_REJECTED", "RISK_REJECTED",
                            "RISK_REJECTED_AFTER_APPROVAL"} => broker.order[entryOf(p)] = Unknown

\* Once a time exit sold a position, no leg is left that could sell it again:
\* the bracket is cancelled before the SELL goes out, not after.
NoLegAfterExit ==
  faults = 0 => \A p \in Proposals, why \in TimeReasons :
    broker.order[exitOf(p, why)].quantity > 0 => broker.legs[p].status # "PENDING"

\* A load that finds no exit on record sells, and the sale of another load for
\* the other reason has a key of its own and may not be on record yet.
soldForBoth(p) == \A why \in TimeReasons : broker.order[exitOf(p, why)].quantity > 0

\* No position is sold by its bracket and a time exit, by both legs, or by a
\* sale that is tried again, and none is sold from under another: while no SELL
\* proposal, no bracket that will not be recorded (phases 25 to 27) and no two
\* loads with different reasons sold a symbol, the broker never holds it short.
NeverShort ==
  \A s \in Symbols :
    (faults = 0 /\ \A p \in Proposals : SymbolOf[p] = s =>
        /\ isBuy(p) \/ broker.order[entryOf(p)] = Unknown
        /\ kind[p].phase # 22 => broker.legs[p].status # "FILLED"
        /\ ~soldForBoth(p))
      => broker.position[s] >= 0

-----------------------------------------------------------------------------
\* A bracket leg that filled is put on record, unless the broker has forgotten
\* it or a SELL proposal has sold the position on record.  One request at a time.
BracketRecorded(n) ==
  \A p \in Proposals :
    (kind[p].phase = n /\ execution[p] = "FILLED" /\ broker.legs[p].status = "FILLED")
      ~> \/ order[<<p, "bracket">>] # NoRow
         \/ broker.legs[p].status # "FILLED"
         \/ \E q \in Proposals : SymbolOf[q] = SymbolOf[p] /\ ~isBuy(q) /\ order[entryOf(q)] > 0

BracketExitRecorded == BracketRecorded(22)

\* The exit on record sold what the entry bought; it sold a part of it, and the
\* rest stays held without a bracket, for an exit on record ends the matter.
soldBy(o)   == 0 < order[o] /\ order[o] = order[entryOf(o[1])]
soldIn(o)   == 0 < order[o] /\ order[o] < order[entryOf(o[1])]
exitsOf(p)  == {<<p, "bracket">>} \cup {exitOf(p, why) : why \in TimeReasons}

\* A holding past its time is sold as a whole, or the broker has refused to or
\* has filled a part of the sale.  In that last case it is not closed, although
\* reconcileIntradayTimeExits() is said to close it.  One request at a time: two
\* entries that lose a fill (Ledger) would have the exit refused as well.
TimeExitHappens ==
  \A p \in Proposals :
    (kind[p].phase \in {25, 27} /\ entered(p) /\ overdue[p])
      ~> \/ \E o \in exitsOf(p) : soldBy(o)
         \/ \E why \in TimeReasons : soldIn(exitOf(p, why))
         \/ broker.order[exitOf(p, "MAX_HOLDING_TIME")].status = "REJECTED"

-----------------------------------------------------------------------------
alive(status)  == status \in {"FILLED", "PARTIALLY_FILLED", "SUBMITTED"}
Recorded       == [p \in Proposals |-> IF ~alive(execution[p]) THEN "none"
                                       ELSE IF hasExit(p) THEN "closed" ELSE "open"]
\* A fill that is about to be written counts, though the broker may forget it.
answeredFill(p) == \E f \in Flows : flow[f].proposal = p /\ flow[f].pc = "commit"
                                  /\ alive(flow[f].answer.status)
PlacedOrders   == [p \in Proposals |->
                     IF \/ alive(broker.order[entryOf(p)].status)
                        \/ answeredFill(p) \/ Recorded[p] # "none" THEN 1 ELSE 0]

Abstract == INSTANCE TradeOnce WITH Plans <- Proposals, orders <- PlacedOrders, book <- Recorded

\* A proposal is traded at most once and recorded once, over repeated
\* approvals, executions, lost answers and restarts.
TradesOnce == Abstract!Spec
=============================================================================
