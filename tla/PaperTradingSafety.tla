------------------------- MODULE PaperTradingSafety -------------------------
(***************************************************************************)
(* The safety of PaperTrading, on top of the control that                  *)
(* PaperTradingProofs keeps, and what it gives: every amount within its    *)
(* bound, and each proposal traded once, as TradeOnce promises.            *)
(***************************************************************************)
EXTENDS PaperTradingProofs

-----------------------------------------------------------------------------
(* The steps, by what they write.                                          *)

\* What writes a status, an order on record, or the broker.
Writes ==
  \/ \E f \in Flows : \/ CreateCommit(f) \/ ApproveCommit(f) \/ SubmitEntry(f)
                      \/ RecordFailure(f) \/ RecordExecution(f)
                      \/ \E p \in Proposals : RejectProposal(f, p)
  \/ \E r \in Passes : \/ GetLegs(r) \/ RecordBracketExit(r) \/ CancelLegs(r)
                       \/ SubmitTimeExit(r) \/ RecordTimeExit(r)
  \/ \E p \in Proposals : CancelProposal(p) \/ ExpiryPasses(p)
  \/ SetKillSwitch \/ BrokerRestart
  \/ expireOpenProposals /\ UNCHANGED <<kind, approval, execution, order, position, enabled, broker, flow>>

\* Every other step leaves the rows and the broker as they are.
LEMMA Steps ==
  ASSUME [Next]_vars PROVE Writes \/ UNCHANGED <<kind, rows, broker>>
<1>1. CASE UNCHANGED vars BY <1>1 DEF vars
<1>2. ASSUME NEW f \in Flows, Request(f) PROVE Writes \/ UNCHANGED <<kind, rows, broker>>
  BY <1>2 DEF Request, Writes, CreateRisk, ApproveRisk, ExecuteStart, RecordExecutionFails, FlowFails
<1>3. ASSUME NEW f \in Flows, NEW p \in Proposals,
             CreateStart(f, p) \/ ApproveStart(f, p) \/ RejectProposal(f, p) \/ ExecuteRequest(f, p)
      PROVE  Writes \/ UNCHANGED <<kind, rows, broker>>
  BY <1>3 DEF Writes, CreateStart, ApproveStart, ExecuteRequest
<1>4. ASSUME NEW r \in Passes, Dashboard(r) PROVE Writes \/ UNCHANGED <<kind, rows, broker>>
  BY <1>4 DEF Dashboard, Writes, PassStart, IntradayScan, HourlyScan, TimeExitStart, PassFails, PassEnd
<1>5. ASSUME NEW p \in Proposals, CancelProposal(p) \/ ExpiryPasses(p) \/ HoldingTimePasses(p)
      PROVE  Writes \/ UNCHANGED <<kind, rows, broker>>
  BY <1>5 DEF Writes, HoldingTimePasses
<1>6. CASE ListProposals \/ SessionTurns \/ SetKillSwitch \/ Crash \/ BrokerRestart
  BY <1>6 DEF Writes, ListProposals, SessionTurns, Crash
<1> QED BY <1>1, <1>2, <1>3, <1>4, <1>5, <1>6 DEF Next

\* What is proposed never changes.
LEMMA KindStays == [Next]_vars => kind' = kind
<1> SUFFICES ASSUME [Next]_vars, Writes PROVE kind' = kind BY Steps
<1> QED BY DEF Writes, CreateCommit, ApproveCommit, SubmitEntry, RecordFailure, RecordExecution, RejectProposal,
               GetLegs, RecordBracketExit, CancelLegs, SubmitTimeExit, RecordTimeExit, CancelProposal,
               ExpiryPasses, SetKillSwitch, BrokerRestart

\* So a BUY stays one.
LEMMA NextBuy ==
  ASSUME [Next]_vars PROVE \A p : isBuy(p)' <=> isBuy(p)
BY KindStays DEF isBuy

\* A request is moved by its own steps, or by a crash.
LEMMA FlowMoves ==
  ASSUME Control, [Next]_vars, NEW f \in Flows, flow'[f] # flow[f]
  PROVE  \/ Crash \/ Request(f)
         \/ \E p \in Proposals : CreateStart(f, p) \/ ApproveStart(f, p) \/ ExecuteRequest(f, p)
<1>1. flow \in [Flows -> FlowType] /\ ~ UNCHANGED flow BY DEF Control, FlowsOK
<1>2. \A g \in Flows : (\A h \in Flows \ {g} : flow'[h] = flow[h]) => g = f BY <1>1
<1>3. ~ UNCHANGED vars BY <1>1 DEF vars
<1>4. ASSUME NEW g \in Flows, Request(g) PROVE g = f
  <2>1. CASE CreateRisk(g)
    <3> PICK w : flow' = [flow EXCEPT ![g].pc = "created", ![g].verdict = w] BY <2>1 DEF CreateRisk
    <3> QED BY <1>1, <1>2
  <2>2. CASE SubmitEntry(g)
    <3> PICK a, h : flow' = [flow EXCEPT ![g].pc = "commit", ![g].answer = a, ![g].held = h] BY <2>2 DEF SubmitEntry
    <3> QED BY <1>1, <1>2
  <2>3. CASE ApproveRisk(g)
    <3> PICK w : flow' = [flow EXCEPT ![g].pc = "approved", ![g].verdict = w] BY <2>3 DEF ApproveRisk
    <3> QED BY <1>1, <1>2
  <2>4. CASE ~(CreateRisk(g) \/ SubmitEntry(g) \/ ApproveRisk(g))
    <3>1. \E v : flow' = [flow EXCEPT ![g] = v]
      BY <1>4, <2>4 DEF Request, CreateCommit, ApproveCommit, ExecuteStart, RecordFailure, RecordExecution,
                        RecordExecutionFails, FlowFails
    <3> QED BY <1>1, <1>2, <3>1
  <2> QED BY <2>1, <2>2, <2>3, <2>4
<1>5. ASSUME NEW g \in Flows, NEW p \in Proposals,
             CreateStart(g, p) \/ ApproveStart(g, p) \/ RejectProposal(g, p) \/ ExecuteRequest(g, p)
      PROVE  g = f /\ ~RejectProposal(g, p)
  BY <1>1, <1>2, <1>5 DEF CreateStart, ApproveStart, RejectProposal, ExecuteRequest
<1>6. ASSUME NEW r \in Passes, Dashboard(r) PROVE FALSE
  BY <1>1, <1>6 DEF Dashboard, PassStart, GetLegs, RecordBracketExit, IntradayScan, HourlyScan, TimeExitStart,
                    CancelLegs, SubmitTimeExit, RecordTimeExit, PassFails, PassEnd
<1>7. ASSUME NEW p \in Proposals, CancelProposal(p) \/ ExpiryPasses(p) \/ HoldingTimePasses(p) PROVE FALSE
  BY <1>1, <1>7 DEF CancelProposal, ExpiryPasses, HoldingTimePasses
<1>8. ~(ListProposals \/ SessionTurns \/ SetKillSwitch \/ BrokerRestart)
  BY <1>1 DEF ListProposals, SessionTurns, SetKillSwitch, BrokerRestart
<1> QED BY <1>3, <1>4, <1>5, <1>6, <1>7, <1>8 DEF Next

\* Where a request is after its step.
LEMMA FlowGoes ==
  ASSUME Control, [Next]_vars, NEW f \in Flows, flow'[f] # flow[f]
  PROVE  \/ flow'[f] = IdleFlow
         \/ flow'[f].pc \in {"create", "created", "approve", "execute", "submit"}
         \/ ApproveRisk(f) /\ flow'[f].pc = "approved" /\ flow'[f].proposal = flow[f].proposal
         \/ SubmitEntry(f) /\ flow'[f].pc = "commit" /\ flow'[f].proposal = flow[f].proposal
<1>1. flow \in [Flows -> FlowType] BY DEF Control, FlowsOK
<1>2. \A v : flow' = [flow EXCEPT ![f] = v] => flow'[f] = v BY <1>1
<1>3. CASE CreateRisk(f)
  <2> PICK w : flow' = [flow EXCEPT ![f].pc = "created", ![f].verdict = w] BY <1>3 DEF CreateRisk
  <2> QED BY <1>1 DEF FlowType
<1>4. CASE ApproveRisk(f)
  <2> PICK w : flow' = [flow EXCEPT ![f].pc = "approved", ![f].verdict = w] BY <1>4 DEF ApproveRisk
  <2>1. flow'[f].pc = "approved" /\ flow'[f].proposal = flow[f].proposal BY <1>1 DEF FlowType
  <2> QED BY <1>4, <2>1
<1>5. CASE SubmitEntry(f)
  <2> PICK a, h : flow' = [flow EXCEPT ![f].pc = "commit", ![f].answer = a, ![f].held = h] BY <1>5 DEF SubmitEntry
  <2>1. flow'[f].pc = "commit" /\ flow'[f].proposal = flow[f].proposal BY <1>1 DEF FlowType
  <2> QED BY <1>5, <2>1
<1>6. CASE CreateCommit(f) \/ RecordFailure(f) \/ RecordExecution(f) \/ RecordExecutionFails(f) \/ FlowFails(f)
  BY <1>2, <1>6 DEF CreateCommit, RecordFailure, RecordExecution, RecordExecutionFails, FlowFails
<1>7. CASE ApproveCommit(f)
  <2> DEFINE q == flow[f].proposal
             v == IF flow[f].verdict = "PASS" THEN [IdleFlow EXCEPT !.pc = "execute", !.proposal = q]
                  ELSE IdleFlow
  <2>1. flow' = [flow EXCEPT ![f] = v] BY <1>7 DEF ApproveCommit
  <2>2. v.pc = "execute" \/ v = IdleFlow BY StartedFlow DEF Started
  <2> HIDE DEF v
  <2> QED BY <1>2, <2>1, <2>2
<1>8. CASE ExecuteStart(f)
  <2> DEFINE v == IF executable(flow[f].proposal) THEN [flow[f] EXCEPT !.pc = "submit"] ELSE IdleFlow
  <2>1. flow' = [flow EXCEPT ![f] = v] BY <1>8 DEF ExecuteStart
  <2>2. v.pc = "submit" \/ v = IdleFlow BY <1>1 DEF FlowType
  <2> HIDE DEF v
  <2> QED BY <1>2, <2>1, <2>2
<1>9. ASSUME NEW q \in Proposals, CreateStart(f, q) \/ ApproveStart(f, q) \/ ExecuteRequest(f, q)
      PROVE  flow'[f].pc \in {"create", "approve", "submit"}
  <2> DEFINE h == broker.position[SymbolOf[q]]
  <2>1. CASE CreateStart(f, q)
    <3>1. flow' = [flow EXCEPT ![f] = Begin("create", q, h)] BY <2>1 DEF CreateStart, Begin
    <3> QED BY <1>2, <3>1, BeginPc
  <2>2. CASE ApproveStart(f, q)
    <3>1. flow' = [flow EXCEPT ![f] = Begin("approve", q, h)] BY <2>2 DEF ApproveStart, Begin
    <3> QED BY <1>2, <3>1, BeginPc
  <2>3. CASE ExecuteRequest(f, q)
    <3>1. flow' = [flow EXCEPT ![f] = [IdleFlow EXCEPT !.pc = "submit", !.proposal = q]]
      BY <2>3 DEF ExecuteRequest
    <3>2. [IdleFlow EXCEPT !.pc = "submit", !.proposal = q].pc = "submit" BY StartedFlow DEF Started
    <3> QED BY <1>2, <3>1, <3>2
  <2> QED BY <1>9, <2>1, <2>2, <2>3
<1>10. CASE Crash BY <1>10 DEF Crash
<1> QED BY <1>3, <1>4, <1>5, <1>6, <1>7, <1>8, <1>9, <1>10, FlowMoves DEF Request

\* A dashboard load is moved by its own steps, or by a crash.
LEMMA PassMoves ==
  ASSUME Control, [Next]_vars, NEW r \in Passes, pass'[r] # pass[r]
  PROVE  Crash \/ Dashboard(r)
<1>1. pass \in [Passes -> PassType] /\ ~ UNCHANGED pass BY DEF Control, PassesOK
<1>2. \A x \in Passes : (\A y \in Passes \ {x} : pass'[y] = pass[y]) => x = r BY <1>1
<1>3. ~ UNCHANGED vars BY <1>1 DEF vars
<1>4. ASSUME NEW x \in Passes, Dashboard(x) PROVE x = r
  <2>1. \A pc : Resume(x, pc) => x = r BY <1>1, <1>2 DEF Resume
  <2>2. CASE PassStart(x) BY <1>1, <1>2, <2>2 DEF PassStart
  <2>3. CASE GetLegs(x) BY <1>1, <1>2, <2>3 DEF GetLegs
  <2>4. CASE RecordBracketExit(x) \/ RecordTimeExit(x) \/ PassFails(x)
    BY <2>1, <2>4 DEF RecordBracketExit, RecordTimeExit, PassFails
  <2>5. CASE IntradayScan(x) \/ HourlyScan(x) BY <1>1, <1>2, <2>5 DEF IntradayScan, HourlyScan
  <2>6. CASE TimeExitStart(x) BY <1>1, <1>2, <2>6 DEF TimeExitStart
  <2>7. CASE CancelLegs(x) BY <1>1, <1>2, <2>7 DEF CancelLegs
  <2>8. CASE SubmitTimeExit(x)
    <3> PICK a :
          IF a.quantity = 0 THEN Resume(x, scanOf(pass[x].cur[1]))
          ELSE pass' = [pass EXCEPT ![x].pc = "book", ![x].quantity = a.quantity]
      BY <2>8 DEF SubmitTimeExit
    <3> QED BY <1>1, <1>2, <2>1
  <2>9. CASE PassEnd(x) BY <1>1, <1>2, <2>9 DEF PassEnd
  <2> QED BY <1>4, <2>2, <2>3, <2>4, <2>5, <2>6, <2>7, <2>8, <2>9 DEF Dashboard
<1>5. ASSUME NEW g \in Flows, Request(g) PROVE FALSE
  BY <1>1, <1>5 DEF Request, CreateRisk, CreateCommit, ApproveRisk, ApproveCommit, ExecuteStart, SubmitEntry,
                    RecordFailure, RecordExecution, RecordExecutionFails, FlowFails
<1>6. ASSUME NEW g \in Flows, NEW p \in Proposals,
             CreateStart(g, p) \/ ApproveStart(g, p) \/ RejectProposal(g, p) \/ ExecuteRequest(g, p)
      PROVE  FALSE
  BY <1>1, <1>6 DEF CreateStart, ApproveStart, RejectProposal, ExecuteRequest
<1>7. ASSUME NEW p \in Proposals, CancelProposal(p) \/ ExpiryPasses(p) \/ HoldingTimePasses(p) PROVE FALSE
  BY <1>1, <1>7 DEF CancelProposal, ExpiryPasses, HoldingTimePasses
<1>8. ~(ListProposals \/ SessionTurns \/ SetKillSwitch \/ BrokerRestart)
  BY <1>1 DEF ListProposals, SessionTurns, SetKillSwitch, BrokerRestart
<1> QED BY <1>3, <1>4, <1>5, <1>6, <1>7, <1>8 DEF Next

-----------------------------------------------------------------------------
(* Statuses.                                                               *)

\* How the status of p changes in one step.
StatusStep(p) ==
  LET old == proposal[p].status
      new == proposal'[p].status
  IN
  \/ new = old
  \/ \E f \in Flows : /\ flow[f].proposal = p
                      /\ \/ CreateCommit(f) /\ old = Absent /\ new \in {"PENDING_APPROVAL", "RISK_REJECTED"}
                         \/ /\ ApproveCommit(f) /\ old = "PENDING_APPROVAL"
                            /\ new = IF flow[f].verdict = "PASS" THEN "APPROVED"
                                     ELSE "RISK_REJECTED_AFTER_APPROVAL"
                         \/ RecordFailure(f) /\ new = "EXECUTION_ERROR"
                         \/ RecordExecution(f) /\ new = fromBroker(flow[f].answer.status)
  \/ /\ ~locked(p)
     /\ \/ old = "PENDING_APPROVAL" /\ new = "OWNER_REJECTED"
        \/ canMove(old, "CANCELLED") /\ new = "CANCELLED"
        \/ old \in Expirable /\ new = "EXPIRED"

\* One row is written: the others keep their status.
LEMMA OneRow ==
  ASSUME Control, NEW q \in Proposals, NEW st, proposal' = [proposal EXCEPT ![q].status = st]
  PROVE  /\ proposal'[q].status = st /\ proposal'[q].quantity = proposal[q].quantity
         /\ \A p \in Proposals \ {q} : proposal'[p] = proposal[p]
<1>1. RowOK(q, proposal[q], execution[q], order) /\ DOMAIN proposal = Proposals BY DEF Control, RowsOK
<1>2. proposal[q] \in [status: ProposalStatus \cup {Absent}, quantity: Nat, due: BOOLEAN] BY <1>1 DEF RowOK
<1>3. [proposal[q] EXCEPT !.status = st].status = st /\ [proposal[q] EXCEPT !.status = st].quantity = proposal[q].quantity
  BY <1>2
<1> QED BY <1>1, <1>3

\* The statuses move as the actions say, and in no other way.
LEMMA StatusSteps ==
  ASSUME Control, [Next]_vars, NEW p \in Proposals PROVE StatusStep(p)
<1>1. CASE UNCHANGED rows BY <1>1 DEF StatusStep, rows
<1>2. ASSUME NEW f \in Flows, CreateCommit(f) PROVE StatusStep(p)
  <2> DEFINE q    == flow[f].proposal
             next == IF flow[f].verdict = "PASS" THEN "PENDING_APPROVAL" ELSE "RISK_REJECTED"
             n    == proposedQuantity(q, flow[f].held)
             row  == [proposal[q] EXCEPT !.status = next, !.quantity = n]
  <2>1. FlowOK(flow[f], proposal, execution, order) /\ flow[f].pc = "created"
    BY <1>2 DEF CreateCommit, Control, FlowsOK
  <2>2. q \in Proposals /\ proposal[q].status = Absent BY <2>1 DEF FlowOK, Creating
  <2>3. proposal' = [proposal EXCEPT ![q] = row] BY <1>2 DEF CreateCommit
  <2>4. next \in {"PENDING_APPROVAL", "RISK_REJECTED"} OBVIOUS
  <2> HIDE DEF next, n
  <2>5. RowOK(q, proposal[q], execution[q], order) /\ DOMAIN proposal = Proposals BY <2>2 DEF Control, RowsOK
  <2>6. row.status = next BY <2>5 DEF RowOK
  <2> HIDE DEF row
  <2>7. proposal'[q] = row /\ (p # q => proposal'[p] = proposal[p]) BY <2>2, <2>3, <2>5
  <2>8. CASE p = q BY <1>2, <2>2, <2>4, <2>6, <2>7, <2>8 DEF StatusStep
  <2>9. CASE p # q BY <2>7, <2>9 DEF StatusStep
  <2> QED BY <2>8, <2>9
<1>3. ASSUME NEW f \in Flows, ApproveCommit(f) PROVE StatusStep(p)
  <2> DEFINE q  == flow[f].proposal
             st == IF flow[f].verdict = "PASS" THEN "APPROVED" ELSE "RISK_REJECTED_AFTER_APPROVAL"
  <2>1. FlowOK(flow[f], proposal, execution, order) /\ flow[f].pc = "approved"
    BY <1>3 DEF ApproveCommit, Control, FlowsOK
  <2>2. q \in Proposals /\ proposal[q].status = "PENDING_APPROVAL" BY <2>1 DEF FlowOK, Approving
  <2>3. proposal' = [proposal EXCEPT ![q].status = st] BY <1>3 DEF ApproveCommit
  <2>4. CASE p = q
    <3> HIDE DEF st
    <3>1. proposal'[q].status = st BY <2>2, <2>3, OneRow
    <3> QED BY <1>3, <2>2, <2>4, <3>1 DEF StatusStep, st
  <2>5. CASE p # q
    <3> HIDE DEF st
    <3> QED BY <2>2, <2>3, <2>5, OneRow DEF StatusStep
  <2> QED BY <2>4, <2>5
<1>4. ASSUME NEW f \in Flows, RecordFailure(f) PROVE StatusStep(p)
  <2>1. flow[f].proposal \in Proposals BY <1>4, Committing DEF RecordFailure
  <2>2. proposal' = [proposal EXCEPT ![flow[f].proposal].status = "EXECUTION_ERROR"] BY <1>4 DEF RecordFailure
  <2> QED BY <1>4, <2>1, <2>2, OneRow DEF StatusStep
<1>5. ASSUME NEW f \in Flows, RecordExecution(f) PROVE StatusStep(p)
  <2>1. flow[f].proposal \in Proposals BY <1>5, Committing DEF RecordExecution
  <2>2. proposal' = [proposal EXCEPT ![flow[f].proposal].status = fromBroker(flow[f].answer.status)]
    BY <1>5 DEF RecordExecution
  <2> QED BY <1>5, <2>1, <2>2, OneRow DEF StatusStep
<1>6. ASSUME NEW f \in Flows, NEW q \in Proposals, RejectProposal(f, q) PROVE StatusStep(p)
  <2>1. proposal' = [proposal EXCEPT ![q].status = "OWNER_REJECTED"] BY <1>6 DEF RejectProposal
  <2> QED BY <1>6, <2>1, OneRow DEF StatusStep, RejectProposal
<1>7. ASSUME NEW q \in Proposals, CancelProposal(q) PROVE StatusStep(p)
  <2>1. proposal' = [proposal EXCEPT ![q].status = "CANCELLED"] BY <1>7 DEF CancelProposal
  <2> QED BY <1>7, <2>1, OneRow DEF StatusStep, CancelProposal
<1>8. ASSUME NEW q \in Proposals, ExpiryPasses(q) PROVE StatusStep(p)
  <2>1. proposal' = [proposal EXCEPT ![q].due = TRUE] BY <1>8 DEF ExpiryPasses
  <2>2. RowOK(q, proposal[q], execution[q], order) /\ DOMAIN proposal = Proposals BY DEF Control, RowsOK
  <2>3. [proposal[q] EXCEPT !.due = TRUE].status = proposal[q].status BY <2>2 DEF RowOK
  <2>4. proposal'[p].status = proposal[p].status BY <2>1, <2>2, <2>3
  <2> QED BY <2>4 DEF StatusStep
<1>9. CASE expireOpenProposals BY <1>9, Expired DEF StatusStep
<1>10. CASE proposal' = proposal BY <1>10 DEF StatusStep
<1>11. CASE Writes
  BY <1>2, <1>3, <1>4, <1>5, <1>6, <1>7, <1>8, <1>9, <1>10, <1>11
     DEF Writes, SubmitEntry, GetLegs, RecordBracketExit, CancelLegs, SubmitTimeExit, RecordTimeExit,
         SetKillSwitch, BrokerRestart, rows
<1> QED BY <1>1, <1>11, Steps

\* What has no way on in the table of transitions.
Final == ProposalStatus \ (DOMAIN allowedTransitions)

\* A final status is none of those that some action moves on.
LEMMA FinalNames ==
  \A s \in Final : /\ s \notin {Absent, "PENDING_APPROVAL", "APPROVED", "EXECUTION_ERROR"} \cup Expirable
                   /\ ~canMove(s, "CANCELLED")
<1>1. {"PENDING_APPROVAL", "APPROVED", "EXECUTION_ERROR", "RISK_CHECKING", "REVALIDATING"}
        \subseteq DOMAIN allowedTransitions
  BY DEF allowedTransitions
<1> QED BY <1>1, Statuses DEF Final, Expirable, canMove

\* A proposal that has reached a final status (rejected, cancelled, expired,
\* filled) stays there, whatever request, load or expiry is under way.
THEOREM FinalStays ==
  Spec => [][\A p \in Proposals : proposal[p].status \in Final => proposal'[p].status = proposal[p].status]_vars
<1> DEFINE A == \A p \in Proposals : proposal[p].status \in Final => proposal'[p].status = proposal[p].status
<1>1. Control /\ [Next]_vars => [A]_vars
  <2> SUFFICES ASSUME Control, [Next]_vars, NEW p \in Proposals, proposal[p].status \in Final
               PROVE  proposal'[p].status = proposal[p].status
    OBVIOUS
  <2>1. StatusStep(p) BY StatusSteps
  <2>2. \A f \in Flows : (RecordFailure(f) \/ RecordExecution(f)) /\ flow[f].proposal = p =>
          proposal[p].status \in {"APPROVED", "EXECUTION_ERROR"}
    BY Committing DEF RecordFailure, RecordExecution
  <2> QED BY <2>1, <2>2, FinalNames DEF StatusStep
<1> QED BY <1>1, Controlled, PTL DEF Spec

-----------------------------------------------------------------------------
(* Approvals.                                                              *)

\* A proposal is approved, or its approval has passed the risk controls and
\* will commit: either way no other may be.
Claim(p) == \/ proposal[p].status = "APPROVED"
            \/ \E f \in Flows : flow[f].pc = "approved" /\ flow[f].verdict = "PASS" /\ flow[f].proposal = p

OneClaim ==
  \A p, q \in Proposals :
    Claim(p) /\ Claim(q) /\ SymbolOf[p] = SymbolOf[q] /\ kind[p].side = kind[q].side => p = q

\* A claim is on a row that the risk controls of the others see.
LEMMA ClaimSeen ==
  ASSUME Control, NEW p \in Proposals, Claim(p)
  PROVE  proposal[p].status \in {"PENDING_APPROVAL", "APPROVED"}
<1>1. \A f \in Flows : FlowOK(flow[f], proposal, execution, order) BY DEF Control, FlowsOK
<1> QED BY <1>1 DEF Claim, FlowOK, Approving

\* The risk control that lets an approval pass has seen no claim.
LEMMA PassSees ==
  ASSUME Control, NEW p \in Proposals, NEW held, NEW n, "PASS" \in verdicts(p, held, n),
         NEW q \in Proposals \ {p}, SymbolOf[p] = SymbolOf[q], kind[p].side = kind[q].side
  PROVE  ~Claim(q)
<1>1. ~mustReject(p, held, n) BY DEF verdicts
<1>2. proposal[q].status \notin Active
  <2>1. SUFFICES ASSUME proposal[q].status \in Active PROVE FALSE OBVIOUS
  <2>2. q \in findActiveExposure(p) \cap sameSymbol(p) BY <2>1 DEF findActiveExposure, sameSymbol
  <2> QED BY <1>1, <2>2 DEF mustReject
<1> QED BY <1>2, ClaimSeen DEF Active

\* Only an approval that passes the risk controls makes a claim.
LEMMA ClaimStep ==
  ASSUME Control, [Next]_vars, NEW p \in Proposals, Claim(p)', ~Claim(p)
  PROVE  \E f \in Flows : ApproveRisk(f) /\ flow[f].proposal = p /\ flow'[f].verdict = "PASS"
<1>1. CASE proposal'[p].status = "APPROVED"
  <2>1. StatusStep(p) BY StatusSteps
  <2>2. proposal[p].status # "APPROVED" BY DEF Claim
  <2>3. \A f \in Flows : RecordExecution(f) =>
          fromBroker(flow[f].answer.status) # "APPROVED"
    BY Committing, AnswerStatus DEF RecordExecution
  <2>4. \A f \in Flows : ApproveCommit(f) /\ flow[f].proposal = p /\ flow[f].verdict = "PASS" => Claim(p)
    BY DEF Claim, ApproveCommit
  <2> QED BY <1>1, <2>1, <2>2, <2>3, <2>4 DEF StatusStep
<1>2. CASE \E f \in Flows : flow'[f].pc = "approved" /\ flow'[f].verdict = "PASS" /\ flow'[f].proposal = p
  <2> PICK f \in Flows : flow'[f].pc = "approved" /\ flow'[f].verdict = "PASS" /\ flow'[f].proposal = p BY <1>2
  <2>1. flow'[f] # flow[f] BY DEF Claim
  <2>2. IdleFlow.pc # "approved" BY DEF IdleFlow
  <2> QED BY <2>1, <2>2, FlowGoes
<1> QED BY <1>1, <1>2 DEF Claim

\* At most one proposal of a symbol and a side is approved, or about to be.
LEMMA OneClaimStep ==
  ASSUME Control, OneClaim, [Next]_vars PROVE OneClaim'
<1>1. kind' = kind BY KindStays
<1>2. ASSUME NEW p \in Proposals, NEW q \in Proposals, Claim(p)', ~Claim(p), Claim(q)',
             SymbolOf[p] = SymbolOf[q], kind[p].side = kind[q].side
      PROVE  p = q
  <2> PICK f \in Flows : ApproveRisk(f) /\ flow[f].proposal = p /\ flow'[f].verdict = "PASS"
    BY <1>2, ClaimStep
  <2>1. flow \in [Flows -> FlowType] BY DEF Control, FlowsOK
  <2>2. PICK w \in verdicts(p, flow[f].held, proposal[p].quantity) :
          flow' = [flow EXCEPT ![f].pc = "approved", ![f].verdict = w]
    BY DEF ApproveRisk
  <2>3. flow'[f].verdict = w BY <2>1, <2>2 DEF FlowType
  <2>4. "PASS" \in verdicts(p, flow[f].held, proposal[p].quantity) BY <2>2, <2>3
  <2>5. p # q => ~Claim(q) BY <1>2, <2>4, PassSees
  <2>6. CASE Claim(q) BY <2>5, <2>6
  <2>7. CASE ~Claim(q)
    <3> PICK g \in Flows : ApproveRisk(g) /\ flow[g].proposal = q BY <1>2, <2>7, ClaimStep
    <3>1. PICK u \in Verdicts : flow' = [flow EXCEPT ![g].pc = "approved", ![g].verdict = u]
      BY VerdictNames DEF ApproveRisk
    <3>a. flow'[g].pc = "approved" BY <2>1, <3>1 DEF FlowType
    <3>b. flow[g].pc = "approve" BY DEF ApproveRisk
    <3>2. flow'[g] # flow[g] BY <3>a, <3>b
    <3>3. f = g BY <2>1, <2>2, <3>2
    <3> QED BY <3>3
  <2> QED BY <2>6, <2>7
<1> QED BY <1>1, <1>2 DEF OneClaim

\* So OneClaim holds for good.
LEMMA Claimed == Spec => []OneClaim
<1>1. Init => OneClaim
  <2> SUFFICES ASSUME Init PROVE OneClaim OBVIOUS
  <2>1. \A f \in Flows : flow[f].pc = "idle" BY DEF Init, IdleFlow
  <2>2. \A p \in Proposals : proposal[p].status = Absent BY DEF Init
  <2> QED BY <2>1, <2>2 DEF OneClaim, Claim, Absent
<1>2. Control /\ OneClaim /\ [Next]_vars => OneClaim' BY OneClaimStep
<1> QED BY <1>1, <1>2, Controlled, PTL DEF Spec

\* Two BUY proposals of a symbol are never approved at the same time: the
\* transaction that approves one has judged it after the other was pending.
THEOREM NeverBothApproved == Spec => []ApprovedExclusive
<1>1. Control /\ OneClaim => ApprovedExclusive
  <2> SUFFICES ASSUME Control, OneClaim PROVE ApprovedExclusive OBVIOUS
  <2> QED BY DEF OneClaim, Claim, ApprovedExclusive, isBuy
<1> QED BY <1>1, Claimed, Controlled, PTL

-----------------------------------------------------------------------------
(* Fills on record.                                                        *)

\* On which side an order counts.
sideOf(o) == IF o[2] = "entry" THEN kind[o[1]].side ELSE "SELL"

\* The fill q of o is added to the position.
Added(o, q) == accountable(SymbolOf[o[1]], sideOf(o), q) /\ account(SymbolOf[o[1]], sideOf(o), q)

\* The fill q of o becomes the position: its request had read none.
Replaced(o, q) ==
  \E f \in Flows : /\ RecordExecution(f) /\ o = entryOf(flow[f].proposal) /\ q = flow[f].answer.quantity
                  /\ isBuy(o[1]) /\ readNothing(f) /\ overwrite(SymbolOf[o[1]], q)

\* What one transaction puts on record: a fill that was not, and its booking.
Booked(o, q) ==
  /\ o \in OrderRows /\ q \in Nat /\ order[o] = NoRow /\ order' = Put(order, o, q)
  /\ Added(o, q) \/ Replaced(o, q)

\* An order is put on record once, with its booking, or nothing is.
LEMMA OrderSteps ==
  ASSUME Control, [Next]_vars
  PROVE  \/ UNCHANGED <<order, position>>
         \/ \E f \in Flows : /\ RecordExecution(f) /\ flow[f].proposal \in Proposals
                             /\ Booked(entryOf(flow[f].proposal), flow[f].answer.quantity)
         \/ \E r \in Passes : /\ RecordBracketExit(r) /\ pass[r].cur \in Brackets
                              /\ Booked(pass[r].cur, Lot)
         \/ \E r \in Passes : /\ RecordTimeExit(r) /\ pass[r].cur \in TimeExits
                              /\ Booked(pass[r].cur, pass[r].quantity)
<1>1. CASE UNCHANGED rows BY <1>1 DEF rows
<1>2. ASSUME NEW f \in Flows, RecordExecution(f)
      PROVE  flow[f].proposal \in Proposals /\ Booked(entryOf(flow[f].proposal), flow[f].answer.quantity)
  <2> DEFINE p == flow[f].proposal  a == flow[f].answer
  <2>1. p \in Proposals /\ order[entryOf(p)] = NoRow /\ a \in Answers
    BY <1>2, Committing DEF RecordExecution
  <2>2. a.quantity \in Nat BY <2>1, AnswerStatus
  <2>3. entryOf(p) \in OrderRows /\ entryOf(p)[1] = p /\ entryOf(p)[2] = "entry" BY <2>1, OrderNames
  <2>4. /\ order' = [order EXCEPT ![entryOf(p)] = a.quantity]
        /\ \/ accountable(SymbolOf[p], kind[p].side, a.quantity) /\ account(SymbolOf[p], kind[p].side, a.quantity)
           \/ readNothing(f) /\ isBuy(p) /\ overwrite(SymbolOf[p], a.quantity)
    BY <1>2 DEF RecordExecution
  <2>5. sideOf(entryOf(p)) = kind[p].side BY <2>3 DEF sideOf
  <2>a. readNothing(f) /\ isBuy(p) /\ overwrite(SymbolOf[p], a.quantity) => Replaced(entryOf(p), a.quantity)
    BY <1>2, <2>3 DEF Replaced
  <2> HIDE DEF p, a
  <2>b. Added(entryOf(p), a.quantity) \/ Replaced(entryOf(p), a.quantity) BY <2>3, <2>4, <2>5, <2>a DEF Added
  <2>6. Booked(entryOf(p), a.quantity) BY <2>1, <2>2, <2>3, <2>4, <2>b DEF Booked, Put
  <2> QED BY <2>1, <2>6 DEF p, a
<1>3. ASSUME NEW r \in Passes, RecordBracketExit(r), ~ UNCHANGED <<order, position>>
      PROVE  pass[r].cur \in Brackets /\ Booked(pass[r].cur, Lot)
  <2> DEFINE o == pass[r].cur
  <2>1. PassOK(pass[r], execution) /\ pass[r].pc = "record" BY <1>3 DEF RecordBracketExit, Control, PassesOK
  <2>2. o \in Brackets BY <2>1 DEF PassOK
  <2>3. o \in OrderRows /\ o = <<o[1], "bracket">> /\ o[2] # "entry" BY <2>2, OrderNames
  <2>4. recordable(o[1]) /\ order' = [order EXCEPT ![<<o[1], "bracket">>] = Lot]
        /\ account(SymbolOf[o[1]], "SELL", Lot)
    BY <1>3 DEF RecordBracketExit
  <2>5. order[<<o[1], "bracket">>] = NoRow /\ accountable(SymbolOf[o[1]], "SELL", Lot) BY <2>4 DEF recordable
  <2> HIDE DEF o
  <2>6. sideOf(o) = "SELL" BY <2>3 DEF sideOf
  <2>7. Booked(o, Lot) BY <2>3, <2>4, <2>5, <2>6, Shape DEF Booked, Added, Put
  <2> QED BY <2>2, <2>7 DEF o
<1>4. ASSUME NEW r \in Passes, RecordTimeExit(r), ~ UNCHANGED <<order, position>>
      PROVE  pass[r].cur \in TimeExits /\ Booked(pass[r].cur, pass[r].quantity)
  <2> DEFINE o == pass[r].cur  q == pass[r].quantity
  <2>1. PassOK(pass[r], execution) /\ pass[r].pc = "book" BY <1>4 DEF RecordTimeExit, Control, PassesOK
  <2>2. o \in TimeExits /\ q \in Nat BY <2>1 DEF PassOK, PassType
  <2>3. o \in OrderRows /\ o[2] # "entry" BY <2>2, OrderNames
  <2>4. order[o] = NoRow /\ accountable(SymbolOf[o[1]], "SELL", q)
        /\ order' = [order EXCEPT ![o] = q] /\ account(SymbolOf[o[1]], "SELL", q)
    BY <1>4 DEF RecordTimeExit
  <2> HIDE DEF o, q
  <2>5. sideOf(o) = "SELL" BY <2>3 DEF sideOf
  <2>6. Booked(o, q) BY <2>2, <2>3, <2>4, <2>5 DEF Booked, Added, Put
  <2> QED BY <2>2, <2>6 DEF o, q
<1>5. CASE Writes
  BY <1>2, <1>3, <1>4, <1>5
     DEF Writes, CreateCommit, ApproveCommit, SubmitEntry, RecordFailure, RejectProposal, GetLegs, CancelLegs,
         SubmitTimeExit, CancelProposal, ExpiryPasses, SetKillSwitch, BrokerRestart, rows
<1> QED BY <1>1, <1>5, Steps

-----------------------------------------------------------------------------
(* The ledger: sums, as values of the state's functions.                   *)

OrdersOf(s) == {o \in OrderRows : SymbolOf[o[1]] = s}

\* What order row o counts for, when or is the table of orders.
counted(o, or) == IF or[o] = NoRow THEN 0 ELSE signed(sideOf(o), or[o])

\* What the orders of s on record add up to.
bookedSum(s, or) == SumOver([o \in OrdersOf(s) |-> counted(o, or)], OrdersOf(s))

\* There are finitely many orders.
LEMMA OrdersFinite ==
  /\ IsFiniteSet(OrderRows) /\ IsFiniteSet(Orders)
  /\ \A s : IsFiniteSet(OrdersOf(s))
<1>1. IsFiniteSet(Proposals) BY ProposalsAssumption
<1>2. IsFiniteSet({"entry"} \cup TimeReasons) /\ IsFiniteSet({"bracket"})
  <2>1. IsFiniteSet({"bracket"}) /\ IsFiniteSet({"entry"}) BY FS_Singleton
  <2>2. IsFiniteSet({"MAX_HOLDING_TIME"}) /\ IsFiniteSet({"END_OF_DAY"}) BY FS_Singleton
  <2>3. IsFiniteSet({"MAX_HOLDING_TIME"} \cup {"END_OF_DAY"}) BY <2>2, FS_Union
  <2>4. TimeReasons = {"MAX_HOLDING_TIME"} \cup {"END_OF_DAY"} BY DEF TimeReasons
  <2> QED BY <2>1, <2>3, <2>4, FS_Union
<1>3. IsFiniteSet(Orders) BY <1>1, <1>2, FS_Product DEF Orders
<1>4. IsFiniteSet(Proposals \X {"bracket"}) BY <1>1, <1>2, FS_Product
<1>5. IsFiniteSet(OrderRows) BY <1>3, <1>4, FS_Union DEF OrderRows
<1>6. \A s : OrdersOf(s) \subseteq OrderRows BY DEF OrdersOf
<1> QED BY <1>3, <1>5, <1>6, FS_Subset

\* What counts is an integer.
LEMMA CountedInt ==
  ASSUME NEW or \in [OrderRows -> Nat \cup {NoRow}], NEW o \in OrderRows
  PROVE  counted(o, or) \in Int
<1>1. or[o] \in Nat \/ or[o] = NoRow OBVIOUS
<1> QED BY <1>1, SignedSum DEF counted

\* A fill that is put on record counts for its symbol, and for no other.
LEMMA SumBooked ==
  ASSUME NEW or \in [OrderRows -> Nat \cup {NoRow}], NEW o \in OrderRows, or[o] = NoRow, NEW q \in Nat, NEW s
  PROVE  /\ bookedSum(s, or) \in Int
         /\ s = SymbolOf[o[1]] => bookedSum(s, Put(or, o, q)) = bookedSum(s, or) + signed(sideOf(o), q)
         /\ s # SymbolOf[o[1]] => bookedSum(s, Put(or, o, q)) = bookedSum(s, or)
<1> DEFINE d   == signed(sideOf(o), q)
           or2 == Put(or, o, q)
           S   == OrdersOf(s)
           f   == [i \in S |-> counted(i, or)]
           g   == [i \in S |-> counted(i, or2)]
<1>2. d \in Int BY SignedSum
<1>3. or2[o] = q /\ q # NoRow /\ \A i \in OrderRows \ {o} : or2[i] = or[i] BY DEF Put, NoRow
<1>4. counted(o, or) = 0 /\ counted(o, or2) = d BY <1>3 DEF counted
<1>5. \A i \in OrderRows \ {o} : counted(i, or2) = counted(i, or) BY <1>3 DEF counted
<1> HIDE DEF d, or2
<1>7. S \subseteq OrderRows /\ IsFiniteSet(S) BY OrdersFinite DEF OrdersOf
<1>8. f \in [S -> Int] BY <1>7, CountedInt
<1>9. bookedSum(s, or) = SumOver(f, S) /\ bookedSum(s, or2) = SumOver(g, S) BY DEF bookedSum
<1>10. ASSUME s = SymbolOf[o[1]] PROVE SumOver(g, S) = SumOver(f, S) + d
  <2>1. o \in S BY <1>10 DEF OrdersOf
  <2>2. g = [f EXCEPT ![o] = f[o] + d]
    <3>1. f[o] + d = d BY <1>2, <1>4, <2>1
    <3>2. \A i \in S : g[i] = [f EXCEPT ![o] = d][i] BY <1>4, <1>5, <1>7, <2>1
    <3> QED BY <3>1, <3>2
  <2> HIDE DEF g, f, S
  <2> QED BY <1>2, <1>7, <1>8, <2>1, <2>2, SumStep
<1>11. ASSUME s # SymbolOf[o[1]] PROVE g = f
  <2>1. o \notin S BY <1>11 DEF OrdersOf
  <2> QED BY <1>5, <1>7, <2>1
<1> HIDE DEF f, g, S
<1>12. SumOver(f, S) \in Int BY <1>7, <1>8, SumIsInt
<1> QED BY <1>9, <1>10, <1>11, <1>12 DEF d, or2

\* Without a BUY on record there is nothing to hold.
LEMMA NothingBought ==
  ASSUME NEW or \in [OrderRows -> Nat \cup {NoRow}], KindOK, NEW s,
         \A o \in OrdersOf(s) : sideOf(o) = "BUY" => or[o] \in {0, NoRow}
  PROVE  bookedSum(s, or) \in Int /\ bookedSum(s, or) <= 0
<1> DEFINE S == OrdersOf(s)
           f == [o \in S |-> counted(o, or)]
<1>1. S \subseteq OrderRows /\ IsFiniteSet(S) BY OrdersFinite DEF OrdersOf
<1>2. f \in [S -> Int] BY <1>1, CountedInt
<1>3. ASSUME NEW o \in S PROVE f[o] <= 0
  <2>1. sideOf(o) \in {"BUY", "SELL"} BY <1>1, OrderNames, Shape DEF sideOf
  <2>2. or[o] \in Nat \cup {NoRow} BY <1>1
  <2>3. CASE or[o] = NoRow BY <2>3 DEF counted
  <2>4. CASE or[o] # NoRow
    <3>1. f[o] = signed(sideOf(o), or[o]) /\ or[o] \in Nat BY <2>2, <2>4 DEF counted
    <3>2. sideOf(o) = "BUY" => or[o] = 0 BY <2>4
    <3>3. sideOf(o) = "SELL" => f[o] = 0 - or[o] BY <3>1, SignedSum
    <3>4. or[o] = 0 => f[o] = 0 BY <3>1, SignedSum
    <3> HIDE DEF f
    <3> QED BY <2>1, <3>1, <3>2, <3>3, <3>4
  <2> QED BY <2>3, <2>4
<1> HIDE DEF f, S
<1>4. \A o \in S : f[o] <= (IF o \in {} THEN 0 ELSE 0) BY <1>3
<1>5. SumOver(f, S) <= 0 * Cardinality({}) BY <1>1, <1>2, <1>4, SumBounds
<1>6. Cardinality({}) = 0 BY FS_EmptySet
<1>7. SumOver(f, S) \in Int BY <1>1, <1>2, SumIsInt
<1> QED BY <1>5, <1>6, <1>7 DEF bookedSum, f, S

\* Ledger says it with the fold of the community modules: the sum is the same.
LEMMA BookedSum ==
  ASSUME order \in [OrderRows -> Nat \cup {NoRow}], NEW s
  PROVE  MapThenSumSet(bookedQuantity, OrdersOf(s)) = bookedSum(s, order)
<1> DEFINE S    == OrdersOf(s)
           f    == [o \in S |-> counted(o, order)]
           D(g) == [u \in SUBSET S |-> IF u = {} THEN 0 ELSE bookedQuantity(pick(u)) + g[u \ {pick(u)}]]
           it   == CHOOSE g : g = D(g)
<1>1. S \subseteq OrderRows /\ IsFiniteSet(S) BY OrdersFinite DEF OrdersOf
<1>2. f \in [S -> Int] BY <1>1, CountedInt
<1>3. \A o \in S : f[o] = bookedQuantity(o) BY DEF counted, bookedQuantity, sideOf
<1>4. MapThenSumSet(bookedQuantity, S) = it[S] BY DEF MapThenSumSet, MapThenFoldSet, pick
<1> HIDE DEF f, S
<1>5. \A u \in SUBSET S : u # {} => pick(u) \in S BY DEF pick
<1>6. ASSUME NEW g PROVE Built(g, f, S) <=> g = D(g) BY <1>3, <1>5 DEF Built
<1>7. \E g : Built(g, f, S) BY <1>1, <1>2, FixExists
<1>8. it = D(it) BY <1>6, <1>7
<1> HIDE DEF it
<1>9. Built(it, f, S) BY <1>6, <1>8
<1>10. it[S] = SumOver(f, S) BY <1>1, <1>2, <1>9, FixIsSum
<1> QED BY <1>4, <1>10 DEF bookedSum, f, S

-----------------------------------------------------------------------------
(* The broker's books.                                                     *)

\* What a time exit asks for.
exitRequest(o) == request(o[1], o, SymbolOf[o[1]], "SELL", Lot, "MARKET", FALSE)

\* What a leg that fills sells.
LegSold(b, b2, p) ==
  /\ Settled(b, b2, p, "FILLED")
  /\ b2.position = [b.position EXCEPT ![b.legs[p].symbol] = b.position[b.legs[p].symbol] - b.legs[p].quantity]

\* A submission that reached the broker filled r, or found it known.
LEMMA SubmitFills ==
  ASSUME Control, NEW r, Proper(r), NEW a, Submit(r, a), broker' # broker
  PROVE  \E st \in OrderStatus, n \in Nat : Filled(broker, broker', r, st, n)
<1>1. broker' \in submitOrder(broker, r) BY DEF Submit
<1>2. broker \in BrokerRec /\ IsRequest(r) BY DEF Proper, Control, BrokerOK
<1> QED BY <1>1, <1>2, SubmitOutcome

\* The broker moves when an order reaches it, a leg fills or is cancelled, or
\* it forgets.
LEMMA BrokerSteps ==
  ASSUME Control, [Next]_vars
  PROVE  \/ broker' = broker
         \/ BrokerRestart
         \/ \E f \in Flows : /\ SubmitEntry(f) /\ flow[f].proposal \in Proposals
                             /\ \E st \in OrderStatus, n \in Nat :
                                  Filled(broker, broker', entryRequest(flow[f].proposal), st, n)
         \/ \E r \in Passes : /\ SubmitTimeExit(r) /\ pass[r].cur \in TimeExits
                              /\ \E st \in OrderStatus, n \in Nat :
                                   Filled(broker, broker', exitRequest(pass[r].cur), st, n)
         \/ \E r \in Passes : GetLegs(r) /\ \E p \in Proposals : LegSold(broker, broker', p)
         \/ \E r \in Passes : /\ CancelLegs(r) /\ pass[r].cur \in TimeExits
                              /\ Settled(broker, broker', pass[r].cur[1], "CANCELLED")
                              /\ broker'.position = broker.position
<1> SUFFICES ASSUME broker' # broker, Writes, ~BrokerRestart
             PROVE  \/ \E f \in Flows : /\ SubmitEntry(f) /\ flow[f].proposal \in Proposals
                                        /\ \E st \in OrderStatus, n \in Nat :
                                             Filled(broker, broker', entryRequest(flow[f].proposal), st, n)
                    \/ \E r \in Passes : /\ SubmitTimeExit(r) /\ pass[r].cur \in TimeExits
                                         /\ \E st \in OrderStatus, n \in Nat :
                                              Filled(broker, broker', exitRequest(pass[r].cur), st, n)
                    \/ \E r \in Passes : GetLegs(r) /\ \E p \in Proposals : LegSold(broker, broker', p)
                    \/ \E r \in Passes : /\ CancelLegs(r) /\ pass[r].cur \in TimeExits
                                         /\ Settled(broker, broker', pass[r].cur[1], "CANCELLED")
                                         /\ broker'.position = broker.position
  BY Steps
<1>0. broker \in BrokerRec /\ \A r \in Passes : PassOK(pass[r], execution)
  BY DEF Control, BrokerOK, PassesOK
<1>1. ASSUME NEW f \in Flows, SubmitEntry(f)
      PROVE  /\ flow[f].proposal \in Proposals
             /\ \E st \in OrderStatus, n \in Nat : Filled(broker, broker', entryRequest(flow[f].proposal), st, n)
  <2>1. PICK a : Submit(entryRequest(flow[f].proposal), a) BY <1>1 DEF SubmitEntry
  <2>2. Proper(entryRequest(flow[f].proposal)) /\ flow[f].proposal \in Proposals
    BY <1>1, EntryProper DEF SubmitEntry
  <2> QED BY <2>1, <2>2, SubmitFills
<1>2. ASSUME NEW r \in Passes, SubmitTimeExit(r)
      PROVE  /\ pass[r].cur \in TimeExits
             /\ \E st \in OrderStatus, n \in Nat : Filled(broker, broker', exitRequest(pass[r].cur), st, n)
  <2>1. PICK a : Submit(exitRequest(pass[r].cur), a) BY <1>2 DEF SubmitTimeExit, exitRequest
  <2>2. Proper(exitRequest(pass[r].cur)) /\ pass[r].cur \in TimeExits
    BY <1>2, ExitProper DEF SubmitTimeExit, exitRequest
  <2> QED BY <2>1, <2>2, SubmitFills
<1>3. ASSUME NEW r \in Passes, GetLegs(r) PROVE \E p \in Proposals : LegSold(broker, broker', p)
  <2>1. PICK o \in pass[r].todo : broker' \in getOrder(broker, o[1]) BY <1>3 DEF GetLegs
  <2>2. pass[r].todo \subseteq OrderRows BY <1>0 DEF PassOK, PassType
  <2> DEFINE p == o[1]
  <2>3. p \in Proposals BY <2>1, <2>2, OrderNames
  <2> HIDE DEF p
  <2>4. broker' \in getOrder(broker, p) BY <2>1 DEF p
  <2>5. LegSold(broker, broker', p) BY <1>0, <2>3, <2>4, GetOutcome DEF LegSold
  <2> QED BY <2>3, <2>5
<1>4. ASSUME NEW r \in Passes, CancelLegs(r)
      PROVE  /\ pass[r].cur \in TimeExits
             /\ Settled(broker, broker', pass[r].cur[1], "CANCELLED") /\ broker'.position = broker.position
  <2>1. broker' = cancelOrder(broker, pass[r].cur[1]) BY <1>4 DEF CancelLegs
  <2>2. pass[r].cur \in TimeExits BY <1>0, <1>4 DEF PassOK, CancelLegs
  <2>3. pass[r].cur[1] \in Proposals BY <2>2, OrderNames
  <2> QED BY <1>0, <2>1, <2>2, <2>3, CancelOutcome
<1> QED
  BY <1>1, <1>2, <1>3, <1>4
     DEF Writes, CreateCommit, ApproveCommit, RecordFailure, RecordExecution, RejectProposal, RecordBracketExit,
         RecordTimeExit, CancelProposal, ExpiryPasses, SetKillSwitch

EntriesAndExits(s) == {o \in Orders : SymbolOf[o[1]] = s}
BracketsOf(s)      == {p \in Proposals : SymbolOf[p] = s}

\* What broker b dealt for order o, and sold with a leg of p's bracket.
dealt(o, b) == signed(sideOf(o), b.order[o].quantity)
sold(p, b)  == IF b.legs[p].status = "FILLED" THEN b.legs[p].quantity ELSE 0

boughtOf(s, b) == SumOver([o \in EntriesAndExits(s) |-> dealt(o, b)], EntriesAndExits(s))
soldOf(s, b)   == SumOver([p \in BracketsOf(s) |-> sold(p, b)], BracketsOf(s))

BooksOK(b) == \A s \in Symbols : b.position[s] = boughtOf(s, b) - soldOf(s, b)

\* What is dealt and sold are integers, and the sums too.
LEMMA DealtInt ==
  ASSUME NEW b \in BrokerRec
  PROVE  /\ \A o \in Orders : dealt(o, b) \in Int /\ b.order[o].quantity \in Nat
         /\ \A p \in Proposals : sold(p, b) \in Nat
         /\ \A s : /\ IsFiniteSet(EntriesAndExits(s)) /\ IsFiniteSet(BracketsOf(s))
                   /\ [o \in EntriesAndExits(s) |-> dealt(o, b)] \in [EntriesAndExits(s) -> Int]
                   /\ [p \in BracketsOf(s) |-> sold(p, b)] \in [BracketsOf(s) -> Int]
                   /\ boughtOf(s, b) \in Int /\ soldOf(s, b) \in Int
<1>1. \A o \in Orders : b.order[o].quantity \in Nat BY DEF BrokerRec, OrderRec, Unknown
<1>2. \A o \in Orders : dealt(o, b) \in Int BY <1>1, SignedSum DEF dealt
<1>3. \A p \in Proposals : sold(p, b) \in Nat BY DEF BrokerRec, LegsRec, sold
<1>4. ASSUME NEW s
      PROVE  /\ IsFiniteSet(EntriesAndExits(s)) /\ IsFiniteSet(BracketsOf(s))
             /\ [o \in EntriesAndExits(s) |-> dealt(o, b)] \in [EntriesAndExits(s) -> Int]
             /\ [p \in BracketsOf(s) |-> sold(p, b)] \in [BracketsOf(s) -> Int]
  <2>1. EntriesAndExits(s) \subseteq Orders /\ BracketsOf(s) \subseteq Proposals BY DEF EntriesAndExits, BracketsOf
  <2>2. IsFiniteSet(EntriesAndExits(s)) /\ IsFiniteSet(BracketsOf(s))
    BY <2>1, OrdersFinite, ProposalsAssumption, FS_Subset
  <2> QED BY <1>2, <1>3, <2>1, <2>2
<1>5. ASSUME NEW s PROVE boughtOf(s, b) \in Int /\ soldOf(s, b) \in Int
  BY <1>4, SumIsInt DEF boughtOf, soldOf
<1> QED BY <1>1, <1>2, <1>3, <1>4, <1>5

\* One order fills: its quantity counts, once, for its symbol.
LEMMA DealtStep ==
  ASSUME NEW b \in BrokerRec, NEW b2 \in BrokerRec, BooksOK(b), NEW o \in Orders, b.order[o].quantity = 0,
         \A i \in Orders \ {o} : b2.order[i] = b.order[i],
         \A p \in Proposals : sold(p, b2) = sold(p, b),
         b2.position = [b.position EXCEPT ![SymbolOf[o[1]]] =
                          b.position[SymbolOf[o[1]]] + signed(sideOf(o), b2.order[o].quantity)]
  PROVE  BooksOK(b2)
<1> DEFINE t == SymbolOf[o[1]]  d == signed(sideOf(o), b2.order[o].quantity)
<1>1. t \in Symbols BY OrderNames, Shape
<1>2. dealt(o, b2) = d /\ d \in Int BY DealtInt DEF dealt
<1>3. dealt(o, b) = 0 BY SignedSum DEF dealt
<1>4. \A i \in Orders \ {o} : dealt(i, b2) = dealt(i, b) BY DEF dealt
<1> HIDE DEF d
<1>5. SUFFICES ASSUME NEW s \in Symbols PROVE b2.position[s] = boughtOf(s, b2) - soldOf(s, b2)
  BY DEF BooksOK
<1> DEFINE S == EntriesAndExits(s)
           f == [i \in S |-> dealt(i, b)]
           g == [i \in S |-> dealt(i, b2)]
<1>6. S \subseteq Orders /\ IsFiniteSet(S) /\ f \in [S -> Int] /\ g \in [S -> Int]
  BY DealtInt DEF EntriesAndExits
<1>7. soldOf(s, b2) = soldOf(s, b)
  <2>1. [p \in BracketsOf(s) |-> sold(p, b2)] = [p \in BracketsOf(s) |-> sold(p, b)] BY DEF BracketsOf
  <2> QED BY <2>1 DEF soldOf
<1>8. b.position[s] = SumOver(f, S) - soldOf(s, b) /\ soldOf(s, b) \in Int /\ SumOver(f, S) \in Int
  BY DealtInt DEF BooksOK, boughtOf
<1>9. CASE s = t
  <2>1. o \in S BY <1>9 DEF EntriesAndExits
  <2>2. g[o] = f[o] + d BY <1>2, <1>3, <2>1
  <2>3. \A i \in S \ {o} : g[i] = f[i] BY <1>4, <1>6
  <2>4. b2.position[s] = b.position[s] + d BY <1>1, <1>9 DEF BrokerRec, d
  <2> HIDE DEF g, f, S
  <2>5. SumOver(g, S) = SumOver(f, S) + d BY <1>2, <1>6, <2>1, <2>2, <2>3, SumChange
  <2>6. b2.position[s] = SumOver(g, S) - soldOf(s, b2) BY <1>2, <1>7, <1>8, <2>4, <2>5
  <2> QED BY <2>6 DEF g, S, boughtOf
<1>10. CASE s # t
  <2>1. o \notin S BY <1>10 DEF EntriesAndExits
  <2>2. g = f BY <1>4, <1>6, <2>1
  <2>3. b2.position[s] = b.position[s] BY <1>1, <1>10 DEF BrokerRec
  <2> HIDE DEF g, f, S
  <2>4. b2.position[s] = SumOver(g, S) - soldOf(s, b2) BY <1>7, <1>8, <2>2, <2>3
  <2> QED BY <2>4 DEF g, S, boughtOf
<1> QED BY <1>9, <1>10

\* One leg fills: what its entry bought is sold, once.
LEMMA SoldStep ==
  ASSUME NEW b \in BrokerRec, NEW b2 \in BrokerRec, BooksOK(b), NEW p \in Proposals, LegSold(b, b2, p),
         b.legs[p].symbol = SymbolOf[p]
  PROVE  BooksOK(b2)
<1> DEFINE t == SymbolOf[p]  n == b.legs[p].quantity
           leg == [status |-> "FILLED", symbol |-> b.legs[p].symbol, quantity |-> n]
<1>1. t \in Symbols /\ n \in Nat BY Shape DEF BrokerRec, LegsRec
<1>2. b2.legs = [b.legs EXCEPT ![p] = leg] /\ b2.order = b.order /\ b.legs[p].status = "PENDING"
      /\ b2.position = [b.position EXCEPT ![t] = b.position[t] - n]
  BY DEF LegSold, Settled
<1>3. leg.status = "FILLED" /\ leg.quantity = n OBVIOUS
<1> HIDE DEF leg, n
<1>4. b2.legs[p] = leg /\ \A q \in Proposals \ {p} : b2.legs[q] = b.legs[q] BY <1>2 DEF BrokerRec
<1>5. sold(p, b) = 0 /\ sold(p, b2) = n BY <1>2, <1>3, <1>4 DEF sold
<1>6. \A q \in Proposals \ {p} : sold(q, b2) = sold(q, b) BY <1>4 DEF sold
<1>7. SUFFICES ASSUME NEW s \in Symbols PROVE b2.position[s] = boughtOf(s, b2) - soldOf(s, b2)
  BY DEF BooksOK
<1> DEFINE S == BracketsOf(s)
           f == [q \in S |-> sold(q, b)]
           g == [q \in S |-> sold(q, b2)]
<1>8. S \subseteq Proposals /\ IsFiniteSet(S) /\ f \in [S -> Int] /\ g \in [S -> Int]
  BY DealtInt DEF BracketsOf
<1>9. boughtOf(s, b2) = boughtOf(s, b) BY <1>2 DEF boughtOf, dealt
<1>10. b.position[s] = boughtOf(s, b) - SumOver(f, S) /\ boughtOf(s, b) \in Int /\ SumOver(f, S) \in Int
  BY DealtInt DEF BooksOK, soldOf
<1>11. CASE s = t
  <2>1. p \in S BY <1>11 DEF BracketsOf
  <2>2. g[p] = f[p] + n BY <1>1, <1>5, <2>1
  <2>3. \A q \in S \ {p} : g[q] = f[q] BY <1>6, <1>8
  <2>4. b2.position[s] = b.position[s] - n BY <1>1, <1>2, <1>11 DEF BrokerRec
  <2> HIDE DEF g, f, S
  <2>5. SumOver(g, S) = SumOver(f, S) + n BY <1>1, <1>8, <2>1, <2>2, <2>3, SumChange
  <2>6. b2.position[s] = boughtOf(s, b2) - SumOver(g, S) BY <1>1, <1>9, <1>10, <2>4, <2>5
  <2> QED BY <2>6 DEF g, S, soldOf
<1>12. CASE s # t
  <2>1. p \notin S BY <1>12 DEF BracketsOf
  <2>2. g = f BY <1>6, <1>8, <2>1
  <2>3. b2.position[s] = b.position[s] BY <1>1, <1>2, <1>12 DEF BrokerRec
  <2> HIDE DEF g, f, S
  <2>4. b2.position[s] = boughtOf(s, b2) - SumOver(g, S) BY <1>9, <1>10, <2>2, <2>3
  <2> QED BY <2>4 DEF g, S, soldOf
<1> QED BY <1>11, <1>12

\* A broker that has just started has dealt nothing.
LEMMA EmptyBooks == emptyBroker \in BrokerRec /\ BooksOK(emptyBroker)
<1>1. emptyBroker \in BrokerRec BY EmptyBrokerOK DEF BrokerOK
<1>2. SUFFICES ASSUME NEW s \in Symbols
               PROVE  emptyBroker.position[s] = boughtOf(s, emptyBroker) - soldOf(s, emptyBroker)
  BY <1>1 DEF BooksOK
<1>3. \A o \in Orders : dealt(o, emptyBroker) = 0
  BY SignedSum DEF dealt, emptyBroker, Unknown
<1>4. \A p \in Proposals : sold(p, emptyBroker) = 0 BY DEF sold, emptyBroker, legsNone
<1>5. EntriesAndExits(s) \subseteq Orders /\ BracketsOf(s) \subseteq Proposals BY DEF EntriesAndExits, BracketsOf
<1>6. boughtOf(s, emptyBroker) = 0 BY <1>1, <1>3, <1>5, DealtInt, SumOfZeros DEF boughtOf
<1>7. soldOf(s, emptyBroker) = 0 BY <1>1, <1>4, <1>5, DealtInt, SumOfZeros DEF soldOf
<1> QED BY <1>6, <1>7 DEF emptyBroker

\* An order that reaches the broker is dealt once.
LEMMA FilledBooks ==
  ASSUME Control, BooksOK(broker), NEW b2 \in BrokerRec, NEW r, Proper(r), NEW st \in OrderStatus, NEW n \in Nat,
         Filled(broker, b2, r, st, n), r.side = sideOf(r.order), r.symbol = SymbolOf[r.order[1]]
  PROVE  BooksOK(b2)
<1> DEFINE rec == [status |-> st, quantity |-> n]  o == r.order
<1>1. broker \in BrokerRec /\ o \in Orders /\ r.proposal \in Proposals
  BY DEF Control, BrokerOK, Proper, IsRequest
<1>2. rec.quantity = n /\ Unknown.quantity = 0 BY DEF Unknown
<1>3. b2.order = [broker.order EXCEPT ![o] = rec] /\ broker.order[o] = Unknown BY DEF Filled
<1> HIDE DEF rec
<1>4. b2.order[o].quantity = n /\ \A i \in Orders \ {o} : b2.order[i] = broker.order[i]
  BY <1>1, <1>2, <1>3 DEF BrokerRec
<1>5. \A p \in Proposals : sold(p, b2) = sold(p, broker)
  <2>1. CASE b2.legs = broker.legs BY <2>1 DEF sold
  <2>2. CASE b2.legs # broker.legs
    <3> DEFINE leg == [status |-> "PENDING", symbol |-> r.symbol, quantity |-> r.quantity]
    <3>1. r.bracket /\ b2.legs = [broker.legs EXCEPT ![r.proposal] = leg] BY <2>2 DEF Filled
    <3>2. o = entryOf(r.proposal) BY <3>1 DEF Proper
    <3>3. broker.legs[r.proposal].status = "none" BY <1>1, <1>3, <3>2 DEF Control, BrokerOK
    <3>4. leg.status # "FILLED" OBVIOUS
    <3> HIDE DEF leg
    <3>5. b2.legs[r.proposal] = leg /\ \A p \in Proposals \ {r.proposal} : b2.legs[p] = broker.legs[p]
      BY <1>1, <3>1 DEF BrokerRec
    <3> QED BY <3>3, <3>4, <3>5 DEF sold
  <2> QED BY <2>1, <2>2
<1>6. b2.position = [broker.position EXCEPT ![SymbolOf[o[1]]] =
                       broker.position[SymbolOf[o[1]]] + signed(sideOf(o), b2.order[o].quantity)]
  BY <1>4 DEF Filled
<1>7. broker.order[o].quantity = 0 BY <1>2, <1>3
<1> HIDE DEF o
<1> QED BY <1>1, <1>4, <1>5, <1>6, <1>7, DealtStep

\* The requests of the two services say which side they are on.
LEMMA RequestSides ==
  /\ \A p \in Proposals : LET r == entryRequest(p) IN
       r.order = entryOf(p) /\ r.side = sideOf(r.order) /\ r.symbol = SymbolOf[r.order[1]] /\ r.proposal = p
  /\ \A o \in TimeExits : LET r == exitRequest(o) IN
       r.order = o /\ r.side = sideOf(r.order) /\ r.symbol = SymbolOf[r.order[1]] /\ r.proposal = o[1]
BY OrderNames DEF entryRequest, exitRequest, request, sideOf

\* What the broker holds changes by what it deals.
LEMMA BooksStep ==
  ASSUME Control, BooksOK(broker), [Next]_vars
  PROVE  BooksOK(broker)'
<1>1. kind' = kind BY KindStays
<1>2. Control' BY ControlStep
<1>3. broker \in BrokerRec /\ broker' \in BrokerRec BY <1>2 DEF Control, BrokerOK
<1>4. SUFFICES BooksOK(broker')
  <2>1. \A o : dealt(o, broker)' = dealt(o, broker') BY <1>1 DEF dealt, sideOf
  <2>2. ASSUME NEW s PROVE boughtOf(s, broker)' = boughtOf(s, broker')
    <3>1. [o \in EntriesAndExits(s) |-> dealt(o, broker)]' = [o \in EntriesAndExits(s) |-> dealt(o, broker')]
      BY <2>1
    <3> QED BY <3>1 DEF boughtOf
  <2>3. ASSUME NEW s PROVE soldOf(s, broker)' = soldOf(s, broker') BY DEF soldOf, sold
  <2> QED BY <2>2, <2>3 DEF BooksOK
<1>5. CASE broker' = broker BY <1>5
<1>6. CASE BrokerRestart BY <1>6, EmptyBooks DEF BrokerRestart
<1>7. ASSUME NEW r, Proper(r), r.side = sideOf(r.order), r.symbol = SymbolOf[r.order[1]],
             \E st \in OrderStatus, n \in Nat : Filled(broker, broker', r, st, n)
      PROVE  BooksOK(broker')
  BY <1>3, <1>7, FilledBooks
<1>8. ASSUME NEW f \in Flows, SubmitEntry(f), flow[f].proposal \in Proposals,
             \E st \in OrderStatus, n \in Nat : Filled(broker, broker', entryRequest(flow[f].proposal), st, n)
      PROVE  BooksOK(broker')
  BY <1>7, <1>8, RequestSides, EntryProper DEF SubmitEntry
<1>9. ASSUME NEW r \in Passes, SubmitTimeExit(r), pass[r].cur \in TimeExits,
             \E st \in OrderStatus, n \in Nat : Filled(broker, broker', exitRequest(pass[r].cur), st, n)
      PROVE  BooksOK(broker')
  <2>1. Proper(exitRequest(pass[r].cur)) BY <1>9, ExitProper DEF SubmitTimeExit, exitRequest
  <2> QED BY <1>7, <1>9, <2>1, RequestSides
<1>10. ASSUME NEW p \in Proposals, LegSold(broker, broker', p) PROVE BooksOK(broker')
  <2>1. broker.legs[p].symbol = SymbolOf[p] BY <1>10 DEF LegSold, Settled, Control, BrokerOK
  <2> QED BY <1>3, <1>10, <2>1, SoldStep
<1>11. ASSUME NEW p \in Proposals, Settled(broker, broker', p, "CANCELLED"), broker'.position = broker.position
       PROVE  BooksOK(broker')
  <2> DEFINE leg == [status |-> "CANCELLED", symbol |-> broker.legs[p].symbol, quantity |-> broker.legs[p].quantity]
  <2>1. broker'.legs = [broker.legs EXCEPT ![p] = leg] /\ broker.legs[p].status = "PENDING"
        /\ broker'.order = broker.order
    BY <1>11 DEF Settled
  <2>2. leg.status # "FILLED" OBVIOUS
  <2> HIDE DEF leg
  <2>3. \A q \in Proposals : sold(q, broker') = sold(q, broker) BY <1>3, <2>1, <2>2 DEF sold, BrokerRec
  <2>4. ASSUME NEW s PROVE soldOf(s, broker') = soldOf(s, broker)
    <3>1. [q \in BracketsOf(s) |-> sold(q, broker')] = [q \in BracketsOf(s) |-> sold(q, broker)]
      BY <2>3 DEF BracketsOf
    <3> QED BY <3>1 DEF soldOf
  <2>5. ASSUME NEW s PROVE boughtOf(s, broker') = boughtOf(s, broker) BY <2>1 DEF boughtOf, dealt
  <2> QED BY <1>11, <2>4, <2>5 DEF BooksOK
<1>12. \A o \in TimeExits : o[1] \in Proposals BY OrderNames
<1> QED BY <1>5, <1>6, <1>8, <1>9, <1>10, <1>11, <1>12, BrokerSteps

\* FilledOnce says it with the fold of the community modules.
LEMMA DealtSum ==
  ASSUME broker \in BrokerRec, NEW s
  PROVE  MapThenSumSet(brokerQuantity, EntriesAndExits(s)) = boughtOf(s, broker)
<1> DEFINE S    == EntriesAndExits(s)
           f    == [o \in S |-> dealt(o, broker)]
           D(g) == [u \in SUBSET S |-> IF u = {} THEN 0 ELSE brokerQuantity(pick(u)) + g[u \ {pick(u)}]]
           it   == CHOOSE g : g = D(g)
<1>1. IsFiniteSet(S) /\ f \in [S -> Int] BY DealtInt
<1>2. boughtOf(s, broker) = SumOver(f, S) BY DEF boughtOf
<1>3. \A o \in S : f[o] = brokerQuantity(o) BY DEF dealt, brokerQuantity, sideOf
<1>4. MapThenSumSet(brokerQuantity, S) = it[S] BY DEF MapThenSumSet, MapThenFoldSet, pick
<1> HIDE DEF f, S
<1>5. \A u \in SUBSET S : u # {} => pick(u) \in S BY DEF pick
<1>6. ASSUME NEW g PROVE Built(g, f, S) <=> g = D(g) BY <1>3, <1>5 DEF Built
<1>7. \E g : Built(g, f, S) BY <1>1, FixExists
<1>8. it = D(it) BY <1>6, <1>7
<1> HIDE DEF it
<1>9. Built(it, f, S) BY <1>6, <1>8
<1>10. it[S] = SumOver(f, S) BY <1>1, <1>9, FixIsSum
<1> QED BY <1>2, <1>4, <1>10 DEF S

\* And of the legs.
LEMMA SoldSum ==
  ASSUME broker \in BrokerRec, NEW s
  PROVE  MapThenSumSet(legSold, BracketsOf(s)) = soldOf(s, broker)
<1> DEFINE S    == BracketsOf(s)
           f    == [p \in S |-> sold(p, broker)]
           D(g) == [u \in SUBSET S |-> IF u = {} THEN 0 ELSE legSold(pick(u)) + g[u \ {pick(u)}]]
           it   == CHOOSE g : g = D(g)
<1>1. IsFiniteSet(S) /\ f \in [S -> Int] BY DealtInt
<1>2. soldOf(s, broker) = SumOver(f, S) BY DEF soldOf
<1>3. \A p \in S : f[p] = legSold(p) BY DEF sold, legSold
<1>4. MapThenSumSet(legSold, S) = it[S] BY DEF MapThenSumSet, MapThenFoldSet, pick
<1> HIDE DEF f, S
<1>5. \A u \in SUBSET S : u # {} => pick(u) \in S BY DEF pick
<1>6. ASSUME NEW g PROVE Built(g, f, S) <=> g = D(g) BY <1>3, <1>5 DEF Built
<1>7. \E g : Built(g, f, S) BY <1>1, FixExists
<1>8. it = D(it) BY <1>6, <1>7
<1> HIDE DEF it
<1>9. Built(it, f, S) BY <1>6, <1>8
<1>10. it[S] = SumOver(f, S) BY <1>1, <1>9, FixIsSum
<1> QED BY <1>2, <1>4, <1>10 DEF S

\* What the broker holds of a symbol is what it dealt for the orders of the
\* proposals, each once, less what the legs sold: a submission sent again after
\* a lost answer, or by two requests, is not filled again.
THEOREM NothingFilledTwice == Spec => []FilledOnce
<1>1. Init => BooksOK(broker) BY EmptyBooks DEF Init
<1>2. Control /\ BooksOK(broker) => FilledOnce
  <2> SUFFICES ASSUME Control, BooksOK(broker), NEW s \in Symbols
               PROVE  broker.position[s] = MapThenSumSet(brokerQuantity, {o \in Orders : SymbolOf[o[1]] = s})
                                             - MapThenSumSet(legSold, {p \in Proposals : SymbolOf[p] = s})
    BY DEF FilledOnce
  <2>1. broker \in BrokerRec BY DEF Control, BrokerOK
  <2>2. broker.position[s] = MapThenSumSet(brokerQuantity, EntriesAndExits(s)) - MapThenSumSet(legSold, BracketsOf(s))
    BY <2>1, DealtSum, SoldSum DEF BooksOK
  <2> QED BY <2>2 DEF EntriesAndExits, BracketsOf
<1> QED BY <1>1, <1>2, BooksStep, Controlled, PTL DEF Spec

-----------------------------------------------------------------------------
(* Until something fails.                                                  *)

\* A fault is counted, once and for all.
LEMMA Counted ==
  ASSUME Control, [Next]_vars, faults' = 0
  PROVE  /\ faults = 0
         /\ ~Crash /\ ~BrokerRestart
         /\ \A f \in Flows : ~FlowFails(f)
         /\ \A r \in Passes : ~PassFails(r)
         /\ \A k : ~Spend(k)
<1>1. faults \in Nat BY FaultsAssumption DEF Control, RestOK
<1>2. \A k : ~Spend(k) BY <1>1 DEF Spend
<1>3. faults' = faults
  <2>1. CASE UNCHANGED vars BY <2>1 DEF vars
  <2>2. ASSUME NEW f \in Flows, Request(f) PROVE faults' = faults
    BY <1>2, <2>2 DEF Request, CreateRisk, CreateCommit, ApproveRisk, ApproveCommit, ExecuteStart, SubmitEntry, Submit,
                      RecordFailure, RecordExecution, RecordExecutionFails, FlowFails
  <2>3. ASSUME NEW f \in Flows, NEW p \in Proposals,
               CreateStart(f, p) \/ ApproveStart(f, p) \/ RejectProposal(f, p) \/ ExecuteRequest(f, p)
        PROVE  faults' = faults
    BY <2>3 DEF CreateStart, ApproveStart, RejectProposal, ExecuteRequest
  <2>4. ASSUME NEW r \in Passes, Dashboard(r) PROVE faults' = faults
    BY <1>2, <2>4 DEF Dashboard, PassStart, GetLegs, RecordBracketExit, IntradayScan, HourlyScan, TimeExitStart,
                      CancelLegs, SubmitTimeExit, Submit, RecordTimeExit, PassFails, PassEnd
  <2>5. ASSUME NEW p \in Proposals, CancelProposal(p) \/ ExpiryPasses(p) \/ HoldingTimePasses(p)
        PROVE  faults' = faults
    BY <2>5 DEF CancelProposal, ExpiryPasses, HoldingTimePasses
  <2>6. CASE ListProposals \/ SessionTurns \/ SetKillSwitch \/ Crash \/ BrokerRestart
    BY <1>2, <2>6 DEF ListProposals, SessionTurns, SetKillSwitch, Crash, BrokerRestart
  <2> QED BY <2>1, <2>2, <2>3, <2>4, <2>5, <2>6 DEF Next
<1> QED BY <1>2, <1>3 DEF Crash, BrokerRestart, FlowFails, PassFails

\* An order that the broker knows keeps its answer, until the broker forgets.
LEMMA KnownStays ==
  ASSUME Control, [Next]_vars, ~BrokerRestart, NEW o \in Orders, broker.order[o] # Unknown
  PROVE  broker'.order[o] = broker.order[o]
<1>1. \A r, st, n : Filled(broker, broker', r, st, n) => broker'.order[o] = broker.order[o]
  <2> TAKE r, st, n
  <2> HAVE Filled(broker, broker', r, st, n)
  <2> DEFINE rec == [status |-> st, quantity |-> n]
  <2>1. broker'.order = [broker.order EXCEPT ![r.order] = rec] /\ broker.order[r.order] = Unknown BY DEF Filled
  <2> HIDE DEF rec
  <2> QED BY <2>1 DEF Control, BrokerOK, BrokerRec
<1> QED BY <1>1, BrokerSteps DEF LegSold, Settled

\* A new order is that of a request that submits an entry, or of a load that
\* submits a time exit.
LEMMA NewOrder ==
  ASSUME Control, [Next]_vars, NEW o \in Orders, broker.order[o] = Unknown, broker'.order[o] # Unknown
  PROVE  \/ \E f \in Flows : SubmitEntry(f) /\ flow[f].proposal \in Proposals /\ o = entryOf(flow[f].proposal)
         \/ \E r \in Passes : SubmitTimeExit(r) /\ o = pass[r].cur
<1>0. DOMAIN broker.order = Orders BY DEF Control, BrokerOK, BrokerRec
<1>1. \A r, st, n : Filled(broker, broker', r, st, n) => o = r.order
  <2> TAKE r, st, n
  <2> HAVE Filled(broker, broker', r, st, n)
  <2> DEFINE rec == [status |-> st, quantity |-> n]
  <2>1. broker'.order = [broker.order EXCEPT ![r.order] = rec] BY DEF Filled
  <2> HIDE DEF rec
  <2> QED BY <1>0, <2>1
<1>2. ~BrokerRestart BY DEF BrokerRestart, emptyBroker
<1>3. broker'.order # broker.order OBVIOUS
<1>4. \A p \in Proposals : entryRequest(p).order = entryOf(p) BY RequestSides
<1>5. \A i \in TimeExits : exitRequest(i).order = i BY RequestSides
<1>6. \A b2, q, st : ~(broker' = b2 /\ Settled(broker, b2, q, st)) BY <1>3 DEF Settled
<1>7. ASSUME NEW f \in Flows, flow[f].proposal \in Proposals, NEW st, NEW n,
             Filled(broker, broker', entryRequest(flow[f].proposal), st, n)
      PROVE  o = entryOf(flow[f].proposal)
  BY <1>1, <1>4, <1>7
<1>8. ASSUME NEW r \in Passes, pass[r].cur \in TimeExits, NEW st, NEW n,
             Filled(broker, broker', exitRequest(pass[r].cur), st, n)
      PROVE  o = pass[r].cur
  BY <1>1, <1>5, <1>8
<1>9. \A q, st : ~Settled(broker, broker', q, st) BY <1>6
<1>10. \A q : ~LegSold(broker, broker', q) BY <1>9 DEF LegSold
<1> QED BY <1>2, <1>3, <1>7, <1>8, <1>9, <1>10, BrokerSteps

\* A bracket opens with its entry alone.
LEMMA BracketOpens ==
  ASSUME Control, [Next]_vars, NEW p \in Proposals,
         broker'.legs[p].status = "PENDING", broker.legs[p].status # "PENDING"
  PROVE  broker.order[entryOf(p)] = Unknown
<1>0. DOMAIN broker.legs = Proposals BY DEF Control, BrokerOK, BrokerRec
<1>1. ASSUME NEW r, Proper(r), NEW st, NEW n, Filled(broker, broker', r, st, n)
      PROVE  broker.order[entryOf(p)] = Unknown
  <2> DEFINE leg == [status |-> "PENDING", symbol |-> r.symbol, quantity |-> r.quantity]
  <2>1. broker'.legs # broker.legs OBVIOUS
  <2>2. r.bracket /\ broker'.legs = [broker.legs EXCEPT ![r.proposal] = leg] /\ broker.order[r.order] = Unknown
    BY <1>1, <2>1 DEF Filled
  <2> HIDE DEF leg
  <2>3. p = r.proposal BY <1>0, <2>2
  <2> QED BY <1>1, <2>2, <2>3 DEF Proper
<1>2. ASSUME NEW q \in Proposals, NEW st, st # "PENDING", Settled(broker, broker', q, st) PROVE FALSE
  <2> DEFINE leg == [status |-> st, symbol |-> broker.legs[q].symbol, quantity |-> broker.legs[q].quantity]
  <2>1. broker'.legs = [broker.legs EXCEPT ![q] = leg] /\ leg.status = st BY <1>2 DEF Settled
  <2> HIDE DEF leg
  <2> QED BY <1>0, <1>2, <2>1
<1>3. ~BrokerRestart
  <2>1. emptyBroker.legs[p].status = "none" BY DEF emptyBroker, legsNone
  <2> QED BY <2>1 DEF BrokerRestart
<1>4. \A f \in Flows : SubmitEntry(f) => Proper(entryRequest(flow[f].proposal)) BY EntryProper DEF SubmitEntry
<1>5. \A r \in Passes : SubmitTimeExit(r) => Proper(exitRequest(pass[r].cur))
  BY ExitProper DEF SubmitTimeExit, exitRequest
<1>6. \A o \in TimeExits : o[1] \in Proposals BY OrderNames
<1> QED BY <1>1, <1>2, <1>3, <1>4, <1>5, <1>6, BrokerSteps DEF LegSold

\* What an execution that a bracket or a time exit is for rests on.
Traded == {"FILLED", "PARTIALLY_FILLED", "SUBMITTED", "EXECUTION_REJECTED"}

\* Of proposal p: a BUY that the broker knows is recorded, or its answer is on
\* the way; what is recorded the broker knows; a time exit follows its entry,
\* and no leg is open beside it.
Clean(p) ==
  /\ proposal[p].status # "EXECUTION_ERROR" /\ execution[p] # "ERROR"
  /\ (isBuy(p) /\ broker.order[entryOf(p)] # Unknown) =>
       \/ proposal[p].status \in Traded
       \/ \E f \in Flows : flow[f].proposal = p /\ flow[f].pc = "commit"
  /\ execution[p] # "none" => broker.order[entryOf(p)] # Unknown
  /\ \A why \in TimeReasons : broker.order[exitOf(p, why)] # Unknown =>
       execution[p] = "FILLED" /\ broker.legs[p].status # "PENDING"

\* The answer of a request that commits is the one that the broker keeps.
Answered(f) == flow[f].pc = "commit" => flow[f].answer = broker.order[entryOf(flow[f].proposal)]

\* A load that sells has seen to the bracket.
LegsSeen(r) == pass[r].pc \in {"sell", "book"} => broker.legs[pass[r].cur[1]].status # "PENDING"

NoFault ==
  faults = 0 => /\ \A p \in Proposals : Clean(p)
                /\ \A f \in Flows : Answered(f)
                /\ \A r \in Passes : LegsSeen(r)

\* At first nothing has happened.
LEMMA InitNoFault == Init => NoFault
<1> SUFFICES ASSUME Init PROVE NoFault OBVIOUS
<1>1. \A o \in Orders : broker.order[o] = Unknown BY DEF Init, emptyBroker
<1>2. \A p \in Proposals : proposal[p].status = Absent /\ execution[p] = "none" BY DEF Init
<1>3. \A f \in Flows : flow[f].pc = "idle" BY DEF Init, IdleFlow
<1>4. \A r \in Passes : pass[r].pc = "idle" BY DEF Init, IdlePass
<1> QED BY <1>1, <1>2, <1>3, <1>4, OrderNames DEF NoFault, Clean, Answered, LegsSeen, Absent

\* The answers that requests commit, while nothing fails.
LEMMA CleanAnswer ==
  ASSUME Control, NoFault, faults = 0, NEW f \in Flows, flow[f].pc = "commit"
  PROVE  /\ flow[f].answer \in OrderRec \ {Unknown} /\ flow[f].answer.status \in OrderStatus
         /\ broker.order[entryOf(flow[f].proposal)] = flow[f].answer /\ flow[f].answer # Lost
<1>1. FlowOK(flow[f], proposal, execution, order) BY DEF Control, FlowsOK
<1>2. flow[f].proposal \in Proposals /\ flow[f].answer # Unknown BY <1>1 DEF FlowOK
<1>3. broker.order[entryOf(flow[f].proposal)] \in OrderRec
  BY <1>2, OrderNames DEF Control, BrokerOK, BrokerRec
<1>4. flow[f].answer = broker.order[entryOf(flow[f].proposal)] BY DEF NoFault, Answered
<1> QED BY <1>2, <1>3, <1>4 DEF OrderRec, OrderStatus, Lost

\* An execution is written by the request that commits its answer.
LEMMA ExecutionStep ==
  ASSUME Control, [Next]_vars, NEW p \in Proposals, execution'[p] # execution[p]
  PROVE  \E f \in Flows : /\ flow[f].proposal = p /\ flow[f].pc = "commit"
                          /\ \/ RecordExecution(f) /\ execution'[p] = flow[f].answer.status
                             \/ RecordFailure(f) /\ execution'[p] = "ERROR"
<1>1. DOMAIN execution = Proposals BY DEF Control, RowsOK
<1>2. Writes BY Steps DEF rows
<1>3. ASSUME NEW f \in Flows, RecordExecution(f) \/ RecordFailure(f)
      PROVE  /\ flow[f].proposal = p /\ flow[f].pc = "commit"
             /\ \/ RecordExecution(f) /\ execution'[p] = flow[f].answer.status
                \/ RecordFailure(f) /\ execution'[p] = "ERROR"
  <2>1. CASE RecordExecution(f)
    <3>1. execution' = [execution EXCEPT ![flow[f].proposal] = flow[f].answer.status] /\ flow[f].pc = "commit"
      BY <2>1 DEF RecordExecution
    <3> QED BY <1>1, <2>1, <3>1
  <2>2. CASE RecordFailure(f)
    <3>1. execution' = [execution EXCEPT ![flow[f].proposal] = "ERROR"] /\ flow[f].pc = "commit"
      BY <2>2 DEF RecordFailure
    <3> QED BY <1>1, <2>2, <3>1
  <2> QED BY <1>3, <2>1, <2>2
<1>4. execution' # execution OBVIOUS
<1>5. ~ \E f \in Flows : CreateCommit(f) \/ ApproveCommit(f) \/ SubmitEntry(f) \/ \E q \in Proposals : RejectProposal(f, q)
  BY <1>4 DEF CreateCommit, ApproveCommit, SubmitEntry, RejectProposal, rows
<1>6. ~ \E r \in Passes : GetLegs(r) \/ RecordBracketExit(r) \/ CancelLegs(r) \/ SubmitTimeExit(r) \/ RecordTimeExit(r)
  BY <1>4 DEF GetLegs, RecordBracketExit, CancelLegs, SubmitTimeExit, RecordTimeExit, rows
<1>7. ~ \E q \in Proposals : CancelProposal(q) \/ ExpiryPasses(q)
  BY <1>4 DEF CancelProposal, ExpiryPasses
<1>8. ~(SetKillSwitch \/ BrokerRestart) BY <1>4 DEF SetKillSwitch, BrokerRestart, rows
<1>9. \E f \in Flows : RecordFailure(f) \/ RecordExecution(f)
  BY <1>2, <1>4, <1>5, <1>6, <1>7, <1>8 DEF Writes
<1> QED BY <1>3, <1>9

\* Where a load is after its step.
LEMMA PassSells ==
  ASSUME Control, [Next]_vars, NEW r \in Passes, pass'[r] # pass[r], pass'[r].pc \in {"sell", "book"}
  PROVE  /\ CancelLegs(r) \/ SubmitTimeExit(r)
         /\ pass'[r].cur = pass[r].cur
<1>1. pass \in [Passes -> PassType] BY DEF Control, PassesOK
<1>2. \A v : pass' = [pass EXCEPT ![r] = v] => pass'[r] = v BY <1>1
<1>3. \A pc : Resume(r, pc) => pass'[r].pc = pc
  <2> TAKE pc
  <2> HAVE Resume(r, pc)
  <2> DEFINE v == [pass[r] EXCEPT !.pc = pc, !.cur = NoOrderRow, !.quantity = 0]
  <2>1. pass' = [pass EXCEPT ![r] = v] BY DEF Resume
  <2>2. v.pc = pc BY <1>1 DEF PassType
  <2> HIDE DEF v
  <2> QED BY <1>2, <2>1, <2>2
<1>4. ~Crash BY DEF Crash, IdlePass
<1>5. ~(PassStart(r) \/ IntradayScan(r) \/ HourlyScan(r) \/ PassEnd(r))
  <2>1. ~PassStart(r) BY <1>1 DEF PassStart, PassType
  <2>2. ~IntradayScan(r) BY <1>1 DEF IntradayScan, PassType
  <2>3. ~HourlyScan(r) BY <1>1 DEF HourlyScan, PassType
  <2>4. ~PassEnd(r) BY <1>1 DEF PassEnd, IdlePass
  <2> QED BY <2>1, <2>2, <2>3, <2>4
<1>6. ~(RecordBracketExit(r) \/ RecordTimeExit(r) \/ PassFails(r))
  BY <1>3 DEF RecordBracketExit, RecordTimeExit, PassFails, scanOf
<1>7. ~GetLegs(r)
  <2>1. SUFFICES ASSUME GetLegs(r) PROVE FALSE OBVIOUS
  <2>2. PICK o : pass' = [pass EXCEPT ![r].todo = @ \ {o},
                                      ![r].pc   = IF broker'.legs[o[1]].status = "FILLED" THEN "record" ELSE @,
                                      ![r].cur  = IF broker'.legs[o[1]].status = "FILLED" THEN o ELSE @]
    BY <2>1 DEF GetLegs
  <2> DEFINE filled == broker'.legs[o[1]].status = "FILLED"
             v == [pass[r] EXCEPT !.todo = @ \ {o}, !.pc = IF filled THEN "record" ELSE @,
                                  !.cur = IF filled THEN o ELSE @]
  <2>3. pass' = [pass EXCEPT ![r] = v] BY <2>2
  <2> HIDE DEF filled
  <2>4. v.pc = IF filled THEN "record" ELSE pass[r].pc BY <1>1 DEF PassType
  <2> HIDE DEF v
  <2> QED BY <1>2, <2>1, <2>3, <2>4 DEF GetLegs
<1>8. ~TimeExitStart(r)
  <2>1. SUFFICES ASSUME TimeExitStart(r) PROVE FALSE OBVIOUS
  <2>2. PICK o : pass' = [pass EXCEPT ![r].todo = @ \ {o},
                                      ![r].pc   = IF hasExit(o[1]) THEN @ ELSE "cancel",
                                      ![r].cur  = IF hasExit(o[1]) THEN @ ELSE o]
    BY <2>1 DEF TimeExitStart
  <2> DEFINE done == hasExit(o[1])
             v == [pass[r] EXCEPT !.todo = @ \ {o}, !.pc = IF done THEN @ ELSE "cancel",
                                  !.cur = IF done THEN @ ELSE o]
  <2>3. pass' = [pass EXCEPT ![r] = v] BY <2>2
  <2> HIDE DEF done
  <2>4. v.pc = IF done THEN pass[r].pc ELSE "cancel" BY <1>1 DEF PassType
  <2> HIDE DEF v
  <2> QED BY <1>2, <2>1, <2>3, <2>4 DEF TimeExitStart
<1>9. CancelLegs(r) => pass'[r].cur = pass[r].cur
  <2> HAVE CancelLegs(r)
  <2> DEFINE v == [pass[r] EXCEPT !.pc = "sell"]
  <2>1. pass' = [pass EXCEPT ![r] = v] BY DEF CancelLegs
  <2>2. v.cur = pass[r].cur BY <1>1 DEF PassType
  <2> HIDE DEF v
  <2> QED BY <1>2, <2>1, <2>2
<1>10. SubmitTimeExit(r) => pass'[r].cur = pass[r].cur
  <2> HAVE SubmitTimeExit(r)
  <2>1. PICK a :
          IF a.quantity = 0 THEN Resume(r, scanOf(pass[r].cur[1]))
          ELSE pass' = [pass EXCEPT ![r].pc = "book", ![r].quantity = a.quantity]
    BY DEF SubmitTimeExit
  <2>2. ~Resume(r, scanOf(pass[r].cur[1])) BY <1>3 DEF scanOf
  <2> DEFINE v == [pass[r] EXCEPT !.pc = "book", !.quantity = a.quantity]
  <2>3. pass' = [pass EXCEPT ![r] = v] BY <2>1, <2>2
  <2>4. v.cur = pass[r].cur BY <1>1 DEF PassType
  <2> HIDE DEF v
  <2> QED BY <1>2, <2>3, <2>4
<1> QED BY <1>4, <1>5, <1>6, <1>7, <1>8, <1>9, <1>10, PassMoves DEF Dashboard

\* What has been executed the broker knows.
LEMMA KnownEntry ==
  ASSUME Control, NoFault, faults = 0, NEW p \in Proposals, execution[p] # "none"
  PROVE  broker.order[entryOf(p)] # Unknown /\ entryOf(p) \in Orders
BY OrderNames DEF NoFault, Clean

\* While nothing fails, a failure is never recorded.
LEMMA NoFailure ==
  ASSUME Control, NoFault, faults = 0
  PROVE  /\ \A f \in Flows : ~RecordFailure(f)
         /\ \A f \in Flows : RecordExecution(f) => fromBroker(flow[f].answer.status) \in Traded
<1>1. \A f \in Flows : ~RecordFailure(f) BY CleanAnswer DEF RecordFailure
<1>2. ASSUME NEW f \in Flows, RecordExecution(f) PROVE fromBroker(flow[f].answer.status) \in Traded
  <2>1. flow[f].answer.status \in OrderStatus BY <1>2, CleanAnswer DEF RecordExecution
  <2> QED BY <2>1 DEF OrderStatus, fromBroker, Traded
<1> QED BY <1>1, <1>2

\* What is recorded as traded is neither expired nor cancelled.
LEMMA TradedNames ==
  \A s \in Traded : /\ s \notin {Absent, "PENDING_APPROVAL", "APPROVED", "EXECUTION_ERROR"} \cup Expirable
                    /\ ~canMove(s, "CANCELLED")
BY Cancellable DEF Traded, Absent, Expirable

\* A BUY that the broker knows goes from its answer to its record.
LEMMA TradedStep ==
  ASSUME Control, NoFault, [Next]_vars, faults' = 0, NEW p \in Proposals, isBuy(p),
         broker'.order[entryOf(p)] # Unknown
  PROVE  \/ proposal'[p].status \in Traded
         \/ \E f \in Flows : flow'[f].proposal = p /\ flow'[f].pc = "commit"
<1>1. faults = 0 /\ ~Crash /\ ~BrokerRestart /\ \A f \in Flows : ~FlowFails(f) BY Counted
<1>2. entryOf(p) \in Orders /\ entryOf(p) \notin TimeExits BY OrderNames
<1>3. \A r \in Passes : PassOK(pass[r], execution) BY DEF Control, PassesOK
<1>4. flow \in [Flows -> FlowType] BY DEF Control, FlowsOK
<1>5. StatusStep(p) BY StatusSteps
<1>6. CASE broker.order[entryOf(p)] = Unknown
  <2>1. \A r \in Passes : SubmitTimeExit(r) => pass[r].cur \in TimeExits BY <1>3 DEF SubmitTimeExit, PassOK
  <2>2. PICK f \in Flows : /\ SubmitEntry(f) /\ flow[f].proposal \in Proposals
                           /\ entryOf(p) = entryOf(flow[f].proposal)
    BY <1>2, <1>6, <2>1, NewOrder
  <2>3. flow[f].proposal = p BY <2>2, OrderNames
  <2>4. PICK a, h : flow' = [flow EXCEPT ![f].pc = "commit", ![f].answer = a, ![f].held = h] BY <2>2 DEF SubmitEntry
  <2>5. flow'[f].pc = "commit" /\ flow'[f].proposal = flow[f].proposal BY <1>4, <2>4 DEF FlowType
  <2> QED BY <2>3, <2>5
<1>7. CASE proposal[p].status \in Traded
  <2>1. \A f \in Flows : RecordExecution(f) => fromBroker(flow[f].answer.status) \in Traded
    BY <1>1, NoFailure
  <2>2. \A f \in Flows : ~RecordFailure(f) BY <1>1, NoFailure
  <2> QED BY <1>5, <1>7, <2>1, <2>2, TradedNames DEF StatusStep
<1>8. CASE \E f \in Flows : flow[f].proposal = p /\ flow[f].pc = "commit"
  <2> PICK f \in Flows : flow[f].proposal = p /\ flow[f].pc = "commit" BY <1>8
  <2>1. CASE flow'[f] = flow[f] BY <2>1
  <2>2. CASE flow'[f] # flow[f]
    <3>1. IdleFlow.pc = "idle" BY DEF IdleFlow
    <3>2. RecordFailure(f) \/ RecordExecution(f) \/ RecordExecutionFails(f)
      BY <1>1, <2>2, <3>1, FlowMoves
         DEF Request, CreateRisk, CreateCommit, ApproveRisk, ApproveCommit, ExecuteStart, SubmitEntry,
             CreateStart, ApproveStart, ExecuteRequest
    <3>3. ~RecordFailure(f) BY <1>1, NoFailure
    <3>4. ~RecordExecutionFails(f) BY DEF RecordExecutionFails, accountable, isBuy
    <3>5. RecordExecution(f) BY <3>2, <3>3, <3>4
    <3> DEFINE st == fromBroker(flow[f].answer.status)
    <3>6. proposal' = [proposal EXCEPT ![p].status = st] BY <3>5 DEF RecordExecution
    <3>7. st \in Traded BY <1>1, <3>5, NoFailure
    <3> HIDE DEF st
    <3>8. proposal'[p].status = st
      <4>1. DOMAIN proposal = Proposals /\ "status" \in DOMAIN proposal[p]
        BY DEF Control, RowsOK, RowOK
      <4> QED BY <3>6, <4>1
    <3> QED BY <3>7, <3>8
  <2> QED BY <2>1, <2>2
<1> QED BY <1>1, <1>6, <1>7, <1>8 DEF NoFault, Clean

\* Each part of NoFault is kept by every step that is not a fault.
LEMMA CleanStep ==
  ASSUME Control, NoFault, [Next]_vars, faults' = 0, NEW p \in Proposals
  PROVE  Clean(p)'
<1>1. faults = 0 /\ ~BrokerRestart BY Counted
<1>2. Clean(p) BY <1>1 DEF NoFault
<1>3. kind' = kind BY KindStays
<1>4. proposal'[p].status # "EXECUTION_ERROR"
  <2>1. StatusStep(p) BY StatusSteps
  <2>2. \A f \in Flows : ~RecordFailure(f) /\ (RecordExecution(f) => fromBroker(flow[f].answer.status) \in Traded)
    BY <1>1, NoFailure
  <2> QED BY <1>2, <2>1, <2>2 DEF StatusStep, Clean, Traded
<1>5. execution'[p] = execution[p] \/ (/\ execution[p] \in {"none", "ERROR"} /\ execution'[p] # "ERROR"
                                       /\ broker.order[entryOf(p)] # Unknown)
  <2> SUFFICES ASSUME execution'[p] # execution[p]
               PROVE  /\ execution[p] \in {"none", "ERROR"} /\ execution'[p] # "ERROR"
                      /\ broker.order[entryOf(p)] # Unknown
    OBVIOUS
  <2>1. PICK f \in Flows : /\ flow[f].proposal = p /\ flow[f].pc = "commit"
                           /\ \/ RecordExecution(f) /\ execution'[p] = flow[f].answer.status
                              \/ RecordFailure(f) /\ execution'[p] = "ERROR"
    BY ExecutionStep
  <2>2. ~RecordFailure(f) BY <1>1, NoFailure
  <2>3. execution[p] \in {"none", "ERROR"} BY <2>1, Committing
  <2>4. /\ flow[f].answer # Unknown /\ flow[f].answer.status \in OrderStatus
        /\ broker.order[entryOf(p)] = flow[f].answer
    BY <1>1, <2>1, CleanAnswer
  <2> QED BY <2>1, <2>2, <2>3, <2>4 DEF OrderStatus
<1>6. entryOf(p) \in Orders BY OrderNames
<1>7. execution'[p] # "ERROR" BY <1>2, <1>5 DEF Clean
<1>8. execution'[p] # "none" => broker'.order[entryOf(p)] # Unknown
  BY <1>1, <1>2, <1>5, <1>6, KnownStays DEF Clean
<1>9. ASSUME NEW why \in TimeReasons, broker'.order[exitOf(p, why)] # Unknown
      PROVE  execution'[p] = "FILLED" /\ broker'.legs[p].status # "PENDING"
  <2> DEFINE o == exitOf(p, why)
  <2>1. o \in TimeExits /\ o \in Orders /\ o[1] = p BY OrderNames DEF exitOf
  <2>2. execution[p] = "FILLED" /\ broker.legs[p].status # "PENDING"
    <3>1. CASE broker.order[o] # Unknown BY <1>2, <3>1 DEF Clean
    <3>2. CASE broker.order[o] = Unknown
      <4>1. \A f \in Flows : flow[f].proposal \in Proposals => o # entryOf(flow[f].proposal)
        BY <2>1, OrderNames
      <4>2. PICK r \in Passes : SubmitTimeExit(r) /\ o = pass[r].cur BY <1>9, <2>1, <3>2, <4>1, NewOrder
      <4>3. pass[r].pc = "sell" /\ PassOK(pass[r], execution) BY <4>2 DEF SubmitTimeExit, Control, PassesOK
      <4>4. LegsSeen(r) BY <1>1 DEF NoFault
      <4> QED BY <2>1, <4>2, <4>3, <4>4 DEF PassOK, Bought, LegsSeen
    <3> QED BY <3>1, <3>2
  <2>3. broker.order[entryOf(p)] # Unknown BY <1>2, <2>2 DEF Clean
  <2>4. broker'.legs[p].status # "PENDING" BY <2>2, <2>3, BracketOpens
  <2> QED BY <1>5, <2>2, <2>4
<1>10. isBuy(p)' <=> isBuy(p) BY <1>3 DEF isBuy
<1>11. (isBuy(p) /\ broker'.order[entryOf(p)] # Unknown) =>
         \/ proposal'[p].status \in Traded
         \/ \E f \in Flows : flow'[f].proposal = p /\ flow'[f].pc = "commit"
  BY TradedStep
<1> QED BY <1>4, <1>7, <1>8, <1>9, <1>10, <1>11 DEF Clean

\* An answer that was kept stays the one that commits.
LEMMA AnsweredStep ==
  ASSUME Control, NoFault, [Next]_vars, faults' = 0, NEW f \in Flows
  PROVE  Answered(f)'
<1> SUFFICES ASSUME flow'[f].pc = "commit"
             PROVE  flow'[f].answer = broker'.order[entryOf(flow'[f].proposal)]
  BY DEF Answered
<1>1. faults = 0 /\ ~BrokerRestart /\ ~Spend("lost") /\ ~Spend("error") BY Counted
<1>2. flow \in [Flows -> FlowType] BY DEF Control, FlowsOK
<1>3. CASE flow'[f] = flow[f]
  <2>1. /\ flow[f].answer # Unknown /\ broker.order[entryOf(flow[f].proposal)] = flow[f].answer
    BY <1>1, <1>3, CleanAnswer
  <2>2. entryOf(flow[f].proposal) \in Orders BY <1>3, Committing, OrderNames
  <2> QED BY <1>1, <1>3, <2>1, <2>2, KnownStays
<1>4. CASE flow'[f] # flow[f]
  <2>1. IdleFlow.pc # "commit" BY DEF IdleFlow
  <2>2. SubmitEntry(f) /\ flow'[f].proposal = flow[f].proposal BY <1>4, <2>1, FlowGoes
  <2> DEFINE h == seen(SymbolOf[flow[f].proposal])
  <2>3. PICK a : /\ Submit(entryRequest(flow[f].proposal), a)
                 /\ flow' = [flow EXCEPT ![f].pc = "commit", ![f].answer = a, ![f].held = h]
    BY <2>2 DEF SubmitEntry
  <2> HIDE DEF h
  <2>4. flow'[f].answer = a BY <1>2, <2>3 DEF FlowType
  <2>5. flow[f].proposal \in Proposals BY <2>2, EntryProper DEF SubmitEntry
  <2>6. a = broker'.order[entryRequest(flow[f].proposal).order] BY <1>1, <2>3 DEF Submit
  <2>7. entryRequest(flow[f].proposal).order = entryOf(flow[f].proposal) BY <2>5, RequestSides
  <2> QED BY <2>2, <2>4, <2>6, <2>7
<1> QED BY <1>3, <1>4

\* A bracket that was seen to before the sale does not open again.
LEMMA LegsSeenStep ==
  ASSUME Control, NoFault, [Next]_vars, faults' = 0, NEW r \in Passes
  PROVE  LegsSeen(r)'
<1> SUFFICES ASSUME pass'[r].pc \in {"sell", "book"}
             PROVE  broker'.legs[pass'[r].cur[1]].status # "PENDING"
  BY DEF LegsSeen
<1>1. faults = 0 /\ ~Spend("uncancelled") BY Counted
<1>2. PassOK(pass[r], execution) /\ broker \in BrokerRec BY DEF Control, PassesOK, BrokerOK
<1>3. \A o \in TimeExits : o[1] \in Proposals BY OrderNames
<1>4. ASSUME pass[r].pc \in {"sell", "book"}, pass'[r].cur = pass[r].cur
      PROVE  broker'.legs[pass'[r].cur[1]].status # "PENDING"
  <2> DEFINE p == pass[r].cur[1]
  <2>1. p \in Proposals /\ execution[p] = "FILLED" BY <1>2, <1>3, <1>4 DEF PassOK, Bought
  <2>2. broker.order[entryOf(p)] # Unknown BY <1>1, <2>1, KnownEntry
  <2>3. broker.legs[p].status # "PENDING" BY <1>1, <1>4 DEF NoFault, LegsSeen
  <2> HIDE DEF p
  <2>4. broker'.legs[p].status # "PENDING" BY <2>1, <2>2, <2>3, BracketOpens
  <2> QED BY <1>4, <2>4 DEF p
<1>5. CASE pass'[r] = pass[r] BY <1>4, <1>5
<1>6. CASE pass'[r] # pass[r]
  <2>1. (CancelLegs(r) \/ SubmitTimeExit(r)) /\ pass'[r].cur = pass[r].cur BY <1>6, PassSells
  <2>2. CASE SubmitTimeExit(r) BY <1>4, <2>1, <2>2 DEF SubmitTimeExit
  <2>3. CASE CancelLegs(r)
    <3>1. broker' = cancelOrder(broker, pass[r].cur[1]) /\ pass[r].pc = "cancel" BY <1>1, <2>3 DEF CancelLegs
    <3>2. pass[r].cur[1] \in Proposals BY <1>2, <1>3, <3>1 DEF PassOK
    <3> QED BY <1>2, <2>1, <3>1, <3>2, CancelOutcome
  <2> QED BY <2>1, <2>2, <2>3
<1> QED BY <1>5, <1>6

\* So NoFault holds as long as nothing fails.
LEMMA Sound == Spec => []NoFault
<1>1. Control /\ NoFault /\ [Next]_vars => NoFault'
  <2> SUFFICES ASSUME Control, NoFault, [Next]_vars, faults' = 0
               PROVE  /\ \A p \in Proposals : Clean(p)'
                      /\ \A f \in Flows : Answered(f)'
                      /\ \A r \in Passes : LegsSeen(r)'
    BY DEF NoFault
  <2> QED BY CleanStep, AnsweredStep, LegsSeenStep
<1> QED BY <1>1, InitNoFault, Controlled, PTL DEF Spec

\* A BUY that was expired, cancelled or rejected has not been traded.
THEOREM DeadIsDead == Spec => []DeadNeverTraded
<1>1. Control /\ NoFault => DeadNeverTraded
  <2> SUFFICES ASSUME Control, NoFault, faults = 0, NEW p \in Proposals, isBuy(p),
                      proposal[p].status \in {"EXPIRED", "CANCELLED", "OWNER_REJECTED", "RISK_REJECTED",
                                              "RISK_REJECTED_AFTER_APPROVAL"},
                      broker.order[entryOf(p)] # Unknown
               PROVE  FALSE
    BY DEF DeadNeverTraded
  <2>1. proposal[p].status \notin Traded BY DEF Traded
  <2>2. PICK f \in Flows : flow[f].proposal = p /\ flow[f].pc = "commit" BY <2>1 DEF NoFault, Clean
  <2> QED BY <2>2, Committing
<1> QED BY <1>1, Sound, Controlled, PTL

\* Once a time exit sold a position, no leg is left that could sell it again.
THEOREM NoLegIsLeft == Spec => []NoLegAfterExit
<1>1. Control /\ NoFault => NoLegAfterExit
  <2> SUFFICES ASSUME Control, NoFault, faults = 0, NEW p \in Proposals, NEW why \in TimeReasons,
                      broker.order[exitOf(p, why)].quantity > 0
               PROVE  broker.legs[p].status # "PENDING"
    BY DEF NoLegAfterExit
  <2>1. broker.order[exitOf(p, why)] # Unknown BY DEF Unknown
  <2> QED BY <2>1 DEF NoFault, Clean
<1> QED BY <1>1, Sound, Controlled, PTL

-----------------------------------------------------------------------------
(* The ledger.                                                             *)

HeldBound(po) == \A s \in Symbols : po[s] >= 0

\* At most one BUY of s has been filled on record.
OneEntered(s, or) ==
  \A p, q \in Proposals :
    (/\ SymbolOf[p] = s /\ isBuy(p) /\ or[entryOf(p)] > 0
     /\ SymbolOf[q] = s /\ isBuy(q) /\ or[entryOf(q)] > 0) => p = q

\* The position counts no fill that is not on record, and misses one only where
\* a second BUY was filled after a fault.
LedgerOK(po, or, fa) ==
  \A s \in Symbols : /\ po[s] <= bookedSum(s, or)
                     /\ fa = 0 \/ OneEntered(s, or) => po[s] = bookedSum(s, or)

\* Until something fails, a request that read no position is the first to
\* write one.
First(f) ==
  (flow[f].pc = "commit" /\ isBuy(flow[f].proposal) /\ flow[f].held = NoRow) =>
    ~positionRow(SymbolOf[flow[f].proposal])

Books == /\ HeldBound(position) /\ LedgerOK(position, order, faults)
         /\ faults = 0 => \A f \in Flows : First(f)

\* Nothing is on record at first.
LEMMA InitLedger == Init => Books
<1> SUFFICES ASSUME Init PROVE Books OBVIOUS
<1>1. ASSUME NEW s \in Symbols PROVE position[s] = 0 /\ bookedSum(s, order) = 0
  <2> DEFINE S == OrdersOf(s)
             f == [o \in S |-> counted(o, order)]
  <2>1. S \subseteq OrderRows /\ IsFiniteSet(S) BY OrdersFinite DEF OrdersOf
  <2>2. \A o \in S : f[o] = 0 BY <2>1 DEF counted, Init
  <2>3. f \in [S -> Int] BY <2>2
  <2> HIDE DEF f, S
  <2>4. SumOver(f, S) = 0 BY <2>1, <2>2, <2>3, SumOfZeros
  <2>5. position[s] = 0 BY DEF Init
  <2> QED BY <2>4, <2>5 DEF bookedSum, f, S
<1>2. \A f \in Flows : First(f) BY DEF Init, IdleFlow, First
<1> QED BY <1>1, <1>2 DEF Books, HeldBound, LedgerOK

\* A symbol that nobody holds on record and nobody has bought has no position.
LEMMA NothingHeld ==
  ASSUME Control, Books, NEW s \in Symbols,
         \A p \in Proposals : SymbolOf[p] = s /\ isBuy(p) => order[entryOf(p)] \in {0, NoRow}
  PROVE  position[s] = 0 /\ bookedSum(s, order) = 0
<1>1. order \in [OrderRows -> Nat \cup {NoRow}] /\ position \in [Symbols -> Int] /\ KindOK
  BY DEF Control, RowsOK, RestOK
<1>2. ASSUME NEW o \in OrdersOf(s), sideOf(o) = "BUY" PROVE order[o] \in {0, NoRow}
  <2>1. o \in OrderRows /\ SymbolOf[o[1]] = s BY DEF OrdersOf
  <2>2. o[2] = "entry" /\ isBuy(o[1]) BY <1>2 DEF sideOf, isBuy
  <2> QED BY <2>1, <2>2, OrderNames
<1>3. bookedSum(s, order) \in Int /\ bookedSum(s, order) <= 0 BY <1>1, <1>2, NothingBought
<1>4. position[s] \in Int /\ position[s] >= 0 /\ position[s] <= bookedSum(s, order)
  BY <1>1 DEF Books, HeldBound, LedgerOK
<1> QED BY <1>3, <1>4

\* What one booking makes of the position and the sum of its symbol.
LEMMA BookedOne ==
  ASSUME Control, Books, NEW o, NEW q, Booked(o, q), NEW s \in Symbols, s = SymbolOf[o[1]]
  PROVE  /\ position'[s] >= 0 /\ position'[s] <= bookedSum(s, order')
         /\ faults = 0 \/ OneEntered(s, order') => position'[s] = bookedSum(s, order')
<1>0. order \in [OrderRows -> Nat \cup {NoRow}] /\ position \in [Symbols -> Int]
  BY DEF Control, RowsOK, RestOK
<1>1. o \in OrderRows /\ q \in Nat /\ order[o] = NoRow /\ order' = Put(order, o, q) BY DEF Booked
<1> DEFINE side == sideOf(o)
<1>2. side \in {"BUY", "SELL"} BY <1>1, OrderNames, Shape DEF sideOf, Control
<1>3. /\ bookedSum(s, order) \in Int
      /\ bookedSum(s, order') = bookedSum(s, order) + signed(side, q)
  BY <1>0, <1>1, SumBooked
<1>4. /\ position[s] \in Int /\ position[s] >= 0 /\ position[s] <= bookedSum(s, order)
      /\ faults = 0 \/ OneEntered(s, order) => position[s] = bookedSum(s, order)
  BY <1>0 DEF Books, HeldBound, LedgerOK
<1>5. \A i \in OrderRows : order'[i] = IF i = o THEN q ELSE order[i] BY <1>0, <1>1 DEF Put
<1>6. \A p \in Proposals : order[entryOf(p)] > 0 => order'[entryOf(p)] > 0
  BY <1>1, <1>5, OrderNames DEF NoRow
<1>7. OneEntered(s, order') => OneEntered(s, order) BY <1>6 DEF OneEntered
<1>8. CASE Added(o, q)
  <2>1. accountable(s, side, q) /\ position'[s] = position[s] + signed(side, q)
    BY <1>0, <1>8 DEF Added, account
  <2>2. position[s] + signed(side, q) >= 0
    <3>1. CASE side = "BUY"
      <4>1. signed(side, q) = q BY <1>1, <3>1, SignedSum
      <4> QED BY <1>1, <1>4, <4>1
    <3>2. CASE side = "SELL"
      <4>1. signed(side, q) = 0 - q BY <1>1, <3>2, SignedSum
      <4>2. q <= position[s] BY <2>1, <3>2 DEF accountable
      <4> QED BY <1>1, <1>4, <4>1, <4>2
    <3> QED BY <1>2, <3>1, <3>2
  <2>3. signed(side, q) \in Int BY <1>1, SignedSum
  <2> HIDE DEF side
  <2> QED BY <1>3, <1>4, <1>7, <2>1, <2>2, <2>3
<1>9. CASE Replaced(o, q)
  <2> PICK f \in Flows : /\ RecordExecution(f) /\ o = entryOf(flow[f].proposal) /\ q = flow[f].answer.quantity
                         /\ isBuy(o[1]) /\ readNothing(f) /\ overwrite(SymbolOf[o[1]], q)
    BY <1>9 DEF Replaced
  <2> DEFINE p == flow[f].proposal
  <2>1. p \in Proposals /\ flow[f].pc = "commit" BY Committing DEF RecordExecution
  <2>2. o[1] = p /\ o[2] = "entry" BY <2>1, OrderNames
  <2>3. side = "BUY" /\ signed(side, q) = q BY <1>1, <2>2, SignedSum DEF sideOf, isBuy
  <2>4. position'[s] = q /\ q > 0 /\ flow[f].held = NoRow BY <1>0 DEF overwrite, readNothing
  <2>5. ASSUME faults = 0 \/ OneEntered(s, order') PROVE bookedSum(s, order) = 0
    <3>1. SUFFICES ASSUME NEW r \in Proposals, SymbolOf[r] = s, isBuy(r)
                   PROVE  order[entryOf(r)] \in {0, NoRow}
      BY NothingHeld
    <3>2. entryOf(r) \in OrderRows /\ entryOf(r)[1] = r /\ order[entryOf(r)] \in Nat \cup {NoRow}
      BY <1>0, OrderNames
    <3>3. CASE faults = 0
      <4>1. ~positionRow(s) BY <2>1, <2>2, <2>4, <3>3 DEF Books, First
      <4>2. order[entryOf(r)] > 0 => positionRow(s) BY <3>1, <3>2 DEF positionRow
      <4> QED BY <3>2, <4>1, <4>2
    <3>4. CASE OneEntered(s, order')
      <4>1. CASE r = p BY <1>1, <4>1
      <4>2. CASE r # p
        <5>1. entryOf(r) # o BY <2>1, <4>2, OrderNames
        <5>2. order'[entryOf(r)] = order[entryOf(r)] /\ order'[o] = q BY <1>1, <1>5, <3>2, <5>1
        <5>3. ~(order'[entryOf(r)] > 0) BY <2>1, <2>2, <2>4, <3>1, <3>4, <4>2, <5>2 DEF OneEntered
        <5> QED BY <3>2, <5>2, <5>3
      <4> QED BY <4>1, <4>2
    <3> QED BY <2>5, <3>3, <3>4
  <2> HIDE DEF side, p
  <2> QED BY <1>1, <1>3, <1>4, <2>3, <2>4, <2>5
<1> QED BY <1>8, <1>9 DEF Booked

\* The others are left as they are.
LEMMA BookedOthers ==
  ASSUME Control, Books, NEW o, NEW q, Booked(o, q), NEW s \in Symbols, s # SymbolOf[o[1]]
  PROVE  /\ position'[s] = position[s] /\ bookedSum(s, order') = bookedSum(s, order)
         /\ OneEntered(s, order') => OneEntered(s, order)
<1>0. order \in [OrderRows -> Nat \cup {NoRow}] /\ position \in [Symbols -> Int]
  BY DEF Control, RowsOK, RestOK
<1>1. o \in OrderRows /\ q \in Nat /\ order[o] = NoRow /\ order' = Put(order, o, q) BY DEF Booked
<1>2. bookedSum(s, order') = bookedSum(s, order) BY <1>0, <1>1, SumBooked
<1>3. \A i \in OrderRows \ {o} : order'[i] = order[i] BY <1>0, <1>1 DEF Put
<1>4. \A p \in Proposals : SymbolOf[p] = s => order'[entryOf(p)] = order[entryOf(p)] BY <1>3, OrderNames
<1>5. OneEntered(s, order') => OneEntered(s, order) BY <1>4 DEF OneEntered
<1>6. position'[s] = position[s] BY <1>0 DEF Booked, Added, account, Replaced, overwrite
<1> QED BY <1>2, <1>5, <1>6

\* While nothing fails, nobody fills a position before a request that read none.
LEMMA FirstStep ==
  ASSUME Control, OneClaim, NoFault, Books, [Next]_vars, faults' = 0, NEW f \in Flows
  PROVE  First(f)'
<1> DEFINE NoFill(s) == \A o \in OrderRows : SymbolOf[o[1]] = s => ~(order'[o] > 0)
<1>a. SUFFICES ASSUME flow'[f].pc = "commit", NEW p, p = flow'[f].proposal, isBuy(p), flow'[f].held = NoRow
               PROVE  NoFill(SymbolOf[p])
  <2>1. isBuy(flow[f].proposal)' <=> isBuy(flow'[f].proposal) BY NextBuy DEF isBuy
  <2> QED BY <2>1, NextBuy DEF First, positionRow
<1>0. faults = 0 /\ flow \in [Flows -> FlowType] /\ order \in [OrderRows -> Nat \cup {NoRow}]
  BY Counted DEF Control, FlowsOK, RowsOK
<1>1. CASE flow'[f] # flow[f]
  <2>1. IdleFlow.pc # "commit" BY DEF IdleFlow
  <2>2. SubmitEntry(f) /\ p = flow[f].proposal BY <1>1, <1>a, <2>1, FlowGoes
  <2> DEFINE h == seen(SymbolOf[flow[f].proposal])
  <2>3. PICK a : flow' = [flow EXCEPT ![f].pc = "commit", ![f].answer = a, ![f].held = h] BY <2>2 DEF SubmitEntry
  <2> HIDE DEF h
  <2>4. flow'[f].held = h BY <1>0, <2>3 DEF FlowType
  <2>5. ~positionRow(SymbolOf[p]) BY <1>a, <2>2, <2>4 DEF h, seen, NoRow
  <2>6. order' = order BY <2>2 DEF SubmitEntry, rows
  <2> QED BY <2>5, <2>6 DEF positionRow
<1>2. CASE flow'[f] = flow[f]
  <2>1. flow[f].pc = "commit" /\ p = flow[f].proposal /\ p \in Proposals BY <1>2, <1>a, Committing
  <2>2. ~positionRow(SymbolOf[p]) BY <1>0, <1>2, <1>a, <2>1 DEF Books, First
  <2>3. proposal[p].status = "APPROVED" BY <1>0, <2>1, Committing DEF NoFault, Clean
  <2>4. SymbolOf[p] \in Symbols BY <2>1, Shape
  <2>5. \A q \in Proposals : SymbolOf[q] = SymbolOf[p] => order[entryOf(q)] \in {0, NoRow}
    BY <1>0, <2>2, OrderNames DEF positionRow
  <2>6. position[SymbolOf[p]] = 0 BY <2>4, <2>5, NothingHeld
  <2>7. ASSUME NEW o, NEW q, Booked(o, q), SymbolOf[o[1]] = SymbolOf[p], q > 0,
               isBuy(o[1]) /\ o[2] = "entry" =>
                 \E g \in Flows : RecordExecution(g) /\ flow[g].proposal \in Proposals /\ o = entryOf(flow[g].proposal)
        PROVE  FALSE
    <3>1. o \in OrderRows /\ q \in Nat BY <2>7 DEF Booked
    <3>2. CASE ~(isBuy(o[1]) /\ o[2] = "entry")
      <4>1. sideOf(o) = "SELL" BY <3>1, <3>2, OrderNames, Shape DEF sideOf, Control
      <4>2. ~Replaced(o, q)
        <5>1. \A g \in Flows : RecordExecution(g) => entryOf(flow[g].proposal)[2] = "entry"
          BY OrderNames, Committing DEF RecordExecution
        <5> QED BY <3>2, <5>1 DEF Replaced
      <4>3. q <= position[SymbolOf[p]] BY <2>7, <4>1, <4>2 DEF Booked, Added, accountable
      <4> QED BY <2>6, <2>7, <3>1, <4>3
    <3>3. CASE isBuy(o[1]) /\ o[2] = "entry"
      <4>1. PICK g \in Flows : RecordExecution(g) /\ flow[g].proposal \in Proposals /\ o = entryOf(flow[g].proposal)
        BY <2>7, <3>3
      <4> DEFINE r == flow[g].proposal
      <4>2. flow[g].pc = "commit" BY <4>1 DEF RecordExecution
      <4>3. o[1] = r /\ isBuy(r) /\ SymbolOf[r] = SymbolOf[p] BY <2>7, <3>3, <4>1, OrderNames
      <4>4. proposal[r].status = "APPROVED" BY <1>0, <4>1, <4>2, Committing DEF NoFault, Clean
      <4>5. r = p BY <1>a, <2>1, <2>3, <4>1, <4>3, <4>4 DEF OneClaim, Claim, isBuy
      <4>6. f = g BY <2>1, <4>2, <4>5 DEF Control, FlowsOK, Exclusive, Alone, Executing
      <4>7. flow'[g] = IdleFlow BY <1>0, <4>1 DEF RecordExecution
      <4> QED BY <1>a, <4>6, <4>7 DEF IdleFlow
    <3> QED BY <3>2, <3>3
  <2>8. ASSUME NEW o, NEW q, Booked(o, q),
               isBuy(o[1]) /\ o[2] = "entry" =>
                 \E g \in Flows : RecordExecution(g) /\ flow[g].proposal \in Proposals /\ o = entryOf(flow[g].proposal)
        PROVE  NoFill(SymbolOf[p])
    <3>1. SymbolOf[o[1]] # SymbolOf[p] \/ ~(q > 0) BY <2>7, <2>8
    <3>2. \A i \in OrderRows : order'[i] = IF i = o THEN q ELSE order[i] BY <1>0, <2>8 DEF Booked, Put
    <3> QED BY <2>2, <3>1, <3>2 DEF positionRow
  <2>9. \A r \in Passes : /\ pass[r].cur \in Brackets => pass[r].cur[2] # "entry"
                          /\ pass[r].cur \in TimeExits => pass[r].cur[2] # "entry"
    BY OrderNames
  <2>10. CASE UNCHANGED <<order, position>> BY <2>2, <2>10 DEF positionRow
  <2> HIDE DEF NoFill
  <2> QED BY <2>8, <2>9, <2>10, OrderSteps
<1> QED BY <1>1, <1>2

\* What is booked in one step is what is put on record in that step.
LEMMA LedgerStep ==
  ASSUME Control, OneClaim, NoFault, Books, [Next]_vars
  PROVE  Books'
<1>1. \A o : sideOf(o)' = sideOf(o) BY KindStays DEF sideOf
<1>2. \A s : bookedSum(s, order)' = bookedSum(s, order')
  <2>1. \A o : counted(o, order)' = counted(o, order') BY <1>1 DEF counted
  <2>2. \A s : [o \in OrdersOf(s) |-> counted(o, order)]' = [o \in OrdersOf(s) |-> counted(o, order')] BY <2>1
  <2> QED BY <2>2 DEF bookedSum
<1>3. \A s : OneEntered(s, order)' <=> OneEntered(s, order') BY NextBuy DEF OneEntered
<1>4. faults' = 0 => faults = 0 BY Counted
<1>5. ASSUME NEW s \in Symbols
      PROVE  /\ position'[s] >= 0 /\ position'[s] <= bookedSum(s, order')
             /\ faults = 0 \/ OneEntered(s, order') => position'[s] = bookedSum(s, order')
  <2>1. /\ position[s] >= 0 /\ position[s] <= bookedSum(s, order)
        /\ faults = 0 \/ OneEntered(s, order) => position[s] = bookedSum(s, order)
    BY DEF Books, HeldBound, LedgerOK
  <2>2. CASE UNCHANGED <<order, position>> BY <2>1, <2>2
  <2>3. ASSUME NEW o, NEW q, Booked(o, q)
        PROVE  /\ position'[s] >= 0 /\ position'[s] <= bookedSum(s, order')
               /\ faults = 0 \/ OneEntered(s, order') => position'[s] = bookedSum(s, order')
    <3>1. CASE s = SymbolOf[o[1]] BY <2>3, <3>1, BookedOne
    <3>2. CASE s # SymbolOf[o[1]] BY <2>1, <2>3, <3>2, BookedOthers
    <3> QED BY <3>1, <3>2
  <2> QED BY <2>2, <2>3, OrderSteps
<1>6. HeldBound(position)' BY <1>5 DEF HeldBound
<1>7. LedgerOK(position, order, faults)' BY <1>2, <1>3, <1>4, <1>5 DEF LedgerOK
<1>8. faults' = 0 => \A f \in Flows : First(f)' BY FirstStep
<1> QED BY <1>6, <1>7, <1>8 DEF Books

\* So the books hold for good.
LEMMA BooksKept == Spec => []Books
<1>1. Control /\ OneClaim /\ NoFault /\ Books /\ [Next]_vars => Books' BY LedgerStep
<1> QED BY <1>1, InitLedger, Claimed, Sound, Controlled, PTL DEF Spec

\* The position of a symbol is the sum of the fills on record for it, whatever
\* failed, was retried or ran twice, as long as one BUY of it was filled or
\* nothing failed; and it never counts more than is on record.
THEOREM LedgerKept == Spec => []Ledger
<1>1. Control /\ Books => Ledger
  <2> SUFFICES ASSUME Control, Books, NEW s \in Symbols
               PROVE  /\ position[s] <= fillsOf(s)
                      /\ (faults = 0 \/ \A p, q \in enteredIn(s) : p = q) => position[s] = fillsOf(s)
    BY DEF Ledger
  <2>1. order \in [OrderRows -> Nat \cup {NoRow}] BY DEF Control, RowsOK
  <2>2. fillsOf(s) = bookedSum(s, order) BY <2>1, BookedSum DEF fillsOf, OrdersOf
  <2>3. (\A p, q \in enteredIn(s) : p = q) => OneEntered(s, order) BY DEF enteredIn, OneEntered
  <2> QED BY <2>2, <2>3 DEF Books, LedgerOK
<1> QED BY <1>1, BooksKept, Controlled, PTL

-----------------------------------------------------------------------------
(* Bounds.                                                                 *)

\* The most that a symbol may be held.
LEMMA LotBound ==
  /\ MaxQuantity \in Nat
  /\ \A p \in Proposals : Lot <= MaxQuantity
<1>1. IsFiniteSet(Proposals) /\ Cardinality(Proposals) \in Nat BY ProposalsAssumption, FS_CardinalityType
<1>2. Lot \in Nat BY Shape
<1>3. MaxQuantity \in Nat BY <1>1, <1>2 DEF MaxQuantity
<1>4. ASSUME NEW p \in Proposals PROVE Lot <= MaxQuantity
  <2>1. Cardinality(Proposals) # 0 BY <1>1, FS_EmptySet
  <2>2. PICK k \in Nat : Cardinality(Proposals) = k + 1
    <3>1. Cardinality(Proposals) - 1 \in Nat BY <1>1, <2>1
    <3> QED BY <1>1, <3>1
  <2>3. Lot * (k + 1) = Lot * k + Lot /\ Lot * k \in Nat BY <1>2
  <2> QED BY <1>2, <2>2, <2>3 DEF MaxQuantity
<1> QED BY <1>3, <1>4

\* A table of orders whose only gains are the entries of BUY proposals, a lot
\* each, adds up to no more.
LEMMA BuyBound ==
  ASSUME NEW S \in SUBSET OrderRows, IsFiniteSet(S), NEW f \in [S -> Int],
         \A o \in S : f[o] <= (IF o[2] = "entry" /\ isBuy(o[1]) THEN Lot ELSE 0)
  PROVE  SumOver(f, S) <= MaxQuantity
<1> DEFINE T == {o \in S : o[2] = "entry" /\ isBuy(o[1])}
           j == [o \in T |-> o[1]]
<1>1. T \in SUBSET S /\ IsFiniteSet(T) BY FS_Subset
<1>2. \A o \in T : o[1] \in Proposals /\ o = entryOf(o[1]) BY OrderNames
<1>3. j \in Injection(T, Proposals) BY <1>2 DEF Injection, IsInjective
<1>4. Cardinality(T) <= Cardinality(Proposals) /\ Cardinality(T) \in Nat /\ Cardinality(Proposals) \in Nat
  BY <1>1, <1>3, FS_Injection, FS_CardinalityType, ProposalsAssumption
<1>5. \A o \in S : f[o] <= (IF o \in T THEN Lot ELSE 0) OBVIOUS
<1>6. Lot \in Nat BY Shape
<1> HIDE DEF T, j
<1>7. SumOver(f, S) <= Lot * Cardinality(T) BY <1>1, <1>5, <1>6, SumBounds
<1>8. Lot * Cardinality(T) <= Lot * Cardinality(Proposals)
  <2>1. PICK k \in Nat : Cardinality(Proposals) = Cardinality(T) + k
    <3>1. Cardinality(Proposals) - Cardinality(T) \in Nat BY <1>4
    <3> QED BY <1>4, <3>1
  <2>2. Lot * (Cardinality(T) + k) = Lot * Cardinality(T) + Lot * k /\ Lot * k \in Nat BY <1>4, <1>6
  <2>3. Lot * Cardinality(T) \in Nat BY <1>4, <1>6
  <2> QED BY <2>1, <2>2, <2>3
<1>9. SumOver(f, S) \in Int BY SumIsInt
<1>10. Lot * Cardinality(T) \in Nat /\ Lot * Cardinality(Proposals) \in Nat BY <1>4, <1>6
<1> QED BY <1>7, <1>8, <1>9, <1>10 DEF MaxQuantity

\* The bounds of the amounts that the rows, the requests, the loads and the
\* broker keep.
RowsBound(pr)  == \A p \in Proposals : pr[p].quantity <= MaxQuantity /\ (isBuy(p) => pr[p].quantity <= Lot)
FlowsBound(fl) == \A f \in Flows : /\ fl[f].held <= MaxQuantity /\ fl[f].answer.quantity <= MaxQuantity
                                   /\ (fl[f].pc = "commit" /\ isBuy(fl[f].proposal)) => fl[f].answer.quantity <= Lot
PassesBound(ps) == \A r \in Passes : ps[r].quantity <= MaxQuantity
OrdersBound(or) == \A o \in OrderRows : or[o] <= MaxQuantity /\ (o[2] = "entry" /\ isBuy(o[1]) => or[o] <= Lot)
BrokerBound(b)  == /\ \A o \in Orders : /\ b.order[o].quantity <= MaxQuantity
                                        /\ o[2] = "entry" /\ isBuy(o[1]) => b.order[o].quantity <= Lot
                   /\ \A p \in Proposals : b.legs[p].quantity <= Lot

Bounded ==
  /\ RowsBound(proposal) /\ FlowsBound(flow) /\ PassesBound(pass) /\ OrdersBound(order)
  /\ BrokerBound(broker)

\* What is on record of a symbol is within the bound.
LEMMA PositionBound ==
  ASSUME Control, Books, OrdersBound(order), NEW s \in Symbols
  PROVE  position[s] <= MaxQuantity
<1> DEFINE S == OrdersOf(s)
           f == [o \in S |-> counted(o, order)]
<1>0. order \in [OrderRows -> Nat \cup {NoRow}] BY DEF Control, RowsOK
<1>1. S \in SUBSET OrderRows /\ IsFiniteSet(S) BY OrdersFinite DEF OrdersOf
<1>2. f \in [S -> Int] BY <1>0, <1>1, CountedInt
<1>3. ASSUME NEW o \in S PROVE f[o] <= (IF o[2] = "entry" /\ isBuy(o[1]) THEN Lot ELSE 0)
  <2>1. o \in OrderRows /\ o[1] \in Proposals /\ Lot \in Nat /\ Lot > 0 BY <1>1, OrderNames, Shape
  <2>2. CASE order[o] = NoRow BY <2>1, <2>2 DEF counted
  <2>3. CASE order[o] # NoRow
    <3>1. order[o] \in Nat /\ f[o] = signed(sideOf(o), order[o]) BY <1>0, <2>1, <2>3 DEF counted
    <3>2. CASE o[2] = "entry" /\ isBuy(o[1])
      <4>1. f[o] = order[o] BY <3>1, <3>2, SignedSum DEF sideOf, isBuy
      <4> QED BY <2>1, <3>2, <4>1 DEF OrdersBound
    <3>3. CASE ~(o[2] = "entry" /\ isBuy(o[1]))
      <4>1. sideOf(o) = "SELL" BY <2>1, <3>3, Shape DEF sideOf, Control
      <4>2. f[o] = 0 - order[o] BY <3>1, <4>1, SignedSum
      <4> QED BY <3>1, <3>3, <4>2
    <3> QED BY <3>2, <3>3
  <2> QED BY <2>2, <2>3
<1>4. position[s] <= SumOver(f, S) BY DEF Books, LedgerOK, bookedSum
<1>a. position[s] \in Int /\ MaxQuantity \in Nat BY LotBound DEF Control, RestOK
<1> HIDE DEF f, S
<1>5. SumOver(f, S) <= MaxQuantity BY <1>1, <1>2, <1>3, BuyBound
<1>6. SumOver(f, S) \in Int BY <1>1, <1>2, SumIsInt
<1> QED BY <1>4, <1>5, <1>6, <1>a

\* So is what the broker holds of it.
LEMMA BrokerPositionBound ==
  ASSUME Control, BooksOK(broker), BrokerBound(broker), NEW s \in Symbols
  PROVE  broker.position[s] \in Int /\ broker.position[s] <= MaxQuantity
<1> DEFINE S == EntriesAndExits(s)
           f == [o \in S |-> dealt(o, broker)]
           B == BracketsOf(s)
           g == [p \in B |-> sold(p, broker)]
<1>0. broker \in BrokerRec BY DEF Control, BrokerOK
<1>a. IsFiniteSet(S) /\ f \in [S -> Int] BY <1>0, DealtInt
<1>b. S \subseteq Orders BY DEF EntriesAndExits
<1>c. Orders \subseteq OrderRows BY OrderNames
<1>1. S \subseteq Orders /\ S \in SUBSET OrderRows /\ IsFiniteSet(S) /\ f \in [S -> Int] BY <1>a, <1>b, <1>c
<1>2. ASSUME NEW o \in S PROVE f[o] <= (IF o[2] = "entry" /\ isBuy(o[1]) THEN Lot ELSE 0)
  <2>1. o \in Orders /\ o[1] \in Proposals /\ Lot \in Nat /\ Lot > 0 BY <1>1, OrderNames, Shape
  <2>2. broker.order[o].quantity \in Nat /\ f[o] = signed(sideOf(o), broker.order[o].quantity)
    BY <1>0, <2>1, DealtInt DEF dealt
  <2>3. CASE o[2] = "entry" /\ isBuy(o[1])
    <3>1. f[o] = broker.order[o].quantity BY <2>2, <2>3, SignedSum DEF sideOf, isBuy
    <3> QED BY <2>1, <2>3, <3>1 DEF BrokerBound
  <2>4. CASE ~(o[2] = "entry" /\ isBuy(o[1]))
    <3>1. sideOf(o) = "SELL" BY <2>1, <2>4, Shape DEF sideOf, Control
    <3>2. f[o] = 0 - broker.order[o].quantity BY <2>2, <3>1, SignedSum
    <3> QED BY <2>2, <2>4, <3>2
  <2> QED BY <2>3, <2>4
<1>3. B \subseteq Proposals /\ IsFiniteSet(B) /\ g \in [B -> Int] /\ \A p \in B : g[p] >= 0
  BY <1>0, DealtInt DEF BracketsOf
<1>4. broker.position[s] = SumOver(f, S) - SumOver(g, B) BY DEF BooksOK, boughtOf, soldOf
<1> HIDE DEF f, g, S, B
<1>5. SumOver(f, S) <= MaxQuantity BY <1>1, <1>2, BuyBound
<1>6. SumOver(g, B) >= 0 BY <1>3, SumNotNegative
<1>7. SumOver(f, S) \in Int /\ SumOver(g, B) \in Int BY <1>1, <1>3, SumIsInt
<1> QED BY <1>4, <1>5, <1>6, <1>7, LotBound

\* A quantity is written with its proposal, and stays.
LEMMA QuantityStep ==
  ASSUME Control, [Next]_vars, NEW p \in Proposals
  PROVE  \/ proposal'[p].quantity = proposal[p].quantity
         \/ \E f \in Flows : proposal'[p].quantity = proposedQuantity(p, flow[f].held)
<1>0. DOMAIN proposal = Proposals /\ \A q \in Proposals : RowOK(q, proposal[q], execution[q], order)
  BY DEF Control, RowsOK
<1>1. CASE proposal' = proposal BY <1>1
<1>2. ASSUME NEW f \in Flows, CreateCommit(f)
      PROVE  \/ proposal'[p].quantity = proposal[p].quantity
             \/ proposal'[p].quantity = proposedQuantity(p, flow[f].held)
  <2> DEFINE q    == flow[f].proposal
             next == IF flow[f].verdict = "PASS" THEN "PENDING_APPROVAL" ELSE "RISK_REJECTED"
             n    == proposedQuantity(q, flow[f].held)
             row  == [proposal[q] EXCEPT !.status = next, !.quantity = n]
  <2>1. FlowOK(flow[f], proposal, execution, order) /\ flow[f].pc = "created"
    BY <1>2 DEF CreateCommit, Control, FlowsOK
  <2>2. q \in Proposals BY <2>1 DEF FlowOK
  <2>3. proposal' = [proposal EXCEPT ![q] = row] BY <1>2 DEF CreateCommit
  <2> HIDE DEF next, n
  <2>4. row.quantity = n BY <1>0, <2>2 DEF RowOK
  <2> HIDE DEF row
  <2>5. proposal'[q] = row /\ (p # q => proposal'[p] = proposal[p]) BY <1>0, <2>2, <2>3
  <2> QED BY <2>4, <2>5 DEF n
<1>3. ASSUME NEW q \in Proposals, NEW st, proposal' = [proposal EXCEPT ![q].status = st]
      PROVE  proposal'[p].quantity = proposal[p].quantity
  BY <1>3, OneRow
<1>4. ASSUME NEW f \in Flows, ApproveCommit(f) PROVE proposal'[p].quantity = proposal[p].quantity
  <2> DEFINE st == IF flow[f].verdict = "PASS" THEN "APPROVED" ELSE "RISK_REJECTED_AFTER_APPROVAL"
  <2>1. FlowOK(flow[f], proposal, execution, order) /\ flow[f].pc = "approved"
    BY <1>4 DEF ApproveCommit, Control, FlowsOK
  <2>2. flow[f].proposal \in Proposals BY <2>1 DEF FlowOK
  <2>3. proposal' = [proposal EXCEPT ![flow[f].proposal].status = st] BY <1>4 DEF ApproveCommit
  <2> HIDE DEF st
  <2> QED BY <1>3, <2>2, <2>3
<1>5. ASSUME NEW f \in Flows, RecordFailure(f) PROVE proposal'[p].quantity = proposal[p].quantity
  <2>1. flow[f].proposal \in Proposals BY <1>5, Committing DEF RecordFailure
  <2>2. proposal' = [proposal EXCEPT ![flow[f].proposal].status = "EXECUTION_ERROR"] BY <1>5 DEF RecordFailure
  <2> QED BY <1>3, <2>1, <2>2
<1>6. ASSUME NEW f \in Flows, RecordExecution(f) PROVE proposal'[p].quantity = proposal[p].quantity
  <2> DEFINE st == fromBroker(flow[f].answer.status)
  <2>1. flow[f].proposal \in Proposals BY <1>6, Committing DEF RecordExecution
  <2>2. proposal' = [proposal EXCEPT ![flow[f].proposal].status = st] BY <1>6 DEF RecordExecution
  <2> HIDE DEF st
  <2> QED BY <1>3, <2>1, <2>2
<1>7. ASSUME NEW f \in Flows, NEW q \in Proposals, RejectProposal(f, q)
      PROVE  proposal'[p].quantity = proposal[p].quantity
  BY <1>3, <1>7 DEF RejectProposal
<1>8. ASSUME NEW q \in Proposals, CancelProposal(q) PROVE proposal'[p].quantity = proposal[p].quantity
  BY <1>3, <1>8 DEF CancelProposal
<1>9. ASSUME NEW q \in Proposals, ExpiryPasses(q) PROVE proposal'[p].quantity = proposal[p].quantity
  <2>1. proposal' = [proposal EXCEPT ![q].due = TRUE] BY <1>9 DEF ExpiryPasses
  <2>2. [proposal[q] EXCEPT !.due = TRUE].quantity = proposal[q].quantity BY <1>0 DEF RowOK
  <2> QED BY <1>0, <2>1, <2>2
<1>10. CASE expireOpenProposals
  <2>1. proposal' = [q \in Proposals |-> IF q \in dueOpen THEN [proposal[q] EXCEPT !.status = "EXPIRED"]
                                        ELSE proposal[q]]
    BY <1>10 DEF expireOpenProposals
  <2>2. [proposal[p] EXCEPT !.status = "EXPIRED"].quantity = proposal[p].quantity BY <1>0 DEF RowOK
  <2>3. proposal'[p] = IF p \in dueOpen THEN [proposal[p] EXCEPT !.status = "EXPIRED"] ELSE proposal[p] BY <2>1
  <2> QED BY <2>2, <2>3
<1>11. CASE Writes
  BY <1>1, <1>2, <1>4, <1>5, <1>6, <1>7, <1>8, <1>9, <1>10, <1>11
     DEF Writes, SubmitEntry, GetLegs, RecordBracketExit, CancelLegs, SubmitTimeExit, RecordTimeExit,
         SetKillSwitch, BrokerRestart, rows
<1> QED BY <1>1, <1>11, Steps DEF rows

\* What a request read of the portfolio, it keeps.
LEMMA HeldStep ==
  ASSUME Control, [Next]_vars, NEW f \in Flows
  PROVE  \/ flow'[f].held \in {flow[f].held, 0, NoRow}
         \/ \E p \in Proposals : flow'[f].held = broker.position[SymbolOf[p]]
<1>1. flow \in [Flows -> FlowType] BY DEF Control, FlowsOK
<1>2. \A v : flow' = [flow EXCEPT ![f] = v] => flow'[f] = v BY <1>1
<1>3. IdleFlow.held = 0 BY DEF IdleFlow
<1>4. CASE flow'[f] = flow[f] BY <1>4
<1>5. CASE CreateRisk(f)
  <2> PICK w : flow' = [flow EXCEPT ![f].pc = "created", ![f].verdict = w] BY <1>5 DEF CreateRisk
  <2> QED BY <1>1 DEF FlowType
<1>6. CASE ApproveRisk(f)
  <2> PICK w : flow' = [flow EXCEPT ![f].pc = "approved", ![f].verdict = w] BY <1>6 DEF ApproveRisk
  <2> QED BY <1>1 DEF FlowType
<1>7. CASE SubmitEntry(f)
  <2> DEFINE h == seen(SymbolOf[flow[f].proposal])
  <2> PICK a : flow' = [flow EXCEPT ![f].pc = "commit", ![f].answer = a, ![f].held = h] BY <1>7 DEF SubmitEntry
  <2>1. h \in {0, NoRow} BY DEF seen
  <2> HIDE DEF h
  <2>2. flow'[f].held = h BY <1>1 DEF FlowType
  <2> QED BY <2>1, <2>2
<1>8. CASE CreateCommit(f) \/ RecordFailure(f) \/ RecordExecution(f) \/ RecordExecutionFails(f) \/ FlowFails(f)
  BY <1>2, <1>3, <1>8 DEF CreateCommit, RecordFailure, RecordExecution, RecordExecutionFails, FlowFails
<1>9. CASE ApproveCommit(f)
  <2> DEFINE q == flow[f].proposal
             v == IF flow[f].verdict = "PASS" THEN [IdleFlow EXCEPT !.pc = "execute", !.proposal = q]
                  ELSE IdleFlow
  <2>1. flow' = [flow EXCEPT ![f] = v] BY <1>9 DEF ApproveCommit
  <2>2. v.held = 0 BY <1>3, StartedFlow DEF Started
  <2> HIDE DEF v
  <2> QED BY <1>2, <2>1, <2>2
<1>10. CASE ExecuteStart(f)
  <2> DEFINE v == IF executable(flow[f].proposal) THEN [flow[f] EXCEPT !.pc = "submit"] ELSE IdleFlow
  <2>1. flow' = [flow EXCEPT ![f] = v] BY <1>10 DEF ExecuteStart
  <2>2. v.held \in {flow[f].held, 0} BY <1>1, <1>3 DEF FlowType
  <2> HIDE DEF v
  <2> QED BY <1>2, <2>1, <2>2
<1>11. ASSUME NEW q \in Proposals, CreateStart(f, q) \/ ApproveStart(f, q) \/ ExecuteRequest(f, q)
       PROVE  flow'[f].held \in {0, broker.position[SymbolOf[q]]}
  <2> DEFINE h == broker.position[SymbolOf[q]]
  <2>1. \A pc : Begin(pc, q, h).held = h
    <3> HIDE DEF h
    <3> TAKE pc
    <3>1. Begin(pc, q, h) = Started(pc, q, h) BY StartedFlow
    <3> QED BY <3>1 DEF Started
  <2>2. CASE CreateStart(f, q)
    <3>1. flow' = [flow EXCEPT ![f] = Begin("create", q, h)] BY <2>2 DEF CreateStart, Begin
    <3> QED BY <1>2, <2>1, <3>1
  <2>3. CASE ApproveStart(f, q)
    <3>1. flow' = [flow EXCEPT ![f] = Begin("approve", q, h)] BY <2>3 DEF ApproveStart, Begin
    <3> QED BY <1>2, <2>1, <3>1
  <2>4. CASE ExecuteRequest(f, q)
    <3>1. flow' = [flow EXCEPT ![f] = [IdleFlow EXCEPT !.pc = "submit", !.proposal = q]]
      BY <2>4 DEF ExecuteRequest
    <3>2. [IdleFlow EXCEPT !.pc = "submit", !.proposal = q].held = 0 BY StartedFlow DEF Started
    <3> QED BY <1>2, <3>1, <3>2
  <2> QED BY <1>11, <2>2, <2>3, <2>4
<1>12. CASE Crash BY <1>3, <1>12 DEF Crash
<1> QED BY <1>4, <1>5, <1>6, <1>7, <1>8, <1>9, <1>10, <1>11, <1>12, FlowMoves DEF Request

\* The quantity of an order or a leg is what the broker first answered.
LEMMA BrokerBoundStep ==
  ASSUME Control, Bounded, [Next]_vars
  PROVE  BrokerBound(broker')
<1>0. broker \in BrokerRec /\ BrokerBound(broker) /\ Lot \in Nat BY Shape DEF Control, BrokerOK, Bounded
<1>1. CASE broker' = broker BY <1>0, <1>1
<1>2. CASE BrokerRestart
  <2>1. \A o \in Orders : emptyBroker.order[o].quantity = 0 BY DEF emptyBroker, Unknown
  <2>2. \A p \in Proposals : emptyBroker.legs[p].quantity = 0 BY DEF emptyBroker, legsNone
  <2> QED BY <1>0, <1>2, <2>1, <2>2, LotBound DEF BrokerRestart, BrokerBound
<1>3. ASSUME NEW r, Proper(r), NEW st \in OrderStatus, NEW n \in Nat, Filled(broker, broker', r, st, n),
             r.quantity <= MaxQuantity,
             r.order[2] = "entry" /\ isBuy(r.order[1]) => r.quantity <= Lot,
             r.bracket => r.quantity <= Lot
      PROVE  BrokerBound(broker')
  <2> DEFINE rec == [status |-> st, quantity |-> n]
             leg == [status |-> "PENDING", symbol |-> r.symbol, quantity |-> r.quantity]
  <2>1. rec.quantity = n /\ leg.quantity = r.quantity OBVIOUS
  <2>2. /\ broker'.order = [broker.order EXCEPT ![r.order] = rec] /\ n \in 0 .. r.quantity
        /\ broker'.legs = broker.legs \/ (r.bracket /\ broker'.legs = [broker.legs EXCEPT ![r.proposal] = leg])
    BY <1>3 DEF Filled
  <2>3. r.quantity \in Nat /\ r.order \in Orders /\ r.proposal \in Proposals BY <1>3 DEF Proper, IsRequest
  <2> HIDE DEF rec, leg
  <2>4. n <= r.quantity /\ n <= MaxQuantity BY <1>3, <2>2, <2>3, LotBound
  <2>5. broker'.order[r.order] = rec /\ \A o \in Orders \ {r.order} : broker'.order[o] = broker.order[o]
    BY <1>0, <2>2, <2>3 DEF BrokerRec
  <2>6. ASSUME NEW o \in Orders
        PROVE  /\ broker'.order[o].quantity <= MaxQuantity
               /\ o[2] = "entry" /\ isBuy(o[1]) => broker'.order[o].quantity <= Lot
    <3>1. CASE o # r.order BY <1>0, <2>5, <3>1 DEF BrokerBound
    <3>2. CASE o = r.order BY <1>0, <1>3, <2>1, <2>3, <2>4, <2>5, <3>2
    <3> QED BY <3>1, <3>2
  <2>7. ASSUME NEW p \in Proposals PROVE broker'.legs[p].quantity <= Lot
    <3>1. CASE broker'.legs = broker.legs BY <1>0, <3>1 DEF BrokerBound
    <3>2. CASE r.bracket /\ broker'.legs = [broker.legs EXCEPT ![r.proposal] = leg]
      <4>1. broker'.legs[p] = IF p = r.proposal THEN leg ELSE broker.legs[p] BY <1>0, <3>2 DEF BrokerRec
      <4> QED BY <1>0, <1>3, <2>1, <3>2, <4>1 DEF BrokerBound
    <3> QED BY <2>2, <3>1, <3>2
  <2> QED BY <2>6, <2>7 DEF BrokerBound
<1>4. ASSUME NEW f \in Flows, SubmitEntry(f), flow[f].proposal \in Proposals,
             NEW st \in OrderStatus, NEW n \in Nat, Filled(broker, broker', entryRequest(flow[f].proposal), st, n)
      PROVE  BrokerBound(broker')
  <2> DEFINE p == flow[f].proposal  r == entryRequest(p)
  <2>1. Proper(r) BY <1>4, EntryProper DEF SubmitEntry
  <2>2. r.quantity = proposal[p].quantity /\ r.order = entryOf(p) /\ (r.bracket <=> isBuy(p))
    BY DEF entryRequest, request
  <2>3. entryOf(p)[1] = p BY <1>4, OrderNames
  <2>4. proposal[p].quantity <= MaxQuantity /\ (isBuy(p) => proposal[p].quantity <= Lot)
    BY <1>4 DEF Bounded, RowsBound
  <2> HIDE DEF r
  <2> QED BY <1>3, <1>4, <2>1, <2>2, <2>3, <2>4 DEF r
<1>5. ASSUME NEW x \in Passes, SubmitTimeExit(x), pass[x].cur \in TimeExits,
             NEW st \in OrderStatus, NEW n \in Nat, Filled(broker, broker', exitRequest(pass[x].cur), st, n)
      PROVE  BrokerBound(broker')
  <2> DEFINE r == exitRequest(pass[x].cur)
  <2>1. Proper(r) BY <1>5, ExitProper DEF SubmitTimeExit, exitRequest
  <2>2. r.quantity = Lot BY DEF exitRequest, request
  <2>3. \E p \in Proposals : TRUE BY <1>5, OrderNames
  <2>4. Lot <= MaxQuantity /\ Lot <= Lot BY <1>0, <2>3, LotBound
  <2> HIDE DEF r
  <2> QED BY <1>3, <1>5, <2>1, <2>2, <2>4 DEF r
<1>6. ASSUME NEW p \in Proposals, NEW st, Settled(broker, broker', p, st) PROVE BrokerBound(broker')
  <2> DEFINE leg == [status |-> st, symbol |-> broker.legs[p].symbol, quantity |-> broker.legs[p].quantity]
  <2>1. broker'.order = broker.order /\ broker'.legs = [broker.legs EXCEPT ![p] = leg] BY <1>6 DEF Settled
  <2>2. leg.quantity = broker.legs[p].quantity OBVIOUS
  <2> HIDE DEF leg
  <2>3. \A q \in Proposals : broker'.legs[q] = IF q = p THEN leg ELSE broker.legs[q]
    BY <1>0, <2>1 DEF BrokerRec
  <2> QED BY <1>0, <2>1, <2>2, <2>3 DEF BrokerBound
<1>7. \A o \in TimeExits : o[1] \in Proposals BY OrderNames
<1> QED BY <1>1, <1>2, <1>4, <1>5, <1>6, <1>7, BrokerSteps DEF LegSold

\* An answer is within the bounds of the order that it is about.
LEMMA AnswerBound ==
  ASSUME Control, Bounded, BrokerBound(broker'), NEW f \in Flows, SubmitEntry(f)
  PROVE  /\ flow'[f].answer.quantity <= MaxQuantity /\ flow'[f].proposal = flow[f].proposal
         /\ isBuy(flow[f].proposal) => flow'[f].answer.quantity <= Lot
<1> DEFINE p == flow[f].proposal
<1>1. PICK a, h : /\ Submit(entryRequest(p), a)
                  /\ flow' = [flow EXCEPT ![f].pc = "commit", ![f].answer = a, ![f].held = h]
  BY DEF SubmitEntry
<1>2. flow \in [Flows -> FlowType] BY DEF Control, FlowsOK
<1>3. flow'[f].answer = a /\ flow'[f].proposal = p BY <1>1, <1>2 DEF FlowType
<1>4. p \in Proposals /\ entryRequest(p).order = entryOf(p) BY EntryProper DEF SubmitEntry
<1>5. entryOf(p) \in Orders /\ entryOf(p)[1] = p /\ entryOf(p)[2] = "entry" BY <1>4, OrderNames
<1> HIDE DEF p
<1>6. a.quantity = 0 \/ a = broker'.order[entryOf(p)] BY <1>1, <1>4 DEF Submit, Lost, ErrorAnswer
<1>7. 0 <= MaxQuantity /\ 0 <= Lot BY LotBound, Shape
<1>8. a.quantity <= MaxQuantity /\ (isBuy(p) => a.quantity <= Lot) BY <1>5, <1>6, <1>7 DEF BrokerBound
<1> QED BY <1>3, <1>8 DEF p

\* An answer that is not the submission's is the one of before.
LEMMA AnswerStep ==
  ASSUME Control, [Next]_vars, NEW f \in Flows, ~SubmitEntry(f)
  PROVE  /\ flow'[f].answer \in {flow[f].answer, Unknown}
         /\ flow'[f].pc = "commit" => flow'[f] = flow[f]
<1>1. flow \in [Flows -> FlowType] BY DEF Control, FlowsOK
<1>2. \A v : flow' = [flow EXCEPT ![f] = v] => flow'[f] = v BY <1>1
<1>3. IdleFlow.answer = Unknown /\ IdleFlow.pc = "idle" BY DEF IdleFlow
<1>a. flow'[f].pc = "commit" => flow'[f] = flow[f] BY <1>3, FlowGoes
<1>4. CASE flow'[f] = flow[f] BY <1>4, <1>a
<1>5. CASE CreateRisk(f)
  <2> PICK w : flow' = [flow EXCEPT ![f].pc = "created", ![f].verdict = w] BY <1>5 DEF CreateRisk
  <2>1. flow'[f].answer = flow[f].answer BY <1>1 DEF FlowType
  <2> QED BY <1>a, <2>1
<1>6. CASE ApproveRisk(f)
  <2> PICK w : flow' = [flow EXCEPT ![f].pc = "approved", ![f].verdict = w] BY <1>6 DEF ApproveRisk
  <2>1. flow'[f].answer = flow[f].answer BY <1>1 DEF FlowType
  <2> QED BY <1>a, <2>1
<1>8. CASE CreateCommit(f) \/ RecordFailure(f) \/ RecordExecution(f) \/ RecordExecutionFails(f) \/ FlowFails(f)
  <2>1. flow'[f] = IdleFlow
    BY <1>2, <1>8 DEF CreateCommit, RecordFailure, RecordExecution, RecordExecutionFails, FlowFails
  <2> QED BY <1>3, <2>1
<1>9. CASE ApproveCommit(f)
  <2> DEFINE q == flow[f].proposal
             v == IF flow[f].verdict = "PASS" THEN [IdleFlow EXCEPT !.pc = "execute", !.proposal = q]
                  ELSE IdleFlow
  <2>1. flow' = [flow EXCEPT ![f] = v] BY <1>9 DEF ApproveCommit
  <2>2. v.answer = Unknown BY <1>3, StartedFlow DEF Started
  <2> HIDE DEF v
  <2> QED BY <1>2, <1>a, <2>1, <2>2
<1>10. CASE ExecuteStart(f)
  <2> DEFINE v == IF executable(flow[f].proposal) THEN [flow[f] EXCEPT !.pc = "submit"] ELSE IdleFlow
  <2>1. flow' = [flow EXCEPT ![f] = v] BY <1>10 DEF ExecuteStart
  <2>2. v.answer \in {flow[f].answer, Unknown} BY <1>1, <1>3 DEF FlowType
  <2> HIDE DEF v
  <2> QED BY <1>2, <1>a, <2>1, <2>2
<1>11. ASSUME NEW q \in Proposals, CreateStart(f, q) \/ ApproveStart(f, q) \/ ExecuteRequest(f, q)
       PROVE  flow'[f].answer = Unknown
  <2> DEFINE h == broker.position[SymbolOf[q]]
  <2>1. \A pc : Begin(pc, q, h).answer = Unknown
    <3> HIDE DEF h
    <3> TAKE pc
    <3>1. Begin(pc, q, h) = Started(pc, q, h) BY StartedFlow
    <3> QED BY <3>1 DEF Started
  <2>2. CASE CreateStart(f, q)
    <3>1. flow' = [flow EXCEPT ![f] = Begin("create", q, h)] BY <2>2 DEF CreateStart, Begin
    <3> QED BY <1>2, <2>1, <3>1
  <2>3. CASE ApproveStart(f, q)
    <3>1. flow' = [flow EXCEPT ![f] = Begin("approve", q, h)] BY <2>3 DEF ApproveStart, Begin
    <3> QED BY <1>2, <2>1, <3>1
  <2>4. CASE ExecuteRequest(f, q)
    <3>1. flow' = [flow EXCEPT ![f] = [IdleFlow EXCEPT !.pc = "submit", !.proposal = q]]
      BY <2>4 DEF ExecuteRequest
    <3>2. [IdleFlow EXCEPT !.pc = "submit", !.proposal = q].answer = Unknown BY StartedFlow DEF Started
    <3> QED BY <1>2, <3>1, <3>2
  <2> QED BY <1>11, <2>2, <2>3, <2>4
<1>12. CASE Crash
  <2>1. flow'[f] = IdleFlow BY <1>12 DEF Crash
  <2> QED BY <1>3, <2>1
<1> QED BY <1>4, <1>5, <1>6, <1>8, <1>9, <1>10, <1>11, <1>12, <1>a, FlowMoves DEF Request

\* The quantity of a load is that of the answer to its time exit.
LEMMA PassQuantityStep ==
  ASSUME Control, Bounded, BrokerBound(broker'), [Next]_vars, NEW r \in Passes
  PROVE  pass'[r].quantity \in {pass[r].quantity, 0} \/ pass'[r].quantity <= MaxQuantity
<1>1. pass \in [Passes -> PassType] BY DEF Control, PassesOK
<1>2. \A v : pass' = [pass EXCEPT ![r] = v] => pass'[r] = v BY <1>1
<1>3. \A pc : Resume(r, pc) => pass'[r].quantity = 0
  <2> TAKE pc
  <2> HAVE Resume(r, pc)
  <2> DEFINE v == [pass[r] EXCEPT !.pc = pc, !.cur = NoOrderRow, !.quantity = 0]
  <2>1. pass' = [pass EXCEPT ![r] = v] BY DEF Resume
  <2>2. v.quantity = 0 BY <1>1 DEF PassType
  <2> HIDE DEF v
  <2> QED BY <1>2, <2>1, <2>2
<1>4. CASE pass'[r] = pass[r] BY <1>4
<1>5. CASE Crash \/ PassEnd(r)
  <2>1. pass'[r] = IdlePass BY <1>2, <1>5 DEF Crash, PassEnd
  <2> QED BY <2>1 DEF IdlePass
<1>6. CASE PassStart(r)
  <2> PICK t : pass' = [pass EXCEPT ![r].pc = "brackets", ![r].todo = t] BY <1>6 DEF PassStart
  <2> QED BY <1>1 DEF PassType
<1>7. CASE IntradayScan(r)
  <2> PICK t : pass' = [pass EXCEPT ![r].pc = "intraday", ![r].todo = t] BY <1>7 DEF IntradayScan
  <2> QED BY <1>1 DEF PassType
<1>8. CASE HourlyScan(r)
  <2> PICK t : pass' = [pass EXCEPT ![r].pc = "hourly", ![r].todo = t] BY <1>8 DEF HourlyScan
  <2> QED BY <1>1 DEF PassType
<1>9. CASE CancelLegs(r)
  <2>1. pass' = [pass EXCEPT ![r].pc = "sell"] BY <1>9 DEF CancelLegs
  <2> QED BY <1>1, <2>1 DEF PassType
<1>10. CASE RecordBracketExit(r) \/ RecordTimeExit(r) \/ PassFails(r)
  BY <1>3, <1>10 DEF RecordBracketExit, RecordTimeExit, PassFails
<1>11. CASE GetLegs(r)
  <2>1. PICK o : pass' = [pass EXCEPT ![r].todo = @ \ {o},
                                      ![r].pc   = IF broker'.legs[o[1]].status = "FILLED" THEN "record" ELSE @,
                                      ![r].cur  = IF broker'.legs[o[1]].status = "FILLED" THEN o ELSE @]
    BY <1>11 DEF GetLegs
  <2> DEFINE filled == broker'.legs[o[1]].status = "FILLED"
             v == [pass[r] EXCEPT !.todo = @ \ {o}, !.pc = IF filled THEN "record" ELSE @,
                                  !.cur = IF filled THEN o ELSE @]
  <2>2. pass' = [pass EXCEPT ![r] = v] BY <2>1
  <2> HIDE DEF filled
  <2>3. v.quantity = pass[r].quantity BY <1>1 DEF PassType
  <2> HIDE DEF v
  <2> QED BY <1>2, <2>2, <2>3
<1>12. CASE TimeExitStart(r)
  <2>1. PICK o : pass' = [pass EXCEPT ![r].todo = @ \ {o},
                                      ![r].pc   = IF hasExit(o[1]) THEN @ ELSE "cancel",
                                      ![r].cur  = IF hasExit(o[1]) THEN @ ELSE o]
    BY <1>12 DEF TimeExitStart
  <2> DEFINE done == hasExit(o[1])
             v == [pass[r] EXCEPT !.todo = @ \ {o}, !.pc = IF done THEN @ ELSE "cancel",
                                  !.cur = IF done THEN @ ELSE o]
  <2>2. pass' = [pass EXCEPT ![r] = v] BY <2>1
  <2> HIDE DEF done
  <2>3. v.quantity = pass[r].quantity BY <1>1 DEF PassType
  <2> HIDE DEF v
  <2> QED BY <1>2, <2>2, <2>3
<1>13. CASE SubmitTimeExit(r)
  <2>1. pass[r].cur \in TimeExits /\ \E p \in Proposals : TRUE BY <1>13, ExitProper DEF SubmitTimeExit
  <2>2. PICK a :
          /\ Submit(exitRequest(pass[r].cur), a)
          /\ \/ Resume(r, scanOf(pass[r].cur[1]))
             \/ pass' = [pass EXCEPT ![r].pc = "book", ![r].quantity = a.quantity]
    BY <1>13 DEF SubmitTimeExit, exitRequest
  <2>3. CASE Resume(r, scanOf(pass[r].cur[1])) BY <1>3, <2>3
  <2>4. CASE pass' = [pass EXCEPT ![r].pc = "book", ![r].quantity = a.quantity]
    <3>1. pass'[r].quantity = a.quantity BY <1>1, <2>4 DEF PassType
    <3>2. exitRequest(pass[r].cur).order = pass[r].cur /\ pass[r].cur \in Orders BY <2>1, RequestSides, OrderNames
    <3>3. a.quantity = 0 \/ a = broker'.order[pass[r].cur] BY <2>2, <3>2 DEF Submit, Lost, ErrorAnswer
    <3> QED BY <2>1, <3>1, <3>2, <3>3 DEF BrokerBound
  <2> QED BY <2>2, <2>3, <2>4
<1> QED BY <1>4, <1>5, <1>6, <1>7, <1>8, <1>9, <1>10, <1>11, <1>12, <1>13, PassMoves DEF Dashboard

\* The bounds at the start.
LEMMA InitBounded == Init => Bounded
<1> SUFFICES ASSUME Init PROVE Bounded OBVIOUS
<1>1. MaxQuantity \in Nat /\ Lot \in Nat BY LotBound, Shape
<1>2. RowsBound(proposal) BY <1>1 DEF Init, RowsBound
<1>3. FlowsBound(flow) BY <1>1 DEF Init, FlowsBound, IdleFlow, Unknown
<1>4. PassesBound(pass) BY <1>1 DEF Init, PassesBound, IdlePass
<1>5. OrdersBound(order) BY <1>1 DEF Init, OrdersBound, NoRow
<1>7. BrokerBound(broker) BY <1>1 DEF Init, BrokerBound, emptyBroker, Unknown, legsNone
<1> QED BY <1>2, <1>3, <1>4, <1>5, <1>7 DEF Bounded

\* Every step keeps the bounds: nothing asks for more than the entries of all
\* the proposals bought.
LEMMA BoundedStep ==
  ASSUME Control, Control', BooksOK(broker), Bounded, [Next]_vars
  PROVE  Bounded'
<1>0. MaxQuantity \in Nat /\ Lot \in Nat /\ \A p \in Proposals : Lot <= MaxQuantity BY LotBound, Shape
<1>a. RowsBound(proposal) /\ FlowsBound(flow) /\ PassesBound(pass) /\ OrdersBound(order)
      /\ BrokerBound(broker)
  BY DEF Bounded
<1>1. BrokerBound(broker') BY BrokerBoundStep
<1>2. \A p : isBuy(p)' <=> isBuy(p) BY NextBuy
<1>3. RowsBound(proposal')
  <2> SUFFICES ASSUME NEW p \in Proposals
               PROVE  proposal'[p].quantity <= MaxQuantity /\ (isBuy(p) => proposal'[p].quantity <= Lot)
    BY DEF RowsBound
  <2>1. CASE proposal'[p].quantity = proposal[p].quantity BY <1>a, <2>1 DEF RowsBound
  <2>2. ASSUME NEW f \in Flows, proposal'[p].quantity = proposedQuantity(p, flow[f].held)
        PROVE  proposal'[p].quantity <= MaxQuantity /\ (isBuy(p) => proposal'[p].quantity <= Lot)
    <3>1. flow[f].held <= MaxQuantity BY <1>a DEF FlowsBound
    <3> DEFINE n == proposedQuantity(p, flow[f].held)
    <3>2. n \in {Lot, 0} \/ n = flow[f].held BY DEF proposedQuantity
    <3>3. isBuy(p) => n = Lot BY DEF proposedQuantity
    <3> HIDE DEF n
    <3>4. n <= MaxQuantity /\ (isBuy(p) => n <= Lot) BY <1>0, <3>1, <3>2, <3>3
    <3> QED BY <2>2, <3>4 DEF n
  <2> QED BY <2>1, <2>2, QuantityStep
<1>4. FlowsBound(flow')
  <2> SUFFICES ASSUME NEW f \in Flows
               PROVE  /\ flow'[f].held <= MaxQuantity /\ flow'[f].answer.quantity <= MaxQuantity
                      /\ (flow'[f].pc = "commit" /\ isBuy(flow'[f].proposal)) => flow'[f].answer.quantity <= Lot
    BY DEF FlowsBound
  <2>1. flow'[f].held <= MaxQuantity
    <3>1. CASE flow'[f].held \in {flow[f].held, 0, NoRow} BY <1>0, <1>a, <3>1 DEF FlowsBound, NoRow
    <3>2. ASSUME NEW p \in Proposals, flow'[f].held = broker.position[SymbolOf[p]]
          PROVE  flow'[f].held <= MaxQuantity
      <4>1. SymbolOf[p] \in Symbols BY Shape
      <4>2. broker.position[SymbolOf[p]] <= MaxQuantity BY <1>a, <4>1, BrokerPositionBound
      <4> QED BY <3>2, <4>2
    <3> QED BY <3>1, <3>2, HeldStep
  <2>2. CASE SubmitEntry(f) BY <1>1, <2>1, <2>2, AnswerBound
  <2>3. CASE ~SubmitEntry(f)
    <3>1. flow'[f].answer.quantity <= MaxQuantity BY <1>0, <1>a, <2>3, AnswerStep DEF FlowsBound, Unknown
    <3>2. flow'[f].pc = "commit" => flow'[f] = flow[f] BY <2>3, AnswerStep
    <3> QED BY <1>a, <2>1, <3>1, <3>2 DEF FlowsBound
  <2> QED BY <2>2, <2>3
<1>5. PassesBound(pass') BY <1>0, <1>1, <1>a, PassQuantityStep DEF PassesBound
<1>6. ASSUME NEW o \in OrderRows, NEW q, Booked(o, q), q <= MaxQuantity, o[2] = "entry" /\ isBuy(o[1]) => q <= Lot
      PROVE  OrdersBound(order')
  <2>0. order \in [OrderRows -> Nat \cup {NoRow}] BY DEF Control, RowsOK
  <2>1. order' = Put(order, o, q) /\ q \in Nat BY <1>6 DEF Booked
  <2>2. \A i \in OrderRows : order'[i] = IF i = o THEN q ELSE order[i] BY <2>0, <2>1 DEF Put
  <2> QED BY <1>a, <1>6, <2>2 DEF OrdersBound
<1>7. OrdersBound(order')
  <2>1. CASE UNCHANGED <<order, position>> BY <1>a, <2>1
  <2>2. ASSUME NEW f \in Flows, RecordExecution(f), flow[f].proposal \in Proposals,
               Booked(entryOf(flow[f].proposal), flow[f].answer.quantity)
        PROVE  OrdersBound(order')
    <3> DEFINE o == entryOf(flow[f].proposal)
    <3>1. flow[f].pc = "commit" BY <2>2 DEF RecordExecution
    <3>2. o \in OrderRows /\ o[1] = flow[f].proposal BY <2>2, OrderNames
    <3>3. flow[f].answer.quantity <= MaxQuantity /\ (isBuy(o[1]) => flow[f].answer.quantity <= Lot)
      BY <1>a, <3>1, <3>2 DEF FlowsBound
    <3> HIDE DEF o
    <3> QED BY <1>6, <2>2, <3>2, <3>3 DEF o
  <2>3. ASSUME NEW r \in Passes, pass[r].cur \in Brackets, Booked(pass[r].cur, Lot)
        PROVE  OrdersBound(order')
    <3>1. pass[r].cur \in OrderRows /\ pass[r].cur[1] \in Proposals /\ pass[r].cur[2] # "entry" BY <2>3, OrderNames
    <3> QED BY <1>0, <1>6, <2>3, <3>1
  <2>4. ASSUME NEW r \in Passes, pass[r].cur \in TimeExits, Booked(pass[r].cur, pass[r].quantity)
        PROVE  OrdersBound(order')
    <3>1. pass[r].cur \in OrderRows /\ pass[r].cur[2] # "entry" BY <2>4, OrderNames
    <3>2. pass[r].quantity <= MaxQuantity BY <1>a DEF PassesBound
    <3> QED BY <1>6, <2>4, <3>1, <3>2
  <2> QED BY <2>1, <2>2, <2>3, <2>4, OrderSteps
<1>8. /\ RowsBound(proposal)' <=> RowsBound(proposal')
      /\ FlowsBound(flow)' <=> FlowsBound(flow')
      /\ OrdersBound(order)' <=> OrdersBound(order')
      /\ BrokerBound(broker)' <=> BrokerBound(broker')
  BY <1>2 DEF RowsBound, FlowsBound, OrdersBound, BrokerBound
<1> QED BY <1>1, <1>3, <1>4, <1>5, <1>7, <1>8 DEF Bounded, PassesBound

\* The bounds are kept for good.
LEMMA BoundsKept == Spec => [](Control /\ BooksOK(broker) /\ Bounded)
<1>1. Init => Control /\ BooksOK(broker) /\ Bounded
  <2> SUFFICES ASSUME Init PROVE Control /\ BooksOK(broker) /\ Bounded OBVIOUS
  <2>1. broker = emptyBroker BY DEF Init
  <2> QED BY <2>1, InitControl, InitBounded, EmptyBooks
<1>2. Control /\ BooksOK(broker) /\ Bounded /\ [Next]_vars => (Control /\ BooksOK(broker) /\ Bounded)'
  <2> SUFFICES ASSUME Control, BooksOK(broker), Bounded, [Next]_vars
               PROVE  (Control /\ BooksOK(broker) /\ Bounded)'
    OBVIOUS
  <2>1. Control' BY ControlStep
  <2>2. Bounded' BY <2>1, BoundedStep
  <2> QED BY <2>1, <2>2, BooksStep
<1> QED BY <1>1, <1>2, PTL DEF Spec

\* Every variable holds values of its kind, and no amount leaves its bound: the
\* position on record is never negative, and neither it nor what a request asks
\* for exceeds what the entries of all proposals buy.
THEOREM TypesKept == Spec => []TypeOK
<1>1. Control /\ Books /\ Bounded => TypeOK
  <2> SUFFICES ASSUME Control, Books, Bounded PROVE TypeOK OBVIOUS
  <2>0. /\ RowsBound(proposal) /\ OrdersBound(order) /\ BrokerBound(broker)
        /\ MaxQuantity \in Nat /\ Lot \in Nat
    BY LotBound, Shape DEF Bounded
  <2>1. proposal \in [Proposals -> RowType]
    <3>1. proposal \in [Proposals -> [status: ProposalStatus \cup {Absent}, quantity: Nat, due: BOOLEAN]]
      BY DEF Control, RowsOK
    <3>2. ASSUME NEW p \in Proposals PROVE proposal[p] \in RowType
      <4>1. proposal[p] \in [status: ProposalStatus \cup {Absent}, quantity: Nat, due: BOOLEAN] BY <3>1
      <4>2. proposal[p].quantity \in 0 .. MaxQuantity BY <2>0, <4>1 DEF RowsBound
      <4> QED BY <4>1, <4>2 DEF RowType
    <3> QED BY <3>1, <3>2
  <2>2. order \in [OrderRows -> NoRow .. MaxQuantity]
    <3>1. order \in [OrderRows -> Nat \cup {NoRow}] BY DEF Control, RowsOK
    <3>2. ASSUME NEW o \in OrderRows PROVE order[o] \in NoRow .. MaxQuantity
      BY <2>0, <3>1 DEF OrdersBound, NoRow
    <3> QED BY <3>1, <3>2
  <2>3. position \in [Symbols -> 0 .. MaxQuantity]
    <3>1. position \in [Symbols -> Int] BY DEF Control, RestOK
    <3>2. ASSUME NEW s \in Symbols PROVE position[s] \in 0 .. MaxQuantity
      <4>1. position[s] <= MaxQuantity BY <2>0, PositionBound
      <4> QED BY <2>0, <3>1, <4>1 DEF Books, HeldBound
    <3> QED BY <3>1, <3>2
  <2>4. BrokerType(broker)
    <3>1. broker \in BrokerRec BY DEF Control, BrokerOK
    <3>2. broker.order \in [Orders -> ResultType]
      <4>1. ASSUME NEW o \in Orders PROVE broker.order[o] \in ResultType
        <5>1. broker.order[o] \in OrderRec BY <3>1 DEF BrokerRec
        <5>2. broker.order[o].quantity <= MaxQuantity BY <2>0 DEF BrokerBound
        <5>3. CASE broker.order[o] = Unknown BY <5>3 DEF ResultType
        <5>4. CASE broker.order[o] # Unknown
          <6>1. broker.order[o] \in [status: OrderStatus, quantity: Nat] BY <5>1, <5>4 DEF OrderRec
          <6>2. broker.order[o].quantity \in 0 .. MaxQuantity BY <2>0, <5>2, <6>1
          <6> QED BY <6>1, <6>2 DEF ResultType
        <5> QED BY <5>3, <5>4
      <4> QED BY <3>1, <4>1 DEF BrokerRec
    <3>3. broker.legs \in [Proposals -> LegsType]
      <4>1. ASSUME NEW p \in Proposals PROVE broker.legs[p] \in LegsType
        <5>1. broker.legs[p] \in LegsRec BY <3>1 DEF BrokerRec
        <5>2. broker.legs[p].quantity \in 0 .. Lot BY <2>0, <5>1 DEF BrokerBound, LegsRec
        <5> QED BY <5>1, <5>2 DEF LegsRec, LegsType
      <4> QED BY <3>1, <4>1 DEF BrokerRec
    <3>4. DOMAIN broker = {"position", "order", "legs"} /\ broker.position \in [Symbols -> Int]
      BY <3>1 DEF BrokerRec
    <3> QED BY <3>2, <3>3, <3>4 DEF BrokerType
  <2>5. \A f \in Flows : flow[f].pc \in FlowPc /\ flow[f].proposal \in Proposals \cup {NoProposal}
    BY DEF Control, FlowsOK, FlowType
  <2>6. \A r \in Passes : pass[r].pc \in PassPc /\ pass[r].todo \subseteq OrderRows
    BY DEF Control, PassesOK, PassType
  <2>7. /\ kind \in [Proposals -> KindType]
        /\ execution \in [Proposals -> OrderStatus \cup {"none", "ERROR"}]
        /\ approval \in [Proposals -> SUBSET (Flows \X {"APPROVE", "REJECT"})]
        /\ enabled \in BOOLEAN /\ closing \in BOOLEAN
        /\ overdue \in [Proposals -> BOOLEAN] /\ faults \in 0 .. MaxFaults
    BY DEF Control, KindOK, RowsOK, RestOK
  <2> QED BY <2>1, <2>2, <2>3, <2>4, <2>5, <2>6, <2>7 DEF TypeOK
<1> QED BY <1>1, BoundsKept, BooksKept, PTL

-----------------------------------------------------------------------------
(* Each proposal is traded once: PaperTrading implements TradeOnce.        *)

\* What PlacedOrders counts.
Placed(p) == \/ alive(broker.order[entryOf(p)].status)
             \/ answeredFill(p) \/ Recorded[p] # "none"

\* Recorded and PlacedOrders, a proposal at a time.
LEMMA Mapped ==
  /\ \A p \in Proposals :
       /\ Recorded[p] = IF ~alive(execution[p]) THEN "none" ELSE IF hasExit(p) THEN "closed" ELSE "open"
       /\ PlacedOrders[p] = IF Placed(p) THEN 1 ELSE 0
  /\ DOMAIN Recorded = Proposals /\ DOMAIN PlacedOrders = Proposals
  /\ Recorded = [p \in Proposals |-> Recorded[p]] /\ PlacedOrders = [p \in Proposals |-> PlacedOrders[p]]
BY DEF Recorded, PlacedOrders, Placed

\* So they are in the next state.
LEMMA MappedNext ==
  /\ \A p \in Proposals :
       /\ Recorded'[p] = IF ~alive(execution'[p]) THEN "none" ELSE IF hasExit(p)' THEN "closed" ELSE "open"
       /\ PlacedOrders'[p] = IF Placed(p)' THEN 1 ELSE 0
  /\ DOMAIN Recorded' = Proposals /\ DOMAIN PlacedOrders' = Proposals
  /\ Recorded' = [p \in Proposals |-> Recorded'[p]] /\ PlacedOrders' = [p \in Proposals |-> PlacedOrders'[p]]
BY DEF Recorded, PlacedOrders, Placed

\* The statuses of an order that was placed.
LEMMA AliveNames ==
  /\ ~alive("none") /\ ~alive("ERROR") /\ ~alive("LOST") /\ ~alive("REJECTED") /\ alive("FILLED")
BY DEF alive

\* An execution that has not been written has no order and no exit on record.
LEMMA Unwritten ==
  ASSUME Control, NEW p \in Proposals, execution[p] \in {"none", "ERROR"}
  PROVE  Recorded[p] = "none" /\ ~hasExit(p)
<1>1. RowOK(p, proposal[p], execution[p], order) BY DEF Control, RowsOK
<1> QED BY <1>1, Mapped, AliveNames DEF RowOK, hasExit

\* The record of an exit is of an execution that filled.
LEMMA ExitBooked ==
  ASSUME Control, Control', NEW o \in Brackets \cup TimeExits, NEW q, Booked(o, q), execution' = execution
  PROVE  /\ o[1] \in Proposals /\ Recorded[o[1]] \in {"open", "closed"} /\ Recorded'[o[1]] = "closed"
         /\ \A p \in Proposals \ {o[1]} : Recorded'[p] = Recorded[p]
<1>0. o \in OrderRows /\ o[1] \in Proposals /\ o[2] # "entry" BY OrderNames
<1>1. order \in [OrderRows -> Nat \cup {NoRow}] BY DEF Control, RowsOK
<1>2. q \in Nat /\ order' = Put(order, o, q) BY DEF Booked
<1>3. \A i \in OrderRows : order'[i] = IF i = o THEN q ELSE order[i] BY <1>1, <1>2 DEF Put
<1>4. q # NoRow BY <1>2 DEF NoRow
<1>5. hasExit(o[1])' BY <1>0, <1>3, <1>4 DEF hasExit
<1>6. RowOK(o[1], proposal[o[1]], execution[o[1]], order)'
  BY <1>0 DEF Control, RowsOK
<1>7. execution'[o[1]] = "FILLED" BY <1>5, <1>6 DEF RowOK, hasExit
<1>8. Recorded'[o[1]] = "closed" BY <1>0, <1>5, <1>7, MappedNext, AliveNames
<1>9. Recorded[o[1]] \in {"open", "closed"} BY <1>0, <1>7, Mapped, AliveNames
<1>10. ASSUME NEW p \in Proposals \ {o[1]} PROVE Recorded'[p] = Recorded[p]
  <2>1. hasExit(p)' <=> hasExit(p) BY <1>3, <1>10 DEF hasExit
  <2> QED BY <1>10, <2>1, Mapped, MappedNext
<1> QED BY <1>0, <1>8, <1>9, <1>10

\* An execution is written by the request that has its answer.
LEMMA ExecutedStep ==
  ASSUME Control, NEW f \in Flows, RecordExecution(f)
  PROVE  LET p == flow[f].proposal IN
         /\ p \in Proposals /\ execution' = [execution EXCEPT ![p] = flow[f].answer.status]
         /\ Recorded[p] = "none"
         /\ Recorded'[p] = IF alive(flow[f].answer.status) THEN "open" ELSE "none"
         /\ \A q \in Proposals \ {p} : Recorded'[q] = Recorded[q]
<1> DEFINE p == flow[f].proposal  st == flow[f].answer.status
<1>1. /\ p \in Proposals /\ execution[p] \in {"none", "ERROR"} /\ flow[f].answer \in Answers
      /\ order[entryOf(p)] = NoRow
  BY Committing DEF RecordExecution
<1>2. /\ execution' = [execution EXCEPT ![p] = st]
      /\ order' = Put(order, entryOf(p), flow[f].answer.quantity)
  BY DEF RecordExecution, Put
<1>3. execution \in [Proposals -> OrderStatus \cup {"none", "ERROR"}] /\ order \in [OrderRows -> Nat \cup {NoRow}]
  BY DEF Control, RowsOK
<1> DEFINE n == flow[f].answer.quantity
<1> HIDE DEF p, st, n
<1>4. entryOf(p) \in OrderRows /\ entryOf(p)[2] = "entry" BY <1>1, OrderNames
<1>5. \A i \in OrderRows \ {entryOf(p)} : order'[i] = order[i] BY <1>2, <1>3 DEF Put, n
<1>6. \A q \in Proposals : hasExit(q)' <=> hasExit(q)
  <2>1. \A i \in OrderRows : i[2] # "entry" => order'[i] = order[i] BY <1>4, <1>5
  <2> QED BY <2>1 DEF hasExit
<1>7. Recorded[p] = "none" /\ ~hasExit(p) BY <1>1, Unwritten
<1>8. execution'[p] = st /\ \A q \in Proposals \ {p} : execution'[q] = execution[q] BY <1>1, <1>2, <1>3
<1>9. Recorded'[p] = IF alive(st) THEN "open" ELSE "none" BY <1>1, <1>6, <1>7, <1>8, MappedNext
<1>10. \A q \in Proposals \ {p} : Recorded'[q] = Recorded[q] BY <1>6, <1>8, Mapped, MappedNext
<1> QED BY <1>1, <1>2, <1>7, <1>9, <1>10 DEF p, st

\* Only the records of an answer and of an exit change what is on record.
LEMMA RecordedStays ==
  ASSUME Control, [Next]_vars,
         \A f \in Flows : ~RecordExecution(f),
         \A r \in Passes : ~RecordBracketExit(r) /\ ~RecordTimeExit(r)
  PROVE  Recorded' = Recorded
<1>1. order' = order BY OrderSteps
<1>2. ASSUME NEW p \in Proposals PROVE Recorded'[p] = Recorded[p]
  <2>1. hasExit(p)' <=> hasExit(p) BY <1>1 DEF hasExit
  <2>2. CASE execution'[p] = execution[p] BY <2>1, <2>2, Mapped, MappedNext
  <2>3. CASE execution'[p] # execution[p]
    <3>1. PICK f \in Flows : flow[f].proposal = p /\ flow[f].pc = "commit" /\ execution'[p] = "ERROR"
      BY <2>3, ExecutionStep
    <3>2. execution[p] \in {"none", "ERROR"} BY <3>1, Committing
    <3> QED BY <3>1, <3>2, Unwritten, MappedNext, AliveNames
  <2> QED BY <2>2, <2>3
<1>3. [p \in Proposals |-> Recorded'[p]] = [p \in Proposals |-> Recorded[p]] BY <1>2
<1> QED BY <1>3, Mapped, MappedNext

\* The broker answers for a new entry when a request submits it.
LEMMA AliveStep ==
  ASSUME Control, [Next]_vars, NEW p \in Proposals,
         alive(broker'.order[entryOf(p)].status), ~alive(broker.order[entryOf(p)].status)
  PROVE  \E f \in Flows : SubmitEntry(f) /\ flow[f].proposal = p
<1>1. entryOf(p) \in Orders /\ entryOf(p) \notin TimeExits BY OrderNames
<1>2. Unknown.status = "none" BY DEF Unknown
<1>3. broker'.order[entryOf(p)] # Unknown BY <1>2, AliveNames
<1>4. ~BrokerRestart
  <2>1. emptyBroker.order[entryOf(p)] = Unknown BY <1>1 DEF emptyBroker
  <2> QED BY <1>3, <2>1 DEF BrokerRestart
<1>5. broker.order[entryOf(p)] = Unknown
  <2>1. CASE broker.order[entryOf(p)] # Unknown
    <3>1. broker'.order[entryOf(p)] = broker.order[entryOf(p)] BY <1>1, <1>4, <2>1, KnownStays
    <3> QED BY <3>1
  <2> QED BY <2>1
<1>6. \A r \in Passes : SubmitTimeExit(r) => pass[r].cur \in TimeExits BY ExitProper DEF SubmitTimeExit
<1>7. PICK f \in Flows : SubmitEntry(f) /\ flow[f].proposal \in Proposals /\ entryOf(p) = entryOf(flow[f].proposal)
  BY <1>1, <1>3, <1>5, <1>6, NewOrder
<1>8. flow[f].proposal = p BY <1>7, OrderNames
<1> QED BY <1>7, <1>8

\* A submission is answered, and its request goes on with its proposal.
LEMMA SubmissionGoes ==
  ASSUME Control, NEW f \in Flows, SubmitEntry(f)
  PROVE  LET p == flow[f].proposal IN
         /\ p \in Proposals
         /\ \E a : Submit(entryRequest(p), a) /\ flow'[f].answer = a
         /\ flow'[f].proposal = p /\ flow'[f].pc = "commit"
         /\ \A g \in Flows \ {f} : flow'[g] = flow[g]
<1>1. flow \in [Flows -> FlowType] BY DEF Control, FlowsOK
<1>2. PICK a, h : /\ Submit(entryRequest(flow[f].proposal), a)
                  /\ flow' = [flow EXCEPT ![f].pc = "commit", ![f].answer = a, ![f].held = h]
  BY DEF SubmitEntry
<1>3. flow'[f].answer = a /\ flow'[f].proposal = flow[f].proposal /\ flow'[f].pc = "commit"
  BY <1>1, <1>2 DEF FlowType
<1>4. \A g \in Flows \ {f} : flow'[g] = flow[g] BY <1>1, <1>2
<1>5. flow[f].proposal \in Proposals BY EntryProper DEF SubmitEntry
<1> QED BY <1>2, <1>3, <1>4, <1>5

\* What is placed, and nobody submits, was placed already.
LEMMA PlacedStays ==
  ASSUME Control, [Next]_vars, NEW p \in Proposals, Placed(p)', Recorded'[p] # "none" => Recorded[p] # "none",
         \A f \in Flows : SubmitEntry(f) => flow[f].proposal # p
  PROVE  Placed(p)
<1>1. CASE Recorded'[p] # "none" BY <1>1 DEF Placed
<1>2. CASE alive(broker'.order[entryOf(p)].status) BY <1>2, AliveStep DEF Placed
<1>3. CASE answeredFill(p)'
  <2>1. PICK f \in Flows : flow'[f].proposal = p /\ flow'[f].pc = "commit" /\ alive(flow'[f].answer.status)
    BY <1>3 DEF answeredFill
  <2>2. CASE SubmitEntry(f) BY <2>1, <2>2, SubmissionGoes
  <2>3. CASE ~SubmitEntry(f)
    <3>1. flow'[f] = flow[f] BY <2>1, <2>3, AnswerStep
    <3> QED BY <2>1, <3>1 DEF Placed, answeredFill
  <2> QED BY <2>2, <2>3
<1>4. Placed(p)' <=> alive(broker'.order[entryOf(p)].status) \/ answeredFill(p)' \/ Recorded'[p] # "none"
  BY DEF Placed
<1> QED BY <1>1, <1>2, <1>3, <1>4

\* Nothing new is placed or recorded: what is no longer placed was refused.
LEMMA RefuseStep ==
  ASSUME Recorded' = Recorded, \A p \in Proposals : Placed(p)' => Placed(p)
  PROVE  Abstract!Next
<1> DEFINE S == {p \in Proposals : Placed(p) /\ ~Placed(p)'}
           o2 == [p \in Proposals |-> IF p \in S THEN 0 ELSE PlacedOrders[p]]
<1>1. \A p \in S : PlacedOrders[p] = 1 /\ Recorded[p] = "none"
  <2> SUFFICES ASSUME NEW p \in S PROVE PlacedOrders[p] = 1 /\ Recorded[p] = "none" OBVIOUS
  <2>1. Recorded'[p] = "none" BY DEF Placed
  <2> QED BY <2>1, Mapped
<1>2. \A p \in Proposals : PlacedOrders'[p] = IF p \in S THEN 0 ELSE PlacedOrders[p]
  <2> SUFFICES ASSUME NEW p \in Proposals PROVE PlacedOrders'[p] = IF p \in S THEN 0 ELSE PlacedOrders[p] OBVIOUS
  <2>1. PlacedOrders'[p] = IF Placed(p)' THEN 1 ELSE 0 BY MappedNext
  <2>2. PlacedOrders[p] = IF Placed(p) THEN 1 ELSE 0 BY Mapped
  <2> QED BY <2>1, <2>2
<1>3. S \in SUBSET Proposals OBVIOUS
<1> HIDE DEF S
<1>4. [p \in Proposals |-> PlacedOrders'[p]] = o2 BY <1>2
<1>5. PlacedOrders' = o2 BY <1>4, MappedNext
<1>6. Abstract!Refuse(S) BY <1>1, <1>5 DEF Abstract!Refuse
<1> QED BY <1>3, <1>6 DEF Abstract!Next

\* What is placed stays the same where nothing that it rests on moves.
LEMMA PlacedSame ==
  ASSUME NEW p \in Proposals, broker'.order[entryOf(p)] = broker.order[entryOf(p)],
         answeredFill(p)' <=> answeredFill(p), Recorded'[p] = "none" <=> Recorded[p] = "none"
  PROVE  PlacedOrders'[p] = PlacedOrders[p]
<1>1. Placed(p)' <=> Placed(p) BY DEF Placed
<1> QED BY <1>1, Mapped, MappedNext

\* An entry is submitted: it is placed, or it is not taken.
LEMMA SubmitMaps ==
  ASSUME Control, [Next]_vars, NEW f \in Flows, SubmitEntry(f)
  PROVE  Abstract!Next
<1>0. flow[f].proposal \in Proposals BY SubmissionGoes
<1> SUFFICES ASSUME NEW p \in Proposals, p = flow[f].proposal PROVE Abstract!Next BY <1>0
<1>1. /\ p \in Proposals /\ flow'[f].proposal = p /\ flow'[f].pc = "commit"
      /\ \A g \in Flows \ {f} : flow'[g] = flow[g]
  BY SubmissionGoes
<1>2. flow[f].pc = "submit" /\ FlowOK(flow[f], proposal, execution, order) BY DEF SubmitEntry, Control, FlowsOK
<1>3. execution[p] \in {"none", "ERROR"} BY <1>2 DEF FlowOK, Executing
<1>4. Recorded[p] = "none" BY <1>1, <1>3, Unwritten
<1>5. Recorded' = Recorded
  <2>1. execution' = execution /\ order' = order BY DEF SubmitEntry, rows
  <2>2. \A q \in Proposals : hasExit(q)' <=> hasExit(q) BY <2>1 DEF hasExit
  <2>3. \A q \in Proposals : Recorded'[q] = Recorded[q] BY <2>1, <2>2, Mapped, MappedNext
  <2>4. [q \in Proposals |-> Recorded'[q]] = [q \in Proposals |-> Recorded[q]] BY <2>3
  <2> QED BY <2>4, Mapped, MappedNext
<1>6. \A g \in Flows : SubmitEntry(g) => flow[g].proposal = p
  <2> SUFFICES ASSUME NEW g \in Flows, SubmitEntry(g), g # f PROVE FALSE OBVIOUS
  <2>1. flow'[g].pc = "commit" BY SubmissionGoes
  <2> QED BY <1>1, <2>1 DEF SubmitEntry
<1>7. \A q \in Proposals \ {p} : Placed(q)' => Placed(q) BY <1>5, <1>6, PlacedStays
<1>8. ~BrokerRestart BY <1>1, <1>2 DEF BrokerRestart
<1>9. ASSUME NEW q \in Proposals \ {p}, Placed(q) PROVE Placed(q)'
  <2>1. CASE Recorded[q] # "none" BY <1>5, <2>1 DEF Placed
  <2>2. CASE alive(broker.order[entryOf(q)].status)
    <3>1. entryOf(q) \in Orders /\ broker.order[entryOf(q)] # Unknown BY <2>2, OrderNames, AliveNames DEF Unknown
    <3>2. broker'.order[entryOf(q)] = broker.order[entryOf(q)] BY <1>8, <3>1, KnownStays
    <3> QED BY <2>2, <3>2 DEF Placed
  <2>3. CASE answeredFill(q)
    <3>1. PICK g \in Flows : flow[g].proposal = q /\ flow[g].pc = "commit" /\ alive(flow[g].answer.status)
      BY <2>3 DEF answeredFill
    <3>2. flow'[g] = flow[g] BY <1>1, <3>1
    <3> QED BY <3>1, <3>2 DEF Placed, answeredFill
  <2> QED BY <1>9, <2>1, <2>2, <2>3 DEF Placed
<1>10. CASE Placed(p)' /\ ~Placed(p)
  <2>1. PlacedOrders[p] = 0 BY <1>1, <1>10, Mapped
  <2>2. \A q \in Proposals : PlacedOrders'[q] = IF q = p THEN 1 ELSE PlacedOrders[q]
    <3> SUFFICES ASSUME NEW q \in Proposals PROVE PlacedOrders'[q] = IF q = p THEN 1 ELSE PlacedOrders[q] OBVIOUS
    <3>1. PlacedOrders'[q] = IF Placed(q)' THEN 1 ELSE 0 BY MappedNext
    <3>2. PlacedOrders[q] = IF Placed(q) THEN 1 ELSE 0 BY Mapped
    <3> QED BY <1>7, <1>9, <1>10, <3>1, <3>2
  <2>3. [q \in Proposals |-> PlacedOrders'[q]] = [PlacedOrders EXCEPT ![p] = 1] BY <2>2, Mapped
  <2>4. PlacedOrders' = [PlacedOrders EXCEPT ![p] = 1] BY <2>3, MappedNext
  <2>5. Abstract!Place(p) BY <1>4, <1>5, <2>1, <2>4 DEF Abstract!Place
  <2> QED BY <1>1, <2>5 DEF Abstract!Next
<1>11. CASE ~(Placed(p)' /\ ~Placed(p)) BY <1>5, <1>7, <1>11, RefuseStep
<1> QED BY <1>10, <1>11

\* An answer is recorded: the trade is on record, or there is none.
LEMMA RecordMaps ==
  ASSUME Control, [Next]_vars, NEW f \in Flows, RecordExecution(f)
  PROVE  Abstract!Next
<1>0. flow[f].proposal \in Proposals BY ExecutedStep
<1> SUFFICES ASSUME NEW p \in Proposals, p = flow[f].proposal, NEW st, st = flow[f].answer.status
             PROVE  Abstract!Next
  BY <1>0
<1>1. /\ p \in Proposals /\ Recorded[p] = "none" /\ Recorded'[p] = (IF alive(st) THEN "open" ELSE "none")
      /\ \A q \in Proposals \ {p} : Recorded'[q] = Recorded[q]
  BY ExecutedStep
<1>2. /\ flow' = [flow EXCEPT ![f] = IdleFlow] /\ flow[f].pc = "commit" /\ broker' = broker
      /\ flow \in [Flows -> FlowType]
  BY DEF RecordExecution, Control, FlowsOK
<1>3. flow'[f].pc = "idle" /\ \A g \in Flows \ {f} : flow'[g] = flow[g] BY <1>2 DEF IdleFlow
<1>4. \A q \in Proposals \ {p} : answeredFill(q)' <=> answeredFill(q) BY <1>3 DEF answeredFill
<1>5. \A q \in Proposals \ {p} : PlacedOrders'[q] = PlacedOrders[q] BY <1>1, <1>2, <1>4, PlacedSame
<1>6. CASE alive(st)
  <2>1. Placed(p) BY <1>2, <1>6 DEF Placed, answeredFill
  <2>2. Placed(p)' BY <1>1, <1>6 DEF Placed
  <2>3. PlacedOrders[p] = 1 /\ PlacedOrders'[p] = 1 BY <1>1, <2>1, <2>2, Mapped, MappedNext
  <2>4. [q \in Proposals |-> PlacedOrders'[q]] = [q \in Proposals |-> PlacedOrders[q]] BY <1>5, <2>3
  <2>5. PlacedOrders' = PlacedOrders BY <2>4, Mapped, MappedNext
  <2>6. [q \in Proposals |-> Recorded'[q]] = [Recorded EXCEPT ![p] = "open"] BY <1>1, <1>6, Mapped
  <2>7. Recorded' = [Recorded EXCEPT ![p] = "open"] BY <2>6, MappedNext
  <2>8. Abstract!Record(p) BY <1>1, <2>3, <2>5, <2>7 DEF Abstract!Record
  <2> QED BY <1>1, <2>8 DEF Abstract!Next
<1>7. CASE ~alive(st)
  <2>1. \A q \in Proposals : Recorded'[q] = Recorded[q] BY <1>1, <1>7
  <2>2. [q \in Proposals |-> Recorded'[q]] = [q \in Proposals |-> Recorded[q]] BY <2>1
  <2>3. Recorded' = Recorded BY <2>2, Mapped, MappedNext
  <2>4. \A g \in Flows : ~SubmitEntry(g)
    <3> SUFFICES ASSUME NEW g \in Flows, SubmitEntry(g) PROVE FALSE OBVIOUS
    <3>1. flow'[g].pc = "commit" /\ flow[g].pc = "submit" BY SubmissionGoes DEF SubmitEntry
    <3> QED BY <1>3, <3>1
  <2>5. \A q \in Proposals : Placed(q)' => Placed(q) BY <2>3, <2>4, PlacedStays
  <2> QED BY <2>3, <2>5, RefuseStep
<1> QED BY <1>6, <1>7

\* An exit is recorded: the trade is closed, once.
LEMMA ExitMaps ==
  ASSUME Control, Control', [Next]_vars, NEW r \in Passes, RecordBracketExit(r) \/ RecordTimeExit(r)
  PROVE  Abstract!Next \/ UNCHANGED Abstract!vars
<1>1. execution' = execution /\ broker' = broker /\ flow' = flow /\ proposal' = proposal
  BY DEF RecordBracketExit, RecordTimeExit
<1>2. \A p \in Proposals : answeredFill(p)' <=> answeredFill(p) BY <1>1 DEF answeredFill
<1>3. ASSUME \A p \in Proposals : Recorded'[p] = "none" <=> Recorded[p] = "none"
      PROVE  PlacedOrders' = PlacedOrders
  <2>1. \A p \in Proposals : PlacedOrders'[p] = PlacedOrders[p] BY <1>1, <1>2, <1>3, PlacedSame
  <2>2. [p \in Proposals |-> PlacedOrders'[p]] = [p \in Proposals |-> PlacedOrders[p]] BY <2>1
  <2> QED BY <2>2, Mapped, MappedNext
<1>4. ASSUME \A p \in Proposals : Recorded'[p] = Recorded[p] PROVE UNCHANGED Abstract!vars
  <2>1. [p \in Proposals |-> Recorded'[p]] = [p \in Proposals |-> Recorded[p]] BY <1>4
  <2>2. Recorded' = Recorded BY <2>1, Mapped, MappedNext
  <2> QED BY <1>3, <2>2 DEF Abstract!vars
<1>5. CASE UNCHANGED <<order, position>>
  <2>1. \A p \in Proposals : hasExit(p)' <=> hasExit(p) BY <1>5 DEF hasExit
  <2>2. \A p \in Proposals : Recorded'[p] = Recorded[p] BY <1>1, <2>1, Mapped, MappedNext
  <2> QED BY <1>4, <2>2
<1>6. ASSUME NEW o \in Brackets \cup TimeExits, NEW q, Booked(o, q)
      PROVE  Abstract!Next \/ UNCHANGED Abstract!vars
  <2> DEFINE p == o[1]
  <2>1. /\ p \in Proposals /\ Recorded[p] \in {"open", "closed"} /\ Recorded'[p] = "closed"
        /\ \A i \in Proposals \ {p} : Recorded'[i] = Recorded[i]
    BY <1>1, <1>6, ExitBooked
  <2> HIDE DEF p
  <2>2. CASE Recorded[p] = "closed" BY <1>4, <2>1, <2>2
  <2>3. CASE Recorded[p] = "open"
    <3>1. PlacedOrders' = PlacedOrders BY <1>3, <2>1, <2>3
    <3>2. [i \in Proposals |-> Recorded'[i]] = [Recorded EXCEPT ![p] = "closed"] BY <2>1, Mapped
    <3>3. Recorded' = [Recorded EXCEPT ![p] = "closed"] BY <3>2, MappedNext
    <3>4. Abstract!Settle(p) BY <2>3, <3>1, <3>3 DEF Abstract!Settle
    <3> QED BY <2>1, <3>4 DEF Abstract!Next
  <2> QED BY <2>1, <2>2, <2>3
<1>7. \A f \in Flows : ~RecordExecution(f)
  <2> SUFFICES ASSUME NEW f \in Flows, RecordExecution(f) PROVE FALSE OBVIOUS
  <2>1. flow' = [flow EXCEPT ![f] = IdleFlow] /\ flow[f].pc = "commit" /\ flow \in [Flows -> FlowType]
    BY DEF RecordExecution, Control, FlowsOK
  <2> QED BY <1>1, <2>1 DEF IdleFlow
<1> QED BY <1>5, <1>6, <1>7, OrderSteps

\* Every step of PaperTrading is a step of TradeOnce, or none.
LEMMA TradeStep ==
  ASSUME Control, Control', [Next]_vars
  PROVE  [Abstract!Next]_(Abstract!vars)
<1>1. CASE \E f \in Flows : SubmitEntry(f) BY <1>1, SubmitMaps
<1>2. CASE \E f \in Flows : RecordExecution(f) BY <1>2, RecordMaps
<1>3. CASE \E r \in Passes : RecordBracketExit(r) \/ RecordTimeExit(r) BY <1>3, ExitMaps
<1>4. CASE ~(\E f \in Flows : SubmitEntry(f) \/ RecordExecution(f))
           /\ ~(\E r \in Passes : RecordBracketExit(r) \/ RecordTimeExit(r))
  <2>1. Recorded' = Recorded BY <1>4, RecordedStays
  <2>2. \A p \in Proposals : Placed(p)' => Placed(p) BY <1>4, <2>1, PlacedStays
  <2> QED BY <2>1, <2>2, RefuseStep
<1> QED BY <1>1, <1>2, <1>3, <1>4

\* At first nothing is placed and nothing is on record.
LEMMA InitTrade == Init => Abstract!Init
<1> SUFFICES ASSUME Init PROVE Abstract!Init OBVIOUS
<1>1. \A p \in Proposals : Recorded[p] = "none" BY Mapped, AliveNames DEF Init
<1>2. ASSUME NEW p \in Proposals PROVE PlacedOrders[p] = 0
  <2>1. entryOf(p) \in Orders BY OrderNames
  <2>2. broker.order[entryOf(p)].status = "none" BY <2>1 DEF Init, emptyBroker, Unknown
  <2>3. ~answeredFill(p) BY DEF answeredFill, Init, IdleFlow
  <2> QED BY <1>1, <2>2, <2>3, Mapped, AliveNames DEF Placed
<1>3. /\ [p \in Proposals |-> Recorded[p]] = [p \in Proposals |-> "none"]
      /\ [p \in Proposals |-> PlacedOrders[p]] = [p \in Proposals |-> 0]
  BY <1>1, <1>2
<1> QED BY <1>3, Mapped DEF Abstract!Init

\* A proposal is traded at most once and recorded once, over repeated
\* approvals, executions, lost answers and restarts: PaperTrading implements
\* TradeOnce.
THEOREM TradedOnce == Spec => TradesOnce
<1>1. Control /\ Control' /\ [Next]_vars => [Abstract!Next]_(Abstract!vars) BY TradeStep
<1> QED BY <1>1, InitTrade, Controlled, PTL DEF Spec, TradesOnce, Abstract!Spec

-----------------------------------------------------------------------------
(* No position is sold twice.                                              *)

\* A bracket sells what its entry bought, an entry that filled bought one Lot,
\* and a time exit is of an entry of the intraday or hourly strategy and sells
\* at most one Lot.
Deal(p, b) ==
  /\ b.legs[p].status # "none" => b.legs[p].quantity = b.order[entryOf(p)].quantity
  /\ (isBuy(p) /\ b.order[entryOf(p)].status = "FILLED") => b.order[entryOf(p)].quantity = Lot
  /\ \A why \in TimeReasons : b.order[exitOf(p, why)] # Unknown =>
       isBuy(p) /\ kind[p].phase \in {25, 27} /\ b.order[exitOf(p, why)].quantity <= Lot

DealOK == \A p \in Proposals : Deal(p, broker)

\* Until something fails, what is on record of an entry is what became of it.
MatchOK ==
  faults = 0 => \A p \in Proposals :
    execution[p] # "none" => execution[p] = broker.order[entryOf(p)].status

\* Two orders with one key are one.
LEMMA KeysApart ==
  /\ \A p, q \in Proposals : entryOf(p) = entryOf(q) => p = q
  /\ \A p, q \in Proposals, why \in TimeReasons : entryOf(q) # exitOf(p, why)
  /\ \A p, q \in Proposals, why, w \in TimeReasons : exitOf(p, why) = exitOf(q, w) => p = q /\ why = w
  /\ \A p \in Proposals, why \in TimeReasons : exitOf(p, why) \in Orders /\ exitOf(p, why)[1] = p
  /\ \A p \in Proposals : entryOf(p) \in Orders
BY DEF Orders, TimeReasons, entryOf, exitOf

\* A request that fills, and the bracket that it opens.
LEMMA DealFills ==
  ASSUME Control, DealOK, NEW r, Proper(r), NEW st \in OrderStatus, NEW n \in Nat,
         Filled(broker, broker', r, st, n), NEW p \in Proposals
  PROVE  /\ n <= r.quantity /\ (st = "FILLED" => n = r.quantity)
         /\ \A o \in Orders : broker'.order[o] = IF o = r.order THEN [status |-> st, quantity |-> n]
                                                ELSE broker.order[o]
         /\ \/ broker'.legs[p] = broker.legs[p]
            \/ r.bracket /\ p = r.proposal /\ broker'.legs[p].quantity = n
<1>0. broker \in BrokerRec BY DEF Control, BrokerOK
<1>1. r.quantity \in Nat /\ r.order \in Orders /\ r.proposal \in Proposals BY DEF Proper, IsRequest
<1> DEFINE rec == [status |-> st, quantity |-> n]
           leg == [status |-> "PENDING", symbol |-> r.symbol, quantity |-> r.quantity]
<1>2. /\ broker'.order = [broker.order EXCEPT ![r.order] = rec] /\ n \in 0 .. r.quantity
      /\ st = "FILLED" => n = r.quantity
      /\ broker'.legs = broker.legs
         \/ (r.bracket /\ st = "FILLED" /\ broker'.legs = [broker.legs EXCEPT ![r.proposal] = leg])
  BY DEF Filled
<1>3. leg.quantity = r.quantity OBVIOUS
<1> HIDE DEF rec, leg
<1>4. \A o \in Orders : broker'.order[o] = IF o = r.order THEN rec ELSE broker.order[o]
  BY <1>0, <1>2 DEF BrokerRec
<1>5. ASSUME r.bracket, st = "FILLED", broker'.legs = [broker.legs EXCEPT ![r.proposal] = leg]
      PROVE  broker'.legs[p] = IF p = r.proposal THEN leg ELSE broker.legs[p]
  BY <1>0, <1>5 DEF BrokerRec
<1>6. \/ broker'.legs[p] = broker.legs[p]
      \/ r.bracket /\ p = r.proposal /\ broker'.legs[p].quantity = n
  BY <1>2, <1>3, <1>5
<1>7. n <= r.quantity BY <1>1, <1>2
<1> QED BY <1>2, <1>4, <1>6, <1>7 DEF rec

\* An entry that is submitted.
LEMMA DealEntry ==
  ASSUME Control, DealOK, NEW f \in Flows, SubmitEntry(f), NEW st \in OrderStatus, NEW n \in Nat,
         Filled(broker, broker', entryRequest(flow[f].proposal), st, n), NEW p \in Proposals
  PROVE  Deal(p, broker')
<1> DEFINE q == flow[f].proposal  r == entryRequest(q)
<1>0. flow[f].pc = "submit" BY DEF SubmitEntry
<1>1. q \in Proposals /\ Proper(r) BY <1>0, EntryProper DEF Control, FlowsOK, FlowOK
<1>2. r.quantity = proposal[q].quantity /\ r.order = entryOf(q) /\ r.proposal = q
  BY DEF entryRequest, request
<1>3. isBuy(q) => proposal[q].quantity = Lot
  <2>1. proposal[q].status # Absent
    BY <1>0 DEF Control, FlowsOK, FlowOK, Executing, Absent
  <2> QED BY <1>1, <2>1 DEF Control, RowsOK, RowOK
<1>4. broker.order[entryOf(q)] = Unknown BY <1>2 DEF Filled
<1> HIDE DEF q, r
<1>5. /\ n <= r.quantity /\ (st = "FILLED" => n = r.quantity)
      /\ \A o \in Orders : broker'.order[o] = IF o = entryOf(q) THEN [status |-> st, quantity |-> n]
                                              ELSE broker.order[o]
      /\ broker'.legs[p] = broker.legs[p] \/ (p = q /\ broker'.legs[p].quantity = n)
  BY <1>1, <1>2, DealFills DEF q, r
<1>6. Deal(p, broker) BY DEF DealOK
<1>7. \A why \in TimeReasons : broker'.order[exitOf(p, why)] = broker.order[exitOf(p, why)]
  BY <1>1, <1>5, KeysApart
<1>8. broker'.order[entryOf(p)] = IF p = q THEN [status |-> st, quantity |-> n] ELSE broker.order[entryOf(p)]
  BY <1>1, <1>5, KeysApart
<1>9. p = q => broker.legs[p].status = "none" BY <1>4 DEF Control, BrokerOK
<1> QED BY <1>2, <1>3, <1>5, <1>6, <1>7, <1>8, <1>9 DEF Deal

\* A time exit that is submitted.
LEMMA DealExit ==
  ASSUME Control, DealOK, NEW x \in Passes, SubmitTimeExit(x), NEW st \in OrderStatus, NEW n \in Nat,
         Filled(broker, broker', exitRequest(pass[x].cur), st, n), NEW p \in Proposals
  PROVE  Deal(p, broker')
<1> DEFINE o == pass[x].cur  r == exitRequest(o)
<1>0. pass[x].pc = "sell" BY DEF SubmitTimeExit
<1>1. o \in TimeExits /\ Bought(o, execution) /\ Timed(o)
  BY <1>0 DEF Control, PassesOK, PassOK
<1>2. Proper(r) BY <1>0, ExitProper DEF exitRequest
<1>3. r.quantity = Lot /\ r.order = o /\ ~r.bracket BY DEF exitRequest, request
<1> HIDE DEF o, r
<1>4. /\ n <= Lot
      /\ \A i \in Orders : broker'.order[i] = IF i = o THEN [status |-> st, quantity |-> n]
                                              ELSE broker.order[i]
      /\ broker'.legs[p] = broker.legs[p]
  BY <1>2, <1>3, DealFills DEF o, r
<1>5. Deal(p, broker) BY DEF DealOK
<1>6. o # entryOf(p) BY <1>1, OrderNames
<1>7. broker'.order[entryOf(p)] = broker.order[entryOf(p)] BY <1>4, <1>6, KeysApart
<1>8. ASSUME NEW why \in TimeReasons, broker'.order[exitOf(p, why)] # Unknown
      PROVE  isBuy(p) /\ kind[p].phase \in {25, 27} /\ broker'.order[exitOf(p, why)].quantity <= Lot
  <2>1. exitOf(p, why) \in Orders /\ exitOf(p, why)[1] = p BY KeysApart
  <2>2. CASE exitOf(p, why) = o BY <1>1, <1>4, <2>1, <2>2 DEF Bought, Timed
  <2>3. CASE exitOf(p, why) # o BY <1>4, <1>5, <1>8, <2>1, <2>3 DEF Deal
  <2> QED BY <2>2, <2>3
<1> QED BY <1>4, <1>5, <1>7, <1>8 DEF Deal

\* A bracket that settles.
LEMMA DealSettles ==
  ASSUME Control, DealOK, NEW q \in Proposals, NEW st, Settled(broker, broker', q, st), NEW p \in Proposals
  PROVE  Deal(p, broker')
<1> DEFINE leg == [status |-> st, symbol |-> broker.legs[q].symbol, quantity |-> broker.legs[q].quantity]
<1>1. broker'.order = broker.order /\ broker'.legs = [broker.legs EXCEPT ![q] = leg]
      /\ broker.legs[q].status = "PENDING"
  BY DEF Settled
<1>2. leg.quantity = broker.legs[q].quantity OBVIOUS
<1> HIDE DEF leg
<1>3. broker'.legs[p] = IF p = q THEN leg ELSE broker.legs[p] BY <1>1 DEF Control, BrokerOK, BrokerRec
<1>4. Deal(p, broker) BY DEF DealOK
<1> QED BY <1>1, <1>2, <1>3, <1>4 DEF Deal

\* A broker that has just started has dealt nothing.
LEMMA DealEmpty ==
  ASSUME NEW p \in Proposals PROVE Deal(p, emptyBroker)
<1>1. emptyBroker.legs[p].status = "none" BY DEF emptyBroker, legsNone
<1>2. emptyBroker.order[entryOf(p)].status = "none" BY KeysApart DEF emptyBroker, Unknown
<1>3. \A why \in TimeReasons : emptyBroker.order[exitOf(p, why)] = Unknown BY KeysApart DEF emptyBroker
<1> QED BY <1>1, <1>2, <1>3 DEF Deal

\* Every step keeps what brackets and time exits may sell.
LEMMA DealStep ==
  ASSUME Control, DealOK, [Next]_vars
  PROVE  DealOK'
<1>0. kind' = kind BY KindStays
<1>1. ASSUME NEW p \in Proposals PROVE Deal(p, broker')
  <2>1. CASE broker' = broker BY <2>1 DEF DealOK
  <2>2. CASE BrokerRestart BY <2>2, DealEmpty DEF BrokerRestart
  <2>3. CASE \E f \in Flows : /\ SubmitEntry(f) /\ flow[f].proposal \in Proposals
                              /\ \E st \in OrderStatus, n \in Nat :
                                   Filled(broker, broker', entryRequest(flow[f].proposal), st, n)
    BY <2>3, DealEntry
  <2>4. CASE \E r \in Passes : /\ SubmitTimeExit(r) /\ pass[r].cur \in TimeExits
                               /\ \E st \in OrderStatus, n \in Nat :
                                    Filled(broker, broker', exitRequest(pass[r].cur), st, n)
    BY <2>4, DealExit
  <2>5. ASSUME NEW q \in Proposals, LegSold(broker, broker', q) PROVE Deal(p, broker')
    BY <2>5, DealSettles DEF LegSold
  <2>6. ASSUME NEW o \in TimeExits, Settled(broker, broker', o[1], "CANCELLED") PROVE Deal(p, broker')
    <3>1. o[1] \in Proposals BY OrderNames
    <3> QED BY <2>6, <3>1, DealSettles
  <2> QED BY <2>1, <2>2, <2>3, <2>4, <2>5, <2>6, BrokerSteps
<1>2. ASSUME NEW p \in Proposals PROVE Deal(p, broker)' <=> Deal(p, broker')
  <2>1. isBuy(p)' <=> isBuy(p) BY <1>0 DEF isBuy
  <2> QED BY <1>0, <2>1 DEF Deal
<1> QED BY <1>1, <1>2 DEF DealOK

\* Every step keeps the record and the broker in agreement.
LEMMA MatchStep ==
  ASSUME Control, NoFault, MatchOK, [Next]_vars
  PROVE  MatchOK'
<1> SUFFICES ASSUME faults' = 0, NEW p \in Proposals, execution'[p] # "none"
             PROVE  execution'[p] = broker'.order[entryOf(p)].status
  BY DEF MatchOK
<1>1. faults = 0 /\ ~BrokerRestart BY Counted
<1>2. entryOf(p) \in Orders BY OrderNames
<1>3. broker.order[entryOf(p)] # Unknown /\ execution'[p] = broker.order[entryOf(p)].status
  <2>1. CASE execution'[p] = execution[p] BY <1>1, <2>1, KnownEntry DEF MatchOK
  <2>2. CASE execution'[p] # execution[p]
    <3>1. PICK f \in Flows : /\ flow[f].proposal = p /\ flow[f].pc = "commit"
                             /\ \/ RecordExecution(f) /\ execution'[p] = flow[f].answer.status
                                \/ RecordFailure(f) /\ execution'[p] = "ERROR"
      BY <2>2, ExecutionStep
    <3>2. ~RecordFailure(f) BY <1>1, NoFailure
    <3>3. flow[f].answer # Unknown /\ broker.order[entryOf(p)] = flow[f].answer BY <1>1, <3>1, CleanAnswer
    <3> QED BY <3>1, <3>2, <3>3
  <2> QED BY <2>1, <2>2
<1> QED BY <1>1, <1>2, <1>3, KnownStays

\* What the legs and exits of p sell is no more than its entry bought.
Covered(p, b) ==
  dealt(entryOf(p), b) + dealt(exitOf(p, "MAX_HOLDING_TIME"), b) + dealt(exitOf(p, "END_OF_DAY"), b)
    >= sold(p, b)

\* The hypotheses of NeverShort, of one proposal.
Fair(p) ==
  /\ isBuy(p) \/ broker.order[entryOf(p)] = Unknown
  /\ kind[p].phase # 22 => broker.legs[p].status # "FILLED"
  /\ ~soldForBoth(p)

\* Under them no proposal sells more than it bought.
LEMMA FairCovered ==
  ASSUME Control, NoFault, DealOK, MatchOK, faults = 0, NEW p \in Proposals, Fair(p)
  PROVE  Covered(p, broker)
<1> DEFINE e == broker.order[entryOf(p)]
           x == broker.order[exitOf(p, "MAX_HOLDING_TIME")]
           y == broker.order[exitOf(p, "END_OF_DAY")]
           l == sold(p, broker)
<1>0. /\ e.quantity \in Nat /\ x.quantity \in Nat /\ y.quantity \in Nat /\ l \in Nat
      /\ (e = Unknown => e.quantity = 0) /\ (x = Unknown => x.quantity = 0) /\ (y = Unknown => y.quantity = 0)
  <2>1. broker \in BrokerRec BY DEF Control, BrokerOK
  <2> QED BY <2>1, DealtInt, KeysApart DEF TimeReasons, Unknown
<1>1. /\ dealt(entryOf(p), broker) = IF isBuy(p) THEN e.quantity ELSE 0 - e.quantity
      /\ dealt(exitOf(p, "MAX_HOLDING_TIME"), broker) = 0 - x.quantity
      /\ dealt(exitOf(p, "END_OF_DAY"), broker) = 0 - y.quantity
  <2>1. sideOf(entryOf(p)) = kind[p].side /\ kind[p].side \in {"BUY", "SELL"} /\ (isBuy(p) <=> kind[p].side = "BUY")
    BY Shape, OrderNames DEF sideOf, Control
  <2>2. \A why \in TimeReasons : sideOf(exitOf(p, why)) = "SELL" BY OrderNames DEF sideOf
  <2>3. sideOf(exitOf(p, "MAX_HOLDING_TIME")) = "SELL" /\ sideOf(exitOf(p, "END_OF_DAY")) = "SELL"
    BY <2>2 DEF TimeReasons
  <2> QED BY <1>0, <2>1, <2>3, SignedSum DEF dealt
<1>2. Deal(p, broker) BY DEF DealOK
<1>3. (x # Unknown \/ y # Unknown) =>
        isBuy(p) /\ kind[p].phase # 22 /\ x.quantity <= Lot /\ y.quantity <= Lot /\ e.quantity = Lot
  <2>1. ASSUME NEW why \in TimeReasons, broker.order[exitOf(p, why)] # Unknown
        PROVE  isBuy(p) /\ kind[p].phase # 22 /\ e.quantity = Lot /\ broker.order[exitOf(p, why)].quantity <= Lot
    <3>1. execution[p] = "FILLED" BY <2>1 DEF NoFault, Clean
    <3>2. e.status = "FILLED" BY <3>1 DEF MatchOK
    <3> QED BY <1>2, <2>1, <3>2 DEF Deal
  <2>2. \A why \in TimeReasons : broker.order[exitOf(p, why)] = Unknown => broker.order[exitOf(p, why)].quantity <= Lot
    BY Shape DEF Unknown
  <2> QED BY <2>1, <2>2 DEF TimeReasons
<1>4. ~(x.quantity > 0 /\ y.quantity > 0) BY DEF Fair, soldForBoth, TimeReasons
<1>5. kind[p].phase # 22 => l = 0 BY DEF Fair, sold
<1>6. l # 0 => l = e.quantity /\ isBuy(p)
  <2> SUFFICES ASSUME l # 0 PROVE l = e.quantity /\ isBuy(p) OBVIOUS
  <2>1. broker.legs[p].status = "FILLED" /\ l = broker.legs[p].quantity BY DEF sold
  <2>2. l = e.quantity BY <1>2, <2>1 DEF Deal
  <2>3. isBuy(p) BY <2>1 DEF Control, BrokerOK
  <2> QED BY <2>2, <2>3
<1>7. ~isBuy(p) => e = Unknown BY DEF Fair
<1>8. Lot \in Nat BY Shape
<1>9. Covered(p, broker) <=>
        (IF isBuy(p) THEN e.quantity ELSE 0 - e.quantity) + (0 - x.quantity) + (0 - y.quantity) >= l
  BY <1>1 DEF Covered
<1> DEFINE i == e.quantity  j == x.quantity  k == y.quantity
<1>10. /\ i \in Nat /\ j \in Nat /\ k \in Nat /\ l \in Nat /\ (j = 0 \/ k = 0)
       /\ ((j # 0 \/ k # 0) => i = Lot /\ j <= Lot /\ k <= Lot /\ l = 0 /\ isBuy(p))
       /\ (l # 0 => l = i /\ isBuy(p)) /\ (~isBuy(p) => i = 0)
  BY <1>0, <1>3, <1>4, <1>5, <1>6, <1>7
<1>11. SUFFICES (IF isBuy(p) THEN i ELSE 0 - i) + (0 - j) + (0 - k) >= l BY <1>9
<1> HIDE DEF e, x, y, l, i, j, k
<1> QED BY <1>8, <1>10

\* A symbol of which no proposal sells more than it bought is not short.
LEMMA CoveredSum ==
  ASSUME broker \in BrokerRec, BooksOK(broker), NEW s \in Symbols,
         \A p \in BracketsOf(s) : Covered(p, broker)
  PROVE  broker.position[s] >= 0
<1> DEFINE S == EntriesAndExits(s)  B == BracketsOf(s)
           f == [o \in S |-> dealt(o, broker)]  g == [p \in B |-> sold(p, broker)]
           own == [o \in S |-> o[1]]
           e == [p \in B |-> entryOf(p)]
           x == [p \in B |-> exitOf(p, "MAX_HOLDING_TIME")]
           y == [p \in B |-> exitOf(p, "END_OF_DAY")]
<1>1. \A o \in S : o[1] \in B BY DEF EntriesAndExits, BracketsOf, Orders
<1>2. Shared(S, B, f, g, own) BY <1>1, DealtInt DEF Shared
<1>3. ASSUME NEW p \in B PROVE Threefold(S, f, g, own, e[p], x[p], y[p], p)
  <2>0. p \in Proposals /\ SymbolOf[p] = s BY DEF BracketsOf
  <2>1. /\ entryOf(p) \in S /\ exitOf(p, "MAX_HOLDING_TIME") \in S /\ exitOf(p, "END_OF_DAY") \in S
        /\ entryOf(p) # exitOf(p, "MAX_HOLDING_TIME") /\ entryOf(p) # exitOf(p, "END_OF_DAY")
        /\ exitOf(p, "MAX_HOLDING_TIME") # exitOf(p, "END_OF_DAY")
    BY <2>0 DEF EntriesAndExits, Orders, TimeReasons, entryOf, exitOf
  <2>2. \A o \in S : o[1] = p <=> o \in {entryOf(p), exitOf(p, "MAX_HOLDING_TIME"), exitOf(p, "END_OF_DAY")}
    BY DEF EntriesAndExits, Orders, TimeReasons, entryOf, exitOf
  <2>3. f[entryOf(p)] + f[exitOf(p, "MAX_HOLDING_TIME")] + f[exitOf(p, "END_OF_DAY")] >= g[p]
    BY <2>1 DEF Covered
  <2> QED BY <2>1, <2>2, <2>3 DEF Threefold
<1>4. boughtOf(s, broker) = SumOver(f, S) /\ soldOf(s, broker) = SumOver(g, B) BY DEF boughtOf, soldOf
<1>5. boughtOf(s, broker) \in Int /\ soldOf(s, broker) \in Int BY DealtInt
<1> HIDE DEF S, B, f, g, own, e, x, y
<1>6. SumOver(f, S) >= SumOver(g, B) BY <1>2, <1>3, SumOfThree
<1> QED BY <1>4, <1>5, <1>6 DEF BooksOK

\* No position is sold by its bracket and a time exit, by both legs, or by a
\* sale that is tried again: while nothing failed, no SELL proposal, no bracket
\* that is not recorded and no second load sold a symbol, it is not held short.
THEOREM NothingSoldTwice == Spec => []NeverShort
<1>1. Control /\ NoFault /\ DealOK /\ MatchOK /\ BooksOK(broker) => NeverShort
  <2> SUFFICES ASSUME Control, NoFault, DealOK, MatchOK, BooksOK(broker), NEW s \in Symbols, faults = 0,
                      \A p \in Proposals : SymbolOf[p] = s => Fair(p)
               PROVE  broker.position[s] >= 0
    BY DEF NeverShort, Fair
  <2>1. \A p \in BracketsOf(s) : Covered(p, broker) BY FairCovered DEF BracketsOf
  <2>2. broker \in BrokerRec BY DEF Control, BrokerOK
  <2> QED BY <2>1, <2>2, CoveredSum
<1>2. Init => DealOK /\ MatchOK BY DealEmpty DEF Init, DealOK, MatchOK
<1>3. Control /\ DealOK /\ [Next]_vars => DealOK' BY DealStep
<1>4. Control /\ NoFault /\ MatchOK /\ [Next]_vars => MatchOK' BY MatchStep
<1> QED BY <1>1, <1>2, <1>3, <1>4, BoundsKept, Sound, PTL DEF Spec
=============================================================================
