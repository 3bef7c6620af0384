------------------------- MODULE AiTradePlanProofs -------------------------
(***************************************************************************)
(* What AiTradePlan keeps, for every number of plans, requests, timers,    *)
(* ticks, claims and restarts.                                             *)
(*                                                                         *)
(* IInv holds whatever fails.  Requests, timers and ticks write the rows   *)
(* from evidence they found at MT5 some awaits ago.  Evidence keeps: an    *)
(* order once accepted stays accepted, a position once filled stays        *)
(* filled, and a claim that was handed out keeps its plan (Grow).  So      *)
(* whatever is written from it is true of MT5 at the time of the write.    *)
(*                                                                         *)
(* OnceInv holds while MT5 and the database answer, a refused order leaves *)
(* nothing in MT5's history, ticks do not overlap and a submission is over *)
(* within its grace period (Calm): a plan has one claim in use at a time   *)
(* (SoleInv), its row is never behind what MT5 has of that claim           *)
(* (RowsInv), and so whoever gives a claim up or releases the plan does so *)
(* when MT5 has nothing of it.                                             *)
(***************************************************************************)
EXTENDS AiTradePlan, FiniteSetTheorems, TLAPS

-----------------------------------------------------------------------------
(* The inductive invariant, as predicates of the values of the variables,  *)
(* so that they can be said of the old and of the new ones.                *)

AcceptedIn(or, k) == or[k] \in {"pending", "open", "closed", "cancelled"}
FilledIn(or, k)   == or[k] \in {"open", "closed"}

\* Order k was sent for plan p, or the gateway may have compared fields.
Names(ow, k, p) == ow[k] \in Plans /\ (ow[k] = p \/ "alike" \in Faults)

\* What is known of plan p at MT5: an accepted order of its own, or a position.
EvidenceOK(p, ev, ow, or) ==
  ev # NoEvidence =>
    /\ p \in Plans /\ ev.key \in Keys /\ Names(ow, ev.key, p)
    /\ AcceptedIn(or, ev.key)
    /\ ev.kind = "position" => FilledIn(or, ev.key)

\* A claim not handed out has neither plan nor order.
KeysOK(ow, or, nk) ==
  /\ nk \in 1 .. MaxClaims + 1
  /\ ow \in [Keys -> Plans \cup {NoPlan}] /\ or \in [Keys -> OrderState]
  /\ \A k \in Keys : /\ k < nk => ow[k] \in Plans
                     /\ k >= nk => ow[k] = NoPlan /\ or[k] = "none"

PlanOK(p, row, oc, ow, or) ==
  /\ row \in RowType
  /\ row.status = "WAITING_FOR_APPROVAL" => ~row.locked
  /\ row.status = "PENDING_ORDER_PLACED" =>
       row.ticket \in Keys /\ Names(ow, row.ticket, p) /\ AcceptedIn(or, row.ticket)
  /\ row.status = "POSITION_CLOSED" => oc.state = "closed"

PlansOK(pl, oc, ow, or) ==
  /\ pl \in [Plans -> RowType]
  /\ \A p \in Plans : PlanOK(p, pl[p], oc[p], ow, or)

OutcomeOK(p, rec, ow, or) ==
  rec.state # "none" =>
    \/ rec.ticket = NoTicket /\ "dealonly" \in Faults
    \/ rec.ticket \in Keys /\ Names(ow, rec.ticket, p) /\ FilledIn(or, rec.ticket)

OutcomesOK(oc, ow, or) ==
  /\ oc \in [Plans -> OutcomeType]
  /\ \A p \in Plans : OutcomeOK(p, oc[p], ow, or)

BeforeSend == {"claimed", "gates", "reads", "check"}
Claimed    == BeforeSend \cup {"await"}
Knowing    == {"adopt", "place", "record", "cancel", "cancelled"}

\* A request holds a claim of its plan until it is answered, whose order it has
\* not sent before; what it writes it has evidence for.
FlowOK(v, ow, or, nk) ==
  /\ v \in FlowType
  /\ v.pc # "idle" => v.plan \in Plans
  /\ EvidenceOK(v.plan, v.ev, ow, or)
  /\ v.pc \in Knowing => v.ev # NoEvidence
  /\ v.pc = "record" => v.ev.kind = "position"
  /\ v.pc \in Claimed => v.key \in Keys /\ v.key < nk /\ ow[v.key] = v.plan
  /\ v.pc \in BeforeSend => or[v.key] = "none"

\* No two requests are about to send under one claim.
Apart(fl) ==
  \A f, g \in Flows :
    fl[f].pc \in BeforeSend /\ fl[g].pc \in BeforeSend /\ fl[f].key = fl[g].key => f = g

FlowsOK(fl, ow, or, nk) ==
  /\ fl \in [Flows -> FlowType]
  /\ \A f \in Flows : FlowOK(fl[f], ow, or, nk)
  /\ Apart(fl)

BgOK(k, b, ow, or) ==
  /\ b.pc # "off" => ow[k] \in Plans
  /\ EvidenceOK(ow[k], b.ev, ow, or)

BgsOK(b, ow, or) ==
  /\ b \in [Keys -> BgType]
  /\ \A k \in Keys : BgOK(k, b[k], ow, or)

\* What a tick has listed was really there.
PassOK(v, or) ==
  /\ v \in PassType
  /\ \A k \in v.view.orders : AcceptedIn(or, k)
  /\ \A k \in v.view.positions : FilledIn(or, k)
  /\ v.pc \in {"cancel", "cancelled"} => v.cur \in PickType

PassesOK(ps, or) ==
  /\ ps \in [Passes -> PassType]
  /\ \A r \in Passes : PassOK(ps[r], or)

IInv ==
  /\ KeysOK(owner, order, nextKey)
  /\ PlansOK(plan, outcome, owner, order)
  /\ OutcomesOK(outcome, owner, order)
  /\ FlowsOK(flow, owner, order, nextKey)
  /\ BgsOK(bg, owner, order)
  /\ PassesOK(pass, order)
  /\ past \in [Plans -> BOOLEAN] /\ crashes \in 0 .. MaxCrashes

\* IInv of the next state, from its parts.
LEMMA IInvNext ==
  ASSUME KeysOK(owner', order', nextKey'), PlansOK(plan', outcome', owner', order'),
         OutcomesOK(outcome', owner', order'), FlowsOK(flow', owner', order', nextKey'),
         BgsOK(bg', owner', order'), PassesOK(pass', order'),
         past' \in [Plans -> BOOLEAN], crashes' \in 0 .. MaxCrashes
  PROVE  IInv'
BY DEF IInv

-----------------------------------------------------------------------------
(* Evidence keeps.                                                         *)

Grow(ow, or, ow2, or2) ==
  \A k \in Keys : /\ ow[k] \in Plans => ow2[k] = ow[k]
                  /\ AcceptedIn(or, k) => AcceptedIn(or2, k)
                  /\ FilledIn(or, k) => FilledIn(or2, k)

\* What was found of a plan at MT5 stays true.
LEMMA EvidenceKeeps ==
  ASSUME NEW p, NEW ev, NEW ow, NEW or, NEW ow2, NEW or2,
         Grow(ow, or, ow2, or2), EvidenceOK(p, ev, ow, or)
  PROVE  EvidenceOK(p, ev, ow2, or2)
BY DEF Grow, EvidenceOK, Names

\* The rows and records that nobody writes stay true.
LEMMA RowsKeep ==
  ASSUME NEW pl, NEW oc, NEW ow, NEW or, NEW ow2, NEW or2, Grow(ow, or, ow2, or2),
         PlansOK(pl, oc, ow, or), OutcomesOK(oc, ow, or)
  PROVE  PlansOK(pl, oc, ow2, or2) /\ OutcomesOK(oc, ow2, or2)
<1>1. ASSUME NEW p \in Plans PROVE PlanOK(p, pl[p], oc[p], ow2, or2)
  BY DEF PlansOK, PlanOK, Grow, Names
<1>2. ASSUME NEW p \in Plans PROVE OutcomeOK(p, oc[p], ow2, or2)
  <2>1. OutcomeOK(p, oc[p], ow, or) BY DEF OutcomesOK
  <2> QED BY <2>1 DEF OutcomeOK, Grow, Names
<1> QED BY <1>1, <1>2 DEF PlansOK, OutcomesOK

\* So does what a request knows that no order was sent for in between.
LEMMA FlowKeeps ==
  ASSUME NEW v, NEW ow, NEW or, NEW nk, NEW ow2, NEW or2, NEW nk2,
         nk \in 1 .. MaxClaims + 1, nk2 \in 1 .. MaxClaims + 1, nk <= nk2, Grow(ow, or, ow2, or2),
         FlowOK(v, ow, or, nk), v.pc \in BeforeSend => or2[v.key] = "none"
  PROVE  FlowOK(v, ow2, or2, nk2)
<1>1. EvidenceOK(v.plan, v.ev, ow2, or2) BY EvidenceKeeps DEF FlowOK
<1>2. v.pc \in Claimed => v.key \in Keys /\ v.key < nk2 /\ ow2[v.key] = v.plan
  <2> SUFFICES ASSUME v.pc \in Claimed PROVE v.key \in Keys /\ v.key < nk2 /\ ow2[v.key] = v.plan
    OBVIOUS
  <2>1. v.key \in Keys /\ v.key < nk /\ ow[v.key] = v.plan BY DEF FlowOK
  <2>2. v.plan \in Plans BY DEF FlowOK, Claimed, BeforeSend
  <2> QED BY <2>1, <2>2, BoundsAssumption DEF Grow, Keys
<1> QED BY <1>1, <1>2 DEF FlowOK

\* And what the timers know.
LEMMA BgsKeep ==
  ASSUME NEW b, NEW ow, NEW or, NEW ow2, NEW or2, Grow(ow, or, ow2, or2), BgsOK(b, ow, or)
  PROVE  BgsOK(b, ow2, or2)
<1>1. ASSUME NEW k \in Keys PROVE BgOK(k, b[k], ow2, or2)
  <2>1. BgOK(k, b[k], ow, or) BY DEF BgsOK
  <2>2. b[k].ev # NoEvidence => ow[k] \in Plans BY <2>1 DEF BgOK, EvidenceOK
  <2>3. ow[k] \in Plans => ow2[k] = ow[k] BY DEF Grow
  <2>4. b[k].ev # NoEvidence => EvidenceOK(ow2[k], b[k].ev, ow2, or2)
    BY <2>1, <2>2, <2>3, EvidenceKeeps DEF BgOK
  <2> QED BY <2>1, <2>3, <2>4 DEF BgOK, EvidenceOK
<1> QED BY <1>1 DEF BgsOK

\* And what the ticks have listed.
LEMMA PassesKeep ==
  ASSUME NEW ps, NEW ow, NEW or, NEW ow2, NEW or2, Grow(ow, or, ow2, or2), PassesOK(ps, or)
  PROVE  PassesOK(ps, or2)
<1>1. ASSUME NEW r \in Passes PROVE PassOK(ps[r], or2)
  <2>1. PassOK(ps[r], or) BY DEF PassesOK
  <2>2. ps[r].view.orders \subseteq Keys /\ ps[r].view.positions \subseteq Keys
    BY <2>1 DEF PassOK, PassType, ViewType
  <2> QED BY <2>1, <2>2 DEF PassOK, Grow
<1> QED BY <1>1 DEF PassesOK

\* Nothing changes at MT5.
LEMMA StillGrows ==
  ASSUME NEW ow, NEW or PROVE Grow(ow, or, ow, or)
BY DEF Grow

-----------------------------------------------------------------------------
(* Steps that write one part of the state.                                 *)

\* One row is written.
LEMMA WriteRow ==
  ASSUME NEW pl, NEW oc, NEW ow, NEW or, PlansOK(pl, oc, ow, or),
         NEW p \in Plans, NEW row, PlanOK(p, row, oc[p], ow, or)
  PROVE  PlansOK([pl EXCEPT ![p] = row], oc, ow, or)
BY DEF PlansOK, PlanOK

\* One request moves, and the others keep the claims they are about to use.
LEMMA MoveFlow ==
  ASSUME NEW fl, NEW ow, NEW or, NEW nk, NEW ow2, NEW or2, NEW nk2,
         nk \in 1 .. MaxClaims + 1, nk2 \in 1 .. MaxClaims + 1, nk <= nk2, Grow(ow, or, ow2, or2),
         FlowsOK(fl, ow, or, nk), NEW f \in Flows, NEW v, FlowOK(v, ow2, or2, nk2),
         \A g \in Flows \ {f} : fl[g].pc \in BeforeSend =>
           or2[fl[g].key] = "none" /\ (v.pc \in BeforeSend => fl[g].key # v.key)
  PROVE  FlowsOK([fl EXCEPT ![f] = v], ow2, or2, nk2)
<1> DEFINE fl2 == [fl EXCEPT ![f] = v]
<1>1. /\ fl2 \in [Flows -> FlowType] /\ fl2[f] = v
      /\ \A g \in Flows \ {f} : fl2[g] = fl[g]
  BY DEF FlowsOK, FlowOK
<1> HIDE DEF fl2
<1>2. ASSUME NEW g \in Flows PROVE FlowOK(fl2[g], ow2, or2, nk2)
  <2>1. CASE g = f BY <1>1, <2>1
  <2>2. CASE g # f
    <3>1. FlowOK(fl[g], ow, or, nk) BY DEF FlowsOK
    <3>2. FlowOK(fl[g], ow2, or2, nk2) BY <2>2, <3>1, FlowKeeps
    <3> QED BY <1>1, <2>2, <3>2
  <2> QED BY <2>1, <2>2
<1>3. Apart(fl2) BY <1>1 DEF Apart, FlowsOK
<1> QED BY <1>1, <1>2, <1>3 DEF FlowsOK, fl2

\* No request moves, and none that is about to send finds its order sent.
LEMMA FlowsKeep ==
  ASSUME NEW fl, NEW ow, NEW or, NEW nk, NEW ow2, NEW or2,
         nk \in 1 .. MaxClaims + 1, Grow(ow, or, ow2, or2), FlowsOK(fl, ow, or, nk),
         \A k \in Keys : or[k] = "none" => or2[k] = "none"
  PROVE  FlowsOK(fl, ow2, or2, nk)
<1>1. ASSUME NEW f \in Flows PROVE FlowOK(fl[f], ow2, or2, nk)
  <2>1. FlowOK(fl[f], ow, or, nk) BY DEF FlowsOK
  <2>2. fl[f].pc \in BeforeSend => or2[fl[f].key] = "none"
    BY <2>1 DEF FlowOK, Claimed
  <2> QED BY <2>1, <2>2, FlowKeeps
<1> QED BY <1>1 DEF FlowsOK

\* One timer chain moves.
LEMMA MoveBg ==
  ASSUME NEW b, NEW ow, NEW or, BgsOK(b, ow, or), NEW k \in Keys, NEW v \in BgType, BgOK(k, v, ow, or)
  PROVE  BgsOK([b EXCEPT ![k] = v], ow, or)
BY DEF BgsOK

\* One tick moves.
LEMMA MovePass ==
  ASSUME NEW ps, NEW or, PassesOK(ps, or), NEW r \in Passes, NEW v, PassOK(v, or)
  PROVE  PassesOK([ps EXCEPT ![r] = v], or)
BY DEF PassesOK, PassOK

-----------------------------------------------------------------------------
(* What each statement makes of a row.                                     *)

\* A row that says nothing of MT5 is always true.
LEMMA PlainRow ==
  ASSUME NEW p, NEW oc, NEW ow, NEW or,
         NEW s \in (PlanStatus \cup {Absent}) \ {"PENDING_ORDER_PLACED", "POSITION_CLOSED"},
         NEW why \in Reasons
  PROVE  /\ PlanOK(p, Unlocked(s), oc, ow, or)
         /\ PlanOK(p, failed(why), oc, ow, or)
BY DEF PlanOK, Unlocked, failed, RowType, PlanStatus, Reasons, Absent, Tickets, NoTicket

\* The rows without a parameter.
LEMMA FixedRows ==
  ASSUME NEW p, NEW oc, NEW ow, NEW or, NEW row
  PROVE  /\ PlanOK(p, released, oc, ow, or)
         /\ PlanOK(p, opened, oc, ow, or)
         /\ PlanOK(p, claimPlanForApproval(row), oc, ow, or)
BY DEF PlanOK, released, opened, claimPlanForApproval, Unlocked, RowType, PlanStatus, Reasons,
       Tickets, NoTicket

\* A row that is written from evidence is true of MT5.
LEMMA EvidenceRow ==
  ASSUME NEW p, NEW ev, NEW oc, NEW ow, NEW or, EvidenceOK(p, ev, ow, or), ev # NoEvidence
  PROVE  PlanOK(p, rowOf(ev), oc, ow, or) /\ PlanOK(p, placed(ev.key), oc, ow, or)
<1>1. PlanOK(p, placed(ev.key), oc, ow, or)
  BY DEF PlanOK, EvidenceOK, placed, Unlocked, RowType, PlanStatus, Reasons, Tickets
<1> QED BY <1>1, FixedRows DEF rowOf

\* The conditional statements write the one or the other.
LEMMA ConditionalRow ==
  ASSUME NEW p, NEW row, NEW new, NEW oc, NEW ow, NEW or,
         PlanOK(p, row, oc, ow, or), PlanOK(p, new, oc, ow, or)
  PROVE  /\ PlanOK(p, blockPlan(row, new), oc, ow, or)
         /\ PlanOK(p, whenSubmitting(row, new), oc, ow, or)
         /\ PlanOK(p, whenPlaced(row, new), oc, ow, or)
         /\ PlanOK(p, releaseFailed(row), oc, ow, or)
<1>1. PlanOK(p, released, oc, ow, or) BY FixedRows
<1> QED BY <1>1 DEF blockPlan, whenSubmitting, whenPlaced, releaseFailed

\* The statements of a tick on every row at once.
LEMMA TickRow ==
  ASSUME NEW p, NEW row, NEW oc \in OutcomeType, NEW ow, NEW or, NEW b \in BOOLEAN,
         PlanOK(p, row, oc, ow, or)
  PROVE  /\ PlanOK(p, expireUnapproved(row, b), oc, ow, or)
         /\ PlanOK(p, syncClosed(row, oc.state), oc, ow, or)
         /\ PlanOK(p, [row EXCEPT !.aged = TRUE], oc, ow, or)
<1>1. PlanOK(p, expireUnapproved(row, b), oc, ow, or)
  BY DEF PlanOK, expireUnapproved, Unlocked, RowType, PlanStatus, Reasons, Tickets, NoTicket
<1>2. oc.state = "closed" => PlanOK(p, Unlocked("POSITION_CLOSED"), oc, ow, or)
  BY DEF PlanOK, Unlocked, RowType, PlanStatus, Reasons, Tickets, NoTicket
<1>3. PlanOK(p, failed("other"), oc, ow, or)
  BY PlainRow DEF Reasons, PlanStatus, Absent
<1>4. PlanOK(p, syncClosed(row, oc.state), oc, ow, or)
  BY <1>2, <1>3 DEF syncClosed
<1>5. PlanOK(p, [row EXCEPT !.aged = TRUE], oc, ow, or)
  BY DEF PlanOK, RowType
<1> QED BY <1>1, <1>4, <1>5

\* ON CONFLICT DO NOTHING: the record that is there stays, a new one is real.
LEMMA InsertRecord ==
  ASSUME NEW oc, NEW ow, NEW or, OutcomesOK(oc, ow, or), NEW p \in Plans, NEW k \in Tickets,
         OutcomeOK(p, [state |-> "open", ticket |-> k], ow, or), NEW rec, rec = insertOutcome(oc[p], k)
  PROVE  /\ OutcomesOK([oc EXCEPT ![p] = rec], ow, or)
         /\ \A q \in Plans : oc[q].state = "closed" => [oc EXCEPT ![p] = rec][q].state = "closed"
<1> DEFINE oc2 == [oc EXCEPT ![p] = rec]
<1>1. oc \in [Plans -> OutcomeType] /\ \A q \in Plans : OutcomeOK(q, oc[q], ow, or)
  BY DEF OutcomesOK
<1>2. insertOutcome(oc[p], k) \in OutcomeType BY <1>1 DEF insertOutcome, OutcomeType
<1>3. oc2 \in [Plans -> OutcomeType] /\ oc2[p] = insertOutcome(oc[p], k)
      /\ \A q \in Plans \ {p} : oc2[q] = oc[q]
  BY <1>1, <1>2
<1>4. OutcomeOK(p, oc2[p], ow, or) /\ (oc[p].state = "closed" => oc2[p].state = "closed")
  BY <1>1, <1>3 DEF insertOutcome, OutcomeOK
<1> HIDE DEF oc2
<1>5. \A q \in Plans : OutcomeOK(q, oc2[q], ow, or) /\ (oc[q].state = "closed" => oc2[q].state = "closed")
  BY <1>1, <1>3, <1>4
<1> QED BY <1>3, <1>5 DEF OutcomesOK, oc2

\* Rows stay true while records are added and none is reopened.
LEMMA PlansOfRecords ==
  ASSUME NEW pl, NEW oc, NEW oc2, NEW ow, NEW or, PlansOK(pl, oc, ow, or),
         \A q \in Plans : oc[q].state = "closed" => oc2[q].state = "closed"
  PROVE  PlansOK(pl, oc2, ow, or)
BY DEF PlansOK, PlanOK

-----------------------------------------------------------------------------
(* What a look at MT5 brings.                                              *)

\* A step that writes at MT5 what Grow allows, and takes no claim.
LEMMA ReadKeeps ==
  ASSUME KeysOK(owner, order, nextKey), NEW read \in LiveReads
  PROVE  /\ KeysOK(owner, read.order, nextKey)
         /\ Grow(owner, order, owner, read.order)
         /\ \A k \in Keys : order[k] = "none" => read.order[k] = "none"
         /\ read.view \in ViewType
         /\ \A k \in read.view.orders : AcceptedIn(read.order, k)
         /\ \A k \in read.view.positions : FilledIn(read.order, k)
<1> DEFINE P == Holding("pending")  O == Holding("open")
<1>1. /\ P \in SUBSET Keys /\ \A k \in P : order[k] = "pending"
      /\ O \in SUBSET Keys /\ \A k \in O : order[k] = "open"
  BY DEF Holding
<1>2. CurrentView = [orders |-> P, positions |-> O] BY DEF CurrentView
<1>3. /\ read \in CleanReads => read = [view |-> CurrentView, order |-> order]
      /\ read \in EmptyReads =>
           \/ read = [view |-> NoView, order |-> order]
           \/ read = [view |-> [CurrentView EXCEPT !.orders = {}], order |-> order]
           \/ read = [view |-> [CurrentView EXCEPT !.positions = {}], order |-> order]
      /\ read \in TornReads => \E k \in P :
           read = [view  |-> [CurrentView EXCEPT !.orders = @ \ {k}], order |-> [order EXCEPT ![k] = "open"]]
  BY DEF CleanReads, EmptyReads, TornReads
<1> HIDE DEF P, O
<1>4. CASE read \in CleanReads \/ read \in EmptyReads
  <2>1. /\ read.order = order
        /\ read.view.orders = {} \/ read.view.orders = P
        /\ read.view.positions = {} \/ read.view.positions = O
        /\ read.view \in ViewType
    BY <1>1, <1>2, <1>3, <1>4 DEF NoView, ViewType
  <2> QED BY <1>1, <2>1 DEF Grow, AcceptedIn, FilledIn
<1>5. CASE read \in TornReads
  <2>1. PICK k \in P :
          read = [view |-> [CurrentView EXCEPT !.orders = @ \ {k}], order |-> [order EXCEPT ![k] = "open"]]
    BY <1>3, <1>5
  <2>2. k \in Keys /\ order[k] = "pending" BY <1>1
  <2>3. /\ read.order \in [Keys -> OrderState] /\ read.order[k] = "open"
        /\ \A j \in Keys \ {k} : read.order[j] = order[j]
    BY <2>1, <2>2 DEF KeysOK, OrderState
  <2>4. /\ read.view.orders = P \ {k} /\ read.view.positions = O /\ read.view \in ViewType
    BY <1>1, <1>2, <2>1 DEF ViewType
  <2>5. KeysOK(owner, read.order, nextKey) BY <2>2, <2>3 DEF KeysOK
  <2>6. Grow(owner, order, owner, read.order) BY <2>2, <2>3 DEF Grow, AcceptedIn, FilledIn
  <2>7. \A j \in Keys : order[j] = "none" => read.order[j] = "none" BY <2>2, <2>3
  <2>8. /\ \A j \in read.view.orders : AcceptedIn(read.order, j)
        /\ \A j \in read.view.positions : FilledIn(read.order, j)
    BY <1>1, <2>2, <2>3, <2>4 DEF AcceptedIn, FilledIn
  <2> QED BY <2>4, <2>5, <2>6, <2>7, <2>8
<1> QED BY <1>4, <1>5 DEF LiveReads, AnsweredReads

\* What a read shows of a plan is evidence for it.
LEMMA LiveIsEvidence ==
  ASSUME NEW or, NEW v \in ViewType, NEW p \in Plans, NEW ev \in LiveEvidence(p, v),
         \A k \in v.orders : AcceptedIn(or, k), \A k \in v.positions : FilledIn(or, k)
  PROVE  ev \in Evidence /\ EvidenceOK(p, ev, owner, or)
<1>1. \/ ev = NoEvidence
      \/ \E k \in v.orders : owner[k] = p /\ ev = found("order", k)
      \/ \E k \in v.positions : owner[k] = p /\ ev = found("position", k)
  BY DEF LiveEvidence
<1>2. CASE ev = NoEvidence BY <1>2 DEF Evidence, EvidenceOK
<1>3. CASE \E k \in v.orders : owner[k] = p /\ ev = found("order", k)
  BY <1>3 DEF Evidence, EvidenceOK, found, ViewType, Names
<1>4. CASE \E k \in v.positions : owner[k] = p /\ ev = found("position", k)
  BY <1>4 DEF Evidence, EvidenceOK, found, ViewType, AcceptedIn, FilledIn, Names
<1> QED BY <1>1, <1>2, <1>3, <1>4

\* So is what the history shows.
LEMMA HistoryIsEvidence ==
  ASSUME NEW p \in Plans, NEW ev \in HistoryEvidence(p)
  PROVE  ev \in Evidence /\ EvidenceOK(p, ev, owner, order)
<1>1. \/ ev = NoEvidence
      \/ \E k \in Keys : owner[k] = p /\ Filled(k) /\ ev = found("position", k)
  BY DEF HistoryEvidence
<1>2. CASE ev = NoEvidence BY <1>2 DEF Evidence, EvidenceOK
<1>3. CASE \E k \in Keys : owner[k] = p /\ Filled(k) /\ ev = found("position", k)
  BY <1>3 DEF Evidence, EvidenceOK, found, AcceptedIn, FilledIn, Filled, Names
<1> QED BY <1>1, <1>2, <1>3

-----------------------------------------------------------------------------
(* Requests.                                                               *)

\* A request that has ended knows nothing.
LEMMA IdleFlowOK ==
  ASSUME NEW ow, NEW or, NEW nk PROVE FlowOK(IdleFlow, ow, or, nk)
BY DEF FlowOK, IdleFlow, FlowType, FlowPc, Tickets, NoTicket, Evidence, EvidenceOK, Knowing, Claimed,
       BeforeSend, Reasons

\* A request that begins knows its plan.
LEMMA StartedFlowOK ==
  ASSUME NEW ow, NEW or, NEW nk, NEW p \in Plans, NEW pc \in {"lookup", "reclaim"}
  PROVE  FlowOK([IdleFlow EXCEPT !.pc = pc, !.plan = p], ow, or, nk)
BY DEF FlowOK, IdleFlow, FlowType, FlowPc, Tickets, NoTicket, Evidence, EvidenceOK, Knowing, Claimed,
       BeforeSend, Reasons

\* A request goes on with what it has.
LEMMA FurtherFlowOK ==
  ASSUME NEW v, NEW ow, NEW or, NEW nk, FlowOK(v, ow, or, nk), v.pc # "idle",
         NEW pc \in FlowPc \ Knowing, pc \in Claimed => v.pc \in Claimed,
         pc \in BeforeSend => v.pc \in BeforeSend,
         NEW saw \in {"PENDING_ORDER_SUBMITTING"} \cup Reasons
  PROVE  FlowOK([v EXCEPT !.saw = saw, !.pc = pc], ow, or, nk) /\ FlowOK([v EXCEPT !.pc = pc], ow, or, nk)
BY DEF FlowOK, FlowType, Knowing

\* A request has found or been told something.
LEMMA ToldFlowOK ==
  ASSUME NEW v, NEW ow, NEW or, NEW nk, FlowOK(v, ow, or, nk), v.pc # "idle",
         NEW pc \in FlowPc \ Claimed, NEW ev \in Evidence, EvidenceOK(v.plan, ev, ow, or),
         pc \in Knowing => ev # NoEvidence, pc = "record" => ev.kind = "position"
  PROVE  FlowOK([v EXCEPT !.pc = pc, !.ev = ev], ow, or, nk)
BY DEF FlowOK, FlowType, Claimed

\* One request moves and may have written the rows; MT5 does nothing.
LEMMA FlowStep ==
  ASSUME IInv, NEW f \in Flows, NEW v, FlowOK(v, owner, order, nextKey),
         v.pc \in BeforeSend => flow[f].pc \in BeforeSend /\ v.key = flow[f].key,
         flow' = [flow EXCEPT ![f] = v], PlansOK(plan', outcome, owner, order),
         UNCHANGED <<past, outcome, nextKey, owner, order, bg, pass, crashes>>
  PROVE  IInv'
<1>1. KeysOK(owner, order, nextKey) /\ FlowsOK(flow, owner, order, nextKey) BY DEF IInv
<1>2. nextKey \in 1 .. MaxClaims + 1 /\ nextKey <= nextKey
  BY <1>1, BoundsAssumption DEF KeysOK
<1>3. \A g \in Flows \ {f} : flow[g].pc \in BeforeSend =>
        order[flow[g].key] = "none" /\ (v.pc \in BeforeSend => flow[g].key # v.key)
  BY <1>1 DEF FlowsOK, FlowOK, Apart
<1>4. FlowsOK([flow EXCEPT ![f] = v], owner, order, nextKey)
  BY <1>1, <1>2, <1>3, StillGrows, MoveFlow
<1> QED BY <1>4 DEF IInv

\* The same, of a request that writes the row of its plan.
LEMMA FlowWrites ==
  ASSUME IInv, NEW f \in Flows, NEW v, FlowOK(v, owner, order, nextKey), v.pc \notin BeforeSend,
         flow' = [flow EXCEPT ![f] = v], NEW p \in Plans,
         NEW row, PlanOK(p, row, outcome[p], owner, order), plan' = [plan EXCEPT ![p] = row],
         UNCHANGED <<past, outcome, nextKey, owner, order, bg, pass, crashes>>
  PROVE  IInv'
<1>1. PlansOK(plan', outcome, owner, order) BY WriteRow DEF IInv
<1> QED BY <1>1, FlowStep

\* What the invariant says of one request.
LEMMA FlowFacts ==
  ASSUME IInv, NEW f \in Flows
  PROVE  /\ FlowOK(flow[f], owner, order, nextKey)
         /\ flow[f].pc # "idle" => /\ flow[f].plan \in Plans
                                   /\ PlanOK(flow[f].plan, plan[flow[f].plan], outcome[flow[f].plan], owner, order)
         /\ PlansOK(plan, outcome, owner, order)
BY DEF IInv, FlowsOK, FlowOK, PlansOK

\* ClaimMisses() goes on to look why.
LEMMA ClaimMissesInv ==
  ASSUME IInv, NEW f \in Flows, NEW p \in Plans, ClaimMisses(f, p) PROVE IInv'
<1> DEFINE v == [IdleFlow EXCEPT !.pc = "lookup", !.plan = p]
<1>1. FlowOK(v, owner, order, nextKey) BY StartedFlowOK
<1>2. v.pc \notin BeforeSend BY DEF IdleFlow, BeforeSend
<1> HIDE DEF v
<1> QED BY <1>1, <1>2, FlowStep, FlowFacts DEF ClaimMisses, v

\* CancelStart() knows the ticket of the row it read.
LEMMA CancelStartInv ==
  ASSUME IInv, NEW f \in Flows, NEW p \in Plans, CancelStart(f, p) PROVE IInv'
<1> DEFINE k == plan[p].ticket
           v == [IdleFlow EXCEPT !.pc = "cancel", !.plan = p, !.ev = found("order", k)]
<1>1. k \in Keys /\ Names(owner, k, p) /\ AcceptedIn(order, k)
  BY DEF CancelStart, IInv, PlansOK, PlanOK
<1>2. FlowOK(v, owner, order, nextKey)
  BY <1>1, BoundsAssumption
     DEF FlowOK, IdleFlow, FlowType, FlowPc, Tickets, NoTicket, Evidence, EvidenceOK, Knowing, Claimed,
         BeforeSend, Reasons, found, NoEvidence, Keys
<1>3. v.pc \notin BeforeSend BY DEF IdleFlow, BeforeSend
<1> HIDE DEF v
<1>4. flow' = [flow EXCEPT ![f] = v] BY DEF CancelStart, v
<1> QED BY <1>2, <1>3, <1>4, FlowStep, FlowFacts DEF CancelStart

\* Lookup() remembers why the plan cannot be claimed.
LEMMA LookupInv ==
  ASSUME IInv, NEW f \in Flows, Lookup(f) PROVE IInv'
<1>1. flow[f].pc = "lookup" /\ plan[flow[f].plan].reason \in Reasons
  BY FlowFacts DEF Lookup, PlanOK, RowType
<1>2. PICK saw \in {"PENDING_ORDER_SUBMITTING"} \cup Reasons, pc \in {"already", "reclaim", "sweep"} :
        flow' = [flow EXCEPT ![f].saw = saw, ![f].pc = pc]
  BY <1>1 DEF Lookup, Reasons
<1> DEFINE v == [flow[f] EXCEPT !.saw = saw, !.pc = pc]
<1>3. FlowOK(v, owner, order, nextKey) /\ v.pc \notin BeforeSend
  <2>1. FlowOK(flow[f], owner, order, nextKey) /\ flow[f] \in FlowType BY FlowFacts DEF FlowOK
  <2>2. pc \in FlowPc \ Knowing /\ pc \notin Claimed /\ pc \notin BeforeSend
    BY DEF FlowPc, Knowing, Claimed, BeforeSend
  <2>3. v.pc = pc BY <2>1 DEF FlowType
  <2>4. FlowOK(v, owner, order, nextKey) BY <1>1, <2>1, <2>2, FurtherFlowOK
  <2> QED BY <2>2, <2>3, <2>4
<1>4. flow' = [flow EXCEPT ![f] = v] BY <1>2
<1> HIDE DEF v
<1> QED BY <1>3, <1>4, FlowStep, FlowFacts DEF Lookup

\* PassExpiry() and OneActivePlan(): a check is passed.
LEMMA CheckPassedInv ==
  ASSUME IInv, NEW f \in Flows, PassExpiry(f) \/ OneActivePlan(f) PROVE IInv'
<1>1. PICK pc \in {"gates", "reads"} : flow' = [flow EXCEPT ![f].pc = pc]
  BY DEF PassExpiry, OneActivePlan
<1>2. flow[f].pc \in BeforeSend /\ flow[f].pc # "idle" BY DEF PassExpiry, OneActivePlan, BeforeSend
<1> DEFINE v == [flow[f] EXCEPT !.pc = pc]
<1>3. FlowOK(v, owner, order, nextKey)
  <2>1. FlowOK(flow[f], owner, order, nextKey) /\ flow[f].saw \in {"PENDING_ORDER_SUBMITTING"} \cup Reasons
    BY FlowFacts DEF FlowOK, FlowType
  <2>2. pc \in FlowPc \ Knowing /\ flow[f].pc \in Claimed
    BY <1>2 DEF FlowPc, Knowing, Claimed
  <2> QED BY <1>2, <2>1, <2>2, FurtherFlowOK
<1>4. v.key = flow[f].key BY FlowFacts DEF FlowOK, FlowType
<1>5. flow' = [flow EXCEPT ![f] = v] BY <1>1
<1>6. UNCHANGED <<plan, past, outcome, nextKey, owner, order, bg, pass, crashes>>
  BY DEF PassExpiry, OneActivePlan
<1> HIDE DEF v
<1> QED BY <1>2, <1>3, <1>4, <1>5, <1>6, FlowStep, FlowFacts

\* A request ends and writes nothing.
LEMMA EndInv ==
  ASSUME IInv, NEW f \in Flows, ReclaimMisses(f) \/ NoAnswer(f) \/ AuditPlacement(f) \/ CancelFails(f)
  PROVE  IInv'
<1>1. flow' = [flow EXCEPT ![f] = IdleFlow]
      /\ UNCHANGED <<plan, past, outcome, nextKey, owner, order, bg, pass, crashes>>
  BY DEF ReclaimMisses, NoAnswer, AuditPlacement, CancelFails
<1>2. IdleFlow.pc \notin BeforeSend BY DEF IdleFlow, BeforeSend
<1> QED BY <1>1, <1>2, IdleFlowOK, FlowStep, FlowFacts

\* What the gateway takes for a plan's is in the list, and is the plan's unless
\* fields had to be compared.
LEMMA Matched ==
  ASSUME IInv, NEW p \in Plans, NEW list \in SUBSET Keys, \A k \in list : order[k] # "none",
         NEW m \in Matches(p, list), NEW k \in m
  PROVE  k \in list /\ Names(owner, k, p)
<1>1. k \in list /\ (owner[k] = p \/ "alike" \in Faults) BY DEF Matches
<1>2. owner[k] \in Plans
  <2>1. KeysOK(owner, order, nextKey) BY DEF IInv
  <2> QED BY <1>1, <2>1, BoundsAssumption DEF KeysOK, Keys
<1> QED BY <1>1, <1>2 DEF Names

\* So it is with its candidates.
LEMMA CandidateFacts ==
  ASSUME IInv, NEW p \in Plans, NEW c \in Candidates(p), NEW k
  PROVE  /\ k \in c.orders => k \in Keys /\ order[k] = "pending" /\ Names(owner, k, p)
         /\ k \in c.positions => k \in Keys /\ order[k] = "open" /\ Names(owner, k, p)
         /\ k \in c.history => k \in InHistory /\ Names(owner, k, p)
         /\ k \in c.deals => k \in Keys /\ Filled(k) /\ Names(owner, k, p)
<1> DEFINE F == {j \in Keys : Filled(j)}
<1>1. PICK o \in Matches(p, Holding("pending")), q \in Matches(p, Holding("open")),
           h \in Matches(p, InHistory), d \in Matches(p, F) :
        c = [orders |-> o, positions |-> q, history |-> h, deals |-> d]
  BY DEF Candidates
<1>2. c.orders = o /\ c.positions = q /\ c.history = h /\ c.deals = d BY <1>1
<1>3. ASSUME k \in o PROVE k \in Holding("pending") /\ Names(owner, k, p)
  <2>1. Holding("pending") \in SUBSET Keys /\ \A j \in Holding("pending") : order[j] # "none" BY DEF Holding
  <2> QED BY <1>3, <2>1, Matched
<1>4. ASSUME k \in q PROVE k \in Holding("open") /\ Names(owner, k, p)
  <2>1. Holding("open") \in SUBSET Keys /\ \A j \in Holding("open") : order[j] # "none" BY DEF Holding
  <2> QED BY <1>4, <2>1, Matched
<1>5. ASSUME k \in h PROVE k \in InHistory /\ Names(owner, k, p)
  <2>1. InHistory \in SUBSET Keys /\ \A j \in InHistory : order[j] # "none" BY DEF InHistory
  <2> QED BY <1>5, <2>1, Matched
<1>6. ASSUME k \in d PROVE k \in F /\ Names(owner, k, p)
  <2>1. F \in SUBSET Keys /\ \A j \in F : order[j] # "none" BY DEF Filled
  <2> HIDE DEF F
  <2> QED BY <1>6, <2>1, Matched
<1> QED BY <1>2, <1>3, <1>4, <1>5, <1>6 DEF Holding

\* The gateway answers with an order or a position.
LEMMA AnswerInv ==
  ASSUME IInv, NEW f \in Flows, MarketFilled(f) \/ PendingAnswer(f) \/ FilledAnswer(f) PROVE IInv'
<1> DEFINE p == flow[f].plan
<1>1. flow[f].pc = "await" /\ FlowOK(flow[f], owner, order, nextKey)
  BY FlowFacts DEF MarketFilled, PendingAnswer, FilledAnswer, AwaitsPending
<1>2. p \in Plans /\ flow[f].key \in Keys /\ owner[flow[f].key] = p
  BY <1>1 DEF FlowOK, Claimed
<1>3. PICK k \in Keys, pc \in {"place", "record"}, s \in {"order", "position"} :
        /\ flow' = [flow EXCEPT ![f].pc = pc, ![f].ev = found(s, k)]
        /\ Names(owner, k, p) /\ AcceptedIn(order, k)
        /\ s = "position" => FilledIn(order, k)
        /\ pc = "record" => s = "position"
  <2>1. CASE MarketFilled(f)
    BY <1>2, <2>1 DEF MarketFilled, Filled, FilledIn, AcceptedIn, Names
  <2>2. CASE PendingAnswer(f)
    <3>1. PICK k \in Holding("pending") :
            /\ k = flow[f].key \/ \E c \in Candidates(p) : c.orders = {k}
            /\ flow' = [flow EXCEPT ![f].pc = "place", ![f].ev = found("order", k)]
      BY <2>2 DEF PendingAnswer
    <3>2. k \in Keys /\ order[k] = "pending" BY DEF Holding
    <3>3. Names(owner, k, p)
      <4>1. CASE k = flow[f].key BY <1>2, <4>1 DEF Names
      <4>2. CASE \E c \in Candidates(p) : c.orders = {k}
        <5>1. PICK c \in Candidates(p) : c.orders = {k} BY <4>2
        <5>2. k \in c.orders BY <5>1
        <5> QED BY <1>2, <5>2, CandidateFacts
      <4> QED BY <3>1, <4>1, <4>2
    <3> QED BY <3>1, <3>2, <3>3 DEF AcceptedIn
  <2>3. CASE FilledAnswer(f)
    <3>1. PICK k \in Keys, c \in Candidates(p) :
            /\ \/ k \in c.positions
               \/ k \in c.history /\ Filled(k)
               \/ k \in c.deals
            /\ flow' = [flow EXCEPT ![f].pc = "record", ![f].ev = found("position", k)]
      BY <2>3 DEF FilledAnswer
    <3>2. Names(owner, k, p) /\ FilledIn(order, k)
      BY <1>2, <3>1, CandidateFacts DEF FilledIn, Filled
    <3> QED BY <3>1, <3>2 DEF FilledIn, AcceptedIn
  <2> QED BY <2>1, <2>2, <2>3
<1> DEFINE ev == found(s, k)
           v  == [flow[f] EXCEPT !.pc = pc, !.ev = ev]
<1>4. ev \in Evidence /\ ev # NoEvidence /\ ev.kind = s /\ ev.key = k
  BY DEF found, Evidence, NoEvidence
<1>5. EvidenceOK(p, ev, owner, order) BY <1>2, <1>3, <1>4 DEF EvidenceOK
<1> HIDE DEF ev
<1>6. FlowOK(v, owner, order, nextKey)
  BY <1>1, <1>3, <1>4, <1>5, ToldFlowOK DEF FlowPc, Claimed, BeforeSend
<1>7. v.pc \notin BeforeSend BY <1>1 DEF BeforeSend, FlowOK, FlowType
<1>8. flow' = [flow EXCEPT ![f] = v] BY <1>3 DEF ev
<1>9. UNCHANGED <<plan, past, outcome, nextKey, owner, order, bg, pass, crashes>>
  BY DEF MarketFilled, PendingAnswer, FilledAnswer
<1> HIDE DEF v
<1> QED BY <1>6, <1>7, <1>8, <1>9, FlowStep, FlowFacts

\* A request settles its plan and ends.
LEMMA SettleInv ==
  ASSUME IInv, NEW f \in Flows,
         \/ AlreadyWrite(f) \/ ExpireClaimed(f) \/ GateRejects(f) \/ CancelledAnswer(f)
         \/ AmbiguousAnswer(f) \/ RejectedAnswer(f) \/ CancelWrite(f) \/ UnexpectedError(f)
  PROVE  IInv'
<1> DEFINE p == flow[f].plan
           OK(row) == PlanOK(p, row, outcome[p], owner, order)
<1>1. flow[f].pc # "idle"
  BY DEF AlreadyWrite, ExpireClaimed, GateRejects, CancelledAnswer, AmbiguousAnswer, RejectedAnswer,
         CancelWrite, UnexpectedError, AwaitsPending
<1>2. p \in Plans /\ OK(plan[p]) /\ FlowOK(flow[f], owner, order, nextKey) BY <1>1, FlowFacts
<1>3. \A s \in {"PLAN_EXPIRED", "RISK_BLOCKED", "ORDER_CANCELLED"}, why \in Reasons :
        /\ OK(Unlocked(s)) /\ OK(failed(why))
        /\ OK(blockPlan(plan[p], Unlocked(s))) /\ OK(blockPlan(plan[p], failed(why)))
        /\ OK(whenPlaced(plan[p], Unlocked(s)))
  <2> TAKE s \in {"PLAN_EXPIRED", "RISK_BLOCKED", "ORDER_CANCELLED"}, why \in Reasons
  <2>1. OK(Unlocked(s)) /\ OK(failed(why)) BY PlainRow DEF PlanStatus
  <2> QED BY <1>2, <2>1, ConditionalRow
<1>4. AlreadyWrite(f) => OK(whenSubmitting(plan[p], rowOf(flow[f].ev)))
  BY <1>2, EvidenceRow, ConditionalRow DEF AlreadyWrite, FlowOK, Knowing
<1> HIDE DEF OK
<1>5. \/ \E row : OK(row) /\ plan' = [plan EXCEPT ![p] = row]
      \/ plan' = plan
  BY <1>3, <1>4
     DEF AlreadyWrite, ExpireClaimed, GateRejects, CancelledAnswer, AmbiguousAnswer, RejectedAnswer,
         CancelWrite, UnexpectedError, Reasons
<1>6. flow' = [flow EXCEPT ![f] = IdleFlow]
      /\ UNCHANGED <<past, outcome, nextKey, owner, order, bg, pass, crashes>>
  BY DEF AlreadyWrite, ExpireClaimed, GateRejects, CancelledAnswer, AmbiguousAnswer, RejectedAnswer,
         CancelWrite, UnexpectedError
<1>7. IdleFlow.pc \notin BeforeSend BY DEF IdleFlow, BeforeSend
<1>8. CASE plan' = plan BY <1>6, <1>7, <1>8, IdleFlowOK, FlowStep, FlowFacts
<1>9. CASE \E row : OK(row) /\ plan' = [plan EXCEPT ![p] = row]
  BY <1>2, <1>6, <1>7, <1>9, IdleFlowOK, FlowWrites DEF OK
<1> QED BY <1>5, <1>8, <1>9

\* SweepWrite() writes what was found, or releases a failed plan.
LEMMA SweepWriteInv ==
  ASSUME IInv, NEW f \in Flows, SweepWrite(f) PROVE IInv'
<1> DEFINE p == flow[f].plan  ev == flow[f].ev
           OK(row) == PlanOK(p, row, outcome[p], owner, order)
           v == [IdleFlow EXCEPT !.pc = "reclaim", !.plan = p]
<1>1. flow[f].pc # "idle" BY DEF SweepWrite
<1>2. p \in Plans /\ OK(plan[p]) /\ FlowOK(flow[f], owner, order, nextKey) BY <1>1, FlowFacts
<1>3. FlowOK(v, owner, order, nextKey) /\ FlowOK(IdleFlow, owner, order, nextKey)
  BY <1>2, StartedFlowOK, IdleFlowOK
<1>4. v.pc \notin BeforeSend /\ IdleFlow.pc \notin BeforeSend BY DEF IdleFlow, BeforeSend
<1>5. OK(releaseFailed(plan[p])) /\ (ev # NoEvidence => OK(rowOf(ev)))
  BY <1>2, EvidenceRow, ConditionalRow DEF FlowOK
<1> HIDE DEF v, OK
<1>6. \E row : OK(row) /\ plan' = [plan EXCEPT ![p] = row]
  BY <1>2, <1>5 DEF SweepWrite
<1>7. flow' = [flow EXCEPT ![f] = v] \/ flow' = [flow EXCEPT ![f] = IdleFlow]
  BY DEF SweepWrite, v
<1>8. UNCHANGED <<past, outcome, nextKey, owner, order, bg, pass, crashes>> BY DEF SweepWrite
<1> QED BY <1>2, <1>3, <1>4, <1>6, <1>7, <1>8, FlowWrites DEF OK

\* RecordPlaced() writes the ticket the gateway answered with.
LEMMA RecordPlacedInv ==
  ASSUME IInv, NEW f \in Flows, RecordPlaced(f) PROVE IInv'
<1> DEFINE p == flow[f].plan
           row == placed(flow[f].ev.key)
           v == [flow[f] EXCEPT !.pc = "audit"]
<1>1. flow[f].pc = "place" BY DEF RecordPlaced
<1>2. p \in Plans /\ FlowOK(flow[f], owner, order, nextKey) BY <1>1, FlowFacts
<1>3. PlanOK(p, row, outcome[p], owner, order)
  BY <1>1, <1>2, EvidenceRow DEF FlowOK, Knowing
<1>4. FlowOK(v, owner, order, nextKey) /\ v.pc \notin BeforeSend
  <2>1. flow[f].pc # "idle" /\ "audit" \in FlowPc \ Knowing /\ "audit" \notin Claimed \cup BeforeSend
    BY <1>1 DEF FlowPc, Knowing, Claimed, BeforeSend
  <2>2. flow[f] \in FlowType /\ flow[f].saw \in {"PENDING_ORDER_SUBMITTING"} \cup Reasons
    BY <1>2 DEF FlowOK, FlowType
  <2>3. FlowOK([flow[f] EXCEPT !.pc = "audit"], owner, order, nextKey)
    <3> HIDE DEF Knowing
    <3> QED BY <1>2, <2>1, <2>2, FurtherFlowOK
  <2>4. v.pc = "audit" BY <2>2 DEF FlowType
  <2> QED BY <2>1, <2>3, <2>4
<1> HIDE DEF row
<1>5. flow' = [flow EXCEPT ![f] = v] /\ plan' = [plan EXCEPT ![p] = row] BY DEF RecordPlaced, row
<1> HIDE DEF v
<1> QED BY <1>2, <1>3, <1>4, <1>5, FlowWrites DEF RecordPlaced

\* RecordOpened() adds a record, unless there is one, and opens the plan.
LEMMA RecordOpenedInv ==
  ASSUME IInv, NEW f \in Flows, RecordOpened(f) PROVE IInv'
<1> DEFINE p == flow[f].plan  k == flow[f].ev.key
           v == [flow[f] EXCEPT !.pc = "audit"]
<1>1. flow[f].pc = "record" BY DEF RecordOpened
<1>2. p \in Plans /\ FlowOK(flow[f], owner, order, nextKey) BY <1>1, FlowFacts
<1>3. PICK t \in AnsweredTickets(p, k) : outcome' = [outcome EXCEPT ![p] = insertOutcome(@, t)]
  BY DEF RecordOpened
<1>3a. t \in Tickets /\ OutcomeOK(p, [state |-> "open", ticket |-> t], owner, order)
  <2>1. k \in Keys /\ Names(owner, k, p) /\ FilledIn(order, k)
    BY <1>1, <1>2 DEF FlowOK, Knowing, EvidenceOK
  <2>2. t = k \/ (t = NoTicket /\ "dealonly" \in Faults) BY DEF AnsweredTickets
  <2> HIDE DEF p, k
  <2> QED BY <2>1, <2>2 DEF Tickets, OutcomeOK
<1>4. /\ outcome' = [outcome EXCEPT ![p] = insertOutcome(@, t)]
      /\ plan' = [plan EXCEPT ![p] = opened]
      /\ flow' = [flow EXCEPT ![f] = v]
      /\ UNCHANGED <<past, nextKey, owner, order, bg, pass, crashes>>
  BY <1>3 DEF RecordOpened
<1>5. /\ OutcomesOK(outcome', owner, order)
      /\ \A q \in Plans : outcome[q].state = "closed" => outcome'[q].state = "closed"
  <2>1. OutcomesOK(outcome, owner, order) BY DEF IInv
  <2> DEFINE rec == insertOutcome(outcome[p], t)
  <2>2. outcome' = [outcome EXCEPT ![p] = rec] BY <1>4
  <2> HIDE DEF p, k, rec
  <2>3. rec = insertOutcome(outcome[p], t) BY DEF rec
  <2>4. p \in Plans /\ t \in Tickets /\ OutcomeOK(p, [state |-> "open", ticket |-> t], owner, order)
    BY <1>2, <1>3a
  <2>5. /\ OutcomesOK([outcome EXCEPT ![p] = rec], owner, order)
        /\ \A q \in Plans : outcome[q].state = "closed" => [outcome EXCEPT ![p] = rec][q].state = "closed"
    BY <2>1, <2>3, <2>4, InsertRecord
  <2> QED BY <2>2, <2>5
<1>6. PlansOK(plan, outcome', owner, order) BY <1>5, PlansOfRecords DEF IInv
<1>7. PlansOK(plan', outcome', owner, order)
  BY <1>2, <1>4, <1>6, FixedRows, WriteRow
<1>8. FlowOK(v, owner, order, nextKey) /\ v.pc \notin BeforeSend
  <2>1. flow[f].pc # "idle" /\ "audit" \in FlowPc \ Knowing /\ "audit" \notin Claimed \cup BeforeSend
    BY <1>1 DEF FlowPc, Knowing, Claimed, BeforeSend
  <2>2. flow[f] \in FlowType /\ flow[f].saw \in {"PENDING_ORDER_SUBMITTING"} \cup Reasons
    BY <1>2 DEF FlowOK, FlowType
  <2>3. FlowOK([flow[f] EXCEPT !.pc = "audit"], owner, order, nextKey)
    <3> HIDE DEF Knowing
    <3> QED BY <1>2, <2>1, <2>2, FurtherFlowOK
  <2>4. v.pc = "audit" BY <2>2 DEF FlowType
  <2> QED BY <2>1, <2>3, <2>4
<1>9. FlowsOK(flow', owner, order, nextKey)
  <2>1. \A g \in Flows : flow[g].pc \in BeforeSend => order[flow[g].key] = "none"
    BY DEF IInv, FlowsOK, FlowOK
  <2>2. nextKey \in 1 .. MaxClaims + 1 /\ nextKey <= nextKey BY BoundsAssumption DEF IInv, KeysOK
  <2>3. FlowsOK(flow, owner, order, nextKey) BY DEF IInv
  <2> HIDE DEF v
  <2> QED BY <1>4, <1>8, <2>1, <2>2, <2>3, StillGrows, MoveFlow
<1> QED BY <1>4, <1>5, <1>7, <1>9 DEF IInv

-----------------------------------------------------------------------------
(* Requests that look at MT5 or act on it.                                 *)

\* What nobody writes stays true while orders move on at MT5.
LEMMA OrderMoves ==
  ASSUME IInv, NEW or, Grow(owner, order, owner, or)
  PROVE  /\ PlansOK(plan, outcome, owner, or) /\ OutcomesOK(outcome, owner, or)
         /\ BgsOK(bg, owner, or) /\ PassesOK(pass, or)
         /\ (\A k \in Keys : order[k] = "none" => or[k] = "none") => FlowsOK(flow, owner, or, nextKey)
<1>1. KeysOK(owner, order, nextKey) BY DEF IInv
<1>2. PlansOK(plan, outcome, owner, or) /\ OutcomesOK(outcome, owner, or) BY RowsKeep DEF IInv
<1>3. BgsOK(bg, owner, or) BY BgsKeep DEF IInv
<1>4. PassesOK(pass, or) BY PassesKeep DEF IInv
<1>5. ASSUME \A k \in Keys : order[k] = "none" => or[k] = "none" PROVE FlowsOK(flow, owner, or, nextKey)
  BY <1>1, <1>5, FlowsKeep DEF IInv, KeysOK
<1> QED BY <1>2, <1>3, <1>4, <1>5

\* One request moves while orders do, and nobody finds his order sent.
LEMMA FlowMoves ==
  ASSUME IInv, NEW or, Grow(owner, order, owner, or), KeysOK(owner, or, nextKey),
         \A k \in Keys : order[k] = "none" => or[k] = "none",
         NEW f \in Flows, NEW v, FlowOK(v, owner, or, nextKey),
         v.pc \in BeforeSend => flow[f].pc \in BeforeSend /\ v.key = flow[f].key,
         order' = or, flow' = [flow EXCEPT ![f] = v],
         UNCHANGED <<plan, past, outcome, nextKey, owner, bg, pass, crashes>>
  PROVE  IInv'
<1>1. KeysOK(owner, order, nextKey) /\ FlowsOK(flow, owner, order, nextKey) BY DEF IInv
<1>2. nextKey \in 1 .. MaxClaims + 1 /\ nextKey <= nextKey BY <1>1, BoundsAssumption DEF KeysOK
<1>3. \A g \in Flows \ {f} : flow[g].pc \in BeforeSend =>
        or[flow[g].key] = "none" /\ (v.pc \in BeforeSend => flow[g].key # v.key)
  <2> TAKE g \in Flows \ {f}
  <2>1. flow[g].pc \in BeforeSend => flow[g].key \in Keys /\ order[flow[g].key] = "none"
    BY <1>1 DEF FlowsOK, FlowOK, Claimed
  <2>2. flow[g].pc \in BeforeSend /\ v.pc \in BeforeSend => flow[g].key # v.key
    BY <1>1 DEF FlowsOK, Apart
  <2> QED BY <2>1, <2>2
<1>4. FlowsOK([flow EXCEPT ![f] = v], owner, or, nextKey)
  BY <1>1, <1>2, <1>3, MoveFlow
<1>5. /\ PlansOK(plan, outcome, owner, or) /\ OutcomesOK(outcome, owner, or)
      /\ BgsOK(bg, owner, or) /\ PassesOK(pass, or)
  BY OrderMoves
<1> QED BY <1>4, <1>5 DEF IInv

\* A request that looks at MT5 knows afterwards what it knew before.
LEMMA AfterRead ==
  ASSUME IInv, NEW f \in Flows, NEW read \in LiveReads
  PROVE  /\ Grow(owner, order, owner, read.order) /\ KeysOK(owner, read.order, nextKey)
         /\ \A k \in Keys : order[k] = "none" => read.order[k] = "none"
         /\ FlowOK(flow[f], owner, read.order, nextKey)
         /\ \A p \in Plans : \A ev \in LiveEvidence(p, read.view) :
              ev \in Evidence /\ EvidenceOK(p, ev, owner, read.order)
<1>1. KeysOK(owner, order, nextKey) BY DEF IInv
<1>2. /\ Grow(owner, order, owner, read.order) /\ KeysOK(owner, read.order, nextKey)
      /\ \A k \in Keys : order[k] = "none" => read.order[k] = "none"
      /\ read.view \in ViewType
      /\ \A k \in read.view.orders : AcceptedIn(read.order, k)
      /\ \A k \in read.view.positions : FilledIn(read.order, k)
  BY <1>1, ReadKeeps
<1>3. FlowOK(flow[f], owner, read.order, nextKey) BY <1>2, OrderMoves DEF FlowsOK
<1>4. ASSUME NEW p \in Plans, NEW ev \in LiveEvidence(p, read.view)
      PROVE  ev \in Evidence /\ EvidenceOK(p, ev, owner, read.order)
  BY <1>2, LiveIsEvidence
<1> QED BY <1>2, <1>3, <1>4

\* AlreadyRead() finds what it will write, or goes on to claim again.
LEMMA AlreadyReadInv ==
  ASSUME IInv, NEW f \in Flows, AlreadyRead(f) PROVE IInv'
<1> PICK read \in LiveReads : \E ev \in LiveEvidence(flow[f].plan, read.view) :
      /\ order' = read.order
      /\ flow' = [flow EXCEPT ![f].ev = ev, ![f].pc = IF ev = NoEvidence THEN "reclaim" ELSE "adopt"]
  BY DEF AlreadyRead
<1> PICK ev \in LiveEvidence(flow[f].plan, read.view) :
      /\ order' = read.order
      /\ flow' = [flow EXCEPT ![f].ev = ev, ![f].pc = IF ev = NoEvidence THEN "reclaim" ELSE "adopt"]
  OBVIOUS
<1>1. flow[f].pc = "already" /\ UNCHANGED <<plan, past, outcome, nextKey, owner, bg, pass, crashes>>
  BY DEF AlreadyRead
<1>2. flow[f].plan \in Plans /\ flow[f] \in FlowType /\ flow \in [Flows -> FlowType]
  BY <1>1, FlowFacts DEF FlowOK, IInv, FlowsOK
<1> DEFINE pc == IF ev = NoEvidence THEN "reclaim" ELSE "adopt"
           v  == [flow[f] EXCEPT !.pc = pc, !.ev = ev]
<1>3. /\ pc \in FlowPc \ Claimed /\ pc # "record" /\ pc \notin BeforeSend
      /\ pc \in Knowing => ev # NoEvidence
  BY DEF FlowPc, Claimed, BeforeSend, Knowing
<1> HIDE DEF pc
<1>4. ev \in Evidence /\ EvidenceOK(flow[f].plan, ev, owner, read.order) BY <1>2, AfterRead
<1>5. FlowOK(flow[f], owner, read.order, nextKey) BY AfterRead
<1>6. FlowOK(v, owner, read.order, nextKey) BY <1>1, <1>3, <1>4, <1>5, ToldFlowOK
<1>7. v.pc \notin BeforeSend BY <1>2, <1>3 DEF FlowType
<1>8. flow' = [flow EXCEPT ![f] = v]
  <2>1. flow' = [flow EXCEPT ![f] = [flow[f] EXCEPT !.ev = ev, !.pc = pc]] BY <1>2 DEF pc
  <2>2. v = [flow[f] EXCEPT !.ev = ev, !.pc = pc] BY <1>2 DEF FlowType
  <2> QED BY <2>1, <2>2
<1> HIDE DEF v
<1>9. /\ Grow(owner, order, owner, read.order) /\ KeysOK(owner, read.order, nextKey)
      /\ \A k \in Keys : order[k] = "none" => read.order[k] = "none"
  BY AfterRead
<1> QED BY <1>1, <1>6, <1>7, <1>8, <1>9, FlowMoves

\* SweepRead() looks at the live lists, then at the history.
LEMMA SweepReadInv ==
  ASSUME IInv, NEW f \in Flows, SweepRead(f) PROVE IInv'
<1> DEFINE Ends(read, ev) == order' = read.order /\ flow' = [flow EXCEPT ![f].ev = ev, ![f].pc = "settle"]
           shown(live) == IF live = NoEvidence THEN HistoryEvidence(flow[f].plan) ELSE {live}
<1> PICK read \in LiveReads :
      \E live \in LiveEvidence(flow[f].plan, read.view) : \E ev \in shown(live) : Ends(read, ev)
  <2> HIDE DEF LiveReads, LiveEvidence, HistoryEvidence
  <2>1. \E read \in LiveReads : \E live \in LiveEvidence(flow[f].plan, read.view) :
          /\ order' = read.order
          /\ \E ev \in shown(live) : flow' = [flow EXCEPT ![f].ev = ev, ![f].pc = "settle"]
    BY DEF SweepRead
  <2> QED BY <2>1
<1> PICK live \in LiveEvidence(flow[f].plan, read.view) : \E ev \in shown(live) : Ends(read, ev)
  OBVIOUS
<1> PICK ev \in shown(live) : Ends(read, ev)
  OBVIOUS
<1>1. flow[f].pc = "sweep" /\ UNCHANGED <<plan, past, outcome, nextKey, owner, bg, pass, crashes>>
  BY DEF SweepRead
<1>2. flow[f].plan \in Plans /\ flow[f] \in FlowType /\ flow \in [Flows -> FlowType]
  BY <1>1, FlowFacts DEF FlowOK, IInv, FlowsOK
<1> DEFINE v == [flow[f] EXCEPT !.pc = "settle", !.ev = ev]
<1>3. "settle" \in FlowPc \ Claimed /\ "settle" \notin BeforeSend \cup Knowing
  BY DEF FlowPc, Claimed, BeforeSend, Knowing
<1>4. ev \in Evidence /\ EvidenceOK(flow[f].plan, ev, owner, read.order)
  <2>1. live \in Evidence /\ EvidenceOK(flow[f].plan, live, owner, read.order) BY <1>2, AfterRead
  <2>2. CASE live # NoEvidence BY <2>1, <2>2
  <2>3. CASE live = NoEvidence
    <3>1. ev \in Evidence /\ EvidenceOK(flow[f].plan, ev, owner, order) BY <1>2, <2>3, HistoryIsEvidence
    <3>2. Grow(owner, order, owner, read.order) BY AfterRead
    <3> QED BY <3>1, <3>2, EvidenceKeeps
  <2> QED BY <2>2, <2>3
<1>5. FlowOK(flow[f], owner, read.order, nextKey) BY AfterRead
<1>6. FlowOK(v, owner, read.order, nextKey) BY <1>1, <1>3, <1>4, <1>5, ToldFlowOK
<1>7. v.pc \notin BeforeSend BY <1>2, <1>3 DEF FlowType
<1>8. flow' = [flow EXCEPT ![f] = v]
  <2>1. flow' = [flow EXCEPT ![f] = [flow[f] EXCEPT !.ev = ev, !.pc = "settle"]] BY <1>2
  <2>2. v = [flow[f] EXCEPT !.ev = ev, !.pc = "settle"] BY <1>2 DEF FlowType
  <2> QED BY <2>1, <2>2
<1> HIDE DEF v
<1>9. /\ Grow(owner, order, owner, read.order) /\ KeysOK(owner, read.order, nextKey)
      /\ \A k \in Keys : order[k] = "none" => read.order[k] = "none"
  BY AfterRead
<1> QED BY <1>1, <1>6, <1>7, <1>8, <1>9, FlowMoves

\* ReadSymbol() lets a claimed plan pass.
LEMMA ReadSymbolInv ==
  ASSUME IInv, NEW f \in Flows, ReadSymbol(f) PROVE IInv'
<1> PICK read \in LiveReads : order' = read.order BY DEF ReadSymbol
<1>1. /\ flow[f].pc = "reads" /\ flow' = [flow EXCEPT ![f].pc = "check"]
      /\ UNCHANGED <<plan, past, outcome, nextKey, owner, bg, pass, crashes>>
  BY DEF ReadSymbol
<1>2. flow[f] \in FlowType BY FlowFacts DEF FlowOK
<1> DEFINE v == [flow[f] EXCEPT !.pc = "check"]
<1>3. FlowOK(flow[f], owner, read.order, nextKey) BY AfterRead
<1>4. FlowOK(v, owner, read.order, nextKey)
  <2>1. flow[f].saw \in {"PENDING_ORDER_SUBMITTING"} \cup Reasons BY <1>2 DEF FlowType
  <2>2. "check" \in FlowPc \ Knowing /\ flow[f].pc \in Claimed /\ flow[f].pc \in BeforeSend
    BY <1>1 DEF FlowPc, Knowing, Claimed, BeforeSend
  <2> QED BY <1>1, <1>3, <2>1, <2>2, FurtherFlowOK
<1>5. v.key = flow[f].key /\ flow[f].pc \in BeforeSend BY <1>1, <1>2 DEF FlowType, BeforeSend
<1>6. flow' = [flow EXCEPT ![f] = v] BY <1>1
<1> HIDE DEF v
<1>9. /\ Grow(owner, order, owner, read.order) /\ KeysOK(owner, read.order, nextKey)
      /\ \A k \in Keys : order[k] = "none" => read.order[k] = "none"
  BY AfterRead
<1> QED BY <1>1, <1>4, <1>5, <1>6, <1>9, FlowMoves

\* SendOrder() uses a claim that no other request is about to use.
LEMMA SendOrderInv ==
  ASSUME IInv, NEW f \in Flows, SendOrder(f) PROVE IInv'
<1> DEFINE key == flow[f].key
           or == [order EXCEPT ![key] = "inflight"]
           v  == [flow[f] EXCEPT !.pc = "await"]
<1>1. /\ flow[f].pc = "check" /\ order' = or /\ flow' = [flow EXCEPT ![f] = v]
      /\ UNCHANGED <<plan, past, outcome, nextKey, owner, bg, pass, crashes>>
  BY DEF SendOrder
<1>2. FlowOK(flow[f], owner, order, nextKey) /\ flow[f] \in FlowType BY FlowFacts DEF FlowOK
<1>3. KeysOK(owner, order, nextKey) /\ FlowsOK(flow, owner, order, nextKey) BY DEF IInv
<1>4. key \in Keys /\ key < nextKey /\ order[key] = "none" /\ nextKey \in 1 .. MaxClaims + 1
  BY <1>1, <1>2, <1>3 DEF FlowOK, Claimed, BeforeSend, KeysOK
<1>5. /\ or \in [Keys -> OrderState] /\ or[key] = "inflight"
      /\ \A k \in Keys \ {key} : or[k] = order[k]
  BY <1>3, <1>4 DEF KeysOK, OrderState
<1> HIDE DEF or
<1>6. Grow(owner, order, owner, or) BY <1>4, <1>5 DEF Grow, AcceptedIn, FilledIn
<1>7. KeysOK(owner, or, nextKey)
  <2>1. ASSUME NEW k \in Keys, k >= nextKey PROVE or[k] = "none"
    BY <1>3, <1>4, <1>5, <2>1, BoundsAssumption DEF KeysOK, Keys
  <2> QED BY <1>3, <1>5, <2>1 DEF KeysOK
<1>8. FlowOK(v, owner, or, nextKey) /\ v.pc \notin BeforeSend
  <2>1. EvidenceOK(flow[f].plan, flow[f].ev, owner, or) BY <1>2, <1>6, EvidenceKeeps DEF FlowOK
  <2>2. v \in FlowType /\ v.pc = "await" /\ v.plan = flow[f].plan /\ v.key = key /\ v.ev = flow[f].ev
    BY <1>2 DEF FlowType, FlowPc
  <2> HIDE DEF v
  <2> QED BY <1>1, <1>2, <2>1, <2>2 DEF FlowOK, Claimed, BeforeSend, Knowing
<1> HIDE DEF v
<1>9. \A g \in Flows \ {f} : flow[g].pc \in BeforeSend => or[flow[g].key] = "none"
  <2> SUFFICES ASSUME NEW g \in Flows \ {f}, flow[g].pc \in BeforeSend PROVE or[flow[g].key] = "none"
    OBVIOUS
  <2>1. flow[g].key # key BY <1>1, <1>3 DEF FlowsOK, Apart, BeforeSend
  <2>2. flow[g].key \in Keys /\ order[flow[g].key] = "none" BY <1>3 DEF FlowsOK, FlowOK, Claimed
  <2> QED BY <1>5, <2>1, <2>2
<1>10. FlowsOK([flow EXCEPT ![f] = v], owner, or, nextKey)
  <2>1. nextKey <= nextKey BY <1>4
  <2> QED BY <1>3, <1>4, <1>6, <1>8, <1>9, <2>1, MoveFlow
<1>11. /\ PlansOK(plan, outcome, owner, or) /\ OutcomesOK(outcome, owner, or)
       /\ BgsOK(bg, owner, or) /\ PassesOK(pass, or)
  BY <1>6, OrderMoves
<1> QED BY <1>1, <1>7, <1>10, <1>11 DEF IInv

\* ClaimPlan() hands out a claim that nobody has had.
LEMMA ClaimPlanInv ==
  ASSUME IInv, NEW f \in Flows, NEW p \in Plans, ClaimPlan(f, p) PROVE IInv'
<1> DEFINE k  == nextKey
           ow == [owner EXCEPT ![k] = p]
           v  == [IdleFlow EXCEPT !.pc = "claimed", !.plan = p, !.key = k]
           pl == [plan EXCEPT ![p] = claimPlanForApproval(@)]
<1>1. /\ k \in Keys /\ plan' = pl /\ owner' = ow /\ nextKey' = k + 1 /\ flow' = [flow EXCEPT ![f] = v]
      /\ UNCHANGED <<past, outcome, order, bg, pass, crashes>>
  BY DEF ClaimPlan
<1>2. KeysOK(owner, order, k) /\ FlowsOK(flow, owner, order, k) BY DEF IInv
<1>3. owner[k] = NoPlan /\ order[k] = "none" /\ k \in 1 .. MaxClaims + 1
  BY <1>1, <1>2, BoundsAssumption DEF KeysOK, Keys
<1>4. ow \in [Keys -> Plans \cup {NoPlan}] /\ ow[k] = p /\ \A j \in Keys \ {k} : ow[j] = owner[j]
  BY <1>1, <1>2 DEF KeysOK
<1> HIDE DEF ow
<1>5. Grow(owner, order, ow, order) BY <1>3, <1>4, PlansAssumption DEF Grow
<1>6. k + 1 \in 1 .. MaxClaims + 1 /\ k <= k + 1 /\ k < k + 1
  BY <1>1, BoundsAssumption DEF Keys
<1>7. KeysOK(ow, order, k + 1)
  <2>1. ASSUME NEW j \in Keys
        PROVE  /\ j < k + 1 => ow[j] \in Plans
               /\ j >= k + 1 => ow[j] = NoPlan /\ order[j] = "none"
    <3>1. j = k \/ (j # k /\ (j < k + 1 => j < k) /\ (j >= k + 1 => j >= k))
      BY <1>1, BoundsAssumption DEF Keys
    <3>2. CASE j = k BY <1>4, <1>6, <3>2, BoundsAssumption DEF Keys
    <3>3. CASE j # k BY <1>2, <1>4, <3>1, <3>3 DEF KeysOK
    <3> QED BY <3>2, <3>3
  <2> QED BY <1>2, <1>4, <1>6, <2>1 DEF KeysOK
<1>8. FlowOK(v, ow, order, k + 1) /\ v.key = k
  <2>1. /\ v \in FlowType /\ v.pc = "claimed" /\ v.plan = p /\ v.key = k /\ v.ev = NoEvidence
    BY <1>1 DEF IdleFlow, FlowType, FlowPc, Tickets, Evidence, Reasons
  <2> HIDE DEF v
  <2> QED BY <1>1, <1>3, <1>4, <1>6, <2>1 DEF FlowOK, EvidenceOK, Knowing, Claimed, BeforeSend
<1> HIDE DEF v
<1>9. \A g \in Flows \ {f} : flow[g].pc \in BeforeSend => order[flow[g].key] = "none" /\ flow[g].key # k
  <2> SUFFICES ASSUME NEW g \in Flows \ {f}, flow[g].pc \in BeforeSend
               PROVE  order[flow[g].key] = "none" /\ flow[g].key # k
    OBVIOUS
  <2>1. flow[g].key \in Keys /\ flow[g].key < k /\ order[flow[g].key] = "none"
    BY <1>2 DEF FlowsOK, FlowOK, Claimed
  <2> QED BY <1>1, <2>1, BoundsAssumption DEF Keys
<1>10. FlowsOK([flow EXCEPT ![f] = v], ow, order, k + 1)
  BY <1>2, <1>3, <1>5, <1>6, <1>8, <1>9, MoveFlow
<1>11. PlansOK(plan, outcome, ow, order) /\ OutcomesOK(outcome, ow, order) BY <1>5, RowsKeep DEF IInv
<1>12. PlansOK(pl, outcome, ow, order)
  <2> DEFINE row == claimPlanForApproval(plan[p])
  <2>1. PlanOK(p, row, outcome[p], ow, order) BY FixedRows
  <2>2. pl = [plan EXCEPT ![p] = row] OBVIOUS
  <2> HIDE DEF row, pl
  <2> QED BY <1>11, <2>1, <2>2, WriteRow
<1> HIDE DEF pl
<1>13. BgsOK(bg, ow, order) BY <1>5, BgsKeep DEF IInv
<1> QED BY <1>1, <1>7, <1>10, <1>11, <1>12, <1>13 DEF IInv

\* NotConfirmedAnswer() ends the request and starts its timers.
LEMMA NotConfirmedInv ==
  ASSUME IInv, NEW f \in Flows, NotConfirmedAnswer(f) PROVE IInv'
<1> DEFINE k == flow[f].key
           b == [BgOff EXCEPT !.pc = "tick", !.attempt = 1]
<1>1. /\ flow[f].pc = "await" /\ bg' = [bg EXCEPT ![k] = b] /\ flow' = [flow EXCEPT ![f] = IdleFlow]
      /\ UNCHANGED <<plan, past, outcome, nextKey, owner, order, pass, crashes>>
  BY DEF NotConfirmedAnswer, AwaitsPending
<1>2. k \in Keys /\ owner[k] \in Plans BY <1>1, FlowFacts DEF FlowOK, Claimed
<1>3. b \in BgType /\ BgOK(k, b, owner, order)
  <2>1. 1 \in 0 .. Attempts BY BoundsAssumption
  <2>2. b.pc = "tick" /\ b.ev = NoEvidence BY DEF BgOff
  <2>3. b \in BgType BY <2>1 DEF BgOff, BgType, Evidence
  <2> QED BY <1>2, <2>2, <2>3 DEF BgOK, EvidenceOK
<1> HIDE DEF b
<1>4. BgsOK(bg', owner, order) BY <1>1, <1>2, <1>3, MoveBg DEF IInv
<1>5. FlowsOK(flow', owner, order, nextKey)
  <2>1. nextKey \in 1 .. MaxClaims + 1 /\ nextKey <= nextKey BY BoundsAssumption DEF IInv, KeysOK
  <2>2. FlowsOK(flow, owner, order, nextKey) BY DEF IInv
  <2>3. \A g \in Flows : flow[g].pc \in BeforeSend => order[flow[g].key] = "none"
    BY <2>2 DEF FlowsOK, FlowOK
  <2>4. IdleFlow.pc \notin BeforeSend BY DEF IdleFlow, BeforeSend
  <2> QED BY <1>1, <2>1, <2>2, <2>3, <2>4, IdleFlowOK, StillGrows, MoveFlow
<1> QED BY <1>1, <1>4, <1>5 DEF IInv

Accepted == {"pending", "open", "closed", "cancelled"}

\* One order moves on: what was accepted stays so, and what was filled.
LEMMA OrderGrows ==
  ASSUME IInv, NEW k \in Keys, order[k] # "none", NEW s \in OrderState \ {"none"},
         order[k] \in Accepted => s \in Accepted, Filled(k) => s \in {"open", "closed"}
  PROVE  LET or == [order EXCEPT ![k] = s]
         IN  /\ Grow(owner, order, owner, or) /\ KeysOK(owner, or, nextKey)
             /\ \A j \in Keys : order[j] = "none" => or[j] = "none"
<1> DEFINE or == [order EXCEPT ![k] = s]
<1>1. KeysOK(owner, order, nextKey) BY DEF IInv
<1>2. or \in [Keys -> OrderState] /\ or[k] = s /\ \A j \in Keys \ {k} : or[j] = order[j]
  BY <1>1 DEF KeysOK
<1> HIDE DEF or
<1>3. \A j \in Keys : order[j] = "none" => or[j] = "none" BY <1>2
<1>4. Grow(owner, order, owner, or) BY <1>2 DEF Grow, AcceptedIn, FilledIn, Accepted, Filled
<1>5. KeysOK(owner, or, nextKey) BY <1>1, <1>2, <1>3 DEF KeysOK
<1> QED BY <1>3, <1>4, <1>5 DEF or

\* CancelAtMt5() cancels at MT5 and may lose the answer.
LEMMA CancelAtMt5Inv ==
  ASSUME IInv, NEW f \in Flows, CancelAtMt5(f) PROVE IInv'
<1> DEFINE k  == flow[f].ev.key
           or == [order EXCEPT ![k] = "cancelled"]
           v  == [flow[f] EXCEPT !.pc = "cancelled"]
<1>1. /\ flow[f].pc = "cancel" /\ order[k] = "pending" /\ order' = or
      /\ flow' = [flow EXCEPT ![f] = v] \/ flow' = [flow EXCEPT ![f] = IdleFlow]
      /\ UNCHANGED <<plan, past, outcome, nextKey, owner, bg, pass, crashes>>
  BY DEF CancelAtMt5
<1>2. FlowOK(flow[f], owner, order, nextKey) /\ flow[f] \in FlowType BY FlowFacts DEF FlowOK
<1>3. k \in Keys BY <1>1, <1>2 DEF FlowOK, Knowing, EvidenceOK
<1>4. /\ Grow(owner, order, owner, or) /\ KeysOK(owner, or, nextKey)
      /\ \A j \in Keys : order[j] = "none" => or[j] = "none"
  <2>1. "cancelled" \in OrderState \ {"none"} /\ "cancelled" \in Accepted BY DEF OrderState, Accepted
  <2>2. order[k] # "none" /\ ~Filled(k) BY <1>1 DEF Filled
  <2> HIDE DEF k
  <2> QED BY <1>3, <2>1, <2>2, OrderGrows
<1> HIDE DEF or
<1>5. FlowOK(v, owner, or, nextKey) /\ v.pc \notin BeforeSend
  <2>1. EvidenceOK(flow[f].plan, flow[f].ev, owner, or) BY <1>2, <1>4, EvidenceKeeps DEF FlowOK
  <2>2. v \in FlowType /\ v.pc = "cancelled" /\ v.plan = flow[f].plan /\ v.ev = flow[f].ev
    BY <1>2 DEF FlowType, FlowPc
  <2> HIDE DEF v
  <2> QED BY <1>1, <1>2, <2>1, <2>2 DEF FlowOK, Claimed, BeforeSend, Knowing
<1>6. FlowOK(IdleFlow, owner, or, nextKey) /\ IdleFlow.pc \notin BeforeSend
  BY IdleFlowOK DEF IdleFlow, BeforeSend
<1> HIDE DEF v
<1> QED BY <1>1, <1>4, <1>5, <1>6, FlowMoves

\* A request does something.
LEMMA RequestInv ==
  ASSUME IInv, NEW f \in Flows, Request(f) PROVE IInv'
BY LookupInv, AlreadyReadInv, SweepReadInv, SweepWriteInv, CheckPassedInv, ReadSymbolInv, SendOrderInv,
   EndInv, AnswerInv, SettleInv, NotConfirmedInv, RecordPlacedInv, RecordOpenedInv, CancelAtMt5Inv
   DEF Request

-----------------------------------------------------------------------------
(* Timers.                                                                 *)

\* A timer that is off knows nothing.
LEMMA BgOffOK ==
  ASSUME NEW k, NEW ow, NEW or PROVE BgOff \in BgType /\ BgOK(k, BgOff, ow, or)
BY BoundsAssumption DEF BgOff, BgType, BgOK, Evidence, EvidenceOK

\* What the invariant says of one timer chain.
LEMMA BgFacts ==
  ASSUME IInv, NEW k \in Keys
  PROVE  bg[k] \in BgType /\ BgOK(k, bg[k], owner, order) /\ (bg[k].pc # "off" => owner[k] \in Plans)
BY DEF IInv, BgsOK, BgOK

\* One chain moves and may have written the rows.
LEMMA BgStep ==
  ASSUME IInv, NEW k \in Keys, NEW v \in BgType, BgOK(k, v, owner, order), bg' = [bg EXCEPT ![k] = v],
         PlansOK(plan', outcome, owner, order),
         UNCHANGED <<past, outcome, nextKey, owner, order, flow, pass, crashes>>
  PROVE  IInv'
<1>1. BgsOK([bg EXCEPT ![k] = v], owner, order) BY MoveBg DEF IInv
<1> QED BY <1>1 DEF IInv

\* BgTick() goes on or gives up, and BgFails() gives up.
LEMMA BgTickInv ==
  ASSUME IInv, NEW k \in Keys, BgTick(k) \/ BgFails(k) PROVE IInv'
<1> DEFINE v == [bg[k] EXCEPT !.pc = "read"]
<1>1. /\ bg[k].pc # "off"
      /\ bg' = [bg EXCEPT ![k] = v] \/ bg' = [bg EXCEPT ![k] = BgOff]
      /\ UNCHANGED <<plan, past, outcome, nextKey, owner, order, flow, pass, crashes>>
  BY DEF BgTick, BgFails
<1>2. v \in BgType /\ BgOK(k, v, owner, order) BY <1>1, BgFacts DEF BgType, BgOK
<1> HIDE DEF v
<1>3. PlansOK(plan', outcome, owner, order) BY <1>1 DEF IInv
<1> QED BY <1>1, <1>2, <1>3, BgOffOK, BgStep

\* BgRead() keeps what it found for the write.
LEMMA BgReadInv ==
  ASSUME IInv, NEW k \in Keys, BgRead(k) PROVE IInv'
<1>1. bg[k].pc = "read" /\ UNCHANGED <<plan, past, outcome, nextKey, owner, flow, pass, crashes>>
  BY DEF BgRead
<1>2. bg[k] \in BgType /\ owner[k] \in Plans /\ BgOK(k, bg[k], owner, order) BY <1>1, BgFacts
<1> DEFINE Goes(ev, v) == \/ ev # NoEvidence /\ v = [bg[k] EXCEPT !.pc = "write", !.ev = ev]
                          \/ /\ ev = NoEvidence /\ bg[k].attempt < Attempts
                             /\ v = [bg[k] EXCEPT !.pc = "tick", !.attempt = bg[k].attempt + 1]
                          \/ v = [bg[k] EXCEPT !.pc = "history"]
<1> PICK read \in LiveReads : \E ev \in LiveEvidence(owner[k], read.view) :
       /\ order' = read.order
       /\ bg' = [bg EXCEPT ![k] =
                   CASE ev # NoEvidence         -> [@ EXCEPT !.pc = "write", !.ev = ev]
                     [] ev = NoEvidence /\ bg[k].attempt < Attempts
                                                -> [@ EXCEPT !.pc = "tick", !.attempt = bg[k].attempt + 1]
                     [] OTHER                   -> [@ EXCEPT !.pc = "history"]]
  BY DEF BgRead
<1> PICK ev \in LiveEvidence(owner[k], read.view) :
       /\ order' = read.order
       /\ bg' = [bg EXCEPT ![k] =
                   CASE ev # NoEvidence         -> [@ EXCEPT !.pc = "write", !.ev = ev]
                     [] ev = NoEvidence /\ bg[k].attempt < Attempts
                                                -> [@ EXCEPT !.pc = "tick", !.attempt = bg[k].attempt + 1]
                     [] OTHER                   -> [@ EXCEPT !.pc = "history"]]
  OBVIOUS
<1>3. PICK v : Goes(ev, v) /\ bg' = [bg EXCEPT ![k] = v]
  <2>1. CASE ev # NoEvidence
    <3>1. bg' = [bg EXCEPT ![k] = [bg[k] EXCEPT !.pc = "write", !.ev = ev]] BY <2>1
    <3> QED BY <2>1, <3>1
  <2>2. CASE ev = NoEvidence /\ bg[k].attempt < Attempts
    <3>1. bg' = [bg EXCEPT ![k] = [bg[k] EXCEPT !.pc = "tick", !.attempt = bg[k].attempt + 1]] 
      BY <1>2, <2>2, BoundsAssumption DEF BgType
    <3> QED BY <2>2, <3>1
  <2>3. CASE ev = NoEvidence /\ ~(bg[k].attempt < Attempts)
    <3>1. bg' = [bg EXCEPT ![k] = [bg[k] EXCEPT !.pc = "history"]] BY <2>3
    <3> QED BY <2>3, <3>1
  <2> QED BY <2>1, <2>2, <2>3
<1>4. /\ KeysOK(owner, read.order, nextKey) /\ Grow(owner, order, owner, read.order)
      /\ \A j \in Keys : order[j] = "none" => read.order[j] = "none"
      /\ ev \in Evidence /\ EvidenceOK(owner[k], ev, owner, read.order)
  <2>1. KeysOK(owner, order, nextKey) BY DEF IInv
  <2>2. /\ KeysOK(owner, read.order, nextKey) /\ Grow(owner, order, owner, read.order)
        /\ \A j \in Keys : order[j] = "none" => read.order[j] = "none"
        /\ read.view \in ViewType
        /\ \A j \in read.view.orders : AcceptedIn(read.order, j)
        /\ \A j \in read.view.positions : FilledIn(read.order, j)
    BY <2>1, ReadKeeps
  <2> QED BY <1>2, <2>2, LiveIsEvidence
<1>5. v \in BgType /\ BgOK(k, v, owner, read.order)
  <2>1. EvidenceOK(owner[k], bg[k].ev, owner, read.order) BY <1>2, <1>4, EvidenceKeeps DEF BgOK
  <2>2. /\ bg[k].attempt < Attempts => bg[k].attempt + 1 \in 0 .. Attempts
        /\ bg[k].ev \in Evidence
    BY <1>2, BoundsAssumption DEF BgType
  <2>3. CASE ev # NoEvidence /\ v = [bg[k] EXCEPT !.pc = "write", !.ev = ev]
    BY <1>2, <1>4, <2>3 DEF BgType, BgOK
  <2>4. CASE bg[k].attempt < Attempts /\ v = [bg[k] EXCEPT !.pc = "tick", !.attempt = bg[k].attempt + 1]
    BY <1>2, <2>1, <2>2, <2>4 DEF BgType, BgOK
  <2>5. CASE v = [bg[k] EXCEPT !.pc = "history"]
    BY <1>2, <2>1, <2>5 DEF BgType, BgOK
  <2> QED BY <1>3, <2>3, <2>4, <2>5
<1>6. BgsOK([bg EXCEPT ![k] = v], owner, read.order) BY <1>4, <1>5, OrderMoves, MoveBg
<1> QED BY <1>1, <1>3, <1>4, <1>6, OrderMoves DEF IInv

\* BgHistory() looks at the history at last.
LEMMA BgHistoryInv ==
  ASSUME IInv, NEW k \in Keys, BgHistory(k) PROVE IInv'
<1>1. bg[k].pc = "history" /\ UNCHANGED <<plan, past, outcome, nextKey, owner, order, flow, pass, crashes>>
  BY DEF BgHistory
<1>2. bg[k] \in BgType /\ owner[k] \in Plans /\ bg \in [Keys -> BgType]
  BY <1>1, BgFacts DEF IInv, BgsOK
<1> PICK ev \in HistoryEvidence(owner[k]) : bg' = [bg EXCEPT ![k].pc = "write", ![k].ev = ev]
  BY DEF BgHistory
<1> DEFINE v == [bg[k] EXCEPT !.pc = "write", !.ev = ev]
<1>3. ev \in Evidence /\ EvidenceOK(owner[k], ev, owner, order) BY <1>2, HistoryIsEvidence
<1>4. v \in BgType /\ BgOK(k, v, owner, order) BY <1>2, <1>3 DEF BgType, BgOK
<1>5. bg' = [bg EXCEPT ![k] = v] BY <1>2
<1> HIDE DEF v
<1>6. PlansOK(plan', outcome, owner, order) BY <1>1 DEF IInv
<1> QED BY <1>1, <1>4, <1>5, <1>6, BgStep

\* BgWrite() writes it, or that the order was not confirmed.
LEMMA BgWriteInv ==
  ASSUME IInv, NEW k \in Keys, BgWrite(k) PROVE IInv'
<1> DEFINE p == owner[k]  ev == bg[k].ev
           new == IF ev # NoEvidence THEN rowOf(ev) ELSE failed("PENDING_ORDER_NOT_CONFIRMED")
           row == whenSubmitting(plan[p], new)
<1>1. /\ bg[k].pc = "write" /\ plan' = [plan EXCEPT ![p] = row] /\ bg' = [bg EXCEPT ![k] = BgOff]
      /\ UNCHANGED <<past, outcome, nextKey, owner, order, flow, pass, crashes>>
  BY DEF BgWrite
<1>2. p \in Plans /\ EvidenceOK(p, ev, owner, order) BY <1>1, BgFacts DEF BgOK
<1>3. PlansOK(plan, outcome, owner, order) /\ PlanOK(p, plan[p], outcome[p], owner, order)
  BY <1>2 DEF IInv, PlansOK
<1>4. PlanOK(p, new, outcome[p], owner, order)
  <2>1. PlanOK(p, failed("PENDING_ORDER_NOT_CONFIRMED"), outcome[p], owner, order)
    BY DEF PlanOK, failed, Unlocked, RowType, PlanStatus, Reasons, Tickets, NoTicket
  <2>2. ev # NoEvidence => PlanOK(p, rowOf(ev), outcome[p], owner, order) BY <1>2, EvidenceRow
  <2> QED BY <2>1, <2>2
<1> HIDE DEF new
<1>5. PlanOK(p, row, outcome[p], owner, order) BY <1>3, <1>4, ConditionalRow
<1> HIDE DEF row
<1>6. PlansOK(plan', outcome, owner, order) BY <1>1, <1>2, <1>3, <1>5, WriteRow
<1> QED BY <1>1, <1>6, BgOffOK, BgStep

\* A timer chain does something.
LEMMA BackgroundInv ==
  ASSUME IInv, NEW k \in Keys, Background(k) PROVE IInv'
BY BgTickInv, BgReadInv, BgHistoryInv, BgWriteInv DEF Background

-----------------------------------------------------------------------------
(* Ticks of the watcher.                                                   *)

\* What the invariant says of one tick.
LEMMA PassFacts ==
  ASSUME IInv, NEW r \in Passes
  PROVE  /\ PassOK(pass[r], order) /\ pass[r] \in PassType
         /\ pass[r].rows \subseteq PickType /\ pass[r].view \in ViewType
BY DEF IInv, PassesOK, PassOK, PassType

\* One tick moves and may have written the rows; MT5 does nothing.
LEMMA PassStep ==
  ASSUME IInv, NEW r \in Passes, NEW v, PassOK(v, order), pass' = [pass EXCEPT ![r] = v],
         PlansOK(plan', outcome, owner, order),
         UNCHANGED <<past, outcome, nextKey, owner, order, flow, bg, crashes>>
  PROVE  IInv'
<1>1. PassesOK([pass EXCEPT ![r] = v], order) BY MovePass DEF IInv
<1> QED BY <1>1 DEF IInv

\* The same, of a tick that writes the row of a plan.
LEMMA PassWrites ==
  ASSUME IInv, NEW r \in Passes, NEW v, PassOK(v, order), pass' = [pass EXCEPT ![r] = v],
         NEW p \in Plans, NEW row, PlanOK(p, row, outcome[p], owner, order), plan' = [plan EXCEPT ![p] = row],
         UNCHANGED <<past, outcome, nextKey, owner, order, flow, bg, crashes>>
  PROVE  IInv'
<1>1. PlansOK(plan', outcome, owner, order) BY WriteRow DEF IInv
<1> QED BY <1>1, PassStep

\* One tick moves while an order does.
LEMMA PassMoves ==
  ASSUME IInv, NEW or, Grow(owner, order, owner, or), KeysOK(owner, or, nextKey),
         \A k \in Keys : order[k] = "none" => or[k] = "none",
         NEW r \in Passes, NEW v, PassOK(v, or), order' = or, pass' = [pass EXCEPT ![r] = v],
         UNCHANGED <<plan, past, outcome, nextKey, owner, flow, bg, crashes>>
  PROVE  IInv'
<1>1. /\ PlansOK(plan, outcome, owner, or) /\ OutcomesOK(outcome, owner, or)
      /\ BgsOK(bg, owner, or) /\ PassesOK(pass, or) /\ FlowsOK(flow, owner, or, nextKey)
  BY OrderMoves
<1>2. PassesOK([pass EXCEPT ![r] = v], or) BY <1>1, MovePass
<1> QED BY <1>1, <1>2 DEF IInv

\* A tick that has just begun, or a part of one, has listed nothing.
LEMMA FreshPassOK ==
  ASSUME NEW or, NEW rows \in SUBSET PickType,
         NEW pc \in {"idle", "stuck", "stuckread", "placed", "placedread", "sync"}
  PROVE  PassOK([IdlePass EXCEPT !.rows = rows, !.pc = pc], or) /\ PassOK([IdlePass EXCEPT !.pc = pc], or)
         /\ PassOK(IdlePass, or)
<1> HIDE DEF PickType, NoPick
<1> QED BY DEF PassOK, IdlePass, PassType, PassPc, ViewType, NoView

\* A tick goes on with what it has listed.
LEMMA FurtherPassOK ==
  ASSUME NEW v, NEW or, PassOK(v, or), NEW pc \in PassPc,
         pc \in {"cancel", "cancelled"} => v.pc \in {"cancel", "cancelled"}
  PROVE  PassOK([v EXCEPT !.pc = pc], or)
BY DEF PassOK, PassType

\* A tick that is done with a row keeps the others.
LEMMA DoneOK ==
  ASSUME NEW r, NEW or, PassOK(pass[r], or), NEW row, NEW next \in {StuckLoop, PlacedLoop}
  PROVE  PassOK(Done(r, row, next), or)
<1> DEFINE pc == IF pass[r].rows \ {row} = {} THEN next[2] ELSE next[1]
           v  == [pass[r] EXCEPT !.rows = @ \ {row}, !.cur = NoPick, !.pc = pc]
<1>1. pc \in PassPc \ {"cancel", "cancelled"} BY DEF StuckLoop, PlacedLoop, PassPc
<1>2. Done(r, row, next) = v BY DEF Done
<1> HIDE DEF pc, NoPick, PickType, ViewType
<1>3. PassOK(v, or) BY <1>1 DEF PassOK, PassType
<1> QED BY <1>2, <1>3

\* ExpireUnapprovedPlans() and SyncClosedPlans() write every row at once.
LEMMA AllRowsInv ==
  ASSUME IInv, NEW r \in Passes, ExpireUnapprovedPlans(r) \/ SyncClosedPlans(r) PROVE IInv'
<1> DEFINE v == [pass[r] EXCEPT !.pc = "stuck"]
<1>1. /\ pass' = [pass EXCEPT ![r] = v] \/ pass' = [pass EXCEPT ![r] = IdlePass]
      /\ UNCHANGED <<past, outcome, nextKey, owner, order, flow, bg, crashes>>
  BY DEF ExpireUnapprovedPlans, SyncClosedPlans
<1>2. PassOK(v, order) /\ PassOK(IdlePass, order)
  BY PassFacts, FurtherPassOK, FreshPassOK DEF PassPc
<1>3. PlansOK(plan', outcome, owner, order)
  <2>1. /\ PlansOK(plan, outcome, owner, order) /\ OutcomesOK(outcome, owner, order)
        /\ past \in [Plans -> BOOLEAN]
    BY DEF IInv
  <2>2. \A p \in Plans : /\ PlanOK(p, expireUnapproved(plan[p], past[p]), outcome[p], owner, order)
                         /\ PlanOK(p, syncClosed(plan[p], outcome[p].state), outcome[p], owner, order)
    BY <2>1, TickRow DEF PlansOK, OutcomesOK
  <2>3. \/ plan' = [p \in Plans |-> expireUnapproved(plan[p], past[p])]
        \/ plan' = [p \in Plans |-> syncClosed(plan[p], outcome[p].state)]
    BY DEF ExpireUnapprovedPlans, SyncClosedPlans
  <2> QED BY <2>2, <2>3 DEF PlansOK, PlanOK
<1> HIDE DEF v
<1> QED BY <1>1, <1>2, <1>3, PassStep

\* SelectStuck() and SelectPlaced() list rows.
LEMMA SelectInv ==
  ASSUME IInv, NEW r \in Passes, SelectStuck(r) \/ SelectPlaced(r) PROVE IInv'
<1>1. PICK rows \in SUBSET PickType, pc \in {"stuckread", "placed", "placedread", "sync"} :
        pass' = [pass EXCEPT ![r] = [IdlePass EXCEPT !.rows = rows, !.pc = pc]]
  <2>1. \A p \in Plans : plan[p].ticket \in Tickets BY DEF IInv, PlansOK, PlanOK, RowType
  <2>2. CASE SelectStuck(r)
    <3> DEFINE rows == {[plan |-> p, ticket |-> NoTicket] : p \in {q \in Plans : Submitting(q) /\ plan[q].aged}}
    <3>1. rows \in SUBSET PickType BY DEF PickType, Tickets
    <3>2. pass' = [pass EXCEPT ![r] = [IdlePass EXCEPT !.rows = rows,
                                    !.pc = IF rows = {} THEN "placed" ELSE "stuckread"]]
      BY <2>2 DEF SelectStuck
    <3> HIDE DEF rows
    <3> QED BY <3>1, <3>2
  <2>3. CASE SelectPlaced(r)
    <3> DEFINE rows == {[plan |-> p, ticket |-> plan[p].ticket] :
                          p \in {q \in Plans : plan[q].status = "PENDING_ORDER_PLACED"}}
    <3>1. rows \in SUBSET PickType BY <2>1 DEF PickType
    <3>2. pass' = [pass EXCEPT ![r] = [IdlePass EXCEPT !.rows = rows,
                                    !.pc = IF rows = {} THEN "sync" ELSE "placedread"]]
      BY <2>3 DEF SelectPlaced
    <3> HIDE DEF rows
    <3> QED BY <3>1, <3>2
  <2> QED BY <2>2, <2>3
<1> DEFINE v == [IdlePass EXCEPT !.rows = rows, !.pc = pc]
<1>2. PassOK(v, order) BY FreshPassOK
<1>3. UNCHANGED <<plan, past, outcome, nextKey, owner, order, flow, bg, crashes>>
  BY DEF SelectStuck, SelectPlaced
<1>4. PlansOK(plan', outcome, owner, order) BY <1>3 DEF IInv
<1>5. pass' = [pass EXCEPT ![r] = v] BY <1>1
<1> HIDE DEF v
<1> QED BY <1>2, <1>3, <1>4, <1>5, PassStep

\* StuckRead() and PlacedRead() list what MT5 has.
LEMMA ListInv ==
  ASSUME IInv, NEW r \in Passes, StuckRead(r) \/ PlacedRead(r) PROVE IInv'
<1>1. UNCHANGED <<plan, past, outcome, nextKey, owner, flow, bg, crashes>>
  BY DEF StuckRead, PlacedRead
<1>2. \/ \E read \in LiveReads, pc \in {"stuckrows", "placedrows"} :
           order' = read.order /\ pass' = [pass EXCEPT ![r].view = read.view, ![r].pc = pc]
      \/ order' = order /\ pass' = [pass EXCEPT ![r] = [IdlePass EXCEPT !.pc = "sync"]]
  <2> HIDE DEF EmptyReads
  <2> QED BY DEF StuckRead, PlacedRead, LiveReads
<1>3. CASE order' = order /\ pass' = [pass EXCEPT ![r] = [IdlePass EXCEPT !.pc = "sync"]]
  <2> DEFINE v == [IdlePass EXCEPT !.pc = "sync"]
  <2>1. PassOK(v, order) BY FreshPassOK
  <2>2. PlansOK(plan', outcome, owner, order) BY <1>1 DEF IInv
  <2>3. pass' = [pass EXCEPT ![r] = v] BY <1>3
  <2> HIDE DEF v
  <2> QED BY <1>1, <1>3, <2>1, <2>2, <2>3, PassStep
<1>4. ASSUME NEW read \in LiveReads, NEW pc \in {"stuckrows", "placedrows"},
             order' = read.order, pass' = [pass EXCEPT ![r].view = read.view, ![r].pc = pc]
      PROVE  IInv'
  <2>1. KeysOK(owner, order, nextKey) /\ pass \in [Passes -> PassType] BY DEF IInv, PassesOK
  <2>2. /\ KeysOK(owner, read.order, nextKey) /\ Grow(owner, order, owner, read.order)
        /\ \A k \in Keys : order[k] = "none" => read.order[k] = "none"
        /\ read.view \in ViewType
        /\ \A k \in read.view.orders : AcceptedIn(read.order, k)
        /\ \A k \in read.view.positions : FilledIn(read.order, k)
    BY <2>1, ReadKeeps
  <2> DEFINE v == [pass[r] EXCEPT !.view = read.view, !.pc = pc]
  <2>3. PassOK(v, read.order) BY <2>2, PassFacts DEF PassOK, PassType, PassPc
  <2>4. pass' = [pass EXCEPT ![r] = v] BY <1>4, <2>1
  <2> HIDE DEF v
  <2> QED BY <1>1, <1>4, <2>2, <2>3, <2>4, PassMoves
<1> QED BY <1>2, <1>3, <1>4

\* A row that a tick has listed is of a plan.
LEMMA ListedRow ==
  ASSUME IInv, NEW r \in Passes, NEW row, row \in pass[r].rows \/ (row = pass[r].cur /\ row \in PickType)
  PROVE  row.plan \in Plans /\ row.ticket \in Tickets
         /\ PlanOK(row.plan, plan[row.plan], outcome[row.plan], owner, order)
<1>1. row \in PickType BY PassFacts
<1>2. row.plan \in Plans /\ row.ticket \in Tickets BY <1>1 DEF PickType
<1> QED BY <1>2 DEF IInv, PlansOK

\* StuckRow() adopts what it has listed, or releases the plan.
LEMMA StuckRowInv ==
  ASSUME IInv, NEW r \in Passes, StuckRow(r) PROVE IInv'
<1> PICK row \in pass[r].rows : \E ev \in LiveEvidence(row.plan, pass[r].view) :
       /\ plan' = [plan EXCEPT ![row.plan] = IF ev = NoEvidence THEN released ELSE rowOf(ev)]
       /\ pass' = [pass EXCEPT ![r] = Done(r, row, StuckLoop)]
  BY DEF StuckRow
<1> PICK ev \in LiveEvidence(row.plan, pass[r].view) :
       /\ plan' = [plan EXCEPT ![row.plan] = IF ev = NoEvidence THEN released ELSE rowOf(ev)]
       /\ pass' = [pass EXCEPT ![r] = Done(r, row, StuckLoop)]
  OBVIOUS
<1> DEFINE p   == row.plan
           new == IF ev = NoEvidence THEN released ELSE rowOf(ev)
           v   == Done(r, row, StuckLoop)
<1>1. p \in Plans BY ListedRow
<1>2. EvidenceOK(p, ev, owner, order)
  <2>1. /\ pass[r].view \in ViewType
        /\ \A k \in pass[r].view.orders : AcceptedIn(order, k)
        /\ \A k \in pass[r].view.positions : FilledIn(order, k)
    BY PassFacts DEF PassOK
  <2> QED BY <1>1, <2>1, LiveIsEvidence
<1>3. PlanOK(p, new, outcome[p], owner, order) BY <1>2, EvidenceRow, FixedRows
<1>4. PassOK(v, order) BY PassFacts, DoneOK
<1>5. plan' = [plan EXCEPT ![p] = new] /\ pass' = [pass EXCEPT ![r] = v] OBVIOUS
<1> HIDE DEF new, v, p
<1> QED BY <1>1, <1>3, <1>4, <1>5, PassWrites DEF StuckRow

\* StillPending(), CancelExpiredFails() and PassFails() write nothing.
LEMMA QuietInv ==
  ASSUME IInv, NEW r \in Passes, StillPending(r) \/ CancelExpiredFails(r) \/ PassFails(r) PROVE IInv'
<1>1. \A row : PassOK(Done(r, row, PlacedLoop), order) BY PassFacts, DoneOK
<1>2. \A pc \in {"stuck", "placed", "sync"} : PassOK([IdlePass EXCEPT !.pc = pc], order)
  BY FreshPassOK
<1>3. PassOK(IdlePass, order) BY FreshPassOK
<1>4. \/ \E row : pass' = [pass EXCEPT ![r] = Done(r, row, PlacedLoop)]
      \/ \E pc \in {"stuck", "placed", "sync"} : pass' = [pass EXCEPT ![r] = [IdlePass EXCEPT !.pc = pc]]
      \/ pass' = [pass EXCEPT ![r] = IdlePass]
  <2>1. CASE StillPending(r) BY <2>1 DEF StillPending
  <2>2. CASE CancelExpiredFails(r) BY <2>2 DEF CancelExpiredFails
  <2>3. CASE PassFails(r)
    <3>1. CASE pass[r].pc = "cancelled" BY <2>3, <3>1 DEF PassFails
    <3>2. CASE pass[r].pc = "idle" BY <2>3, <3>2 DEF PassFails
    <3>3. CASE pass[r].pc \in {"stuck", "stuckread", "stuckrows"} BY <2>3, <3>3 DEF PassFails
    <3>4. CASE pass[r].pc = "sync" BY <2>3, <3>4 DEF PassFails
    <3>5. CASE pass[r].pc \notin {"cancelled", "idle", "stuck", "stuckread", "stuckrows", "sync"}
      BY <2>3, <3>5 DEF PassFails
    <3> QED BY <3>1, <3>2, <3>3, <3>4, <3>5
  <2> QED BY <2>1, <2>2, <2>3
<1>5. PICK v : PassOK(v, order) /\ pass' = [pass EXCEPT ![r] = v] BY <1>1, <1>2, <1>3, <1>4
<1>6. UNCHANGED <<plan, past, outcome, nextKey, owner, order, flow, bg, crashes>>
  BY DEF StillPending, CancelExpiredFails, PassFails
<1>7. PlansOK(plan', outcome, owner, order) BY <1>6 DEF IInv
<1> QED BY <1>5, <1>6, <1>7, PassStep

\* PickExpired() turns to an order to cancel.
LEMMA PickExpiredInv ==
  ASSUME IInv, NEW r \in Passes, PickExpired(r) PROVE IInv'
<1> PICK row \in pass[r].rows : pass' = [pass EXCEPT ![r].cur = row, ![r].pc = "cancel"]
  BY DEF PickExpired
<1> DEFINE v == [pass[r] EXCEPT !.cur = row, !.pc = "cancel"]
<1>1. row \in PickType /\ pass \in [Passes -> PassType] BY PassFacts DEF IInv, PassesOK
<1>2. PassOK(v, order)
  <2> HIDE DEF PickType, ViewType
  <2> QED BY <1>1, PassFacts DEF PassOK, PassType, PassPc
<1>3. pass' = [pass EXCEPT ![r] = v] BY <1>1
<1>4. PlansOK(plan', outcome, owner, order) BY DEF IInv, PickExpired
<1> HIDE DEF v
<1> QED BY <1>2, <1>3, <1>4, PassStep DEF PickExpired

\* CancelExpired() cancels at MT5 and may lose the answer.
LEMMA CancelExpiredInv ==
  ASSUME IInv, NEW r \in Passes, CancelExpired(r) PROVE IInv'
<1> DEFINE k  == pass[r].cur.ticket
           or == [order EXCEPT ![k] = "cancelled"]
           v  == [pass[r] EXCEPT !.pc = "cancelled"]
           w  == Done(r, pass[r].cur, PlacedLoop)
<1>1. /\ pass[r].pc = "cancel" /\ order[k] = "pending" /\ order' = or
      /\ pass' = [pass EXCEPT ![r] = v] \/ pass' = [pass EXCEPT ![r] = w]
      /\ UNCHANGED <<plan, past, outcome, nextKey, owner, flow, bg, crashes>>
  BY DEF CancelExpired
<1>2. KeysOK(owner, order, nextKey) /\ order \in [Keys -> OrderState] BY DEF IInv, KeysOK
<1>3. /\ Grow(owner, order, owner, or) /\ KeysOK(owner, or, nextKey)
      /\ \A j \in Keys : order[j] = "none" => or[j] = "none"
  <2>1. CASE k \in Keys
    <3>1. "cancelled" \in OrderState \ {"none"} /\ "cancelled" \in Accepted BY DEF OrderState, Accepted
    <3>2. order[k] # "none" /\ ~Filled(k) BY <1>1 DEF Filled
    <3> HIDE DEF k
    <3> QED BY <2>1, <3>1, <3>2, OrderGrows
  <2>2. CASE k \notin Keys
    <3>1. or = order BY <1>2, <2>2
    <3> QED BY <1>2, <3>1, StillGrows
  <2> QED BY <2>1, <2>2
<1> HIDE DEF or
<1>4. PassOK(pass[r], or) BY <1>3, PassesKeep DEF IInv, PassesOK
<1>5. PassOK(v, or) BY <1>1, <1>4, FurtherPassOK DEF PassPc
<1>6. PassOK(w, or) BY <1>4, DoneOK
<1> HIDE DEF v, w
<1> QED BY <1>1, <1>3, <1>5, <1>6, PassMoves

\* ExpirePlaced() and NoLongerPending() end a placed plan.
LEMMA EndPlacedInv ==
  ASSUME IInv, NEW r \in Passes, ExpirePlaced(r) \/ NoLongerPending(r) PROVE IInv'
<1> DEFINE Ends(row, s) ==
             /\ row \in pass[r].rows \/ (row = pass[r].cur /\ row \in PickType)
             /\ plan' = [plan EXCEPT ![row.plan] = whenPlaced(@, Unlocked(s))]
             /\ pass' = [pass EXCEPT ![r] = Done(r, row, PlacedLoop)]
<1> PICK s \in {"PLAN_EXPIRED", "ORDER_CANCELLED"} : \E row : Ends(row, s)
  <2>1. CASE ExpirePlaced(r)
    <3>1. pass[r].pc = "cancelled" BY <2>1 DEF ExpirePlaced
    <3>2. pass[r].cur \in PickType BY <3>1, PassFacts DEF PassOK
    <3>3. Ends(pass[r].cur, "PLAN_EXPIRED") BY <2>1, <3>2 DEF ExpirePlaced
    <3> QED BY <3>3
  <2>2. CASE NoLongerPending(r)
    <3>1. PICK row \in pass[r].rows : Ends(row, "ORDER_CANCELLED") BY <2>2 DEF NoLongerPending
    <3> QED BY <3>1
  <2> QED BY <2>1, <2>2
<1>1. PICK row : Ends(row, s) OBVIOUS
<1> DEFINE p   == row.plan
           new == whenPlaced(plan[p], Unlocked(s))
           v   == Done(r, row, PlacedLoop)
<1>2. p \in Plans /\ PlanOK(p, plan[p], outcome[p], owner, order) BY <1>1, ListedRow
<1>3. PlanOK(p, new, outcome[p], owner, order)
  <2>1. PlanOK(p, Unlocked(s), outcome[p], owner, order)
    BY PlainRow DEF PlanStatus, Reasons
  <2> QED BY <1>2, <2>1, ConditionalRow
<1>4. PassOK(v, order) BY PassFacts, DoneOK
<1>5. plan' = [plan EXCEPT ![p] = new] /\ pass' = [pass EXCEPT ![r] = v] BY <1>1
<1>6. UNCHANGED <<past, outcome, nextKey, owner, order, flow, bg, crashes>>
  BY DEF ExpirePlaced, NoLongerPending
<1> HIDE DEF new, v, p
<1> QED BY <1>2, <1>3, <1>4, <1>5, <1>6, PassWrites

\* Triggered() records the position it has listed.
LEMMA TriggeredInv ==
  ASSUME IInv, NEW r \in Passes, Triggered(r) PROVE IInv'
<1> DEFINE Records(p, k, v) ==
             /\ owner[k] = p /\ FilledIn(order, k) /\ PassOK(v, order)
             /\ outcome' = [outcome EXCEPT ![p] = insertOutcome(@, k)]
             /\ plan' = [plan EXCEPT ![p] = whenPlaced(@, opened)]
             /\ pass' = [pass EXCEPT ![r] = v]
<1>0. PICK p \in Plans, k \in Keys : \E v : Records(p, k, v)
  <2>1. PICK row \in pass[r].rows, k \in Keys :
          /\ k \in pass[r].view.positions /\ owner[k] = row.plan
          /\ outcome' = [outcome EXCEPT ![row.plan] = insertOutcome(@, k)]
          /\ plan' = [plan EXCEPT ![row.plan] = whenPlaced(@, opened)]
          /\ pass' = [pass EXCEPT ![r] = Done(r, row, PlacedLoop)]
    <3>1. pass[r].view.positions \subseteq Keys BY PassFacts DEF ViewType
    <3> QED BY <3>1 DEF Triggered
  <2>2. row.plan \in Plans BY ListedRow
  <2>3. FilledIn(order, k) BY <2>1, PassFacts DEF PassOK
  <2>4. PassOK(Done(r, row, PlacedLoop), order) BY PassFacts, DoneOK
  <2>5. Records(row.plan, k, Done(r, row, PlacedLoop)) BY <2>1, <2>3, <2>4
  <2> QED BY <2>2, <2>5
<1>1. PICK v : Records(p, k, v) BY <1>0
<1> DEFINE new == whenPlaced(plan[p], opened)
           rec == insertOutcome(outcome[p], k)
<1>2. outcome' = [outcome EXCEPT ![p] = rec] /\ plan' = [plan EXCEPT ![p] = new] BY <1>1
<1>3. UNCHANGED <<past, nextKey, owner, order, flow, bg, crashes>> BY DEF Triggered
<1>4. OutcomesOK(outcome, owner, order) /\ PlansOK(plan, outcome, owner, order) BY DEF IInv
<1>5. rec = insertOutcome(outcome[p], k) OBVIOUS
<1> HIDE DEF rec
<1>6. /\ OutcomesOK([outcome EXCEPT ![p] = rec], owner, order)
      /\ \A q \in Plans : outcome[q].state = "closed" => [outcome EXCEPT ![p] = rec][q].state = "closed"
  <2>1. owner[k] = p /\ FilledIn(order, k) /\ k \in Tickets BY <1>1 DEF Tickets
  <2>2. OutcomeOK(p, [state |-> "open", ticket |-> k], owner, order)
    BY <1>1, <2>1 DEF OutcomeOK, Names
  <2> QED BY <1>4, <1>5, <2>1, <2>2, InsertRecord
<1>7. OutcomesOK(outcome', owner, order)
      /\ \A q \in Plans : outcome[q].state = "closed" => outcome'[q].state = "closed"
  BY <1>2, <1>6
<1>8. PlansOK(plan', outcome', owner, order)
  <2>1. PlansOK(plan, outcome', owner, order) BY <1>4, <1>7, PlansOfRecords
  <2>2. PlanOK(p, plan[p], outcome'[p], owner, order) BY <1>1, <2>1 DEF PlansOK
  <2>3. PlanOK(p, opened, outcome'[p], owner, order) BY FixedRows
  <2>4. PlanOK(p, new, outcome'[p], owner, order) BY <2>2, <2>3, ConditionalRow
  <2> HIDE DEF new
  <2> QED BY <1>2, <2>1, <2>4, WriteRow
<1>9. PassesOK(pass', order) BY <1>1, MovePass DEF IInv
<1> QED BY <1>3, <1>7, <1>8, <1>9 DEF IInv

\* A tick does something.
LEMMA TickInv ==
  ASSUME IInv, NEW r \in Passes, Tick(r) PROVE IInv'
BY AllRowsInv, SelectInv, ListInv, StuckRowInv, QuietInv, PickExpiredInv, CancelExpiredInv, EndPlacedInv,
   TriggeredInv DEF Tick

-----------------------------------------------------------------------------
(* The rest of the world.                                                  *)

\* SavePlan(), Deadline() and GraceElapses() touch no order.
LEMMA ClockInv ==
  ASSUME IInv, NEW p \in Plans, SavePlan(p) \/ Deadline(p) \/ GraceElapses(p) PROVE IInv'
<1>1. PlansOK(plan, outcome, owner, order) /\ plan \in [Plans -> RowType]
      /\ PlanOK(p, plan[p], outcome[p], owner, order)
  BY DEF IInv, PlansOK
<1>2. CASE SavePlan(p)
  <2>1. PICK s \in {"WAITING_FOR_APPROVAL", "RISK_BLOCKED"} : plan' = [plan EXCEPT ![p] = Unlocked(s)]
    BY <1>2 DEF SavePlan
  <2>2. PlanOK(p, Unlocked(s), outcome[p], owner, order) BY PlainRow DEF PlanStatus, Reasons
  <2>3. PlansOK(plan', outcome, owner, order) BY <1>1, <2>1, <2>2, WriteRow
  <2> QED BY <1>2, <2>3 DEF SavePlan, IInv
<1>3. CASE Deadline(p)
  BY <1>3 DEF Deadline, IInv
<1>4. CASE GraceElapses(p)
  <2> DEFINE row == [plan[p] EXCEPT !.aged = TRUE]
  <2>1. PlanOK(p, row, outcome[p], owner, order) BY <1>1 DEF PlanOK, RowType
  <2>2. plan' = [plan EXCEPT ![p] = row] BY <1>4 DEF GraceElapses
  <2> HIDE DEF row
  <2>3. PlansOK(plan', outcome, owner, order) BY <1>1, <2>1, <2>2, WriteRow
  <2> QED BY <1>4, <2>3 DEF GraceElapses, IInv
<1> QED BY <1>2, <1>3, <1>4

\* ReconcileOutcome() settles a record of a trade that was real.
LEMMA ReconcileInv ==
  ASSUME IInv, NEW p \in Plans, ReconcileOutcome(p) PROVE IInv'
<1>1. PICK s \in {"closed", "failed"} : outcome' = [outcome EXCEPT ![p].state = s]
  BY DEF ReconcileOutcome
<1>2. outcome[p].state = "open" /\ UNCHANGED <<plan, past, nextKey, owner, order, flow, bg, pass, crashes>>
  BY DEF ReconcileOutcome
<1>3. /\ outcome \in [Plans -> OutcomeType] /\ \A q \in Plans : OutcomeOK(q, outcome[q], owner, order)
      /\ PlansOK(plan, outcome, owner, order)
  BY DEF IInv, OutcomesOK
<1> DEFINE rec == [outcome[p] EXCEPT !.state = s]
<1>4. rec \in OutcomeType /\ OutcomeOK(p, rec, owner, order)
  BY <1>2, <1>3 DEF OutcomeOK, OutcomeType, NoOutcome
<1>5. outcome' = [outcome EXCEPT ![p] = rec] BY <1>1
<1> HIDE DEF rec
<1>6. OutcomesOK(outcome', owner, order) BY <1>3, <1>4, <1>5 DEF OutcomesOK
<1>7. \A q \in Plans : outcome[q].state = "closed" => outcome'[q].state = "closed"
  BY <1>2, <1>3, <1>5
<1>8. PlansOK(plan, outcome', owner, order) BY <1>3, <1>7, PlansOfRecords
<1> QED BY <1>2, <1>6, <1>8 DEF IInv

\* MT5 takes an order on, or ends it.
LEMMA MarketInv ==
  ASSUME IInv, NEW k \in Keys, Accept(k) \/ Refuse(k) \/ Trigger(k) \/ BrokerCancel(k) \/ ClosePosition(k)
  PROVE  IInv'
<1>1. UNCHANGED <<plan, past, outcome, nextKey, owner, flow, bg, pass, crashes>>
  BY DEF Accept, Refuse, Trigger, BrokerCancel, ClosePosition
<1>2. PICK s \in {"open", "pending", "refused", "rejected", "cancelled", "closed"} :
        /\ order' = [order EXCEPT ![k] = s]
        /\ \/ order[k] = "inflight"
           \/ order[k] = "pending" /\ s \in {"open", "cancelled"}
           \/ order[k] = "open" /\ s = "closed"
  BY DEF Accept, Refuse, Trigger, BrokerCancel, ClosePosition
<1> DEFINE or == [order EXCEPT ![k] = s]
<1>3. /\ order[k] # "none" /\ s \in OrderState \ {"none"}
      /\ order[k] \in Accepted => s \in Accepted
      /\ Filled(k) => s \in {"open", "closed"}
  BY <1>2 DEF OrderState, Accepted, Filled
<1>4. /\ Grow(owner, order, owner, or) /\ KeysOK(owner, or, nextKey)
      /\ \A j \in Keys : order[j] = "none" => or[j] = "none"
  BY <1>3, OrderGrows
<1>5. order' = or BY <1>2
<1> HIDE DEF or
<1> QED BY <1>1, <1>4, <1>5, OrderMoves DEF IInv

\* A restart forgets what the process knew.
LEMMA CrashInv ==
  ASSUME IInv, Crash PROVE IInv'
<1>1. FlowsOK(flow', owner, order, nextKey)
  <2>1. flow' = [f \in Flows |-> IdleFlow] BY DEF Crash
  <2>2. FlowOK(IdleFlow, owner, order, nextKey) BY IdleFlowOK
  <2>3. IdleFlow.pc \notin BeforeSend BY DEF IdleFlow, BeforeSend
  <2> HIDE DEF IdleFlow
  <2> QED BY <2>1, <2>2, <2>3 DEF FlowsOK, FlowOK, Apart
<1>2. BgsOK(bg', owner, order) BY BgOffOK DEF Crash, BgsOK
<1>3. PassesOK(pass', order)
  <2>1. PassOK(IdlePass, order) BY FreshPassOK
  <2>2. IdlePass \in PassType BY <2>1 DEF PassOK
  <2> QED BY <2>1, <2>2 DEF Crash, PassesOK
<1>4. crashes' \in 0 .. MaxCrashes BY BoundsAssumption DEF Crash, IInv
<1> QED BY <1>1, <1>2, <1>3, <1>4 DEF Crash, IInv

-----------------------------------------------------------------------------
(* The theorems.                                                           *)

\* Nothing is known, listed or written at first.
LEMMA InitInv == ASSUME Init PROVE IInv
<1>1. KeysOK(owner, order, nextKey) BY BoundsAssumption DEF Init, KeysOK, OrderState, Keys
<1>2. PlansOK(plan, outcome, owner, order)
  BY DEF Init, PlansOK, PlanOK, NoRow, Unlocked, RowType, PlanStatus, Absent, Reasons, Tickets, NoTicket
<1>3. OutcomesOK(outcome, owner, order) BY DEF Init, OutcomesOK, OutcomeOK, OutcomeType, NoOutcome
<1>4. FlowsOK(flow, owner, order, nextKey)
  <2>1. flow = [f \in Flows |-> IdleFlow] BY DEF Init
  <2>2. FlowOK(IdleFlow, owner, order, nextKey) BY IdleFlowOK
  <2>3. IdleFlow.pc \notin BeforeSend BY DEF IdleFlow, BeforeSend
  <2> HIDE DEF IdleFlow
  <2> QED BY <2>1, <2>2, <2>3 DEF FlowsOK, FlowOK, Apart
<1>5. BgsOK(bg, owner, order) BY BgOffOK DEF Init, BgsOK
<1>6. PassesOK(pass, order)
  <2>1. PassOK(IdlePass, order) BY FreshPassOK
  <2>2. IdlePass \in PassType BY <2>1 DEF PassOK
  <2> QED BY <2>1, <2>2 DEF Init, PassesOK
<1>7. past \in [Plans -> BOOLEAN] /\ crashes \in 0 .. MaxCrashes BY BoundsAssumption DEF Init
<1> QED BY <1>1, <1>2, <1>3, <1>4, <1>5, <1>6, <1>7 DEF IInv

\* Every step keeps the invariant.
LEMMA NextInv == ASSUME IInv, [Next]_vars PROVE IInv'
<1>1. CASE UNCHANGED vars
  BY <1>1 DEF vars, IInv
<1>2. CASE Next
  BY <1>2, ClockInv, ReconcileInv, ClaimPlanInv, ClaimMissesInv, CancelStartInv, RequestInv, BackgroundInv,
     TickInv, MarketInv, CrashInv DEF Next
<1> QED BY <1>1, <1>2

\* The invariant holds of every behaviour.
THEOREM Invariant == Spec => []IInv
<1>1. Init => IInv BY InitInv
<1>2. IInv /\ [Next]_vars => IInv' BY NextInv
<1> QED BY <1>1, <1>2, PTL DEF Spec

\* Every variable of AiTradePlan holds values of its kind.
THEOREM TypeCorrect == Spec => []TypeOK
<1>1. IInv => TypeOK
  BY DEF IInv, TypeOK, KeysOK, PlansOK, OutcomesOK, FlowsOK, BgsOK, PassesOK
<1> QED BY <1>1, Invariant, PTL

\* Whichever of the release paths brought a plan back to
\* WAITING_FOR_APPROVAL, its execution_key is gone and it can be approved.
THEOREM WaitingApprovable == Spec => []WaitingIsApprovable
<1>1. IInv => WaitingIsApprovable
  BY DEF IInv, PlansOK, PlanOK, RowType, WaitingIsApprovable, isApprovable
<1> QED BY <1>1, Invariant, PTL

\* The ticket of a plan shown as PENDING_ORDER_PLACED is of an order of this
\* plan that MT5 did accept, whoever wrote it and however late.
THEOREM PlacedReal == Spec => []PlacedIsReal
<1>1. IInv => PlacedIsReal
  BY DEF IInv, PlansOK, PlanOK, AcceptedIn, PlacedIsReal, Names
<1> QED BY <1>1, Invariant, PTL

\* A plan is shown as POSITION_CLOSED only when its trade is closed on record.
THEOREM ClosedRecorded == Spec => []ClosedOnRecord
<1>1. IInv => ClosedOnRecord
  BY DEF IInv, PlansOK, PlanOK, ClosedOnRecord
<1> QED BY <1>1, Invariant, PTL

\* What is recorded as a trade of a plan under a ticket was filled at MT5, and
\* was sent for this plan, unless the gateway had to compare fields.  Only the
\* answer to a market order without its order number leaves a record without
\* a ticket.
THEOREM RecordedFilled ==
  Spec => [](\A p \in Plans : outcome[p].state # "none" =>
               LET k == outcome[p].ticket IN
               \/ k = NoTicket /\ "dealonly" \in Faults
               \/ Filled(k) /\ (owner[k] = p \/ "alike" \in Faults))
<1>1. IInv => \A p \in Plans : outcome[p].state # "none" =>
                LET k == outcome[p].ticket IN
                \/ k = NoTicket /\ "dealonly" \in Faults
                \/ Filled(k) /\ (owner[k] = p \/ "alike" \in Faults)
  BY DEF IInv, OutcomesOK, OutcomeOK, FilledIn, Filled, Names
<1> QED BY <1>1, Invariant, PTL

-----------------------------------------------------------------------------
(* What holds while MT5 and the database answer, MT5 leaves no refused     *)
(* order in its history, and ticks do not overlap.                         *)

Calm == Faults = {} /\ \A q, r \in Passes : q = r

Sent(k)    == order[k] \notin {"none", "refused"}
Active(k)  == order[k] \in {"inflight", "pending", "open"}
Running(k) == bg[k].pc # "off"
Fresh(p)   == Submitting(p) /\ ~plan[p].aged
Ended(k)   == order[k] \in {"closed", "cancelled"}

AfterGates == {"reads", "check"}
Cancelling == {"cancel", "cancelled"}
StuckPart  == {"stuckread", "stuckrows"}
PlacedPart == {"placedread", "placedrows", "cancel", "cancelled"}
Bound      == ActivePlan \cup {"POSITION_CLOSED", "ORDER_CANCELLED", "PLAN_EXPIRED"}

\* Of the claims of a plan one is in use: it has an order that was not refused,
\* a timer chain, or the request that made it.
SoleInv ==
  /\ \A j, k \in Keys :
       (Sent(j) \/ Running(j)) /\ (Sent(k) \/ Running(k)) /\ owner[j] = owner[k] => j = k
  /\ \A f \in Flows, k \in Keys : flow[f].pc \in Claimed /\ owner[k] = flow[f].plan =>
       ~Running(k) /\ (Sent(k) => k = flow[f].key)
  /\ \A f, g \in Flows :
       flow[f].pc \in Claimed /\ flow[g].pc \in Claimed /\ flow[f].plan = flow[g].plan => f = g

\* The row of a claim in use is at least as far as its order.
KeyRow(k) ==
  /\ order[k] # "rejected"
  /\ order[k] = "inflight" => Fresh(owner[k])
  /\ AcceptedIn(order, k) =>
       /\ plan[owner[k]].status \in Bound
       /\ Submitting(owner[k]) => Live(k)
       /\ Live(k) => plan[owner[k]].status \in ActivePlan

\* The rows and the records of trades say of MT5 what is so.
RowsInv ==
  /\ \A k \in Keys : KeyRow(k)
  /\ \A p \in Plans : plan[p].status = "POSITION_OPEN" => \E k \in Keys : owner[k] = p /\ Filled(k)
  /\ \A p \in Plans : /\ outcome[p].state # "failed"
                      /\ outcome[p].state = "closed" => order[outcome[p].ticket] = "closed"

\* A request that holds a claim still finds its row as it claimed it, until MT5
\* has accepted its order; one that cancels is past the submission.
FlowInv ==
  \A f \in Flows :
    /\ flow[f].pc \in Claimed /\ ~AcceptedIn(order, flow[f].key) => Fresh(flow[f].plan)
    /\ flow[f].pc = "await" => order[flow[f].key] # "none"
    /\ flow[f].pc \in Cancelling => ~Submitting(flow[f].plan)
    /\ flow[f].pc = "cancelled" => order[flow[f].ev.key] = "cancelled"

\* A timer chain runs for an order that was sent, and reaches its end only when
\* MT5 has decided on it.
BgInv ==
  \A k \in Keys :
    /\ Running(k) => order[k] # "none" /\ (~AcceptedIn(order, k) => Fresh(owner[k]))
    /\ bg[k].pc = "history" => order[k] = "refused" \/ Ended(k)
    /\ bg[k].pc = "write" /\ bg[k].ev = NoEvidence => order[k] \in {"refused", "cancelled"}

\* A row taken for stuck is, or has a live order, which the lists read show.
StuckRowOk(v, row) ==
  /\ row.ticket = NoTicket
  /\ (Submitting(row.plan) /\ plan[row.plan].aged) \/ \E k \in Keys : owner[k] = row.plan /\ Live(k)
  /\ \A k \in Keys : owner[k] = row.plan /\ Sent(k) =>
       Live(k) /\ (v.pc = "stuckrows" => k \in v.view.orders \cup v.view.positions)

\* A placed row names its accepted order; one not in the lists lives no more.
PlacedRowOk(v, row) ==
  /\ row.ticket \in Keys /\ owner[row.ticket] = row.plan /\ AcceptedIn(order, row.ticket)
  /\ ~Submitting(row.plan)
  /\ v.pc # "placedread" /\ row.ticket \notin v.view.orders \cup v.view.positions => ~Live(row.ticket)

PassInv ==
  \A r \in Passes :
    /\ pass[r].pc \in StuckPart => \A row \in pass[r].rows : StuckRowOk(pass[r], row)
    /\ pass[r].pc \in PlacedPart => \A row \in pass[r].rows : PlacedRowOk(pass[r], row)
    /\ pass[r].pc \in Cancelling => pass[r].cur \in pass[r].rows
    /\ pass[r].pc = "cancelled" => order[pass[r].cur.ticket] = "cancelled"

OnceInv == SoleInv /\ RowsInv /\ FlowInv /\ BgInv /\ PassInv

\* Of the plans of a symbol one is past the comparison or has an order alive.
SymbolInv ==
  /\ \A f, g \in Flows :
       flow[f].pc \in AfterGates /\ flow[g].pc \in AfterGates
         /\ SymbolOf[flow[f].plan] = SymbolOf[flow[g].plan] => f = g
  /\ \A f \in Flows, k \in Keys :
       flow[f].pc \in AfterGates /\ Active(k) => SymbolOf[owner[k]] # SymbolOf[flow[f].plan]
  /\ OneOrderPerSymbol

-----------------------------------------------------------------------------
\* Without faults the two reads show MT5 as it is.
LEMMA CalmReads ==
  ASSUME Calm, NEW read \in LiveReads \cup AnsweredReads
  PROVE  read.order = order /\ read.view = CurrentView
BY DEF Calm, LiveReads, AnsweredReads, CleanReads

\* And what the gateway takes for a plan's is what carries the plan's comment.
LEMMA CalmCandidates ==
  ASSUME Calm, NEW p, NEW c \in Candidates(p)
  PROVE  /\ c.orders = Mine(p, "pending") /\ c.positions = Mine(p, "open")
         /\ c.history = {k \in InHistory : owner[k] = p}
         /\ c.deals = {k \in {j \in Keys : Filled(j)} : owner[k] = p}
<1> DEFINE F == {j \in Keys : Filled(j)}
<1>1. \A list : Matches(p, list) = {{k \in list : owner[k] = p}} BY DEF Calm, Matches
<1>2. PICK o \in Matches(p, Holding("pending")), q \in Matches(p, Holding("open")),
           h \in Matches(p, InHistory), d \in Matches(p, F) :
        c = [orders |-> o, positions |-> q, history |-> h, deals |-> d]
  BY DEF Candidates
<1>3. c.orders = o /\ c.positions = q /\ c.history = h /\ c.deals = d BY <1>2
<1>4. o = {k \in Holding("pending") : owner[k] = p} /\ q = {k \in Holding("open") : owner[k] = p} BY <1>1
<1>5. h = {k \in InHistory : owner[k] = p} /\ d = {k \in F : owner[k] = p} BY <1>1
<1> QED BY <1>3, <1>4, <1>5 DEF Mine

\* The lists and the orders they are of.
LEMMA Shown ==
  ASSUME NEW k \in Keys
  PROVE  /\ k \in CurrentView.orders <=> order[k] = "pending"
         /\ k \in CurrentView.positions <=> order[k] = "open"
BY DEF CurrentView, Holding

\* What the invariants say of a claim that was handed out.
LEMMA Known ==
  ASSUME IInv, NEW k \in Keys
  PROVE  /\ order[k] \in OrderState
         /\ order[k] # "none" => owner[k] \in Plans
         /\ Running(k) => owner[k] \in Plans
         /\ owner[k] \in Plans \/ owner[k] = NoPlan
<1>1. KeysOK(owner, order, nextKey) /\ BgOK(k, bg[k], owner, order) BY DEF IInv, BgsOK
<1>2. k < nextKey \/ k >= nextKey BY <1>1, BoundsAssumption DEF KeysOK, Keys
<1> QED BY <1>1, <1>2 DEF KeysOK, BgOK, Running

\* What a request that has claimed its plan knows.
LEMMA ClaimFacts ==
  ASSUME IInv, NEW f \in Flows, flow[f].pc \in Claimed
  PROVE  /\ flow[f].plan \in Plans /\ flow[f].key \in Keys /\ owner[flow[f].key] = flow[f].plan
         /\ flow[f].key < nextKey
         /\ flow[f].pc \in BeforeSend => order[flow[f].key] = "none"
BY DEF IInv, FlowsOK, FlowOK, Claimed, BeforeSend

Free(p) ==
  /\ \A k \in Keys : owner[k] = p => ~Sent(k) /\ ~Running(k)
  /\ \A f \in Flows : flow[f].pc \in Claimed => flow[f].plan # p

\* A plan that was released, refused or never claimed has no order, timer or
\* request of its own.
LEMMA UnboundIsFree ==
  ASSUME IInv, OnceInv, NEW p \in Plans, plan[p].status \notin Bound
  PROVE  Free(p)
<1>1. ASSUME NEW k \in Keys, owner[k] = p PROVE ~Sent(k) /\ ~Running(k)
  <2>1. order[k] \in OrderState BY Known
  <2>2. KeyRow(k) BY DEF OnceInv, RowsInv
  <2>3. ~AcceptedIn(order, k) /\ order[k] # "inflight"
    BY <1>1, <2>2 DEF KeyRow, Fresh, Submitting, Bound, ActivePlan
  <2>4. ~Running(k)
    BY <1>1, <2>3 DEF OnceInv, BgInv, Fresh, Submitting, Bound, ActivePlan
  <2>5. order[k] # "rejected" BY <2>2 DEF KeyRow
  <2> QED BY <2>1, <2>3, <2>4, <2>5 DEF Sent, AcceptedIn, OrderState
<1>2. ASSUME NEW f \in Flows, flow[f].pc \in Claimed, flow[f].plan = p PROVE FALSE
  <2>1. flow[f].key \in Keys /\ owner[flow[f].key] = p BY <1>2, ClaimFacts
  <2>2. ~AcceptedIn(order, flow[f].key) BY <1>1, <2>1 DEF Sent, AcceptedIn
  <2> QED BY <1>2, <2>2 DEF OnceInv, FlowInv, Fresh, Submitting, Bound, ActivePlan
<1> QED BY <1>1, <1>2 DEF Free

-----------------------------------------------------------------------------
(* What a step may do to an order, to a row, to a request, to a timer.     *)

\* Reading MT5 leaves it as it is.
LEMMA ReadsOnly ==
  ASSUME Calm
  PROVE  /\ \A f \in Flows : AlreadyRead(f) \/ SweepRead(f) \/ ReadSymbol(f) => order' = order
         /\ \A k \in Keys : BgRead(k) => order' = order
         /\ \A r \in Passes : StuckRead(r) \/ PlacedRead(r) => order' = order
<1>1. \A read \in LiveReads \cup AnsweredReads : read.order = order BY CalmReads
<1> HIDE DEF LiveReads, AnsweredReads
<1>2. ASSUME NEW f \in Flows PROVE AlreadyRead(f) \/ SweepRead(f) \/ ReadSymbol(f) => order' = order
  <2>1. AlreadyRead(f) => \E read \in LiveReads : order' = read.order BY DEF AlreadyRead
  <2>2. SweepRead(f) => \E read \in LiveReads : order' = read.order BY DEF SweepRead
  <2>3. ReadSymbol(f) => \E read \in LiveReads : order' = read.order BY DEF ReadSymbol
  <2> QED BY <1>1, <2>1, <2>2, <2>3
<1>3. ASSUME NEW k \in Keys PROVE BgRead(k) => order' = order
  <2>1. BgRead(k) => \E read \in LiveReads : order' = read.order BY DEF BgRead
  <2> QED BY <1>1, <2>1
<1>4. ASSUME NEW r \in Passes PROVE StuckRead(r) \/ PlacedRead(r) => order' = order
  <2>1. StuckRead(r) => \E read \in LiveReads : order' = read.order BY DEF StuckRead
  <2>2. PlacedRead(r) => (\E read \in AnsweredReads : order' = read.order) \/ order' = order BY DEF PlacedRead
  <2> QED BY <1>1, <2>1, <2>2
<1> QED BY <1>2, <1>3, <1>4

\* Who changes an order.
LEMMA OrderFrame ==
  ASSUME Calm, [Next]_vars
  PROVE  \/ order' = order
         \/ \E f \in Flows : SendOrder(f) \/ CancelAtMt5(f)
         \/ \E r \in Passes : CancelExpired(r)
         \/ \E k \in Keys : Accept(k) \/ Refuse(k) \/ Trigger(k) \/ BrokerCancel(k) \/ ClosePosition(k)
<1> SUFFICES ASSUME Next, order' # order
             PROVE  \/ \E f \in Flows : SendOrder(f) \/ CancelAtMt5(f)
                    \/ \E r \in Passes : CancelExpired(r)
                    \/ \E k \in Keys : Accept(k) \/ Refuse(k) \/ Trigger(k) \/ BrokerCancel(k) \/ ClosePosition(k)
  BY DEF vars
<1>1. ASSUME NEW p \in Plans
      PROVE  /\ SavePlan(p) \/ Deadline(p) \/ GraceElapses(p) \/ ReconcileOutcome(p) => order' = order
             /\ \A f \in Flows : ClaimPlan(f, p) \/ ClaimMisses(f, p) \/ CancelStart(f, p) => order' = order
  BY DEF SavePlan, Deadline, GraceElapses, ReconcileOutcome, ClaimPlan, ClaimMisses, CancelStart
<1>2. ASSUME NEW f \in Flows, Request(f) PROVE order' = order \/ SendOrder(f) \/ CancelAtMt5(f)
  <2>1. Lookup(f) \/ AlreadyWrite(f) \/ SweepWrite(f) \/ ReclaimMisses(f) \/ PassExpiry(f) \/ ExpireClaimed(f)
          \/ GateRejects(f) \/ OneActivePlan(f) \/ MarketFilled(f) \/ PendingAnswer(f) \/ FilledAnswer(f)
          => order' = order
    BY DEF Lookup, AlreadyWrite, SweepWrite, ReclaimMisses, PassExpiry, ExpireClaimed, GateRejects,
           OneActivePlan, MarketFilled, PendingAnswer, FilledAnswer
  <2>2. CancelledAnswer(f) \/ AmbiguousAnswer(f) \/ NotConfirmedAnswer(f) \/ RejectedAnswer(f) \/ NoAnswer(f)
          \/ RecordPlaced(f) \/ RecordOpened(f) \/ AuditPlacement(f) \/ UnexpectedError(f) \/ CancelFails(f)
          \/ CancelWrite(f) => order' = order
    BY DEF CancelledAnswer, AmbiguousAnswer, NotConfirmedAnswer, RejectedAnswer, NoAnswer, RecordPlaced,
           RecordOpened, AuditPlacement, UnexpectedError, CancelFails, CancelWrite
  <2> QED BY <1>2, <2>1, <2>2, ReadsOnly DEF Request
<1>3. ASSUME NEW k \in Keys, Background(k) PROVE order' = order
  <2>1. BgTick(k) \/ BgHistory(k) \/ BgWrite(k) \/ BgFails(k) => order' = order
    BY DEF BgTick, BgHistory, BgWrite, BgFails
  <2> QED BY <1>3, <2>1, ReadsOnly DEF Background
<1>4. ASSUME NEW r \in Passes, Tick(r) PROVE order' = order \/ CancelExpired(r)
  <2>1. ExpireUnapprovedPlans(r) \/ SelectStuck(r) \/ StuckRow(r) \/ SelectPlaced(r) \/ StillPending(r)
          \/ Triggered(r) \/ NoLongerPending(r) \/ PickExpired(r) \/ CancelExpiredFails(r) \/ ExpirePlaced(r)
          \/ SyncClosedPlans(r) \/ PassFails(r) => order' = order
    BY DEF ExpireUnapprovedPlans, SelectStuck, StuckRow, SelectPlaced, StillPending, Triggered,
           NoLongerPending, PickExpired, CancelExpiredFails, ExpirePlaced, SyncClosedPlans, PassFails
  <2> QED BY <1>4, <2>1, ReadsOnly DEF Tick
<1>5. Crash => order' = order BY DEF Crash
<1> QED BY <1>1, <1>2, <1>3, <1>4, <1>5 DEF Next

\* The ways an order moves.
OrderMove(k) ==
  \/ order'[k] = order[k]
  \/ order[k] = "none" /\ order'[k] = "inflight" /\ \E f \in Flows : SendOrder(f) /\ flow[f].key = k
  \/ order[k] = "inflight" /\ order'[k] \in {"pending", "open", "refused"}
  \/ order[k] = "pending" /\ order'[k] = "open"
  \/ /\ order[k] = "pending" /\ order'[k] = "cancelled"
     /\ ~Submitting(owner[k]) /\ ~TakenForStuck(owner[k])
  \/ /\ order[k] = "open" /\ order'[k] = "closed"
     /\ plan[owner[k]].status = "POSITION_OPEN" /\ ~TakenForStuck(owner[k])

\* A tick that cancels or has its placed rows takes no plan for stuck.
LEMMA OnePart ==
  ASSUME Calm, NEW r \in Passes, pass[r].pc \notin StuckPart, NEW p
  PROVE  ~TakenForStuck(p)
BY DEF Calm, TakenForStuck, StuckPart

\* Every step moves every order in one of these ways, and then only orders and
\* who moved them.
LEMMA OrdersMove ==
  ASSUME Calm, IInv, OnceInv, [Next]_vars, NEW k \in Keys
  PROVE  OrderMove(k) /\ (order' # order => UNCHANGED <<plan, outcome, owner, nextKey, bg>>)
<1>1. order \in [Keys -> OrderState] BY DEF IInv, KeysOK
<1> SUFFICES ASSUME order' # order PROVE OrderMove(k) /\ UNCHANGED <<plan, outcome, owner, nextKey, bg>>
  BY DEF OrderMove
<1>2. ASSUME NEW f \in Flows, SendOrder(f) PROVE OrderMove(k)
  <2>1. flow[f].key \in Keys /\ order[flow[f].key] = "none"
    BY <1>2, ClaimFacts DEF SendOrder, Claimed, BeforeSend
  <2> QED BY <1>1, <1>2, <2>1 DEF SendOrder, OrderMove
<1>3. ASSUME NEW f \in Flows, CancelAtMt5(f) PROVE OrderMove(k)
  <2>1. /\ flow[f].plan \in Plans /\ flow[f].ev.key \in Keys /\ owner[flow[f].ev.key] = flow[f].plan
    BY <1>3, FlowFacts DEF CancelAtMt5, FlowOK, Knowing, EvidenceOK, Names, Calm
  <2>2. ~Submitting(flow[f].plan) /\ ~TakenForStuck(flow[f].plan)
    BY <1>3 DEF CancelAtMt5, Calm, OnceInv, FlowInv, Cancelling
  <2> QED BY <1>1, <1>3, <2>1, <2>2 DEF CancelAtMt5, OrderMove
<1>4. ASSUME NEW r \in Passes, CancelExpired(r) PROVE OrderMove(k)
  <2> DEFINE c == pass[r].cur
  <2>1. pass[r].pc = "cancel" /\ pass[r].pc \notin StuckPart BY <1>4 DEF CancelExpired, StuckPart
  <2>2. c \in pass[r].rows /\ PlacedRowOk(pass[r], c)
    BY <2>1 DEF OnceInv, PassInv, Cancelling, PlacedPart
  <2>3. c.ticket \in Keys /\ ~Submitting(owner[c.ticket]) BY <2>2 DEF PlacedRowOk
  <2>4. ~TakenForStuck(owner[c.ticket]) BY <2>1, OnePart
  <2> QED BY <1>1, <1>4, <2>3, <2>4 DEF CancelExpired, OrderMove
<1>5. ASSUME NEW j \in Keys, Accept(j) \/ Refuse(j) \/ Trigger(j) PROVE OrderMove(k)
  BY <1>1, <1>5 DEF Accept, Refuse, Trigger, OrderMove, Calm
<1>6. ASSUME NEW j \in Keys, BrokerCancel(j) \/ ClosePosition(j) PROVE OrderMove(k)
  <2>1. BrokerCancel(j) => mayEnd(j, "PENDING_ORDER_PLACED") /\ ~Submitting(owner[j])
    BY DEF BrokerCancel, mayEnd, Submitting, Calm
  <2> QED BY <1>1, <1>6, <2>1 DEF BrokerCancel, ClosePosition, mayEnd, Calm, OrderMove
<1>7. UNCHANGED <<plan, outcome, owner, nextKey, bg>>
  BY OrderFrame DEF SendOrder, CancelAtMt5, CancelExpired, Accept, Refuse, Trigger, BrokerCancel, ClosePosition
<1> QED BY <1>2, <1>3, <1>4, <1>5, <1>6, <1>7, OrderFrame

\* The plan's row is written from what MT5 has of it.
Told(p, row, k) ==
  /\ owner[k] = p /\ AcceptedIn(order, k)
  /\ \/ row.status = "PENDING_ORDER_PLACED"
     \/ row.status = "POSITION_OPEN" /\ Filled(k)
     \/ row.status \in {"POSITION_CLOSED", "ORDER_CANCELLED", "PLAN_EXPIRED"} /\ Ended(k)

\* The plan's request, or its timer, gives up a claim of which MT5 has nothing.
Dropped(p) ==
  /\ Fresh(p)
  /\ \/ \E f \in Flows : /\ flow[f].pc \in Claimed /\ flow[f].plan = p /\ ~Sent(flow[f].key)
                         /\ flow'[f] = IdleFlow
     \/ \E k \in Keys : owner[k] = p /\ order[k] = "refused" /\ Running(k) /\ bg'[k] = BgOff

TakenLater(p) ==
  \E r \in Passes : pass'[r].pc \in StuckPart /\ \E row \in pass'[r].rows : row.plan = p

\* The ways a row moves.
RowMove(p) ==
  \/ plan'[p] = plan[p]
  \/ Free(p) /\ plan'[p].status \notin ActivePlan /\ ~(Submitting(p) /\ TakenLater(p))
  \/ \E f \in Flows : ClaimPlan(f, p)
  \/ GraceElapses(p)
  \/ Dropped(p) /\ plan'[p].status \in {"PLAN_EXPIRED", "RISK_BLOCKED", "EXECUTION_FAILED"}
  \/ \E k \in Keys : Told(p, plan'[p], k)

\* One row is written: it is enough to know how.
LEMMA OneRow ==
  ASSUME IInv, NEW q \in Plans, NEW row, plan' = [plan EXCEPT ![q] = row], NEW p \in Plans,
         p = q /\ plan'[p] = row => RowMove(p)
  PROVE  RowMove(p)
<1>1. plan \in [Plans -> RowType] BY DEF IInv, PlansOK
<1> QED BY <1>1 DEF RowMove

\* What was found of a plan is written to its row.
LEMMA FoundRow ==
  ASSUME Calm, NEW p \in Plans, NEW ev \in Evidence, EvidenceOK(p, ev, owner, order), ev # NoEvidence
  PROVE  ev.key \in Keys /\ Told(p, rowOf(ev), ev.key) /\ Told(p, placed(ev.key), ev.key)
         /\ (ev.kind = "position" => Told(p, opened, ev.key))
<1>1. placed(ev.key).status = "PENDING_ORDER_PLACED" /\ opened.status = "POSITION_OPEN"
  BY DEF placed, opened, Unlocked
<1>2. ev.key \in Keys /\ owner[ev.key] = p /\ AcceptedIn(order, ev.key)
      /\ (ev.kind = "position" => Filled(ev.key))
  BY DEF EvidenceOK, FilledIn, Filled, Names, Calm
<1>3. Told(p, placed(ev.key), ev.key) BY <1>1, <1>2 DEF Told
<1>4. ev.kind = "position" => Told(p, opened, ev.key) BY <1>1, <1>2 DEF Told
<1>5. CASE ev.kind = "order" BY <1>2, <1>3, <1>4, <1>5 DEF rowOf
<1>6. CASE ev.kind # "order"
  <2>1. ev.kind = "position" BY <1>6 DEF Evidence
  <2> QED BY <1>2, <1>3, <1>4, <1>6, <2>1 DEF rowOf
<1> QED BY <1>5, <1>6

\* Whatever a request or a timer found, it writes as what MT5 has.
LEMMA RequestWritesMove ==
  ASSUME Calm, IInv, OnceInv, NEW f \in Flows, NEW p \in Plans,
         \/ AlreadyWrite(f) \/ SweepWrite(f) \/ RecordPlaced(f) \/ RecordOpened(f) \/ CancelWrite(f)
  PROVE  RowMove(p)
<1> DEFINE q == flow[f].plan  ev == flow[f].ev
<1>1. FlowOK(flow[f], owner, order, nextKey) /\ flow[f].pc # "idle" /\ q \in Plans
  BY FlowFacts DEF AlreadyWrite, SweepWrite, RecordPlaced, RecordOpened, CancelWrite
<1>2. ev \in Evidence /\ EvidenceOK(q, ev, owner, order) BY <1>1 DEF FlowOK, FlowType
<1>3. ev # NoEvidence =>
        /\ ev.key \in Keys /\ Told(q, rowOf(ev), ev.key) /\ Told(q, placed(ev.key), ev.key)
        /\ (ev.kind = "position" => Told(q, opened, ev.key))
  BY <1>1, <1>2, FoundRow
<1>4. CASE AlreadyWrite(f)
  <2> DEFINE row == whenSubmitting(plan[q], rowOf(ev))
  <2>1. plan' = [plan EXCEPT ![q] = row] BY <1>4 DEF AlreadyWrite
  <2>2. ev # NoEvidence BY <1>1, <1>4 DEF AlreadyWrite, FlowOK, Knowing
  <2>3. row = plan[q] \/ row = rowOf(ev) BY DEF whenSubmitting
  <2> HIDE DEF row, q, ev
  <2>4. p = q /\ plan'[p] = row => RowMove(p) BY <1>3, <2>2, <2>3 DEF RowMove
  <2> QED BY <1>1, <2>1, <2>4, OneRow
<1>5. CASE SweepWrite(f)
  <2> DEFINE row == IF ev # NoEvidence THEN rowOf(ev)
                    ELSE IF flow[f].saw = "PENDING_ORDER_NOT_CONFIRMED" THEN releaseFailed(plan[q])
                    ELSE plan[q]
  <2>1. plan' = [plan EXCEPT ![q] = row] BY <1>5 DEF SweepWrite
  <2>2. \/ row = plan[q]
        \/ ev # NoEvidence /\ row = rowOf(ev)
        \/ plan[q].status = "EXECUTION_FAILED" /\ row = released
    BY DEF releaseFailed
  <2> HIDE DEF row, q, ev
  <2>3. CASE plan[q].status = "EXECUTION_FAILED" /\ row = released
    <3>1. Free(q) BY <1>1, <2>3, UnboundIsFree DEF Bound, ActivePlan
    <3>2. released.status \notin ActivePlan /\ ~Submitting(q)
      BY <2>3 DEF released, Unlocked, ActivePlan, Submitting
    <3>3. p = q /\ plan'[p] = row => RowMove(p) BY <2>3, <3>1, <3>2 DEF RowMove
    <3> QED BY <1>1, <2>1, <3>3, OneRow
  <2>4. CASE row = plan[q] \/ (ev # NoEvidence /\ row = rowOf(ev))
    <3>1. p = q /\ plan'[p] = row => RowMove(p) BY <1>3, <2>4 DEF RowMove
    <3> QED BY <1>1, <2>1, <3>1, OneRow
  <2> QED BY <2>2, <2>3, <2>4
<1>6. CASE RecordPlaced(f)
  <2> DEFINE row == placed(ev.key)
  <2>1. plan' = [plan EXCEPT ![q] = row] BY <1>6 DEF RecordPlaced
  <2>2. ev # NoEvidence BY <1>1, <1>6 DEF RecordPlaced, FlowOK, Knowing
  <2>3. Told(q, row, ev.key) BY <1>3, <2>2
  <2> HIDE DEF row, q, ev
  <2>4. p = q /\ plan'[p] = row => RowMove(p) BY <1>3, <2>2, <2>3 DEF RowMove
  <2> QED BY <1>1, <2>1, <2>4, OneRow
<1>7. CASE RecordOpened(f)
  <2>1. plan' = [plan EXCEPT ![q] = opened] BY <1>7 DEF RecordOpened
  <2>2. ev # NoEvidence /\ ev.kind = "position" BY <1>1, <1>7 DEF RecordOpened, FlowOK, Knowing
  <2> HIDE DEF q, ev
  <2>4. p = q /\ plan'[p] = opened => RowMove(p) BY <1>3, <2>2 DEF RowMove
  <2> QED BY <1>1, <2>1, <2>4, OneRow
<1>8. CASE CancelWrite(f)
  <2> DEFINE row == whenPlaced(plan[q], Unlocked("ORDER_CANCELLED"))
  <2>1. plan' = [plan EXCEPT ![q] = row] BY <1>8 DEF CancelWrite
  <2>2. ev # NoEvidence /\ order[ev.key] = "cancelled"
    BY <1>1, <1>8 DEF CancelWrite, FlowOK, Knowing, OnceInv, FlowInv
  <2>3. ev.key \in Keys /\ owner[ev.key] = q /\ AcceptedIn(order, ev.key)
    BY <1>2, <2>2 DEF EvidenceOK, Names, Calm
  <2>4. Told(q, Unlocked("ORDER_CANCELLED"), ev.key) BY <2>2, <2>3 DEF Told, Unlocked, Ended
  <2>5. row = plan[q] \/ row = Unlocked("ORDER_CANCELLED") BY DEF whenPlaced
  <2> HIDE DEF row, q, ev
  <2>6. p = q /\ plan'[p] = row => RowMove(p) BY <2>3, <2>4, <2>5 DEF RowMove
  <2> QED BY <1>1, <2>1, <2>6, OneRow
<1> QED BY <1>4, <1>5, <1>6, <1>7, <1>8

\* A claim that has not been answered with an order leaves its row as it was.
LEMMA UnsentFresh ==
  ASSUME IInv, OnceInv, NEW f \in Flows, flow[f].pc \in Claimed, ~Sent(flow[f].key)
  PROVE  Fresh(flow[f].plan)
BY DEF OnceInv, FlowInv, Sent, AcceptedIn

\* A request that gives up before MT5 took its order drops the claim.
LEMMA DropsMove ==
  ASSUME Calm, IInv, OnceInv, NEW f \in Flows, NEW p \in Plans,
         ExpireClaimed(f) \/ GateRejects(f) \/ RejectedAnswer(f)
  PROVE  RowMove(p)
<1> DEFINE q == flow[f].plan
<1>1. flow[f].pc \in Claimed
  BY DEF ExpireClaimed, GateRejects, RejectedAnswer, AwaitsPending, Claimed, BeforeSend
<1>2. q \in Plans /\ (flow[f].pc \in BeforeSend => order[flow[f].key] = "none") BY <1>1, ClaimFacts
<1>3. ~Sent(flow[f].key)
  <2>1. q \in Plans /\ flow[f].key \in Keys BY <1>1, ClaimFacts
  <2>2. order[flow[f].key] # "rejected" BY <2>1 DEF OnceInv, RowsInv, KeyRow
  <2> QED BY <1>2, <2>2 DEF ExpireClaimed, GateRejects, RejectedAnswer, Calm, Sent, BeforeSend
<1>4. Fresh(q) BY <1>1, <1>3, UnsentFresh
<1>5. flow' = [flow EXCEPT ![f] = IdleFlow] /\ flow \in [Flows -> FlowType]
  BY DEF ExpireClaimed, GateRejects, RejectedAnswer, IInv, FlowsOK
<1>6. Dropped(q) BY <1>1, <1>3, <1>4, <1>5 DEF Dropped
<1>7. \A new : blockPlan(plan[q], new) = new
  BY <1>4 DEF blockPlan, Settled, Fresh, Submitting
<1>8. \E row : /\ row.status \in {"PLAN_EXPIRED", "RISK_BLOCKED", "EXECUTION_FAILED"}
               /\ plan' = [plan EXCEPT ![q] = row]
  <2>1. /\ Unlocked("PLAN_EXPIRED").status = "PLAN_EXPIRED" /\ Unlocked("RISK_BLOCKED").status = "RISK_BLOCKED"
        /\ failed("other").status = "EXECUTION_FAILED"
    BY DEF Unlocked, failed
  <2>2. ExpireClaimed(f) => plan' = [plan EXCEPT ![q] = Unlocked("PLAN_EXPIRED")] BY DEF ExpireClaimed
  <2>3. GateRejects(f) => \E new \in {Unlocked("RISK_BLOCKED"), failed("other")} : plan' = [plan EXCEPT ![q] = new]
    BY <1>7 DEF GateRejects
  <2>4. RejectedAnswer(f) => plan' = [plan EXCEPT ![q] = failed("other")] BY <1>7 DEF RejectedAnswer
  <2> HIDE DEF q
  <2> QED BY <2>1, <2>2, <2>3, <2>4
<1> HIDE DEF q
<1>9. PICK row : /\ row.status \in {"PLAN_EXPIRED", "RISK_BLOCKED", "EXECUTION_FAILED"}
                 /\ plan' = [plan EXCEPT ![q] = row]
  BY <1>8
<1>10. p = q /\ plan'[p] = row => RowMove(p) BY <1>6, <1>9 DEF RowMove
<1> QED BY <1>2, <1>9, <1>10, OneRow

\* MT5 never has two candidates for one plan.
LEMMA NoTwo ==
  ASSUME IInv, OnceInv, NEW p \in Plans, NEW S \in SUBSET Keys, \A k \in S : owner[k] = p /\ Sent(k)
  PROVE  Cardinality(S) <= 1
<1>1. \A j, k \in S : j = k BY DEF OnceInv, SoleInv
<1>2. CASE S = {} BY <1>2, FS_EmptySet
<1>3. CASE S # {}
  <2>1. PICK k \in S : TRUE BY <1>3
  <2>2. S = {k} BY <1>1, <2>1
  <2>3. Cardinality({k}) = 1 BY FS_Singleton
  <2> QED BY <2>2, <2>3
<1> QED BY <1>2, <1>3

\* So a confirmation is never ambiguous.
LEMMA NeverAmbiguous ==
  ASSUME Calm, IInv, OnceInv, NEW f \in Flows PROVE ~AmbiguousAnswer(f)
<1> SUFFICES ASSUME AmbiguousAnswer(f) PROVE FALSE OBVIOUS
<1> DEFINE p == flow[f].plan
           Several(S) == Cardinality(S) > 1
<1>1. p \in Plans BY ClaimFacts DEF AmbiguousAnswer, AwaitsPending, Claimed
<1>2. PICK c \in Candidates(p) :
        \/ Several(c.orders) \/ Several(c.positions) \/ (c.orders # {} /\ c.positions # {})
        \/ Several(c.history) \/ Several(c.deals)
  BY DEF AmbiguousAnswer, Calm
<1>3. /\ c.orders = Mine(p, "pending") /\ c.positions = Mine(p, "open")
      /\ c.history = {k \in InHistory : owner[k] = p}
      /\ c.deals = {k \in {j \in Keys : Filled(j)} : owner[k] = p}
  BY CalmCandidates
<1> HIDE DEF p
<1>4. \A S \in {c.orders, c.positions, c.history, c.deals} :
        S \subseteq Keys /\ \A k \in S : owner[k] = p /\ Sent(k)
  BY <1>3 DEF Mine, Holding, InHistory, Filled, Sent
<1>5. ~(c.orders # {} /\ c.positions # {})
  <2>1. \A j \in c.orders, k \in c.positions : j = k BY <1>4 DEF OnceInv, SoleInv
  <2>2. \A j \in c.orders, k \in c.positions : j # k BY <1>3 DEF Mine, Holding
  <2> QED BY <2>1, <2>2
<1>6. ASSUME NEW S \in {c.orders, c.positions, c.history, c.deals} PROVE ~Several(S)
  <2>1. S \in SUBSET Keys /\ \A k \in S : owner[k] = p /\ Sent(k) BY <1>4
  <2>2. Cardinality(S) <= 1 BY <1>1, <2>1, NoTwo
  <2>3. IsFiniteSet(Keys) BY FS_Interval, BoundsAssumption DEF Keys
  <2>4. Cardinality(S) \in Nat BY <2>1, <2>3, FS_Subset, FS_CardinalityType
  <2> QED BY <2>2, <2>4
<1> QED BY <1>2, <1>5, <1>6

\* An order MT5 has cancelled is the plan's only one.
LEMMA CancelledMoves ==
  ASSUME Calm, IInv, OnceInv, NEW f \in Flows, NEW p \in Plans, CancelledAnswer(f)
  PROVE  RowMove(p)
<1> DEFINE q == flow[f].plan
           row == blockPlan(plan[q], Unlocked("ORDER_CANCELLED"))
<1>1. q \in Plans BY ClaimFacts DEF CancelledAnswer, AwaitsPending, Claimed
<1>2. PICK k \in Keys : owner[k] = q /\ order[k] = "cancelled"
  <2>1. PICK k \in Keys, c \in Candidates(q) : c.history = {k} /\ ~Filled(k) BY DEF CancelledAnswer
  <2>2. k \in InHistory /\ owner[k] = q BY <2>1, CalmCandidates
  <2>3. order[k] # "rejected" BY DEF OnceInv, RowsInv, KeyRow
  <2> QED BY <2>1, <2>2, <2>3 DEF InHistory, Filled
<1>3. plan' = [plan EXCEPT ![q] = row] BY DEF CancelledAnswer
<1>4. Told(q, Unlocked("ORDER_CANCELLED"), k) BY <1>2 DEF Told, Unlocked, Ended, AcceptedIn
<1>5. row = plan[q] \/ row = Unlocked("ORDER_CANCELLED") BY DEF blockPlan
<1> HIDE DEF row, q
<1>6. p = q /\ plan'[p] = row => RowMove(p) BY <1>4, <1>5 DEF RowMove
<1> QED BY <1>1, <1>3, <1>6, OneRow

\* The last timer gives up only on an order that MT5 refused.
LEMMA BgWriteMoves ==
  ASSUME Calm, IInv, OnceInv, NEW k \in Keys, NEW p \in Plans, BgWrite(k)
  PROVE  RowMove(p)
<1> DEFINE q == owner[k]  ev == bg[k].ev
           none == failed("PENDING_ORDER_NOT_CONFIRMED")
           row == whenSubmitting(plan[q], IF ev # NoEvidence THEN rowOf(ev) ELSE none)
<1>1. bg[k].pc = "write" /\ Running(k) /\ bg' = [bg EXCEPT ![k] = BgOff] /\ plan' = [plan EXCEPT ![q] = row]
  BY DEF BgWrite, Running
<1>2. q \in Plans /\ ev \in Evidence /\ EvidenceOK(q, ev, owner, order) /\ bg \in [Keys -> BgType]
  BY <1>1, BgFacts DEF BgOK, BgType, IInv, BgsOK
<1>3. \/ row = plan[q]
      \/ ev # NoEvidence /\ row = rowOf(ev)
      \/ Submitting(q) /\ ev = NoEvidence /\ row = none
  BY DEF whenSubmitting, Submitting
<1>4. none.status = "EXECUTION_FAILED" BY DEF failed, Unlocked
<1>5. ev # NoEvidence => ev.key \in Keys /\ Told(q, rowOf(ev), ev.key) BY <1>2, FoundRow
<1>6. Submitting(q) /\ ev = NoEvidence => Dropped(q)
  <2> SUFFICES ASSUME Submitting(q), ev = NoEvidence PROVE Dropped(q) OBVIOUS
  <2>1. order[k] \in {"refused", "cancelled"} BY <1>1 DEF OnceInv, BgInv
  <2>2. KeyRow(k) BY DEF OnceInv, RowsInv
  <2>3. order[k] = "refused" BY <2>1, <2>2 DEF KeyRow, AcceptedIn, Live
  <2>4. Fresh(q) BY <1>1, <2>3 DEF OnceInv, BgInv, AcceptedIn
  <2>5. bg'[k] = BgOff BY <1>1, <1>2
  <2> QED BY <1>1, <2>3, <2>4, <2>5 DEF Dropped
<1> HIDE DEF row, none, ev, q
<1>7. p = q /\ plan'[p] = row => RowMove(p) BY <1>3, <1>4, <1>5, <1>6 DEF RowMove
<1> QED BY <1>1, <1>2, <1>7, OneRow

\* What a read of MT5 shows of a plan, or that it has nothing.
LEMMA SeenLive ==
  ASSUME IInv, NEW r \in Passes, NEW p \in Plans, NEW ev \in LiveEvidence(p, pass[r].view)
  PROVE  /\ ev \in Evidence /\ EvidenceOK(p, ev, owner, order)
         /\ ev = NoEvidence => \A k \in pass[r].view.orders \cup pass[r].view.positions : owner[k] # p
<1>1. PassOK(pass[r], order) /\ pass[r].view \in ViewType BY PassFacts
<1>2. ev \in Evidence /\ EvidenceOK(p, ev, owner, order) BY <1>1, LiveIsEvidence DEF PassOK
<1>3. ASSUME ev = NoEvidence, NEW k \in pass[r].view.orders \cup pass[r].view.positions, owner[k] = p
      PROVE  FALSE
  <2> DEFINE O == {j \in pass[r].view.orders : owner[j] = p}
             P == {j \in pass[r].view.positions : owner[j] = p}
  <2>1. ev \in IF O # {} THEN {found("order", j) : j \in O}
               ELSE IF P # {} THEN {found("position", j) : j \in P} ELSE {NoEvidence}
    BY DEF LiveEvidence
  <2>2. \A j : found("order", j) # NoEvidence /\ found("position", j) # NoEvidence BY DEF found, NoEvidence
  <2>3. O # {} \/ P # {} BY <1>3
  <2> HIDE DEF O, P
  <2> QED BY <1>3, <2>1, <2>2, <2>3
<1> QED BY <1>2, <1>3

\* A plan taken for stuck is released only when MT5 has nothing of it.
LEMMA StuckRowMoves ==
  ASSUME Calm, IInv, OnceInv, NEW r \in Passes, NEW p \in Plans, StuckRow(r)
  PROVE  RowMove(p)
<1>1. pass[r].pc = "stuckrows" BY DEF StuckRow
<1>2. PICK row \in pass[r].rows : \E ev \in LiveEvidence(row.plan, pass[r].view) :
        /\ plan' = [plan EXCEPT ![row.plan] = IF ev = NoEvidence THEN released ELSE rowOf(ev)]
        /\ pass' = [pass EXCEPT ![r] = Done(r, row, StuckLoop)]
  BY DEF StuckRow
<1> DEFINE q == row.plan
<1>3. PICK ev \in LiveEvidence(q, pass[r].view) :
        /\ plan' = [plan EXCEPT ![q] = IF ev = NoEvidence THEN released ELSE rowOf(ev)]
        /\ pass' = [pass EXCEPT ![r] = Done(r, row, StuckLoop)]
  BY <1>2
<1>4. q \in Plans BY PassFacts DEF PickType
<1>5. StuckRowOk(pass[r], row) /\ \A other \in pass[r].rows : other.ticket = NoTicket
  BY <1>1 DEF OnceInv, PassInv, StuckPart, StuckRowOk
<1>6. /\ ev \in Evidence /\ EvidenceOK(q, ev, owner, order)
      /\ ev = NoEvidence => \A k \in pass[r].view.orders \cup pass[r].view.positions : owner[k] # q
  BY <1>4, SeenLive
<1>7. CASE ev = NoEvidence
  <2>1. ASSUME NEW k \in Keys, owner[k] = q PROVE ~Sent(k)
    BY <1>1, <1>5, <1>6, <1>7, <2>1 DEF StuckRowOk
  <2>2. Submitting(q) /\ plan[q].aged BY <1>5, <2>1 DEF StuckRowOk, Live, Sent
  <2>3. ASSUME NEW k \in Keys, owner[k] = q PROVE ~Running(k)
    BY <2>1, <2>2, <2>3 DEF OnceInv, BgInv, Fresh, Sent, AcceptedIn
  <2>4. ASSUME NEW f \in Flows, flow[f].pc \in Claimed PROVE flow[f].plan # q
    <3>1. flow[f].key \in Keys /\ owner[flow[f].key] = flow[f].plan BY <2>4, ClaimFacts
    <3> QED BY <2>1, <2>2, <2>4, <3>1, UnsentFresh DEF Fresh
  <2>5. Free(q) BY <2>1, <2>3, <2>4 DEF Free
  <2>6. ~TakenLater(q)
    <3>1. pass \in [Passes -> PassType] /\ \A s \in Passes : s = r BY DEF IInv, PassesOK, Calm
    <3>2. pass'[r].rows = pass[r].rows \ {row} BY <1>3, <3>1 DEF Done, PassType
    <3>3. ASSUME NEW other \in pass[r].rows \ {row} PROVE other.plan # q
      <4>1. other.ticket = row.ticket BY <1>5
      <4>2. other \in PickType /\ row \in PickType BY <3>1 DEF PassType
      <4> QED BY <4>1, <4>2, <3>3 DEF PickType
    <3> QED BY <3>1, <3>2, <3>3 DEF TakenLater
  <2>7. released.status \notin ActivePlan BY DEF released, Unlocked, ActivePlan
  <2>8. plan' = [plan EXCEPT ![q] = released] BY <1>3, <1>7
  <2> HIDE DEF q
  <2>9. p = q /\ plan'[p] = released => RowMove(p) BY <2>5, <2>6, <2>7 DEF RowMove
  <2> QED BY <1>4, <2>8, <2>9, OneRow
<1>8. CASE ev # NoEvidence
  <2> DEFINE new == rowOf(ev)
  <2>1. ev.key \in Keys /\ Told(q, new, ev.key) BY <1>4, <1>6, <1>8, FoundRow
  <2>2. plan' = [plan EXCEPT ![q] = new] BY <1>3, <1>8
  <2> HIDE DEF new, q
  <2>3. p = q /\ plan'[p] = new => RowMove(p) BY <2>1 DEF RowMove
  <2> QED BY <1>4, <2>2, <2>3, OneRow
<1> QED BY <1>7, <1>8

\* What a tick writes of a placed order is what has become of it.
LEMMA PlacedRowMoves ==
  ASSUME Calm, IInv, OnceInv, NEW r \in Passes, NEW p \in Plans,
         ExpirePlaced(r) \/ Triggered(r) \/ NoLongerPending(r)
  PROVE  RowMove(p)
<1>1. pass[r].rows \subseteq PickType /\ pass[r].view \in ViewType /\ PassOK(pass[r], order) BY PassFacts
<1>2. CASE ExpirePlaced(r)
  <2> DEFINE c == pass[r].cur  q == c.plan
             row == whenPlaced(plan[q], Unlocked("PLAN_EXPIRED"))
  <2>1. c \in pass[r].rows /\ PlacedRowOk(pass[r], c) /\ order[c.ticket] = "cancelled"
    BY <1>2 DEF ExpirePlaced, OnceInv, PassInv, PlacedPart, Cancelling
  <2>2. q \in Plans /\ c.ticket \in Keys BY <1>1, <2>1 DEF PickType, PlacedRowOk
  <2>3. Told(q, Unlocked("PLAN_EXPIRED"), c.ticket) BY <2>1 DEF Told, Unlocked, Ended, PlacedRowOk
  <2>4. plan' = [plan EXCEPT ![q] = row] BY <1>2 DEF ExpirePlaced
  <2>5. row = plan[q] \/ row = Unlocked("PLAN_EXPIRED") BY DEF whenPlaced
  <2> HIDE DEF row, q
  <2>6. p = q /\ plan'[p] = row => RowMove(p) BY <2>2, <2>3, <2>5 DEF RowMove
  <2> QED BY <2>2, <2>4, <2>6, OneRow
<1>3. CASE Triggered(r)
  <2>1. PICK c \in pass[r].rows : \E k \in pass[r].view.positions :
          owner[k] = c.plan /\ plan' = [plan EXCEPT ![c.plan] = whenPlaced(@, opened)]
    BY <1>3 DEF Triggered
  <2>2. PICK k \in pass[r].view.positions :
          owner[k] = c.plan /\ plan' = [plan EXCEPT ![c.plan] = whenPlaced(@, opened)]
    BY <2>1
  <2> DEFINE q == c.plan
             row == whenPlaced(plan[q], opened)
  <2>3. q \in Plans /\ k \in Keys /\ FilledIn(order, k) BY <1>1 DEF PickType, ViewType, PassOK
  <2>4. Told(q, opened, k) BY <2>2, <2>3 DEF Told, FilledIn, AcceptedIn, Filled, opened, Unlocked
  <2>5. plan' = [plan EXCEPT ![q] = row] BY <2>2
  <2>6. row = plan[q] \/ row = opened BY DEF whenPlaced
  <2> HIDE DEF row, q
  <2>7. p = q /\ plan'[p] = row => RowMove(p) BY <2>3, <2>4, <2>6 DEF RowMove
  <2> QED BY <2>3, <2>5, <2>7, OneRow
<1>4. CASE NoLongerPending(r)
  <2>1. pass[r].pc = "placedrows" BY <1>4 DEF NoLongerPending
  <2>2. PICK c \in pass[r].rows :
          /\ c.ticket \notin pass[r].view.orders
          /\ \A k \in pass[r].view.positions : owner[k] # c.plan
          /\ plan' = [plan EXCEPT ![c.plan] = whenPlaced(@, Unlocked("ORDER_CANCELLED"))]
    BY <1>4 DEF NoLongerPending
  <2> DEFINE q == c.plan
             row == whenPlaced(plan[q], Unlocked("ORDER_CANCELLED"))
  <2>3. PlacedRowOk(pass[r], c) BY <2>1 DEF OnceInv, PassInv, PlacedPart
  <2>4. q \in Plans /\ c.ticket \in Keys BY <1>1, <2>3 DEF PickType, PlacedRowOk
  <2>5. AcceptedIn(order, c.ticket) /\ owner[c.ticket] = q /\ ~Live(c.ticket)
    BY <2>1, <2>2, <2>3 DEF PlacedRowOk
  <2>6. Told(q, Unlocked("ORDER_CANCELLED"), c.ticket)
    BY <2>5 DEF Told, Unlocked, Ended, AcceptedIn, Live
  <2>7. plan' = [plan EXCEPT ![q] = row] BY <2>2
  <2>8. row = plan[q] \/ row = Unlocked("ORDER_CANCELLED") BY DEF whenPlaced
  <2> HIDE DEF row, q
  <2>9. p = q /\ plan'[p] = row => RowMove(p) BY <2>4, <2>6, <2>8 DEF RowMove
  <2> QED BY <2>4, <2>7, <2>9, OneRow
<1> QED BY <1>2, <1>3, <1>4

\* The statements of a tick on every row at once.
LEMMA AllRowsMove ==
  ASSUME Calm, IInv, OnceInv, NEW r \in Passes, NEW p \in Plans,
         ExpireUnapprovedPlans(r) \/ SyncClosedPlans(r)
  PROVE  RowMove(p)
<1>1. CASE ExpireUnapprovedPlans(r)
  <2>1. plan'[p] = expireUnapproved(plan[p], past[p]) BY <1>1 DEF ExpireUnapprovedPlans
  <2>2. CASE plan[p].status # "WAITING_FOR_APPROVAL" BY <2>1, <2>2 DEF expireUnapproved, RowMove
  <2>3. CASE plan[p].status = "WAITING_FOR_APPROVAL"
    <3>1. Free(p) BY <2>3, UnboundIsFree DEF Bound, ActivePlan
    <3>2. plan'[p].status \notin ActivePlan /\ ~Submitting(p)
      BY <2>1, <2>3 DEF expireUnapproved, Unlocked, ActivePlan, Submitting
    <3> QED BY <3>1, <3>2 DEF RowMove
  <2> QED BY <2>2, <2>3
<1>2. CASE SyncClosedPlans(r)
  <2>1. plan'[p] = syncClosed(plan[p], outcome[p].state) BY <1>2 DEF SyncClosedPlans
  <2>2. outcome[p].state # "failed" BY DEF OnceInv, RowsInv
  <2>3. CASE outcome[p].state = "closed"
    <3> DEFINE k == outcome[p].ticket
    <3>1. order[k] = "closed" BY <2>3 DEF OnceInv, RowsInv
    <3>2. owner[k] = p /\ k \in Keys BY <2>3 DEF IInv, OutcomesOK, OutcomeOK, Names, Calm
    <3>3. k \in Keys BY <3>2
    <3>4. Told(p, Unlocked("POSITION_CLOSED"), k) BY <3>1, <3>2 DEF Told, Unlocked, Ended, AcceptedIn
    <3>5. plan'[p] = plan[p] \/ plan'[p] = Unlocked("POSITION_CLOSED") BY <2>1, <2>2 DEF syncClosed
    <3> QED BY <3>3, <3>4, <3>5 DEF RowMove
  <2>4. CASE outcome[p].state # "closed" BY <2>1, <2>2, <2>4 DEF syncClosed, RowMove
  <2> QED BY <2>3, <2>4
<1> QED BY <1>1, <1>2

\* Every step moves every row in one of the ways of RowMove.
LEMMA RowsMove ==
  ASSUME Calm, IInv, OnceInv, [Next]_vars, NEW p \in Plans
  PROVE  RowMove(p)
<1> SUFFICES ASSUME Next, plan' # plan PROVE RowMove(p) BY DEF vars, RowMove
<1>1. ASSUME NEW q \in Plans, SavePlan(q) PROVE RowMove(p)
  <2>1. PICK s \in {"WAITING_FOR_APPROVAL", "RISK_BLOCKED"} : plan' = [plan EXCEPT ![q] = Unlocked(s)]
    BY <1>1 DEF SavePlan
  <2>2. plan[q].status = Absent BY <1>1 DEF SavePlan
  <2>3. Free(q) /\ ~Submitting(q)
    BY <2>2, UnboundIsFree DEF Bound, ActivePlan, Absent, Submitting
  <2>4. p = q /\ plan'[p] = Unlocked(s) => RowMove(p)
    BY <2>3 DEF RowMove, Unlocked, ActivePlan
  <2> QED BY <2>1, <2>4, OneRow
<1>2. ASSUME NEW q \in Plans, GraceElapses(q) PROVE RowMove(p)
  <2> DEFINE row == [plan[q] EXCEPT !.aged = TRUE]
  <2>1. plan' = [plan EXCEPT ![q] = row] BY <1>2 DEF GraceElapses
  <2> HIDE DEF row
  <2>2. p = q /\ plan'[p] = row => RowMove(p) BY <1>2 DEF RowMove
  <2> QED BY <2>1, <2>2, OneRow
<1>3. ASSUME NEW q \in Plans, NEW f \in Flows, ClaimPlan(f, q) PROVE RowMove(p)
  <2> DEFINE row == claimPlanForApproval(plan[q])
  <2>1. plan' = [plan EXCEPT ![q] = row] BY <1>3 DEF ClaimPlan
  <2> HIDE DEF row
  <2>2. p = q /\ plan'[p] = row => RowMove(p) BY <1>3 DEF RowMove
  <2> QED BY <2>1, <2>2, OneRow
<1>4. ASSUME NEW q \in Plans
      PROVE  /\ ~Deadline(q) /\ ~ReconcileOutcome(q)
             /\ \A f \in Flows : ~ClaimMisses(f, q) /\ ~CancelStart(f, q)
  BY DEF Deadline, ReconcileOutcome, ClaimMisses, CancelStart
<1>5. ASSUME NEW f \in Flows, Request(f) PROVE RowMove(p)
  <2>1. /\ ~Lookup(f) /\ ~AlreadyRead(f) /\ ~SweepRead(f) /\ ~ReclaimMisses(f) /\ ~PassExpiry(f)
        /\ ~OneActivePlan(f) /\ ~ReadSymbol(f) /\ ~SendOrder(f) /\ ~MarketFilled(f) /\ ~PendingAnswer(f)
    BY DEF Lookup, AlreadyRead, SweepRead, ReclaimMisses, PassExpiry, OneActivePlan, ReadSymbol, SendOrder,
           MarketFilled, PendingAnswer
  <2>2. /\ ~FilledAnswer(f) /\ ~NotConfirmedAnswer(f) /\ ~NoAnswer(f) /\ ~AuditPlacement(f)
        /\ ~CancelAtMt5(f) /\ ~CancelFails(f) /\ ~UnexpectedError(f)
    BY DEF FilledAnswer, NotConfirmedAnswer, NoAnswer, AuditPlacement, CancelAtMt5, CancelFails,
           UnexpectedError, Calm
  <2> QED BY <1>5, <2>1, <2>2, RequestWritesMove, DropsMove, CancelledMoves, NeverAmbiguous DEF Request
<1>6. ASSUME NEW k \in Keys, Background(k) PROVE RowMove(p)
  <2>1. ~BgTick(k) /\ ~BgRead(k) /\ ~BgHistory(k) /\ ~BgFails(k)
    BY DEF BgTick, BgRead, BgHistory, BgFails
  <2> QED BY <1>6, <2>1, BgWriteMoves DEF Background
<1>7. ASSUME NEW r \in Passes, Tick(r) PROVE RowMove(p)
  <2>1. /\ ~SelectStuck(r) /\ ~StuckRead(r) /\ ~SelectPlaced(r) /\ ~PlacedRead(r) /\ ~StillPending(r)
        /\ ~PickExpired(r) /\ ~CancelExpired(r) /\ ~CancelExpiredFails(r) /\ ~PassFails(r)
    BY DEF SelectStuck, StuckRead, SelectPlaced, PlacedRead, StillPending, PickExpired, CancelExpired,
           CancelExpiredFails, PassFails
  <2> QED BY <1>7, <2>1, StuckRowMoves, PlacedRowMoves, AllRowsMove DEF Tick
<1>8. ~(\E k \in Keys : Accept(k) \/ Refuse(k) \/ Trigger(k) \/ BrokerCancel(k) \/ ClosePosition(k)) /\ ~Crash
  BY DEF Accept, Refuse, Trigger, BrokerCancel, ClosePosition, Crash
<1> QED BY <1>1, <1>2, <1>3, <1>4, <1>5, <1>6, <1>7, <1>8 DEF Next

\* A request is moved by itself, or ended by a crash.
LEMMA FlowFrame ==
  ASSUME IInv, [Next]_vars, NEW f \in Flows
  PROVE  \/ flow'[f] = flow[f] \/ flow'[f] = IdleFlow
         \/ Request(f)
         \/ \E p \in Plans : ClaimPlan(f, p) \/ ClaimMisses(f, p) \/ CancelStart(f, p)
<1>0. flow \in [Flows -> FlowType] BY DEF IInv, FlowsOK
<1> SUFFICES ASSUME Next, flow'[f] # flow[f]
             PROVE  \/ flow'[f] = IdleFlow
                    \/ Request(f)
                    \/ \E p \in Plans : ClaimPlan(f, p) \/ ClaimMisses(f, p) \/ CancelStart(f, p)
  BY DEF vars
<1>1. ASSUME NEW p \in Plans
      PROVE  /\ ~SavePlan(p) /\ ~Deadline(p) /\ ~GraceElapses(p) /\ ~ReconcileOutcome(p)
             /\ \A g \in Flows \ {f} : ~ClaimPlan(g, p) /\ ~ClaimMisses(g, p) /\ ~CancelStart(g, p)
  BY <1>0 DEF SavePlan, Deadline, GraceElapses, ReconcileOutcome, ClaimPlan, ClaimMisses, CancelStart
<1>2. ASSUME NEW g \in Flows \ {f}, Request(g) PROVE FALSE
  <2>1. /\ ~Lookup(g) /\ ~AlreadyRead(g) /\ ~AlreadyWrite(g) /\ ~SweepRead(g) /\ ~SweepWrite(g)
        /\ ~ReclaimMisses(g) /\ ~PassExpiry(g) /\ ~ExpireClaimed(g) /\ ~GateRejects(g) /\ ~OneActivePlan(g)
    BY <1>0 DEF Lookup, AlreadyRead, AlreadyWrite, SweepRead, SweepWrite, ReclaimMisses, PassExpiry,
           ExpireClaimed, GateRejects, OneActivePlan
  <2>2. /\ ~ReadSymbol(g) /\ ~SendOrder(g) /\ ~MarketFilled(g) /\ ~PendingAnswer(g) /\ ~FilledAnswer(g)
        /\ ~CancelledAnswer(g) /\ ~AmbiguousAnswer(g) /\ ~NotConfirmedAnswer(g) /\ ~RejectedAnswer(g)
    BY <1>0 DEF ReadSymbol, SendOrder, MarketFilled, PendingAnswer, FilledAnswer, CancelledAnswer,
           AmbiguousAnswer, NotConfirmedAnswer, RejectedAnswer
  <2>3. /\ ~NoAnswer(g) /\ ~RecordPlaced(g) /\ ~RecordOpened(g) /\ ~AuditPlacement(g) /\ ~UnexpectedError(g)
        /\ ~CancelAtMt5(g) /\ ~CancelFails(g) /\ ~CancelWrite(g)
    BY <1>0 DEF NoAnswer, RecordPlaced, RecordOpened, AuditPlacement, UnexpectedError, CancelAtMt5,
           CancelFails, CancelWrite
  <2> QED BY <1>2, <2>1, <2>2, <2>3 DEF Request
<1>3. ASSUME NEW k \in Keys, Background(k) PROVE FALSE
  BY <1>3 DEF Background, BgTick, BgRead, BgHistory, BgWrite, BgFails
<1>4. ASSUME NEW r \in Passes, Tick(r) PROVE FALSE
  BY <1>4 DEF Tick, ExpireUnapprovedPlans, SelectStuck, StuckRead, StuckRow, SelectPlaced, PlacedRead,
     StillPending, Triggered, NoLongerPending, PickExpired, CancelExpired, CancelExpiredFails, ExpirePlaced,
     SyncClosedPlans, PassFails
<1>5. ~(\E k \in Keys : Accept(k) \/ Refuse(k) \/ Trigger(k) \/ BrokerCancel(k) \/ ClosePosition(k))
  BY DEF Accept, Refuse, Trigger, BrokerCancel, ClosePosition
<1>6. Crash => flow'[f] = IdleFlow BY DEF Crash
<1> QED BY <1>1, <1>2, <1>3, <1>4, <1>5, <1>6 DEF Next

\* A request that has claimed its plan had done so before, or does it now; one
\* that cancels had begun to, or begins now.
LEMMA RequestsMove ==
  ASSUME IInv, [Next]_vars, NEW f \in Flows
  PROVE  /\ flow'[f].pc \in Claimed =>
              \/ /\ flow[f].pc \in Claimed
                 /\ flow'[f].plan = flow[f].plan /\ flow'[f].key = flow[f].key
                 /\ flow'[f].pc = "await" => flow[f].pc = "await" \/ SendOrder(f)
                 /\ flow'[f].pc \in AfterGates => flow[f].pc \in AfterGates \/ OneActivePlan(f)
              \/ /\ ClaimPlan(f, flow'[f].plan) /\ flow'[f].plan \in Plans
                 /\ flow'[f].key = nextKey /\ flow'[f].pc = "claimed"
         /\ flow'[f].pc \in Cancelling =>
              \/ /\ flow[f].pc \in Cancelling
                 /\ flow'[f].plan = flow[f].plan /\ flow'[f].ev = flow[f].ev
                 /\ flow'[f].pc = "cancelled" => flow[f].pc = "cancelled" \/ CancelAtMt5(f)
              \/ /\ CancelStart(f, flow'[f].plan) /\ flow'[f].plan \in Plans
                 /\ flow'[f].pc = "cancel"
<1>0. flow \in [Flows -> FlowType] BY DEF IInv, FlowsOK
<1>1. CASE flow'[f] = flow[f] BY <1>1
<1>2. CASE flow'[f].pc \notin Claimed \cup Cancelling BY <1>2
<1>3. IdleFlow.pc \notin Claimed \cup Cancelling BY DEF IdleFlow, Claimed, BeforeSend, Cancelling
<1>4. ASSUME NEW p \in Plans, ClaimPlan(f, p) \/ ClaimMisses(f, p) \/ CancelStart(f, p)
      PROVE  \/ flow'[f].pc \notin Claimed \cup Cancelling
             \/ /\ ClaimPlan(f, p) /\ flow'[f].plan = p /\ flow'[f].key = nextKey /\ flow'[f].pc = "claimed"
             \/ /\ CancelStart(f, p) /\ flow'[f].plan = p /\ flow'[f].pc = "cancel"
  <2>1. CASE ClaimPlan(f, p)
    <3>1. flow'[f] = [IdleFlow EXCEPT !.pc = "claimed", !.plan = p, !.key = nextKey]
      BY <1>0, <2>1 DEF ClaimPlan
    <3> QED BY <2>1, <3>1 DEF IdleFlow
  <2>2. CASE ClaimMisses(f, p)
    <3>1. flow'[f] = [IdleFlow EXCEPT !.pc = "lookup", !.plan = p] BY <1>0, <2>2 DEF ClaimMisses
    <3> QED BY <3>1 DEF IdleFlow, Claimed, BeforeSend, Cancelling
  <2>3. CASE CancelStart(f, p)
    <3>1. flow'[f] = [IdleFlow EXCEPT !.pc = "cancel", !.plan = p, !.ev = found("order", plan[p].ticket)]
      BY <1>0, <2>3 DEF CancelStart
    <3> QED BY <2>3, <3>1 DEF IdleFlow
  <2> QED BY <1>4, <2>1, <2>2, <2>3
<1>5. CASE \E p \in Plans : ClaimPlan(f, p) \/ ClaimMisses(f, p) \/ CancelStart(f, p)
  BY <1>4, <1>5 DEF Claimed, BeforeSend, Cancelling
<1>6. CASE PassExpiry(f) \/ OneActivePlan(f) \/ ReadSymbol(f) \/ SendOrder(f)
  <2>1. PICK pc \in {"gates", "reads", "check", "await"} :
          /\ flow' = [flow EXCEPT ![f].pc = pc]
          /\ pc = "await" => SendOrder(f)
          /\ pc = "reads" => OneActivePlan(f)
          /\ pc = "check" => flow[f].pc = "reads"
    BY <1>6 DEF PassExpiry, OneActivePlan, ReadSymbol, SendOrder
  <2>2. flow[f].pc \in Claimed
    BY <1>6 DEF PassExpiry, OneActivePlan, ReadSymbol, SendOrder, Claimed, BeforeSend
  <2>3. flow'[f].pc = pc /\ flow'[f].plan = flow[f].plan /\ flow'[f].key = flow[f].key
    BY <1>0, <2>1 DEF FlowType
  <2> QED BY <2>1, <2>2, <2>3 DEF AfterGates, Cancelling
<1>7. CASE CancelAtMt5(f)
  <2>1. flow'[f] = IdleFlow \/ (/\ flow'[f].pc = "cancelled" /\ flow'[f].plan = flow[f].plan
                                /\ flow'[f].ev = flow[f].ev)
    BY <1>0, <1>7 DEF CancelAtMt5, FlowType
  <2> QED BY <1>3, <1>7, <2>1 DEF CancelAtMt5, Cancelling, Claimed, BeforeSend
<1>8. CASE Request(f) /\ ~(PassExpiry(f) \/ OneActivePlan(f) \/ ReadSymbol(f) \/ SendOrder(f) \/ CancelAtMt5(f))
  <2>1. Lookup(f) => flow'[f].pc \in {"already", "reclaim", "sweep"} BY <1>0 DEF Lookup, FlowType
  <2>2. AlreadyRead(f) => flow'[f].pc \in {"reclaim", "adopt"}
    <3> HIDE DEF LiveReads, LiveEvidence
    <3> QED BY <1>0 DEF AlreadyRead, FlowType
  <2>3. SweepRead(f) => flow'[f].pc = "settle"
    <3> HIDE DEF LiveReads, LiveEvidence, HistoryEvidence
    <3> QED BY <1>0 DEF SweepRead, FlowType
  <2>4. MarketFilled(f) \/ PendingAnswer(f) \/ FilledAnswer(f) => flow'[f].pc \in {"record", "place"}
    BY <1>0 DEF MarketFilled, PendingAnswer, FilledAnswer, FlowType
  <2>5. RecordPlaced(f) \/ RecordOpened(f) => flow'[f].pc = "audit"
    BY <1>0 DEF RecordPlaced, RecordOpened, FlowType
  <2>6. SweepWrite(f) => flow'[f] = IdleFlow \/ flow'[f].pc = "reclaim"
    BY <1>0 DEF SweepWrite, IdleFlow
  <2>7. AlreadyWrite(f) \/ ReclaimMisses(f) \/ ExpireClaimed(f) \/ GateRejects(f) \/ CancelledAnswer(f)
          \/ AmbiguousAnswer(f) \/ NotConfirmedAnswer(f) \/ RejectedAnswer(f) \/ NoAnswer(f)
          \/ AuditPlacement(f) \/ UnexpectedError(f) \/ CancelFails(f) \/ CancelWrite(f)
          => flow'[f] = IdleFlow
    BY <1>0 DEF AlreadyWrite, ReclaimMisses, ExpireClaimed, GateRejects, CancelledAnswer, AmbiguousAnswer,
       NotConfirmedAnswer, RejectedAnswer, NoAnswer, AuditPlacement, UnexpectedError, CancelFails, CancelWrite
  <2>8. flow'[f].pc \notin Claimed \cup Cancelling
    <3>1. \/ flow'[f] = IdleFlow
          \/ flow'[f].pc \in {"already", "reclaim", "sweep", "adopt", "settle", "record", "place", "audit"}
      BY <1>8, <2>1, <2>2, <2>3, <2>4, <2>5, <2>6, <2>7 DEF Request
    <3> QED BY <1>3, <3>1 DEF Claimed, BeforeSend, Cancelling
  <2> QED BY <1>2, <2>8
<1>9. CASE flow'[f] = IdleFlow BY <1>2, <1>3, <1>9
<1> QED BY <1>1, <1>5, <1>6, <1>7, <1>8, <1>9, FlowFrame

\* A timer chain is moved by itself, begun by its request, or ended by a crash.
LEMMA TimerFrame ==
  ASSUME IInv, [Next]_vars, NEW k \in Keys
  PROVE  \/ bg'[k] = bg[k] \/ bg'[k] = BgOff
         \/ Background(k)
         \/ \E f \in Flows : NotConfirmedAnswer(f) /\ flow[f].key = k
<1>0. bg \in [Keys -> BgType] BY DEF IInv, BgsOK
<1> SUFFICES ASSUME Next, bg'[k] # bg[k]
             PROVE  \/ bg'[k] = BgOff
                    \/ Background(k)
                    \/ \E f \in Flows : NotConfirmedAnswer(f) /\ flow[f].key = k
  BY DEF vars
<1>1. ASSUME NEW p \in Plans
      PROVE  /\ ~SavePlan(p) /\ ~Deadline(p) /\ ~GraceElapses(p) /\ ~ReconcileOutcome(p)
             /\ \A g \in Flows : ~ClaimPlan(g, p) /\ ~ClaimMisses(g, p) /\ ~CancelStart(g, p)
  BY DEF SavePlan, Deadline, GraceElapses, ReconcileOutcome, ClaimPlan, ClaimMisses, CancelStart
<1>2. ASSUME NEW g \in Flows, Request(g) PROVE NotConfirmedAnswer(g) /\ flow[g].key = k
  <2>1. /\ ~Lookup(g) /\ ~AlreadyRead(g) /\ ~AlreadyWrite(g) /\ ~SweepRead(g) /\ ~SweepWrite(g)
        /\ ~ReclaimMisses(g) /\ ~PassExpiry(g) /\ ~ExpireClaimed(g) /\ ~GateRejects(g) /\ ~OneActivePlan(g)
    BY DEF Lookup, AlreadyRead, AlreadyWrite, SweepRead, SweepWrite, ReclaimMisses, PassExpiry,
           ExpireClaimed, GateRejects, OneActivePlan
  <2>2. /\ ~ReadSymbol(g) /\ ~SendOrder(g) /\ ~MarketFilled(g) /\ ~PendingAnswer(g) /\ ~FilledAnswer(g)
        /\ ~CancelledAnswer(g) /\ ~AmbiguousAnswer(g) /\ ~RejectedAnswer(g)
    BY DEF ReadSymbol, SendOrder, MarketFilled, PendingAnswer, FilledAnswer, CancelledAnswer,
           AmbiguousAnswer, RejectedAnswer
  <2>3. /\ ~NoAnswer(g) /\ ~RecordPlaced(g) /\ ~RecordOpened(g) /\ ~AuditPlacement(g) /\ ~UnexpectedError(g)
        /\ ~CancelAtMt5(g) /\ ~CancelFails(g) /\ ~CancelWrite(g)
    BY DEF NoAnswer, RecordPlaced, RecordOpened, AuditPlacement, UnexpectedError, CancelAtMt5,
           CancelFails, CancelWrite
  <2>4. NotConfirmedAnswer(g) BY <1>2, <2>1, <2>2, <2>3 DEF Request
  <2> QED BY <1>0, <2>4 DEF NotConfirmedAnswer
<1>3. ASSUME NEW j \in Keys, Background(j) PROVE j = k
  BY <1>0, <1>3 DEF Background, BgTick, BgRead, BgHistory, BgWrite, BgFails
<1>4. ASSUME NEW r \in Passes, Tick(r) PROVE FALSE
  BY <1>4 DEF Tick, ExpireUnapprovedPlans, SelectStuck, StuckRead, StuckRow, SelectPlaced, PlacedRead,
     StillPending, Triggered, NoLongerPending, PickExpired, CancelExpired, CancelExpiredFails, ExpirePlaced,
     SyncClosedPlans, PassFails
<1>5. ~(\E j \in Keys : Accept(j) \/ Refuse(j) \/ Trigger(j) \/ BrokerCancel(j) \/ ClosePosition(j))
  BY DEF Accept, Refuse, Trigger, BrokerCancel, ClosePosition
<1>6. Crash => bg'[k] = BgOff BY DEF Crash
<1> QED BY <1>1, <1>2, <1>3, <1>4, <1>5, <1>6 DEF Next

\* A chain runs on or is begun; it looks into the history when MT5 no longer
\* has the order, and finds nothing there when there was no fill.
LEMMA TimersMove ==
  ASSUME Calm, IInv, OnceInv, [Next]_vars, NEW k \in Keys
  PROVE  /\ bg'[k].pc # "off" =>
              Running(k) \/ \E f \in Flows : NotConfirmedAnswer(f) /\ flow[f].key = k
         /\ bg'[k].pc = "history" => order[k] = "refused" \/ Ended(k)
         /\ bg'[k].pc = "write" /\ bg'[k].ev = NoEvidence => order[k] \in {"refused", "cancelled"}
<1>0. bg \in [Keys -> BgType] /\ bg[k] \in BgType /\ order[k] \in OrderState BY Known DEF IInv, BgsOK
<1>1. CASE bg'[k] = bg[k] BY <1>1 DEF OnceInv, BgInv, Running
<1>2. CASE bg'[k] = BgOff BY <1>2 DEF BgOff
<1>3. CASE \E f \in Flows : NotConfirmedAnswer(f) /\ flow[f].key = k
  <2>1. bg'[k].pc = "tick" BY <1>0, <1>3 DEF NotConfirmedAnswer, BgOff
  <2> QED BY <1>3, <2>1
<1>4. CASE Background(k)
  <2>1. Running(k) BY <1>4 DEF Background, BgTick, BgRead, BgHistory, BgWrite, BgFails, Running
  <2>2. CASE BgTick(k)
    <3>1. bg'[k] = BgOff \/ bg'[k].pc = "read" BY <1>0, <2>2 DEF BgTick, BgType
    <3> QED BY <1>2, <2>1, <3>1
  <2>3. CASE BgRead(k)
    <3>1. PICK read \in LiveReads : \E ev \in LiveEvidence(owner[k], read.view) :
            bg' = [bg EXCEPT ![k] =
                     CASE ev # NoEvidence         -> [@ EXCEPT !.pc = "write", !.ev = ev]
                       [] ev = NoEvidence /\ bg[k].attempt < Attempts
                                                  -> [@ EXCEPT !.pc = "tick", !.attempt = bg[k].attempt + 1]
                       [] OTHER                   -> [@ EXCEPT !.pc = "history"]]
      <4> HIDE DEF LiveReads, LiveEvidence
      <4> QED BY <2>3 DEF BgRead
    <3>2. PICK ev \in LiveEvidence(owner[k], read.view) :
            bg' = [bg EXCEPT ![k] =
                     CASE ev # NoEvidence         -> [@ EXCEPT !.pc = "write", !.ev = ev]
                       [] ev = NoEvidence /\ bg[k].attempt < Attempts
                                                  -> [@ EXCEPT !.pc = "tick", !.attempt = bg[k].attempt + 1]
                       [] OTHER                   -> [@ EXCEPT !.pc = "history"]]
      BY <3>1
    <3> HIDE DEF LiveReads, LiveEvidence, NoEvidence
    <3>3. \/ bg'[k].pc = "write" /\ bg'[k].ev = ev /\ ev # NoEvidence
          \/ bg'[k].pc = "tick"
          \/ bg'[k].pc = "history" /\ ev = NoEvidence /\ ~(bg[k].attempt < Attempts)
      BY <1>0, <3>2 DEF BgType
    <3>4. bg[k].attempt \in 0 .. Attempts BY <1>0 DEF BgType
    <3>5. ev = NoEvidence => order[k] \notin {"pending", "open"}
      <4>1. read.view = CurrentView BY CalmReads
      <4>2. k \in read.view.orders <=> order[k] = "pending" BY <4>1, Shown
      <4>3. k \in read.view.positions <=> order[k] = "open" BY <4>1, Shown
      <4> DEFINE O == {j \in read.view.orders : owner[j] = owner[k]}
                 P == {j \in read.view.positions : owner[j] = owner[k]}
      <4>4. ev \in IF O # {} THEN {found("order", j) : j \in O}
                   ELSE IF P # {} THEN {found("position", j) : j \in P} ELSE {NoEvidence}
        BY <3>2 DEF LiveEvidence
      <4>5. \A j : found("order", j) # NoEvidence /\ found("position", j) # NoEvidence
        BY DEF found, NoEvidence
      <4>6. order[k] = "pending" => O # {} BY <4>2
      <4>7. order[k] = "open" => P # {} BY <4>3
      <4> HIDE DEF O, P
      <4> QED BY <4>4, <4>5, <4>6, <4>7
    <3>6. bg'[k].pc = "history" => order[k] = "refused" \/ Ended(k)
      <4> SUFFICES ASSUME bg'[k].pc = "history" PROVE order[k] = "refused" \/ Ended(k) OBVIOUS
      <4>1. ev = NoEvidence /\ bg[k].attempt = Attempts BY <3>3, <3>4, BoundsAssumption
      <4>2. order[k] # "inflight" BY <2>3, <4>1 DEF BgRead, Calm
      <4>3. order[k] # "none" /\ order[k] # "rejected" BY <2>1 DEF OnceInv, BgInv, RowsInv, KeyRow
      <4> QED BY <1>0, <3>5, <4>1, <4>2, <4>3 DEF OrderState, Ended
    <3> QED BY <2>1, <3>3, <3>6
  <2>4. CASE BgHistory(k)
    <3>1. PICK ev \in HistoryEvidence(owner[k]) : bg' = [bg EXCEPT ![k].pc = "write", ![k].ev = ev]
      BY <2>4 DEF BgHistory
    <3>2. bg'[k].pc = "write" /\ bg'[k].ev = ev
      <4> HIDE DEF HistoryEvidence
      <4> QED BY <1>0, <3>1 DEF BgType
    <3>3. order[k] = "refused" \/ Ended(k) BY <2>4 DEF BgHistory, OnceInv, BgInv
    <3>4. ev = NoEvidence => ~Filled(k)
      <4>1. {j \in Keys : owner[j] = owner[k] /\ Filled(j)} = {} \/ \E j \in Keys : ev = found("position", j)
        BY <3>1 DEF HistoryEvidence, Calm
      <4>2. \A j : found("position", j) # NoEvidence BY DEF found, NoEvidence
      <4> QED BY <4>1, <4>2
    <3> QED BY <2>1, <3>2, <3>3, <3>4 DEF Ended, Filled
  <2>5. CASE BgWrite(k) \/ BgFails(k) BY <1>0, <1>2, <2>5 DEF BgWrite, BgFails
  <2> QED BY <1>4, <2>2, <2>3, <2>4, <2>5 DEF Background
<1> QED BY <1>1, <1>2, <1>3, <1>4, TimerFrame

-----------------------------------------------------------------------------
(* The conjuncts, one by one.                                              *)

Busy(k) == Sent(k) \/ Running(k)

\* A claim keeps its plan, and only a new claim gets one.
LEMMA OwnersKeep ==
  ASSUME IInv, [Next]_vars, NEW k \in Keys
  PROVE  \/ owner'[k] = owner[k]
         \/ /\ order[k] = "none" /\ ~Running(k) /\ k = nextKey
            /\ \E f \in Flows, p \in Plans : ClaimPlan(f, p) /\ owner'[k] = p
<1>0. KeysOK(owner, order, nextKey) BY DEF IInv
<1>1. CASE \E f \in Flows, p \in Plans : ClaimPlan(f, p)
  <2> PICK f \in Flows, p \in Plans : ClaimPlan(f, p) BY <1>1
  <2>1. owner' = [owner EXCEPT ![nextKey] = p] /\ nextKey \in Keys BY DEF ClaimPlan
  <2>2. CASE k # nextKey BY <1>0, <2>1, <2>2 DEF KeysOK
  <2>3. CASE k = nextKey
    <3>1. owner[k] = NoPlan /\ order[k] = "none" BY <1>0, <2>3, BoundsAssumption DEF KeysOK, Keys
    <3>2. ~Running(k) BY <3>1, Known, PlansAssumption
    <3> QED BY <1>0, <2>1, <2>3, <3>1, <3>2 DEF KeysOK
  <2> QED BY <2>2, <2>3
<1>2. CASE owner' = owner BY <1>2
<1>3. owner' = owner \/ \E f \in Flows, p \in Plans : ClaimPlan(f, p)
  <2> SUFFICES ASSUME Next, owner' # owner PROVE \E f \in Flows, p \in Plans : ClaimPlan(f, p) BY DEF vars
  <2>1. ASSUME NEW p \in Plans
        PROVE  /\ ~SavePlan(p) /\ ~Deadline(p) /\ ~GraceElapses(p) /\ ~ReconcileOutcome(p)
               /\ \A g \in Flows : ~ClaimMisses(g, p) /\ ~CancelStart(g, p)
    BY DEF SavePlan, Deadline, GraceElapses, ReconcileOutcome, ClaimMisses, CancelStart
  <2>2. ASSUME NEW g \in Flows PROVE ~Request(g)
    BY DEF Request, Lookup, AlreadyRead, AlreadyWrite, SweepRead, SweepWrite, ReclaimMisses, PassExpiry,
           ExpireClaimed, GateRejects, OneActivePlan, ReadSymbol, SendOrder, MarketFilled, PendingAnswer,
           FilledAnswer, CancelledAnswer, AmbiguousAnswer, NotConfirmedAnswer, RejectedAnswer, NoAnswer,
           RecordPlaced, RecordOpened, AuditPlacement, UnexpectedError, CancelAtMt5, CancelFails, CancelWrite
  <2>3. ASSUME NEW j \in Keys PROVE ~Background(j)
    BY DEF Background, BgTick, BgRead, BgHistory, BgWrite, BgFails
  <2>4. ASSUME NEW r \in Passes PROVE ~Tick(r)
    BY DEF Tick, ExpireUnapprovedPlans, SelectStuck, StuckRead, StuckRow, SelectPlaced, PlacedRead,
       StillPending, Triggered, NoLongerPending, PickExpired, CancelExpired, CancelExpiredFails, ExpirePlaced,
       SyncClosedPlans, PassFails
  <2>5. ~(\E j \in Keys : Accept(j) \/ Refuse(j) \/ Trigger(j) \/ BrokerCancel(j) \/ ClosePosition(j)) /\ ~Crash
    BY DEF Accept, Refuse, Trigger, BrokerCancel, ClosePosition, Crash
  <2> QED BY <2>1, <2>2, <2>3, <2>4, <2>5 DEF Next
<1> QED BY <1>1, <1>2, <1>3

\* An order or a chain is new only to the request that claimed.
LEMMA BusyMoves ==
  ASSUME Calm, IInv, OnceInv, [Next]_vars, NEW k \in Keys, Busy(k)'
  PROVE  /\ owner'[k] = owner[k]
         /\ Busy(k) \/ \E f \in Flows : flow[f].pc \in Claimed /\ flow[f].key = k
         /\ Running(k)' => \/ Running(k)
                           \/ \E f \in Flows : flow[f].pc \in Claimed /\ flow[f].key = k /\ flow'[f] = IdleFlow
<1>1. OrderMove(k) BY OrdersMove
<1>2. Sent(k)' => Sent(k) \/ \E f \in Flows : SendOrder(f) /\ flow[f].key = k
  BY <1>1 DEF OrderMove, Sent
<1>3. Running(k)' => Running(k) \/ \E f \in Flows : NotConfirmedAnswer(f) /\ flow[f].key = k
  BY TimersMove DEF Running
<1>4. \A f \in Flows : SendOrder(f) => flow[f].pc \in Claimed BY DEF SendOrder, Claimed, BeforeSend
<1>5. \A f \in Flows : NotConfirmedAnswer(f) => flow[f].pc \in Claimed /\ flow'[f] = IdleFlow
  BY DEF NotConfirmedAnswer, AwaitsPending, Claimed, IInv, FlowsOK
<1>6. owner'[k] = owner[k]
  <2> SUFFICES ASSUME owner'[k] # owner[k] PROVE FALSE OBVIOUS
  <2>1. PICK g \in Flows, p \in Plans : ClaimPlan(g, p) BY OwnersKeep
  <2>2. order[k] = "none" /\ ~Running(k) BY OwnersKeep
  <2>3. order' = order /\ bg' = bg BY <2>1 DEF ClaimPlan
  <2> QED BY <2>2, <2>3 DEF Busy, Sent, Running
<1> QED BY <1>2, <1>3, <1>4, <1>5, <1>6 DEF Busy

\* A plan that can be claimed is free.
LEMMA ClaimsFree ==
  ASSUME IInv, OnceInv, NEW f \in Flows, NEW p \in Plans, ClaimPlan(f, p)
  PROVE  Free(p) /\ \A g \in Flows \ {f} : flow'[g] = flow[g]
<1>1. plan[p].status = "WAITING_FOR_APPROVAL" BY DEF ClaimPlan, isApprovable
<1>2. Free(p) BY <1>1, UnboundIsFree DEF Bound, ActivePlan
<1> QED BY <1>2 DEF ClaimPlan, IInv, FlowsOK

\* A plan has one claim in use at a time, and one request uses it.
LEMMA SoleStep ==
  ASSUME Calm, IInv, OnceInv, [Next]_vars
  PROVE  SoleInv'
<1>1. ASSUME NEW j \in Keys, NEW k \in Keys, Busy(j)', Busy(k)', owner'[j] = owner'[k] PROVE j = k
  <2>1. owner[j] = owner[k] BY <1>1, BusyMoves
  <2>2. CASE Busy(j) /\ Busy(k) BY <2>1, <2>2 DEF OnceInv, SoleInv, Busy
  <2>3. ASSUME NEW x \in Keys, NEW y \in Keys, owner[x] = owner[y], Busy(x),
               \E f \in Flows : flow[f].pc \in Claimed /\ flow[f].key = y
        PROVE  x = y
    <3> PICK f \in Flows : flow[f].pc \in Claimed /\ flow[f].key = y BY <2>3
    <3>1. owner[x] = flow[f].plan BY <2>3, ClaimFacts
    <3> QED BY <2>3, <3>1 DEF OnceInv, SoleInv, Busy
  <2>4. CASE ~Busy(j) /\ ~Busy(k)
    <3>1. PICK f \in Flows : flow[f].pc \in Claimed /\ flow[f].key = j BY <1>1, <2>4, BusyMoves
    <3>2. PICK g \in Flows : flow[g].pc \in Claimed /\ flow[g].key = k BY <1>1, <2>4, BusyMoves
    <3>3. flow[f].plan = flow[g].plan BY <2>1, <3>1, <3>2, ClaimFacts
    <3> QED BY <3>1, <3>2, <3>3 DEF OnceInv, SoleInv
  <2> QED BY <1>1, <2>1, <2>2, <2>3, <2>4, BusyMoves
<1>2. ASSUME NEW f \in Flows, NEW k \in Keys, flow'[f].pc \in Claimed, owner'[k] = flow'[f].plan, Busy(k)'
      PROVE  ~Running(k)' /\ (Sent(k)' => k = flow'[f].key)
  <2>1. owner'[k] = owner[k] BY <1>2, BusyMoves
  <2>2. CASE ClaimPlan(f, flow'[f].plan) /\ flow'[f].plan \in Plans
    <3>1. Free(flow'[f].plan) BY <2>2, ClaimsFree
    <3>2. ~Busy(k) BY <1>2, <2>1, <3>1 DEF Free, Busy
    <3>3. order' = order /\ bg' = bg BY <2>2 DEF ClaimPlan
    <3> QED BY <1>2, <3>2, <3>3 DEF Busy, Sent, Running
  <2>3. CASE flow[f].pc \in Claimed /\ flow'[f].plan = flow[f].plan /\ flow'[f].key = flow[f].key
    <3>1. ~Running(k) /\ (Sent(k) => k = flow[f].key)
      BY <1>2, <2>1, <2>3 DEF OnceInv, SoleInv
    <3>2. ASSUME NEW g \in Flows, flow[g].pc \in Claimed, flow[g].key = k PROVE g = f
      <4>1. flow[g].plan = flow[f].plan BY <1>2, <2>1, <2>3, <3>2, ClaimFacts
      <4> QED BY <2>3, <3>2, <4>1 DEF OnceInv, SoleInv
    <3>3. ~Running(k)'
      <4>1. IdleFlow.pc \notin Claimed BY DEF IdleFlow, Claimed, BeforeSend
      <4> QED BY <1>2, <3>1, <3>2, <4>1, BusyMoves
    <3>4. k = flow[f].key BY <1>2, <3>1, <3>2, BusyMoves DEF Busy
    <3> QED BY <2>3, <3>3, <3>4
  <2> QED BY <1>2, <2>2, <2>3, RequestsMove
<1>3. ASSUME NEW f \in Flows, NEW g \in Flows, flow'[f].pc \in Claimed, flow'[g].pc \in Claimed,
             flow'[f].plan = flow'[g].plan
      PROVE  f = g
  <2>1. ASSUME NEW x \in Flows, NEW y \in Flows, x # y, flow'[x].plan = flow'[y].plan, flow'[y].pc \in Claimed,
               ClaimPlan(x, flow'[x].plan), flow'[x].plan \in Plans
        PROVE  FALSE
    <3>1. Free(flow'[x].plan) /\ flow'[y] = flow[y] BY <2>1, ClaimsFree
    <3> QED BY <2>1, <3>1 DEF Free
  <2>2. CASE flow[f].pc \in Claimed /\ flow[g].pc \in Claimed
             /\ flow'[f].plan = flow[f].plan /\ flow'[g].plan = flow[g].plan
    BY <1>3, <2>2 DEF OnceInv, SoleInv
  <2> QED BY <1>3, <2>1, <2>2, RequestsMove
<1>4. ASSUME NEW k \in Keys, ~Busy(k)' PROVE ~Sent(k)' /\ ~Running(k)' BY <1>4 DEF Busy
<1> QED BY <1>1, <1>2, <1>3, <1>4 DEF SoleInv, Busy, Sent, Running

\* Who writes a record.
LEMMA OutcomeFrame ==
  ASSUME [Next]_vars
  PROVE  \/ outcome' = outcome
         \/ \E f \in Flows : RecordOpened(f)
         \/ \E r \in Passes : Triggered(r)
         \/ \E p \in Plans : ReconcileOutcome(p)
<1> SUFFICES ASSUME Next, outcome' # outcome
             PROVE  \/ \E f \in Flows : RecordOpened(f)
                    \/ \E r \in Passes : Triggered(r)
                    \/ \E p \in Plans : ReconcileOutcome(p)
  BY DEF vars
<1>1. ASSUME NEW p \in Plans
      PROVE  /\ ~SavePlan(p) /\ ~Deadline(p) /\ ~GraceElapses(p)
             /\ \A g \in Flows : ~ClaimPlan(g, p) /\ ~ClaimMisses(g, p) /\ ~CancelStart(g, p)
  BY DEF SavePlan, Deadline, GraceElapses, ClaimPlan, ClaimMisses, CancelStart
<1>2. ASSUME NEW g \in Flows, Request(g) PROVE RecordOpened(g)
  BY <1>2
     DEF Request, Lookup, AlreadyRead, AlreadyWrite, SweepRead, SweepWrite, ReclaimMisses, PassExpiry,
         ExpireClaimed, GateRejects, OneActivePlan, ReadSymbol, SendOrder, MarketFilled, PendingAnswer,
         FilledAnswer, CancelledAnswer, AmbiguousAnswer, NotConfirmedAnswer, RejectedAnswer, NoAnswer,
         RecordPlaced, AuditPlacement, UnexpectedError, CancelAtMt5, CancelFails, CancelWrite
<1>3. ASSUME NEW j \in Keys PROVE ~Background(j)
  BY DEF Background, BgTick, BgRead, BgHistory, BgWrite, BgFails
<1>4. ASSUME NEW r \in Passes, Tick(r) PROVE Triggered(r)
  BY <1>4
     DEF Tick, ExpireUnapprovedPlans, SelectStuck, StuckRead, StuckRow, SelectPlaced, PlacedRead,
         StillPending, NoLongerPending, PickExpired, CancelExpired, CancelExpiredFails, ExpirePlaced,
         SyncClosedPlans, PassFails
<1>5. ~(\E j \in Keys : Accept(j) \/ Refuse(j) \/ Trigger(j) \/ BrokerCancel(j) \/ ClosePosition(j)) /\ ~Crash
  BY DEF Accept, Refuse, Trigger, BrokerCancel, ClosePosition, Crash
<1> QED BY <1>1, <1>2, <1>3, <1>4, <1>5 DEF Next

\* A record is added for a fill of the plan, and closed after it; orders stand
\* still meanwhile.
LEMMA OutcomesMove ==
  ASSUME Calm, IInv, OnceInv, [Next]_vars, outcome' # outcome
  PROVE  /\ order' = order /\ owner' = owner
         /\ \E p \in Plans :
              /\ \A q \in Plans \ {p} : outcome'[q] = outcome[q]
              /\ \/ outcome[p].state = "none" /\ outcome'[p].state = "open"
                    /\ \E k \in Keys : owner[k] = p /\ Filled(k)
                 \/ /\ outcome[p].state = "open" /\ outcome'[p].state = "closed"
                    /\ outcome'[p].ticket = outcome[p].ticket /\ order[outcome[p].ticket] = "closed"
<1>0. outcome \in [Plans -> OutcomeType] /\ \A p \in Plans : OutcomeOK(p, outcome[p], owner, order)
  BY DEF IInv, OutcomesOK
<1>1. order' = order /\ owner' = owner
  BY OutcomeFrame DEF RecordOpened, Triggered, ReconcileOutcome
<1>2. ASSUME NEW p \in Plans, NEW k \in Keys, owner[k] = p, Filled(k),
             outcome' = [outcome EXCEPT ![p] = insertOutcome(@, k)]
      PROVE  /\ \A q \in Plans \ {p} : outcome'[q] = outcome[q]
             /\ outcome[p].state = "none" /\ outcome'[p].state = "open"
  <2>1. outcome[p].state # "none" => outcome' = outcome BY <1>0, <1>2 DEF insertOutcome
  <2> QED BY <1>0, <1>2, <2>1 DEF insertOutcome
<1>3. ASSUME NEW f \in Flows, RecordOpened(f)
      PROVE  \E p \in Plans, k \in Keys : /\ owner[k] = p /\ Filled(k)
                                          /\ outcome' = [outcome EXCEPT ![p] = insertOutcome(@, k)]
  <2>1. FlowOK(flow[f], owner, order, nextKey) /\ flow[f].plan \in Plans /\ flow[f].pc = "record"
    BY <1>3, FlowFacts DEF RecordOpened
  <2>2. /\ flow[f].ev.key \in Keys /\ owner[flow[f].ev.key] = flow[f].plan /\ Filled(flow[f].ev.key)
    BY <2>1 DEF FlowOK, Knowing, EvidenceOK, FilledIn, Filled, Names, Calm
  <2>3. outcome' = [outcome EXCEPT ![flow[f].plan] = insertOutcome(@, flow[f].ev.key)]
    BY <1>3 DEF RecordOpened, AnsweredTickets, Calm
  <2> QED BY <2>1, <2>2, <2>3
<1>4. ASSUME NEW r \in Passes, Triggered(r)
      PROVE  \E p \in Plans, k \in Keys : /\ owner[k] = p /\ Filled(k)
                                          /\ outcome' = [outcome EXCEPT ![p] = insertOutcome(@, k)]
  <2>1. PICK c \in pass[r].rows : \E k \in pass[r].view.positions :
          owner[k] = c.plan /\ outcome' = [outcome EXCEPT ![c.plan] = insertOutcome(@, k)]
    BY <1>4 DEF Triggered
  <2>2. PICK k \in pass[r].view.positions :
          owner[k] = c.plan /\ outcome' = [outcome EXCEPT ![c.plan] = insertOutcome(@, k)]
    BY <2>1
  <2>3. c.plan \in Plans /\ k \in Keys /\ Filled(k)
    BY PassFacts DEF PickType, ViewType, PassOK, FilledIn, Filled
  <2> QED BY <2>2, <2>3
<1>5. ASSUME NEW p \in Plans, ReconcileOutcome(p)
      PROVE  /\ \A q \in Plans \ {p} : outcome'[q] = outcome[q]
             /\ outcome[p].state = "open" /\ outcome'[p].state = "closed"
             /\ outcome'[p].ticket = outcome[p].ticket /\ order[outcome[p].ticket] = "closed"
  <2>1. outcome[p].state = "open" BY <1>5 DEF ReconcileOutcome
  <2>2. order[outcome[p].ticket] = "closed" /\ outcome[p].ticket \in Keys /\ outcome[p].ticket # NoTicket
    <3>1. outcome[p].ticket \in Keys /\ FilledIn(order, outcome[p].ticket)
      BY <1>0, <2>1 DEF OutcomeOK, Calm
    <3>2. outcome[p].ticket # NoTicket BY <3>1, BoundsAssumption DEF Keys, NoTicket
    <3> QED BY <1>5, <3>1, <3>2 DEF ReconcileOutcome, FilledIn, Calm
  <2>3. outcome' = [outcome EXCEPT ![p].state = "closed"] BY <1>5, <2>2 DEF ReconcileOutcome, Calm
  <2>4. outcome[p] \in [state: {"open", "closed", "failed"}, ticket: Tickets]
    BY <1>0, <2>1 DEF OutcomeType, NoOutcome
  <2> QED BY <1>0, <2>1, <2>2, <2>3, <2>4
<1>6. CASE \E p \in Plans : ReconcileOutcome(p) BY <1>1, <1>5, <1>6
<1>7. CASE \E p \in Plans, k \in Keys : /\ owner[k] = p /\ Filled(k)
                                        /\ outcome' = [outcome EXCEPT ![p] = insertOutcome(@, k)]
  <2> PICK p \in Plans, k \in Keys : /\ owner[k] = p /\ Filled(k)
                                     /\ outcome' = [outcome EXCEPT ![p] = insertOutcome(@, k)]
    BY <1>7
  <2> QED BY <1>1, <1>2
<1> QED BY <1>3, <1>4, <1>6, <1>7, OutcomeFrame

\* The other ways of a row leave no claim in use but the one they tell of.
LEMMA RowsMoveOf ==
  ASSUME Calm, IInv, OnceInv, [Next]_vars, NEW k \in Keys, Sent(k)
  PROVE  LET p == owner[k] IN
         /\ p \in Plans /\ owner'[k] = p
         /\ \/ plan'[p] = plan[p]
            \/ GraceElapses(p)
            \/ AcceptedIn(order, k) /\ Told(p, plan'[p], k)
<1> DEFINE p == owner[k]
<1>1. p \in Plans /\ owner'[k] = p BY Known, OwnersKeep DEF Sent
<1>2. ~Free(p) BY DEF Free
<1>3. ~\E f \in Flows : ClaimPlan(f, p) BY <1>1, <1>2, ClaimsFree
<1>4. ~Dropped(p)
  <2> SUFFICES ASSUME Dropped(p) PROVE FALSE OBVIOUS
  <2>1. CASE \E f \in Flows : flow[f].pc \in Claimed /\ flow[f].plan = p /\ ~Sent(flow[f].key)
    BY <2>1 DEF OnceInv, SoleInv
  <2>2. CASE \E j \in Keys : owner[j] = p /\ order[j] = "refused" /\ Running(j)
    BY <2>2 DEF OnceInv, SoleInv, Sent
  <2> QED BY <2>1, <2>2 DEF Dropped
<1>5. ASSUME NEW j \in Keys, Told(p, plan'[p], j) PROVE j = k
  <2>1. Sent(j) BY <1>5 DEF Told, AcceptedIn, Sent
  <2> QED BY <1>5, <2>1 DEF OnceInv, SoleInv, Told
<1>6. RowMove(p) BY <1>1, RowsMove
<1> QED BY <1>1, <1>2, <1>3, <1>4, <1>5, <1>6 DEF RowMove, Told

\* What a new claim, an aged row and a dropped one look like.
LEMMA NewRows ==
  ASSUME IInv, NEW p \in Plans
  PROVE  /\ \A f \in Flows : ClaimPlan(f, p) =>
              plan'[p].status = "PENDING_ORDER_SUBMITTING" /\ ~plan'[p].aged
         /\ GraceElapses(p) => /\ Submitting(p) /\ plan'[p].status = plan[p].status /\ plan'[p].aged
                               /\ order' = order /\ owner' = owner /\ flow' = flow /\ bg' = bg /\ pass' = pass
<1>1. plan \in [Plans -> RowType] BY DEF IInv, PlansOK
<1>2. ASSUME NEW f \in Flows, ClaimPlan(f, p)
      PROVE  plan'[p].status = "PENDING_ORDER_SUBMITTING" /\ ~plan'[p].aged
  <2>1. plan'[p] = claimPlanForApproval(plan[p]) BY <1>1, <1>2 DEF ClaimPlan
  <2> QED BY <2>1 DEF claimPlanForApproval, Unlocked
<1>3. ASSUME GraceElapses(p)
      PROVE  /\ Submitting(p) /\ plan'[p].status = plan[p].status /\ plan'[p].aged
             /\ order' = order /\ owner' = owner /\ flow' = flow /\ bg' = bg /\ pass' = pass
  <2>1. plan'[p] = [plan[p] EXCEPT !.aged = TRUE] BY <1>1, <1>3 DEF GraceElapses
  <2>2. plan[p] \in RowType BY <1>1
  <2> QED BY <1>3, <2>1, <2>2 DEF GraceElapses, RowType
<1> QED BY <1>2, <1>3

\* A fill stays, and stays with its plan.
LEMMA FillsKeep ==
  ASSUME Calm, IInv, OnceInv, [Next]_vars, NEW k \in Keys, Filled(k)
  PROVE  owner'[k] = owner[k] /\ Filled(k)' /\ (order[k] = "closed" => order'[k] = "closed")
<1>1. OrderMove(k) BY OrdersMove
<1>2. owner'[k] = owner[k] BY OwnersKeep DEF Filled
<1> QED BY <1>1, <1>2 DEF OrderMove, Filled

\* The row of a claim is never behind what MT5 has of it.
LEMMA RowsStep ==
  ASSUME Calm, IInv, OnceInv, [Next]_vars
  PROVE  RowsInv'
<1>1. ASSUME NEW k \in Keys PROVE KeyRow(k)'
  <2>1. KeyRow(k) /\ order[k] \in OrderState BY Known DEF OnceInv, RowsInv
  <2>2. CASE order' # order
    <3>1. OrderMove(k) /\ plan' = plan /\ owner' = owner BY <2>2, OrdersMove
    <3>2. ASSUME NEW f \in Flows, SendOrder(f), flow[f].key = k, order[k] = "none" PROVE Fresh(owner[k])
      <4>1. flow[f].pc \in Claimed BY <3>2 DEF SendOrder, Claimed, BeforeSend
      <4>2. owner[k] = flow[f].plan /\ ~Sent(flow[f].key) BY <3>2, <4>1, ClaimFacts DEF Sent
      <4> QED BY <4>1, <4>2, UnsentFresh
    <3>3. order'[k] = "inflight" => order[k] = "inflight" \/ Fresh(owner[k]) BY <3>1, <3>2 DEF OrderMove
    <3>4. order'[k] = "inflight" => Fresh(owner[k]) BY <2>1, <3>3 DEF KeyRow
    <3>5. AcceptedIn(order', k) =>
            /\ plan[owner[k]].status \in Bound
            /\ Submitting(owner[k]) => order'[k] \in {"pending", "open"}
            /\ order'[k] \in {"pending", "open"} => plan[owner[k]].status \in ActivePlan
      BY <2>1, <3>1 DEF OrderMove, KeyRow, AcceptedIn, Live, Fresh, Submitting, Bound, ActivePlan
    <3>6. order'[k] # "rejected" BY <2>1, <3>1 DEF OrderMove, KeyRow
    <3> QED BY <3>1, <3>4, <3>5, <3>6 DEF KeyRow, Fresh, Submitting, Live, AcceptedIn
  <2>3. CASE order' = order /\ ~Sent(k)
    BY <2>1, <2>3 DEF Sent, KeyRow, AcceptedIn, OrderState
  <2>4. CASE order' = order /\ Sent(k)
    <3> DEFINE p == owner[k]
    <3>1. p \in Plans /\ owner'[k] = p BY <2>4, RowsMoveOf
    <3>2. CASE plan'[p] = plan[p]
      BY <2>1, <2>4, <3>1, <3>2 DEF KeyRow, Fresh, Submitting, Live, AcceptedIn
    <3>3. CASE GraceElapses(p)
      <4>1. order[k] # "inflight" BY <3>3 DEF GraceElapses, Calm
      <4>2. plan'[p].status = plan[p].status BY <3>1, <3>3, NewRows
      <4> QED BY <2>1, <2>4, <3>1, <4>1, <4>2 DEF KeyRow, Submitting, Live, AcceptedIn
    <3>4. CASE AcceptedIn(order, k) /\ Told(p, plan'[p], k)
      <4>1. order'[k] # "inflight" BY <2>4, <3>4 DEF AcceptedIn
      <4>2. plan'[p].status \in Bound /\ plan'[p].status # "PENDING_ORDER_SUBMITTING"
        BY <3>4 DEF Told, Bound, ActivePlan
      <4>3. Live(k) => plan'[p].status \in ActivePlan BY <3>4 DEF Told, ActivePlan, Live, Ended
      <4> QED BY <2>1, <2>4, <3>1, <4>1, <4>2, <4>3 DEF KeyRow, Submitting, Live
    <3> QED BY <2>4, <3>2, <3>3, <3>4, RowsMoveOf
  <2> QED BY <2>2, <2>3, <2>4
<1>2. ASSUME NEW p \in Plans, plan'[p].status = "POSITION_OPEN"
      PROVE  \E k \in Keys : owner'[k] = p /\ Filled(k)'
  <2>1. \E k \in Keys : owner[k] = p /\ Filled(k)
    <3>1. CASE plan'[p] = plan[p] BY <1>2, <3>1 DEF OnceInv, RowsInv
    <3>2. CASE \E k \in Keys : Told(p, plan'[p], k) BY <1>2, <3>2 DEF Told
    <3>3. ~GraceElapses(p) /\ ~(\E f \in Flows : ClaimPlan(f, p)) BY <1>2, NewRows DEF Submitting
    <3>4. plan'[p].status \in ActivePlan BY <1>2 DEF ActivePlan
    <3>5. RowMove(p) BY RowsMove
    <3> QED BY <1>2, <3>1, <3>2, <3>3, <3>4, <3>5 DEF RowMove
  <2> QED BY <2>1, FillsKeep
<1>3. ASSUME NEW p \in Plans
      PROVE  outcome'[p].state # "failed"
             /\ (outcome'[p].state = "closed" => order'[outcome'[p].ticket] = "closed")
  <2>1. /\ outcome[p].state # "failed"
        /\ outcome[p].state = "closed" => order[outcome[p].ticket] = "closed"
    BY DEF OnceInv, RowsInv
  <2>3. CASE outcome' = outcome
    <3>1. outcome[p].state = "closed" => outcome[p].ticket \in Keys
      BY DEF IInv, OutcomesOK, OutcomeOK, Calm
    <3>2. outcome[p].state = "closed" => order'[outcome[p].ticket] = "closed"
      BY <2>1, <3>1, FillsKeep DEF Filled
    <3> QED BY <2>1, <2>3, <3>2
  <2>4. CASE outcome' # outcome
    <3>1. order' = order BY <2>4, OutcomesMove
    <3>2. PICK q \in Plans :
            /\ \A x \in Plans \ {q} : outcome'[x] = outcome[x]
            /\ \/ outcome[q].state = "none" /\ outcome'[q].state = "open"
               \/ /\ outcome[q].state = "open" /\ outcome'[q].state = "closed"
                  /\ outcome'[q].ticket = outcome[q].ticket /\ order[outcome[q].ticket] = "closed"
      BY <2>4, OutcomesMove
    <3> QED BY <2>1, <3>1, <3>2
  <2> QED BY <2>3, <2>4
<1> QED BY <1>1, <1>2, <1>3 DEF RowsInv

\* A request knows its claim while it holds it, and one that cancels an order
\* finds the plan past its submission.
LEMMA RequestsStep ==
  ASSUME Calm, IInv, OnceInv, [Next]_vars
  PROVE  FlowInv'
<1>1. ASSUME NEW f \in Flows, flow'[f].pc \in Claimed, ~AcceptedIn(order', flow'[f].key)
      PROVE  Fresh(flow[f].plan)'
  <2> DEFINE p == flow[f].plan  k == flow[f].key
  <2>1. CASE ClaimPlan(f, flow'[f].plan) /\ flow'[f].plan \in Plans
    BY <2>1, NewRows DEF Fresh, Submitting
  <2>2. CASE flow[f].pc \in Claimed /\ flow'[f].plan = p /\ flow'[f].key = k
    <3>1. p \in Plans /\ k \in Keys /\ owner[k] = p BY <2>2, ClaimFacts
    <3>2. ~AcceptedIn(order, k) BY <1>1, <2>2, <3>1, OrdersMove DEF OrderMove, AcceptedIn
    <3>3. Fresh(p) BY <2>2, <3>2 DEF OnceInv, FlowInv
    <3>4. ~Free(p) BY <2>2 DEF Free
    <3>5. ~(\E g \in Flows : ClaimPlan(g, p)) BY <3>1, <3>4, ClaimsFree
    <3>6. ~GraceElapses(p)
      <4>1. k # NoTicket BY <3>1, BoundsAssumption DEF Keys, NoTicket
      <4> QED BY <4>1 DEF GraceElapses, Calm
    <3>7. ~Dropped(p)
      <4>1. IdleFlow.pc \notin Claimed BY DEF IdleFlow, Claimed, BeforeSend
      <4>2. \A g \in Flows : flow[g].pc \in Claimed /\ flow[g].plan = p => g = f
        BY <2>2 DEF OnceInv, SoleInv
      <4>3. \A j \in Keys : owner[j] = p => ~Running(j) BY <2>2 DEF OnceInv, SoleInv
      <4> QED BY <1>1, <4>1, <4>2, <4>3 DEF Dropped
    <3>8. ASSUME NEW j \in Keys PROVE ~Told(p, plan'[p], j)
      BY <2>2, <3>2 DEF Told, AcceptedIn, Sent, OnceInv, SoleInv
    <3>9. plan'[p] = plan[p] BY <3>1, <3>4, <3>5, <3>6, <3>7, <3>8, RowsMove DEF RowMove
    <3> QED BY <2>2, <3>3, <3>9 DEF Fresh, Submitting
  <2> QED BY <1>1, <2>1, <2>2, RequestsMove
<1>2. ASSUME NEW f \in Flows, flow'[f].pc = "await" PROVE order'[flow'[f].key] # "none"
  <2>1. /\ flow[f].pc \in Claimed /\ flow'[f].key = flow[f].key
        /\ flow[f].pc = "await" \/ SendOrder(f)
    BY <1>2, RequestsMove DEF Claimed
  <2>2. flow[f].key \in Keys BY <2>1, ClaimFacts
  <2>3. CASE flow[f].pc = "await"
    <3>1. order[flow[f].key] # "none" BY <2>3 DEF OnceInv, FlowInv
    <3> QED BY <2>1, <2>2, <3>1, OrdersMove DEF OrderMove
  <2>4. CASE SendOrder(f) BY <2>1, <2>2, <2>4 DEF SendOrder, IInv, KeysOK
  <2> QED BY <2>1, <2>3, <2>4
<1>3. ASSUME NEW f \in Flows, flow'[f].pc \in Cancelling
      PROVE  /\ ~Submitting(flow[f].plan)'
             /\ flow'[f].pc = "cancelled" => order'[flow'[f].ev.key] = "cancelled"
  <2> DEFINE p == flow[f].plan  k == flow[f].ev.key
  <2>1. CASE CancelStart(f, flow'[f].plan) /\ flow'[f].plan \in Plans /\ flow'[f].pc = "cancel"
    BY <2>1 DEF CancelStart, Submitting
  <2>2. CASE /\ flow[f].pc \in Cancelling /\ flow'[f].plan = p /\ flow'[f].ev = flow[f].ev
             /\ flow'[f].pc = "cancelled" => flow[f].pc = "cancelled" \/ CancelAtMt5(f)
    <3>1. p \in Plans /\ k \in Keys /\ owner[k] = p /\ AcceptedIn(order, k)
      BY <2>2, FlowFacts DEF FlowOK, Knowing, EvidenceOK, Cancelling, Names, Calm
    <3>2. ~Submitting(p) BY <2>2 DEF OnceInv, FlowInv
    <3>3. ~Submitting(p)'
      <4>1. \/ plan'[p] = plan[p]
            \/ GraceElapses(p)
            \/ Told(p, plan'[p], k)
        BY <3>1, RowsMoveOf DEF Sent, AcceptedIn
      <4>2. Told(p, plan'[p], k) => plan'[p].status # "PENDING_ORDER_SUBMITTING" BY DEF Told
      <4> QED BY <2>2, <3>2, <4>1, <4>2 DEF Submitting, GraceElapses
    <3>4. CASE flow[f].pc = "cancelled"
      <4>1. order[k] = "cancelled" BY <3>4 DEF OnceInv, FlowInv
      <4> QED BY <2>2, <3>1, <3>3, <4>1, OrdersMove DEF OrderMove
    <3>5. CASE CancelAtMt5(f)
      BY <2>2, <3>1, <3>3, <3>5 DEF CancelAtMt5, IInv, KeysOK
    <3> QED BY <2>2, <3>3, <3>4, <3>5
  <2> QED BY <1>3, <2>1, <2>2, RequestsMove
<1> QED BY <1>1, <1>2, <1>3 DEF FlowInv, Fresh, Submitting, Cancelling

\* A timer chain runs for an order that was sent, and gives up only on one that
\* is gone.
LEMMA TimersStep ==
  ASSUME Calm, IInv, OnceInv, [Next]_vars
  PROVE  BgInv'
<1> SUFFICES ASSUME NEW k \in Keys
             PROVE  /\ Running(k)' => order'[k] # "none" /\ (~AcceptedIn(order', k) => Fresh(owner[k])')
                    /\ bg'[k].pc = "history" => order'[k] = "refused" \/ Ended(k)'
                    /\ bg'[k].pc = "write" /\ bg'[k].ev = NoEvidence => order'[k] \in {"refused", "cancelled"}
  BY DEF BgInv
<1>0. OrderMove(k) BY OrdersMove
<1>1. ASSUME NEW f \in Flows, NotConfirmedAnswer(f), flow[f].key = k
      PROVE  order[k] # "none" /\ owner[k] = flow[f].plan /\ (~AcceptedIn(order, k) => Fresh(owner[k]))
             /\ plan' = plan /\ order' = order /\ owner' = owner
  <2>1. flow[f].pc \in Claimed /\ flow[f].pc = "await" BY <1>1 DEF NotConfirmedAnswer, AwaitsPending, Claimed
  <2>2. owner[k] = flow[f].plan BY <1>1, <2>1, ClaimFacts
  <2> QED BY <1>1, <2>1, <2>2 DEF OnceInv, FlowInv, NotConfirmedAnswer
<1>2. ASSUME Running(k)'
      PROVE  order'[k] # "none" /\ (~AcceptedIn(order', k) => Fresh(owner[k])')
  <2>1. CASE \E f \in Flows : NotConfirmedAnswer(f) /\ flow[f].key = k
    BY <1>1, <2>1 DEF Fresh, Submitting, AcceptedIn
  <2>2. CASE Running(k)
    <3> DEFINE p == owner[k]
    <3>1. order[k] # "none" /\ (~AcceptedIn(order, k) => Fresh(p)) BY <2>2 DEF OnceInv, BgInv
    <3>2. order'[k] # "none" BY <1>0, <3>1 DEF OrderMove
    <3>3. ASSUME ~AcceptedIn(order', k) PROVE Fresh(p)'
      <4>1. ~AcceptedIn(order, k) BY <1>0, <3>3 DEF OrderMove, AcceptedIn
      <4>2. Fresh(p) /\ p \in Plans BY <2>2, <3>1, <4>1, Known
      <4>3. ~Free(p) BY <2>2 DEF Free
      <4>4. ~(\E g \in Flows : ClaimPlan(g, p)) BY <4>2, <4>3, ClaimsFree
      <4>5. ~GraceElapses(p) BY <2>2 DEF GraceElapses, Calm, Running
      <4>6. ~Dropped(p)
        <5>1. \A g \in Flows : flow[g].pc \in Claimed => flow[g].plan # p BY <2>2 DEF OnceInv, SoleInv
        <5>2. \A j \in Keys : owner[j] = p /\ Running(j) => j = k BY <2>2 DEF OnceInv, SoleInv
        <5>3. bg'[k] # BgOff BY <1>2 DEF Running, BgOff
        <5> QED BY <5>1, <5>2, <5>3 DEF Dropped
      <4>7. ASSUME NEW j \in Keys PROVE ~Told(p, plan'[p], j)
        BY <2>2, <4>1 DEF Told, AcceptedIn, Sent, OnceInv, SoleInv
      <4>8. plan'[p] = plan[p] BY <4>2, <4>3, <4>4, <4>5, <4>6, <4>7, RowsMove DEF RowMove
      <4>9. owner'[k] = p BY <3>1, OwnersKeep
      <4> QED BY <4>2, <4>8, <4>9 DEF Fresh, Submitting
    <3>4. owner'[k] = owner[k] BY <3>1, OwnersKeep
    <3> QED BY <3>2, <3>3, <3>4 DEF Fresh, Submitting
  <2> QED BY <1>2, <2>1, <2>2, TimersMove DEF Running
<1>3. ASSUME bg'[k].pc = "history" PROVE order'[k] = "refused" \/ Ended(k)'
  <2>1. order[k] = "refused" \/ Ended(k) BY <1>3, TimersMove
  <2> QED BY <1>0, <2>1 DEF OrderMove, Ended
<1>4. ASSUME bg'[k].pc = "write", bg'[k].ev = NoEvidence PROVE order'[k] \in {"refused", "cancelled"}
  <2>1. order[k] \in {"refused", "cancelled"} BY <1>4, TimersMove
  <2> QED BY <1>0, <2>1 DEF OrderMove
<1> QED BY <1>2, <1>3, <1>4

-----------------------------------------------------------------------------
(* Ticks.                                                                  *)

AtRest == UNCHANGED <<plan, owner, order>>

\* The rows a tick takes for stuck, and the lists it holds against them.
StuckMove(r) ==
  pass'[r].pc \in StuckPart => \A row \in pass'[r].rows :
    \/ /\ row.ticket = NoTicket /\ Submitting(row.plan) /\ plan[row.plan].aged
       /\ pass'[r].pc = "stuckread" /\ AtRest
    \/ /\ pass[r].pc \in StuckPart /\ row \in pass[r].rows
       /\ pass'[r].pc = "stuckrows" =>
            \/ pass[r].pc = "stuckrows" /\ pass'[r].view = pass[r].view
            \/ pass'[r].view = CurrentView /\ AtRest

\* The placed rows it is to look up.
PlacedMove(r) ==
  pass'[r].pc \in PlacedPart => \A row \in pass'[r].rows :
    \/ /\ row.plan \in Plans /\ plan[row.plan].status = "PENDING_ORDER_PLACED"
       /\ row.ticket = plan[row.plan].ticket
       /\ pass'[r].pc = "placedread" /\ AtRest
    \/ /\ pass[r].pc \in PlacedPart /\ row \in pass[r].rows
       /\ pass'[r].pc # "placedread" =>
            \/ pass[r].pc # "placedread" /\ pass'[r].view = pass[r].view
            \/ pass'[r].view = CurrentView /\ AtRest

\* The row whose order it cancels.
CancelMove(r) ==
  /\ pass'[r].pc \in Cancelling => pass'[r].cur \in pass'[r].rows
  /\ pass'[r].pc = "cancelled" =>
       pass'[r].cur = pass[r].cur /\ (pass[r].pc = "cancelled" \/ CancelExpired(r))

\* A tick is moved by itself, or ended by a crash.
LEMMA TickFrame ==
  ASSUME Calm, [Next]_vars, NEW r \in Passes
  PROVE  pass'[r] = pass[r] \/ pass'[r] = IdlePass \/ Tick(r)
<1> SUFFICES ASSUME Next, pass'[r] # pass[r] PROVE pass'[r] = IdlePass \/ Tick(r) BY DEF vars
<1>1. ASSUME NEW p \in Plans
      PROVE  /\ ~SavePlan(p) /\ ~Deadline(p) /\ ~GraceElapses(p) /\ ~ReconcileOutcome(p)
             /\ \A g \in Flows : ~ClaimPlan(g, p) /\ ~ClaimMisses(g, p) /\ ~CancelStart(g, p)
  BY DEF SavePlan, Deadline, GraceElapses, ReconcileOutcome, ClaimPlan, ClaimMisses, CancelStart
<1>2. ASSUME NEW g \in Flows PROVE ~Request(g)
  BY DEF Request, Lookup, AlreadyRead, AlreadyWrite, SweepRead, SweepWrite, ReclaimMisses, PassExpiry,
         ExpireClaimed, GateRejects, OneActivePlan, ReadSymbol, SendOrder, MarketFilled, PendingAnswer,
         FilledAnswer, CancelledAnswer, AmbiguousAnswer, NotConfirmedAnswer, RejectedAnswer, NoAnswer,
         RecordPlaced, RecordOpened, AuditPlacement, UnexpectedError, CancelAtMt5, CancelFails, CancelWrite
<1>3. ASSUME NEW j \in Keys PROVE ~Background(j)
  BY DEF Background, BgTick, BgRead, BgHistory, BgWrite, BgFails
<1>4. ~(\E j \in Keys : Accept(j) \/ Refuse(j) \/ Trigger(j) \/ BrokerCancel(j) \/ ClosePosition(j))
  BY DEF Accept, Refuse, Trigger, BrokerCancel, ClosePosition
<1>5. Crash => pass'[r] = IdlePass BY DEF Crash
<1>6. \A q \in Passes : q = r BY DEF Calm
<1> QED BY <1>1, <1>2, <1>3, <1>4, <1>5, <1>6 DEF Next

\* A tick that is done with a row keeps its lists.
LEMMA DoneMove ==
  ASSUME IInv, NEW r \in Passes, NEW row, NEW next, pass' = [pass EXCEPT ![r] = Done(r, row, next)]
  PROVE  /\ pass'[r].rows = pass[r].rows \ {row} /\ pass'[r].view = pass[r].view
         /\ pass'[r].pc \in {next[1], next[2]}
BY DEF IInv, PassesOK, PassType, Done

\* Whatever a tick does is one of these moves.
LEMMA TicksMove ==
  ASSUME Calm, IInv, OnceInv, [Next]_vars, NEW r \in Passes
  PROVE  StuckMove(r) /\ PlacedMove(r) /\ CancelMove(r)
<1>0. pass \in [Passes -> PassType] BY DEF IInv, PassesOK
<1>1. CASE pass'[r] = pass[r]
  <2>1. StuckMove(r) BY <1>1 DEF StuckMove, StuckPart
  <2>2. PlacedMove(r) BY <1>1 DEF PlacedMove, PlacedPart
  <2>3. CancelMove(r) BY <1>1 DEF CancelMove, OnceInv, PassInv
  <2> QED BY <2>1, <2>2, <2>3
<1>2. CASE pass'[r].pc \notin StuckPart \cup PlacedPart
  BY <1>2 DEF StuckMove, PlacedMove, CancelMove, PlacedPart, Cancelling
<1>3. CASE ExpireUnapprovedPlans(r) \/ SyncClosedPlans(r) \/ pass'[r] = IdlePass
  <2>1. pass'[r].pc \in {"idle", "stuck"}
    BY <1>0, <1>3 DEF ExpireUnapprovedPlans, SyncClosedPlans, IdlePass, PassType
  <2> QED BY <1>2, <2>1 DEF StuckPart, PlacedPart
<1>4. CASE SelectStuck(r)
  <2> DEFINE rows == {[plan |-> p, ticket |-> NoTicket] : p \in {q \in Plans : Submitting(q) /\ plan[q].aged}}
  <2>1. pass'[r] = [IdlePass EXCEPT !.rows = rows, !.pc = IF rows = {} THEN "placed" ELSE "stuckread"]
    BY <1>0, <1>4 DEF SelectStuck
  <2>2. \A row \in rows : row.ticket = NoTicket /\ Submitting(row.plan) /\ plan[row.plan].aged OBVIOUS
  <2>3. AtRest BY <1>4 DEF SelectStuck, AtRest
  <2> HIDE DEF rows
  <2>4. pass'[r].rows = rows /\ pass'[r].pc \in {"placed", "stuckread"} BY <2>1 DEF IdlePass
  <2> QED BY <2>2, <2>3, <2>4 DEF StuckMove, PlacedMove, CancelMove, StuckPart, PlacedPart, Cancelling
<1>5. CASE StuckRead(r)
  <2>1. PICK read \in LiveReads : pass' = [pass EXCEPT ![r].view = read.view, ![r].pc = "stuckrows"]
    <3> HIDE DEF LiveReads
    <3> QED BY <1>5 DEF StuckRead
  <2>2. read.view = CurrentView BY CalmReads
  <2>3. pass'[r].view = CurrentView /\ pass'[r].pc = "stuckrows" /\ pass'[r].rows = pass[r].rows
    BY <1>0, <2>1, <2>2 DEF PassType
  <2>4. AtRest BY <1>5, ReadsOnly DEF StuckRead, AtRest
  <2>5. pass[r].pc \in StuckPart BY <1>5 DEF StuckRead, StuckPart
  <2> QED BY <2>3, <2>4, <2>5 DEF StuckMove, PlacedMove, CancelMove, PlacedPart, Cancelling
<1>6. CASE StuckRow(r)
  <2>1. pass[r].pc = "stuckrows" /\ \E row \in pass[r].rows : pass' = [pass EXCEPT ![r] = Done(r, row, StuckLoop)]
    <3> HIDE DEF LiveEvidence
    <3> QED BY <1>6 DEF StuckRow
  <2>2. /\ pass'[r].rows \subseteq pass[r].rows /\ pass'[r].view = pass[r].view
        /\ pass'[r].pc \in {"stuckrows", "placed"}
    <3> PICK row \in pass[r].rows : pass' = [pass EXCEPT ![r] = Done(r, row, StuckLoop)] BY <2>1
    <3>1. /\ pass'[r].rows = pass[r].rows \ {row} /\ pass'[r].view = pass[r].view
          /\ pass'[r].pc \in {StuckLoop[1], StuckLoop[2]}
      BY DoneMove
    <3> QED BY <3>1 DEF StuckLoop
  <2> QED BY <2>1, <2>2 DEF StuckMove, PlacedMove, CancelMove, StuckPart, PlacedPart, Cancelling
<1>7. CASE SelectPlaced(r)
  <2> DEFINE rows == {[plan |-> p, ticket |-> plan[p].ticket] :
                        p \in {q \in Plans : plan[q].status = "PENDING_ORDER_PLACED"}}
  <2>1. pass'[r] = [IdlePass EXCEPT !.rows = rows, !.pc = IF rows = {} THEN "sync" ELSE "placedread"]
    BY <1>0, <1>7 DEF SelectPlaced
  <2>2. \A row \in rows : /\ row.plan \in Plans /\ plan[row.plan].status = "PENDING_ORDER_PLACED"
                          /\ row.ticket = plan[row.plan].ticket
    OBVIOUS
  <2>3. AtRest BY <1>7 DEF SelectPlaced, AtRest
  <2> HIDE DEF rows
  <2>4. pass'[r].rows = rows /\ pass'[r].pc \in {"sync", "placedread"} BY <2>1 DEF IdlePass
  <2> QED BY <2>2, <2>3, <2>4 DEF StuckMove, PlacedMove, CancelMove, StuckPart, PlacedPart, Cancelling
<1>8. CASE PlacedRead(r)
  <2>1. PICK read \in AnsweredReads : pass' = [pass EXCEPT ![r].view = read.view, ![r].pc = "placedrows"]
    <3> HIDE DEF AnsweredReads
    <3> QED BY <1>8 DEF PlacedRead, Calm
  <2>2. read.view = CurrentView BY CalmReads
  <2>3. pass'[r].view = CurrentView /\ pass'[r].pc = "placedrows" /\ pass'[r].rows = pass[r].rows
    BY <1>0, <2>1, <2>2 DEF PassType
  <2>4. AtRest BY <1>8, ReadsOnly DEF PlacedRead, AtRest
  <2>5. pass[r].pc \in PlacedPart BY <1>8 DEF PlacedRead, PlacedPart
  <2> QED BY <2>3, <2>4, <2>5 DEF StuckMove, PlacedMove, CancelMove, StuckPart, Cancelling
<1>9. CASE pass[r].pc \in PlacedPart \ {"placedread"}
           /\ \E row \in pass[r].rows \cup {pass[r].cur} : pass' = [pass EXCEPT ![r] = Done(r, row, PlacedLoop)]
  <2>1. /\ pass'[r].rows \subseteq pass[r].rows /\ pass'[r].view = pass[r].view
        /\ pass'[r].pc \in {"placedrows", "sync"}
    <3> PICK row : pass' = [pass EXCEPT ![r] = Done(r, row, PlacedLoop)] BY <1>9
    <3>1. /\ pass'[r].rows = pass[r].rows \ {row} /\ pass'[r].view = pass[r].view
          /\ pass'[r].pc \in {PlacedLoop[1], PlacedLoop[2]}
      BY DoneMove
    <3> QED BY <3>1 DEF PlacedLoop
  <2> QED BY <1>9, <2>1 DEF StuckMove, PlacedMove, CancelMove, StuckPart, PlacedPart, Cancelling
<1>10. CASE StillPending(r) \/ Triggered(r) \/ NoLongerPending(r) \/ CancelExpiredFails(r) \/ ExpirePlaced(r)
  BY <1>9, <1>10 DEF StillPending, Triggered, NoLongerPending, CancelExpiredFails, ExpirePlaced, PlacedPart
<1>11. CASE PickExpired(r)
  <2>1. PICK row \in pass[r].rows : pass' = [pass EXCEPT ![r].cur = row, ![r].pc = "cancel"]
    BY <1>11 DEF PickExpired
  <2>2. /\ pass'[r].cur \in pass'[r].rows /\ pass'[r].pc = "cancel"
        /\ pass'[r].rows = pass[r].rows /\ pass'[r].view = pass[r].view
    BY <1>0, <2>1 DEF PassType
  <2>3. pass[r].pc = "placedrows" BY <1>11 DEF PickExpired
  <2> QED BY <2>2, <2>3 DEF StuckMove, PlacedMove, CancelMove, StuckPart, PlacedPart, Cancelling
<1>12. CASE CancelExpired(r) /\ pass' = [pass EXCEPT ![r].pc = "cancelled"]
  <2>1. /\ pass'[r].pc = "cancelled" /\ pass'[r].cur = pass[r].cur
        /\ pass'[r].rows = pass[r].rows /\ pass'[r].view = pass[r].view
    BY <1>0, <1>12 DEF PassType
  <2>2. pass[r].pc = "cancel" BY <1>12 DEF CancelExpired
  <2>3. pass[r].cur \in pass[r].rows BY <2>2 DEF OnceInv, PassInv, Cancelling
  <2> QED BY <1>12, <2>1, <2>2, <2>3 DEF StuckMove, PlacedMove, CancelMove, StuckPart, PlacedPart, Cancelling
<1>13. CASE CancelExpired(r) /\ pass' = [pass EXCEPT ![r] = Done(r, pass[r].cur, PlacedLoop)]
  BY <1>9, <1>13 DEF CancelExpired, PlacedPart
<1>14. ~PassFails(r) BY DEF PassFails, Calm
<1>15. CancelExpired(r) => \/ pass' = [pass EXCEPT ![r].pc = "cancelled"]
                           \/ pass' = [pass EXCEPT ![r] = Done(r, pass[r].cur, PlacedLoop)]
  BY DEF CancelExpired
<1> QED
  BY <1>1, <1>3, <1>4, <1>5, <1>6, <1>7, <1>8, <1>10, <1>11, <1>12, <1>13, <1>14, <1>15, TickFrame DEF Tick

\* A plan past its submission whose order MT5 has accepted stays past it.
LEMMA PastSubmission ==
  ASSUME Calm, IInv, OnceInv, [Next]_vars, NEW k \in Keys, AcceptedIn(order, k),
         plan[owner[k]].status # "PENDING_ORDER_SUBMITTING"
  PROVE  owner'[k] = owner[k] /\ AcceptedIn(order', k)
         /\ plan'[owner[k]].status # "PENDING_ORDER_SUBMITTING"
<1>1. /\ owner'[k] = owner[k]
      /\ \/ plan'[owner[k]] = plan[owner[k]]
         \/ GraceElapses(owner[k])
         \/ Told(owner[k], plan'[owner[k]], k)
  BY RowsMoveOf DEF Sent, AcceptedIn
<1>2. ~GraceElapses(owner[k]) BY DEF GraceElapses, Submitting
<1>3. AcceptedIn(order', k) BY OrdersMove DEF OrderMove, AcceptedIn
<1> QED BY <1>1, <1>2, <1>3 DEF Told

\* An order that lives while a tick takes its plan for stuck goes on living.
LEMMA StuckLives ==
  ASSUME Calm, IInv, OnceInv, [Next]_vars, NEW k \in Keys, Live(k), TakenForStuck(owner[k])
  PROVE  owner'[k] = owner[k] /\ Live(k)'
<1>1. OrderMove(k) BY OrdersMove
<1>2. owner'[k] = owner[k] BY OwnersKeep DEF Live
<1> QED BY <1>1, <1>2 DEF OrderMove, Live

\* A row a tick goes on with is still stuck, or MT5 has a live order of it.
LEMMA StuckRowStep ==
  ASSUME Calm, IInv, OnceInv, [Next]_vars, NEW r \in Passes, NEW row,
         pass[r].pc \in StuckPart, row \in pass[r].rows, pass'[r].pc \in StuckPart, row \in pass'[r].rows
  PROVE  \/ Submitting(row.plan)' /\ plan'[row.plan].aged
         \/ \E k \in Keys : owner'[k] = row.plan /\ Live(k)'
<1> DEFINE p == row.plan
<1>1. StuckRowOk(pass[r], row) BY DEF OnceInv, PassInv
<1>2. p \in Plans BY PassFacts DEF PickType
<1>3. TakenForStuck(p) /\ TakenLater(p) BY DEF TakenForStuck, TakenLater, StuckPart
<1>4. ASSUME NEW k \in Keys, owner[k] = p, Live(k) PROVE owner'[k] = p /\ Live(k)'
  BY <1>3, <1>4, StuckLives
<1>5. CASE \E k \in Keys : owner[k] = p /\ Live(k) BY <1>4, <1>5
<1>6. CASE Submitting(p) /\ plan[p].aged
  <2>1. ASSUME NEW k \in Keys, Told(p, plan'[p], k) PROVE owner[k] = p /\ Live(k)
    BY <1>1, <2>1 DEF Told, StuckRowOk, AcceptedIn, Sent
  <2>2. ~Dropped(p) /\ ~GraceElapses(p) BY <1>6 DEF Dropped, Fresh, GraceElapses
  <2>3. ~(\E f \in Flows : ClaimPlan(f, p)) BY <1>6 DEF ClaimPlan, isApprovable, Submitting
  <2>4. plan'[p] = plan[p] \/ \E k \in Keys : Told(p, plan'[p], k)
    BY <1>2, <1>3, <1>6, <2>2, <2>3, RowsMove DEF RowMove
  <2>5. CASE plan'[p] = plan[p] BY <1>6, <2>5 DEF Submitting
  <2> QED BY <1>4, <2>1, <2>4, <2>5
<1> QED BY <1>1, <1>5, <1>6 DEF StuckRowOk

\* And whatever was sent for it lives, and was there to see.
LEMMA StuckOrderStep ==
  ASSUME Calm, IInv, OnceInv, [Next]_vars, NEW r \in Passes, NEW row,
         pass[r].pc \in StuckPart, row \in pass[r].rows, NEW k \in Keys, owner'[k] = row.plan, Sent(k)'
  PROVE  owner[k] = row.plan /\ Sent(k) /\ Live(k) /\ Live(k)'
<1> DEFINE p == row.plan
<1>1. StuckRowOk(pass[r], row) BY DEF OnceInv, PassInv
<1>2. TakenForStuck(p) BY DEF TakenForStuck, StuckPart
<1>3. owner[k] = p BY BusyMoves DEF Busy
<1>4. Sent(k)
  <2>1. ASSUME NEW f \in Flows, SendOrder(f), flow[f].key = k, order[k] = "none" PROVE FALSE
    <3>1. flow[f].pc \in Claimed BY <2>1 DEF SendOrder, Claimed, BeforeSend
    <3>2. flow[f].plan = p /\ ~Sent(flow[f].key) BY <1>3, <2>1, <3>1, ClaimFacts DEF Sent
    <3>3. Fresh(p) BY <3>1, <3>2, UnsentFresh
    <3>4. PICK j \in Keys : owner[j] = p /\ Live(j) BY <1>1, <3>3 DEF StuckRowOk, Fresh
    <3>5. j = k BY <2>1, <3>1, <3>2, <3>4 DEF OnceInv, SoleInv, Sent, Live
    <3> QED BY <2>1, <3>4, <3>5 DEF Live
  <2>2. OrderMove(k) BY OrdersMove
  <2> QED BY <2>1, <2>2 DEF OrderMove, Sent
<1>5. Live(k) BY <1>1, <1>3, <1>4 DEF StuckRowOk
<1> QED BY <1>2, <1>3, <1>4, <1>5, StuckLives

\* What a tick holds of MT5 is never ahead of it, and never behind by more
\* than what may have happened since.
LEMMA TicksStep ==
  ASSUME Calm, IInv, OnceInv, [Next]_vars
  PROVE  PassInv'
<1>1. ASSUME NEW r \in Passes, pass'[r].pc \in StuckPart, NEW row \in pass'[r].rows
      PROVE  StuckRowOk(pass[r], row)'
  <2> DEFINE p == row.plan
  <2>1. CASE /\ row.ticket = NoTicket /\ Submitting(p) /\ plan[p].aged
             /\ pass'[r].pc = "stuckread" /\ AtRest
    <3>1. ASSUME NEW k \in Keys, owner[k] = p, Sent(k) PROVE Live(k)
      <4>1. KeyRow(k) /\ order[k] \in OrderState BY Known DEF OnceInv, RowsInv
      <4> QED BY <2>1, <3>1, <4>1 DEF KeyRow, Fresh, Sent, AcceptedIn, OrderState
    <3> QED BY <2>1, <3>1 DEF StuckRowOk, AtRest, Submitting, Live, Sent
  <2>2. CASE /\ pass[r].pc \in StuckPart /\ row \in pass[r].rows
             /\ pass'[r].pc = "stuckrows" =>
                  \/ pass[r].pc = "stuckrows" /\ pass'[r].view = pass[r].view
                  \/ pass'[r].view = CurrentView /\ AtRest
    <3>1. StuckRowOk(pass[r], row) BY <2>2 DEF OnceInv, PassInv
    <3>2. (Submitting(p)' /\ plan'[p].aged) \/ \E k \in Keys : owner'[k] = p /\ Live(k)'
      BY <1>1, <2>2, StuckRowStep
    <3>3. ASSUME NEW k \in Keys, owner'[k] = p, Sent(k)'
          PROVE  Live(k)' /\ (pass'[r].pc = "stuckrows" => k \in pass'[r].view.orders \cup pass'[r].view.positions)
      <4>1. owner[k] = p /\ Sent(k) /\ Live(k) /\ Live(k)' BY <2>2, <3>3, StuckOrderStep
      <4>2. CASE pass[r].pc = "stuckrows" /\ pass'[r].view = pass[r].view
        BY <3>1, <4>1, <4>2 DEF StuckRowOk
      <4>3. CASE pass'[r].view = CurrentView BY <4>1, <4>3, Shown DEF Live
      <4> QED BY <2>2, <4>1, <4>2, <4>3
    <3>4. row.ticket = NoTicket BY <3>1 DEF StuckRowOk
    <3> QED BY <3>2, <3>3, <3>4 DEF StuckRowOk, Submitting, Live, Sent
  <2>3. StuckMove(r) BY TicksMove
  <2> QED BY <1>1, <2>1, <2>2, <2>3 DEF StuckMove
<1>2. ASSUME NEW r \in Passes, pass'[r].pc \in PlacedPart, NEW row \in pass'[r].rows
      PROVE  PlacedRowOk(pass[r], row)'
  <2> DEFINE p == row.plan  t == row.ticket
  <2>1. CASE /\ p \in Plans /\ plan[p].status = "PENDING_ORDER_PLACED" /\ t = plan[p].ticket
             /\ pass'[r].pc = "placedread" /\ AtRest
    <3>1. t \in Keys /\ owner[t] = p /\ AcceptedIn(order, t) BY <2>1 DEF IInv, PlansOK, PlanOK, Names, Calm
    <3> QED BY <2>1, <3>1 DEF PlacedRowOk, AtRest, Submitting, AcceptedIn
  <2>2. CASE /\ pass[r].pc \in PlacedPart /\ row \in pass[r].rows
             /\ pass'[r].pc # "placedread" =>
                  \/ pass[r].pc # "placedread" /\ pass'[r].view = pass[r].view
                  \/ pass'[r].view = CurrentView /\ AtRest
    <3>1. PlacedRowOk(pass[r], row) BY <2>2 DEF OnceInv, PassInv
    <3>2. t \in Keys /\ owner[t] = p /\ AcceptedIn(order, t) /\ plan[p].status # "PENDING_ORDER_SUBMITTING"
      BY <3>1 DEF PlacedRowOk, Submitting
    <3>3. owner'[t] = p /\ AcceptedIn(order', t) /\ plan'[p].status # "PENDING_ORDER_SUBMITTING"
      BY <3>2, PastSubmission
    <3>4. ASSUME pass'[r].pc # "placedread", t \notin pass'[r].view.orders \cup pass'[r].view.positions
          PROVE  ~Live(t)'
      <4>1. CASE pass[r].pc # "placedread" /\ pass'[r].view = pass[r].view
        <5>1. ~Live(t) BY <3>1, <3>4, <4>1 DEF PlacedRowOk
        <5>2. OrderMove(t) BY <3>2, OrdersMove
        <5> QED BY <3>2, <5>1, <5>2 DEF OrderMove, AcceptedIn, Live
      <4>2. CASE pass'[r].view = CurrentView /\ AtRest
        BY <3>2, <3>4, <4>2, Shown DEF Live, AtRest
      <4> QED BY <2>2, <3>4, <4>1, <4>2
    <3> QED BY <3>2, <3>3, <3>4 DEF PlacedRowOk, Submitting, Live, AcceptedIn
  <2>3. PlacedMove(r) BY TicksMove
  <2> QED BY <1>2, <2>1, <2>2, <2>3 DEF PlacedMove
<1>3. ASSUME NEW r \in Passes, pass'[r].pc \in Cancelling PROVE pass'[r].cur \in pass'[r].rows
  BY <1>3, TicksMove DEF CancelMove
<1>4. ASSUME NEW r \in Passes, pass'[r].pc = "cancelled" PROVE order'[pass'[r].cur.ticket] = "cancelled"
  <2> DEFINE t == pass[r].cur.ticket
  <2>1. pass'[r].cur = pass[r].cur /\ (pass[r].pc = "cancelled" \/ CancelExpired(r))
    BY <1>4, TicksMove DEF CancelMove
  <2>2. pass[r].pc \in Cancelling BY <2>1 DEF CancelExpired, Cancelling
  <2>3. pass[r].cur \in pass[r].rows /\ t \in Keys
    BY <2>2 DEF OnceInv, PassInv, PlacedRowOk, PlacedPart, Cancelling
  <2>4. CASE CancelExpired(r) BY <2>1, <2>3, <2>4 DEF CancelExpired, IInv, KeysOK
  <2>5. CASE pass[r].pc = "cancelled"
    <3>1. order[t] = "cancelled" BY <2>5 DEF OnceInv, PassInv
    <3> QED BY <2>1, <2>3, <3>1, OrdersMove DEF OrderMove
  <2> QED BY <2>1, <2>4, <2>5
<1> QED BY <1>1, <1>2, <1>3, <1>4 DEF PassInv

-----------------------------------------------------------------------------
(* OnceInv holds of every behaviour.                                       *)

LEMMA InitOnce == Init => OnceInv
<1> SUFFICES ASSUME Init PROVE OnceInv OBVIOUS
<1>1. /\ \A k \in Keys : order[k] = "none" /\ bg[k].pc = "off"
      /\ \A p \in Plans : plan[p].status = Absent /\ outcome[p].state = "none"
      /\ \A f \in Flows : flow[f].pc = "idle"
      /\ \A r \in Passes : pass[r].pc = "idle"
  BY DEF Init, BgOff, NoRow, Unlocked, NoOutcome, IdleFlow, IdlePass
<1>2. SoleInv BY <1>1 DEF SoleInv, Sent, Running, Claimed, BeforeSend
<1>3. RowsInv BY <1>1 DEF RowsInv, KeyRow, AcceptedIn, Absent
<1>4. FlowInv BY <1>1 DEF FlowInv, Claimed, BeforeSend, Cancelling
<1>5. BgInv BY <1>1 DEF BgInv, Running
<1>6. PassInv BY <1>1 DEF PassInv, StuckPart, PlacedPart, Cancelling
<1> QED BY <1>2, <1>3, <1>4, <1>5, <1>6 DEF OnceInv

LEMMA OnceStep == ASSUME Calm, IInv, OnceInv, [Next]_vars PROVE OnceInv'
BY SoleStep, RowsStep, RequestsStep, TimersStep, TicksStep DEF OnceInv

LEMMA OnceHolds == ASSUME Calm PROVE Spec => [](IInv /\ OnceInv)
<1>1. IInv /\ OnceInv /\ [Next]_vars => OnceInv' BY OnceStep
<1>2. Init => OnceInv BY InitOnce
<1> QED BY <1>1, <1>2, Invariant, PTL DEF Spec

\* A live order or position is never lost sight of: while MT5 and the database
\* answer, ticks do not overlap and a submission is over within its grace
\* period, its plan is shown as placed under its ticket, as open, or as one
\* the watcher will look up, whatever restarts come between.
THEOREM LiveWatched == ASSUME Calm PROVE Spec => []LiveIsWatched
<1>1. IInv /\ OnceInv => LiveIsWatched
  <2> SUFFICES ASSUME IInv, OnceInv, NEW k \in Keys, Live(k)
               PROVE  LET row == plan[owner[k]] IN
                      \/ row.status = "PENDING_ORDER_SUBMITTING"
                      \/ row.status = "PENDING_ORDER_PLACED" /\ row.ticket = k
                      \/ row.status = "POSITION_OPEN" /\ order[k] = "open"
    BY DEF LiveIsWatched
  <2> DEFINE p == owner[k]
  <2>1. p \in Plans /\ Sent(k) /\ plan[p].status \in ActivePlan
    BY Known DEF Live, Sent, OnceInv, RowsInv, KeyRow, AcceptedIn
  <2>2. \A j \in Keys : owner[j] = p /\ Sent(j) => j = k BY <2>1 DEF OnceInv, SoleInv
  <2>3. ASSUME plan[p].status = "PENDING_ORDER_PLACED" PROVE plan[p].ticket = k
    <3>1. plan[p].ticket \in Keys /\ owner[plan[p].ticket] = p /\ AcceptedIn(order, plan[p].ticket)
      BY <2>1, <2>3 DEF IInv, PlansOK, PlanOK, Names, Calm
    <3> QED BY <2>2, <3>1 DEF AcceptedIn, Sent
  <2>4. ASSUME plan[p].status = "POSITION_OPEN" PROVE order[k] = "open"
    <3>1. PICK j \in Keys : owner[j] = p /\ Filled(j) BY <2>1, <2>4 DEF OnceInv, RowsInv
    <3>2. j = k BY <2>2, <3>1 DEF Filled, Sent
    <3> QED BY <3>1, <3>2 DEF Filled, Live
  <2> QED BY <2>1, <2>3, <2>4 DEF ActivePlan
<1> QED BY <1>1, OnceHolds, PTL

-----------------------------------------------------------------------------
(* One order per symbol.  The plans are compared after the claim is made,  *)
(* so that of two requests for one symbol the later comparison sees the    *)
(* other claim.                                                            *)

\* A request past the comparison shows its plan as being submitted.
LEMMA GatedFresh ==
  ASSUME IInv, OnceInv, NEW f \in Flows, flow[f].pc \in AfterGates
  PROVE  /\ flow[f].pc \in Claimed /\ flow[f].plan \in Plans /\ order[flow[f].key] = "none"
         /\ plan[flow[f].plan].status \in ActivePlan
<1>1. flow[f].pc \in Claimed /\ flow[f].pc \in BeforeSend BY DEF AfterGates, Claimed, BeforeSend
<1>2. flow[f].plan \in Plans /\ order[flow[f].key] = "none" BY <1>1, ClaimFacts
<1>3. Fresh(flow[f].plan) BY <1>1, <1>2, UnsentFresh DEF Sent
<1> QED BY <1>1, <1>2, <1>3 DEF Fresh, Submitting, ActivePlan

\* An order on its way or alive keeps its plan among those compared with.
LEMMA ActiveShown ==
  ASSUME IInv, OnceInv, NEW k \in Keys, Active(k)
  PROVE  owner[k] \in Plans /\ Sent(k) /\ plan[owner[k]].status \in ActivePlan
<1>1. owner[k] \in Plans /\ Sent(k) BY Known DEF Active, Sent
<1>2. KeyRow(k) BY DEF OnceInv, RowsInv
<1> QED BY <1>1, <1>2 DEF KeyRow, Active, AcceptedIn, Live, Fresh, Submitting, ActivePlan

\* An order is new only to the request that sends it.
LEMMA NewlyActive ==
  ASSUME Calm, IInv, OnceInv, [Next]_vars, NEW k \in Keys, Active(k)'
  PROVE  /\ owner'[k] = owner[k]
         /\ Active(k) \/ \E f \in Flows : SendOrder(f) /\ flow[f].key = k
<1>1. owner'[k] = owner[k] BY BusyMoves DEF Busy, Active, Sent
<1>2. OrderMove(k) BY OrdersMove
<1> QED BY <1>1, <1>2 DEF OrderMove, Active

\* The comparison passes only when no other plan of the symbol is under way.
LEMMA ComparedApart ==
  ASSUME IInv, OnceInv, OneActive, NEW f \in Flows, OneActivePlan(f)
  PROVE  /\ order' = order /\ owner' = owner
         /\ \A g \in Flows \ {f} : flow'[g] = flow[g]
         /\ flow'[f].plan = flow[f].plan
         /\ flow[f].pc \in Claimed /\ order[flow[f].key] = "none"
         /\ \A q \in Plans : plan[q].status \in ActivePlan /\ SymbolOf[q] = SymbolOf[flow[f].plan]
                               => q = flow[f].plan
<1>1. flow[f].pc \in Claimed /\ flow[f].pc \in BeforeSend BY DEF OneActivePlan, Claimed, BeforeSend
<1>2. order[flow[f].key] = "none" BY <1>1, ClaimFacts
<1>3. flow \in [Flows -> FlowType] BY DEF IInv, FlowsOK
<1>4. /\ flow'[f].plan = flow[f].plan
      /\ \A g \in Flows \ {f} : flow'[g] = flow[g]
  BY <1>3 DEF OneActivePlan, FlowType
<1> QED BY <1>1, <1>2, <1>4 DEF OneActivePlan

LEMMA SymbolStep ==
  ASSUME Calm, OneActive, IInv, OnceInv, SymbolInv, [Next]_vars
  PROVE  SymbolInv'
<1>0. ASSUME NEW f \in Flows, flow'[f].pc \in AfterGates
      PROVE  /\ flow'[f].plan = flow[f].plan /\ flow[f].pc \in Claimed
             /\ flow[f].pc \in AfterGates \/ OneActivePlan(f)
  BY <1>0, RequestsMove DEF AfterGates, Claimed, BeforeSend
<1>1. ASSUME NEW f \in Flows, NEW g \in Flows, flow'[f].pc \in AfterGates, flow'[g].pc \in AfterGates,
             SymbolOf[flow'[f].plan] = SymbolOf[flow'[g].plan]
      PROVE  f = g
  <2>1. flow'[f].plan = flow[f].plan /\ flow'[g].plan = flow[g].plan BY <1>0, <1>1
  <2>2. CASE flow[f].pc \in AfterGates /\ flow[g].pc \in AfterGates BY <1>1, <2>1, <2>2 DEF SymbolInv
  <2>3. ASSUME NEW x \in Flows, NEW y \in Flows, OneActivePlan(x), x # y, flow'[y].pc \in AfterGates,
               SymbolOf[flow[x].plan] = SymbolOf[flow[y].plan]
        PROVE  FALSE
    <3>1. flow[y].pc \in AfterGates BY <2>3, ComparedApart
    <3>2. flow[y].pc \in Claimed /\ flow[y].plan \in Plans /\ plan[flow[y].plan].status \in ActivePlan
      BY <3>1, GatedFresh
    <3>3. flow[y].plan = flow[x].plan /\ flow[x].pc \in Claimed BY <2>3, <3>2, ComparedApart
    <3> QED BY <2>3, <3>2, <3>3 DEF OnceInv, SoleInv
  <2> QED BY <1>0, <1>1, <2>1, <2>2, <2>3
<1>2. ASSUME NEW f \in Flows, NEW k \in Keys, flow'[f].pc \in AfterGates, Active(k)'
      PROVE  SymbolOf[owner'[k]] # SymbolOf[flow'[f].plan]
  <2>1. flow'[f].plan = flow[f].plan /\ owner'[k] = owner[k] BY <1>0, <1>2, NewlyActive
  <2>2. CASE flow[f].pc \in AfterGates /\ Active(k) BY <2>1, <2>2 DEF SymbolInv
  <2>3. CASE OneActivePlan(f)
    <3>1. Active(k) BY <1>2, <2>3, ComparedApart DEF Active
    <3>2. owner[k] \in Plans /\ Sent(k) /\ plan[owner[k]].status \in ActivePlan BY <3>1, ActiveShown
    <3>3. flow[f].pc \in Claimed /\ order[flow[f].key] = "none" BY <2>3, ComparedApart
    <3>4. owner[k] # flow[f].plan BY <3>2, <3>3 DEF OnceInv, SoleInv, Sent
    <3> QED BY <2>1, <2>3, <3>2, <3>4, ComparedApart
  <2>4. ASSUME NEW g \in Flows, SendOrder(g), flow[g].key = k, flow[f].pc \in AfterGates
        PROVE  SymbolOf[owner[k]] # SymbolOf[flow[f].plan]
    <3>1. flow[g].pc \in AfterGates /\ flow[g].pc \in Claimed
      BY <2>4 DEF SendOrder, AfterGates, Claimed, BeforeSend
    <3>2. g # f
      <4>1. flow'[g].pc = "await" BY <2>4 DEF SendOrder, IInv, FlowsOK, FlowType
      <4> QED BY <1>2, <4>1 DEF AfterGates
    <3>3. owner[k] = flow[g].plan BY <2>4, <3>1, ClaimFacts
    <3> QED BY <2>4, <3>1, <3>2, <3>3 DEF SymbolInv
  <2> QED BY <1>0, <1>2, <2>1, <2>2, <2>3, <2>4, NewlyActive
<1>3. ASSUME NEW j \in Keys, NEW k \in Keys, Active(j)', Active(k)', SymbolOf[owner'[j]] = SymbolOf[owner'[k]]
      PROVE  j = k
  <2>1. owner'[j] = owner[j] /\ owner'[k] = owner[k] BY <1>3, NewlyActive
  <2>2. CASE Active(j) /\ Active(k)
    BY <1>3, <2>1, <2>2 DEF SymbolInv, OneOrderPerSymbol, Active, Reached
  <2>3. ASSUME NEW x \in Keys, NEW y \in Keys, NEW f \in Flows, SendOrder(f), flow[f].key = x,
               Active(y)', SymbolOf[owner[x]] = SymbolOf[owner[y]]
        PROVE  x = y
    <3>1. flow[f].pc \in AfterGates /\ flow[f].pc \in Claimed
      BY <2>3 DEF SendOrder, AfterGates, Claimed, BeforeSend
    <3>2. owner[x] = flow[f].plan BY <2>3, <3>1, ClaimFacts
    <3>3. ~Active(y) BY <2>3, <3>1, <3>2 DEF SymbolInv
    <3>4. order' = [order EXCEPT ![x] = "inflight"] BY <2>3 DEF SendOrder
    <3> QED BY <2>3, <3>3, <3>4 DEF Active, IInv, KeysOK
  <2> QED BY <1>3, <2>1, <2>2, <2>3, NewlyActive
<1>4. OneOrderPerSymbol'
  <2>1. \A k \in Keys : Active(k)' <=> Reached(k)' /\ order'[k] # "closed" BY DEF Active, Reached
  <2> QED BY <1>3, <2>1 DEF OneOrderPerSymbol
<1>5. \A f, g \in Flows :
        flow'[f].pc \in AfterGates /\ flow'[g].pc \in AfterGates
          /\ SymbolOf[flow'[f].plan] = SymbolOf[flow'[g].plan] => f = g
  BY <1>1
<1>6. \A f \in Flows, k \in Keys :
        flow'[f].pc \in AfterGates /\ Active(k)' => SymbolOf[owner'[k]] # SymbolOf[flow'[f].plan]
  BY <1>2
<1> QED BY <1>4, <1>5, <1>6 DEF SymbolInv, Active

\* A symbol never has two orders of AI plans alive at once while the setting
\* asks for one, although a claim is checked against the other plans only
\* after it is made, for any number of requests and restarts.
THEOREM SoleOrderOfSymbol == ASSUME Calm, OneActive PROVE Spec => []OneOrderPerSymbol
<1>1. Init => SymbolInv
  <2> SUFFICES ASSUME Init PROVE SymbolInv OBVIOUS
  <2>1. \A k \in Keys : ~Active(k) /\ ~Reached(k) BY DEF Init, Active, Reached
  <2>2. \A f \in Flows : flow[f].pc \notin AfterGates BY DEF Init, IdleFlow, AfterGates
  <2> QED BY <2>1, <2>2 DEF SymbolInv, OneOrderPerSymbol
<1>2. IInv /\ OnceInv /\ SymbolInv /\ [Next]_vars => SymbolInv' BY SymbolStep
<1>3. SymbolInv => OneOrderPerSymbol BY DEF SymbolInv
<1> QED BY <1>1, <1>2, <1>3, OnceHolds, PTL DEF Spec

-----------------------------------------------------------------------------
(* The lifecycle implements TradeOnce: SoleInv makes what the abstract     *)
(* specification counts 1 or 0.                                            *)

AtMt5(p) == \E k \in Keys : owner[k] = p /\ Reached(k)

\* A set without two members counts one or none.
LEMMA CountOne ==
  ASSUME NEW S, \A j, k \in S : j = k
  PROVE  Cardinality(S) = IF S # {} THEN 1 ELSE 0
<1>1. CASE S = {} BY <1>1, FS_EmptySet
<1>2. CASE S # {}
  <2>1. PICK k \in S : TRUE BY <1>2
  <2>2. S = {k} BY <2>1
  <2> QED BY <1>2, <2>2, FS_Singleton
<1> QED BY <1>1, <1>2

\* The orders of a plan number one or none.
LEMMA PlacedCount ==
  ASSUME SoleInv
  PROVE  \A p \in Plans : PlacedOrders[p] = IF AtMt5(p) THEN 1 ELSE 0
<1> SUFFICES ASSUME NEW p \in Plans PROVE PlacedOrders[p] = IF AtMt5(p) THEN 1 ELSE 0 OBVIOUS
<1> DEFINE S == {k \in Keys : owner[k] = p /\ Reached(k)}
<1>1. PlacedOrders[p] = Cardinality(S) BY DEF PlacedOrders
<1>2. \A j, k \in S : j = k BY DEF SoleInv, Sent, Reached
<1>3. S # {} <=> AtMt5(p) BY DEF AtMt5
<1> HIDE DEF S
<1> QED BY <1>1, <1>2, <1>3, CountOne

\* So they do in the next state.
LEMMA PlacedCountNext ==
  ASSUME SoleInv'
  PROVE  \A p \in Plans : PlacedOrders'[p] = IF AtMt5(p)' THEN 1 ELSE 0
<1> SUFFICES ASSUME NEW p \in Plans PROVE PlacedOrders'[p] = IF AtMt5(p)' THEN 1 ELSE 0 OBVIOUS
<1> DEFINE S == {k \in Keys : owner'[k] = p /\ Reached(k)'}
<1>1. PlacedOrders'[p] = Cardinality(S) BY DEF PlacedOrders
<1>2. \A j, k \in S : j = k BY DEF SoleInv, Sent, Reached
<1>3. S # {} <=> AtMt5(p)' BY DEF AtMt5
<1> HIDE DEF S
<1> QED BY <1>1, <1>2, <1>3, CountOne

\* What the abstract specification sees of a state.
LEMMA SameMapped ==
  ASSUME SoleInv, SoleInv', \A p \in Plans : AtMt5(p)' <=> AtMt5(p)
  PROVE  PlacedOrders' = PlacedOrders
<1>1. \A p \in Plans : PlacedOrders'[p] = PlacedOrders[p] BY PlacedCount, PlacedCountNext
<1>2. /\ PlacedOrders = [p \in Plans |-> PlacedOrders[p]]
      /\ PlacedOrders' = [p \in Plans |-> PlacedOrders'[p]]
  BY DEF PlacedOrders
<1> QED BY <1>1, <1>2

\* An order that comes or goes changes the count of its own plan alone.
LEMMA OneMapped ==
  ASSUME SoleInv, SoleInv', NEW p \in Plans, \A q \in Plans \ {p} : AtMt5(q)' <=> AtMt5(q)
  PROVE  PlacedOrders' = [PlacedOrders EXCEPT ![p] = IF AtMt5(p)' THEN 1 ELSE 0]
<1>1. /\ \A q \in Plans \ {p} : PlacedOrders'[q] = PlacedOrders[q]
      /\ PlacedOrders'[p] = IF AtMt5(p)' THEN 1 ELSE 0
  BY PlacedCount, PlacedCountNext
<1>2. /\ PlacedOrders = [q \in Plans |-> PlacedOrders[q]]
      /\ PlacedOrders' = [q \in Plans |-> PlacedOrders'[q]]
  BY DEF PlacedOrders
<1> QED BY <1>1, <1>2

\* A plan whose only order is not filled has no record.
LEMMA Unrecorded ==
  ASSUME Calm, IInv, NEW p \in Plans, \A k \in Keys : owner[k] = p => ~Filled(k)
  PROVE  outcome[p].state = "none"
<1> SUFFICES ASSUME outcome[p].state # "none" PROVE FALSE OBVIOUS
<1>1. OutcomeOK(p, outcome[p], owner, order) BY DEF IInv, OutcomesOK
<1> QED BY <1>1 DEF OutcomeOK, FilledIn, Filled, Names, Calm

\* A record is written for an order that is there, or closed after it.
LEMMA RecordMapped ==
  ASSUME Calm, IInv, OnceInv, [Next]_vars, outcome' # outcome
  PROVE  Abstract!Next
<1>1. order' = order /\ owner' = owner BY OutcomesMove
<1>2. PICK p \in Plans :
        /\ \A q \in Plans \ {p} : outcome'[q] = outcome[q]
        /\ \/ outcome[p].state = "none" /\ outcome'[p].state = "open"
              /\ \E k \in Keys : owner[k] = p /\ Filled(k)
           \/ outcome[p].state = "open" /\ outcome'[p].state = "closed"
  BY OutcomesMove
<1>3. PlacedOrders' = PlacedOrders BY <1>1 DEF PlacedOrders, Reached
<1>4. Booked = [q \in Plans |-> outcome[q].state] /\ Booked' = [q \in Plans |-> outcome'[q].state]
  BY DEF Booked
<1>5. CASE outcome[p].state = "none" /\ outcome'[p].state = "open" /\ \E k \in Keys : owner[k] = p /\ Filled(k)
  <2>1. AtMt5(p) BY <1>5 DEF AtMt5, Filled, Reached
  <2>2. PlacedOrders[p] = 1 BY <2>1, PlacedCount DEF OnceInv
  <2>3. Booked[p] = "none" /\ Booked' = [Booked EXCEPT ![p] = "open"] BY <1>2, <1>4, <1>5
  <2>4. Abstract!Record(p) BY <1>3, <2>2, <2>3 DEF Abstract!Record
  <2> QED BY <2>4 DEF Abstract!Next
<1>6. CASE outcome[p].state = "open" /\ outcome'[p].state = "closed"
  <2>1. Booked[p] = "open" /\ Booked' = [Booked EXCEPT ![p] = "closed"] BY <1>2, <1>4, <1>6
  <2>2. Abstract!Settle(p) BY <1>3, <2>1 DEF Abstract!Settle
  <2> QED BY <2>2 DEF Abstract!Next
<1> QED BY <1>2, <1>5, <1>6

\* One order changes in a step, and only its own plan's count.
LEMMA OneOrder ==
  ASSUME Calm, IInv, OnceInv, [Next]_vars, order' # order
  PROVE  \E k \in Keys : order'[k] # order[k] /\ \A j \in Keys \ {k} : order'[j] = order[j]
<1>1. order \in [Keys -> OrderState] BY DEF IInv, KeysOK
<1>2. \E k, s : order' = [order EXCEPT ![k] = s]
  BY OrderFrame
     DEF SendOrder, CancelAtMt5, CancelExpired, Accept, Refuse, Trigger, BrokerCancel, ClosePosition
<1>3. PICK k, s : order' = [order EXCEPT ![k] = s] BY <1>2
<1>4. k \in Keys /\ order'[k] # order[k] BY <1>1, <1>3
<1> QED BY <1>1, <1>3, <1>4

\* A step that changes the orders: one is sent, refused, cancelled, or goes on.
LEMMA OrderMapped ==
  ASSUME Calm, IInv, OnceInv, OnceInv', [Next]_vars, order' # order
  PROVE  [Abstract!Next]_(Abstract!vars)
<1>0. PICK k \in Keys : order'[k] # order[k] /\ \A j \in Keys \ {k} : order'[j] = order[j] BY OneOrder
<1>1. OrderMove(k) /\ UNCHANGED <<outcome, owner>> BY OrdersMove
<1>2. Booked' = Booked BY <1>1 DEF Booked
<1>3. \A j \in Keys \ {k} : Reached(j)' <=> Reached(j) BY <1>0 DEF Reached
<1> SUFFICES ASSUME NEW p, p = owner[k] PROVE [Abstract!Next]_(Abstract!vars) OBVIOUS
<1>4. \A q \in Plans \ {p} : AtMt5(q)' <=> AtMt5(q) BY <1>1, <1>3 DEF AtMt5
<1>5. order'[k] # "none" => p \in Plans
  <2>1. Sent(k)' \/ order'[k] = "none" \/ order'[k] = "refused" BY DEF Sent
  <2>2. order[k] = "none" => order'[k] = "inflight" BY <1>0, <1>1 DEF OrderMove
  <2>3. ASSUME NEW f \in Flows, SendOrder(f), flow[f].key = k PROVE p \in Plans
    BY <2>3, ClaimFacts DEF SendOrder, Claimed, BeforeSend
  <2> QED BY <1>0, <1>1, <2>3, Known DEF OrderMove
<1>6. CASE Reached(k)' <=> Reached(k)
  <2>1. \A q \in Plans : AtMt5(q)' <=> AtMt5(q) BY <1>1, <1>3, <1>6 DEF AtMt5
  <2> QED BY <1>2, <2>1, SameMapped DEF OnceInv, Abstract!vars
\* Sent: the plan has no other order, nor a record.
<1>7. CASE Reached(k)' /\ ~Reached(k)
  <2>1. PICK f \in Flows : SendOrder(f) /\ flow[f].key = k BY <1>1, <1>7 DEF OrderMove, Reached
  <2>2. flow[f].pc \in Claimed /\ order[k] = "none"
    BY <2>1, ClaimFacts DEF SendOrder, Claimed, BeforeSend
  <2>3. flow[f].plan = p /\ p \in Plans BY <2>1, <2>2, ClaimFacts
  <2>4. ASSUME NEW j \in Keys, owner[j] = p PROVE ~Sent(j)
    BY <2>1, <2>2, <2>3, <2>4 DEF OnceInv, SoleInv, Sent
  <2>5. ~AtMt5(p) BY <2>4 DEF AtMt5, Reached, Sent
  <2>6. outcome[p].state = "none" BY <2>3, <2>4, Unrecorded DEF Filled, Sent
  <2>7. AtMt5(p)' BY <1>1, <1>7 DEF AtMt5
  <2>8. PlacedOrders' = [PlacedOrders EXCEPT ![p] = 1] BY <1>4, <2>3, <2>7, OneMapped DEF OnceInv
  <2>9. PlacedOrders[p] = 0 /\ Booked[p] = "none" BY <2>3, <2>5, <2>6, PlacedCount DEF OnceInv, Booked
  <2>10. Abstract!Place(p) BY <1>2, <2>8, <2>9 DEF Abstract!Place
  <2> QED BY <2>3, <2>10 DEF Abstract!Next
\* Refused or cancelled: it was the plan's only order, and not filled.
<1>8. CASE ~Reached(k)' /\ Reached(k)
  <2> DEFINE S == {p}
  <2>1. order[k] \in {"inflight", "pending"} /\ order'[k] # "none"
    BY <1>1, <1>8 DEF OrderMove, Reached
  <2>2. p \in Plans BY <1>5, <2>1
  <2>3. ASSUME NEW j \in Keys, owner[j] = p, Sent(j) PROVE j = k
    BY <2>1, <2>3 DEF OnceInv, SoleInv, Sent
  <2>4. AtMt5(p) BY <1>8 DEF AtMt5
  <2>5. ~AtMt5(p)'
    <3>1. \A j \in Keys : Reached(j) => Sent(j) BY DEF Reached, Sent
    <3>2. \A j \in Keys : owner[j] = p /\ Reached(j) => j = k BY <2>3, <3>1
    <3> QED BY <1>1, <1>3, <1>8, <3>2 DEF AtMt5
  <2>6. outcome[p].state = "none"
    <3>1. \A j \in Keys : owner[j] = p => ~Filled(j) BY <2>1, <2>3 DEF Filled, Sent
    <3> QED BY <2>2, <3>1, Unrecorded
  <2>7. PlacedOrders' = [PlacedOrders EXCEPT ![p] = 0] BY <1>4, <2>2, <2>5, OneMapped DEF OnceInv
  <2>8. PlacedOrders = [q \in Plans |-> PlacedOrders[q]] BY DEF PlacedOrders
  <2>9. PlacedOrders' = [q \in Plans |-> IF q \in S THEN 0 ELSE PlacedOrders[q]] BY <2>7, <2>8
  <2>10. PlacedOrders[p] = 1 /\ Booked[p] = "none" BY <2>2, <2>4, <2>6, PlacedCount DEF OnceInv, Booked
  <2>11. Abstract!Refuse(S) BY <1>2, <2>9, <2>10 DEF Abstract!Refuse
  <2>12. S \in SUBSET Plans BY <2>2
  <2> HIDE DEF S
  <2> QED BY <2>11, <2>12 DEF Abstract!Next
<1> QED BY <1>6, <1>7, <1>8

\* A step that leaves the orders and the records alone.
LEMMA IdleMapped ==
  ASSUME IInv, OnceInv, OnceInv', [Next]_vars, order' = order, outcome' = outcome
  PROVE  UNCHANGED Abstract!vars
<1>1. \A k \in Keys : Reached(k)' <=> Reached(k) BY DEF Reached
<1>2. \A k \in Keys : Reached(k) => owner'[k] = owner[k] BY OwnersKeep DEF Reached
<1>3. \A p \in Plans : AtMt5(p)' <=> AtMt5(p) BY <1>1, <1>2 DEF AtMt5
<1>4. Booked' = Booked BY DEF Booked
<1> QED BY <1>3, <1>4, SameMapped DEF OnceInv, Abstract!vars

\* "NO BLIND RETRY": the lifecycle implements TradeOnce.  Of every plan at most
\* one order is at MT5, another only after MT5 refused or cancelled it, and it
\* is recorded once, for any number of requests and restarts, while MT5 and the
\* database answer and ticks do not overlap.
THEOREM TradedOnce == ASSUME Calm PROVE Spec => TradesOnce
<1>1. Init => Abstract!Init
  <2> SUFFICES ASSUME Init PROVE Abstract!Init OBVIOUS
  <2>1. SoleInv BY InitOnce DEF OnceInv
  <2>2. \A p \in Plans : ~AtMt5(p) BY DEF Init, AtMt5, Reached
  <2>3. \A p \in Plans : PlacedOrders[p] = 0 BY <2>1, <2>2, PlacedCount
  <2>4. PlacedOrders = [p \in Plans |-> 0]
    <3>1. PlacedOrders = [p \in Plans |-> PlacedOrders[p]] BY DEF PlacedOrders
    <3> QED BY <2>3, <3>1
  <2>5. Booked = [p \in Plans |-> "none"] BY DEF Init, Booked, NoOutcome
  <2> QED BY <2>4, <2>5 DEF Abstract!Init
<1>2. IInv /\ OnceInv /\ OnceInv' /\ [Next]_vars => [Abstract!Next]_(Abstract!vars)
  BY RecordMapped, OrderMapped, IdleMapped
<1> QED BY <1>1, <1>2, OnceHolds, PTL DEF TradesOnce, Abstract!Spec, Spec
=============================================================================
